----------------------------- MODULE MCWatchdog -----------------------------
(***************************************************************************)
(* Small instances of Watchdog for TLC: a heartbeat of three values wraps  *)
(* between two reads, and a time-out of three units has pings in it.       *)
(***************************************************************************)
EXTENDS Watchdog
=============================================================================
