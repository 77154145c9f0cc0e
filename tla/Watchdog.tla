------------------------------ MODULE Watchdog ------------------------------
(***************************************************************************)
(* The watchdog daemon, src/watchdog/watchdog.py: main, the loop of        *)
(* WatchdogDaemon.run, the pings of ExchangePingMonitor and the emergency. *)
(* It sees one byte of the executor, a heartbeat that wraps; the executor  *)
(* (src/src/main.rs), the exchanges and the operator are its environment.  *)
(*                                                                         *)
(* The unit of time is CHECK_INTERVAL_S, the sleep between two turns.  A   *)
(* turn reads the byte and judges it in less than a unit; a ping or a      *)
(* cancel takes as long as it takes.                                       *)
(*                                                                         *)
(* check_all reads the results of its pings before any of them has run     *)
(* (line 278), which raises and ends the daemon: what follows in the code, *)
(* lines 279-283 and 366-377, is never reached as committed.  GroupEnds    *)
(* says which of the two a run is about, the code as it stands ("raises")  *)
(* or the loop those lines were written for ("read").                      *)
(***************************************************************************)
EXTENDS Integers

CONSTANTS
    Width,          \* the heartbeat counts modulo Width (2^8)
    Timeout,        \* HEARTBEAT_TIMEOUT_S, in units (50)
    PingEvery,      \* a turn in PingEvery pings the exchanges (5)
    NumCex,         \* exchanges, numbered in the order of the dictionaries (4)
    Keys,           \* those whose API key is in the environment
    GroupEnds       \* how check_all may end: "raises" or "read"

ASSUME WidthAssumption   == Width \in Nat \ {0}
ASSUME TimeAssumption    == Timeout \in Nat /\ PingEvery \in Nat \ {0}
ASSUME CexAssumption     == NumCex \in Nat /\ Keys \subseteq 1..NumCex
ASSUME GroupAssumption   == GroupEnds \subseteq {"raises", "read"}

Cex   == 1..NumCex
Bytes == 0..(Width - 1)

VARIABLES
    \* the executor and its byte 61 of the file
    exec,           \* "down", "up", "hung"
    file,           \* the file exists
    heartbeat,
    \* the exchanges
    fast,           \* those that answer a ping within MAX_LATENCY_MS
    \* the watchdog
    wd,             \* "off", "sleep", "ping", "cancel", "waiting", "exited", "failed"
    rested,         \* a unit of time went by since the last turn
    turn,           \* tick, modulo PingEvery
    hb_value,
    elapsed,        \* since hb_time, up to Timeout + 1
    next,           \* exchange the emergency turns to next
    asked,          \* exchanges a cancel was sent to
    shutdown,       \* _shutdown_requested
    \* history
    silence,        \* time since the executor's last sign of life, up to Timeout + 1
    lived,          \* the executor gave a sign of life since the last read
    wrapped,        \* a read since hb_time found the same byte after a sign of life
    alarm           \* why the emergency was triggered: "none", "stall", "read", "ping"

exec_vars == <<exec, file, heartbeat>>
loop_vars == <<rested, turn, hb_value, elapsed>>
cancel_vars == <<next, asked>>
history   == <<silence, lived, wrapped, alarm>>
vars == <<exec_vars, fast, wd, loop_vars, cancel_vars, shutdown, history>>

\* A file left by an earlier session holds any byte.
Init ==
    /\ exec = "down"
    /\ file \in BOOLEAN
    /\ heartbeat \in Bytes
    /\ fast \in SUBSET Cex
    /\ wd = "off"
    /\ rested = FALSE
    /\ turn = 0
    /\ hb_value = 0
    /\ elapsed = 0
    /\ next = 1
    /\ asked = {}
    /\ shutdown = FALSE
    /\ silence = Timeout + 1
    /\ lived = FALSE
    /\ wrapped = FALSE
    /\ alarm = "none"

-----------------------------------------------------------------------------
(* The environment *)

SignOfLife ==
    /\ silence' = 0
    /\ lived' = TRUE

\* main() creates the file and zeroes the heartbeat.
ExecStarts ==
    /\ exec = "down"
    /\ exec' = "up"
    /\ file' = TRUE
    /\ heartbeat' = 0
    /\ SignOfLife
    /\ UNCHANGED <<fast, wd, loop_vars, cancel_vars, shutdown, wrapped, alarm>>

\* One turn of the hot loop: hb.wrapping_add(1)
Beat ==
    /\ exec = "up"
    /\ heartbeat' = (heartbeat + 1) % Width
    /\ SignOfLife
    /\ UNCHANGED <<exec, file, fast, wd, loop_vars, cancel_vars, shutdown, wrapped, alarm>>

\* The hot loop hangs, or the process ends.
Stalls ==
    /\ exec = "up"
    /\ exec' \in {"hung", "down"}
    /\ UNCHANGED <<file, heartbeat, fast, wd, loop_vars, cancel_vars, shutdown, history>>

Resumes ==
    /\ exec = "hung"
    /\ exec' = "up"
    /\ UNCHANGED <<file, heartbeat, fast, wd, loop_vars, cancel_vars, shutdown, history>>

\* An exchange becomes slow or unreachable, or recovers.
NetworkChanges ==
    /\ \E e \in Cex : fast' = IF e \in fast THEN fast \ {e} ELSE fast \cup {e}
    /\ UNCHANGED <<exec_vars, wd, loop_vars, cancel_vars, shutdown, history>>

\* The clocks stop counting past the time-out, where nothing depends on them.
Older(t) == IF t > Timeout THEN t ELSE t + 1

TimePasses ==
    /\ elapsed' = Older(elapsed)
    /\ silence' = Older(silence)
    /\ rested' = TRUE
    /\ UNCHANGED <<exec_vars, fast, wd, turn, hb_value, cancel_vars, shutdown, lived, wrapped, alarm>>

-----------------------------------------------------------------------------
(* The watchdog *)

Running == wd \in {"sleep", "ping", "cancel", "waiting"}

\* main(): without the file it exits, and nothing starts it again.
StartFails ==
    /\ wd = "off"
    /\ ~file
    /\ wd' = "failed"
    /\ UNCHANGED <<exec_vars, fast, loop_vars, cancel_vars, shutdown, history>>

\* MmapWatchdog.open and the daemon's constructor: the first read
Start ==
    /\ wd = "off"
    /\ file
    /\ wd' = "sleep"
    /\ hb_value' = heartbeat
    /\ elapsed' = 0
    /\ rested' = FALSE
    /\ lived' = FALSE
    /\ UNCHANGED <<exec_vars, fast, turn, cancel_vars, shutdown, silence, wrapped, alarm>>

\* _trigger_emergency up to the cancels.  emergency_stop lowers the flag and the
\* cancels begin, or its seek, write or flush raises: no try is around the call,
\* and the exception leaves run() and main() before any exchange was asked.
\* It never comes back from its wait, so _emergency_triggered is not read again.
Trigger(reason) ==
    /\ \E stopped \in BOOLEAN : wd' = IF stopped THEN "cancel" ELSE "failed"
    /\ alarm' = reason
    /\ next' = 1
    /\ UNCHANGED asked

\* The beginning of a turn: asyncio.sleep has ended, tick += 1.
Wakes ==
    /\ wd = "sleep"
    /\ rested
    /\ rested' = FALSE
    /\ turn' = (turn + 1) % PingEvery
    /\ lived' = FALSE

\* Where a turn goes that found nothing wrong with the heartbeat.
AfterHeartbeat ==
    /\ wd' = IF turn' = 0 THEN "ping" ELSE "sleep"
    /\ UNCHANGED <<cancel_vars, alarm>>

\* Mutant: the value is remembered, the time is not.
ElapsedKept  == elapsed
ElapsedReset == 0

\* Mutant: the test for a negative value is missing.
ReadingsUnchecked == {heartbeat, -1}

\* What read_heartbeat may have returned past that test.
Readings == {heartbeat}

\* hb_changed
SeesChange ==
    /\ Wakes
    /\ \E current_hb \in Readings : current_hb # hb_value /\ hb_value' = current_hb
    /\ elapsed' = ElapsedReset
    /\ wrapped' = FALSE
    /\ AfterHeartbeat
    /\ UNCHANGED <<exec_vars, fast, shutdown, silence>>

\* Mutant: the clock is compared with the wrong constant.
OverdueNever == FALSE
Overdue      == elapsed > Timeout

SeesNoChange ==
    /\ Wakes
    /\ hb_value \in Readings
    /\ wrapped' = (wrapped \/ lived)
    /\ IF Overdue THEN Trigger("stall") ELSE AfterHeartbeat
    /\ UNCHANGED <<exec_vars, fast, shutdown, hb_value, elapsed, silence>>

\* An exception or a negative value from read_heartbeat
ReadFails ==
    /\ Wakes
    /\ Trigger("read")
    /\ UNCHANGED <<exec_vars, fast, shutdown, hb_value, elapsed, silence, wrapped>>

AllHealthy == fast = Cex

\* check_all and all_healthy.  The results are read inside the TaskGroup, where
\* no ping has run: InvalidStateError ends the loop, and main() with it.  The
\* other end is the code below line 278, were it ever reached.
CheckAll ==
    /\ wd = "ping"
    /\ \E end \in GroupEnds :
          IF end = "raises"
          THEN wd' = "failed" /\ UNCHANGED <<cancel_vars, alarm>>
          ELSE IF AllHealthy
               THEN wd' = "sleep" /\ UNCHANGED <<cancel_vars, alarm>>
               ELSE Trigger("ping")
    /\ UNCHANGED <<exec_vars, fast, loop_vars, shutdown, silence, lived, wrapped>>

\* Mutant: an exchange without a key ends the round.
StopAtMissingKey(answered) == IF next \in Keys THEN next + 1 ELSE NumCex + 1
\* Mutant: a failing request starts the round again.
StartAgain(answered)  == IF answered \/ next \notin Keys THEN next + 1 ELSE 1
AfterCancel(answered) == next + 1

\* One cancel_fn().  _cex_sync_request gives up after 10 s and returns None, and
\* nobody looks at what it returns.
CancelNext ==
    /\ wd = "cancel"
    /\ next <= NumCex
    /\ asked' = asked \cup ({next} \cap Keys)
    /\ \E answered \in BOOLEAN : next' = AfterCancel(answered)
    /\ UNCHANGED <<exec_vars, fast, wd, loop_vars, shutdown, history>>

\* The protocol is complete: while self._running, and nobody stops it.
CancelsDone ==
    /\ wd = "cancel"
    /\ next > NumCex
    /\ wd' = "waiting"
    /\ UNCHANGED <<exec_vars, fast, loop_vars, cancel_vars, shutdown, history>>

\* _signal_handler: the first signal only sets a variable that nobody reads, the
\* second exits wherever the daemon is.
Signalled ==
    /\ Running
    /\ shutdown' = TRUE
    /\ wd' = IF shutdown THEN "exited" ELSE wd
    /\ UNCHANGED <<exec_vars, fast, loop_vars, cancel_vars, history>>

-----------------------------------------------------------------------------
Turn == SeesChange \/ SeesNoChange \/ ReadFails

Daemon == Turn \/ CheckAll \/ CancelNext \/ CancelsDone

Next ==
    \/ ExecStarts \/ Beat \/ Stalls \/ Resumes \/ NetworkChanges \/ TimePasses
    \/ Start \/ StartFails \/ Daemon \/ Signalled

Spec == Init /\ [][Next]_vars

\* Time passes, and core 0 runs the daemon: sleeps, pings and cancels end.
FairSpec == Spec /\ WF_vars(TimePasses) /\ WF_vars(Daemon)

-----------------------------------------------------------------------------
(* Properties *)

\* Every variable has its type; the heartbeat is one byte, the two clocks are
\* capped just past the time-out.
TypeOK ==
    /\ exec \in {"down", "up", "hung"}
    /\ file \in BOOLEAN
    /\ heartbeat \in Bytes
    /\ fast \subseteq Cex
    /\ wd \in {"off", "sleep", "ping", "cancel", "waiting", "exited", "failed"}
    /\ rested \in BOOLEAN
    /\ turn \in 0..(PingEvery - 1)
    /\ hb_value \in Bytes
    /\ elapsed \in 0..(Timeout + 1)
    /\ next \in 1..(NumCex + 1)
    /\ asked \subseteq Cex
    /\ shutdown \in BOOLEAN
    /\ silence \in 0..(Timeout + 1)
    /\ lived \in BOOLEAN
    /\ wrapped \in BOOLEAN
    /\ alarm \in {"none", "stall", "read", "ping"}

\* The loop watches: neither in an emergency nor over.
Watching == wd \in {"sleep", "ping"}

\* No false alarm: when the daemon takes the executor for stalled, it has not
\* given a sign of life for longer than the time-out - unless the byte wrapped
\* round to the same value between two reads.
AlarmMeansSilence ==
    [][alarm' = "stall" /\ alarm # "stall" => wrapped' \/ silence > Timeout]_vars

\* The emergency leaves no exchange out: when it is complete, every exchange
\* with a key was asked to cancel, whatever keys are missing and calls failed.
EveryKeyAsked == wd = "waiting" => asked = Keys

\* Once emergency_stop has lowered the flag, every exchange with a key is asked,
\* whatever cancels fail, unless the operator ends the daemon.  That the flag is
\* lowered is not promised: emergency_stop may raise, and then nobody is asked.
EmergencyCompletes ==
    wd = "cancel" ~> (wd = "waiting" /\ asked = Keys) \/ wd = "exited"

\* An executor that stalls for good is noticed by a loop that still watches and
\* is not ended by its own pings.
StallCaught ==
    (Watching /\ exec # "up") ~> (exec = "up" \/ alarm # "none" \/ wd \in {"failed", "exited"})

\* What watchdog.py:7 promises without a condition: a stalled executor leads to
\* the emergency stop, unless the operator ends the daemon.
StallStops ==
    (Watching /\ exec # "up") ~> (exec = "up" \/ alarm # "none" \/ wd = "exited")
=============================================================================
