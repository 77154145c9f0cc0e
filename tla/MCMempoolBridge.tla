--------------------------- MODULE MCMempoolBridge ---------------------------
(***************************************************************************)
(* Small instances of MempoolBridge for TLC: two cells are enough to tear  *)
(* an opportunity, three signals to mix or repeat them.                    *)
(***************************************************************************)
EXTENDS MempoolBridge
=============================================================================
