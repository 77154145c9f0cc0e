--------------------------- MODULE MCNonceManager ---------------------------
(***************************************************************************)
(* Small instances of NonceManager for TLC.                                *)
(***************************************************************************)
EXTENDS NonceManager, TLC

\* The tasks are interchangeable; the pipeline thread is not one of them.
TaskSymmetry == Permutations(Tasks)
=============================================================================
