------------------------------- MODULE MCBrain -------------------------------
(***************************************************************************)
(* Small instances of Brain for TLC: the keys with one exchange, the feeds *)
(* with one wallet.                                                        *)
(***************************************************************************)
EXTENDS Brain, TLC

\* The exchanges are interchangeable.
ExchangeSymmetry == Permutations(Exchanges)

\* A bound: one message at a time is between its worker and its listener.
OneInFlight == Cardinality({e \in Exchanges : pipe[e] # <<>>}) <= 1
=============================================================================
