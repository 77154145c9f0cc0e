------------------------------- MODULE Mailbox -------------------------------
(***************************************************************************)
(* What the 64-byte shared-memory bridge promises the Brain and the        *)
(* executor when both keep up: a mailbox for one signal.  A signal is      *)
(* posted, withdrawn or replaced while it waits, or taken and delivered,   *)
(* whole and at most once, in the order of posting.                        *)
(***************************************************************************)
EXTENDS Integers, Sequences

CONSTANTS Cells, MaxSignals

None == -1

\* The opportunity signal n carries: every cell written for n.
Whole(n) == [c \in Cells |-> n]

VARIABLES posted,       \* signals posted so far; they are numbered from 1
          slot,         \* the signal waiting, or None
          hand,         \* the signal the executor took, or None
          delivered     \* the opportunities handed to the pipeline

mvars == <<posted, slot, hand, delivered>>

\* The file may hold a signal of an earlier session, number 0.
Init ==
    /\ posted = 0
    /\ slot \in {None, 0}
    /\ hand = None
    /\ delivered = <<>>

Post ==
    /\ posted < MaxSignals
    /\ \E n \in (posted + 1)..MaxSignals : posted' = n /\ slot' = n
    /\ UNCHANGED <<hand, delivered>>

Withdraw ==
    /\ slot # None
    /\ slot' = None
    /\ UNCHANGED <<posted, hand, delivered>>

Take ==
    /\ slot # None
    /\ hand = None
    /\ hand' = slot
    /\ slot' = None
    /\ UNCHANGED <<posted, delivered>>

Deliver ==
    /\ hand # None
    /\ delivered' = Append(delivered, Whole(hand))
    /\ hand' = None
    /\ UNCHANGED <<posted, slot>>

Next == Post \/ Withdraw \/ Take \/ Deliver

Spec == Init /\ [][Next]_mvars

FairSpec == Spec /\ WF_mvars(Take) /\ WF_mvars(Deliver)

\* A delivered opportunity carries one signal, and signals are delivered in the
\* order they were posted, none of them twice.
DeliveredInOrder ==
    /\ \A i \in DOMAIN delivered : \E n \in 0..posted : delivered[i] = Whole(n)
    /\ \A i, j \in DOMAIN delivered :
         i < j => \A c \in Cells : delivered[i][c] < delivered[j][c]
=============================================================================
