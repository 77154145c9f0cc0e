---------------------------- MODULE MailboxProofs ----------------------------
(***************************************************************************)
(* The mailbox delivers in order and at most once, for every number of     *)
(* signals and every payload.                                              *)
(***************************************************************************)
EXTENDS Mailbox, TLAPS

\* What is delivered is older than what is in the hand, and that than the slot.
MInv ==
    /\ posted \in Nat
    /\ slot \in {None} \cup 0..posted
    /\ hand \in {None} \cup 0..posted
    /\ delivered \in Seq([Cells -> Int])
    /\ hand # None /\ slot # None => hand < slot
    /\ \A i \in DOMAIN delivered : \E n \in 0..posted :
         /\ delivered[i] = Whole(n)
         /\ hand # None => n < hand
         /\ slot # None => n < slot
    /\ DeliveredInOrder

LEMMA MInit == Init => MInv
<1> SUFFICES ASSUME Init PROVE MInv
  OBVIOUS
<1>1. DOMAIN delivered = {} /\ delivered \in Seq([Cells -> Int])
  BY DEF Init
<1> QED BY <1>1 DEF Init, MInv, DeliveredInOrder, None

LEMMA MNext == MInv /\ [Next]_mvars => MInv'
<1> SUFFICES ASSUME MInv, [Next]_mvars PROVE MInv'
  OBVIOUS
<1> USE DEF MInv, None
<1>1. CASE Post
  <2>1. PICK n \in (posted + 1)..MaxSignals : posted' = n /\ slot' = n
    BY <1>1 DEF Post
  <2>2. posted' \in Nat /\ slot' \in 0..posted' /\ posted < slot' /\ hand' = hand
        /\ delivered' = delivered
    BY <1>1, <2>1 DEF Post
  <2>3. 0..posted \subseteq 0..posted'
    BY <2>1, <2>2
  <2>4. ASSUME NEW i \in DOMAIN delivered
        PROVE  \E k \in 0..posted' : /\ delivered[i] = Whole(k)
                                     /\ hand' # None => k < hand'
                                     /\ slot' # None => k < slot'
    <3>1. PICK k \in 0..posted : delivered[i] = Whole(k) /\ (hand # None => k < hand)
      OBVIOUS
    <3> QED BY <3>1, <2>2, <2>3
  <2>5. DeliveredInOrder'
    BY <2>2, <2>3 DEF DeliveredInOrder, Whole
  <2> QED BY <2>2, <2>3, <2>4, <2>5 DEF Whole
<1>2. CASE Withdraw
  BY <1>2 DEF Withdraw, DeliveredInOrder, Whole
<1>3. CASE Take
  BY <1>3 DEF Take, DeliveredInOrder, Whole
<1>4. CASE Deliver
  <2>1. /\ hand \in 0..posted /\ hand' = None
        /\ delivered' = Append(delivered, Whole(hand))
        /\ UNCHANGED <<posted, slot>>
    BY <1>4 DEF Deliver
  <2>2. Whole(hand) \in [Cells -> Int]
    BY <2>1 DEF Whole
  <2>3. /\ delivered' \in Seq([Cells -> Int])
        /\ DOMAIN delivered = 1..Len(delivered) /\ Len(delivered) \in Nat
        /\ DOMAIN delivered' = 1..(Len(delivered) + 1)
        /\ \A i \in DOMAIN delivered : delivered'[i] = delivered[i]
        /\ delivered'[Len(delivered) + 1] = Whole(hand)
    BY <2>1, <2>2
  <2>4. \A i \in DOMAIN delivered, c \in Cells : delivered[i][c] < Whole(hand)[c]
    <3> SUFFICES ASSUME NEW i \in DOMAIN delivered, NEW c \in Cells
                 PROVE  delivered[i][c] < hand
      BY DEF Whole
    <3>1. PICK n \in 0..posted : delivered[i] = Whole(n) /\ n < hand
      BY <2>1
    <3> QED BY <3>1 DEF Whole
  <2>5. \A i \in DOMAIN delivered' : \E n \in 0..posted :
          delivered'[i] = Whole(n) /\ (slot # None => n < slot)
    <3>1. ASSUME NEW i \in DOMAIN delivered', i # Len(delivered) + 1
          PROVE  i \in DOMAIN delivered
      BY <2>3, <3>1
    <3> QED BY <2>1, <2>3, <3>1
  <2>6. DeliveredInOrder'
    <3>1. ASSUME NEW i \in DOMAIN delivered', NEW j \in DOMAIN delivered', i < j,
                 NEW c \in Cells
          PROVE  delivered'[i][c] < delivered'[j][c]
      <4>1. i \in DOMAIN delivered
        BY <2>3, <3>1
      <4>2. CASE j = Len(delivered) + 1
        BY <2>3, <2>4, <4>1, <4>2
      <4>3. CASE j # Len(delivered) + 1
        <5>1. j \in DOMAIN delivered
          BY <2>3, <4>3
        <5> QED BY <2>3, <3>1, <4>1, <5>1 DEF DeliveredInOrder
      <4> QED BY <4>2, <4>3
    <3> QED BY <2>1, <2>5, <3>1 DEF DeliveredInOrder, Whole
  <2> QED BY <2>1, <2>3, <2>5, <2>6 DEF Whole
<1>5. CASE UNCHANGED mvars
  BY <1>5 DEF mvars, DeliveredInOrder, Whole
<1> QED BY <1>1, <1>2, <1>3, <1>4, <1>5 DEF Next

\* A mailbox never mixes two signals, repeats one or goes back to an older one.
THEOREM InOrderAlways == Spec => []DeliveredInOrder
<1>1. MInv => DeliveredInOrder
  BY DEF MInv
<1> QED BY <1>1, MInit, MNext, PTL DEF Spec
=============================================================================
