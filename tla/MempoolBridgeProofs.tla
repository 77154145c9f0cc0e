------------------------- MODULE MempoolBridgeProofs -------------------------
(***************************************************************************)
(* The shared cache line, for every number of cells, signals and deaths:   *)
(* what holds at every pace and whoever dies (GInv), and that the bridge   *)
(* implements the mailbox when the hot loop keeps up and lives (PInv).     *)
(***************************************************************************)
EXTENDS MempoolBridge, TLAPS

\* The cells follow the signals: none is ahead of the Brain, those written by
\* the send under way hold its number, none is behind the published signal.
CellsFollow ==
    /\ published <= signal
    /\ \A c \in Cells : published <= cell[c] /\ cell[c] <= signal
    /\ brain = "send" => \A c \in Cells \ todo : cell[c] = signal

\* The announced signal is not ahead of the published one, and a copy is sent
\* when it is complete.
CopyFollows ==
    /\ announced <= published
    /\ exec = "send" => tocopy = {}

GInv ==
    /\ TypeOK
    /\ CellsFollow
    /\ CopyFollows
    /\ NothingStale

-----------------------------------------------------------------------------
LEMMA TypeInit == Init => TypeOK
<1> SUFFICES ASSUME Init PROVE TypeOK
  OBVIOUS
<1>1. /\ cell \in [Cells -> 0..MaxSignals] /\ copied \in [Cells -> 0..MaxSignals]
      /\ signal \in 0..MaxSignals /\ published \in 0..MaxSignals
      /\ announced \in 0..MaxSignals
      /\ brain_deaths \in 0..MaxBrainDeaths /\ exec_deaths \in 0..MaxExecDeaths
  BY BoundsAssumption DEF Init
<1>2. delivered \in Seq([Cells -> 0..MaxSignals])
  BY DEF Init
<1> QED BY <1>1, <1>2 DEF Init, TypeOK

LEMMA TypeNext ==
    ASSUME TypeOK, [Next]_vars
    PROVE  TypeOK'
<1> USE BoundsAssumption DEF TypeOK
<1>1. CASE StartSend
  BY <1>1 DEF StartSend, exec_vars
<1>2. CASE Withdraw
  BY <1>2 DEF Withdraw, brain_vars, exec_vars
<1>3. ASSUME NEW c \in Cells, WriteCell(c) PROVE TypeOK'
  BY <1>3 DEF WriteCell, exec_vars
<1>4. CASE RaiseFlag
  BY <1>4 DEF RaiseFlag, FlagUp, exec_vars
<1>5. CASE BrainDies
  BY <1>5 DEF BrainDies, exec_vars
<1>6. CASE ExecStart
  BY <1>6 DEF ExecStart, brain_vars
<1>7. CASE Poll
  BY <1>7 DEF Poll, FlagSeen, brain_vars
<1>8. ASSUME NEW c \in Cells, CopyCell(c) PROVE TypeOK'
  BY <1>8 DEF CopyCell, brain_vars
<1>9. CASE Send
  <2>1. delivered' \in Seq([Cells -> 0..MaxSignals])
    BY <1>9 DEF Send
  <2> QED BY <1>9, <2>1 DEF Send, brain_vars
<1>10. CASE SendFails
  BY <1>10 DEF SendFails, AfterFailedSend, brain_vars
<1>11. CASE Clear
  BY <1>11 DEF Clear, FlagLowered, brain_vars
<1>12. CASE PipelineDies
  <2>1. exec_deaths' \in 0..MaxExecDeaths
    BY <1>12 DEF PipelineDies
  <2> QED BY <1>12, <2>1 DEF PipelineDies, brain_vars
<1>13. CASE ExecDies
  BY <1>13 DEF ExecDies, brain_vars
<1>14. CASE EmergencyStop
  BY <1>14 DEF EmergencyStop, brain_vars, exec_vars
<1>15. CASE UNCHANGED vars
  BY <1>15 DEF vars, brain_vars, exec_vars
<1> HIDE DEF TypeOK
<1> QED
  BY <1>1, <1>2, <1>3, <1>4, <1>5, <1>6, <1>7, <1>8, <1>9, <1>10, <1>11, <1>12, <1>13,
     <1>14, <1>15 DEF Next, BrainSends, HotLoop, Spin

\* Every field of the bridge is typed, for every bound.
THEOREM BridgeTyped == Spec => []TypeOK
BY TypeInit, TypeNext, PTL DEF Spec

-----------------------------------------------------------------------------
LEMMA GInit == Init => GInv
BY TypeInit DEF Init, GInv, CellsFollow, CopyFollows, NothingStale

LEMMA GNext == GInv /\ [Next]_vars => GInv'
<1> SUFFICES ASSUME GInv, [Next]_vars PROVE GInv'
  OBVIOUS
<1>0. TypeOK /\ TypeOK'
  BY TypeNext DEF GInv
<1> USE BoundsAssumption DEF CellsFollow, CopyFollows, NothingStale
\* Steps that touch neither the file's cells nor the copy under construction.
<1>1. ASSUME UNCHANGED <<cell, signal, published, copied, tocopy, announced>>,
             brain' = "send" => brain = "send" /\ todo' = todo,
             exec' \in {"copy", "send"} => exec' = exec
      PROVE  GInv'
  BY <1>0, <1>1 DEF GInv
<1>2. CASE Withdraw \/ BrainDies \/ ExecStart \/ Send \/ SendFails \/ Clear \/ PipelineDies
           \/ ExecDies \/ EmergencyStop
  <2>1. UNCHANGED <<cell, signal, published, copied, tocopy, announced>>
    BY <1>2 DEF Withdraw, BrainDies, ExecStart, Send, SendFails, AfterFailedSend, Clear, PipelineDies, ExecDies,
                EmergencyStop, brain_vars, exec_vars
  <2>2. /\ brain' = "send" => brain = "send" /\ todo' = todo
        /\ exec' \in {"copy", "send"} => exec' = exec
    BY <1>2 DEF Withdraw, BrainDies, ExecStart, Send, SendFails, AfterFailedSend, Clear, PipelineDies, ExecDies,
                EmergencyStop, brain_vars, exec_vars
  <2> QED BY <1>1, <2>1, <2>2
<1>3. CASE StartSend
  BY <1>0, <1>3 DEF GInv, StartSend, exec_vars, TypeOK
<1>4. ASSUME NEW c \in Cells, WriteCell(c) PROVE GInv'
  <2>1. /\ cell'[c] = signal
        /\ \A d \in Cells : d # c => cell'[d] = cell[d]
        /\ todo' = todo \ {c}
        /\ UNCHANGED <<signal, published, brain, exec_vars>>
    BY <1>0, <1>4 DEF WriteCell, TypeOK
  <2>2. /\ signal \in Nat /\ published \in Nat
        /\ \A d \in Cells : cell[d] \in Nat /\ cell'[d] \in Nat
    BY <1>0 DEF TypeOK
  <2>3. CellsFollow'
    BY <2>1, <2>2 DEF GInv
  <2> QED BY <1>0, <2>1, <2>3 DEF GInv, exec_vars
<1>5. CASE RaiseFlag
  <2>1. /\ \A c \in Cells : cell[c] = signal
        /\ published' = signal /\ brain' = "tick"
        /\ UNCHANGED <<cell, signal, exec_vars>>
    BY <1>5 DEF GInv, RaiseFlag, PayloadDone
  <2> QED BY <1>0, <2>1 DEF GInv, exec_vars, TypeOK
<1>6. CASE Poll
  BY <1>0, <1>6 DEF GInv, Poll, FlagSeen, brain_vars, TypeOK
<1>7. ASSUME NEW c \in Cells, CopyCell(c) PROVE GInv'
  <2>1. /\ exec = "copy"
        /\ copied'[c] = cell[c]
        /\ \A d \in Cells : d # c => copied'[d] = copied[d]
        /\ tocopy' = tocopy \ {c}
        /\ exec' = "send" => tocopy' = {}
        /\ UNCHANGED <<cell, brain_vars, announced>>
    BY <1>0, <1>7 DEF CopyCell, TypeOK
  <2>2. \A d \in Cells : cell[d] \in Nat /\ published \in Nat /\ announced \in Nat
    BY <1>0 DEF TypeOK
  <2>3. CellsFollow' /\ CopyFollows' /\ NothingStale'
    BY <2>1, <2>2 DEF GInv, brain_vars
  <2> QED BY <1>0, <2>3 DEF GInv
<1>8. CASE UNCHANGED vars
  BY <1>1, <1>8 DEF vars, brain_vars, exec_vars
<1> QED
  BY <1>2, <1>3, <1>4, <1>5, <1>6, <1>7, <1>8 DEF Next, BrainSends, HotLoop, Spin

LEMMA GAlways == Spec => []GInv
BY GInit, GNext, PTL DEF Spec

\* At every pace and whoever dies, a copy is at least as recent as the signal
\* whose flag the executor saw.
THEOREM NothingStaleAlways == Spec => []NothingStale
BY GAlways, PTL DEF GInv

-----------------------------------------------------------------------------
(* The bridge as a mailbox: the Brain ticks only in front of an idle hot     *)
(* loop, and the executor lives                                              *)

KeepsUp == Pace = "idle" /\ MaxExecDeaths = 0

\* The flag and the cells are written by one side at a time.
TurnTaking ==
    /\ exec # "down" => rx_open
    /\ brain = "send" => exec = "poll" /\ flag = 0 /\ published < signal
    /\ flag = 1 => \A c \in Cells : cell[c] = published
    /\ exec \in {"copy", "send"} =>
         /\ \A c \in Cells : cell[c] = announced
         /\ \A c \in Cells \ tocopy : copied[c] = announced

PInv == GInv /\ TurnTaking /\ OpportunitiesAreWhole

LEMMA PInit == Init => PInv
<1> SUFFICES ASSUME Init PROVE PInv
  OBVIOUS
<1>1. DOMAIN delivered = {}
  BY DEF Init
<1> QED BY <1>1, GInit DEF Init, PInv, TurnTaking, OpportunitiesAreWhole

\* What a complete copy is, when the two loops take turns.
LEMMA CopyIsWhole ==
    ASSUME GInv, TurnTaking, exec = "send"
    PROVE  copied = [c \in Cells |-> announced]
<1>1. tocopy = {} /\ copied \in [Cells -> 0..MaxSignals]
  BY DEF GInv, CopyFollows, TypeOK
<1>2. \A c \in Cells : copied[c] = announced
  BY <1>1 DEF TurnTaking
<1> QED BY <1>1, <1>2

LEMMA PNext ==
    ASSUME KeepsUp, PInv, [Next]_vars
    PROVE  PInv'
<1>0. GInv /\ GInv' /\ TypeOK
  BY GNext DEF PInv, GInv
<1>1. exec_deaths = 0 /\ ~(exec_deaths < MaxExecDeaths)
  BY <1>0 DEF TypeOK, KeepsUp
<1>2. MayTick => exec = "poll" /\ flag = 0
  BY DEF MayTick, KeepsUp
<1> USE DEF PInv, TurnTaking
<1>3. ASSUME delivered' = delivered PROVE OpportunitiesAreWhole'
  BY <1>3 DEF OpportunitiesAreWhole
<1>4. CASE StartSend
  <2>1. signal \in Nat /\ published <= signal
    BY <1>0, BoundsAssumption DEF TypeOK, GInv, CellsFollow
  <2>2. published \in Nat
    BY <1>0, BoundsAssumption DEF TypeOK
  <2> QED BY <1>0, <1>2, <1>3, <1>4, <2>1, <2>2 DEF StartSend, exec_vars
<1>5. CASE Withdraw
  BY <1>0, <1>3, <1>5 DEF Withdraw, brain_vars, exec_vars
<1>6. ASSUME NEW c \in Cells, WriteCell(c) PROVE PInv'
  BY <1>0, <1>3, <1>6 DEF WriteCell, exec_vars
<1>7. CASE RaiseFlag
  <2>1. \A c \in Cells : cell[c] = signal
    BY <1>0, <1>7 DEF RaiseFlag, PayloadDone, GInv, CellsFollow
  <2> QED BY <1>0, <1>3, <1>7, <2>1 DEF RaiseFlag, FlagUp, exec_vars
<1>8. CASE BrainDies
  BY <1>0, <1>3, <1>8 DEF BrainDies, exec_vars
<1>9. CASE ExecStart
  BY <1>0, <1>3, <1>9 DEF ExecStart, brain_vars
<1>10. CASE Poll
  <2>1. flag = 1
    BY <1>0, <1>10 DEF Poll, FlagSeen, TypeOK
  <2> QED BY <1>0, <1>3, <1>10, <2>1 DEF Poll, FlagSeen, brain_vars
<1>11. ASSUME NEW c \in Cells, CopyCell(c) PROVE PInv'
  <2>1. /\ exec = "copy" /\ exec' \in {"copy", "send"}
        /\ copied'[c] = cell[c]
        /\ \A d \in Cells : d # c => copied'[d] = copied[d]
        /\ tocopy' = tocopy \ {c}
        /\ UNCHANGED <<cell, flag, brain_vars, announced, rx_open, delivered>>
    BY <1>0, <1>11 DEF CopyCell, TypeOK
  <2>2. TurnTaking'
    BY <2>1 DEF brain_vars
  <2> QED BY <1>0, <1>3, <2>1, <2>2
<1>12. CASE Send
  <2>1. copied = [c \in Cells |-> announced]
    BY <1>0, <1>12, CopyIsWhole DEF Send
  <2>2. /\ DOMAIN delivered' = 1..(Len(delivered) + 1)
        /\ DOMAIN delivered = 1..Len(delivered) /\ Len(delivered) \in Nat
        /\ \A i \in DOMAIN delivered : delivered'[i] = delivered[i]
        /\ delivered'[Len(delivered) + 1] = copied
    BY <1>0, <1>12 DEF Send, TypeOK
  <2>3. OpportunitiesAreWhole'
    BY <2>1, <2>2 DEF OpportunitiesAreWhole
  <2> QED BY <1>0, <1>12, <2>3 DEF Send, brain_vars
<1>13. CASE SendFails
  BY <1>13 DEF SendFails, AfterFailedSend
<1>14. CASE Clear
  BY <1>0, <1>3, <1>14 DEF Clear, FlagLowered, brain_vars
<1>15. CASE PipelineDies \/ ExecDies
  BY <1>1, <1>15 DEF PipelineDies, ExecDies
<1>16. CASE EmergencyStop
  BY <1>0, <1>3, <1>16 DEF EmergencyStop, brain_vars, exec_vars
<1>17. CASE UNCHANGED vars
  BY <1>0, <1>3, <1>17 DEF vars, brain_vars, exec_vars
<1> QED
  BY <1>4, <1>5, <1>6, <1>7, <1>8, <1>9, <1>10, <1>11, <1>12, <1>13, <1>14, <1>15, <1>16,
     <1>17 DEF Next, BrainSends, HotLoop, Spin

\* When the hot loop keeps up and lives, no opportunity mixes two signals.
THEOREM WholeWhenKeepingUp ==
    ASSUME KeepsUp
    PROVE  Spec => []OpportunitiesAreWhole
<1>1. PInv /\ [Next]_vars => PInv'
  BY PNext
<1>2. PInv => OpportunitiesAreWhole
  BY DEF PInv
<1> QED BY <1>1, <1>2, PInit, PTL DEF Spec

LEMMA MailboxInit == Init => MB!Init
BY DEF Init, MB!Init, MB!None

LEMMA MailboxNext ==
    ASSUME KeepsUp, PInv, PInv', [Next]_vars
    PROVE  [MB!Next]_(MB!mvars)
<1>0. /\ TypeOK /\ TypeOK' /\ GInv /\ TurnTaking
      /\ published \in Nat /\ announced \in Nat /\ signal \in 0..MaxSignals
  BY BoundsAssumption DEF PInv, GInv, TypeOK
<1>1. exec_deaths = 0 /\ ~(exec_deaths < MaxExecDeaths)
  BY <1>0 DEF TypeOK, KeepsUp
<1>2. MayTick => exec = "poll" /\ flag = 0
  BY DEF MayTick, KeepsUp
<1> USE DEF MB!mvars, MB!None
<1>3. CASE StartSend \/ BrainDies \/ \E c \in Cells : WriteCell(c)
  BY <1>3 DEF StartSend, BrainDies, WriteCell, exec_vars
<1>4. CASE Withdraw
  BY <1>2, <1>4 DEF Withdraw
<1>5. CASE RaiseFlag
  <2>1. exec = "poll" /\ flag = 0 /\ published < signal
    BY <1>0, <1>5 DEF RaiseFlag, TurnTaking
  <2>2. signal \in (published + 1)..MaxSignals /\ published < MaxSignals
    BY <1>0, <2>1, BoundsAssumption
  <2>3. MB!Post
    BY <1>5, <2>1, <2>2 DEF RaiseFlag, FlagUp, MB!Post, exec_vars
  <2> QED BY <2>3 DEF MB!Next
<1>6. CASE ExecStart
  BY <1>6 DEF ExecStart, brain_vars
<1>7. CASE Poll
  <2>1. flag = 1
    BY <1>0, <1>7 DEF Poll, FlagSeen, TypeOK
  <2>2. MB!Take
    BY <1>0, <1>7, <2>1 DEF Poll, FlagSeen, MB!Take, brain_vars
  <2> QED BY <2>2 DEF MB!Next
<1>8. CASE \E c \in Cells : CopyCell(c)
  BY <1>8 DEF CopyCell, brain_vars
<1>9. CASE Send
  <2>1. copied = MB!Whole(announced)
    BY <1>0, <1>9, CopyIsWhole DEF Send, MB!Whole
  <2>2. MB!Deliver
    BY <1>0, <1>9, <2>1 DEF Send, MB!Deliver, brain_vars
  <2> QED BY <2>2 DEF MB!Next
<1>10. CASE SendFails
  BY <1>0, <1>10 DEF SendFails, AfterFailedSend, TurnTaking
<1>11. CASE Clear
  BY <1>11 DEF Clear, FlagLowered, brain_vars
<1>12. CASE PipelineDies \/ ExecDies
  BY <1>1, <1>12 DEF PipelineDies, ExecDies
<1>13. CASE EmergencyStop
  <2>1. CASE flag = 1 /\ exec \in {"down", "poll"}
    <3>1. MB!Withdraw
      BY <1>0, <1>13, <2>1 DEF EmergencyStop, MB!Withdraw, brain_vars, exec_vars
    <3> QED BY <3>1 DEF MB!Next
  <2>2. CASE ~(flag = 1 /\ exec \in {"down", "poll"})
    BY <1>13, <2>2 DEF EmergencyStop, brain_vars, exec_vars
  <2> QED BY <2>1, <2>2
<1>14. CASE UNCHANGED vars
  BY <1>14 DEF vars, brain_vars, exec_vars
<1> QED
  BY <1>3, <1>4, <1>5, <1>6, <1>7, <1>8, <1>9, <1>10, <1>11, <1>12, <1>13, <1>14
     DEF Next, BrainSends, HotLoop, Spin

\* When the hot loop keeps up and lives, the shared cache line implements the
\* mailbox, for every number of cells and signals and every death of the Brain.
THEOREM BridgeIsMailbox ==
    ASSUME KeepsUp
    PROVE  Spec => ImplementsMailbox
<1>1. PInv /\ [Next]_vars => PInv'
  BY PNext
<1>2. PInv /\ PInv' /\ [Next]_vars => [MB!Next]_(MB!mvars)
  BY MailboxNext
<1> QED BY <1>1, <1>2, PInit, MailboxInit, PTL DEF Spec, ImplementsMailbox, MB!Spec
=============================================================================
