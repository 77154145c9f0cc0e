--------------------------- MODULE WatchdogProofs ---------------------------
(***************************************************************************)
(* The watchdog for every width of the heartbeat, time-out, number of      *)
(* exchanges and set of keys, and for either end of check_all.             *)
(***************************************************************************)
EXTENDS Watchdog, TLAPS

\* The clock of the daemon does not run ahead of the executor's silence, as
\* long as no sign of life went unseen.
ClockFollows == Watching /\ ~wrapped /\ ~lived => silence >= elapsed

\* The round of cancels: nobody is asked before the emergency, then the
\* exchanges with a key, in order.
RoundFollows ==
    /\ wd \in {"off", "sleep", "ping"} => asked = {}
    /\ wd \in {"cancel", "waiting"} => asked = Keys \cap 1..(next - 1)
    /\ wd = "waiting" => next = NumCex + 1

WInv == TypeOK /\ ClockFollows /\ RoundFollows

-----------------------------------------------------------------------------
LEMMA TypeInit == Init => TypeOK
<1>1. 0 \in Bytes /\ 0 \in 0..(PingEvery - 1) /\ 0 \in 0..(Timeout + 1)
      /\ Timeout + 1 \in 0..(Timeout + 1) /\ 1 \in 1..(NumCex + 1)
  BY WidthAssumption, TimeAssumption, CexAssumption DEF Bytes
<1> QED BY <1>1 DEF Init, TypeOK

\* What the helpers return.
LEMMA OlderType ==
    ASSUME NEW t \in 0..(Timeout + 1)
    PROVE  Older(t) \in 0..(Timeout + 1) /\ Older(t) >= t
BY TimeAssumption DEF Older

LEMMA OlderMonotone ==
    ASSUME NEW t \in 0..(Timeout + 1), NEW u \in 0..(Timeout + 1), t >= u
    PROVE  Older(t) >= Older(u)
BY TimeAssumption DEF Older

LEMMA WakesType ==
    ASSUME TypeOK, Wakes
    PROVE  rested' \in BOOLEAN /\ turn' \in 0..(PingEvery - 1) /\ lived' \in BOOLEAN
<1>1. turn' \in 0..(PingEvery - 1)
  <2>1. turn + 1 \in Nat /\ turn' = (turn + 1) % PingEvery
    BY TimeAssumption DEF TypeOK, Wakes
  <2> QED BY <2>1, TimeAssumption
<1> QED BY <1>1, Zenon DEF Wakes

LEMMA TypeNext ==
    ASSUME TypeOK, [Next]_vars
    PROVE  TypeOK'
<1> USE WidthAssumption, TimeAssumption, CexAssumption DEF TypeOK
<1>1. CASE ExecStarts
  BY <1>1 DEF ExecStarts, SignOfLife, Bytes, loop_vars, cancel_vars
<1>2. CASE Beat
  <2>1. heartbeat' \in Bytes
    BY <1>2 DEF Beat, Bytes
  <2> QED BY <1>2, <2>1 DEF Beat, SignOfLife, loop_vars, cancel_vars
<1>3. CASE Stalls
  BY <1>3 DEF Stalls, loop_vars, cancel_vars, history
<1>4. CASE Resumes
  BY <1>4 DEF Resumes, loop_vars, cancel_vars, history
<1>5. CASE NetworkChanges
  BY <1>5 DEF NetworkChanges, exec_vars, loop_vars, cancel_vars, history
<1>6. CASE TimePasses
  BY <1>6, OlderType DEF TimePasses, exec_vars, cancel_vars
<1>7. CASE Start
  <2>1. 0 \in 0..(Timeout + 1)
    OBVIOUS
  <2> QED BY <1>7, <2>1, Zenon DEF Start, exec_vars, cancel_vars
<1>8. CASE StartFails
  BY <1>8 DEF StartFails, exec_vars, loop_vars, cancel_vars, history
<1>9. CASE SeesChange
  <2>1. 0 \in 0..(Timeout + 1)
    OBVIOUS
  <2>2. wd' \in {"ping", "sleep"} /\ wrapped' = FALSE
    BY <1>9 DEF SeesChange, AfterHeartbeat
  <2>3. hb_value' = heartbeat
    BY <1>9 DEF SeesChange, Readings
  <2> QED BY <1>9, <2>1, <2>2, <2>3, WakesType, Zenon
      DEF SeesChange, AfterHeartbeat, ElapsedReset, exec_vars, cancel_vars
<1>10. CASE SeesNoChange
  <2>1. wrapped' \in BOOLEAN
    BY <1>10 DEF SeesNoChange
  <2> QED BY <1>10, <2>1, WakesType DEF SeesNoChange, Trigger, AfterHeartbeat, exec_vars, cancel_vars
<1>11. CASE ReadFails
  BY <1>11, WakesType DEF ReadFails, Trigger, exec_vars
<1>12. CASE CheckAll
  BY <1>12 DEF CheckAll, Trigger, exec_vars, loop_vars, cancel_vars
<1>13. CASE CancelNext
  BY <1>13 DEF CancelNext, AfterCancel, exec_vars, loop_vars, history, Cex
<1>14. CASE CancelsDone
  BY <1>14 DEF CancelsDone, exec_vars, loop_vars, cancel_vars, history
<1>15. CASE Signalled
  BY <1>15 DEF Signalled, exec_vars, loop_vars, cancel_vars, history
<1>16. CASE UNCHANGED vars
  BY <1>16 DEF vars, exec_vars, loop_vars, cancel_vars, history
<1> QED BY <1>1, <1>2, <1>3, <1>4, <1>5, <1>6, <1>7, <1>8, <1>9, <1>10, <1>11, <1>12, <1>13,
           <1>14, <1>15, <1>16 DEF Next, Daemon, Turn

\* A sign of life voids the premise; time passes for both clocks; a new hb_time
\* starts at 0; an emergency ends the watching.
LEMMA ClockNext ==
    ASSUME TypeOK, ClockFollows, [Next]_vars
    PROVE  ClockFollows'
<1> USE DEF ClockFollows, Watching
<1>1. CASE ExecStarts \/ Beat
  BY <1>1 DEF ExecStarts, Beat, SignOfLife
<1>2. CASE Stalls \/ Resumes \/ NetworkChanges \/ CancelNext
  BY <1>2 DEF Stalls, Resumes, NetworkChanges, CancelNext, loop_vars, history
<1>3. CASE TimePasses
  BY <1>3, OlderMonotone DEF TimePasses, TypeOK
<1>4. CASE Start
  BY <1>4 DEF Start, TypeOK
<1>5. CASE StartFails \/ CancelsDone
  BY <1>5 DEF StartFails, CancelsDone
<1>6. CASE SeesChange
  BY <1>6 DEF SeesChange, ElapsedReset, TypeOK
<1>7. CASE SeesNoChange
  BY <1>7 DEF SeesNoChange, Wakes, Trigger, AfterHeartbeat
<1>8. CASE ReadFails
  BY <1>8 DEF ReadFails, Trigger
<1>9. CASE CheckAll
  BY <1>9 DEF CheckAll, Trigger, loop_vars
<1>10. CASE Signalled
  BY <1>10 DEF Signalled, loop_vars, history
<1>11. CASE UNCHANGED vars
  BY <1>11 DEF vars, loop_vars, history
<1> QED BY <1>1, <1>2, <1>3, <1>4, <1>5, <1>6, <1>7, <1>8, <1>9, <1>10, <1>11 DEF Next, Daemon, Turn

LEMMA RoundNext ==
    ASSUME TypeOK, RoundFollows, [Next]_vars
    PROVE  RoundFollows'
<1> USE CexAssumption DEF RoundFollows
<1>1. CASE ExecStarts \/ Beat \/ Stalls \/ Resumes \/ NetworkChanges \/ TimePasses
  BY <1>1 DEF ExecStarts, Beat, Stalls, Resumes, NetworkChanges, TimePasses, cancel_vars
<1>2. CASE Start \/ StartFails
  BY <1>2 DEF Start, StartFails, cancel_vars
<1>3. ASSUME NEW reason, Trigger(reason), wd \in {"sleep", "ping"}
      PROVE  RoundFollows'
  BY <1>3 DEF Trigger
<1>4. CASE SeesChange
  BY <1>4 DEF SeesChange, Wakes, AfterHeartbeat, cancel_vars
<1>5. CASE SeesNoChange
  BY <1>3, <1>5 DEF SeesNoChange, Wakes, AfterHeartbeat, cancel_vars
<1>6. CASE ReadFails
  BY <1>3, <1>6 DEF ReadFails, Wakes
<1>7. CASE CheckAll
  BY <1>3, <1>7 DEF CheckAll, cancel_vars
<1>8. CASE CancelNext
  <2>1. next' = next + 1 /\ next \in 1..NumCex /\ wd' = wd /\ wd = "cancel"
    BY <1>8 DEF CancelNext, AfterCancel, TypeOK
  <2>2. asked' = (Keys \cap 1..(next - 1)) \cup ({next} \cap Keys)
    BY <1>8 DEF CancelNext
  <2>3. 1..(next' - 1) = 1..(next - 1) \cup {next}
    BY <2>1
  <2> QED BY <2>1, <2>2, <2>3
<1>9. CASE CancelsDone
  BY <1>9 DEF CancelsDone, cancel_vars, TypeOK
<1>10. CASE Signalled
  BY <1>10 DEF Signalled, Running, cancel_vars
<1>11. CASE UNCHANGED vars
  BY <1>11 DEF vars, cancel_vars
<1> QED BY <1>1, <1>2, <1>4, <1>5, <1>6, <1>7, <1>8, <1>9, <1>10, <1>11 DEF Next, Daemon, Turn

LEMMA InvInit == Init => WInv
BY TypeInit DEF Init, WInv, ClockFollows, RoundFollows, Watching

LEMMA InvAlways == Spec => []WInv
<1>1. WInv /\ [Next]_vars => WInv'
  BY TypeNext, ClockNext, RoundNext DEF WInv
<1> QED BY InvInit, <1>1, PTL DEF Spec

-----------------------------------------------------------------------------
\* Every variable keeps its type (watchdog.py: the fields of the daemon).
THEOREM WatchdogTyped == Spec => []TypeOK
<1>1. WInv => TypeOK
  BY DEF WInv
<1> QED BY InvAlways, <1>1, PTL

\* A completed emergency has asked every exchange that has a key (the loop over
\* CEX_EMERGENCY_CANCEL_ALL).
THEOREM EveryKeyAskedAlways == Spec => []EveryKeyAsked
<1>1. WInv => EveryKeyAsked
  <2> SUFFICES ASSUME WInv, wd = "waiting" PROVE asked = Keys
    BY DEF EveryKeyAsked
  <2>1. next - 1 = NumCex
    BY CexAssumption DEF WInv, RoundFollows
  <2>2. asked = Keys \cap 1..NumCex
    BY <2>1 DEF WInv, RoundFollows
  <2> QED BY <2>2, CexAssumption
<1> QED BY InvAlways, <1>1, PTL

\* A heartbeat alarm means a silence longer than the time-out, or a byte that
\* wrapped to the same value (the comparison of run() with hb_value and hb_time).
THEOREM AlarmMeansSilenceAlways == Spec => AlarmMeansSilence
<1> DEFINE Justified == alarm' = "stall" /\ alarm # "stall" => wrapped' \/ silence > Timeout
<1>1. ASSUME WInv, [Next]_vars PROVE [Justified]_vars
  <2> SUFFICES ASSUME alarm' = "stall", alarm # "stall"
               PROVE  wrapped' \/ silence > Timeout
    OBVIOUS
  <2>1. SeesNoChange /\ Overdue
    <3>1. alarm' # alarm
      OBVIOUS
    <3>2. ~(ExecStarts \/ Beat \/ Stalls \/ Resumes \/ NetworkChanges \/ TimePasses)
      BY <3>1 DEF ExecStarts, Beat, Stalls, Resumes, NetworkChanges, TimePasses, history
    <3>3. ~(Start \/ StartFails \/ CancelNext \/ CancelsDone \/ Signalled \/ UNCHANGED vars)
      BY <3>1 DEF Start, StartFails, CancelNext, CancelsDone, Signalled, vars, history
    <3>4. ~(SeesChange \/ ReadFails \/ CheckAll)
      BY <3>1 DEF SeesChange, ReadFails, CheckAll, Trigger, AfterHeartbeat
    <3>5. SeesNoChange
      BY <1>1, <3>2, <3>3, <3>4 DEF Next, Daemon, Turn
    <3> QED BY <3>1, <3>5 DEF SeesNoChange, AfterHeartbeat
  <2>2. CASE wrapped \/ lived
    BY <2>1, <2>2 DEF SeesNoChange
  <2>3. CASE ~wrapped /\ ~lived
    <3>1. silence >= elapsed
      BY <1>1, <2>1, <2>3 DEF WInv, ClockFollows, Watching, SeesNoChange, Wakes
    <3> QED BY <1>1, <2>1, <3>1, TimeAssumption DEF Overdue, WInv, TypeOK
  <2> QED BY <2>2, <2>3
<1> QED BY InvAlways, <1>1, PTL DEF Spec, AlarmMeansSilence
=============================================================================
