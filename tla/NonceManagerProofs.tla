-------------------------- MODULE NonceManagerProofs --------------------------
(***************************************************************************)
(* The safety properties of NonceManager for every number of wallets and   *)
(* tasks, every retry limit and every pending nonce the node starts from.  *)
(*                                                                         *)
(* The inductive invariant IInv adds to the properties what they rest on:  *)
(* who holds the write guard of in_flight, what a task between two         *)
(* instructions knows of the shared atomics, and that a process in         *)
(* recover() has a chain nonce the node has indeed reached.                *)
(***************************************************************************)
EXTENDS NonceManager, TLAPS

\* A process between the lock and the unlock of recover() holds the guard.
GuardHeld ==
    \A p \in Procs : pc[p] \in HeldPC => locked[idx[p]]

\* Nothing in flight is above max_sent, nor is what a task is about to insert.
SentBelowMax ==
    /\ \A w \in Wallets : \A n \in in_flight[w] : n <= max_sent[w]
    /\ \A t \in Procs : pc[t] = "insert" => ticket[t] <= max_sent[idx[t]]

\* The answer recover() works with is a count the node has reached.
AnswerReached ==
    \A p \in Procs :
        pc[p] \in {"lock"} \cup HeldPC => chain_nonce[p] <= pending[idx[p]]

\* The tasks in fresh[w] hold nonces of w below the next one to hand out.
FreshHolders ==
    \A w \in Wallets : \A t \in fresh[w] :
        /\ idx[t] = w
        /\ ticket[t] < nonce[w]
        /\ pc[t] \in HolderPC \cup {"done"}

\* A confirmed verdict rests on a sighting more than 12 s old.
VerdictIsOld ==
    \A p \in Procs :
        pc[p] \in HeldPC /\ verdict[p] = "confirmed" => stuck_since[idx[p]] = "old"

\* A wallet is parked on a sighting more than 12 s old.
ParkedIsOld ==
    \A w \in Wallets : stuck[w] => stuck_since[w] = "old"

\* From its judgement on, a process about to park a wallet has its chain nonce in
\* flight, and once it stored the nonce that is the one it stored.
ParkingInFlight ==
    \A p \in Procs :
        /\ pc[p] \in HeldPC /\ verdict[p] = "confirmed" =>
             chain_nonce[p] \in in_flight[idx[p]]
        /\ pc[p] = "store_stuck" => synced[idx[p]] = chain_nonce[p]

\* mark_confirmed follows an answer that said success.
ConfirmedIsAcked ==
    \A t \in Procs : pc[t] = "confirm" => <<idx[t], ticket[t]>> \in acked

IInv ==
    /\ TypeOK
    /\ RecoveryExclusive
    /\ GuardHeld
    /\ SentBelowMax
    /\ CaseTwoNever
    /\ AnswerReached
    /\ NoNonceGap
    /\ FreshHolders
    /\ DistinctSinceResync
    /\ VerdictIsOld
    /\ ParkedIsOld
    /\ ParkingInFlight
    /\ ConfirmedIsAcked

-----------------------------------------------------------------------------
(* Facts about the operators *)

\* The round-robin counter modulo the number of wallets is a wallet.
LEMMA ModIsWallet ==
    ASSUME NEW a \in Nat
    PROVE  a % N \in Wallets
BY WalletsAssumption DEF Wallets

\* The first wallet exists.
LEMMA ZeroIsWallet == 0 \in Wallets
BY WalletsAssumption DEF Wallets

\* The step of the loop stays among the wallets.
LEMMA NextIsWallet ==
    ASSUME NEW w \in Wallets
    PROVE  /\ (w + 1) % N \in Wallets
           /\ w + 1 < N => w + 1 \in Wallets
<1>1. w + 1 \in Nat BY WalletsAssumption DEF Wallets
<1>2. (w + 1) % N \in Wallets BY <1>1, ModIsWallet
<1> QED BY <1>2, WalletsAssumption DEF Wallets

\* pc has its type and the process moved is one of Procs.
LEMMA LabelsArePCs ==
    /\ RecoverPC \subseteq PCs
    /\ HeldPC \subseteq RecoverPC
    /\ HolderPC \subseteq PCs
    /\ ProbePC \subseteq PCs
BY DEF PCs, RecoverPC, HeldPC, HolderPC, ProbePC

-----------------------------------------------------------------------------
(* Type correctness *)

LEMMA TypeInit == Init => TypeOK
<1> SUFFICES ASSUME Init PROVE TypeOK
  OBVIOUS
<1>1. pending \in [Wallets -> Nat]
  BY StartAssumption DEF Init
<1> QED
  BY <1>1, ZeroIsWallet DEF Init, TypeOK, PCs, HolderPC

LEMMA TypeNext ==
    ASSUME TypeOK, [Next]_vars
    PROVE  TypeOK'
<1> USE DEF TypeOK
<1> Tasks \subseteq Procs
  BY DEF Procs
<1>1. ASSUME NEW t \in Tasks, NextNonce(t) PROVE TypeOK'
  <2>1. round_robin % N \in Wallets BY ModIsWallet
  <2> QED BY <1>1, <2>1
      DEF NextNonce, Goto, wallet_vars, recover_vars, env_vars, history, PCs, ProbePC
<1>2. ASSUME NEW t \in Procs, Skip(t)
      PROVE  /\ idx' \in [Procs -> Wallets]
             /\ offset' \in [Procs -> Nat]
             /\ pc' \in [Procs -> PCs]
  <2>1. "load_stuck" \in PCs /\ "missed" \in PCs
    BY DEF PCs, ProbePC
  <2>2. pc' \in [Procs -> PCs] /\ offset' \in [Procs -> Nat]
    BY <1>2, <2>1 DEF Skip, Goto
  <2>3. idx' \in [Procs -> Wallets]
    BY <1>2, NextIsWallet DEF Skip
  <2> QED BY <2>2, <2>3
<1>3. ASSUME NEW t \in Tasks, Allocate(t) PROVE TypeOK'
  <2>1. CASE LoadStuck(t)
    BY <2>1, <1>2 DEF LoadStuck, StuckLoaded, Goto, wallet_vars, recover_vars, env_vars, history, PCs, ProbePC
  <2>2. CASE LoadRecovering(t)
    BY <2>2, <1>2 DEF LoadRecovering, Goto, wallet_vars, recover_vars, env_vars, history, PCs
  <2>3. CASE FetchAdd(t)
    BY <2>3 DEF FetchAdd, Advanced, Goto, recover_vars, env_vars, PCs, HolderPC
  <2>4. CASE FetchMax(t)
    BY <2>4 DEF FetchMax, Goto, task_vars, recover_vars, env_vars, history, PCs, HolderPC
  <2>5. CASE Insert(t)
    BY <2>5 DEF Insert, Goto, task_vars, recover_vars, env_vars, history, PCs, HolderPC
  <2> QED BY <1>3, <2>1, <2>2, <2>3, <2>4, <2>5 DEF Allocate
<1>4. ASSUME NEW p \in Procs, Return(p)
      PROVE  pc' \in [Procs -> PCs] /\ idx' \in [Procs -> Wallets]
  <2>1. \A label \in {"done", "recover", "dispatch"} :
          [pc EXCEPT ![p] = label] \in [Procs -> PCs]
    BY DEF PCs, HolderPC
  <2>2. idx[p] + 1 < N => [idx EXCEPT ![p] = @ + 1] \in [Procs -> Wallets]
    BY NextIsWallet
  <2> QED BY <1>4, <2>1, <2>2 DEF Return, Goto
<1>5. ASSUME NEW t \in Tasks, Broadcast(t) PROVE TypeOK'
  BY <1>5 DEF Broadcast, Goto, wallet_vars, recover_vars, Procs, PCs, HolderPC
<1>6. ASSUME NEW t \in Tasks, Confirm(t) PROVE TypeOK'
  BY <1>6 DEF Confirm, Goto, task_vars, recover_vars, env_vars, history, PCs, HolderPC
<1>7. ASSUME NEW p \in Procs, Recover(p) PROVE TypeOK'
  <2>1. CASE SwapRecovering(p)
    BY <2>1, <1>4 DEF SwapRecovering, Entered, Goto, recover_vars, env_vars, history,
                      PCs, HolderPC, RecoverPC
  <2>2. CASE RpcNone(p)
    BY <2>2, <1>4 DEF RpcNone, Cleared, recover_vars, env_vars, history
  <2>3. CASE RpcSome(p)
    BY <2>3 DEF RpcSome, Goto, wallet_vars, task_vars, env_vars, history,
                PCs, HolderPC, RecoverPC
  <2>4. CASE LockAndJudge(p)
    BY <2>4 DEF LockAndJudge, Retained, Judged, Goto, task_vars, env_vars, history,
                PCs, HolderPC, RecoverPC
  <2>5. CASE StoreNonce(p)
    BY <2>5 DEF StoreNonce, Resynced, Goto, task_vars, recover_vars, env_vars,
                PCs, HolderPC, RecoverPC
  <2>6. CASE StoreStuck(p)
    <3>1. Since(verdict[p], stuck_since[idx[p]]) \in {"none", "recent", "old"}
      BY DEF Since
    <3> QED
      BY <2>6, <3>1 DEF StoreStuck, Unlocked, Goto, task_vars, recover_vars, env_vars, history,
                        PCs, HolderPC, RecoverPC
  <2>7. CASE Release(p)
    BY <2>7, <1>4 DEF Release, Cleared, recover_vars, env_vars, history
  <2> QED BY <1>7, <2>1, <2>2, <2>3, <2>4, <2>5, <2>6, <2>7 DEF Recover
<1>8. ASSUME NEW w \in Wallets, Age(w) PROVE TypeOK'
  BY <1>8 DEF Age, task_vars, recover_vars, env_vars, history
<1>11. ASSUME NEW w \in Wallets, Mine(w) PROVE TypeOK'
  BY <1>11 DEF Mine, wallet_vars, task_vars, recover_vars, history
<1>9. CASE UNCHANGED vars
  BY <1>9 DEF vars, wallet_vars, task_vars, recover_vars, env_vars, history
<1> HIDE DEF TypeOK
<1>10. Main \in Procs
  BY DEF Procs
<1> QED
  BY <1>1, <1>3, <1>5, <1>6, <1>7, <1>8, <1>9, <1>10, <1>11 DEF Next, Step, AllServed

\* Every reachable state is typed: nonces stay natural numbers and the program
\* counters are those of the code, for every number of wallets and tasks.
THEOREM TypeCorrect == Spec => []TypeOK
BY TypeInit, TypeNext, PTL DEF Spec

-----------------------------------------------------------------------------
(* What the steps outside recover() leave alone, and those inside it *)

\* A task that allocates, broadcasts or confirms is not in recover() and stays
\* out of it; it touches neither the flags of the wallets nor another process.
LEMMA OutsideFrame ==
    ASSUME TypeOK, NEW t \in Tasks,
           NextNonce(t) \/ Allocate(t) \/ Broadcast(t) \/ Confirm(t)
    PROVE  /\ pc[t] \notin RecoverPC /\ pc'[t] \notin RecoverPC
           /\ \A q \in Procs : q # t => pc'[q] = pc[q] /\ idx'[q] = idx[q]
           /\ UNCHANGED <<stuck, recovering, locked, stuck_since,
                          chain_nonce, verdict, pending>>
<1> USE DEF TypeOK, RecoverPC, Goto
<1> t \in Procs
  BY DEF Procs
<1>1. CASE NextNonce(t)
  BY <1>1 DEF NextNonce, wallet_vars, recover_vars, env_vars
<1>2. ASSUME Skip(t) PROVE /\ pc'[t] \notin RecoverPC
                           /\ \A q \in Procs : q # t => pc'[q] = pc[q] /\ idx'[q] = idx[q]
  BY <1>2 DEF Skip
<1>3. CASE LoadStuck(t)
  BY <1>3, <1>2 DEF LoadStuck, StuckLoaded, wallet_vars, recover_vars, env_vars
<1>4. CASE LoadRecovering(t)
  BY <1>4, <1>2 DEF LoadRecovering, wallet_vars, recover_vars, env_vars
<1>5. CASE FetchAdd(t)
  BY <1>5 DEF FetchAdd, recover_vars, env_vars
<1>6. CASE FetchMax(t)
  BY <1>6 DEF FetchMax, task_vars, recover_vars, env_vars
<1>7. CASE Insert(t)
  BY <1>7 DEF Insert, task_vars, recover_vars, env_vars
<1>8. CASE Broadcast(t)
  BY <1>8 DEF Broadcast, wallet_vars, recover_vars
<1>9. CASE Confirm(t)
  BY <1>9 DEF Confirm, task_vars, recover_vars, env_vars
<1> QED
  BY <1>1, <1>3, <1>4, <1>5, <1>6, <1>7, <1>8, <1>9 DEF Allocate

\* A process in recover() moves no other process, hands out nothing and learns
\* nothing of the relays.
LEMMA RecoverFrame ==
    ASSUME TypeOK, NEW p \in Procs, Recover(p)
    PROVE  /\ \A q \in Procs : q # p => pc'[q] = pc[q] /\ idx'[q] = idx[q]
           /\ UNCHANGED <<max_sent, ticket, env_vars, issued, acked>>
<1> USE DEF TypeOK, Goto
<1>1. ASSUME Return(p)
      PROVE  \A q \in Procs : q # p => pc'[q] = pc[q] /\ idx'[q] = idx[q]
  BY <1>1 DEF Return
<1>2. CASE SwapRecovering(p)
  BY <1>2, <1>1 DEF SwapRecovering, Entered, env_vars, history
<1>3. CASE RpcNone(p)
  BY <1>3, <1>1 DEF RpcNone, env_vars, history
<1>4. CASE RpcSome(p)
  BY <1>4 DEF RpcSome, wallet_vars, task_vars, env_vars, history
<1>5. CASE LockAndJudge(p)
  BY <1>5 DEF LockAndJudge, task_vars, env_vars, history
<1>6. CASE StoreNonce(p)
  BY <1>6 DEF StoreNonce, task_vars, env_vars
<1>7. CASE StoreStuck(p)
  BY <1>7 DEF StoreStuck, task_vars, env_vars, history
<1>8. CASE Release(p)
  BY <1>8, <1>1 DEF Release, env_vars, history
<1> QED
  BY <1>2, <1>3, <1>4, <1>5, <1>6, <1>7, <1>8 DEF Recover

\* The steps of Next, by the side of recover() they are on.
LEMMA StepCases ==
    ASSUME [Next]_vars
    PROVE  \/ \E t \in Tasks : NextNonce(t) \/ Allocate(t) \/ Broadcast(t) \/ Confirm(t)
           \/ \E p \in Procs : Recover(p)
           \/ \E w \in Wallets : Age(w) \/ Mine(w)
           \/ UNCHANGED vars
BY DEF Next, Step, AllServed, Procs

-----------------------------------------------------------------------------
(* recover() is exclusive *)

LEMMA ExclusiveNext ==
    ASSUME TypeOK, RecoveryExclusive, [Next]_vars
    PROVE  RecoveryExclusive'
<1>1. ASSUME NEW t \in Tasks, NextNonce(t) \/ Allocate(t) \/ Broadcast(t) \/ Confirm(t)
      PROVE  RecoveryExclusive'
  <2>1. \A q \in Procs, w \in Wallets : InRecovery(q, w)' <=> InRecovery(q, w)
    BY <1>1, OutsideFrame DEF InRecovery
  <2>2. recovering' = recovering
    BY <1>1, OutsideFrame
  <2> QED BY <2>1, <2>2 DEF RecoveryExclusive
<1>2. ASSUME NEW p \in Procs, Recover(p)
      PROVE  RecoveryExclusive'
  <2>1. \A q \in Procs, w \in Wallets :
          q # p => (InRecovery(q, w)' <=> InRecovery(q, w))
    BY <1>2, RecoverFrame DEF InRecovery
  <2>2. idx[p] \in Wallets
    BY DEF TypeOK
  <2>3. ASSUME Return(p) PROVE \A w \in Wallets : ~InRecovery(p, w)'
    BY <2>3 DEF Return, Goto, RecoverPC, InRecovery, TypeOK
  <2>4. CASE SwapRecovering(p)
    <3>0. \A w \in Wallets : ~InRecovery(p, w)
      BY <2>4 DEF SwapRecovering, Entered, InRecovery, RecoverPC
    <3>1. CASE recovering[idx[p]] /\ Return(p) /\ recovering' = recovering
      BY <3>0, <3>1, <2>1, <2>3 DEF RecoveryExclusive
    <3>2. CASE ~recovering[idx[p]]
      <4>1. \A w \in Wallets : recovering'[w] <=> (recovering[w] \/ w = idx[p])
        BY <2>4, <3>2 DEF SwapRecovering, Entered, TypeOK
      <4>2. \A w \in Wallets : InRecovery(p, w)' <=> w = idx[p]
        BY <2>4, <3>2 DEF SwapRecovering, Entered, Goto, InRecovery, RecoverPC, TypeOK
      <4>3. \A q \in Procs : ~InRecovery(q, idx[p])
        BY <3>2, <2>2 DEF RecoveryExclusive
      <4>4. ASSUME NEW w \in Wallets
            PROVE  recovering'[w] <=> \E q \in Procs : InRecovery(q, w)'
        BY <3>0, <4>1, <4>2, <2>1 DEF RecoveryExclusive
      <4>5. ASSUME NEW w \in Wallets, NEW q \in Procs, NEW r \in Procs,
                   InRecovery(q, w)', InRecovery(r, w)'
            PROVE  q = r
        BY <4>2, <4>3, <4>5, <2>1 DEF RecoveryExclusive
      <4> QED BY <4>4, <4>5 DEF RecoveryExclusive
    <3> QED BY <2>4, <3>1, <3>2 DEF SwapRecovering, Entered
  <2>5. CASE RpcNone(p) \/ Release(p)
    <3>1. InRecovery(p, idx[p])
      BY <2>5 DEF RpcNone, Release, InRecovery, RecoverPC
    <3>2. \A w \in Wallets : recovering'[w] <=> (recovering[w] /\ w # idx[p])
      BY <2>5 DEF RpcNone, Release, Cleared, TypeOK
    <3>3. \A w \in Wallets : ~InRecovery(p, w)'
      BY <2>5, <2>3 DEF RpcNone, Release
    <3>4. ASSUME NEW w \in Wallets
          PROVE  recovering'[w] <=> \E q \in Procs : InRecovery(q, w)'
      <4>1. CASE w = idx[p]
        BY <4>1, <3>1, <3>2, <3>3, <2>1 DEF RecoveryExclusive
      <4>2. CASE w # idx[p]
        <5>1. ~InRecovery(p, w)
          BY <4>2 DEF InRecovery
        <5> QED BY <4>2, <5>1, <3>2, <3>3, <2>1 DEF RecoveryExclusive
      <4> QED BY <4>1, <4>2
    <3>5. ASSUME NEW w \in Wallets, NEW q \in Procs, NEW r \in Procs,
                 InRecovery(q, w)', InRecovery(r, w)'
          PROVE  q = r
      BY <3>3, <3>5, <2>1 DEF RecoveryExclusive
    <3> QED BY <3>4, <3>5 DEF RecoveryExclusive
  <2>6. CASE RpcSome(p) \/ LockAndJudge(p) \/ StoreNonce(p) \/ StoreStuck(p)
    <3>1. /\ pc[p] \in RecoverPC /\ pc'[p] \in RecoverPC
          /\ UNCHANGED <<idx, recovering>>
      BY <2>6 DEF RpcSome, LockAndJudge, StoreNonce, StoreStuck, Goto, RecoverPC,
                  wallet_vars, task_vars, TypeOK
    <3>2. \A w \in Wallets : InRecovery(p, w)' <=> InRecovery(p, w)
      BY <3>1 DEF InRecovery
    <3> QED BY <3>1, <3>2, <2>1 DEF RecoveryExclusive
  <2> QED BY <1>2, <2>4, <2>5, <2>6 DEF Recover
<1>3. CASE UNCHANGED <<pc, idx, recovering>>
  BY <1>3 DEF RecoveryExclusive, InRecovery
<1>4. ASSUME NEW w \in Wallets, Age(w) \/ Mine(w)
      PROVE  UNCHANGED <<pc, idx, recovering>>
  BY <1>4 DEF Age, Mine, wallet_vars, task_vars
<1>5. ASSUME UNCHANGED vars PROVE UNCHANGED <<pc, idx, recovering>>
  BY <1>5 DEF vars, wallet_vars, task_vars
<1> QED BY <1>1, <1>2, <1>3, <1>4, <1>5, StepCases

\* A process in recover() shares its wallet with no other process in recover().
LEMMA AloneInRecovery ==
    ASSUME TypeOK, RecoveryExclusive, NEW p \in Procs, pc[p] \in RecoverPC,
           NEW q \in Procs, q # p, pc[q] \in RecoverPC
    PROVE  idx[q] # idx[p]
BY DEF RecoveryExclusive, InRecovery, TypeOK

-----------------------------------------------------------------------------
(* What a process in recover() holds: the guard, a true answer, an old       *)
(* sighting when it parks the wallet                                         *)

HolderFacts == GuardHeld /\ AnswerReached /\ VerdictIsOld /\ ParkedIsOld

LEMMA HolderNext ==
    ASSUME TypeOK, RecoveryExclusive, HolderFacts, [Next]_vars
    PROVE  HolderFacts'
<1> USE DEF HolderFacts, GuardHeld, AnswerReached, VerdictIsOld, ParkedIsOld
<1>1. ASSUME NEW t \in Tasks, NextNonce(t) \/ Allocate(t) \/ Broadcast(t) \/ Confirm(t)
      PROVE  HolderFacts'
  BY <1>1, OutsideFrame DEF RecoverPC, HeldPC
<1>2. ASSUME NEW p \in Procs, Recover(p)
      PROVE  HolderFacts'
  <2>1. /\ \A q \in Procs : q # p => pc'[q] = pc[q] /\ idx'[q] = idx[q]
        /\ pending' = pending
    BY <1>2, RecoverFrame DEF env_vars
  <2>2. ASSUME Return(p) PROVE pc'[p] \notin {"lock"} \cup HeldPC
    BY <2>2 DEF Return, Goto, HeldPC, TypeOK
  <2>3. CASE SwapRecovering(p) \/ RpcNone(p) \/ Release(p)
    <3>1. /\ pc'[p] \notin {"lock"} \cup HeldPC
          /\ UNCHANGED <<locked, stuck, stuck_since, chain_nonce, verdict>>
      BY <2>3, <2>2 DEF SwapRecovering, Entered, RpcNone, Release, Goto, HeldPC, recover_vars, TypeOK
    <3> QED BY <3>1, <2>1
  <2>4. CASE RpcSome(p)
    <3>1. /\ pc'[p] = "lock" /\ idx' = idx
          /\ chain_nonce'[p] = pending[idx[p]]
          /\ \A q \in Procs : q # p => chain_nonce'[q] = chain_nonce[q]
          /\ UNCHANGED <<locked, stuck, stuck_since, verdict>>
      BY <2>4 DEF RpcSome, Goto, wallet_vars, task_vars, TypeOK
    <3>2. chain_nonce'[p] <= pending'[idx[p]]
      BY <3>1, <2>1 DEF TypeOK
    <3> QED BY <3>1, <3>2, <2>1 DEF HeldPC
  <2>5. CASE LockAndJudge(p)
    <3>1. /\ pc[p] = "lock" /\ pc'[p] = "store_nonce"
          /\ UNCHANGED <<idx, chain_nonce, stuck, stuck_since>>
          /\ \A w \in Wallets : locked'[w] <=> (locked[w] \/ w = idx[p])
          /\ \A q \in Procs : q # p => verdict'[q] = verdict[q]
          /\ verdict'[p] = "confirmed" => stuck_since[idx[p]] = "old"
      BY <2>5 DEF LockAndJudge, Judged, Goto, task_vars, TypeOK
    <3> QED BY <3>1, <2>1 DEF TypeOK, HeldPC
  <2>6. CASE StoreNonce(p)
    <3>1. /\ pc[p] = "store_nonce" /\ pc'[p] = "store_stuck"
          /\ UNCHANGED <<idx, chain_nonce, verdict, locked, stuck, stuck_since>>
      BY <2>6 DEF StoreNonce, Goto, task_vars, recover_vars, TypeOK
    <3> QED BY <3>1, <2>1 DEF HeldPC
  <2>7. CASE StoreStuck(p)
    <3>1. /\ pc[p] = "store_stuck" /\ pc'[p] = "release"
          /\ UNCHANGED <<idx, chain_nonce, verdict>>
      BY <2>7 DEF StoreStuck, Unlocked, Goto, task_vars, recover_vars, TypeOK
    <3>2. \A w \in Wallets : w # idx[p] =>
            /\ locked'[w] = locked[w]
            /\ stuck'[w] = stuck[w]
            /\ stuck_since'[w] = stuck_since[w]
      BY <2>7 DEF StoreStuck, Unlocked, TypeOK
    <3>3. stuck'[idx[p]] => verdict[p] = "confirmed"
      BY <2>7 DEF StoreStuck, Unlocked, TypeOK
    <3>4. verdict[p] = "confirmed" => stuck_since'[idx[p]] = stuck_since[idx[p]]
      BY <2>7 DEF StoreStuck, Unlocked, Since, TypeOK
    <3>5. \A q \in Procs : q # p /\ pc[q] \in HeldPC => idx[q] # idx[p]
      BY <3>1, AloneInRecovery DEF HeldPC, RecoverPC
    <3>6. GuardHeld'
      BY <3>1, <3>2, <3>5, <2>1 DEF HeldPC, TypeOK
    <3>7. AnswerReached'
      BY <3>1, <2>1 DEF HeldPC
    <3>8. VerdictIsOld'
      BY <3>1, <3>2, <3>5, <2>1 DEF HeldPC, TypeOK
    <3>9. ParkedIsOld'
      BY <3>1, <3>2, <3>3, <3>4 DEF HeldPC
    <3> QED BY <3>6, <3>7, <3>8, <3>9
  <2> QED BY <1>2, <2>3, <2>4, <2>5, <2>6, <2>7 DEF Recover
<1>3. ASSUME NEW w \in Wallets, Age(w) PROVE HolderFacts'
  <2>1. /\ UNCHANGED <<pc, idx, locked, stuck, chain_nonce, verdict, pending>>
        /\ \A v \in Wallets : stuck_since[v] = "old" => stuck_since'[v] = "old"
    BY <1>3 DEF Age, task_vars, recover_vars, env_vars, TypeOK
  <2> QED BY <2>1 DEF TypeOK
<1>4. ASSUME NEW w \in Wallets, Mine(w) PROVE HolderFacts'
  <2>1. /\ UNCHANGED <<pc, idx, locked, stuck, stuck_since, chain_nonce, verdict>>
        /\ \A v \in Wallets : pending'[v] \in Nat /\ pending[v] <= pending'[v]
    BY <1>4 DEF Mine, wallet_vars, task_vars, recover_vars, TypeOK
  <2>2. AnswerReached'
    BY <2>1 DEF TypeOK
  <2> QED BY <2>1, <2>2
<1>5. CASE UNCHANGED vars
  BY <1>5 DEF vars, wallet_vars, task_vars, recover_vars, env_vars
<1> QED BY <1>1, <1>2, <1>3, <1>4, <1>5, StepCases

-----------------------------------------------------------------------------
(* The nonces in flight *)

\* What a step does to max_sent, in_flight and the tasks about to insert.
SentFacts == SentBelowMax /\ CaseTwoNever

LEMMA SentNext ==
    ASSUME TypeOK, GuardHeld, SentFacts, [Next]_vars
    PROVE  SentFacts'
<1> USE DEF SentFacts, SentBelowMax, CaseTwoNever, GuardHeld
<1> Tasks \subseteq Procs
  BY DEF Procs
<1>1. ASSUME NEW p \in Procs,
             \A q \in Procs : q # p => pc'[q] = pc[q] /\ idx'[q] = idx[q]
                                       /\ ticket'[q] = ticket[q],
             pc'[p] \notin {"insert"} \cup HeldPC,
             UNCHANGED <<max_sent, in_flight, chain_nonce>>
      PROVE  SentFacts'
  BY <1>1
<1>2. ASSUME NEW t \in Tasks, NextNonce(t) \/ LoadStuck(t) \/ LoadRecovering(t)
                              \/ FetchAdd(t) \/ Broadcast(t)
      PROVE  SentFacts'
  <2>1. ASSUME Skip(t) PROVE pc'[t] \notin {"insert"} \cup HeldPC
    BY <2>1 DEF Skip, Goto, HeldPC, TypeOK
  <2>2. \A q \in Procs : q # t => pc'[q] = pc[q] /\ idx'[q] = idx[q]
    BY <1>2, OutsideFrame DEF Allocate
  <2>3. \A q \in Procs : q # t => ticket'[q] = ticket[q]
    BY <1>2 DEF NextNonce, LoadStuck, StuckLoaded, LoadRecovering, FetchAdd, Broadcast, TypeOK
  <2>4. pc'[t] \notin {"insert"} \cup HeldPC
    BY <1>2, <2>1 DEF NextNonce, LoadStuck, StuckLoaded, LoadRecovering, FetchAdd, Broadcast,
                      Goto, HeldPC, TypeOK
  <2>5. UNCHANGED <<max_sent, in_flight, chain_nonce>>
    BY <1>2 DEF NextNonce, LoadStuck, StuckLoaded, LoadRecovering, FetchAdd, Broadcast,
                wallet_vars, recover_vars
  <2> QED BY <1>1, <2>2, <2>3, <2>4, <2>5
<1>3. ASSUME NEW t \in Tasks, FetchMax(t) PROVE SentFacts'
  <2>1. /\ \A w \in Wallets : max_sent[w] <= max_sent'[w] /\ max_sent'[w] \in Nat
        /\ ticket[t] <= max_sent'[idx[t]]
        /\ UNCHANGED <<in_flight, idx, ticket, chain_nonce>>
        /\ \A q \in Procs : q # t => pc'[q] = pc[q]
        /\ pc'[t] = "insert"
    BY <1>3 DEF FetchMax, Goto, task_vars, recover_vars, TypeOK
  <2>2. SentBelowMax'
    BY <2>1 DEF TypeOK
  <2>3. CaseTwoNever'
    BY <2>1 DEF TypeOK, HeldPC
  <2> QED BY <2>2, <2>3
<1>4. ASSUME NEW t \in Tasks, Insert(t) \/ Confirm(t) PROVE SentFacts'
  <2>1. /\ \A n \in in_flight'[idx[t]] :
             n \in in_flight[idx[t]] \/ (n = ticket[t] /\ pc[t] = "insert")
        /\ \A w \in Wallets : w # idx[t] => in_flight'[w] = in_flight[w]
        /\ ~locked[idx[t]]
        /\ UNCHANGED <<max_sent, idx, ticket, chain_nonce>>
        /\ \A q \in Procs : q # t => pc'[q] = pc[q]
        /\ pc'[t] \notin {"insert"} \cup HeldPC
    BY <1>4 DEF Insert, Confirm, Goto, HeldPC, task_vars, recover_vars, TypeOK
  <2>2. SentBelowMax'
    BY <2>1 DEF TypeOK
  <2>3. CaseTwoNever'
    BY <2>1 DEF TypeOK
  <2> QED BY <2>2, <2>3
<1>5. ASSUME NEW p \in Procs, Recover(p) PROVE SentFacts'
  <2>1. /\ \A q \in Procs : q # p => pc'[q] = pc[q] /\ idx'[q] = idx[q]
        /\ UNCHANGED <<max_sent, ticket>>
    BY <1>5, RecoverFrame
  <2>2. ASSUME Return(p) PROVE pc'[p] \notin {"insert"} \cup HeldPC
    BY <2>2 DEF Return, Goto, HeldPC, TypeOK
  <2>3. CASE SwapRecovering(p) \/ RpcNone(p) \/ Release(p)
    <3>1. pc'[p] \notin {"insert"} \cup HeldPC
      BY <2>3, <2>2 DEF SwapRecovering, Entered, RpcNone, Release, Goto, HeldPC, TypeOK
    <3>2. UNCHANGED <<in_flight, chain_nonce>>
      BY <2>3 DEF SwapRecovering, Entered, RpcNone, Release, recover_vars
    <3> QED BY <1>1, <2>1, <3>1, <3>2
  <2>4. CASE RpcSome(p)
    <3>1. /\ pc'[p] = "lock"
          /\ \A q \in Procs : q # p => chain_nonce'[q] = chain_nonce[q]
          /\ UNCHANGED <<in_flight, idx>>
      BY <2>4 DEF RpcSome, Goto, wallet_vars, task_vars, TypeOK
    <3> QED BY <2>1, <3>1 DEF HeldPC
  <2>5. CASE LockAndJudge(p)
    <3>1. /\ in_flight'[idx[p]] = {n \in in_flight[idx[p]] : n >= chain_nonce[p]}
          /\ \A w \in Wallets : w # idx[p] => in_flight'[w] = in_flight[w]
          /\ ~locked[idx[p]]
          /\ UNCHANGED <<idx, chain_nonce>>
          /\ pc'[p] = "store_nonce"
      BY <2>5 DEF LockAndJudge, Retained, Goto, task_vars, TypeOK
    <3>2. SentBelowMax'
      BY <2>1, <3>1 DEF TypeOK
    <3>3. in_flight'[idx[p]] # {} => chain_nonce[p] <= max_sent[idx[p]]
      BY <3>1 DEF TypeOK
    <3>4. CaseTwoNever'
      BY <2>1, <3>1, <3>3 DEF TypeOK
    <3> QED BY <3>2, <3>4
  <2>6. CASE StoreNonce(p) \/ StoreStuck(p)
    <3>1. /\ pc[p] \in HeldPC /\ pc'[p] # "insert"
          /\ UNCHANGED <<in_flight, idx, chain_nonce>>
      BY <2>6 DEF StoreNonce, StoreStuck, Goto, HeldPC, task_vars, recover_vars, TypeOK
    <3> QED BY <2>1, <3>1
  <2> QED BY <1>5, <2>3, <2>4, <2>5, <2>6 DEF Recover
<1>6. CASE UNCHANGED <<pc, idx, ticket, max_sent, in_flight, chain_nonce>>
  BY <1>6
<1>7. ASSUME NEW w \in Wallets, Age(w) \/ Mine(w)
      PROVE  UNCHANGED <<pc, idx, ticket, max_sent, in_flight, chain_nonce>>
  BY <1>7 DEF Age, Mine, wallet_vars, task_vars, recover_vars
<1>8. ASSUME UNCHANGED vars
      PROVE  UNCHANGED <<pc, idx, ticket, max_sent, in_flight, chain_nonce>>
  BY <1>8 DEF vars, wallet_vars, task_vars, recover_vars
<1> QED
  BY <1>2, <1>3, <1>4, <1>5, <1>6, <1>7, <1>8, StepCases DEF Allocate

\* The guard keeps the nonce in flight, and the flag keeps other resyncs out.
LEMMA ParkingNext ==
    ASSUME TypeOK, RecoveryExclusive, GuardHeld, ParkingInFlight, [Next]_vars
    PROVE  ParkingInFlight'
<1> USE DEF ParkingInFlight
<1>1. ASSUME NEW t \in Tasks, NextNonce(t) \/ Allocate(t) \/ Broadcast(t) \/ Confirm(t)
      PROVE  ParkingInFlight'
  <2>1. /\ pc'[t] \notin HeldPC
        /\ \A q \in Procs : q # t => pc'[q] = pc[q] /\ idx'[q] = idx[q]
        /\ UNCHANGED <<chain_nonce, verdict>>
    BY <1>1, OutsideFrame DEF HeldPC, RecoverPC
  <2>2. synced' = synced
    BY <1>1 DEF NextNonce, Allocate, LoadStuck, LoadRecovering, FetchAdd, FetchMax,
                Insert, Broadcast, Confirm, history
  <2>3. \A w \in Wallets : locked[w] => in_flight'[w] = in_flight[w]
    BY <1>1 DEF NextNonce, Allocate, LoadStuck, LoadRecovering, FetchAdd, FetchMax,
                Insert, Broadcast, Confirm, wallet_vars, TypeOK
  <2>4. \A q \in Procs : pc[q] \in HeldPC => locked[idx[q]] /\ idx[q] \in Wallets
    BY DEF GuardHeld, TypeOK
  <2>5. "store_stuck" \in HeldPC
    BY DEF HeldPC
  <2> QED BY <2>1, <2>2, <2>3, <2>4, <2>5
<1>2. ASSUME NEW p \in Procs, Recover(p) PROVE ParkingInFlight'
  <2>1. \A q \in Procs : q # p => pc'[q] = pc[q] /\ idx'[q] = idx[q]
    BY <1>2, RecoverFrame
  <2>2. ASSUME Return(p) PROVE pc'[p] \notin HeldPC
    BY <2>2 DEF Return, Goto, HeldPC, TypeOK
  <2>3. "store_stuck" \in HeldPC
    BY DEF HeldPC
  <2>4. CASE SwapRecovering(p) \/ RpcNone(p) \/ Release(p)
    <3>1. /\ pc'[p] \notin HeldPC
          /\ UNCHANGED <<in_flight, chain_nonce, verdict, synced>>
      BY <2>4, <2>2 DEF SwapRecovering, Entered, RpcNone, Release, Goto, HeldPC,
                        recover_vars, history, TypeOK
    <3> QED BY <2>1, <2>3, <3>1
  <2>5. CASE RpcSome(p)
    <3>1. /\ pc'[p] \notin HeldPC
          /\ \A q \in Procs : q # p => chain_nonce'[q] = chain_nonce[q]
          /\ UNCHANGED <<in_flight, verdict, synced>>
      BY <2>5 DEF RpcSome, Goto, HeldPC, wallet_vars, history, TypeOK
    <3> QED BY <2>1, <2>3, <3>1
  <2>6. CASE LockAndJudge(p)
    <3>1. /\ pc[p] = "lock" /\ pc'[p] = "store_nonce"
          /\ UNCHANGED <<idx, chain_nonce, synced>>
          /\ ~locked[idx[p]]
          /\ \A w \in Wallets : w # idx[p] => in_flight'[w] = in_flight[w]
          /\ \A q \in Procs : q # p => verdict'[q] = verdict[q]
      BY <2>6 DEF LockAndJudge, Goto, task_vars, history, TypeOK
    <3>2. verdict'[p] = "confirmed" => chain_nonce[p] \in in_flight'[idx[p]]
      BY <2>6 DEF LockAndJudge, Judged, Frontier, TypeOK
    <3>3. \A q \in Procs : pc[q] \in HeldPC => idx[q] # idx[p] /\ idx[q] \in Wallets
      BY <3>1 DEF GuardHeld, TypeOK
    <3> QED BY <2>1, <2>3, <3>1, <3>2, <3>3
  <2>7. CASE StoreNonce(p)
    <3>1. /\ pc[p] \in HeldPC /\ pc'[p] \in HeldPC
          /\ UNCHANGED <<idx, chain_nonce, verdict, in_flight>>
          /\ synced'[idx[p]] = chain_nonce[p]
          /\ \A w \in Wallets : w # idx[p] => synced'[w] = synced[w]
      BY <2>7 DEF StoreNonce, Resynced, Goto, HeldPC, task_vars, recover_vars, TypeOK
    <3>2. \A q \in Procs : q # p /\ pc[q] \in HeldPC => idx[q] # idx[p] /\ idx[q] \in Wallets
      BY <3>1, AloneInRecovery, LabelsArePCs DEF TypeOK
    <3> QED BY <2>1, <2>3, <3>1, <3>2
  <2>8. CASE StoreStuck(p)
    <3>1. /\ pc'[p] \notin HeldPC
          /\ UNCHANGED <<in_flight, chain_nonce, verdict, synced>>
      BY <2>8 DEF StoreStuck, Goto, HeldPC, recover_vars, history, TypeOK
    <3> QED BY <2>1, <2>3, <3>1
  <2> QED BY <1>2, <2>4, <2>5, <2>6, <2>7, <2>8 DEF Recover
<1>3. CASE UNCHANGED <<pc, idx, in_flight, chain_nonce, verdict, synced>>
  BY <1>3
<1>4. ASSUME NEW w \in Wallets, Age(w) \/ Mine(w)
      PROVE  UNCHANGED <<pc, idx, in_flight, chain_nonce, verdict, synced>>
  BY <1>4 DEF Age, Mine, wallet_vars, task_vars, recover_vars, history
<1>5. ASSUME UNCHANGED vars
      PROVE  UNCHANGED <<pc, idx, in_flight, chain_nonce, verdict, synced>>
  BY <1>5 DEF vars, wallet_vars, task_vars, recover_vars, history
<1> QED BY <1>1, <1>2, <1>3, <1>4, <1>5, StepCases

-----------------------------------------------------------------------------
(* The nonces handed out *)

LEMMA GapNext ==
    ASSUME TypeOK, AnswerReached, NoNonceGap, [Next]_vars
    PROVE  NoNonceGap'
<1> USE DEF NoNonceGap
<1> Tasks \subseteq Procs
  BY DEF Procs
<1>1. CASE UNCHANGED <<nonce, pending>> /\ issued \subseteq issued'
  BY <1>1
<1>2. ASSUME NEW t \in Tasks, FetchAdd(t) PROVE NoNonceGap'
  <2>1. /\ issued' = issued \cup {<<idx[t], nonce[idx[t]]>>}
        /\ nonce'[idx[t]] = nonce[idx[t]] + 1
        /\ \A w \in Wallets : w # idx[t] => nonce'[w] = nonce[w]
        /\ pending' = pending
    BY <1>2 DEF FetchAdd, Advanced, env_vars, TypeOK
  <2>2. SUFFICES ASSUME NEW w \in Wallets, NEW n \in pending[w]..(nonce'[w] - 1)
                 PROVE  <<w, n>> \in issued'
    BY <2>1
  <2>3. pending[w] \in Nat /\ nonce[w] \in Nat
    BY DEF TypeOK
  <2>4. CASE w = idx[t]
    <3>1. n \in pending[w]..(nonce[w] - 1) \/ n = nonce[w]
      BY <2>1, <2>3, <2>4
    <3> QED BY <2>1, <2>4, <3>1
  <2>5. CASE w # idx[t]
    BY <2>1, <2>5
  <2> QED BY <2>4, <2>5
<1>3. ASSUME NEW t \in Tasks, NextNonce(t) \/ LoadStuck(t) \/ LoadRecovering(t) \/ FetchMax(t)
                              \/ Insert(t) \/ Broadcast(t) \/ Confirm(t)
      PROVE  UNCHANGED <<nonce, pending>> /\ issued \subseteq issued'
  BY <1>3 DEF NextNonce, LoadStuck, StuckLoaded, LoadRecovering, FetchMax, Insert, Broadcast, Confirm,
              wallet_vars, env_vars, history
<1>4. ASSUME NEW p \in Procs, StoreNonce(p) PROVE NoNonceGap'
  <2>1. /\ nonce'[idx[p]] = chain_nonce[p]
        /\ \A w \in Wallets : w # idx[p] => nonce'[w] = nonce[w]
        /\ UNCHANGED <<issued, pending>>
    BY <1>4 DEF StoreNonce, Resynced, env_vars, TypeOK
  <2>2. chain_nonce[p] <= pending[idx[p]]
    BY <1>4 DEF StoreNonce, AnswerReached, HeldPC
  <2>3. SUFFICES ASSUME NEW w \in Wallets, NEW n \in pending[w]..(nonce'[w] - 1)
                 PROVE  <<w, n>> \in issued
    BY <2>1
  <2>4. CASE w = idx[p]
    <3>1. pending[w] \in Nat /\ chain_nonce[p] \in Nat
      BY DEF TypeOK
    <3> QED BY <2>1, <2>2, <2>4, <3>1
  <2>5. CASE w # idx[p]
    BY <2>1, <2>5
  <2> QED BY <2>4, <2>5
<1>5. ASSUME NEW p \in Procs, Recover(p), ~StoreNonce(p)
      PROVE  UNCHANGED <<nonce, pending>> /\ issued \subseteq issued'
  BY <1>5 DEF Recover, SwapRecovering, Entered, RpcNone, RpcSome, LockAndJudge, StoreStuck, Release,
              wallet_vars, env_vars, history
<1>6. ASSUME NEW w \in Wallets, Mine(w) PROVE NoNonceGap'
  <2>1. /\ \A v \in Wallets : pending[v] <= pending'[v] /\ pending'[v] \in Nat
        /\ UNCHANGED <<nonce, issued>>
    BY <1>6 DEF Mine, wallet_vars, history, TypeOK
  <2>2. SUFFICES ASSUME NEW v \in Wallets, NEW n \in pending'[v]..(nonce[v] - 1)
                 PROVE  <<v, n>> \in issued
    BY <2>1
  <2>3. pending[v] \in Nat /\ nonce[v] \in Nat
    BY DEF TypeOK
  <2>4. n \in pending[v]..(nonce[v] - 1)
    BY <2>1, <2>3
  <2> QED BY <2>4
<1>7. ASSUME NEW w \in Wallets, Age(w)
      PROVE  UNCHANGED <<nonce, pending>> /\ issued \subseteq issued'
  BY <1>7 DEF Age, env_vars, history
<1>8. ASSUME UNCHANGED vars
      PROVE  UNCHANGED <<nonce, pending>> /\ issued \subseteq issued'
  BY <1>8 DEF vars, wallet_vars, env_vars, history
<1> QED
  BY <1>1, <1>2, <1>3, <1>4, <1>5, <1>6, <1>7, <1>8, StepCases DEF Allocate

FreshFacts == FreshHolders /\ DistinctSinceResync

LEMMA FreshNext ==
    ASSUME TypeOK, FreshFacts, [Next]_vars
    PROVE  FreshFacts'
<1> USE DEF FreshFacts, FreshHolders, DistinctSinceResync
<1> Tasks \subseteq Procs
  BY DEF Procs
\* A task that is not among the holders moves, and hands out nothing.
<1>1. ASSUME NEW t \in Tasks, NextNonce(t) \/ LoadStuck(t) \/ LoadRecovering(t)
      PROVE  FreshFacts'
  <2>1. pc[t] \notin HolderPC \cup {"done"}
    BY <1>1 DEF NextNonce, LoadStuck, StuckLoaded, LoadRecovering, HolderPC, RecoverPC
  <2>2. \A q \in Procs : q # t => pc'[q] = pc[q] /\ idx'[q] = idx[q]
    BY <1>1, OutsideFrame DEF Allocate
  <2>3. UNCHANGED <<nonce, ticket, fresh>>
    BY <1>1 DEF NextNonce, LoadStuck, StuckLoaded, LoadRecovering, wallet_vars, history
  <2> QED BY <2>1, <2>2, <2>3 DEF TypeOK
<1>2. ASSUME NEW t \in Tasks, FetchAdd(t) PROVE FreshFacts'
  <2>1. /\ pc[t] = "fetch_add"
        /\ pc'[t] \in HolderPC
        /\ ticket'[t] = nonce[idx[t]]
        /\ \A q \in Procs : q # t => pc'[q] = pc[q] /\ ticket'[q] = ticket[q]
        /\ idx' = idx
        /\ nonce'[idx[t]] = nonce[idx[t]] + 1
        /\ fresh'[idx[t]] = fresh[idx[t]] \cup {t}
        /\ \A w \in Wallets : w # idx[t] => nonce'[w] = nonce[w] /\ fresh'[w] = fresh[w]
    BY <1>2 DEF FetchAdd, Advanced, Goto, HolderPC, TypeOK
  <2>2. \A w \in Wallets : t \notin fresh[w]
    BY <2>1 DEF HolderPC, RecoverPC
  <2>3. /\ t \in Procs /\ idx[t] \in Wallets
        /\ \A w \in Wallets : nonce[w] \in Nat /\ fresh[w] \subseteq Procs
    BY DEF TypeOK
  <2>4. ASSUME NEW w \in Wallets, NEW u \in fresh'[w]
        PROVE  idx'[u] = w /\ ticket'[u] < nonce'[w] /\ pc'[u] \in HolderPC \cup {"done"}
    <3>1. CASE u = t
      BY <2>1, <2>2, <2>3, <2>4, <3>1
    <3>2. CASE u # t
      <4>1. u \in fresh[w] /\ u \in Procs /\ ticket[u] \in Nat
        BY <2>1, <2>3, <2>4, <3>2 DEF TypeOK
      <4> QED BY <2>1, <2>3, <3>2, <4>1
    <3> QED BY <3>1, <3>2
  <2>5. ASSUME NEW w \in Wallets, NEW u \in fresh'[w], NEW v \in fresh'[w], u # v
        PROVE  ticket'[u] # ticket'[v]
    <3>1. \A x \in fresh'[w] : x # t => x \in fresh[w] /\ ticket'[x] = ticket[x]
      BY <2>1, <2>3
    <3>2. CASE u # t /\ v # t
      BY <2>5, <3>1, <3>2
    <3>3. CASE u = t \/ v = t
      <4>1. w = idx[t]
        BY <2>1, <2>2, <3>3
      <4>2. \A x \in fresh[w] : ticket[x] < nonce[w] /\ ticket[x] \in Nat
        BY <2>3 DEF TypeOK
      <4> QED BY <2>1, <2>3, <2>5, <3>1, <3>3, <4>1, <4>2
    <3> QED BY <3>2, <3>3
  <2> QED BY <2>4, <2>5
\* A holder moves on.
<1>3. ASSUME NEW t \in Tasks, FetchMax(t) \/ Insert(t) \/ Broadcast(t) \/ Confirm(t)
      PROVE  FreshFacts'
  <2>1. /\ pc'[t] \in HolderPC
        /\ \A q \in Procs : q # t => pc'[q] = pc[q]
        /\ UNCHANGED <<nonce, ticket, idx, fresh>>
    BY <1>3 DEF FetchMax, Insert, Broadcast, Confirm, Goto, HolderPC,
                wallet_vars, task_vars, history, TypeOK
  <2>2. \A w \in Wallets : fresh[w] \subseteq Procs
    BY DEF TypeOK
  <2>3. ASSUME NEW w \in Wallets, NEW u \in fresh[w]
        PROVE  pc'[u] \in HolderPC \cup {"done"}
    BY <2>1, <2>2
  <2> QED BY <2>1, <2>3
<1>4. ASSUME NEW p \in Procs, Recover(p) PROVE FreshFacts'
  <2>1. /\ \A q \in Procs : q # p => pc'[q] = pc[q] /\ idx'[q] = idx[q]
        /\ ticket' = ticket
    BY <1>4, RecoverFrame
  <2>2. p \in Tasks => pc'[p] \in HolderPC \cup {"done"} /\ idx'[p] = idx[p]
    <3>1. ASSUME p \in Tasks, Return(p)
          PROVE  pc'[p] = "done" /\ idx' = idx
      BY <3>1, ProcsAssumption DEF Return, Goto, TypeOK
    <3> QED
      BY <1>4, <3>1 DEF Recover, SwapRecovering, Entered, RpcNone, RpcSome, LockAndJudge, StoreNonce,
                  StoreStuck, Release, Goto, HolderPC, RecoverPC, task_vars, TypeOK
  <2>3. CASE StoreNonce(p)
    <3>1. /\ fresh'[idx[p]] = {}
          /\ \A w \in Wallets : w # idx[p] => nonce'[w] = nonce[w] /\ fresh'[w] = fresh[w]
      BY <2>3 DEF StoreNonce, TypeOK
    <3>2. \A w \in Wallets : fresh[w] \subseteq Tasks
      BY DEF TypeOK
    <3>3. ASSUME NEW w \in Wallets, NEW u \in fresh'[w]
          PROVE  w # idx[p] /\ u \in fresh[w] /\ u \in Tasks
      BY <3>1, <3>2
    <3>4. FreshHolders'
      BY <2>1, <2>2, <3>1, <3>3
    <3>5. DistinctSinceResync'
      BY <2>1, <3>3
    <3> QED BY <3>4, <3>5
  <2>4. CASE ~StoreNonce(p)
    <3>1. UNCHANGED <<nonce, fresh>>
      BY <1>4, <2>4 DEF Recover, SwapRecovering, Entered, RpcNone, RpcSome, LockAndJudge, StoreStuck,
                        Release, wallet_vars, history
    <3> QED BY <2>1, <2>2, <3>1 DEF TypeOK
  <2> QED BY <2>3, <2>4
<1>5. CASE UNCHANGED <<pc, nonce, ticket, idx, fresh>>
  BY <1>5
<1>6. ASSUME NEW w \in Wallets, Age(w) \/ Mine(w)
      PROVE  UNCHANGED <<pc, nonce, ticket, idx, fresh>>
  BY <1>6 DEF Age, Mine, wallet_vars, task_vars, history
<1>7. ASSUME UNCHANGED vars PROVE UNCHANGED <<pc, nonce, ticket, idx, fresh>>
  BY <1>7 DEF vars, wallet_vars, task_vars, history
<1> QED
  BY <1>1, <1>2, <1>3, <1>4, <1>5, <1>6, <1>7, StepCases DEF Allocate

LEMMA ConfirmedNext ==
    ASSUME TypeOK, ConfirmedIsAcked, [Next]_vars
    PROVE  ConfirmedIsAcked'
<1> USE DEF ConfirmedIsAcked
<1> Tasks \subseteq Procs
  BY DEF Procs
<1>1. ASSUME NEW p \in Procs, pc'[p] # "confirm",
             \A q \in Procs : q # p => pc'[q] = pc[q] /\ idx'[q] = idx[q]
                                       /\ ticket'[q] = ticket[q],
             acked \subseteq acked'
      PROVE  ConfirmedIsAcked'
  BY <1>1
<1>2. ASSUME NEW t \in Tasks, NextNonce(t) \/ Allocate(t) \/ Confirm(t)
      PROVE  ConfirmedIsAcked'
  <2>1. ASSUME Skip(t) PROVE pc'[t] # "confirm"
    BY <2>1 DEF Skip, Goto, TypeOK
  <2>2. pc'[t] # "confirm"
    BY <1>2, <2>1 DEF NextNonce, Allocate, LoadStuck, StuckLoaded, LoadRecovering, FetchAdd, FetchMax,
                      Insert, Confirm, Goto, TypeOK
  <2>3. \A q \in Procs : q # t => pc'[q] = pc[q] /\ idx'[q] = idx[q]
    BY <1>2, OutsideFrame
  <2>4. \A q \in Procs : q # t => ticket'[q] = ticket[q]
    BY <1>2 DEF NextNonce, Allocate, LoadStuck, StuckLoaded, LoadRecovering, FetchAdd, FetchMax,
                Insert, Confirm, task_vars, TypeOK
  <2>5. acked' = acked
    BY <1>2 DEF NextNonce, Allocate, LoadStuck, StuckLoaded, LoadRecovering, FetchAdd, FetchMax,
                Insert, Confirm, history
  <2> QED BY <1>1, <2>2, <2>3, <2>4, <2>5
<1>3. ASSUME NEW t \in Tasks, Broadcast(t) PROVE ConfirmedIsAcked'
  <2>1. /\ pc'[t] = "confirm" => <<idx[t], ticket[t]>> \in acked'
        /\ acked \subseteq acked'
        /\ UNCHANGED <<idx, ticket>>
        /\ \A q \in Procs : q # t => pc'[q] = pc[q]
    BY <1>3 DEF Broadcast, Goto, TypeOK
  <2> QED BY <2>1
<1>4. ASSUME NEW p \in Procs, Recover(p) PROVE ConfirmedIsAcked'
  <2>1. ASSUME Return(p) PROVE pc'[p] # "confirm"
    BY <2>1 DEF Return, Goto, TypeOK
  <2>2. pc'[p] # "confirm"
    BY <1>4, <2>1 DEF Recover, SwapRecovering, Entered, RpcNone, RpcSome, LockAndJudge, StoreNonce,
                      StoreStuck, Release, Goto, TypeOK
  <2> QED BY <1>1, <1>4, <2>2, RecoverFrame
<1>5. CASE UNCHANGED <<pc, idx, ticket, acked>>
  BY <1>5
<1>6. ASSUME NEW w \in Wallets, Age(w) \/ Mine(w) PROVE UNCHANGED <<pc, idx, ticket, acked>>
  BY <1>6 DEF Age, Mine, task_vars, history
<1>7. ASSUME UNCHANGED vars PROVE UNCHANGED <<pc, idx, ticket, acked>>
  BY <1>7 DEF vars, task_vars, history
<1> QED
  BY <1>2, <1>3, <1>4, <1>5, <1>6, <1>7, StepCases

-----------------------------------------------------------------------------
(* The invariant and what follows from it *)

LEMMA InvInit == Init => IInv
<1> SUFFICES ASSUME Init PROVE IInv
  OBVIOUS
<1>1. TypeOK
  BY TypeInit
<1>2. \A p \in Procs : pc[p] \in {"recover", "idle"}
  BY DEF Init
<1>3. RecoveryExclusive /\ GuardHeld /\ CaseTwoNever /\ AnswerReached /\ VerdictIsOld
      /\ ParkingInFlight /\ ConfirmedIsAcked
  BY <1>2 DEF Init, RecoveryExclusive, InRecovery, GuardHeld, CaseTwoNever, AnswerReached,
              VerdictIsOld, ParkingInFlight, ConfirmedIsAcked, RecoverPC, HeldPC
<1>4. SentBelowMax /\ FreshHolders /\ DistinctSinceResync /\ ParkedIsOld
  BY <1>2 DEF Init, SentBelowMax, FreshHolders, DistinctSinceResync, ParkedIsOld
<1>5. NoNonceGap
  BY <1>1 DEF Init, NoNonceGap, TypeOK
<1> QED BY <1>1, <1>3, <1>4, <1>5 DEF IInv

LEMMA InvNext == IInv /\ [Next]_vars => IInv'
<1> SUFFICES ASSUME IInv, [Next]_vars PROVE IInv'
  OBVIOUS
<1>1. TypeOK'
  BY TypeNext DEF IInv
<1>2. RecoveryExclusive'
  BY ExclusiveNext DEF IInv
<1>3. (GuardHeld /\ AnswerReached /\ VerdictIsOld /\ ParkedIsOld)'
  BY HolderNext DEF IInv, HolderFacts
<1>4. (SentBelowMax /\ CaseTwoNever)'
  BY SentNext DEF IInv, SentFacts
<1>5. NoNonceGap'
  BY GapNext DEF IInv
<1>6. (FreshHolders /\ DistinctSinceResync)'
  BY FreshNext DEF IInv, FreshFacts
<1>7. ConfirmedIsAcked'
  BY ConfirmedNext DEF IInv
<1>8. ParkingInFlight'
  BY ParkingNext DEF IInv
<1> QED BY <1>1, <1>2, <1>3, <1>4, <1>5, <1>6, <1>7, <1>8 DEF IInv

LEMMA InvAlways == Spec => []IInv
BY InvInit, InvNext, PTL DEF Spec

\* recover() of a wallet is a critical section guarded by `recovering`, and the
\* flag is up exactly while somebody is inside, for every number of tasks.
THEOREM ExclusiveAlways == Spec => []RecoveryExclusive
BY InvAlways, PTL DEF IInv

\* The second case of the reconciliation comment is dead code.
THEOREM CaseTwoNeverAlways == Spec => []CaseTwoNever
BY InvAlways, PTL DEF IInv

\* The nonces between the chain and the next one to hand out all belong to
\* tasks: recover() rewinds a wallet and never makes it skip a nonce.
THEOREM NoGapAlways == Spec => []NoNonceGap
BY InvAlways, PTL DEF IInv

\* Concurrent next_nonce calls between two resyncs get different nonces.
THEOREM DistinctAlways == Spec => []DistinctSinceResync
BY InvAlways, PTL DEF IInv

\* A wallet is parked only while the nonce it was rewound to is still in flight,
\* whatever next_nonce, mark_confirmed and other recoveries race with, and only
\* after a sighting of one of its frontiers more than 12 s old.
THEOREM ParkedOnAlways == Spec => ParkedOnInFlight
<1> DEFINE Parking ==
      \A w \in Wallets : ~stuck[w] /\ stuck'[w] =>
         synced[w] \in in_flight[w] /\ stuck_since[w] = "old"
<1>1. IInv /\ [Next]_vars => [Parking]_vars
  <2> SUFFICES ASSUME IInv, Next, NEW w \in Wallets, ~stuck[w], stuck'[w]
               PROVE  synced[w] \in in_flight[w] /\ stuck_since[w] = "old"
    OBVIOUS
  <2> USE DEF IInv
  <2>1. ASSUME NEW t \in Tasks, NextNonce(t) \/ Allocate(t) \/ Broadcast(t) \/ Confirm(t)
        PROVE  UNCHANGED stuck
    BY <2>1, OutsideFrame
  <2>2. ASSUME NEW p \in Procs, Recover(p), ~StoreStuck(p)
        PROVE  UNCHANGED stuck
    BY <2>2 DEF Recover, SwapRecovering, Entered, RpcNone, RpcSome, LockAndJudge, StoreNonce,
                Release, wallet_vars
  <2>3. ASSUME NEW v \in Wallets, Age(v) \/ Mine(v)
        PROVE  UNCHANGED stuck
    BY <2>3 DEF Age, Mine, wallet_vars
  <2>4. ASSUME UNCHANGED vars PROVE UNCHANGED stuck
    BY <2>4 DEF vars, wallet_vars
  <2>5. ~UNCHANGED stuck
    OBVIOUS
  <2>6. PICK p \in Procs : StoreStuck(p)
    BY <2>1, <2>2, <2>3, <2>4, <2>5, StepCases
  <2>7. /\ w = idx[p] /\ verdict[p] = "confirmed"
        /\ pc[p] = "store_stuck" /\ pc[p] \in HeldPC
    BY <2>6 DEF StoreStuck, HeldPC, TypeOK
  <2> QED BY <2>7 DEF ParkingInFlight, VerdictIsOld
<1> QED BY <1>1, InvAlways, PTL DEF Spec, ParkedOnInFlight

\* A nonce is forgotten only once the chain passed it or a relay answered
\* success for it, whatever recover() and mark_confirmed race with.
THEOREM DroppedAlways == Spec => DroppedIsSettled
<1> DEFINE Settled ==
      \A w \in Wallets : \A n \in in_flight[w] :
         n \notin in_flight'[w] => n < pending[w] \/ <<w, n>> \in acked
<1>1. IInv /\ [Next]_vars => [Settled]_vars
  <2> SUFFICES ASSUME IInv, Next, NEW w \in Wallets, NEW n \in in_flight[w],
                      n \notin in_flight'[w]
               PROVE  n < pending[w] \/ <<w, n>> \in acked
    OBVIOUS
  <2> USE DEF IInv
  <2>1. CASE \E t \in Tasks : Confirm(t)
    <3>1. PICK t \in Tasks : Confirm(t)
      BY <2>1
    <3>2. t \in Procs
      BY DEF Procs
    <3>3. w = idx[t] /\ n = ticket[t] /\ pc[t] = "confirm"
      BY <3>1, <3>2 DEF Confirm, TypeOK
    <3> QED BY <3>2, <3>3 DEF ConfirmedIsAcked
  <2>2. CASE \E p \in Procs : LockAndJudge(p)
    <3>1. PICK p \in Procs : LockAndJudge(p)
      BY <2>2
    <3>2. /\ w = idx[p] /\ pc[p] = "lock"
          /\ ~(n >= chain_nonce[p])
      BY <3>1 DEF LockAndJudge, Retained, TypeOK
    <3>3. chain_nonce[p] <= pending[w]
      BY <3>2 DEF AnswerReached
    <3> QED BY <3>2, <3>3 DEF TypeOK
  <2>3. CASE \E t \in Tasks : Insert(t)
    BY <2>3 DEF Insert, TypeOK
  <2>4. CASE UNCHANGED in_flight
    BY <2>4
  <2>5. ASSUME NEW t \in Tasks, NextNonce(t) \/ LoadStuck(t) \/ LoadRecovering(t)
                                \/ FetchAdd(t) \/ FetchMax(t) \/ Broadcast(t)
        PROVE  UNCHANGED in_flight
    BY <2>5 DEF NextNonce, LoadStuck, StuckLoaded, LoadRecovering, FetchAdd, FetchMax, Broadcast, wallet_vars
  <2>6. ASSUME NEW p \in Procs, Recover(p), ~LockAndJudge(p)
        PROVE  UNCHANGED in_flight
    BY <2>6 DEF Recover, SwapRecovering, Entered, RpcNone, RpcSome, StoreNonce, StoreStuck, Release,
                wallet_vars
  <2>7. ASSUME NEW v \in Wallets, Age(v) \/ Mine(v)
        PROVE  UNCHANGED in_flight
    BY <2>7 DEF Age, Mine, wallet_vars
  <2>8. ASSUME UNCHANGED vars PROVE UNCHANGED in_flight
    BY <2>8 DEF vars, wallet_vars
  <2> QED
    BY <2>1, <2>2, <2>3, <2>4, <2>5, <2>6, <2>7, <2>8, StepCases DEF Allocate
<1> QED BY <1>1, InvAlways, PTL DEF Spec, DroppedIsSettled

\* A parked wallet whose tasks are gone stays parked and unused: only the tasks
\* of a wallet ever call recover() on it.
THEOREM ParkedForGoodAlways == Spec => ParkedForGood
<1> DEFINE Parked(w) == stuck[w] /\ Unattended(w)
           Away == {"idle", "load_stuck", "missed", "done"}
<1>1. TypeOK /\ [Next]_vars => \A w \in Wallets : Parked(w) => Parked(w)'
  <2> SUFFICES ASSUME TypeOK, [Next]_vars, NEW w \in Wallets, stuck[w], Unattended(w)
               PROVE  stuck'[w] /\ Unattended(w)'
    OBVIOUS
  <2> Tasks \subseteq Procs /\ Main \in Procs
    BY DEF Procs
  <2>1. /\ pc[Main] = "dispatch"
        /\ \A t \in Tasks : idx[t] = w => pc[t] \in Away
    BY DEF Unattended
  <2>2. ASSUME NEW t \in Tasks, NextNonce(t) \/ Allocate(t) \/ Broadcast(t) \/ Confirm(t)
        PROVE  stuck'[w] /\ Unattended(w)'
    <3>1. /\ stuck' = stuck
          /\ \A q \in Procs : q # t => pc'[q] = pc[q] /\ idx'[q] = idx[q]
      BY <2>2, OutsideFrame
    <3>2. t # Main
      BY ProcsAssumption
    <3>3. ASSUME Skip(t) PROVE pc'[t] \in Away
      BY <3>3 DEF Skip, Goto, TypeOK
    <3>4. CASE NextNonce(t) \/ LoadStuck(t) \/ LoadRecovering(t)
      <4>1. idx'[t] = w => pc'[t] \in Away
        BY <2>1, <3>3, <3>4 DEF NextNonce, LoadStuck, StuckLoaded, LoadRecovering, Goto, TypeOK
      <4> QED BY <2>1, <3>1, <3>2, <4>1 DEF Unattended
    <3>5. CASE FetchAdd(t) \/ FetchMax(t) \/ Insert(t) \/ Broadcast(t) \/ Confirm(t)
      <4>1. pc[t] \notin Away /\ idx' = idx
        BY <3>5 DEF FetchAdd, FetchMax, Insert, Broadcast, Confirm, task_vars
      <4> QED BY <2>1, <3>1, <3>2, <4>1 DEF Unattended
    <3> QED BY <2>2, <3>4, <3>5 DEF Allocate
  <2>3. ASSUME NEW p \in Procs, Recover(p) PROVE stuck'[w] /\ Unattended(w)'
    <3>1. pc[p] \in {"recover"} \cup RecoverPC
      BY <2>3 DEF Recover, SwapRecovering, Entered, RpcNone, RpcSome, LockAndJudge, StoreNonce,
                  StoreStuck, Release, RecoverPC
    <3>2. p # Main /\ p \in Tasks /\ idx[p] # w
      BY <2>1, <3>1 DEF RecoverPC, Procs
    <3>3. idx'[p] = idx[p]
      <4>1. ASSUME Return(p) PROVE idx' = idx
        BY <3>2, <4>1 DEF Return
      <4> QED BY <2>3, <4>1 DEF Recover, SwapRecovering, Entered, RpcNone, RpcSome, LockAndJudge,
                  StoreNonce, StoreStuck, Release, task_vars
    <3>4. stuck'[w] = stuck[w]
      BY <2>3, <3>2 DEF Recover, SwapRecovering, Entered, RpcNone, RpcSome, LockAndJudge, StoreNonce,
                  StoreStuck, Release, wallet_vars, TypeOK
    <3>5. \A q \in Procs : q # p => pc'[q] = pc[q] /\ idx'[q] = idx[q]
      BY <2>3, RecoverFrame
    <3> QED BY <2>1, <3>2, <3>3, <3>4, <3>5 DEF Unattended
  <2>4. CASE UNCHANGED <<pc, idx, stuck>>
    BY <2>1, <2>4 DEF Unattended
  <2>5. ASSUME NEW v \in Wallets, Age(v) \/ Mine(v) PROVE UNCHANGED <<pc, idx, stuck>>
    BY <2>5 DEF Age, Mine, wallet_vars, task_vars
  <2>6. ASSUME UNCHANGED vars PROVE UNCHANGED <<pc, idx, stuck>>
    BY <2>6 DEF vars, wallet_vars, task_vars
  <2> QED BY <2>2, <2>3, <2>4, <2>5, <2>6, StepCases
<1> QED BY <1>1, TypeCorrect, PTL DEF Spec, ParkedForGood
=============================================================================
