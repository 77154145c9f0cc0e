--------------------------- MODULE AllocatorProofs ---------------------------
(***************************************************************************)
(* NonceManager implements Allocator, for every number of wallets, tasks   *)
(* and retries and every count the chain starts from.                      *)
(*                                                                         *)
(* An answer of the node is old when it is stored.  Because recover() is   *)
(* exclusive, nobody resynced the wallet since it was asked for: AnswerInv *)
(* carries that from the call to the store.  IssuedInv follows a nonce     *)
(* from the fetch_add to the relays, and from there into the chain.        *)
(***************************************************************************)
EXTENDS NonceManagerProofs

\* The last resync, and the answer a recovery works with, are counts the chain
\* reached, in this order.
AnswerInv ==
    /\ \A w \in Wallets : synced[w] <= pending[w]
    /\ \A p \in Procs :
         pc[p] \in {"lock"} \cup HeldPC => synced[idx[p]] <= chain_nonce[p]

CarrierPC == {"fetch_max", "insert", "broadcast"}

\* What a relay has, and what a task is about to send it, was handed out.
IssuedInv ==
    /\ submitted \subseteq issued
    /\ \A t \in Tasks : pc[t] \in CarrierPC => <<idx[t], ticket[t]>> \in issued

-----------------------------------------------------------------------------
(* Frames *)

\* A resync stores the answer its process holds.
LEMMA StoreFacts ==
    ASSUME TypeOK, NEW p \in Procs, StoreNonce(p)
    PROVE  /\ pc[p] = "store_nonce" /\ pc'[p] = "store_stuck"
           /\ \A q \in Procs : q # p => pc'[q] = pc[q]
           /\ nonce' = [nonce EXCEPT ![idx[p]] = chain_nonce[p]]
           /\ synced' = [synced EXCEPT ![idx[p]] = chain_nonce[p]]
           /\ fresh' = [fresh EXCEPT ![idx[p]] = {}]
           /\ UNCHANGED <<idx, ticket, chain_nonce, pending, submitted, issued>>
BY DEF StoreNonce, Resynced, Goto, task_vars, recover_vars, env_vars, TypeOK

-----------------------------------------------------------------------------
(* The answers come in order *)

LEMMA AnswerNext ==
    ASSUME TypeOK, RecoveryExclusive, AnswerReached, AnswerInv, [Next]_vars
    PROVE  AnswerInv'
<1> USE DEF AnswerInv
<1> Tasks \subseteq Procs
  BY DEF Procs
<1>1. ASSUME NEW t \in Tasks, NextNonce(t) \/ Allocate(t) \/ Broadcast(t) \/ Confirm(t)
      PROVE  AnswerInv'
  <2>1. synced' = synced
    BY <1>1 DEF NextNonce, Allocate, LoadStuck, LoadRecovering, FetchAdd, FetchMax, Insert,
                Broadcast, Confirm, history
  <2> QED BY <1>1, <2>1, OutsideFrame DEF RecoverPC, HeldPC
<1>2. ASSUME NEW p \in Procs, StoreNonce(p) PROVE AnswerInv'
  <2>1. /\ pc[p] = "store_nonce" /\ pc'[p] = "store_stuck"
        /\ \A q \in Procs : q # p => pc'[q] = pc[q]
        /\ UNCHANGED <<idx, chain_nonce, pending>>
    BY <1>2, StoreFacts
  <2>2. /\ synced'[idx[p]] = chain_nonce[p]
        /\ \A w \in Wallets : w # idx[p] => synced'[w] = synced[w]
    BY <1>2, StoreFacts DEF TypeOK
  <2>3. chain_nonce[p] <= pending[idx[p]]
    BY <2>1 DEF AnswerReached, HeldPC
  <2>4. \A w \in Wallets : synced'[w] <= pending'[w]
    BY <2>1, <2>2, <2>3
  <2>5. ASSUME NEW q \in Procs, pc'[q] \in {"lock"} \cup HeldPC
        PROVE  synced'[idx'[q]] <= chain_nonce'[q]
    <3>1. CASE q = p
      BY <2>1, <2>2, <3>1 DEF TypeOK
    <3>2. CASE q # p
      <4>1. pc[q] \in {"lock"} \cup HeldPC
        BY <2>1, <2>5, <3>2
      <4>2. idx[q] # idx[p]
        BY <2>1, <3>2, <4>1, AloneInRecovery DEF HeldPC, RecoverPC
      <4> QED BY <2>1, <2>2, <4>1, <4>2 DEF TypeOK
    <3> QED BY <3>1, <3>2
  <2> QED BY <2>4, <2>5
<1>3. ASSUME NEW p \in Procs, Recover(p), ~StoreNonce(p) PROVE AnswerInv'
  <2>1. /\ \A q \in Procs : q # p => pc'[q] = pc[q] /\ idx'[q] = idx[q]
        /\ pending' = pending
    BY <1>3, RecoverFrame DEF env_vars
  <2>2. synced' = synced
    BY <1>3 DEF Recover, SwapRecovering, RpcNone, RpcSome, LockAndJudge, StoreStuck, Release,
                history
  <2>3. CASE RpcSome(p)
    <3>1. /\ idx' = idx
          /\ chain_nonce'[p] = pending[idx[p]]
          /\ \A q \in Procs : q # p => chain_nonce'[q] = chain_nonce[q]
      BY <2>3 DEF RpcSome, task_vars, TypeOK
    <3>2. synced'[idx'[p]] <= chain_nonce'[p]
      BY <2>2, <3>1 DEF TypeOK
    <3> QED BY <2>1, <2>2, <3>1, <3>2
  <2>4. CASE ~RpcSome(p)
    <3>1. ASSUME Return(p) PROVE pc'[p] \notin {"lock"} \cup HeldPC
      BY <3>1 DEF Return, Goto, HeldPC, TypeOK
    <3>2. pc'[p] \in {"lock"} \cup HeldPC => pc[p] \in {"lock"} \cup HeldPC /\ idx' = idx
      BY <1>3, <2>4, <3>1 DEF Recover, SwapRecovering, RpcNone, LockAndJudge, StoreStuck, Release,
                              Goto, HeldPC, task_vars, TypeOK
    <3>3. chain_nonce' = chain_nonce
      BY <1>3, <2>4 DEF Recover, SwapRecovering, RpcNone, LockAndJudge, StoreStuck, Release,
                        recover_vars
    <3> QED BY <2>1, <2>2, <3>2, <3>3
  <2> QED BY <2>3, <2>4
<1>4. ASSUME NEW w \in Wallets, Mine(w) PROVE AnswerInv'
  <2>1. /\ UNCHANGED <<pc, idx, chain_nonce, synced>>
        /\ \A v \in Wallets : pending'[v] \in Nat /\ pending[v] <= pending'[v]
    BY <1>4 DEF Mine, task_vars, recover_vars, history, TypeOK
  <2> QED BY <2>1 DEF TypeOK
<1>5. CASE UNCHANGED <<pc, idx, chain_nonce, synced, pending>>
  BY <1>5
<1>6. ASSUME NEW w \in Wallets, Age(w) PROVE UNCHANGED <<pc, idx, chain_nonce, synced, pending>>
  BY <1>6 DEF Age, task_vars, recover_vars, env_vars, history
<1>7. ASSUME UNCHANGED vars PROVE UNCHANGED <<pc, idx, chain_nonce, synced, pending>>
  BY <1>7 DEF vars, task_vars, recover_vars, env_vars, history
<1> QED BY <1>1, <1>2, <1>3, <1>4, <1>5, <1>6, <1>7, StepCases

-----------------------------------------------------------------------------
(* What the relays have was handed out *)

LEMMA IssuedNext ==
    ASSUME TypeOK, IssuedInv, [Next]_vars
    PROVE  IssuedInv'
<1> USE DEF IssuedInv
<1> Tasks \subseteq Procs
  BY DEF Procs
\* A task moves; the nonces of the others stay handed out.
<1>1. ASSUME NEW t \in Tasks, issued \subseteq issued', submitted' \subseteq issued',
             pc'[t] \in CarrierPC => <<idx'[t], ticket'[t]>> \in issued',
             \A q \in Tasks : q # t => /\ pc'[q] = pc[q] /\ idx'[q] = idx[q]
                                       /\ ticket'[q] = ticket[q]
      PROVE  IssuedInv'
  BY <1>1
<1>2. ASSUME NEW t \in Tasks, NextNonce(t) \/ LoadStuck(t) \/ LoadRecovering(t) \/ Confirm(t)
      PROVE  IssuedInv'
  <2>1. pc'[t] \notin CarrierPC
    BY <1>2 DEF NextNonce, LoadStuck, LoadRecovering, Skip, Confirm, Goto, CarrierPC, TypeOK
  <2>2. \A q \in Tasks : q # t => pc'[q] = pc[q] /\ idx'[q] = idx[q]
    BY <1>2, OutsideFrame DEF Allocate
  <2>3. UNCHANGED <<ticket, issued, submitted>>
    BY <1>2 DEF NextNonce, LoadStuck, LoadRecovering, Confirm, task_vars, env_vars, history
  <2> QED BY <1>1, <2>1, <2>2, <2>3
<1>3. ASSUME NEW t \in Tasks, FetchAdd(t) PROVE IssuedInv'
  <2>1. /\ idx' = idx /\ ticket'[t] = nonce[idx[t]]
        /\ issued' = issued \cup {<<idx[t], nonce[idx[t]]>>}
        /\ submitted' = submitted
        /\ \A q \in Procs : q # t => pc'[q] = pc[q] /\ ticket'[q] = ticket[q]
    BY <1>3 DEF FetchAdd, Goto, env_vars, TypeOK
  <2> QED BY <1>1, <2>1
<1>4. ASSUME NEW t \in Tasks, FetchMax(t) \/ Insert(t) \/ Broadcast(t) PROVE IssuedInv'
  <2>1. /\ UNCHANGED <<idx, ticket, issued>>
        /\ \A q \in Tasks : q # t => pc'[q] = pc[q]
        /\ pc[t] \in CarrierPC
    BY <1>4 DEF FetchMax, Insert, Broadcast, Goto, task_vars, history, CarrierPC, TypeOK
  <2>2. submitted' \subseteq submitted \cup {<<idx[t], ticket[t]>>}
    BY <1>4 DEF FetchMax, Insert, Broadcast, env_vars
  <2> QED BY <1>1, <2>1, <2>2
<1>5. ASSUME NEW p \in Procs, Recover(p) PROVE IssuedInv'
  <2>1. /\ \A q \in Procs : q # p => pc'[q] = pc[q] /\ idx'[q] = idx[q]
        /\ UNCHANGED <<ticket, submitted, issued>>
    BY <1>5, RecoverFrame DEF env_vars
  <2>2. ASSUME Return(p) PROVE pc'[p] \notin CarrierPC
    BY <2>2 DEF Return, Goto, CarrierPC, TypeOK
  <2>3. pc'[p] \notin CarrierPC
    BY <1>5, <2>2 DEF Recover, SwapRecovering, RpcNone, RpcSome, LockAndJudge, StoreNonce,
                      StoreStuck, Release, Goto, CarrierPC, TypeOK
  <2> QED BY <2>1, <2>3
<1>6. CASE UNCHANGED <<pc, idx, ticket, issued, submitted>>
  BY <1>6
<1>7. ASSUME NEW w \in Wallets, Age(w) \/ Mine(w)
      PROVE  UNCHANGED <<pc, idx, ticket, issued, submitted>>
  BY <1>7 DEF Age, Mine, task_vars, env_vars, history
<1>8. ASSUME UNCHANGED vars PROVE UNCHANGED <<pc, idx, ticket, issued, submitted>>
  BY <1>8 DEF vars, task_vars, env_vars, history
<1> QED BY <1>2, <1>3, <1>4, <1>5, <1>6, <1>7, <1>8, StepCases DEF Allocate

-----------------------------------------------------------------------------
(* The steps of the allocator *)

\* The mapping's tickets change only with the tasks of a wallet or their tickets.
LEMMA TicketsFrame ==
    ASSUME UNCHANGED <<fresh, ticket>>
    PROVE  HeldTickets' = HeldTickets
BY DEF HeldTickets

\* A fetch_add hands a task its only nonce.
LEMMA HandStep ==
    ASSUME TypeOK, FreshHolders, NEW t \in Tasks, FetchAdd(t)
    PROVE  A!Hand(t, idx[t])
<1> Tasks \subseteq Procs
  BY DEF Procs
<1>1. /\ pc[t] = "fetch_add" /\ pc'[t] = "fetch_max"
      /\ \A q \in Procs : q # t => pc'[q] = pc[q] /\ ticket'[q] = ticket[q]
      /\ ticket'[t] = nonce[idx[t]]
      /\ nonce' = [nonce EXCEPT ![idx[t]] = @ + 1]
      /\ issued' = issued \cup {<<idx[t], nonce[idx[t]]>>}
      /\ fresh' = [fresh EXCEPT ![idx[t]] = @ \cup {t}]
      /\ UNCHANGED <<pending, synced>>
  BY DEF FetchAdd, Advanced, Goto, env_vars, TypeOK
<1>2. t \notin Holders
  BY <1>1 DEF Holders, HolderPC, RecoverPC
<1>3. Holders' = Holders \cup {t}
  <2>1. \A q \in Tasks : q \in Holders' <=> q \in Holders \/ q = t
    BY <1>1 DEF Holders, HolderPC
  <2> QED BY <2>1 DEF Holders
<1>4. \A w \in Wallets : fresh[w] \subseteq Tasks /\ t \notin fresh[w]
  BY <1>1 DEF FreshHolders, HolderPC, RecoverPC, TypeOK
<1>5. HeldTickets' = [HeldTickets EXCEPT ![idx[t]] = @ \cup {<<t, nonce[idx[t]]>>}]
  <2>1. ASSUME NEW w \in Wallets
        PROVE  {<<u, ticket'[u]>> : u \in fresh[w]} = {<<u, ticket[u]>> : u \in fresh[w]}
    BY <1>1, <1>4
  <2>2. \A w \in Wallets : w # idx[t] => fresh'[w] = fresh[w]
    BY <1>1 DEF TypeOK
  <2>3. {<<u, ticket'[u]>> : u \in fresh'[idx[t]]}
           = {<<u, ticket'[u]>> : u \in fresh[idx[t]]} \cup {<<t, nonce[idx[t]]>>}
    BY <1>1 DEF TypeOK
  <2>4. idx[t] \in Wallets
    BY DEF TypeOK
  <2> QED BY <2>1, <2>2, <2>3, <2>4 DEF HeldTickets
<1> QED BY <1>1, <1>2, <1>3, <1>5 DEF A!Hand

\* The store of recover() falls back to a count since the wallet's last resync.
LEMMA ResyncStep ==
    ASSUME TypeOK, AnswerReached, AnswerInv, NEW p \in Procs, StoreNonce(p)
    PROVE  A!Resync(idx[p])
<1>1. /\ pc[p] = "store_nonce" /\ pc'[p] = "store_stuck"
      /\ \A q \in Procs : q # p => pc'[q] = pc[q]
      /\ nonce' = [nonce EXCEPT ![idx[p]] = chain_nonce[p]]
      /\ synced' = [synced EXCEPT ![idx[p]] = chain_nonce[p]]
      /\ fresh' = [fresh EXCEPT ![idx[p]] = {}]
      /\ UNCHANGED <<ticket, pending, issued>>
  BY StoreFacts
<1>2. chain_nonce[p] \in synced[idx[p]]..pending[idx[p]]
  <2>1. chain_nonce[p] <= pending[idx[p]] /\ synced[idx[p]] <= chain_nonce[p]
    BY <1>1 DEF AnswerReached, AnswerInv, HeldPC
  <2>2. chain_nonce[p] \in Int /\ synced[idx[p]] \in Int /\ pending[idx[p]] \in Int
    BY DEF TypeOK
  <2> QED BY <2>1, <2>2
<1>3. HeldTickets' = [HeldTickets EXCEPT ![idx[p]] = {}]
  <2>1. \A w \in Wallets : w # idx[p] => fresh'[w] = fresh[w]
    BY <1>1 DEF TypeOK
  <2>2. fresh'[idx[p]] = {} /\ idx[p] \in Wallets
    BY <1>1 DEF TypeOK
  <2> QED BY <1>1, <2>1, <2>2 DEF HeldTickets
<1>4. Holders' = Holders
  <2>1. \A q \in Tasks : q \in Holders' <=> q \in Holders
    BY <1>1 DEF Holders, HolderPC, RecoverPC, Procs
  <2> QED BY <2>1 DEF Holders
<1> QED BY <1>1, <1>2, <1>3, <1>4 DEF A!Resync

\* Every other step of a task or of the boot recovery leaves the counter alone.
LEMMA QuietStep ==
    ASSUME TypeOK, NEW p \in Procs,
           \/ p \in Tasks /\ (NextNonce(p) \/ Allocate(p) \/ Broadcast(p) \/ Confirm(p))
           \/ Recover(p),
           ~FetchAdd(p), ~StoreNonce(p)
    PROVE  UNCHANGED A!vars
<1>1. /\ UNCHANGED <<nonce, ticket, fresh, pending, issued, synced>>
      /\ \A q \in Procs : q # p => pc'[q] = pc[q]
  <2>1. CASE Recover(p)
    <3>1. /\ \A q \in Procs : q # p => pc'[q] = pc[q]
          /\ UNCHANGED <<ticket, pending, issued>>
      BY <2>1, RecoverFrame DEF env_vars
    <3>2. UNCHANGED <<nonce, fresh, synced>>
      BY <2>1 DEF Recover, SwapRecovering, RpcNone, RpcSome, LockAndJudge, StoreStuck, Release,
                  wallet_vars, history
    <3> QED BY <3>1, <3>2
  <2>2. CASE p \in Tasks /\ (NextNonce(p) \/ Allocate(p) \/ Broadcast(p) \/ Confirm(p))
    <3>1. /\ \A q \in Procs : q # p => pc'[q] = pc[q]
          /\ pending' = pending
      BY <2>2, OutsideFrame
    <3>2. UNCHANGED <<nonce, ticket, fresh, issued, synced>>
      BY <2>2 DEF NextNonce, Allocate, LoadStuck, LoadRecovering, FetchMax, Insert, Broadcast,
                  Confirm, wallet_vars, task_vars, history
    <3> QED BY <3>1, <3>2
  <2> QED BY <2>1, <2>2
<1>2. p \in Tasks => (pc'[p] \in HolderPC \cup {"done"} <=> pc[p] \in HolderPC \cup {"done"})
  <2> SUFFICES ASSUME p \in Tasks
               PROVE  pc'[p] \in HolderPC \cup {"done"} <=> pc[p] \in HolderPC \cup {"done"}
    OBVIOUS
  <2>1. CASE NextNonce(p) \/ LoadStuck(p) \/ LoadRecovering(p)
    <3>1. pc[p] \notin HolderPC \cup {"done"}
      BY <2>1 DEF NextNonce, LoadStuck, LoadRecovering, HolderPC, RecoverPC
    <3>2. pc'[p] \notin HolderPC \cup {"done"}
      BY <2>1 DEF NextNonce, LoadStuck, LoadRecovering, Skip, Goto, HolderPC, RecoverPC, TypeOK
    <3> QED BY <3>1, <3>2
  <2>2. CASE FetchMax(p) \/ Insert(p) \/ Broadcast(p) \/ Confirm(p)
    BY <2>2 DEF FetchMax, Insert, Broadcast, Confirm, Goto, HolderPC, TypeOK
  <2>3. CASE Recover(p)
    <3>1. ASSUME Return(p) PROVE pc'[p] = "done"
      BY <3>1, ProcsAssumption DEF Return, Goto, TypeOK
    <3> QED BY <2>3, <3>1 DEF Recover, SwapRecovering, RpcNone, RpcSome, LockAndJudge, StoreStuck,
                              Release, Goto, HolderPC, RecoverPC, TypeOK
  <2> QED BY <2>1, <2>2, <2>3 DEF Allocate
<1>3. Holders' = Holders
  <2>1. \A q \in Tasks : q \in Holders' <=> q \in Holders
    BY <1>1, <1>2 DEF Holders, Procs
  <2> QED BY <2>1 DEF Holders
<1> QED BY <1>1, <1>3, TicketsFrame DEF A!vars

LEMMA AllocatorInit == Init => A!Init
<1> SUFFICES ASSUME Init PROVE A!Init
  OBVIOUS
<1>1. Holders = {}
  BY ProcsAssumption DEF Init, Holders, HolderPC, RecoverPC, Procs
<1>2. HeldTickets = [w \in Wallets |-> {}]
  BY DEF Init, HeldTickets
<1> QED BY <1>1, <1>2 DEF Init, A!Init

LEMMA AllocatorNext ==
    ASSUME IInv, AnswerInv, IssuedInv, [Next]_vars
    PROVE  [A!Next]_(A!vars)
<1> USE DEF IInv
<1>1. ASSUME NEW p \in Procs,
             \/ p \in Tasks /\ (NextNonce(p) \/ Allocate(p) \/ Broadcast(p) \/ Confirm(p))
             \/ Recover(p)
      PROVE  [A!Next]_(A!vars)
  <2>1. idx[p] \in Wallets
    BY DEF TypeOK
  <2>2. CASE p \in Tasks /\ FetchAdd(p)
    BY <2>1, <2>2, HandStep DEF A!Next
  <2>3. CASE StoreNonce(p)
    BY <2>1, <2>3, ResyncStep DEF A!Next
  <2>4. CASE ~FetchAdd(p) /\ ~StoreNonce(p)
    BY <1>1, <2>4, QuietStep
  <2>5. CASE p \notin Tasks /\ ~StoreNonce(p)
    <3>1. pc[p] # "fetch_add"
      BY <1>1, <2>5 DEF Recover, SwapRecovering, RpcNone, RpcSome, LockAndJudge, StoreStuck, Release
    <3>2. ~FetchAdd(p)
      BY <3>1 DEF FetchAdd
    <3> QED BY <2>4, <2>5, <3>2
  <2> QED BY <2>2, <2>3, <2>4, <2>5
<1>2. ASSUME NEW w \in Wallets, Mine(w) PROVE [A!Next]_(A!vars)
  <2>1. /\ UNCHANGED <<nonce, ticket, fresh, issued, synced, pc>>
        /\ pending' = [pending EXCEPT ![w] = @ + 1]
    BY <1>2 DEF Mine, wallet_vars, task_vars, history
  <2>2. <<w, pending[w]>> \in issued
    BY <1>2 DEF Mine, IssuedInv
  <2>3. Holders' = Holders
    BY <2>1 DEF Holders
  <2>4. A!Mine(w)
    BY <2>1, <2>2, <2>3, TicketsFrame DEF A!Mine
  <2> QED BY <2>4 DEF A!Next
<1>3. ASSUME UNCHANGED <<nonce, ticket, fresh, issued, synced, pc, pending>>
      PROVE  UNCHANGED A!vars
  <2>1. Holders' = Holders
    BY <1>3 DEF Holders
  <2> QED BY <1>3, <2>1, TicketsFrame DEF A!vars
<1>4. ASSUME NEW w \in Wallets, Age(w)
      PROVE  UNCHANGED <<nonce, ticket, fresh, issued, synced, pc, pending>>
  BY <1>4 DEF Age, task_vars, env_vars, history
<1>5. CASE UNCHANGED vars
  <2>1. UNCHANGED <<nonce, ticket, fresh, issued, synced, pc, pending>>
    BY <1>5 DEF vars, wallet_vars, task_vars, env_vars, history
  <2> QED BY <2>1, <1>3
<1> Tasks \subseteq Procs
  BY DEF Procs
<1> QED BY <1>1, <1>2, <1>3, <1>4, <1>5, StepCases

-----------------------------------------------------------------------------
\* Any number of tasks that probe, send and recover at once are served like an
\* atomic counter per wallet: one nonce each, resyncs in the order of the
\* chain's counts, and a chain that only handed-out nonces advance.
THEOREM ManagerIsAllocator == Spec => ImplementsAllocator
<1> DEFINE I == IInv /\ AnswerInv /\ IssuedInv
<1>1. Init => I
  <2> SUFFICES ASSUME Init PROVE I
    OBVIOUS
  <2>1. IInv
    BY InvInit
  <2>2. \A p \in Procs : pc[p] \in {"recover", "idle"}
    BY DEF Init
  <2>3. AnswerInv
    <3>1. \A w \in Wallets : synced[w] = 0 /\ pending[w] \in Nat
      BY <2>1 DEF Init, IInv, TypeOK
    <3> QED BY <2>2, <3>1 DEF AnswerInv, HeldPC
  <2>4. IssuedInv
    BY <2>2 DEF Init, IssuedInv, CarrierPC, Procs
  <2> QED BY <2>1, <2>3, <2>4
<1>2. I /\ [Next]_vars => I'
  BY InvNext, AnswerNext, IssuedNext DEF IInv
<1>3. I /\ [Next]_vars => [A!Next]_(A!vars)
  BY AllocatorNext
<1> QED BY <1>1, <1>2, <1>3, AllocatorInit, PTL DEF Spec, ImplementsAllocator, A!Spec
=============================================================================
