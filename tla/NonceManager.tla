---------------------------- MODULE NonceManager ----------------------------
(***************************************************************************)
(* The hot wallets of the executor: src/src/nonce_manager.rs, with the two *)
(* users it has, the pipeline thread that recovers every wallet at boot    *)
(* and the tasks it spawns, one per opportunity (process_opportunity of    *)
(* src/src/main.rs).                                                       *)
(*                                                                         *)
(* A process is at the atomic instruction or await its program counter     *)
(* names; every load, store, swap and fetch on a shared atomic is a step.  *)
(* The Ethereum node and the relays are the environment.                   *)
(***************************************************************************)
EXTENDS Integers, FiniteSets

CONSTANTS
    N,              \* number of wallets
    Tasks,          \* the opportunities that reach the pipeline, one task each
    Main,           \* the pipeline thread
    MaxRetries,     \* broadcasts a task tries before it gives up (3)
    StartNonces     \* pending nonces the node may report at boot

ASSUME WalletsAssumption == N \in Nat \ {0}
ASSUME ProcsAssumption   == Main \notin Tasks
ASSUME RetriesAssumption == MaxRetries \in Nat \ {0}
ASSUME StartAssumption   == StartNonces \subseteq Nat

Wallets == 0..(N - 1)
Procs   == Tasks \cup {Main}

VARIABLES
    \* PerWallet, shared
    nonce,          \* next nonce to hand out
    max_sent,       \* largest nonce handed out
    stuck,          \* the wallet is parked
    recovering,     \* somebody is in recover()
    in_flight,      \* nonces handed out and not confirmed
    locked,         \* recover() holds the in_flight write guard
    stuck_since,    \* age of the first sighting: "none", "recent", "old" (> 12 s)
    round_robin,
    \* one task or the pipeline thread
    pc,
    idx,            \* the wallet it works on
    offset,         \* wallets it probed and skipped
    ticket,         \* the nonce it was handed
    attempt,
    chain_nonce,    \* what the node answered
    verdict,        \* what recover() made of it: "clear", "first", "confirmed"
    \* environment
    pending,        \* eth_getTransactionCount(address, "pending")
    submitted,      \* <<wallet, nonce>> of the transactions some relay holds
    \* history
    issued,         \* <<wallet, nonce>> of every nonce handed out
    acked,          \* <<wallet, nonce>> of those a relay answered with success
    fresh,          \* tasks with a nonce handed out since the last resync
    synced          \* the count of the last resync

wallet_vars == <<nonce, max_sent, stuck, recovering, in_flight, locked, stuck_since>>
recover_vars == <<chain_nonce, verdict>>
task_vars   == <<idx, offset, ticket, attempt>>
env_vars    == <<pending, submitted>>
history     == <<issued, acked, fresh, synced>>
vars == <<wallet_vars, round_robin, pc, task_vars, recover_vars, env_vars, history>>

-----------------------------------------------------------------------------
(* Program counters *)

RecoverPC == {"rpc", "lock", "store_nonce", "store_stuck", "release"}
HeldPC    == {"store_nonce", "store_stuck"}
HolderPC  == {"fetch_max", "insert", "broadcast", "confirm", "recover"} \cup RecoverPC
ProbePC   == {"load_stuck", "load_recovering"}
PCs == {"idle", "dispatch", "fetch_add", "missed", "done"} \cup ProbePC \cup HolderPC

Goto(p, label) == pc' = [pc EXCEPT ![p] = label]

\* p runs recover() on wallet w, past the swap that entered it.
InRecovery(p, w) == pc[p] \in RecoverPC /\ idx[p] = w

Init ==
    /\ nonce = [w \in Wallets |-> 0]
    /\ max_sent = [w \in Wallets |-> 0]
    /\ stuck = [w \in Wallets |-> FALSE]
    /\ recovering = [w \in Wallets |-> FALSE]
    /\ in_flight = [w \in Wallets |-> {}]
    /\ locked = [w \in Wallets |-> FALSE]
    /\ stuck_since = [w \in Wallets |-> "none"]
    /\ round_robin = 0
    /\ pc = [p \in Procs |-> IF p = Main THEN "recover" ELSE "idle"]
    /\ idx = [p \in Procs |-> 0]
    /\ offset = [p \in Procs |-> 0]
    /\ ticket = [p \in Procs |-> 0]
    /\ attempt = [p \in Procs |-> 1]
    /\ chain_nonce = [p \in Procs |-> 0]
    /\ verdict = [p \in Procs |-> "clear"]
    /\ pending \in [Wallets -> StartNonces]
    /\ submitted = {}
    /\ issued = {}
    /\ acked = {}
    /\ fresh = [w \in Wallets |-> {}]
    /\ synced = [w \in Wallets |-> 0]

-----------------------------------------------------------------------------
(* next_nonce: probe the wallets from the round-robin one on *)

\* The pipeline thread is past the boot recovery and spawned t.
NextNonce(t) ==
    /\ pc[t] = "idle"
    /\ pc[Main] = "dispatch"
    /\ idx' = [idx EXCEPT ![t] = round_robin % N]
    /\ round_robin' = round_robin + 1
    /\ Goto(t, "load_stuck")
    /\ UNCHANGED <<wallet_vars, offset, ticket, attempt, recover_vars, env_vars, history>>

\* The for loop moves on to the next wallet, or next_nonce returns None.
Skip(t) ==
    /\ offset' = [offset EXCEPT ![t] = @ + 1]
    /\ IF offset[t] + 1 < N
         THEN /\ idx' = [idx EXCEPT ![t] = (@ + 1) % N]
              /\ Goto(t, "load_stuck")
         ELSE /\ idx' = idx
              /\ Goto(t, "missed")

\* Mutant: the probe forgets the stuck flag.
StuckIgnored(w) == FALSE
StuckLoaded(w)  == stuck[w]

LoadStuck(t) ==
    /\ pc[t] = "load_stuck"
    /\ \/ StuckLoaded(idx[t]) /\ Skip(t)
       \/ ~StuckLoaded(idx[t]) /\ Goto(t, "load_recovering") /\ UNCHANGED <<idx, offset>>
    /\ UNCHANGED <<wallet_vars, round_robin, ticket, attempt, recover_vars, env_vars, history>>

LoadRecovering(t) ==
    /\ pc[t] = "load_recovering"
    /\ \/ recovering[idx[t]] /\ Skip(t)
       \/ ~recovering[idx[t]] /\ Goto(t, "fetch_add") /\ UNCHANGED <<idx, offset>>
    /\ UNCHANGED <<wallet_vars, round_robin, ticket, attempt, recover_vars, env_vars, history>>

\* Mutant: a load where the code has a fetch_add.
AdvancedNot(w) == nonce[w]

\* The wallet's nonce after one more is handed out.
Advanced(w) == nonce[w] + 1

FetchAdd(t) ==
    LET w == idx[t] IN
    /\ pc[t] = "fetch_add"
    /\ ticket' = [ticket EXCEPT ![t] = nonce[w]]
    /\ nonce' = [nonce EXCEPT ![w] = Advanced(w)]
    /\ issued' = issued \cup {<<w, nonce[w]>>}
    /\ fresh' = [fresh EXCEPT ![w] = @ \cup {t}]
    /\ Goto(t, "fetch_max")
    /\ UNCHANGED <<max_sent, stuck, recovering, in_flight, locked, stuck_since,
                   round_robin, idx, offset, attempt, recover_vars, env_vars, acked, synced>>

FetchMax(t) ==
    LET w == idx[t] IN
    /\ pc[t] = "fetch_max"
    /\ max_sent' = [max_sent EXCEPT ![w] = IF ticket[t] > @ THEN ticket[t] ELSE @]
    /\ Goto(t, "insert")
    /\ UNCHANGED <<nonce, stuck, recovering, in_flight, locked, stuck_since,
                   round_robin, task_vars, recover_vars, env_vars, history>>

Insert(t) ==
    /\ pc[t] = "insert"
    /\ ~locked[idx[t]]
    /\ in_flight' = [in_flight EXCEPT ![idx[t]] = @ \cup {ticket[t]}]
    /\ Goto(t, "broadcast")
    /\ UNCHANGED <<nonce, max_sent, stuck, recovering, locked, stuck_since,
                   round_robin, task_vars, recover_vars, env_vars, history>>

-----------------------------------------------------------------------------
(* process_opportunity after it has a nonce.  Signing is no step of its own: *)
(* build_and_sign fails on no key that NonceManager::new accepted.           *)

\* One fan-out to the relays. Some relay keeps the transaction or none does
\* (held); some answer is a 2xx or none is (ok): a time-out may hide a
\* delivery, and a 2xx may carry a refusal.
Broadcast(t) ==
    LET tx == <<idx[t], ticket[t]>> IN
    /\ pc[t] = "broadcast"
    /\ \E held, ok \in BOOLEAN :
         /\ submitted' = IF held THEN submitted \cup {tx} ELSE submitted
         /\ \/ /\ ok
               /\ acked' = acked \cup {tx}
               /\ Goto(t, "confirm")
               /\ attempt' = attempt
            \/ /\ ~ok
               /\ acked' = acked
               /\ IF attempt[t] < MaxRetries
                    THEN attempt' = [attempt EXCEPT ![t] = @ + 1] /\ pc' = pc
                    ELSE attempt' = attempt /\ Goto(t, "recover")
    /\ UNCHANGED <<wallet_vars, round_robin, idx, offset, ticket, recover_vars,
                   pending, issued, fresh, synced>>

\* mark_confirmed, at the first broadcast a relay accepted
Confirm(t) ==
    /\ pc[t] = "confirm"
    /\ ~locked[idx[t]]
    /\ in_flight' = [in_flight EXCEPT ![idx[t]] = @ \ {ticket[t]}]
    /\ Goto(t, "recover")
    /\ UNCHANGED <<nonce, max_sent, stuck, recovering, locked, stuck_since,
                   round_robin, task_vars, recover_vars, env_vars, history>>

-----------------------------------------------------------------------------
(* recover: a task 12 s after its broadcasts, the pipeline thread at boot *)

\* recover() returns: the task ends, the boot loop takes the next wallet.
Return(p) ==
    IF p # Main
      THEN Goto(p, "done") /\ idx' = idx
      ELSE IF idx[p] + 1 < N
             THEN Goto(p, "recover") /\ idx' = [idx EXCEPT ![p] = @ + 1]
             ELSE Goto(p, "dispatch") /\ idx' = idx

\* Mutant: a store where the code has a swap.
EnteredUnseen(w) == FALSE
Entered(w)       == recovering[w]

SwapRecovering(p) ==
    /\ pc[p] = "recover"
    /\ \/ Entered(idx[p]) /\ Return(p) /\ recovering' = recovering
       \/ /\ ~Entered(idx[p])
          /\ recovering' = [recovering EXCEPT ![idx[p]] = TRUE]
          /\ Goto(p, "rpc")
          /\ idx' = idx
    /\ UNCHANGED <<nonce, max_sent, stuck, in_flight, locked, stuck_since, round_robin,
                   offset, ticket, attempt, recover_vars, env_vars, history>>

\* Mutant: an exit that forgets the flag.
ClearedNothing(w) == recovering

\* What every exit of recover() does to the flag.
Cleared(w) == [recovering EXCEPT ![w] = FALSE]

\* rpc_pending_nonce fails: the request, the JSON, the hex.
RpcNone(p) ==
    /\ pc[p] = "rpc"
    /\ recovering' = Cleared(idx[p])
    /\ Return(p)
    /\ UNCHANGED <<nonce, max_sent, stuck, in_flight, locked, stuck_since, round_robin,
                   offset, ticket, attempt, recover_vars, env_vars, history>>

RpcSome(p) ==
    /\ pc[p] = "rpc"
    /\ chain_nonce' = [chain_nonce EXCEPT ![p] = pending[idx[p]]]
    /\ Goto(p, "lock")
    /\ UNCHANGED <<wallet_vars, round_robin, task_vars, verdict, env_vars, history>>

\* Mutants: nothing is dropped; the frontier nonce is dropped too.
RetainedAll(S, c)    == S
RetainedStrict(S, c) == {n \in S : n > c}

\* in_flight.retain(n >= chain_nonce)
Retained(S, c) == {n \in S : n >= c}

\* Mutant: what the comment on case 3 asks, without `oldest == chain_nonce`.
FrontierUnmatched(S, c, max) ==
    /\ S # {}
    /\ c <= max

\* Case 3 of the reconciliation: the oldest nonce in flight is the chain's next.
Frontier(S, c, max) ==
    /\ S # {}
    /\ c <= max
    /\ c \in S
    /\ \A n \in S : c <= n

Judged(S, c, max, since) ==
    IF Frontier(S, c, max)
      THEN IF since = "old" THEN "confirmed" ELSE "first"
      ELSE "clear"

LockAndJudge(p) ==
    LET w == idx[p]
        kept == Retained(in_flight[w], chain_nonce[p]) IN
    /\ pc[p] = "lock"
    /\ ~locked[w]
    /\ locked' = [locked EXCEPT ![w] = TRUE]
    /\ in_flight' = [in_flight EXCEPT ![w] = kept]
    /\ verdict' = [verdict EXCEPT ![p] =
                     Judged(kept, chain_nonce[p], max_sent[w], stuck_since[w])]
    /\ Goto(p, "store_nonce")
    /\ UNCHANGED <<nonce, max_sent, stuck, recovering, stuck_since, round_robin,
                   task_vars, chain_nonce, env_vars, history>>

\* Mutants: the count taken for the last nonce used, or for the one after next.
ResyncedBelow(p) == chain_nonce[p] - 1
ResyncedPast(p)  == chain_nonce[p] + 1

\* All three branches store the same nonce.
Resynced(p) == chain_nonce[p]

StoreNonce(p) ==
    LET w == idx[p] IN
    /\ pc[p] = "store_nonce"
    /\ nonce' = [nonce EXCEPT ![w] = Resynced(p)]
    /\ fresh' = [fresh EXCEPT ![w] = {}]
    /\ synced' = [synced EXCEPT ![w] = Resynced(p)]
    /\ Goto(p, "store_stuck")
    /\ UNCHANGED <<max_sent, stuck, recovering, in_flight, locked, stuck_since,
                   round_robin, task_vars, recover_vars, env_vars, issued, acked>>

\* stuck_since after the verdict: the first sighting restarts the 12 s.
Since(v, since) ==
    CASE v = "clear"     -> "none"
      [] v = "first"     -> "recent"
      [] v = "confirmed" -> since

\* Mutant: the write guard outlives the reconciliation.
UnlockedNot(w) == locked
Unlocked(w)    == [locked EXCEPT ![w] = FALSE]

\* stuck.store, stuck_since and drop(in_flight)
StoreStuck(p) ==
    LET w == idx[p] IN
    /\ pc[p] = "store_stuck"
    /\ stuck' = [stuck EXCEPT ![w] = verdict[p] = "confirmed"]
    /\ stuck_since' = [stuck_since EXCEPT ![w] = Since(verdict[p], @)]
    /\ locked' = Unlocked(w)
    /\ Goto(p, "release")
    /\ UNCHANGED <<nonce, max_sent, recovering, in_flight, round_robin,
                   task_vars, recover_vars, env_vars, history>>

Release(p) ==
    /\ pc[p] = "release"
    /\ recovering' = Cleared(idx[p])
    /\ Return(p)
    /\ UNCHANGED <<nonce, max_sent, stuck, in_flight, locked, stuck_since, round_robin,
                   offset, ticket, attempt, recover_vars, env_vars, history>>

-----------------------------------------------------------------------------
(* Environment *)

\* 12 s pass since the first sighting.
Age(w) ==
    /\ stuck_since[w] = "recent"
    /\ stuck_since' = [stuck_since EXCEPT ![w] = "old"]
    /\ UNCHANGED <<nonce, max_sent, stuck, recovering, in_flight, locked, round_robin,
                   pc, task_vars, recover_vars, env_vars, history>>

\* The node counts the wallet's next transaction, if a relay had it.
Mine(w) ==
    /\ <<w, pending[w]>> \in submitted
    /\ pending' = [pending EXCEPT ![w] = @ + 1]
    /\ UNCHANGED <<wallet_vars, round_robin, pc, task_vars, recover_vars, submitted, history>>

-----------------------------------------------------------------------------
Allocate(t) ==
    \/ LoadStuck(t) \/ LoadRecovering(t) \/ FetchAdd(t) \/ FetchMax(t) \/ Insert(t)

Recover(p) ==
    \/ SwapRecovering(p) \/ RpcNone(p) \/ RpcSome(p)
    \/ LockAndJudge(p) \/ StoreNonce(p) \/ StoreStuck(p) \/ Release(p)

Step(t) == Allocate(t) \/ Broadcast(t) \/ Confirm(t) \/ Recover(t)

\* Every opportunity has been served: the pipeline waits for the next one.
AllServed ==
    /\ pc[Main] = "dispatch"
    /\ \A t \in Tasks : pc[t] \in {"done", "missed"}
    /\ UNCHANGED vars

Next ==
    \/ \E t \in Tasks : NextNonce(t) \/ Step(t)
    \/ Recover(Main)
    \/ \E w \in Wallets : Age(w) \/ Mine(w)
    \/ AllServed

Spec == Init /\ [][Next]_vars

\* The runtime polls every runnable task, its RwLock is a FIFO queue, a relay
\* call ends within 5 s, and the node answers or the connection fails (the
\* client has no time-out of its own: that the call ends is an assumption).
FairSpec ==
    /\ Spec
    /\ \A t \in Tasks : WF_vars(Step(t))
    /\ WF_vars(Recover(Main))

-----------------------------------------------------------------------------
(* Properties *)

\* Every variable of a PerWallet, a task and the environment has its type.
TypeOK ==
    /\ nonce \in [Wallets -> Nat]
    /\ max_sent \in [Wallets -> Nat]
    /\ stuck \in [Wallets -> BOOLEAN]
    /\ recovering \in [Wallets -> BOOLEAN]
    /\ in_flight \in [Wallets -> SUBSET Nat]
    /\ locked \in [Wallets -> BOOLEAN]
    /\ stuck_since \in [Wallets -> {"none", "recent", "old"}]
    /\ round_robin \in Nat
    /\ pc \in [Procs -> PCs]
    /\ idx \in [Procs -> Wallets]
    /\ offset \in [Procs -> Nat]
    /\ ticket \in [Procs -> Nat]
    /\ attempt \in [Procs -> Nat]
    /\ chain_nonce \in [Procs -> Nat]
    /\ verdict \in [Procs -> {"clear", "first", "confirmed"}]
    /\ pending \in [Wallets -> Nat]
    /\ submitted \subseteq Wallets \X Nat
    /\ issued \subseteq Wallets \X Nat
    /\ acked \subseteq Wallets \X Nat
    /\ fresh \in [Wallets -> SUBSET Tasks]
    /\ synced \in [Wallets -> Nat]

\* At most one process is inside recover() of a wallet, and `recovering` is up
\* exactly while one is: no exit (the RPC failure included) leaves it up for ever.
RecoveryExclusive ==
    /\ \A w \in Wallets : recovering[w] <=> \E p \in Procs : InRecovery(p, w)
    /\ \A w \in Wallets : \A p, q \in Procs :
         InRecovery(p, w) /\ InRecovery(q, w) => p = q

\* Case 2 of the reconciliation comment (in_flight not empty and the chain past
\* max_sent) never happens: fetch_max comes before the insert, and retain drops
\* what the chain passed.
CaseTwoNever ==
    \A p \in Procs :
        pc[p] \in HeldPC /\ in_flight[idx[p]] # {} => chain_nonce[p] <= max_sent[idx[p]]

\* next_nonce leaves no hole: every nonce between what the node has seen and the
\* next one to hand out belongs to some task, whatever recover() rewound to.
\* A hole would block every later transaction of the wallet.
NoNonceGap ==
    \A w \in Wallets : \A n \in pending[w]..(nonce[w] - 1) : <<w, n>> \in issued

\* Between two resyncs of a wallet no nonce is handed to two tasks, however their
\* next_nonce calls interleave.
DistinctSinceResync ==
    \A w \in Wallets : \A t, u \in fresh[w] : t # u => ticket[t] # ticket[u]

\* A nonce leaves in_flight only when the node's pending count passed it or a
\* relay answered success for a transaction that carries it: recover() on a
\* stale answer never forgets a transaction that still has to be followed.
DroppedIsSettled ==
    [][\A w \in Wallets : \A n \in in_flight[w] :
         n \notin in_flight'[w] => n < pending[w] \/ <<w, n>> \in acked]_vars

\* recover() parks a wallet only while the nonce it has just rewound to is still
\* in flight: mark_confirmed, which may take that nonce away at any time, waits
\* for the guard from the judgement to the store of the flag.  And some stuck
\* frontier of this wallet was first seen more than 12 s before.  That one need
\* not have been this nonce: stuck_since is per wallet, so that a nonce whose
\* predecessor was seen stuck is parked at its own first sighting.
ParkedOnInFlight ==
    [][\A w \in Wallets : ~stuck[w] /\ stuck'[w] =>
         synced[w] \in in_flight[w] /\ stuck_since[w] = "old"]_vars

\* No task of wallet w can still reach its recover(), and the boot is over.
Unattended(w) ==
    /\ pc[Main] = "dispatch"
    /\ \A t \in Tasks :
         idx[t] = w => pc[t] \in {"idle", "load_stuck", "missed", "done"}

\* A parked wallet whose tasks are gone is never used again: only its own tasks
\* recover it, and next_nonce hands out nothing from it.
ParkedForGood ==
    [][\A w \in Wallets :
         stuck[w] /\ Unattended(w) => (stuck[w] /\ Unattended(w))']_vars

-----------------------------------------------------------------------------
(* What the wallets look like from outside *)

\* Tasks that have a nonce, or had one and are done with it
Holders == {t \in Tasks : pc[t] \in HolderPC \cup {"done"}}

HeldTickets == [w \in Wallets |-> {<<t, ticket[t]>> : t \in fresh[w]}]

A == INSTANCE Allocator WITH
    Clients <- Tasks,
    next    <- nonce,
    chain   <- pending,
    floor   <- synced,
    used    <- issued,
    held    <- HeldTickets,
    served  <- Holders

\* The probing, the guard, the RPC call and the stores of recover(), interleaved
\* over any tasks, are an atomic counter with an atomic fall-back: a task has at
\* most one nonce, a late answer never takes a wallet behind an earlier resync
\* nor past the chain, and the chain advances through handed-out nonces only.
ImplementsAllocator == A!Spec

\* A wallet in recovery comes back.
RecoveryEnds ==
    \A w \in Wallets : recovering[w] ~> ~recovering[w]

\* A spawned task ends, with its wallet recovered or with no wallet to use.
TaskEnds ==
    \A t \in Tasks : pc[t] = "load_stuck" ~> pc[t] \in {"done", "missed"}
=============================================================================
