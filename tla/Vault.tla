-------------------------------- MODULE Vault --------------------------------
(***************************************************************************)
(* The contract that holds the funds: src/contracts/Vault.sol.             *)
(*                                                                         *)
(* executeSwap calls a router in its middle, and the router may call back: *)
(* the calls under way form a stack, each with the state its revert brings *)
(* back.  A call that fails one of its first checks changes nothing and is *)
(* no step.  The cold wallet acts between transactions.  The tokens and    *)
(* the routers are the environment: they may pay the vault or, with a fee  *)
(* or a rebase, cost it tokens at any time.                                *)
(*                                                                         *)
(* A swap is of one token, and its checks read that token's balance only:  *)
(* what nested swaps of other tokens cost is their own checks' business.   *)
(***************************************************************************)
EXTENDS Integers, Sequences

CONSTANTS
    Executors,      \* addresses the owner may authorise
    Contracts,      \* those among them that are contracts and can call back
    Routers,        \* DEX routers the owner may whitelist
    Tokens,         \* ERC-20 tokens
    Orders,         \* what the Brain signed: [token, minOutput, nonce, deadline, router]
    Amounts,        \* amounts of one transfer
    StartBalance,   \* what the vault holds of each token at the start
    MaxBalance,     \* bound on what it holds of one token
    MaxTime,        \* bound on the block time
    MaxDepth        \* bound on the nesting of executeSwap

ASSUME AddressesAssumption == Contracts \subseteq Executors
ASSUME OrdersAssumption ==
    \A o \in Orders : /\ o.token \in Tokens /\ o.router \in Routers
                      /\ o.minOutput \in Nat /\ o.deadline \in Nat
ASSUME AmountsAssumption == Amounts \subseteq Nat /\ StartBalance \in 0..MaxBalance
ASSUME VaultBounds == MaxBalance \in Nat /\ MaxTime \in Nat /\ MaxDepth \in Nat

VARIABLES
    \* storage
    executors, whitelistedRouters, usedNonces, paused,
    \* the tokens and the block
    balance,        \* each token's balanceOf(vault)
    now,            \* block.timestamp
    \* execution
    stack,          \* the executeSwap calls under way, the outermost first
    \* history
    settled,        \* orders of the swaps that went through, in order
    entitled        \* what the swaps so far must leave to the owner of each token

admin_vars == <<executors, whitelistedRouters, paused>>
vars == <<admin_vars, usedNonces, balance, now, stack, settled, entitled>>

Idle == stack = <<>>
Top  == stack[Len(stack)]
Popped == SubSeq(stack, 1, Len(stack) - 1)

\* One of the first k calls is a swap of t, whose return checks t's balance.
CoveredBelow(k, t) == \E f \in 1..k : stack[f].order.token = t
Covered(t) == CoveredBelow(Len(stack), t)

Init ==
    /\ executors = {}
    /\ whitelistedRouters = {}
    /\ usedNonces = {}
    /\ paused = FALSE
    /\ balance = [t \in Tokens |-> StartBalance]
    /\ now = 0
    /\ stack = <<>>
    /\ settled = <<>>
    /\ entitled = [t \in Tokens |-> StartBalance]

-----------------------------------------------------------------------------
(* The cold wallet, between transactions *)

AddExecutor(a) ==
    /\ Idle
    /\ executors' = executors \cup {a}
    /\ UNCHANGED <<whitelistedRouters, paused, usedNonces, balance, now, stack, settled, entitled>>

RemoveExecutor(a) ==
    /\ Idle
    /\ executors' = executors \ {a}
    /\ UNCHANGED <<whitelistedRouters, paused, usedNonces, balance, now, stack, settled, entitled>>

AddRouter(r) ==
    /\ Idle
    /\ whitelistedRouters' = whitelistedRouters \cup {r}
    /\ UNCHANGED <<executors, paused, usedNonces, balance, now, stack, settled, entitled>>

RemoveRouter(r) ==
    /\ Idle
    /\ whitelistedRouters' = whitelistedRouters \ {r}
    /\ UNCHANGED <<executors, paused, usedNonces, balance, now, stack, settled, entitled>>

EmergencyPause ==
    /\ Idle
    /\ paused' = TRUE
    /\ UNCHANGED <<executors, whitelistedRouters, usedNonces, balance, now, stack, settled, entitled>>

EmergencyUnpause ==
    /\ Idle
    /\ paused' = FALSE
    /\ UNCHANGED <<executors, whitelistedRouters, usedNonces, balance, now, stack, settled, entitled>>

RescueTokens(t, n) ==
    /\ Idle
    /\ n <= balance[t]
    /\ balance' = [balance EXCEPT ![t] = @ - n]
    /\ entitled' = [entitled EXCEPT ![t] = @ - n]
    /\ UNCHANGED <<admin_vars, usedNonces, now, stack, settled>>

-----------------------------------------------------------------------------
(* executeSwap *)

\* Mutant: the nonce is not marked before the router is called.
Unmarked(o) == usedNonces

\* usedNonces[nonce] = true
Marked(o) == usedNonces \cup {o.nonce}

\* Mutant: the vault's balance is not compared with amountIn.
AcceptedUncovered(e, o, n) ==
    /\ e \in executors
    /\ ~paused
    /\ now <= o.deadline
    /\ o.nonce \notin usedNonces
    /\ o.router \in whitelistedRouters

\* Mutant: the signature never expires.
AcceptedExpired(e, o, n) ==
    /\ e \in executors
    /\ ~paused
    /\ o.nonce \notin usedNonces
    /\ o.router \in whitelistedRouters
    /\ balance[o.token] >= n

\* onlyAuthorizedExecutor, whenNotPaused and the requires before the transfer;
\* that ecrecover yields the signer is that o is one of Orders.
Accepted(e, o, n) ==
    /\ e \in executors
    /\ ~paused
    /\ now <= o.deadline
    /\ o.nonce \notin usedNonces
    /\ o.router \in whitelistedRouters
    /\ balance[o.token] >= n

\* Up to the router's call.  A call from inside another comes from a contract.
EnterSwap(e, o, n) ==
    /\ Idle \/ e \in Contracts
    /\ Len(stack) < MaxDepth
    /\ Accepted(e, o, n)
    /\ stack' = Append(stack, [order |-> o, amountIn |-> n, before |-> balance,
                               owed |-> entitled, used |-> usedNonces, done |-> settled])
    /\ usedNonces' = Marked(o)
    /\ balance' = [balance EXCEPT ![o.token] = @ - n]
    /\ UNCHANGED <<admin_vars, now, settled, entitled>>

\* Mutant: balanceBefore is read after the transfer of amountIn.
AmountOutLate(f) == balance[f.order.token] - (f.before[f.order.token] - 2 * f.amountIn) >= 0

\* amountOut is a uint256: a negative one reverts.
AmountOutExists(f) == balance[f.order.token] - (f.before[f.order.token] - f.amountIn) >= 0

\* The router returned, and what executeSwap checks after it holds.  The swap's cost
\* is its amountIn, unless a swap of the same token around it has to make that good.
Settle ==
    /\ ~Idle
    /\ balance[Top.order.token] >= Top.order.minOutput
    /\ AmountOutExists(Top)
    /\ stack' = Popped
    /\ settled' = Append(settled, Top.order)
    /\ entitled' = IF CoveredBelow(Len(stack) - 1, Top.order.token)
                   THEN entitled
                   ELSE [entitled EXCEPT ![Top.order.token] = @ - Top.amountIn]
    /\ UNCHANGED <<admin_vars, usedNonces, balance, now>>

\* The router failed, or a check after it: this call and all it did is undone.
Revert ==
    /\ ~Idle
    /\ stack' = Popped
    /\ usedNonces' = Top.used
    /\ settled' = Top.done
    /\ balance' = Top.before
    /\ entitled' = Top.owed
    /\ UNCHANGED <<admin_vars, now>>

-----------------------------------------------------------------------------
(* Environment: the tokens and the block time.  What comes in or goes out   *)
(* while a swap of the token is under way is for that swap to account for. *)

\* Somebody, a router in the middle of a swap perhaps, pays the vault.
TokenIn(t, n) ==
    /\ balance[t] + n <= MaxBalance
    /\ balance' = [balance EXCEPT ![t] = @ + n]
    /\ entitled' = IF Covered(t) THEN entitled ELSE [entitled EXCEPT ![t] = @ + n]
    /\ UNCHANGED <<admin_vars, usedNonces, now, stack, settled>>

\* A fee or a rebase of the token costs the vault.
TokenOut(t, n) ==
    /\ n <= balance[t]
    /\ balance' = [balance EXCEPT ![t] = @ - n]
    /\ entitled' = IF Covered(t) THEN entitled ELSE [entitled EXCEPT ![t] = @ - n]
    /\ UNCHANGED <<admin_vars, usedNonces, now, stack, settled>>

NextBlock ==
    /\ Idle
    /\ now < MaxTime
    /\ now' = now + 1
    /\ UNCHANGED <<admin_vars, usedNonces, balance, stack, settled, entitled>>

-----------------------------------------------------------------------------
Admin ==
    \/ \E a \in Executors : AddExecutor(a) \/ RemoveExecutor(a)
    \/ \E r \in Routers : AddRouter(r) \/ RemoveRouter(r)
    \/ EmergencyPause \/ EmergencyUnpause
    \/ \E t \in Tokens, n \in Amounts : RescueTokens(t, n)

ExecuteSwap ==
    \/ \E e \in Executors, o \in Orders, n \in Amounts : EnterSwap(e, o, n)
    \/ Settle
    \/ Revert

Environment ==
    NextBlock \/ \E t \in Tokens, n \in Amounts : TokenIn(t, n) \/ TokenOut(t, n)

Next == Admin \/ ExecuteSwap \/ Environment

Spec == Init /\ [][Next]_vars

-----------------------------------------------------------------------------
(* Properties *)

Frames == [order : Orders, amountIn : Amounts, before : [Tokens -> 0..MaxBalance],
           owed : [Tokens -> Int], used : SUBSET {o.nonce : o \in Orders}, done : Seq(Orders)]

\* Storage, balances and calls have their types; no balance is ever negative.
TypeOK ==
    /\ executors \subseteq Executors
    /\ whitelistedRouters \subseteq Routers
    /\ paused \in BOOLEAN
    /\ usedNonces \subseteq {o.nonce : o \in Orders}
    /\ balance \in [Tokens -> 0..MaxBalance]
    /\ now \in 0..MaxTime
    /\ stack \in Seq(Frames)
    /\ settled \in Seq(Orders)
    /\ entitled \in [Tokens -> Int]

\* No two swaps that went through carry the same nonce, whatever a router calls
\* back and whichever of the calls are undone.
OncePerNonce ==
    \A i, j \in DOMAIN settled : i # j => settled[i].nonce # settled[j].nonce

\* Whenever no swap of a token is under way, the vault has lost of it at most the
\* amountIn of those swaps of it that no other swap of it enclosed: what nested swaps
\* of the token, fees and rebases cost inside a swap of it is made good, or undone.
LossBounded == \A t \in Tokens : Covered(t) \/ balance[t] >= entitled[t]

\* Between transactions a nonce is used exactly when an order with it went through:
\* what a revert undid, at any depth, can be tried again with the same signature.
SpentIsPaid == Idle => usedNonces = {settled[i].nonce : i \in DOMAIN settled}

-----------------------------------------------------------------------------
(* Refinement: while calls are under way, the ledger stands where the      *)
(* outermost one found it; its return is the transaction.                  *)

CommittedFunds  == IF Idle THEN balance ELSE stack[1].before
CommittedNonces == IF Idle THEN usedNonces ELSE stack[1].used
CommittedOrders == IF Idle THEN settled ELSE stack[1].done

L == INSTANCE Ledger WITH
         routers  <- whitelistedRouters,
         MaxFunds <- MaxBalance,
         funds    <- CommittedFunds,
         spent    <- CommittedNonces,
         paid     <- CommittedOrders

\* Calls nested in executeSwap, reverted or not, are seen by nobody: the vault is a
\* ledger of atomic transactions, each a batch of valid orders that costs at most
\* one amountIn of the token of the last of them.
ImplementsLedger == L!Spec
=============================================================================
