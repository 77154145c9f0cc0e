-------------------------------- MODULE Ledger --------------------------------
(***************************************************************************)
(* What the Vault (src/contracts/Vault.sol) promises its owner: a ledger   *)
(* of atomic transactions.  One transaction settles a batch of signed      *)
(* orders, or it never happened; there are no calls inside one another.    *)
(* Its last order is the one it was sent for, the others came up during    *)
(* its execution: only the last one's token is checked at the end.         *)
(***************************************************************************)
EXTENDS Integers, Sequences

CONSTANTS Executors, Routers, Tokens, Orders, Amounts, MaxFunds, MaxTime

VARIABLES executors,    \* who may send a transaction
          routers,      \* where an order may be executed
          paused,       \* the breaker
          now,          \* the block time
          funds,        \* what the vault holds of each token
          spent,        \* the nonces no order can use any more
          paid          \* the orders settled so far

rules == <<executors, routers, paused>>
lvars == <<rules, now, funds, spent, paid>>

Init ==
    /\ executors = {} /\ routers = {} /\ paused = FALSE
    /\ now = 0
    /\ funds \in [Tokens -> 0..MaxFunds]
    /\ spent = {}
    /\ paid = <<>>

\* The owner changes who may trade, and where, or pulls the breaker.
Govern ==
    /\ executors' \in SUBSET Executors
    /\ routers' \in SUBSET Routers
    /\ paused' \in BOOLEAN
    /\ UNCHANGED <<now, funds, spent, paid>>

\* Tokens come and go between transactions.
Move ==
    /\ funds' \in [Tokens -> 0..MaxFunds]
    /\ UNCHANGED <<rules, now, spent, paid>>

Tick ==
    /\ now' \in (now + 1)..MaxTime
    /\ UNCHANGED <<rules, funds, spent, paid>>

\* The orders the step adds to paid, by position.
Batch == (Len(paid) + 1)..Len(paid')

Valid(o) == o.deadline >= now /\ o.router \in routers /\ o.nonce \notin spent

\* Of the order's token there is its minOutput, and at most one amount is gone.
Checked(o) ==
    /\ \E n \in Amounts : n <= funds[o.token] /\ funds'[o.token] >= funds[o.token] - n
    /\ funds'[o.token] >= o.minOutput

\* Valid orders of different nonces are settled together, and the last one's token
\* is checked for all of them; the orders of other tokens have their own costs.
Transact ==
    /\ ~paused
    /\ executors # {}
    /\ paid' \in Seq(Orders)
    /\ Batch # {}
    /\ \A i \in DOMAIN paid : paid'[i] = paid[i]
    /\ \A i \in Batch : Valid(paid'[i])
    /\ \A i, j \in Batch : i # j => paid'[i].nonce # paid'[j].nonce
    /\ spent' = spent \cup {paid'[i].nonce : i \in Batch}
    /\ funds' \in [Tokens -> 0..MaxFunds]
    /\ Checked(paid'[Len(paid')])
    /\ UNCHANGED <<rules, now>>

Next == Govern \/ Move \/ Tick \/ Transact

Spec == Init /\ [][Next]_lvars
=============================================================================
