----------------------------- MODULE VaultProofs -----------------------------
(***************************************************************************)
(* The Vault's safety for every set of signed orders, every amount and     *)
(* every depth of nesting.                                                 *)
(*                                                                         *)
(* A nonce is used from the entry of its swap on, so that the calls under  *)
(* way, what they undo to and what went through never share one: NonceInv  *)
(* says so frame by frame, because a revert brings a frame's past back.    *)
(***************************************************************************)
EXTENDS Vault, SequenceTheorems, TLAPS

\* s holds no two orders of one nonce.
Distinct(s) == \A i, j \in DOMAIN s : i # j => s[i].nonce # s[j].nonce

\* Every order of s has its nonce in U, and it is not n.
Within(s, U) == \A i \in DOMAIN s : s[i].nonce \in U
Without(s, n) == \A i \in DOMAIN s : s[i].nonce # n

NonceInv ==
    /\ Distinct(settled)
    /\ Within(settled, usedNonces)
    /\ \A f \in DOMAIN stack :
         /\ stack[f].order.nonce \in usedNonces
         /\ Without(settled, stack[f].order.nonce)
         /\ Distinct(stack[f].done)
         /\ Within(stack[f].done, stack[f].used)
         /\ stack[f].order.nonce \notin stack[f].used
    /\ \A f, g \in DOMAIN stack : f < g =>
         /\ stack[f].order.nonce \in stack[g].used
         /\ Without(stack[g].done, stack[f].order.nonce)

\* In the present, and in every past a revert can bring back, the vault holds what its
\* owner is entitled to of every token no swap was under way of, and what the owner is
\* entitled to of the others is what it was when their swaps began.
EntryInv ==
    /\ LossBounded
    /\ \A g \in DOMAIN stack : entitled[stack[g].order.token] = stack[g].owed[stack[g].order.token]
    /\ \A f \in DOMAIN stack :
         /\ \A t \in Tokens : CoveredBelow(f - 1, t) \/ stack[f].before[t] >= stack[f].owed[t]
         /\ \A g \in DOMAIN stack :
              g < f => stack[f].owed[stack[g].order.token] = stack[g].owed[stack[g].order.token]

NoncesOf(s) == {s[i].nonce : i \in DOMAIN s}

\* The nonces of the first k calls of s.
Underway(s, k) == {s[i].order.nonce : i \in 1..k}

Live(o) == o.deadline >= now /\ o.router \in whitelistedRouters

\* s goes on from d with live orders only.
Grown(d, s) ==
    /\ Len(d) <= Len(s)
    /\ \A i \in DOMAIN d : s[i] = d[i]
    /\ \A i \in (Len(d) + 1)..Len(s) : Live(s[i])

\* A nonce is used by an order that went through or by a call under way, also in
\* every past a revert can bring back.
SpentInv ==
    /\ usedNonces = NoncesOf(settled) \cup Underway(stack, Len(stack))
    /\ \A f \in DOMAIN stack : stack[f].used = NoncesOf(stack[f].done) \cup Underway(stack, f - 1)

\* A transaction under way only adds live orders to what was settled before it, in
\* every past a revert can bring back.
GrowInv ==
    ~Idle =>
      /\ ~paused /\ executors # {}
      /\ stack[1].amountIn <= stack[1].before[stack[1].order.token]
      /\ Grown(stack[1].done, settled)
      /\ \A f \in DOMAIN stack : Grown(stack[1].done, stack[f].done) /\ Live(stack[f].order)

-----------------------------------------------------------------------------
LEMMA PopSeq ==
    ASSUME NEW S, NEW s \in Seq(S), Len(s) \in Nat \ {0}
    PROVE  /\ SubSeq(s, 1, Len(s) - 1) \in Seq(S)
           /\ Len(SubSeq(s, 1, Len(s) - 1)) = Len(s) - 1
           /\ \A i \in 1..(Len(s) - 1) : SubSeq(s, 1, Len(s) - 1)[i] = s[i]
<1>1. PICK n \in Nat : n = Len(s) - 1
  OBVIOUS
<1>2. \A i \in 1..n : s[i] \in S
  BY <1>1
<1>3. /\ SubSeq(s, 1, n) \in Seq(S)
      /\ Len(SubSeq(s, 1, n)) = IF 1 <= n THEN n - 1 + 1 ELSE 0
      /\ \A i \in 1..(n - 1 + 1) : SubSeq(s, 1, n)[i] = s[1 + i - 1]
  BY <1>2, SubSeqProperties
<1>4. n = Len(s) - 1 /\ n \in Nat /\ n - 1 + 1 = n
  BY <1>1
<1>5. Len(SubSeq(s, 1, n)) = n
  BY <1>3, <1>4
<1>6. \A i \in 1..n : SubSeq(s, 1, n)[i] = s[i]
  BY <1>3, <1>4
<1> QED BY <1>1, <1>3, <1>5, <1>6

\* What is left of the stack when a call returns.
LEMMA PoppedFacts ==
    ASSUME TypeOK, ~Idle
    PROVE  /\ Len(stack) \in Nat \ {0}
           /\ Top \in Frames
           /\ Popped \in Seq(Frames)
           /\ DOMAIN Popped = 1..(Len(stack) - 1)
           /\ DOMAIN stack = 1..Len(stack)
           /\ \A i \in DOMAIN Popped : i \in DOMAIN stack /\ i < Len(stack) /\ Popped[i] = stack[i]
<1>1. stack \in Seq(Frames) /\ Len(stack) \in Nat \ {0}
  BY DEF TypeOK, Idle
<1>2. DOMAIN stack = 1..Len(stack) /\ Top \in Frames
  BY <1>1 DEF Top
<1>3. Popped \in Seq(Frames) /\ Len(Popped) = Len(stack) - 1
      /\ \A i \in 1..(Len(stack) - 1) : Popped[i] = stack[i]
  BY <1>1, PopSeq DEF Popped
<1>4. DOMAIN Popped = 1..(Len(stack) - 1)
  BY <1>3
<1> QED BY <1>1, <1>2, <1>3, <1>4

\* What is on the stack once a call is entered.
LEMMA PushedFacts ==
    ASSUME TypeOK, NEW f \in Frames, NEW s, s = Append(stack, f)
    PROVE  /\ s \in Seq(Frames)
           /\ DOMAIN s = 1..(Len(stack) + 1)
           /\ DOMAIN stack = 1..Len(stack)
           /\ Len(stack) \in Nat
           /\ s[Len(stack) + 1] = f
           /\ \A i \in DOMAIN stack : s[i] = stack[i]
BY DEF TypeOK

\* Stepping over a stack that keeps its calls: its length grows or shrinks by one.
LEMMA PushedStack ==
    ASSUME TypeOK, NEW e \in Executors, NEW o \in Orders, NEW n \in Amounts, EnterSwap(e, o, n)
    PROVE  /\ DOMAIN stack' = 1..(Len(stack) + 1) /\ DOMAIN stack = 1..Len(stack)
           /\ Len(stack) \in Nat /\ Len(stack') = Len(stack) + 1
           /\ stack'[Len(stack) + 1] =
                [order |-> o, amountIn |-> n, before |-> balance,
                 owed |-> entitled, used |-> usedNonces, done |-> settled]
           /\ \A i \in DOMAIN stack : stack'[i] = stack[i]
<1> DEFINE f == [order |-> o, amountIn |-> n, before |-> balance,
                 owed |-> entitled, used |-> usedNonces, done |-> settled]
<1>1. f \in Frames
  BY DEF Frames, TypeOK
<1>2. stack' = Append(stack, f)
  BY DEF EnterSwap
<1>3. Len(stack') = Len(stack) + 1
  BY <1>2, <1>1 DEF TypeOK
<1> QED BY <1>1, <1>2, <1>3, PushedFacts

LEMMA PoppedStack ==
    ASSUME TypeOK, Settle \/ Revert
    PROVE  /\ stack' = Popped /\ ~Idle
           /\ Len(stack) \in Nat \ {0} /\ Len(stack') = Len(stack) - 1
           /\ Top = stack[Len(stack)] /\ Top \in Frames
           /\ DOMAIN stack = 1..Len(stack) /\ DOMAIN stack' = 1..(Len(stack) - 1)
           /\ \A i \in DOMAIN stack' : i \in DOMAIN stack /\ stack'[i] = stack[i]
<1>1. stack' = Popped /\ ~Idle
  BY DEF Settle, Revert
<1>2. Len(stack) \in Nat \ {0} /\ Popped \in Seq(Frames) /\ DOMAIN Popped = 1..(Len(stack) - 1)
  BY <1>1, PoppedFacts
<1>3. Len(Popped) = Len(stack) - 1
  BY <1>2
<1> QED BY <1>1, <1>2, <1>3, PoppedFacts DEF Top

LEMMA TypeInit == Init => TypeOK
<1> SUFFICES ASSUME Init PROVE TypeOK
  OBVIOUS
<1>1. stack \in Seq(Frames) /\ settled \in Seq(Orders)
  BY DEF Init
<1>2. balance \in [Tokens -> 0..MaxBalance] /\ now \in 0..MaxTime /\ entitled \in [Tokens -> Int]
  BY AmountsAssumption, VaultBounds DEF Init
<1> QED BY <1>1, <1>2 DEF Init, TypeOK

LEMMA TypeNext ==
    ASSUME TypeOK, [Next]_vars
    PROVE  TypeOK'
<1> USE AmountsAssumption, VaultBounds
<1>1. CASE Admin
  <2> USE DEF TypeOK
  <2>1. ASSUME NEW a \in Executors, AddExecutor(a) \/ RemoveExecutor(a) PROVE TypeOK'
    BY <2>1 DEF AddExecutor, RemoveExecutor
  <2>2. ASSUME NEW r \in Routers, AddRouter(r) \/ RemoveRouter(r) PROVE TypeOK'
    BY <2>2 DEF AddRouter, RemoveRouter
  <2>3. CASE EmergencyPause \/ EmergencyUnpause
    BY <2>3 DEF EmergencyPause, EmergencyUnpause
  <2>4. ASSUME NEW t \in Tokens, NEW n \in Amounts, RescueTokens(t, n) PROVE TypeOK'
    <3>1. n \in Nat /\ balance[t] \in 0..MaxBalance /\ entitled[t] \in Int
      OBVIOUS
    <3>2. balance[t] - n \in 0..MaxBalance /\ entitled[t] - n \in Int
      BY <2>4, <3>1 DEF RescueTokens
    <3> QED BY <2>4, <3>2 DEF RescueTokens, admin_vars
  <2> QED BY <1>1, <2>1, <2>2, <2>3, <2>4 DEF Admin
<1>2. ASSUME NEW e \in Executors, NEW o \in Orders, NEW n \in Amounts, EnterSwap(e, o, n)
      PROVE  TypeOK'
  <2> DEFINE f == [order |-> o, amountIn |-> n, before |-> balance,
                   owed |-> entitled, used |-> usedNonces, done |-> settled]
  <2>1. f \in Frames
    BY DEF Frames, TypeOK
  <2>2. stack' \in Seq(Frames)
    BY <1>2, <2>1, PushedFacts DEF EnterSwap
  <2>3. balance' \in [Tokens -> 0..MaxBalance] /\ usedNonces' \subseteq {q.nonce : q \in Orders}
    <3>1. o.token \in Tokens /\ n \in Nat
      BY OrdersAssumption
    <3>2. balance[o.token] - n \in 0..MaxBalance
      BY <1>2, <3>1 DEF EnterSwap, Accepted, TypeOK
    <3> QED BY <1>2, <3>1, <3>2 DEF EnterSwap, Marked, TypeOK
  <2> QED BY <1>2, <2>2, <2>3 DEF EnterSwap, TypeOK, admin_vars
<1>3. CASE Settle
  <2>1. Popped \in Seq(Frames) /\ Top.order \in Orders /\ Top.amountIn \in Int
    BY <1>3, PoppedFacts DEF Settle, Frames
  <2>2. settled' \in Seq(Orders)
    BY <1>3, <2>1 DEF Settle, TypeOK
  <2>3. entitled' \in [Tokens -> Int]
    <3>1. Top.order.token \in Tokens /\ entitled[Top.order.token] - Top.amountIn \in Int
      BY <2>1, OrdersAssumption DEF TypeOK
    <3> QED BY <1>3, <3>1 DEF Settle, TypeOK
  <2> QED BY <1>3, <2>1, <2>2, <2>3 DEF Settle, TypeOK, admin_vars
<1>4. CASE Revert
  <2>1. Popped \in Seq(Frames) /\ Top \in Frames
    BY <1>4, PoppedFacts DEF Revert
  <2> QED BY <1>4, <2>1 DEF Revert, TypeOK, admin_vars, Frames
<1>5. CASE Environment
  <2>1. CASE NextBlock
    BY <2>1 DEF NextBlock, TypeOK, admin_vars
  <2>2. ASSUME NEW t \in Tokens, NEW n \in Amounts, TokenIn(t, n) \/ TokenOut(t, n) PROVE TypeOK'
    <3>1. n \in Nat /\ balance[t] \in 0..MaxBalance /\ entitled[t] + n \in Int /\ entitled[t] - n \in Int
      BY DEF TypeOK
    <3>2. balance' \in [Tokens -> 0..MaxBalance]
      <4>1. TokenIn(t, n) => balance[t] + n \in 0..MaxBalance
        BY <3>1 DEF TokenIn
      <4>2. TokenOut(t, n) => balance[t] - n \in 0..MaxBalance
        BY <3>1 DEF TokenOut
      <4> QED BY <2>2, <4>1, <4>2 DEF TokenIn, TokenOut, TypeOK
    <3>3. entitled' \in [Tokens -> Int]
      BY <2>2, <3>1 DEF TokenIn, TokenOut, TypeOK
    <3> QED BY <2>2, <3>2, <3>3 DEF TokenIn, TokenOut, TypeOK, admin_vars
  <2> QED BY <1>5, <2>1, <2>2 DEF Environment
<1>6. CASE UNCHANGED vars
  BY <1>6 DEF vars, admin_vars, TypeOK
<1> QED BY <1>1, <1>2, <1>3, <1>4, <1>5, <1>6 DEF Next, ExecuteSwap

\* Storage, balance and stack keep their types; the balance is never negative.
THEOREM VaultTyped == Spec => []TypeOK
BY TypeInit, TypeNext, PTL DEF Spec

-----------------------------------------------------------------------------
LEMMA NonceInit == Init => NonceInv
<1> SUFFICES ASSUME Init PROVE NonceInv
  OBVIOUS
<1>1. DOMAIN settled = {} /\ DOMAIN stack = {}
  BY DEF Init
<1> QED BY <1>1 DEF NonceInv, Distinct, Within, Without

LEMMA NonceNext ==
    ASSUME TypeOK, NonceInv, [Next]_vars
    PROVE  NonceInv'
<1>1. ASSUME UNCHANGED <<settled, usedNonces, stack>> PROVE NonceInv'
  BY <1>1 DEF NonceInv
<1>2. CASE Admin \/ Environment \/ UNCHANGED vars
  BY <1>1, <1>2 DEF Admin, Environment, AddExecutor, RemoveExecutor, AddRouter, RemoveRouter,
     EmergencyPause, EmergencyUnpause, RescueTokens, NextBlock, TokenIn, TokenOut, vars
<1>3. ASSUME NEW e \in Executors, NEW o \in Orders, NEW n \in Amounts, EnterSwap(e, o, n)
      PROVE  NonceInv'
  <2> DEFINE f == [order |-> o, amountIn |-> n, before |-> balance,
                   owed |-> entitled, used |-> usedNonces, done |-> settled]
             m == Len(stack) + 1
  <2>1. f \in Frames
    BY DEF Frames, TypeOK
  <2>2. /\ DOMAIN stack' = 1..m /\ DOMAIN stack = 1..Len(stack) /\ Len(stack) \in Nat
        /\ stack'[m] = f
        /\ \A i \in DOMAIN stack : stack'[i] = stack[i]
    BY <1>3, <2>1, PushedFacts DEF EnterSwap
  <2>3. \A i \in DOMAIN stack' : i # m => i \in DOMAIN stack /\ i < m
    BY <2>2
  <2>4. usedNonces' = usedNonces \cup {o.nonce} /\ settled' = settled /\ o.nonce \notin usedNonces
    BY <1>3 DEF EnterSwap, Accepted, Marked
  <2>5. Distinct(settled') /\ Within(settled', usedNonces')
    BY <2>4 DEF NonceInv, Within
  <2>6. ASSUME NEW i \in DOMAIN stack'
        PROVE  /\ stack'[i].order.nonce \in usedNonces'
               /\ Without(settled', stack'[i].order.nonce)
               /\ Distinct(stack'[i].done)
               /\ Within(stack'[i].done, stack'[i].used)
               /\ stack'[i].order.nonce \notin stack'[i].used
    <3>1. CASE i = m
      BY <2>2, <2>4, <3>1 DEF NonceInv, Within, Without
    <3>2. CASE i # m
      BY <2>2, <2>3, <2>4, <3>2 DEF NonceInv
    <3> QED BY <3>1, <3>2
  <2>7. ASSUME NEW i \in DOMAIN stack', NEW j \in DOMAIN stack', i < j
        PROVE  /\ stack'[i].order.nonce \in stack'[j].used
               /\ Without(stack'[j].done, stack'[i].order.nonce)
    <3>1. i # m /\ i \in DOMAIN stack
      BY <2>2, <2>7
    <3>2. CASE j = m
      BY <2>2, <3>1, <3>2 DEF NonceInv
    <3>3. CASE j # m
      BY <2>2, <2>3, <2>7, <3>1, <3>3 DEF NonceInv
    <3> QED BY <3>2, <3>3
  <2> QED BY <2>5, <2>6, <2>7 DEF NonceInv
<1>4. CASE Settle
  <2> DEFINE m == Len(stack)
             o == Top.order
  <2>1. /\ stack' = Popped /\ usedNonces' = usedNonces /\ settled' = Append(settled, o)
        /\ ~Idle
    BY <1>4 DEF Settle
  <2>2. /\ m \in DOMAIN stack /\ Top = stack[m]
        /\ \A i \in DOMAIN Popped : i \in DOMAIN stack /\ i < m /\ Popped[i] = stack[i]
    BY <2>1, PoppedFacts DEF Top
  <2>3. /\ o.nonce \in usedNonces /\ Without(settled, o.nonce)
        /\ o.nonce \notin stack[m].used
    BY <2>2 DEF NonceInv
  <2>4. /\ DOMAIN settled = 1..Len(settled) /\ Len(settled) \in Nat
        /\ DOMAIN settled' = 1..(Len(settled) + 1)
        /\ \A i \in DOMAIN settled : settled'[i] = settled[i]
        /\ settled'[Len(settled) + 1] = o
    BY <2>1 DEF TypeOK
  <2>5. \A i \in DOMAIN settled' : i # Len(settled) + 1 => i \in DOMAIN settled
    BY <2>4
  <2>6. Distinct(settled') /\ Within(settled', usedNonces')
    BY <2>1, <2>3, <2>4, <2>5 DEF NonceInv, Distinct, Within, Without
  <2>7. ASSUME NEW i \in DOMAIN Popped PROVE Without(settled', Popped[i].order.nonce)
    <3>1. Popped[i].order.nonce # o.nonce
      BY <2>2, <2>3 DEF NonceInv
    <3>2. Without(settled, Popped[i].order.nonce)
      BY <2>2 DEF NonceInv
    <3> QED BY <2>4, <2>5, <3>1, <3>2 DEF Without
  <2> QED BY <2>1, <2>2, <2>6, <2>7 DEF NonceInv
<1>5. CASE Revert
  <2> DEFINE m == Len(stack)
  <2>1. stack' = Popped /\ usedNonces' = Top.used /\ settled' = Top.done /\ ~Idle
    BY <1>5 DEF Revert
  <2>2. /\ m \in DOMAIN stack /\ Top = stack[m]
        /\ \A i \in DOMAIN Popped : i \in DOMAIN stack /\ i < m /\ Popped[i] = stack[i]
    BY <2>1, PoppedFacts DEF Top
  <2>3. Distinct(settled') /\ Within(settled', usedNonces')
    BY <2>1, <2>2 DEF NonceInv
  <2>4. \A i \in DOMAIN Popped : /\ Popped[i].order.nonce \in usedNonces'
                                /\ Without(settled', Popped[i].order.nonce)
    BY <2>1, <2>2 DEF NonceInv
  <2> QED BY <2>1, <2>2, <2>3, <2>4 DEF NonceInv
<1> QED BY <1>2, <1>3, <1>4, <1>5 DEF Next, ExecuteSwap

\* No nonce pays twice: not through a router that calls back into executeSwap, and
\* not through a nonce that a revert gave back.
THEOREM OnceAlways == Spec => []OncePerNonce
<1>1. Init => TypeOK /\ NonceInv
  BY TypeInit, NonceInit
<1>2. (TypeOK /\ NonceInv) /\ [Next]_vars => (TypeOK /\ NonceInv)'
  BY TypeNext, NonceNext
<1>3. NonceInv => OncePerNonce
  BY DEF NonceInv, Distinct, OncePerNonce
<1> QED BY <1>1, <1>2, <1>3, PTL DEF Spec

-----------------------------------------------------------------------------
(* What the vault may lose *)

LossInv == TypeOK /\ EntryInv

LEMMA LossInit == Init => LossInv
<1> SUFFICES ASSUME Init PROVE EntryInv
  BY TypeInit DEF LossInv
<1>1. DOMAIN stack = {} /\ \A t \in Tokens : balance[t] = entitled[t] /\ entitled[t] \in Int
  BY AmountsAssumption DEF Init
<1>2. \A x \in Int : x >= x
  OBVIOUS
<1> QED BY <1>1, <1>2 DEF EntryInv, LossBounded

LEMMA StackTokens ==
    ASSUME TypeOK, NEW f \in DOMAIN stack
    PROVE  stack[f].order.token \in Tokens /\ stack[f].amountIn \in Int
<1>1. stack[f] \in Frames
  BY DEF TypeOK
<1>2. stack[f].order \in Orders /\ stack[f].amountIn \in Amounts
  BY <1>1 DEF Frames
<1>3. \A n \in Amounts : n \in Int
  BY AmountsAssumption
<1> QED BY <1>2, <1>3, OrdersAssumption

\* A step that keeps the calls, and moves a token and the owner's claim to it alike
\* unless a swap of the token is under way, when it keeps the claim.
LEMMA LossMoves ==
    ASSUME TypeOK, EntryInv, stack' = stack,
           NEW t \in Tokens,
           \A u \in Tokens : u # t => balance'[u] = balance[u] /\ entitled'[u] = entitled[u],
           Covered(t) => entitled'[t] = entitled[t],
           ~Covered(t) /\ balance[t] >= entitled[t] => balance'[t] >= entitled'[t]
    PROVE  EntryInv'
<1>0. \A f \in DOMAIN stack : stack[f].order.token \in Tokens
  BY StackTokens
<1>1. \A k, u : CoveredBelow(k, u)' = CoveredBelow(k, u)
  BY DEF CoveredBelow
<1>2. \A u : Covered(u)' = Covered(u)
  BY <1>1 DEF Covered, CoveredBelow
<1>3. LossBounded'
  BY <1>2 DEF EntryInv, LossBounded
<1>4. ASSUME NEW g \in DOMAIN stack
      PROVE  entitled'[stack[g].order.token] = stack[g].owed[stack[g].order.token]
  <2>1. CASE stack[g].order.token = t
    <3>1. g \in 1..Len(stack)
      BY DEF TypeOK
    <3> QED BY <2>1 DEF EntryInv, Covered, CoveredBelow
  <2>2. CASE stack[g].order.token # t
    BY <1>0, <2>2 DEF EntryInv
  <2> QED BY <2>1, <2>2
<1> QED BY <1>1, <1>3, <1>4 DEF EntryInv

LEMMA LossNext == LossInv /\ [Next]_vars => LossInv'
<1> SUFFICES ASSUME LossInv, [Next]_vars PROVE LossInv'
  OBVIOUS
<1>1. TypeOK /\ TypeOK' /\ EntryInv
  BY TypeNext DEF LossInv
<1> SUFFICES EntryInv'
  BY <1>1 DEF LossInv
<1>2. \A t \in Tokens : balance[t] \in Int /\ entitled[t] \in Int
  BY <1>1 DEF TypeOK
<1>3. ASSUME UNCHANGED <<stack, balance, entitled>> PROVE EntryInv'
  BY <1>1, <1>3 DEF EntryInv, LossBounded, Covered, CoveredBelow
<1>4. CASE Admin \/ NextBlock \/ UNCHANGED vars
  <2>1. ASSUME NEW t \in Tokens, NEW n \in Amounts, RescueTokens(t, n) PROVE EntryInv'
    <3>1. n \in Int
      BY AmountsAssumption
    <3>2. ~Covered(t)
      BY <2>1 DEF RescueTokens, Idle, Covered, CoveredBelow
    <3>3. /\ stack' = stack /\ balance'[t] = balance[t] - n /\ entitled'[t] = entitled[t] - n
          /\ \A u \in Tokens : u # t => balance'[u] = balance[u] /\ entitled'[u] = entitled[u]
      BY <1>1, <2>1 DEF RescueTokens, TypeOK
    <3>4. balance[t] >= entitled[t] => balance'[t] >= entitled'[t]
      BY <1>2, <3>1, <3>3
    <3> QED BY <1>1, <3>2, <3>3, <3>4, LossMoves
  <2> QED BY <1>3, <1>4, <2>1 DEF Admin, AddExecutor, RemoveExecutor, AddRouter, RemoveRouter,
          EmergencyPause, EmergencyUnpause, NextBlock, vars
<1>5. ASSUME NEW t \in Tokens, NEW n \in Amounts, TokenIn(t, n) \/ TokenOut(t, n) PROVE EntryInv'
  <2>1. n \in Int
    BY AmountsAssumption
  <2>2. /\ stack' = stack
        /\ \A u \in Tokens : u # t => balance'[u] = balance[u] /\ entitled'[u] = entitled[u]
        /\ Covered(t) => entitled'[t] = entitled[t]
    BY <1>1, <1>5 DEF TokenIn, TokenOut, TypeOK
  <2>3. ~Covered(t) => entitled'[t] - entitled[t] = balance'[t] - balance[t]
                       /\ balance'[t] \in Int /\ entitled'[t] \in Int
    BY <1>1, <1>2, <1>5, <2>1 DEF TokenIn, TokenOut, TypeOK
  <2>4. ~Covered(t) /\ balance[t] >= entitled[t] => balance'[t] >= entitled'[t]
    BY <1>2, <2>3
  <2> QED BY <1>1, <2>2, <2>4, LossMoves
<1>6. ASSUME NEW e \in Executors, NEW o \in Orders, NEW n \in Amounts, EnterSwap(e, o, n)
      PROVE  EntryInv'
  <2> DEFINE m == Len(stack) + 1
             c == [order |-> o, amountIn |-> n, before |-> balance,
                   owed |-> entitled, used |-> usedNonces, done |-> settled]
  <2>1. /\ DOMAIN stack' = 1..m /\ DOMAIN stack = 1..Len(stack) /\ Len(stack) \in Nat
        /\ Len(stack') = m
        /\ stack'[m] = c
        /\ \A i \in DOMAIN stack : stack'[i] = stack[i]
    BY <1>1, <1>6, PushedStack, Zenon
  <2>2. c.order = o /\ c.before = balance /\ c.owed = entitled
    OBVIOUS
  <2>3. /\ entitled' = entitled
        /\ \A t \in Tokens : t # o.token => balance'[t] = balance[t]
    BY <1>1, <1>6 DEF EnterSwap, TypeOK
  <2> HIDE DEF c
  <2>4. ASSUME NEW k \in 0..Len(stack), NEW t PROVE CoveredBelow(k, t)' <=> CoveredBelow(k, t)
    <3>1. \A f \in 1..k : f \in DOMAIN stack
      BY <2>1
    <3> QED BY <2>1, <3>1 DEF CoveredBelow
  <2>5. ASSUME NEW t, ~Covered(t)' PROVE ~Covered(t) /\ t # o.token
    <3>1. m \in 1..Len(stack') /\ \A f \in 1..Len(stack) : f \in 1..Len(stack')
      BY <2>1
    <3> QED BY <2>1, <2>2, <2>5, <3>1 DEF Covered, CoveredBelow
  <2>6. LossBounded'
    BY <1>1, <2>3, <2>5 DEF EntryInv, LossBounded
  <2>7. \A g \in DOMAIN stack' : g = m \/ g \in DOMAIN stack
    BY <2>1
  <2>8. \A g \in DOMAIN stack' : entitled'[stack'[g].order.token] = stack'[g].owed[stack'[g].order.token]
    BY <1>1, <2>1, <2>2, <2>3, <2>7 DEF EntryInv
  <2>9. ASSUME NEW f \in DOMAIN stack', NEW t \in Tokens
        PROVE  CoveredBelow(f - 1, t)' \/ stack'[f].before[t] >= stack'[f].owed[t]
    <3>1. f - 1 \in 0..Len(stack)
      BY <2>1
    <3>2. CASE f = m
      <4>1. f - 1 = Len(stack)
        BY <2>1, <3>2
      <4> QED BY <1>1, <2>1, <2>2, <2>4, <3>1, <3>2, <4>1 DEF EntryInv, LossBounded, Covered
    <3>3. CASE f \in DOMAIN stack
      BY <1>1, <2>1, <2>4, <3>1, <3>3 DEF EntryInv
    <3> QED BY <2>7, <3>2, <3>3
  <2>10. ASSUME NEW f \in DOMAIN stack', NEW g \in DOMAIN stack', g < f
         PROVE  stack'[f].owed[stack'[g].order.token] = stack'[g].owed[stack'[g].order.token]
    <3>1. g \in DOMAIN stack
      BY <2>1, <2>10
    <3>2. CASE f = m
      BY <1>1, <2>1, <2>2, <3>1, <3>2 DEF EntryInv
    <3>3. CASE f \in DOMAIN stack
      BY <1>1, <2>1, <2>10, <3>1, <3>3 DEF EntryInv
    <3> QED BY <2>7, <3>2, <3>3
  <2> QED BY <2>6, <2>8, <2>9, <2>10 DEF EntryInv
<1>7. CASE Settle \/ Revert
  <2> DEFINE m == Len(stack)
             tok == stack[m].order.token
  <2>1. /\ m \in Nat \ {0} /\ Len(stack') = m - 1 /\ Top = stack[m] /\ Top \in Frames
        /\ DOMAIN stack = 1..m /\ DOMAIN stack' = 1..(m - 1)
        /\ \A i \in DOMAIN stack' : i \in DOMAIN stack /\ stack'[i] = stack[i]
    BY <1>1, <1>7, PoppedStack
  <2>2. /\ m \in DOMAIN stack /\ tok \in Tokens /\ stack[m].amountIn \in Int
        /\ \A i \in DOMAIN stack' : i < m
    BY <1>1, <2>1, StackTokens
  <2> HIDE DEF m
  <2>3. ASSUME NEW k \in 0..(m - 1), NEW t PROVE CoveredBelow(k, t)' <=> CoveredBelow(k, t)
    <3>1. \A f \in 1..k : f \in DOMAIN stack'
      BY <2>1
    <3> QED BY <2>1, <3>1 DEF CoveredBelow
  <2>4. ASSUME NEW t PROVE Covered(t)' <=> CoveredBelow(m - 1, t)
    <3>1. m - 1 \in 0..(m - 1)
      BY <2>1
    <3> QED BY <2>1, <2>3, <3>1 DEF Covered
  <2>5. ASSUME NEW t, t # tok, ~CoveredBelow(m - 1, t) PROVE ~Covered(t)
    <3>1. \A f \in 1..m : f = m \/ f \in 1..(m - 1)
      BY <2>1
    <3> QED BY <2>5, <3>1 DEF Covered, CoveredBelow, m
  <2>6. \A f, g \in DOMAIN stack' : g < f =>
           stack'[f].owed[stack'[g].order.token] = stack'[g].owed[stack'[g].order.token]
    BY <1>1, <2>1 DEF EntryInv
  <2>7. ASSUME NEW f \in DOMAIN stack', NEW t \in Tokens
        PROVE  CoveredBelow(f - 1, t)' \/ stack'[f].before[t] >= stack'[f].owed[t]
    <3>1. f - 1 \in 0..(m - 1)
      BY <2>1
    <3> QED BY <1>1, <2>1, <2>3, <3>1 DEF EntryInv
  <2>8. ASSUME NEW t \in Tokens, ~Covered(t)' PROVE balance'[t] >= entitled'[t]
    <3>1. ~CoveredBelow(m - 1, t)
      BY <2>4, <2>8
    <3>2. stack[m].before[t] >= stack[m].owed[t]
      BY <1>1, <2>2, <3>1 DEF EntryInv
    <3>3. CASE Revert
      BY <2>1, <3>2, <3>3 DEF Revert
    <3>4. CASE Settle /\ t # tok
      <4>1. balance[t] >= entitled[t]
        BY <1>1, <2>5, <3>1, <3>4 DEF EntryInv, LossBounded
      <4>2. balance'[t] = balance[t] /\ entitled'[t] = entitled[t]
        BY <1>1, <2>1, <3>4 DEF Settle, TypeOK
      <4> QED BY <4>1, <4>2
    <3>5. CASE Settle /\ t = tok
      <4>1. /\ balance[t] - (stack[m].before[t] - stack[m].amountIn) >= 0
            /\ balance' = balance
        BY <2>1, <3>5 DEF Settle, AmountOutExists
      <4>2. entitled'[t] = entitled[t] - stack[m].amountIn
        BY <1>1, <2>1, <3>1, <3>5 DEF Settle, TypeOK, m
      <4>3. entitled[t] = stack[m].owed[t]
        BY <1>1, <2>2, <3>5 DEF EntryInv
      <4>4. stack[m].before[t] \in Int
        BY <2>1, VaultBounds DEF Frames
      <4> QED BY <1>2, <2>2, <3>2, <4>1, <4>2, <4>3, <4>4
    <3> QED BY <1>7, <3>3, <3>4, <3>5
  <2>9. ASSUME NEW g \in DOMAIN stack'
        PROVE  entitled'[stack'[g].order.token] = stack'[g].owed[stack'[g].order.token]
    <3>1. g \in DOMAIN stack /\ stack'[g] = stack[g] /\ g < m /\ stack[g].order.token \in Tokens
      BY <1>1, <2>1, <2>2, StackTokens
    <3>2. CASE Revert
      <4>1. entitled' = stack[m].owed
        BY <2>1, <3>2 DEF Revert
      <4> QED BY <1>1, <2>2, <3>1, <4>1 DEF EntryInv
    <3>3. CASE Settle
      <4>1. entitled[stack[g].order.token] = stack[g].owed[stack[g].order.token]
        BY <1>1, <3>1 DEF EntryInv
      <4>2. CoveredBelow(m - 1, stack[g].order.token)
        <5>1. g \in 1..(m - 1)
          BY <2>1
        <5> QED BY <5>1 DEF CoveredBelow
      <4>3. entitled'[stack[g].order.token] = entitled[stack[g].order.token]
        <5>1. CASE CoveredBelow(m - 1, tok)
          BY <2>1, <3>3, <5>1 DEF Settle, m
        <5>2. CASE ~CoveredBelow(m - 1, tok)
          <6>1. stack[g].order.token # tok
            BY <4>2, <5>2
          <6> QED BY <1>1, <2>1, <3>1, <3>3, <5>2, <6>1 DEF Settle, TypeOK, m
        <5> QED BY <5>1, <5>2
      <4> QED BY <3>1, <4>1, <4>3
    <3> QED BY <1>7, <3>2, <3>3
  <2>10. LossBounded'
    BY <2>8 DEF LossBounded
  <2> QED BY <2>6, <2>7, <2>9, <2>10 DEF EntryInv
<1> QED BY <1>4, <1>5, <1>6, <1>7 DEF Next, ExecuteSwap, Environment

\* However deep swaps nest in one another, and of whichever tokens, all that is ever
\* missing of a token is what its own outermost swaps were given.
THEOREM LossAlways == Spec => []LossBounded
<1>1. LossInv => LossBounded
  BY DEF LossInv, EntryInv
<1> QED BY <1>1, LossInit, LossNext, PTL DEF Spec

-----------------------------------------------------------------------------
(* The vault is a ledger of atomic transactions *)

\* A call is settled: its order comes last.
LEMMA AppendFacts ==
    ASSUME NEW s \in Seq(Orders), NEW o \in Orders
    PROVE  /\ DOMAIN s = 1..Len(s) /\ Len(s) \in Nat
           /\ Len(Append(s, o)) = Len(s) + 1
           /\ DOMAIN Append(s, o) = 1..(Len(s) + 1)
           /\ \A i \in DOMAIN s : Append(s, o)[i] = s[i]
           /\ Append(s, o)[Len(s) + 1] = o
           /\ NoncesOf(Append(s, o)) = NoncesOf(s) \cup {o.nonce}
<1>1. /\ DOMAIN s = 1..Len(s) /\ Len(s) \in Nat
      /\ Len(Append(s, o)) = Len(s) + 1
      /\ DOMAIN Append(s, o) = 1..(Len(s) + 1)
      /\ \A i \in DOMAIN s : Append(s, o)[i] = s[i]
      /\ Append(s, o)[Len(s) + 1] = o
  OBVIOUS
<1>2. DOMAIN Append(s, o) = DOMAIN s \cup {Len(s) + 1}
  BY <1>1
<1>3. NoncesOf(Append(s, o)) = NoncesOf(s) \cup {o.nonce}
  BY <1>1, <1>2, Zenon DEF NoncesOf
<1> QED BY <1>1, <1>3

LEMMA SpentInit == Init => SpentInv
<1> SUFFICES ASSUME Init PROVE SpentInv
  OBVIOUS
<1>1. Len(stack) = 0 /\ DOMAIN stack = {} /\ DOMAIN settled = {} /\ usedNonces = {}
  BY DEF Init
<1>2. NoncesOf(settled) = {} /\ Underway(stack, Len(stack)) = {}
  BY <1>1 DEF NoncesOf, Underway
<1> QED BY <1>1, <1>2 DEF SpentInv

LEMMA SpentNext ==
    ASSUME TypeOK, SpentInv, [Next]_vars
    PROVE  SpentInv'
<1>1. ASSUME UNCHANGED <<settled, usedNonces, stack>> PROVE SpentInv'
  BY <1>1 DEF SpentInv, NoncesOf, Underway
<1>2. CASE Admin \/ Environment \/ UNCHANGED vars
  BY <1>1, <1>2 DEF Admin, Environment, AddExecutor, RemoveExecutor, AddRouter, RemoveRouter,
     EmergencyPause, EmergencyUnpause, RescueTokens, NextBlock, TokenIn, TokenOut, vars
<1>3. ASSUME NEW e \in Executors, NEW o \in Orders, NEW n \in Amounts, EnterSwap(e, o, n)
      PROVE  SpentInv'
  <2> DEFINE m == Len(stack) + 1
             c == [order |-> o, amountIn |-> n, before |-> balance,
                   owed |-> entitled, used |-> usedNonces, done |-> settled]
  <2>0. /\ DOMAIN stack' = 1..m /\ DOMAIN stack = 1..Len(stack) /\ Len(stack) \in Nat
        /\ Len(stack') = m
        /\ stack'[m] = c
        /\ \A i \in DOMAIN stack : stack'[i] = stack[i]
    BY <1>3, PushedStack, Zenon
  <2>1. /\ DOMAIN stack' = 1..m /\ DOMAIN stack = 1..Len(stack) /\ Len(stack) \in Nat
        /\ Len(stack') = m
        /\ stack'[m].order = o /\ stack'[m].used = usedNonces /\ stack'[m].done = settled
        /\ \A i \in DOMAIN stack : stack'[i] = stack[i]
    BY <2>0
  <2>2. usedNonces' = usedNonces \cup {o.nonce} /\ settled' = settled
    BY <1>3 DEF EnterSwap, Marked
  <2>3. ASSUME NEW k \in 0..Len(stack) PROVE Underway(stack', k) = Underway(stack, k)
    <3>1. \A i \in 1..k : i \in DOMAIN stack
      BY <2>1
    <3> QED BY <2>1, <3>1 DEF Underway
  <2>4. Underway(stack', m) = Underway(stack, Len(stack)) \cup {o.nonce}
    <3>1. 1..m = 1..Len(stack) \cup {m}
      BY <2>1
    <3> QED BY <2>1, <3>1, Zenon DEF Underway
  <2>5. usedNonces' = NoncesOf(settled') \cup Underway(stack', m)
    BY <2>2, <2>4 DEF SpentInv
  <2>6. ASSUME NEW f \in DOMAIN stack'
        PROVE  stack'[f].used = NoncesOf(stack'[f].done) \cup Underway(stack', f - 1)
    <3>1. CASE f = m
      <4>1. Underway(stack', f - 1) = Underway(stack, Len(stack)) /\ f - 1 = Len(stack)
        BY <2>1, <2>3, <3>1
      <4> QED BY <2>1, <3>1, <4>1 DEF SpentInv
    <3>2. CASE f # m
      <4>1. f \in DOMAIN stack /\ f - 1 \in 0..Len(stack)
        BY <2>1, <3>2
      <4> QED BY <2>1, <2>3, <4>1 DEF SpentInv
    <3> QED BY <3>1, <3>2
  <2> QED BY <2>1, <2>5, <2>6 DEF SpentInv, NoncesOf
<1>4. CASE Settle \/ Revert
  <2> DEFINE m == Len(stack)
  <2>1. /\ m \in Nat \ {0} /\ Len(stack') = m - 1 /\ Top = stack[m] /\ Top \in Frames
        /\ DOMAIN stack = 1..m /\ DOMAIN stack' = 1..(m - 1)
        /\ \A i \in DOMAIN stack' : i \in DOMAIN stack /\ stack'[i] = stack[i]
    BY <1>4, PoppedStack
  <2>2. ASSUME NEW k \in 0..(m - 1) PROVE Underway(stack', k) = Underway(stack, k)
    <3>1. \A i \in 1..k : i \in DOMAIN stack'
      BY <2>1
    <3> QED BY <2>1, <3>1 DEF Underway
  <2>3. m - 1 \in 0..(m - 1)
    BY <2>1
  <2>4. usedNonces' = NoncesOf(settled') \cup Underway(stack', m - 1)
    <3>1. CASE Settle
      <4>1. /\ settled' = Append(settled, Top.order) /\ usedNonces' = usedNonces
            /\ Top.order \in Orders /\ settled \in Seq(Orders)
        BY <2>1, <3>1 DEF Settle, Frames, TypeOK
      <4>2. NoncesOf(settled') = NoncesOf(settled) \cup {Top.order.nonce}
        BY <4>1, AppendFacts
      <4>3. Underway(stack, m) = Underway(stack, m - 1) \cup {Top.order.nonce}
        <5>1. 1..m = 1..(m - 1) \cup {m}
          BY <2>1
        <5> QED BY <2>1, <5>1, Zenon DEF Underway
      <4> QED BY <2>2, <2>3, <4>1, <4>2, <4>3 DEF SpentInv
    <3>2. CASE Revert
      <4>1. usedNonces' = stack[m].used /\ settled' = stack[m].done /\ m \in DOMAIN stack
        BY <2>1, <3>2 DEF Revert
      <4> QED BY <2>2, <2>3, <4>1 DEF SpentInv
    <3> QED BY <1>4, <3>1, <3>2
  <2>5. ASSUME NEW f \in DOMAIN stack'
        PROVE  stack'[f].used = NoncesOf(stack'[f].done) \cup Underway(stack', f - 1)
    <3>1. f \in DOMAIN stack /\ stack'[f] = stack[f] /\ f - 1 \in 0..(m - 1)
      BY <2>1
    <3> QED BY <2>2, <3>1 DEF SpentInv
  <2> QED BY <2>1, <2>4, <2>5 DEF SpentInv, NoncesOf
<1> QED BY <1>2, <1>3, <1>4 DEF Next, ExecuteSwap

\* A nonce is gone exactly when its order went through: what a revert undid, at any
\* depth, can be tried again with the same signature.
THEOREM SpentAlways == Spec => []SpentIsPaid
<1>1. Init => TypeOK /\ SpentInv
  BY TypeInit, SpentInit
<1>2. (TypeOK /\ SpentInv) /\ [Next]_vars => (TypeOK /\ SpentInv)'
  BY TypeNext, SpentNext
<1>3. SpentInv => SpentIsPaid
  <2> SUFFICES ASSUME SpentInv, Idle PROVE usedNonces = NoncesOf(settled)
    BY DEF SpentIsPaid, NoncesOf
  <2>1. Len(stack) = 0
    BY DEF Idle
  <2>2. Underway(stack, Len(stack)) = {}
    BY <2>1 DEF Underway
  <2> QED BY <2>2 DEF SpentInv
<1> QED BY <1>1, <1>2, <1>3, PTL DEF Spec

-----------------------------------------------------------------------------
LEMMA GrowInit == Init => GrowInv
BY DEF Init, GrowInv, Idle

\* A call that returns leaves the vault idle, or the outermost call where it was.
LEMMA AfterReturn ==
    ASSUME TypeOK, Settle \/ Revert
    PROVE  /\ Len(stack) = 1 => Idle'
           /\ Len(stack) # 1 => ~Idle' /\ stack'[1] = stack[1]
<1>1. /\ stack' = Popped /\ ~Idle /\ Len(stack) \in Nat \ {0} /\ Len(stack') = Len(stack) - 1
      /\ DOMAIN stack' = 1..(Len(stack) - 1)
      /\ \A i \in DOMAIN stack' : i \in DOMAIN stack /\ stack'[i] = stack[i]
  BY PoppedStack
<1>2. ASSUME Len(stack) = 1 PROVE Idle'
  <2>1. Popped \in Seq(Frames) /\ DOMAIN Popped = {}
    BY <1>1, <1>2, PoppedFacts
  <2>2. Popped = <<>>
    BY <2>1
  <2> QED BY <1>1, <2>2 DEF Idle
<1>3. ASSUME Len(stack) # 1 PROVE ~Idle' /\ stack'[1] = stack[1]
  <2>1. \A k \in Nat \ {0} : k # 1 => 1 \in 1..(k - 1) /\ k - 1 # 0
    OBVIOUS
  <2>2. 1 \in DOMAIN stack' /\ Len(stack') # 0
    BY <1>1, <1>3, <2>1
  <2> QED BY <1>1, <2>2 DEF Idle
<1> QED BY <1>2, <1>3

LEMMA GrowNext ==
    ASSUME TypeOK, GrowInv, [Next]_vars
    PROVE  GrowInv'
<1>1. ASSUME Idle' PROVE GrowInv'
  BY <1>1 DEF GrowInv
<1>2. ASSUME UNCHANGED <<admin_vars, now, stack, settled>> PROVE GrowInv'
  BY <1>2 DEF GrowInv, Grown, Live, Idle, admin_vars
<1>3. CASE Admin \/ NextBlock
  <2>1. Idle'
    BY <1>3 DEF Admin, NextBlock, AddExecutor, RemoveExecutor, AddRouter, RemoveRouter,
       EmergencyPause, EmergencyUnpause, RescueTokens, Idle
  <2> QED BY <1>1, <2>1
<1>4. CASE UNCHANGED vars \/ \E t \in Tokens, n \in Amounts : TokenIn(t, n) \/ TokenOut(t, n)
  BY <1>2, <1>4 DEF TokenIn, TokenOut, vars
<1>5. ASSUME NEW e \in Executors, NEW o \in Orders, NEW n \in Amounts, EnterSwap(e, o, n)
      PROVE  GrowInv'
  <2> DEFINE m == Len(stack) + 1
             c == [order |-> o, amountIn |-> n, before |-> balance,
                   owed |-> entitled, used |-> usedNonces, done |-> settled]
  <2>1. /\ DOMAIN stack' = 1..m /\ DOMAIN stack = 1..Len(stack) /\ Len(stack) \in Nat
        /\ stack'[m] = c
        /\ \A i \in DOMAIN stack : stack'[i] = stack[i]
    BY <1>5, PushedStack, Zenon
  <2>2. c.order = o /\ c.amountIn = n /\ c.before = balance /\ c.done = settled
    OBVIOUS
  <2>3. /\ UNCHANGED <<admin_vars, now, settled>>
        /\ ~paused /\ executors # {} /\ Live(o) /\ n <= balance[o.token]
    <3>1. n \in Int /\ balance[o.token] \in Int
      BY AmountsAssumption, OrdersAssumption, VaultBounds DEF TypeOK
    <3> QED BY <1>5, <3>1 DEF EnterSwap, Accepted, Live
  <2>4. \A x : Live(x)' = Live(x)
    BY <2>3 DEF Live, admin_vars
  <2>5. CASE Idle
    <3>1. m = 1 /\ DOMAIN stack' = {1}
      BY <2>1, <2>5 DEF Idle
    <3>2. Grown(settled, settled)'
      BY <2>3 DEF Grown, TypeOK
    <3> QED BY <2>1, <2>2, <2>3, <3>1, <3>2 DEF GrowInv, Live, admin_vars
  <2>6. CASE ~Idle
    <3>1. 1 \in DOMAIN stack
      BY <2>6, PoppedFacts
    <3>2. stack'[1] = stack[1] /\ \A f \in DOMAIN stack' : f = m \/ f \in DOMAIN stack
      BY <2>1, <3>1
    <3>3. \A d, s : Grown(d, s)' = Grown(d, s)
      BY <2>4 DEF Grown
    <3>4. Grown(stack[1].done, settled)
      BY <2>6 DEF GrowInv
    <3>5. ASSUME NEW f \in DOMAIN stack'
          PROVE  Grown(stack[1].done, stack'[f].done) /\ Live(stack'[f].order)
      <4>1. CASE f = m
        BY <2>1, <2>2, <2>3, <3>4, <4>1
      <4>2. CASE f # m
        BY <2>1, <2>6, <3>2, <4>2 DEF GrowInv
      <4> QED BY <4>1, <4>2
    <3> QED BY <2>3, <2>4, <2>6, <3>2, <3>3, <3>4, <3>5 DEF GrowInv, admin_vars
  <2> QED BY <2>5, <2>6
<1>6. CASE Settle \/ Revert
  <2> DEFINE m == Len(stack)
  <2>1. /\ stack' = Popped /\ ~Idle /\ m \in Nat \ {0} /\ Top = stack[m] /\ Top \in Frames
        /\ DOMAIN stack = 1..m
        /\ \A i \in DOMAIN stack' : i \in DOMAIN stack /\ stack'[i] = stack[i]
    BY <1>6, PoppedStack
  <2>2. UNCHANGED <<admin_vars, now>>
    BY <1>6 DEF Settle, Revert
  <2>3. \A x : Live(x)' = Live(x)
    BY <2>2 DEF Live, admin_vars
  <2>4. \A d, s : Grown(d, s)' = Grown(d, s)
    BY <2>3 DEF Grown
  <2>5. CASE m = 1
    BY <1>1, <1>6, <2>5, AfterReturn
  <2>6. CASE m # 1
    <3>1. ~Idle' /\ stack'[1] = stack[1]
      BY <1>6, <2>6, AfterReturn
    <3>2. Grown(stack[1].done, settled')
      <4>1. CASE Settle
        <5>1. settled' = Append(settled, Top.order) /\ Top.order \in Orders /\ settled \in Seq(Orders)
          BY <2>1, <4>1 DEF Settle, Frames, TypeOK
        <5>2. Grown(stack[1].done, settled) /\ Live(Top.order)
          BY <2>1 DEF GrowInv
        <5>3. stack[1].done \in Seq(Orders)
          <6>1. 1 \in DOMAIN stack
            BY <2>1
          <6>2. stack[1] \in Frames
            BY <6>1 DEF TypeOK
          <6> QED BY <6>2 DEF Frames
        <5> HIDE DEF m
        <5> DEFINE d == stack[1].done
        <5>4. /\ DOMAIN settled = 1..Len(settled) /\ Len(settled) \in Nat
              /\ Len(settled') = Len(settled) + 1
              /\ \A i \in DOMAIN settled : settled'[i] = settled[i]
              /\ settled'[Len(settled) + 1] = Top.order
          BY <5>1, AppendFacts
        <5>5. Len(d) \in Nat /\ DOMAIN d = 1..Len(d) /\ Len(d) <= Len(settled)
          BY <5>2, <5>3 DEF Grown
        <5>6. \A i \in DOMAIN d : i \in DOMAIN settled
          BY <5>4, <5>5
        <5>7. \A i \in (Len(d) + 1)..Len(settled') :
                i = Len(settled) + 1 \/ (i \in (Len(d) + 1)..Len(settled) /\ i \in DOMAIN settled)
          BY <5>4, <5>5
        <5> QED BY <5>2, <5>4, <5>5, <5>6, <5>7 DEF Grown
      <4>2. CASE Revert
        BY <2>1, <4>2 DEF Revert, GrowInv
      <4> QED BY <1>6, <4>1, <4>2
    <3> QED BY <2>1, <2>2, <2>3, <2>4, <3>1, <3>2 DEF GrowInv, admin_vars
  <2> QED BY <2>5, <2>6
<1> QED BY <1>3, <1>4, <1>5, <1>6 DEF Next, ExecuteSwap, Environment

-----------------------------------------------------------------------------
LEMMA LedgerInit == Init => L!Init
BY AmountsAssumption DEF Init, L!Init, CommittedFunds, CommittedNonces, CommittedOrders, Idle

\* The return of the outermost call, seen from outside: the transaction.
LEMMA LedgerTransact ==
    ASSUME TypeOK, TypeOK', NonceInv', SpentInv, SpentInv', GrowInv, Settle, Len(stack) = 1
    PROVE  L!Transact
<1> DEFINE d == stack[1].done
           n == stack[1].amountIn
           o == stack[1].order
<1>1. ~Idle /\ Idle' /\ Top = stack[1] /\ stack[1] \in Frames /\ 1 \in DOMAIN stack
      /\ Len(stack') = 0
  <2>1. Idle'
    BY AfterReturn
  <2> QED BY <2>1, PoppedStack
<1>2. /\ o \in Orders /\ n \in Amounts /\ d \in Seq(Orders)
      /\ stack[1].before \in [Tokens -> 0..MaxBalance]
      /\ settled \in Seq(Orders) /\ o.token \in Tokens
  BY <1>1, OrdersAssumption DEF Frames, TypeOK
<1>3. /\ balance[o.token] >= o.minOutput /\ balance[o.token] - (stack[1].before[o.token] - n) >= 0
      /\ settled' = Append(settled, o) /\ UNCHANGED <<admin_vars, now, balance, usedNonces>>
  BY <1>1 DEF Settle, AmountOutExists
<1>4. /\ CommittedFunds = stack[1].before /\ CommittedFunds' = balance
      /\ CommittedNonces = stack[1].used /\ CommittedNonces' = usedNonces'
      /\ CommittedOrders = d /\ CommittedOrders' = settled'
  BY <1>1, <1>3 DEF CommittedFunds, CommittedNonces, CommittedOrders
<1>5. /\ ~paused /\ executors # {} /\ n <= stack[1].before[o.token]
      /\ Grown(d, settled) /\ Live(o)
  BY <1>1 DEF GrowInv
<1> HIDE DEF d, n, o
<1>6. /\ DOMAIN settled = 1..Len(settled) /\ Len(settled) \in Nat
      /\ Len(settled') = Len(settled) + 1 /\ DOMAIN settled' = 1..(Len(settled) + 1)
      /\ \A i \in DOMAIN settled : settled'[i] = settled[i]
      /\ settled'[Len(settled) + 1] = o
  BY <1>2, <1>3, AppendFacts
<1>7. Len(d) \in Nat /\ DOMAIN d = 1..Len(d) /\ Len(d) <= Len(settled)
  BY <1>2, <1>5 DEF Grown
<1> DEFINE B == (Len(d) + 1)..Len(settled')
<1>8. \A i \in DOMAIN d : i \in DOMAIN settled /\ i \in DOMAIN settled' /\ settled'[i] = d[i]
  BY <1>5, <1>6, <1>7 DEF Grown
<1>9. Len(settled') \in B /\ (\A i \in B : i \in DOMAIN settled' /\ i \notin DOMAIN d)
  BY <1>6, <1>7
<1>10. DOMAIN settled' = DOMAIN d \cup B
  BY <1>6, <1>7
<1>11. \A i \in B : i = Len(settled) + 1 \/ (i \in (Len(d) + 1)..Len(settled) /\ i \in DOMAIN settled)
  BY <1>6, <1>7
<1>12. \A i \in B : Live(settled'[i])
  BY <1>5, <1>6, <1>11 DEF Grown
<1> HIDE DEF B
<1>13. stack[1].used = NoncesOf(d) /\ usedNonces' = NoncesOf(settled')
  <2>1. Underway(stack, 1 - 1) = {} /\ Underway(stack', Len(stack')) = {}
    BY <1>1 DEF Underway
  <2>2. stack[1].used = NoncesOf(d) \cup Underway(stack, 1 - 1)
    BY <1>1 DEF SpentInv, d
  <2>3. usedNonces' = NoncesOf(settled') \cup Underway(stack', Len(stack'))
    BY DEF SpentInv, NoncesOf, Underway
  <2> QED BY <2>1, <2>2, <2>3
<1>14. Distinct(settled')
  BY DEF NonceInv, Distinct
<1>15. \A i \in B : settled'[i].nonce \notin stack[1].used
  BY <1>8, <1>9, <1>13, <1>14 DEF Distinct, NoncesOf
<1>16. \A i, j \in B : i # j => settled'[i].nonce # settled'[j].nonce
  BY <1>9, <1>14 DEF Distinct
<1>17. usedNonces' = stack[1].used \cup {settled'[i].nonce : i \in B}
  <2>1. ASSUME NEW i \in DOMAIN d PROVE settled'[i].nonce = d[i].nonce
    BY <1>8, <2>1
  <2>2. {settled'[i].nonce : i \in DOMAIN d} = {d[i].nonce : i \in DOMAIN d}
    BY <2>1, Zenon
  <2>3. {settled'[i].nonce : i \in DOMAIN settled'}
           = {settled'[i].nonce : i \in DOMAIN d} \cup {settled'[i].nonce : i \in B}
    <3>1. \A i : i \in DOMAIN settled' <=> i \in DOMAIN d \/ i \in B
      BY <1>10
    <3> QED BY <3>1, Zenon
  <2> QED BY <1>13, <2>2, <2>3 DEF NoncesOf
<1>18. balance[o.token] >= stack[1].before[o.token] - n
  <2>1. n \in Int /\ stack[1].before[o.token] \in Int /\ balance[o.token] \in Int
    BY <1>2, AmountsAssumption, VaultBounds DEF TypeOK
  <2> QED BY <1>3, <2>1
<1>19. balance \in [Tokens -> 0..MaxBalance] /\ settled' \in Seq(Orders)
  BY DEF TypeOK
<1>20. settled'[Len(settled')] = o
  BY <1>6
<1>21. L!Batch = B
  BY <1>4 DEF L!Batch, B
<1>22. \A i \in L!Batch : L!Valid(settled'[i])
  BY <1>4, <1>12, <1>15, <1>21 DEF L!Valid, Live
<1>23. \E k \in Amounts : /\ k <= CommittedFunds[o.token]
                          /\ CommittedFunds'[o.token] >= CommittedFunds[o.token] - k
  BY <1>2, <1>4, <1>5, <1>18
<1>24. UNCHANGED <<executors, whitelistedRouters, paused, now>>
  BY <1>3 DEF admin_vars
<1>25. /\ CommittedFunds' \in [Tokens -> 0..MaxBalance]
       /\ CommittedOrders'[Len(CommittedOrders')] = o /\ CommittedFunds'[o.token] >= o.minOutput
  BY <1>3, <1>4, <1>19, <1>20
<1>27. L!Checked(CommittedOrders'[Len(CommittedOrders')])
  BY <1>23, <1>25 DEF L!Checked
<1>26. CommittedNonces' = CommittedNonces \cup {CommittedOrders'[i].nonce : i \in L!Batch}
  BY <1>4, <1>17, <1>21
<1> QED BY <1>4, <1>5, <1>8, <1>9, <1>16, <1>19, <1>21, <1>22, <1>24, <1>25, <1>26, <1>27
        DEF L!Transact, L!rules

LEMMA LedgerNext ==
    ASSUME TypeOK, TypeOK', NonceInv', SpentInv, SpentInv', GrowInv, [Next]_vars
    PROVE  [L!Next]_(L!lvars)
<1> USE DEF CommittedFunds, CommittedNonces, CommittedOrders
<1>1. ASSUME UNCHANGED <<admin_vars, now, CommittedFunds, CommittedNonces, CommittedOrders>>
      PROVE  UNCHANGED L!lvars
  BY <1>1 DEF L!lvars, L!rules, admin_vars
<1>2. CASE Admin
  <2>1. ASSUME NEW t \in Tokens, NEW m \in Amounts, RescueTokens(t, m) PROVE L!Move
    BY <2>1 DEF RescueTokens, L!Move, L!rules, TypeOK, Idle, admin_vars
  <2>2. ASSUME \/ \E a \in Executors : AddExecutor(a) \/ RemoveExecutor(a)
               \/ \E r \in Routers : AddRouter(r) \/ RemoveRouter(r)
               \/ EmergencyPause \/ EmergencyUnpause
        PROVE  L!Govern
    BY <2>2 DEF AddExecutor, RemoveExecutor, AddRouter, RemoveRouter, EmergencyPause,
       EmergencyUnpause, L!Govern, TypeOK, Idle
  <2> QED BY <1>2, <2>1, <2>2 DEF Admin, L!Next
<1>3. CASE Environment
  <2>1. CASE NextBlock
    <3>1. L!Tick
      BY <2>1, VaultBounds DEF NextBlock, L!Tick, L!rules, TypeOK, Idle, admin_vars
    <3> QED BY <3>1 DEF L!Next
  <2>2. ASSUME NEW t \in Tokens, NEW m \in Amounts, TokenIn(t, m) \/ TokenOut(t, m)
        PROVE  [L!Next]_(L!lvars)
    <3>1. CASE Idle
      <4>1. L!Move
        BY <2>2, <3>1 DEF TokenIn, TokenOut, L!Move, L!rules, TypeOK, Idle, admin_vars
      <4> QED BY <4>1 DEF L!Next
    <3>2. CASE ~Idle
      BY <1>1, <2>2, <3>2 DEF TokenIn, TokenOut, Idle
    <3> QED BY <3>1, <3>2
  <2> QED BY <1>3, <2>1, <2>2 DEF Environment
<1>4. ASSUME NEW e \in Executors, NEW o \in Orders, NEW m \in Amounts, EnterSwap(e, o, m)
      PROVE  UNCHANGED L!lvars
  <2>1. /\ DOMAIN stack' = 1..(Len(stack) + 1) /\ DOMAIN stack = 1..Len(stack) /\ Len(stack) \in Nat
        /\ stack'[Len(stack) + 1] =
             [order |-> o, amountIn |-> m, before |-> balance, owed |-> entitled,
              used |-> usedNonces, done |-> settled]
        /\ \A i \in DOMAIN stack : stack'[i] = stack[i]
    BY <1>4, PushedStack, Zenon
  <2>2. ~Idle' /\ UNCHANGED <<admin_vars, now>>
    BY <1>4, <2>1 DEF Idle, EnterSwap
  <2>3. CASE Idle
    <3>1. Len(stack) + 1 = 1
      BY <2>3 DEF Idle
    <3>2. /\ stack'[1].before = balance /\ stack'[1].used = usedNonces /\ stack'[1].done = settled
      BY <2>1, <3>1
    <3> QED BY <1>1, <2>2, <2>3, <3>2
  <2>4. CASE ~Idle
    <3>1. 1 \in DOMAIN stack
      BY <2>4, PoppedFacts
    <3>2. stack'[1] = stack[1]
      BY <2>1, <3>1
    <3> QED BY <1>1, <2>2, <2>4, <3>2
  <2> QED BY <2>3, <2>4
<1>5. CASE Settle \/ Revert
  <2>1. ~Idle /\ UNCHANGED <<admin_vars, now>>
    BY <1>5 DEF Settle, Revert
  <2>2. CASE Len(stack) # 1
    <3>1. ~Idle' /\ stack'[1] = stack[1]
      BY <1>5, <2>2, AfterReturn
    <3> QED BY <1>1, <2>1, <3>1
  <2>3. CASE Len(stack) = 1 /\ Revert
    <3>1. Idle' /\ Top = stack[1]
      BY <2>3, AfterReturn DEF Top
    <3>2. balance' = Top.before /\ usedNonces' = Top.used /\ settled' = Top.done
      BY <2>3 DEF Revert
    <3> QED BY <1>1, <2>1, <3>1, <3>2
  <2>4. CASE Len(stack) = 1 /\ Settle
    BY <2>4, LedgerTransact DEF L!Next
  <2> QED BY <1>5, <2>2, <2>3, <2>4
<1>6. CASE UNCHANGED vars
  <2>1. UNCHANGED <<admin_vars, now, CommittedFunds, CommittedNonces, CommittedOrders>>
    BY <1>6 DEF vars, Idle
  <2> QED BY <1>1, <2>1
<1> QED BY <1>2, <1>3, <1>4, <1>5, <1>6 DEF Next, ExecuteSwap

\* Whatever the routers call back, and whichever calls fail, the vault is a ledger of
\* atomic transactions: nobody sees a swap that is half done.
THEOREM VaultIsLedger == Spec => ImplementsLedger
<1> DEFINE I == TypeOK /\ NonceInv /\ SpentInv /\ GrowInv
<1>1. Init => I
  BY TypeInit, NonceInit, SpentInit, GrowInit
<1>2. I /\ [Next]_vars => I'
  BY TypeNext, NonceNext, SpentNext, GrowNext
<1>3. I /\ I' /\ [Next]_vars => [L!Next]_(L!lvars)
  BY LedgerNext
<1> QED BY <1>1, <1>2, <1>3, LedgerInit, PTL DEF Spec, ImplementsLedger, L!Spec
=============================================================================
