----------------------------- MODULE BrainProofs -----------------------------
(***************************************************************************)
(* The Brain for any number of exchanges, passphrases and wallets and any  *)
(* window of the volatility tracker.                                       *)
(***************************************************************************)
EXTENDS Brain, FeedsProofs, TLAPS

\* What a median may be.
Price == Nat \ {0}

\* What TypeOK needs to be inductive: a wallet is stored after it is generated.
Storing == prov # "idle" => generated # 0

Typed == TypeOK /\ Storing

\* Every wallet generated has its passphrase, and the stored key is one of them.
Recorded ==
    /\ \A w \in WalletIds : made[w] # NoPass <=> w <= generated
    /\ blob = NoBlob \/ (blob.wallet \in 1..generated /\ blob.under = made[blob.wallet])

\* The address is cached by the last step of unlock(), and outlives it.
Unlocked ==
    /\ phase = "off" => unlock = "none"
    /\ phase \in {"serve", "terminate", "forget"} => unlock = "ready"
    /\ unlock = "ready" <=> addr # 0
    /\ addr # 0 => addr <= generated /\ made[addr] = typed

RingInv == Typed /\ Recorded /\ Unlocked

\* The window holds the returns between the medians, and the flag follows it.
Tracks ==
    /\ last \in Nat /\ flag \in {0, 1}
    /\ medians \in Seq(Price) /\ Len(medians) <= Window + 1
    /\ window \in Seq(Nat \X Nat)
    /\ medians = <<>> => last = 0 /\ Len(window) = 0
    /\ medians # <<>> => last = medians[Len(medians)] /\ Len(window) = Len(medians) - 1
    /\ \A i \in 1..Len(window) : window[i] = <<medians[i], medians[i + 1]>>
    /\ flag = 1 => ~Volatile(window)

-----------------------------------------------------------------------------
(* The helpers *)

\* t is what a deque of n elements of S makes of s when x comes: x is the last,
\* the rest keep their order, and the first goes when there is no room.
Appended(S, s, x, n, t) ==
    /\ t \in Seq(S)
    /\ Len(t) = IF Len(s) < n THEN Len(s) + 1 ELSE n
    /\ t[Len(t)] = x
    /\ \A i \in 1..(Len(t) - 1) : t[i] = IF Len(s) < n THEN s[i] ELSE s[i + 1]

\* Push is such a deque.
LEMMA PushFacts ==
    ASSUME NEW S, NEW s \in Seq(S), NEW x \in S, NEW n \in Nat \ {0}, Len(s) <= n
    PROVE  Appended(S, s, x, n, Push(s, x, n))
<1>1. CASE Len(s) < n
  BY <1>1 DEF Push, Appended
<1>2. CASE ~(Len(s) < n)
  <2>1. Len(s) = n /\ s # <<>>
    BY <1>2
  <2>2. Tail(s) \in Seq(S) /\ Len(Tail(s)) = n - 1
        /\ \A i \in 1..(n - 1) : Tail(s)[i] = s[i + 1]
    BY <2>1
  <2> QED BY <1>2, <2>1, <2>2 DEF Push, Appended
<1> QED BY <1>1, <1>2

\* A median is the sum of two prices.
LEMMA MedianType ==
    ASSUME TypeOK, NEW m \in Median
    PROVE  m \in Price
<1>1. PICK a \in Kth((Cardinality(Usable) + 1) \div 2),
           b \in Kth(Cardinality(Usable) \div 2 + 1) : m = a + b
  BY DEF Median
<1>2. \A k, p : p \in Kth(k) => p \in Prices
  BY DEF Kth, Usable, TypeOK, FeedsTypeOK, Message
<1>3. a \in Prices /\ b \in Prices
  BY <1>2
<1> QED BY <1>1, <1>3, PricesAssumption DEF Price

-----------------------------------------------------------------------------
(* Types *)

LEMMA TypeInit == Init => Typed
<1> SUFFICES ASSUME Init PROVE Typed
  OBVIOUS
<1>1. 0 \in 0..MaxProvisions /\ 0 \in 0..(MaxReconnects - 1) /\ Window \in Nat
      /\ PipeSize \in Nat
  BY ProvisionAssumption, FeedsAssumption, WindowAssumption
<1>2. RingTypeOK
  BY <1>1 DEF Init, RingInit, RingTypeOK, NoBlob
<1>3. FeedsTypeOK
  <2>1. EmptyPipes \in [Exchanges -> Seq(Message)] /\ \A e \in Exchanges : Len(EmptyPipes[e]) = 0
    BY DEF EmptyPipes
  <2>2. NothingRead \in [Exchanges -> Message]
    BY DEF NothingRead, Message
  <2>3. NoCounts \in [Exchanges -> 0..(MaxReconnects - 1)]
    BY <1>1 DEF NoCounts
  <2> QED BY <1>1, <2>1, <2>2, <2>3 DEF Init, FeedsInit, FeedsTypeOK, NoWorkers
<1> QED BY <1>1, <1>2, <1>3 DEF Init, RingInit, Typed, Storing, TypeOK

LEMMA OperatesType ==
    ASSUME Typed, Operates
    PROVE  Typed'
<1> USE DEF Typed, Storing, TypeOK, RingTypeOK, kernel_vars, prov_vars, handle_vars,
        feed_vars, worker_vars, brain_vars, loop_vars
<1>0. FeedsTypeOK'
  BY DEF Operates, FeedsTypeOK
<1>1. ASSUME NEW p \in Passphrases, Provision(p) PROVE Typed'
  <2>1. generated' \in 0..MaxProvisions /\ generated' # 0
    BY <1>1, ProvisionAssumption DEF Provision
  <2>2. made' \in [WalletIds -> Passphrases \cup {NoPass}]
    BY <1>1 DEF Provision
  <2> QED BY <1>0, <1>1, <2>1, <2>2 DEF Operates, Provision
<1>2. prov # "idle" => generated \in WalletIds
  BY ProvisionAssumption DEF WalletIds
<1>3. CASE AddKek
  BY <1>0, <1>2, <1>3 DEF Operates, AddKek
<1>4. CASE AddExec
  <2>1. blob' \in [wallet : 0..MaxProvisions, under : Passphrases \cup {NoPass}]
    BY <1>2, <1>4 DEF AddExec
  <2> QED BY <1>0, <1>4, <2>1 DEF Operates, AddExec
<1>5. CASE ProvisionFails
  BY <1>0, <1>5 DEF Operates, ProvisionFails
<1> QED BY <1>1, <1>3, <1>4, <1>5 DEF Operates, Operator

LEMMA UnlocksType ==
    ASSUME TypeOK, Unlocks
    PROVE  TypeOK'
<1> USE DEF TypeOK, RingTypeOK, kernel_vars, prov_vars, handle_vars, feed_vars, worker_vars,
        brain_vars, loop_vars
<1>0. FeedsTypeOK'
  BY DEF Unlocks, FeedsTypeOK
<1>1. CASE Search
  <2>1. kek_id' \in BOOLEAN /\ exec_id' \in BOOLEAN /\ unlock' \in {"read_kek", "failed"}
    BY <1>1, Zenon DEF Search
  <2> QED BY <1>0, <1>1, <2>1 DEF Unlocks, Search
<1>2. CASE ReadKek
  BY <1>0, <1>2 DEF Unlocks, ReadKek
<1>3. CASE ReadExec
  BY <1>0, <1>3 DEF Unlocks, ReadExec
<1> QED BY <1>1, <1>2, <1>3 DEF Unlocks, Unlocking

LEMMA WorksType ==
    ASSUME TypeOK, NEW e \in Exchanges, Works(e) \/ Hears(e)
    PROVE  FeedsTypeOK'
<1> USE FeedsAssumption DEF TypeOK, FeedsTypeOK, Becomes, Ends
<1>1. CASE Connects(e)
  BY <1>1 DEF Connects
<1>2. CASE ConnectFails(e)
  BY <1>2 DEF ConnectFails
<1>3. CASE ConnectionLost(e)
  <2>1. CASE Counted(e) >= MaxReconnects
    <3>1. Ends(e) /\ UNCHANGED <<pipe, states>>
      BY <1>3, <2>1 DEF ConnectionLost
    <3> QED BY <3>1
  <2>2. CASE ~(Counted(e) >= MaxReconnects)
    <3>1. Counted(e) \in 0..(MaxReconnects - 1)
      BY <2>2 DEF Counted
    <3> QED BY <1>3, <2>2, <3>1 DEF ConnectionLost
  <2> QED BY <2>1, <2>2
<1>4. CASE Publishes(e)
  BY <1>4 DEF Publishes, worker_vars
<1>5. CASE Misreads(e)
  BY <1>5 DEF Misreads
<1>6. CASE ClosedInOrder(e)
  BY <1>6 DEF ClosedInOrder
<1>7. CASE NotJson(e)
  BY <1>7 DEF NotJson
<1>8. CASE Resumes(e)
  BY <1>8 DEF Resumes
<1>9. CASE Listens(e)
  BY <1>9 DEF Listens, worker_vars
<1> QED BY <1>1, <1>2, <1>3, <1>4, <1>5, <1>6, <1>7, <1>8, <1>9
        DEF Works, Hears, Worker, Opens

LEMMA TurnType ==
    ASSUME TypeOK, Turn
    PROVE  TypeOK'
<1>1. PICK m \in Median : /\ last' = m
                          /\ window' = Returns(m)
                          /\ medians' = Push(medians, m, Window + 1)
                          /\ flag' = IF TooVolatile(m) THEN 0 ELSE 1
  BY DEF Turn
<1>2. m \in Nat /\ <<last, m>> \in Nat \X Nat
  BY MedianType DEF TypeOK, Price
<1>3. window' \in Seq(Nat \X Nat) /\ Len(window') <= Window
  <2> DEFINE Pair == Nat \X Nat
             r == <<last, m>>
  <2>1. Window \in Nat \ {0} /\ r \in Pair /\ window \in Seq(Pair) /\ Len(window) <= Window
    BY <1>2, WindowAssumption DEF TypeOK
  <2> HIDE DEF Pair, r
  <2>2. Push(window, r, Window) \in Seq(Pair) /\ Len(Push(window, r, Window)) <= Window
    <3>1. Appended(Pair, window, r, Window, Push(window, r, Window))
      BY <2>1, PushFacts
    <3> QED BY <2>1, <3>1 DEF Appended
  <2>3. window' = window \/ window' = Push(window, r, Window)
    BY <1>1 DEF Returns, r
  <2> QED BY <2>1, <2>2, <2>3 DEF Pair
<1>4. medians' \in Seq(Nat) /\ Len(medians') <= Window + 1
  <2> DEFINE n == Window + 1
  <2>1. n \in Nat \ {0} /\ medians \in Seq(Nat) /\ Len(medians) <= n
    BY WindowAssumption DEF TypeOK
  <2> HIDE DEF n
  <2>2. Push(medians, m, n) \in Seq(Nat) /\ Len(Push(medians, m, n)) <= n
    <3>1. Appended(Nat, medians, m, n, Push(medians, m, n))
      BY <1>2, <2>1, PushFacts
    <3> QED BY <2>1, <3>1 DEF Appended
  <2> QED BY <1>1, <2>2 DEF n
<1>5. flag' \in {0, 1}
  BY <1>1
<1>6. RingTypeOK' /\ FeedsTypeOK' /\ UNCHANGED phase
  BY DEF Turn, TypeOK, RingTypeOK, FeedsTypeOK, ring_vars, kernel_vars, prov_vars,
         handle_vars, feed_vars, worker_vars
<1> QED BY <1>1, <1>2, <1>3, <1>4, <1>5, <1>6 DEF TypeOK

LEMMA GoneType ==
    ASSUME TypeOK, Gone
    PROVE  TypeOK'
<1>1. RingTypeOK'
  <2>1. 0 \in 0..MaxProvisions
    BY ProvisionAssumption
  <2> QED BY <2>1 DEF TypeOK, RingTypeOK, Gone, kernel_vars, prov_vars
<1>2. FeedsTypeOK'
  BY FeedsAssumption DEF TypeOK, FeedsTypeOK, Gone, NoWorkers, NoCounts, EmptyPipes,
     NothingRead, Message
<1> QED BY <1>1, <1>2, WindowAssumption DEF Gone, TypeOK

LEMMA TypeNext ==
    ASSUME Typed, [Next]_vars
    PROVE  Typed'
<1> USE DEF vars, ring_vars, kernel_vars, prov_vars, handle_vars, feed_vars, worker_vars,
        brain_vars, loop_vars
<1>1. CASE Operates
  BY <1>1, OperatesType
<1>2. ASSUME NEW p \in Passphrases, Launch(p) PROVE TypeOK'
  BY <1>2 DEF Launch, Typed, TypeOK, RingTypeOK, FeedsTypeOK
<1>3. ASSUME Unlocks PROVE TypeOK'
  BY <1>3, UnlocksType DEF Typed
<1>4. ASSUME Opened PROVE TypeOK'
  BY <1>4 DEF Opened, Typed, TypeOK, RingTypeOK, FeedsTypeOK
<1>5. ASSUME Refused \/ Dies PROVE TypeOK'
  BY <1>5, GoneType DEF Refused, Dies, Typed, TypeOK
<1>6. ASSUME Turn PROVE TypeOK'
  BY <1>6, TurnType DEF Typed
<1>7. ASSUME Interrupted \/ Closes PROVE TypeOK'
  BY <1>7 DEF Interrupted, Closes, Typed, TypeOK, RingTypeOK, FeedsTypeOK
<1>8. ASSUME NEW e \in Exchanges, Terminates(e) PROVE TypeOK'
  BY <1>8, FeedsAssumption
     DEF Terminates, Ends, Becomes, Typed, TypeOK, RingTypeOK, FeedsTypeOK
<1>9. ASSUME Forgets PROVE TypeOK'
  <2>1. NoBlob \in [wallet : 0..MaxProvisions, under : Passphrases \cup {NoPass}]
    BY ProvisionAssumption DEF NoBlob
  <2> QED BY <1>9, <2>1
          DEF Forgets, InvalidateKek, InvalidateExec, Typed, TypeOK, RingTypeOK,
              FeedsTypeOK
<1>10. ASSUME Stopped PROVE TypeOK'
  BY <1>10, GoneType DEF Stopped, Typed, TypeOK, RingTypeOK
<1>11. ASSUME NEW e \in Exchanges, Works(e) \/ Hears(e) PROVE TypeOK'
  <2>1. FeedsTypeOK'
    BY <1>11, WorksType DEF Typed
  <2>2. UNCHANGED <<ring_vars, brain_vars>>
    BY <1>11 DEF Works, Hears
  <2> QED BY <2>1, <2>2 DEF Typed, TypeOK, RingTypeOK
<1>12. ASSUME UNCHANGED vars PROVE TypeOK'
  BY <1>12 DEF Typed, TypeOK, RingTypeOK, FeedsTypeOK
<1>13. CASE ~Operates
  <2>1. UNCHANGED <<prov, generated>>
    BY <1>13
       DEF Next, Main, Shutdown, Launch, Unlocks, Unlocking, Search, ReadKek, ReadExec, Opened,
           Refused, Gone, Dies, Turn, Interrupted, Closes, Terminates, Forgets, InvalidateKek,
           InvalidateExec, Stopped, Works, Hears
  <2>2. TypeOK'
    BY <1>2, <1>3, <1>4, <1>5, <1>6, <1>7, <1>8, <1>9, <1>10, <1>11, <1>12, <1>13
       DEF Next, Main, Shutdown
  <2> QED BY <2>1, <2>2 DEF Typed, Storing
<1> QED BY <1>1, <1>13

-----------------------------------------------------------------------------
(* The key ring *)

LEMMA RingInvInit == Init => RingInv
<1> SUFFICES ASSUME Init PROVE RingInv
  OBVIOUS
<1>1. Typed
  BY TypeInit
<1>2. Recorded
  BY DEF Recorded, Init, RingInit, WalletIds
<1> QED BY <1>1, <1>2
        DEF RingInv, Unlocked, Init, RingInit, NoBlob

\* A step that touches neither the ring nor the phase.
LEMMA RingKept ==
    ASSUME RingInv, Typed', UNCHANGED <<ring_vars, phase>>
    PROVE  RingInv'
BY DEF RingInv, Recorded, Unlocked, ring_vars, kernel_vars, prov_vars,
       handle_vars

LEMMA OperatesRing ==
    ASSUME RingInv, Typed', Operates
    PROVE  RingInv'
<1> USE DEF RingInv, Typed, Storing, TypeOK, RingTypeOK, handle_vars, kernel_vars
<1>0. UNCHANGED phase
  BY DEF Operates, brain_vars
<1>1. ASSUME NEW p \in Passphrases, Provision(p) PROVE RingInv'
  <2>1. /\ generated' = generated + 1 /\ generated \in Nat /\ generated + 1 \in WalletIds
        /\ UNCHANGED <<blob, unlock, typed, exec_id, addr>>
    BY <1>1, ProvisionAssumption DEF Provision, WalletIds
  <2>2. /\ made'[generated + 1] = p /\ p # NoPass
        /\ \A w \in WalletIds : w # generated + 1 => made'[w] = made[w]
    BY <1>1, PassAssumption DEF Provision
  <2>3. Recorded'
    <3>1. \A w \in WalletIds : made'[w] # NoPass <=> w <= generated'
      BY <2>1, <2>2 DEF Recorded, WalletIds
    <3>2. blob.wallet \in 1..generated => blob.wallet \in WalletIds
      BY <2>1 DEF WalletIds
    <3> QED BY <2>1, <2>2, <3>1, <3>2 DEF Recorded
  <2>4. Unlocked'
    <3>1. addr # 0 => addr \in WalletIds /\ addr # generated + 1
      BY <2>1 DEF Unlocked, WalletIds
    <3> QED BY <1>0, <2>1, <2>2, <3>1 DEF Unlocked
  <2> QED BY <2>3, <2>4
<1>2. CASE AddKek
  BY <1>0, <1>2 DEF AddKek, Recorded, Unlocked
<1>3. CASE AddExec
  <2>1. blob'.wallet = generated /\ blob'.under = made[generated] /\ generated \in 1..generated
    BY <1>3 DEF AddExec
  <2>2. UNCHANGED <<generated, made, unlock, typed, exec_id, addr>> /\ prov' = "idle"
    BY <1>3 DEF AddExec
  <2>3. prov # "idle"
    BY <1>3 DEF AddExec
  <2> QED BY <1>0, <2>1, <2>2, <2>3 DEF Recorded, Unlocked
<1>4. CASE ProvisionFails
  BY <1>0, <1>4 DEF ProvisionFails, Recorded, Unlocked
<1> QED BY <1>1, <1>2, <1>3, <1>4 DEF Operates, Operator

LEMMA UnlocksRing ==
    ASSUME RingInv, Typed', Unlocks
    PROVE  RingInv'
<1> USE DEF RingInv, Typed, TypeOK, RingTypeOK, kernel_vars, prov_vars, handle_vars
<1>0. UNCHANGED phase /\ phase = "unlock"
  BY DEF Unlocks, brain_vars
<1>1. CASE Search
  <2>1. unlock' = "failed" \/ (unlock' = "read_kek" /\ exec_id')
    BY <1>1, Zenon DEF Search
  <2>2. UNCHANGED <<kek, blob, prov, generated, made, typed, addr>> /\ unlock # "ready"
    BY <1>1 DEF Search
  <2> QED BY <1>0, <2>1, <2>2 DEF Recorded, Unlocked
<1>2. CASE ReadKek
  BY <1>0, <1>2 DEF ReadKek, Recorded, Unlocked
<1>3. CASE ReadExec
  <2>1. UNCHANGED <<kek, blob, prov, generated, made, typed, exec_id>> /\ unlock = "read_exec"
    BY <1>3 DEF ReadExec
  <2>2. CASE blob # NoBlob /\ Authenticated
    <3>1. addr' = blob.wallet /\ unlock' = "ready" /\ blob.under = typed
      BY <1>3, <2>2 DEF ReadExec, Authenticated
    <3>2. blob.wallet \in 1..generated /\ made[blob.wallet] = typed
      BY <2>2, <3>1 DEF Recorded
    <3> QED BY <1>0, <2>1, <3>1, <3>2 DEF Recorded, Unlocked
  <2>3. CASE ~(blob # NoBlob /\ Authenticated)
    <3>1. addr' = addr /\ unlock' = "failed"
      BY <1>3, <2>3 DEF ReadExec
    <3> QED BY <1>0, <2>1, <3>1 DEF Recorded, Unlocked
  <2> QED BY <2>2, <2>3
<1> QED BY <1>1, <1>2, <1>3 DEF Unlocks, Unlocking

LEMMA ForgetsRing ==
    ASSUME RingInv, Typed', Forgets
    PROVE  RingInv'
<1> USE DEF RingInv, Typed, Storing, TypeOK, RingTypeOK, prov_vars
<1>0. UNCHANGED <<phase, prov, generated, made, unlock, typed, addr>>
      /\ phase = "forget"
  BY DEF Forgets, brain_vars, InvalidateKek, InvalidateExec
<1>1. CASE InvalidateKek
  BY <1>0, <1>1 DEF InvalidateKek, Recorded, Unlocked
<1>2. CASE InvalidateExec
  <2>1. blob' = NoBlob /\ blob'.wallet = 0
    BY <1>2 DEF InvalidateExec, NoBlob
  <2> QED BY <1>0, <1>2, <2>1 DEF InvalidateExec, Recorded, Unlocked
<1> QED BY <1>1, <1>2 DEF Forgets

\* The end of the process.
LEMMA GoneRing ==
    ASSUME RingInv, Typed', Gone
    PROVE  RingInv'
<1>1. /\ UNCHANGED <<blob, prov, generated, made>>
      /\ phase' = "off" /\ unlock' = "none" /\ addr' = 0
  BY DEF Gone, kernel_vars, prov_vars
<1> QED BY <1>1 DEF RingInv, Recorded, Unlocked

LEMMA RingNext ==
    ASSUME RingInv, [Next]_vars
    PROVE  RingInv'
<1>0. Typed'
  BY TypeNext DEF RingInv
<1>1. CASE Operates
  BY <1>0, <1>1, OperatesRing
<1>2. ASSUME NEW p \in Passphrases, Launch(p) PROVE RingInv'
  BY <1>0, <1>2
     DEF Launch, RingInv, Recorded, Unlocked, kernel_vars, prov_vars,
         handle_vars
<1>3. CASE Unlocks
  BY <1>0, <1>3, UnlocksRing
<1>4. CASE Opened
  BY <1>0, <1>4
     DEF Opened, RingInv, Recorded, Unlocked, ring_vars, kernel_vars,
         prov_vars, handle_vars
<1>5. CASE Refused \/ Dies
  BY <1>0, <1>5, GoneRing DEF Refused, Dies
<1>6. CASE Turn
  BY <1>0, <1>6, RingKept DEF Turn
<1>7. CASE Interrupted \/ Closes
  <2>1. UNCHANGED ring_vars /\ phase \in {"serve", "terminate"}
        /\ phase' \in {"terminate", "forget"}
    BY <1>7 DEF Interrupted, Closes
  <2> QED BY <1>0, <2>1
          DEF RingInv, Recorded, Unlocked, ring_vars, kernel_vars,
              prov_vars, handle_vars
<1>8. ASSUME NEW e \in Exchanges, Terminates(e) PROVE RingInv'
  BY <1>0, <1>8, RingKept DEF Terminates, brain_vars
<1>9. CASE Forgets
  BY <1>0, <1>9, ForgetsRing
<1>10. CASE Stopped
  BY <1>0, <1>10, GoneRing DEF Stopped
<1>11. ASSUME NEW e \in Exchanges, Works(e) \/ Hears(e) PROVE RingInv'
  BY <1>0, <1>11, RingKept DEF Works, Hears, brain_vars
<1>12. CASE UNCHANGED vars
  BY <1>0, <1>12, RingKept DEF vars, brain_vars
<1> QED BY <1>1, <1>2, <1>3, <1>4, <1>5, <1>6, <1>7, <1>8, <1>9, <1>10, <1>11, <1>12
        DEF Next, Main, Shutdown

-----------------------------------------------------------------------------
(* The volatility tracker *)

LEMMA TracksInit == Init => Tracks
<1> SUFFICES ASSUME Init PROVE Tracks
  OBVIOUS
<1>1. last = 0 /\ flag = 0 /\ medians = <<>> /\ window = <<>>
  BY DEF Init
<1> QED BY <1>1, WindowAssumption DEF Tracks

\* One turn: the window moves with the medians, cold, warming or full.
LEMMA TurnTracks ==
    ASSUME TypeOK, Tracks, Turn
    PROVE  Tracks'
<1>1. PICK m \in Median : /\ last' = m
                          /\ window' = Returns(m)
                          /\ medians' = Push(medians, m, Window + 1)
                          /\ flag' = IF TooVolatile(m) THEN 0 ELSE 1
  BY DEF Turn
<1> DEFINE n == Window + 1
           r == <<last, m>>
           Pair == Nat \X Nat
<1>2. m \in Price /\ m \in Nat /\ m # 0
  BY MedianType DEF Price
<1>3. n \in Nat \ {0} /\ Window \in Nat \ {0} /\ n = Window + 1 /\ r \in Pair
  BY <1>2, WindowAssumption DEF Tracks
<1>4. medians \in Seq(Price) /\ Len(medians) <= n /\ window \in Seq(Pair)
  BY DEF Tracks
<1> HIDE DEF n, r, Pair
<1>5. Appended(Price, medians, m, n, medians')
  BY <1>1, <1>2, <1>3, <1>4, PushFacts DEF n
<1>6. medians' # <<>>
  BY <1>3, <1>4, <1>5 DEF Appended
<1>7. flag' \in {0, 1} /\ (flag' = 1 => ~Volatile(window'))
  BY <1>1 DEF TooVolatile
<1>8. /\ window' \in Seq(Pair)
      /\ Len(window') = Len(medians') - 1
      /\ \A i \in 1..Len(window') : window'[i] = <<medians'[i], medians'[i + 1]>>
  <2>1. CASE medians = <<>>
    <3>1. window' = window /\ Len(window) = 0
      BY <1>1, <2>1 DEF Tracks, Returns
    <3>2. Len(medians') = 1
      BY <1>3, <1>5, <2>1 DEF Appended
    <3> QED BY <1>4, <3>1, <3>2
  <2>2. CASE medians # <<>>
    <3>1. /\ last = medians[Len(medians)] /\ Len(medians) \in Nat \ {0}
          /\ Len(window) = Len(medians) - 1 /\ Len(window) <= Window
      BY <1>3, <1>4, <2>2 DEF Tracks
    <3>2. last # 0
      BY <1>4, <3>1 DEF Price
    <3>3. window' = Push(window, r, Window)
      BY <1>1, <3>2 DEF Returns, r
    <3>4. Appended(Pair, window, r, Window, window')
      BY <1>3, <1>4, <3>1, <3>3, PushFacts
    <3>5. Len(window') = Len(medians') - 1
      BY <1>3, <1>5, <3>1, <3>4 DEF Appended
    <3>6. ASSUME NEW i \in 1..Len(window')
          PROVE  window'[i] = <<medians'[i], medians'[i + 1]>>
      <4>1. \A j \in 1..Len(window) : window[j] = <<medians[j], medians[j + 1]>>
        BY DEF Tracks
      <4>2. CASE i = Len(window')
        <5>1. medians'[i + 1] = m
          BY <1>5, <3>4, <3>5, <4>2 DEF Appended
        <5>2. medians'[i] = last
          BY <1>3, <1>5, <3>1, <3>4, <3>5, <4>2 DEF Appended
        <5> QED BY <3>4, <4>2, <5>1, <5>2 DEF r, Appended
      <4>3. CASE i # Len(window') /\ Len(window) < Window
        <5>1. i \in 1..Len(window) /\ i \in 1..(Len(window') - 1)
              /\ i \in 1..(Len(medians') - 1) /\ i + 1 \in 1..(Len(medians') - 1)
              /\ Len(medians) < n
          BY <1>3, <3>1, <3>4, <3>5, <4>3 DEF Appended
        <5>2. window'[i] = window[i] /\ medians'[i] = medians[i] /\ medians'[i + 1] = medians[i + 1]
          BY <1>5, <3>4, <4>3, <5>1 DEF Appended
        <5> QED BY <4>1, <5>1, <5>2
      <4>4. CASE i # Len(window') /\ ~(Len(window) < Window)
        <5>1. i + 1 \in 1..Len(window) /\ i \in 1..(Len(window') - 1)
              /\ i \in 1..(Len(medians') - 1) /\ i + 1 \in 1..(Len(medians') - 1)
              /\ ~(Len(medians) < n)
          BY <1>3, <3>1, <3>4, <3>5, <4>4 DEF Appended
        <5>2. window'[i] = window[i + 1] /\ medians'[i] = medians[i + 1]
              /\ medians'[i + 1] = medians[i + 1 + 1]
          BY <1>5, <3>4, <4>4, <5>1 DEF Appended
        <5> QED BY <4>1, <5>1, <5>2
      <4> QED BY <4>2, <4>3, <4>4
    <3> QED BY <3>4, <3>5, <3>6 DEF Appended
  <2> QED BY <2>1, <2>2
<1>9. Len(medians') <= Window + 1
  BY <1>3, <1>4, <1>5 DEF Appended
<1>10. last' \in Nat /\ last' = medians'[Len(medians')]
  BY <1>1, <1>2, <1>5 DEF Appended
<1> QED BY <1>5, <1>6, <1>7, <1>8, <1>9, <1>10 DEF Tracks, Pair, Appended

LEMMA TracksNext ==
    ASSUME TypeOK, Tracks, [Next]_vars
    PROVE  Tracks'
<1>1. CASE Turn
  BY <1>1, TurnTracks
<1>2. CASE Gone
  <2>1. last' = 0 /\ flag' = 0 /\ medians' = <<>> /\ window' = <<>>
    BY <1>2 DEF Gone
  <2> QED BY <2>1, WindowAssumption DEF Tracks
<1>3. CASE ~Turn /\ ~Gone
  <2>1. UNCHANGED <<last, window, flag, medians>>
    BY <1>3
       DEF Next, Main, Shutdown, Operates, Launch, Unlocks, Opened, Refused, Dies, Interrupted,
           Closes, Terminates, Forgets, Stopped, Works, Hears, vars, brain_vars, loop_vars
  <2> QED BY <2>1 DEF Tracks, Volatile
<1> QED BY <1>1, <1>2, <1>3

-----------------------------------------------------------------------------
(* The theorems *)

\* The Brain, its feeds and the key ring keep their types.
THEOREM BrainTyped == Spec => []TypeOK
<1>1. Typed /\ [Next]_vars => Typed'
  BY TypeNext
<1>2. Typed => TypeOK
  BY DEF Typed
<1> QED BY TypeInit, <1>1, <1>2, PTL DEF Spec

\* However unlock() and provision() interleave, fail or die, the Brain serves
\* with a wallet generated under the passphrase typed at its start.
THEOREM ServesOwnWalletAlways == Spec => []ServesOwnWallet
<1>1. RingInv /\ [Next]_vars => RingInv'
  BY RingNext
<1>2. RingInv => ServesOwnWallet
  BY DEF RingInv, Unlocked, ServesOwnWallet
<1> QED BY RingInvInit, <1>1, <1>2, PTL DEF Spec

\* For any window and warm-up: no flag is up over a warm window with a jump.
THEOREM CalmBeforeSignalAlways == Spec => []CalmBeforeSignal
<1> DEFINE Inv == Typed /\ Tracks
<1>1. Init => Inv
  BY TypeInit, TracksInit
<1>2. Inv /\ [Next]_vars => Inv'
  BY TypeNext, TracksNext DEF Typed
<1>3. Inv => CalmBeforeSignal
  <2> SUFFICES ASSUME Tracks, flag = 1, ~(Len(medians) <= MinReturns),
                      NEW i \in 1..(Len(medians) - 1), NEW j \in 1..(Len(medians) - 1)
               PROVE  medians[i] * medians[j + 1] = medians[i + 1] * medians[j]
    BY DEF CalmBeforeSignal
  <2>1. Len(medians) \in Nat /\ MinReturns \in Nat
    BY WindowAssumption DEF Tracks
  <2>2. Len(medians) > 0 /\ medians # <<>>
    BY <2>1, WindowAssumption DEF Tracks
  <2>3. Len(window) = Len(medians) - 1 /\ Len(window) >= MinReturns
    BY <2>1, <2>2 DEF Tracks
  <2>4. window[i][1] * window[j][2] = window[i][2] * window[j][1]
    BY <2>3 DEF Tracks, Volatile
  <2>5. window[i] = <<medians[i], medians[i + 1]>> /\ window[j] = <<medians[j], medians[j + 1]>>
    BY <2>3 DEF Tracks
  <2> QED BY <2>4, <2>5
<1> QED BY <1>1, <1>2, <1>3, PTL DEF Spec

\* However the workers die, freeze or reconnect, the price the Brain works with
\* lies where more than half of the usable feeds quote.
THEOREM MajorityAlways == Spec => []MajorityRules
<1>1. TypeOK => MajorityRules
  BY MedianWithin DEF TypeOK
<1> QED BY BrainTyped, <1>1, PTL
=============================================================================
