-------------------------------- MODULE Brain --------------------------------
(***************************************************************************)
(* BrainServer of src/brain/brain.py: run() unlocks the key ring, starts   *)
(* the workers and listeners, turns the consensus loop and cleans up, next *)
(* to the operator's provisioning and the workers' own processes.          *)
(*                                                                         *)
(* The writes of a turn to the cache line are one step here; MempoolBridge *)
(* takes them apart.  The blocklist of wallets is never filled.            *)
(***************************************************************************)
EXTENDS KeyRing, Feeds

CONSTANTS
    Window,         \* VOL_WINDOW (20)
    MinReturns      \* returns below which iv() is 0 (5)

ASSUME WindowAssumption == Window \in Nat /\ MinReturns \in 2..Window

\* Two returns of the medians that differ at all differ by 2 % or more.  One return
\* that far from the others gives a window of VOL_WINDOW a deviation of
\* 0.02 * sqrt(19) / 20, that is 43 bp, and a shorter one more: past the 22.5 bp
\* where 5 + 2 * iv reaches SLIPPAGE_MAX_BPS.  Prices that move by less, for which
\* iv may stay below the limit, are not modelled.
ASSUME SpacingAssumption ==
    LET levels == {p + q : p, q \in Prices}
    IN  \A a, b, c, d \in levels : a * d < b * c => 102 * (a * d) <= 100 * (b * c)

VARIABLES
    phase,          \* "off", "unlock", "serve", "terminate", "forget"
    last,           \* vol.prices[-1], 0 when there is none
    window,         \* vol.log_ret: the returns, <<from, to>> of each
    flag,           \* what this Brain last wrote to the flag, 0 at first
    medians         \* history: the medians of the last Window + 1 turns

loop_vars  == <<last, window, flag, medians>>
brain_vars == <<phase, loop_vars>>
vars       == <<ring_vars, feed_vars, brain_vars>>

Init ==
    /\ RingInit
    /\ FeedsInit
    /\ phase = "off"
    /\ last = 0
    /\ window = <<>>
    /\ flag = 0
    /\ medians = <<>>

-----------------------------------------------------------------------------
(* run(): unlock, open, spawn *)

Launch(p) ==
    /\ phase = "off"
    /\ phase' = "unlock"
    /\ unlock' = "search"
    /\ typed' = p
    /\ UNCHANGED <<kernel_vars, prov_vars, handle_vars, feed_vars, loop_vars>>

Unlocks ==
    /\ phase = "unlock"
    /\ Unlocking
    /\ UNCHANGED <<feed_vars, brain_vars>>

\* The cache line is opened and every exchange gets its worker and listener.
Opened ==
    /\ phase = "unlock"
    /\ unlock = "ready"
    /\ phase' = "serve"
    /\ worker' = [e \in Exchanges |-> "connect"]
    /\ UNCHANGED <<ring_vars, reconnects, pipe, states, loop_vars>>

\* The process is gone, and with it all but the kernel's keys.
Gone ==
    /\ phase' = "off"
    /\ unlock' = "none"
    /\ typed' = NoPass
    /\ kek_id' = FALSE
    /\ exec_id' = FALSE
    /\ addr' = 0
    /\ worker' = NoWorkers
    /\ reconnects' = NoCounts
    /\ pipe' = EmptyPipes
    /\ states' = NothingRead
    /\ last' = 0
    /\ window' = <<>>
    /\ flag' = 0
    /\ medians' = <<>>
    /\ UNCHANGED <<kernel_vars, prov_vars>>

\* unlock() returned False or raised: run() returns without invalidate().
Refused ==
    /\ phase = "unlock"
    /\ unlock = "failed"
    /\ Gone

-----------------------------------------------------------------------------
(* consensus_loop() *)

\* Mutant: a deque without maxlen.
Grow(s, x, size) == Append(s, x)
Push(s, x, size) == IF Len(s) < size THEN Append(s, x) ELSE Append(Tail(s), x)

Returns(m) == IF last = 0 THEN window ELSE Push(window, <<last, m>>, Window)

\* slippage_bps() >= SLIPPAGE_MAX_BPS: by SpacingAssumption two returns that differ
\* are enough, and returns that are all equal have no deviation.
Volatile(w) ==
    /\ Len(w) >= MinReturns
    /\ \E i, j \in 1..Len(w) : w[i][1] * w[j][2] # w[i][2] * w[j][1]

\* Mutant: the slippage is computed before the tracker is updated.
JudgedBefore(m) == Volatile(window)
TooVolatile(m)  == Volatile(Returns(m))

\* Without a quorum a turn changes nothing, the raised flag included.
Turn ==
    /\ phase = "serve"
    /\ Quorum
    /\ \E m \in Median :
          /\ last' = m
          /\ window' = Returns(m)
          /\ medians' = Push(medians, m, Window + 1)
          /\ flag' = IF TooVolatile(m) THEN 0 ELSE 1
    /\ UNCHANGED <<phase, ring_vars, feed_vars>>

-----------------------------------------------------------------------------
(* the end of run() *)

\* Ctrl-C, or an exception in a turn: an msync that fails
Interrupted ==
    /\ phase = "serve"
    /\ phase' = "terminate"
    /\ UNCHANGED <<ring_vars, feed_vars, loop_vars>>

Terminates(e) ==
    /\ phase = "terminate"
    /\ worker[e] # "ended"
    /\ Ends(e)
    /\ UNCHANGED <<ring_vars, pipe, states, brain_vars>>

\* mmap_writer.close()
Closes ==
    /\ phase = "terminate"
    /\ \A e \in Exchanges : worker[e] = "ended"
    /\ phase' = "forget"
    /\ UNCHANGED <<ring_vars, feed_vars, loop_vars>>

Forgets ==
    /\ phase = "forget"
    /\ InvalidateKek \/ InvalidateExec
    /\ UNCHANGED <<feed_vars, brain_vars>>

Stopped ==
    /\ phase = "forget"
    /\ ~kek_id
    /\ ~exec_id
    /\ Gone

\* Killed, or an exception that nothing catches: in open() or a fork before the
\* loop, in the msync of close() or a second Ctrl-C after it.  What is left of
\* the cleanup is skipped; the workers of a killed Brain reach no later one.
Dies ==
    /\ phase # "off"
    /\ Gone

-----------------------------------------------------------------------------
Works(e)  == Worker(e) /\ UNCHANGED <<ring_vars, brain_vars>>
Hears(e)  == Listens(e) /\ UNCHANGED <<ring_vars, brain_vars>>
Operates  == Operator /\ UNCHANGED <<feed_vars, brain_vars>>
Shutdown  == Closes \/ Forgets \/ Stopped \/ \E e \in Exchanges : Terminates(e)
Main      == Unlocks \/ Opened \/ Refused \/ Turn \/ Shutdown

Next ==
    \/ Operates
    \/ \E p \in Passphrases : Launch(p)
    \/ Main
    \/ Interrupted
    \/ Dies
    \/ \E e \in Exchanges : Works(e) \/ Hears(e)

Spec == Init /\ [][Next]_vars

\* The Brain's thread, its listeners and the workers' attempts go on; that the
\* operator acts, the exchanges send or anything fails is promised by nobody.
FairSpec ==
    /\ Spec
    /\ WF_vars(Main)
    /\ \A e \in Exchanges :
          /\ WF_vars(Opens(e) /\ UNCHANGED <<ring_vars, brain_vars>>)
          /\ WF_vars(Hears(e))

-----------------------------------------------------------------------------
TypeOK ==
    /\ RingTypeOK
    /\ FeedsTypeOK
    /\ phase \in {"off", "unlock", "serve", "terminate", "forget"}
    /\ last \in Nat
    /\ window \in Seq(Nat \X Nat)
    /\ Len(window) <= Window
    /\ flag \in {0, 1}
    /\ medians \in Seq(Nat)
    /\ Len(medians) <= Window + 1

\* The wallet the Brain serves with was generated under the passphrase typed at
\* its start, however a provisioning that was cut short or runs beside unlock()
\* has replaced one of the two keys and not the other.
ServesOwnWallet == phase = "serve" => addr # 0 /\ made[addr] = typed

\* The flag is up only after a calm window: the medians of the last Window + 1
\* turns grew by one ratio, unless the tracker is not warm yet.
CalmBeforeSignal ==
    flag = 1 =>
        \/ Len(medians) <= MinReturns
        \/ \A i, j \in 1..(Len(medians) - 1) :
              medians[i] * medians[j + 1] = medians[i + 1] * medians[j]

\* A worker does not try for ever to connect: it streams, or an attempt or the
\* last of its reconnects ends it.
FeedSettles ==
    \A e \in Exchanges :
        worker[e] \in {"connect", "wait"} ~> worker[e] \notin {"connect", "wait"}

\* "Yeterli sağlıklı borsa verisi yok": when every worker has ended and the last
\* message is read, the Brain runs out of fresh prices.
DeadFeedsGoSilent ==
    (phase = "serve" /\ \A e \in Exchanges : worker[e] = "ended" /\ pipe[e] = <<>>)
        ~> (~Quorum \/ phase # "serve")
=============================================================================
