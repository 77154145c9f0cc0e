-------------------------------- MODULE Feeds --------------------------------
(***************************************************************************)
(* The exchange feeds of src/brain/brain.py: exchange_worker, a process    *)
(* per exchange, and exchange_listener, a thread of the Brain per pipe.    *)
(*                                                                         *)
(* A message is a price, or Stale when it was older than                   *)
(* STALE_THRESHOLD_NS as the worker sent it: its age is computed there,    *)
(* and a stale price is never looked at.  The frequency it carries too is  *)
(* read by nobody.                                                         *)
(***************************************************************************)
EXTENDS Integers, Sequences, FiniteSets

CONSTANTS
    Exchanges,
    Prices,         \* the levels a price may have
    MaxReconnects,  \* max_reconnects (50)
    PipeSize        \* messages a pipe holds

ASSUME ExchangesAssumption == IsFiniteSet(Exchanges)
ASSUME PricesAssumption == Prices \subseteq Nat \ {0}
ASSUME FeedsAssumption  == MaxReconnects \in Nat \ {0} /\ PipeSize \in Nat \ {0}

Stale   == 0
Message == Prices \cup {Stale}

VARIABLES
    worker,         \* "none", "connect", "stream", "wait", "ended"
    reconnects,
    pipe,
    states          \* BrainServer.states: the last message received, Stale before

worker_vars == <<worker, reconnects>>
feed_vars   == <<worker_vars, pipe, states>>

NoWorkers   == [e \in Exchanges |-> "none"]
NoCounts    == [e \in Exchanges |-> 0]
EmptyPipes  == [e \in Exchanges |-> <<>>]
NothingRead == [e \in Exchanges |-> Stale]

FeedsInit ==
    /\ worker = NoWorkers
    /\ reconnects = NoCounts
    /\ pipe = EmptyPipes
    /\ states = NothingRead

Becomes(e, what) == worker' = [worker EXCEPT ![e] = what]

Ends(e) == Becomes(e, "ended") /\ reconnects' = [reconnects EXCEPT ![e] = 0]

-----------------------------------------------------------------------------
(* exchange_worker *)

\* The connection stands and the subscription is sent.
Connects(e) ==
    /\ worker[e] = "connect"
    /\ Becomes(e, "stream")
    /\ reconnects' = [reconnects EXCEPT ![e] = 0]
    /\ UNCHANGED <<pipe, states>>

\* websockets.connect fails: the except clause of retry_with_backoff names a
\* module that brain.py does not import, and its NameError ends the process.
ConnectFails(e) ==
    /\ worker[e] = "connect"
    /\ Ends(e)
    /\ UNCHANGED <<pipe, states>>

\* Mutant: a lost connection is not counted.
NotCounted(e) == reconnects[e]
Counted(e)    == reconnects[e] + 1

\* A time-out, a closed connection or an OSError, in the subscription or later:
\* one reconnect less, and the last one ends the process.
ConnectionLost(e) ==
    /\ worker[e] \in {"connect", "stream"}
    /\ IF Counted(e) >= MaxReconnects
       THEN Ends(e)
       ELSE /\ Becomes(e, "wait")
            /\ reconnects' = [reconnects EXCEPT ![e] = Counted(e)]
    /\ UNCHANGED <<pipe, states>>

\* feed.record and conn.send, which waits while the pipe is full
Publishes(e) ==
    /\ worker[e] = "stream"
    /\ Len(pipe[e]) < PipeSize
    /\ \E m \in Message : pipe' = [pipe EXCEPT ![e] = Append(pipe[e], m)]
    /\ UNCHANGED <<worker_vars, states>>

\* A message of another form (the answer to the subscription is one): a pause,
\* and a new connection that is not counted.
Misreads(e) ==
    /\ worker[e] = "stream"
    /\ Becomes(e, "wait")
    /\ UNCHANGED <<reconnects, pipe, states>>

\* The exchange closes in order: a new connection at once, not counted either.
ClosedInOrder(e) ==
    /\ worker[e] = "stream"
    /\ Becomes(e, "connect")
    /\ UNCHANGED <<reconnects, pipe, states>>

\* What is not JSON raises past both handlers.
NotJson(e) ==
    /\ worker[e] = "stream"
    /\ Ends(e)
    /\ UNCHANGED <<pipe, states>>

\* The 3 s are over.
Resumes(e) ==
    /\ worker[e] = "wait"
    /\ Becomes(e, "connect")
    /\ UNCHANGED <<reconnects, pipe, states>>

\* What a worker does of itself; the rest is up to the exchange.
Opens(e) ==
    \/ Connects(e)
    \/ ConnectFails(e)
    \/ worker[e] = "connect" /\ ConnectionLost(e)
    \/ Resumes(e)

Worker(e) ==
    \/ Opens(e)
    \/ ConnectionLost(e)
    \/ Publishes(e)
    \/ Misreads(e)
    \/ ClosedInOrder(e)
    \/ NotJson(e)

-----------------------------------------------------------------------------
(* exchange_listener *)

\* recv.  The end of a worker raises EOFError here for ever, and states keeps
\* the last message.
Listens(e) ==
    /\ pipe[e] # <<>>
    /\ states' = [states EXCEPT ![e] = Head(pipe[e])]
    /\ pipe' = [pipe EXCEPT ![e] = Tail(pipe[e])]
    /\ UNCHANGED worker_vars

-----------------------------------------------------------------------------
(* median_price *)

Usable == {e \in Exchanges : states[e] # Stale}

Quorum == Cardinality(Usable) >= 2

\* The k-th smallest of the usable prices, as a singleton
Kth(k) ==
    {p \in {states[e] : e \in Usable} :
        /\ Cardinality({e \in Usable : states[e] < p}) < k
        /\ Cardinality({e \in Usable : states[e] <= p}) >= k}

\* Mutant: the outliers are averaged.
MidRange == {p + q : p \in Kth(1), q \in Kth(Cardinality(Usable))}

\* statistics.median, doubled: the sum of the two middle prices
Median ==
    LET n == Cardinality(Usable)
    IN  {p + q : p \in Kth((n + 1) \div 2), q \in Kth(n \div 2 + 1)}

-----------------------------------------------------------------------------
FeedsTypeOK ==
    /\ worker \in [Exchanges -> {"none", "connect", "stream", "wait", "ended"}]
    /\ reconnects \in [Exchanges -> 0..(MaxReconnects - 1)]
    /\ pipe \in [Exchanges -> Seq(Message)]
    /\ \A e \in Exchanges : Len(pipe[e]) <= PipeSize
    /\ states \in [Exchanges -> Message]

\* The usable feeds whose last price lies between lo and hi
Quoting(lo, hi) == {e \in Usable : states[e] \in lo..hi}

\* A minority of the usable feeds, frozen on an old price or wrong, does not move
\* the consensus out of what the majority quotes.
MajorityRules ==
    \A lo, hi \in Prices :
        2 * Cardinality(Quoting(lo, hi)) > Cardinality(Usable)
            => \A m \in Median : 2 * lo <= m /\ m <= 2 * hi
=============================================================================
