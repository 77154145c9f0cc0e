# Formal model of the Executioner

TLA+ models of the arbitrage executor in this repository, the TLC runs that check
them on small instances, and TLAPS proofs that hold for every instance.

## The system

Three processes and a contract.

| Part | Code | State | Operations |
|---|---|---|---|
| Executor, hot loop | `src/main.rs:468-518` | flag and heartbeat bytes of the shared file | poll the flag, copy an opportunity, send it to the pipeline, lower the flag, beat |
| Executor, pipeline | `src/main.rs:233-307, 411-466` | the channel, one task per opportunity | recover every wallet at boot; per opportunity: take a nonce, sign, broadcast up to 3 times, confirm, wait 12 s, recover |
| Nonce manager | `src/nonce_manager.rs` | per wallet: `nonce`, `max_sent`, `stuck`, `recovering`, `in_flight`, `stuck_since`; a round-robin counter | `next_nonce`, `mark_confirmed`, `recover` |
| Broadcaster | `src/broadcaster.rs` | none between calls | one bundle to every relay, success = an HTTP 2xx |
| Encoding and signing | `src/main.rs:117-228` | none | ABI, RLP, ECDSA |
| Shared cache line | `/dev/shm/mempool_bridge.bin` | 52 bytes of payload, status@52, heartbeat@61, flag@63 | written by the Brain, read and cleared by the hot loop, cleared by the watchdog |
| Brain, feeds | `brain/brain.py:536-633` | per exchange a process: its connection, `reconnects` | connect, subscribe, parse, `conn.send`; give up |
| Brain, server | `brain/brain.py:640-887` | `states` (last message of each feed), volatility window, the mapping | listeners, `median_price`, slippage, `MmapWriter.send` or `write_flag` every 50 ms, start and clean-up |
| Brain, key ring | `brain/brain.py:214-529` | two keys in the kernel's session keyring, two handles, the address | `provision` (a process of its own), `unlock`, `invalidate` |
| Watchdog | `watchdog/watchdog.py` | last heartbeat and its time, latencies, one-shot emergency flag | every 100 ms read the heartbeat, every 500 ms ping; `emergency_stop` and cancels |
| Vault | `contracts/Vault.sol` | `executors`, `whitelistedRouters`, `usedNonces`, `paused`, the tokens | owner's operations, `executeSwap`, `rescueTokens` |
| Scripts | `scripts/` | the host's firewall, tunnels, sysctl, units | apply, status, tear down |

How they interact: the Brain writes a signal into the cache line and raises the flag;
the hot loop, spinning on its own core, copies it and sends it over an unbounded
channel to the pipeline; the pipeline spawns a task, which takes a nonce of a hot
wallet, signs a call of `Vault.executeSwap` and broadcasts it; tasks share the
`NonceManager` through atomics and one async lock per wallet. The watchdog shares the
cache line and nothing else. No lock spans two processes.

What is hard, and what makes each part correct:

* **Nonce manager.** Tasks on two runtime threads allocate while others resync the
  same counter from an answer of the node that was read before an `await`. Correct
  means: no nonce is skipped (a gap blocks the wallet), none is handed out twice
  without a resync, none is forgotten before it is settled, the recovery is exclusive
  and always ends, a wallet is parked only on a nonce that is in flight.
* **Cache line.** No lock, only the order of the stores. Correct means: an opportunity
  is one signal, not a mix of two; signals arrive in order and at most once; a raised
  flag is served; the emergency stop stops.
* **Vault.** A router called in the middle of a swap can call back. Correct means: a
  nonce pays once, a reverted call leaves no trace, a transaction costs of each token at most
  what was authorised of it.
* **Watchdog.** A stalled executor must trigger the emergency, a live one must not; a byte that wraps is all it sees. The emergency must reach every
  exchange, whatever cancel fails on the way, and end.
* **Brain, feeds and consensus.** Four processes whose connections end in five ways, pipes
  that fill, threads that read, and a loop that samples. Correct means: a worker streams
  or gives up, the flag says that the market is calm, a dead feed goes stale.
* **Brain, key ring.** Two processes and two keys that no call replaces together. Correct
  means: the Brain serves with the wallet of the passphrase it was given.
* **Encoding.** What the Brain writes must be what the Vault decodes.

The repository has no tests. As committed the executor does not compile
(`MmapMut::map`, a `[u8; 20]` where `hex_to_bytes` yields another type, a signer used
after it was moved); the Brain's key ring raises at its first search (`_search_key` hands
a `bytes` to `keyctl`, declared with a `c_int` there, and ctypes refuses it: `SearchEnds` has
both ends); `retry_with_backoff` uses `asyncio` without importing it, so that the first failing
connect ends its feed; the first message of every exchange, its answer to the subscription, has
no price and counts as a change of format, so that the connection is dropped; every bundle targets block 1 (`current_block` is the constant 0), and the
calldata carries an empty signature and the zero router, which the Vault refuses. The
models follow what each component does once it runs, and keep every such failure that leaves the
rest running as an outcome.

## Modules

| Module | Models |
|---|---|
| `NonceManager` | the nonce manager, the boot recovery and the tasks that use it |
| `MCNonceManager` | its instances for TLC (symmetry of the tasks) |
| `NonceManagerProofs` | its theorems |
| `Allocator` | the abstract promise of the nonce manager: an atomic counter per wallet that falls back in the order of the chain's counts |
| `AllocatorProofs` | `NonceManager` implements `Allocator` |
| `Mailbox` | the abstract promise of the cache line: a mailbox for one signal |
| `MailboxProofs` | the mailbox delivers in order |
| `MempoolBridge` | the cache line, the Brain's writer, the hot loop, the emergency stop; shown to implement `Mailbox` |
| `MCMempoolBridge` | its instances for TLC |
| `MempoolBridgeProofs` | its theorems, the refinement among them |
| `Vault` | the contract, with re-entrant swaps and reverts |
| `Ledger` | the abstract promise of the Vault: atomic transactions that settle batches of signed orders |
| `MCVault` | its instance for TLC (four signed orders of two tokens) |
| `VaultProofs` | its theorems, the refinement of `Ledger` among them |
| `Watchdog` | the watchdog daemon between the executor's heartbeat, the exchanges and the operator |
| `MCWatchdog` | its instances for TLC |
| `WatchdogProofs` | its theorems |
| `KeyRing` | the executor key in the kernel's keyring: provisioning, unlock, invalidate |
| `Feeds` | workers, pipes, listeners and the median of four exchanges |
| `FeedsProofs` | the median: the majority bounds it, and it is one number |
| `Brain` | the server: `KeyRing` and `Feeds` composed with `run`, `consensus_loop` and the volatility window |
| `MCBrain` | its instances for TLC (symmetry of the exchanges, a bound on the messages under way) |
| `BrainProofs` | its theorems |

### NonceManager

A process (a task or the pipeline thread `Main`) stands at the instruction or await its
program counter names. Each access to a shared atomic is a step: in `next_nonce` the two
loads (`LoadStuck`, `LoadRecovering`), `FetchAdd`, `FetchMax`, `Insert`; in `recover` the
swap of `recovering`, the answer of the node (`RpcSome`, or `RpcNone` for any failure), the
write lock with `retain` and the verdict (`LockAndJudge`), `StoreNonce`, `StoreStuck` with
the release of the lock, `Release`. `Broadcast` is one fan-out with two independent
outcomes: some relay keeps the transaction or none does, some answer is a 2xx or none is.
The three branches of the reconciliation store the same nonce and differ in `stuck` and
`stuck_since`; a verdict (`clear`, `first`, `confirmed`) names the branch.

What is merged and why: `retain`, the load of `max_sent` and the read of `stuck_since` are
one step, because the write guard is held and a `fetch_max` before or after `retain` changes
no verdict (the nonces in flight are inserted after their own `fetch_max`). `stuck.store`,
the store of `stuck_since` and the drop of the guard are one step: only `recover` reads the
sighting, and under the guard. Signing is not a step: `build_and_sign` fails on no key that
`NonceManager::new` accepted.

Time is one bit per wallet: a sighting is `recent` until `Age` makes it `old` (12 s). As in the
code it belongs to the wallet, not to a nonce: the wallet is parked when a frontier nonce is found
while an old sighting is there, be it the sighting of an earlier one. `ParkedOnInFlight` says what does
hold at that moment: the count the wallet was resynced to is a nonce still in flight, so that the spare
wallet takes over from a transaction that is really under way. The
12 s a task sleeps before `recover` and the pauses between retries are the freedom of a
process not to move. The node (`pending`) counts a transaction once some relay holds it
(`Mine`), whenever it likes.

History variables, which no guard reads: `issued` and `acked` (nonces handed out, nonces a
relay answered with success), `fresh` (tasks that allocated since the last resync), `synced` (the count of
the last resync).

`Allocator` is what a caller may rely on, with every step atomic: `Hand` gives a task its one nonce,
`Resync` sets the counter to a count between the one of the wallet's last resync and the chain's present
one, `Mine` advances the chain through a nonce that was handed out. The refinement maps `fetch_add` to
`Hand` and the store of the node's answer to `Resync`; the probes, the guard, the call, the verdict, the
broadcasts are stutters. That a resync never falls behind an earlier one is the point of `recovering`: an
answer is old when it is stored, and a second recovery of the wallet could have stored a later one.

### MempoolBridge and Mailbox

Signals are numbered by the Brain's turns. A cell is a part of the payload that one access
copies, and holds the number of the signal that wrote it; an opportunity is the function
from cells to numbers that the hot loop copied. `send` writes the cells in any order
(`WriteCell`), then raises the flag (`RaiseFlag`, after the two `msync` and the fence); a
volatile market lowers it (`Withdraw`). The hot loop polls, copies cell by cell, sends,
clears; a turn that finds the flag down is `Spin`. The file outlives the processes: it may start with a flag left up, and the executor
does not clear it at its start. The Brain may die in the middle of `send`, the executor
anywhere, and the pipeline thread may end, after which `tx.send` fails and the executor
ends with the flag up. `published` and `announced` are history: the latest signal whose
`send` completed, and its value when the hot loop saw the flag.

The constant `Pace` says when the Brain may tick. The Brain sleeps 50 ms between ticks and
the hot loop spins, so normally the loop is back at its poll when a tick comes (`"idle"`).
`"down"` lets the Brain also tick while the executor is not running, `"any"` at any time.

`Mailbox` is what the two ends may rely on at pace `"idle"`: `Post`, `Withdraw`, `Take`,
`Deliver`. The refinement maps the slot to the published signal while the flag is up and
nobody copies, the hand to the announced signal while the loop copies or sends.

### Vault

The calls of `executeSwap` under way are a stack; a frame keeps the order, `amountIn`, the
balances before the transfer, and the `usedNonces` and history a revert brings back. Between
entering and settling, the router is free: it pays the vault, costs it tokens (a fee or a
rebase), calls back through a contract that is an executor (`Contracts`), or fails, and an
enclosing router may go on after a nested failure. A call refused by an early `require` changes
nothing and is no step. `Orders` is what the Brain signed; a signature is valid exactly for
these, `amountIn` is not part of it. The cold wallet acts between transactions. The vault
holds several tokens, and an order is of one of them. `executeSwap` reads, before and after the
router's call, the balance of its own token only: a swap of another token that the router nests in it
is not made good by the outer one's checks, and its cost comes on top. History: `settled`, and
`entitled`, what the owner's vault must still hold of each token: a swap that settles may cost its
`amountIn`, unless it is nested in a swap of the same token (`CoveredBelow`), which has to make it good.

`Ledger` has no calls: a transaction (`Transact`) settles a batch of orders that are all valid at its
time, of different nonces and none used before, marks exactly their nonces, and leaves of the last
order's token its `minOutput` and all but an `amountIn` the funds covered; or nothing happens. The last
order is the outermost swap; what the batch costs of other tokens the ledger does not bound, because the
contract's outermost call does not (`LossBounded` bounds it swap by swap). The refinement shows the ledger the vault as the
outermost call found it (`CommittedFunds`, `CommittedNonces`, `CommittedOrders`: the first frame of the
stack) until that call returns, so that entering a swap, all that happens below the first frame and
every revert are stutters, and the return of the first frame is the whole transaction at once.

### Watchdog

The unit of time is `CHECK_INTERVAL_S`: the daemon turns once it has slept a unit (`rested`), and
`TimePasses` may come at any moment, so that a turn is late by any amount, as under load. A turn
reads the byte and takes one of three branches (`SeesChange`, `SeesNoChange`, `ReadFails`), and one
in `PingEvery` turns goes on to `CheckAll`. `elapsed` is `time.monotonic() - _hb_time`, capped one
past the time-out. The executor (`ExecStarts`, `Beat`, `Stalls`, `Resumes`) moves freely between two
turns; its byte counts modulo `Width`. The emergency asks the exchanges one by one (`CancelNext`);
a cancel without a key does nothing, one that fails or times out returns like one that succeeds, and
nobody looks. The state `"waiting"` is the loop at watchdog.py:418, which ends by a second signal only.

`Trigger` has two outcomes: `emergency_stop` lowers the flag and the cancels begin, or its seek, write or
flush raises. watchdog.py:403 calls it outside of any `try`, so the exception leaves `run` and `main`,
and no exchange is asked (`"failed"`).

`GroupEnds` says how `check_all` ends. asyncio raises at line 278 (`"raises"`), so lines 279-283 and
366-377 are never reached as committed; `"read"` is the loop they were written for. `watchdog` checks the
daemon with both, since a loop that goes on past its first ping is the only one that can raise an alarm
later; `watchdog_stall` has what asyncio does. No property is about what `"read"` alone could show: that
an outage triggers the emergency is false of the committed code.

`emergency_stop`'s write to the flag is an action of `MempoolBridge`, enabled at any time: it shares no
other state with the daemon. History: `silence` and `lived` (the executor's last sign of life),
`wrapped` (a read found the same byte although the executor lived), `alarm`.

### KeyRing

The kernel holds the payloads of two keys, `kek` and `blob`; a second `add_key` of a description
replaces the payload and keeps the serial, so a handle is held or not (`kek_id`, `exec_id`). A KEK
is named by its passphrase (the salt is fixed), an executor key by the wallet it is the key of, and
`blob` is a wallet `under` a passphrase. The cipher authenticates: `_aes256gcm_decrypt` compares an
HMAC under a key derived from the KEK. `provision` is `Provision`, `AddKek`, `AddExec`, with
`ProvisionFails` between any two; `unlock` is `Search` (both searches, the first that fails ends
it), `ReadKek`, `ReadExec`; `invalidate` is `InvalidateKek`, `InvalidateExec`. History: `made`, the passphrase of each
wallet. Both processes are taken to share one session keyring, as they do when one shell starts both.

### Feeds and Brain

A worker stands in `"connect"`, `"stream"`, `"wait"` (a pause of 3 s) or `"ended"`. Each way an
attempt or a connection may end is an action: `Connects`, `ConnectFails` (the retry decorator's
NameError), `ConnectionLost` (the only one that counts), `Misreads`, `ClosedInOrder`, `NotJson`.
`Publishes` waits while the pipe is full. A message is a price or `Stale`: the age is computed in the
worker and sent, `median_price` compares that number, so which it is never changes after sending.
A listener moves the head of its pipe to `states`. `Median` is `statistics.median` of the usable
prices, doubled to stay an integer.

The window keeps returns as pairs of medians: two returns are equal when the ratios are. The members of
`Prices` stand for levels far apart, so `Volatile` is "two returns differ". `SpacingAssumption` says how
far: two returns of medians of such prices that differ, differ by 2 percent, which gives a window of 20 a
standard deviation of 43 bp or more, past the 22.5 bp that reach `SLIPPAGE_MAX_BPS`. Smaller moves are not
modelled. `flag` is what this Brain last wrote; the cells of the payload are `MempoolBridge`'s.

`run` is `Launch`, `Unlocks`, `Opened`, then `Turn` next to workers and listeners, until `Interrupted`; its
`finally` is `Terminates` per worker, `Closes`, `Forgets`, `Stopped`. `Dies` is a kill or an exception that
nothing catches, at any point, and skips what is left. The kernel's keys survive every end, nothing else
does. History: `medians` (of the last `Window + 1` turns).

## Runs

| Run | Configuration | Checks |
|---|---|---|
| `nonce_contention` | 1 wallet, 3 tasks, boot at nonce 0 or 1 | all safety of the nonce manager, the refinement of the allocator |
| `nonce_wallets` | 2 wallets, 2 tasks, 2 broadcasts each, fair | exclusiveness and gaps when the probe moves on; recoveries and tasks end |
| `bridge_paced` | 4 signals, Brain may die, fair, pace `"idle"` | the refinement of the mailbox, with its fairness |
| `bridge_outrun` | 3 signals, one death on each side, fair, pace `"any"` | nothing stale is copied, no executor stays up in front of a signal it does not deliver |
| `bridge_torn` (violated) | pace `"down"` | an opportunity is whole |
| `bridge_halt` (violated) | pace `"idle"` | the emergency stop stops the executor |
| `vault` | 4 orders of 3 nonces and 2 tokens, nesting 3, at most 2 of each token | a nonce pays once and is used by nothing else, bounded loss of each token, the refinement of the ledger |
| `watchdog` | a byte of 3 values, time-out 2, a ping every 2 turns, 2 exchanges, 1 key, both ends of `check_all`, fair | no false stall, no exchange left out, an emergency that lowered the flag ends, a watching loop catches a stall |
| `watchdog_stall` (violated) | time-out 3, `check_all` raises | a stalled executor leads to the emergency |
| `brain_keys` | 2 passphrases, 3 wallets, 1 exchange, fair | own wallet, workers settle |
| `brain_feeds` | 3 exchanges, 2 prices, window 3, warm-up 2, one message at a time under way | the flag is up only after a calm window; the median is within what the majority quotes |
| `brain_frozen` (violated) | 2 exchanges, 1 price, fair | dead feeds go silent |

**Why the bounds are enough.** Three tasks on one wallet give a task that allocates, one that
recovers and one that confirms at the same time, and a third that finds the wallet the first
two parked; `MaxRetries` is 1 in the safety run because a retry only repeats `Broadcast`, and
2 in `nonce_wallets`, which also asks for liveness. Two boot nonces let a failed boot recovery (nonce 0 against a count of 1)
meet a successful one. Two cells suffice to tear an opportunity, three signals to mix, lose or
repeat one, with the leftover of an earlier session as number 0. Three nested swaps have a frame that is
neither the first nor the last, which a revert may drop with what it called and leave its caller running; three
nonces fill them, and a fourth order shares the nonce of another. Three orders are of one token and one of
another, so that a swap nests in one of its own token, in one of the other, and with one of the other between.
`FlagDrains` accepts that the executor ends: it says that the loop does not go on beating in front of a dead
pipeline. The flag such an end leaves up is the start of `bridge_torn`.
`round_robin`, the nonces and `delivered` are bounded by the numbers of tasks and signals.
A heartbeat of three values wraps between two reads, as one of 256 does in 100 ms; a time-out of two units
with a ping every two turns puts a ping before, at and after the time-out; of two exchanges one has a key
and one has not, so that the round meets both in turn. Three wallets under two passphrases let a
provisioning be cut short between two that are whole, with a Brain that starts before, between and after them;
one exchange never gives a quorum, and so the keys are looked at without the market. Three exchanges are
the least of which two can outvote one, and their usable feeds may be odd or even in number; a window of three
with a warm-up of two has returns that enter, that count and that leave. `OneInFlight` lets
one message at a time be between a worker and its listener: the pipes of different exchanges share nothing,
so that a message which waits changes only the time of its arrival, which is free anyway. The reconnects
that count are in `brain_keys`. Everything else of `brain_keys`,
`brain_feeds` and `watchdog` is finite by itself. Runs of safety alone use the symmetry of tasks or
exchanges; those with liveness use none.

**Fairness.** `FairSpec` of `NonceManager`: weak fairness of each task and of the pipeline
thread. The runtime polls every runnable task, the `RwLock` is a fair queue, a relay call is cut
at 5 s. That a call to the node ends is an *assumption*: the client has no time-out, and without
it neither property holds. `FairSpec` of `MempoolBridge`: the hot loop owns an isolated core and
never blocks, `send` is straight code. `OperatedSpec` adds that somebody starts the executor;
only the refinement of the mailbox's fairness needs it. `FairSpec` of `Watchdog`: time passes, and the
daemon's sleeps, pings and cancels end (5 s and 10 s time-outs); nothing of the executor or the exchanges.
`FairSpec` of `Brain`: its main thread and its listeners run, and a worker's own attempt to connect ends
(`websockets.connect` has an open time-out) and its pause ends; that an exchange sends anything is not assumed. Nothing is assumed of the markets, the
relays, the watchdog, the node's count or the routers.

**What the violated runs show.**

* `bridge_torn`: `brain.py:689` promises that the executor does not see the flag before the data.
  `send` does not lower the flag first: a flag still up, or left up by an earlier session, lets an
  executor that starts copy half of two signals.
* `bridge_halt`: `watchdog.py:8`, `:164` and `:196` stop the executor with flag = 0. The executor skips
  one turn; the Brain raises the flag again 50 ms later.
* `watchdog_stall`: watchdog.py:7-8 promises the emergency at any failure. `check_all` reads
  `task.result()` inside the TaskGroup (278), before a ping has run: InvalidStateError ends the loop at its
  fifth turn, `main` logs it and returns. The stall that follows reaches nobody. With `"read"` the daemon
  has the promised behaviour, which `watchdog` shows.
* `brain_frozen`: brain.py:775 says that the Brain waits when there is not enough healthy data. `states` keeps
  the age a price had on arrival, so the last prices of dead feeds stay healthy, their median constant, its
  returns calm, and the flag goes up every 50 ms for as long as the Brain runs.

**Other differences between the code and its text**, which no run shows:

* nonce_manager.rs:130 takes an empty `in_flight` for "all transactions are confirmed or visible";
  `mark_confirmed` runs at a relay's 2xx, and a private bundle is neither.
* nonce_manager.rs:137-141 parks the wallet in case 3; the code does so only when the oldest nonce in flight
  is the chain's next one, and at a sighting more than 12 s after the previous one. Each earlier sighting
  restarts the 12 s, and the previous one may have been of another nonce.
* Vault.sol:271-273 excludes an underflow of `amountOut` by the honeypot guard, which compares with
  `minOutput` where the subtraction needs `balanceBefore - amountIn`. The transaction still reverts.
* Vault.sol:258-259 has the honeypot guard prevent "any loss". It compares one token's balance with `minOutput`:
  a swap may cost its `amountIn`, and nested swaps of other tokens theirs (`LossBounded`).
* watchdog.py:9 and :314 also announce a market close; only cancels are sent. watchdog.py:427 calls the
  handler a clean shutdown; the first signal sets a variable nobody reads. "tüm emirler iptal edildi"
  (watchdog.py:104) is logged whatever the exchange answered.
* watchdog.py:7-8 announces the cancels at any failure. They follow `emergency_stop` without a `try` (403):
  if its write raises, none is sent. The outage and latency branch (366-377) that they name is not
  reached (see `watchdog_stall`): an unreachable exchange triggers nothing.
* brain.py:324 and the README's steps provision once; `run` invalidates the keys at every clean stop (884), so
  that the next start finds none and needs a new provisioning, which makes a new wallet. KEYCTL_REVOKE is 3 in
  the kernel, 25 in brain.py:221.
* `zeroize(bytearray(x))` (brain.py:345 and on) clears a copy of `x`; `x` stays in memory.

## Proofs

| Theorem | States |
|---|---|
| `TypeCorrect`, `ExclusiveAlways`, `CaseTwoNeverAlways`, `NoGapAlways`, `DistinctAlways`, `ParkedOnAlways`, `DroppedAlways`, `ParkedForGoodAlways` | every safety property of `nonce_contention` that is about the state of `NonceManager`, for any number of wallets, tasks, retries and any boot nonces |
| `ManagerIsAllocator` | the nonce manager implements the allocator, for the same constants |
| `InOrderAlways` | the mailbox delivers whole signals, in order, none twice |
| `BridgeTyped`, `NothingStaleAlways` | at every pace, with any number of deaths |
| `WholeWhenKeepingUp`, `BridgeIsMailbox` | at pace `"idle"` with a living executor: opportunities are whole and the bridge implements the mailbox |
| `VaultTyped`, `OnceAlways`, `LossAlways`, `SpentAlways` | for any tokens, orders, amounts and depth of nesting |
| `VaultIsLedger` | the vault implements the ledger, for the same constants |
| `WatchdogTyped`, `EveryKeyAskedAlways`, `AlarmMeansSilenceAlways` | for any width of the heartbeat, time-out, exchanges, keys and ends of `check_all` |
| `MajorityAlways` | for any finite set of exchanges and any prices |
| `BrainTyped`, `ServesOwnWalletAlways`, `CalmBeforeSignalAlways` | for any passphrases, number of wallets, exchanges, prices, window, warm-up and pipe |

*Nonce manager.* The constants are assumed as the modules' ASSUMEs say: at least one wallet, a
pipeline thread that is no task, at least one broadcast, natural boot nonces. The properties are not
inductive by themselves. `IInv` adds: who holds the write guard (`GuardHeld`: without it an insert
could slip between `retain` and the store); that what is in flight or about to be inserted is at most
`max_sent` (`SentBelowMax`, for `CaseTwoNever`); that the answer a recovery works with is a count the
node has reached (`AnswerReached`: a stale answer is too low, never too high, which is what makes a
rewind free of gaps and a `retain` safe); that the holders in `fresh` have nonces below the counter
(`FreshHolders`, for `DistinctSinceResync`); that a confirmed verdict rests on an old sighting and a
confirmation on an acknowledgement; that a process about to park a wallet has the count it judged by in
flight, and has stored it (`ParkingInFlight`, where the write guard keeps a confirmation from coming between).
`DroppedIsSettled`, `ParkedOnInFlight` and `ParkedForGood` are action properties proved from `IInv`, one
step per action.

*Allocator.* Two more invariants carry the refinement. `AnswerInv`: the count of the last resync is one
the chain has reached, and the answer a recovery holds is not below it; inductive only together with
`RecoveryExclusive` (a second recovery of the wallet would resync between the call and the store) and
`AnswerReached`. `IssuedInv`: what a relay holds, and what a task between its `fetch_add` and its
broadcasts carries, was handed out; so the chain advances through handed-out nonces. `FreshHolders` says
that a task at its `fetch_add` holds nothing yet, so that no ticket of another epoch changes. `HandStep`,
`ResyncStep` and `QuietStep` are the three ways a step of the code appears outside.

*Bridge.* `GInv` orders the numbers: the cells not yet rewritten hold at least the published signal, the
cells copied at least the announced one. `PInv`, for a hot loop that keeps up, adds that Brain and loop
take turns: while the loop copies or sends, nobody writes, and the cells are all the announced signal.
The refinement then maps each step to a step of the mailbox or a stutter.

*Vault.* `NonceInv` speaks of each frame, because a revert brings the frame's past back: its nonce is
in `usedNonces`, in none of the swaps settled, and in what every deeper frame would restore. `EntryInv`:
a swap that no swap of its token encloses started with at least what the owner is entitled
to of it, and that entitlement stands still until it returns.
For the ledger, `SpentInv` says of every frame, and of the present, that the used nonces are those of the
orders settled and of the frames entered so far: neither half survives a revert alone, as it brings back both.
`GrowInv` says that from the entry of the outermost call on, the settled orders only grow, and that those it
added, and the orders of all frames under way, have a deadline and a router that still hold at its return, because
neither the time, nor the routers, nor the breaker can change while a call is under way. From the
two, the return of the first frame is a `Transact`, whatever was nested and undone in between.

*Watchdog.* The assumptions: a byte of at least one value, a ping every positive number of turns, keys among the
exchanges. `WInv` adds to the types that the clock the daemon goes by never runs ahead of the
executor's silence, except after a wrap or a sign of life it has not read yet (`ClockFollows`), and that during the round of cancels exactly the
keys of the exchanges passed have been used (`RoundFollows`). `AlarmMeansSilence` is an action property from it.

*Median.* `Kth(k)` is the set of prices with fewer than `k` usable prices below and at least `k` at or below.
`KthExists` takes the least price with `k` at or below it, `KthUnique` compares two candidates by what lies
below the larger; both need that the set of exchanges is finite (`ExchangesAssumption`), nothing else.
`MedianIsOne` is why `Turn` has one outcome.
`MiddleWithin`: the feeds of a majority that lies in `lo..hi` are too many to be all below, or all above, a
middle price, so each of the two middle prices, and their mean, is between `lo` and `hi`.

*Brain.* The assumptions: positive prices, at least one reconnect and room for a message in a pipe, a warm-up of at
least two returns within the window, a `NoPass` that is no passphrase; `SpacingAssumption` ties `Volatile` to
the code's threshold, and no proof cites it. `RingInv` says what the two keys may be at any time: the blob names a wallet that was generated, under
the passphrase of that wallet (`Recorded`); a Brain past its unlock has the address of a
wallet generated under the passphrase typed (`Unlocked`), whatever the kernel holds by now. `Tracks`, for the flag: the window is the sequence of
the last medians' neighbours, whichever of the two buffers has begun to drop its oldest entry.

Every safety invariant and action property of the passing runs is proved, and so are the three refinements, that
of the mailbox without its fairness. Only model-checked: what needs fairness and ENABLED (`RecoveryEnds`, `TaskEnds`, `FlagDrains`,
`DeliversFairly`, `EmergencyCompletes`, `StallCaught`, `FeedSettles`).

## Not modelled

`PROJECT.json` lists every component with its status, and the hazards no property covers. In short:

* **Broadcaster.** One nondeterministic step of `NonceManager`: it keeps no state, and all its caller sees is
  whether some answer was a 2xx.
* **A crash of the executor.** It loses all of the nonce manager's memory, and the code has no recovery but
  the boot loop, which `NonceManager` starts with; what relays do with older bundles is theirs.
* **Encoding and signing.** ABI, RLP, ECDSA and the payload's layout are functions of bytes. By reading: the
  two dynamic offsets of main.rs:130 count the selector, and `min_output` is little-endian in the file
  (brain.py:703) and copied as it stands into a big-endian word.
* **The swap nonce and the Vault composed.** The calldata's empty signature is refused before the nonce matters.
* **`fetch_and_zeroize`, `_sign_with_keyring`, frequencies, baselines, the wallet blocklist.** Nothing calls
  the first two, nothing reads the next two, nothing fills the last.
* **Workers of a killed Brain.** Each waits in `conn.send` for ever, on a pipe no later Brain reads.
* **A watchdog that starts before the executor** is `StartFails`, without a restart; what systemd does about
  it is outside of the code.
* **Scripts and loggers.** Straight-line I/O without state of the program.

## What is left

A crash and restart of the executor in `NonceManager`, with bundles that relays still hold; wallets, chain and
Vault composed, once the calldata carries a signature; the single relays of the broadcaster with the fan-out
of `NonceManager` as its abstract specification.
