---------------------------- MODULE MempoolBridge ----------------------------
(***************************************************************************)
(* The shared cache line /dev/shm/mempool_bridge.bin and its three users:  *)
(* the Brain writes a signal and raises the flag (MmapWriter.send and the  *)
(* consensus loop of src/brain/brain.py), the hot loop of src/src/main.rs  *)
(* copies it and lowers the flag, the watchdog lowers the flag once        *)
(* (emergency_stop of src/watchdog/watchdog.py).  None of them takes a     *)
(* lock.  The file outlives the processes.                                 *)
(*                                                                         *)
(* Signals are numbered, and a cell (a part of the payload that one access *)
(* copies) holds the number of the signal that wrote it: what the          *)
(* properties need of an opportunity is which signals it is made of.       *)
(***************************************************************************)
EXTENDS Integers, Sequences

CONSTANTS
    Cells,          \* the parts of the payload, bytes 0..51
    MaxSignals,     \* bound on the signals the Brain sends
    MaxExecDeaths,  \* bound on the deaths of the executor
    MaxBrainDeaths, \* bound on the deaths of the Brain
    Pace            \* when the Brain ticks (every 50 ms, the hot loop spins):
                    \* "idle": while the executor is up and done with the last signal
                    \* "down": also while the executor is down
                    \* "any" : also while the executor is held up

ASSUME CellsAssumption  == Cells # {}
ASSUME BoundsAssumption == MaxSignals \in Nat /\ MaxExecDeaths \in Nat /\ MaxBrainDeaths \in Nat
ASSUME PaceAssumption   == Pace \in {"idle", "down", "any"}

VARIABLES
    \* the file
    cell,           \* signal that last wrote each cell
    flag,           \* byte 63
    \* the Brain
    brain,          \* "tick" or "send"
    signal,         \* number of the latest signal
    todo,           \* cells send() has still to write
    published,      \* latest signal whose send() raised the flag
    brain_deaths,
    \* the executor
    exec,           \* "down", "poll", "copy", "send", "clear"
    copied,         \* the Opportunity being built
    tocopy,
    announced,      \* value of published when the flag was seen up
    rx_open,        \* the pipeline still receives
    exec_deaths,
    delivered,      \* opportunities sent to the pipeline, over all lives
    \* the watchdog
    halted          \* emergency_stop has run

brain_vars == <<brain, signal, todo, published, brain_deaths>>
exec_vars  == <<exec, copied, tocopy, announced, rx_open, exec_deaths, delivered>>
vars == <<cell, flag, brain_vars, exec_vars, halted>>

\* A file left by an earlier session may have its flag up, signal 0 in it.
Init ==
    /\ cell = [c \in Cells |-> 0]
    /\ flag \in {0, 1}
    /\ brain = "tick"
    /\ signal = 0
    /\ todo = {}
    /\ published = 0
    /\ brain_deaths = 0
    /\ exec = "down"
    /\ copied = [c \in Cells |-> 0]
    /\ tocopy = {}
    /\ announced = 0
    /\ rx_open = FALSE
    /\ exec_deaths = 0
    /\ delivered = <<>>
    /\ halted = FALSE

-----------------------------------------------------------------------------
(* The Brain: one turn of consensus_loop every 50 ms *)

MayTick ==
    \/ exec = "poll" /\ flag = 0
    \/ exec = "down" /\ Pace # "idle"
    \/ Pace = "any"

\* Calm market: send() starts on the next signal.
StartSend ==
    /\ brain = "tick"
    /\ MayTick
    /\ signal < MaxSignals
    /\ signal' = signal + 1
    /\ todo' = Cells
    /\ brain' = "send"
    /\ UNCHANGED <<cell, flag, published, brain_deaths, exec_vars, halted>>

\* Volatile market: write_flag(0).
Withdraw ==
    /\ brain = "tick"
    /\ MayTick
    /\ flag = 1
    /\ flag' = 0
    /\ UNCHANGED <<cell, brain_vars, exec_vars, halted>>

\* The payload goes first, in whatever order the copy takes.
WriteCell(c) ==
    /\ brain = "send"
    /\ c \in todo
    /\ cell' = [cell EXCEPT ![c] = signal]
    /\ todo' = todo \ {c}
    /\ UNCHANGED <<flag, brain, signal, published, brain_deaths, exec_vars, halted>>

\* Mutant: a flag that does not wait for the payload.
PayloadSkipped == TRUE

\* The two msync and the fence: the flag waits for the payload.
PayloadDone == todo = {}

\* Mutant: the character 1 for the byte 1.
FlagAscii == 49
FlagUp    == 1

RaiseFlag ==
    /\ brain = "send"
    /\ PayloadDone
    /\ flag' = FlagUp
    /\ published' = signal
    /\ brain' = "tick"
    /\ UNCHANGED <<cell, signal, todo, brain_deaths, exec_vars, halted>>

\* The Brain dies, in the middle of send() perhaps, and is started again.
BrainDies ==
    /\ brain_deaths < MaxBrainDeaths
    /\ brain_deaths' = brain_deaths + 1
    /\ brain' = "tick"
    /\ todo' = {}
    /\ UNCHANGED <<cell, flag, signal, published, exec_vars, halted>>

-----------------------------------------------------------------------------
(* The executor: the hot loop of main() *)

\* main() maps the file and zeroes the heartbeat, not the flag.
ExecStart ==
    /\ exec = "down"
    /\ exec' = "poll"
    /\ rx_open' = TRUE
    /\ UNCHANGED <<cell, flag, brain_vars, copied, tocopy, announced, exec_deaths,
                   delivered, halted>>

\* Mutant: the hot loop waits for the character 1 where the Brain writes the byte.
FlagSeenAscii == flag = FlagAscii
FlagSeen      == flag # 0

\* read_volatile(flag_read) != 0
Poll ==
    /\ exec = "poll"
    /\ FlagSeen
    /\ exec' = "copy"
    /\ tocopy' = Cells
    /\ announced' = published
    /\ UNCHANGED <<cell, flag, brain_vars, copied, rx_open, exec_deaths, delivered, halted>>

\* A turn of the hot loop that finds the flag down
Spin ==
    /\ exec = "poll"
    /\ ~FlagSeen
    /\ UNCHANGED vars

\* Opportunity::from_mmap, from the live mapping
CopyCell(c) ==
    /\ exec = "copy"
    /\ c \in tocopy
    /\ copied' = [copied EXCEPT ![c] = cell[c]]
    /\ tocopy' = tocopy \ {c}
    /\ exec' = IF tocopy' = {} THEN "send" ELSE "copy"
    /\ UNCHANGED <<cell, flag, brain_vars, announced, rx_open, exec_deaths, delivered, halted>>

Send ==
    /\ exec = "send"
    /\ rx_open
    /\ delivered' = Append(delivered, copied)
    /\ exec' = "clear"
    /\ UNCHANGED <<cell, flag, brain_vars, copied, tocopy, announced, rx_open, exec_deaths, halted>>

\* Mutant: the loop goes on, and its heartbeat hides that nothing is delivered.
AfterFailedSendOn == "poll"
AfterFailedSend   == "down"

\* tx.send fails: the loop breaks and main returns, the flag still up.
SendFails ==
    /\ exec = "send"
    /\ ~rx_open
    /\ exec' = AfterFailedSend
    /\ UNCHANGED <<cell, flag, brain_vars, copied, tocopy, announced, rx_open, exec_deaths,
                   delivered, halted>>

\* Mutant: the flag is not lowered after the send.
FlagKept    == flag
FlagLowered == 0

\* write_volatile(flag_write, 0)
Clear ==
    /\ exec = "clear"
    /\ flag' = FlagLowered
    /\ exec' = "poll"
    /\ UNCHANGED <<cell, brain_vars, copied, tocopy, announced, rx_open, exec_deaths,
                   delivered, halted>>

\* The pipeline thread ends (a panic in the runtime) and drops its receiver.
PipelineDies ==
    /\ exec # "down"
    /\ rx_open
    /\ exec_deaths < MaxExecDeaths
    /\ exec_deaths' = exec_deaths + 1
    /\ rx_open' = FALSE
    /\ UNCHANGED <<cell, flag, brain_vars, exec, copied, tocopy, announced, delivered, halted>>

ExecDies ==
    /\ exec # "down"
    /\ exec_deaths < MaxExecDeaths
    /\ exec_deaths' = exec_deaths + 1
    /\ exec' = "down"
    /\ UNCHANGED <<cell, flag, brain_vars, copied, tocopy, announced, rx_open, delivered, halted>>

-----------------------------------------------------------------------------
(* The watchdog *)

\* emergency_stop: one flag = 0, and nothing else reaches the executor.
EmergencyStop ==
    /\ ~halted
    /\ halted' = TRUE
    /\ flag' = 0
    /\ UNCHANGED <<cell, brain_vars, exec_vars>>

-----------------------------------------------------------------------------
BrainSends == RaiseFlag \/ \E c \in Cells : WriteCell(c)
HotLoop    == Poll \/ Send \/ SendFails \/ Clear \/ \E c \in Cells : CopyCell(c)

Next ==
    \/ StartSend \/ Withdraw \/ BrainSends \/ BrainDies
    \/ ExecStart \/ Spin \/ HotLoop \/ PipelineDies \/ ExecDies
    \/ EmergencyStop

Spec == Init /\ [][Next]_vars

\* The hot loop owns an isolated core and never blocks; send() is straight code.
\* That anybody starts the executor again is not assumed.
FairSpec == Spec /\ WF_vars(HotLoop) /\ WF_vars(BrainSends)

\* The operator does start the executor.
OperatedSpec == FairSpec /\ WF_vars(ExecStart)

-----------------------------------------------------------------------------
(* Properties *)

\* Every field has its type; the flag is a bit and an opportunity a function.
TypeOK ==
    /\ cell \in [Cells -> 0..MaxSignals]
    /\ flag \in {0, 1}
    /\ brain \in {"tick", "send"}
    /\ signal \in 0..MaxSignals
    /\ todo \subseteq Cells
    /\ published \in 0..MaxSignals
    /\ brain_deaths \in 0..MaxBrainDeaths
    /\ exec \in {"down", "poll", "copy", "send", "clear"}
    /\ copied \in [Cells -> 0..MaxSignals]
    /\ tocopy \subseteq Cells
    /\ announced \in 0..MaxSignals
    /\ rx_open \in BOOLEAN
    /\ exec_deaths \in 0..MaxExecDeaths
    /\ delivered \in Seq([Cells -> 0..MaxSignals])
    /\ halted \in BOOLEAN

\* No opportunity mixes two signals (a token of one, the floor of another).
OpportunitiesAreWhole ==
    \A i \in DOMAIN delivered : \A c, d \in Cells : delivered[i][c] = delivered[i][d]

\* Nothing the executor copies is older than the signal the flag announced to
\* it: the payload is in place before the flag goes up.
NothingStale ==
    exec \in {"copy", "send"} =>
        \A c \in Cells \ tocopy : copied[c] >= announced

\* No executor stays up, its heartbeat going, in front of a signal it does not
\* deliver: the flag comes down, or the executor ends, as it does when its
\* pipeline is dead.  What becomes of a flag it leaves up is not said here.
FlagDrains == flag = 1 ~> (flag = 0 \/ exec = "down")

\* When the hot loop keeps up and does not die, the bridge is a mailbox: what it
\* delivers is whole, in the order of sending and at most once.
MB == INSTANCE Mailbox WITH
          posted <- published,
          slot   <- IF flag = 1 /\ exec \in {"down", "poll"} THEN published ELSE -1,
          hand   <- IF exec \in {"copy", "send"} THEN announced ELSE -1

ImplementsMailbox == MB!Spec

\* Under an operator who starts the executor, it is a mailbox that is emptied:
\* what waits in the slot is taken or withdrawn, what is taken is delivered.
DeliversFairly == MB!FairSpec

\* As watchdog.py:8 and :196 have it, flag = 0 stops the executor: nothing is
\* handed to the pipeline by a loop turn that began after the emergency stop.
EmergencyStops == [][halted /\ exec = "poll" => exec' # "copy"]_vars
=============================================================================
