------------------------------- MODULE KeyRing -------------------------------
(***************************************************************************)
(* ExecutorKeyRing of src/brain/brain.py: the operator's provisioning and  *)
(* the Brain's unlock and invalidate, two processes that share the session *)
(* keyring of the kernel.                                                  *)
(*                                                                         *)
(* A KEK is derived from its passphrase with a fixed salt, so it is named  *)
(* by it.  An executor key is the wallet it is the key of, numbered in the *)
(* order of generation.  The cipher authenticates: what was encrypted      *)
(* under one KEK is refused under another.                                 *)
(***************************************************************************)
EXTENDS Integers

CONSTANTS
    Passphrases,
    NoPass,         \* no passphrase, no KEK
    MaxProvisions,  \* bound on the wallets generated
    SearchEnds      \* how _search_key may end: "raises", since ctypes refuses a
                    \* description where keyctl is declared with a c_int; "finds",
                    \* what the code goes on from

ASSUME PassAssumption      == NoPass \notin Passphrases
ASSUME ProvisionAssumption == MaxProvisions \in Nat
ASSUME SearchAssumption    == SearchEnds \subseteq {"raises", "finds"}

WalletIds == 1..MaxProvisions
NoBlob    == [wallet |-> 0, under |-> NoPass]

VARIABLES
    \* the kernel's keyring
    kek,            \* payload of "mev-kek"
    blob,           \* payload of "mev-executor-key"
    \* --provision-executor
    prov,           \* "idle", "add_kek", "add_exec"
    generated,      \* wallets generated; the latest is the one being provisioned
    made,           \* history: the passphrase each wallet was generated under
    \* the Brain's ExecutorKeyRing
    unlock,         \* "none", "search", "read_kek", "read_exec", "ready", "failed"
    typed,
    kek_id,         \* the handles: held or None
    exec_id,
    addr            \* wallet of the cached address, 0 before

kernel_vars == <<kek, blob>>
prov_vars   == <<prov, generated, made>>
handle_vars == <<kek_id, exec_id, addr>>
ring_vars   == <<kernel_vars, prov_vars, unlock, typed, handle_vars>>

RingInit ==
    /\ kek = NoPass
    /\ blob = NoBlob
    /\ prov = "idle"
    /\ generated = 0
    /\ made = [w \in WalletIds |-> NoPass]
    /\ unlock = "none"
    /\ typed = NoPass
    /\ kek_id = FALSE
    /\ exec_id = FALSE
    /\ addr = 0

-----------------------------------------------------------------------------
(* provision() *)

\* A new wallet is generated and encrypted; the round trip holds by the cipher.
Provision(p) ==
    /\ prov = "idle"
    /\ generated < MaxProvisions
    /\ generated' = generated + 1
    /\ made' = [made EXCEPT ![generated + 1] = p]
    /\ prov' = "add_kek"
    /\ UNCHANGED <<kernel_vars, unlock, typed, handle_vars>>

\* add_key replaces the payload of a key that exists.
AddKek ==
    /\ prov = "add_kek"
    /\ kek' = made[generated]
    /\ prov' = "add_exec"
    /\ UNCHANGED <<blob, generated, made, unlock, typed, handle_vars>>

AddExec ==
    /\ prov = "add_exec"
    /\ blob' = [wallet |-> generated, under |-> made[generated]]
    /\ prov' = "idle"
    /\ UNCHANGED <<kek, generated, made, unlock, typed, handle_vars>>

\* An add_key fails, or the process is killed.  When it is the second, the KEK is
\* to be revoked; operation 25 of the kernel is not KEYCTL_REVOKE, and it stays.
ProvisionFails ==
    /\ prov # "idle"
    /\ prov' = "idle"
    /\ UNCHANGED <<kernel_vars, generated, made, unlock, typed, handle_vars>>

-----------------------------------------------------------------------------
(* unlock() *)

Search ==
    /\ unlock = "search"
    /\ \E end \in SearchEnds :
          LET found == end = "finds" /\ kek # NoPass
              both  == found /\ blob # NoBlob
          IN  /\ kek_id' = found
              /\ exec_id' = both
              /\ unlock' = IF both THEN "read_kek" ELSE "failed"
    /\ UNCHANGED <<kernel_vars, prov_vars, typed, addr>>

\* _read_key and compare_digest with the KEK derived from what was typed
ReadKek ==
    /\ unlock = "read_kek"
    /\ unlock' = IF kek = typed THEN "read_exec" ELSE "failed"
    /\ UNCHANGED <<kernel_vars, prov_vars, typed, handle_vars>>

\* Mutant: a cipher that does not authenticate.
Unauthenticated == TRUE
Authenticated   == blob.under = typed

ReadExec ==
    /\ unlock = "read_exec"
    /\ IF blob # NoBlob /\ Authenticated
       THEN addr' = blob.wallet /\ unlock' = "ready"
       ELSE addr' = addr /\ unlock' = "failed"
    /\ UNCHANGED <<kernel_vars, prov_vars, typed, kek_id, exec_id>>

-----------------------------------------------------------------------------
(* invalidate(): the keys leave the kernel, not only the Brain *)

InvalidateKek ==
    /\ kek_id
    /\ kek' = NoPass
    /\ kek_id' = FALSE
    /\ UNCHANGED <<blob, prov_vars, unlock, typed, exec_id, addr>>

InvalidateExec ==
    /\ ~kek_id
    /\ exec_id
    /\ blob' = NoBlob
    /\ exec_id' = FALSE
    /\ UNCHANGED <<kek, prov_vars, unlock, typed, kek_id, addr>>

-----------------------------------------------------------------------------
Operator == AddKek \/ AddExec \/ ProvisionFails \/ \E p \in Passphrases : Provision(p)

Unlocking == Search \/ ReadKek \/ ReadExec

RingTypeOK ==
    /\ kek \in Passphrases \cup {NoPass}
    /\ blob \in [wallet : 0..MaxProvisions, under : Passphrases \cup {NoPass}]
    /\ prov \in {"idle", "add_kek", "add_exec"}
    /\ generated \in 0..MaxProvisions
    /\ made \in [WalletIds -> Passphrases \cup {NoPass}]
    /\ unlock \in {"none", "search", "read_kek", "read_exec", "ready", "failed"}
    /\ typed \in Passphrases \cup {NoPass}
    /\ kek_id \in BOOLEAN
    /\ exec_id \in BOOLEAN
    /\ addr \in 0..MaxProvisions
=============================================================================
