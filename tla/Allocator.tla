------------------------------ MODULE Allocator ------------------------------
(***************************************************************************)
(* What NonceManager of src/src/nonce_manager.rs promises its callers: a   *)
(* counter per wallet that is handed out one nonce at a time, and that     *)
(* falls back, at any time, to a count of the chain.  No probing, no locks,*)
(* no answer under way: every step is atomic.                              *)
(***************************************************************************)
EXTENDS Integers

CONSTANTS
    Wallets,
    Clients,        \* the opportunities that ask for a nonce
    StartNonces     \* counts the chain may start from

VARIABLES
    next,           \* next nonce of a wallet
    chain,          \* transactions of a wallet the chain counts
    floor,          \* the count of the wallet's last resync
    used,           \* <<wallet, nonce>> handed out so far
    held,           \* <<client, nonce>> handed out since the last resync
    served          \* clients that have their nonce

vars == <<next, chain, floor, used, held, served>>

Init ==
    /\ next = [w \in Wallets |-> 0]
    /\ chain \in [Wallets -> StartNonces]
    /\ floor = [w \in Wallets |-> 0]
    /\ used = {}
    /\ held = [w \in Wallets |-> {}]
    /\ served = {}

\* A client gets one nonce of one wallet, and never a second.
Hand(c, w) ==
    /\ c \notin served
    /\ served' = served \cup {c}
    /\ next' = [next EXCEPT ![w] = @ + 1]
    /\ used' = used \cup {<<w, next[w]>>}
    /\ held' = [held EXCEPT ![w] = @ \cup {<<c, next[w]>>}]
    /\ UNCHANGED <<chain, floor>>

\* A count the chain had since the wallet's last resync
Resync(w) ==
    /\ \E n \in floor[w]..chain[w] :
          /\ next' = [next EXCEPT ![w] = n]
          /\ floor' = [floor EXCEPT ![w] = n]
    /\ held' = [held EXCEPT ![w] = {}]
    /\ UNCHANGED <<chain, used, served>>

\* Only a nonce that was handed out advances the chain.
Mine(w) ==
    /\ <<w, chain[w]>> \in used
    /\ chain' = [chain EXCEPT ![w] = @ + 1]
    /\ UNCHANGED <<next, floor, used, held, served>>

Next ==
    \E w \in Wallets : Resync(w) \/ Mine(w) \/ \E c \in Clients : Hand(c, w)

Spec == Init /\ [][Next]_vars
=============================================================================
