------------------------------- MODULE MCVault -------------------------------
(***************************************************************************)
(* A small instance of Vault for TLC: two orders that share a nonce, one   *)
(* of them expires, and two with nonces of their own.  Three are of one    *)
(* token and one of the other, so that swaps nest in swaps of the same and *)
(* of the other token, and one can stand between two of the same.          *)
(***************************************************************************)
EXTENDS Vault

MCOrders ==
    {[token |-> "usd", minOutput |-> 0, nonce |-> 1, deadline |-> 1, router |-> "dex"],
     [token |-> "usd", minOutput |-> 2, nonce |-> 1, deadline |-> 0, router |-> "dex"],
     [token |-> "eth", minOutput |-> 1, nonce |-> 2, deadline |-> 1, router |-> "dex"],
     [token |-> "usd", minOutput |-> 0, nonce |-> 3, deadline |-> 1, router |-> "dex"]}
=============================================================================
