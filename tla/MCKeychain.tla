----------------------------- MODULE MCKeychain -----------------------------
(***************************************************************************)
(* keychain upgrade --touch-id by a Touch ID build that nobody signed, for *)
(* a Vault whose key is in the Keychain.                                   *)
(***************************************************************************)
EXTENDS Keychain

CONSTANTS p1

UnsignedUpgrade == [p \in Procs |-> {[cmd |-> "upgrade", touchID |-> TRUE, build |-> "touchid",
                                     given |-> NoItem]}]

Existing == {[vault |-> 1, item |-> 1]}
=============================================================================
