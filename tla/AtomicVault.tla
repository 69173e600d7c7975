---------------------------- MODULE AtomicVault ----------------------------
(***************************************************************************)
(* What the Vault promises its users, with no processes, locks or files:   *)
(* a store that only ever changes by one whole command applied to its      *)
(* latest contents, and that a power loss can only take back to the last   *)
(* generation that was made durable.                                       *)
(***************************************************************************)
EXTENDS VaultEntries

CONSTANTS
    Offered,    \* the commands in use
    NoVault     \* no Vault file

VARIABLES
    store,      \* the generation a reader sees
    durable     \* the generation a power loss leaves

Init ==
    /\ store = NoVault
    /\ durable = NoVault

\* cpass init.
Create ==
    /\ store = NoVault
    /\ store' # NoVault
    /\ \E k \in Keys : store' = Envelope0(store'.nonce, k)
    /\ UNCHANGED durable

\* A write command takes effect, all at once, on what is stored now.
Commit(c) ==
    /\ store # NoVault
    /\ store' # NoVault
    /\ store'.nonce > store.nonce
    /\ \E e \in Edits(c, store.entries) :
          store' = Sealed(store, c, e, store'.nonce)
    /\ UNCHANGED durable

\* The current generation survives a power loss from now on.
Persist ==
    /\ durable' = store
    /\ UNCHANGED store

\* The power fails.
PowerLoss ==
    /\ store' = durable
    /\ UNCHANGED durable

Next ==
    \/ Create
    \/ \E c \in Offered : Commit(c)
    \/ Persist
    \/ PowerLoss

Spec == Init /\ [][Next]_<<store, durable>>
=============================================================================
