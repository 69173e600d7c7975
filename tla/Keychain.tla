------------------------------ MODULE Keychain ------------------------------
(***************************************************************************)
(* The macOS unlock source: cpass init and cpass keychain upgrade storing  *)
(* the unlock key in the Keychain item every other command reads it from   *)
(* (broker/keychain_darwin.go, broker/touchid_darwin.go).  A command may   *)
(* also be given its key, by CPASS_KEY or, under CPASS_UNLOCK=socket, by   *)
(* the Broker: UnlockKey takes that one instead of the item's.             *)
(*                                                                         *)
(* A key is the number of the rand.Read that made it, or comes from        *)
(* elsewhere.  vault.Create is one step, as VaultStore is shown to be;     *)
(* nothing here rewraps a Vault.                                           *)
(***************************************************************************)
EXTENDS Naturals

CONSTANTS
    Procs,     \* cpass processes
    Offered,   \* the jobs each of them may run
    Starts,    \* the Vault and the item to start from
    MaxKeys,   \* bound: keys generated in one behaviour
    Others,    \* keys that CPASS_KEY or the Broker may have
    NoItem,    \* the Keychain has no item for this Vault
    NoVault    \* there is no vault.cpv

Random == 1 .. MaxKeys
Keys == Random \cup Others

\* A "touchid" build links the Security framework; a "signed" one may also create
\* an item with an access control.
Builds == {"plain", "touchid", "signed"}

\* `given` is what CPASS_KEY or the Broker would answer, if either is asked.
Job == [cmd : {"init", "upgrade"}, touchID : BOOLEAN, build : Builds,
        given : Keys \cup {NoItem}]

\* What the constants have to be.
ConstantsFit ==
    /\ MaxKeys \in Nat
    /\ NoItem \notin Keys /\ NoVault \notin Keys /\ Others \cap Nat = {}
    /\ Offered \in [Procs -> SUBSET Job]
    /\ Starts \subseteq [vault : Keys \cup {NoVault}, item : Keys \cup {NoItem}]
    /\ \A s \in Starts : s.vault # NoVault => s.item = s.vault

VARIABLES
    item,    \* the key in the Keychain item
    vault,   \* the key vault.cpv is wrapped under
    made,    \* how many keys there are
    pc,      \* how far each process has come
    job,     \* what it runs
    key,     \* the key it found or made
    found,   \* history: the item as it began
    result,  \* how its last command ended
    pulled,  \* history: an item was deleted for a new one that is not there yet
    apart,   \* history: the processes whose key is not one an item opens a Vault with
    foreign  \* history: the item or the Vault was last written by one of them

vars == <<item, vault, made, pc, job, key, found, result, pulled, apart, foreign>>

AnyJob == CHOOSE j \in Job : TRUE

TypeOK ==
    /\ item \in Keys \cup {NoItem}
    /\ vault \in Keys \cup {NoVault}
    /\ made \in 0 .. MaxKeys
    /\ pc \in [Procs -> {"idle", "find", "pull", "put", "store", "create"}]
    /\ job \in [Procs -> Job]
    /\ key \in [Procs -> Keys \cup {NoItem}]
    /\ found \in [Procs -> Keys \cup {NoItem}]
    /\ result \in [Procs -> {"none", "ok", "failed", "killed"}]
    /\ pulled \in BOOLEAN /\ foreign \in BOOLEAN
    /\ apart \subseteq Procs

Init ==
    /\ \E s \in Starts : item = s.item /\ vault = s.vault
    /\ made = IF {item, vault} \cap Random = {} THEN 0 ELSE 1
    /\ pc = [p \in Procs |-> "idle"]
    /\ job = [p \in Procs |-> AnyJob]
    /\ key = [p \in Procs |-> NoItem]
    /\ found = [p \in Procs |-> NoItem]
    /\ result = [p \in Procs |-> "none"]
    /\ pulled = FALSE /\ foreign = FALSE
    /\ apart = {}

-----------------------------------------------------------------------------
Goto(p, place) == pc' = [pc EXCEPT ![p] = place]

End(p, how) ==
    /\ Goto(p, "idle")
    /\ result' = [result EXCEPT ![p] = how]
    /\ key' = [key EXCEPT ![p] = NoItem]
    /\ job' = [job EXCEPT ![p] = AnyJob]
    /\ found' = [found EXCEPT ![p] = NoItem]
    /\ apart' = apart \ {p}
    /\ UNCHANGED made

Fails(p, how) == End(p, how) /\ UNCHANGED <<item, vault, pulled, foreign>>

\* TouchIDAvailable.
Available(p) == job[p].build # "plain"

\* init has seen no Vault; upgrade does not look for one.
Begin(p) ==
    /\ pc[p] = "idle"
    /\ \E j \in Offered[p] :
          /\ j.cmd = "init" => vault = NoVault
          /\ job' = [job EXCEPT ![p] = j]
    /\ found' = [found EXCEPT ![p] = item]
    /\ result' = [result EXCEPT ![p] = "none"]
    /\ Goto(p, "find")
    /\ UNCHANGED <<item, vault, made, key, pulled, apart, foreign>>

\* cmdKeychainUpgrade refuses before it asks for the key.
Refuse(p) ==
    /\ pc[p] = "find"
    /\ job[p].cmd = "upgrade" /\ ~Available(p)
    /\ Fails(p, "failed")

\* What UnlockKey returns when it returns a key: the one given, or keychainGet's.
Unlocks(p) == IF job[p].given # NoItem THEN job[p].given ELSE item

\* init creates the Vault under whatever key there is, be it the one that an
\* earlier, interrupted init left in the Keychain, and stores it nowhere.
Find(p) ==
    /\ pc[p] = "find"
    /\ job[p].cmd = "upgrade" => Available(p)
    /\ Unlocks(p) # NoItem
    /\ key' = [key EXCEPT ![p] = Unlocks(p)]
    /\ Goto(p, IF job[p].cmd = "init" THEN "create" ELSE "pull")
    /\ apart' = IF job[p].given # NoItem \/ (job[p].cmd = "upgrade" /\ vault = NoVault)
                THEN apart \cup {p} ELSE apart
    /\ foreign' = (foreign /\ job[p].cmd = "upgrade")
    /\ UNCHANGED <<item, vault, made, job, found, result, pulled>>

\* No item, a Keychain that is locked or a human who declines: UnlockKey cannot
\* tell them apart, and init makes a new key, which storeKeychainKey stores.  It
\* makes none if CPASS_KEY is there and is no key.
FindFails(p) ==
    /\ pc[p] = "find"
    /\ job[p].cmd = "upgrade" => Available(p)
    /\ IF job[p].cmd = "init" /\ job[p].given = NoItem
       THEN /\ made < MaxKeys
            /\ made' = made + 1
            /\ key' = [key EXCEPT ![p] = made']
            /\ Goto(p, IF job[p].touchID /\ Available(p) THEN "pull" ELSE "store")
            /\ UNCHANGED <<item, vault, job, found, result, pulled, apart, foreign>>
       ELSE Fails(p, "failed")

\* security add-generic-password -U creates the item or replaces its password.
Store(p) ==
    /\ pc[p] = "store"
    /\ item' = key[p]
    /\ pulled' = FALSE /\ foreign' = FALSE
    /\ Goto(p, "create")
    /\ UNCHANGED <<vault, made, job, key, found, result, apart>>

\* keychainSetUserPresence's SecItemDelete, before anything is known of the add.
Pull(p) ==
    /\ pc[p] = "pull"
    /\ item' = NoItem
    /\ pulled' = (pulled \/ item # NoItem)
    /\ Goto(p, "put")
    /\ UNCHANGED <<vault, made, job, key, found, result, apart, foreign>>

\* What comes after the key is stored.
Stored(p) ==
    IF job[p].cmd = "init"
    THEN Goto(p, "create") /\ UNCHANGED <<made, job, key, found, result, apart>>
    ELSE End(p, "ok")

\* SecItemAdd, which refuses a duplicate and needs an entitlement.
Put(p) ==
    /\ pc[p] = "put"
    /\ item = NoItem
    /\ job[p].build = "signed"
    /\ item' = key[p]
    /\ pulled' = FALSE
    /\ foreign' = IF job[p].cmd = "init" THEN FALSE ELSE foreign \/ p \in apart
    /\ Stored(p)
    /\ UNCHANGED vault

\* Mutant: a key that could not be stored is no reason not to init.
StoreFailsGoesOn(p) ==
    /\ pc[p] \in {"store", "pull", "put"}
    /\ Stored(p)
    /\ UNCHANGED <<item, vault, pulled, foreign>>

\* The Keychain may refuse any of them: locked, no entitlement, a duplicate.
StoreFails(p) ==
    /\ pc[p] \in {"store", "pull", "put"}
    /\ Fails(p, "failed")

\* vault.Create; its Save may still fail once the Vault is in place.
Create(p) ==
    /\ pc[p] = "create"
    /\ vault = NoVault
    /\ vault' = key[p]
    /\ foreign' = (foreign \/ p \in apart)
    /\ \E how \in {"ok", "failed"} : End(p, how)
    /\ UNCHANGED <<item, pulled>>

\* There is a Vault by now, or Create fails early.
CreateRefused(p) ==
    /\ pc[p] = "create"
    /\ Fails(p, "failed")

Crash(p) ==
    /\ pc[p] # "idle"
    /\ Fails(p, "killed")

Next ==
    \E p \in Procs :
        \/ Begin(p) \/ Refuse(p) \/ Find(p) \/ FindFails(p)
        \/ Store(p) \/ Pull(p) \/ Put(p) \/ StoreFails(p)
        \/ Create(p) \/ CreateRefused(p) \/ Crash(p)

Spec == Init /\ [][Next]_vars
-----------------------------------------------------------------------------
\* Whatever fails or is killed on the way, a Vault's key is in the Keychain before
\* there is a Vault, and stays there; only an upgrade between SecItemDelete and
\* SecItemAdd, or one that ended there, leaves a Vault without it (cmdInit,
\* storeKeychainKey, keychainSetUserPresence).  That is not so for a Vault that was
\* made under a given key, which is stored nowhere, nor after an upgrade stored a
\* key that was given, or that it read before there was a Vault
\* (cmdKeychainUpgrade does not look whether its key opens one).
KeychainOpens ==
    vault # NoVault /\ ~foreign => item = vault \/ (item = NoItem /\ pulled)

\* docs/SECURITY.md on keychain upgrade: where Touch ID support is unavailable, as
\* it is in a binary that is not signed for it, it refuses with nothing changed.
RefusedUpgradeChangesNothing ==
    [][\A p \in Procs : pc[p] # "idle" /\ result'[p] = "failed" /\ job[p].cmd = "upgrade"
            => item' = found[p]]_vars
=============================================================================
