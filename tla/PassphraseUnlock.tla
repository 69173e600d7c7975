-------------------------- MODULE PassphraseUnlock --------------------------
(***************************************************************************)
(* The passphrase side of broker/passphrase.go: cpass init and cpass       *)
(* unlock deriving the unlock key from broker.salt and broker.kdf, and the *)
(* transparent upgrade of a Vault derived at the legacy scrypt cost.       *)
(*                                                                         *)
(* scrypt is a function of the passphrase, the salt and the cost, so a key *)
(* is that triple.  vault.Create and vault.Update are single steps: they   *)
(* hold the Vault's lock throughout, and VaultStore implements AtomicVault.*)
(* Of a Vault only the key its data key is wrapped under is kept.          *)
(***************************************************************************)
EXTENDS Naturals

CONSTANTS
    Procs,        \* cpass processes
    Passphrases,  \* what a human may type
    Commands,     \* which of "init" and "unlock" they run
    Starts,       \* the contents of CPASS_HOME to start from
    NoFile,       \* the file does not exist
    Torn,         \* os.WriteFile has truncated it and not written it yet
    MaxSalts      \* bound: salts generated in one behaviour

\* broker.kdf records one cost or the other; a missing one means legacy.
Costs == {"legacy", "current"}

Salts == 0 .. MaxSalts

Key == [pass : Passphrases, salt : Salts, cost : Costs]

KeyOf(pass, salt, cost) == [pass |-> pass, salt |-> salt, cost |-> cost]

ASSUME StartsAreHomes ==
    Starts \subseteq [vault : Key \cup {NoFile}, salt : Salts \cup {NoFile},
                      kdf : Costs \cup {NoFile}]

ASSUME KnownCommands == Commands \subseteq {"init", "unlock"}

\* A Vault opens with the salt next to it, at one cost or the other, and at the
\* recorded one unless an upgrade was interrupted; without a Vault a salt is what
\* an interrupted init leaves, which has written broker.kdf first.
ASSUME HomesOpen ==
    \A s \in Starts :
        IF s.vault = NoFile
        THEN s.salt # NoFile => s.kdf = "current"
        ELSE s.salt = s.vault.salt /\ (s.vault.cost = "legacy" => s.kdf # "current")

\* What is not there, or torn, is no content.
ASSUME ContentsDiffer ==
    /\ NoFile \notin Key /\ NoFile \notin Salts /\ NoFile \notin Costs
    /\ Torn \notin Salts /\ Torn \notin Costs /\ Torn # NoFile

ASSUME SaltsAreBounded == MaxSalts \in Nat

VARIABLES
    vault, bak,  \* the key vault.cpv and vault.cpv.bak are wrapped under
    salt,        \* broker.salt
    kdf,         \* broker.kdf
    pc,          \* how far each process has come
    job,         \* its command, passphrase, and whether it may still retry
    mySalt,      \* the salt it read or made
    myCost,      \* the cost it read or made
    key,         \* the key it derived, last of all the one it hands on
    result,      \* how its last command ended
    made         \* how many salts have been generated

home == <<vault, bak, salt, kdf>>
vars == <<home, pc, job, mySalt, myCost, key, result, made>>

Places == {"idle", "salt", "kdf", "kdf-trunc", "kdf-write", "salt-trunc", "salt-write",
           "create", "open", "alt-open", "rewrap", "persist"}

Job == [cmd : {"init", "unlock"}, pass : Passphrases, retry : BOOLEAN]

TypeOK ==
    /\ {vault, bak} \subseteq Key \cup {NoFile}
    /\ salt \in Salts \cup {NoFile, Torn}
    /\ kdf \in Costs \cup {NoFile, Torn}
    /\ pc \in [Procs -> Places]
    /\ job \in [Procs -> Job \cup {NoFile}]
    /\ \A p \in Procs : pc[p] # "idle" => job[p] \in Job
    /\ mySalt \in [Procs -> Salts \cup {NoFile}]
    /\ myCost \in [Procs -> Costs \cup {NoFile}]
    /\ key \in [Procs -> Key \cup {NoFile}]
    /\ result \in [Procs -> {"none", "ok", "wrong", "error", "killed"}]
    /\ made \in Salts

Init ==
    /\ \E s \in Starts : vault = s.vault /\ salt = s.salt /\ kdf = s.kdf
    /\ bak = NoFile
    /\ pc = [p \in Procs |-> "idle"]
    /\ job = [p \in Procs |-> NoFile]
    /\ mySalt = [p \in Procs |-> NoFile]
    /\ myCost = [p \in Procs |-> NoFile]
    /\ key = [p \in Procs |-> NoFile]
    /\ result = [p \in Procs |-> "none"]
    /\ made = 0

-----------------------------------------------------------------------------
Goto(p, place) == pc' = [pc EXCEPT ![p] = place]

\* The command returns.
End(p, how) ==
    /\ Goto(p, "idle")
    /\ result' = [result EXCEPT ![p] = how]
    /\ job' = [job EXCEPT ![p] = NoFile]
    /\ mySalt' = [mySalt EXCEPT ![p] = NoFile]
    /\ myCost' = [myCost EXCEPT ![p] = NoFile]

\* An error that has touched no file.
Fails(p, how) == End(p, how) /\ UNCHANGED <<home, key, made>>

\* cmdInit's unlocked Exists, or cmdUnlock reading the passphrase.  An init that
\* UnlockKey gives a key (CPASS_KEY, a Broker) derives none and is left out.
Start(p) ==
    /\ pc[p] = "idle"
    /\ \E c \in Commands, w \in Passphrases :
          /\ c = "init" => vault = NoFile
          /\ job' = [job EXCEPT ![p] = [cmd |-> c, pass |-> w, retry |-> TRUE]]
    /\ key' = [key EXCEPT ![p] = NoFile]
    /\ result' = [result EXCEPT ![p] = "none"]
    /\ Goto(p, "salt")
    /\ UNCHANGED <<home, mySalt, myCost, made>>

-----------------------------------------------------------------------------
(***************************************************************************)
(* loadOrCreateParams: two reads, or two os.WriteFiles, and no lock.       *)
(***************************************************************************)

\* scrypt with the salt and cost at hand; init then creates, unlock opens.
Derive(p, s, c) ==
    /\ mySalt' = [mySalt EXCEPT ![p] = s]
    /\ myCost' = [myCost EXCEPT ![p] = c]
    /\ key' = [key EXCEPT ![p] = KeyOf(job[p].pass, s, c)]
    /\ Goto(p, IF job[p].cmd = "init" THEN "create" ELSE "open")
    /\ UNCHANGED <<home, job, result, made>>

\* Mutant: a fresh salt is persisted with no kdf record next to it.
ReadSaltSkipsKdf(p) ==
    /\ pc[p] = "salt"
    /\ salt # Torn
    /\ IF salt = NoFile
       THEN /\ made < MaxSalts
            /\ made' = made + 1
            /\ mySalt' = [mySalt EXCEPT ![p] = made']
            /\ Goto(p, "salt-trunc")
       ELSE /\ made' = made
            /\ mySalt' = [mySalt EXCEPT ![p] = salt]
            /\ Goto(p, "kdf")
    /\ UNCHANGED <<home, job, myCost, key, result>>

ReadSalt(p) ==
    /\ pc[p] = "salt"
    /\ salt # Torn
    /\ IF salt = NoFile
       THEN /\ made < MaxSalts
            /\ made' = made + 1
            /\ mySalt' = [mySalt EXCEPT ![p] = made']
            /\ Goto(p, "kdf-trunc")
       ELSE /\ made' = made
            /\ mySalt' = [mySalt EXCEPT ![p] = salt]
            /\ Goto(p, "kdf")
    /\ UNCHANGED <<home, job, myCost, key, result>>

\* "salt file is corrupt": os.WriteFile left it short.
SaltCorrupt(p) ==
    /\ pc[p] = "salt"
    /\ salt = Torn
    /\ Fails(p, "error")

\* No broker.kdf next to a salt means the legacy cost.
CostRead == IF kdf = NoFile THEN "legacy" ELSE kdf

ReadKdf(p) ==
    /\ pc[p] = "kdf"
    /\ kdf # Torn
    /\ Derive(p, mySalt[p], CostRead)

KdfCorrupt(p) ==
    /\ pc[p] = "kdf"
    /\ kdf = Torn
    /\ Fails(p, "error")

\* os.WriteFile(broker.kdf): truncate, then write.
TruncateKdf(p) ==
    /\ pc[p] = "kdf-trunc"
    /\ kdf' = Torn
    /\ Goto(p, "kdf-write")
    /\ UNCHANGED <<vault, bak, salt, job, mySalt, myCost, key, result, made>>

WriteKdf(p) ==
    /\ pc[p] = "kdf-write"
    /\ kdf' = "current"
    /\ Goto(p, "salt-trunc")
    /\ UNCHANGED <<vault, bak, salt, job, mySalt, myCost, key, result, made>>

\* os.WriteFile(broker.salt), deliberately after broker.kdf.
TruncateSalt(p) ==
    /\ pc[p] = "salt-trunc"
    /\ salt' = Torn
    /\ Goto(p, "salt-write")
    /\ UNCHANGED <<vault, bak, kdf, job, mySalt, myCost, key, result, made>>

WriteSalt(p) ==
    /\ pc[p] = "salt-write"
    /\ salt' = mySalt[p]
    /\ myCost' = [myCost EXCEPT ![p] = "current"]
    /\ key' = [key EXCEPT ![p] = KeyOf(job[p].pass, mySalt[p], "current")]
    /\ Goto(p, IF job[p].cmd = "init" THEN "create" ELSE "open")
    /\ UNCHANGED <<vault, bak, kdf, job, mySalt, result, made>>

\* A disk-full write fails with the file already truncated.
WriteFails(p) ==
    /\ pc[p] \in {"kdf-write", "salt-write"}
    /\ Fails(p, "error")

-----------------------------------------------------------------------------
\* vault.Create, which checks again, under the lock, that there is no Vault; its
\* Save may still fail once the Vault is in place.
Create(p) ==
    /\ pc[p] = "create"
    /\ vault = NoFile
    /\ vault' = key[p]
    /\ \E how \in {"ok", "error"} : End(p, how)
    /\ UNCHANGED <<bak, salt, kdf, key, made>>

\* There is a Vault by now, or the lock times out, or Save fails early.
CreateRefused(p) ==
    /\ pc[p] = "create"
    /\ Fails(p, "error")

\* How a key that does not open the Vault is reported.
OpenError == IF vault = NoFile THEN "error" ELSE "wrong"

\* Mutant: broker.kdf is updated without, or before, rewrapping the Vault.
OpenPersistsFirst(p) ==
    /\ pc[p] = "open"
    /\ vault = key[p]
    /\ IF myCost[p] = "current"
       THEN Fails(p, "ok")
       ELSE Goto(p, "persist") /\ UNCHANGED <<home, job, mySalt, myCost, key, result, made>>

\* deriveAndValidate's first validateOpen.  The stale persisted cost, not the
\* key that worked, decides whether there is an upgrade to do.
Open(p) ==
    /\ pc[p] = "open"
    /\ vault = key[p]
    /\ IF myCost[p] = "current"
       THEN Fails(p, "ok")
       ELSE Goto(p, "rewrap") /\ UNCHANGED <<home, job, mySalt, myCost, key, result, made>>

OpenFails(p) ==
    /\ pc[p] = "open"
    /\ vault # key[p]
    /\ IF myCost[p] = "current"
       THEN Fails(p, OpenError)
       ELSE Goto(p, "alt-open") /\ UNCHANGED <<home, job, mySalt, myCost, key, result, made>>

\* Mutant: the upgrade rotates the salt as well.
NewKeyRotatesSalt(p) == KeyOf(job[p].pass, MaxSalts, "current")

\* The key UnlockPassphrase upgrades to: same passphrase, same salt.
NewKey(p) == KeyOf(job[p].pass, mySalt[p], "current")

\* Mutant: the fallback key opened the Vault, so nothing is left to upgrade.
AltOpenIsEnough(p) ==
    /\ pc[p] = "alt-open"
    /\ vault = NewKey(p)
    /\ key' = [key EXCEPT ![p] = NewKey(p)]
    /\ End(p, "ok")
    /\ UNCHANGED <<home, made>>

\* deriveAndValidate's retry: an interrupted upgrade left the Vault under the
\* current cost while broker.kdf still names the old one.
AltOpen(p) ==
    /\ pc[p] = "alt-open"
    /\ vault = NewKey(p)
    /\ key' = [key EXCEPT ![p] = NewKey(p)]
    /\ Goto(p, "rewrap")
    /\ UNCHANGED <<home, job, mySalt, myCost, result, made>>

AltOpenFails(p) ==
    /\ pc[p] = "alt-open"
    /\ vault # NewKey(p)
    /\ Fails(p, OpenError)

\* rewrapForUpgrade succeeds, or fails once its rename is visible.
Rewrap(p) ==
    /\ pc[p] = "rewrap"
    /\ vault = key[p]
    /\ vault' = NewKey(p)
    /\ bak' = vault
    /\ \/ /\ key' = [key EXCEPT ![p] = NewKey(p)]
          /\ Goto(p, "persist")
          /\ UNCHANGED <<job, mySalt, myCost, result>>
       \/ End(p, "error") /\ UNCHANGED key
    /\ UNCHANGED <<salt, kdf, made>>

\* Mutant: the lost race is reported as it comes, as a wrong key.
RewrapRaceReported(p) ==
    /\ pc[p] = "rewrap"
    /\ vault # key[p]
    /\ Fails(p, OpenError)

\* ErrWrongKey: another unlock won the race.  Start over, once.
RewrapRaceLost(p) ==
    /\ pc[p] = "rewrap"
    /\ vault # key[p]
    /\ IF job[p].retry
       THEN /\ job' = [job EXCEPT ![p].retry = FALSE]
            /\ Goto(p, "salt")
            /\ UNCHANGED <<home, mySalt, myCost, key, result, made>>
       ELSE Fails(p, OpenError)

\* The lock times out, or Save fails before its rename.
RewrapFails(p) ==
    /\ pc[p] = "rewrap"
    /\ Fails(p, "error")

\* persistCurrentParams, an atomicfile.Write.
Persist(p) ==
    /\ pc[p] = "persist"
    /\ kdf' = "current"
    /\ End(p, "ok")
    /\ UNCHANGED <<vault, bak, salt, key, made>>

PersistFails(p) ==
    /\ pc[p] = "persist"
    /\ Fails(p, "error")

\* kill -9, or Ctrl-C: whatever is on disk stays there.
Crash(p) ==
    /\ pc[p] # "idle"
    /\ Fails(p, "killed")

\* Any other write command Saves the Vault under the key it opened it with.
OtherWrite ==
    /\ vault # NoFile
    /\ bak' = vault
    /\ UNCHANGED <<vault, salt, kdf, pc, job, mySalt, myCost, key, result, made>>

Step(p) ==
    \/ ReadSalt(p) \/ SaltCorrupt(p) \/ ReadKdf(p) \/ KdfCorrupt(p)
    \/ TruncateKdf(p) \/ WriteKdf(p) \/ TruncateSalt(p) \/ WriteSalt(p) \/ WriteFails(p)
    \/ Create(p) \/ CreateRefused(p)
    \/ Open(p) \/ OpenFails(p) \/ AltOpen(p) \/ AltOpenFails(p)
    \/ Rewrap(p) \/ RewrapRaceLost(p) \/ RewrapFails(p)
    \/ Persist(p) \/ PersistFails(p)

Next == (\E p \in Procs : Start(p) \/ Step(p) \/ Crash(p)) \/ OtherWrite

Spec == Init /\ [][Next]_vars
-----------------------------------------------------------------------------
\* unlock with passphrase w, run alone against the files as they are, would
\* open a Vault whose data key is wrapped under v.
WouldOpen(w, v) ==
    /\ salt \in Salts /\ kdf # Torn
    /\ v \in {KeyOf(w, salt, CostRead), KeyOf(w, salt, "current")}

\* The Vault and its salt were there before.
OldHome == vault # NoFile /\ made = 0

\* DeriveKey's promise, that the key init picks is the key unlock reproduces:
\* whatever is killed, and wherever, the passphrase of a Vault opens it.
PassphraseAlwaysOpens == OldHome => WouldOpen(vault.pass, vault)

\* UnlockPassphrase's promise about its race and its crash: the right
\* passphrase is never reported wrong.
NeverFalselyRefused ==
    [][\A p \in Procs : result[p] # "wrong" /\ result'[p] = "wrong"
                            => ~OldHome \/ job[p].pass # vault.pass]_vars

\* An unlock that succeeds has left nothing of an upgrade to finish, and hands
\* the Broker a key that opens the Vault and goes on opening it.
UnlockFinishesUpgrade ==
    \A p \in Procs : OldHome /\ result[p] = "ok" /\ key[p] # NoFile
                        => key[p] = vault /\ kdf = "current"

\* However many inits and unlocks race over a new home, no key is ever derived at
\* the weak cost.
NeverWeak ==
    made > 0 =>
        /\ vault # NoFile => vault.cost = "current"
        /\ \A p \in Procs : key[p] # NoFile => key[p].cost = "current"

\* docs/SECURITY.md: to recover, copy vault.cpv.bak over vault.cpv and unlock as
\* usual.
BackupUnlocks == bak # NoFile => WouldOpen(bak.pass, bak)
=============================================================================
