------------------------ MODULE UnlockSourcesProofs ------------------------
(***************************************************************************)
(* Proofs for either unlock source: PassphraseUnlock's safety, for any     *)
(* processes, passphrases and homes, and Keychain's.                       *)
(***************************************************************************)
EXTENDS UnlockSources, TLAPS

-----------------------------------------------------------------------------
(***************************************************************************)
(* The passphrase: PassphraseUnlock's invariant, which no step of the      *)
(* Keychain disturbs.                                                      *)
(***************************************************************************)

\* Where a process has a key to open, create or rewrap a Vault with.
Keyed == {"create", "open", "alt-open", "rewrap", "persist"}

\* Where unlock has found an upgrade to do.
Upgrading == {"alt-open", "rewrap", "persist"}

\* Where init or unlock is writing parameters of its own.
Making == {"kdf-trunc", "kdf-write", "salt-trunc", "salt-write"}

\* As long as no salt is made, the home is one that opens: nobody is writing
\* broker.kdf or broker.salt in place, the Vault is under the salt next to it,
\* and broker.kdf does not run ahead of the Vault.
Untouched ==
    made = 0 =>
        /\ salt # Torn /\ kdf # Torn
        /\ \A p \in Procs : pc[p] \notin Making
        /\ IF vault = NoFile
           THEN salt # NoFile => kdf = "current"
           ELSE vault.salt = salt /\ (vault.cost = "legacy" => kdf # "current")
        /\ salt = NoFile => \A p \in Procs : pc[p] \in {"idle", "salt"} /\ key[p] = NoFile

\* What a process read of such a home is still true, but for a cost that has been
\* upgraded since; only a Vault can be under the legacy cost.
Derived ==
    made = 0 =>
      \A p \in Procs :
        /\ pc[p] \in Keyed \cup {"kdf"} => mySalt[p] = salt
        /\ pc[p] \in Keyed => IF myCost[p] = "current" THEN kdf = "current"
                              ELSE myCost[p] = "legacy" /\ vault # NoFile
        /\ pc[p] \in {"create", "open"} => key[p] = KeyOf(job[p].pass, salt, myCost[p])

\* An upgrade knows the Vault's passphrase once a key of its own has opened it, and
\* a lost race tells it that the Vault is under the current cost: there is no
\* second race to lose.
Upgrades ==
    made = 0 =>
      \A p \in Procs :
        /\ pc[p] \in Upgrading => myCost[p] = "legacy"
        /\ pc[p] = "alt-open" => vault # KeyOf(job[p].pass, salt, "legacy")
        /\ pc[p] \in {"rewrap", "persist"} =>
              /\ key[p] \in [pass : {vault.pass}, salt : {salt}, cost : Costs]
              /\ job[p].pass = vault.pass
              /\ key[p].cost = "current" => vault = key[p]
        /\ pc[p] = "persist" => key[p].cost = "current"
        /\ pc[p] = "rewrap" /\ ~job[p].retry => vault = key[p]
        /\ pc[p] # "idle" /\ ~job[p].retry => vault = KeyOf(job[p].pass, salt, "current")

\* What UnlockFinishesUpgrade says, of init as well.
Finished ==
    \A p \in Procs :
        /\ pc[p] # "idle" => result[p] = "none"
        /\ made = 0 /\ result[p] = "ok" =>
            /\ vault # NoFile
            /\ key[p] # NoFile => key[p] = vault /\ kdf = "current"

\* Once a salt is made, and whoever else makes one, broker.kdf says current or is
\* torn whenever there is a salt next to it for it to be read with.
MadeStrong ==
    made > 0 =>
        /\ vault # NoFile => vault.cost = "current"
        /\ salt # NoFile => kdf \in {"current", Torn}
        /\ \A p \in Procs :
              /\ key[p] # NoFile => key[p].cost = "current"
              /\ pc[p] \in {"kdf", "salt-trunc", "salt-write"} => kdf \in {"current", Torn}
              /\ pc[p] \notin Upgrading
              /\ pc[p] \in {"create", "open"} => myCost[p] = "current"

\* Past its first read a process has a salt.
SaltAtHand == \A p \in Procs : pc[p] \notin {"idle", "salt"} => mySalt[p] \in Salts

PInv == TypeOK /\ SaltAtHand /\ Untouched /\ Derived /\ Upgrades /\ Finished /\ MadeStrong

LEMMA InitHolds == Init => PInv
<1> SUFFICES ASSUME Init PROVE PInv
  OBVIOUS
<1> USE DEF Init
<1>1. PICK s \in Starts : vault = s.vault /\ salt = s.salt /\ kdf = s.kdf
  OBVIOUS
<1>2. s \in [vault : Key \cup {NoFile}, salt : Salts \cup {NoFile}, kdf : Costs \cup {NoFile}]
  BY StartsAreHomes
<1>3. TypeOK
  BY <1>1, <1>2, SaltsAreBounded DEF TypeOK, Places, Salts
<1>4. Untouched
  BY <1>1, <1>2, HomesOpen, ContentsDiffer DEF Untouched, Making
<1>5. SaltAtHand /\ Derived /\ Upgrades /\ Finished /\ MadeStrong
  BY DEF SaltAtHand, Derived, Upgrades, Finished, MadeStrong, Keyed, Upgrading
<1> QED BY <1>3, <1>4, <1>5 DEF PInv

LEMMA StartKeeps ==
    ASSUME PInv, NEW p \in Procs, Start(p)
    PROVE  PInv'
<1> USE DEF PInv
<1>1. TypeOK'
  BY KnownCommands DEF Start, Goto, home, TypeOK, Places, Job
<1>2. SaltAtHand'
  BY DEF Start, Goto, SaltAtHand
<1>3. Untouched'
  BY DEF Start, Goto, home, Untouched, Making
<1>4. Derived'
  BY DEF Start, Goto, home, Derived, Keyed
<1>5. Upgrades'
  BY DEF Start, Goto, home, TypeOK, Upgrades, Upgrading
<1>6. Finished'
  BY DEF Start, Goto, home, TypeOK, Finished
<1>7. MadeStrong'
  BY DEF Start, Goto, home, MadeStrong, Upgrading
<1> QED BY <1>1, <1>2, <1>3, <1>4, <1>5, <1>6, <1>7

LEMMA FailKeeps ==
    ASSUME PInv, NEW p \in Procs, pc[p] # "idle",
           NEW how \in {"wrong", "error", "killed"}, Fails(p, how)
    PROVE  PInv'
<1> USE DEF PInv
<1>1. TypeOK'
  BY DEF Fails, End, Goto, home, TypeOK, Places
<1>2. SaltAtHand'
  BY DEF Fails, End, Goto, TypeOK, SaltAtHand
<1>3. Untouched'
  BY DEF Fails, End, Goto, home, Untouched, Making
<1>4. Derived'
  BY DEF Fails, End, Goto, home, TypeOK, Derived, Keyed
<1>5. Upgrades'
  BY DEF Fails, End, Goto, home, TypeOK, Upgrades, Upgrading
<1>6. Finished'
  BY DEF Fails, End, Goto, home, TypeOK, Finished
<1>7. MadeStrong'
  BY DEF Fails, End, Goto, home, TypeOK, MadeStrong, Upgrading
<1> QED BY <1>1, <1>2, <1>3, <1>4, <1>5, <1>6, <1>7

LEMMA ReadSaltKeeps ==
    ASSUME PInv, NEW p \in Procs, ReadSalt(p)
    PROVE  PInv'
<1> USE DEF PInv
<1>1. TypeOK'
  BY SaltsAreBounded DEF ReadSalt, Goto, home, TypeOK, Places, Salts
<1>2. SaltAtHand'
  BY SaltsAreBounded DEF ReadSalt, Goto, Salts, TypeOK, SaltAtHand
<1>3. Untouched'
  BY DEF ReadSalt, Goto, home, Salts, TypeOK, Untouched, Making
<1>4. Derived'
  BY DEF ReadSalt, Goto, home, Salts, TypeOK, Derived, Keyed
<1>5. Upgrades'
  BY DEF ReadSalt, Goto, home, Salts, TypeOK, Upgrades, Upgrading
<1>6. Finished'
  BY DEF ReadSalt, Goto, home, Salts, TypeOK, Finished
<1>7. MadeStrong'
  BY ContentsDiffer DEF ReadSalt, Goto, home, Key, Salts, TypeOK, Untouched, MadeStrong,
         Upgrading
<1> QED BY <1>1, <1>2, <1>3, <1>4, <1>5, <1>6, <1>7

LEMMA ReadKdfKeeps ==
    ASSUME PInv, NEW p \in Procs, ReadKdf(p)
    PROVE  PInv'
<1> USE DEF PInv
<1>1. TypeOK'
  BY DEF ReadKdf, Derive, CostRead, Goto, home, TypeOK, SaltAtHand, Places, Job, Key, KeyOf,
         Costs
<1>2. SaltAtHand'
  BY DEF ReadKdf, Derive, Goto, SaltAtHand
<1>3. Untouched'
  BY DEF ReadKdf, Derive, Goto, home, Untouched, Making
<1>4. Derived'
  BY ContentsDiffer DEF ReadKdf, Derive, CostRead, Goto, home, Costs, TypeOK, Untouched, Derived
<1>5. Upgrades'
  BY DEF ReadKdf, Derive, Goto, home, Upgrades, Upgrading
<1>6. Finished'
  BY DEF ReadKdf, Derive, Goto, home, Finished
<1>7. MadeStrong'
  BY ContentsDiffer DEF ReadKdf, Derive, CostRead, Goto, home, KeyOf, Costs, TypeOK, MadeStrong,
         Upgrading
<1> QED BY <1>1, <1>2, <1>3, <1>4, <1>5, <1>6, <1>7

LEMMA TruncateKdfKeeps ==
    ASSUME PInv, NEW p \in Procs, TruncateKdf(p)
    PROVE  PInv'
<1> USE DEF PInv
<1>1. TypeOK'
  BY DEF TruncateKdf, Goto, TypeOK, Places
<1>2. SaltAtHand'
  BY DEF TruncateKdf, Goto, SaltAtHand
<1>3. Untouched'
  BY DEF TruncateKdf, Untouched, Making
<1>4. Derived'
  BY DEF TruncateKdf, Untouched, Derived, Making
<1>5. Upgrades'
  BY DEF TruncateKdf, Untouched, Upgrades, Making
<1>6. Finished'
  BY DEF TruncateKdf, Goto, Untouched, Finished, Making
<1>7. MadeStrong'
  BY DEF TruncateKdf, Goto, MadeStrong, Upgrading
<1> QED BY <1>1, <1>2, <1>3, <1>4, <1>5, <1>6, <1>7

LEMMA WriteKdfKeeps ==
    ASSUME PInv, NEW p \in Procs, WriteKdf(p)
    PROVE  PInv'
<1> USE DEF PInv
<1>1. TypeOK'
  BY DEF WriteKdf, Goto, TypeOK, Places, Costs
<1>2. SaltAtHand'
  BY DEF WriteKdf, Goto, SaltAtHand
<1>3. Untouched'
  BY DEF WriteKdf, Untouched, Making
<1>4. Derived'
  BY DEF WriteKdf, Untouched, Derived, Making
<1>5. Upgrades'
  BY DEF WriteKdf, Untouched, Upgrades, Making
<1>6. Finished'
  BY DEF WriteKdf, Goto, Finished
<1>7. MadeStrong'
  BY DEF WriteKdf, Goto, MadeStrong, Upgrading
<1> QED BY <1>1, <1>2, <1>3, <1>4, <1>5, <1>6, <1>7

LEMMA TruncateSaltKeeps ==
    ASSUME PInv, NEW p \in Procs, TruncateSalt(p)
    PROVE  PInv'
<1> USE DEF PInv
<1>1. TypeOK'
  BY DEF TruncateSalt, Goto, TypeOK, Places
<1>2. SaltAtHand'
  BY DEF TruncateSalt, Goto, SaltAtHand
<1>3. Untouched'
  BY DEF TruncateSalt, Untouched, Making
<1>4. Derived'
  BY DEF TruncateSalt, Untouched, Derived, Making
<1>5. Upgrades'
  BY DEF TruncateSalt, Untouched, Upgrades, Making
<1>6. Finished'
  BY DEF TruncateSalt, Goto, Finished
<1>7. MadeStrong'
  BY DEF TruncateSalt, Goto, MadeStrong, Upgrading
<1> QED BY <1>1, <1>2, <1>3, <1>4, <1>5, <1>6, <1>7

LEMMA WriteSaltKeeps ==
    ASSUME PInv, NEW p \in Procs, WriteSalt(p)
    PROVE  PInv'
<1> USE DEF PInv
<1>1. TypeOK'
  BY DEF WriteSalt, Goto, TypeOK, SaltAtHand, Places, Job, Key, KeyOf, Costs
<1>2. SaltAtHand'
  BY DEF WriteSalt, Goto, SaltAtHand
<1>3. Untouched'
  BY DEF WriteSalt, Untouched, Making
<1>4. Derived'
  BY DEF WriteSalt, Untouched, Derived, Making
<1>5. Upgrades'
  BY DEF WriteSalt, Untouched, Upgrades, Making
<1>6. Finished'
  BY DEF WriteSalt, Goto, Finished
<1>7. MadeStrong'
  BY DEF WriteSalt, Goto, KeyOf, TypeOK, MadeStrong, Upgrading
<1> QED BY <1>1, <1>2, <1>3, <1>4, <1>5, <1>6, <1>7

LEMMA CreateKeeps ==
    ASSUME PInv, NEW p \in Procs, Create(p)
    PROVE  PInv'
<1> USE DEF PInv
<1>1. TypeOK'
  BY DEF Create, End, Goto, TypeOK, Places
<1>2. SaltAtHand'
  BY DEF Create, End, Goto, TypeOK, SaltAtHand
<1>3. Untouched'
  BY DEF Create, End, Goto, KeyOf, TypeOK, Untouched, Derived, Keyed, Making
<1>4. Derived'
  BY DEF Create, End, Goto, TypeOK, Derived, Keyed
<1>5. Upgrades'
  BY ContentsDiffer DEF Create, End, Goto, KeyOf, Key, Job, TypeOK, Derived, Upgrades, Keyed,
         Upgrading
<1>6. Finished'
  BY ContentsDiffer DEF Create, End, Goto, KeyOf, Key, Job, Costs, TypeOK, Untouched, Derived,
         Finished, Keyed
<1>7. MadeStrong'
  BY DEF Create, End, Goto, TypeOK, MadeStrong, Upgrading
<1> QED BY <1>1, <1>2, <1>3, <1>4, <1>5, <1>6, <1>7

LEMMA OpenKeeps ==
    ASSUME PInv, NEW p \in Procs, Open(p)
    PROVE  PInv'
<1> USE DEF PInv
<1>1. TypeOK'
  BY DEF Open, Fails, End, Goto, home, TypeOK, Places
<1>2. SaltAtHand'
  BY DEF Open, Fails, End, Goto, TypeOK, SaltAtHand
<1>3. Untouched'
  BY DEF Open, Fails, End, Goto, home, TypeOK, Untouched, Making
<1>4. Derived'
  BY DEF Open, Fails, End, Goto, home, TypeOK, Derived, Keyed
<1>5. Upgrades'
  BY DEF Open, Fails, End, Goto, home, KeyOf, Costs, TypeOK, Derived, Upgrades, Keyed, Upgrading
<1>6. Finished'
  BY ContentsDiffer DEF Open, Fails, End, Goto, home, KeyOf, Key, Job, Costs, TypeOK, Untouched,
         Derived, Finished, Keyed
<1>7. MadeStrong'
  BY DEF Open, Fails, End, Goto, home, TypeOK, MadeStrong, Upgrading
<1> QED BY <1>1, <1>2, <1>3, <1>4, <1>5, <1>6, <1>7

LEMMA OpenFailsKeeps ==
    ASSUME PInv, NEW p \in Procs, OpenFails(p), myCost[p] # "current"
    PROVE  PInv'
<1> USE DEF PInv
<1>1. TypeOK'
  BY DEF OpenFails, Goto, home, TypeOK, Places
<1>2. SaltAtHand'
  BY DEF OpenFails, Goto, TypeOK, SaltAtHand
<1>3. Untouched'
  BY DEF OpenFails, Goto, home, TypeOK, Untouched, Making
<1>4. Derived'
  BY DEF OpenFails, Goto, home, TypeOK, Derived, Keyed
<1>5. Upgrades'
  BY DEF OpenFails, Goto, home, TypeOK, Derived, Upgrades, Keyed
<1>6. Finished'
  BY DEF OpenFails, Goto, home, TypeOK, Finished
<1>7. MadeStrong'
  BY DEF OpenFails, MadeStrong
<1> QED BY <1>1, <1>2, <1>3, <1>4, <1>5, <1>6, <1>7

LEMMA AltOpenKeeps ==
    ASSUME PInv, NEW p \in Procs, AltOpen(p)
    PROVE  PInv'
<1> USE DEF PInv
<1>1. TypeOK'
  BY DEF AltOpen, Goto, home, TypeOK, Places
<1>2. SaltAtHand'
  BY DEF AltOpen, Goto, SaltAtHand
<1>3. Untouched'
  BY DEF AltOpen, Goto, home, Untouched, Making
<1>4. Derived'
  BY DEF AltOpen, Goto, home, Derived, Keyed
<1>5. Upgrades'
  BY DEF AltOpen, NewKey, Goto, home, KeyOf, Costs, TypeOK, Derived, Upgrades, Keyed, Upgrading
<1>6. Finished'
  BY DEF AltOpen, Goto, home, Finished
<1>7. MadeStrong'
  BY DEF AltOpen, MadeStrong, Upgrading
<1> QED BY <1>1, <1>2, <1>3, <1>4, <1>5, <1>6, <1>7

LEMMA RewrapKeeps ==
    ASSUME PInv, NEW p \in Procs, Rewrap(p)
    PROVE  PInv'
<1> USE DEF PInv
<1>1. TypeOK'
  BY DEF Rewrap, NewKey, End, Goto, TypeOK, SaltAtHand, Places, Job, Key, KeyOf, Salts, Costs
<1>2. SaltAtHand'
  BY DEF Rewrap, End, Goto, TypeOK, SaltAtHand
<1>3. Untouched'
  BY ContentsDiffer DEF Rewrap, NewKey, End, Goto, KeyOf, Key, Costs, TypeOK, Untouched,
         Derived, Upgrades, Keyed, Making
<1>4. Derived'
  BY ContentsDiffer DEF Rewrap, NewKey, End, Goto, KeyOf, Key, Costs, TypeOK, Derived, Upgrades,
         Keyed
<1>5. Upgrades'
  BY DEF Rewrap, NewKey, End, Goto, KeyOf, Costs, TypeOK, Derived, Upgrades, Keyed, Upgrading
<1>6. Finished'
  BY ContentsDiffer DEF Rewrap, NewKey, End, Goto, KeyOf, Key, Costs, TypeOK, Untouched,
         Derived, Upgrades, Finished, Keyed
<1>7. MadeStrong'
  BY DEF Rewrap, MadeStrong, Upgrading
<1> QED BY <1>1, <1>2, <1>3, <1>4, <1>5, <1>6, <1>7

LEMMA RewrapRaceLostKeeps ==
    ASSUME PInv, NEW p \in Procs, RewrapRaceLost(p), job[p].retry
    PROVE  PInv'
<1> USE DEF PInv
<1>1. TypeOK'
  <2>1. job[p] \in Job /\ job' = [job EXCEPT ![p].retry = FALSE]
    BY DEF RewrapRaceLost, TypeOK
  <2>2. job'[p] \in Job /\ job' \in [Procs -> Job \cup {NoFile}]
    BY <2>1 DEF TypeOK, Job
  <2> QED BY <2>2 DEF RewrapRaceLost, Goto, home, TypeOK, Places
<1>2. SaltAtHand'
  BY DEF RewrapRaceLost, Goto, TypeOK, SaltAtHand
<1>3. Untouched'
  BY DEF RewrapRaceLost, Goto, home, TypeOK, Untouched, Making
<1>4. Derived'
  BY DEF RewrapRaceLost, Goto, home, TypeOK, Derived, Keyed
<1>5. Upgrades'
  BY DEF RewrapRaceLost, Goto, home, KeyOf, Key, Job, Costs, TypeOK, Untouched, Derived,
         Upgrades, Keyed, Upgrading
<1>6. Finished'
  BY DEF RewrapRaceLost, Goto, home, TypeOK, Finished
<1>7. MadeStrong'
  BY DEF RewrapRaceLost, MadeStrong, Upgrading
<1> QED BY <1>1, <1>2, <1>3, <1>4, <1>5, <1>6, <1>7

LEMMA PersistKeeps ==
    ASSUME PInv, NEW p \in Procs, Persist(p)
    PROVE  PInv'
<1> USE DEF PInv
<1>1. TypeOK'
  BY DEF Persist, End, Goto, TypeOK, Places, Costs
<1>2. SaltAtHand'
  BY DEF Persist, End, Goto, TypeOK, SaltAtHand
<1>3. Untouched'
  BY ContentsDiffer DEF Persist, End, Goto, Untouched, Upgrades, Making
<1>4. Derived'
  BY DEF Persist, End, Goto, TypeOK, Derived, Keyed
<1>5. Upgrades'
  BY DEF Persist, End, Goto, TypeOK, Upgrades, Upgrading
<1>6. Finished'
  BY DEF Persist, End, Goto, TypeOK, Derived, Upgrades, Finished, Keyed, Upgrading
<1>7. MadeStrong'
  BY DEF Persist, MadeStrong, Upgrading
<1> QED BY <1>1, <1>2, <1>3, <1>4, <1>5, <1>6, <1>7

\* The ways to end without a result that Finished is about.
LEMMA EndKeeps ==
    ASSUME PInv, NEW p \in Procs,
           \/ SaltCorrupt(p) \/ KdfCorrupt(p) \/ WriteFails(p) \/ CreateRefused(p)
           \/ AltOpenFails(p) \/ RewrapFails(p) \/ PersistFails(p) \/ Crash(p)
           \/ OpenFails(p) /\ myCost[p] = "current"
           \/ RewrapRaceLost(p) /\ ~job[p].retry
    PROVE  PInv'
<1>1. pc[p] # "idle" /\ \E how \in {"wrong", "error", "killed"} : Fails(p, how)
  BY DEF SaltCorrupt, KdfCorrupt, WriteFails, CreateRefused, AltOpenFails, RewrapFails,
         PersistFails, Crash, OpenFails, RewrapRaceLost, OpenError
<1> QED BY <1>1, FailKeeps

LEMMA OtherWriteKeeps == PInv /\ OtherWrite => PInv'
  BY DEF PInv, OtherWrite, TypeOK, SaltAtHand, Untouched, Derived, Upgrades, Finished, MadeStrong

LEMMA StepKeeps == PInv /\ [Next]_vars => PInv'
<1> SUFFICES ASSUME PInv, [Next]_vars PROVE PInv'
  OBVIOUS
<1>1. CASE UNCHANGED vars
  BY <1>1 DEF vars, home, PInv, TypeOK, SaltAtHand, Untouched, Derived, Upgrades, Finished, MadeStrong
<1>2. ASSUME NEW p \in Procs, Start(p) \/ Step(p) \/ Crash(p) PROVE PInv'
  <2>1. CASE OpenFails(p)
    BY <2>1, OpenFailsKeeps, EndKeeps
  <2>2. CASE RewrapRaceLost(p)
    BY <2>2, RewrapRaceLostKeeps, EndKeeps
  <2> QED BY <1>2, <2>1, <2>2, StartKeeps, ReadSaltKeeps, ReadKdfKeeps, TruncateKdfKeeps,
             WriteKdfKeeps, TruncateSaltKeeps, WriteSaltKeeps, CreateKeeps, OpenKeeps,
             AltOpenKeeps, RewrapKeeps, PersistKeeps, EndKeeps DEF Step
<1> QED BY <1>1, <1>2, OtherWriteKeeps DEF Next

\* The steps of a home with a Keychain leave the passphrase's files alone.
LEMMA SourcesKeep == SourcesSpec => []PInv
<1>1. SourcesInit => PInv
  BY InitHolds DEF SourcesInit
<1>2. PInv /\ [SourcesNext]_<<vars, useKeychain, keychainVars>> => PInv'
  BY StepKeeps DEF SourcesNext
<1> QED BY <1>1, <1>2, PTL DEF SourcesSpec

\* The type invariant of PassphraseUnlock, for any processes, passphrases and homes.
THEOREM PassphraseTypes == SourcesSpec => []TypeOK
<1>1. PInv => TypeOK
  BY DEF PInv
<1> QED BY <1>1, SourcesKeep, PTL

\* Whatever is killed, and wherever, the passphrase of a Vault opens it with the
\* files that are there (deriveAndValidate, UnlockPassphrase).
THEOREM PassphraseOpens == SourcesSpec => []PassphraseAlwaysOpens
<1>1. PInv => PassphraseAlwaysOpens
  BY DEF PInv, TypeOK, Untouched, PassphraseAlwaysOpens, OldHome, WouldOpen, CostRead, KeyOf,
         Key, Costs
<1> QED BY <1>1, SourcesKeep, PTL

\* An unlock that succeeds has finished any upgrade, and its key goes on opening the
\* Vault whoever else unlocks (UnlockPassphrase).
THEOREM UnlockFinishes == SourcesSpec => []UnlockFinishesUpgrade
<1>1. PInv => UnlockFinishesUpgrade
  BY DEF PInv, Finished, UnlockFinishesUpgrade, OldHome
<1> QED BY <1>1, SourcesKeep, PTL

\* However many inits and unlocks race over a new home, no key is derived at the
\* legacy cost (loadOrCreateParams writes broker.kdf before broker.salt).
THEOREM NewHomesAreStrong == SourcesSpec => []NeverWeak
<1>1. PInv => NeverWeak
  BY DEF PInv, MadeStrong, NeverWeak
<1> QED BY <1>1, SourcesKeep, PTL

\* A process reports another result only at its own steps, and wrong only when the
\* passphrase does not open the Vault.
LEMMA WrongIsWrong ==
    ASSUME PInv, NEW p \in Procs, Start(p) \/ Step(p) \/ Crash(p), NEW q \in Procs,
           result[q] # "wrong", result'[q] = "wrong", OldHome
    PROVE  job[q].pass # vault.pass
<1> USE DEF PInv
<1>1. CASE OpenFails(p)
  BY <1>1 DEF OpenFails, Fails, End, TypeOK, Untouched, Derived, OldHome, KeyOf, Key, Costs,
         Keyed
<1>2. CASE AltOpenFails(p)
  BY <1>2 DEF AltOpenFails, NewKey, Fails, End, TypeOK, Untouched, Derived, Upgrades,
         OldHome, KeyOf, Key, Costs, Keyed
<1>3. CASE RewrapRaceLost(p)
  BY <1>3 DEF RewrapRaceLost, Upgrades, OldHome
<1>4. CASE ~OpenFails(p) /\ ~AltOpenFails(p) /\ ~RewrapRaceLost(p)
  <2>1. CASE Start(p)
    BY <2>1 DEF Start, TypeOK
  <2>2. CASE SaltCorrupt(p) \/ KdfCorrupt(p) \/ WriteFails(p) \/ CreateRefused(p) \/ RewrapFails(p)
             \/ PersistFails(p) \/ Crash(p) \/ Open(p)
    BY <2>2 DEF SaltCorrupt, KdfCorrupt, WriteFails, CreateRefused, RewrapFails, PersistFails,
                Crash, Open, Fails, End, TypeOK
  <2>3. CASE ReadSalt(p) \/ ReadKdf(p) \/ TruncateKdf(p) \/ WriteKdf(p) \/ TruncateSalt(p)
             \/ WriteSalt(p) \/ AltOpen(p)
    BY <2>3 DEF ReadSalt, ReadKdf, Derive, TruncateKdf, WriteKdf, TruncateSalt, WriteSalt, AltOpen
  <2>4. CASE Create(p) \/ Rewrap(p) \/ Persist(p)
    BY <2>4 DEF Create, Rewrap, Persist, End, TypeOK
  <2> QED BY <1>4, <2>1, <2>2, <2>3, <2>4 DEF Step
<1> QED BY <1>1, <1>2, <1>3, <1>4

\* The right passphrase is never reported wrong, whatever race is lost and whatever
\* upgrade was interrupted (UnlockPassphrase, deriveAndValidate).
THEOREM RightPassphraseIsNeverWrong == SourcesSpec => NeverFalselyRefused
<1>1. PInv /\ [SourcesNext]_<<vars, useKeychain, keychainVars>>
        => [\A p \in Procs : result[p] # "wrong" /\ result'[p] = "wrong"
                                => ~OldHome \/ job[p].pass # vault.pass]_vars
  <2>1. ASSUME PInv, Next, NEW q \in Procs, result[q] # "wrong", result'[q] = "wrong"
        PROVE  ~OldHome \/ job[q].pass # vault.pass
    <3>1. CASE OtherWrite
      BY <2>1, <3>1 DEF OtherWrite
    <3>2. ASSUME NEW p \in Procs, Start(p) \/ Step(p) \/ Crash(p)
          PROVE  ~OldHome \/ job[q].pass # vault.pass
      BY <2>1, <3>2, WrongIsWrong
    <3> QED BY <2>1, <3>1, <3>2 DEF Next
  <2> QED BY <2>1 DEF SourcesNext
<1> QED BY <1>1, SourcesKeep, PTL DEF SourcesSpec, NeverFalselyRefused
-----------------------------------------------------------------------------
(***************************************************************************)
(* The Keychain, for any processes, builds and numbers of keys.            *)
(***************************************************************************)

\* One process at most inits; any number upgrade.
OneInits ==
    \A p, q \in Procs : \A i \in KeychainOffered[p], j \in KeychainOffered[q] :
        i.cmd = "init" /\ j.cmd = "init" => p = q

\* Past "find" a process has a key.
HasKey == \A p \in Procs : at[p] \notin {"idle", "find"} => held[p] \in K!Keys

KeychainTypes == K!TypeOK /\ HasKey

\* A process runs what it is offered, and init only while there is no Vault.  Unless
\* it took a key from elsewhere, or before there was a Vault, what each is about to
\* store or to create is the right key.
JobsFit ==
    \A p \in Procs :
        at[p] # "idle" =>
            /\ task[p] \in KeychainOffered[p]
            /\ task[p].cmd = "init" => sealed = NoFile
            /\ at[p] \in {"store", "create"} => task[p].cmd = "init"
            /\ at[p] = "create" /\ p \notin apart /\ ~foreign =>
                  item = held[p] \/ (item = NoItem /\ pulled)
            /\ at[p] \in {"pull", "put"} /\ task[p].cmd = "upgrade" /\ p \notin apart =>
                  sealed # NoFile /\ (~foreign => held[p] = sealed)

\* Without UseKeychain there is no Vault that the item is to open, and no command
\* that reads it.
NoneElsewhere == ~useKeychain => sealed = NoFile /\ \A p \in Procs : at[p] = "idle"

KInv == KeychainTypes /\ JobsFit /\ KeychainOpens

LEMMA KeychainInit == K!Init => KInv
<1> SUFFICES ASSUME K!Init PROVE KInv
  OBVIOUS
<1>1. K!AnyJob \in K!Job
  <2>1. [cmd |-> "init", touchID |-> FALSE, build |-> "plain", given |-> NoItem] \in K!Job
    BY DEF K!Job, K!Builds
  <2> QED BY <2>1 DEF K!AnyJob
<1>2. PICK s \in KeychainStarts : item = s.item /\ sealed = s.vault
  BY DEF K!Init
<1>3. s.vault \in K!Keys \cup {NoFile} /\ s.item \in K!Keys \cup {NoItem}
  BY KeychainFits DEF K!ConstantsFit
<1>4. keys \in 0 .. MaxKeys
  <2>1. CASE {item, sealed} \cap K!Random = {}
    BY <2>1, KeychainFits DEF K!Init, K!ConstantsFit
  <2>2. CASE {item, sealed} \cap K!Random # {}
    BY <2>2, KeychainFits DEF K!Init, K!Random, K!ConstantsFit
  <2> QED BY <2>1, <2>2
<1>5. KeychainTypes
  BY <1>1, <1>2, <1>3, <1>4 DEF K!Init, K!TypeOK, KeychainTypes, HasKey
<1>6. JobsFit /\ KeychainOpens
  BY KeychainFits DEF K!Init, JobsFit, KeychainOpens, K!KeychainOpens, K!ConstantsFit
<1> QED BY <1>5, <1>6 DEF KInv

LEMMA KeychainTypesKeep == KeychainTypes /\ [K!Next]_K!vars => KeychainTypes'
<1> SUFFICES ASSUME KeychainTypes, [K!Next]_K!vars PROVE KeychainTypes'
  OBVIOUS
<1> USE DEF KeychainTypes, K!TypeOK, HasKey, K!Goto
<1>1. CASE UNCHANGED K!vars
  BY <1>1 DEF K!vars
<1>2. ASSUME NEW p \in Procs, K!Begin(p) PROVE KeychainTypes'
  <2>1. KeychainOffered[p] \subseteq K!Job
    BY KeychainFits DEF K!ConstantsFit
  <2>2. task' \in [Procs -> K!Job]
    BY <1>2, <2>1 DEF K!Begin
  <2> QED BY <1>2, <2>2 DEF K!Begin
<1>3. K!AnyJob \in K!Job
  <2>1. [cmd |-> "init", touchID |-> FALSE, build |-> "plain", given |-> NoItem] \in K!Job
    BY DEF K!Job, K!Builds
  <2> QED BY <2>1 DEF K!AnyJob
<1>4. ASSUME NEW p \in Procs, K!Refuse(p) \/ K!StoreFails(p) \/ K!CreateRefused(p) \/ K!Crash(p)
      PROVE  KeychainTypes'
  BY <1>3, <1>4 DEF K!Refuse, K!StoreFails, K!CreateRefused, K!Crash, K!Fails, K!End
<1>5. ASSUME NEW p \in Procs, K!Find(p) PROVE KeychainTypes'
  <2>1. K!Unlocks(p) \in K!Keys
    BY <1>5 DEF K!Find, K!Unlocks, K!Job
  <2>2. foreign' \in BOOLEAN /\ apart' \subseteq Procs
    BY <1>5 DEF K!Find
  <2> QED BY <1>5, <2>1, <2>2 DEF K!Find
<1>6. ASSUME NEW p \in Procs, K!FindFails(p) PROVE KeychainTypes'
  <2>1. CASE task[p].cmd = "init" /\ task[p].given = NoItem
    <3>1. keys + 1 \in 0 .. MaxKeys /\ keys + 1 \in K!Random
      BY <1>6, <2>1, KeychainFits DEF K!ConstantsFit, K!Random, K!FindFails
    <3> QED BY <1>6, <2>1, <3>1 DEF K!FindFails, K!Keys
  <2>2. CASE ~(task[p].cmd = "init" /\ task[p].given = NoItem)
    BY <1>3, <1>6, <2>2 DEF K!FindFails, K!Fails, K!End
  <2> QED BY <2>1, <2>2
<1>7. ASSUME NEW p \in Procs, K!Store(p) \/ K!Pull(p) PROVE KeychainTypes'
  BY <1>7 DEF K!Store, K!Pull
<1>8. ASSUME NEW p \in Procs, K!Put(p) PROVE KeychainTypes'
  <2>1. {foreign', pulled'} \subseteq BOOLEAN /\ item' \in K!Keys /\ UNCHANGED sealed
    BY <1>8 DEF K!Put
  <2>2. K!Stored(p)
    BY <1>8 DEF K!Put
  <2>3. CASE task[p].cmd = "init"
    BY <1>8, <2>1, <2>2, <2>3 DEF K!Put, K!Stored
  <2>4. CASE task[p].cmd # "init"
    <3>1. K!End(p, "ok")
      BY <2>2, <2>4 DEF K!Stored
    <3> QED BY <1>3, <2>1, <3>1 DEF K!End
  <2> QED BY <2>3, <2>4
<1>9. ASSUME NEW p \in Procs, K!Create(p) PROVE KeychainTypes'
  <2>1. foreign' \in BOOLEAN
    BY <1>9 DEF K!Create
  <2> QED BY <1>3, <1>9, <2>1 DEF K!Create, K!End
<1> QED BY <1>1, <1>2, <1>4, <1>5, <1>6, <1>7, <1>8, <1>9 DEF K!Next

LEMMA KeychainFitKeeps ==
    ASSUME OneInits PROVE KInv /\ [K!Next]_K!vars => JobsFit' /\ KeychainOpens'
<1> SUFFICES ASSUME KInv, [K!Next]_K!vars PROVE JobsFit' /\ KeychainOpens'
  OBVIOUS
<1> USE DEF KInv, KeychainTypes, HasKey, K!TypeOK, JobsFit, KeychainOpens, K!KeychainOpens, K!Goto
<1>1. CASE UNCHANGED K!vars
  BY <1>1 DEF K!vars
<1>2. ASSUME NEW p \in Procs, K!Begin(p) PROVE JobsFit' /\ KeychainOpens'
  BY <1>2 DEF K!Begin
<1>3. ASSUME NEW p \in Procs, K!Refuse(p) \/ K!StoreFails(p) \/ K!CreateRefused(p) \/ K!Crash(p)
      PROVE  JobsFit' /\ KeychainOpens'
  BY <1>3 DEF K!Refuse, K!StoreFails, K!CreateRefused, K!Crash, K!Fails, K!End
<1>4. ASSUME NEW p \in Procs, K!Find(p) PROVE JobsFit' /\ KeychainOpens'
  BY <1>4, OneInits, KeychainFits DEF K!Find, K!Unlocks, K!ConstantsFit, K!Job, OneInits
<1>5. ASSUME NEW p \in Procs, K!FindFails(p) PROVE JobsFit' /\ KeychainOpens'
  BY <1>5 DEF K!FindFails, K!Fails, K!End
<1>6. ASSUME NEW p \in Procs, K!Store(p) PROVE JobsFit' /\ KeychainOpens'
  BY <1>6, OneInits DEF K!Store, OneInits
<1>7. ASSUME NEW p \in Procs, K!Pull(p) PROVE JobsFit' /\ KeychainOpens'
  <2>1. /\ item' = NoItem /\ pulled' = (pulled \/ item # NoItem) /\ at' = [at EXCEPT ![p] = "put"]
        /\ UNCHANGED <<sealed, task, held, apart, foreign>> /\ at[p] = "pull"
    BY <1>7 DEF K!Pull
  <2>2. KeychainOpens'
    BY <2>1, KeychainFits DEF K!ConstantsFit
  <2>3. NoItem \notin K!Keys
    BY KeychainFits DEF K!ConstantsFit
  <2>4. ASSUME NEW q \in Procs, at[q] = "create", item = held[q] \/ (item = NoItem /\ pulled)
        PROVE  pulled'
    BY <2>1, <2>3, <2>4
  <2>5. JobsFit'
    BY <2>1, <2>4
  <2> QED BY <2>2, <2>5
<1>8. ASSUME NEW p \in Procs, K!Put(p) PROVE JobsFit' /\ KeychainOpens'
  <2>1. CASE task[p].cmd = "init"
    <3>1. /\ item' = held[p] /\ at' = [at EXCEPT ![p] = "create"] /\ sealed = NoFile
          /\ UNCHANGED <<sealed, task, held, apart>> /\ at[p] = "put"
      BY <1>8, <2>1 DEF K!Put, K!Stored
    <3> QED BY <2>1, <3>1, OneInits DEF OneInits
  <2>2. CASE task[p].cmd # "init"
    <3>1. task[p].cmd = "upgrade"
      BY <2>2 DEF K!Job
    <3>2. /\ item' = held[p] /\ at' = [at EXCEPT ![p] = "idle"]
          /\ foreign' = (foreign \/ p \in apart)
          /\ task' = [task EXCEPT ![p] = K!AnyJob] /\ held' = [held EXCEPT ![p] = NoItem]
          /\ apart' = apart \ {p} /\ UNCHANGED sealed /\ at[p] = "put"
      BY <1>8, <2>2 DEF K!Put, K!Stored, K!End
    <3>3. CASE p \in apart
      BY <3>2, <3>3
    <3>4. CASE p \notin apart
      BY <3>1, <3>2, <3>4
    <3> QED BY <3>3, <3>4
  <2> QED BY <2>1, <2>2
<1>9. ASSUME NEW p \in Procs, K!Create(p) PROVE JobsFit' /\ KeychainOpens'
  <2>1. /\ at[p] = "create" /\ sealed = NoFile /\ sealed' = held[p]
        /\ foreign' = (foreign \/ p \in apart) /\ at' = [at EXCEPT ![p] = "idle"]
        /\ task' = [task EXCEPT ![p] = K!AnyJob] /\ held' = [held EXCEPT ![p] = NoItem]
        /\ apart' = apart \ {p} /\ UNCHANGED <<item, pulled>>
    BY <1>9 DEF K!Create, K!End
  <2>2. KeychainOpens'
    BY <2>1
  <2>3. ASSUME NEW q \in Procs, q # p, at[q] # "idle"
        PROVE  task[q].cmd = "upgrade" /\ at[q] \notin {"store", "create"}
               /\ (at[q] \in {"pull", "put"} => q \in apart)
    <3>1. task[q].cmd # "init"
      BY <2>1, <2>3, OneInits DEF OneInits
    <3>2. task[q] \in K!Job
      OBVIOUS
    <3>3. task[q].cmd = "upgrade"
      BY <3>1, <3>2 DEF K!Job
    <3> QED BY <2>1, <2>3, <3>1, <3>3
  <2>4. JobsFit'
    BY <2>1, <2>3
  <2> QED BY <2>2, <2>4
<1> QED BY <1>1, <1>2, <1>3, <1>4, <1>5, <1>6, <1>7, <1>8, <1>9 DEF K!Next

\* Where the Keychain is not used, an upgrade disturbs nothing: there is no Vault
\* that the item is to open, and no command that would read it.
LEMMA ElsewhereKeeps ==
    KInv /\ NoneElsewhere /\ UpgradeElsewhere => KInv'
<1> SUFFICES ASSUME KInv, NoneElsewhere, UpgradeElsewhere PROVE KInv'
  OBVIOUS
<1>1. item' \in K!Keys \cup {NoItem}
  BY DEF UpgradeElsewhere, K!Keys
<1>2. KeychainTypes'
  BY <1>1 DEF KInv, KeychainTypes, HasKey, K!TypeOK, UpgradeElsewhere
<1>3. JobsFit' /\ KeychainOpens'
  BY DEF NoneElsewhere, UpgradeElsewhere, JobsFit, KeychainOpens, K!KeychainOpens
<1> QED BY <1>2, <1>3 DEF KInv

\* KeychainOpens in every behaviour of either kind of home, whatever fails and
\* whoever is killed, when no two inits race: the Vault is created under the key
\* that is in the item, and an upgrade of it puts back what it took out.  It says
\* nothing of a Vault made under a given key, nor of the time after an upgrade
\* stored a key that was given or read before there was a Vault (cmdInit,
\* storeKeychainKey, cmdKeychainUpgrade).
THEOREM KeyIsInTheKeychain ==
    ASSUME OneInits PROVE SourcesSpec => []KeychainOpens
<1> DEFINE I == KInv /\ NoneElsewhere
<1>1. SourcesInit => I
  BY KeychainInit DEF SourcesInit, NoneElsewhere, K!Init
<1>2. I /\ [SourcesNext]_<<vars, useKeychain, keychainVars>> => I'
  <2> SUFFICES ASSUME I, [SourcesNext]_<<vars, useKeychain, keychainVars>> PROVE I'
    OBVIOUS
  <2>1. CASE UpgradeElsewhere
    <3>1. NoneElsewhere'
      BY <2>1 DEF UpgradeElsewhere, NoneElsewhere
    <3> QED BY <2>1, <3>1, ElsewhereKeeps
  <2>2. CASE ~UpgradeElsewhere
    <3>1. [K!Next]_K!vars
      BY <2>2 DEF SourcesNext, keychainVars, K!vars
    <3>2. NoneElsewhere'
      BY <2>2 DEF SourcesNext, keychainVars, NoneElsewhere
    <3> QED BY <3>1, <3>2, KeychainTypesKeep, KeychainFitKeeps DEF KInv
  <2> QED BY <2>1, <2>2
<1>3. I => KeychainOpens
  BY DEF KInv
<1> QED BY <1>1, <1>2, <1>3, PTL DEF SourcesSpec
=============================================================================
