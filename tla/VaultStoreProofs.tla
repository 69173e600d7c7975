-------------------------- MODULE VaultStoreProofs --------------------------
(***************************************************************************)
(* Proofs of VaultStore's safety for any number of processes, Handles,     *)
(* values, keys and Saves.                                                 *)
(***************************************************************************)
EXTENDS VaultStore, TLAPS

\* The flock is held by whoever is between Acquire and Release, so by one.
LockHeld == \A p \in Procs : pc[p] \in Locked <=> lock = p

\* What a process may be about to put in the Vault's place: a new Vault if
\* there is none, else its command's effect on the Vault that is there.
OutFits(p) ==
    /\ view[p] = file
    /\ out[p] \in Envelope
    /\ out[p].nonce > NonceOf(file)
    /\ out[p].nonce < serial
    /\ IF file = NoVault
       THEN \E k \in Keys : out[p] = Envelope0(out[p].nonce, k)
       ELSE \E e \in Edits(job[p].cmd, file.entries) :
                out[p] = Sealed(file, job[p].cmd, e, out[p].nonce)

SaveFits ==
    \A p \in Procs :
        /\ pc[p] \in Saving => OutFits(p)
        /\ pc[p] = "bakdirsync" => bak = file
        /\ pc[p] = "main" /\ file # NoVault => bakDisk = file
        /\ pc[p] = "maindirsync" => out[p] = file /\ file # NoVault

\* The Vault on disk is an older generation of the Vault readers see.
DiskBehind ==
    /\ NonceOf(file) < serial
    /\ NonceOf(fileDisk) <= NonceOf(file)
    /\ acked <= NonceOf(fileDisk)
    /\ fileDisk # NoVault => file # NoVault /\ file.dataKey = fileDisk.dataKey

IInv == TypeOK /\ LockHeld /\ SaveFits /\ DiskBehind
-----------------------------------------------------------------------------
(***************************************************************************)
(* Lemmas about what a command does to the entry map.                      *)
(***************************************************************************)

\* Whatever Edits returns is an entry map again.
LEMMA EditsAreEntries ==
    ASSUME NEW c \in Command, NEW e \in Entries, NEW r \in Edits(c, e)
    PROVE  r \in Entries
<1>1. CASE c.op \in {"add", "capture"}
    <2>1. c.h \in Handles /\ c.v \in Values /\ c.exposed \in BOOLEAN
        BY <1>1 DEF Command
    <2> QED BY <1>1, <2>1 DEF Edits, AddEdits, Unless, New, Entries, Secret
<1>2. CASE c.op = "rm"
    <2>1. r = [h \in Handles |-> IF h \in c.hs THEN Absent ELSE e[h]]
        BY <1>2 DEF Edits, RemoveEdits, Unless
    <2> QED BY <2>1 DEF Entries
<1>3. CASE c.op = "mv"
    <2>1. r = [e EXCEPT ![c.to] = e[c.h], ![c.h] = Absent] /\ c.h \in Handles
        BY <1>3 DEF Edits, RenameEdits, Unless, Command
    <2> QED BY <2>1 DEF Entries
<1>4. CASE c.op \in {"mark", "clear"}
    <2>1. c.h \in Handles
        BY <1>4 DEF Command
    <2>2. PICK x \in BOOLEAN : r \in FlagEdits(e, c.h, x)
        BY <1>4 DEF Edits
    <2>3. e[c.h] \in Secret /\ r = [e EXCEPT ![c.h] = New(e[c.h].value, x)]
        BY <2>1, <2>2 DEF FlagEdits, Unless, Present, Entries
    <2> QED BY <2>1, <2>3 DEF New, Entries, Secret
<1>5. CASE c.op = "import"
    <2>1. PICK S \in SUBSET Handles : c.env \in [S -> Values]
        BY <1>5 DEF Command
    <2>2. r = Overlay(e, [h \in DOMAIN c.env |-> New(c.env[h], FALSE)])
        BY <1>5 DEF Edits, ImportEdits, Unless
    <2>3. \A h \in S : New(c.env[h], FALSE) \in Secret
        BY <2>1 DEF New, Secret
    <2> QED BY <2>1, <2>2, <2>3 DEF Overlay, Entries
<1>6. CASE c.op = "intercept"
    <2>1. c.found \in SUBSET Values /\ c.bypass \in BOOLEAN
        BY <1>6 DEF Command
    <2>2. PICK vs \in SUBSET Values :
              \E at \in Placements(e, vs) : r = Placed(e, vs, at, c.bypass)
        BY <1>6, <2>1 DEF Edits, InterceptEdits
    <2>3. PICK at \in Placements(e, vs) : r = Placed(e, vs, at, c.bypass)
        BY <2>2
    <2>4. ASSUME NEW h \in Handles, \E v \in vs : at[v] = h
          PROVE  New(CHOOSE v \in vs : at[v] = h, c.bypass) \in Secret
        BY <2>1, <2>4 DEF New, Secret
    <2> QED BY <2>3, <2>4 DEF Placed, Entries
<1>7. CASE c.op = "rewrap"
    BY <1>7 DEF Edits
<1>8. c.op \in {"create", "add", "capture", "rm", "mv", "mark", "clear",
               "import", "intercept", "rewrap"}
    BY DEF Command
<1>9. c.op # "create"
    BY DEF Edits
<1> QED BY <1>1, <1>2, <1>3, <1>4, <1>5, <1>6, <1>7, <1>8, <1>9

\* What a command other than rotate-done and rm finds flagged Exposed, it leaves in
\* the entry map, value and flag, if under another Handle.
LEMMA EditsKeepExposed ==
    ASSUME NEW c \in Command, NEW e \in Entries, NEW r \in Edits(c, e),
           c.op \notin {"clear", "rm"},
           NEW h \in Handles, e[h] # Absent, e[h].exposed
    PROVE  \E to \in Handles : r[to] = e[h]
<1>0. e[h] \in Secret /\ Present(e, h)
    BY DEF Entries, Present
<1>1. CASE c.op \in {"add", "capture"}
    <2>1. c.h \in Handles /\ ~Present(e, c.h) /\ r = [e EXCEPT ![c.h] = New(c.v, c.exposed)]
        BY <1>1 DEF Command, Edits, AddEdits, Unless
    <2> QED BY <1>0, <2>1 DEF Entries
<1>2. CASE c.op = "mv"
    <2>1. /\ c.h \in Handles /\ c.to \in Handles /\ ~Present(e, c.to)
          /\ r = [e EXCEPT ![c.to] = e[c.h], ![c.h] = Absent]
        BY <1>2 DEF Command, Edits, RenameEdits, Unless
    <2>2. CASE h = c.h
        <3>1. c.to # c.h
            BY <1>0, <2>1, <2>2
        <3>2. r[c.to] = e[h]
            BY <2>1, <2>2, <3>1 DEF Entries
        <3> QED BY <2>1, <3>2
    <2>3. CASE h # c.h
        <3>1. h # c.to
            BY <1>0, <2>1
        <3> QED BY <2>1, <2>3, <3>1 DEF Entries
    <2> QED BY <2>2, <2>3
<1>3. CASE c.op = "mark"
    <2>1. c.h \in Handles /\ r = [e EXCEPT ![c.h] = New(e[c.h].value, TRUE)]
        BY <1>3 DEF Command, Edits, FlagEdits, Unless
    <2>2. New(e[h].value, TRUE) = e[h]
        BY <1>0 DEF New, Secret
    <2> QED BY <2>1, <2>2 DEF Entries
<1>4. CASE c.op = "import"
    <2>1. h \notin DOMAIN c.env
        BY <1>0, <1>4 DEF Edits, ImportEdits, Unless
    <2>2. r = Overlay(e, [x \in DOMAIN c.env |-> New(c.env[x], FALSE)])
        BY <1>4 DEF Edits, ImportEdits, Unless
    <2> QED BY <2>1, <2>2 DEF Overlay
<1>5. CASE c.op = "intercept"
    <2>1. PICK vs : \E at \in Placements(e, vs) : r = Placed(e, vs, at, c.bypass)
        BY <1>5 DEF Edits, InterceptEdits
    <2>2. PICK at \in Placements(e, vs) : r = Placed(e, vs, at, c.bypass)
        BY <2>1
    <2>3. \A v \in vs : at[v] # h
        BY <1>0, <2>2 DEF Placements
    <2> QED BY <2>2, <2>3 DEF Placed
<1>6. CASE c.op = "rewrap"
    BY <1>6 DEF Edits
<1>7. c.op \in {"create", "add", "capture", "rm", "mv", "mark", "clear",
               "import", "intercept", "rewrap"} /\ c.op # "create"
    BY DEF Command, Edits
<1> QED BY <1>1, <1>2, <1>3, <1>4, <1>5, <1>6, <1>7

\* Save seals an envelope.
LEMMA SealedIsEnvelope ==
    ASSUME NEW c \in Command, NEW g \in Envelope, NEW n \in Nat,
           NEW e \in Edits(c, g.entries)
    PROVE  Sealed(g, c, e, n) \in Envelope
<1>1. g.entries \in Entries /\ g.wrap \in Keys /\ g.dataKey \in Nat
    BY DEF Envelope
<1>2. e \in Entries
    BY <1>1, EditsAreEntries
<1>3. WrapAfter(c, g.wrap) \in Keys
    <2>1. CASE c.op = "rewrap"
        BY <2>1 DEF Command, WrapAfter
    <2>2. CASE c.op # "rewrap"
        BY <1>1, <2>2 DEF WrapAfter
    <2> QED BY <2>1, <2>2
<1> QED BY <1>1, <1>2, <1>3 DEF Sealed, Envelope

LEMMA NewVaultIsEnvelope ==
    ASSUME NEW n \in Nat, NEW k \in Keys
    PROVE  Envelope0(n, k) \in Envelope
BY DEF Envelope0, Envelope, Empty, Entries
-----------------------------------------------------------------------------
(***************************************************************************)
(* Type correctness.                                                       *)
(***************************************************************************)
LEMMA EndType ==
    ASSUME ProcsOK, NEW p \in Procs, End(p)
    PROVE  ProcsOK'
BY DEF ProcsOK, End, FileOrNone, Places

LEMMA GotoType ==
    ASSUME ProcsOK, NEW p \in Procs, pc[p] # "idle",
           NEW place \in Places, Goto(p, place)
    PROVE  ProcsOK'
BY DEF ProcsOK, Goto

LEMMA SealType ==
    ASSUME TypeOK, NEW p \in Procs, pc[p] # "idle", NEW g \in Envelope, Seal(p, g)
    PROVE  TypeOK'
<1>1. ProcsOK'
    BY DEF Seal, TypeOK, ProcsOK, FileOrNone, Places, Locked
<1> QED BY <1>1 DEF TypeOK, Seal, files

\* The command of a running process is one of the offered ones.
LEMMA JobType ==
    ASSUME TypeOK, NEW p \in Procs, pc[p] # "idle"
    PROVE  job[p].cmd \in Command /\ job[p].key \in Keys
BY OfferedCommands DEF TypeOK, ProcsOK, Job

LEMMA UpdateSealsOut ==
    ASSUME TypeOK, NEW p \in Procs, UpdateSeals(p)
    PROVE  \E e \in Edits(job[p].cmd, file.entries) :
              /\ Sealed(file, job[p].cmd, e, serial) \in Envelope
              /\ Seal(p, Sealed(file, job[p].cmd, e, serial))
<1>1. file \in Envelope /\ serial \in Nat
    BY DEF UpdateSeals, Opens, TypeOK, FileOrNone
<1>2. job[p].cmd \in Command
    BY JobType DEF UpdateSeals
<1>3. PICK e \in Edits(job[p].cmd, file.entries) :
          Seal(p, Sealed(file, job[p].cmd, e, serial))
    BY DEF UpdateSeals
<1>4. Sealed(file, job[p].cmd, e, serial) \in Envelope
    BY <1>1, <1>2, SealedIsEnvelope
<1> QED BY <1>3, <1>4

LEMMA TypeStep ==
    ASSUME TypeOK, SaveFits, [Next]_vars
    PROVE  TypeOK'
<1> USE DEF TypeOK
<1>1. ASSUME NEW p \in Procs, Start(p) PROVE TypeOK'
    <2>1. ProcsOK'
        BY <1>1 DEF Start, ProcsOK, Job, Places
    <2> QED BY <1>1, <2>1 DEF Start, files
<1>2. ASSUME NEW p \in Procs, ProbeRefuses(p) \/ ChildFails(p) \/ AcquireTimesOut(p)
      PROVE  TypeOK'
    BY <1>2, EndType DEF ProbeRefuses, ChildFails, AcquireTimesOut, files
<1>3. ASSUME NEW p \in Procs, ProbePasses(p) \/ ChildSucceeds(p)
      PROVE  TypeOK'
    BY <1>3, GotoType DEF ProbePasses, ChildSucceeds, files, Places
<1>4. ASSUME NEW p \in Procs, FirstExistsCheck(p) PROVE TypeOK'
    BY <1>4, EndType, GotoType DEF FirstExistsCheck, files, Places
<1>5. ASSUME NEW p \in Procs, Acquire(p) PROVE TypeOK'
    BY <1>5, GotoType DEF Acquire, files, Places, Locked
<1>6. ASSUME NEW p \in Procs, Release(p) PROVE TypeOK'
    BY <1>6, EndType DEF Release, files
<1>7. ASSUME NEW p \in Procs, CreateSeals(p) PROVE TypeOK'
    BY <1>7, SealType, JobType, NewVaultIsEnvelope DEF CreateSeals
<1>8. ASSUME NEW p \in Procs, UpdateSeals(p) PROVE TypeOK'
    BY <1>8, SealType, UpdateSealsOut DEF UpdateSeals
<1>9. ASSUME NEW p \in Procs, CreateRefused(p) \/ UpdateRefused(p) \/ SaveFails(p)
      PROVE  TypeOK'
    BY <1>9, GotoType
       DEF CreateRefused, UpdateRefused, SaveFails, files, Places, Locked, Saving
<1>10. ASSUME NEW p \in Procs, SaveBackup(p) PROVE TypeOK'
    BY <1>10, GotoType DEF SaveBackup, Places, Locked
<1>11. ASSUME NEW p \in Procs, SyncBackup(p) PROVE TypeOK'
    BY <1>11, GotoType DEF SyncBackup, SyncDir, Places, Locked
<1>12. ASSUME NEW p \in Procs, RenameVault(p) PROVE TypeOK'
    BY <1>12, GotoType DEF RenameVault, ProcsOK, Places, Locked
<1>13. ASSUME NEW p \in Procs, SyncVault(p) PROVE TypeOK'
    <2>1. out[p] \in Envelope
        BY <1>13 DEF SyncVault, SaveFits, FileOrNone
    <2>2. acked' \in Nat
        BY <1>13, <2>1 DEF SyncVault, Envelope
    <2> QED BY <1>13, <2>2, GotoType DEF SyncVault, SyncDir, Places, Locked
<1>14. ASSUME NEW p \in Procs, Crash(p) PROVE TypeOK'
    BY <1>14, EndType DEF Crash, files
<1>15. CASE PowerLoss
    BY <1>15 DEF PowerLoss, ProcsOK, Places, FileOrNone
<1>16. CASE UNCHANGED vars
    BY <1>16 DEF vars, files, procs, ProcsOK
<1> QED BY <1>1, <1>2, <1>3, <1>4, <1>5, <1>6, <1>7, <1>8, <1>9, <1>10,
           <1>11, <1>12, <1>13, <1>14, <1>15, <1>16 DEF Next, Step
-----------------------------------------------------------------------------
(***************************************************************************)
(* The lock.                                                               *)
(***************************************************************************)

\* At most one process is between Acquire and Release.
LEMMA Alone ==
    ASSUME LockHeld, NEW p \in Procs, pc[p] \in Locked, NEW q \in Procs, q # p
    PROVE  pc[q] \notin Locked
BY DEF LockHeld

\* p moves, and the lock does not.
LEMMA LockKept ==
    ASSUME LockHeld, NEW p \in Procs, UNCHANGED lock,
           \A q \in Procs : q # p => pc'[q] = pc[q],
           pc'[p] \in Locked <=> pc[p] \in Locked
    PROVE  LockHeld'
BY DEF LockHeld

LEMMA LockStep ==
    ASSUME TypeOK, LockHeld, [Next]_vars
    PROVE  LockHeld'
<1> USE DEF TypeOK, ProcsOK
<1>1. ASSUME NEW p \in Procs, Start(p) PROVE LockHeld'
    BY <1>1, LockKept DEF Start, Locked
<1>2. ASSUME NEW p \in Procs, ProbeRefuses(p) \/ ChildFails(p) \/ AcquireTimesOut(p)
      PROVE  LockHeld'
    BY <1>2, LockKept DEF ProbeRefuses, ChildFails, AcquireTimesOut, End, Locked
<1>3. ASSUME NEW p \in Procs, ProbePasses(p) \/ ChildSucceeds(p)
      PROVE  LockHeld'
    BY <1>3, LockKept DEF ProbePasses, ChildSucceeds, Goto, Locked
<1>4. ASSUME NEW p \in Procs, FirstExistsCheck(p) PROVE LockHeld'
    BY <1>4, LockKept DEF FirstExistsCheck, Goto, End, Locked
<1>5. ASSUME NEW p \in Procs, Acquire(p) PROVE LockHeld'
    BY <1>5, NoProcIsNoProc DEF Acquire, LockFree, Goto, LockHeld, Locked
<1>6. ASSUME NEW p \in Procs, Release(p) PROVE LockHeld'
    BY <1>6, NoProcIsNoProc DEF Release, End, LockHeld, Locked
<1>7. ASSUME NEW p \in Procs, CreateSeals(p) \/ UpdateSeals(p) PROVE LockHeld'
    BY <1>7, LockKept DEF CreateSeals, UpdateSeals, Seal, Locked
<1>8. ASSUME NEW p \in Procs, CreateRefused(p) \/ UpdateRefused(p) \/ SaveFails(p)
      PROVE  LockHeld'
    BY <1>8, LockKept DEF CreateRefused, UpdateRefused, SaveFails, Goto, Locked, Saving
<1>9. ASSUME NEW p \in Procs,
             SaveBackup(p) \/ SyncBackup(p) \/ RenameVault(p) \/ SyncVault(p)
      PROVE  LockHeld'
    BY <1>9, LockKept DEF SaveBackup, SyncBackup, RenameVault, SyncVault, Goto, Locked
<1>10. ASSUME NEW p \in Procs, Crash(p) PROVE LockHeld'
    BY <1>10, NoProcIsNoProc DEF Crash, End, LockHeld, Locked
<1>11. CASE PowerLoss
    BY <1>11, NoProcIsNoProc DEF PowerLoss, LockHeld, Locked
<1>12. CASE UNCHANGED vars
    BY <1>12 DEF vars, procs, LockHeld
<1> QED BY <1>1, <1>2, <1>3, <1>4, <1>5, <1>6, <1>7, <1>8, <1>9, <1>10,
           <1>11, <1>12 DEF Next, Step

-----------------------------------------------------------------------------
(***************************************************************************)
(* What is about to be saved, and what is on disk.                         *)
(***************************************************************************)

\* p moves to a place where it is not saving, the files stay as they are.
LEMMA NotSaving ==
    ASSUME SaveFits, DiskBehind, NEW p \in Procs,
           UNCHANGED <<files, serial, acked>>,
           pc'[p] \notin Saving \cup {"maindirsync"},
           \A q \in Procs : q # p =>
               /\ pc'[q] = pc[q] /\ job'[q] = job[q]
               /\ view'[q] = view[q] /\ out'[q] = out[q]
    PROVE  SaveFits' /\ DiskBehind'
<1>1. DiskBehind'
    BY DEF DiskBehind, NonceOf, files
<1>2. ASSUME NEW q \in Procs, q # p, OutFits(q) PROVE OutFits(q)'
    BY <1>2 DEF OutFits, NonceOf, files
<1>3. SaveFits'
    BY <1>2 DEF SaveFits, Saving, files
<1> QED BY <1>1, <1>3

\* p holds the lock, so what p has sealed is all there is to look at.
LEMMA OnlySaver ==
    ASSUME LockHeld, NEW p \in Procs, pc[p] \in Locked,
           \A q \in Procs : q # p => pc'[q] = pc[q],
           /\ pc'[p] \in Saving => OutFits(p)'
           /\ pc'[p] = "bakdirsync" => bak' = file'
           /\ pc'[p] = "main" /\ file' # NoVault => bakDisk' = file'
           /\ pc'[p] = "maindirsync" => out'[p] = file' /\ file' # NoVault
    PROVE  SaveFits'
<1>1. \A q \in Procs : q # p => pc'[q] \notin Locked
    BY Alone
<1> QED BY <1>1 DEF SaveFits, Saving, Locked

LEMMA SaveStep ==
    ASSUME TypeOK, LockHeld, SaveFits, DiskBehind, [Next]_vars
    PROVE  SaveFits' /\ DiskBehind'
<1> USE DEF TypeOK, ProcsOK
<1>1. ASSUME NEW p \in Procs, Start(p) PROVE SaveFits' /\ DiskBehind'
    BY <1>1, NotSaving DEF Start, Saving
<1>2. ASSUME NEW p \in Procs, ProbeRefuses(p) \/ ChildFails(p) \/ AcquireTimesOut(p)
                                \/ Release(p) \/ Crash(p)
      PROVE  SaveFits' /\ DiskBehind'
    BY <1>2, NotSaving
       DEF ProbeRefuses, ChildFails, AcquireTimesOut, Release, Crash, End, Saving
<1>3. ASSUME NEW p \in Procs,
             \/ ProbePasses(p) \/ ChildSucceeds(p) \/ Acquire(p)
             \/ CreateRefused(p) \/ UpdateRefused(p) \/ SaveFails(p)
      PROVE  SaveFits' /\ DiskBehind'
    BY <1>3, NotSaving
       DEF ProbePasses, ChildSucceeds, Acquire, CreateRefused, UpdateRefused,
           SaveFails, Goto, Saving
<1>4. ASSUME NEW p \in Procs, FirstExistsCheck(p) PROVE SaveFits' /\ DiskBehind'
    BY <1>4, NotSaving DEF FirstExistsCheck, Goto, End, Saving
<1>5. ASSUME NEW p \in Procs, CreateSeals(p) PROVE SaveFits' /\ DiskBehind'
    <2> DEFINE g == Envelope0(serial, job[p].key)
    <2>1. g \in Envelope /\ g.nonce = serial /\ job[p].key \in Keys
        BY <1>5, JobType, NewVaultIsEnvelope DEF CreateSeals, Envelope0
    <2>2. Seal(p, g) /\ file = NoVault
        BY <1>5 DEF CreateSeals
    <2>3. OutFits(p)'
        BY <2>1, <2>2 DEF Seal, OutFits, DiskBehind, files
    <2>4. SaveFits'
        BY <1>5, <2>3, OnlySaver DEF CreateSeals, Seal, Locked
    <2>5. DiskBehind'
        BY <2>2 DEF Seal, DiskBehind, NonceOf, files
    <2> QED BY <2>4, <2>5
<1>6. ASSUME NEW p \in Procs, UpdateSeals(p) PROVE SaveFits' /\ DiskBehind'
    <2>1. PICK e \in Edits(job[p].cmd, file.entries) :
              /\ Sealed(file, job[p].cmd, e, serial) \in Envelope
              /\ Seal(p, Sealed(file, job[p].cmd, e, serial))
        BY <1>6, UpdateSealsOut
    <2> DEFINE g == Sealed(file, job[p].cmd, e, serial)
    <2>2. file # NoVault /\ g.nonce = serial /\ NonceOf(file) < serial
        BY <1>6 DEF UpdateSeals, Opens, Sealed, DiskBehind
    <2>3. OutFits(p)'
        BY <2>1, <2>2 DEF Seal, OutFits, files
    <2>4. SaveFits'
        BY <1>6, <2>3, OnlySaver DEF UpdateSeals, Seal, Locked
    <2>5. DiskBehind'
        BY <2>1 DEF Seal, DiskBehind, NonceOf, FileOrNone, Envelope, files
    <2> QED BY <2>4, <2>5
<1>7. ASSUME NEW p \in Procs, SaveBackup(p) PROVE SaveFits' /\ DiskBehind'
    <2>1. OutFits(p)'
        BY <1>7 DEF SaveBackup, SaveFits, Saving, OutFits, Goto
    <2>2. SaveFits'
        BY <1>7, <2>1, OnlySaver DEF SaveBackup, Goto, Locked
    <2> QED BY <1>7, <2>2 DEF SaveBackup, DiskBehind
<1>8. ASSUME NEW p \in Procs, SyncBackup(p) PROVE SaveFits' /\ DiskBehind'
    <2>1. OutFits(p)' /\ bak = file
        BY <1>8 DEF SyncBackup, SyncDir, SaveFits, Saving, OutFits, Goto
    <2>2. SaveFits'
        BY <1>8, <2>1, OnlySaver DEF SyncBackup, SyncDir, Goto, Locked
    <2> QED BY <1>8, <2>2 DEF SyncBackup, SyncDir, DiskBehind, NonceOf, FileOrNone, Envelope
<1>9. ASSUME NEW p \in Procs, RenameVault(p) PROVE SaveFits' /\ DiskBehind'
    <2>1. OutFits(p) /\ out[p] # NoVault
        BY <1>9, NoVaultIsNoEnvelope DEF RenameVault, SaveFits, Saving, OutFits
    <2>2. SaveFits'
        BY <1>9, <2>1, OnlySaver DEF RenameVault, Goto, Locked, Saving
    <2>3. out[p].nonce \in Nat /\ NonceOf(out[p]) = out[p].nonce
        BY <2>1 DEF OutFits, NonceOf, Envelope
    <2>4. NonceOf(file) \in Nat /\ NonceOf(fileDisk) \in Nat
        BY DEF FileOrNone, NonceOf, Envelope
    <2>5. file # NoVault => out[p].dataKey = file.dataKey
        BY <2>1 DEF OutFits, Sealed
    <2>6. file' = out[p] /\ UNCHANGED <<fileDisk, serial, acked>>
        BY <1>9 DEF RenameVault
    <2>8. DiskBehind'
        BY <2>1, <2>3, <2>4, <2>5, <2>6 DEF DiskBehind, OutFits
    <2> QED BY <2>2, <2>8
<1>10. ASSUME NEW p \in Procs, SyncVault(p) PROVE SaveFits' /\ DiskBehind'
    <2>1. SaveFits'
        BY <1>10, OnlySaver DEF SyncVault, Goto, Locked, Saving
    <2>2. out[p] = file /\ file # NoVault
        BY <1>10 DEF SyncVault, SaveFits
    <2>3. DiskBehind'
        BY <1>10, <2>2
           DEF SyncVault, SyncDir, DiskBehind, NonceOf, FileOrNone, Envelope
    <2> QED BY <2>1, <2>3
<1>11. CASE PowerLoss
    <2>1. SaveFits'
        BY <1>11 DEF PowerLoss, SaveFits, Saving
    <2>2. DiskBehind'
        BY <1>11 DEF PowerLoss, DiskBehind, NonceOf, FileOrNone, Envelope
    <2> QED BY <2>1, <2>2
<1>12. CASE UNCHANGED vars
    BY <1>12 DEF vars, files, procs, SaveFits, OutFits, DiskBehind
<1> QED BY <1>1, <1>2, <1>3, <1>4, <1>5, <1>6, <1>7, <1>8, <1>9, <1>10,
           <1>11, <1>12 DEF Next, Step
-----------------------------------------------------------------------------
(***************************************************************************)
(* The theorems.                                                           *)
(***************************************************************************)

LEMMA InitInv == Init => IInv
BY NoProcIsNoProc
   DEF Init, IInv, TypeOK, ProcsOK, FileOrNone, Places, LockHeld, Locked,
       SaveFits, Saving, DiskBehind, NonceOf

LEMMA Inductive == IInv /\ [Next]_vars => IInv'
BY TypeStep, LockStep, SaveStep DEF IInv

\* The inductive invariant: every variable is well typed, one process at most is
\* between Acquire and Release, what it is about to save fits the Vault it
\* overwrites, and the disk never falls behind what was reported saved.
THEOREM InvariantHolds == Spec => []IInv
<1>1. Init => IInv
    BY InitInv
<1>2. IInv /\ [Next]_vars => IInv'
    BY Inductive
<1> QED BY <1>1, <1>2, PTL DEF Spec

\* vault.Create, vault.Update and Save keep every file, lock and process state
\* well formed for any number of processes, commands, keys and Saves.
THEOREM TypeCorrect == Spec => []TypeOK
<1>1. IInv => TypeOK
    BY DEF IInv
<1> QED BY <1>1, InvariantHolds, PTL

\* vault.Update's exclusion: whoever is about to overwrite vault.cpv started
\* from exactly the generation it overwrites.
THEOREM NoUpdateIsLost == Spec => []NoLostUpdate
<1>1. IInv => NoLostUpdate
    BY DEF IInv, SaveFits, OutFits, NoLostUpdate
<1> QED BY <1>1, InvariantHolds, PTL

\* A Save that returned nil is on disk and is never reverted, whatever crashes
\* and power losses follow.
THEOREM AckedSaveSurvives == Spec => []AckedSurvives
<1>1. IInv => AckedSurvives
    <2> SUFFICES ASSUME IInv PROVE AckedSurvives
        OBVIOUS
    <2>1. NonceOf(file) \in Nat /\ NonceOf(fileDisk) \in Nat /\ acked \in Nat
        BY DEF IInv, TypeOK, FileOrNone, NonceOf, Envelope
    <2> QED BY <2>1 DEF IInv, DiskBehind, AckedSurvives
<1> QED BY <1>1, InvariantHolds, PTL

\* The Vault file changes in no other way than by a rename of a sealed
\* generation or by a power loss.
LEMMA FileChanges ==
    ASSUME [Next]_vars, file' # file
    PROVE  \/ \E p \in Procs : RenameVault(p)
           \/ PowerLoss
BY DEF Next, Step, vars, files, Start, ProbeRefuses, ProbePasses, ChildSucceeds, ChildFails,
       FirstExistsCheck, Acquire, AcquireTimesOut, Release, CreateSeals, CreateRefused,
       UpdateSeals, UpdateRefused, Seal, SaveBackup, SyncBackup, SyncDir, SyncVault,
       SaveFails, Crash

\* Save never overwrites a generation that vault.cpv.bak does not durably hold.
THEOREM BackupFirst == Spec => BackupBeforeOverwrite
<1> DEFINE A == file' # file /\ file # NoVault => bakDisk = file \/ file' = fileDisk
<1>1. IInv /\ [Next]_vars => [A]_vars
    <2> SUFFICES ASSUME IInv, [Next]_vars, file' # file, file # NoVault
                 PROVE  bakDisk = file \/ file' = fileDisk
        OBVIOUS
    <2>1. CASE \E p \in Procs : RenameVault(p)
        BY <2>1 DEF RenameVault, IInv, SaveFits
    <2>2. CASE PowerLoss
        BY <2>2 DEF PowerLoss
    <2> QED BY <2>1, <2>2, FileChanges
<1> QED BY <1>1, InvariantHolds, PTL DEF Spec, BackupBeforeOverwrite

\* Racing inits never replace a Vault's data key, and nothing else does.
THEOREM DataKeyIsForever == Spec => DataKeyForever
<1> DEFINE A == file # NoVault => IF file' = NoVault
                                 THEN fileDisk = NoVault
                                 ELSE file'.dataKey = file.dataKey
<1>1. IInv /\ [Next]_vars => [A]_vars
    <2> SUFFICES ASSUME IInv, [Next]_vars, file' # file, file # NoVault
                 PROVE  A
        OBVIOUS
    <2>1. CASE \E p \in Procs : RenameVault(p)
        <3>1. PICK p \in Procs : RenameVault(p)
            BY <2>1
        <3>2. OutFits(p) /\ file' = out[p]
            BY <3>1 DEF RenameVault, IInv, SaveFits, Saving
        <3>3. PICK e : out[p] = Sealed(file, job[p].cmd, e, out[p].nonce)
            BY <3>2 DEF OutFits
        <3>4. out[p].dataKey = file.dataKey
            BY <3>3 DEF Sealed
        <3>5. out[p] # NoVault
            BY <3>2, NoVaultIsNoEnvelope DEF OutFits
        <3> QED BY <3>2, <3>4, <3>5
    <2>2. CASE PowerLoss
        BY <2>2 DEF PowerLoss, IInv, DiskBehind
    <2> QED BY <2>1, <2>2, FileChanges
<1> QED BY <1>1, InvariantHolds, PTL DEF Spec, DataKeyForever

\* An Exposed value stays in the Vault, and flagged, until rotate-done or rm, for
\* any interleaving of commands and crashes; a power loss may only take the Vault
\* back to what is on disk.
THEOREM ExposedStaysExposed == Spec => ExposedUntilRotated
<1> DEFINE Kept == \A h \in Handles : file.entries[h] # Absent /\ file.entries[h].exposed =>
                       \E to \in Handles : file'.entries[to] = file.entries[h]
<1>1. IInv /\ [Next]_vars =>
        [file # NoVault /\ file' # file =>
            file' = fileDisk \/ Saves("clear") \/ Saves("rm") \/ Kept]_vars
    <2> SUFFICES ASSUME IInv, [Next]_vars, file' # file, file # NoVault,
                        file' # fileDisk, ~Saves("clear"), ~Saves("rm")
                 PROVE  Kept
        OBVIOUS
    <2>1. PICK p \in Procs : RenameVault(p)
        BY FileChanges DEF PowerLoss
    <2>2. pc[p] = "main" /\ pc'[p] = "maindirsync" /\ OutFits(p) /\ file' = out[p]
        BY <2>1 DEF RenameVault, Goto, IInv, TypeOK, ProcsOK, SaveFits, Saving
    <2>3. job[p].cmd \in Command /\ job[p].cmd.op \notin {"clear", "rm"}
        BY <2>2, JobType DEF IInv, Saves
    <2>4. PICK e \in Edits(job[p].cmd, file.entries) :
              out[p] = Sealed(file, job[p].cmd, e, out[p].nonce)
        BY <2>2 DEF OutFits
    <2>5. file'.entries = e
        BY <2>2, <2>4 DEF Sealed
    <2>6. file.entries \in Entries
        BY DEF IInv, TypeOK, FileOrNone, Envelope
    <2> QED BY <2>3, <2>5, <2>6, EditsKeepExposed
<1> QED BY <1>1, InvariantHolds, PTL DEF Spec, ExposedUntilRotated

-----------------------------------------------------------------------------
(***************************************************************************)
(* VaultStore implements AtomicVault.                                      *)
(***************************************************************************)

\* AtomicVault's own copies of VaultEntries' definitions are the same ones.
LEMMA SameEntries ==
    /\ \A n, k : Atomic!Envelope0(n, k) = Envelope0(n, k)
    /\ \A g, c, e, n : Atomic!Sealed(g, c, e, n) = Sealed(g, c, e, n)
    /\ \A c, e : Atomic!Edits(c, e) = Edits(c, e)
<1>1. \A n, k : Atomic!Envelope0(n, k) = Envelope0(n, k)
    BY DEF Atomic!Envelope0, Envelope0, Atomic!Empty, Empty
<1>2. \A g, c, e, n : Atomic!Sealed(g, c, e, n) = Sealed(g, c, e, n)
    BY DEF Atomic!Sealed, Sealed, Atomic!WrapAfter, WrapAfter
<1>3. \A c, e : Atomic!Edits(c, e) = Edits(c, e)
    BY DEF Atomic!Edits, Edits, Atomic!AddEdits, AddEdits,
           Atomic!RemoveEdits, RemoveEdits, Atomic!RenameEdits, RenameEdits,
           Atomic!FlagEdits, FlagEdits, Atomic!ImportEdits, ImportEdits,
           Atomic!InterceptEdits, InterceptEdits, Atomic!Placements, Placements,
           Atomic!Placed, Placed, Atomic!Overlay, Overlay, Atomic!New, New,
           Atomic!Present, Present, Atomic!Unless, Unless
<1> QED BY <1>1, <1>2, <1>3

LEMMA RenameImplements ==
    ASSUME IInv, NEW p \in Procs, RenameVault(p)
    PROVE  Atomic!Create \/ \E c \in Offered : Atomic!Commit(c)
<1>1. /\ OutFits(p) /\ out[p] # NoVault /\ file' = out[p]
      /\ UNCHANGED fileDisk /\ job[p].cmd \in Offered
    BY NoVaultIsNoEnvelope
       DEF RenameVault, IInv, SaveFits, Saving, OutFits, TypeOK, ProcsOK, Job
<1>2. CASE file = NoVault
    BY <1>1, <1>2, SameEntries DEF OutFits, Atomic!Create
<1>3. CASE file # NoVault
    <2>1. Atomic!Commit(job[p].cmd)
        BY <1>1, <1>3, SameEntries DEF OutFits, NonceOf, Atomic!Commit
    <2> QED BY <1>1, <2>1
<1> QED BY <1>2, <1>3

\* What is on disk changes only to what readers already see, or in a power loss.
LEMMA DiskChanges ==
    ASSUME [Next]_vars, fileDisk' # fileDisk
    PROVE  (fileDisk' = file /\ UNCHANGED file) \/ PowerLoss
BY DEF Next, Step, vars, files, Start, ProbeRefuses, ProbePasses, ChildSucceeds, ChildFails,
       FirstExistsCheck, Acquire, AcquireTimesOut, Release, CreateSeals, CreateRefused,
       UpdateSeals, UpdateRefused, Seal, SaveBackup, SyncBackup, SyncDir, RenameVault,
       SyncVault, SaveFails, Crash

\* To whoever only sees vault.cpv, any number of concurrent, crashing cpass
\* processes are one sequence of whole commands, with power losses between.
THEOREM Refinement == Spec => ImplementsAtomicVault
<1>1. Init => Atomic!Init
    BY DEF Init, Atomic!Init
<1>2. IInv /\ [Next]_vars => [Atomic!Next]_<<file, fileDisk>>
    <2> SUFFICES ASSUME IInv, [Next]_vars, <<file, fileDisk>>' # <<file, fileDisk>>
                 PROVE  Atomic!Next
        OBVIOUS
    <2>1. CASE \E p \in Procs : RenameVault(p)
        BY <2>1, RenameImplements DEF Atomic!Next
    <2>2. CASE PowerLoss
        BY <2>2 DEF PowerLoss, Atomic!Next, Atomic!PowerLoss, Atomic!Persist
    <2>3. CASE fileDisk' = file /\ UNCHANGED file
        BY <2>3 DEF Atomic!Next, Atomic!Persist
    <2> QED BY <2>1, <2>2, <2>3, FileChanges, DiskChanges
<1> QED BY <1>1, <1>2, InvariantHolds, PTL
        DEF Spec, ImplementsAtomicVault, Atomic!Spec
=============================================================================
