----------------------------- MODULE VaultStore -----------------------------
(***************************************************************************)
(* Concurrent cpass processes writing one Vault: vault.Create and          *)
(* vault.Update around lockfile.Acquire/Release, and Save's two            *)
(* atomicfile.Writes (vault.cpv.bak, then vault.cpv).                      *)
(*                                                                         *)
(* A member of Procs is a cpass process, or one tool call of the MCP       *)
(* server: both take the flock through a descriptor of their own.  It runs *)
(* one command after another, any of which may be killed at any step.      *)
(*                                                                         *)
(* A rename is visible at once and survives a power loss once its          *)
(* directory is fsynced, so each file is kept twice: as readers see it     *)
(* (file, bak) and as a power loss leaves it at worst (fileDisk, bakDisk). *)
(***************************************************************************)
EXTENDS VaultEntries

CONSTANTS
    Procs,      \* the processes and tool calls that write the Vault
    NoProc,     \* nobody holds the lock
    NoVault,    \* no such file
    NoJob,      \* an idle process
    Offered,    \* the commands in use
    MaxSaves    \* bound: no command starts once this many Saves were sealed

ASSUME NoProcIsNoProc == NoProc \notin Procs
ASSUME OfferedCommands == Offered \subseteq Command
ASSUME NoVaultIsNoEnvelope == NoVault \notin Envelope

VARIABLES
    file, bak,          \* vault.cpv and vault.cpv.bak as a reader sees them
    fileDisk, bakDisk,  \* ... and as fsynced
    lock,               \* the holder of vault.cpv.lock
    pc,                 \* how far each process has come
    job,                \* its command and unlock key
    view,               \* the generation its Open read
    out,                \* the generation its Save writes
    serial,             \* the nonce the next Save seals with
    acked               \* history: the newest nonce a command reported saved

files == <<file, bak, fileDisk, bakDisk>>
procs == <<pc, job, view, out>>
vars == <<files, lock, procs, serial, acked>>

Job == [cmd : Offered, key : Keys]

\* Where a process may stand: between acquiring and releasing the lock ...
Locked == {"recheck", "open", "backup", "bakdirsync", "main", "maindirsync", "release"}

\* ... with a generation of its own, sealed and not yet visible ...
Saving == {"backup", "bakdirsync", "main"}

\* ... or anywhere at all.
Places == {"idle", "probe", "child", "exists", "lock"} \cup Locked

FileOrNone == Envelope \cup {NoVault}

ProcsOK ==
    /\ pc \in [Procs -> Places]
    /\ job \in [Procs -> Job \cup {NoJob}]
    /\ \A p \in Procs : pc[p] # "idle" => job[p] \in Job
    /\ view \in [Procs -> FileOrNone]
    /\ out \in [Procs -> FileOrNone]

\* Every process is somewhere, with a command in hand unless it is idle, and
\* every file, nonce and lock holder is one.
TypeOK ==
    /\ {file, bak, fileDisk, bakDisk} \subseteq FileOrNone
    /\ ProcsOK
    /\ lock \in Procs \cup {NoProc}
    /\ serial \in Nat \ {0}
    /\ acked \in Nat

Init ==
    /\ file = NoVault /\ bak = NoVault
    /\ fileDisk = NoVault /\ bakDisk = NoVault
    /\ lock = NoProc
    /\ pc = [p \in Procs |-> "idle"]
    /\ job = [p \in Procs |-> NoJob]
    /\ view = [p \in Procs |-> NoVault]
    /\ out = [p \in Procs |-> NoVault]
    /\ serial = 1
    /\ acked = 0

-----------------------------------------------------------------------------
Goto(p, place) ==
    /\ pc' = [pc EXCEPT ![p] = place]
    /\ UNCHANGED <<job, view, out>>

\* Mutant: an error path that reports and then falls through, not returning.
EndNoReturn(p) ==
    /\ job' = [job EXCEPT ![p] = NoJob]
    /\ view' = [view EXCEPT ![p] = NoVault]
    /\ out' = [out EXCEPT ![p] = NoVault]
    /\ UNCHANGED pc

\* p's command is over, and its memory gone.
End(p) ==
    /\ pc' = [pc EXCEPT ![p] = "idle"]
    /\ job' = [job EXCEPT ![p] = NoJob]
    /\ view' = [view EXCEPT ![p] = NoVault]
    /\ out' = [out EXCEPT ![p] = NoVault]

\* vault.Open succeeds: there is a Vault and the key unwraps its data key.
Opens(p) == file # NoVault /\ file.wrap = job[p].key

(***************************************************************************)
(* A command starts.  Its unlock key was resolved before the lock is       *)
(* taken, so it may be stale by now, or plainly wrong.  add and capture    *)
(* open the Vault once, unlocked, before they ask for a value or run the   *)
(* child; init tests Exists unlocked; every other command goes straight to *)
(* vault.Update.                                                           *)
(***************************************************************************)
Start(p) ==
    /\ pc[p] = "idle"
    /\ serial <= MaxSaves
    /\ \E c \in Offered, k \in Keys :
          /\ job' = [job EXCEPT ![p] = [cmd |-> c, key |-> k]]
          /\ pc' = [pc EXCEPT ![p] =
                       IF c.op \in {"add", "capture"} THEN "probe"
                       ELSE IF c.op = "create" THEN "exists" ELSE "lock"]
    /\ UNCHANGED <<files, lock, view, out, serial, acked>>

\* The probe finds no Vault it can open, or capture's Handle already taken.
ProbeRefuses(p) ==
    /\ pc[p] = "probe"
    /\ Opens(p) => job[p].cmd.op = "capture" /\ Present(file.entries, job[p].cmd.h)
    /\ End(p)
    /\ UNCHANGED <<files, lock, serial, acked>>

ProbePasses(p) ==
    /\ pc[p] = "probe"
    /\ Opens(p)
    /\ job[p].cmd.op = "capture" => ~Present(file.entries, job[p].cmd.h)
    /\ Goto(p, "child")
    /\ UNCHANGED <<files, lock, serial, acked>>

\* The human typed the value, or the child printed it and exited with 0.
ChildSucceeds(p) ==
    /\ pc[p] = "child"
    /\ Goto(p, "lock")
    /\ UNCHANGED <<files, lock, serial, acked>>

\* No terminal to type into, or the child was refused, failed or cancelled.
ChildFails(p) ==
    /\ pc[p] = "child"
    /\ End(p)
    /\ UNCHANGED <<files, lock, serial, acked>>

\* vault.Create's first Exists.
FirstExistsCheck(p) ==
    /\ pc[p] = "exists"
    /\ IF file # NoVault THEN End(p) ELSE Goto(p, "lock")
    /\ UNCHANGED <<files, lock, serial, acked>>

-----------------------------------------------------------------------------
\* Mutant: the lock that always succeeds (lockfile_windows.go).
LockAlwaysFree == TRUE

\* flock(LOCK_EX | LOCK_NB) would succeed.
LockFree == lock = NoProc

Acquire(p) ==
    /\ pc[p] = "lock"
    /\ LockFree
    /\ lock' = p
    /\ Goto(p, IF job[p].cmd.op = "create" THEN "recheck" ELSE "open")
    /\ UNCHANGED <<files, serial, acked>>

\* Mutant: Acquire keeps polling and never gives up.
AcquireNeverTimesOut(p) == pc[p] = "lock" /\ ~LockFree /\ UNCHANGED vars

\* The lock was still taken when DefaultTimeout ran out.
AcquireTimesOut(p) ==
    /\ pc[p] = "lock"
    /\ ~LockFree
    /\ End(p)
    /\ UNCHANGED <<files, lock, serial, acked>>

\* Update's and Create's deferred Release.
Release(p) ==
    /\ pc[p] = "release"
    /\ lock' = NoProc
    /\ End(p)
    /\ UNCHANGED <<files, serial, acked>>

\* Mutant: Save seals with the nonce of the Save before it.
SealReusesNonce(p, g) ==
    /\ view' = [view EXCEPT ![p] = file]
    /\ out' = [out EXCEPT ![p] = g]
    /\ pc' = [pc EXCEPT ![p] = "backup"]
    /\ UNCHANGED <<files, lock, job, serial, acked>>

\* The command has a generation to save: g, made from what it read.
Seal(p, g) ==
    /\ view' = [view EXCEPT ![p] = file]
    /\ out' = [out EXCEPT ![p] = g]
    /\ serial' = serial + 1
    /\ pc' = [pc EXCEPT ![p] = "backup"]
    /\ UNCHANGED <<files, lock, job, acked>>

\* Mutant: Create trusts the Exists it called before it had the lock.
CreateNoRecheck(p) ==
    /\ pc[p] = "recheck"
    /\ Seal(p, Envelope0(serial, job[p].key))

\* Create under the lock, once its second Exists found no Vault.
CreateSeals(p) ==
    /\ pc[p] = "recheck"
    /\ file = NoVault
    /\ Seal(p, Envelope0(serial, job[p].key))

CreateRefused(p) ==
    /\ pc[p] = "recheck"
    /\ file # NoVault
    /\ Goto(p, "release")
    /\ UNCHANGED <<files, lock, serial, acked>>

\* Update reopens the Vault under the lock and fn returns nil.
UpdateSeals(p) ==
    /\ pc[p] = "open"
    /\ Opens(p)
    /\ \E e \in Edits(job[p].cmd, file.entries) :
          Seal(p, Sealed(file, job[p].cmd, e, serial))

\* Mutant: Update returns fn's error without releasing the lock.
UpdateRefusedKeepsLock(p) ==
    /\ pc[p] = "open"
    /\ Opens(p) => Edits(job[p].cmd, file.entries) = {}
    /\ End(p)
    /\ UNCHANGED <<files, lock, serial, acked>>

\* Open fails, or fn returns an error: nothing is saved.
UpdateRefused(p) ==
    /\ pc[p] = "open"
    /\ Opens(p) => Edits(job[p].cmd, file.entries) = {}
    /\ Goto(p, "release")
    /\ UNCHANGED <<files, lock, serial, acked>>
-----------------------------------------------------------------------------
(***************************************************************************)
(* Save.  atomicfile.Write stages its file under a unique name, fsyncs it, *)
(* renames it into place and fsyncs the directory; only the last two are   *)
(* visible to anyone else.                                                 *)
(***************************************************************************)

\* Mutant: Save overwrites without keeping a backup.
SaveNoBackup(p) ==
    /\ pc[p] = "backup"
    /\ Goto(p, "main")
    /\ UNCHANGED <<files, lock, serial, acked>>

\* The rename of vault.cpv.bak; a brand-new Vault has nothing to back up.
SaveBackup(p) ==
    /\ pc[p] = "backup"
    /\ IF file = NoVault
       THEN bak' = bak /\ Goto(p, "main")
       ELSE bak' = file /\ Goto(p, "bakdirsync")
    /\ UNCHANGED <<file, fileDisk, bakDisk, lock, serial, acked>>

\* Mutant: the directory is not fsynced after the rename.
SyncNothing == UNCHANGED files

\* One fsync covers every rename in the directory, the Vault's included.
SyncDir ==
    /\ fileDisk' = file
    /\ bakDisk' = bak
    /\ UNCHANGED <<file, bak>>

SyncBackup(p) ==
    /\ pc[p] = "bakdirsync"
    /\ SyncDir
    /\ Goto(p, "main")
    /\ UNCHANGED <<lock, serial, acked>>

RenameVault(p) ==
    /\ pc[p] = "main"
    /\ file' = out[p]
    /\ Goto(p, "maindirsync")
    /\ UNCHANGED <<bak, fileDisk, bakDisk, lock, serial, acked>>

\* Save returns nil, so the command goes on to report success.
SyncVault(p) ==
    /\ pc[p] = "maindirsync"
    /\ SyncDir
    /\ acked' = out[p].nonce
    /\ Goto(p, "release")
    /\ UNCHANGED <<lock, serial>>

\* Any of Save's system calls may fail.  Once the Vault is renamed this
\* reports an error for a change that every reader already sees.
SaveFails(p) ==
    /\ pc[p] \in Saving \cup {"maindirsync"}
    /\ Goto(p, "release")
    /\ UNCHANGED <<files, lock, serial, acked>>

-----------------------------------------------------------------------------
\* kill -9, or a panic: the kernel closes the descriptor and so the flock.
Crash(p) ==
    /\ pc[p] # "idle"
    /\ End(p)
    /\ lock' = IF lock = p THEN NoProc ELSE lock
    /\ UNCHANGED <<files, serial, acked>>

\* Each rename that was not fsynced may or may not have reached the disk.
PowerLoss ==
    /\ file' \in {file, fileDisk}
    /\ bak' \in {bak, bakDisk}
    /\ fileDisk' = file'
    /\ bakDisk' = bak'
    /\ lock' = NoProc
    /\ pc' = [p \in Procs |-> "idle"]
    /\ job' = [p \in Procs |-> NoJob]
    /\ view' = [p \in Procs |-> NoVault]
    /\ out' = [p \in Procs |-> NoVault]
    /\ UNCHANGED <<serial, acked>>

\* The steps a running process takes of its own accord.
Step(p) ==
    \/ ProbeRefuses(p) \/ ProbePasses(p) \/ FirstExistsCheck(p)
    \/ Acquire(p) \/ AcquireTimesOut(p) \/ Release(p)
    \/ CreateSeals(p) \/ CreateRefused(p)
    \/ UpdateSeals(p) \/ UpdateRefused(p)
    \/ SaveBackup(p) \/ SyncBackup(p) \/ RenameVault(p) \/ SyncVault(p)
    \/ SaveFails(p)

Next ==
    \/ \E p \in Procs :
          Start(p) \/ Step(p) \/ ChildSucceeds(p) \/ ChildFails(p) \/ Crash(p)
    \/ PowerLoss

Spec == Init /\ [][Next]_vars

\* A process the kernel schedules keeps executing its next instruction.  A
\* child, or the human at the prompt, may take forever.
FairSpec == Spec /\ \A p \in Procs : WF_vars(Step(p))
-----------------------------------------------------------------------------
(***************************************************************************)
(* What Update's comment promises: two processes writing at once can never *)
(* race each other's Open -> mutate -> Save and drop one of their changes. *)
(* Whoever is about to overwrite the Vault made its generation from the    *)
(* one it overwrites, whatever ran between its Open and its rename.        *)
(***************************************************************************)
NoLostUpdate == \A p \in Procs : pc[p] \in Saving => view[p] = file

NonceOf(f) == IF f = NoVault THEN 0 ELSE f.nonce

\* What a command reported as saved is never reverted: not by a later writer,
\* and, as Save's comment says, not by a power loss right after the report.
AckedSurvives == acked <= NonceOf(file) /\ acked <= NonceOf(fileDisk)

\* Save overwrites a generation only while vault.cpv.bak durably holds it, so
\* that a botched generation can always be undone; a power loss may only take
\* the Vault back to the generation already on disk.
BackupBeforeOverwrite ==
    [][file' # file /\ file # NoVault => bakDisk = file \/ file' = fileDisk]_vars

\* Two inits that race never create two Vaults, the second taking the data key
\* from under the first (Create's comment): a Vault keeps its data key for good.
\* Only a Vault whose creation was never made durable can vanish, in a power
\* loss.
DataKeyForever ==
    [][file # NoVault =>
          IF file' = NoVault THEN fileDisk = NoVault
                             ELSE file'.dataKey = file.dataKey]_vars

\* Seen through the Vault file alone, the processes are one sequence of whole
\* commands, each run on the result of the one before it.
Atomic == INSTANCE AtomicVault WITH store <- file, durable <- fileDisk
ImplementsAtomicVault == Atomic!Spec

\* p's rename is what changed the Vault just now, for a command of this kind.
Saves(op) == \E p \in Procs :
    pc[p] = "main" /\ pc'[p] = "maindirsync" /\ job[p].cmd.op = op

\* A value once flagged Exposed stays in the Vault and stays flagged, under
\* whatever Handle mv gives it and whatever else is imported, captured or
\* intercepted meanwhile, until rotate-done clears it or rm deletes it.
ExposedUntilRotated ==
    [][file # NoVault /\ file' # file =>
          \/ file' = fileDisk \/ Saves("clear") \/ Saves("rm")
          \/ \A h \in Handles : file.entries[h] # Absent /\ file.entries[h].exposed =>
                \E to \in Handles : file'.entries[to] = file.entries[h]]_vars

\* A command that asks for the lock is over in the end, as it gets its turn or
\* Acquire times out, and then the lock is not its own: every error path of
\* Update, Create and Save gives it back.
WriterReturns == \A p \in Procs : pc[p] = "lock" ~> (pc[p] = "idle" /\ lock # p)
=============================================================================
