------------------------------- MODULE RunDirs -------------------------------
(***************************************************************************)
(* The per-invocation directories of run/files.go that hold file Bindings: *)
(* newRunDir with its sweepStale, add, destroy and shredDir, as runs of    *)
(* any number of cpass processes interleave them and are killed in them.   *)
(*                                                                         *)
(* A directory's name is random and never used again; once it is gone, the *)
(* same element of Dirs may stand for another one.  One Secret file stands *)
(* for all that a directory holds.                                         *)
(***************************************************************************)
EXTENDS Naturals, FiniteSets

CONSTANTS
    Runs,      \* cpass run invocations that may be under way at once
    Dirs,      \* bound: directories that may exist at once
    MaxKills,  \* bound: kills in one behaviour
    None       \* no directory

ASSUME KillsAreBounded == MaxKills \in Nat
ASSUME NoneIsNoDir == None \notin Dirs

VARIABLES
    pc,      \* how far each run has come; "idle" if there is none
    own,     \* the directory it made
    dir,     \* the directories that exist
    pid,     \* the .pid in each: absent, unreadable, or naming its process
    file,    \* the Secret file in each
    old,     \* the directories older than staleRunDirMaxAge
    reused,  \* the directories whose dead process's pid was given out again
    todo,    \* the directories a sweep has still to look at
    shred,   \* the directory a sweep or destroy is removing, how far it has
             \* come, and whether its ReadDir saw the Secret file
    kills,   \* how many kills there have been
    caught   \* history: directories condemned before their .pid was whole

disk == <<pid, dir, file>>
world == <<old, reused, kills>>
sweeper == <<todo, shred>>
vars == <<pc, own, disk, world, sweeper, caught>>

Places == {"idle", "sweep", "mkdir", "pid-create", "pid-write", "add",
          "child", "destroy"}
ShredSteps == {"none", "list", "pid-zero", "pid-unlink", "file", "rmdir"}

TypeOK ==
    /\ pc \in [Runs -> Places]
    /\ own \in [Runs -> dir \cup {None}]
    /\ \A r \in Runs : pc[r] \in {"idle", "sweep", "mkdir"} => own[r] = None
    /\ dir \subseteq Dirs
    /\ pid \in [Dirs -> {"absent", "unreadable", "whole"}]
    /\ file \in [Dirs -> {"absent", "secret"}]
    /\ \A d \in Dirs \ dir : pid[d] = "absent" /\ file[d] = "absent"
    /\ {old, reused, caught} \subseteq SUBSET dir
    /\ todo \in [Runs -> SUBSET dir]
    /\ shred \in [Runs -> [of : dir \cup {None}, step : ShredSteps, sees : BOOLEAN]]
    /\ \A r \in Runs : shred[r].of = None <=> shred[r].step = "none"
    /\ kills \in 0 .. MaxKills

Shredding(d) == [of |-> d, step |-> "list", sees |-> FALSE]

Resting == [of |-> None, step |-> "none", sees |-> FALSE]

Init ==
    /\ pc = [r \in Runs |-> "idle"]
    /\ own = [r \in Runs |-> None]
    /\ dir = {}
    /\ pid = [d \in Dirs |-> "absent"]
    /\ file = [d \in Dirs |-> "absent"]
    /\ old = {} /\ reused = {} /\ kills = 0 /\ caught = {}
    /\ todo = [r \in Runs |-> {}]
    /\ shred = [r \in Runs |-> Resting]

\* The run goes on, in the directory it has.
Goto(r, place) ==
    /\ pc' = [pc EXCEPT ![r] = place]
    /\ UNCHANGED own

\* It is over.  Its directory, if it still exists, is nobody's.
Over(S) ==
    /\ pc' = [r \in Runs |-> IF r \in S THEN "idle" ELSE pc[r]]
    /\ own' = [r \in Runs |-> IF r \in S THEN None ELSE own[r]]

-----------------------------------------------------------------------------
(***************************************************************************)
(* newRunDir: sweepStale, Mkdir, .pid; then add.                           *)
(***************************************************************************)

\* sweepStale's ReadDir.
Start(r) ==
    /\ pc[r] = "idle"
    /\ todo' = [todo EXCEPT ![r] = dir]
    /\ Goto(r, "sweep")
    /\ UNCHANGED <<disk, world, shred, caught>>

\* The pid it names answers a kill(0).
ProcessAlive(d) == d \in reused \/ \E r \in Runs : own[r] = d

\* Mutant: every directory is stale.
TrustNoPid(d) == TRUE

\* Mutant: a .pid that names a live process is trusted for ever.
TrustPidForever(d) == pid[d] = "absent" \/ (pid[d] = "whole" /\ ~ProcessAlive(d))

Stale(d) ==
    \/ d \in old
    \/ pid[d] = "absent"
    \/ pid[d] = "whole" /\ ~ProcessAlive(d)

Sweeping(r, d) == pc[r] = "sweep" /\ shred[r] = Resting /\ d \in todo[r]

Spare(r, d) ==
    /\ Sweeping(r, d)
    /\ ~Stale(d)
    /\ todo' = [todo EXCEPT ![r] = @ \ {d}]
    /\ UNCHANGED <<pc, own, disk, world, shred, caught>>

Condemn(r, d) ==
    /\ Sweeping(r, d)
    /\ Stale(d)
    /\ todo' = [todo EXCEPT ![r] = @ \ {d}]
    /\ shred' = [shred EXCEPT ![r] = Shredding(d)]
    /\ caught' = IF pid[d] = "absent" /\ ProcessAlive(d) THEN caught \cup {d} ELSE caught
    /\ UNCHANGED <<pc, own, disk, world>>

SweepDone(r) ==
    /\ pc[r] = "sweep" /\ shred[r] = Resting /\ todo[r] = {}
    /\ Goto(r, "mkdir")
    /\ UNCHANGED <<disk, world, sweeper, caught>>

Mkdir(r) ==
    /\ pc[r] = "mkdir"
    /\ \E d \in Dirs \ dir :
          /\ dir' = dir \cup {d}
          /\ own' = [own EXCEPT ![r] = d]
    /\ pc' = [pc EXCEPT ![r] = "pid-create"]
    /\ UNCHANGED <<pid, file, world, sweeper, caught>>

\* os.WriteFile creates .pid and then writes it.
CreatePid(r) ==
    /\ pc[r] = "pid-create" /\ own[r] # None
    /\ pid' = [pid EXCEPT ![own[r]] = "unreadable"]
    /\ Goto(r, "pid-write")
    /\ UNCHANGED <<dir, file, world, sweeper, caught>>

\* The file may have been unlinked by a sweep.
WritePid(r) ==
    /\ pc[r] = "pid-write"
    /\ pid' = [d \in Dirs |-> IF d = own[r] /\ pid[d] # "absent" THEN "whole" ELSE pid[d]]
    /\ Goto(r, "add")
    /\ UNCHANGED <<dir, file, world, sweeper, caught>>

Add(r) ==
    /\ pc[r] = "add" /\ own[r] # None
    /\ file' = [file EXCEPT ![own[r]] = "secret"]
    /\ Goto(r, "child")
    /\ UNCHANGED <<pid, dir, world, sweeper, caught>>

\* newRunDir fails: its directory, if any, is left to the next sweep.
NewRunDirFails(r) ==
    /\ pc[r] \in {"mkdir", "pid-create", "pid-write"}
    /\ Over({r})
    /\ UNCHANGED <<disk, world, sweeper, caught>>

\* add fails, the child cannot start, or it exits: destroy.
EndRun(r) ==
    /\ pc[r] \in {"add", "child"}
    /\ IF own[r] = None
       THEN Over({r}) /\ UNCHANGED shred
       ELSE /\ Goto(r, "destroy")
            /\ shred' = [shred EXCEPT ![r] = Shredding(own[r])]
    /\ UNCHANGED <<disk, world, todo, caught>>

-----------------------------------------------------------------------------
(***************************************************************************)
(* shredDir, for a sweep or for destroy.  ReadDir is sorted: .pid first.   *)
(***************************************************************************)

At(r, d, step) == shred[r].of = d /\ shred[r].step = step

Then(r, step) == shred' = [shred EXCEPT ![r].step = step]

\* Mutant: the entries that were there when the run began.
ListPidOnly(r, d) ==
    /\ At(r, d, "list")
    /\ Then(r, IF pid[d] # "absent" THEN "pid-zero" ELSE "rmdir")
    /\ UNCHANGED <<pc, own, disk, world, todo, caught>>

\* shredDir ignores the errors of what follows, which are left out, as is that
\* unlinking a file makes the directory young again.
List(r, d) ==
    /\ At(r, d, "list")
    /\ shred' = [shred EXCEPT ![r] =
          [of |-> d, sees |-> file[d] # "absent",
           step |-> IF pid[d] # "absent" THEN "pid-zero"
                    ELSE IF file[d] # "absent" THEN "file" ELSE "rmdir"]]
    /\ UNCHANGED <<pc, own, disk, world, todo, caught>>

\* .pid is overwritten like any other file.
ZeroPid(r, d) ==
    /\ At(r, d, "pid-zero")
    /\ pid' = [pid EXCEPT ![d] = IF @ = "whole" THEN "unreadable" ELSE @]
    /\ Then(r, "pid-unlink")
    /\ UNCHANGED <<pc, own, dir, file, world, todo, caught>>

UnlinkPid(r, d) ==
    /\ At(r, d, "pid-unlink")
    /\ pid' = [pid EXCEPT ![d] = "absent"]
    /\ Then(r, IF shred[r].sees THEN "file" ELSE "rmdir")
    /\ UNCHANGED <<pc, own, dir, file, world, todo, caught>>

\* Overwritten and unlinked.
ShredFile(r, d) ==
    /\ At(r, d, "file")
    /\ file' = [file EXCEPT ![d] = "absent"]
    /\ Then(r, "rmdir")
    /\ UNCHANGED <<pc, own, pid, dir, world, todo, caught>>

\* os.Remove, which fails on a directory that is not empty.  destroy returns.
RmdirFails(r, d) ==
    /\ At(r, d, "rmdir")
    /\ pid[d] # "absent" \/ file[d] # "absent"
    /\ shred' = [shred EXCEPT ![r] = Resting]
    /\ IF pc[r] = "destroy" THEN Over({r}) ELSE UNCHANGED <<pc, own>>
    /\ UNCHANGED <<disk, world, todo, caught>>

\* Whoever else had the directory on a list finds it gone.
Rmdir(r, d) ==
    /\ At(r, d, "rmdir")
    /\ pid[d] = "absent" /\ file[d] = "absent"
    /\ dir' = dir \ {d} /\ old' = old \ {d} /\ reused' = reused \ {d} /\ caught' = caught \ {d}
    /\ todo' = [q \in Runs |-> todo[q] \ {d}]
    /\ shred' = [q \in Runs |-> IF shred[q].of = d THEN Resting ELSE shred[q]]
    /\ own' = [q \in Runs |-> IF own[q] = d THEN None ELSE own[q]]
    /\ pc' = [q \in Runs |-> IF pc[q] = "destroy" /\ own[q] = d THEN "idle" ELSE pc[q]]
    /\ UNCHANGED <<pid, file, kills>>

Shred(r, d) ==
    \/ List(r, d) \/ ZeroPid(r, d) \/ UnlinkPid(r, d)
    \/ ShredFile(r, d) \/ Rmdir(r, d) \/ RmdirFails(r, d)

-----------------------------------------------------------------------------
(***************************************************************************)
(* The world around them.                                                  *)
(***************************************************************************)

\* A process is killed, with every run it has in flight.
Kill(S) ==
    /\ kills < MaxKills
    /\ S # {} /\ \A r \in S : pc[r] # "idle"
    /\ kills' = kills + 1
    /\ Over(S)
    /\ todo' = [r \in Runs |-> IF r \in S THEN {} ELSE todo[r]]
    /\ shred' = [r \in Runs |-> IF r \in S THEN Resting ELSE shred[r]]
    /\ UNCHANGED <<disk, old, reused, caught>>

ReusePid(d) ==
    /\ pid[d] = "whole" /\ d \notin old /\ ~ProcessAlive(d)
    /\ reused' = reused \cup {d}
    /\ UNCHANGED <<pc, own, disk, old, kills, sweeper, caught>>

\* staleRunDirMaxAge passes.
GrowOld(d) ==
    /\ d \in dir \ old
    /\ old' = old \cup {d}
    /\ UNCHANGED <<pc, own, disk, reused, kills, sweeper, caught>>

Proceeds(r) ==
    \/ SweepDone(r) \/ Mkdir(r) \/ CreatePid(r) \/ WritePid(r)
    \/ Add(r) \/ NewRunDirFails(r) \/ EndRun(r)
    \/ \E d \in Dirs : Spare(r, d) \/ Condemn(r, d) \/ Shred(r, d)

Next ==
    \/ \E r \in Runs : Start(r) \/ Proceeds(r)
    \/ \E d \in Dirs : ReusePid(d) \/ GrowOld(d)
    \/ \E S \in SUBSET Runs : Kill(S)

Spec == Init /\ [][Next]_vars

\* Commands go on being run, and time passes.
FairSpec ==
    /\ Spec
    /\ \A r \in Runs : WF_vars(Start(r)) /\ WF_vars(Proceeds(r))
    /\ \A d \in Dirs : WF_vars(GrowOld(d))
-----------------------------------------------------------------------------
\* sweepStale's comment: it removes directories whose process is gone, or that are
\* too old.  So the child of a run that is neither finds its Secret in its file,
\* unless a sweep looked into the directory before its .pid was there.  (The file
\* goes before the directory does, so the state in between would show it.)
LiveSecretKept ==
    \A r \in Runs : pc[r] = "child" =>
        own[r] = None \/ own[r] \in old \cup caught \/ file[own[r]] = "secret"

\* A run that returns leaves no Secret on the disk, whoever sweeps meanwhile: what
\* is left was left by a kill, or has not been written.
NothingLeftBehind ==
    [][\A r \in Runs : pc[r] = "destroy" /\ pc'[r] = "idle" /\ kills' = kills
          => own[r] = None \/ file'[own[r]] = "absent"]_vars

\* A killed run's Secret is shredded in the end, even if the sweep that came for it
\* is killed too, or its pid answers for another process (staleRunDirMaxAge).
SecretsAreSwept ==
    \A d \in Dirs :
        (file[d] = "secret" /\ \A r \in Runs : own[r] # d) ~> file[d] # "secret"
=============================================================================
