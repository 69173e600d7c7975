---------------------------- MODULE Declarations ----------------------------
(***************************************************************************)
(* The files that say which Handles a command gets, the project's Manifest *)
(* and the Global Manifest, and the cpass processes that read and rewrite  *)
(* them next to the Vault: manifest init|add|global, global, local,        *)
(* add [-g], import, rm and run.                                           *)
(*                                                                         *)
(* Every file is written by atomicfile.Write, so a Save is one step; what  *)
(* is not one step is reading a Manifest, changing it and saving it, for   *)
(* which UpdateGlobal holds a lock and the project's Manifest has none.    *)
(* A write of the Vault is one step, which is what VaultStore implements.  *)
(***************************************************************************)
EXTENDS Resolution

CONSTANTS
    Procs,       \* cpass processes
    Offered,     \* the command lines they run, as records of an op
    EnvFile,     \* the .env file to import: the variable each Handle comes from
    NoFile,      \* the Manifest does not exist
    NoProc

NameOrNone == Names \cup {Absent}

\* toggle is `manifest global on|off`, declare `manifest add`, which declares
\* globally with -g, as `cpass global` does; off is also init's --no-global;
\* listed is run_with_secrets with a list of Handles; environ is CI mode's.
CommandLine ==
    [op : {"init", "toggle"}, off : BOOLEAN]
        \cup [op : {"declare", "global"}, h : Handles, name : NameOrNone]
        \cup [op : {"add"}, h : Handles, name : NameOrNone, g : BOOLEAN]
        \cup [op : {"local", "rm"}, h : Handles]
        \cup [op : {"import"}, keep : BOOLEAN]
        \cup [op : {"run"}, dir : Dirs, with : Seq([h : Handles, override : NameOrNone]),
              listed : BOOLEAN, noGlobal : BOOLEAN,
              environ : [Names -> {"long", "short", Absent}] \cup {Absent}]

ASSUME OfferedAreCommandLines == Offered \subseteq CommandLine
ASSUME EnvFileHasHandles ==
    DOMAIN EnvFile \subseteq Handles /\ EnvFile \in [DOMAIN EnvFile -> Names]
ASSUME NobodyIsNoProc == NoProc \notin Procs

VARIABLES
    vault,    \* the variable name stored with each Handle
    project,  \* .claudepass.toml
    global,   \* global.toml
    dotenv,   \* the .env file: plain, zeroed or gone
    lock,     \* who holds global.toml.lock
    pc,       \* how far each process has come
    job,      \* its command line
    copy,     \* the Manifest it has read, of the file it is to write or use
    refs,     \* the Refs its run is to resolve
    result,   \* what its run's Resolve returned
    stored,   \* history: the Handles that have ever been in the Vault
    declared  \* history: the Handles the project's Manifest has ever declared

files == <<vault, project, global, dotenv>>
history == <<stored, declared>>
vars == <<files, lock, pc, job, copy, refs, result, history>>

Idle == [op |-> "none"]
Blank == [entries |-> Nothing, disabled |-> FALSE]

Places == {"idle", "vault", "load", "save", "zero", "unlink", "lock", "gload", "gsave",
           "refs", "global", "resolve", "child"}

Init ==
    /\ vault = Nothing /\ project = NoFile /\ global = Nothing /\ dotenv = "plain"
    /\ lock = NoProc
    /\ pc = [p \in Procs |-> "idle"]
    /\ job = [p \in Procs |-> Idle]
    /\ copy = [p \in Procs |-> Blank]
    /\ refs = [p \in Procs |-> <<>>]
    /\ result = [p \in Procs |-> Fresh]
    /\ stored = {} /\ declared = {}

Goto(p, where) == pc' = [pc EXCEPT ![p] = where]

\* The process is over; a flock it holds goes with it.
End(p) ==
    /\ Goto(p, "idle")
    /\ job' = [job EXCEPT ![p] = Idle]
    /\ copy' = [copy EXCEPT ![p] = Blank]
    /\ refs' = [refs EXCEPT ![p] = <<>>]
    /\ result' = [result EXCEPT ![p] = Fresh]
    /\ lock' = IF lock = p THEN NoProc ELSE lock

\* It goes on.
Keeps == UNCHANGED <<job, refs, result, lock>>

Holds(p, m) == copy' = [copy EXCEPT ![p] = m]

-----------------------------------------------------------------------------
(* Commands begin. *)

\* What the command has to find before it does anything, and where it goes on.
Begins(j) ==
    CASE j.op = "init"                 -> [if |-> project = NoFile, at |-> "save"]
      [] j.op \in {"toggle", "declare"} -> [if |-> project # NoFile, at |-> "load"]
      [] j.op \in {"global", "local"}   -> [if |-> TRUE, at |-> "lock"]
      [] j.op = "import"               -> [if |-> dotenv = "plain", at |-> "vault"]
      [] j.op \in {"add", "rm"}         -> [if |-> TRUE, at |-> "vault"]
      [] j.op = "run"                  -> [if |-> TRUE, at |-> "refs"]

Start(p, j) ==
    /\ pc[p] = "idle"
    /\ Begins(j).if
    /\ Goto(p, Begins(j).at)
    /\ job' = [job EXCEPT ![p] = j]
    /\ Holds(p, [Blank EXCEPT !.disabled = j.op = "init" /\ j.off])
    /\ UNCHANGED <<files, lock, refs, result, history>>

-----------------------------------------------------------------------------
(* The Vault's writes. *)

\* Entries, and others stored over them.
Overlay(entries, names) ==
    [h \in Handles |-> IF h \in DOMAIN names THEN names[h] ELSE entries[h]]

Store(names) ==
    /\ vault' = Overlay(vault, names)
    /\ stored' = stored \cup DOMAIN names

\* Mutant: the .env file is shredded as soon as its Secrets are stored.
ImportVaultAndShred(p) ==
    /\ pc[p] = "vault" /\ job[p].op = "import"
    /\ IF \E h \in DOMAIN EnvFile : vault[h] # Absent
       THEN End(p) /\ UNCHANGED <<vault, stored>>
       ELSE /\ Store(EnvFile)
            /\ Goto(p, "zero") /\ Keeps /\ UNCHANGED copy
    /\ UNCHANGED <<project, global, dotenv, declared>>

\* import's updateVault: all of the file's entries or none.
ImportVault(p) ==
    /\ pc[p] = "vault" /\ job[p].op = "import"
    /\ IF \E h \in DOMAIN EnvFile : vault[h] # Absent
       THEN End(p) /\ UNCHANGED <<vault, stored>>
       ELSE /\ Store(EnvFile)
            /\ Goto(p, "load") /\ Keeps /\ UNCHANGED copy
    /\ UNCHANGED <<project, global, dotenv, declared>>

\* add, and add -g, which declares the Handle once it is stored.
AddVault(p) ==
    /\ pc[p] = "vault" /\ job[p].op = "add"
    /\ IF vault[job[p].h] # Absent
       THEN End(p) /\ UNCHANGED <<vault, stored>>
       ELSE /\ Store([h \in {job[p].h} |-> Declare(Nothing, h, job[p].name)[h]])
            /\ IF job[p].g
               THEN Goto(p, "lock") /\ Keeps /\ UNCHANGED copy
               ELSE End(p)
    /\ UNCHANGED <<project, global, dotenv, declared>>

RemoveFromVault(p) ==
    /\ pc[p] = "vault" /\ job[p].op = "rm"
    /\ vault' = [vault EXCEPT ![job[p].h] = Absent]
    /\ End(p)
    /\ UNCHANGED <<project, global, dotenv, history>>

-----------------------------------------------------------------------------
(* The project's Manifest: read, changed and saved, with no lock. *)

\* loadManifest and findOrNewManifest.
LoadProject(p) ==
    /\ pc[p] = "load"
    /\ Holds(p, IF project = NoFile THEN Blank ELSE project)
    /\ Goto(p, "save") /\ Keeps
    /\ UNCHANGED <<files, history>>

\* What the command makes of the Manifest it has read.
Changed(j, m) ==
    CASE j.op = "init"    -> m
      [] j.op = "toggle"  -> [m EXCEPT !.disabled = j.off]
      [] j.op = "declare" -> [m EXCEPT !.entries = Declare(@, j.h, j.name)]
      [] j.op = "import"  -> [m EXCEPT !.entries = Overlay(@, EnvFile)]

SaveProject(p) ==
    /\ pc[p] = "save"
    /\ project' = Changed(job[p], copy[p])
    /\ declared' = declared \cup {h \in Handles : project'.entries[h] # Absent}
    /\ IF job[p].op = "import" /\ ~job[p].keep
       THEN Goto(p, "zero") /\ Keeps /\ UNCHANGED copy
       ELSE End(p)
    /\ UNCHANGED <<vault, global, dotenv, stored>>

\* shredFile: zeros, and then the unlink; another import may have been first.
Zero(p) ==
    /\ pc[p] = "zero"
    /\ IF dotenv = "gone"
       THEN End(p) /\ UNCHANGED dotenv
       ELSE dotenv' = "zeroed" /\ Goto(p, "unlink") /\ Keeps /\ UNCHANGED copy
    /\ UNCHANGED <<vault, project, global, history>>

Unlink(p) ==
    /\ pc[p] = "unlink"
    /\ dotenv' = "gone"
    /\ End(p)
    /\ UNCHANGED <<vault, project, global, history>>

-----------------------------------------------------------------------------
(* UpdateGlobal: the lock, and under it the Manifest as it is. *)

\* Mutant: the lock of another process does not matter.
AcquireAnyway(p) ==
    /\ pc[p] = "lock"
    /\ lock' = p
    /\ Goto(p, "gload")
    /\ UNCHANGED <<files, job, copy, refs, result, history>>

AcquireGlobal(p) ==
    /\ pc[p] = "lock" /\ lock = NoProc
    /\ lock' = p
    /\ Goto(p, "gload")
    /\ UNCHANGED <<files, job, copy, refs, result, history>>

AcquireTimesOut(p) ==
    /\ pc[p] = "lock" /\ lock # NoProc
    /\ End(p)
    /\ UNCHANGED <<files, history>>

LoadGlobal(p) ==
    /\ pc[p] = "gload"
    /\ Holds(p, [Blank EXCEPT !.entries = global])
    /\ Goto(p, "gsave") /\ Keeps
    /\ UNCHANGED <<files, history>>

\* local of a Handle that is not declared changes nothing.
SaveGlobal(p) ==
    /\ pc[p] = "gsave"
    /\ global' = IF job[p].op = "local"
                 THEN [copy[p].entries EXCEPT ![job[p].h] = Absent]
                 ELSE Declare(copy[p].entries, job[p].h, job[p].name)
    /\ End(p)
    /\ UNCHANGED <<vault, project, dotenv, history>>

-----------------------------------------------------------------------------
(* run: the project's Manifest, the Global Manifest and the Vault are read *)
(* one after the other, each as it is then.                                *)

\* Refs' Find and Load; a list of Handles given to run_with_secrets needs none.
ReadProject(p) ==
    /\ pc[p] = "refs"
    /\ Holds(p, IF job[p].listed \/ ~Finds(job[p].dir) THEN NoFile ELSE project)
    /\ Goto(p, "global") /\ Keeps
    /\ UNCHANGED <<files, history>>

\* The rest of Refs, and cmdRun's --with or the list.
ReadGlobal(p) ==
    LET base == IF copy[p] = NoFile THEN <<>>
                ELSE Refs(copy[p], global, job[p].dir, ~job[p].noGlobal)
    IN  /\ pc[p] = "global"
        /\ refs' = [refs EXCEPT ![p] =
               IF job[p].listed THEN Explicit(job[p].with)
               ELSE FoldLeft(WithRef, base, Explicit(job[p].with))]
        /\ Goto(p, "resolve")
        /\ UNCHANGED <<files, lock, job, copy, result, history>>

\* Resolve, against the Vault or in CI mode: if it fails nothing runs.
Resolve(p) ==
    LET resolved == IF job[p].environ = Absent
                    THEN ResolveFromVault(refs[p], vault)
                    ELSE ResolveFromEnv(refs[p], job[p].environ)
    IN  /\ pc[p] = "resolve"
        /\ IF resolved.error # "none"
           THEN End(p)
           ELSE /\ result' = [result EXCEPT ![p] = resolved]
                /\ Goto(p, "child")
                /\ UNCHANGED <<lock, job, copy, refs>>
        /\ UNCHANGED <<files, history>>

ChildExits(p) ==
    /\ pc[p] = "child"
    /\ End(p)
    /\ UNCHANGED <<files, history>>

Kill(p) ==
    /\ pc[p] # "idle"
    /\ End(p)
    /\ UNCHANGED <<files, history>>

Next ==
    \E p \in Procs :
        \/ \E j \in Offered : Start(p, j)
        \/ ImportVault(p) \/ AddVault(p) \/ RemoveFromVault(p)
        \/ LoadProject(p) \/ SaveProject(p) \/ Zero(p) \/ Unlink(p)
        \/ AcquireGlobal(p) \/ AcquireTimesOut(p) \/ LoadGlobal(p) \/ SaveGlobal(p)
        \/ ReadProject(p) \/ ReadGlobal(p) \/ Resolve(p) \/ ChildExits(p)
        \/ Kill(p)

Spec == Init /\ [][Next]_vars

-----------------------------------------------------------------------------
(* What the commands promise. *)

TypeOK ==
    /\ vault \in Entries /\ global \in Entries
    /\ project \in Manifest \cup {NoFile}
    /\ dotenv \in {"plain", "zeroed", "gone"}
    /\ pc \in [Procs -> Places]
    /\ \A p \in Procs :
         /\ job[p] \in IF pc[p] = "idle" THEN {Idle} ELSE Offered
         /\ copy[p] \in Manifest \cup {NoFile}
         /\ \A i \in 1..Len(refs[p]) : refs[p][i] \in Ref
         /\ pc[p] \in {"gload", "gsave"} <=> lock = p
         /\ pc[p] = "child" \/ result[p] = Fresh
         /\ refs[p] = <<>> \/ pc[p] \in {"resolve", "child"}
    /\ {stored, declared} \subseteq SUBSET Handles

\* A Global declaration changes only by a command about its Handle: two
\* commands at once lose nothing of each other's (UpdateGlobal's lock).
GlobalDeclarationsKept ==
    [][\A h \in Handles :
         global'[h] # global[h] =>
            \E p \in Procs : job[p].op \in {"global", "local", "add"} /\ job[p].h = h
                             /\ pc[p] # "idle" /\ pc'[p] = "idle"]_vars

\* The plaintext of a .env file goes only when each of its Secrets has been
\* stored and each of its Handles declared, at whatever step import is killed
\* (cmdImport's order).
PlaintextGoesLast ==
    dotenv # "plain" => DOMAIN EnvFile \subseteq stored \cap declared

\* What runs with Secrets is given every Handle that its project's Manifest, as
\* it was read, declares: under the declared name unless --with gave another,
\* never as a Global Handle, in a variable that holds it unless another Handle
\* that was asked for has the same one, and in CI mode with a value that is long
\* enough to be redacted (Refs, Resolve, Run).
RunGetsItsContract ==
    \A p \in Procs :
        LET got == result[p].got
            given(h, s) ==
                /\ s.h = h /\ ~s.fromGlobal
                /\ \/ s.name = copy[p].entries[h]
                   \/ \E w \in 1..Len(job[p].with) :
                        job[p].with[w] = [h |-> h, override |-> s.name]
                /\ job[p].environ = Absent \/ job[p].environ[s.name] = "long"
                /\ \/ Environment(got)[s.name] = h
                   \/ \E j \in 1..Len(got) :
                        got[j].name = s.name /\ got[j].h # h /\ ~got[j].fromGlobal
        IN  (pc[p] = "child" /\ copy[p] # NoFile) =>
                \A h \in Handles : copy[p].entries[h] # Absent =>
                    \E i \in 1..Len(got) : given(h, got[i])

\* A Global Handle that was injected is what its variable holds, and the only one
\* that asked for it, whatever the order of the Refs (checkCollision).
Uncontested(got) ==
    \A i, j \in 1..Len(got) : got[i].fromGlobal =>
        /\ got[i].name = got[j].name => i = j
        /\ Environment(got)[got[i].name] = got[i].h

\* A Global Handle is ambient and no more: it contests no variable of a child,
\* and it reaches a run only in a project whose Manifest, as it was read, does
\* not opt out, with no repository between its directory and the Manifest's by
\* any link, not against --no-global and never among Handles that were listed
\* (Refs, globalReaches, checkCollision).
GlobalIsAmbient ==
    \A p \in Procs :
        (pc[p] = "child" /\ \E i \in 1..Len(refs[p]) : refs[p][i].fromGlobal) =>
            /\ Uncontested(result[p].got)
            /\ copy[p] # NoFile /\ ~copy[p].disabled
            /\ ~job[p].noGlobal /\ ~job[p].listed
            /\ LET real == Physical[job[p].dir]
                   repos == {i \in 1..Len(real) : real[i] \in Repositories}
               IN  \E i \in 1..Len(real) : real[i] = Root /\ \A k \in repos : k >= i
=============================================================================
