----------------------------- MODULE Resolution -----------------------------
(***************************************************************************)
(* From Manifests to a child's environment: the Ref list that a directory  *)
(* gives (manifest/refs.go), what --with makes of it (cli/runcmd.go), and  *)
(* its resolution from the Vault or from a CI environment                  *)
(* (broker/broker.go).  All of it is pure.                                 *)
(*                                                                         *)
(* Handles are numbers in the order Save sorts them in, and the value of a *)
(* Secret is known by its Handle.  Bindings are the variables' names:      *)
(* whether a variable holds the value or the path of a file that does      *)
(* makes no difference here.                                               *)
(***************************************************************************)
EXTENDS Naturals, SequencesExt

CONSTANTS
    Handles,
    Names,        \* of environment variables
    DefaultName,  \* vault.DefaultBindingName of each Handle
    Absent,       \* not declared, not stored, not set
    Dirs,         \* where a command may run
    Lexical,      \* each of them and what is above it, by its path
    Physical,     \* ... and by EvalSymlinks
    Repositories, \* the directories that have a .git of their own
    Root          \* the directory of the project's Manifest

ASSUME HandlesAreOrdered == Handles \subseteq Nat /\ IsFiniteSet(Handles)
ASSUME DefaultsAreNames == DefaultName \in [Handles -> Names] /\ Absent \notin Names
ASSUME PathsGoUp ==
    /\ Lexical \in [Dirs -> Seq(Dirs)] /\ Physical \in [Dirs -> Seq(Dirs)]
    /\ Root \in Dirs /\ Repositories \subseteq Dirs

\* The declarations of a Manifest: the variable of each declared Handle.
Entries == [Handles -> Names \cup {Absent}]

Nothing == [h \in Handles |-> Absent]

Manifest == [entries : Entries, disabled : BOOLEAN]

\* Manifest.Add of an Entry without or with a Binding of its own.
Declare(entries, h, name) ==
    [entries EXCEPT ![h] = IF name = Absent THEN DefaultName[h] ELSE name]

-----------------------------------------------------------------------------
(* Refs. *)

Ref == [h : Handles, override : Names \cup {Absent}, declared : Names \cup {Absent},
        fromGlobal : BOOLEAN]

ASSUME AbsentIsNoRef == Absent \notin Ref

\* The members of S in their order.
Sorted(S) ==
    CHOOSE s \in [1..Cardinality(S) -> S] :
        /\ Range(s) = S
        /\ \A j \in DOMAIN s : \A i \in 1..j - 1 : s[i] < s[j]

\* The Refs of a Manifest's entries, in the order of the file.
RefsOf(entries, global) ==
    LET hs == Sorted({h \in Handles : entries[h] # Absent})
    IN  [i \in 1..Len(hs) |->
            [h |-> hs[i], override |-> Absent, declared |-> entries[hs[i]],
             fromGlobal |-> global]]

\* Mutant: a Handle that is there already keeps its ambient Ref.
AppendIfNew(refs, r) ==
    IF \E i \in 1..Len(refs) : refs[i].h = r.h THEN refs ELSE Append(refs, r)

\* replaceOrAppend
ReplaceOrAppend(refs, r) ==
    IF \E i \in 1..Len(refs) : refs[i].h = r.h
    THEN [i \in 1..Len(refs) |-> IF refs[i].h = r.h THEN r ELSE refs[i]]
    ELSE Append(refs, r)

\* Find, with a Manifest at Root: it walks up the path as it is written.
Finds(dir) == \E i \in 1..Len(Lexical[dir]) : Lexical[dir][i] = Root

\* Mutant: the walk is over the path as it is written.
ReachesByPath(dir) ==
    \E i \in 1..Len(Lexical[dir]) :
        /\ Lexical[dir][i] = Root
        /\ \A j \in 1..i - 1 : Lexical[dir][j] \notin Repositories

\* globalReaches: it walks up the real directories, and stops at a repository.
GlobalReaches(dir) ==
    \E i \in 1..Len(Physical[dir]) :
        /\ Physical[dir][i] = Root
        /\ \A j \in 1..i - 1 : Physical[dir][j] \notin Repositories

\* Refs, once the project's Manifest m and the Global Manifest are read.  That an
\* unreadable global.toml is skipped, and errors of a project's, are left out.
Refs(m, global, dir, includeGlobal) ==
    LET ambient == IF includeGlobal /\ ~m.disabled /\ GlobalReaches(dir)
                   THEN RefsOf(global, TRUE) ELSE <<>>
    IN  FoldLeft(ReplaceOrAppend, ambient, RefsOf(m.entries, FALSE))

\* Handles asked for by name, each with or without a variable (ParseRef).
Explicit(with) ==
    [i \in 1..Len(with) |->
        [h |-> with[i].h, override |-> with[i].override, declared |-> Absent,
         fromGlobal |-> FALSE]]

\* One --with of cmdRun: what is asked for by name is ambient no more.
WithRef(refs, w) ==
    IF \E i \in 1..Len(refs) : refs[i].h = w.h
    THEN [i \in 1..Len(refs) |->
            IF refs[i].h = w.h
            THEN [refs[i] EXCEPT !.override = w.override, !.fromGlobal = FALSE]
            ELSE refs[i]]
    ELSE Append(refs, w)

-----------------------------------------------------------------------------
(* Resolution. *)

\* What a Resolve has come to: the Secrets to inject, the Global Handles it
\* went on without, which Ref holds each variable, and why it failed.
Fresh == [got |-> <<>>, skipped |-> {}, bound |-> [n \in Names |-> Absent],
          error |-> "none"]

Fail(acc, why) == [acc EXCEPT !.error = why]

\* A Ref that cannot be resolved: fatal, unless it is ambient.
Unresolved(acc, r, why) ==
    IF r.fromGlobal THEN [acc EXCEPT !.skipped = @ \cup {r.h}] ELSE Fail(acc, why)

\* Mutant: a collision is one only between two Global Handles.
BindOverProject(acc, r, name) ==
    IF acc.bound[name] # Absent /\ acc.bound[name].fromGlobal /\ r.fromGlobal
    THEN Fail(acc, "collision")
    ELSE [acc EXCEPT !.bound[name] = r,
                     !.got = Append(@, [h |-> r.h, name |-> name,
                                        fromGlobal |-> r.fromGlobal])]

\* checkCollision, and the append that follows it.
Bind(acc, r, name) ==
    IF acc.bound[name] # Absent /\ (acc.bound[name].fromGlobal \/ r.fromGlobal)
    THEN Fail(acc, "collision")
    ELSE [acc EXCEPT !.bound[name] = r,
                     !.got = Append(@, [h |-> r.h, name |-> name,
                                        fromGlobal |-> r.fromGlobal])]

\* The first of the names given.
First(names) ==
    LET i == SelectInSeq(names, LAMBDA n : n # Absent) IN names[i]

\* resolveFromVault: one Ref after the other, until one fails.
ResolveFromVault(refs, vault) ==
    LET one(acc, r) ==
            IF acc.error # "none" THEN acc
            ELSE IF vault[r.h] = Absent THEN Unresolved(acc, r, "missing")
            ELSE Bind(acc, r, First(<<r.override, r.declared, vault[r.h]>>))
    IN  FoldLeft(one, Fresh, refs)

\* Mutant: no floor, as the Vault has one already.
ResolveFromEnvOfAnyLength(refs, environ) ==
    LET one(acc, r) ==
            LET name == First(<<r.override, r.declared, DefaultName[r.h]>>)
            IN  IF acc.error # "none" THEN acc
                ELSE IF environ[name] = Absent THEN Unresolved(acc, r, "missing")
                ELSE Bind(acc, r, name)
    IN  FoldLeft(one, Fresh, refs)

\* resolveFromEnv: environ says which variables are set, and to what length.
ResolveFromEnv(refs, environ) ==
    LET one(acc, r) ==
            LET name == First(<<r.override, r.declared, DefaultName[r.h]>>)
            IN  IF acc.error # "none" THEN acc
                ELSE IF environ[name] = Absent THEN Unresolved(acc, r, "missing")
                ELSE IF environ[name] = "short" THEN Unresolved(acc, r, "short")
                ELSE Bind(acc, r, name)
    IN  FoldLeft(one, Fresh, refs)

\* The variables Run gives its child: a later Secret overwrites an earlier one.
Environment(got) ==
    FoldLeft(LAMBDA env, s : [env EXCEPT ![s.name] = s.h],
             [n \in Names |-> Absent], got)
=============================================================================
