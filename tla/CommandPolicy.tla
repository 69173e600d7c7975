--------------------------- MODULE CommandPolicy ---------------------------
(***************************************************************************)
(* Command Policy (internal/policy), the part of Evaluate that follows a   *)
(* command string through the shell: which variables have come to hold a   *)
(* Secret, what the scripts the string itself writes contain, and how deep *)
(* shells are nested.                                                      *)
(*                                                                         *)
(* The evaluator judges the simple commands of a string in the order a     *)
(* shell would run them, before any of them has run.  So the two are put   *)
(* side by side: a step judges the next simple command with what the       *)
(* evaluator knows (tainted, written, and the disk as it was) and, unless  *)
(* it refuses, runs it on the shell's own state (env, cwd, files).  The   *)
(* string is typed line by line, so that what holds in every state holds   *)
(* for every string.  Commands succeed, one after the other: what && and   *)
(* || skip is judged as if it ran.                                         *)
(*                                                                         *)
(* What splitCommands makes of the text is the input: a simple command is  *)
(* a record, a script a Body, and a file that a string wrote piece by      *)
(* piece a sequence of Bodies.  A path is a word: the evaluator only knows *)
(* its text, the shell the file it is for.  resolveLiteral, fd aliases,    *)
(* globs, ProtectedDirs and the readers' flags are left out.               *)
(***************************************************************************)
EXTENDS Naturals, Sequences

CONSTANTS
    Var, Bound,        \* the shell's variables, and those a Secret is bound to
    Name, SecretNames, \* literal paths, as spelled, and those of Secret files
    Tilde,             \* the Names with a leading ~/
    Clean,             \* filepath.Clean, which looks at the text of a Name alone
    Computed,          \* paths such as $f, whose text only the running shell knows
    File, Place,       \* files, and the one a Name is for in each directory
    Dir, ProcessDir,   \* directories, and the one cpass itself runs in
    Body, Script,      \* texts, and the simple commands in each
    Lines,             \* the Bodies that may be typed
    Foreign,           \* the Bodies a program may leave in a file
    Disks,             \* the files there may be before the command
    MaxDepth,          \* maxDepth
    MaxLines,          \* bound: how many lines are typed
    Secret, None

Path == Name \cup Computed
Word == Path \cup Var

\* A simple command, with the words the rules look at.  A variable is given a
\* value by x=w alone, by export, by declare or typeset, by readonly or local, or
\* as the variable of a loop.
Command ==
    [op : {"assign"}, how : {"plain", "export", "declare", "readonly", "for"},
     var : Var, arg : Word]
    \cup [op : {"say"}, arg : Word, to : Path \cup {None}, append : BOOLEAN, text : Body]
    \cup [op : {"write"}, arg : Var \cup {None}, to : Path, append : BOOLEAN, text : Body]
    \cup [op : {"read"}, arg : Name \cup Var]
    \cup [op : {"wrapread"}, arg : Name, levels : {1, 2}]
    \cup [op : {"run", "wraprun"}, arg : Path]
    \cup [op : {"cd"}, dir : Dir]
    \cup [op : {"inline", "eval", "subst"}, text : Body]
    \cup [op : {"stdin"}, arg : Var \cup {None}, text : Body]
    \cup [op : {"tool", "dump"}]

Text == Seq(Body)
Folder == [File -> Text \cup {None}]
Record == [Path -> Text \cup {None}]
Nothing == [w \in Path |-> None]

Frame == [bodies : Text, line : Nat \ {0}, depth : 1..MaxDepth, child : BOOLEAN,
          env : [Var -> Path \cup {Secret, None}], cwd : Dir]

ASSUME PolicyAssumption ==
    /\ Bound \subseteq Var /\ SecretNames \subseteq Name /\ Tilde \subseteq Name
    /\ Clean \in [Name -> Name]
    /\ Place \in [Dir -> [Name -> File]] /\ ProcessDir \in Dir
    /\ Script \in [Body -> Seq(Command) \ {<<>>}]
    /\ Lines \subseteq Body /\ Foreign \subseteq Body
    /\ Disks \subseteq Folder
    /\ MaxDepth \in Nat \ {0} /\ MaxLines \in Nat
    /\ Path \cap Var = {} /\ Name \cap Computed = {}
    /\ Secret \notin Path \cup {None} /\ None \notin Word \cup Text

VARIABLES
    tainted,   \* evaluator.tainted
    written,   \* evaluator.written
    disk,      \* the files as the evaluator finds them
    env,       \* what the shell's variables hold
    cwd,       \* where the shell is
    files,     \* the files as the shell has left them
    shown,     \* history: the words by which a command was given a Secret to print
    unseen,    \* history: the variables a Secret reached past the evaluator
    frames,    \* the shells and substitutions being judged, innermost first
    phase,     \* "judging"; "refused"; or "astray": the judged script is not the one run
    typed      \* how many lines were typed

shell == <<env, cwd, files, shown, unseen>>
vars == <<tainted, written, disk, shell, frames, phase, typed>>

TypeOK ==
    /\ tainted \subseteq Var
    /\ written \in Record
    /\ disk \in Folder
    /\ env \in [Var -> Path \cup {Secret, None}]
    /\ cwd \in Dir
    /\ files \in Folder
    /\ shown \subseteq Word /\ unseen \subseteq Var
    /\ frames \in Seq(Frame) /\ frames # <<>>
    /\ phase \in {"judging", "refused", "astray"}
    /\ typed \in 0..MaxLines

\* Evaluate: a shell is itself one level below the argv that starts it.
Init ==
    /\ tainted = {}
    /\ written = Nothing
    /\ disk \in Disks
    /\ env = [x \in Var |-> IF x \in Bound THEN Secret ELSE None]
    /\ cwd \in Dir
    /\ files = disk
    /\ shown = {} /\ unseen = {}
    /\ frames = <<[bodies |-> <<>>, line |-> 1, depth |-> 1, child |-> FALSE,
                   env |-> env, cwd |-> cwd]>>
    /\ phase = "judging"
    /\ typed = 0

-----------------------------------------------------------------------------
Top == Head(frames)
Current == Script[Head(Top.bodies)][Top.line]
At(ops) == phase = "judging" /\ Top.bodies # <<>> /\ Current.op \in ops

Value(w) == IF w \in Var THEN env[w] ELSE w
References(w) == w \in Bound \cup tainted

Past(f) ==
    IF f.line < Len(Script[Head(f.bodies)])
    THEN [f EXCEPT !.line = @ + 1]
    ELSE [f EXCEPT !.bodies = Tail(@), !.line = 1]

Advance == frames' = <<Past(Top)>> \o Tail(frames) /\ UNCHANGED phase

Refuse ==
    /\ phase' = "refused"
    /\ UNCHANGED <<tainted, written, shell, frames>>

Inside(bodies, child) ==
    <<[bodies |-> bodies, line |-> 1, depth |-> Top.depth + 1,
       child |-> child, env |-> env, cwd |-> cwd],
      Past(Top)>> \o Tail(frames)

\* Mutant: beyond the limit the evaluator neither refuses nor goes on.
HangsAtLimit(bodies, child) ==
    /\ frames' = IF Top.depth = MaxDepth THEN frames ELSE Inside(bodies, child)
    /\ UNCHANGED phase

\* shell and argv refuse beyond maxDepth, so that what they cannot follow to
\* the end is never let through.
Enter(bodies, child) ==
    IF Top.depth = MaxDepth
    THEN phase' = "refused" /\ UNCHANGED frames
    ELSE frames' = Inside(bodies, child) /\ UNCHANGED phase

\* simple hands what its own cases do not settle to argv, one level down.
AtTheLimit == Top.depth = MaxDepth

\* The end of a script: what a child shell did to its variables and its
\* directory ends with it, what the evaluator took note of does not.
Return ==
    /\ phase = "judging" /\ Top.bodies = <<>> /\ Len(frames) > 1
    /\ frames' = Tail(frames)
    /\ env' = IF Top.child THEN Top.env ELSE env
    /\ cwd' = IF Top.child THEN Top.cwd ELSE cwd
    /\ UNCHANGED <<tainted, written, disk, files, shown, unseen, phase, typed>>

Idle == Top.bodies = <<>> /\ Len(frames) = 1

NextLine ==
    /\ phase = "judging" /\ Idle /\ typed < MaxLines
    /\ \E b \in Lines : frames' = <<[Top EXCEPT !.bodies = <<b>>]>>
    /\ typed' = typed + 1
    /\ UNCHANGED <<tainted, written, disk, shell, phase>>

-----------------------------------------------------------------------------
\* The assignments that simple takes note of.
Tracked == {"plain", "export", "declare"}

\* Mutant: the taint does not pass on from a variable that is itself tainted.
TaintsOnce(how, x, w) ==
    tainted' = IF how \in Tracked /\ w \in Bound THEN tainted \cup {x} ELSE tainted

Taints(how, x, w) ==
    tainted' = IF how \in Tracked /\ References(w) THEN tainted \cup {x} ELSE tainted

\* readonly, local and the head of a loop are programs like any other to the
\* evaluator; the head of a loop and declare are not in contentPreserving.
Assign ==
    /\ At({"assign"})
    /\ IF Current.how \notin Tracked /\ AtTheLimit
       THEN Refuse
       ELSE /\ Taints(Current.how, Current.var, Current.arg)
            /\ written' = IF Current.how \in {"declare", "for"} THEN Nothing ELSE written
            /\ env' = [env EXCEPT ![Current.var] = Value(Current.arg)]
            /\ unseen' = IF /\ Value(Current.arg) = Secret
                            /\ Current.how \notin Tracked \/ Current.arg \in unseen
                         THEN unseen \cup {Current.var} ELSE unseen
            /\ Advance
            /\ UNCHANGED <<cwd, files, shown>>
    /\ UNCHANGED <<disk, typed>>

\* writtenKey: the text of a path, tidied up if it is a literal.
Key(w) == IF w \in Name THEN Clean[w] ELSE w

\* The file that the shell takes a path for; of a computed one, any may be meant.
Targets(w) == IF w \in Name THEN {Place[cwd][w]} ELSE File

\* What the shell does for `> to` and `>> to`.
Output(to, append, b) ==
    \E f \in Targets(to) :
        files' = [files EXCEPT ![f] = IF append /\ @ # None THEN @ \o <<b>> ELSE <<b>>]

Given(w) == IF Value(w) = Secret THEN {w} ELSE {}

\* Mutant: a redirection leaves the entry for its target alone.
KeepsRedirected(to) == written

\* invalidateOverwrittenWrites for the redirection of a program that does not
\* otherwise write: the entry of that spelling goes, or all if it is computed.
WithoutRedirected(to) ==
    CASE to = None -> written
      [] to \in Computed -> Nothing
      [] OTHER -> [written EXCEPT ![Key(to)] = None]

\* echo and printf, which are contentPreserving printers.
Say ==
    /\ At({"say"})
    /\ IF References(Current.arg)
       THEN Refuse
       ELSE /\ written' = WithoutRedirected(Current.to)
            /\ IF Current.to = None
               THEN files' = files
               ELSE Output(Current.to, Current.append, Current.text)
            /\ shown' = shown \cup Given(Current.arg)
            /\ Advance
            /\ UNCHANGED <<tainted, env, cwd, unseen>>
    /\ UNCHANGED <<disk, typed>>

\* What cpass finds on the disk, in its own directory: as a script to judge
\* (scriptFileContent), and as what an append adds to, where it takes a leading
\* ~/ for the name of a directory.
OnDisk(w) == IF w \in Name THEN disk[Place[ProcessDir][w]] ELSE None
ToAppendTo(w) == IF w \in Tilde THEN None ELSE OnDisk(w)

Piece(text) == IF text = None THEN <<>> ELSE text

\* Mutant: an append only looks at the disk.
RecordsDisk(k, c) ==
    IF c.append THEN Piece(ToAppendTo(k)) \o <<c.text>> ELSE <<c.text>>

\* An append is put after what this string wrote under the same key and, only if
\* it wrote nothing there, after what cpass itself finds on the disk.
Records(k, c) ==
    CASE ~c.append -> <<c.text>>
      [] c.append /\ written[k] # None -> written[k] \o <<c.text>>
      [] OTHER -> Piece(ToAppendTo(k)) \o <<c.text>>

\* heredocToFileWrite: cat > to <<D, cat >> to <<D, tee [-a] to <<D.
Write ==
    /\ At({"write"})
    /\ IF References(Current.arg) \/ Current.to \in SecretNames \/ AtTheLimit
       THEN Refuse
       ELSE /\ written' = [written EXCEPT ![Key(Current.to)] = Records(Key(Current.to), Current)]
            /\ Output(Current.to, Current.append, Current.text)
            /\ shown' = shown \cup Given(Current.arg)
            /\ Advance
            /\ UNCHANGED <<tainted, env, cwd, unseen>>
    /\ UNCHANGED <<disk, typed>>

\* What cat prints of the file of that name or, by <<<, of that variable.
Printed(w) == IF w \in SecretNames THEN {w} ELSE Given(w)

\* cat, head, grep and the other readers in contentPreserving.
Read ==
    /\ At({"read"})
    /\ IF References(Current.arg) \/ Current.arg \in SecretNames \/ AtTheLimit
       THEN Refuse
       ELSE /\ shown' = shown \cup Printed(Current.arg)
            /\ Advance
            /\ UNCHANGED <<tainted, written, env, cwd, files, unseen>>
    /\ UNCHANGED <<disk, typed>>

\* A reader behind a wrapper: found among the words of one argv or, behind one
\* of wrappers, at the head of the next.
ReadWrapped ==
    /\ At({"wrapread"})
    /\ IF Top.depth + Current.levels > MaxDepth \/ Current.arg \in SecretNames
       THEN Refuse
       ELSE /\ written' = Nothing
            /\ shown' = shown \cup Printed(Current.arg)
            /\ Advance
            /\ UNCHANGED <<tainted, env, cwd, files, unseen>>
    /\ UNCHANGED <<disk, typed>>

\* env, printenv, a bare set or export, declare -p, compgen -v, set -x, bash -x.
Dump ==
    /\ At({"dump"})
    /\ Refuse
    /\ UNCHANGED <<disk, typed>>

\* Mutant: a cd leaves the record as it was.
KeepsOnCd == written

\* The record after a cd, by whatever prefix.
ClearedByCd == Nothing

\* The directory may not be there; the record goes either way.
Cd ==
    /\ At({"cd"})
    /\ written' = ClearedByCd
    /\ cwd' \in {cwd, Current.dir}
    /\ Advance
    /\ UNCHANGED <<tainted, disk, env, files, shown, unseen, typed>>

\* Any program that is not in contentPreserving may write any file it likes.
Tool ==
    /\ At({"tool"})
    /\ IF AtTheLimit
       THEN Refuse
       ELSE /\ written' = Nothing
            /\ \/ files' = files
               \/ \E f \in File, b \in Foreign : files' = [files EXCEPT ![f] = <<b>>]
            /\ Advance
            /\ UNCHANGED <<tainted, env, cwd, shown, unseen>>
    /\ UNCHANGED <<disk, typed>>

\* Mutant: the copy on the disk beats what this string wrote.
DiskFirst(w, known) ==
    IF OnDisk(w) # None THEN OnDisk(w) ELSE IF known THEN written[Key(w)] ELSE None

\* shellScriptContent: what this string wrote under the key beats the disk.
Judged(w, known) == IF known THEN written[Key(w)] ELSE OnDisk(w)

\* bash script.  Only a shell that names a recorded script itself leaves the
\* record alone; behind a wrapper such as env it clears it first.
Run ==
    /\ At({"run", "wraprun"})
    /\ LET known == Current.op = "run" /\ written[Key(Current.arg)] # None
           script == Judged(Current.arg, known)
       IN  \/ script = None /\ Refuse
           \/ /\ script # None
              /\ \E f \in Targets(Current.arg) : files[f] # script
              /\ phase' = "astray"
              /\ UNCHANGED <<tainted, written, shell, frames>>
           \/ /\ script # None
              /\ \E f \in Targets(Current.arg) : files[f] = script
              /\ written' = IF known THEN written ELSE Nothing
              /\ Enter(script, TRUE)
              /\ UNCHANGED <<tainted, shell>>
    /\ UNCHANGED <<disk, typed>>

\* sh -c text, sh <<D (whose body a shell may expand), eval text, $(text): none
\* but the last counts as a program that keeps files as they are.
Descend ==
    /\ At({"inline", "stdin", "eval", "subst"})
    /\ IF Current.op = "stdin" /\ References(Current.arg)
       THEN Refuse
       ELSE /\ written' = IF Current.op = "subst" THEN written ELSE Nothing
            /\ Enter(<<Current.text>>, Current.op # "eval")
            /\ UNCHANGED <<tainted, shell>>
    /\ UNCHANGED <<disk, typed>>

Judge ==
    \/ Assign \/ Say \/ Write \/ Read \/ ReadWrapped \/ Dump
    \/ Cd \/ Tool \/ Run \/ Descend \/ Return

Next == NextLine \/ Judge

Spec == Init /\ [][Next]_vars

\* Evaluate is one function call: it goes on to its end.
FairSpec == Spec /\ WF_vars(Judge)
-----------------------------------------------------------------------------
\* What the evaluator takes for the contents of a script this command writes is
\* what the shell will have left in that file (evaluator.written's comment).
RecordExact ==
    \A w \in Path : written[Key(w)] # None => \A f \in Targets(w) : files[f] = written[Key(w)]

\* The file that `to` names has no other spelling under which there is a record,
\* and its own key is the key of no path to another file.
OneSpelling(to) ==
    \A w \in Path :
        IF Key(w) = Key(to) THEN Targets(w) = Targets(to)
        ELSE written[Key(w)] # None => Targets(w) \cap Targets(to) = {}

\* The commands that written cannot follow: a write or a redirection to a file it
\* has under another spelling, a heredoc into a computed name, a first append to a
\* file that is not what cpass finds on its disk, and the end of a shell that went
\* elsewhere to write.
Follows ==
    /\ At({"say", "write"}) /\ Current.to \in Name => OneSpelling(Current.to)
    /\ At({"write"}) =>
          /\ Current.to \in Name
          /\ Current.append /\ written[Key(Current.to)] = None =>
                files[Place[cwd][Current.to]] = ToAppendTo(Key(Current.to))
    /\ (Top.bodies = <<>> /\ Len(frames) > 1 /\ Top.child) => (cwd = Top.cwd \/ written = Nothing)

\* No other command leaves the record of a script different from the script: not
\* a redirect or an append by a spelling that Clean makes the same, not a cd, not
\* another program and not a nested script (invalidateOverwrittenWrites' comment).
RecordStaysExact == [][RecordExact /\ Follows => RecordExact']_vars

\* While the record is exact, a script the command itself wrote is judged as
\* written, even if an older copy is on the disk, which only a wrapper brings back
\* (shellScriptContent's comment).
WrittenScriptIsJudged ==
    phase = "astray" /\ RecordExact =>
        Current.op = "wraprun" \/ written[Key(Current.arg)] = None

\* As long as the scripts that run are the ones that were judged, a command that
\* may run is given no Secret file and no Secret to print, through however many
\* variables, scripts and nested shells it is passed, unless it has been through
\* readonly, local or the head of a loop, which taint nothing (simple).
RevealsNothing == shown \subseteq unseen

\* However scripts run each other, or themselves, every command is judged in the
\* end (maxDepth).
EvaluationEnds == []<>(phase # "judging" \/ Idle)
=============================================================================
