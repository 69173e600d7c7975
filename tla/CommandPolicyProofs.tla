------------------------ MODULE CommandPolicyProofs ------------------------
(***************************************************************************)
(* Proofs of CommandPolicy's safety for any scripts, paths, variables and  *)
(* nesting limit.                                                          *)
(***************************************************************************)
EXTENDS CommandPolicy, TLAPS

\* A frame that is not at the end of its script has a command to judge.
Positioned(f) == f.line <= IF f.bodies = <<>> THEN 1 ELSE Len(Script[Head(f.bodies)])

\* The shell passes a Secret on only to variables the evaluator knows of, unless
\* it went through an assignment that the evaluator takes no note of.
Marked(e) == \A x \in Var : e[x] = Secret => x \in Bound \cup tainted \cup unseen

Good == {f \in Frame : Positioned(f) /\ Marked(f.env)}

\* What the steps preserve: the variables of every shell there is, or will be
\* again when a child ends, hold a Secret only if they are bound or tainted or
\* were reached past the evaluator, and only the last are given to be printed.
IInv == TypeOK /\ frames \in Seq(Good) /\ Marked(env) /\ shown \subseteq unseen
-----------------------------------------------------------------------------
(***************************************************************************)
(* Lemmas about the stack of shells.                                       *)
(***************************************************************************)
LEMMA StackPush ==
    ASSUME NEW S, NEW s \in Seq(S), s # <<>>, NEW e \in S, NEW f \in S
    PROVE  /\ <<e>> \o Tail(s) \in Seq(S) \ {<<>>}
           /\ <<e, f>> \o Tail(s) \in Seq(S) \ {<<>>}
           /\ Tail(s) \in Seq(S)
           /\ Head(s) \in S
<1>1. Tail(s) \in Seq(S) /\ Head(s) \in S
    OBVIOUS
<1>2. <<e>> \in Seq(S) /\ <<e, f>> \in Seq(S)
    OBVIOUS
<1>3. <<e>> \o Tail(s) \in Seq(S) /\ <<e, f>> \o Tail(s) \in Seq(S)
    BY <1>1, <1>2
<1>4. Len(<<e>> \o Tail(s)) = 1 + Len(Tail(s)) /\ Len(<<e, f>> \o Tail(s)) = 2 + Len(Tail(s))
    BY <1>1, <1>2
<1>5. Len(Tail(s)) \in Nat
    BY <1>1
<1> QED BY <1>1, <1>3, <1>4, <1>5

LEMMA StackMonotone ==
    ASSUME NEW S, NEW T, S \subseteq T, NEW s \in Seq(S)
    PROVE  s \in Seq(T)
OBVIOUS

LEMMA NonEmpty ==
    ASSUME NEW S, NEW s \in Seq(S), s # <<>>
    PROVE  Len(s) \in Nat \ {0}
OBVIOUS

LEMMA ScriptsAreNotEmpty ==
    ASSUME NEW b \in Body
    PROVE  Script[b] \in Seq(Command) /\ Len(Script[b]) \in Nat \ {0}
<1>1. Script[b] \in Seq(Command) \ {<<>>}
    BY PolicyAssumption
<1> HIDE DEF Command
<1> QED BY <1>1, NonEmpty

\* Neither the taint nor what it missed shrinks, so a good frame stays one.
LEMMA GoodStays ==
    ASSUME tainted \subseteq tainted', unseen \subseteq unseen'
    PROVE  Good \subseteq Good'
BY DEF Good, Marked, Positioned

LEMMA TopIsGood ==
    ASSUME IInv
    PROVE  Top \in Good /\ Tail(frames) \in Seq(Good)
BY DEF IInv, TypeOK, Top

\* The command a step judges, and the frame without it.
LEMMA CurrentIsCommand ==
    ASSUME IInv, NEW ops, At(ops)
    PROVE  Current \in Command /\ Current.op \in ops
<1>1. Top \in Frame /\ Positioned(Top) /\ Top.bodies # <<>>
    BY TopIsGood DEF Good, At
<1>2. Head(Top.bodies) \in Body /\ Top.line \in Nat \ {0}
    BY <1>1 DEF Frame, Text
<1>3. Script[Head(Top.bodies)] \in Seq(Command)
    BY <1>2, PolicyAssumption
<1>4. Top.line \in 1..Len(Script[Head(Top.bodies)])
    BY <1>1, <1>2, <1>3 DEF Positioned
<1> QED BY <1>3, <1>4 DEF Current, At

LEMMA PastIsGood ==
    ASSUME IInv, Top.bodies # <<>>
    PROVE  Past(Top) \in Good
<1>1. Top \in Frame /\ Positioned(Top) /\ Marked(Top.env)
    BY TopIsGood DEF Good
<1>2. Top.bodies \in Seq(Body) /\ Top.line \in Nat \ {0}
    BY <1>1 DEF Frame, Text
<1>3. Script[Head(Top.bodies)] \in Seq(Command)
    BY <1>2, PolicyAssumption
<1>4. CASE Top.line < Len(Script[Head(Top.bodies)])
    <2>1. Past(Top) = [Top EXCEPT !.line = @ + 1]
        BY <1>4 DEF Past
    <2>2. Past(Top) \in Frame /\ Positioned(Past(Top)) /\ Past(Top).env = Top.env
        <3>1. Top.line + 1 \in Nat \ {0} /\ Top.line + 1 <= Len(Script[Head(Top.bodies)])
            BY <1>2, <1>3, <1>4
        <3> QED BY <1>1, <2>1, <3>1 DEF Frame, Positioned
    <2> QED BY <1>1, <2>2 DEF Good
<1>5. CASE ~(Top.line < Len(Script[Head(Top.bodies)]))
    <2>1. Past(Top) = [Top EXCEPT !.bodies = Tail(@), !.line = 1]
        BY <1>5 DEF Past
    <2>2. Tail(Top.bodies) \in Seq(Body)
        BY <1>2
    <2>3. Past(Top) \in Frame /\ Past(Top).env = Top.env
        <3>1. 1 \in Nat \ {0}
            OBVIOUS
        <3>2. Tail(Top.bodies) \in Text
            BY <2>2 DEF Text
        <3> QED BY <1>1, <2>1, <3>1, <3>2 DEF Frame
    <2>4. ASSUME Tail(Top.bodies) # <<>>
          PROVE  1 <= Len(Script[Head(Tail(Top.bodies))])
        <3>1. Head(Tail(Top.bodies)) \in Body
            BY <2>2, <2>4
        <3> DEFINE n == Len(Script[Head(Tail(Top.bodies))])
        <3>2. n \in Nat \ {0}
            BY <3>1, ScriptsAreNotEmpty
        <3> HIDE DEF n
        <3>3. 1 <= n
            BY <3>2
        <3> QED BY <3>3 DEF n
    <2>5. Positioned(Past(Top))
        BY <1>1, <2>1, <2>4 DEF Positioned, Frame
    <2> QED BY <1>1, <2>3, <2>5 DEF Good
<1> QED BY <1>4, <1>5
-----------------------------------------------------------------------------
(***************************************************************************)
(* What the commands carry.                                                *)
(***************************************************************************)
LEMMA AssignFields ==
    ASSUME NEW c \in Command, c.op = "assign"
    PROVE  c.var \in Var /\ c.arg \in Word
BY DEF Command

LEMMA SayFields ==
    ASSUME NEW c \in Command, c.op = "say"
    PROVE  /\ c.arg \in Word /\ c.to \in Path \cup {None}
           /\ c.append \in BOOLEAN /\ c.text \in Body
BY DEF Command

LEMMA WriteFields ==
    ASSUME NEW c \in Command, c.op = "write"
    PROVE  /\ c.arg \in Var \cup {None} /\ c.to \in Path
           /\ c.append \in BOOLEAN /\ c.text \in Body
BY DEF Command

LEMMA ReadFields ==
    ASSUME NEW c \in Command
    PROVE  /\ c.op = "read" => c.arg \in Name \cup Var
           /\ c.op = "wrapread" => c.arg \in Name
BY DEF Command

LEMMA RunFields ==
    ASSUME NEW c \in Command, c.op \in {"run", "wraprun"}
    PROVE  c.arg \in Path
BY DEF Command

LEMMA CdFields ==
    ASSUME NEW c \in Command, c.op = "cd"
    PROVE  c.dir \in Dir
BY DEF Command

LEMMA DescendFields ==
    ASSUME NEW c \in Command, c.op \in {"inline", "stdin", "eval", "subst"}
    PROVE  c.text \in Body
BY DEF Command

\* A word that stands for a Secret is a variable the evaluator knows of, or one
\* that a Secret reached past it.
LEMMA SecretIsReferenced ==
    ASSUME IInv, NEW w \in Word \cup {None}, Value(w) = Secret
    PROVE  References(w) \/ w \in unseen
<1>1. CASE w \in Var
    BY <1>1 DEF IInv, Marked, Value, References
<1>2. CASE w \notin Var
    BY <1>2, PolicyAssumption DEF Word, Value
<1> QED BY <1>1, <1>2

\* What a command that is not refused is given to print.
LEMMA GivenIsUnseen ==
    ASSUME IInv, NEW w \in Word \cup {None}, ~References(w)
    PROVE  Given(w) \subseteq unseen
BY SecretIsReferenced DEF Given

\* writtenKey yields a path of the same kind.
LEMMA KeyIsPath ==
    ASSUME NEW w \in Path
    PROVE  Key(w) \in Path /\ (w \in Name <=> Key(w) \in Name)
BY PolicyAssumption DEF Key, Path

LEMMA TargetsAreFiles ==
    ASSUME TypeOK, NEW w \in Path
    PROVE  Targets(w) \subseteq File
BY PolicyAssumption DEF Targets, TypeOK

LEMMA DiskType ==
    ASSUME TypeOK, NEW w \in Path
    PROVE  OnDisk(w) \in Text \cup {None}
<1>1. w \in Name => Place[ProcessDir][w] \in File
    BY PolicyAssumption
<1> QED BY <1>1 DEF OnDisk, TypeOK, Folder
-----------------------------------------------------------------------------
(***************************************************************************)
(* What a step does to the stack and to the files.                         *)
(***************************************************************************)
LEMMA AdvanceStack ==
    ASSUME IInv, Top.bodies # <<>>, Advance, tainted \subseteq tainted', unseen \subseteq unseen'
    PROVE  frames' \in Seq(Good') \ {<<>>} /\ phase' = phase
<1>1. frames \in Seq(Good) /\ frames # <<>> /\ Past(Top) \in Good
    BY PastIsGood DEF IInv, TypeOK
<1>2. frames' = <<Past(Top)>> \o Tail(frames)
    BY DEF Advance
<1>3. frames' \in Seq(Good) \ {<<>>}
    BY <1>1, <1>2, StackPush
<1> QED BY <1>3, GoodStays, StackMonotone DEF Advance

LEMMA EnterStack ==
    ASSUME IInv, Top.bodies # <<>>, UNCHANGED <<tainted, unseen>>,
           NEW bodies \in Text, NEW child \in BOOLEAN, Enter(bodies, child)
    PROVE  frames' \in Seq(Good') \ {<<>>} /\ phase' \in {phase, "refused"}
<1>1. frames \in Seq(Good) /\ frames # <<>> /\ Past(Top) \in Good /\ Top \in Frame
    BY PastIsGood, TopIsGood DEF IInv, TypeOK, Good
<1>2. Good' = Good
    BY DEF Good, Marked, Positioned
<1>3. CASE Top.depth = MaxDepth
    BY <1>1, <1>2, <1>3 DEF Enter
<1>4. CASE Top.depth # MaxDepth
    <2> DEFINE f == [bodies |-> bodies, line |-> 1, depth |-> Top.depth + 1,
                     child |-> child, env |-> env, cwd |-> cwd]
    <2>1. Top.depth + 1 \in 1..MaxDepth
        BY <1>1, <1>4, PolicyAssumption DEF Frame
    <2>2. f \in Frame
        BY <2>1 DEF Frame, IInv, TypeOK
    <2>3. Positioned(f)
        <3>1. SUFFICES ASSUME bodies # <<>> PROVE 1 <= Len(Script[Head(bodies)])
            BY DEF Positioned
        <3>2. Head(bodies) \in Body
            BY <3>1 DEF Text
        <3> QED BY <3>2, NonEmpty, PolicyAssumption
    <2>4. f \in Good
        BY <2>2, <2>3 DEF Good, IInv
    <2>5. frames' = <<f, Past(Top)>> \o Tail(frames) /\ phase' = phase
        BY <1>4 DEF Enter, Inside
    <2> HIDE DEF f
    <2> QED BY <1>1, <1>2, <2>4, <2>5, StackPush
<1> QED BY <1>3, <1>4

LEMMA OutputType ==
    ASSUME TypeOK, NEW to \in Path, NEW append, NEW b \in Body, Output(to, append, b)
    PROVE  files' \in Folder
<1>1. PICK f \in File :
          files' = [files EXCEPT ![f] = IF append /\ @ # None THEN @ \o <<b>> ELSE <<b>>]
    BY TargetsAreFiles DEF Output
<1>2. files \in [File -> Text \cup {None}]
    BY DEF TypeOK, Folder
<1>3. <<b>> \in Text /\ \A t \in Text : t \o <<b>> \in Text
    BY DEF Text
<1>4. (IF append /\ files[f] # None THEN files[f] \o <<b>> ELSE <<b>>) \in Text \cup {None}
    BY <1>2, <1>3
<1> QED BY <1>1, <1>2, <1>4 DEF Folder

LEMMA RecordsType ==
    ASSUME TypeOK, NEW c \in Command, c.op = "write", NEW k \in Path
    PROVE  Records(k, c) \in Text
<1>1. c.text \in Body
    BY WriteFields
<1>2. <<c.text>> \in Text /\ \A t \in Text : t \o <<c.text>> \in Text
    BY <1>1 DEF Text
<1>3. written[k] \in Text \cup {None} /\ ToAppendTo(k) \in Text \cup {None}
    BY DiskType DEF TypeOK, Record, ToAppendTo
<1>4. Piece(ToAppendTo(k)) \in Text
    BY <1>3 DEF Piece, Text
<1> QED BY <1>2, <1>3, <1>4 DEF Records
-----------------------------------------------------------------------------
(***************************************************************************)
(* The invariant is inductive.                                             *)
(***************************************************************************)
LEMMA InitIInv == Init => IInv
<1> SUFFICES ASSUME Init PROVE IInv
    OBVIOUS
<1>1. PICK d \in Dir : cwd = d
    BY DEF Init
<1> DEFINE f == [bodies |-> <<>>, line |-> 1, depth |-> 1, child |-> FALSE,
                 env |-> env, cwd |-> cwd]
<1>2. env \in [Var -> Path \cup {Secret, None}] /\ Marked(env)
    BY PolicyAssumption DEF Init, Marked
<1>3. f \in Good
    BY <1>1, <1>2, PolicyAssumption DEF Good, Frame, Text, Positioned
<1>4. frames = <<f>>
    BY DEF Init
<1>5. Good \subseteq Frame
    BY DEF Good
<1> HIDE DEF f
<1>6. frames \in Seq(Good) /\ frames \in Seq(Frame) /\ frames # <<>>
    BY <1>3, <1>4, <1>5
<1>7. disk \in Folder /\ files \in Folder /\ written \in Record
    BY PolicyAssumption DEF Init, Record, Nothing
<1>8. TypeOK
    <2>1. MaxLines \in Nat
        BY PolicyAssumption
    <2>3. typed \in 0..MaxLines /\ tainted \subseteq Var /\ shown \subseteq Word
          /\ unseen \subseteq Var
        BY <2>1 DEF Init
    <2>2. phase \in {"judging", "refused", "astray"} /\ cwd \in Dir
        BY DEF Init
    <2> QED BY <1>2, <1>6, <1>7, <2>2, <2>3 DEF TypeOK
<1> QED BY <1>2, <1>6, <1>8 DEF IInv, Init

\* What a step that keeps the shell's variables must still show.
LEMMA KeepsIInv ==
    ASSUME IInv, UNCHANGED <<tainted, disk, env, unseen, typed>>,
           written' \in Record, cwd' \in Dir, files' \in Folder,
           phase' \in {phase, "refused"}, frames' \in Seq(Good') \ {<<>>},
           shown' \subseteq unseen
    PROVE  IInv'
<1>1. frames' \in Seq(Frame)
    BY StackMonotone DEF Good
<1>2. shown' \subseteq Word
    BY DEF IInv, TypeOK, Word
<1>3. TypeOK'
    BY <1>1, <1>2 DEF IInv, TypeOK
<1> QED BY <1>3 DEF IInv, Marked

LEMMA RefuseIInv == IInv /\ Refuse /\ UNCHANGED <<disk, typed>> => IInv'
<1> SUFFICES ASSUME IInv, Refuse, UNCHANGED <<disk, typed>> PROVE IInv'
    OBVIOUS
<1>1. frames \in Seq(Good) /\ frames' = frames /\ Good' = Good /\ frames # <<>>
    BY DEF Refuse, IInv, TypeOK, Good, Marked, shell
<1> QED BY <1>1, KeepsIInv DEF Refuse, IInv, TypeOK, shell

LEMMA AssignIInv == IInv /\ Assign => IInv'
<1> SUFFICES ASSUME IInv, Assign PROVE IInv'
    OBVIOUS
<1> DEFINE refused == Current.how \notin Tracked /\ AtTheLimit
<1>1. At({"assign"}) /\ Top.bodies # <<>>
    BY DEF Assign, At
<1>2. Current.var \in Var /\ Current.arg \in Word
    BY <1>1, CurrentIsCommand, AssignFields
<1>3. CASE refused
    BY <1>3, RefuseIInv DEF Assign
<1>4. CASE ~refused
    <2>1. /\ Taints(Current.how, Current.var, Current.arg) /\ Advance
          /\ written' = IF Current.how \in {"declare", "for"} THEN Nothing ELSE written
          /\ env' = [env EXCEPT ![Current.var] = Value(Current.arg)]
          /\ UNCHANGED <<cwd, files, shown, disk, typed>>
        BY <1>4 DEF Assign
    <2>2. tainted \subseteq tainted' /\ tainted' \subseteq Var
        BY <1>2, <2>1 DEF Taints, IInv, TypeOK
    <2>3. unseen \subseteq unseen' /\ unseen' \subseteq Var
        BY <1>2, <1>4 DEF Assign, IInv, TypeOK
    <2>4. frames' \in Seq(Good') \ {<<>>} /\ phase' = phase
        BY <1>1, <2>1, <2>2, <2>3, AdvanceStack
    <2>5. Value(Current.arg) \in Path \cup {Secret, None}
        BY <1>2 DEF Value, Word, IInv, TypeOK
    <2>6. written' \in Record
        BY <2>1 DEF Record, Nothing, IInv, TypeOK
    <2>7. Marked(env)'
        <3> SUFFICES ASSUME NEW x \in Var, env'[x] = Secret
                     PROVE  x \in Bound \cup tainted' \cup unseen'
            BY DEF Marked
        <3>1. CASE x = Current.var
            <4>1. Value(Current.arg) = Secret
                BY <1>2, <2>1, <3>1 DEF IInv, TypeOK
            <4>2. References(Current.arg) \/ Current.arg \in unseen
                BY <1>2, <4>1, SecretIsReferenced
            <4>3. CASE Current.how \in Tracked /\ References(Current.arg)
                BY <2>1, <3>1, <4>3 DEF Taints
            <4>4. CASE Current.how \notin Tracked \/ Current.arg \in unseen
                BY <1>4, <3>1, <4>1, <4>4 DEF Assign
            <4> QED BY <4>2, <4>3, <4>4
        <3>2. CASE x # Current.var
            BY <2>1, <2>2, <2>3, <3>2 DEF IInv, Marked, TypeOK
        <3> QED BY <3>1, <3>2
    <2>8. frames' \in Seq(Frame)
        BY <2>4, StackMonotone DEF Good
    <2>9. TypeOK'
        BY <2>1, <2>2, <2>3, <2>4, <2>5, <2>6, <2>8 DEF IInv, TypeOK
    <2> QED BY <2>1, <2>3, <2>4, <2>7, <2>9 DEF IInv
<1> QED BY <1>3, <1>4

LEMMA SayIInv == IInv /\ Say => IInv'
<1> SUFFICES ASSUME IInv, Say PROVE IInv'
    OBVIOUS
<1>1. At({"say"}) /\ Top.bodies # <<>>
    BY DEF Say, At
<1>2. /\ Current.arg \in Word /\ Current.to \in Path \cup {None}
      /\ Current.append \in BOOLEAN /\ Current.text \in Body
    BY <1>1, CurrentIsCommand, SayFields
<1>3. CASE References(Current.arg)
    BY <1>3, RefuseIInv DEF Say
<1>4. CASE ~References(Current.arg)
    <2>1. frames' \in Seq(Good') \ {<<>>} /\ phase' = phase
        BY <1>1, <1>4, AdvanceStack DEF Say
    <2>2. files' \in Folder
        <3>1. CASE Current.to = None
            BY <1>4, <3>1 DEF Say, IInv, TypeOK
        <3>2. CASE Current.to # None
            BY <1>2, <1>4, <3>2, OutputType DEF Say, IInv
        <3> QED BY <3>1, <3>2
    <2>3. written' \in Record
        <3>1. WithoutRedirected(Current.to) \in Record
            BY DEF WithoutRedirected, Record, Nothing, IInv, TypeOK
        <3> QED BY <1>4, <3>1 DEF Say
    <2>4. shown' \subseteq unseen
        <3>1. Given(Current.arg) \subseteq unseen
            BY <1>2, <1>4, GivenIsUnseen
        <3> QED BY <1>4, <3>1 DEF Say, IInv
    <2> QED BY <1>4, <2>1, <2>2, <2>3, <2>4, KeepsIInv DEF Say, IInv, TypeOK
<1> QED BY <1>3, <1>4

LEMMA WriteIInv == IInv /\ Write => IInv'
<1> SUFFICES ASSUME IInv, Write PROVE IInv'
    OBVIOUS
<1> DEFINE refused == References(Current.arg) \/ Current.to \in SecretNames \/ AtTheLimit
<1>1. At({"write"}) /\ Top.bodies # <<>>
    BY DEF Write, At
<1>2. /\ Current \in Command /\ Current.op = "write" /\ Current.arg \in Var \cup {None}
      /\ Current.to \in Path /\ Current.text \in Body
    BY <1>1, CurrentIsCommand, WriteFields
<1>3. CASE refused
    BY <1>3, RefuseIInv DEF Write
<1>4. CASE ~refused
    <2>1. frames' \in Seq(Good') \ {<<>>} /\ phase' = phase
        BY <1>1, <1>4, AdvanceStack DEF Write
    <2>2. files' \in Folder
        BY <1>2, <1>4, OutputType DEF Write, IInv
    <2>3. written' \in Record
        <3>1. Records(Key(Current.to), Current) \in Text
            BY <1>2, KeyIsPath, RecordsType DEF IInv
        <3> QED BY <1>4, <3>1 DEF Write, Record, IInv, TypeOK
    <2>4. shown' \subseteq unseen
        <3>1. Given(Current.arg) \subseteq unseen
            BY <1>2, <1>4, GivenIsUnseen DEF Word
        <3> QED BY <1>4, <3>1 DEF Write, IInv
    <2> QED BY <1>4, <2>1, <2>2, <2>3, <2>4, KeepsIInv DEF Write, IInv, TypeOK
<1> QED BY <1>3, <1>4

LEMMA ReadIInv == IInv /\ Read => IInv'
<1> SUFFICES ASSUME IInv, Read PROVE IInv'
    OBVIOUS
<1> DEFINE refused == References(Current.arg) \/ Current.arg \in SecretNames \/ AtTheLimit
<1>1. At({"read"}) /\ Top.bodies # <<>>
    BY DEF Read, At
<1>2. Current.arg \in Word
    BY <1>1, CurrentIsCommand, ReadFields DEF Word, Path
<1>3. CASE refused
    BY <1>3, RefuseIInv DEF Read
<1>4. CASE ~refused
    <2>1. frames' \in Seq(Good') \ {<<>>} /\ phase' = phase
        BY <1>1, <1>4, AdvanceStack DEF Read
    <2>2. shown' \subseteq unseen
        <3>1. Printed(Current.arg) \subseteq unseen
            BY <1>2, <1>4, GivenIsUnseen DEF Printed
        <3> QED BY <1>4, <3>1 DEF Read, IInv
    <2> QED BY <1>4, <2>1, <2>2, KeepsIInv DEF Read, IInv, TypeOK
<1> QED BY <1>3, <1>4

LEMMA ReadWrappedIInv == IInv /\ ReadWrapped => IInv'
<1> SUFFICES ASSUME IInv, ReadWrapped PROVE IInv'
    OBVIOUS
<1> DEFINE refused == Top.depth + Current.levels > MaxDepth \/ Current.arg \in SecretNames
<1>1. At({"wrapread"}) /\ Top.bodies # <<>>
    BY DEF ReadWrapped, At
<1>2. Current.arg \in Name
    BY <1>1, CurrentIsCommand, ReadFields
<1>3. CASE refused
    BY <1>3, RefuseIInv DEF ReadWrapped
<1>4. CASE ~refused
    <2>1. frames' \in Seq(Good') \ {<<>>} /\ phase' = phase
        BY <1>1, <1>4, AdvanceStack DEF ReadWrapped
    <2>2. shown' \subseteq unseen
        <3>1. Printed(Current.arg) = {}
            BY <1>2, <1>4, PolicyAssumption DEF Printed, Given, Value, Path
        <3> QED BY <1>4, <3>1 DEF ReadWrapped, IInv
    <2>3. Nothing \in Record
        BY DEF Nothing, Record
    <2> QED BY <1>4, <2>1, <2>2, <2>3, KeepsIInv DEF ReadWrapped, IInv, TypeOK
<1> QED BY <1>3, <1>4

LEMMA CdIInv == IInv /\ Cd => IInv'
<1> SUFFICES ASSUME IInv, Cd PROVE IInv'
    OBVIOUS
<1>1. At({"cd"}) /\ Top.bodies # <<>>
    BY DEF Cd, At
<1>2. cwd' \in Dir
    BY CurrentIsCommand, CdFields DEF Cd, IInv, TypeOK
<1>3. frames' \in Seq(Good') \ {<<>>} /\ phase' = phase
    BY <1>1, AdvanceStack DEF Cd
<1>4. Nothing \in Record
    BY DEF Nothing, Record
<1> QED BY <1>2, <1>3, <1>4, KeepsIInv DEF Cd, ClearedByCd, IInv, TypeOK

LEMMA ToolIInv == IInv /\ Tool => IInv'
<1> SUFFICES ASSUME IInv, Tool PROVE IInv'
    OBVIOUS
<1>1. At({"tool"}) /\ Top.bodies # <<>>
    BY DEF Tool, At
<1>2. CASE AtTheLimit
    BY <1>2, RefuseIInv DEF Tool
<1>3. CASE ~AtTheLimit
    <2>1. frames' \in Seq(Good') \ {<<>>} /\ phase' = phase
        BY <1>1, <1>3, AdvanceStack DEF Tool
    <2>2. files' \in Folder
        <3>1. \A b \in Foreign : <<b>> \in Text
            <4> SUFFICES ASSUME NEW b \in Foreign PROVE <<b>> \in Text
                OBVIOUS
            <4>1. b \in Body
                BY PolicyAssumption
            <4> QED BY <4>1 DEF Text
        <3>2. files \in [File -> Text \cup {None}]
            BY DEF Folder, IInv, TypeOK
        <3>3. CASE files' = files
            BY <3>2, <3>3 DEF Folder
        <3>4. ASSUME NEW f \in File, NEW b \in Foreign, files' = [files EXCEPT ![f] = <<b>>]
              PROVE  files' \in Folder
            BY <3>1, <3>2, <3>4 DEF Folder
        <3> QED BY <1>3, <3>3, <3>4 DEF Tool
    <2>3. Nothing \in Record
        BY DEF Nothing, Record
    <2> QED BY <1>3, <2>1, <2>2, <2>3, KeepsIInv DEF Tool, IInv, TypeOK
<1> QED BY <1>2, <1>3

LEMMA RunIInv == IInv /\ Run => IInv'
<1> SUFFICES ASSUME IInv, Run PROVE IInv'
    OBVIOUS
<1> DEFINE known == Current.op = "run" /\ written[Key(Current.arg)] # None
           script == Judged(Current.arg, known)
<1>1. At({"run", "wraprun"}) /\ Top.bodies # <<>>
    BY DEF Run, At
<1>2. Current.arg \in Path /\ Key(Current.arg) \in Path
    BY <1>1, CurrentIsCommand, RunFields, KeyIsPath
<1>3. script \in Text \cup {None}
    BY <1>2, DiskType DEF Judged, IInv, TypeOK, Record
<1>4. CASE script = None /\ Refuse
    BY <1>4, RefuseIInv DEF Run
<1>5. CASE phase' = "astray" /\ UNCHANGED <<tainted, written, shell, frames>>
    <2>1. Good' = Good
        BY <1>5 DEF Good, Marked, Positioned, shell
    <2> QED BY <1>5, <2>1 DEF Run, IInv, TypeOK, Marked, shell
<1>6. CASE script # None /\ written' = (IF known THEN written ELSE Nothing)
           /\ Enter(script, TRUE) /\ UNCHANGED <<tainted, shell>>
    <2>1. script \in Text /\ TRUE \in BOOLEAN
        BY <1>3, <1>6
    <2> HIDE DEF script
    <2>2. frames' \in Seq(Good') \ {<<>>} /\ phase' \in {phase, "refused"}
        BY <1>1, <1>6, <2>1, EnterStack DEF shell
    <2>3. written' \in Record
        BY <1>6 DEF Record, Nothing, IInv, TypeOK
    <2> QED BY <1>6, <2>2, <2>3, KeepsIInv DEF Run, IInv, TypeOK, shell
<1> QED BY <1>4, <1>5, <1>6 DEF Run

LEMMA DescendIInv == IInv /\ Descend => IInv'
<1> SUFFICES ASSUME IInv, Descend PROVE IInv'
    OBVIOUS
<1> DEFINE refused == Current.op = "stdin" /\ References(Current.arg)
<1>1. At({"inline", "stdin", "eval", "subst"}) /\ Top.bodies # <<>>
    BY DEF Descend, At
<1>2. Current.text \in Body
    BY <1>1, CurrentIsCommand, DescendFields
<1>3. CASE refused
    BY <1>3, RefuseIInv DEF Descend
<1>4. CASE ~refused
    <2>1. <<Current.text>> \in Text /\ (Current.op # "eval") \in BOOLEAN
        BY <1>2 DEF Text
    <2>2. frames' \in Seq(Good') \ {<<>>} /\ phase' \in {phase, "refused"}
        BY <1>1, <1>4, <2>1, EnterStack DEF Descend, shell
    <2>3. written' \in Record
        BY <1>4 DEF Descend, Record, Nothing, IInv, TypeOK
    <2> QED BY <1>4, <2>2, <2>3, KeepsIInv DEF Descend, IInv, TypeOK, shell
<1> QED BY <1>3, <1>4

LEMMA ReturnIInv == IInv /\ Return => IInv'
<1> SUFFICES ASSUME IInv, Return PROVE IInv'
    OBVIOUS
<1>1. Top \in Good /\ frames \in Seq(Good) /\ Len(frames) > 1
    BY TopIsGood DEF Return, IInv
<1>2. Tail(frames) \in Seq(Good) /\ Len(Tail(frames)) = Len(frames) - 1
    BY <1>1
<1>3. Good' = Good
    BY DEF Return, Good, Marked, Positioned
<1>4. frames' \in Seq(Good') \ {<<>>}
    BY <1>1, <1>2, <1>3 DEF Return
<1>5. env' \in [Var -> Path \cup {Secret, None}] /\ cwd' \in Dir /\ Marked(env)'
    BY <1>1 DEF Return, Good, Frame, Marked, IInv, TypeOK
<1>6. TypeOK'
    BY <1>4, <1>5 DEF Return, IInv, TypeOK
<1> QED BY <1>4, <1>5, <1>6 DEF Return, IInv

LEMMA NextLineIInv == IInv /\ NextLine => IInv'
<1> SUFFICES ASSUME IInv, NextLine PROVE IInv'
    OBVIOUS
<1>1. PICK b \in Lines : frames' = <<[Top EXCEPT !.bodies = <<b>>]>>
    BY DEF NextLine
<1> DEFINE f == [Top EXCEPT !.bodies = <<b>>]
<1>2. Top \in Frame /\ Top.bodies = <<>> /\ Marked(Top.env)
      /\ Positioned(Top)
    BY TopIsGood DEF Good, NextLine, Idle
<1>3. Lines \subseteq Body
    BY PolicyAssumption
<1>4. b \in Body /\ <<b>> \in Text
    BY <1>3 DEF Text
<1>5. f \in Frame /\ f.env = Top.env /\ f.bodies = <<b>> /\ f.line = Top.line
    BY <1>2, <1>4 DEF Frame
<1>6. f.line = 1 /\ Len(Script[Head(f.bodies)]) \in Nat \ {0}
    BY <1>2, <1>4, ScriptsAreNotEmpty DEF Positioned, Frame
<1>7. Good' = Good
    BY DEF NextLine, Good, Marked, Positioned, shell
<1>8. frames' = <<f>>
    BY <1>1
<1> HIDE DEF f
<1>9. f \in Good
    <2> DEFINE n == Len(Script[Head(f.bodies)])
    <2>1. 1 <= n
        BY <1>6
    <2>2. f.line <= n
        BY <1>6, <2>1
    <2> HIDE DEF n
    <2> QED BY <1>2, <1>5, <2>2 DEF Good, Positioned, n
<1>10. frames' \in Seq(Good') /\ frames' \in Seq(Frame) /\ frames' # <<>>
    <2>1. f \in Frame
        BY <1>9 DEF Good
    <2>2. f \in Good'
        BY <1>7, <1>9
    <2> QED BY <1>8, <2>1, <2>2
<1>11. typed' \in 0..MaxLines
    BY PolicyAssumption DEF NextLine, IInv, TypeOK
<1>12. TypeOK'
    BY <1>10, <1>11 DEF NextLine, IInv, TypeOK, shell
<1> QED BY <1>10, <1>12 DEF NextLine, IInv, Marked, shell

LEMMA StepIInv == IInv /\ [Next]_vars => IInv'
<1> SUFFICES ASSUME IInv, [Next]_vars PROVE IInv'
    OBVIOUS
<1>1. CASE UNCHANGED vars
    BY <1>1 DEF vars, shell, IInv, TypeOK, Good, Marked
<1>2. CASE Dump
    BY <1>2, RefuseIInv DEF Dump
<1> QED BY <1>1, <1>2, NextLineIInv, AssignIInv, SayIInv, WriteIInv, ReadIInv,
           ReadWrappedIInv, CdIInv, ToolIInv, RunIInv, DescendIInv, ReturnIInv
        DEF Next, Judge

LEMMA Invariance == Spec => []IInv
BY InitIInv, StepIInv, PTL DEF Spec

\* Type correctness.
THEOREM TypeCorrect == Spec => []TypeOK
BY Invariance, PTL DEF IInv

\* A command that may run is given no Secret to print, through whatever variables,
\* scripts and nested shells it is passed, unless it has been through an
\* assignment that simple takes no note of: the taint covers every other variable,
\* of every shell, that can come to hold one.
THEOREM NothingRevealed == Spec => []RevealsNothing
<1>1. IInv => RevealsNothing
    BY DEF IInv, RevealsNothing
<1> QED BY <1>1, Invariance, PTL
-----------------------------------------------------------------------------
(***************************************************************************)
(* The record of the scripts the command writes.                           *)
(***************************************************************************)

\* A path with an entry is not the target of a write that follows, unless it is
\* a spelling of the same key.
LEMMA OthersAreElsewhere ==
    ASSUME NEW to, OneSpelling(to), NEW w \in Path
    PROVE  /\ Key(w) = Key(to) => Targets(w) = Targets(to)
           /\ Key(w) # Key(to) /\ written[Key(w)] # None => Targets(w) \cap Targets(to) = {}
BY DEF OneSpelling

\* A write of one file under a literal name, with what the record then says of
\* that name, keeps the record exact.
LEMMA WritesOneFile ==
    ASSUME IInv, RecordExact, NEW to \in Name, OneSpelling(to), NEW new, NEW entry,
           entry \in {None, new},
           files' = [files EXCEPT ![Place[cwd][to]] = new],
           written' = [written EXCEPT ![Key(to)] = entry], cwd' = cwd
    PROVE  RecordExact'
<1>1. /\ files \in [File -> Text \cup {None}] /\ written \in [Path -> Text \cup {None}]
      /\ Targets(to) = {Place[cwd][to]} /\ Place[cwd][to] \in File /\ Key(to) \in Path
    <2>1. to \in Path
        BY DEF Path
    <2> QED BY <2>1, KeyIsPath, PolicyAssumption DEF IInv, TypeOK, Folder, Record, Targets
<1> SUFFICES ASSUME NEW w \in Path, written'[Key(w)] # None, NEW f \in Targets(w)
             PROVE  files'[f] = written'[Key(w)]
    BY DEF RecordExact, Targets
<1>2. f \in File /\ Key(w) \in Path
    BY TargetsAreFiles, KeyIsPath DEF IInv
<1>3. CASE Key(w) = Key(to)
    <2>1. f = Place[cwd][to]
        BY <1>1, <1>3, OthersAreElsewhere
    <2>2. written'[Key(w)] = entry /\ files'[f] = new
        BY <1>1, <1>3, <2>1
    <2> QED BY <2>2
<1>4. CASE Key(w) # Key(to)
    <2>1. written'[Key(w)] = written[Key(w)]
        BY <1>1, <1>2, <1>4
    <2>2. f # Place[cwd][to]
        BY <1>1, <1>4, <2>1, OthersAreElsewhere
    <2>3. files'[f] = files[f]
        BY <1>1, <1>2, <2>2
    <2> QED BY <2>1, <2>3 DEF RecordExact
<1> QED BY <1>3, <1>4

\* A redirection writes one file, and takes the entry of its name with it.
LEMMA SayKeepsExact ==
    ASSUME IInv, RecordExact, Follows, Say
    PROVE  RecordExact'
<1>1. CASE References(Current.arg)
    BY <1>1 DEF Say, Refuse, RecordExact, Targets, shell
<1>2. CASE ~References(Current.arg)
    <2>1. /\ At({"say"}) /\ written' = WithoutRedirected(Current.to) /\ cwd' = cwd
          /\ Current.to \in Path \cup {None}
        BY <1>2, CurrentIsCommand, SayFields DEF Say
    <2>2. None \notin Path
        BY PolicyAssumption DEF Word
    <2>3. CASE Current.to = None
        <3>1. files' = files
            BY <1>2, <2>3 DEF Say
        <3>2. written' = written
            BY <2>1, <2>2, <2>3 DEF WithoutRedirected, Path
        <3> QED BY <2>1, <3>1, <3>2 DEF RecordExact, Targets
    <2>4. CASE Current.to \in Computed
        <3>1. written' = Nothing
            BY <2>1, <2>2, <2>4 DEF WithoutRedirected, Path
        <3> QED BY <3>1, KeyIsPath DEF Nothing, RecordExact
    <2>5. CASE Current.to \in Name
        <3>1. OneSpelling(Current.to)
            BY <2>1, <2>5 DEF Follows, At
        <3>2. PICK new : files' = [files EXCEPT ![Place[cwd][Current.to]] = new]
            BY <1>2, <2>2, <2>5 DEF Say, Output, Targets, Path
        <3>3. written' = [written EXCEPT ![Key(Current.to)] = None]
            BY <2>1, <2>2, <2>5, PolicyAssumption DEF WithoutRedirected, Path
        <3> QED BY <2>1, <2>5, <3>1, <3>2, <3>3, WritesOneFile
    <2> QED BY <2>1, <2>3, <2>4, <2>5 DEF Path
<1> QED BY <1>1, <1>2

\* What heredocToFileWrite records is what cat and tee leave.
LEMMA WriteKeepsExact ==
    ASSUME IInv, RecordExact, Follows, Write
    PROVE  RecordExact'
<1> DEFINE refused == References(Current.arg) \/ Current.to \in SecretNames \/ AtTheLimit
<1>1. At({"write"})
    BY DEF Write
<1>2. /\ Current.text \in Body /\ Current.append \in BOOLEAN
      /\ Current.to \in Name /\ OneSpelling(Current.to)
    BY <1>1, CurrentIsCommand, WriteFields DEF Follows, At
<1>3. CASE refused
    BY <1>3 DEF Write, Refuse, RecordExact, Targets, shell
<1>4. CASE ~refused
    <2> DEFINE k == Key(Current.to)
               old == files[Place[cwd][Current.to]]
               new == IF Current.append /\ old # None THEN old \o <<Current.text>>
                      ELSE <<Current.text>>
    <2>1. cwd' = cwd /\ written' = [written EXCEPT ![k] = Records(k, Current)]
        BY <1>4 DEF Write
    <2>2. files' = [files EXCEPT ![Place[cwd][Current.to]] = new]
        BY <1>2, <1>4 DEF Write, Output, Targets
    <2>3. Records(k, Current) = new
        <3>1. CASE ~Current.append
            BY <3>1 DEF Records
        <3>2. CASE Current.append /\ written[k] # None
            <4>1. old = written[k]
                BY <1>2, <3>2 DEF RecordExact, Targets, Path
            <4> QED BY <3>2, <4>1 DEF Records
        <3>3. CASE Current.append /\ written[k] = None
            <4>1. old = ToAppendTo(k)
                BY <1>1, <3>3 DEF Follows
            <4>2. <<>> \o <<Current.text>> = <<Current.text>>
                BY <1>2
            <4> QED BY <3>3, <4>1, <4>2 DEF Records, Piece
        <3> QED BY <1>2, <3>1, <3>2, <3>3
    <2> HIDE DEF new, k
    <2> QED BY <1>2, <2>1, <2>2, <2>3, WritesOneFile DEF k
<1> QED BY <1>3, <1>4

\* The end of a child shell takes the shell back to where it was.
LEMMA ReturnKeepsExact ==
    ASSUME RecordExact, Follows, Return
    PROVE  RecordExact'
<1>1. CASE cwd' = cwd
    BY <1>1 DEF Return, RecordExact, Targets
<1>2. CASE cwd' # cwd
    <2>1. written = Nothing
        BY <1>2 DEF Return, Follows
    <2> QED BY <2>1, KeyIsPath DEF Return, RecordExact, Nothing
<1> QED BY <1>1, <1>2

\* The other commands change no file, or clear the record.
LEMMA OthersKeepExact ==
    ASSUME RecordExact,
           NextLine \/ Assign \/ Read \/ ReadWrapped \/ Dump \/ Cd \/ Tool \/ Run \/ Descend
    PROVE  RecordExact'
<1>1. ASSUME UNCHANGED <<files, cwd>>, written' = written PROVE RecordExact'
    BY <1>1 DEF RecordExact, Targets
<1>2. ASSUME written' = Nothing PROVE RecordExact'
    BY <1>2, KeyIsPath DEF RecordExact, Nothing
<1>3. \/ UNCHANGED <<files, cwd>> /\ written' = written
      \/ written' = Nothing
    BY DEF NextLine, Assign, Read, ReadWrapped, Dump, Cd, ClearedByCd, Tool, Run, Descend,
           Refuse, shell
<1> QED BY <1>1, <1>2, <1>3

\* What written says of a script stays what is in the file, as long as the string
\* writes each file under one spelling, as Clean sees it: not a redirect or an
\* append under that name, not a cd, another program or a nested script makes it
\* say something else.
THEOREM RecordIsKept == Spec => RecordStaysExact
<1>1. IInv /\ [Next]_vars => (RecordExact /\ Follows => RecordExact')
    <2> SUFFICES ASSUME IInv, [Next]_vars, RecordExact, Follows PROVE RecordExact'
        OBVIOUS
    <2>1. CASE UNCHANGED vars
        BY <2>1 DEF vars, shell, RecordExact, Targets
    <2> QED BY <2>1, SayKeepsExact, WriteKeepsExact, ReturnKeepsExact, OthersKeepExact
            DEF Next, Judge
<1> QED BY <1>1, Invariance, PTL DEF Spec, RecordStaysExact

\* While what written says is what is in the files, a script the command itself
\* wrote is judged as written, whatever older copy cpass finds on the disk.
THEOREM WrittenIsJudged == Spec => []WrittenScriptIsJudged
<1>1. Init => WrittenScriptIsJudged
    BY DEF Init, WrittenScriptIsJudged
<1>2. IInv /\ WrittenScriptIsJudged /\ [Next]_vars => WrittenScriptIsJudged'
    <2> SUFFICES ASSUME IInv, WrittenScriptIsJudged, [Next]_vars, phase' = "astray", RecordExact'
                 PROVE  (Current.op = "wraprun" \/ written[Key(Current.arg)] = None)'
        BY DEF WrittenScriptIsJudged
    <2>1. CASE UNCHANGED vars
        BY <2>1 DEF vars, shell, WrittenScriptIsJudged, RecordExact, Targets, Current, Top, Key
    <2>2. CASE ~UNCHANGED vars
        <3>1. phase = "judging"
            BY <2>2 DEF Next, Judge, NextLine, Assign, Say, Write, Read, ReadWrapped, Dump, Cd,
                        Tool, Run, Descend, Return, At
        <3>2. Run
            BY <2>2, <3>1 DEF Next, Judge, NextLine, Assign, Say, Write, Read, ReadWrapped,
                              Dump, Cd, Tool, Descend, Return, Advance, Refuse, Enter
        <3> DEFINE known == Current.op = "run" /\ written[Key(Current.arg)] # None
        <3>3. PICK f \in Targets(Current.arg) : files[f] # Judged(Current.arg, known)
            BY <3>1, <3>2 DEF Run, Refuse, Enter
        <3>4. UNCHANGED <<written, shell, frames>>
            BY <3>1, <3>2 DEF Run, Refuse, Enter
        <3>5. Current.op \in {"run", "wraprun"} /\ Current.arg \in Path
            BY <3>2, CurrentIsCommand, RunFields DEF Run
        <3>6. RecordExact
            BY <3>4 DEF RecordExact, Targets, shell
        <3>7. Current.op = "wraprun" \/ written[Key(Current.arg)] = None
            BY <3>3, <3>5, <3>6 DEF Judged, RecordExact
        <3> QED BY <3>4, <3>7 DEF shell, Current, Top, Key
    <2> QED BY <2>1, <2>2
<1> QED BY <1>1, <1>2, Invariance, PTL DEF Spec
=============================================================================
