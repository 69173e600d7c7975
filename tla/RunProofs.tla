----------------------------- MODULE RunProofs -----------------------------
(***************************************************************************)
(* Proofs about the two parts of a `cpass run`: the directories of its     *)
(* file Bindings (RunDirs), for any number of runs, directories and kills, *)
(* and what it prints (RedactWriter), for any bytes, Patterns, Writes and  *)
(* timers.  They share no state; each has its own specification.           *)
(***************************************************************************)
EXTENDS RunDirs, RedactWriter, SequenceTheorems, WellFoundedInduction, TLAPS

(***************************************************************************)
(* RunDirs.                                                                *)
(***************************************************************************)

\* Where a run has a directory that it has not begun to destroy.
Live == {"pid-create", "pid-write", "add", "child"}

\* No two runs have one directory.
Apart == \A q, r \in Runs : own[q] # None /\ own[q] = own[r] => q = r

\* Nobody shreds the directory of a run that is neither too old nor was condemned
\* before its .pid was there, and its Secret is in place.
Untouched ==
    \A r \in Runs :
        pc[r] \in Live /\ own[r] \notin old \cup caught \cup {None} =>
            /\ \A q \in Runs : shred[q].of # own[r]
            /\ pc[r] = "child" => file[own[r]] = "secret"

\* A run that destroys its directory has seen the Secret file or it is gone.
Destroying ==
    \A r \in Runs : pc[r] = "destroy" =>
        /\ own[r] # None /\ shred[r].of = own[r]
        /\ \/ shred[r].step = "rmdir"
           \/ shred[r].step \in {"pid-zero", "pid-unlink"} /\ ~shred[r].sees
           => file[own[r]] = "absent"

IInv == TypeOK /\ Apart /\ Untouched /\ Destroying
-----------------------------------------------------------------------------
LEMMA InitHolds == Init => IInv
<1> SUFFICES ASSUME Init PROVE IInv
  OBVIOUS
<1>1. TypeOK
  BY KillsAreBounded DEF Init, TypeOK, Places, ShredSteps, Resting
<1> QED BY <1>1 DEF Init, IInv, Apart, Untouched, Destroying, Live

LEMMA StartKeeps ==
    ASSUME IInv, NEW r \in Runs, Start(r)
    PROVE  IInv'
<1> USE DEF IInv
<1>1. TypeOK'
  BY NoneIsNoDir DEF Start, Goto, disk, world, TypeOK, Places, ShredSteps
<1>2. Apart'
  BY DEF Start, Goto, disk, world, TypeOK, Apart
<1>3. Untouched'
  BY DEF Start, Goto, disk, world, TypeOK, Apart, Untouched, Live
<1>4. Destroying'
  BY DEF Start, Goto, disk, world, TypeOK, Apart, Destroying
<1> QED BY <1>1, <1>2, <1>3, <1>4

LEMMA SweepDoneKeeps ==
    ASSUME IInv, NEW r \in Runs, SweepDone(r)
    PROVE  IInv'
<1> USE DEF IInv
<1>1. TypeOK'
  BY NoneIsNoDir DEF SweepDone, Goto, disk, world, sweeper, TypeOK, Places, ShredSteps
<1>2. Apart'
  BY DEF SweepDone, Goto, disk, world, sweeper, TypeOK, Apart
<1>3. Untouched'
  BY DEF SweepDone, Goto, disk, world, sweeper, TypeOK, Apart, Untouched, Live
<1>4. Destroying'
  BY DEF SweepDone, Goto, disk, world, sweeper, TypeOK, Apart, Destroying
<1> QED BY <1>1, <1>2, <1>3, <1>4

LEMMA MkdirKeeps ==
    ASSUME IInv, NEW r \in Runs, Mkdir(r)
    PROVE  IInv'
<1> USE DEF IInv
<1>1. TypeOK'
  BY NoneIsNoDir DEF Mkdir, world, sweeper, TypeOK, Places, ShredSteps
<1>2. Apart'
  BY DEF Mkdir, world, sweeper, TypeOK, Apart
<1>3. Untouched'
  BY DEF Mkdir, world, sweeper, TypeOK, Apart, Untouched, Live
<1>4. Destroying'
  BY DEF Mkdir, world, sweeper, TypeOK, Apart, Destroying
<1> QED BY <1>1, <1>2, <1>3, <1>4

LEMMA CreatePidKeeps ==
    ASSUME IInv, NEW r \in Runs, CreatePid(r)
    PROVE  IInv'
<1> USE DEF IInv
<1>1. TypeOK'
  BY NoneIsNoDir DEF CreatePid, Goto, world, sweeper, TypeOK, Places, ShredSteps
<1>2. Apart'
  BY DEF CreatePid, Goto, world, sweeper, TypeOK, Apart
<1>3. Untouched'
  BY DEF CreatePid, Goto, world, sweeper, TypeOK, Apart, Untouched, Live
<1>4. Destroying'
  BY DEF CreatePid, Goto, world, sweeper, TypeOK, Apart, Destroying
<1> QED BY <1>1, <1>2, <1>3, <1>4

LEMMA WritePidKeeps ==
    ASSUME IInv, NEW r \in Runs, WritePid(r)
    PROVE  IInv'
<1> USE DEF IInv
<1>1. TypeOK'
  BY NoneIsNoDir DEF WritePid, Goto, world, sweeper, TypeOK, Places, ShredSteps
<1>2. Apart'
  BY DEF WritePid, Goto, world, sweeper, TypeOK, Apart
<1>3. Untouched'
  BY DEF WritePid, Goto, world, sweeper, TypeOK, Apart, Untouched, Live
<1>4. Destroying'
  BY DEF WritePid, Goto, world, sweeper, TypeOK, Apart, Destroying
<1> QED BY <1>1, <1>2, <1>3, <1>4

LEMMA AddKeeps ==
    ASSUME IInv, NEW r \in Runs, Add(r)
    PROVE  IInv'
<1> USE DEF IInv
<1>1. TypeOK'
  BY NoneIsNoDir DEF Add, Goto, world, sweeper, TypeOK, Places, ShredSteps
<1>2. Apart'
  BY DEF Add, Goto, world, sweeper, TypeOK, Apart
<1>3. Untouched'
  BY DEF Add, Goto, world, sweeper, TypeOK, Apart, Untouched, Live
<1>4. Destroying'
  BY DEF Add, Goto, world, sweeper, TypeOK, Apart, Destroying
<1> QED BY <1>1, <1>2, <1>3, <1>4

LEMMA NewRunDirFailsKeeps ==
    ASSUME IInv, NEW r \in Runs, NewRunDirFails(r)
    PROVE  IInv'
<1> USE DEF IInv
<1>1. TypeOK'
  BY NoneIsNoDir DEF NewRunDirFails, Over, disk, world, sweeper, TypeOK, Places, ShredSteps
<1>2. Apart'
  BY DEF NewRunDirFails, Over, disk, world, sweeper, TypeOK, Apart
<1>3. Untouched'
  BY DEF NewRunDirFails, Over, disk, world, sweeper, TypeOK, Apart, Untouched, Live
<1>4. Destroying'
  BY DEF NewRunDirFails, Over, disk, world, sweeper, TypeOK, Apart, Destroying
<1> QED BY <1>1, <1>2, <1>3, <1>4

LEMMA EndRunKeeps ==
    ASSUME IInv, NEW r \in Runs, EndRun(r)
    PROVE  IInv'
<1> USE DEF IInv
<1>1. TypeOK'
  <2>1. CASE own[r] = None
    BY <2>1, NoneIsNoDir DEF EndRun, Over, disk, world, TypeOK, Places
  <2>2. CASE own[r] # None
    <3>1. pc' = [pc EXCEPT ![r] = "destroy"] /\ own' = own /\ UNCHANGED <<disk, world, todo, caught>>
      BY <2>2 DEF EndRun, Goto
    <3>2. Shredding(own[r]) \in [of : dir, step : {"list"}, sees : BOOLEAN]
      BY <2>2 DEF TypeOK, Shredding
    <3>3. shred' = [shred EXCEPT ![r] = Shredding(own[r])]
      BY <2>2 DEF EndRun
    <3>4. /\ shred' \in [Runs -> [of : dir \cup {None}, step : ShredSteps, sees : BOOLEAN]]
          /\ \A q \in Runs : shred'[q].of = None <=> shred'[q].step = "none"
      BY <3>2, <3>3, NoneIsNoDir DEF TypeOK, ShredSteps
    <3> QED BY <3>1, <3>4 DEF disk, world, TypeOK, Places
  <2> QED BY <2>1, <2>2
<1>2. Apart'
  BY DEF EndRun, Goto, Over, Shredding, disk, world, TypeOK, Apart
<1>3. Untouched'
  BY SMTT(30) DEF EndRun, Goto, Over, Shredding, disk, world, TypeOK, Apart, Untouched, Live
<1>4. Destroying'
  BY DEF EndRun, Goto, Over, Shredding, disk, world, TypeOK, Apart, Destroying
<1> QED BY <1>1, <1>2, <1>3, <1>4

LEMMA SpareKeeps ==
    ASSUME IInv, NEW r \in Runs, NEW d \in Dirs, Spare(r, d)
    PROVE  IInv'
<1> USE DEF IInv
<1>1. TypeOK'
  BY NoneIsNoDir DEF Spare, Sweeping, disk, world, TypeOK, Places, ShredSteps
<1>2. Apart'
  BY DEF Spare, Sweeping, disk, world, TypeOK, Apart
<1>3. Untouched'
  BY DEF Spare, Sweeping, disk, world, TypeOK, Apart, Untouched, Live
<1>4. Destroying'
  BY DEF Spare, Sweeping, disk, world, TypeOK, Apart, Destroying
<1> QED BY <1>1, <1>2, <1>3, <1>4

LEMMA CondemnKeeps ==
    ASSUME IInv, NEW r \in Runs, NEW d \in Dirs, Condemn(r, d)
    PROVE  IInv'
<1> USE DEF IInv
<1>1. TypeOK'
  BY NoneIsNoDir DEF Condemn, Sweeping, Stale, ProcessAlive, Shredding, disk, world, TypeOK, Places, ShredSteps
<1>2. Apart'
  BY DEF Condemn, Sweeping, Stale, ProcessAlive, Shredding, disk, world, TypeOK, Apart
<1>3. Untouched'
  BY DEF Condemn, Sweeping, Stale, ProcessAlive, Shredding, disk, world, TypeOK, Apart, Untouched, Live
<1>4. Destroying'
  BY DEF Condemn, Sweeping, Stale, ProcessAlive, Shredding, disk, world, TypeOK, Apart, Destroying
<1> QED BY <1>1, <1>2, <1>3, <1>4

LEMMA ListKeeps ==
    ASSUME IInv, NEW r \in Runs, NEW d \in Dirs, List(r, d)
    PROVE  IInv'
<1> USE DEF IInv
<1>1. TypeOK'
  BY NoneIsNoDir DEF List, At, Then, disk, world, TypeOK, Places, ShredSteps
<1>2. Apart'
  BY DEF List, At, Then, disk, world, TypeOK, Apart
<1>3. Untouched'
  BY DEF List, At, Then, disk, world, TypeOK, Apart, Untouched, Live
<1>4. Destroying'
  <2> DEFINE step == IF pid[d] # "absent" THEN "pid-zero"
                     ELSE IF file[d] # "absent" THEN "file" ELSE "rmdir"
  <2>1. /\ shred[r].of = d
        /\ shred' = [shred EXCEPT ![r] = [of |-> d, sees |-> file[d] # "absent", step |-> step]]
        /\ UNCHANGED <<pc, own, file>>
    BY DEF List, At, disk
  <2>2. /\ shred'[r].of = d /\ shred'[r].step = step /\ shred'[r].sees = (file[d] # "absent")
        /\ \A q \in Runs : q # r => shred'[q] = shred[q]
    BY <2>1 DEF TypeOK
  <2> SUFFICES ASSUME NEW q \in Runs, pc[q] = "destroy"
               PROVE  /\ own[q] # None /\ shred'[q].of = own[q]
                      /\ \/ shred'[q].step = "rmdir"
                         \/ shred'[q].step \in {"pid-zero", "pid-unlink"} /\ ~shred'[q].sees
                         => file[own[q]] = "absent"
    BY <2>1 DEF Destroying
  <2>3. CASE q = r
    <3>1. own[q] = d /\ own[q] # None
      BY <2>1, <2>3 DEF Destroying
    <3>2. step = "rmdir" => file[d] = "absent"
      OBVIOUS
    <3> QED BY <2>2, <2>3, <3>1, <3>2
  <2>4. CASE q # r
    BY <2>2, <2>4 DEF Destroying
  <2> QED BY <2>3, <2>4
<1> QED BY <1>1, <1>2, <1>3, <1>4

LEMMA ZeroPidKeeps ==
    ASSUME IInv, NEW r \in Runs, NEW d \in Dirs, ZeroPid(r, d)
    PROVE  IInv'
<1> USE DEF IInv
<1>1. TypeOK'
  BY NoneIsNoDir DEF ZeroPid, At, Then, world, TypeOK, Places, ShredSteps
<1>2. Apart'
  BY DEF ZeroPid, At, Then, world, TypeOK, Apart
<1>3. Untouched'
  BY DEF ZeroPid, At, Then, world, TypeOK, Apart, Untouched, Live
<1>4. Destroying'
  BY DEF ZeroPid, At, Then, world, TypeOK, Apart, Destroying
<1> QED BY <1>1, <1>2, <1>3, <1>4

LEMMA UnlinkPidKeeps ==
    ASSUME IInv, NEW r \in Runs, NEW d \in Dirs, UnlinkPid(r, d)
    PROVE  IInv'
<1> USE DEF IInv
<1>1. TypeOK'
  BY NoneIsNoDir DEF UnlinkPid, At, Then, world, TypeOK, Places, ShredSteps
<1>2. Apart'
  BY DEF UnlinkPid, At, Then, world, TypeOK, Apart
<1>3. Untouched'
  BY DEF UnlinkPid, At, Then, world, TypeOK, Apart, Untouched, Live
<1>4. Destroying'
  BY DEF UnlinkPid, At, Then, world, TypeOK, Apart, Destroying
<1> QED BY <1>1, <1>2, <1>3, <1>4

LEMMA ShredFileKeeps ==
    ASSUME IInv, NEW r \in Runs, NEW d \in Dirs, ShredFile(r, d)
    PROVE  IInv'
<1> USE DEF IInv
<1>1. TypeOK'
  BY NoneIsNoDir DEF ShredFile, At, Then, world, TypeOK, Places, ShredSteps
<1>2. Apart'
  BY DEF ShredFile, At, Then, world, TypeOK, Apart
<1>3. Untouched'
  BY DEF ShredFile, At, Then, world, TypeOK, Apart, Untouched, Live
<1>4. Destroying'
  BY DEF ShredFile, At, Then, world, TypeOK, Apart, Destroying
<1> QED BY <1>1, <1>2, <1>3, <1>4

LEMMA RmdirKeeps ==
    ASSUME IInv, NEW r \in Runs, NEW d \in Dirs, Rmdir(r, d)
    PROVE  IInv'
<1> USE DEF IInv
<1>1. TypeOK'
  BY NoneIsNoDir DEF Rmdir, At, Resting, TypeOK, Places, ShredSteps
<1>2. Apart'
  BY DEF Rmdir, At, Resting, TypeOK, Apart
<1>3. Untouched'
  BY DEF Rmdir, At, Resting, TypeOK, Apart, Untouched, Live
<1>4. Destroying'
  BY DEF Rmdir, At, Resting, TypeOK, Apart, Destroying
<1> QED BY <1>1, <1>2, <1>3, <1>4

LEMMA RmdirFailsKeeps ==
    ASSUME IInv, NEW r \in Runs, NEW d \in Dirs, RmdirFails(r, d)
    PROVE  IInv'
<1> USE DEF IInv
<1>1. TypeOK'
  BY NoneIsNoDir DEF RmdirFails, At, Over, Resting, disk, world, TypeOK, Places, ShredSteps
<1>2. Apart'
  BY DEF RmdirFails, At, Over, Resting, disk, world, TypeOK, Apart
<1>3. Untouched'
  BY DEF RmdirFails, At, Over, Resting, disk, world, TypeOK, Apart, Untouched, Live
<1>4. Destroying'
  BY DEF RmdirFails, At, Over, Resting, disk, world, TypeOK, Apart, Destroying
<1> QED BY <1>1, <1>2, <1>3, <1>4

LEMMA KillKeeps ==
    ASSUME IInv, NEW S \in SUBSET Runs, Kill(S)
    PROVE  IInv'
<1> USE DEF IInv
<1>1. TypeOK'
  BY KillsAreBounded, NoneIsNoDir DEF Kill, Over, Resting, disk, TypeOK, Places, ShredSteps
<1>2. Apart'
  BY DEF Kill, Over, TypeOK, Apart
<1>3. Untouched'
  BY DEF Kill, Over, Resting, disk, TypeOK, Untouched, Live
<1>4. Destroying'
  BY DEF Kill, Over, Resting, disk, TypeOK, Destroying
<1> QED BY <1>1, <1>2, <1>3, <1>4

LEMMA TimeKeeps ==
    ASSUME IInv, NEW d \in Dirs, ReusePid(d) \/ GrowOld(d)
    PROVE  IInv'
<1> USE DEF IInv
<1>1. UNCHANGED <<pc, own, disk, kills, sweeper, caught>> /\ old \subseteq old'
  BY DEF ReusePid, GrowOld
<1>2. d \in dir
  BY DEF ReusePid, GrowOld, TypeOK
<1>3. TypeOK'
  BY <1>1, <1>2 DEF ReusePid, GrowOld, disk, sweeper, TypeOK
<1>4. Apart' /\ Untouched' /\ Destroying'
  BY <1>1 DEF disk, sweeper, Apart, Untouched, Destroying
<1> QED BY <1>3, <1>4

LEMMA StepKeeps ==
    ASSUME IInv, [Next]_vars
    PROVE  IInv'
<1>1. ASSUME NEW r \in Runs, Start(r) \/ Proceeds(r) PROVE IInv'
  <2>1. ASSUME NEW d \in Dirs, Spare(r, d) \/ Condemn(r, d) \/ Shred(r, d) PROVE IInv'
    BY <2>1, SpareKeeps, CondemnKeeps, ListKeeps, ZeroPidKeeps, UnlinkPidKeeps, ShredFileKeeps,
       RmdirKeeps, RmdirFailsKeeps DEF Shred
  <2> QED BY <1>1, <2>1, StartKeeps, SweepDoneKeeps, MkdirKeeps, CreatePidKeeps, WritePidKeeps, AddKeeps,
             NewRunDirFailsKeeps, EndRunKeeps DEF Proceeds
<1>2. ASSUME NEW d \in Dirs, ReusePid(d) \/ GrowOld(d) PROVE IInv'
  BY <1>2, TimeKeeps
<1>3. ASSUME NEW S \in SUBSET Runs, Kill(S) PROVE IInv'
  BY <1>3, KillKeeps
<1>4. CASE UNCHANGED vars
  BY <1>4 DEF vars, disk, world, sweeper, IInv, TypeOK, Apart, Untouched, Destroying
<1> QED BY <1>1, <1>2, <1>3, <1>4 DEF Next

LEMMA InvariantHolds == Spec => []IInv
<1>1. IInv /\ [Next]_vars => IInv'
  BY StepKeeps
<1> QED BY <1>1, InitHolds, PTL DEF Spec

-----------------------------------------------------------------------------
\* Sweeps, shreds and runs are about directories that exist, and a run that has
\* not made one has none.
THEOREM TypeCorrect == Spec => []TypeOK
<1>1. IInv => TypeOK
  BY DEF IInv
<1> QED BY <1>1, InvariantHolds, PTL

\* The child of a run that is not too old finds its Secret in its file, however
\* many other runs sweep: none of them condemns the directory once .pid is there.
THEOREM SecretKept == Spec => []LiveSecretKept
<1>1. IInv => LiveSecretKept
  BY DEF IInv, Untouched, Live, LiveSecretKept
<1> QED BY <1>1, InvariantHolds, PTL

\* destroy returns with the Secret file gone, whoever shreds the directory with it.
THEOREM NothingLeft == Spec => NothingLeftBehind
<1> DEFINE Clean == \A r \in Runs : pc[r] = "destroy" /\ pc'[r] = "idle" /\ kills' = kills
                       => own[r] = None \/ file'[own[r]] = "absent"
<1>1. IInv /\ [Next]_vars => [Clean]_vars
  <2> SUFFICES ASSUME IInv, [Next]_vars, NEW r \in Runs,
                      pc[r] = "destroy", pc'[r] = "idle", kills' = kills, own[r] # None
               PROVE  file'[own[r]] = "absent"
    OBVIOUS
  <2> USE DEF IInv
  <2>1. ASSUME NEW q \in Runs, Start(q) \/ Proceeds(q) PROVE file'[own[r]] = "absent"
    <3>1. CASE \E d \in Dirs : Rmdir(q, d)
      BY <3>1 DEF Rmdir, TypeOK
    <3>2. CASE \E d \in Dirs : RmdirFails(q, d)
      BY <3>2 DEF RmdirFails, At, Over, disk, TypeOK, Destroying
    <3>3. CASE Start(q) \/ SweepDone(q) \/ Mkdir(q) \/ CreatePid(q) \/ WritePid(q) \/ Add(q)
      BY <3>3 DEF Start, SweepDone, Mkdir, CreatePid, WritePid, Add, Goto, TypeOK
    <3>4. CASE NewRunDirFails(q) \/ EndRun(q)
      BY <3>4 DEF NewRunDirFails, EndRun, Over, Goto, TypeOK
    <3>5. ASSUME NEW d \in Dirs,
                 \/ Spare(q, d) \/ Condemn(q, d)
                 \/ List(q, d) \/ ZeroPid(q, d) \/ UnlinkPid(q, d) \/ ShredFile(q, d)
          PROVE  FALSE
      BY <3>5 DEF Spare, Condemn, List, ZeroPid, UnlinkPid, ShredFile
    <3> QED BY <2>1, <3>1, <3>2, <3>3, <3>4, <3>5 DEF Proceeds, Shred
  <2>2. CASE \E d \in Dirs : ReusePid(d) \/ GrowOld(d)
    BY <2>2 DEF ReusePid, GrowOld
  <2>3. CASE \E S \in SUBSET Runs : Kill(S)
    BY <2>3 DEF Kill, TypeOK
  <2>4. CASE UNCHANGED vars
    BY <2>4 DEF vars
  <2> QED BY <2>1, <2>2, <2>3, <2>4 DEF Next
<1> QED BY <1>1, InvariantHolds, PTL DEF Spec, NothingLeftBehind

-----------------------------------------------------------------------------
(***************************************************************************)
(* RedactWriter.                                                           *)
(*                                                                         *)
(* First sequences, and induction over them as far as it goes here: over   *)
(* sets of numbers, from the well-foundedness of <.  Then the matcher: the *)
(* parse of a buffer into pieces (Parse) and what one scan sends and holds *)
(* (ScanProperties).  Then the Writer, by the invariant RInv.  Last, that  *)
(* two scans one after the other are one scan (ScanOn).                    *)
(***************************************************************************)

\* Every nonempty set of numbers has a least element.
LEMMA Least ==
    ASSUME NEW T \in SUBSET Nat, T # {}
    PROVE  \E n \in T : \A m \in T : n <= m
<1> DEFINE R == OpToRel(<, Nat)
<1>1. PICK n \in T : \A m \in T : <<m, n>> \notin R
  <2> HIDE DEF R
  <2>1. IsWellFoundedOn(R, Nat)
    BY NatLessThanWellFounded DEF R
  <2> QED BY <2>1, WFMin
<1>2. ASSUME NEW m \in T, m < n PROVE FALSE
  <2>1. <<m, n>> \in Nat \X Nat /\ <<m, n>>[1] < <<m, n>>[2]
    BY <1>2
  <2> QED BY <1>1, <2>1 DEF OpToRel
<1> QED BY <1>2

\* Induction, over a set of numbers rather than an operator.
LEMMA Induction ==
    ASSUME NEW T \in SUBSET Nat, 0 \in T, \A n \in T : n + 1 \in T
    PROVE  T = Nat
<1>1. SUFFICES ASSUME Nat \ T # {} PROVE FALSE
  OBVIOUS
<1>2. PICK n \in Nat \ T : \A m \in Nat \ T : n <= m
  BY <1>1, Least
<1>3. n - 1 \in T /\ n = (n - 1) + 1
  BY <1>2
<1> QED BY <1>2, <1>3

\* A bounded set of numbers has a greatest element.
LEMMA MaxOf ==
    ASSUME NEW N \in Nat, NEW S \in SUBSET (0..N), S # {}
    PROVE  Max(S) \in S /\ \A n \in S : n <= Max(S)
<1> DEFINE T == {k \in Nat : \E n \in S : k = N - n}
<1>1. PICK m \in T : \A n \in T : m <= n
  <2>1. PICK e \in S : TRUE
    OBVIOUS
  <2>2. N - e \in T
    BY <2>1
  <2>3. T \in SUBSET Nat /\ T # {}
    BY <2>2
  <2> HIDE DEF T
  <2> QED BY <2>3, Least
<1>2. PICK x \in S : m = N - x
  BY <1>1
<1>3. \A y \in S : x >= y
  BY <1>1, <1>2
<1>4. \E z \in S : \A y \in S : z >= y
  BY <1>3
<1>5. Max(S) \in S /\ \A y \in S : Max(S) >= y
  BY <1>4 DEF Max
<1> QED BY <1>5

-----------------------------------------------------------------------------
\* What FlattenSeq adds up, step by step.
Sums(f, seqs, n) == f[0] = <<>> /\ \A i \in 1..n : f[i] = f[i - 1] \o seqs[i]

\* Such a function exists.
LEMMA SumsExist ==
    ASSUME NEW S, NEW seqs \in Seq(Seq(S))
    PROVE  \E f \in [0..Len(seqs) -> Seq(S)] : Sums(f, seqs, Len(seqs))
<1> DEFINE Has(n) == n <= Len(seqs) => \E f \in [0..n -> Seq(S)] : Sums(f, seqs, n)
           T == {n \in Nat : Has(n)}
<1>0. Len(seqs) \in Nat
  BY LenProperties
<1>1. 0 \in T
  <2> DEFINE g == [i \in 0..0 |-> <<>>]
  <2>1. g \in [0..0 -> Seq(S)] /\ Sums(g, seqs, 0)
    BY DEF Sums
  <2>2. Has(0)
    BY <2>1
  <2> QED BY <2>2
<1>2. ASSUME NEW n \in T PROVE n + 1 \in T
  <2>1. SUFFICES ASSUME n + 1 <= Len(seqs)
                 PROVE  \E g \in [0..n + 1 -> Seq(S)] : Sums(g, seqs, n + 1)
    OBVIOUS
  <2>2. n \in Nat /\ Has(n)
    OBVIOUS
  <2>3. PICK f \in [0..n -> Seq(S)] : Sums(f, seqs, n)
    BY <2>1, <2>2
  <2> DEFINE g == [i \in 0..n + 1 |-> IF i = n + 1 THEN f[n] \o seqs[i] ELSE f[i]]
  <2>4. seqs[n + 1] \in Seq(S)
    BY <2>1, <2>2
  <2>5. g \in [0..n + 1 -> Seq(S)]
    BY <2>2, <2>4
  <2>6. g[0] = <<>>
    BY <2>2, <2>3 DEF Sums
  <2>7. ASSUME NEW i \in 1..n + 1 PROVE g[i] = g[i - 1] \o seqs[i]
    <3>1. i \in 0..n + 1 /\ i - 1 \in 0..n + 1 /\ i - 1 # n + 1
      BY <2>2
    <3>2. g[i - 1] = f[i - 1]
      BY <3>1
    <3>3. g[i] = IF i = n + 1 THEN f[n] \o seqs[i] ELSE f[i]
      BY <3>1
    <3>4. CASE i = n + 1
      <4>1. i - 1 = n
        BY <3>4, <2>2
      <4> QED BY <4>1, <3>2, <3>3, <3>4
    <3>5. CASE i # n + 1
      <4>1. i \in 1..n
        BY <2>2, <3>5
      <4> QED BY <4>1, <3>2, <3>3, <3>5, <2>3 DEF Sums
    <3> QED BY <3>4, <3>5
  <2> QED
    <3> HIDE DEF g
    <3> QED BY <2>5, <2>6, <2>7 DEF Sums
<1>3. Has(Len(seqs))
  <2> HIDE DEF T, Has
  <2>1. T \in SUBSET Nat
    BY DEF T
  <2>2. Len(seqs) \in T
    BY <1>0, <1>1, <1>2, <2>1, Induction
  <2> QED BY <2>2 DEF T
<1>4. PICK f \in [0..Len(seqs) -> Seq(S)] : Sums(f, seqs, Len(seqs))
  BY <1>0, <1>3
<1> QED BY <1>4

\* There is only one.
LEMMA SumsAgree ==
    ASSUME NEW f, NEW g, NEW n \in Nat, NEW s, NEW t,
           Sums(f, s, n), Sums(g, t, n),
           \A i \in 1..n : s[i] = t[i]
    PROVE  f[n] = g[n]
<1> DEFINE T == {m \in Nat : m <= n => f[m] = g[m]}
<1>1. 0 \in T
  BY DEF Sums
<1>2. ASSUME NEW m \in T PROVE m + 1 \in T
  <2>1. CASE m + 1 <= n
    <3>1. m \in Nat /\ f[m] = g[m] /\ m + 1 \in 1..n /\ (m + 1) - 1 = m
      BY <2>1
    <3>2. /\ f[m + 1] = f[(m + 1) - 1] \o s[m + 1]
          /\ g[m + 1] = g[(m + 1) - 1] \o t[m + 1]
          /\ s[m + 1] = t[m + 1]
      <4>1. m + 1 \in 1..n
        BY <3>1
      <4> QED BY <4>1 DEF Sums
    <3>3. f[m + 1] = g[m + 1]
      <4> DEFINE k == (m + 1) - 1
      <4>1. f[k] = g[k]
        BY <3>1
      <4> HIDE DEF k
      <4> QED BY <4>1, <3>2 DEF k
    <3>4. m + 1 \in Nat
      BY <3>1
    <3> QED BY <3>3, <3>4
  <2>2. CASE ~(m + 1 <= n)
    BY <2>2
  <2> QED BY <2>1, <2>2
<1>3. n \in T
  <2>1. T \in SUBSET Nat
    OBVIOUS
  <2> HIDE DEF T
  <2> QED BY <1>1, <1>2, <2>1, Induction
<1> QED BY <1>3

\* FlattenSeq is where the sums end.
LEMMA FlattenIsSum ==
    ASSUME NEW S, NEW seqs \in Seq(Seq(S)), NEW f \in [0..Len(seqs) -> Seq(S)], Sums(f, seqs, Len(seqs))
    PROVE  FlattenSeq(seqs) = f[Len(seqs)]
<1>0. Len(seqs) \in Nat /\ \A i \in 1..Len(seqs) : seqs[i] \in Seq(S)
  BY LenProperties, ElementOfSeq
<1>1. CASE Len(seqs) = 0
  <2>1. seqs = <<>>
    BY <1>1, EmptySeq
  <2> QED BY <1>1, <2>1 DEF FlattenSeq, Sums
<1>2. CASE Len(seqs) # 0
  <2> DEFINE n == Len(seqs)
             Is(h) == h = [i \in 1..n |-> IF i = 1 THEN seqs[i] ELSE h[i - 1] \o seqs[i]]
             g == [i \in 1..n |-> f[i]]
             flatten == CHOOSE h : Is(h)
  <2>1. FlattenSeq(seqs) = flatten[n]
    BY <1>2 DEF FlattenSeq
  <2>2. Is(g)
    <3>1. ASSUME NEW i \in 1..n
          PROVE  g[i] = IF i = 1 THEN seqs[i] ELSE g[i - 1] \o seqs[i]
      <4>1. f[i] = f[i - 1] \o seqs[i] /\ seqs[i] \in Seq(S) /\ g[i] = f[i]
        BY <1>0 DEF Sums
      <4>2. CASE i = 1
        <5>1. i - 1 = 0 /\ f[0] = <<>>
          BY <4>2 DEF Sums
        <5>2. <<>> \o seqs[i] = seqs[i]
          BY <4>1, ConcatEmptySeq
        <5> QED BY <4>1, <4>2, <5>1, <5>2
      <4>3. CASE i # 1
        <5>1. i - 1 \in 1..n
          BY <4>3, <1>0
        <5>2. g[i - 1] = f[i - 1]
          BY <5>1
        <5> QED BY <4>1, <4>3, <5>2
      <4> QED BY <4>2, <4>3
    <3> QED BY <3>1
  <2>3. Is(flatten)
    <3> HIDE DEF Is, g
    <3> QED BY <2>2
  <2>4. \A i \in 1..n : flatten[i] = IF i = 1 THEN seqs[i] ELSE flatten[i - 1] \o seqs[i]
    <3> HIDE DEF flatten
    <3> QED BY <2>3
  <2> DEFINE h == [i \in 0..n |-> IF i = 0 THEN <<>> ELSE flatten[i]]
  <2> HIDE DEF flatten
  <2>5. h[0] = f[0] /\ h[n] = flatten[n]
    BY <1>0, <1>2 DEF Sums
  <2>6. ASSUME NEW i \in 1..n PROVE h[i] = h[i - 1] \o seqs[i]
    <3>1. h[i] = flatten[i]
      BY <1>0
    <3>2. CASE i = 1
      <4>1. h[i - 1] = <<>>
        BY <3>2, <1>0
      <4>2. <<>> \o seqs[i] = seqs[i]
        BY <1>0, ConcatEmptySeq
      <4> QED BY <3>1, <3>2, <4>1, <4>2, <2>4
    <3>3. CASE i # 1
      <4>1. h[i - 1] = flatten[i - 1]
        BY <3>3, <1>0
      <4> QED BY <3>1, <3>3, <4>1, <2>4
    <3> QED BY <3>2, <3>3
  <2>7. h[n] = f[n]
    <3>1. n \in Nat /\ Sums(h, seqs, n) /\ Sums(f, seqs, n)
      BY <1>0, <2>5, <2>6 DEF Sums
    <3> HIDE DEF h, n
    <3> QED BY <3>1, SumsAgree
  <2> QED BY <2>1, <2>5, <2>7
<1> QED BY <1>1, <1>2

\* Concatenation associates.
LEMMA Associates ==
    ASSUME NEW S, NEW s \in Seq(S), NEW t \in Seq(S), NEW u \in Seq(S)
    PROVE  (s \o t) \o u = s \o (t \o u)
BY ConcatAssociative

\* What a sequence of one element is.
LEMMA Single ==
    ASSUME NEW S, NEW e \in S
    PROVE  <<e>> \in Seq(S) /\ Len(<<e>>) = 1 /\ <<e>>[1] = e
OBVIOUS

\* Induction over sequences, from the empty one by Append.
LEMMA SeqInduction ==
    ASSUME NEW S, NEW T \in SUBSET Seq(S), <<>> \in T,
           \A s \in T, e \in S : Append(s, e) \in T
    PROVE  T = Seq(S)
<1> DEFINE Has(n) == \A s \in Seq(S) : Len(s) = n => s \in T
           N == {n \in Nat : Has(n)}
<1>1. 0 \in N
  BY EmptySeq
<1>2. ASSUME NEW n \in N PROVE n + 1 \in N
  <2>1. SUFFICES ASSUME NEW s \in Seq(S), Len(s) = n + 1 PROVE s \in T
    OBVIOUS
  <2>2. s # <<>> /\ n \in Nat
    BY <2>1, EmptySeq
  <2>3. PICK r \in Seq(S), e \in S : s = Append(r, e)
    BY <2>2, SequenceEmptyOrAppend
  <2>4. Len(r) = n
    <3>1. Len(s) = Len(r) + 1 /\ Len(r) \in Nat
      BY <2>3, AppendProperties, LenProperties
    <3> QED BY <2>1, <2>2, <3>1
  <2> QED BY <2>3, <2>4
<1>3. N = Nat
  <2>1. N \in SUBSET Nat
    OBVIOUS
  <2> HIDE DEF N
  <2> QED BY <1>1, <1>2, <2>1, Induction
<1>4. ASSUME NEW s \in Seq(S) PROVE s \in T
  <2>1. Len(s) \in N
    BY <1>3, LenProperties
  <2> QED BY <2>1
<1> QED BY <1>4

\* FlattenSeq, by Append.
LEMMA FlattenProperties ==
    ASSUME NEW S
    PROVE  /\ FlattenSeq(<<>>) = <<>>
           /\ \A seqs \in Seq(Seq(S)) : FlattenSeq(seqs) \in Seq(S)
           /\ \A seqs \in Seq(Seq(S)), s \in Seq(S) :
                FlattenSeq(Append(seqs, s)) = FlattenSeq(seqs) \o s
<1>1. FlattenSeq(<<>>) = <<>>
  BY EmptySeq DEF FlattenSeq
<1>2. ASSUME NEW seqs \in Seq(Seq(S)) PROVE FlattenSeq(seqs) \in Seq(S)
  <2>1. PICK f \in [0..Len(seqs) -> Seq(S)] : Sums(f, seqs, Len(seqs))
    BY SumsExist
  <2>2. Len(seqs) \in 0..Len(seqs)
    BY LenProperties
  <2> QED BY <2>1, <2>2, FlattenIsSum
<1>3. ASSUME NEW seqs \in Seq(Seq(S)), NEW s \in Seq(S)
      PROVE  FlattenSeq(Append(seqs, s)) = FlattenSeq(seqs) \o s
  <2> DEFINE n == Len(seqs)
             more == Append(seqs, s)
  <2>1. /\ n \in Nat /\ more \in Seq(Seq(S)) /\ Len(more) = n + 1 /\ more[n + 1] = s
        /\ \A i \in 1..n : more[i] = seqs[i]
    BY AppendProperties, LenProperties
  <2>2. PICK f \in [0..Len(seqs) -> Seq(S)] : Sums(f, seqs, Len(seqs))
    BY SumsExist
  <2>3. PICK g \in [0..Len(more) -> Seq(S)] : Sums(g, more, Len(more))
    BY <2>1, SumsExist
  <2> HIDE DEF more
  <2>4. Sums(g, more, n)
    <3>1. \A i \in 1..n : i \in 1..Len(more)
      BY <2>1
    <3> QED BY <3>1, <2>3 DEF Sums
  <2>5. g[n] = f[n]
    BY <2>1, <2>2, <2>4, SumsAgree
  <2>6. g[n + 1] = g[n] \o s
    <3>1. n + 1 \in 1..Len(more) /\ (n + 1) - 1 = n
      BY <2>1
    <3> QED BY <2>1, <2>3, <3>1 DEF Sums
  <2>7. FlattenSeq(more) = g[n + 1] /\ FlattenSeq(seqs) = f[n]
    BY <2>1, <2>2, <2>3, FlattenIsSum
  <2> QED BY <2>5, <2>6, <2>7 DEF more
<1> QED BY <1>1, <1>2, <1>3

-----------------------------------------------------------------------------
Piece == {Byte(c) : c \in Bytes} \cup {Marker(p) : p \in Patterns}

TextOf(x) == x.text
Plain(x) == ~x.marker

\* A piece has a text: one byte of its own, or the Pattern under its marker.
LEMMA PieceProperties ==
    /\ \A x \in Piece : TextOf(x) \in Seq(Bytes) /\ Len(TextOf(x)) \in Nat \ {0}
    /\ \A x \in Piece : Plain(x) \in BOOLEAN
    /\ \A x \in Piece : Plain(x) =>
         Len(TextOf(x)) = 1 /\ TextOf(x)[1] \in Bytes /\ x = Byte(TextOf(x)[1])
    /\ \A x \in Piece : ~Plain(x) => TextOf(x) \in Patterns /\ x = Marker(TextOf(x))
<1>1. ASSUME NEW c \in Bytes
      PROVE  /\ Plain(Byte(c)) /\ TextOf(Byte(c)) = <<c>> /\ Plain(Byte(c)) \in BOOLEAN
             /\ <<c>> \in Seq(Bytes) /\ Len(<<c>>) = 1 /\ <<c>>[1] = c
  BY Single DEF Byte, Plain, TextOf
<1>2. ASSUME NEW p \in Patterns
      PROVE  /\ ~Plain(Marker(p)) /\ TextOf(Marker(p)) = p /\ Plain(Marker(p)) \in BOOLEAN
             /\ p \in Seq(Bytes) /\ Len(p) \in Nat \ {0}
  BY PatternsAssumption, EmptySeq DEF Marker, Plain, TextOf
<1>3. \A x \in Piece : \/ \E c \in Bytes : x = Byte(c)
                       \/ \E p \in Patterns : x = Marker(p)
  BY DEF Piece
<1>4. ASSUME NEW x \in Piece
      PROVE  /\ TextOf(x) \in Seq(Bytes) /\ Len(TextOf(x)) \in Nat \ {0} /\ Plain(x) \in BOOLEAN
             /\ Plain(x) =>
                  Len(TextOf(x)) = 1 /\ TextOf(x)[1] \in Bytes /\ x = Byte(TextOf(x)[1])
             /\ ~Plain(x) => TextOf(x) \in Patterns /\ x = Marker(TextOf(x))
  <2>1. CASE \E c \in Bytes : x = Byte(c)
    <3>1. PICK c \in Bytes : x = Byte(c)
      BY <2>1
    <3>2. TextOf(x) = <<c>> /\ Len(TextOf(x)) = 1 /\ TextOf(x)[1] = c
      BY <3>1, <1>1
    <3>3. TextOf(x) \in Seq(Bytes) /\ Plain(x) /\ Plain(x) \in BOOLEAN
      BY <3>1, <1>1
    <3> QED BY <3>1, <3>2, <3>3
  <2>2. CASE \E p \in Patterns : x = Marker(p)
    BY <2>2, <1>2
  <2> QED BY <1>3, <2>1, <2>2
<1> QED BY <1>4

\* A byte of output is a piece.
LEMMA ByteIsPiece == \A c \in Bytes : Byte(c) \in Piece /\ Plain(Byte(c)) /\ TextOf(Byte(c)) = <<c>>
BY DEF Byte, Plain, TextOf, Piece

\* So is a marker over a Pattern.
LEMMA MarkerIsPiece ==
    \A p \in Patterns : Marker(p) \in Piece /\ ~Plain(Marker(p)) /\ TextOf(Marker(p)) = p
BY DEF Marker, Plain, TextOf, Piece

Texts(pieces) == [i \in 1..Len(pieces) |-> TextOf(pieces[i])]

\* The texts of one piece more.
LEMMA TextsAppend ==
    ASSUME NEW s \in Seq(Piece)
    PROVE  /\ Texts(s) \in Seq(Seq(Bytes))
           /\ \A x \in Piece : Texts(Append(s, x)) = Append(Texts(s), TextOf(x))
<1>0. Len(s) \in Nat /\ \A i \in 1..Len(s) : s[i] \in Piece
  BY LenProperties, ElementOfSeq
<1>1. Texts(s) \in [1..Len(s) -> Seq(Bytes)]
  BY <1>0, PieceProperties DEF Texts
<1>2. Texts(s) \in Seq(Seq(Bytes)) /\ Len(Texts(s)) = Len(s)
  <2>1. Texts(s) \in Seq(Seq(Bytes))
    BY <1>0, <1>1, SeqDef
  <2> QED BY <2>1, <1>0, <1>1, LenProperties
<1>3. ASSUME NEW x \in Piece PROVE Texts(Append(s, x)) = Append(Texts(s), TextOf(x))
  <2>1. /\ Len(Append(s, x)) = Len(s) + 1 /\ Append(s, x)[Len(s) + 1] = x
        /\ \A i \in 1..Len(s) : Append(s, x)[i] = s[i]
    BY AppendProperties
  <2>2. TextOf(x) \in Seq(Bytes)
    BY PieceProperties
  <2> DEFINE t == Append(Texts(s), TextOf(x))
  <2>3. /\ t \in Seq(Seq(Bytes)) /\ Len(t) = Len(s) + 1 /\ t[Len(s) + 1] = TextOf(x)
        /\ \A i \in 1..Len(s) : t[i] = Texts(s)[i]
    BY <1>2, <2>2, AppendProperties
  <2> DEFINE u == Texts(Append(s, x))
  <2>4. /\ u \in [1..Len(s) + 1 -> Seq(Bytes)] /\ u[Len(s) + 1] = TextOf(x)
        /\ \A i \in 1..Len(s) : u[i] = Texts(s)[i]
    BY <1>0, <2>1, <2>2, PieceProperties DEF Texts
  <2>5. u \in Seq(Seq(Bytes)) /\ Len(u) = Len(s) + 1
    <3>1. Len(s) + 1 \in Nat
      BY <1>0
    <3>2. u \in Seq(Seq(Bytes))
      BY <3>1, <2>4, SeqDef
    <3> QED BY <2>4, <3>1, <3>2, LenProperties
  <2>6. \A i \in 1..Len(u) : u[i] = t[i]
    BY <1>0, <2>3, <2>4, <2>5
  <2> HIDE DEF u, t
  <2>7. u = t
    BY <2>3, <2>5, <2>6, SeqEqual
  <2> QED BY <2>7 DEF u, t
<1> QED BY <1>2, <1>3

\* Text, by Append.
LEMMA TextProperties ==
    /\ Text(<<>>) = <<>>
    /\ \A s \in Seq(Piece) : Text(s) \in Seq(Bytes)
    /\ \A s \in Seq(Piece), x \in Piece : Text(Append(s, x)) = Text(s) \o TextOf(x)
<1>1. \A s : Text(s) = FlattenSeq(Texts(s))
  BY DEF Text, Texts, TextOf
<1>2. Texts(<<>>) = <<>>
  BY DEF Texts
<1>3. \A s \in Seq(Piece) : Text(s) \in Seq(Bytes)
  BY <1>1, TextsAppend, FlattenProperties
<1>4. ASSUME NEW s \in Seq(Piece), NEW x \in Piece
      PROVE  Text(Append(s, x)) = Text(s) \o TextOf(x)
  <2>1. Texts(s) \in Seq(Seq(Bytes)) /\ Texts(Append(s, x)) = Append(Texts(s), TextOf(x))
    BY TextsAppend
  <2>2. TextOf(x) \in Seq(Bytes)
    BY PieceProperties
  <2> QED BY <1>1, <2>1, <2>2, FlattenProperties
<1> QED BY <1>1, <1>2, <1>3, <1>4, FlattenProperties

\* The text of a concatenation.
LEMMA TextConcat ==
    ASSUME NEW s \in Seq(Piece), NEW t \in Seq(Piece)
    PROVE  Text(s \o t) = Text(s) \o Text(t)
<1> DEFINE T == {r \in Seq(Piece) : Text(s \o r) = Text(s) \o Text(r)}
<1>1. <<>> \in T
  BY EmptySeq, ConcatEmptySeq, TextProperties
<1>2. ASSUME NEW r \in T, NEW x \in Piece PROVE Append(r, x) \in T
  <2>1. r \in Seq(Piece) /\ Text(s \o r) = Text(s) \o Text(r) /\ s \o r \in Seq(Piece)
    BY ConcatProperties
  <2> HIDE DEF T
  <2>2. s \o Append(r, x) = Append(s \o r, x)
    BY <2>1
  <2>3. Text(s \o Append(r, x)) = (Text(s) \o Text(r)) \o TextOf(x)
    BY <2>1, <2>2, TextProperties
  <2>4. /\ Text(s) \in Seq(Bytes) /\ Text(r) \in Seq(Bytes) /\ TextOf(x) \in Seq(Bytes)
        /\ Text(Append(r, x)) = Text(r) \o TextOf(x) /\ Append(r, x) \in Seq(Piece)
    BY <2>1, TextProperties, PieceProperties, AppendProperties
  <2>5. (Text(s) \o Text(r)) \o TextOf(x) = Text(s) \o (Text(r) \o TextOf(x))
    BY <2>4, Associates, SMTT(30)
  <2>6. Text(s \o Append(r, x)) = Text(s) \o Text(Append(r, x))
    BY <2>3, <2>4, <2>5
  <2> QED BY <2>4, <2>6 DEF T
<1>3. T = Seq(Piece)
  <2>1. T \in SUBSET Seq(Piece)
    OBVIOUS
  <2> HIDE DEF T
  <2> QED BY <1>1, <1>2, <2>1, SeqInduction
<1> QED BY <1>3

Take(s, n) == SubSeq(s, 1, n)
Drop(s, n) == SubSeq(s, n + 1, Len(s))

\* Where a sequence is cut in two.
LEMMA CutProperties ==
    ASSUME NEW S, NEW s \in Seq(S), NEW n \in 0..Len(s)
    PROVE  /\ Take(s, n) \in Seq(S) /\ Len(Take(s, n)) = n
           /\ \A i \in 1..n : Take(s, n)[i] = s[i]
           /\ Drop(s, n) \in Seq(S) /\ Len(Drop(s, n)) = Len(s) - n
           /\ \A i \in 1..Len(s) - n : Drop(s, n)[i] = s[n + i]
           /\ s = Take(s, n) \o Drop(s, n)
<1>0. Len(s) \in Nat /\ \A i \in 1..Len(s) : s[i] \in S
  BY LenProperties, ElementOfSeq
<1>1. /\ Take(s, n) \in Seq(S) /\ Len(Take(s, n)) = n
      /\ \A i \in 1..n : Take(s, n)[i] = s[i]
  BY <1>0, SubSeqProperties DEF Take
<1>2. /\ Drop(s, n) \in Seq(S) /\ Len(Drop(s, n)) = Len(s) - n
      /\ \A i \in 1..Len(s) - n : Drop(s, n)[i] = s[n + i]
  <2>1. \A i \in n + 1..Len(s) : s[i] \in S
    BY <1>0
  <2>2. /\ Drop(s, n) \in Seq(S)
        /\ Len(Drop(s, n)) = IF n + 1 <= Len(s) THEN Len(s) - (n + 1) + 1 ELSE 0
        /\ \A i \in 1..Len(s) - (n + 1) + 1 : Drop(s, n)[i] = s[n + 1 + i - 1]
    BY <1>0, <2>1, SubSeqProperties DEF Drop
  <2>3. Len(Drop(s, n)) = Len(s) - n
    BY <1>0, <2>2
  <2>4. ASSUME NEW i \in 1..Len(s) - n PROVE Drop(s, n)[i] = s[n + i]
    <3>1. i \in 1..Len(s) - (n + 1) + 1 /\ n + 1 + i - 1 = n + i
      BY <1>0
    <3> QED BY <2>2, <3>1
  <2> QED BY <2>2, <2>3, <2>4
<1>3. s = Take(s, n) \o Drop(s, n)
  <2> DEFINE t == Take(s, n) \o Drop(s, n)
  <2>1. /\ t \in Seq(S) /\ Len(t) = Len(s)
        /\ \A i \in 1..Len(s) : t[i] = IF i <= n THEN Take(s, n)[i] ELSE Drop(s, n)[i - n]
    BY <1>0, <1>1, <1>2, ConcatProperties
  <2>2. \A i \in 1..Len(s) : t[i] = s[i]
    BY <1>0, <1>1, <1>2, <2>1
  <2> HIDE DEF t
  <2>3. s = t
    BY <2>1, <2>2, SeqEqual
  <2> QED BY <2>3 DEF t
<1> QED BY <1>1, <1>2, <1>3

\* Where a concatenation is cut: in its first part or in its second.
LEMMA CutOfConcat ==
    ASSUME NEW S, NEW s \in Seq(S), NEW t \in Seq(S)
    PROVE  /\ \A n \in 0..Len(s) : Take(s \o t, n) = Take(s, n)
           /\ \A n \in 0..Len(t) : Take(s \o t, Len(s) + n) = s \o Take(t, n)
           /\ \A n \in 0..Len(s) : Drop(s \o t, n) = Drop(s, n) \o t
           /\ \A n \in 0..Len(t) : Drop(s \o t, Len(s) + n) = Drop(t, n)
<1>0. /\ s \o t \in Seq(S) /\ Len(s \o t) = Len(s) + Len(t) /\ Len(s) \in Nat /\ Len(t) \in Nat
      /\ \A i \in 1..Len(s) + Len(t) : (s \o t)[i] = IF i <= Len(s) THEN s[i] ELSE t[i - Len(s)]
  BY ConcatProperties, LenProperties
<1>1. ASSUME NEW n \in 0..Len(s) PROVE Take(s \o t, n) = Take(s, n)
  <2>1. /\ Take(s \o t, n) \in Seq(S) /\ Take(s, n) \in Seq(S)
        /\ Len(Take(s \o t, n)) = n /\ Len(Take(s, n)) = n
        /\ \A i \in 1..n : Take(s \o t, n)[i] = (s \o t)[i] /\ Take(s, n)[i] = s[i]
    <3>1. n \in 0..Len(s \o t)
      BY <1>0
    <3> QED BY <1>0, <3>1, CutProperties
  <2>2. \A i \in 1..n : Take(s \o t, n)[i] = Take(s, n)[i]
    BY <1>0, <2>1, SMTT(30)
  <2> QED BY <2>1, <2>2, SeqEqual
<1>2. ASSUME NEW n \in 0..Len(t) PROVE Take(s \o t, Len(s) + n) = s \o Take(t, n)
  <2>0. Take(t, n) \in Seq(S) /\ Len(Take(t, n)) = n /\ \A i \in 1..n : Take(t, n)[i] = t[i]
    BY CutProperties
  <2> DEFINE a1 == Take(s \o t, Len(s) + n)
             a2 == s \o Take(t, n)
  <2>1. a1 \in Seq(S) /\ Len(a1) = Len(s) + n /\ \A i \in 1..Len(s) + n : a1[i] = (s \o t)[i]
    <3>1. Len(s) + n \in 0..Len(s \o t)
      BY <1>0
    <3> QED BY <1>0, <3>1, CutProperties
  <2>2. a2 \in Seq(S) /\ Len(a2) = Len(s) + n
        /\ \A i \in 1..Len(s) + n : a2[i] = IF i <= Len(s) THEN s[i] ELSE Take(t, n)[i - Len(s)]
    <3>1. /\ s \o Take(t, n) \in Seq(S) /\ Len(s \o Take(t, n)) = Len(s) + Len(Take(t, n))
          /\ \A i \in 1..Len(s) + Len(Take(t, n)) :
               (s \o Take(t, n))[i] = IF i <= Len(s) THEN s[i] ELSE Take(t, n)[i - Len(s)]
      BY <2>0, ConcatProperties
    <3> QED BY <2>0, <3>1
  <2> HIDE DEF a1, a2
  <2>3. ASSUME NEW i \in 1..Len(s) + n PROVE a1[i] = a2[i]
    <3>1. i \in 1..Len(s) + Len(t)
      BY <1>0
    <3>2. a1[i] = IF i <= Len(s) THEN s[i] ELSE t[i - Len(s)]
      BY <1>0, <2>1, <3>1
    <3>3. CASE i <= Len(s)
      BY <2>2, <3>2, <3>3
    <3>4. CASE ~(i <= Len(s))
      <4>1. i - Len(s) \in 1..n
        BY <1>0, <3>4
      <4>2. Take(t, n)[i - Len(s)] = t[i - Len(s)]
        BY <2>0, <4>1
      <4> QED BY <2>2, <3>2, <3>4, <4>2
    <3> QED BY <3>3, <3>4
  <2>4. a1 = a2
    BY <2>1, <2>2, <2>3, SeqEqual
  <2> QED BY <2>4 DEF a1, a2
<1>3. ASSUME NEW n \in 0..Len(s) PROVE Drop(s \o t, n) = Drop(s, n) \o t
  <2>0. /\ Drop(s, n) \in Seq(S) /\ Len(Drop(s, n)) = Len(s) - n
        /\ \A i \in 1..Len(s) - n : Drop(s, n)[i] = s[n + i]
    BY CutProperties
  <2> DEFINE a1 == Drop(s \o t, n)
             a2 == Drop(s, n) \o t
             l == Len(s) + Len(t) - n
  <2>1. a1 \in Seq(S) /\ Len(a1) = l /\ \A i \in 1..l : a1[i] = (s \o t)[n + i]
    <3>1. n \in 0..Len(s \o t) /\ Len(s \o t) - n = l
      BY <1>0
    <3>2. /\ a1 \in Seq(S) /\ Len(a1) = Len(s \o t) - n
          /\ \A i \in 1..Len(s \o t) - n : a1[i] = (s \o t)[n + i]
      BY <1>0, <3>1, CutProperties
    <3> HIDE DEF a1, l
    <3> QED BY <3>1, <3>2
  <2>2. a2 \in Seq(S) /\ Len(a2) = l
        /\ \A i \in 1..l : a2[i] = IF i <= Len(s) - n THEN Drop(s, n)[i] ELSE t[i - (Len(s) - n)]
    <3> DEFINE d == Drop(s, n)
    <3>0. d \in Seq(S) /\ Len(d) = Len(s) - n
      BY <2>0
    <3> HIDE DEF d
    <3>3. /\ d \o t \in Seq(S) /\ Len(d \o t) = Len(d) + Len(t)
          /\ \A i \in 1..Len(d) + Len(t) :
               (d \o t)[i] = IF i <= Len(d) THEN d[i] ELSE t[i - Len(d)]
      BY <3>0, ConcatProperties
    <3>1. /\ a2 \in Seq(S) /\ Len(a2) = (Len(s) - n) + Len(t)
          /\ \A i \in 1..(Len(s) - n) + Len(t) :
               a2[i] = IF i <= Len(s) - n THEN Drop(s, n)[i] ELSE t[i - (Len(s) - n)]
      BY <3>0, <3>3 DEF d
    <3>2. l = (Len(s) - n) + Len(t)
      BY <1>0
    <3> QED BY <3>1, <3>2
  <2>3. ASSUME NEW i \in 1..l PROVE a1[i] = a2[i]
    <3>1. a1[i] = (s \o t)[n + i] /\ n + i \in 1..Len(s) + Len(t)
      BY <1>0, <2>1
    <3>2. CASE i <= Len(s) - n
      <4>1. n + i <= Len(s) /\ i \in 1..Len(s) - n
        BY <1>0, <3>2
      <4> QED BY <1>0, <2>0, <2>2, <3>1, <3>2, <4>1
    <3>3. CASE ~(i <= Len(s) - n)
      <4>1. ~(n + i <= Len(s)) /\ (n + i) - Len(s) = i - (Len(s) - n)
        BY <1>0, <3>3
      <4> QED BY <1>0, <2>2, <3>1, <3>3, <4>1
    <3> QED BY <3>2, <3>3
  <2> HIDE DEF a1, a2
  <2>4. a1 = a2
    BY <2>1, <2>2, <2>3, SeqEqual
  <2> QED BY <2>4 DEF a1, a2
<1>4. ASSUME NEW n \in 0..Len(t) PROVE Drop(s \o t, Len(s) + n) = Drop(t, n)
  <2> DEFINE a1 == Drop(s \o t, Len(s) + n)
             a2 == Drop(t, n)
             l == Len(t) - n
  <2>1. a1 \in Seq(S) /\ Len(a1) = l /\ \A i \in 1..l : a1[i] = (s \o t)[Len(s) + n + i]
    <3> DEFINE m == Len(s) + n
    <3>1. m \in 0..Len(s \o t) /\ Len(s \o t) - m = l
      BY <1>0
    <3>2. /\ a1 \in Seq(S) /\ Len(a1) = Len(s \o t) - m
          /\ \A i \in 1..Len(s \o t) - m : a1[i] = (s \o t)[m + i]
      <4> HIDE DEF m
      <4>1. /\ Drop(s \o t, m) \in Seq(S) /\ Len(Drop(s \o t, m)) = Len(s \o t) - m
            /\ \A i \in 1..Len(s \o t) - m : Drop(s \o t, m)[i] = (s \o t)[m + i]
        BY <1>0, <3>1, CutProperties
      <4> QED BY <4>1 DEF m
    <3> HIDE DEF a1, l
    <3> QED BY <3>1, <3>2 DEF m
  <2>2. a2 \in Seq(S) /\ Len(a2) = l /\ \A i \in 1..l : a2[i] = t[n + i]
    BY CutProperties
  <2>3. ASSUME NEW i \in 1..l PROVE a1[i] = a2[i]
    <3>1. /\ Len(s) + n + i \in 1..Len(s) + Len(t) /\ ~(Len(s) + n + i <= Len(s))
          /\ (Len(s) + n + i) - Len(s) = n + i
      BY <1>0
    <3> QED BY <1>0, <2>1, <2>2, <3>1
  <2> HIDE DEF a1, a2
  <2>4. a1 = a2
    BY <2>1, <2>2, <2>3, SeqEqual
  <2> QED BY <2>4 DEF a1, a2
<1> QED BY <1>1, <1>2, <1>3, <1>4

AllPlain(s) == \A i \in 1..Len(s) : Plain(s[i])

\* Plain pieces are the bytes of their text.
LEMMA PlainText ==
    ASSUME NEW s \in Seq(Piece), AllPlain(s)
    PROVE  Len(Text(s)) = Len(s) /\ \A i \in 1..Len(s) : s[i] = Byte(Text(s)[i])
<1> DEFINE Fits(r) == AllPlain(r) =>
                        Len(Text(r)) = Len(r) /\ \A i \in 1..Len(r) : r[i] = Byte(Text(r)[i])
           T == {r \in Seq(Piece) : Fits(r)}
<1>1. <<>> \in T
  BY EmptySeq, TextProperties
<1>2. ASSUME NEW r \in T, NEW x \in Piece PROVE Append(r, x) \in T
  <2>1. r \in Seq(Piece) /\ Fits(r)
    OBVIOUS
  <2> HIDE DEF T
  <2> DEFINE rx == Append(r, x)
  <2>2. /\ rx \in Seq(Piece) /\ Len(rx) = Len(r) + 1 /\ Len(r) \in Nat /\ rx[Len(r) + 1] = x
        /\ \A i \in 1..Len(r) : rx[i] = r[i]
    BY <2>1, AppendProperties, LenProperties
  <2>3. Text(rx) = Text(r) \o TextOf(x) /\ Text(r) \in Seq(Bytes) /\ TextOf(x) \in Seq(Bytes)
    BY <2>1, TextProperties, PieceProperties
  <2>4. /\ Len(Text(rx)) = Len(Text(r)) + Len(TextOf(x))
        /\ \A i \in 1..Len(Text(r)) + Len(TextOf(x)) :
             Text(rx)[i] = IF i <= Len(Text(r)) THEN Text(r)[i] ELSE TextOf(x)[i - Len(Text(r))]
    BY <2>3, ConcatProperties
  <2> HIDE DEF rx
  <2>5. ASSUME AllPlain(rx)
        PROVE  Len(Text(rx)) = Len(rx) /\ \A i \in 1..Len(rx) : rx[i] = Byte(Text(rx)[i])
    <3>1. AllPlain(r)
      BY <2>2, <2>5 DEF AllPlain
    <3>2. Len(Text(r)) = Len(r) /\ \A i \in 1..Len(r) : r[i] = Byte(Text(r)[i])
      BY <2>1, <3>1
    <3>3. Plain(x)
      <4>1. Len(r) + 1 \in 1..Len(rx)
        BY <2>2
      <4> QED BY <2>2, <2>5, <4>1 DEF AllPlain
    <3>4. Len(TextOf(x)) = 1 /\ x = Byte(TextOf(x)[1])
      BY <3>3, PieceProperties
    <3>5. ASSUME NEW i \in 1..Len(rx) PROVE rx[i] = Byte(Text(rx)[i])
      <4>1. CASE i <= Len(r)
        <5>1. i \in 1..Len(r) /\ i \in 1..Len(Text(r)) + Len(TextOf(x))
          BY <2>2, <3>2, <3>4, <4>1
        <5>2. Text(rx)[i] = Text(r)[i]
          BY <2>4, <3>2, <4>1, <5>1
        <5> QED BY <2>2, <3>2, <5>1, <5>2
      <4>2. CASE ~(i <= Len(r))
        <5>1. i = Len(r) + 1 /\ i - Len(r) = 1 /\ i \in 1..Len(Text(r)) + Len(TextOf(x))
          BY <2>2, <3>2, <3>4, <4>2
        <5>2. Text(rx)[i] = TextOf(x)[1]
          BY <2>4, <3>2, <4>2, <5>1
        <5> QED BY <2>2, <3>4, <5>1, <5>2
      <4> QED BY <4>1, <4>2
    <3> QED BY <2>2, <2>4, <3>2, <3>4, <3>5
  <2>6. Fits(rx)
    BY <2>5
  <2> QED BY <2>2, <2>6 DEF T, rx
<1>3. T = Seq(Piece)
  <2>1. T \in SUBSET Seq(Piece)
    OBVIOUS
  <2> HIDE DEF T
  <2> QED BY <1>1, <1>2, <2>1, SeqInduction
<1> QED BY <1>3

\* Raw makes plain pieces of bytes.
LEMMA RawProperties ==
    ASSUME NEW b \in Seq(Bytes)
    PROVE  Raw(b) \in Seq(Piece) /\ Len(Raw(b)) = Len(b) /\ AllPlain(Raw(b)) /\ Text(Raw(b)) = b
<1>0. Len(b) \in Nat /\ \A i \in 1..Len(b) : b[i] \in Bytes
  BY LenProperties, ElementOfSeq
<1>1. Raw(b) \in [1..Len(b) -> Piece] /\ \A i \in 1..Len(b) : Raw(b)[i] = Byte(b[i])
  BY <1>0, ByteIsPiece DEF Raw
<1>2. Raw(b) \in Seq(Piece)
  BY <1>0, <1>1, SeqDef
<1>3. Len(Raw(b)) = Len(b)
  BY <1>0, <1>1, <1>2, LenProperties
<1>4. AllPlain(Raw(b))
  BY <1>0, <1>1, <1>3, ByteIsPiece DEF AllPlain
<1>5. Text(Raw(b)) \in Seq(Bytes) /\ Len(Text(Raw(b))) = Len(b)
      /\ \A i \in 1..Len(b) : Raw(b)[i] = Byte(Text(Raw(b))[i])
  BY <1>2, <1>3, <1>4, PlainText, TextProperties
<1>6. ASSUME NEW i \in 1..Len(b) PROVE Text(Raw(b))[i] = b[i]
  <2>1. /\ Byte(Text(Raw(b))[i]) = Byte(b[i]) /\ b[i] \in Bytes
        /\ Text(Raw(b))[i] \in Bytes
    BY <1>0, <1>1, <1>5, ElementOfSeq
  <2>2. <<Text(Raw(b))[i]>> = <<b[i]>>
    BY <2>1, ByteIsPiece
  <2> QED BY <2>1, <2>2, Single
<1>7. Text(Raw(b)) = b
  BY <1>5, <1>6, SeqEqual
<1> QED BY <1>2, <1>3, <1>4, <1>7

-----------------------------------------------------------------------------
\* Where in the text the i-th piece begins, from 0.
Offset(s, i) == Len(Text(Take(s, i - 1)))

\* Each piece adds its text at its offset.
LEMMA OffsetProperties ==
    ASSUME NEW s \in Seq(Piece)
    PROVE  /\ \A i \in 1..Len(s) + 1 : Offset(s, i) \in 0..Len(Text(s))
           /\ Offset(s, 1) = 0 /\ Offset(s, Len(s) + 1) = Len(Text(s))
           /\ \A i \in 1..Len(s) : /\ Offset(s, i + 1) = Offset(s, i) + Len(TextOf(s[i]))
                                   /\ \A j \in 1..Len(TextOf(s[i])) :
                                        Text(s)[Offset(s, i) + j] = TextOf(s[i])[j]
<1>0. Len(s) \in Nat /\ (\A i \in 1..Len(s) : s[i] \in Piece) /\ Text(s) \in Seq(Bytes)
      /\ Len(Text(s)) \in Nat
  BY LenProperties, ElementOfSeq, TextProperties
<1>1. ASSUME NEW i \in 1..Len(s) + 1 PROVE Offset(s, i) \in 0..Len(Text(s))
  <2> DEFINE n == i - 1
  <2>1. n \in 0..Len(s)
    BY <1>0
  <2> HIDE DEF n
  <2>2. Take(s, n) \in Seq(Piece) /\ Drop(s, n) \in Seq(Piece) /\ s = Take(s, n) \o Drop(s, n)
    BY <2>1, CutProperties
  <2>3. Text(s) = Text(Take(s, n)) \o Text(Drop(s, n))
    BY <2>2, TextConcat
  <2>4. Text(Take(s, n)) \in Seq(Bytes) /\ Text(Drop(s, n)) \in Seq(Bytes)
    BY <2>2, TextProperties
  <2>5. Len(Text(s)) = Len(Text(Take(s, n))) + Len(Text(Drop(s, n)))
    BY <2>3, <2>4, ConcatProperties
  <2>6. Len(Text(Take(s, n))) \in Nat /\ Len(Text(Drop(s, n))) \in Nat
    BY <2>4, LenProperties
  <2>7. Len(Text(Take(s, n))) \in 0..Len(Text(s))
    BY <1>0, <2>5, <2>6
  <2> QED BY <2>7 DEF Offset, n
<1>2. Offset(s, 1) = 0
  <2>1. Take(s, 0) = <<>>
    BY <1>0, CutProperties, EmptySeq
  <2>2. 1 - 1 = 0
    OBVIOUS
  <2> QED BY <2>1, <2>2, TextProperties, EmptySeq DEF Offset
<1>3. Offset(s, Len(s) + 1) = Len(Text(s))
  <2>1. Take(s, Len(s)) = s
    BY SubSeqFull DEF Take
  <2>2. (Len(s) + 1) - 1 = Len(s)
    BY <1>0
  <2> QED BY <2>1, <2>2 DEF Offset
<1>4. ASSUME NEW i \in 1..Len(s)
      PROVE  /\ Offset(s, i + 1) = Offset(s, i) + Len(TextOf(s[i]))
             /\ \A j \in 1..Len(TextOf(s[i])) : Text(s)[Offset(s, i) + j] = TextOf(s[i])[j]
  <2> DEFINE a == Take(s, i - 1)
             b == Take(s, i)
             d == Drop(s, i)
  <2>1. i - 1 \in 0..Len(s) /\ i \in 0..Len(s) /\ (i + 1) - 1 = i
    BY <1>0
  <2>2. /\ a \in Seq(Piece) /\ Len(a) = i - 1 /\ \A k \in 1..i - 1 : a[k] = s[k]
    BY <2>1, CutProperties, ZenonT(30)
  <2>3. /\ b \in Seq(Piece) /\ Len(b) = i /\ \A k \in 1..i : b[k] = s[k]
        /\ d \in Seq(Piece) /\ s = b \o d
    BY <2>1, CutProperties
  <2> HIDE DEF a, b, d
  <2>4. b = Append(a, s[i])
    <3>1. /\ Append(a, s[i]) \in Seq(Piece) /\ Len(Append(a, s[i])) = i
          /\ Append(a, s[i])[i] = s[i]
          /\ \A k \in 1..i - 1 : Append(a, s[i])[k] = a[k]
      <4>1. /\ Append(a, s[i]) \in Seq(Piece) /\ Len(Append(a, s[i])) = Len(a) + 1
            /\ Append(a, s[i])[Len(a) + 1] = s[i]
            /\ \A k \in 1..Len(a) : Append(a, s[i])[k] = a[k]
        BY <1>0, <2>2, AppendProperties
      <4>2. Len(a) + 1 = i
        BY <2>1, <2>2
      <4> QED BY <2>2, <4>1, <4>2
    <3>2. ASSUME NEW k \in 1..i PROVE b[k] = Append(a, s[i])[k]
      <4>1. k = i \/ k \in 1..i - 1
        OBVIOUS
      <4> QED BY <4>1, <2>2, <2>3, <3>1
    <3> QED BY <2>3, <3>1, <3>2, SeqEqual
  <2>5. Text(b) = Text(a) \o TextOf(s[i]) /\ Text(s) = Text(b) \o Text(d)
    BY <1>0, <2>2, <2>3, <2>4, TextProperties, TextConcat
  <2>6. /\ Text(a) \in Seq(Bytes) /\ Text(b) \in Seq(Bytes) /\ Text(d) \in Seq(Bytes)
        /\ TextOf(s[i]) \in Seq(Bytes)
    BY <1>0, <2>2, <2>3, TextProperties, PieceProperties
  <2>7. /\ Len(Text(a)) \in Nat /\ Len(TextOf(s[i])) \in Nat /\ Len(Text(d)) \in Nat
        /\ Len(Text(b)) = Len(Text(a)) + Len(TextOf(s[i]))
    BY <2>5, <2>6, ConcatProperties, LenProperties
  <2>8. ASSUME NEW j \in 1..Len(TextOf(s[i]))
        PROVE  Text(s)[Len(Text(a)) + j] = TextOf(s[i])[j]
    <3> DEFINE k == Len(Text(a)) + j
    <3>1. /\ k \in 1..Len(Text(b)) + Len(Text(d)) /\ k <= Len(Text(b))
          /\ k \in 1..Len(Text(a)) + Len(TextOf(s[i])) /\ ~(k <= Len(Text(a)))
          /\ k - Len(Text(a)) = j
      BY <2>7
    <3> HIDE DEF k
    <3>2. Text(s)[k] = Text(b)[k]
      BY <2>5, <2>6, <3>1, ConcatProperties
    <3>3. Text(b)[k] = TextOf(s[i])[j]
      BY <2>5, <2>6, <3>1, ConcatProperties
    <3> QED BY <3>2, <3>3 DEF k
  <2>9. Offset(s, i) = Len(Text(a)) /\ Offset(s, i + 1) = Len(Text(b))
    BY <2>1 DEF Offset, a, b
  <2> QED BY <2>7, <2>8, <2>9
<1> QED BY <1>1, <1>2, <1>3, <1>4

\* Every piece takes at least a byte.
LEMMA OffsetGrows ==
    ASSUME NEW s \in Seq(Piece), NEW i \in 1..Len(s) + 1, NEW j \in i..Len(s) + 1
    PROVE  /\ Offset(s, i) + (j - i) <= Offset(s, j)
           /\ (\A k \in i..j - 1 : Plain(s[k])) => Offset(s, j) = Offset(s, i) + (j - i)
<1>0. Len(s) \in Nat /\ \A k \in 1..Len(s) : s[k] \in Piece
  BY LenProperties, ElementOfSeq
<1> DEFINE Fits(n) ==
             i + n <= Len(s) + 1 =>
               /\ Offset(s, i) + n <= Offset(s, i + n)
               /\ (\A k \in i..(i + n) - 1 : Plain(s[k])) => Offset(s, i + n) = Offset(s, i) + n
           T == {n \in Nat : Fits(n)}
<1>1. 0 \in T
  <2>1. i + 0 = i /\ Offset(s, i) \in Nat
    BY OffsetProperties
  <2> QED BY <2>1
<1>2. ASSUME NEW n \in T PROVE n + 1 \in T
  <2>1. n \in Nat /\ Fits(n)
    OBVIOUS
  <2> HIDE DEF T
  <2>2. ASSUME i + (n + 1) <= Len(s) + 1
        PROVE  /\ Offset(s, i) + (n + 1) <= Offset(s, i + (n + 1))
               /\ (\A k \in i..(i + (n + 1)) - 1 : Plain(s[k])) =>
                    Offset(s, i + (n + 1)) = Offset(s, i) + (n + 1)
    <3> DEFINE m == i + n
    <3>1. m \in 1..Len(s) /\ i + (n + 1) = m + 1 /\ m <= Len(s) + 1
      BY <1>0, <2>1, <2>2
    <3>2. /\ Offset(s, i) \in Nat /\ Offset(s, m) \in Nat /\ s[m] \in Piece
          /\ Offset(s, m + 1) = Offset(s, m) + Len(TextOf(s[m]))
          /\ Len(TextOf(s[m])) \in Nat \ {0}
          /\ Plain(s[m]) => Len(TextOf(s[m])) = 1
      <4>1. i \in 1..Len(s) + 1 /\ m \in 1..Len(s) + 1
        BY <1>0, <3>1
      <4> HIDE DEF m
      <4>2. s[m] \in Piece
        BY <3>1, ElementOfSeq
      <4>3. /\ Offset(s, i) \in Nat /\ Offset(s, m) \in Nat
            /\ Offset(s, m + 1) = Offset(s, m) + Len(TextOf(s[m]))
        BY <3>1, <4>1, OffsetProperties
      <4>4. Len(TextOf(s[m])) \in Nat \ {0} /\ (Plain(s[m]) => Len(TextOf(s[m])) = 1)
        BY <4>2, PieceProperties
      <4> QED BY <4>2, <4>3, <4>4
    <3>3. Offset(s, i) + n <= Offset(s, m)
      BY <2>1, <3>1
    <3>4. ASSUME \A k \in i..(i + (n + 1)) - 1 : Plain(s[k])
          PROVE  Offset(s, m + 1) = Offset(s, i) + (n + 1)
      <4>1. (\A k \in i..(i + n) - 1 : Plain(s[k])) /\ Plain(s[m])
        BY <2>1, <3>4
      <4>2. Offset(s, m) = Offset(s, i) + n
        BY <2>1, <3>1, <4>1
      <4>3. n \in Nat
        BY <2>1
      <4>4. Len(TextOf(s[m])) = 1
        BY <3>2, <4>1
      <4> HIDE DEF m
      <4> QED BY <3>2, <4>2, <4>3, <4>4
    <3>5. Offset(s, i) + (n + 1) <= Offset(s, m + 1)
      <4> HIDE DEF m
      <4> QED BY <2>1, <3>2, <3>3
    <3> HIDE DEF m
    <3> QED BY <3>1, <3>4, <3>5
  <2>3. n + 1 \in Nat /\ Fits(n + 1)
    BY <2>1, <2>2
  <2> QED BY <2>3 DEF T
<1>3. j - i \in T
  <2>1. T \in SUBSET Nat /\ j - i \in Nat
    BY <1>0
  <2> HIDE DEF T
  <2> QED BY <1>1, <1>2, <2>1, Induction
<1>4. i + (j - i) = j
  BY <1>0
<1>5. Fits(j - i)
  BY <1>3
<1> QED BY <1>0, <1>4, <1>5

\* p is what follows the first o bytes of s.
Follows(s, o, p) == o + Len(p) <= Len(s) /\ \A k \in 1..Len(p) : s[o + k] = p[k]

\* Patterns are sequences of bytes, and none is empty.
LEMMA PatternIsSeq ==
    \A p \in Patterns : p \in Seq(Bytes) /\ Len(p) \in Nat \ {0} /\ Marker(p) \in Piece
BY PatternsAssumption, EmptySeq, MarkerIsPiece

\* What OccurAt finds follows there.
LEMMA OccurProperties ==
    ASSUME NEW buf \in Seq(Bytes), NEW o \in 0..Len(buf), NEW p \in Patterns
    PROVE  p \in OccurAt(buf, o + 1) <=> Follows(buf, o, p)
<1>0. Len(buf) \in Nat /\ (\A i \in 1..Len(buf) : buf[i] \in Bytes)
      /\ p \in Seq(Bytes) /\ Len(p) \in Nat \ {0}
  BY LenProperties, ElementOfSeq, PatternIsSeq
<1> DEFINE i == o + 1
           e == i + Len(p) - 1
<1>1. e = o + Len(p) /\ i \in Int /\ e \in Int
  BY <1>0
<1>2. p \in OccurAt(buf, i) <=> e <= Len(buf) /\ SubSeq(buf, i, e) = p
  BY DEF OccurAt
<1>3. ASSUME e <= Len(buf)
      PROVE  SubSeq(buf, i, e) = p <=> \A k \in 1..Len(p) : buf[o + k] = p[k]
  <2> DEFINE w == SubSeq(buf, i, e)
  <2>1. w \in Seq(Bytes) /\ Len(w) = Len(p) /\ \A k \in 1..Len(p) : w[k] = buf[o + k]
    <3>1. \A k \in i..e : buf[k] \in Bytes
      BY <1>0, <1>1, <1>3
    <3>2. /\ w \in Seq(Bytes) /\ Len(w) = IF i <= e THEN e - i + 1 ELSE 0
          /\ \A k \in 1..e - i + 1 : w[k] = buf[i + k - 1]
      <4> HIDE DEF i, e
      <4> QED BY <1>1, <3>1, SubSeqProperties
    <3>3. i <= e /\ e - i + 1 = Len(p)
      BY <1>0
    <3>4. Len(w) = Len(p)
      <4> HIDE DEF i, e, w
      <4> QED BY <3>2, <3>3
    <3>5. ASSUME NEW k \in 1..Len(p) PROVE w[k] = buf[o + k]
      <4>1. i + k - 1 = o + k /\ k \in 1..e - i + 1
        BY <1>0, <3>3
      <4> HIDE DEF w
      <4> QED BY <3>2, <4>1
    <3> QED BY <3>2, <3>4, <3>5
  <2> HIDE DEF w, i, e
  <2>2. ASSUME \A k \in 1..Len(p) : buf[o + k] = p[k] PROVE w = p
    BY <1>0, <2>1, <2>2, SeqEqual
  <2>3. ASSUME w = p PROVE \A k \in 1..Len(p) : buf[o + k] = p[k]
    BY <2>1, <2>3
  <2>4. w = p <=> \A k \in 1..Len(p) : buf[o + k] = p[k]
    BY <2>2, <2>3
  <2> QED BY <2>4 DEF w
<1> HIDE DEF e
<1> QED BY <1>1, <1>2, <1>3 DEF Follows

\* Of finitely many Patterns that occur, one is the longest.
LEMMA LongestProperties ==
    ASSUME NEW buf \in Seq(Bytes), NEW i \in 1..Len(buf), OccurAt(buf, i) # {}
    PROVE  /\ Longest(OccurAt(buf, i)) \in OccurAt(buf, i)
           /\ \A q \in OccurAt(buf, i) : Len(q) <= Len(Longest(OccurAt(buf, i)))
<1> DEFINE ps == OccurAt(buf, i)
           lens == {Len(p) : p \in ps}
<1>1. \A p \in ps : p \in Patterns /\ Len(p) \in 0..Len(buf)
  <2> TAKE p \in ps
  <2>1. p \in Patterns /\ i + Len(p) - 1 <= Len(buf)
    BY DEF OccurAt
  <2> QED BY <2>1, PatternIsSeq, LenProperties
<1>2. lens \in SUBSET (0..Len(buf)) /\ lens # {} /\ Len(buf) \in Nat
  <2>1. PICK p \in ps : TRUE
    OBVIOUS
  <2> HIDE DEF ps
  <2>2. Len(p) \in lens /\ \A n \in lens : n \in 0..Len(buf)
    BY <1>1, <2>1
  <2>3. Len(buf) \in Nat
    BY LenProperties
  <2> HIDE DEF lens
  <2> QED BY <2>2, <2>3
<1> HIDE DEF ps
<1>3. Max(lens) \in lens /\ \A n \in lens : n <= Max(lens)
  <2> HIDE DEF lens
  <2> QED BY <1>2, MaxOf
<1>4. \E p \in ps : \A q \in ps : Len(q) <= Len(p)
  BY <1>3
<1>5. Longest(ps) \in ps /\ \A q \in ps : Len(q) <= Len(Longest(ps))
  <2> HIDE DEF lens
  <2> QED BY <1>4 DEF Longest
<1> QED BY <1>5 DEF ps

\* What the matcher makes of buf from its i-th byte on.
PieceAt(buf, i) ==
    IF OccurAt(buf, i) = {} THEN Byte(buf[i]) ELSE Marker(Longest(OccurAt(buf, i)))

\* A marker stands for the longest Pattern that occurs, a byte for none.
LEMMA PieceAtProperties ==
    ASSUME NEW buf \in Seq(Bytes), NEW i \in 1..Len(buf)
    PROVE  /\ PieceAt(buf, i) \in Piece
           /\ Plain(PieceAt(buf, i)) <=> OccurAt(buf, i) = {}
           /\ Follows(buf, i - 1, TextOf(PieceAt(buf, i)))
           /\ ~Plain(PieceAt(buf, i)) =>
                /\ TextOf(PieceAt(buf, i)) \in OccurAt(buf, i)
                /\ \A q \in OccurAt(buf, i) : Len(q) <= Len(TextOf(PieceAt(buf, i)))
<1>0. Len(buf) \in Nat /\ buf[i] \in Bytes /\ i - 1 \in 0..Len(buf) /\ (i - 1) + 1 = i
  BY LenProperties, ElementOfSeq
<1>1. CASE OccurAt(buf, i) = {}
  <2>1. PieceAt(buf, i) = Byte(buf[i])
    BY <1>1 DEF PieceAt
  <2>2. /\ Byte(buf[i]) \in Piece /\ Plain(Byte(buf[i])) /\ TextOf(Byte(buf[i])) = <<buf[i]>>
        /\ Len(<<buf[i]>>) = 1 /\ <<buf[i]>>[1] = buf[i]
    BY <1>0, ByteIsPiece, Single
  <2>3. Follows(buf, i - 1, <<buf[i]>>)
    <3>1. /\ i - 1 + Len(<<buf[i]>>) <= Len(buf)
          /\ \A k \in 1..Len(<<buf[i]>>) : k = 1 /\ i - 1 + k = i
      BY <1>0, <2>2
    <3> QED BY <2>2, <3>1 DEF Follows
  <2> QED BY <1>1, <2>1, <2>2, <2>3
<1>2. CASE OccurAt(buf, i) # {}
  <2> DEFINE p == Longest(OccurAt(buf, i))
  <2>1. PieceAt(buf, i) = Marker(p)
    BY <1>2 DEF PieceAt
  <2>2. p \in OccurAt(buf, i) /\ \A q \in OccurAt(buf, i) : Len(q) <= Len(p)
    BY <1>2, LongestProperties
  <2> HIDE DEF p
  <2>3. p \in Patterns
    BY <2>2 DEF OccurAt
  <2>4. Marker(p) \in Piece /\ ~Plain(Marker(p)) /\ TextOf(Marker(p)) = p
    BY <2>3, MarkerIsPiece
  <2>5. Follows(buf, i - 1, p)
    BY <1>0, <2>2, <2>3, OccurProperties
  <2> QED BY <1>2, <2>1, <2>2, <2>4, <2>5
<1> QED BY <1>1, <1>2

\* What follows can be cut off.
LEMMA FollowsCut ==
    ASSUME NEW s \in Seq(Bytes), NEW o \in Nat, NEW p \in Seq(Bytes), Follows(s, o, p)
    PROVE  /\ o \in 0..Len(s) /\ o + Len(p) \in 0..Len(s)
           /\ Drop(s, o) = p \o Drop(s, o + Len(p))
<1>0. Len(s) \in Nat /\ Len(p) \in Nat /\ o + Len(p) <= Len(s)
      /\ \A k \in 1..Len(p) : s[o + k] = p[k]
  BY LenProperties DEF Follows
<1>1. o \in 0..Len(s) /\ o + Len(p) \in 0..Len(s)
  BY <1>0
<1> DEFINE m == o + Len(p)
           a == Drop(s, o)
           b == p \o Drop(s, m)
<1>2. a \in Seq(Bytes) /\ Len(a) = Len(s) - o /\ \A i \in 1..Len(s) - o : a[i] = s[o + i]
  BY <1>1, CutProperties
<1>3. /\ Drop(s, m) \in Seq(Bytes) /\ Len(Drop(s, m)) = Len(s) - m
      /\ \A i \in 1..Len(s) - m : Drop(s, m)[i] = s[m + i]
  BY <1>1, CutProperties
<1>4. /\ b \in Seq(Bytes) /\ Len(b) = Len(p) + (Len(s) - m)
      /\ \A i \in 1..Len(p) + (Len(s) - m) :
           b[i] = IF i <= Len(p) THEN p[i] ELSE Drop(s, m)[i - Len(p)]
  <2> DEFINE d == Drop(s, m)
  <2> HIDE DEF m
  <2>1. d \in Seq(Bytes) /\ Len(d) = Len(s) - m
    BY <1>3
  <2> HIDE DEF d
  <2>2. /\ p \o d \in Seq(Bytes) /\ Len(p \o d) = Len(p) + Len(d)
        /\ \A i \in 1..Len(p) + Len(d) : (p \o d)[i] = IF i <= Len(p) THEN p[i] ELSE d[i - Len(p)]
    BY <2>1, ConcatProperties
  <2> QED BY <2>1, <2>2 DEF d
<1>5. Len(p) + (Len(s) - m) = Len(s) - o
  BY <1>0
<1> HIDE DEF a, b
<1>6. ASSUME NEW i \in 1..Len(s) - o PROVE a[i] = b[i]
  <2>1. CASE i <= Len(p)
    <3>1. i \in 1..Len(p) /\ i \in 1..Len(p) + (Len(s) - m)
      BY <1>0, <2>1
    <3> HIDE DEF m
    <3> QED BY <1>0, <1>2, <1>4, <2>1, <3>1
  <2>2. CASE ~(i <= Len(p))
    <3>1. /\ i - Len(p) \in 1..Len(s) - m /\ m + (i - Len(p)) = o + i
          /\ i \in 1..Len(p) + (Len(s) - m)
      BY <1>0, <2>2
    <3> HIDE DEF m
    <3> QED BY <1>2, <1>3, <1>4, <2>2, <3>1
  <2> QED BY <2>1, <2>2
<1>7. a = b
  <2> HIDE DEF m
  <2> QED BY <1>2, <1>4, <1>5, <1>6, SeqEqual
<1> QED BY <1>1, <1>7 DEF a, b, m

\* Offsets in a concatenation.
LEMMA OffsetOfConcat ==
    ASSUME NEW s \in Seq(Piece), NEW t \in Seq(Piece)
    PROVE  /\ \A k \in 1..Len(s) + 1 : Offset(s \o t, k) = Offset(s, k)
           /\ \A k \in 1..Len(t) + 1 : Offset(s \o t, Len(s) + k) = Len(Text(s)) + Offset(t, k)
<1>0. Len(s) \in Nat /\ Len(t) \in Nat
  BY LenProperties
<1>1. ASSUME NEW k \in 1..Len(s) + 1 PROVE Offset(s \o t, k) = Offset(s, k)
  <2> DEFINE n == k - 1
  <2>1. n \in 0..Len(s)
    BY <1>0
  <2> HIDE DEF n
  <2>2. Take(s \o t, n) = Take(s, n)
    BY <2>1, CutOfConcat
  <2> QED BY <2>2 DEF Offset, n
<1>2. ASSUME NEW k \in 1..Len(t) + 1
      PROVE  Offset(s \o t, Len(s) + k) = Len(Text(s)) + Offset(t, k)
  <2> DEFINE n == k - 1
  <2>1. n \in 0..Len(t) /\ (Len(s) + k) - 1 = Len(s) + n
    BY <1>0
  <2> HIDE DEF n
  <2>a. Take(s \o t, Len(s) + n) = s \o Take(t, n)
    BY <2>1, CutOfConcat
  <2>b. Take(t, n) \in Seq(Piece)
    BY <2>1, CutProperties
  <2>2. Take(s \o t, Len(s) + n) = s \o Take(t, n) /\ Take(t, n) \in Seq(Piece)
    BY <2>a, <2>b
  <2>3. Text(s \o Take(t, n)) = Text(s) \o Text(Take(t, n))
    BY <2>2, TextConcat
  <2>4. Len(Text(s \o Take(t, n))) = Len(Text(s)) + Len(Text(Take(t, n)))
    <3>1. Text(s) \in Seq(Bytes) /\ Text(Take(t, n)) \in Seq(Bytes)
      BY <2>2, TextProperties
    <3> QED BY <2>3, <3>1, ConcatProperties
  <2> QED BY <2>1, <2>2, <2>4 DEF Offset, n
<1> QED BY <1>1, <1>2

\* One piece as a sequence of pieces.
LEMMA PieceAsSeq ==
    ASSUME NEW x \in Piece
    PROVE  <<x>> \in Seq(Piece) /\ Len(<<x>>) = 1 /\ <<x>>[1] = x /\ Text(<<x>>) = TextOf(x)
<1>1. <<x>> = Append(<<>>, x)
  OBVIOUS
<1>2. Text(Append(<<>>, x)) = Text(<<>>) \o TextOf(x) /\ TextOf(x) \in Seq(Bytes)
  BY EmptySeq, TextProperties, PieceProperties
<1>3. Text(Append(<<>>, x)) = TextOf(x)
  BY <1>2, TextProperties, ConcatEmptySeq
<1> QED BY <1>1, <1>3, Single

-----------------------------------------------------------------------------
\* s is what the matcher makes of buf after its first o bytes.
Parse(buf, o, s) ==
    /\ s \in Seq(Piece)
    /\ Text(s) = Drop(buf, o)
    /\ \A k \in 1..Len(s) : s[k] = PieceAt(buf, o + Offset(s, k) + 1)

\* Nothing is left to match at the end.
LEMMA ParseEnds ==
    ASSUME NEW buf \in Seq(Bytes)
    PROVE  Parse(buf, Len(buf), <<>>)
<1>1. Len(buf) \in Nat /\ Len(buf) \in 0..Len(buf) /\ Len(buf) - Len(buf) = 0
  BY LenProperties
<1>2. Drop(buf, Len(buf)) = <<>>
  BY <1>1, CutProperties, EmptySeq
<1> QED BY <1>2, EmptySeq, TextProperties DEF Parse

\* A parse goes on with the piece before it.
LEMMA ParseGoesOn ==
    ASSUME NEW buf \in Seq(Bytes), NEW o \in Nat, o < Len(buf),
           NEW x, x = PieceAt(buf, o + 1),
           NEW t, Parse(buf, o + Len(TextOf(x)), t)
    PROVE  Parse(buf, o, <<x>> \o t)
<1>0. Len(buf) \in Nat /\ o + 1 \in 1..Len(buf) /\ (o + 1) - 1 = o
  BY LenProperties
<1>1. x \in Piece /\ Follows(buf, o, TextOf(x)) /\ TextOf(x) \in Seq(Bytes)
      /\ Len(TextOf(x)) \in Nat \ {0}
  BY <1>0, PieceAtProperties, PieceProperties
<1> DEFINE m == o + Len(TextOf(x))
           s == <<x>> \o t
<1>2. t \in Seq(Piece) /\ Text(t) = Drop(buf, m)
      /\ \A k \in 1..Len(t) : t[k] = PieceAt(buf, m + Offset(t, k) + 1)
  BY DEF Parse
<1>3. <<x>> \in Seq(Piece) /\ Len(<<x>>) = 1 /\ <<x>>[1] = x /\ Text(<<x>>) = TextOf(x)
  BY <1>1, PieceAsSeq
<1>4. /\ s \in Seq(Piece) /\ Len(s) = 1 + Len(t) /\ Len(t) \in Nat
      /\ \A k \in 1..1 + Len(t) : s[k] = IF k <= 1 THEN <<x>>[k] ELSE t[k - 1]
  BY <1>2, <1>3, ConcatProperties, LenProperties
<1>5. Text(s) = Drop(buf, o)
  <2>1. Drop(buf, o) = TextOf(x) \o Drop(buf, m)
    BY <1>1, FollowsCut
  <2>2. Text(s) = TextOf(x) \o Text(t)
    BY <1>2, <1>3, TextConcat
  <2> QED BY <1>2, <2>1, <2>2
<1>6. ASSUME NEW k \in 1..Len(s) PROVE s[k] = PieceAt(buf, o + Offset(s, k) + 1)
  <2>1. CASE k = 1
    <3> HIDE DEF s
    <3>a. Offset(s, 1) = 0
      BY <1>4, OffsetProperties
    <3>b. 1 \in 1..1 + Len(t)
      BY <1>4
    <3>1. s[k] = x /\ Offset(s, 1) = 0
      BY <1>3, <1>4, <2>1, <3>a, <3>b, SMTT(30)
    <3>2. o + Offset(s, k) + 1 = o + 1
      BY <2>1, <3>1
    <3> QED BY <3>1, <3>2
  <2>2. CASE k # 1
    <3> DEFINE j == k - 1
    <3>1. j \in 1..Len(t) /\ k = 1 + j /\ ~(k <= 1) /\ k \in 1..1 + Len(t) /\ j \in 1..Len(t) + 1
      BY <1>4, <2>2
    <3>2. s[k] = t[j]
      BY <1>4, <3>1
    <3> HIDE DEF j
    <3>3. Offset(s, k) = Len(TextOf(x)) + Offset(t, j)
      <4>1. Offset(<<x>> \o t, Len(<<x>>) + j) = Len(Text(<<x>>)) + Offset(t, j)
        BY <1>2, <1>3, <3>1, OffsetOfConcat
      <4> QED BY <1>3, <3>1, <4>1
    <3>4. o + Offset(s, k) + 1 = m + Offset(t, j) + 1
      <4>1. Offset(t, j) \in Nat
        BY <1>2, <3>1, OffsetProperties
      <4> QED BY <1>1, <3>3, <4>1
    <3>5. t[j] = PieceAt(buf, m + Offset(t, j) + 1)
      BY <1>2, <3>1
    <3> QED BY <3>2, <3>4, <3>5
  <2> QED BY <2>1, <2>2
<1> QED BY <1>4, <1>5, <1>6 DEF Parse

\* Where the piece at i ends.
Past(buf, i) == i + Len(TextOf(PieceAt(buf, i)))

\* Each piece takes the matcher forward, and not past the end.
LEMMA PastProperties ==
    ASSUME NEW buf \in Seq(Bytes), NEW i \in 1..Len(buf)
    PROVE  Past(buf, i) \in i + 1..Len(buf) + 1
<1>1. /\ Follows(buf, i - 1, TextOf(PieceAt(buf, i)))
      /\ Len(TextOf(PieceAt(buf, i))) \in Nat \ {0} /\ Len(buf) \in Nat
  BY PieceAtProperties, PieceProperties, LenProperties
<1> QED BY <1>1 DEF Past, Follows

\* f is from of Replaced, down to position n.
Scans(buf, f, n) ==
    /\ f[Len(buf) + 1] = <<>>
    /\ \A i \in n..Len(buf) : f[i] = <<PieceAt(buf, i)>> \o f[Past(buf, i)]

\* The recursion of Replaced has a solution: it goes forward.
LEMMA ScansExist ==
    ASSUME NEW buf \in Seq(Bytes)
    PROVE  \E f \in [1..Len(buf) + 1 -> Seq(Piece)] : Scans(buf, f, 1)
<1>0. Len(buf) \in Nat
  BY LenProperties
<1> DEFINE L == Len(buf)
           Has(n) == n <= L => \E f \in [L + 1 - n..L + 1 -> Seq(Piece)] : Scans(buf, f, L + 1 - n)
           T == {n \in Nat : Has(n)}
<1>1. 0 \in T
  <2> DEFINE f == [i \in L + 1 - 0..L + 1 |-> <<>>]
  <2>1. f \in [L + 1 - 0..L + 1 -> Seq(Piece)]
    BY EmptySeq
  <2>2. f[L + 1] = <<>> /\ (L + 1 - 0)..L = {}
    BY <1>0
  <2>3. Scans(buf, f, L + 1 - 0)
    <3> HIDE DEF f
    <3> QED BY <2>2 DEF Scans
  <2> HIDE DEF f
  <2> QED BY <2>1, <2>3
<1>2. ASSUME NEW n \in T PROVE n + 1 \in T
  <2>1. n \in Nat /\ Has(n)
    OBVIOUS
  <2>2. ASSUME n + 1 <= L
        PROVE  \E g \in [L + 1 - (n + 1)..L + 1 -> Seq(Piece)] : Scans(buf, g, L + 1 - (n + 1))
    <3> DEFINE m == L + 1 - n
               l == L + 1 - (n + 1)
    <3>1. l \in 1..L /\ m = l + 1 /\ m \in Nat /\ n <= L
      BY <1>0, <2>1, <2>2
    <3>2. PICK f \in [m..L + 1 -> Seq(Piece)] : Scans(buf, f, m)
      BY <2>1, <3>1
    <3> HIDE DEF T, m, l, L
    <3> DEFINE g == [i \in l..L + 1 |-> IF i = l THEN <<PieceAt(buf, l)>> \o f[Past(buf, l)] ELSE f[i]]
    <3>3. Past(buf, l) \in m..L + 1 /\ PieceAt(buf, l) \in Piece
      BY <1>0, <3>1, PastProperties, PieceAtProperties DEF L
    <3>4. <<PieceAt(buf, l)>> \o f[Past(buf, l)] \in Seq(Piece)
      <4>1. f[Past(buf, l)] \in Seq(Piece) /\ <<PieceAt(buf, l)>> \in Seq(Piece)
        BY <3>2, <3>3, PieceAsSeq
      <4> QED BY <4>1, ConcatProperties
    <3>5. g \in [l..L + 1 -> Seq(Piece)]
      <4>1. \A i \in l..L + 1 : i = l \/ i \in m..L + 1
        BY <3>1
      <4> QED BY <3>2, <3>4, <4>1
    <3>6. g[l] = <<PieceAt(buf, l)>> \o f[Past(buf, l)] /\ \A i \in m..L + 1 : g[i] = f[i]
      BY <1>0, <3>1 DEF L
    <3> HIDE DEF g
    <3>7. Scans(buf, g, l)
      <4>1. g[L + 1] = <<>>
        <5>1. L + 1 \in m..L + 1
          BY <1>0, <3>1 DEF L
        <5> QED BY <3>2, <3>6, <5>1 DEF Scans, L
      <4>2. ASSUME NEW i \in l..L PROVE g[i] = <<PieceAt(buf, i)>> \o g[Past(buf, i)]
        <5>1. CASE i = l
          BY <3>3, <3>6, <5>1
        <5>2. CASE i # l
          <6>1. i \in m..L /\ i \in m..L + 1 /\ i \in 1..L
            BY <1>0, <3>1, <5>2 DEF L
          <6>2. Past(buf, i) \in m..L + 1
            <7>1. Past(buf, i) \in i + 1..L + 1
              BY <6>1, PastProperties DEF L
            <7> QED BY <3>1, <6>1, <7>1
          <6>3. f[i] = <<PieceAt(buf, i)>> \o f[Past(buf, i)]
            BY <3>2, <6>1 DEF Scans, L
          <6> QED BY <3>6, <6>1, <6>2, <6>3
        <5> QED BY <5>1, <5>2
      <4> QED BY <4>1, <4>2 DEF Scans, L
    <3> QED BY <3>5, <3>7 DEF l
  <2> QED BY <2>1, <2>2
<1>3. Has(L)
  <2>1. T \in SUBSET Nat
    OBVIOUS
  <2> HIDE DEF Has
  <2>2. T = Nat
    <3> HIDE DEF T
    <3> QED BY <1>1, <1>2, <2>1, Induction
  <2> QED BY <1>0, <2>2
<1>4. L + 1 - L = 1
  BY <1>0
<1> QED BY <1>0, <1>3, <1>4

\* Replaced is where that solution begins.
LEMMA ReplacedIsScan ==
    ASSUME NEW buf \in Seq(Bytes)
    PROVE  \E f : Scans(buf, f, 1) /\ f \in [1..Len(buf) + 1 -> Seq(Piece)] /\ Replaced(buf) = f[1]
<1>0. Len(buf) \in Nat
  BY LenProperties
<1> DEFINE Is(f) ==
             f = [i \in 1..Len(buf) + 1 |->
                    IF i = Len(buf) + 1 THEN <<>>
                    ELSE IF OccurAt(buf, i) = {} THEN <<Byte(buf[i])>> \o f[i + 1]
                    ELSE LET p == Longest(OccurAt(buf, i))
                         IN  <<Marker(p)>> \o f[i + Len(p)]]
           from == CHOOSE f : Is(f)
           Go(f, i) == IF i = Len(buf) + 1 THEN <<>> ELSE <<PieceAt(buf, i)>> \o f[Past(buf, i)]
<1>1. Replaced(buf) = from[1]
  BY DEF Replaced
<1>2. ASSUME NEW f, NEW i \in 1..Len(buf)
      PROVE  <<PieceAt(buf, i)>> \o f[Past(buf, i)] =
               IF OccurAt(buf, i) = {} THEN <<Byte(buf[i])>> \o f[i + 1]
               ELSE LET p == Longest(OccurAt(buf, i))
                    IN  <<Marker(p)>> \o f[i + Len(p)]
  <2>1. CASE OccurAt(buf, i) = {}
    <3>1. PieceAt(buf, i) = Byte(buf[i])
      BY <2>1 DEF PieceAt
    <3>2. Len(TextOf(Byte(buf[i]))) = 1
      <4>1. buf[i] \in Bytes
        BY ElementOfSeq
      <4> QED BY <4>1, ByteIsPiece, Single
    <3>3. Past(buf, i) = i + 1
      BY <3>1, <3>2 DEF Past
    <3> QED BY <2>1, <3>1, <3>3
  <2>2. CASE OccurAt(buf, i) # {}
    <3> DEFINE p == Longest(OccurAt(buf, i))
    <3>1. PieceAt(buf, i) = Marker(p)
      BY <2>2 DEF PieceAt
    <3>2. p \in Patterns
      BY <2>2, LongestProperties DEF OccurAt
    <3>3. Past(buf, i) = i + Len(p)
      <4> HIDE DEF p
      <4>1. TextOf(Marker(p)) = p
        BY <3>2, MarkerIsPiece
      <4> QED BY <3>1, <4>1 DEF Past
    <3> QED BY <2>2, <3>1, <3>3
  <2> QED BY <2>1, <2>2
<1>3. \A f : Is(f) <=> f = [i \in 1..Len(buf) + 1 |-> Go(f, i)]
  <2> TAKE f
  <2>1. ASSUME NEW i \in 1..Len(buf) + 1
        PROVE  Go(f, i) = IF i = Len(buf) + 1 THEN <<>>
                            ELSE IF OccurAt(buf, i) = {} THEN <<Byte(buf[i])>> \o f[i + 1]
                            ELSE LET p == Longest(OccurAt(buf, i))
                                 IN  <<Marker(p)>> \o f[i + Len(p)]
    <3>1. CASE i = Len(buf) + 1
      BY <3>1
    <3>2. CASE i # Len(buf) + 1
      <4>1. i \in 1..Len(buf)
        BY <1>0, <3>2
      <4> QED BY <1>2, <3>2, <4>1
    <3> QED BY <3>1, <3>2
  <2> QED BY <2>1
<1>4. PICK f \in [1..Len(buf) + 1 -> Seq(Piece)] : Scans(buf, f, 1)
  BY ScansExist
<1>5. f = [i \in 1..Len(buf) + 1 |-> Go(f, i)]
  <2>1. ASSUME NEW i \in 1..Len(buf) + 1 PROVE f[i] = Go(f, i)
    <3>1. i = Len(buf) + 1 \/ (i \in 1..Len(buf) /\ i # Len(buf) + 1)
      BY <1>0
    <3> QED BY <1>4, <3>1 DEF Scans
  <2> HIDE DEF Go
  <2> QED BY <1>4, <2>1
<1>6. Is(from)
  <2>1. Is(f)
    BY <1>3, <1>5
  <2> HIDE DEF Is
  <2> QED BY <2>1
<1>7. from = [i \in 1..Len(buf) + 1 |-> Go(from, i)]
  <2> HIDE DEF Is, from, Go
  <2> QED BY <1>3, <1>6
<1> HIDE DEF Is, from
<1>8. Scans(buf, from, 1)
  <2>1. \A i \in 1..Len(buf) + 1 : from[i] = Go(from, i)
    <3> HIDE DEF Go
    <3> QED BY <1>7
  <2>2. Len(buf) + 1 \in 1..Len(buf) + 1
        /\ \A i \in 1..Len(buf) : i \in 1..Len(buf) + 1 /\ i # Len(buf) + 1
    BY <1>0
  <2> QED BY <2>1, <2>2 DEF Scans
<1>9. from \in [1..Len(buf) + 1 -> Seq(Piece)]
  <2> DEFINE T == {n \in Nat : n <= Len(buf) => \A i \in Len(buf) + 1 - n..Len(buf) + 1 : from[i] \in Seq(Piece)}
  <2>1. 0 \in T
    <3>1. \A i \in Len(buf) + 1 - 0..Len(buf) + 1 : i = Len(buf) + 1
      BY <1>0
    <3> QED BY <1>8, <3>1, EmptySeq DEF Scans
  <2>2. ASSUME NEW n \in T PROVE n + 1 \in T
    <3>1. ASSUME n + 1 <= Len(buf), NEW i \in Len(buf) + 1 - (n + 1)..Len(buf) + 1
          PROVE  from[i] \in Seq(Piece)
      <4>1. n \in Nat /\ \A j \in Len(buf) + 1 - n..Len(buf) + 1 : from[j] \in Seq(Piece)
        BY <3>1, <1>0
      <4>2. CASE i \in Len(buf) + 1 - n..Len(buf) + 1
        BY <4>1, <4>2
      <4>3. CASE ~(i \in Len(buf) + 1 - n..Len(buf) + 1)
        <5>1. i = Len(buf) - n /\ i \in 1..Len(buf)
          BY <1>0, <3>1, <4>1, <4>3
        <5>2. Past(buf, i) \in i + 1..Len(buf) + 1
          BY <5>1, PastProperties
        <5>3. Past(buf, i) \in Len(buf) + 1 - n..Len(buf) + 1
          BY <1>0, <4>1, <5>1, <5>2
        <5>4. from[Past(buf, i)] \in Seq(Piece) /\ <<PieceAt(buf, i)>> \in Seq(Piece)
          BY <4>1, <5>1, <5>3, PieceAtProperties, PieceAsSeq
        <5>5. from[i] = <<PieceAt(buf, i)>> \o from[Past(buf, i)]
          BY <1>8, <5>1 DEF Scans
        <5> QED BY <5>4, <5>5, ConcatProperties
      <4> QED BY <4>2, <4>3
    <3> QED BY <3>1
  <2>3. Len(buf) \in T
    <3>1. T \in SUBSET Nat
      OBVIOUS
    <3> HIDE DEF T
    <3> QED BY <1>0, <2>1, <2>2, <3>1, Induction
  <2>4. \A i \in 1..Len(buf) + 1 : from[i] \in Seq(Piece)
    BY <1>0, <2>3
  <2> HIDE DEF Go, T
  <2> QED BY <1>7, <2>4
<1> QED BY <1>1, <1>8, <1>9

\* Replaced parses the whole buffer.
LEMMA ReplacedProperties ==
    ASSUME NEW buf \in Seq(Bytes)
    PROVE  Parse(buf, 0, Replaced(buf))
<1>0. Len(buf) \in Nat
  BY LenProperties
<1>1. PICK f : Scans(buf, f, 1) /\ f \in [1..Len(buf) + 1 -> Seq(Piece)] /\ Replaced(buf) = f[1]
  BY ReplacedIsScan
<1> DEFINE T == {n \in Nat : n <= Len(buf) => \A o \in Len(buf) - n..Len(buf) : Parse(buf, o, f[o + 1])}
<1>2. 0 \in T
  <2>1. \A o \in Len(buf) - 0..Len(buf) : o = Len(buf)
    BY <1>0
  <2>2. Parse(buf, Len(buf), f[Len(buf) + 1])
    BY <1>1, ParseEnds DEF Scans
  <2> QED BY <2>1, <2>2
<1>3. ASSUME NEW n \in T PROVE n + 1 \in T
  <2>1. ASSUME n + 1 <= Len(buf), NEW o \in Len(buf) - (n + 1)..Len(buf)
        PROVE  Parse(buf, o, f[o + 1])
    <3>1. n \in Nat /\ \A q \in Len(buf) - n..Len(buf) : Parse(buf, q, f[q + 1])
      BY <2>1, <1>0
    <3>2. CASE o \in Len(buf) - n..Len(buf)
      BY <3>1, <3>2
    <3>3. CASE ~(o \in Len(buf) - n..Len(buf))
      <4>1. o = Len(buf) - (n + 1) /\ o + 1 \in 1..Len(buf) /\ o \in Nat /\ o < Len(buf)
        BY <1>0, <2>1, <3>1, <3>3
      <4> DEFINE x == PieceAt(buf, o + 1)
                 m == o + Len(TextOf(x))
      <4>2. Past(buf, o + 1) = m + 1 /\ m \in Len(buf) - n..Len(buf)
        <5>1. Past(buf, o + 1) \in (o + 1) + 1..Len(buf) + 1
          BY <4>1, PastProperties
        <5>2. Len(TextOf(x)) \in Nat
          BY <4>1, PieceAtProperties, PieceProperties
        <5>3. Past(buf, o + 1) = o + 1 + Len(TextOf(x))
          BY DEF Past
        <5> HIDE DEF x
        <5> QED BY <1>0, <3>1, <4>1, <5>1, <5>2, <5>3
      <4>3. f[o + 1] = <<x>> \o f[m + 1]
        BY <1>1, <4>1, <4>2 DEF Scans
      <4>4. Parse(buf, m, f[m + 1])
        BY <3>1, <4>2
      <4> HIDE DEF x
      <4>5. x = PieceAt(buf, o + 1)
        BY DEF x
      <4> QED BY <4>1, <4>3, <4>4, <4>5, ParseGoesOn
    <3> QED BY <3>2, <3>3
  <2> QED BY <2>1
<1>4. Len(buf) \in T
  <2>1. T \in SUBSET Nat
    OBVIOUS
  <2> HIDE DEF T
  <2> QED BY <1>0, <1>2, <1>3, <2>1, Induction
<1>5. 0 \in Len(buf) - Len(buf)..Len(buf) /\ 0 + 1 = 1
  BY <1>0
<1> QED BY <1>0, <1>1, <1>4, <1>5

\* Nothing dropped.
LEMMA DropNone ==
    ASSUME NEW S, NEW s \in Seq(S)
    PROVE  Drop(s, 0) = s
BY SubSeqFull DEF Drop

\* The two parts of a cut make up the sequence.
LEMMA CutJoins ==
    ASSUME NEW S, NEW s \in Seq(S), NEW n \in 0..Len(s)
    PROVE  Take(s, n) \o Drop(s, n) = s
BY CutProperties

\* Prefixes, byte by byte.
LEMMA PrefixProperties ==
    ASSUME NEW s \in Seq(Bytes), NEW t \in Seq(Bytes)
    PROVE  /\ IsPrefix(s, t) <=> Len(s) <= Len(t) /\ \A k \in 1..Len(s) : s[k] = t[k]
           /\ IsStrictPrefix(s, t) <=> Len(s) < Len(t) /\ \A k \in 1..Len(s) : s[k] = t[k]
<1>0. Len(s) \in Nat /\ Len(t) \in Nat
  BY LenProperties
<1>1. IsPrefix(s, t) <=> Len(s) <= Len(t) /\ \A k \in 1..Len(s) : s[k] = t[k]
  <2>1. CASE Len(s) <= Len(t)
    <3>1. Len(s) \in 0..Len(s) /\ Len(s) \in 0..Len(t)
      BY <1>0, <2>1
    <3> DEFINE n == Len(s)
    <3>2. /\ Take(s, n) \in Seq(Bytes) /\ Len(Take(s, n)) = n
          /\ \A k \in 1..n : Take(s, n)[k] = s[k]
      BY <3>1, CutProperties
    <3>3. /\ Take(t, n) \in Seq(Bytes) /\ Len(Take(t, n)) = n
          /\ \A k \in 1..n : Take(t, n)[k] = t[k]
      BY <3>1, CutProperties
    <3>4. IsPrefix(s, t) <=> Take(s, n) = Take(t, n)
      BY <2>1 DEF IsPrefix, Take
    <3>5. ASSUME Take(s, n) = Take(t, n) PROVE \A k \in 1..Len(s) : s[k] = t[k]
      BY <3>2, <3>3, <3>5
    <3>6. ASSUME \A k \in 1..Len(s) : s[k] = t[k] PROVE Take(s, n) = Take(t, n)
      <4> HIDE DEF Take
      <4> QED BY <3>2, <3>3, <3>6, SeqEqual
    <3> QED BY <2>1, <3>4, <3>5, <3>6
  <2>2. CASE ~(Len(s) <= Len(t))
    BY <2>2 DEF IsPrefix
  <2> QED BY <2>1, <2>2
<1>2. ASSUME Len(s) = Len(t), \A k \in 1..Len(s) : s[k] = t[k] PROVE s = t
  BY <1>2, SeqEqual
<1>3. IsStrictPrefix(s, t) <=> Len(s) < Len(t) /\ \A k \in 1..Len(s) : s[k] = t[k]
  <2>1. ASSUME IsStrictPrefix(s, t) PROVE Len(s) < Len(t) /\ \A k \in 1..Len(s) : s[k] = t[k]
    <3>1. Len(s) <= Len(t) /\ (\A k \in 1..Len(s) : s[k] = t[k]) /\ s # t
      BY <1>1, <2>1 DEF IsStrictPrefix
    <3>2. Len(s) # Len(t)
      BY <1>2, <3>1
    <3> QED BY <1>0, <3>1, <3>2
  <2>2. ASSUME Len(s) < Len(t), \A k \in 1..Len(s) : s[k] = t[k] PROVE IsStrictPrefix(s, t)
    <3>1. Len(s) <= Len(t) /\ s # t
      BY <1>0, <2>2
    <3> QED BY <1>1, <2>2, <3>1 DEF IsStrictPrefix
  <2> QED BY <2>1, <2>2
<1> QED BY <1>1, <1>3

\* More bytes could complete s to a Pattern.
Begins(s) == \E p \in Patterns : IsStrictPrefix(s, p)

\* PartialLen is the longest end that more bytes could complete.
LEMMA PartialProperties ==
    ASSUME NEW tail \in Seq(Bytes)
    PROVE  /\ PartialLen(tail) \in 0..Len(tail)
           /\ PartialLen(tail) # 0 => Begins(Drop(tail, Len(tail) - PartialLen(tail)))
           /\ \A n \in 1..Len(tail) : n > PartialLen(tail) => ~Begins(Drop(tail, Len(tail) - n))
<1>0. Len(tail) \in Nat
  BY LenProperties
<1> DEFINE S == {n \in 1..Len(tail) : Begins(Drop(tail, Len(tail) - n))}
           T == {0} \cup S
<1>1. PartialLen(tail) = Max(T)
  BY DEF PartialLen, LastBytes, Begins, Drop
<1>2. T \in SUBSET (0..Len(tail)) /\ T # {} /\ S \in SUBSET (1..Len(tail))
  BY <1>0
<1>3. Max(T) \in T /\ \A n \in T : n <= Max(T)
  <2> HIDE DEF T
  <2> QED BY <1>0, <1>2, MaxOf
<1> DEFINE h == Max(T)
<1>4. h \in 0..Len(tail) /\ \A n \in S : n <= h
  <2> HIDE DEF S
  <2> QED BY <1>2, <1>3
<1>5. h # 0 => h \in S
  <2> HIDE DEF S, h
  <2> QED BY <1>3 DEF h
<1> HIDE DEF h
<1>6. h # 0 => Begins(Drop(tail, Len(tail) - h))
  BY <1>5
<1>7. ASSUME NEW n \in 1..Len(tail), n > h PROVE ~Begins(Drop(tail, Len(tail) - n))
  <2>1. n \notin S
    <3> HIDE DEF S
    <3> QED BY <1>0, <1>4, <1>7
  <2> QED BY <2>1
<1>8. PartialLen(tail) = h
  BY <1>1 DEF h
<1> HIDE DEF T, S
<1> QED BY <1>4, <1>6, <1>7, <1>8

\* How many pieces there are up to the last marker.
LastMarker(s) == SelectLastInSeq(s, LAMBDA x : x.marker)

\* AfterMarkers is the text of what follows the last marker.
LEMMA LastMarkerProperties ==
    ASSUME NEW s \in Seq(Piece)
    PROVE  /\ LastMarker(s) \in 0..Len(s)
           /\ LastMarker(s) # 0 => ~Plain(s[LastMarker(s)])
           /\ \A i \in LastMarker(s) + 1..Len(s) : Plain(s[i])
           /\ AfterMarkers(s) = Text(Drop(s, LastMarker(s)))
<1>0. Len(s) \in Nat /\ \A i \in 1..Len(s) : s[i] \in Piece
  BY LenProperties, ElementOfSeq
<1> DEFINE I == {i \in 1..Len(s) : s[i].marker}
<1>1. LastMarker(s) = IF I # {} THEN Max(I) ELSE 0
  BY DEF LastMarker, SelectLastInSeq
<1>2. AfterMarkers(s) = Text(Drop(s, LastMarker(s)))
  BY DEF AfterMarkers, LastMarker, Drop
<1>3. \A i \in 1..Len(s) : i \in I <=> ~Plain(s[i])
  BY DEF Plain
<1>4. I \in SUBSET (0..Len(s)) /\ I \in SUBSET (1..Len(s))
  BY <1>0
<1> HIDE DEF I
<1>5. CASE I # {}
  <2> DEFINE m == LastMarker(s)
  <2>1. Max(I) \in I /\ \A n \in I : n <= Max(I)
    BY <1>0, <1>4, <1>5, MaxOf
  <2>2. m \in I /\ \A n \in I : n <= m
    BY <1>1, <1>5, <2>1
  <2> HIDE DEF m
  <2>3. m \in 1..Len(s) /\ ~Plain(s[m])
    BY <1>3, <1>4, <2>2
  <2>4. ASSUME NEW i \in m + 1..Len(s) PROVE Plain(s[i])
    <3>1. i \in 1..Len(s) /\ ~(i <= m)
      BY <1>0, <2>3
    <3> QED BY <1>3, <2>2, <3>1
  <2>5. m \in 0..Len(s)
    BY <2>3
  <2> QED BY <1>2, <2>3, <2>4, <2>5 DEF m
<1>6. CASE I = {}
  <2>1. LastMarker(s) = 0
    BY <1>1, <1>6
  <2>2. 0 + 1 = 1 /\ 0 \in 0..Len(s)
    BY <1>0
  <2> QED BY <1>2, <1>3, <1>6, <2>1, <2>2
<1> QED BY <1>5, <1>6

-----------------------------------------------------------------------------
Hold(buf) == PartialLen(AfterMarkers(Replaced(buf)))

\* What the scan of buf comes to, with its pieces ps, the first n of them sent
\* and the last h bytes held.
LEMMA ScanCuts ==
    ASSUME NEW buf \in Seq(Bytes),
           NEW ps, ps = Replaced(buf), NEW h, h = Hold(buf),
           NEW n, n = Len(ps) - h, NEW q, q = Len(buf) - h
    PROVE  /\ Parse(buf, 0, ps) /\ ps \in Seq(Piece) /\ Text(ps) = buf
           /\ h \in 0..Len(ps) /\ n \in 0..Len(ps) /\ q \in 0..Len(buf)
           /\ Scan(buf).out = Take(ps, n) /\ Scan(buf).rest = Drop(buf, q)
           /\ Len(Text(Take(ps, n))) = q
           /\ Text(Take(ps, n)) \o Drop(buf, q) = buf
           /\ \A k \in n + 1..Len(ps) : Plain(ps[k])
           /\ h # 0 => Begins(Drop(buf, q))
           /\ \A k \in 1..n : (\A j \in k..Len(ps) : Plain(ps[j])) =>
                                ~Begins(Drop(buf, Offset(ps, k)))
<1>1. Parse(buf, 0, ps)
  BY ReplacedProperties
<1>2. ps \in Seq(Piece) /\ Len(ps) \in Nat /\ Len(buf) \in Nat
  BY <1>1, LenProperties DEF Parse
<1>3. Text(ps) = buf
  <2>1. Drop(buf, 0) = buf
    BY <1>2, SubSeqFull DEF Drop
  <2> QED BY <1>1, <2>1 DEF Parse
<1> DEFINE m == LastMarker(ps)
           tail == Text(Drop(ps, m))
<1>4. /\ m \in 0..Len(ps) /\ AfterMarkers(ps) = tail
      /\ m # 0 => ~Plain(ps[m])
      /\ \A i \in m + 1..Len(ps) : Plain(ps[i])
  BY <1>2, LastMarkerProperties
<1>5. /\ Drop(ps, m) \in Seq(Piece) /\ Len(Drop(ps, m)) = Len(ps) - m
      /\ \A i \in 1..Len(ps) - m : Drop(ps, m)[i] = ps[m + i]
  <2> HIDE DEF m
  <2> QED BY <1>2, <1>4, CutProperties, ZenonT(30)
<1>6. tail \in Seq(Bytes) /\ Len(tail) = Len(ps) - m
  <2>1. AllPlain(Drop(ps, m))
    <3>1. ASSUME NEW i \in 1..Len(ps) - m PROVE Plain(Drop(ps, m)[i])
      <4>1. m + i \in m + 1..Len(ps)
        BY <1>2, <1>4
      <4> HIDE DEF m
      <4> QED BY <1>4, <1>5, <4>1
    <3> HIDE DEF m
    <3> QED BY <1>5, <3>1 DEF AllPlain
  <2> HIDE DEF m
  <2> QED BY <1>5, <2>1, PlainText, TextProperties
<1>7. h = PartialLen(tail)
  BY <1>4 DEF Hold
<1> HIDE DEF m, tail
<1>8. /\ h \in 0..Len(tail)
      /\ h # 0 => Begins(Drop(tail, Len(tail) - h))
      /\ \A i \in 1..Len(tail) : i > h => ~Begins(Drop(tail, Len(tail) - i))
  BY <1>6, <1>7, PartialProperties
<1>9. h \in 0..Len(ps) /\ n \in m..Len(ps) /\ n \in 0..Len(ps)
  BY <1>2, <1>4, <1>6, <1>8
\* What is plain at the end is the end of buf, byte for piece.
<1>10. ASSUME NEW k \in m..Len(ps)
       PROVE  /\ Offset(ps, k + 1) = Len(buf) - (Len(ps) - k)
              /\ Drop(buf, Offset(ps, k + 1)) = Drop(tail, k - m)
              /\ Text(Take(ps, k)) \o Drop(buf, Offset(ps, k + 1)) = buf
              /\ Len(Text(Take(ps, k))) = Offset(ps, k + 1)
  <2> DEFINE a == Take(ps, k)
             b == Drop(ps, k)
  <2>1. k \in 0..Len(ps)
    BY <1>2, <1>4
  <2>2. /\ a \in Seq(Piece) /\ Len(a) = k /\ b \in Seq(Piece) /\ Len(b) = Len(ps) - k
        /\ ps = a \o b /\ \A i \in 1..Len(ps) - k : b[i] = ps[k + i]
    <3>1. a \in Seq(Piece) /\ Len(a) = k /\ ps = a \o b
      <4> HIDE DEF m
      <4>1. a \in Seq(Piece) /\ Len(a) = k
        BY <1>2, <2>1, CutProperties
      <4>2. ps = a \o b
        <5> HIDE DEF Take, Drop
        <5>1. ps = Take(ps, k) \o Drop(ps, k)
          BY <1>2, <2>1, CutJoins
        <5> QED BY <5>1 DEF a, b
      <4> QED BY <4>1, <4>2
    <3>2. b \in Seq(Piece) /\ Len(b) = Len(ps) - k /\ \A i \in 1..Len(ps) - k : b[i] = ps[k + i]
      BY <1>2, <2>1, CutProperties
    <3> QED BY <3>1, <3>2
  <2> HIDE DEF a, b
  <2>3. Text(a) \in Seq(Bytes) /\ Text(b) \in Seq(Bytes) /\ buf = Text(a) \o Text(b)
    BY <1>3, <2>2, TextProperties, TextConcat
  <2>4. AllPlain(b)
    <3>1. ASSUME NEW i \in 1..Len(ps) - k PROVE Plain(b[i])
      <4>1. k + i \in m + 1..Len(ps)
        BY <1>2, <1>4
      <4> QED BY <1>4, <2>2, <4>1
    <3> QED BY <2>2, <3>1 DEF AllPlain
  <2>5. Len(Text(b)) = Len(ps) - k
    BY <2>2, <2>4, PlainText
  <2>6. Offset(ps, k + 1) = Len(Text(a))
    <3>1. (k + 1) - 1 = k
      BY <2>1
    <3> QED BY <3>1 DEF Offset, a
  <2>7. Len(Text(a)) \in Nat /\ Len(Text(b)) \in Nat /\ Len(buf) = Len(Text(a)) + Len(Text(b))
    BY <2>3, ConcatProperties, LenProperties
  <2>8. Drop(buf, Len(Text(a))) = Text(b)
    <3>1. Drop(Text(a) \o Text(b), Len(Text(a)) + 0) = Drop(Text(b), 0)
      BY <2>3, <2>7, CutOfConcat
    <3>2. Len(Text(a)) + 0 = Len(Text(a))
      BY <2>7
    <3>3. Drop(Text(b), 0) = Text(b)
      BY <2>3, DropNone
    <3> QED BY <2>3, <3>1, <3>2, <3>3
  <2>9. Drop(tail, k - m) = Text(b)
    <3> DEFINE d == Drop(ps, m)
               e == Take(d, k - m)
    <3>1. d \in Seq(Piece) /\ Len(d) = Len(ps) - m /\ k - m \in 0..Len(d)
      BY <1>2, <1>4, <1>5
    <3>2. Drop(d, k - m) = b
      <4> DEFINE f == Drop(d, k - m)
      <4>1. f \in Seq(Piece) /\ Len(f) = Len(d) - (k - m)
            /\ \A i \in 1..Len(d) - (k - m) : f[i] = d[(k - m) + i]
        BY <3>1, CutProperties
      <4>2. ASSUME NEW i \in 1..Len(ps) - k PROVE f[i] = b[i]
        <5>1. /\ i \in 1..Len(d) - (k - m) /\ (k - m) + i \in 1..Len(ps) - m
              /\ m + ((k - m) + i) = k + i
          BY <1>2, <1>4, <3>1
        <5> HIDE DEF f
        <5>2. f[i] = d[(k - m) + i] /\ b[i] = ps[k + i]
          BY <2>2, <4>1, <5>1
        <5>3. d[(k - m) + i] = ps[m + ((k - m) + i)]
          BY <1>5, <5>1
        <5> QED BY <5>1, <5>2, <5>3
      <4>3. Len(f) = Len(b)
        <5> HIDE DEF f
        <5> QED BY <1>2, <1>4, <2>2, <3>1, <4>1
      <4> HIDE DEF f, d
      <4>4. f = b
        BY <2>2, <4>1, <4>2, <4>3, SeqEqual
      <4> QED BY <4>4 DEF f
    <3> HIDE DEF d
    <3>3. e \in Seq(Piece) /\ Len(e) = k - m /\ d = e \o b
          /\ \A i \in 1..k - m : e[i] = d[i]
      <4>1. e \in Seq(Piece) /\ Len(e) = k - m /\ \A i \in 1..k - m : e[i] = d[i]
        BY <3>1, CutProperties
      <4>2. d = e \o Drop(d, k - m)
        BY <3>1, CutProperties, ZenonT(30)
      <4> QED BY <3>2, <4>1, <4>2
    <3> HIDE DEF e
    <3>4. tail = Text(e) \o Text(b) /\ Text(e) \in Seq(Bytes)
      BY <2>2, <3>3, TextConcat, TextProperties DEF tail, d
    <3>5. Len(Text(e)) = k - m
      <4>0. Len(Text(e)) \in Nat
        BY <3>4, LenProperties
      <4>1. Len(Text(e)) \in Nat /\ Len(tail) = Len(Text(e)) + Len(Text(b))
        <5>1. Len(Text(e) \o Text(b)) = Len(Text(e)) + Len(Text(b))
          BY <2>3, <3>4, ConcatProperties
        <5>2. Len(tail) = Len(Text(e) \o Text(b))
          BY <3>4, Zenon
        <5> QED BY <4>0, <5>1, <5>2
      <4>2. /\ Len(ps) \in Nat /\ m \in Nat /\ k \in Nat
            /\ Len(tail) = Len(ps) - m /\ Len(Text(b)) = Len(ps) - k
        BY <1>2, <1>4, <1>6, <2>5
      <4> HIDE DEF m
      <4> QED BY <4>1, <4>2
    <3>6. Drop(tail, Len(Text(e)) + 0) = Drop(Text(b), 0)
      BY <2>3, <2>7, <3>4, CutOfConcat
    <3>7. Len(Text(e)) + 0 = k - m
      BY <1>4, <3>5
    <3>8. Drop(Text(b), 0) = Text(b)
      BY <2>3, DropNone
    <3> QED BY <3>6, <3>7, <3>8
  <2>10. Text(a) \o Drop(buf, Offset(ps, k + 1)) = buf
    BY <2>3, <2>6, <2>8
  <2>11. Offset(ps, k + 1) = Len(buf) - (Len(ps) - k)
    BY <1>2, <2>1, <2>5, <2>6, <2>7
  <2> QED BY <2>6, <2>8, <2>9, <2>10, <2>11 DEF a
<1>11. /\ q = Offset(ps, n + 1) /\ Len(Text(Take(ps, n))) = q
       /\ Text(Take(ps, n)) \o Drop(buf, q) = buf
       /\ Drop(buf, q) = Drop(tail, Len(tail) - h)
  <2>1. Len(buf) - (Len(ps) - n) = q /\ n - m = Len(tail) - h
    BY <1>2, <1>4, <1>6, <1>8
  <2> QED BY <1>9, <1>10, <2>1
<1>12. q \in 0..Len(buf)
  <2>1. n + 1 \in 1..Len(ps) + 1
    BY <1>2, <1>9
  <2>2. Offset(ps, n + 1) \in 0..Len(Text(ps))
    BY <1>2, <2>1, OffsetProperties
  <2> QED BY <1>3, <1>11, <2>2
<1>13. \A k \in n + 1..Len(ps) : Plain(ps[k])
  BY <1>2, <1>4, <1>9
<1>14. ASSUME NEW k \in 1..n, \A j \in k..Len(ps) : Plain(ps[j])
       PROVE  ~Begins(Drop(buf, Offset(ps, k)))
  <2>1. k > m
    <3>1. m # 0 => ~Plain(ps[m])
      BY <1>4
    <3>2. m \in Nat /\ k \in Nat /\ m <= Len(ps)
      BY <1>4, <1>9
    <3>3. CASE m # 0 /\ k <= m
      <4>1. m \in k..Len(ps)
        BY <3>2, <3>3
      <4> QED BY <1>14, <3>1, <3>3, <4>1
    <3> QED BY <1>14, <3>2, <3>3
  <2> DEFINE l == k - 1
             i == Len(tail) - (l - m)
  <2>2. l \in m..Len(ps) /\ l + 1 = k
    BY <1>2, <1>9, <2>1, <1>4
  <2>3. i \in 1..Len(tail) /\ i > h /\ Len(tail) - i = l - m
    BY <1>2, <1>4, <1>6, <1>8, <1>9, <2>1, SMTT(30)
  <2> HIDE DEF i, l
  <2>4. Drop(buf, Offset(ps, k)) = Drop(tail, Len(tail) - i)
    BY <1>10, <2>2, <2>3
  <2> QED BY <1>8, <2>3, <2>4
<1>15. Scan(buf).out = Take(ps, n) /\ Scan(buf).rest = Drop(buf, q)
  BY DEF Scan, Hold, Take, Drop, LastBytes
<1> QED BY <1>1, <1>2, <1>3, <1>8, <1>9, <1>11, <1>12, <1>13, <1>14, <1>15

\* No Pattern occurs in s.
Clean(s) == \A i \in 1..Len(s) : OccurAt(s, i) = {}

\* What the scan of buf takes as a single byte begins no Pattern in buf.
Singles(buf, s) == \A k \in 1..Len(s) : Plain(s[k]) => OccurAt(buf, Offset(s, k) + 1) = {}

\* Nothing that the scan of buf sends after the last marker could still become
\* a Pattern.
Finished(buf, s) ==
    \A k \in 1..Len(s) :
        (\A j \in k..Len(s) : Plain(s[j])) => ~Begins(Drop(buf, Offset(s, k)))

\* Each piece is the one the matcher makes where it begins.
Matched(buf, s) == \A k \in 1..Len(s) : s[k] = PieceAt(buf, Offset(s, k) + 1)

\* The first pieces begin where they did.
LEMMA TakenPieces ==
    ASSUME NEW ps \in Seq(Piece), NEW n \in 0..Len(ps)
    PROVE  /\ Take(ps, n) \in Seq(Piece) /\ Len(Take(ps, n)) = n
           /\ \A k \in 1..n : Take(ps, n)[k] = ps[k]
           /\ \A k \in 1..n + 1 : Offset(Take(ps, n), k) = Offset(ps, k)
<1>1. /\ Take(ps, n) \in Seq(Piece) /\ Len(Take(ps, n)) = n
      /\ \A k \in 1..n : Take(ps, n)[k] = ps[k]
  BY CutProperties
<1>2. Drop(ps, n) \in Seq(Piece)
  BY CutProperties
<1>3. Take(ps, n) \o Drop(ps, n) = ps
  BY CutJoins
<1> DEFINE a == Take(ps, n)
           b == Drop(ps, n)
<1>4. \A k \in 1..Len(a) + 1 : Offset(a \o b, k) = Offset(a, k)
  <2> HIDE DEF a, b
  <2> QED BY <1>1, <1>2, OffsetOfConcat DEF a, b
<1> QED BY <1>1, <1>3, <1>4

\* A Pattern after the first q bytes of buf is one in what is left of them.
LEMMA OccurAfterDrop ==
    ASSUME NEW buf \in Seq(Bytes), NEW q \in 0..Len(buf), NEW i \in 1..Len(buf) - q
    PROVE  OccurAt(Drop(buf, q), i) = OccurAt(buf, q + i)
<1> DEFINE d == Drop(buf, q)
           o == i - 1
<1>0. Len(buf) \in Nat
  BY LenProperties
<1>1. d \in Seq(Bytes) /\ Len(d) = Len(buf) - q /\ \A k \in 1..Len(buf) - q : d[k] = buf[q + k]
  BY CutProperties
<1> HIDE DEF d
<1>2. o \in 0..Len(d) /\ q + o \in 0..Len(buf) /\ o + 1 = i /\ q + o + 1 = q + i
  BY <1>0, <1>1
<1> HIDE DEF o
<1>3. ASSUME NEW p \in Patterns PROVE p \in OccurAt(d, i) <=> p \in OccurAt(buf, q + i)
  <2>0. Len(p) \in Nat
    BY PatternIsSeq
  <2>1. p \in OccurAt(d, i) <=> Follows(d, o, p)
    BY <1>1, <1>2, OccurProperties
  <2>2. p \in OccurAt(buf, q + i) <=> Follows(buf, q + o, p)
    BY <1>2, OccurProperties
  <2>3. o + Len(p) <= Len(d) <=> q + o + Len(p) <= Len(buf)
    BY <1>0, <1>1, <1>2, <2>0
  <2>4. ASSUME o + Len(p) <= Len(d), NEW k \in 1..Len(p) PROVE d[o + k] = buf[q + o + k]
    <3>1. o + k \in 1..Len(buf) - q /\ q + (o + k) = q + o + k
      BY <1>0, <1>1, <1>2, <2>0, <2>4
    <3> QED BY <1>1, <3>1
  <2>5. Follows(d, o, p) <=> Follows(buf, q + o, p)
    BY <2>3, <2>4 DEF Follows
  <2> QED BY <2>1, <2>2, <2>5
<1>4. OccurAt(d, i) \subseteq Patterns /\ OccurAt(buf, q + i) \subseteq Patterns
  BY DEF OccurAt
<1> QED BY <1>3, <1>4 DEF d

\* What one scan promises: all of the buffer is sent or held, none of it twice; no
\* Pattern occurs in what is held, which could become one; nothing is sent as
\* single bytes that a Pattern begins with or could still come to begin with.
LEMMA ScanProperties ==
    ASSUME NEW buf \in Seq(Bytes), NEW s, s = Scan(buf).out, NEW r, r = Scan(buf).rest
    PROVE  /\ s \in Seq(Piece) /\ r \in Seq(Bytes) /\ Text(s) \o r = buf
           /\ Clean(r) /\ (r # <<>> => Begins(r))
           /\ Singles(buf, s) /\ Finished(buf, s) /\ Matched(buf, s)
<1> DEFINE ps == Replaced(buf)
           h == Hold(buf)
           n == Len(ps) - h
           q == Len(buf) - h
<1>1. /\ Parse(buf, 0, ps) /\ ps \in Seq(Piece)
      /\ h \in 0..Len(ps) /\ n \in 0..Len(ps) /\ q \in 0..Len(buf)
      /\ s = Take(ps, n) /\ r = Drop(buf, q)
      /\ Len(Text(Take(ps, n))) = q
      /\ Text(Take(ps, n)) \o Drop(buf, q) = buf
      /\ \A k \in n + 1..Len(ps) : Plain(ps[k])
      /\ h # 0 => Begins(Drop(buf, q))
      /\ \A k \in 1..n : (\A j \in k..Len(ps) : Plain(ps[j])) =>
                           ~Begins(Drop(buf, Offset(ps, k)))
  BY ScanCuts
<1>0. Len(buf) \in Nat /\ Len(ps) \in Nat
  BY <1>1, LenProperties
<1>2. q = Len(buf) - h /\ n = Len(ps) - h
  OBVIOUS
<1> HIDE DEF ps, h, n, q
<1>3. /\ s \in Seq(Piece) /\ Len(s) = n /\ \A k \in 1..n : s[k] = ps[k]
      /\ \A k \in 1..n + 1 : Offset(s, k) = Offset(ps, k)
  BY <1>1, TakenPieces
<1>4. r \in Seq(Bytes) /\ Len(r) = Len(buf) - q
  <2>1. Drop(buf, q) \in Seq(Bytes) /\ Len(Drop(buf, q)) = Len(buf) - q
    BY <1>1, CutProperties, ZenonT(30)
  <2> QED BY <1>1, <2>1
<1>5. \A k \in 1..Len(ps) : ps[k] = PieceAt(buf, 0 + Offset(ps, k) + 1)
  BY <1>1 DEF Parse
\* What the piece at k says of the place where it begins.
<1>6. ASSUME NEW k \in 1..Len(ps), Plain(ps[k]) PROVE OccurAt(buf, Offset(ps, k) + 1) = {}
  <2> DEFINE i == Offset(ps, k) + 1
  <2>1. Text(ps) = buf
    BY <1>1, DropNone DEF Parse
  <2>2. i \in 1..Len(buf) /\ 0 + Offset(ps, k) + 1 = i
    <3>1. k \in 1..Len(ps) + 1 /\ k + 1 \in 1..Len(ps) + 1
      BY <1>0
    <3>2. /\ Offset(ps, k) \in 0..Len(buf) /\ Offset(ps, k + 1) \in 0..Len(buf)
          /\ Offset(ps, k + 1) = Offset(ps, k) + Len(TextOf(ps[k]))
      BY <1>1, <2>1, <3>1, OffsetProperties
    <3>3. Len(TextOf(ps[k])) \in Nat \ {0}
      BY <1>1, ElementOfSeq, PieceProperties
    <3> QED BY <1>0, <3>2, <3>3
  <2> HIDE DEF i
  <2>3. ps[k] = PieceAt(buf, i)
    BY <1>5, <2>2
  <2> QED BY <1>6, <2>2, <2>3, PieceAtProperties DEF i
<1>7. Singles(buf, s)
  <2>1. ASSUME NEW k \in 1..n, Plain(s[k]) PROVE OccurAt(buf, Offset(s, k) + 1) = {}
    <3>1. k \in 1..Len(ps) /\ k \in 1..n + 1
      BY <1>1, <1>0
    <3> QED BY <1>3, <1>6, <2>1, <3>1
  <2> QED BY <1>3, <2>1 DEF Singles
<1>8. Finished(buf, s)
  <2>1. ASSUME NEW k \in 1..n, \A j \in k..n : Plain(s[j])
        PROVE  ~Begins(Drop(buf, Offset(s, k)))
    <3>1. ASSUME NEW j \in k..Len(ps) PROVE Plain(ps[j])
      <4>1. CASE j <= n
        <5>1. j \in k..n /\ j \in 1..n
          BY <1>0, <1>1, <4>1
        <5> QED BY <1>3, <2>1, <5>1
      <4>2. CASE ~(j <= n)
        <5>1. j \in n + 1..Len(ps)
          BY <1>0, <1>1, <4>2
        <5> QED BY <1>1, <5>1
      <4> QED BY <4>1, <4>2
    <3>2. k \in 1..n + 1
      BY <1>1
    <3> QED BY <1>1, <1>3, <3>1, <3>2
  <2> QED BY <1>3, <2>1 DEF Finished
<1>9. Clean(r)
  <2>1. ASSUME NEW i \in 1..Len(r) PROVE OccurAt(r, i) = {}
    <3> DEFINE k == n + i
    <3>1. /\ k \in n + 1..Len(ps) /\ k \in 1..Len(ps) /\ n + 1 \in 1..Len(ps) + 1
          /\ k \in n + 1..Len(ps) + 1 /\ k - (n + 1) = i - 1 /\ i \in 1..Len(buf) - q
      BY <1>0, <1>1, <1>2, <1>4
    <3> HIDE DEF k
    <3>2. \A j \in n + 1..k - 1 : Plain(ps[j])
      <4>1. \A j \in n + 1..k - 1 : j \in n + 1..Len(ps)
        BY <1>0, <1>1, <3>1
      <4> QED BY <1>1, <4>1
    <3>3. Offset(ps, k) = Offset(ps, n + 1) + (k - (n + 1))
      BY <1>1, <3>1, <3>2, OffsetGrows
    <3>4. Offset(ps, n + 1) = q
      <4>1. (n + 1) - 1 = n
        BY <1>1
      <4> QED BY <1>1, <4>1 DEF Offset
    <3>5. Offset(ps, k) + 1 = q + i
      BY <1>1, <3>1, <3>3, <3>4
    <3>6. OccurAt(buf, q + i) = {}
      BY <1>1, <1>6, <3>1, <3>5
    <3>7. OccurAt(Drop(buf, q), i) = OccurAt(buf, q + i)
      BY <1>1, <3>1, OccurAfterDrop
    <3> QED BY <1>1, <3>6, <3>7
  <2> QED BY <2>1 DEF Clean
<1>10. ASSUME r # <<>> PROVE Begins(r)
  <2>1. Len(r) # 0
    BY <1>4, <1>10, EmptySeq
  <2>2. h # 0
    BY <1>0, <1>1, <1>2, <1>4, <2>1
  <2> QED BY <1>1, <2>2
<1>11. Matched(buf, s)
  <2>1. ASSUME NEW k \in 1..n PROVE s[k] = PieceAt(buf, Offset(s, k) + 1)
    <3>1. k \in 1..Len(ps) /\ k \in 1..n + 1 /\ k \in 1..Len(ps) + 1
      BY <1>0, <1>1
    <3>2. 0 + Offset(ps, k) + 1 = Offset(ps, k) + 1
      BY <1>1, <3>1, OffsetProperties
    <3> QED BY <1>3, <1>5, <3>1, <3>2
  <2> QED BY <1>3, <2>1 DEF Matched
<1> QED BY <1>1, <1>3, <1>4, <1>7, <1>8, <1>9, <1>10, <1>11
Sent(buf) == Scan(buf).out
Kept(buf) == Scan(buf).rest

\* The same, with the two parts of the scan by name.
LEMMA SentProperties ==
    ASSUME NEW buf \in Seq(Bytes)
    PROVE  /\ Sent(buf) \in Seq(Piece) /\ Kept(buf) \in Seq(Bytes)
           /\ Text(Sent(buf)) \o Kept(buf) = buf
           /\ Clean(Kept(buf)) /\ (Kept(buf) # <<>> => Begins(Kept(buf)))
           /\ Singles(buf, Sent(buf)) /\ Finished(buf, Sent(buf)) /\ Matched(buf, Sent(buf))
BY ScanProperties DEF Sent, Kept

\* s is not p after its first o bytes.
Differs(s, o, p) == \E k \in 1..Len(p) : o + k <= Len(s) /\ s[o + k] # p[k]

\* Why the byte t[i] does not begin a printed p: it is not there, something of it
\* is under a marker, idleFlush cut it, or the child ended within it.
Excused(t, s, cs, fin, i, p) ==
    \/ Differs(s, Offset(t, i), p)
    \/ \E j \in i..i + Len(p) - 1 : j <= Len(t) /\ ~Plain(t[j])
    \/ cs \cap (Offset(t, i) + 1..Offset(t, i) + Len(p) - 1) # {}
    \/ fin /\ Offset(t, i) + Len(p) > Len(s)

Covers(t, s, cs, fin) ==
    \A i \in 1..Len(t), p \in Patterns : Plain(t[i]) => Excused(t, s, cs, fin, i, p)

Types ==
    /\ held \in Seq(Bytes) /\ seen \in Seq(Bytes) /\ out \in Seq(Piece)
    /\ timer \in {"nil", "running", "fired"}
    /\ strays \in Nat /\ waiting \in Nat
    /\ closed \in BOOLEAN /\ writeErr \in BOOLEAN /\ broken \in BOOLEAN /\ copying \in BOOLEAN

\* Each timer was armed by a Write.
Armed == waiting + strays + (IF timer = "running" THEN 1 ELSE 0) <= Len(seen)

Released == held # <<>> =>
    /\ Begins(held) /\ ~closed
    /\ timer = "running" \/ (timer = "fired" /\ waiting > 0)

RInv ==
    /\ Types
    /\ Armed
    /\ Released
    /\ cuts \subseteq 1..Len(seen)
    /\ Clean(held)
    /\ writeErr => broken
    /\ NothingLost
    /\ Covers(out, seen, cuts, closed)
\* Every piece begins within the text.
LEMMA OffsetInText ==
    ASSUME NEW s \in Seq(Piece), NEW i \in 1..Len(s)
    PROVE  Offset(s, i) \in Nat /\ Offset(s, i) < Len(Text(s)) /\ Len(Text(s)) \in Nat
<1>0. Len(s) \in Nat /\ Len(Text(s)) \in Nat
  BY TextProperties, LenProperties
<1>1. i \in 1..Len(s) + 1 /\ i + 1 \in 1..Len(s) + 1
  BY <1>0
<1>2. Offset(s, i) \in 0..Len(Text(s)) /\ Offset(s, i + 1) \in 0..Len(Text(s))
  BY <1>1, OffsetProperties
<1>3. Offset(s, i + 1) = Offset(s, i) + Len(TextOf(s[i]))
  BY OffsetProperties
<1>4. Len(TextOf(s[i])) \in Nat \ {0}
  <2>1. s[i] \in Piece
    BY ElementOfSeq
  <2> QED BY <2>1, PieceProperties
<1> QED BY <1>0, <1>2, <1>3, <1>4

\* What a concatenation keeps.
LEMMA PrefixKept ==
    ASSUME NEW S, NEW s \in Seq(S), NEW u \in Seq(S)
    PROVE  /\ s \o u \in Seq(S) /\ Len(s \o u) = Len(s) + Len(u) /\ Len(s) <= Len(s \o u)
           /\ \A i \in 1..Len(s) : (s \o u)[i] = s[i]
           /\ \A i \in 1..Len(u) : (s \o u)[Len(s) + i] = u[i]
<1>1. /\ s \o u \in Seq(S) /\ Len(s \o u) = Len(s) + Len(u)
      /\ \A i \in 1..Len(s) + Len(u) : (s \o u)[i] = IF i <= Len(s) THEN s[i] ELSE u[i - Len(s)]
      /\ Len(s) \in Nat /\ Len(u) \in Nat
  BY ConcatProperties, LenProperties
<1> DEFINE t == s \o u
<1> HIDE DEF t
<1>2. Len(s) <= Len(t)
  BY <1>1 DEF t
<1>3. ASSUME NEW i \in 1..Len(s) PROVE t[i] = s[i]
  <2>1. i \in 1..Len(s) + Len(u) /\ i <= Len(s)
    BY <1>1
  <2> QED BY <1>1, <2>1 DEF t
<1>4. ASSUME NEW i \in 1..Len(u) PROVE t[Len(s) + i] = u[i]
  <2>1. /\ Len(s) + i \in 1..Len(s) + Len(u) /\ ~(Len(s) + i <= Len(s))
        /\ (Len(s) + i) - Len(s) = i
    BY <1>1
  <2> DEFINE j == Len(s) + i
  <2> HIDE DEF j
  <2>2. t[j] = u[j - Len(s)]
    BY <1>1, <2>1 DEF t, j
  <2> QED BY <2>1, <2>2 DEF j
<1> QED BY <1>1, <1>2, <1>3, <1>4 DEF t

\* What was excused stays excused when more is printed or written.
LEMMA ExcusedStays ==
    ASSUME NEW t \in Seq(Piece), NEW s \in Seq(Bytes), NEW cs, NEW fin \in BOOLEAN,
           NEW u \in Seq(Piece), NEW v \in Seq(Bytes), NEW ds, cs \subseteq ds,
           NEW end \in BOOLEAN, fin => end /\ v = <<>>,
           NEW i \in 1..Len(t), NEW p \in Patterns,
           Excused(t, s, cs, fin, i, p)
    PROVE  Excused(t \o u, s \o v, ds, end, i, p)
<1>0. Len(t) \in Nat /\ Len(s) \in Nat /\ Len(p) \in Nat /\ Len(v) \in Nat
  BY LenProperties, PatternIsSeq
<1>1. Offset(t \o u, i) = Offset(t, i) /\ Offset(t, i) \in Nat
  <2>1. i \in 1..Len(t) + 1
    BY <1>0
  <2> QED BY <2>1, OffsetOfConcat, OffsetProperties
<1> DEFINE o == Offset(t, i)
<1> HIDE DEF o
<1>2. CASE Differs(s, o, p)
  <2>1. PICK k \in 1..Len(p) : o + k <= Len(s) /\ s[o + k] # p[k]
    BY <1>2 DEF Differs
  <2>2. o + k \in 1..Len(s)
    BY <1>0, <1>1, <2>1 DEF o
  <2>3. (s \o v)[o + k] = s[o + k] /\ o + k <= Len(s \o v)
    <3> DEFINE j == o + k
    <3>1. Len(s) <= Len(s \o v) /\ Len(s \o v) \in Nat
      BY PrefixKept, LenProperties
    <3> HIDE DEF j
    <3>2. j \in 1..Len(s) /\ (s \o v)[j] = s[j]
      BY <2>2, PrefixKept DEF j
    <3>3. j <= Len(s \o v)
      BY <1>0, <3>1, <3>2
    <3> QED BY <3>2, <3>3 DEF j
  <2>4. Differs(s \o v, o, p)
    BY <2>1, <2>3 DEF Differs
  <2> QED BY <1>1, <2>4 DEF Excused, o
<1>3. CASE \E j \in i..i + Len(p) - 1 : j <= Len(t) /\ ~Plain(t[j])
  <2>1. PICK j \in i..i + Len(p) - 1 : j <= Len(t) /\ ~Plain(t[j])
    BY <1>3
  <2>2. j \in 1..Len(t)
    BY <1>0, <2>1
  <2>3. (t \o u)[j] = t[j] /\ j <= Len(t \o u)
    <3>1. Len(t) <= Len(t \o u) /\ Len(t \o u) \in Nat
      BY PrefixKept, LenProperties
    <3>2. (t \o u)[j] = t[j]
      BY <2>2, PrefixKept
    <3>3. j <= Len(t \o u)
      BY <1>0, <2>2, <3>1
    <3> QED BY <3>2, <3>3
  <2> QED BY <2>1, <2>3 DEF Excused
<1>4. CASE cs \cap (Offset(t, i) + 1..Offset(t, i) + Len(p) - 1) # {}
  <2>1. ds \cap (Offset(t, i) + 1..Offset(t, i) + Len(p) - 1) # {}
    BY <1>4
  <2> QED BY <1>1, <2>1 DEF Excused
<1>5. CASE fin /\ Offset(t, i) + Len(p) > Len(s)
  <2>1. s \o v = s
    BY <1>5, ConcatEmptySeq
  <2> QED BY <1>1, <1>5, <2>1 DEF Excused
<1> QED BY <1>2, <1>3, <1>4, <1>5 DEF Excused, o

\* It is enough to excuse what is new.
Fresh(t, u, s, ds, end) ==
    \A k \in 1..Len(u), p \in Patterns : Plain(u[k]) => Excused(t \o u, s, ds, end, Len(t) + k, p)

\* It is enough to excuse what is new.
LEMMA CoversGrows ==
    ASSUME NEW t \in Seq(Piece), NEW s \in Seq(Bytes), NEW cs, NEW fin \in BOOLEAN,
           NEW u \in Seq(Piece), NEW v \in Seq(Bytes), NEW ds, cs \subseteq ds,
           NEW end \in BOOLEAN, fin => end /\ v = <<>>,
           Covers(t, s, cs, fin),
           Fresh(t, u, s \o v, ds, end)
    PROVE  Covers(t \o u, s \o v, ds, end)
<1>0. Len(t) \in Nat /\ Len(u) \in Nat
  BY LenProperties
<1>1. Len(t \o u) = Len(t) + Len(u)
  BY PrefixKept
<1>2. SUFFICES ASSUME NEW i \in 1..Len(t) + Len(u), NEW p \in Patterns, Plain((t \o u)[i])
               PROVE  Excused(t \o u, s \o v, ds, end, i, p)
  BY <1>1 DEF Covers
<1>3. CASE i <= Len(t)
  <2>1. i \in 1..Len(t)
    BY <1>0, <1>3
  <2>2. Plain(t[i])
    BY <1>2, <2>1, PrefixKept
  <2>3. Excused(t, s, cs, fin, i, p)
    BY <2>1, <2>2 DEF Covers
  <2> QED BY <2>1, <2>3, ExcusedStays
<1>4. CASE ~(i <= Len(t))
  <2> DEFINE k == i - Len(t)
  <2>1. k \in 1..Len(u) /\ i = Len(t) + k
    BY <1>0, <1>4
  <2> HIDE DEF k
  <2>2. Plain(u[k])
    BY <1>2, <2>1, PrefixKept
  <2> QED BY <2>1, <2>2 DEF Fresh
<1> QED BY <1>3, <1>4

\* Not all of p follows: a byte differs, or the bytes end within p.
LEMMA FollowsOrNot ==
    ASSUME NEW s \in Seq(Bytes), NEW o \in 0..Len(s), NEW p \in Patterns, ~Follows(s, o, p)
    PROVE  Differs(s, o, p) \/ (o + Len(p) > Len(s) /\ Begins(Drop(s, o)))
<1>0. Len(s) \in Nat /\ p \in Seq(Bytes) /\ Len(p) \in Nat
  BY LenProperties, PatternIsSeq
<1>1. CASE o + Len(p) <= Len(s)
  <2>1. PICK k \in 1..Len(p) : s[o + k] # p[k]
    BY <1>1 DEF Follows
  <2>2. o + k <= Len(s)
    BY <1>0, <1>1
  <2> QED BY <2>1, <2>2 DEF Differs
<1>2. CASE ~(o + Len(p) <= Len(s))
  <2> DEFINE d == Drop(s, o)
  <2>1. d \in Seq(Bytes) /\ Len(d) = Len(s) - o /\ \A k \in 1..Len(s) - o : d[k] = s[o + k]
    BY CutProperties
  <2> HIDE DEF d
  <2>2. Len(d) < Len(p) /\ o + Len(p) > Len(s)
    BY <1>0, <1>2, <2>1
  <2>3. CASE \A k \in 1..Len(d) : d[k] = p[k]
    <3>1. IsStrictPrefix(d, p)
      BY <1>0, <2>1, <2>2, <2>3, PrefixProperties
    <3> QED BY <2>2, <3>1 DEF Begins, d
  <2>4. CASE \E k \in 1..Len(d) : d[k] # p[k]
    <3>1. PICK k \in 1..Len(d) : d[k] # p[k]
      BY <2>4
    <3>2. k \in 1..Len(p) /\ o + k <= Len(s) /\ s[o + k] # p[k]
      BY <1>0, <2>1, <2>2, <3>1
    <3> QED BY <3>2 DEF Differs
  <2> QED BY <2>3, <2>4
<1> QED BY <1>1, <1>2

\* A difference counts from further back, too.
LEMMA DiffersLater ==
    ASSUME NEW t \in Seq(Bytes), NEW s \in Seq(Bytes), NEW o \in 0..Len(s), NEW p \in Patterns,
           Differs(s, o, p)
    PROVE  Differs(t \o s, Len(t) + o, p)
<1>0. Len(t) \in Nat /\ Len(s) \in Nat /\ Len(p) \in Nat
  BY LenProperties, PatternIsSeq
<1>1. PICK k \in 1..Len(p) : o + k <= Len(s) /\ s[o + k] # p[k]
  BY DEF Differs
<1> DEFINE j == o + k
<1>2. j \in 1..Len(s) /\ (Len(t) + o) + k = Len(t) + j
  BY <1>0, <1>1
<1> HIDE DEF j
<1>3. (t \o s)[Len(t) + j] = s[j]
  BY <1>2, PrefixKept
<1>4. Len(t) + j <= Len(t \o s)
  <2>1. Len(t \o s) = Len(t) + Len(s)
    BY PrefixKept
  <2> QED BY <1>0, <1>2, <2>1
<1>5. s[j] # p[k]
  BY <1>1 DEF j
<1> QED BY <1>2, <1>3, <1>4, <1>5 DEF Differs

\* The bytes idleFlush and Close print as they are.
LEMMA RawIsCovered ==
    ASSUME NEW t \in Seq(Piece), NEW b \in Seq(Bytes), Clean(b), NEW s, s = Text(t) \o b,
           NEW cs, NEW fin \in BOOLEAN, NEW ds, cs \subseteq ds,
           NEW end \in BOOLEAN, fin => end,
           Len(s) \in ds \/ end,
           Covers(t, s, cs, fin)
    PROVE  Covers(t \o Raw(b), s, ds, end)
<1> DEFINE u == Raw(b)
<1>1. u \in Seq(Piece) /\ Len(u) = Len(b) /\ AllPlain(u) /\ Text(u) = b
  BY RawProperties
<1>2. /\ Text(t) \in Seq(Bytes) /\ s \in Seq(Bytes) /\ Len(b) \in Nat /\ Len(t) \in Nat
      /\ Len(Text(t)) \in Nat /\ Len(s) = Len(Text(t)) + Len(b)
  BY TextProperties, PrefixKept, LenProperties
<1> HIDE DEF u
<1>3. ASSUME NEW k \in 1..Len(u), NEW p \in Patterns
      PROVE  Excused(t \o u, s, ds, end, Len(t) + k, p)
  <2> DEFINE o == k - 1
  <2>1. o \in 0..Len(b) /\ o + 1 = k /\ k \in 1..Len(b) /\ k \in 1..Len(u) + 1 /\ o < Len(b)
    BY <1>1, <1>2
  <2>2. Offset(u, k) = o
    <3>1. /\ 1 \in 1..Len(u) + 1 /\ k \in 1..Len(u) + 1 /\ 0 + (k - 1) = o
          /\ \A l \in 1..k - 1 : l \in 1..Len(u)
      BY <1>1, <1>2
    <3>2. \A l \in 1..k - 1 : Plain(u[l])
      BY <1>1, <3>1 DEF AllPlain
    <3>3. Offset(u, k) = Offset(u, 1) + (k - 1)
      BY <1>1, <3>1, <3>2, OffsetGrows
    <3> QED BY <1>1, <3>1, <3>3, OffsetProperties
  <2> HIDE DEF o
  <2>3. Offset(t \o u, Len(t) + k) = Len(Text(t)) + o
    BY <1>1, <2>1, <2>2, OffsetOfConcat
  <2>4. ~Follows(b, o, p)
    <3>1. p \notin OccurAt(b, k)
      BY <2>1 DEF Clean
    <3> QED BY <2>1, <3>1, OccurProperties
  <2>5. CASE Differs(b, o, p)
    <3>1. Differs(s, Len(Text(t)) + o, p)
      BY <1>2, <2>1, <2>5, DiffersLater
    <3> QED BY <2>3, <3>1 DEF Excused
  <2>6. CASE o + Len(p) > Len(b)
    <3> DEFINE q == Len(Text(t)) + o
    <3>1. q + Len(p) > Len(s) /\ Len(s) \in q + 1..q + Len(p) - 1
      <4>1. Len(p) \in Nat
        BY PatternIsSeq
      <4> QED BY <1>2, <2>1, <2>6, <4>1
    <3> HIDE DEF q
    <3>2. CASE Len(s) \in ds
      <4>1. ds \cap (q + 1..q + Len(p) - 1) # {}
        BY <3>1, <3>2
      <4> QED BY <2>3, <4>1 DEF Excused, q
    <3>3. CASE end
      BY <2>3, <3>1, <3>3 DEF Excused, q
    <3> QED BY <3>2, <3>3
  <2> QED BY <2>1, <2>4, <2>5, <2>6, FollowsOrNot
<1>4. s \o <<>> = s /\ <<>> \in Seq(Bytes)
  BY <1>2, ConcatEmptySeq, EmptySeq
<1>5. Covers(t \o u, s \o <<>>, ds, end)
  <2> DEFINE v == <<>>
  <2>1. v \in Seq(Bytes) /\ (fin => end /\ v = <<>>)
    BY <1>4
  <2>2. Fresh(t, u, s \o v, ds, end)
    BY <1>3, <1>4 DEF Fresh
  <2> HIDE DEF v
  <2>3. Covers(t \o u, s \o v, ds, end)
    BY <1>1, <1>2, <2>1, <2>2, CoversGrows, ZenonT(40)
  <2> QED BY <2>3 DEF v
<1> QED BY <1>4, <1>5 DEF u

\* What Write prints.
LEMMA ScanIsCovered ==
    ASSUME NEW t \in Seq(Piece), NEW b \in Seq(Bytes), NEW c \in Seq(Bytes),
           NEW u, u = Scan(b \o c).out,
           NEW s, s = Text(t) \o b,
           NEW cs, Covers(t, s, cs, FALSE)
    PROVE  Covers(t \o u, s \o c, cs, FALSE)
<1> DEFINE buf == b \o c
           r == Scan(buf).rest
<1>1. buf \in Seq(Bytes) /\ Text(t) \in Seq(Bytes) /\ s \in Seq(Bytes)
  BY TextProperties, ConcatProperties
<1>2. s \o c = Text(t) \o buf
  BY <1>1, Associates
<1> HIDE DEF buf
<1>3. u = Scan(buf).out
  BY DEF buf
<1>4. u \in Seq(Piece) /\ r \in Seq(Bytes) /\ Text(u) \o r = buf /\ Singles(buf, u) /\ Finished(buf, u)
  BY <1>1, <1>3, ScanProperties
<1> HIDE DEF r
<1>5. /\ Len(buf) \in Nat /\ Len(t) \in Nat /\ Len(u) \in Nat /\ Text(u) \in Seq(Bytes)
      /\ Len(Text(u)) \in Nat /\ Len(Text(u)) <= Len(buf)
  BY <1>1, <1>4, TextProperties, PrefixKept, LenProperties
<1>6. ASSUME NEW k \in 1..Len(u), NEW p \in Patterns, Plain(u[k])
      PROVE  Excused(t \o u, s \o c, cs, FALSE, Len(t) + k, p)
  <2> DEFINE o == Offset(u, k)
  <2>0. k \in 1..Len(u) + 1
    BY <1>5
  <2>1. o \in 0..Len(buf)
    <3>1. o \in 0..Len(Text(u))
      BY <1>4, <2>0, OffsetProperties
    <3> HIDE DEF o
    <3> QED BY <1>5, <3>1
  <2>2. Offset(t \o u, Len(t) + k) = Len(Text(t)) + o
    BY <1>4, <2>0, OffsetOfConcat
  <2>3. ~Follows(buf, o, p)
    <3>1. p \notin OccurAt(buf, o + 1)
      BY <1>4, <1>6 DEF Singles
    <3> HIDE DEF o
    <3> QED BY <1>1, <2>1, <3>1, OccurProperties
  <2>4. CASE Differs(buf, o, p)
    <3>1. Differs(s \o c, Len(Text(t)) + o, p)
      <4> HIDE DEF o
      <4> QED BY <1>1, <1>2, <2>1, <2>4, DiffersLater
    <3> QED BY <2>2, <3>1 DEF Excused
  <2>5. CASE o + Len(p) > Len(buf) /\ Begins(Drop(buf, o))
    <3>1. PICK j \in k..Len(u) : ~Plain(u[j])
      BY <1>4, <2>5 DEF Finished
    <3>2. j < k + Len(p) /\ j \in 1..Len(u)
      <4>1. j \in 1..Len(u) /\ j \in k..Len(u) + 1 /\ j \in 1..Len(u) + 1
        BY <1>5
      <4>2. Offset(u, k) + (j - k) <= Offset(u, j)
        BY <1>4, <2>0, <4>1, OffsetGrows
      <4>3. Offset(u, j) \in Nat /\ Offset(u, j) < Len(Text(u))
        BY <1>4, <4>1, OffsetInText
      <4>4. Len(p) \in Nat
        BY PatternIsSeq
      <4>5. o + (j - k) < Len(buf)
        BY <1>5, <2>1, <4>2, <4>3, <4>4
      <4> HIDE DEF o
      <4> QED BY <1>5, <2>1, <2>5, <4>1, <4>4, <4>5
    <3>3. /\ Len(t) + j \in Len(t) + k..(Len(t) + k) + Len(p) - 1
          /\ Len(t) + j <= Len(t \o u)
      <4>1. Len(t \o u) = Len(t) + Len(u) /\ Len(p) \in Nat
        BY <1>4, PrefixKept, PatternIsSeq
      <4> QED BY <1>5, <3>2, <4>1
    <3>4. ~Plain((t \o u)[Len(t) + j])
      <4>0. j \in 1..Len(u) /\ u \in Seq(Piece)
        BY <1>4, <3>2
      <4> HIDE DEF o
      <4>1. (t \o u)[Len(t) + j] = u[j]
        BY <4>0, PrefixKept
      <4> QED BY <3>1, <4>1
    <3> QED BY <3>3, <3>4 DEF Excused
  <2> HIDE DEF o
  <2> QED BY <1>1, <2>1, <2>3, <2>4, <2>5, FollowsOrNot
<1>7. Fresh(t, u, s \o c, cs, FALSE)
  BY <1>6 DEF Fresh
<1> QED BY <1>1, <1>4, <1>7, CoversGrows

\* Prefixes of longer texts.
LEMMA PrefixFacts ==
    ASSUME NEW a \in Seq(Bytes), NEW b \in Seq(Bytes)
    PROVE  /\ IsPrefix(a, a \o b)
           /\ \A c \in Seq(Bytes) : IsPrefix(a, b) => IsPrefix(a, b \o c)
<1>1. IsPrefix(a, a \o b)
  <2>1. a \o b \in Seq(Bytes) /\ Len(a) <= Len(a \o b) /\ \A i \in 1..Len(a) : (a \o b)[i] = a[i]
    BY PrefixKept
  <2> QED BY <2>1, PrefixProperties
<1>2. ASSUME NEW c \in Seq(Bytes), IsPrefix(a, b) PROVE IsPrefix(a, b \o c)
  <2>1. /\ b \o c \in Seq(Bytes) /\ Len(b) <= Len(b \o c)
        /\ \A i \in 1..Len(b) : (b \o c)[i] = b[i]
    BY PrefixKept
  <2>2. Len(a) <= Len(b) /\ \A i \in 1..Len(a) : a[i] = b[i]
    BY <1>2, PrefixProperties
  <2>3. Len(a) \in Nat /\ Len(b) \in Nat /\ Len(b \o c) \in Nat
    BY <2>1, LenProperties
  <2>4. Len(a) <= Len(b \o c) /\ \A i \in 1..Len(a) : a[i] = (b \o c)[i]
    <3> DEFINE bc == b \o c
    <3> HIDE DEF bc
    <3>1. Len(a) <= Len(bc) /\ \A i \in 1..Len(a) : a[i] = bc[i]
      BY <2>1, <2>2, <2>3 DEF bc
    <3> QED BY <3>1 DEF bc
  <2> QED BY <2>1, <2>4, PrefixProperties
<1> QED BY <1>1, <1>2

\* What covers the printed still does when more is written.
LEMMA CoversStays ==
    ASSUME NEW t \in Seq(Piece), NEW s \in Seq(Bytes), NEW cs, NEW fin \in BOOLEAN,
           NEW v \in Seq(Bytes), NEW ds, cs \subseteq ds,
           NEW end \in BOOLEAN, fin => end /\ v = <<>>,
           Covers(t, s, cs, fin)
    PROVE  Covers(t, s \o v, ds, end)
<1> DEFINE u == <<>>
<1>1. u \in Seq(Piece) /\ t \o u = t /\ Len(u) = 0
  BY ConcatEmptySeq, EmptySeq
<1>2. Fresh(t, u, s \o v, ds, end)
  BY <1>1 DEF Fresh
<1> HIDE DEF u
<1>3. Covers(t \o u, s \o v, ds, end)
  BY <1>1, <1>2, CoversGrows
<1> QED BY <1>1, <1>3

\* Nothing is held, printed or written at first.
LEMMA WriterBegins == WriterInit => RInv
<1> SUFFICES ASSUME WriterInit PROVE RInv
  OBVIOUS
<1>1. /\ held = <<>> /\ seen = <<>> /\ out = <<>> /\ cuts = {} /\ closed = FALSE
      /\ writeErr = FALSE /\ strays = 0 /\ waiting = 0 /\ timer = "nil"
  BY DEF WriterInit
<1>2. <<>> \in Seq(Bytes) /\ <<>> \in Seq(Piece) /\ Len(<<>>) = 0 /\ Text(<<>>) = <<>>
  BY EmptySeq, TextProperties
<1>3. Types
  BY <1>2 DEF Types, WriterInit
<1>4. Armed /\ Released /\ cuts \subseteq 1..Len(seen)
  BY <1>1, <1>2 DEF Armed, Released
<1>5. Clean(held)
  BY <1>1, <1>2 DEF Clean
<1>6. NothingLost
  <2>1. IsPrefix(<<>>, <<>> \o <<>>) /\ <<>> \o <<>> = <<>>
    BY <1>2, PrefixFacts, ConcatEmptySeq
  <2> QED BY <1>1, <1>2, <2>1 DEF NothingLost
<1>7. Covers(out, seen, cuts, closed)
  BY <1>1, <1>2 DEF Covers
<1> QED BY <1>1, <1>3, <1>4, <1>5, <1>6, <1>7 DEF RInv

\* What is printed next is what is held, and what is held then comes after it.
LEMMA NothingLostOn ==
    ASSUME NEW t \in Seq(Piece), NEW u \in Seq(Piece), NEW r \in Seq(Bytes)
    PROVE  /\ t \o u \in Seq(Piece)
           /\ Text(t \o u) \o r = Text(t) \o (Text(u) \o r)
           /\ IsPrefix(Text(t \o u), Text(t) \o (Text(u) \o r))
<1> DEFINE tx == Text(t)
           ux == Text(u)
           w == Text(t \o u)
<1>1. t \o u \in Seq(Piece)
  BY PrefixKept
<1>2. tx \in Seq(Bytes) /\ ux \in Seq(Bytes) /\ w = tx \o ux /\ w \in Seq(Bytes)
  BY <1>1, TextProperties, TextConcat
<1> HIDE DEF tx, ux, w
<1>3. (tx \o ux) \o r = tx \o (ux \o r)
  BY <1>2, Associates, SMTT(30)
<1>4. w \o r = tx \o (ux \o r)
  BY <1>2, <1>3
<1>5. IsPrefix(w, w \o r)
  BY <1>2, PrefixFacts
<1> QED BY <1>1, <1>4, <1>5 DEF tx, ux, w

\* Write: what it sends is covered because the scan took no Pattern apart.
LEMMA WriteKeeps ==
    ASSUME RInv, NEW p \in Chunks, Write(p)
    PROVE  RInv'
<1> DEFINE buf == held \o p
           s == Scan(buf).out
           r == Scan(buf).rest
<1>0. /\ Types /\ Armed /\ Released /\ cuts \subseteq 1..Len(seen) /\ Clean(held)
      /\ (writeErr => broken) /\ NothingLost /\ Covers(out, seen, cuts, closed)
  BY DEF RInv
<1>1. /\ closed = FALSE /\ seen' = seen \o p
      /\ IF s # <<>> /\ broken
         THEN held' = <<>> /\ timer' = "nil" /\ copying' = FALSE
         ELSE /\ held' = r
              /\ timer' = IF r = <<>> THEN "nil" ELSE "running"
              /\ UNCHANGED copying
      /\ IF s = <<>> THEN UNCHANGED <<out, writeErr>>
         ELSE IF broken THEN writeErr' = TRUE /\ UNCHANGED out
         ELSE out' = out \o s /\ UNCHANGED writeErr
      /\ UNCHANGED <<strays, waiting, closed, broken, cuts>>
  BY <1>0 DEF Write, Deliver, Types
<1>2. p \in Seq(Bytes) /\ Len(p) \in Nat \ {0} /\ held \in Seq(Bytes) /\ seen \in Seq(Bytes)
      /\ out \in Seq(Piece)
  <2>1. p \in Seq(Bytes) /\ p # <<>>
    BY PatternsAssumption
  <2>2. Len(p) # 0 /\ Len(p) \in Nat
    BY <2>1, EmptySeq
  <2> QED BY <1>0, <2>1, <2>2 DEF Types
<1>3. buf \in Seq(Bytes)
  BY <1>2, PrefixKept
<1>4. /\ s \in Seq(Piece) /\ r \in Seq(Bytes) /\ Text(s) \o r = held \o p
      /\ Clean(r) /\ (r # <<>> => Begins(r))
  <2> HIDE DEF buf
  <2>1. /\ s \in Seq(Piece) /\ r \in Seq(Bytes) /\ Text(s) \o r = buf
        /\ Clean(r) /\ (r # <<>> => Begins(r))
    BY <1>3, ScanProperties
  <2> QED BY <2>1 DEF buf
<1> HIDE DEF s, r
<1>5. seen \o p \in Seq(Bytes) /\ Len(seen \o p) = Len(seen) + Len(p) /\ Len(seen) \in Nat
      /\ <<>> \in Seq(Bytes) /\ out \o s \in Seq(Piece)
  BY <1>2, <1>4, PrefixKept, LenProperties, EmptySeq
<1>6. Types'
  <2>1. held' \in Seq(Bytes) /\ seen' \in Seq(Bytes) /\ out' \in Seq(Piece)
    BY <1>1, <1>2, <1>4, <1>5
  <2> HIDE DEF buf
  <2> QED BY <1>0, <1>1, <2>1 DEF Types
<1>7. Armed'
  <2>1. waiting + strays <= Len(seen) /\ waiting \in Nat /\ strays \in Nat
    BY <1>0, <1>5 DEF Armed, Types
  <2>2. Len(seen') = Len(seen) + Len(p)
    BY <1>1, <1>5
  <2>3. waiting' = waiting /\ strays' = strays
    BY <1>1
  <2> HIDE DEF buf
  <2> QED BY <1>2, <1>5, <2>1, <2>2, <2>3 DEF Armed
<1>8. Released' /\ Clean(held)'
  <2>1. Clean(<<>>)
    BY EmptySeq DEF Clean
  <2>2. CASE held' = <<>>
    BY <2>1, <2>2 DEF Released
  <2>3. CASE held' = r /\ r # <<>> /\ timer' = "running"
    BY <1>1, <1>4, <2>3 DEF Released
  <2>4. held' = <<>> \/ (held' = r /\ r # <<>> /\ timer' = "running")
    BY <1>1
  <2> QED BY <2>2, <2>3, <2>4
<1>9. cuts' \subseteq 1..Len(seen')
  <2>1. Len(seen') = Len(seen) + Len(p) /\ cuts' = cuts
    BY <1>1, <1>5
  <2> QED BY <1>0, <1>2, <1>5, <2>1
<1>10. (writeErr => broken)'
  BY <1>0, <1>1
<1>11. /\ Text(out \o s) \o r = (Text(out) \o held) \o p
       /\ IsPrefix(Text(out \o s), (Text(out) \o held) \o p)
  <2>1. Text(s) \o r = buf
    BY <1>4
  <2>2. (Text(out) \o held) \o p = Text(out) \o buf
    <3> DEFINE tx == Text(out)
    <3>1. tx \in Seq(Bytes)
      BY <1>2, TextProperties
    <3> HIDE DEF tx
    <3>2. (tx \o held) \o p = tx \o (held \o p)
      BY <1>2, <3>1, Associates, SMTT(30)
    <3> QED BY <3>2 DEF tx
  <2> HIDE DEF buf
  <2>3. /\ Text(out \o s) \o r = Text(out) \o (Text(s) \o r)
        /\ IsPrefix(Text(out \o s), Text(out) \o (Text(s) \o r))
    BY <1>2, <1>4, NothingLostOn
  <2> QED BY <2>1, <2>2, <2>3
<1>12. NothingLost'
  <2>1. IsPrefix(Text(out), seen) /\ (~writeErr => Text(out) \o held = seen)
    BY <1>0 DEF NothingLost
  <2>2. Text(out) \in Seq(Bytes)
    BY <1>2, TextProperties
  <2>3. CASE s # <<>> /\ broken
    <3>1. IsPrefix(Text(out), seen \o p)
      BY <1>2, <2>1, <2>2, PrefixFacts
    <3>2. out' = out /\ writeErr' = TRUE /\ seen' = seen \o p
      BY <1>1, <2>3
    <3> QED BY <3>1, <3>2 DEF NothingLost
  <2>4. CASE s # <<>> /\ ~broken
    <3>1. Text(out) \o held = seen /\ out' = out \o s /\ held' = r /\ seen' = seen \o p
      BY <1>0, <1>1, <2>1, <2>4
    <3>2. /\ Text(out \o s) \o r = (Text(out) \o held) \o p
          /\ IsPrefix(Text(out \o s), (Text(out) \o held) \o p)
      BY <1>11
    <3> QED BY <3>1, <3>2 DEF NothingLost
  <2>5. CASE s = <<>>
    <3>1. out' = out /\ writeErr' = writeErr /\ held' = r /\ seen' = seen \o p
      BY <1>1, <2>5
    <3>2. IsPrefix(Text(out), seen \o p)
      BY <1>2, <2>1, <2>2, PrefixFacts
    <3>3. Text(out \o s) \o r = (Text(out) \o held) \o p /\ out \o s = out
      BY <1>11, <1>2, <2>5, ConcatEmptySeq
    <3> QED BY <2>1, <3>1, <3>2, <3>3 DEF NothingLost
  <2> QED BY <2>3, <2>4, <2>5
<1>13. Covers(out, seen, cuts, closed)'
  <2>1. CASE s # <<>> /\ ~broken
    <3>1. Text(out) \o held = seen /\ out' = out \o s /\ seen' = seen \o p
      BY <1>0, <1>1, <2>1 DEF NothingLost
    <3>2. Covers(out \o s, seen \o p, cuts, FALSE)
      BY <1>0, <1>1, <1>2, <3>1, ScanIsCovered DEF s
    <3> QED BY <1>1, <3>1, <3>2
  <2>2. CASE s = <<>> \/ broken
    <3>1. out' = out /\ seen' = seen \o p
      BY <1>1, <2>2
    <3>2. Covers(out, seen \o p, cuts, FALSE)
      BY <1>0, <1>1, <1>2, CoversStays
    <3> QED BY <1>1, <3>1, <3>2
  <2> QED BY <2>1, <2>2
<1> QED BY <1>6, <1>7, <1>8, <1>9, <1>10, <1>12, <1>13 DEF RInv

\* A timer that fires becomes a waiting goroutine.
LEMMA TimerFiresKeeps ==
    ASSUME RInv, TimerFires
    PROVE  RInv'
<1>0. /\ Types /\ Armed /\ Released /\ cuts \subseteq 1..Len(seen) /\ Clean(held)
      /\ (writeErr => broken) /\ NothingLost /\ Covers(out, seen, cuts, closed)
  BY DEF RInv
<1>1. /\ \/ timer = "running" /\ timer' = "fired" /\ strays' = strays
         \/ strays > 0 /\ strays' = strays - 1 /\ timer' = timer
      /\ waiting' = waiting + 1
      /\ held' = held /\ out' = out /\ closed' = closed /\ writeErr' = writeErr
      /\ broken' = broken /\ copying' = copying /\ seen' = seen /\ cuts' = cuts
  BY DEF TimerFires
<1>2. Types'
  BY <1>0, <1>1 DEF Types
<1>3. Armed'
  <2>1. waiting \in Nat /\ strays \in Nat /\ Len(seen) \in Nat
    BY <1>0, LenProperties DEF Types
  <2> QED BY <1>0, <1>1, <2>1 DEF Armed
<1>4. Released'
  BY <1>0, <1>1 DEF Released, Types
<1>5. Clean(held)' /\ NothingLost' /\ Covers(out, seen, cuts, closed)'
  BY <1>0, <1>1 DEF NothingLost
<1> QED BY <1>0, <1>1, <1>2, <1>3, <1>4, <1>5 DEF RInv

\* What idleFlush and Close do with the held bytes b.
LEMMA RawIsNotLost ==
    ASSUME NEW t \in Seq(Piece), NEW b \in Seq(Bytes)
    PROVE  /\ t \o Raw(b) \in Seq(Piece)
           /\ Text(t \o Raw(b)) \o <<>> = Text(t) \o b
           /\ IsPrefix(Text(t \o Raw(b)), Text(t) \o b)
<1>1. Raw(b) \in Seq(Piece) /\ Text(Raw(b)) = b /\ <<>> \in Seq(Bytes)
  BY RawProperties, EmptySeq
<1>2. Text(Raw(b)) \o <<>> = b
  <2> DEFINE raw == Text(Raw(b))
  <2>1. raw = b
    BY <1>1
  <2>2. b \o <<>> = b
    BY ConcatEmptySeq
  <2> QED BY <2>1, <2>2, Zenon
<1> DEFINE u == Raw(b)
           e == <<>>
<1>3. /\ t \o u \in Seq(Piece)
      /\ Text(t \o u) \o e = Text(t) \o (Text(u) \o e)
      /\ IsPrefix(Text(t \o u), Text(t) \o (Text(u) \o e))
  <2>1. u \in Seq(Piece) /\ e \in Seq(Bytes)
    BY <1>1
  <2> HIDE DEF u, e
  <2> QED BY <2>1, NothingLostOn
<1> QED BY <1>2, <1>3, Zenon

\* idleFlush: what it prints is covered by the cut it records, or holds no Pattern.
LEMMA IdleFlushKeeps ==
    ASSUME RInv, IdleFlush
    PROVE  RInv'
<1>0. /\ Types /\ Armed /\ Released /\ cuts \subseteq 1..Len(seen) /\ Clean(held)
      /\ (writeErr => broken) /\ NothingLost /\ Covers(out, seen, cuts, closed)
  BY DEF RInv
<1>1. /\ waiting > 0 /\ waiting' = waiting - 1
      /\ closed' = closed /\ broken' = broken /\ copying' = copying /\ seen' = seen
      /\ waiting \in Nat /\ strays \in Nat /\ Len(seen) \in Nat /\ closed \in BOOLEAN
      /\ seen \in Seq(Bytes) /\ out \in Seq(Piece) /\ held \in Seq(Bytes)
  BY <1>0, LenProperties DEF IdleFlush, Types
<1>2. CASE closed \/ held = <<>>
  <2>1. held' = held /\ timer' = timer /\ strays' = strays /\ out' = out
        /\ writeErr' = writeErr /\ cuts' = cuts
    BY <1>2 DEF IdleFlush
  <2>2. Types'
    BY <1>0, <1>1, <2>1 DEF Types
  <2>3. Armed'
    BY <1>0, <1>1, <2>1 DEF Armed
  <2>4. Released'
    BY <1>0, <1>1, <1>2, <2>1 DEF Released
  <2>5. Clean(held)' /\ NothingLost' /\ Covers(out, seen, cuts, closed)'
    BY <1>0, <1>1, <2>1 DEF NothingLost
  <2> QED BY <1>0, <1>1, <2>1, <2>2, <2>3, <2>4, <2>5 DEF RInv
<1>3. CASE ~closed /\ held # <<>>
  <2>1. /\ held' = <<>> /\ timer' = "nil"
        /\ strays' = strays + (IF timer = "running" THEN 1 ELSE 0)
        /\ IF broken THEN writeErr' = TRUE /\ out' = out
           ELSE out' = out \o Raw(held) /\ writeErr' = writeErr
        /\ cuts' = cuts \cup {Len(seen)}
    BY <1>3 DEF IdleFlush, Deliver
  <2>2. /\ out \o Raw(held) \in Seq(Piece)
        /\ Text(out \o Raw(held)) \o <<>> = Text(out) \o held
        /\ IsPrefix(Text(out \o Raw(held)), Text(out) \o held)
        /\ <<>> \in Seq(Bytes)
    BY <1>1, RawIsNotLost, EmptySeq
  <2>3. Types'
    <3>1. held' \in Seq(Bytes) /\ out' \in Seq(Piece) /\ writeErr' \in BOOLEAN
      BY <1>0, <1>1, <2>1, <2>2 DEF Types
    <3>2. waiting' \in Nat /\ strays' \in Nat /\ timer' \in {"nil", "running", "fired"}
      BY <1>1, <2>1
    <3> QED BY <1>0, <1>1, <3>1, <3>2 DEF Types
  <2>4. Armed'
    BY <1>0, <1>1, <2>1 DEF Armed
  <2>5. Released' /\ Clean(held)'
    BY <2>1, EmptySeq DEF Released, Clean
  <2>6. (cuts \subseteq 1..Len(seen))'
    <3>1. Len(seen) \in 1..Len(seen)
      BY <1>0, <1>1 DEF Armed
    <3> QED BY <1>0, <1>1, <2>1, <3>1
  <2>7. (writeErr => broken)'
    BY <1>0, <1>1, <2>1
  <2>8. NothingLost'
    <3>1. IsPrefix(Text(out), seen) /\ (~writeErr => Text(out) \o held = seen)
      BY <1>0 DEF NothingLost
    <3>2. CASE broken
      BY <1>1, <2>1, <3>1, <3>2 DEF NothingLost
    <3>3. CASE ~broken
      <4>1. Text(out) \o held = seen /\ out' = out \o Raw(held) /\ held' = <<>> /\ seen' = seen
        BY <1>0, <1>1, <2>1, <3>1, <3>3
      <4> QED BY <2>2, <4>1 DEF NothingLost
    <3> QED BY <3>2, <3>3
  <2>9. Covers(out, seen, cuts, closed)'
    <3> DEFINE ds == cuts \cup {Len(seen)}
    <3>1. cuts \subseteq ds /\ Len(seen) \in ds /\ cuts' = ds
      BY <2>1
    <3> HIDE DEF ds
    <3>2. CASE broken
      <4>1. Covers(out, seen \o <<>>, ds, closed) /\ seen \o <<>> = seen
        <5>1. Covers(out, seen \o <<>>, ds, closed)
          BY <1>0, <1>1, <2>2, <3>1, CoversStays
        <5> QED BY <1>1, <5>1, ConcatEmptySeq
      <4> QED BY <1>1, <2>1, <3>1, <3>2, <4>1
    <3>3. CASE ~broken
      <4>1. seen = Text(out) \o held
        BY <1>0, <3>3 DEF NothingLost
      <4>2. Covers(out \o Raw(held), seen, ds, closed)
        BY <1>0, <1>1, <3>1, <4>1, RawIsCovered
      <4> QED BY <1>1, <2>1, <3>1, <3>3, <4>2
    <3> QED BY <3>2, <3>3
  <2> QED BY <2>3, <2>4, <2>5, <2>6, <2>7, <2>8, <2>9 DEF RInv
<1> QED BY <1>1, <1>2, <1>3

\* Close: what it prints has no Pattern, and none can come of it any more.
LEMMA CloseKeeps ==
    ASSUME RInv, Close
    PROVE  RInv'
<1>0. /\ Types /\ Armed /\ Released /\ cuts \subseteq 1..Len(seen) /\ Clean(held)
      /\ (writeErr => broken) /\ NothingLost /\ Covers(out, seen, cuts, closed)
  BY DEF RInv
<1>1. /\ closed = FALSE /\ closed' = TRUE /\ held' = <<>>
      /\ timer' = (IF timer = "running" THEN "nil" ELSE timer)
      /\ IF held = <<>> THEN out' = out /\ writeErr' = writeErr
         ELSE IF broken THEN writeErr' = TRUE /\ out' = out
         ELSE out' = out \o Raw(held) /\ writeErr' = writeErr
      /\ strays' = strays /\ waiting' = waiting /\ broken' = broken /\ copying' = copying
      /\ seen' = seen /\ cuts' = cuts
      /\ waiting \in Nat /\ strays \in Nat /\ Len(seen) \in Nat
      /\ seen \in Seq(Bytes) /\ out \in Seq(Piece) /\ held \in Seq(Bytes)
  BY <1>0, LenProperties DEF Close, Deliver, Types
<1>2. /\ out \o Raw(held) \in Seq(Piece)
      /\ Text(out \o Raw(held)) \o <<>> = Text(out) \o held
      /\ IsPrefix(Text(out \o Raw(held)), Text(out) \o held)
      /\ <<>> \in Seq(Bytes)
  BY <1>1, RawIsNotLost, EmptySeq
<1>3. Types'
  BY <1>0, <1>1, <1>2 DEF Types
<1>4. Armed'
  BY <1>0, <1>1 DEF Armed
<1>5. Released' /\ Clean(held)'
  BY <1>1, EmptySeq DEF Released, Clean
<1>6. (writeErr => broken)'
  BY <1>0, <1>1
<1>7. IsPrefix(Text(out), seen) /\ (~writeErr => Text(out) \o held = seen)
  BY <1>0 DEF NothingLost
<1>8. CASE held = <<>> \/ broken
  <2>1. out' = out /\ (~writeErr' => ~writeErr /\ held' = held)
    BY <1>1, <1>8
  <2>2. NothingLost'
    BY <1>1, <1>7, <2>1 DEF NothingLost
  <2>3. Covers(out, seen \o <<>>, cuts, TRUE) /\ seen \o <<>> = seen
    BY <1>0, <1>1, <1>2, CoversStays, ConcatEmptySeq
  <2>4. Covers(out, seen, cuts, closed)'
    BY <1>1, <2>1, <2>3
  <2> QED BY <1>0, <1>1, <1>3, <1>4, <1>5, <1>6, <2>2, <2>4 DEF RInv
<1>9. CASE held # <<>> /\ ~broken
  <2>1. out' = out \o Raw(held) /\ Text(out) \o held = seen
    BY <1>0, <1>1, <1>7, <1>9
  <2>2. NothingLost'
    BY <1>1, <1>2, <2>1 DEF NothingLost
  <2>3. Covers(out \o Raw(held), seen, cuts, TRUE)
    BY <1>0, <1>1, <2>1, RawIsCovered
  <2>4. Covers(out, seen, cuts, closed)'
    BY <1>1, <2>1, <2>3
  <2> QED BY <1>0, <1>1, <1>3, <1>4, <1>5, <1>6, <2>2, <2>4 DEF RInv
<1> QED BY <1>8, <1>9

\* dst breaks: nothing is printed.
LEMMA DstBreaksKeeps ==
    ASSUME RInv, DstBreaks
    PROVE  RInv'
BY DEF RInv, DstBreaks, Types, Armed, Released, NothingLost

\* Nothing happens.
LEMMA WriterIdles ==
    ASSUME RInv, UNCHANGED writerVars
    PROVE  RInv'
BY DEF RInv, writerVars, Types, Armed, Released, NothingLost

\* The inductive invariant.
LEMMA WriterInvariant == WriterSpec => []RInv
<1>1. RInv /\ [WriterNext]_writerVars => RInv'
  <2> SUFFICES ASSUME RInv, [WriterNext]_writerVars PROVE RInv'
    OBVIOUS
  <2>1. ASSUME NEW p \in Chunks, Write(p) PROVE RInv'
    BY <2>1, WriteKeeps
  <2>2. CASE TimerFires
    BY <2>2, TimerFiresKeeps
  <2>3. CASE IdleFlush
    BY <2>3, IdleFlushKeeps
  <2>4. CASE Close
    BY <2>4, CloseKeeps
  <2>5. CASE DstBreaks
    BY <2>5, DstBreaksKeeps
  <2>6. CASE Done \/ UNCHANGED writerVars
    BY <2>6, WriterIdles DEF Done
  <2> QED BY <2>1, <2>2, <2>3, <2>4, <2>5, <2>6 DEF WriterNext
<1> QED BY <1>1, WriterBegins, PTL DEF WriterSpec

-----------------------------------------------------------------------------
\* It has the types.
LEMMA RInvTypes == RInv => WriterTypeOK
<1> SUFFICES ASSUME RInv PROVE WriterTypeOK
  OBVIOUS
<1>0. Types /\ Armed /\ Released /\ cuts \subseteq 1..Len(seen)
  BY DEF RInv
<1>1. waiting + strays <= Len(seen)
  BY <1>0, LenProperties DEF Types, Armed
<1>2. ASSUME NEW i \in 1..Len(out)
      PROVE  /\ out[i].text \in Seq(Bytes)
             /\ IF out[i].marker THEN out[i].text \in Patterns ELSE Len(out[i].text) = 1
  <2> DEFINE x == out[i]
  <2>1. x \in Piece
    BY <1>0, ElementOfSeq DEF Types
  <2> HIDE DEF x
  <2>2. /\ TextOf(x) \in Seq(Bytes)
        /\ IF ~Plain(x) THEN TextOf(x) \in Patterns ELSE Len(TextOf(x)) = 1
    BY <2>1, PieceProperties
  <2> QED BY <2>2 DEF TextOf, Plain, x
<1> QED BY <1>0, <1>1, <1>2 DEF WriterTypeOK, Types, Released, Begins

\* It keeps every Secret from being printed: a Pattern printed byte by byte would
\* have to be excused where it begins, and nothing excuses it.
LEMMA NothingGetsThrough == RInv => SecretNeverPrinted
<1> SUFFICES ASSUME RInv, NEW i \in 1..Len(out), NEW p \in Patterns,
                    i + Len(p) - 1 <= Len(out),
                    Text(SubSeq(out, i, i + Len(p) - 1)) = p,
                    \A j \in i..i + Len(p) - 1 : ~out[j].marker,
                    cuts \cap (Offset(out, i) + 1..Offset(out, i) + Len(p) - 1) = {}
             PROVE  FALSE
  <2>1. Len(out) \in Nat /\ \A p \in Patterns : Len(p) \in Nat
    BY PatternIsSeq, LenProperties DEF RInv, Types
  <2> QED BY <2>1 DEF SecretNeverPrinted, Offset, Take
<1>0. /\ out \in Seq(Piece) /\ seen \in Seq(Bytes) /\ Len(out) \in Nat /\ Len(seen) \in Nat
      /\ p \in Seq(Bytes) /\ Len(p) \in Nat \ {0}
      /\ IsPrefix(Text(out), seen) /\ Covers(out, seen, cuts, closed)
  BY PatternIsSeq, LenProperties DEF RInv, Types, NothingLost
<1> DEFINE e == i + Len(p) - 1
           o == Offset(out, i)
           w == SubSeq(out, i, e)
<1>a. o \in Nat
  <2>1. out \in Seq(Piece)
    BY <1>0
  <2> QED BY <2>1, OffsetInText
<1>1. \A j \in i..e : j \in 1..Len(out) /\ Plain(out[j])
  BY <1>0 DEF Plain
<1>2. Text(out) \in Seq(Bytes) /\ Len(Text(out)) \in Nat /\ Len(Text(out)) <= Len(seen)
      /\ \A k \in 1..Len(Text(out)) : seen[k] = Text(out)[k]
  <2>1. Text(out) \in Seq(Bytes)
    BY <1>0, TextProperties
  <2> QED BY <1>0, <2>1, PrefixProperties, LenProperties
\* The pieces from i on are the bytes of p.
<1>3. \A k \in 1..Len(p) : out[i + k - 1] = Byte(p[k]) /\ Text(out)[o + k] = p[k]
  <2>1. /\ w \in Seq(Piece) /\ Len(w) = Len(p) /\ \A k \in 1..Len(p) : w[k] = out[i + k - 1]
    <3>1. (\A j \in i..e : out[j] \in Piece) /\ i \in Int /\ e \in Int
      BY <1>0, <1>1, ElementOfSeq
    <3>2. i <= e /\ e - i + 1 = Len(p)
      BY <1>0
    <3> HIDE DEF e
    <3> QED BY <3>1, <3>2, SubSeqProperties
  <2>2. Text(w) = p
    OBVIOUS
  <2>3. AllPlain(w)
    <3>1. \A k \in 1..Len(p) : i + k - 1 \in i..e
      BY <1>0
    <3> HIDE DEF w, e
    <3> QED BY <1>1, <2>1, <3>1 DEF AllPlain
  <2> HIDE DEF w
  <2>4. \A k \in 1..Len(p) : w[k] = Byte(p[k])
    BY <2>1, <2>2, <2>3, PlainText
  <2>5. ASSUME NEW k \in 1..Len(p) PROVE Text(out)[o + k] = p[k]
    <3> DEFINE j == i + k - 1
    <3>1. /\ j \in i..e /\ j \in 1..Len(out) /\ j \in i..Len(out) + 1 /\ i \in 1..Len(out) + 1
          /\ j - i = k - 1
      BY <1>0, <1>1
    <3>2. \A l \in i..j - 1 : Plain(out[l])
      <4>1. \A l \in i..j - 1 : l \in i..e
        BY <1>0, <3>1
      <4> QED BY <1>1, <4>1
    <3>3. out[j] = Byte(p[k])
      BY <2>1, <2>4
    <3> HIDE DEF j, e
    <3>4. Offset(out, j) = o + (j - i)
      BY <1>0, <3>1, <3>2, OffsetGrows
    <3>5. p[k] \in Bytes
      BY <1>0, ElementOfSeq
    <3>6. TextOf(out[j]) = <<p[k]>> /\ Len(<<p[k]>>) = 1 /\ <<p[k]>>[1] = p[k]
      BY <3>3, <3>5, ByteIsPiece, Single
    <3>7. Text(out)[Offset(out, j) + 1] = TextOf(out[j])[1]
      <4>1. 1 \in 1..Len(TextOf(out[j])) /\ out \in Seq(Piece) /\ j \in 1..Len(out)
        BY <1>0, <3>1, <3>6
      <4> HIDE DEF o
      <4> QED BY <4>1, OffsetProperties
    <3>8. Offset(out, j) + 1 = o + k
      <4> HIDE DEF o
      <4> QED BY <1>a, <3>1, <3>4
    <3> QED BY <3>6, <3>7, <3>8
  <2> QED BY <2>1, <2>4, <2>5
<1>4. o + Len(p) <= Len(Text(out)) /\ o \in Nat
  <2>1. /\ e + 1 \in i..Len(out) + 1 /\ i \in 1..Len(out) + 1 /\ e + 1 \in 1..Len(out) + 1
        /\ (e + 1) - i = Len(p)
    BY <1>0
  <2> DEFINE j == e + 1
  <2> HIDE DEF j
  <2>2. Offset(out, i) + (j - i) <= Offset(out, j)
    BY <1>0, <2>1, OffsetGrows DEF j
  <2>3. Offset(out, j) \in 0..Len(Text(out)) /\ Offset(out, i) \in Nat
    BY <1>0, <2>1, OffsetProperties, OffsetInText DEF j
  <2>4. j - i = Len(p)
    BY <2>1 DEF j
  <2> QED BY <1>0, <1>2, <2>2, <2>3, <2>4
<1>5. Excused(out, seen, cuts, closed, i, p)
  <2>1. i \in i..e
    BY <1>0
  <2> QED BY <1>0, <1>1, <2>1 DEF Covers
<1>6. ~Differs(seen, o, p)
  <2>1. ASSUME NEW k \in 1..Len(p) PROVE seen[o + k] = p[k]
    <3>1. o + k \in 1..Len(Text(out))
      BY <1>0, <1>2, <1>4
    <3> HIDE DEF o
    <3> QED BY <1>2, <1>3, <3>1
  <2> QED BY <2>1 DEF Differs
<1>7. o + Len(p) <= Len(seen)
  BY <1>0, <1>2, <1>4
<1> HIDE DEF e, w
<1>8. ~(\E j \in i..i + Len(p) - 1 : j <= Len(out) /\ ~Plain(out[j]))
  BY <1>1 DEF e
<1>9. ~(o + Len(p) > Len(seen))
  <2> HIDE DEF o
  <2> QED BY <1>0, <1>4, <1>7
<1> QED BY <1>5, <1>6, <1>8, <1>9 DEF Excused

\* Theorem: what is held is the beginning of a Pattern, a timer or a goroutine
\* will release it, and no more of these wait than there were Writes.
THEOREM WriterTypes == WriterSpec => []WriterTypeOK
BY WriterInvariant, RInvTypes, PTL

\* Theorem: what is printed, with what is held, is what the child wrote, in order
\* and once, unless Close reports an error (Write, idleFlush, Close).
THEOREM NothingIsLost == WriterSpec => []NothingLost
<1>1. RInv => NothingLost
  BY DEF RInv
<1> QED BY <1>1, WriterInvariant, PTL

\* Theorem: no Secret is printed byte by byte, however it was cut into Writes and
\* whatever overlaps it, unless idleFlush ran in the middle of it (scan).
THEOREM SecretsStayHidden == WriterSpec => []SecretNeverPrinted
BY WriterInvariant, NothingGetsThrough, PTL

\* buf has one parse.
LEMMA ParseIsUnique ==
    ASSUME NEW buf, NEW s, NEW t, Parse(buf, 0, s), Parse(buf, 0, t)
    PROVE  s = t
<1>1. /\ s \in Seq(Piece) /\ t \in Seq(Piece) /\ Text(s) = Text(t)
      /\ \A k \in 1..Len(s) : s[k] = PieceAt(buf, 0 + Offset(s, k) + 1)
      /\ \A k \in 1..Len(t) : t[k] = PieceAt(buf, 0 + Offset(t, k) + 1)
  BY DEF Parse
<1>2. Len(s) \in Nat /\ Len(t) \in Nat
  BY <1>1, LenProperties
<1> DEFINE Same(k) == k <= Len(s) /\ k <= Len(t) =>
                        Offset(s, k + 1) = Offset(t, k + 1) /\ \A j \in 1..k : s[j] = t[j]
           T == {k \in Nat : Same(k)}
<1>3. 0 \in T
  <2>1. Offset(s, 1) = Offset(t, 1) /\ 0 + 1 = 1
    BY <1>1, OffsetProperties
  <2> QED BY <2>1
<1>4. ASSUME NEW k \in T PROVE k + 1 \in T
  <2>1. k \in Nat /\ Same(k)
    OBVIOUS
  <2>2. ASSUME k + 1 <= Len(s), k + 1 <= Len(t)
        PROVE  Offset(s, (k + 1) + 1) = Offset(t, (k + 1) + 1) /\ \A j \in 1..k + 1 : s[j] = t[j]
    <3> DEFINE m == k + 1
    <3>1. m \in 1..Len(s) /\ m \in 1..Len(t)
      BY <1>2, <2>1, <2>2
    <3>2. Offset(s, m) = Offset(t, m) /\ \A j \in 1..k : s[j] = t[j]
      BY <1>2, <2>1, <2>2
    <3>3. \A j \in 1..m : j = m \/ j \in 1..k
      BY <2>1
    <3> HIDE DEF m
    <3>4. s[m] = t[m]
      BY <1>1, <3>1, <3>2
    <3>5. /\ Offset(s, m + 1) = Offset(s, m) + Len(TextOf(s[m]))
          /\ Offset(t, m + 1) = Offset(t, m) + Len(TextOf(t[m]))
      BY <1>1, <3>1, OffsetProperties
    <3>6. \A j \in 1..m : s[j] = t[j]
      BY <3>2, <3>3, <3>4
    <3> QED BY <3>2, <3>4, <3>5, <3>6 DEF m
  <2>3. k + 1 \in Nat
    BY <2>1
  <2> QED BY <2>2, <2>3
<1>5. \A k \in Nat : Same(k)
  <2>1. T \in SUBSET Nat
    OBVIOUS
  <2>2. T = Nat
    <3> HIDE DEF T
    <3> QED BY <1>3, <1>4, <2>1, Induction
  <2> HIDE DEF Same
  <2> QED BY <2>2
<1>6. ~(Len(s) < Len(t))
  <2> SUFFICES ASSUME Len(s) < Len(t) PROVE FALSE
    OBVIOUS
  <2>1. Offset(s, Len(s) + 1) = Offset(t, Len(s) + 1)
    BY <1>2, <1>5
  <2>2. Len(s) + 1 \in 1..Len(t)
    BY <1>2
  <2>3. Offset(t, Len(s) + 1) < Len(Text(t)) /\ Len(Text(t)) \in Nat
    BY <1>1, <2>2, OffsetInText
  <2>4. Offset(s, Len(s) + 1) = Len(Text(s))
    BY <1>1, OffsetProperties
  <2> QED BY <1>1, <2>1, <2>3, <2>4
<1>7. ~(Len(t) < Len(s))
  <2> SUFFICES ASSUME Len(t) < Len(s) PROVE FALSE
    OBVIOUS
  <2>1. Offset(s, Len(t) + 1) = Offset(t, Len(t) + 1)
    BY <1>2, <1>5
  <2>2. Len(t) + 1 \in 1..Len(s)
    BY <1>2
  <2>3. Offset(s, Len(t) + 1) < Len(Text(s)) /\ Len(Text(s)) \in Nat
    BY <1>1, <2>2, OffsetInText
  <2>4. Offset(t, Len(t) + 1) = Len(Text(t))
    BY <1>1, OffsetProperties
  <2> QED BY <1>1, <2>1, <2>3, <2>4
<1>8. Len(s) = Len(t) /\ \A j \in 1..Len(s) : s[j] = t[j]
  <2>1. Len(s) = Len(t)
    BY <1>2, <1>6, <1>7
  <2> QED BY <1>2, <1>5, <2>1
<1> QED BY <1>1, <1>8, SeqEqual

\* The matcher looks at no more than what follows.
LEMMA LaterPieces ==
    ASSUME NEW a \in Seq(Bytes), NEW b \in Seq(Bytes), NEW i \in 1..Len(b)
    PROVE  PieceAt(a \o b, Len(a) + i) = PieceAt(b, i)
<1>1. /\ a \o b \in Seq(Bytes) /\ Len(a \o b) = Len(a) + Len(b) /\ Len(a) \in Nat /\ Len(b) \in Nat
      /\ (a \o b)[Len(a) + i] = b[i]
  BY PrefixKept, LenProperties
<1>2. Drop(a \o b, Len(a)) = b
  <2>1. 0 \in 0..Len(b) /\ Len(a) + 0 = Len(a)
    BY <1>1
  <2>2. Drop(a \o b, Len(a) + 0) = Drop(b, 0)
    BY <2>1, CutOfConcat
  <2> QED BY <2>1, <2>2, DropNone
<1>3. OccurAt(b, i) = OccurAt(a \o b, Len(a) + i)
  <2> DEFINE ab == a \o b
             l == Len(a)
  <2>1. l \in 0..Len(ab) /\ i \in 1..Len(ab) - l /\ ab \in Seq(Bytes) /\ Drop(ab, l) = b
    BY <1>1, <1>2
  <2> HIDE DEF ab, l
  <2>2. OccurAt(Drop(ab, l), i) = OccurAt(ab, l + i)
    BY <2>1, OccurAfterDrop
  <2> QED BY <2>1, <2>2 DEF ab, l
<1> QED BY <1>1, <1>3 DEF PieceAt

\* What follows does not depend on later bytes.
LEMMA FollowsStays ==
    ASSUME NEW a \in Seq(Bytes), NEW c \in Seq(Bytes), NEW o \in Nat, NEW p \in Seq(Bytes)
    PROVE  o + Len(p) <= Len(a) => (Follows(a, o, p) <=> Follows(a \o c, o, p))
<1> SUFFICES ASSUME o + Len(p) <= Len(a) PROVE Follows(a, o, p) <=> Follows(a \o c, o, p)
  OBVIOUS
<1> DEFINE ac == a \o c
<1>1. /\ Len(a) <= Len(ac) /\ Len(ac) \in Nat /\ Len(a) \in Nat /\ Len(p) \in Nat
      /\ \A i \in 1..Len(a) : ac[i] = a[i]
  BY PrefixKept, LenProperties
<1> HIDE DEF ac
<1>2. o + Len(p) <= Len(ac)
  BY <1>1
<1>3. \A k \in 1..Len(p) : o + k \in 1..Len(a)
  BY <1>1
<1>4. \A k \in 1..Len(p) : ac[o + k] = a[o + k]
  BY <1>1, <1>3
<1> QED BY <1>2, <1>4 DEF Follows, ac

\* Where no Pattern contains another, none occurs within one.
LEMMA NoneInside ==
    ASSUME NestFree, NEW buf \in Seq(Bytes), NEW o \in Nat, NEW d \in Nat,
           NEW p \in Patterns, NEW q \in Patterns,
           Follows(buf, o, q), Follows(buf, o + d, p), d + Len(p) <= Len(q)
    PROVE  p = q /\ d = 0
<1>1. p \in Seq(Bytes) /\ q \in Seq(Bytes) /\ Len(p) \in Nat \ {0} /\ Len(q) \in Nat \ {0}
  BY PatternIsSeq
<1>2. d \in 0..Len(q) /\ d + 1 \in 1..Len(q)
  BY <1>1
<1>3. Follows(q, d, p)
  <2>1. ASSUME NEW k \in 1..Len(p) PROVE q[d + k] = p[k]
    <3>1. d + k \in 1..Len(q) /\ o + (d + k) = (o + d) + k
      BY <1>1
    <3>2. buf[o + (d + k)] = q[d + k] /\ buf[(o + d) + k] = p[k]
      BY <3>1 DEF Follows
    <3> QED BY <3>1, <3>2
  <2> QED BY <2>1 DEF Follows
<1>4. p \in OccurAt(q, d + 1)
  BY <1>1, <1>2, <1>3, OccurProperties
<1>5. p = q
  BY <1>2, <1>4 DEF NestFree
<1> QED BY <1>1, <1>5

\* More bytes do not change what was printed.
LEMMA PiecesStay ==
    ASSUME NestFree, NEW a \in Seq(Bytes), NEW c \in Seq(Bytes),
           NEW s, s = Sent(a), NEW k \in 1..Len(s)
    PROVE  s[k] = PieceAt(a \o c, Offset(s, k) + 1)
<1> DEFINE ac == a \o c
           o == Offset(s, k)
           i == o + 1
<1>1. /\ s \in Seq(Piece) /\ Kept(a) \in Seq(Bytes) /\ Text(s) \o Kept(a) = a
      /\ Singles(a, s) /\ Finished(a, s) /\ Matched(a, s)
  BY SentProperties
<1>2. /\ ac \in Seq(Bytes) /\ Len(ac) = Len(a) + Len(c) /\ Len(a) \in Nat /\ Len(c) \in Nat
      /\ \A j \in 1..Len(a) : ac[j] = a[j]
  BY PrefixKept, LenProperties
<1>3. Text(s) \in Seq(Bytes) /\ Len(Text(s)) <= Len(a) /\ Len(Text(s)) \in Nat /\ Len(s) \in Nat
  <2>1. Text(s) \in Seq(Bytes)
    BY <1>1, TextProperties
  <2>2. Len(Text(s)) <= Len(Text(s) \o Kept(a))
    BY <1>1, <2>1, PrefixKept
  <2> QED BY <1>1, <2>1, <2>2, LenProperties
<1> HIDE DEF ac
<1>4. \A j \in 1..Len(s) : Offset(s, j) \in Nat /\ Offset(s, j) < Len(a)
  <2> TAKE j \in 1..Len(s)
  <2>1. Offset(s, j) \in Nat /\ Offset(s, j) < Len(Text(s))
    BY <1>1, OffsetInText
  <2> QED BY <1>2, <1>3, <2>1
<1>5. o \in Nat /\ i \in 1..Len(a) /\ i \in 1..Len(ac) /\ o \in 0..Len(a) /\ o \in 0..Len(ac)
  <2>1. o \in Nat /\ o < Len(a)
    BY <1>4
  <2> HIDE DEF o
  <2> QED BY <1>2, <2>1
<1>6. s[k] = PieceAt(a, i)
  BY <1>1 DEF Matched
<1>7. \A p \in Patterns : Follows(a, o, p) => Follows(ac, o, p)
  <2> TAKE p \in Patterns
  <2>1. Follows(a, o, p) => o + Len(p) <= Len(a)
    BY DEF Follows
  <2> HIDE DEF o
  <2> QED BY <1>5, <2>1, FollowsStays, PatternIsSeq DEF ac
<1>8. CASE OccurAt(a, i) = {}
  <2>1. Plain(s[k])
    <3> HIDE DEF i
    <3> QED BY <1>5, <1>6, <1>8, PieceAtProperties
  <2>2. ASSUME NEW p \in Patterns, Follows(ac, o, p) PROVE FALSE
    <3>0. p \in Seq(Bytes) /\ Len(p) \in Nat \ {0}
      BY PatternIsSeq
    <3>1. ~Follows(a, o, p)
      <4>1. p \notin OccurAt(a, o + 1)
        BY <1>8
      <4> HIDE DEF o
      <4> QED BY <1>5, <4>1, OccurProperties
    <3>2. ~Differs(a, o, p)
      <4>1. ASSUME NEW l \in 1..Len(p), o + l <= Len(a) PROVE a[o + l] = p[l]
        <5>1. o + l \in 1..Len(a)
          BY <1>2, <1>5, <3>0, <4>1
        <5>2. ac[o + l] = p[l]
          BY <2>2 DEF Follows
        <5> HIDE DEF o
        <5> QED BY <1>2, <5>1, <5>2
      <4> QED BY <4>1 DEF Differs
    <3>3. o + Len(p) > Len(a) /\ Begins(Drop(a, o))
      <4> HIDE DEF o
      <4> QED BY <1>5, <3>1, <3>2, FollowsOrNot
    <3>4. PICK j \in k..Len(s) : ~Plain(s[j])
      BY <1>1, <3>3 DEF Finished
    <3>5. j \in 1..Len(s) /\ j # k /\ j \in k..Len(s) + 1 /\ k \in 1..Len(s) + 1
      BY <1>3, <2>1, <3>4
    <3> DEFINE oj == Offset(s, j)
               q == TextOf(s[j])
    <3>6. oj \in Nat /\ oj < Len(a)
      BY <1>4, <3>5
    <3>7. o + (j - k) <= oj
      BY <1>1, <3>5, OffsetGrows
    <3>8. q \in Patterns
      <4>1. s[j] \in Piece
        BY <1>1, <3>5, ElementOfSeq
      <4> QED BY <3>4, <4>1, PieceProperties
    <3>9. Follows(a, oj, q)
      <4>1. s[j] = PieceAt(a, oj + 1)
        BY <1>1, <3>5 DEF Matched
      <4> HIDE DEF oj
      <4>2. oj + 1 \in 1..Len(a) /\ (oj + 1) - 1 = oj
        BY <1>2, <3>6
      <4> DEFINE m == oj + 1
      <4> HIDE DEF m
      <4>3. Follows(a, m - 1, TextOf(PieceAt(a, m)))
        BY <4>2, PieceAtProperties DEF m
      <4> QED BY <4>1, <4>2, <4>3 DEF m
    <3> DEFINE d == oj - o
    <3> HIDE DEF oj, q
    <3>10. /\ d \in Nat /\ d # 0 /\ o + d = oj /\ oj + Len(q) <= Len(a) /\ d + Len(q) <= Len(p)
           /\ q \in Seq(Bytes)
      <4>1. oj + Len(q) <= Len(a) /\ Len(q) \in Nat /\ q \in Seq(Bytes)
        BY <3>8, <3>9, PatternIsSeq DEF Follows
      <4>2. j - k \in Nat \ {0}
        BY <1>3, <3>5
      <4> HIDE DEF o
      <4> QED BY <1>2, <1>5, <3>0, <3>3, <3>6, <3>7, <4>1, <4>2
    <3>11. Follows(ac, oj, q)
      BY <3>6, <3>9, <3>10, FollowsStays DEF ac
    <3> HIDE DEF d, o
    <3> QED BY <1>2, <1>5, <2>2, <3>8, <3>10, <3>11, NoneInside
  <2>3. OccurAt(ac, i) = {}
    <3>1. ASSUME NEW p \in Patterns PROVE p \notin OccurAt(ac, i)
      <4> HIDE DEF o
      <4> QED BY <1>2, <1>5, <2>2, OccurProperties
    <3>2. OccurAt(ac, i) \subseteq Patterns
      BY DEF OccurAt
    <3> QED BY <3>1, <3>2
  <2>4. ac[i] = a[i]
    <3> HIDE DEF i
    <3> QED BY <1>2, <1>5
  <2> QED BY <1>6, <1>8, <2>3, <2>4 DEF PieceAt, ac
<1>9. CASE OccurAt(a, i) # {}
  <2>1. \A p \in Patterns : p \in OccurAt(a, i) => p \in OccurAt(ac, i)
    <3> TAKE p \in Patterns
    <3>1. p \in OccurAt(a, i) <=> Follows(a, o, p)
      <4> HIDE DEF o
      <4> QED BY <1>5, OccurProperties
    <3>2. p \in OccurAt(ac, i) <=> Follows(ac, o, p)
      <4> HIDE DEF o
      <4> QED BY <1>2, <1>5, OccurProperties
    <3> QED BY <1>7, <3>1, <3>2
  <2>2. OccurAt(a, i) \subseteq Patterns /\ OccurAt(ac, i) \subseteq Patterns
    BY DEF OccurAt
  <2>3. ASSUME NEW p \in OccurAt(ac, i), NEW q \in OccurAt(ac, i), Len(p) <= Len(q) PROVE p = q
    <3>1. p \in Patterns /\ q \in Patterns /\ Len(p) \in Nat
      BY <2>2, PatternIsSeq
    <3>2. \A r \in Patterns : r \in OccurAt(ac, i) => Follows(ac, o, r)
      <4> TAKE r \in Patterns
      <4> HIDE DEF o
      <4> QED BY <1>2, <1>5, OccurProperties
    <3> DEFINE d == 0
    <3>3. /\ Follows(ac, o + d, p) /\ Follows(ac, o, q) /\ d \in Nat
          /\ d + Len(p) <= Len(q)
      <4>1. o + d = o /\ d + Len(p) = Len(p)
        BY <1>5, <3>1
      <4>2. Follows(ac, o, p) /\ Follows(ac, o, q)
        BY <3>1, <3>2
      <4>3. Follows(ac, o + d, p)
        BY <4>1, <4>2, Zenon
      <4> HIDE DEF o, d
      <4>4. d \in Nat
        BY DEF d
      <4> QED BY <2>3, <4>1, <4>2, <4>3, <4>4
    <3> HIDE DEF o, d
    <3> QED BY <1>2, <1>5, <3>1, <3>3, NoneInside
  <2>5. \A p, q \in OccurAt(ac, i) : p = q
    <3> TAKE p, q \in OccurAt(ac, i)
    <3>1. Len(p) \in Nat /\ Len(q) \in Nat
      BY <2>2, PatternIsSeq
    <3>2. Len(p) <= Len(q) \/ Len(q) <= Len(p)
      BY <3>1
    <3> QED BY <2>3, <3>2
  <2>4. OccurAt(ac, i) = OccurAt(a, i)
    BY <1>9, <2>1, <2>2, <2>5
  <2> QED BY <1>6, <1>9, <2>4 DEF PieceAt, ac
<1> QED BY <1>8, <1>9

\* ScanCuts, by name.
Cuts(buf, ps, h, n, q) ==
    /\ Parse(buf, 0, ps) /\ ps \in Seq(Piece) /\ Text(ps) = buf
    /\ h \in 0..Len(ps) /\ n \in 0..Len(ps) /\ q \in 0..Len(buf)
    /\ n = Len(ps) - h /\ q = Len(buf) - h
    /\ Sent(buf) = Take(ps, n) /\ Kept(buf) = Drop(buf, q)
    /\ \A k \in n + 1..Len(ps) : Plain(ps[k])
    /\ h # 0 => Begins(Drop(buf, q))
    /\ \A k \in 1..n : (\A j \in k..Len(ps) : Plain(ps[j])) =>
                         ~Begins(Drop(buf, Offset(ps, k)))

\* A scan has these cuts.
LEMMA CutsHold ==
    ASSUME NEW buf \in Seq(Bytes)
    PROVE  LET ps == Replaced(buf)
               h == Hold(buf)
           IN  Cuts(buf, ps, h, Len(ps) - h, Len(buf) - h)
BY ScanCuts DEF Cuts, Sent, Kept

\* What the matcher makes of a and of what comes then.
LEMMA ReplacedOn ==
    ASSUME NestFree, NEW a \in Seq(Bytes), NEW c \in Seq(Bytes),
           NEW s, s = Sent(a), NEW r, r = Kept(a)
    PROVE  Replaced(a \o c) = Sent(a) \o Replaced(Kept(a) \o c)
<1> DEFINE ac == a \o c
           rc == r \o c
           ps == Replaced(rc)
           tx == Text(s)
<1>1. /\ s \in Seq(Piece) /\ r \in Seq(Bytes) /\ tx \o r = a
  BY SentProperties
<1>2. ac \in Seq(Bytes) /\ rc \in Seq(Bytes) /\ tx \in Seq(Bytes)
  BY <1>1, PrefixKept, TextProperties
<1>3. ac = tx \o rc
  <2> HIDE DEF tx
  <2>1. tx \in Seq(Bytes) /\ r \in Seq(Bytes)
    BY <1>1, <1>2
  <2>2. (tx \o r) \o c = tx \o (r \o c)
    BY <2>1, Associates, SMTT(30)
  <2> QED BY <1>1, <2>2
<1>4. Parse(rc, 0, ps)
  <2> HIDE DEF rc
  <2> QED BY <1>2, ReplacedProperties
<1>5. \A k \in 1..Len(s) : s[k] = PieceAt(ac, Offset(s, k) + 1)
  BY PiecesStay
<1> HIDE DEF ac, rc, ps, tx
<1>6. /\ ps \in Seq(Piece) /\ Text(ps) = rc
      /\ \A k \in 1..Len(ps) : ps[k] = PieceAt(rc, 0 + Offset(ps, k) + 1)
  BY <1>2, <1>4, DropNone DEF Parse
<1> DEFINE u == s \o ps
<1>7. /\ u \in Seq(Piece) /\ Len(u) = Len(s) + Len(ps)
      /\ \A k \in 1..Len(s) : u[k] = s[k]
      /\ \A k \in 1..Len(ps) : u[Len(s) + k] = ps[k]
      /\ Len(s) \in Nat /\ Len(ps) \in Nat
  BY <1>1, <1>6, PrefixKept, LenProperties
<1>8. Text(u) = ac
  <2>1. Text(u) = tx \o Text(ps)
    BY <1>1, <1>6, TextConcat DEF tx
  <2> HIDE DEF u
  <2> QED BY <1>3, <1>6, <2>1
<1>9. ASSUME NEW k \in 1..Len(u) PROVE u[k] = PieceAt(ac, 0 + Offset(u, k) + 1)
  <2>1. CASE k <= Len(s)
    <3>1. k \in 1..Len(s) /\ k \in 1..Len(s) + 1
      BY <1>7, <2>1
    <3>2. Offset(u, k) = Offset(s, k)
      BY <1>1, <1>6, <3>1, OffsetOfConcat
    <3>3. 0 + Offset(s, k) + 1 = Offset(s, k) + 1
      BY <1>1, <3>1, OffsetProperties
    <3> HIDE DEF u
    <3> QED BY <1>5, <1>7, <3>1, <3>2, <3>3
  <2>2. CASE ~(k <= Len(s))
    <3> DEFINE j == k - Len(s)
               i == Offset(ps, j) + 1
    <3>1. j \in 1..Len(ps) /\ k = Len(s) + j /\ j \in 1..Len(ps) + 1
      BY <1>7, <2>2
    <3> HIDE DEF j
    <3>2. Offset(u, k) = Len(tx) + Offset(ps, j)
      BY <1>1, <1>6, <3>1, OffsetOfConcat DEF tx
    <3>3. Offset(ps, j) \in Nat /\ i \in 1..Len(rc) /\ Len(tx) \in Nat
      <4>1. Offset(ps, j) \in Nat /\ Offset(ps, j) < Len(rc) /\ Len(rc) \in Nat
        BY <1>6, <3>1, OffsetInText
      <4>2. Len(tx) \in Nat
        BY <1>2, LenProperties
      <4> QED BY <4>1, <4>2
    <3>4. 0 + Offset(u, k) + 1 = Len(tx) + i /\ 0 + Offset(ps, j) + 1 = i
      <4> HIDE DEF u
      <4> QED BY <3>2, <3>3
    <3> HIDE DEF i, u
    <3>5. PieceAt(ac, Len(tx) + i) = PieceAt(rc, i)
      BY <1>2, <1>3, <3>3, LaterPieces
    <3> QED BY <1>6, <1>7, <3>1, <3>4, <3>5
  <2> QED BY <2>1, <2>2
<1> HIDE DEF u
<1>10. Parse(ac, 0, u)
  BY <1>2, <1>7, <1>8, <1>9, DropNone DEF Parse
<1>11. Parse(ac, 0, Replaced(ac))
  BY <1>2, ReplacedProperties
<1> QED BY <1>10, <1>11, ParseIsUnique DEF u, ac, ps, rc

\* What is held is determined by what is to be finished before it.
LEMMA HoldIs ==
    ASSUME NEW buf \in Seq(Bytes), NEW ps, ps = Replaced(buf),
           NEW h \in 0..Len(ps), NEW n, n = Len(ps) - h,
           \A k \in n + 1..Len(ps) : Plain(ps[k]),
           h # 0 => Begins(Drop(buf, Len(buf) - h)),
           \A k \in 1..n : (\A j \in k..Len(ps) : Plain(ps[j])) => ~Begins(Drop(buf, Offset(ps, k)))
    PROVE  Hold(buf) = h
<1> DEFINE g == Hold(buf)
           m == Len(ps) - g
           q == Len(buf) - g
<1>0. Cuts(buf, ps, g, m, q)
  BY CutsHold
<1> HIDE DEF g, m, q
<1>1. /\ Parse(buf, 0, ps) /\ ps \in Seq(Piece) /\ Text(ps) = buf
      /\ g \in 0..Len(ps) /\ m \in 0..Len(ps)
      /\ \A k \in m + 1..Len(ps) : Plain(ps[k])
      /\ g # 0 => Begins(Drop(buf, Len(buf) - g))
      /\ \A k \in 1..m : (\A j \in k..Len(ps) : Plain(ps[j])) =>
                           ~Begins(Drop(buf, Offset(ps, k)))
  BY <1>0 DEF Cuts
<1>2. Len(ps) \in Nat /\ Len(buf) \in Nat /\ m = Len(ps) - g
  BY <1>0, <1>1, LenProperties DEF Cuts
\* What is plain at the end takes as many bytes as pieces.
<1>3. ASSUME NEW l \in 0..Len(ps), \A k \in l + 1..Len(ps) : Plain(ps[k])
      PROVE  Offset(ps, l + 1) = Len(buf) - (Len(ps) - l)
  <2> DEFINE b == l + 1
             e == Len(ps) + 1
  <2>1. b \in 1..Len(ps) + 1 /\ e \in b..Len(ps) + 1 /\ \A k \in b..e - 1 : k \in l + 1..Len(ps)
    BY <1>2
  <2>2. e - b = Len(ps) - l /\ e = Len(ps) + 1
    BY <1>2
  <2> HIDE DEF b, e
  <2>3. Offset(ps, e) = Offset(ps, b) + (e - b)
    BY <1>1, <1>3, <2>1, OffsetGrows
  <2>4. Offset(ps, e) = Len(buf) /\ Offset(ps, b) \in 0..Len(buf)
    BY <1>1, <2>1, <2>2, OffsetProperties
  <2> DEFINE x == Offset(ps, b)
  <2>5. x = Len(buf) - (Len(ps) - l)
    <3>1. Len(buf) = x + (Len(ps) - l) /\ x \in Int /\ l \in Int
      BY <2>2, <2>3, <2>4
    <3> HIDE DEF x
    <3> QED BY <1>2, <3>1
  <2> QED BY <2>5 DEF b
<1>4. ~(h < g)
  <2> SUFFICES ASSUME h < g PROVE FALSE
    OBVIOUS
  <2> DEFINE k == m + 1
  <2>1. k \in 1..n /\ g # 0 /\ Len(ps) - m = g
    BY <1>1, <1>2
  <2>2. Offset(ps, k) = Len(buf) - g
    BY <1>1, <1>3, <2>1
  <2>3. \A j \in k..Len(ps) : Plain(ps[j])
    BY <1>1
  <2> HIDE DEF k
  <2>4. ~Begins(Drop(buf, Offset(ps, k)))
    BY <2>1, <2>3
  <2> QED BY <1>1, <2>1, <2>2, <2>4
<1>5. ~(g < h)
  <2> SUFFICES ASSUME g < h PROVE FALSE
    OBVIOUS
  <2> DEFINE k == n + 1
  <2>1. k \in 1..m /\ h # 0 /\ Len(ps) - n = h /\ n \in 0..Len(ps)
    BY <1>1, <1>2
  <2>2. Offset(ps, k) = Len(buf) - h
    BY <1>3, <2>1
  <2>3. \A j \in k..Len(ps) : Plain(ps[j])
    OBVIOUS
  <2> HIDE DEF k
  <2>4. ~Begins(Drop(buf, Offset(ps, k)))
    BY <1>1, <2>1, <2>3
  <2> QED BY <2>1, <2>2, <2>4
<1>6. g = h
  BY <1>1, <1>2, <1>4, <1>5
<1> QED BY <1>6 DEF g

\* What could become a Pattern could do so from its beginning.
LEMMA BeginsBefore ==
    ASSUME NEW a \in Seq(Bytes), NEW c \in Seq(Bytes), Begins(a \o c)
    PROVE  Begins(a)
<1>1. PICK p \in Patterns : IsStrictPrefix(a \o c, p)
  BY DEF Begins
<1>2. /\ a \o c \in Seq(Bytes) /\ Len(a) <= Len(a \o c) /\ Len(a) \in Nat /\ Len(a \o c) \in Nat
      /\ Len(p) \in Nat /\ p \in Seq(Bytes)
      /\ \A i \in 1..Len(a) : (a \o c)[i] = a[i]
  BY PrefixKept, LenProperties, PatternIsSeq
<1>3. Len(a \o c) < Len(p) /\ \A i \in 1..Len(a \o c) : (a \o c)[i] = p[i]
  BY <1>1, <1>2, PrefixProperties
<1> DEFINE ac == a \o c
<1> HIDE DEF ac
<1>4. Len(a) < Len(p) /\ \A i \in 1..Len(a) : a[i] = p[i]
  <2>1. /\ Len(a) <= Len(ac) /\ Len(ac) < Len(p)
        /\ Len(a) \in Nat /\ Len(ac) \in Nat /\ Len(p) \in Nat
    BY <1>2, <1>3 DEF ac
  <2>2. Len(a) < Len(p) /\ 1..Len(a) \subseteq 1..Len(ac)
    BY <2>1
  <2>3. \A i \in 1..Len(a) : ac[i] = a[i]
    BY <1>2 DEF ac
  <2>4. \A i \in 1..Len(ac) : ac[i] = p[i]
    BY <1>3 DEF ac
  <2> QED BY <2>2, <2>3, <2>4
<1>5. IsStrictPrefix(a, p)
  BY <1>2, <1>4, PrefixProperties
<1> QED BY <1>5 DEF Begins

\* The front of a concatenation that reaches into its second part.
LEMMA TakeOn ==
    ASSUME NEW s \in Seq(Piece), NEW t \in Seq(Piece), NEW n \in 0..Len(t)
    PROVE  Take(s \o t, Len(s) + n) = s \o Take(t, n)
BY CutOfConcat

\* Scanning in two steps is scanning at once.
LEMMA ScanOn ==
    ASSUME NestFree, NEW a \in Seq(Bytes), NEW c \in Seq(Bytes),
           NEW s, s = Sent(a), NEW r, r = Kept(a)
    PROVE  /\ Sent(a \o c) = s \o Sent(r \o c)
           /\ Kept(a \o c) = Kept(r \o c)
<1> DEFINE ac == a \o c
           rc == r \o c
           ps == Replaced(rc)
           tx == Text(s)
           h == Hold(rc)
           n == Len(ps) - h
           q == Len(rc) - h
<1>1. /\ s \in Seq(Piece) /\ r \in Seq(Bytes) /\ tx \o r = a /\ Finished(a, s)
  BY SentProperties
<1>2. ac \in Seq(Bytes) /\ rc \in Seq(Bytes) /\ tx \in Seq(Bytes)
  BY <1>1, PrefixKept, TextProperties
<1>3. ac = tx \o rc
  <2> HIDE DEF tx
  <2>1. tx \in Seq(Bytes) /\ r \in Seq(Bytes)
    BY <1>1, <1>2
  <2>2. (tx \o r) \o c = tx \o (r \o c)
    BY <2>1, Associates, SMTT(30)
  <2> QED BY <1>1, <2>2
<1>4. Replaced(ac) = s \o ps
  <2> HIDE DEF ac, rc, ps, tx, h, n, q
  <2>1. Replaced(a \o c) = Sent(a) \o Replaced(Kept(a) \o c)
    BY ReplacedOn
  <2> QED BY <2>1 DEF ac, ps, rc
<1>5. /\ ps \in Seq(Piece) /\ Text(ps) = rc
      /\ h \in 0..Len(ps) /\ n \in 0..Len(ps) /\ q \in 0..Len(rc)
      /\ Sent(rc) = Take(ps, n) /\ Kept(rc) = Drop(rc, q)
      /\ \A k \in n + 1..Len(ps) : Plain(ps[k])
      /\ h # 0 => Begins(Drop(rc, q))
      /\ \A k \in 1..n : (\A j \in k..Len(ps) : Plain(ps[j])) =>
                           ~Begins(Drop(rc, Offset(ps, k)))
  <2>1. Cuts(rc, ps, h, n, q)
    <3> HIDE DEF rc
    <3> QED BY <1>2, CutsHold
  <2> HIDE DEF rc, ps, h, n, q
  <2> QED BY <2>1 DEF Cuts
<1>7. n = Len(ps) - h /\ q = Len(rc) - h
  OBVIOUS
<1> HIDE DEF ac, rc, ps, tx, h, n, q
<1> DEFINE u == s \o ps
<1>6. /\ u \in Seq(Piece) /\ Len(u) = Len(s) + Len(ps)
      /\ \A k \in 1..Len(s) : u[k] = s[k]
      /\ \A k \in 1..Len(ps) : u[Len(s) + k] = ps[k]
      /\ Len(s) \in Nat /\ Len(ps) \in Nat
  BY <1>1, <1>5, PrefixKept, LenProperties, SMTT(30)
<1>8. Len(ac) = Len(tx) + Len(rc) /\ Len(tx) \in Nat /\ Len(rc) \in Nat
  BY <1>2, <1>3, PrefixKept, LenProperties
<1>9. \A l \in 0..Len(rc) : Drop(ac, Len(tx) + l) = Drop(rc, l)
  BY <1>2, <1>3, CutOfConcat
<1>10. Drop(ac, Len(ac) - h) = Drop(rc, q)
  <2>1. Len(ac) - h = Len(tx) + q
    BY <1>5, <1>6, <1>7, <1>8
  <2> QED BY <1>5, <1>9, <2>1
<1> DEFINE m == Len(s) + n
<1>11. h \in 0..Len(u) /\ m = Len(u) - h /\ m \in 0..Len(u)
  BY <1>5, <1>6, <1>7
<1>12. ASSUME NEW k \in m + 1..Len(u) PROVE Plain(u[k])
  <2> DEFINE j == k - Len(s)
  <2>1. j \in n + 1..Len(ps) /\ j \in 1..Len(ps) /\ k = Len(s) + j
    BY <1>5, <1>6
  <2> HIDE DEF j, u
  <2> QED BY <1>5, <1>6, <2>1
<1>13. ASSUME NEW k \in 1..m, \A j \in k..Len(u) : Plain(u[j])
       PROVE  ~Begins(Drop(ac, Offset(u, k)))
  <2>1. CASE k <= Len(s)
    <3> DEFINE o == Offset(s, k)
    <3>1. k \in 1..Len(s) /\ k \in 1..Len(s) + 1
      BY <1>6, <2>1
    <3>2. Offset(u, k) = o
      BY <1>1, <1>5, <3>1, OffsetOfConcat
    <3>3. \A j \in k..Len(s) : Plain(s[j])
      <4>1. \A j \in k..Len(s) : j \in k..Len(u) /\ j \in 1..Len(s)
        BY <1>6, <3>1
      <4> HIDE DEF u
      <4> QED BY <1>6, <1>13, <4>1
    <3>4. ~Begins(Drop(a, o))
      BY <1>1, <3>1, <3>3 DEF Finished
    <3>5. o \in 0..Len(a)
      <4>1. o \in Nat /\ o < Len(tx)
        BY <1>1, <3>1, OffsetInText DEF tx
      <4>2. Len(tx) <= Len(a) /\ Len(a) \in Nat
        BY <1>1, <1>2, PrefixKept, LenProperties
      <4> HIDE DEF o
      <4> QED BY <1>8, <4>1, <4>2
    <3> HIDE DEF o, u
    <3>a. Drop(a \o c, o) = Drop(a, o) \o c
      BY <3>5, CutOfConcat
    <3>b. Drop(a, o) \in Seq(Bytes)
      BY <3>5, CutProperties
    <3>6. Drop(ac, o) = Drop(a, o) \o c /\ Drop(a, o) \in Seq(Bytes)
      BY <3>a, <3>b DEF ac
    <3> QED BY <3>2, <3>4, <3>6, BeginsBefore
  <2>2. CASE ~(k <= Len(s))
    <3> DEFINE j == k - Len(s)
    <3>1. j \in 1..n /\ j \in 1..Len(ps) /\ k = Len(s) + j /\ j \in 1..Len(ps) + 1
      BY <1>5, <1>6, <2>2
    <3> HIDE DEF j
    <3>2. Offset(u, k) = Len(tx) + Offset(ps, j)
      BY <1>1, <1>5, <3>1, OffsetOfConcat DEF tx
    <3>3. ASSUME NEW i \in j..Len(ps) PROVE Plain(ps[i])
      <4>1. Len(s) + i \in k..Len(u) /\ i \in 1..Len(ps)
        BY <1>6, <3>1
      <4> HIDE DEF u
      <4> QED BY <1>6, <1>13, <4>1
    <3>4. ~Begins(Drop(rc, Offset(ps, j)))
      BY <1>5, <3>1, <3>3
    <3>5. Offset(ps, j) \in 0..Len(rc)
      BY <1>5, <3>1, OffsetProperties
    <3> HIDE DEF u
    <3> QED BY <1>9, <3>2, <3>4, <3>5
  <2> QED BY <2>1, <2>2
<1>14. Hold(ac) = h
  <2>1. u = Replaced(ac)
    BY <1>4
  <2>2. h # 0 => Begins(Drop(ac, Len(ac) - h))
    BY <1>5, <1>10
  <2> HIDE DEF u, m
  <2> QED BY <1>2, <1>11, <1>12, <1>13, <2>1, <2>2, HoldIs
<1>15. Sent(ac) = Take(u, m) /\ Kept(ac) = Drop(rc, q)
  <2>1. u = Replaced(ac) /\ Len(ac) - h = Len(ac) - h
    BY <1>4
  <2>2. /\ Sent(ac) = Take(u, Len(u) - Hold(ac))
        /\ Kept(ac) = Drop(ac, Len(ac) - Hold(ac))
    <3> DEFINE g == Hold(ac)
    <3>1. Cuts(ac, u, g, Len(u) - g, Len(ac) - g)
      <4> HIDE DEF u
      <4> QED BY <1>2, <2>1, CutsHold
    <3> HIDE DEF u
    <3> QED BY <3>1 DEF Cuts
  <2> HIDE DEF u, m
  <2> QED BY <1>10, <1>11, <1>14, <2>2
<1>16. Take(u, m) = s \o Take(ps, n)
  <2>1. s \in Seq(Piece) /\ ps \in Seq(Piece) /\ n \in 0..Len(ps)
    BY <1>1, <1>5
  <2> HIDE DEF u, m
  <2>2. Take(s \o ps, Len(s) + n) = s \o Take(ps, n)
    BY <2>1, TakeOn
  <2> QED BY <2>1, <2>2 DEF u, m
<1> QED BY <1>5, <1>15, <1>16 DEF ac, rc

\* Nothing comes of nothing.
LEMMA ScanOfNothing == Sent(<<>>) = <<>> /\ Kept(<<>>) = <<>>
<1> DEFINE e == <<>>
           s == Sent(e)
           r == Kept(e)
<1>1. e \in Seq(Bytes) /\ Len(e) = 0
  BY EmptySeq
<1>2. s \in Seq(Piece) /\ r \in Seq(Bytes) /\ Text(s) \o r = e /\ Text(s) \in Seq(Bytes)
  BY <1>1, SentProperties, TextProperties
<1>3. Len(Text(s)) + Len(r) = 0
  BY <1>1, <1>2, ConcatProperties
<1>4. Len(Text(s)) \in Nat /\ Len(r) \in Nat /\ Len(s) \in Nat
  BY <1>2, LenProperties
<1>5. Len(r) = 0 /\ Len(Text(s)) = 0
  BY <1>3, <1>4
<1>6. Len(s) = 0
  <2>1. ASSUME 1 \in 1..Len(s) PROVE FALSE
    BY <1>2, <1>5, <2>1, OffsetInText
  <2> QED BY <1>4, <2>1
<1> HIDE DEF e, s, r
<1>7. s = <<>> /\ r = <<>>
  BY <1>2, <1>5, <1>6, EmptySeq
<1> QED BY <1>7 DEF s, r, e

\* What the Writer printed and holds is what one scan of all it was given makes
\* of it.
AsScanned == out = Sent(seen) /\ held = Kept(seen)

\* What ChunksDoNotMatter says, in these words.
LEMMA AsScannedIs == ChunksDoNotMatter <=> ((NestFree /\ cuts = {} /\ ~writeErr /\ ~closed) => AsScanned)
BY DEF ChunksDoNotMatter, AsScanned, Sent, Kept

\* Write scans on: its held \o p.
LEMMA WriteIsScanned ==
    ASSUME RInv, NestFree, AsScanned, NEW p \in Chunks, Write(p), ~writeErr'
    PROVE  AsScanned'
<1> DEFINE b == held \o p
           s == Sent(b)
           r == Kept(b)
<1>1. /\ p \in Seq(Bytes) /\ held \in Seq(Bytes) /\ seen \in Seq(Bytes) /\ out \in Seq(Piece)
  BY PatternsAssumption DEF RInv, Types
<1>2. /\ seen' = seen \o p
      /\ IF s # <<>> /\ broken THEN held' = <<>> ELSE held' = r
      /\ IF s = <<>> THEN UNCHANGED <<out, writeErr>> ELSE Deliver(s)
  BY DEF Write, Sent, Kept
<1> HIDE DEF b, s, r
<1>3. out' = out \o s /\ held' = r
  <2>1. CASE s = <<>>
    BY <1>1, <1>2, <2>1, ConcatEmptySeq
  <2>2. CASE s # <<>>
    BY <1>2, <2>2 DEF Deliver
  <2> QED BY <2>1, <2>2
<1>4. Sent(seen \o p) = Sent(seen) \o Sent(Kept(seen) \o p) /\ Kept(seen \o p) = Kept(Kept(seen) \o p)
  BY <1>1, ScanOn
<1>5. out = Sent(seen) /\ held = Kept(seen)
  BY DEF AsScanned
<1>6. Sent(seen \o p) = out \o s /\ Kept(seen \o p) = r
  BY <1>4, <1>5, Zenon DEF b, s, r
<1>7. Sent(seen') = out' /\ Kept(seen') = held'
  BY <1>2, <1>3, <1>6, Zenon
<1> QED BY <1>7 DEF AsScanned, Sent, Kept

\* Every step keeps it.
LEMMA StepIsScanned == RInv /\ ChunksDoNotMatter /\ [WriterNext]_writerVars => ChunksDoNotMatter'
<1> SUFFICES ASSUME RInv, ChunksDoNotMatter, [WriterNext]_writerVars,
                    NestFree, cuts' = {}, ~writeErr', ~closed'
             PROVE  AsScanned'
  BY DEF ChunksDoNotMatter, AsScanned, Sent, Kept, NestFree
<1>1. (cuts = {} /\ ~writeErr /\ ~closed) => AsScanned
  BY AsScannedIs
<1>2. ASSUME NEW p \in Chunks, Write(p) PROVE AsScanned'
  <2>1. cuts = {} /\ ~writeErr /\ ~closed
    BY <1>2 DEF Write, Deliver
  <2> QED BY <1>1, <1>2, <2>1, WriteIsScanned
<1>3. ASSUME cuts = {}, ~writeErr, ~closed, UNCHANGED <<out, held, seen>> PROVE AsScanned'
  BY <1>1, <1>3 DEF AsScanned, Sent, Kept
<1>4. CASE TimerFires
  BY <1>3, <1>4 DEF TimerFires
<1>5. CASE IdleFlush
  <2>1. closed \/ held = <<>>
    BY <1>5 DEF IdleFlush
  <2> QED BY <1>3, <1>5, <2>1 DEF IdleFlush
<1>6. CASE Close
  BY <1>6 DEF Close
<1>7. CASE DstBreaks
  BY <1>3, <1>7 DEF DstBreaks
<1>8. CASE UNCHANGED writerVars
  BY <1>3, <1>8 DEF writerVars
<1> QED BY <1>2, <1>4, <1>5, <1>6, <1>7, <1>8 DEF WriterNext, Done

\* Theorem: where no Pattern contains another, what is printed and what is held do
\* not depend on how the output was cut into Writes (Write).
THEOREM ChunksNeverMatter == WriterSpec => []ChunksDoNotMatter
<1>1. WriterInit => ChunksDoNotMatter
  BY ScanOfNothing DEF WriterInit, ChunksDoNotMatter, Sent, Kept
<1>2. RInv /\ ChunksDoNotMatter /\ [WriterNext]_writerVars => ChunksDoNotMatter'
  BY StepIsScanned
<1> QED BY <1>1, <1>2, WriterInvariant, PTL DEF WriterSpec
=============================================================================
