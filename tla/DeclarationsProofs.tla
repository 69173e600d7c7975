------------------------- MODULE DeclarationsProofs -------------------------
(***************************************************************************)
(* What holds of the Manifests for every set of processes, Handles and     *)
(* command lines.                                                          *)
(*                                                                         *)
(* UpdateGlobal loses nothing because what its process has read is what is *)
(* there until it has saved (Current), for which the lock has one holder   *)
(* (LockHeld).  import's order is kept in what it has done by each of its  *)
(* places (InOrder).                                                       *)
(*                                                                         *)
(* A run keeps its contract because of what is known of its Refs once the  *)
(* files are read (RefsFollow) and of its result once they are resolved    *)
(* (ResultAnswers): neither depends on the files any more.  Both come out  *)
(* of folds, so each fold of the model is first made a walk through the    *)
(* values of a function (WithRefFolds, ..., AssignFolds), along which a    *)
(* property is kept (Reaches).                                             *)
(***************************************************************************)
EXTENDS Declarations, SequenceTheorems, FiniteSetTheorems, WellFoundedInduction, TLAPS

\* The commands that can be at each place.
At(where) ==
    CASE where = "idle" -> {"none"}
      [] where = "vault" -> {"add", "import", "rm"}
      [] where = "load" -> {"toggle", "declare", "import"}
      [] where = "save" -> {"init", "toggle", "declare", "import"}
      [] where \in {"zero", "unlink"} -> {"import"}
      [] where \in {"lock", "gload", "gsave"} -> {"global", "local", "add"}
      [] where \in {"refs", "global", "resolve", "child"} -> {"run"}

Files ==
    /\ vault \in Entries /\ global \in Entries
    /\ project \in Manifest \cup {NoFile}
    /\ dotenv \in {"plain", "zeroed", "gone"}
    /\ stored \in SUBSET Handles /\ declared \in SUBSET Handles

Processes ==
    /\ pc \in [Procs -> Places]
    /\ job \in [Procs -> Offered \cup {Idle}]
    /\ copy \in [Procs -> Manifest \cup {NoFile}]
    /\ \A p \in Procs : job[p] = Idle <=> pc[p] = "idle"
    /\ \A p \in Procs : job[p].op \in At(pc[p])
    /\ \A p \in Procs : pc[p] \notin {"global", "resolve", "child"} => copy[p] \in Manifest

LockHeld ==
    /\ lock \in Procs \cup {NoProc}
    /\ \A p \in Procs : pc[p] \in {"gload", "gsave"} <=> lock = p

\* What UpdateGlobal has read is what is there.
Current == \A p \in Procs : pc[p] = "gsave" => copy[p].entries = global

\* What import has done, by its places and by what is left of the file.
InOrder ==
    /\ \A p \in Procs :
         /\ job[p].op = "import" /\ pc[p] \in {"load", "save", "zero", "unlink"} =>
              DOMAIN EnvFile \subseteq stored
         /\ pc[p] \in {"zero", "unlink"} => DOMAIN EnvFile \subseteq declared
    /\ PlaintextGoesLast

DInv == Files /\ Processes /\ LockHeld /\ Current /\ InOrder
-----------------------------------------------------------------------------
LEMMA BlankIsManifest == Nothing \in Entries /\ Blank \in Manifest
BY DEF Nothing, Entries, Blank, Manifest

\* What the names that an edit of a Manifest is given leave of it is one.
LEMMA DeclareIsEntries ==
    ASSUME NEW e \in Entries, NEW h \in Handles, NEW name \in NameOrNone
    PROVE  /\ Declare(e, h, name) \in Entries
           /\ Declare(e, h, name)[h] \in Names
           /\ \A k \in Handles \ {h} : Declare(e, h, name)[k] = e[k]
BY DefaultsAreNames DEF Declare, Entries, NameOrNone

\* The lines that a process can have at each place.
LEMMA Lines ==
    ASSUME NEW j \in Offered
    PROVE  /\ j.op \in {"init", "toggle", "declare", "global", "add", "local", "rm",
                         "import", "run"}
           /\ j.op \in {"init", "toggle"} => j.off \in BOOLEAN
           /\ j.op \in {"declare", "global", "add"} => j.name \in NameOrNone
           /\ j.op \in {"declare", "global", "add", "local", "rm"} => j.h \in Handles
           /\ j.op = "add" => j.g \in BOOLEAN
           /\ j.op = "import" => j.keep \in BOOLEAN
BY OfferedAreCommandLines DEF CommandLine

\* Entries that others are stored over are entries.
LEMMA OverlayIsEntries ==
    ASSUME NEW e \in Entries, NEW hs \in SUBSET Handles, NEW names \in [hs -> Names]
    PROVE  Overlay(e, names) \in Entries
BY DEF Overlay, Entries

\* A command begins at a place that it can be at.
LEMMA BeginsFits ==
    ASSUME NEW j \in Offered
    PROVE  /\ Begins(j).at \in {"vault", "load", "save", "lock", "refs"}
           /\ j.op \in At(Begins(j).at)
           /\ j.op = "import" => Begins(j).at = "vault"
           /\ j # Idle
BY Lines DEF Begins, At, Idle

\* What a command makes of a Manifest is one, with all of the .env file's
\* Handles if it is import.
LEMMA ChangedIsManifest ==
    ASSUME NEW j \in Offered, j.op \in {"init", "toggle", "declare", "import"},
           NEW m \in Manifest
    PROVE  /\ Changed(j, m) \in Manifest
           /\ j.op = "import" => \A h \in DOMAIN EnvFile : Changed(j, m).entries[h] # Absent
<1>1. CASE j.op = "init"
  BY <1>1 DEF Changed
<1>2. CASE j.op = "toggle"
  BY <1>2, Lines DEF Changed, Manifest
<1>3. CASE j.op = "declare"
  BY <1>3, Lines, DeclareIsEntries DEF Changed, Manifest
<1>4. CASE j.op = "import"
  BY <1>4, OverlayIsEntries, EnvFileHasHandles, DefaultsAreNames DEF Changed, Manifest, Overlay
<1> QED BY <1>1, <1>2, <1>3, <1>4

LEMMA StartKeeps ==
    ASSUME DInv, NEW p \in Procs, NEW j \in Offered, Start(p, j)
    PROVE  DInv'
<1> USE DEF DInv
<1>1. Files'
  BY DEF Start, files, history, Files
<1>2. Processes'
  <2>1. pc' \in [Procs -> Places] /\ job' \in [Procs -> Offered \cup {Idle}]
    BY BeginsFits DEF Start, Goto, Processes, Places
  <2>2. copy' \in [Procs -> Manifest \cup {NoFile}]
    BY BlankIsManifest DEF Start, Holds, Processes, Manifest
  <2>3. \A q \in Procs : job'[q] = Idle <=> pc'[q] = "idle"
    BY BeginsFits DEF Start, Goto, Processes
  <2>4. \A q \in Procs : job'[q].op \in At(pc'[q])
    BY BeginsFits DEF Start, Goto, Processes
  <2>5. \A q \in Procs : pc'[q] \notin {"global", "resolve", "child"} => copy'[q] \in Manifest
    BY BlankIsManifest DEF Start, Goto, Holds, Processes, Manifest
  <2> QED BY <2>1, <2>2, <2>3, <2>4, <2>5 DEF Processes
<1>3. LockHeld'
  BY BeginsFits DEF Start, Goto, LockHeld
<1>4. Current'
  BY BeginsFits DEF Start, Goto, Holds, files, Current
<1>5. InOrder'
  BY BeginsFits DEF Start, Goto, files, history, Processes, InOrder, PlaintextGoesLast
<1> QED BY <1>1, <1>2, <1>3, <1>4, <1>5

LEMMA ImportVaultKeeps ==
    ASSUME DInv, NEW p \in Procs, ImportVault(p)
    PROVE  DInv'
<1> USE DEF DInv
<1>1. Files'
  <2>1. vault' \in Entries /\ stored' \in SUBSET Handles
    BY OverlayIsEntries, EnvFileHasHandles DEF ImportVault, Store, Files
  <2> QED BY <2>1 DEF ImportVault, Files
<1>2. Processes'
  <2>1. pc' \in [Procs -> Places] /\ job' \in [Procs -> Offered \cup {Idle}]
    BY DEF ImportVault, End, Keeps, Goto, Processes, Places
  <2>2. copy' \in [Procs -> Manifest \cup {NoFile}]
    BY BlankIsManifest DEF ImportVault, End, Processes
  <2>3. \A q \in Procs : job'[q] = Idle <=> pc'[q] = "idle"
    BY DEF ImportVault, End, Keeps, Goto, Processes
  <2>4. \A q \in Procs : job'[q].op \in At(pc'[q])
    BY DEF ImportVault, End, Keeps, Goto, Processes, Idle, Places, At
  <2>5. \A q \in Procs : pc'[q] \notin {"global", "resolve", "child"} => copy'[q] \in Manifest
    BY BlankIsManifest DEF ImportVault, End, Goto, Processes
  <2> QED BY <2>1, <2>2, <2>3, <2>4, <2>5 DEF Processes
<1>3. LockHeld'
  BY DEF ImportVault, End, Keeps, Goto, Processes, LockHeld
<1>4. Current'
  BY DEF ImportVault, End, Goto, Processes, Current
<1>5. InOrder'
  BY DEF ImportVault, Store, End, Goto, Processes, InOrder, PlaintextGoesLast
<1> QED BY <1>1, <1>2, <1>3, <1>4, <1>5

LEMMA AddVaultKeeps ==
    ASSUME DInv, NEW p \in Procs, AddVault(p)
    PROVE  DInv'
<1> USE DEF DInv
<1>1. Files'
  <2> DEFINE names == [h \in {job[p].h} |-> Declare(Nothing, h, job[p].name)[h]]
  <2>1. job[p].h \in Handles /\ names \in [{job[p].h} -> Names]
    BY Lines, BlankIsManifest, DeclareIsEntries DEF AddVault, Processes
  <2>2. DOMAIN names \subseteq Handles /\ Overlay(vault, names) \in Entries
    BY <2>1, OverlayIsEntries DEF Files
  <2>3. vault' \in Entries /\ stored' \in SUBSET Handles
    BY <2>2 DEF AddVault, Store, Files, Overlay
  <2> QED BY <2>3 DEF AddVault, Files
<1>2. Processes'
  <2>1. pc' \in [Procs -> Places] /\ job' \in [Procs -> Offered \cup {Idle}]
    BY DEF AddVault, End, Keeps, Goto, Processes, Places
  <2>2. copy' \in [Procs -> Manifest \cup {NoFile}]
    BY BlankIsManifest DEF AddVault, End, Processes
  <2>3. \A q \in Procs : job'[q] = Idle <=> pc'[q] = "idle"
    BY DEF AddVault, End, Keeps, Goto, Processes
  <2>4. \A q \in Procs : job'[q].op \in At(pc'[q])
    BY DEF AddVault, End, Keeps, Goto, Processes, Idle, Places, At
  <2>5. \A q \in Procs : pc'[q] \notin {"global", "resolve", "child"} => copy'[q] \in Manifest
    BY BlankIsManifest DEF AddVault, End, Goto, Processes
  <2> QED BY <2>1, <2>2, <2>3, <2>4, <2>5 DEF Processes
<1>3. LockHeld'
  BY DEF AddVault, End, Keeps, Goto, Processes, LockHeld
<1>4. Current'
  BY DEF AddVault, End, Goto, Processes, Current
<1>5. InOrder'
  BY DEF AddVault, Store, End, Keeps, Goto, Processes, InOrder, PlaintextGoesLast
<1> QED BY <1>1, <1>2, <1>3, <1>4, <1>5

LEMMA RemoveFromVaultKeeps ==
    ASSUME DInv, NEW p \in Procs, RemoveFromVault(p)
    PROVE  DInv'
<1> USE DEF DInv
<1>1. Files'
  <2>1. vault' \in Entries
    BY DefaultsAreNames DEF RemoveFromVault, Files, Entries
  <2> QED BY <2>1 DEF RemoveFromVault, Files, history
<1>2. Processes'
  BY BlankIsManifest DEF RemoveFromVault, End, Goto, Processes, At, Places, Idle
<1>3. LockHeld'
  BY DEF RemoveFromVault, End, Goto, LockHeld
<1>4. Current'
  BY DEF RemoveFromVault, End, Goto, Current
<1>5. InOrder'
  BY DEF RemoveFromVault, End, Goto, history, InOrder, PlaintextGoesLast
<1> QED BY <1>1, <1>2, <1>3, <1>4, <1>5

LEMMA LoadProjectKeeps ==
    ASSUME DInv, NEW p \in Procs, LoadProject(p)
    PROVE  DInv'
<1> USE DEF DInv
<1>1. Files'
  BY DEF LoadProject, files, history, Files
<1>2. Processes'
  BY BlankIsManifest DEF LoadProject, Keeps, Goto, Holds, Files, Processes, At, Places
<1>3. LockHeld'
  BY DEF LoadProject, Keeps, Goto, LockHeld
<1>4. Current'
  BY DEF LoadProject, Goto, Holds, files, Current
<1>5. InOrder'
  BY DEF LoadProject, Keeps, Goto, files, history, InOrder, PlaintextGoesLast
<1> QED BY <1>1, <1>2, <1>3, <1>4, <1>5

LEMMA SaveProjectKeeps ==
    ASSUME DInv, NEW p \in Procs, SaveProject(p)
    PROVE  DInv'
<1> USE DEF DInv
<1>1. Files'
  <2>1. job[p] \in Offered /\ job[p].op \in {"init", "toggle", "declare", "import"}
        /\ copy[p] \in Manifest
    BY DEF SaveProject, Processes, At
  <2>2. project' \in Manifest
    BY <2>1, ChangedIsManifest DEF SaveProject
  <2> QED BY <2>2 DEF SaveProject, Files
<1>2. Processes'
  <2>1. pc' \in [Procs -> Places] /\ job' \in [Procs -> Offered \cup {Idle}]
    BY DEF SaveProject, End, Keeps, Goto, Processes, Places
  <2>2. copy' \in [Procs -> Manifest \cup {NoFile}]
    BY BlankIsManifest DEF SaveProject, End, Processes
  <2>3. \A q \in Procs : job'[q] = Idle <=> pc'[q] = "idle"
    BY DEF SaveProject, End, Keeps, Goto, Processes
  <2>4. \A q \in Procs : job'[q].op \in At(pc'[q])
    BY DEF SaveProject, End, Keeps, Goto, Processes, Idle, Places, At
  <2>5. \A q \in Procs : pc'[q] \notin {"global", "resolve", "child"} => copy'[q] \in Manifest
    BY BlankIsManifest DEF SaveProject, End, Goto, Processes
  <2> QED BY <2>1, <2>2, <2>3, <2>4, <2>5 DEF Processes
<1>3. LockHeld'
  BY DEF SaveProject, End, Keeps, Goto, Processes, LockHeld
<1>4. Current'
  BY DEF SaveProject, End, Goto, Processes, Current
<1>5. InOrder'
  <2>1. job[p] \in Offered /\ copy[p] \in Manifest
    BY DEF SaveProject, Processes, At
  <2>3. job[p].op = "import" => DOMAIN EnvFile \subseteq declared'
    BY <2>1, ChangedIsManifest, EnvFileHasHandles DEF SaveProject
  <2> QED
    BY <2>3 DEF SaveProject, End, Goto, Processes, InOrder, PlaintextGoesLast
<1> QED BY <1>1, <1>2, <1>3, <1>4, <1>5

LEMMA ZeroKeeps ==
    ASSUME DInv, NEW p \in Procs, Zero(p)
    PROVE  DInv'
<1> USE DEF DInv
<1>1. Files'
  BY DEF Zero, history, Files
<1>2. Processes'
  <2>1. pc' \in [Procs -> Places] /\ job' \in [Procs -> Offered \cup {Idle}]
    BY DEF Zero, End, Keeps, Goto, Processes, Places
  <2>2. copy' \in [Procs -> Manifest \cup {NoFile}]
    BY BlankIsManifest DEF Zero, End, Processes
  <2>3. \A q \in Procs : job'[q] = Idle <=> pc'[q] = "idle"
    BY DEF Zero, End, Keeps, Goto, Processes
  <2>4. \A q \in Procs : job'[q].op \in At(pc'[q])
    BY DEF Zero, End, Keeps, Goto, Processes, Idle, Places, At
  <2>5. \A q \in Procs : pc'[q] \notin {"global", "resolve", "child"} => copy'[q] \in Manifest
    BY BlankIsManifest DEF Zero, End, Goto, Processes
  <2> QED BY <2>1, <2>2, <2>3, <2>4, <2>5 DEF Processes
<1>3. LockHeld'
  BY DEF Zero, End, Keeps, Goto, Processes, LockHeld
<1>4. Current'
  BY DEF Zero, End, Goto, Processes, Current
<1>5. InOrder'
  BY DEF Zero, history, Processes, InOrder, At, PlaintextGoesLast
<1> QED BY <1>1, <1>2, <1>3, <1>4, <1>5

LEMMA UnlinkKeeps ==
    ASSUME DInv, NEW p \in Procs, Unlink(p)
    PROVE  DInv'
<1> USE DEF DInv
<1>1. Files'
  BY DEF Unlink, history, Files
<1>2. Processes'
  BY BlankIsManifest DEF Unlink, End, Goto, Processes, At, Places, Idle
<1>3. LockHeld'
  BY DEF Unlink, End, Goto, LockHeld
<1>4. Current'
  BY DEF Unlink, End, Goto, Current
<1>5. InOrder'
  BY DEF Unlink, history, Processes, InOrder, At, PlaintextGoesLast
<1> QED BY <1>1, <1>2, <1>3, <1>4, <1>5

LEMMA AcquireGlobalKeeps ==
    ASSUME DInv, NEW p \in Procs, AcquireGlobal(p)
    PROVE  DInv'
<1> USE DEF DInv
<1>1. Files'
  BY DEF AcquireGlobal, files, history, Files
<1>2. Processes'
  BY DEF AcquireGlobal, Goto, Processes, At, Places
<1>3. LockHeld'
  BY NobodyIsNoProc DEF AcquireGlobal, Goto, Processes, LockHeld
<1>4. Current'
  BY DEF AcquireGlobal, Goto, files, Current
<1>5. InOrder'
  BY DEF AcquireGlobal, Goto, files, history, InOrder, PlaintextGoesLast
<1> QED BY <1>1, <1>2, <1>3, <1>4, <1>5

LEMMA LoadGlobalKeeps ==
    ASSUME DInv, NEW p \in Procs, LoadGlobal(p)
    PROVE  DInv'
<1> USE DEF DInv
<1>1. Files'
  BY DEF LoadGlobal, files, history, Files
<1>2. Processes'
  <2>1. pc' \in [Procs -> Places] /\ job' \in [Procs -> Offered \cup {Idle}]
    BY DEF LoadGlobal, Keeps, Goto, Processes, Places
  <2>2. copy' \in [Procs -> Manifest \cup {NoFile}]
    BY BlankIsManifest DEF LoadGlobal, Holds, Files, Processes, Manifest
  <2>3. \A q \in Procs : job'[q] = Idle <=> pc'[q] = "idle"
    BY DEF LoadGlobal, Keeps, Goto, Processes
  <2>4. \A q \in Procs : job'[q].op \in At(pc'[q])
    BY DEF LoadGlobal, Keeps, Goto, Processes, At
  <2>5. \A q \in Procs : pc'[q] \notin {"global", "resolve", "child"} => copy'[q] \in Manifest
    BY BlankIsManifest DEF LoadGlobal, Goto, Holds, Files, Processes, Manifest
  <2> QED BY <2>1, <2>2, <2>3, <2>4, <2>5 DEF Processes
<1>3. LockHeld'
  BY DEF LoadGlobal, Keeps, Goto, LockHeld
<1>4. Current'
  BY DEF LoadGlobal, Goto, Holds, files, Processes, Current
<1>5. InOrder'
  BY DEF LoadGlobal, Keeps, Goto, files, history, InOrder, PlaintextGoesLast
<1> QED BY <1>1, <1>2, <1>3, <1>4, <1>5

LEMMA SaveGlobalKeeps ==
    ASSUME DInv, NEW p \in Procs, SaveGlobal(p)
    PROVE  DInv'
<1> USE DEF DInv
<1>1. Files'
  <2>1. job[p] \in Offered /\ job[p].op \in {"global", "local", "add"} /\ copy[p] \in Manifest
    BY DEF SaveGlobal, Processes, At
  <2>2. copy[p].entries \in Entries
    BY <2>1 DEF Manifest
  <2>3. [copy[p].entries EXCEPT ![job[p].h] = Absent] \in Entries
    BY <2>2 DEF Entries
  <2>4. global' \in Entries
    BY <2>1, <2>2, <2>3, Lines, DeclareIsEntries DEF SaveGlobal
  <2> QED BY <2>4 DEF SaveGlobal, Files, history
<1>2. Processes'
  BY BlankIsManifest DEF SaveGlobal, End, Goto, Processes, At, Places, Idle
<1>3. LockHeld'
  BY NobodyIsNoProc DEF SaveGlobal, End, Goto, Processes, LockHeld
<1>4. Current'
  BY DEF SaveGlobal, End, Goto, Processes, LockHeld, Current
<1>5. InOrder'
  BY DEF SaveGlobal, End, Goto, history, InOrder, PlaintextGoesLast
<1> QED BY <1>1, <1>2, <1>3, <1>4, <1>5

LEMMA ReadProjectKeeps ==
    ASSUME DInv, NEW p \in Procs, ReadProject(p)
    PROVE  DInv'
<1> USE DEF DInv
<1>1. Files'
  BY DEF ReadProject, files, history, Files
<1>2. Processes'
  BY DEF ReadProject, Keeps, Goto, Holds, Files, Processes, At, Places
<1>3. LockHeld'
  BY DEF ReadProject, Keeps, Goto, LockHeld
<1>4. Current'
  BY DEF ReadProject, Goto, Holds, files, Current
<1>5. InOrder'
  BY DEF ReadProject, Keeps, Goto, files, history, InOrder, PlaintextGoesLast
<1> QED BY <1>1, <1>2, <1>3, <1>4, <1>5

LEMMA ReadGlobalKeeps ==
    ASSUME DInv, NEW p \in Procs, ReadGlobal(p)
    PROVE  DInv'
<1> USE DEF DInv
<1>1. Files'
  BY DEF ReadGlobal, files, history, Files
<1>2. Processes'
  BY DEF ReadGlobal, Goto, Processes, At, Places
<1>3. LockHeld'
  BY DEF ReadGlobal, Goto, LockHeld
<1>4. Current'
  BY DEF ReadGlobal, Goto, files, Current
<1>5. InOrder'
  BY DEF ReadGlobal, Goto, files, history, InOrder, PlaintextGoesLast
<1> QED BY <1>1, <1>2, <1>3, <1>4, <1>5

LEMMA ResolveKeeps ==
    ASSUME DInv, NEW p \in Procs, Resolve(p)
    PROVE  DInv'
<1> USE DEF DInv
<1>1. Files'
  BY DEF Resolve, files, history, Files
<1>2. Processes'
  <2>1. pc' \in [Procs -> Places] /\ job' \in [Procs -> Offered \cup {Idle}]
    BY DEF Resolve, End, Goto, Processes, Places
  <2>2. copy' \in [Procs -> Manifest \cup {NoFile}]
    BY BlankIsManifest DEF Resolve, End, Processes
  <2>3. \A q \in Procs : job'[q] = Idle <=> pc'[q] = "idle"
    BY DEF Resolve, End, Goto, Processes
  <2>4. \A q \in Procs : job'[q].op \in At(pc'[q])
    BY DEF Resolve, End, Goto, Processes, Idle, Places, At
  <2>5. \A q \in Procs : pc'[q] \notin {"global", "resolve", "child"} => copy'[q] \in Manifest
    BY BlankIsManifest DEF Resolve, End, Goto, Processes
  <2> QED BY <2>1, <2>2, <2>3, <2>4, <2>5 DEF Processes
<1>3. LockHeld'
  BY DEF Resolve, End, Goto, Processes, LockHeld
<1>4. Current'
  BY DEF Resolve, End, Goto, files, Processes, Current
<1>5. InOrder'
  BY DEF Resolve, End, Goto, files, history, Processes, InOrder, PlaintextGoesLast
<1> QED BY <1>1, <1>2, <1>3, <1>4, <1>5

LEMMA EndKeeps ==
    ASSUME DInv, NEW p \in Procs, End(p), UNCHANGED <<files, history>>
    PROVE  DInv'
<1> USE DEF DInv
<1>1. Files'
  BY DEF files, history, Files
<1>2. Processes'
  BY BlankIsManifest DEF End, Goto, Processes, At, Places, Idle
<1>3. LockHeld'
  BY NobodyIsNoProc DEF End, Goto, Processes, LockHeld
<1>4. Current'
  BY DEF End, Goto, files, Processes, Current
<1>5. InOrder'
  BY DEF End, Goto, files, history, Processes, InOrder, PlaintextGoesLast
<1> QED BY <1>1, <1>2, <1>3, <1>4, <1>5

LEMMA InitHolds == Init => DInv
<1> SUFFICES ASSUME Init PROVE DInv
  OBVIOUS
<1>1. Files /\ LockHeld /\ Current /\ InOrder
  BY BlankIsManifest, NobodyIsNoProc DEF Init, Files, LockHeld, Current, InOrder,
         PlaintextGoesLast
<1>2. Processes
  BY BlankIsManifest DEF Init, Processes, Places, At, Idle
<1> QED BY <1>1, <1>2 DEF DInv

LEMMA StepKeeps ==
    ASSUME DInv, [Next]_vars
    PROVE  DInv'
<1>1. CASE UNCHANGED vars
  BY <1>1 DEF vars, files, history, DInv, Files, Processes, LockHeld, Current, InOrder,
              PlaintextGoesLast
<1>2. CASE Next
  <2>1. PICK p \in Procs :
          \/ \E j \in Offered : Start(p, j)
          \/ ImportVault(p) \/ AddVault(p) \/ RemoveFromVault(p)
          \/ LoadProject(p) \/ SaveProject(p) \/ Zero(p) \/ Unlink(p)
          \/ AcquireGlobal(p) \/ AcquireTimesOut(p) \/ LoadGlobal(p) \/ SaveGlobal(p)
          \/ ReadProject(p) \/ ReadGlobal(p) \/ Resolve(p) \/ ChildExits(p)
          \/ Kill(p)
    BY <1>2 DEF Next
  <2>2. CASE \E j \in Offered : Start(p, j)
    BY <2>2, StartKeeps
  <2>3. CASE ImportVault(p) \/ AddVault(p) \/ RemoveFromVault(p)
    BY <2>3, ImportVaultKeeps, AddVaultKeeps, RemoveFromVaultKeeps
  <2>4. CASE LoadProject(p) \/ SaveProject(p) \/ Zero(p) \/ Unlink(p)
    BY <2>4, LoadProjectKeeps, SaveProjectKeeps, ZeroKeeps, UnlinkKeeps
  <2>5. CASE AcquireGlobal(p) \/ LoadGlobal(p) \/ SaveGlobal(p)
    BY <2>5, AcquireGlobalKeeps, LoadGlobalKeeps, SaveGlobalKeeps
  <2>6. CASE ReadProject(p) \/ ReadGlobal(p) \/ Resolve(p)
    BY <2>6, ReadProjectKeeps, ReadGlobalKeeps, ResolveKeeps
  <2>7. CASE AcquireTimesOut(p) \/ ChildExits(p) \/ Kill(p)
    <3>1. End(p) /\ UNCHANGED <<files, history>>
      BY <2>7 DEF AcquireTimesOut, ChildExits, Kill
    <3> QED BY <3>1, EndKeeps
  <2> QED BY <2>1, <2>2, <2>3, <2>4, <2>5, <2>6, <2>7
<1> QED BY <1>1, <1>2

LEMMA DInvAlways == Spec => []DInv
<1> QED BY InitHolds, StepKeeps, PTL DEF Spec

\* The plaintext of a .env file goes only when its Secrets are stored and its
\* Handles declared, for any number of imports that race each other, other
\* commands and their own death (cmdImport's order).
THEOREM ImportLosesNothing == Spec => []PlaintextGoesLast
<1>1. DInv => PlaintextGoesLast
  BY DEF DInv, InOrder
<1> QED BY <1>1, DInvAlways, PTL

\* A Global declaration changes only by a command about its Handle, whatever
\* the processes that rewrite the Global Manifest at once (UpdateGlobal).
THEOREM GlobalIsNeverOverwritten == Spec => GlobalDeclarationsKept
<1>1. ASSUME DInv, [Next]_vars, NEW h \in Handles, global'[h] # global[h]
      PROVE  \E p \in Procs : /\ job[p].op \in {"global", "local", "add"} /\ job[p].h = h
                              /\ pc[p] # "idle" /\ pc'[p] = "idle"
  <2>1. PICK p \in Procs : SaveGlobal(p)
    BY <1>1 DEF Next, vars, files, Start, ImportVault, AddVault, RemoveFromVault,
           LoadProject, SaveProject, Zero, Unlink, AcquireGlobal, AcquireTimesOut,
           LoadGlobal, ReadProject, ReadGlobal, Resolve, ChildExits, Kill
  <2>2. /\ job[p] \in Offered /\ job[p].op \in {"global", "local", "add"}
        /\ pc[p] = "gsave" /\ copy[p].entries = global /\ global \in Entries
    BY <1>1, <2>1 DEF SaveGlobal, DInv, Files, Processes, At, Current
  <2>3. \A k \in Handles : k # job[p].h => global'[k] = global[k]
    BY <2>1, <2>2, Lines, DeclareIsEntries DEF SaveGlobal
  <2>4. pc'[p] = "idle"
    BY <1>1, <2>1 DEF SaveGlobal, End, Goto, DInv, Processes
  <2>5. job[p].h = h
    BY <1>1, <2>3
  <2> QED BY <2>2, <2>4, <2>5
<1>2. DInv /\ [Next]_vars =>
        [\A h \in Handles :
           global'[h] # global[h] =>
              \E p \in Procs : job[p].op \in {"global", "local", "add"} /\ job[p].h = h
                               /\ pc[p] # "idle" /\ pc'[p] = "idle"]_vars
  BY <1>1
<1> QED BY <1>2, DInvAlways, PTL DEF Spec, GlobalDeclarationsKept

-----------------------------------------------------------------------------
(* Induction over numbers and folds over sequences. *)

\* Every nonempty set of numbers has a least element.
LEMMA Least ==
    ASSUME NEW T \in SUBSET Nat, T # {}
    PROVE  \E n \in T : \A m \in T : n <= m
<1> DEFINE R == OpToRel(<, Nat)
<1>1. PICK n \in T : \A m \in T : <<m, n>> \notin R
  <2> HIDE DEF R
  <2>1. IsWellFoundedOn(R, Nat)
    BY NatLessThanWellFounded DEF R
  <2> QED BY <2>1, WFMin
<1>2. ASSUME NEW m \in T, m < n PROVE FALSE
  <2>1. <<m, n>> \in Nat \X Nat /\ <<m, n>>[1] < <<m, n>>[2]
    BY <1>2
  <2> QED BY <1>1, <2>1 DEF OpToRel
<1> QED BY <1>2

\* Induction up to n, over a set of numbers rather than an operator.
LEMMA Climb ==
    ASSUME NEW n \in Nat, NEW T, 0 \in T, \A k \in 0..n - 1 : k \in T => k + 1 \in T
    PROVE  \A k \in 0..n : k \in T
<1> DEFINE U == (0..n) \ T
<1>1. SUFFICES ASSUME U # {} PROVE FALSE
  OBVIOUS
<1>2. PICK k \in U : \A m \in U : k <= m
  <2>1. U \in SUBSET Nat
    OBVIOUS
  <2> HIDE DEF U
  <2> QED BY <1>1, <2>1, Least
<1>3. k - 1 \in T /\ k - 1 \in 0..n - 1 /\ k = (k - 1) + 1
  BY <1>2
<1> QED BY <1>2, <1>3

LEMMA Reaches ==
    ASSUME NEW n \in Nat, NEW T, 0 \in T, \A k \in 0..n - 1 : k \in T => k + 1 \in T
    PROVE  n \in T
<1>1. \A k \in 0..n : k \in T
  BY Climb
<1> QED BY <1>1

\* The greatest element of a set of positions.
LEMMA MaxIs ==
    ASSUME NEW s \in SUBSET Nat, NEW m \in s, \A i \in s : i <= m
    PROVE  Max(s) = m
<1>1. \E x \in s : \A i \in s : x >= i
  OBVIOUS
<1>2. Max(s) \in s /\ \A i \in s : Max(s) >= i
  BY <1>1 DEF Max
<1> DEFINE x == Max(s)
<1> HIDE DEF x
<1>3. x \in Nat /\ m \in Nat /\ x >= m /\ x <= m
  BY <1>2 DEF x
<1>4. x = m
  BY <1>3
<1> QED BY <1>4 DEF x

\* MapThenFoldSet's recursion over the sets of positions has a solution, for an
\* op given as a function.
Iterates(h, n, base, g) ==
    \A s \in SUBSET (1..n) :
        h[s] = IF s = {} THEN base ELSE g[<<h[s \ {Max(s)}], Max(s)>>]

LEMMA IterationExists ==
    ASSUME NEW X, NEW n \in Nat, NEW base \in X, NEW g \in [X \X (1..n) -> X]
    PROVE  \E h \in [SUBSET (1..n) -> X] : Iterates(h, n, base, g)
<1> DEFINE Has(k) == \E h \in [SUBSET (1..k) -> X] : Iterates(h, k, base, g)
           T == {k \in 0..n : Has(k)}
<1>1. 0 \in T
  <2> DEFINE h == [s \in SUBSET (1..0) |-> base]
  <2>1. \A s \in SUBSET (1..0) : s = {}
    OBVIOUS
  <2>2. h \in [SUBSET (1..0) -> X] /\ Iterates(h, 0, base, g)
    BY <2>1 DEF Iterates
  <2> QED BY <2>2
<1>2. ASSUME NEW k \in 0..n - 1, k \in T PROVE k + 1 \in T
  <2>1. PICK h \in [SUBSET (1..k) -> X] : Iterates(h, k, base, g)
    BY <1>2
  <2> DEFINE j == k + 1
             H == [s \in SUBSET (1..j) |-> IF j \in s THEN g[<<h[s \ {j}], j>>] ELSE h[s]]
  <2>2. j \in 1..n /\ k \in Nat /\ j \in 0..n
    OBVIOUS
  <2>3. \A s \in SUBSET (1..j) : s \ {j} \in SUBSET (1..k) /\ (j \notin s => s \in SUBSET (1..k))
    OBVIOUS
  <2>4. H \in [SUBSET (1..j) -> X]
    <3>1. ASSUME NEW s \in SUBSET (1..j)
          PROVE  (IF j \in s THEN g[<<h[s \ {j}], j>>] ELSE h[s]) \in X
      <4> HIDE DEF j
      <4> QED BY <2>2, <2>3
    <3> QED BY <3>1
  <2>5. ASSUME NEW s \in SUBSET (1..j)
        PROVE  H[s] = IF s = {} THEN base ELSE g[<<H[s \ {Max(s)}], Max(s)>>]
    <3>1. CASE j \in s
      <4>1. Max(s) = j
        <5>1. s \in SUBSET Nat /\ \A i \in s : i <= j
          OBVIOUS
        <5> QED BY <3>1, <5>1, MaxIs
      <4>2. s \ {j} \in SUBSET (1..j) /\ j \notin s \ {j}
        OBVIOUS
      <4>3. H[s \ {j}] = h[s \ {j}]
        <5> DEFINE u == s \ {j}
        <5> HIDE DEF u, j
        <5> QED BY <4>2 DEF u
      <4> HIDE DEF j
      <4> QED BY <3>1, <4>1, <4>3
    <3>2. CASE j \notin s
      <4>1. s \in SUBSET (1..k) /\ H[s] = h[s]
        BY <2>3, <3>2
      <4>2. s \ {Max(s)} \in SUBSET (1..k) /\ j \notin s \ {Max(s)} /\ s \ {Max(s)} \in SUBSET (1..j)
        BY <3>2, <4>1
      <4>3. H[s \ {Max(s)}] = h[s \ {Max(s)}]
        <5> DEFINE u == s \ {Max(s)}
        <5> HIDE DEF u, j
        <5> QED BY <4>2 DEF u
      <4> HIDE DEF H, j
      <4> QED BY <2>1, <4>1, <4>3 DEF Iterates
    <3> QED BY <3>1, <3>2
  <2> HIDE DEF H
  <2>6. Iterates(H, j, base, g)
    <3> HIDE DEF j
    <3> QED BY <2>5 DEF Iterates
  <2>7. Has(j)
    <3> HIDE DEF j
    <3> QED BY <2>4, <2>6
  <2> QED BY <2>2, <2>7
<1> HIDE DEF T
<1>3. n \in T
  BY <1>1, <1>2, Climb
<1> QED BY <1>3 DEF T

\* The first k positions.
LEMMA UpTo ==
    ASSUME NEW n \in Nat, NEW k \in 1..n
    PROVE  /\ 1..k \in SUBSET (1..n) /\ 1..k # {} /\ (1..k) \ {k} = 1..k - 1
           /\ Max(1..k) = k
<1> DEFINE s == 1..k
<1>1. /\ s \in SUBSET (1..n) /\ s # {} /\ s \ {k} = 1..k - 1 /\ s \in SUBSET Nat /\ k \in s
      /\ \A i \in s : i <= k
  OBVIOUS
<1> HIDE DEF s
<1>2. Max(s) = k
  BY <1>1, MaxIs
<1> QED BY <1>1, <1>2 DEF s

\* Its values at the first positions, one position after the other.
Goes(f, n, base, g) == f[0] = base /\ \A k \in 1..n : f[k] = g[<<f[k - 1], k>>]

LEMMA FoldSteps ==
    ASSUME NEW X, NEW n \in Nat, NEW base \in X, NEW g \in [X \X (1..n) -> X]
    PROVE  \E f \in [0..n -> X] : Goes(f, n, base, g)
<1>1. PICK h \in [SUBSET (1..n) -> X] : Iterates(h, n, base, g)
  BY IterationExists
<1> DEFINE f == [k \in 0..n |-> h[1..k]]
<1>2. f \in [0..n -> X]
  <2>1. \A k \in 0..n : 1..k \in SUBSET (1..n)
    OBVIOUS
  <2> QED BY <2>1
<1>3. f[0] = base
  <2>1. 1..0 = {} /\ 0 \in 0..n /\ {} \in SUBSET (1..n)
    OBVIOUS
  <2>2. f[0] = h[1..0]
    BY <2>1
  <2> QED BY <1>1, <2>1, <2>2 DEF Iterates
<1>4. ASSUME NEW k \in 1..n PROVE f[k] = g[<<f[k - 1], k>>]
  <2> DEFINE s == 1..k
             l == k - 1
             v == 1..l
  <2>1. f[k] = h[s] /\ f[l] = h[v]
    OBVIOUS
  <2>2. s \in SUBSET (1..n) /\ s # {} /\ s \ {k} = v /\ Max(s) = k
    BY UpTo
  <2> HIDE DEF s, f, v, l
  <2>3. h[s] = g[<<h[s \ {Max(s)}], Max(s)>>]
    BY <1>1, <2>2 DEF Iterates
  <2>4. f[k] = g[<<f[l], k>>]
    BY <2>1, <2>2, <2>3
  <2> QED BY <2>4 DEF l
<1>5. Goes(f, n, base, g)
  <2> HIDE DEF f
  <2> QED BY <1>3, <1>4 DEF Goes
<1> QED BY <1>2, <1>5

\* The greatest of some positions is one of them.
LEMMA MaxIn ==
    ASSUME NEW n \in Nat, NEW s \in SUBSET (1..n), s # {}
    PROVE  Max(s) \in s
<1> DEFINE T == {k \in Nat : n - k \in s}
<1>1. T # {}
  <2>1. PICK i \in s : TRUE
    OBVIOUS
  <2>2. n - i \in Nat /\ n - (n - i) = i
    OBVIOUS
  <2>3. n - i \in T
    BY <2>2
  <2> QED BY <2>3
<1>2. T \in SUBSET Nat
  OBVIOUS
<1> HIDE DEF T
<1>3. PICK k \in T : \A m \in T : k <= m
  BY <1>1, <1>2, Least
<1> DEFINE m == n - k
<1>4. m \in s /\ k \in Nat
  BY <1>3 DEF T
<1>5. ASSUME NEW i \in s PROVE i <= m
  <2>1. n - i \in Nat /\ n - (n - i) = i
    OBVIOUS
  <2>2. n - i \in T
    BY <2>1 DEF T
  <2> QED BY <1>3, <1>4, <2>2
<1> HIDE DEF m
<1>6. Max(s) = m
  BY <1>4, <1>5, MaxIs
<1> QED BY <1>4, <1>6

\* A fold by an op that is g as long as it is given elements of X.
StepsIn(g, X, n) == g \in [X \X (1..n) -> X]

GoesBy(iter, X, n, g) ==
    \A k \in 1..n : iter[1..k - 1] \in X => iter[1..k] = g[<<iter[1..k - 1], k>>]

GoesTo(last, X, n, base, g) ==
    \E f \in [0..n -> X] : Goes(f, n, base, g) /\ f[n] = last

LEMMA FoldOf ==
    ASSUME NEW X, NEW n \in Nat, NEW base \in X, NEW g, StepsIn(g, X, n),
           NEW iter, iter[{}] = base, GoesBy(iter, X, n, g)
    PROVE  GoesTo(iter[1..n], X, n, base, g)
<1>1. PICK f \in [0..n -> X] : Goes(f, n, base, g)
  BY FoldSteps DEF StepsIn
<1> DEFINE T == {k \in 0..n : f[k] = iter[1..k]}
<1>2. 0 \in T
  <2>1. 1..0 = {} /\ 0 \in 0..n
    OBVIOUS
  <2> QED BY <1>1, <2>1 DEF Goes
<1>3. ASSUME NEW k \in 0..n - 1, k \in T PROVE k + 1 \in T
  <2> DEFINE j == k + 1
  <2>1. j \in 1..n /\ j - 1 = k /\ j \in 0..n /\ k \in 0..n
    OBVIOUS
  <2>2. f[k] = iter[1..k] /\ f[k] \in X
    BY <1>3, <2>1
  <2> HIDE DEF j, T
  <2>3. iter[1..j] = g[<<iter[1..k], k + 1>>]
    BY <2>1, <2>2 DEF j, GoesBy
  <2>4. f[j] = g[<<f[k], k + 1>>]
    BY <1>1, <2>1 DEF j, Goes
  <2>5. f[j] = iter[1..j]
    BY <2>2, <2>3, <2>4
  <2> QED BY <2>1, <2>5 DEF T, j
<1> HIDE DEF T
<1>4. \A k \in 0..n : k \in T
  BY <1>2, <1>3, Climb
<1>5. n \in T
  BY <1>4
<1>6. f[n] = iter[1..n]
  BY <1>5 DEF T
<1> QED BY <1>1, <1>6 DEF GoesTo

-----------------------------------------------------------------------------
(* The folds of the model, one step after the other: a fold goes through    *)
(* the values of a function f at 0, 1, ..., and ends at the last of them.   *)

LEMMA WithRefKeeps ==
    ASSUME NEW rs \in Seq(Ref), NEW w \in Ref
    PROVE  WithRef(rs, w) \in Seq(Ref)
<1>1. Len(rs) \in Nat /\ \A i \in 1..Len(rs) : rs[i] \in Ref
  BY LenProperties, ElementOfSeq
<1>2. CASE \E i \in 1..Len(rs) : rs[i].h = w.h
  <2> DEFINE t == [i \in 1..Len(rs) |->
            IF rs[i].h = w.h
            THEN [rs[i] EXCEPT !.override = w.override, !.fromGlobal = FALSE]
            ELSE rs[i]]
  <2>1. \A i \in 1..Len(rs) : t[i] \in Ref
    BY <1>1 DEF Ref
  <2>2. t \in [1..Len(rs) -> Ref]
    BY <2>1
  <2> HIDE DEF t
  <2>3. t \in Seq(Ref)
    BY <1>1, <2>2, SeqDef
  <2> QED BY <1>2, <2>3 DEF WithRef, t
<1>3. CASE ~\E i \in 1..Len(rs) : rs[i].h = w.h
  <2>1. Append(rs, w) \in Seq(Ref)
    BY AppendProperties
  <2> QED BY <1>3, <2>1 DEF WithRef
<1> QED BY <1>2, <1>3

LEMMA ReplaceOrAppendKeeps ==
    ASSUME NEW rs \in Seq(Ref), NEW w \in Ref
    PROVE  ReplaceOrAppend(rs, w) \in Seq(Ref)
<1>1. Len(rs) \in Nat /\ \A i \in 1..Len(rs) : rs[i] \in Ref
  BY LenProperties, ElementOfSeq
<1>2. CASE \E i \in 1..Len(rs) : rs[i].h = w.h
  <2> DEFINE t == [i \in 1..Len(rs) |-> IF rs[i].h = w.h THEN w ELSE rs[i]]
  <2>1. \A i \in 1..Len(rs) : t[i] \in Ref
    BY <1>1
  <2>2. t \in [1..Len(rs) -> Ref]
    BY <2>1
  <2> HIDE DEF t
  <2>3. t \in Seq(Ref)
    BY <1>1, <2>2, SeqDef
  <2> QED BY <1>2, <2>3 DEF ReplaceOrAppend, t
<1>3. CASE ~\E i \in 1..Len(rs) : rs[i].h = w.h
  <2>1. Append(rs, w) \in Seq(Ref)
    BY AppendProperties
  <2> QED BY <1>3, <2>1 DEF ReplaceOrAppend
<1> QED BY <1>2, <1>3

\* --with, one Ref after the other.
WithRefSteps(f, rs, ws) ==
    /\ f \in [0..Len(ws) -> Seq(Ref)] /\ f[0] = rs
    /\ \A k \in 1..Len(ws) : f[k] = WithRef(f[k - 1], ws[k])

LEMMA WithRefFolds ==
    ASSUME NEW rs \in Seq(Ref), NEW ws \in Seq(Ref)
    PROVE  \E f : WithRefSteps(f, rs, ws) /\ FoldLeft(WithRef, rs, ws) = f[Len(ws)]
<1> DEFINE n == Len(ws)
           X == Seq(Ref)
           g == [x \in X \X (1..n) |-> WithRef(x[1], ws[x[2]])]
<1>1. n \in Nat /\ DOMAIN ws = 1..n /\ \A k \in 1..n : ws[k] \in Ref
  BY LenProperties, ElementOfSeq
<1>2. rs \in X
  BY Zenon
<1>3. g \in [X \X (1..n) -> X]
  <2>1. ASSUME NEW x \in X \X (1..n) PROVE WithRef(x[1], ws[x[2]]) \in X
    <3>1. x[1] \in Seq(Ref) /\ ws[x[2]] \in Ref
      BY <1>1
    <3> QED BY <3>1, WithRefKeeps
  <2> QED BY <2>1
<1> DEFINE Is(h) == h = [s \in SUBSET (DOMAIN ws) |->
                IF s = {} THEN rs ELSE WithRef(h[s \ {Max(s)}], ws[Max(s)])]
           iter == CHOOSE h : Is(h)
<1>4. FoldLeft(WithRef, rs, ws) = iter[DOMAIN ws]
  BY DEF FoldLeft, MapThenFoldSet
<1>5. \E h : Is(h)
  <2>1. PICK h \in [SUBSET (1..n) -> X] : Iterates(h, n, rs, g)
    <3> HIDE DEF g, n, X
    <3> QED BY <1>1, <1>2, <1>3, IterationExists
  <2>2. ASSUME NEW s \in SUBSET (1..n)
        PROVE  h[s] = IF s = {} THEN rs ELSE WithRef(h[s \ {Max(s)}], ws[Max(s)])
    <3>1. s # {} => Max(s) \in 1..n
      <4> HIDE DEF n
      <4> QED BY <1>1, MaxIn
    <3>2. s \ {Max(s)} \in SUBSET (1..n)
      OBVIOUS
    <3> HIDE DEF n
    <3>3. h[s] = IF s = {} THEN rs ELSE g[<<h[s \ {Max(s)}], Max(s)>>]
      BY <2>1 DEF Iterates
    <3>4. h[s \ {Max(s)}] \in X
      BY <2>1, <3>2
    <3> QED BY <3>1, <3>3, <3>4
  <2>3. Is(h)
    <3> HIDE DEF n
    <3> QED BY <1>1, <2>1, <2>2
  <2> QED BY <2>3
<1>6. Is(iter)
  <2> HIDE DEF Is
  <2> QED BY <1>5
<1>7. /\ iter[{}] = rs
      /\ \A k \in 1..n : iter[1..k] = WithRef(iter[1..k - 1], ws[k])
  <2> HIDE DEF iter
  <2>1. \A s \in SUBSET (1..n) :
          iter[s] = IF s = {} THEN rs ELSE WithRef(iter[s \ {Max(s)}], ws[Max(s)])
    <3> HIDE DEF n
    <3> QED BY <1>1, <1>6
  <2>2. ASSUME NEW k \in 1..n PROVE iter[1..k] = WithRef(iter[1..k - 1], ws[k])
    <3> HIDE DEF n
    <3> DEFINE s == 1..k
    <3>1. s \in SUBSET (1..n) /\ s # {} /\ s \ {k} = 1..k - 1 /\ Max(s) = k
      BY <1>1, UpTo
    <3> HIDE DEF s
    <3>2. iter[s] = WithRef(iter[1..k - 1], ws[k])
      BY <2>1, <3>1
    <3> QED BY <3>2 DEF s
  <2>3. {} \in SUBSET (1..n)
    OBVIOUS
  <2> HIDE DEF n
  <2> QED BY <2>1, <2>2, <2>3
<1>8. PICK f \in [0..n -> X] : Goes(f, n, rs, g) /\ f[n] = iter[1..n]
  <2>1. ASSUME NEW k \in 1..n, iter[1..k - 1] \in X
        PROVE  iter[1..k] = g[<<iter[1..k - 1], k>>]
    <3> HIDE DEF n, iter
    <3>1. g[<<iter[1..k - 1], k>>] = WithRef(iter[1..k - 1], ws[k])
      BY <2>1
    <3> QED BY <1>7, <3>1
  <2>2. iter[{}] = rs
    <3> HIDE DEF iter
    <3> QED BY <1>7, Zenon
  <2>3. n \in Nat
    BY <1>1
  <2> HIDE DEF n, iter, g, X
  <2>4. GoesBy(iter, X, n, g) /\ StepsIn(g, X, n)
    BY <1>3, <2>1 DEF GoesBy, StepsIn
  <2>5. GoesTo(iter[1..n], X, n, rs, g)
    BY <1>2, <2>2, <2>3, <2>4, FoldOf
  <2> QED BY <2>5 DEF GoesTo
<1>9. \A k \in 1..n : f[k] = WithRef(f[k - 1], ws[k])
  <2> HIDE DEF n, iter, X
  <2>1. \A k \in 1..n : f[k - 1] \in X
    <3>1. \A k \in 1..n : k - 1 \in 0..n
      BY <1>1
    <3> QED BY <1>8, <3>1
  <2> QED BY <1>8, <2>1 DEF Goes
<1>10. FoldLeft(WithRef, rs, ws) = f[n]
  <2> HIDE DEF n, iter
  <2> QED BY <1>1, <1>4, <1>8
<1> HIDE DEF iter, Is, g
<1> QED BY <1>8, <1>9, <1>10 DEF WithRefSteps, Goes

\* The project's declarations over the Global ones.
ReplaceSteps(f, rs, ws) ==
    /\ f \in [0..Len(ws) -> Seq(Ref)] /\ f[0] = rs
    /\ \A k \in 1..Len(ws) : f[k] = ReplaceOrAppend(f[k - 1], ws[k])

LEMMA ReplaceFolds ==
    ASSUME NEW rs \in Seq(Ref), NEW ws \in Seq(Ref)
    PROVE  \E f : ReplaceSteps(f, rs, ws) /\ FoldLeft(ReplaceOrAppend, rs, ws) = f[Len(ws)]
<1> DEFINE n == Len(ws)
           X == Seq(Ref)
           g == [x \in X \X (1..n) |-> ReplaceOrAppend(x[1], ws[x[2]])]
<1>1. n \in Nat /\ DOMAIN ws = 1..n /\ \A k \in 1..n : ws[k] \in Ref
  BY LenProperties, ElementOfSeq
<1>2. rs \in X
  BY Zenon
<1>3. g \in [X \X (1..n) -> X]
  <2>1. ASSUME NEW x \in X \X (1..n) PROVE ReplaceOrAppend(x[1], ws[x[2]]) \in X
    <3>1. x[1] \in Seq(Ref) /\ ws[x[2]] \in Ref
      BY <1>1
    <3> QED BY <3>1, ReplaceOrAppendKeeps
  <2> QED BY <2>1
<1> DEFINE Is(h) == h = [s \in SUBSET (DOMAIN ws) |->
                IF s = {} THEN rs ELSE ReplaceOrAppend(h[s \ {Max(s)}], ws[Max(s)])]
           iter == CHOOSE h : Is(h)
<1>4. FoldLeft(ReplaceOrAppend, rs, ws) = iter[DOMAIN ws]
  BY DEF FoldLeft, MapThenFoldSet
<1>5. \E h : Is(h)
  <2>1. PICK h \in [SUBSET (1..n) -> X] : Iterates(h, n, rs, g)
    <3> HIDE DEF g, n, X
    <3> QED BY <1>1, <1>2, <1>3, IterationExists
  <2>2. ASSUME NEW s \in SUBSET (1..n)
        PROVE  h[s] = IF s = {} THEN rs ELSE ReplaceOrAppend(h[s \ {Max(s)}], ws[Max(s)])
    <3>1. s # {} => Max(s) \in 1..n
      <4> HIDE DEF n
      <4> QED BY <1>1, MaxIn
    <3>2. s \ {Max(s)} \in SUBSET (1..n)
      OBVIOUS
    <3> HIDE DEF n
    <3>3. h[s] = IF s = {} THEN rs ELSE g[<<h[s \ {Max(s)}], Max(s)>>]
      BY <2>1 DEF Iterates
    <3>4. h[s \ {Max(s)}] \in X
      BY <2>1, <3>2
    <3> QED BY <3>1, <3>3, <3>4
  <2>3. Is(h)
    <3> HIDE DEF n
    <3> QED BY <1>1, <2>1, <2>2
  <2> QED BY <2>3
<1>6. Is(iter)
  <2> HIDE DEF Is
  <2> QED BY <1>5
<1>7. /\ iter[{}] = rs
      /\ \A k \in 1..n : iter[1..k] = ReplaceOrAppend(iter[1..k - 1], ws[k])
  <2> HIDE DEF iter
  <2>1. \A s \in SUBSET (1..n) :
          iter[s] = IF s = {} THEN rs ELSE ReplaceOrAppend(iter[s \ {Max(s)}], ws[Max(s)])
    <3> HIDE DEF n
    <3> QED BY <1>1, <1>6
  <2>2. ASSUME NEW k \in 1..n PROVE iter[1..k] = ReplaceOrAppend(iter[1..k - 1], ws[k])
    <3> HIDE DEF n
    <3> DEFINE s == 1..k
    <3>1. s \in SUBSET (1..n) /\ s # {} /\ s \ {k} = 1..k - 1 /\ Max(s) = k
      BY <1>1, UpTo
    <3> HIDE DEF s
    <3>2. iter[s] = ReplaceOrAppend(iter[1..k - 1], ws[k])
      BY <2>1, <3>1
    <3> QED BY <3>2 DEF s
  <2>3. {} \in SUBSET (1..n)
    OBVIOUS
  <2> HIDE DEF n
  <2> QED BY <2>1, <2>2, <2>3
<1>8. PICK f \in [0..n -> X] : Goes(f, n, rs, g) /\ f[n] = iter[1..n]
  <2>1. ASSUME NEW k \in 1..n, iter[1..k - 1] \in X
        PROVE  iter[1..k] = g[<<iter[1..k - 1], k>>]
    <3> HIDE DEF n, iter
    <3>1. g[<<iter[1..k - 1], k>>] = ReplaceOrAppend(iter[1..k - 1], ws[k])
      BY <2>1
    <3> QED BY <1>7, <3>1
  <2>2. iter[{}] = rs
    <3> HIDE DEF iter
    <3> QED BY <1>7, Zenon
  <2>3. n \in Nat
    BY <1>1
  <2> HIDE DEF n, iter, g, X
  <2>4. GoesBy(iter, X, n, g) /\ StepsIn(g, X, n)
    BY <1>3, <2>1 DEF GoesBy, StepsIn
  <2>5. GoesTo(iter[1..n], X, n, rs, g)
    BY <1>2, <2>2, <2>3, <2>4, FoldOf
  <2> QED BY <2>5 DEF GoesTo
<1>9. \A k \in 1..n : f[k] = ReplaceOrAppend(f[k - 1], ws[k])
  <2> HIDE DEF n, iter, X
  <2>1. \A k \in 1..n : f[k - 1] \in X
    <3>1. \A k \in 1..n : k - 1 \in 0..n
      BY <1>1
    <3> QED BY <1>8, <3>1
  <2> QED BY <1>8, <2>1 DEF Goes
<1>10. FoldLeft(ReplaceOrAppend, rs, ws) = f[n]
  <2> HIDE DEF n, iter
  <2> QED BY <1>1, <1>4, <1>8
<1> HIDE DEF iter, Is, g
<1> QED BY <1>8, <1>9, <1>10 DEF ReplaceSteps, Goes

-----------------------------------------------------------------------------
(* What a Resolve has come to. *)

Got == [h : Handles, name : Names, fromGlobal : BOOLEAN]

Outcome == [got : Seq(Got), skipped : SUBSET Handles, bound : [Names -> Ref \cup {Absent}],
            error : {"none", "missing", "short", "collision"}]

Environ == [Names -> {"long", "short", Absent}]

\* The first of three names, of which the last is one.
LEMMA FirstIs ==
    ASSUME NEW a \in NameOrNone, NEW b \in NameOrNone, NEW c \in Names
    PROVE  First(<<a, b, c>>) = IF a # Absent THEN a ELSE IF b # Absent THEN b ELSE c
<1> DEFINE s == <<a, b, c>>
           I == {i \in 1..Len(s) : s[i] # Absent}
<1>1. Len(s) = 3 /\ s[1] = a /\ s[2] = b /\ s[3] = c
  OBVIOUS
<1>2. SelectInSeq(s, LAMBDA n : n # Absent) = IF I # {} THEN Min(I) ELSE 0
  BY DEF SelectInSeq
<1>3. First(s) = s[SelectInSeq(s, LAMBDA n : n # Absent)]
  BY DEF First
<1>4. ASSUME NEW m \in I, \A i \in I : m <= i PROVE Min(I) = m
  <2>1. m \in Nat /\ \A i \in I : i \in Nat
    BY <1>1
  <2> HIDE DEF I
  <2>2. Min(I) \in I /\ \A i \in I : Min(I) <= i
    BY <1>4 DEF Min
  <2> DEFINE x == Min(I)
  <2> HIDE DEF x
  <2>3. x \in Nat /\ x <= m /\ m <= x
    BY <1>4, <2>1, <2>2 DEF x
  <2>4. x = m
    BY <2>1, <2>3
  <2> QED BY <2>4 DEF x
<1>5. c # Absent
  BY DefaultsAreNames
<1>6. ASSUME NEW m \in 1..3, s[m] # Absent, \A i \in 1..m - 1 : s[i] = Absent
      PROVE  First(s) = s[m]
  <2>1. m \in I /\ \A i \in I : m <= i
    BY <1>1, <1>6
  <2> HIDE DEF I, s
  <2> QED BY <1>2, <1>3, <1>4, <2>1
<1> HIDE DEF I
<1>7. CASE a # Absent
  <2>1. First(s) = s[1]
    BY <1>1, <1>6, <1>7
  <2> QED BY <1>1, <1>7, <2>1
<1>8. CASE a = Absent /\ b # Absent
  <2>1. First(s) = s[2]
    BY <1>1, <1>6, <1>8
  <2> QED BY <1>1, <1>8, <2>1
<1>9. CASE a = Absent /\ b = Absent
  <2>1. First(s) = s[3]
    BY <1>1, <1>5, <1>6, <1>9
  <2> QED BY <1>1, <1>9, <2>1
<1> QED BY <1>7, <1>8, <1>9

LEMMA FreshIsOutcome == Fresh \in Outcome
<1>1. <<>> \in Seq(Got)
  BY EmptySeq
<1> QED BY <1>1 DEF Fresh, Outcome

LEMMA BindKeeps ==
    ASSUME NEW acc \in Outcome, NEW r \in Ref, NEW name \in Names
    PROVE  Bind(acc, r, name) \in Outcome
<1>1. Fail(acc, "collision") \in Outcome
  BY DEF Fail, Outcome
<1> DEFINE s == [h |-> r.h, name |-> name, fromGlobal |-> r.fromGlobal]
<1>2. s \in Got
  BY DEF Ref, Got
<1> HIDE DEF s
<1>3. Append(acc.got, s) \in Seq(Got)
  BY <1>2, AppendProperties DEF Outcome
<1>4. [acc EXCEPT !.bound[name] = r, !.got = Append(@, s)] \in Outcome
  BY <1>3 DEF Outcome
<1> QED BY <1>1, <1>4 DEF Bind, s

LEMMA UnresolvedKeeps ==
    ASSUME NEW acc \in Outcome, NEW r \in Ref, NEW why \in {"missing", "short"}
    PROVE  Unresolved(acc, r, why) \in Outcome
BY DEF Unresolved, Fail, Outcome, Ref

\* One Ref of resolveFromVault, and one of resolveFromEnv.
VaultStep(v, acc, r) ==
    IF acc.error # "none" THEN acc
    ELSE IF v[r.h] = Absent THEN Unresolved(acc, r, "missing")
    ELSE Bind(acc, r, First(<<r.override, r.declared, v[r.h]>>))

EnvStep(e, acc, r) ==
    LET name == First(<<r.override, r.declared, DefaultName[r.h]>>)
    IN  IF acc.error # "none" THEN acc
        ELSE IF e[name] = Absent THEN Unresolved(acc, r, "missing")
        ELSE IF e[name] = "short" THEN Unresolved(acc, r, "short")
        ELSE Bind(acc, r, name)

LEMMA VaultStepKeeps ==
    ASSUME NEW v \in Entries, NEW acc \in Outcome, NEW r \in Ref
    PROVE  VaultStep(v, acc, r) \in Outcome
<1>1. r.override \in NameOrNone /\ r.declared \in NameOrNone /\ v[r.h] \in NameOrNone
  BY DEF Ref, NameOrNone, Entries
<1>2. v[r.h] # Absent => First(<<r.override, r.declared, v[r.h]>>) \in Names
  BY <1>1, FirstIs DEF NameOrNone
<1> QED BY <1>2, BindKeeps, UnresolvedKeeps DEF VaultStep

LEMMA EnvStepKeeps ==
    ASSUME NEW e \in Environ, NEW acc \in Outcome, NEW r \in Ref
    PROVE  EnvStep(e, acc, r) \in Outcome
<1>1. r.override \in NameOrNone /\ r.declared \in NameOrNone /\ DefaultName[r.h] \in Names
  BY DefaultsAreNames DEF Ref, NameOrNone
<1>2. First(<<r.override, r.declared, DefaultName[r.h]>>) \in Names
  BY <1>1, FirstIs DEF NameOrNone
<1> QED BY <1>2, BindKeeps, UnresolvedKeeps DEF EnvStep

\* resolveFromVault, one Ref after the other.
VaultSteps(f, v, ws) ==
    /\ f \in [0..Len(ws) -> Outcome] /\ f[0] = Fresh
    /\ \A k \in 1..Len(ws) : f[k] = VaultStep(v, f[k - 1], ws[k])

LEMMA VaultFolds ==
    ASSUME NEW v \in Entries, NEW ws \in Seq(Ref)
    PROVE  \E f : VaultSteps(f, v, ws) /\ ResolveFromVault(ws, v) = f[Len(ws)]
<1> DEFINE n == Len(ws)
           X == Outcome
           g == [x \in X \X (1..n) |-> VaultStep(v, x[1], ws[x[2]])]
<1>1. n \in Nat /\ DOMAIN ws = 1..n /\ \A k \in 1..n : ws[k] \in Ref
  BY LenProperties, ElementOfSeq
<1>2. Fresh \in X
  BY FreshIsOutcome
<1>3. g \in [X \X (1..n) -> X]
  <2>1. ASSUME NEW x \in X \X (1..n) PROVE VaultStep(v, x[1], ws[x[2]]) \in X
    <3>1. x[1] \in Outcome /\ ws[x[2]] \in Ref
      BY <1>1
    <3> QED BY <3>1, VaultStepKeeps
  <2> QED BY <2>1
<1> DEFINE Is(h) == h = [s \in SUBSET (DOMAIN ws) |->
                IF s = {} THEN Fresh ELSE VaultStep(v, h[s \ {Max(s)}], ws[Max(s)])]
           iter == CHOOSE h : Is(h)
<1>4. ResolveFromVault(ws, v) = iter[DOMAIN ws]
  BY DEF FoldLeft, MapThenFoldSet, ResolveFromVault, VaultStep
<1>5. \E h : Is(h)
  <2>1. PICK h \in [SUBSET (1..n) -> X] : Iterates(h, n, Fresh, g)
    <3> HIDE DEF g, n, X
    <3> QED BY <1>1, <1>2, <1>3, IterationExists
  <2>2. ASSUME NEW s \in SUBSET (1..n)
        PROVE  h[s] = IF s = {} THEN Fresh ELSE VaultStep(v, h[s \ {Max(s)}], ws[Max(s)])
    <3>1. s # {} => Max(s) \in 1..n
      <4> HIDE DEF n
      <4> QED BY <1>1, MaxIn
    <3>2. s \ {Max(s)} \in SUBSET (1..n)
      OBVIOUS
    <3> HIDE DEF n
    <3>3. h[s] = IF s = {} THEN Fresh ELSE g[<<h[s \ {Max(s)}], Max(s)>>]
      BY <2>1 DEF Iterates
    <3>4. h[s \ {Max(s)}] \in X
      BY <2>1, <3>2
    <3> QED BY <3>1, <3>3, <3>4
  <2>3. Is(h)
    <3> HIDE DEF n
    <3> QED BY <1>1, <2>1, <2>2
  <2> QED BY <2>3
<1>6. Is(iter)
  <2> HIDE DEF Is
  <2> QED BY <1>5
<1>7. /\ iter[{}] = Fresh
      /\ \A k \in 1..n : iter[1..k] = VaultStep(v, iter[1..k - 1], ws[k])
  <2> HIDE DEF iter
  <2>1. \A s \in SUBSET (1..n) :
          iter[s] = IF s = {} THEN Fresh ELSE VaultStep(v, iter[s \ {Max(s)}], ws[Max(s)])
    <3> HIDE DEF n
    <3> QED BY <1>1, <1>6
  <2>2. ASSUME NEW k \in 1..n PROVE iter[1..k] = VaultStep(v, iter[1..k - 1], ws[k])
    <3> HIDE DEF n
    <3> DEFINE s == 1..k
    <3>1. s \in SUBSET (1..n) /\ s # {} /\ s \ {k} = 1..k - 1 /\ Max(s) = k
      BY <1>1, UpTo
    <3> HIDE DEF s
    <3>2. iter[s] = VaultStep(v, iter[1..k - 1], ws[k])
      BY <2>1, <3>1
    <3> QED BY <3>2 DEF s
  <2>3. {} \in SUBSET (1..n)
    OBVIOUS
  <2> HIDE DEF n
  <2> QED BY <2>1, <2>2, <2>3
<1>8. PICK f \in [0..n -> X] : Goes(f, n, Fresh, g) /\ f[n] = iter[1..n]
  <2>1. ASSUME NEW k \in 1..n, iter[1..k - 1] \in X
        PROVE  iter[1..k] = g[<<iter[1..k - 1], k>>]
    <3> HIDE DEF n, iter
    <3>1. g[<<iter[1..k - 1], k>>] = VaultStep(v, iter[1..k - 1], ws[k])
      BY <2>1
    <3> QED BY <1>7, <3>1
  <2>2. iter[{}] = Fresh
    <3> HIDE DEF iter
    <3> QED BY <1>7, Zenon
  <2>3. n \in Nat
    BY <1>1
  <2> HIDE DEF n, iter, g, X
  <2>4. GoesBy(iter, X, n, g) /\ StepsIn(g, X, n)
    BY <1>3, <2>1 DEF GoesBy, StepsIn
  <2>5. GoesTo(iter[1..n], X, n, Fresh, g)
    BY <1>2, <2>2, <2>3, <2>4, FoldOf
  <2> QED BY <2>5 DEF GoesTo
<1>9. \A k \in 1..n : f[k] = VaultStep(v, f[k - 1], ws[k])
  <2> HIDE DEF n, iter, X
  <2>1. \A k \in 1..n : f[k - 1] \in X
    <3>1. \A k \in 1..n : k - 1 \in 0..n
      BY <1>1
    <3> QED BY <1>8, <3>1
  <2> QED BY <1>8, <2>1 DEF Goes
<1>10. ResolveFromVault(ws, v) = f[n]
  <2> HIDE DEF n, iter
  <2> QED BY <1>1, <1>4, <1>8
<1> HIDE DEF iter, Is, g
<1> QED BY <1>8, <1>9, <1>10 DEF VaultSteps, Goes

\* resolveFromEnv, one Ref after the other.
EnvSteps(f, e, ws) ==
    /\ f \in [0..Len(ws) -> Outcome] /\ f[0] = Fresh
    /\ \A k \in 1..Len(ws) : f[k] = EnvStep(e, f[k - 1], ws[k])

LEMMA EnvFolds ==
    ASSUME NEW e \in Environ, NEW ws \in Seq(Ref)
    PROVE  \E f : EnvSteps(f, e, ws) /\ ResolveFromEnv(ws, e) = f[Len(ws)]
<1> DEFINE n == Len(ws)
           X == Outcome
           g == [x \in X \X (1..n) |-> EnvStep(e, x[1], ws[x[2]])]
<1>1. n \in Nat /\ DOMAIN ws = 1..n /\ \A k \in 1..n : ws[k] \in Ref
  BY LenProperties, ElementOfSeq
<1>2. Fresh \in X
  BY FreshIsOutcome
<1>3. g \in [X \X (1..n) -> X]
  <2>1. ASSUME NEW x \in X \X (1..n) PROVE EnvStep(e, x[1], ws[x[2]]) \in X
    <3>1. x[1] \in Outcome /\ ws[x[2]] \in Ref
      BY <1>1
    <3> QED BY <3>1, EnvStepKeeps
  <2> QED BY <2>1
<1> DEFINE Is(h) == h = [s \in SUBSET (DOMAIN ws) |->
                IF s = {} THEN Fresh ELSE EnvStep(e, h[s \ {Max(s)}], ws[Max(s)])]
           iter == CHOOSE h : Is(h)
<1>4. ResolveFromEnv(ws, e) = iter[DOMAIN ws]
  BY DEF FoldLeft, MapThenFoldSet, ResolveFromEnv, EnvStep
<1>5. \E h : Is(h)
  <2>1. PICK h \in [SUBSET (1..n) -> X] : Iterates(h, n, Fresh, g)
    <3> HIDE DEF g, n, X
    <3> QED BY <1>1, <1>2, <1>3, IterationExists
  <2>2. ASSUME NEW s \in SUBSET (1..n)
        PROVE  h[s] = IF s = {} THEN Fresh ELSE EnvStep(e, h[s \ {Max(s)}], ws[Max(s)])
    <3>1. s # {} => Max(s) \in 1..n
      <4> HIDE DEF n
      <4> QED BY <1>1, MaxIn
    <3>2. s \ {Max(s)} \in SUBSET (1..n)
      OBVIOUS
    <3> HIDE DEF n
    <3>3. h[s] = IF s = {} THEN Fresh ELSE g[<<h[s \ {Max(s)}], Max(s)>>]
      BY <2>1 DEF Iterates
    <3>4. h[s \ {Max(s)}] \in X
      BY <2>1, <3>2
    <3> QED BY <3>1, <3>3, <3>4
  <2>3. Is(h)
    <3> HIDE DEF n
    <3> QED BY <1>1, <2>1, <2>2
  <2> QED BY <2>3
<1>6. Is(iter)
  <2> HIDE DEF Is
  <2> QED BY <1>5
<1>7. /\ iter[{}] = Fresh
      /\ \A k \in 1..n : iter[1..k] = EnvStep(e, iter[1..k - 1], ws[k])
  <2> HIDE DEF iter
  <2>1. \A s \in SUBSET (1..n) :
          iter[s] = IF s = {} THEN Fresh ELSE EnvStep(e, iter[s \ {Max(s)}], ws[Max(s)])
    <3> HIDE DEF n
    <3> QED BY <1>1, <1>6
  <2>2. ASSUME NEW k \in 1..n PROVE iter[1..k] = EnvStep(e, iter[1..k - 1], ws[k])
    <3> HIDE DEF n
    <3> DEFINE s == 1..k
    <3>1. s \in SUBSET (1..n) /\ s # {} /\ s \ {k} = 1..k - 1 /\ Max(s) = k
      BY <1>1, UpTo
    <3> HIDE DEF s
    <3>2. iter[s] = EnvStep(e, iter[1..k - 1], ws[k])
      BY <2>1, <3>1
    <3> QED BY <3>2 DEF s
  <2>3. {} \in SUBSET (1..n)
    OBVIOUS
  <2> HIDE DEF n
  <2> QED BY <2>1, <2>2, <2>3
<1>8. PICK f \in [0..n -> X] : Goes(f, n, Fresh, g) /\ f[n] = iter[1..n]
  <2>1. ASSUME NEW k \in 1..n, iter[1..k - 1] \in X
        PROVE  iter[1..k] = g[<<iter[1..k - 1], k>>]
    <3> HIDE DEF n, iter
    <3>1. g[<<iter[1..k - 1], k>>] = EnvStep(e, iter[1..k - 1], ws[k])
      BY <2>1
    <3> QED BY <1>7, <3>1
  <2>2. iter[{}] = Fresh
    <3> HIDE DEF iter
    <3> QED BY <1>7, Zenon
  <2>3. n \in Nat
    BY <1>1
  <2> HIDE DEF n, iter, g, X
  <2>4. GoesBy(iter, X, n, g) /\ StepsIn(g, X, n)
    BY <1>3, <2>1 DEF GoesBy, StepsIn
  <2>5. GoesTo(iter[1..n], X, n, Fresh, g)
    BY <1>2, <2>2, <2>3, <2>4, FoldOf
  <2> QED BY <2>5 DEF GoesTo
<1>9. \A k \in 1..n : f[k] = EnvStep(e, f[k - 1], ws[k])
  <2> HIDE DEF n, iter, X
  <2>1. \A k \in 1..n : f[k - 1] \in X
    <3>1. \A k \in 1..n : k - 1 \in 0..n
      BY <1>1
    <3> QED BY <1>8, <3>1
  <2> QED BY <1>8, <2>1 DEF Goes
<1>10. ResolveFromEnv(ws, e) = f[n]
  <2> HIDE DEF n, iter
  <2> QED BY <1>1, <1>4, <1>8
<1> HIDE DEF iter, Is, g
<1> QED BY <1>8, <1>9, <1>10 DEF EnvSteps, Goes

\* One variable of the child's environment.
Assign(env, s) == [env EXCEPT ![s.name] = s.h]

NoVariables == [n \in Names |-> Absent]

Variables == [Names -> Handles \cup {Absent}]

LEMMA AssignKeeps ==
    ASSUME NEW env \in Variables, NEW s \in Got
    PROVE  Assign(env, s) \in Variables
BY DEF Assign, Variables, Got

\* The child's environment, one Secret after the other.
AssignSteps(f, ws) ==
    /\ f \in [0..Len(ws) -> Variables] /\ f[0] = NoVariables
    /\ \A k \in 1..Len(ws) : f[k] = Assign(f[k - 1], ws[k])

LEMMA AssignFolds ==
    ASSUME NEW ws \in Seq(Got)
    PROVE  \E f : AssignSteps(f, ws) /\ Environment(ws) = f[Len(ws)]
<1> DEFINE n == Len(ws)
           X == Variables
           g == [x \in X \X (1..n) |-> Assign(x[1], ws[x[2]])]
<1>1. n \in Nat /\ DOMAIN ws = 1..n /\ \A k \in 1..n : ws[k] \in Got
  BY LenProperties, ElementOfSeq
<1>2. NoVariables \in X
  BY DEF NoVariables, Variables
<1>3. g \in [X \X (1..n) -> X]
  <2>1. ASSUME NEW x \in X \X (1..n) PROVE Assign(x[1], ws[x[2]]) \in X
    <3>1. x[1] \in Variables /\ ws[x[2]] \in Got
      BY <1>1
    <3> QED BY <3>1, AssignKeeps
  <2> QED BY <2>1
<1> DEFINE Is(h) == h = [s \in SUBSET (DOMAIN ws) |->
                IF s = {} THEN NoVariables ELSE Assign(h[s \ {Max(s)}], ws[Max(s)])]
           iter == CHOOSE h : Is(h)
<1>4. Environment(ws) = iter[DOMAIN ws]
  BY DEF FoldLeft, MapThenFoldSet, Environment, Assign, NoVariables
<1>5. \E h : Is(h)
  <2>1. PICK h \in [SUBSET (1..n) -> X] : Iterates(h, n, NoVariables, g)
    <3> HIDE DEF g, n, X
    <3> QED BY <1>1, <1>2, <1>3, IterationExists
  <2>2. ASSUME NEW s \in SUBSET (1..n)
        PROVE  h[s] = IF s = {} THEN NoVariables ELSE Assign(h[s \ {Max(s)}], ws[Max(s)])
    <3>1. s # {} => Max(s) \in 1..n
      <4> HIDE DEF n
      <4> QED BY <1>1, MaxIn
    <3>2. s \ {Max(s)} \in SUBSET (1..n)
      OBVIOUS
    <3> HIDE DEF n
    <3>3. h[s] = IF s = {} THEN NoVariables ELSE g[<<h[s \ {Max(s)}], Max(s)>>]
      BY <2>1 DEF Iterates
    <3>4. h[s \ {Max(s)}] \in X
      BY <2>1, <3>2
    <3> QED BY <3>1, <3>3, <3>4
  <2>3. Is(h)
    <3> HIDE DEF n
    <3> QED BY <1>1, <2>1, <2>2
  <2> QED BY <2>3
<1>6. Is(iter)
  <2> HIDE DEF Is
  <2> QED BY <1>5
<1>7. /\ iter[{}] = NoVariables
      /\ \A k \in 1..n : iter[1..k] = Assign(iter[1..k - 1], ws[k])
  <2> HIDE DEF iter
  <2>1. \A s \in SUBSET (1..n) :
          iter[s] = IF s = {} THEN NoVariables ELSE Assign(iter[s \ {Max(s)}], ws[Max(s)])
    <3> HIDE DEF n
    <3> QED BY <1>1, <1>6
  <2>2. ASSUME NEW k \in 1..n PROVE iter[1..k] = Assign(iter[1..k - 1], ws[k])
    <3> HIDE DEF n
    <3> DEFINE s == 1..k
    <3>1. s \in SUBSET (1..n) /\ s # {} /\ s \ {k} = 1..k - 1 /\ Max(s) = k
      BY <1>1, UpTo
    <3> HIDE DEF s
    <3>2. iter[s] = Assign(iter[1..k - 1], ws[k])
      BY <2>1, <3>1
    <3> QED BY <3>2 DEF s
  <2>3. {} \in SUBSET (1..n)
    OBVIOUS
  <2> HIDE DEF n
  <2> QED BY <2>1, <2>2, <2>3
<1>8. PICK f \in [0..n -> X] : Goes(f, n, NoVariables, g) /\ f[n] = iter[1..n]
  <2>1. ASSUME NEW k \in 1..n, iter[1..k - 1] \in X
        PROVE  iter[1..k] = g[<<iter[1..k - 1], k>>]
    <3> HIDE DEF n, iter
    <3>1. g[<<iter[1..k - 1], k>>] = Assign(iter[1..k - 1], ws[k])
      BY <2>1
    <3> QED BY <1>7, <3>1
  <2>2. iter[{}] = NoVariables
    <3> HIDE DEF iter
    <3> QED BY <1>7, Zenon
  <2>3. n \in Nat
    BY <1>1
  <2> HIDE DEF n, iter, g, X
  <2>4. GoesBy(iter, X, n, g) /\ StepsIn(g, X, n)
    BY <1>3, <2>1 DEF GoesBy, StepsIn
  <2>5. GoesTo(iter[1..n], X, n, NoVariables, g)
    BY <1>2, <2>2, <2>3, <2>4, FoldOf
  <2> QED BY <2>5 DEF GoesTo
<1>9. \A k \in 1..n : f[k] = Assign(f[k - 1], ws[k])
  <2> HIDE DEF n, iter, X
  <2>1. \A k \in 1..n : f[k - 1] \in X
    <3>1. \A k \in 1..n : k - 1 \in 0..n
      BY <1>1
    <3> QED BY <1>8, <3>1
  <2> QED BY <1>8, <2>1 DEF Goes
<1>10. Environment(ws) = f[n]
  <2> HIDE DEF n, iter
  <2> QED BY <1>1, <1>4, <1>8
<1> HIDE DEF iter, Is, g
<1> QED BY <1>8, <1>9, <1>10 DEF AssignSteps, Goes

-----------------------------------------------------------------------------
(* The order of a file's Handles, and its Refs. *)

\* A finite set of numbers has a bound.
LEMMA Bounded ==
    ASSUME NEW S \in SUBSET Nat, IsFiniteSet(S)
    PROVE  \E b \in Nat : S \subseteq 0..b - 1
<1> DEFINE n == Cardinality(S)
<1>1. n \in Nat
  BY FS_CardinalityType
<1>2. PICK f : ExistsBijection(1..n, S) /\ f \in Bijection(1..n, S)
  BY FS_CardinalityType DEF ExistsBijection
<1>3. f \in [1..n -> S] /\ \A x \in S : \E i \in 1..n : f[i] = x
  BY <1>2 DEF Bijection, Surjection
<1> HIDE DEF n
<1>9. \A i \in 1..n : f[i] \in Nat
  BY <1>3
<1> DEFINE T == {k \in 0..n : \E b \in Nat : \A i \in 1..k : f[i] < b}
<1>4. 0 \in T
  BY <1>1
<1>5. ASSUME NEW k \in 0..n - 1, k \in T PROVE k + 1 \in T
  <2>1. PICK b \in Nat : \A i \in 1..k : f[i] < b
    BY <1>5
  <2>2. f[k + 1] \in Nat
    <3>1. k + 1 \in 1..n
      BY <1>1
    <3> QED BY <1>9, <3>1
  <2>3. PICK c \in Nat : c >= b /\ c > f[k + 1]
    <3>1. b + f[k + 1] + 1 \in Nat
      BY <2>2
    <3> QED BY <2>2, <3>1
  <2>4. ASSUME NEW i \in 1..k + 1 PROVE f[i] < c
    <3>1. f[i] \in Nat
      <4>1. i \in 1..n
        BY <1>1
      <4> QED BY <1>9, <4>1
    <3>2. i = k + 1 \/ i \in 1..k
      OBVIOUS
    <3> QED BY <2>1, <2>3, <3>1, <3>2
  <2> QED BY <1>1, <2>3, <2>4
<1> HIDE DEF T
<1>6. n \in T
  BY <1>1, <1>4, <1>5, Climb
<1>7. PICK b \in Nat : \A i \in 1..n : f[i] < b
  BY <1>6 DEF T
<1>8. ASSUME NEW x \in S PROVE x \in 0..b - 1
  BY <1>3, <1>7
<1> QED BY <1>8

\* Its members have an order.
Ascends(s, S) ==
    /\ s \in [1..Cardinality(S) -> S] /\ Range(s) = S
    /\ \A j \in DOMAIN s : \A i \in 1..j - 1 : s[i] < s[j]

LEMMA OrderExists ==
    ASSUME NEW S \in SUBSET Nat, IsFiniteSet(S)
    PROVE  \E s : Ascends(s, S)
<1>1. PICK b \in Nat : S \subseteq 0..b - 1
  BY Bounded
<1> DEFINE T == {k \in 0..b : \A U \in SUBSET (0..k - 1) : IsFiniteSet(U) /\ \E s : Ascends(s, U)}
<1>2. 0 \in T
  <2>1. \A U \in SUBSET (0..0 - 1) : U = {}
    OBVIOUS
  <2>2. IsFiniteSet({}) /\ Cardinality({}) = 0
    BY FS_EmptySet
  <2>3. <<>> \in [1..0 -> {}] /\ Range(<<>>) = {} /\ DOMAIN <<>> = {}
    BY DEF Range
  <2>5. <<>> \in [1..Cardinality({}) -> {}]
    BY <2>2, <2>3, Zenon
  <2>4. Ascends(<<>>, {})
    BY <2>3, <2>5, Zenon DEF Ascends
  <2>6. \A U \in SUBSET (0..0 - 1) : IsFiniteSet(U) /\ \E s : Ascends(s, U)
    BY <2>1, <2>2, <2>4, Zenon
  <2>7. 0 \in 0..b
    BY <1>1
  <2> QED BY <2>6, <2>7, Zenon
<1>3. ASSUME NEW k \in 0..b - 1, k \in T PROVE k + 1 \in T
  <2>1. ASSUME NEW U \in SUBSET (0..(k + 1) - 1)
        PROVE  IsFiniteSet(U) /\ \E s : Ascends(s, U)
    <3>1. CASE k \notin U
      <4>1. U \in SUBSET (0..k - 1)
        BY <3>1
      <4> QED BY <1>3, <4>1
    <3>2. CASE k \in U
      <4> DEFINE V == U \ {k}
      <4>1. V \in SUBSET (0..k - 1)
        OBVIOUS
      <4>2. IsFiniteSet(V)
        BY <1>3, <4>1
      <4>3. PICK s : Ascends(s, V)
        BY <1>3, <4>1
      <4> DEFINE n == Cardinality(V)
                 t == [i \in 1..n + 1 |-> IF i = n + 1 THEN k ELSE s[i]]
      <4>4. U = V \cup {k} /\ k \notin V
        BY <3>2
      <4>5. n \in Nat
        BY <4>2, FS_CardinalityType
      <4>6. IsFiniteSet(U) /\ Cardinality(U) = n + 1
        <5> HIDE DEF V
        <5> QED BY <4>2, <4>4, FS_AddElement
      <4>7. s \in [1..n -> V] /\ Range(s) = V /\ DOMAIN s = 1..n
        BY <4>3 DEF Ascends
      <4>8. \A j \in 1..n : \A i \in 1..j - 1 : s[i] < s[j]
        BY <4>3, <4>7 DEF Ascends
      <4>9. \A x \in V : \E i \in 1..n : s[i] = x
        BY <4>7 DEF Range
      <4>10. \A x \in V : x \in Nat /\ x < k
        BY <4>1
      <4> HIDE DEF n, V
      <4>11. t \in [1..n + 1 -> U] /\ DOMAIN t = 1..n + 1
        BY <4>4, <4>5, <4>7
      <4>12. Range(t) = U
        <5>1. \A i \in 1..n + 1 : t[i] \in U
          BY <4>11
        <5>2. \A x \in U : \E i \in 1..n + 1 : t[i] = x
          <6>1. t[n + 1] = k /\ n + 1 \in 1..n + 1
            BY <4>5
          <6>2. \A i \in 1..n : t[i] = s[i] /\ i \in 1..n + 1
            BY <4>5
          <6> HIDE DEF t
          <6> QED BY <4>4, <4>9, <6>1, <6>2
        <5> HIDE DEF t
        <5> QED BY <4>11, <5>1, <5>2 DEF Range
      <4>13. ASSUME NEW j \in 1..n + 1, NEW i \in 1..j - 1 PROVE t[i] < t[j]
        <5>1. CASE j = n + 1
          <6>1. i \in 1..n /\ t[i] = s[i] /\ t[j] = k
            BY <4>5, <5>1
          <6> HIDE DEF t
          <6> QED BY <4>7, <4>10, <6>1
        <5>2. CASE j \in 1..n
          <6>1. i \in 1..n /\ t[i] = s[i] /\ t[j] = s[j]
            BY <4>5, <5>2
          <6> HIDE DEF t
          <6> QED BY <4>8, <5>2, <6>1
        <5> QED BY <4>5, <5>1, <5>2
      <4> HIDE DEF t
      <4>14. Ascends(t, U)
        BY <4>6, <4>11, <4>12, <4>13 DEF Ascends
      <4> QED BY <4>6, <4>14
    <3> QED BY <3>1, <3>2
  <2>2. k + 1 \in 0..b
    BY <1>1
  <2> QED BY <2>1, <2>2
<1> HIDE DEF T
<1>4. b \in T
  BY <1>1, <1>2, <1>3, Climb
<1> QED BY <1>1, <1>4 DEF T

\* The Refs of a file, one for each Handle that it declares.
LEMMA RefsOfIs ==
    ASSUME NEW e \in Entries, NEW ambient \in BOOLEAN
    PROVE  /\ RefsOf(e, ambient) \in Seq(Ref)
           /\ \A i \in 1..Len(RefsOf(e, ambient)) :
                /\ RefsOf(e, ambient)[i].fromGlobal = ambient
                /\ RefsOf(e, ambient)[i].override = Absent
                /\ RefsOf(e, ambient)[i].declared = e[RefsOf(e, ambient)[i].h]
           /\ \A h \in Handles : e[h] # Absent =>
                \E i \in 1..Len(RefsOf(e, ambient)) : RefsOf(e, ambient)[i].h = h
<1> DEFINE S == {h \in Handles : e[h] # Absent}
           hs == Sorted(S)
           n == Cardinality(S)
           rs == [i \in 1..Len(hs) |->
                    [h |-> hs[i], override |-> Absent, declared |-> e[hs[i]],
                     fromGlobal |-> ambient]]
<1>1. S \in SUBSET Nat /\ IsFiniteSet(S)
  BY HandlesAreOrdered, FS_Subset
<1>2. n \in Nat
  BY <1>1, FS_CardinalityType
<1>3. \E s \in [1..n -> S] : /\ Range(s) = S
                             /\ \A j \in DOMAIN s : \A i \in 1..j - 1 : s[i] < s[j]
  <2> HIDE DEF S
  <2>1. \E s : Ascends(s, S)
    BY <1>1, OrderExists
  <2> QED BY <2>1 DEF Ascends
<1>4. hs \in [1..n -> S] /\ Range(hs) = S
  <2> HIDE DEF S
  <2> QED BY <1>3 DEF Sorted
<1>5. Len(hs) = n /\ hs \in Seq(S)
  <2> HIDE DEF S, hs, n
  <2>1. hs \in Seq(S)
    BY <1>2, <1>4, SeqDef
  <2>2. DOMAIN hs = 1..n /\ DOMAIN hs = 1..Len(hs) /\ Len(hs) \in Nat
    BY <1>4, <2>1, LenProperties
  <2> QED BY <1>2, <2>1, <2>2
<1>6. RefsOf(e, ambient) = rs
  BY DEF RefsOf
<1>7. \A i \in 1..n : hs[i] \in Handles /\ e[hs[i]] \in Names \cup {Absent}
  <2> HIDE DEF hs, n
  <2> QED BY <1>4 DEF Entries
<1>8. \A h \in S : \E i \in 1..n : hs[i] = h
  <2> HIDE DEF hs, n, S
  <2> QED BY <1>4 DEF Range
<1> HIDE DEF hs, n
<1>9. rs \in [1..n -> Ref]
  <2>1. \A i \in 1..n : [h |-> hs[i], override |-> Absent, declared |-> e[hs[i]],
                     fromGlobal |-> ambient] \in Ref
    BY <1>7 DEF Ref
  <2> QED BY <1>5, <2>1
<1>10. rs \in Seq(Ref) /\ Len(rs) = n
  <2> HIDE DEF rs
  <2>1. rs \in Seq(Ref)
    BY <1>2, <1>9, SeqDef
  <2>2. DOMAIN rs = 1..n /\ DOMAIN rs = 1..Len(rs) /\ Len(rs) \in Nat
    BY <1>9, <2>1, LenProperties
  <2> QED BY <1>2, <2>1, <2>2
<1>11. \A i \in 1..n : /\ rs[i].fromGlobal = ambient /\ rs[i].override = Absent
                       /\ rs[i].h = hs[i] /\ rs[i].declared = e[rs[i].h]
  BY <1>5
<1>12. \A h \in Handles : e[h] # Absent => \E i \in 1..n : rs[i].h = h
  <2> HIDE DEF rs
  <2> QED BY <1>8, <1>11
<1> HIDE DEF rs
<1> QED BY <1>6, <1>10, <1>11, <1>12

-----------------------------------------------------------------------------
(* The Refs of a run. *)

NoneAmbient(rs) == \A i \in 1..Len(rs) : ~rs[i].fromGlobal

\* A Ref of the Handle h that is no Global one, with the declared name d and one
\* of these names given on the command line.
Asked(rs, h, d, overrides) ==
    \E i \in 1..Len(rs) :
        rs[i].h = h /\ ~rs[i].fromGlobal /\ rs[i].declared = d /\ rs[i].override \in overrides

\* The names --with gives h, or none.
Overrides(with, h) ==
    {Absent} \cup {o \in Names : \E k \in 1..Len(with) : with[k] = [h |-> h, override |-> o]}

LEMMA ReplaceOne ==
    ASSUME NEW rs \in Seq(Ref), NEW w \in Ref, ~w.fromGlobal
    PROVE  /\ NoneAmbient(rs) => NoneAmbient(ReplaceOrAppend(rs, w))
           /\ Asked(ReplaceOrAppend(rs, w), w.h, w.declared, {w.override})
           /\ \A h, d, o : (Asked(rs, h, d, o) /\ h # w.h) => Asked(ReplaceOrAppend(rs, w), h, d, o)
<1>1. Len(rs) \in Nat /\ \A i \in 1..Len(rs) : rs[i] \in Ref
  BY LenProperties, ElementOfSeq
<1>2. CASE \E i \in 1..Len(rs) : rs[i].h = w.h
  <2> DEFINE t == [i \in 1..Len(rs) |-> IF rs[i].h = w.h THEN w ELSE rs[i]]
  <2>1. ReplaceOrAppend(rs, w) = t
    BY <1>2 DEF ReplaceOrAppend
  <2>2. Len(t) = Len(rs)
    BY <1>1
  <2>3. \A i \in 1..Len(rs) : t[i] = IF rs[i].h = w.h THEN w ELSE rs[i]
    OBVIOUS
  <2> HIDE DEF t
  <2>4. NoneAmbient(rs) => NoneAmbient(t)
    BY <2>2, <2>3 DEF NoneAmbient
  <2>5. Asked(t, w.h, w.declared, {w.override})
    BY <1>2, <2>2, <2>3 DEF Asked
  <2>6. \A h, d, o : (Asked(rs, h, d, o) /\ h # w.h) => Asked(t, h, d, o)
    BY <2>2, <2>3 DEF Asked
  <2> QED BY <2>1, <2>4, <2>5, <2>6
<1>3. CASE ~\E i \in 1..Len(rs) : rs[i].h = w.h
  <2> DEFINE t == Append(rs, w)
  <2>1. ReplaceOrAppend(rs, w) = t
    BY <1>3 DEF ReplaceOrAppend
  <2>2. Len(t) = Len(rs) + 1 /\ t[Len(rs) + 1] = w
    BY <1>1, AppendProperties
  <2>3. \A i \in 1..Len(rs) : t[i] = rs[i]
    BY <1>1, AppendProperties
  <2> HIDE DEF t
  <2>4. /\ Len(rs) + 1 \in 1..Len(t)
        /\ \A i \in 1..Len(t) : i \in 1..Len(rs) \/ i = Len(rs) + 1
        /\ \A i \in 1..Len(rs) : i \in 1..Len(t)
    BY <1>1, <2>2
  <2>5. NoneAmbient(rs) => NoneAmbient(t)
    BY <2>2, <2>3, <2>4 DEF NoneAmbient
  <2>6. Asked(t, w.h, w.declared, {w.override})
    BY <2>2, <2>3, <2>4 DEF Asked
  <2>7. \A h, d, o : (Asked(rs, h, d, o) /\ h # w.h) => Asked(t, h, d, o)
    BY <2>2, <2>3, <2>4 DEF Asked
  <2> QED BY <2>1, <2>5, <2>6, <2>7
<1> QED BY <1>2, <1>3

LEMMA WithOne ==
    ASSUME NEW rs \in Seq(Ref), NEW w \in Ref, ~w.fromGlobal
    PROVE  /\ NoneAmbient(rs) => NoneAmbient(WithRef(rs, w))
           /\ \A h, d, o : (Asked(rs, h, d, o) /\ (h = w.h => w.override \in o)) =>
                Asked(WithRef(rs, w), h, d, o)
<1>1. Len(rs) \in Nat /\ \A i \in 1..Len(rs) : rs[i] \in Ref
  BY LenProperties, ElementOfSeq
<1>2. CASE \E i \in 1..Len(rs) : rs[i].h = w.h
  <2> DEFINE t == [i \in 1..Len(rs) |->
            IF rs[i].h = w.h
            THEN [rs[i] EXCEPT !.override = w.override, !.fromGlobal = FALSE]
            ELSE rs[i]]
  <2>1. WithRef(rs, w) = t
    BY <1>2 DEF WithRef
  <2>2. Len(t) = Len(rs)
    BY <1>1
  <2>3. \A i \in 1..Len(rs) :
          /\ t[i].h = rs[i].h /\ t[i].declared = rs[i].declared
          /\ rs[i].h = w.h => t[i].override = w.override /\ ~t[i].fromGlobal
          /\ rs[i].h # w.h => t[i] = rs[i]
    BY <1>1 DEF Ref
  <2> HIDE DEF t
  <2>4. NoneAmbient(rs) => NoneAmbient(t)
    BY <2>2, <2>3 DEF NoneAmbient
  <2>5. ASSUME NEW h, NEW d, NEW o, Asked(rs, h, d, o), h = w.h => w.override \in o
        PROVE  Asked(t, h, d, o)
    BY <2>2, <2>3, <2>5 DEF Asked
  <2> QED BY <2>1, <2>4, <2>5
<1>3. CASE ~\E i \in 1..Len(rs) : rs[i].h = w.h
  <2> DEFINE t == Append(rs, w)
  <2>1. WithRef(rs, w) = t
    BY <1>3 DEF WithRef
  <2>2. Len(t) = Len(rs) + 1 /\ t[Len(rs) + 1] = w
    BY <1>1, AppendProperties
  <2>3. \A i \in 1..Len(rs) : t[i] = rs[i]
    BY <1>1, AppendProperties
  <2> HIDE DEF t
  <2>4. /\ \A i \in 1..Len(t) : i \in 1..Len(rs) \/ i = Len(rs) + 1
        /\ \A i \in 1..Len(rs) : i \in 1..Len(t)
    BY <1>1, <2>2
  <2>5. NoneAmbient(rs) => NoneAmbient(t)
    BY <2>2, <2>3, <2>4 DEF NoneAmbient
  <2>6. \A h, d, o : Asked(rs, h, d, o) => Asked(t, h, d, o)
    BY <2>3, <2>4 DEF Asked
  <2> QED BY <2>1, <2>5, <2>6
<1> QED BY <1>2, <1>3

DeclaredIn(ws, e) ==
    \A k \in 1..Len(ws) : ws[k].declared = e[ws[k].h] /\ ws[k].override = Absent

AllAsked(rs, ws) == \A i \in 1..Len(ws) : Asked(rs, ws[i].h, ws[i].declared, {Absent})

\* The project's declarations over the Global ones: each of them is there.
LEMMA ReplaceEach ==
    ASSUME NEW rs \in Seq(Ref), NEW ws \in Seq(Ref), NoneAmbient(ws), NEW e \in Entries,
           DeclaredIn(ws, e)
    PROVE  /\ FoldLeft(ReplaceOrAppend, rs, ws) \in Seq(Ref)
           /\ NoneAmbient(rs) => NoneAmbient(FoldLeft(ReplaceOrAppend, rs, ws))
           /\ AllAsked(FoldLeft(ReplaceOrAppend, rs, ws), ws)
<1>1. PICK f : ReplaceSteps(f, rs, ws) /\ FoldLeft(ReplaceOrAppend, rs, ws) = f[Len(ws)]
  BY ReplaceFolds
<1> DEFINE n == Len(ws)
           T == {k \in 0..n : /\ NoneAmbient(rs) => NoneAmbient(f[k])
                              /\ \A i \in 1..k : Asked(f[k], ws[i].h, ws[i].declared, {Absent})}
<1>2. n \in Nat /\ \A k \in 1..n : ws[k] \in Ref
  BY LenProperties, ElementOfSeq
<1>3. /\ f \in [0..n -> Seq(Ref)] /\ f[0] = rs
      /\ \A k \in 1..n : f[k] = ReplaceOrAppend(f[k - 1], ws[k])
  BY <1>1 DEF ReplaceSteps
<1>4. 0 \in T
  BY <1>2, <1>3
<1>5. ASSUME NEW k \in 0..n - 1, k \in T PROVE k + 1 \in T
  <2> DEFINE j == k + 1
  <2>1. j \in 1..n /\ j \in 0..n /\ k \in 0..n /\ j - 1 = k
    BY <1>2
  <2>2. ws[j] \in Ref /\ ~ws[j].fromGlobal /\ f[k] \in Seq(Ref) /\ ws[j].override = Absent
        /\ ws[j].declared = e[ws[j].h]
    BY <1>2, <1>3, <2>1 DEF NoneAmbient, DeclaredIn
  <2>3. f[j] = ReplaceOrAppend(f[k], ws[j])
    BY <1>3, <2>1
  <2>4. NoneAmbient(rs) => NoneAmbient(f[k])
    BY <1>5
  <2>5. \A i \in 1..k : Asked(f[k], ws[i].h, ws[i].declared, {Absent})
    BY <1>5
  <2> HIDE DEF j
  <2>6. NoneAmbient(rs) => NoneAmbient(f[j])
    BY <2>2, <2>3, <2>4, ReplaceOne
  <2>7. Asked(f[j], ws[j].h, ws[j].declared, {Absent})
    BY <2>2, <2>3, ReplaceOne
  <2>8. ASSUME NEW i \in 1..j PROVE Asked(f[j], ws[i].h, ws[i].declared, {Absent})
    <3>1. i \in 1..n /\ (i = j \/ i \in 1..k)
      BY <2>1 DEF j
    <3>2. CASE ws[i].h = ws[j].h
      <4>1. ws[i].declared = ws[j].declared
        BY <2>2, <3>1, <3>2 DEF DeclaredIn
      <4> QED BY <2>7, <3>2, <4>1
    <3>3. CASE ws[i].h # ws[j].h
      <4>1. i \in 1..k
        BY <3>1, <3>3
      <4>2. Asked(f[k], ws[i].h, ws[i].declared, {Absent})
        BY <2>5, <4>1
      <4> DEFINE o == {Absent}
                 x == ws[i].h
                 d == ws[i].declared
      <4>3. Asked(f[k], x, d, o) /\ x # ws[j].h
        BY <3>3, <4>2, Zenon
      <4> HIDE DEF o, x, d
      <4>4. Asked(ReplaceOrAppend(f[k], ws[j]), x, d, o)
        BY <2>2, <4>3, ReplaceOne
      <4>5. Asked(f[j], x, d, o)
        BY <2>3, <4>4, Zenon
      <4> QED BY <4>5, Zenon DEF o, x, d
    <3> QED BY <3>2, <3>3
  <2>9. j \in T
    BY <2>1, <2>6, <2>8
  <2> QED BY <2>9 DEF j
<1> HIDE DEF T
<1>6. n \in T
  <2> HIDE DEF n
  <2> QED BY <1>2, <1>4, <1>5, Reaches
<1>7. n \in 0..n
  BY <1>2
<1>8. /\ NoneAmbient(rs) => NoneAmbient(f[n])
      /\ \A i \in 1..n : Asked(f[n], ws[i].h, ws[i].declared, {Absent})
  BY <1>6 DEF T
<1>9. f[n] \in Seq(Ref)
  BY <1>3, <1>7
<1>10. AllAsked(f[n], ws)
  BY <1>8 DEF AllAsked
<1> QED BY <1>1, <1>8, <1>9, <1>10, Zenon

\* --with: a Handle that was asked for still is, by a name it was given.
LEMMA WithEach ==
    ASSUME NEW rs \in Seq(Ref), NEW ws \in Seq(Ref), NoneAmbient(ws)
    PROVE  /\ FoldLeft(WithRef, rs, ws) \in Seq(Ref)
           /\ NoneAmbient(rs) => NoneAmbient(FoldLeft(WithRef, rs, ws))
           /\ \A h, d, o : (/\ Asked(rs, h, d, o)
                            /\ \A k \in 1..Len(ws) : h = ws[k].h => ws[k].override \in o) =>
                Asked(FoldLeft(WithRef, rs, ws), h, d, o)
<1>1. PICK f : WithRefSteps(f, rs, ws) /\ FoldLeft(WithRef, rs, ws) = f[Len(ws)]
  BY WithRefFolds
<1> DEFINE n == Len(ws)
           Fits(h, d, o) == /\ Asked(rs, h, d, o)
                            /\ \A k \in 1..n : h = ws[k].h => ws[k].override \in o
           T == {k \in 0..n : /\ NoneAmbient(rs) => NoneAmbient(f[k])
                              /\ \A h, d, o : Fits(h, d, o) => Asked(f[k], h, d, o)}
<1>2. n \in Nat /\ \A k \in 1..n : ws[k] \in Ref
  BY LenProperties, ElementOfSeq
<1>3. /\ f \in [0..n -> Seq(Ref)] /\ f[0] = rs
      /\ \A k \in 1..n : f[k] = WithRef(f[k - 1], ws[k])
  BY <1>1 DEF WithRefSteps
<1>4. 0 \in T
  BY <1>2, <1>3
<1>5. ASSUME NEW k \in 0..n - 1, k \in T PROVE k + 1 \in T
  <2> DEFINE j == k + 1
  <2>1. j \in 1..n /\ j \in 0..n /\ k \in 0..n /\ j - 1 = k
    BY <1>2
  <2>2. ws[j] \in Ref /\ ~ws[j].fromGlobal /\ f[k] \in Seq(Ref)
    BY <1>2, <1>3, <2>1 DEF NoneAmbient
  <2>3. f[j] = WithRef(f[k], ws[j])
    BY <1>3, <2>1
  <2>4. NoneAmbient(rs) => NoneAmbient(f[k])
    BY <1>5
  <2>5. \A h, d, o : Fits(h, d, o) => Asked(f[k], h, d, o)
    BY <1>5
  <2>6. \A h, d, o : Fits(h, d, o) => (h = ws[j].h => ws[j].override \in o)
    BY <2>1
  <2> HIDE DEF j, Fits
  <2>7. NoneAmbient(rs) => NoneAmbient(f[j])
    BY <2>2, <2>3, <2>4, WithOne
  <2>8. ASSUME NEW h, NEW d, NEW o, Fits(h, d, o) PROVE Asked(f[j], h, d, o)
    <3>1. Asked(f[k], h, d, o) /\ (h = ws[j].h => ws[j].override \in o)
      BY <2>5, <2>6, <2>8
    <3> QED BY <2>2, <2>3, <3>1, WithOne
  <2>9. j \in T
    BY <2>1, <2>7, <2>8
  <2> QED BY <2>9 DEF j
<1>6. n \in T
  <2>1. n \in Nat /\ 0 \in T
    BY <1>2, <1>4
  <2>2. \A k \in 0..n - 1 : k \in T => k + 1 \in T
    <3> HIDE DEF T
    <3> QED BY <1>5
  <2> HIDE DEF T, n, Fits
  <2> QED BY <2>1, <2>2, Reaches
<1>7. n \in 0..n
  BY <1>2
<1>8. /\ NoneAmbient(rs) => NoneAmbient(f[n])
      /\ \A h, d, o : Fits(h, d, o) => Asked(f[n], h, d, o)
  BY <1>6
<1> HIDE DEF T
<1>9. f[n] \in Seq(Ref)
  BY <1>3, <1>7
<1> HIDE DEF n
<1> QED BY <1>1, <1>8, <1>9 DEF n

\* What is asked for by name.
With == Seq([h : Handles, override : NameOrNone])

LEMMA ExplicitIs ==
    ASSUME NEW with \in With
    PROVE  /\ Explicit(with) \in Seq(Ref) /\ NoneAmbient(Explicit(with))
           /\ Len(Explicit(with)) = Len(with)
           /\ \A k \in 1..Len(with) :
                /\ with[k] = [h |-> Explicit(with)[k].h, override |-> Explicit(with)[k].override]
                /\ Explicit(with)[k].override \in NameOrNone
<1> DEFINE t == Explicit(with)
           n == Len(with)
<1>1. n \in Nat /\ \A k \in 1..n : with[k] \in [h : Handles, override : NameOrNone]
  BY LenProperties, ElementOfSeq DEF With
<1>2. t = [i \in 1..n |-> [h |-> with[i].h, override |-> with[i].override,
                             declared |-> Absent, fromGlobal |-> FALSE]]
  BY DEF Explicit
<1> HIDE DEF t, n
<1>3. \A k \in 1..n : /\ t[k] \in Ref /\ ~t[k].fromGlobal /\ t[k].override \in NameOrNone
                      /\ with[k] = [h |-> t[k].h, override |-> t[k].override]
  BY <1>1, <1>2 DEF Ref, NameOrNone
<1>4. t \in [1..n -> Ref]
  BY <1>2, <1>3
<1>5. t \in Seq(Ref)
  BY <1>1, <1>4, SeqDef
<1>6. Len(t) = n
  <2>1. DOMAIN t = 1..n /\ DOMAIN t = 1..Len(t) /\ Len(t) \in Nat
    BY <1>4, <1>5, LenProperties
  <2> QED BY <1>1, <2>1
<1> QED BY <1>3, <1>5, <1>6 DEF t, n, NoneAmbient

LEMMA RefsIs ==
    ASSUME NEW m \in Manifest, NEW g \in Entries, NEW dir \in Dirs, NEW b \in BOOLEAN
    PROVE  /\ Refs(m, g, dir, b) \in Seq(Ref)
           /\ NoneAmbient(Refs(m, g, dir, b)) \/ (b /\ ~m.disabled /\ GlobalReaches(dir))
           /\ \A h \in Handles : m.entries[h] # Absent =>
                Asked(Refs(m, g, dir, b), h, m.entries[h], {Absent})
<1> DEFINE open == b /\ ~m.disabled /\ GlobalReaches(dir)
           ambient == IF open THEN RefsOf(g, TRUE) ELSE <<>>
           ws == RefsOf(m.entries, FALSE)
<1>1. Refs(m, g, dir, b) = FoldLeft(ReplaceOrAppend, ambient, ws)
  BY DEF Refs
<1>2. m.entries \in Entries
  BY DEF Manifest
<1>3. ambient \in Seq(Ref) /\ (open \/ NoneAmbient(ambient))
  <2>1. RefsOf(g, TRUE) \in Seq(Ref)
    BY RefsOfIs
  <2>2. <<>> \in Seq(Ref) /\ NoneAmbient(<<>>)
    BY EmptySeq DEF NoneAmbient
  <2> HIDE DEF open
  <2> QED BY <2>1, <2>2
<1>4. /\ ws \in Seq(Ref) /\ NoneAmbient(ws)
      /\ DeclaredIn(ws, m.entries)
  BY <1>2, RefsOfIs DEF NoneAmbient, DeclaredIn
<1>5. \A h \in Handles : m.entries[h] # Absent => \E i \in 1..Len(ws) : ws[i].h = h
  BY <1>2, RefsOfIs
<1> HIDE DEF open, ambient, ws
<1> DEFINE all == FoldLeft(ReplaceOrAppend, ambient, ws)
<1>6. /\ all \in Seq(Ref) /\ (NoneAmbient(ambient) => NoneAmbient(all))
      /\ AllAsked(all, ws)
  BY <1>2, <1>3, <1>4, ReplaceEach
<1> HIDE DEF all
<1>7. ASSUME NEW h \in Handles, m.entries[h] # Absent
      PROVE  Asked(all, h, m.entries[h], {Absent})
  <2>1. PICK i \in 1..Len(ws) : ws[i].h = h
    BY <1>5, <1>7
  <2>2. ws[i].declared = m.entries[h]
    BY <1>4, <2>1 DEF DeclaredIn
  <2>3. Asked(all, ws[i].h, ws[i].declared, {Absent})
    BY <1>6, Zenon DEF AllAsked
  <2> QED BY <2>1, <2>2, <2>3, Zenon
<1> QED BY <1>1, <1>3, <1>6, <1>7 DEF all, open

LEMMA RefsWith ==
    ASSUME NEW rs \in Seq(Ref), NEW with \in With
    PROVE  LET all == FoldLeft(WithRef, rs, Explicit(with))
           IN  /\ all \in Seq(Ref)
               /\ NoneAmbient(rs) => NoneAmbient(all)
               /\ \A h, d : Asked(rs, h, d, {Absent}) => Asked(all, h, d, Overrides(with, h))
<1> DEFINE ws == Explicit(with)
           all == FoldLeft(WithRef, rs, ws)
<1>1. /\ ws \in Seq(Ref) /\ NoneAmbient(ws) /\ Len(ws) = Len(with)
      /\ \A k \in 1..Len(with) : /\ with[k] = [h |-> ws[k].h, override |-> ws[k].override]
                                 /\ ws[k].override \in NameOrNone
  BY ExplicitIs
<1> HIDE DEF ws
<1>2. /\ all \in Seq(Ref) /\ (NoneAmbient(rs) => NoneAmbient(all))
      /\ \A h, d, o : (/\ Asked(rs, h, d, o)
                       /\ \A k \in 1..Len(ws) : h = ws[k].h => ws[k].override \in o) =>
                Asked(all, h, d, o)
  BY <1>1, WithEach
<1> HIDE DEF all
<1>3. ASSUME NEW h, NEW d, Asked(rs, h, d, {Absent})
      PROVE  Asked(all, h, d, Overrides(with, h))
  <2> DEFINE o == Overrides(with, h)
  <2>1. Asked(rs, h, d, o)
    BY <1>3 DEF Asked, Overrides
  <2>2. \A k \in 1..Len(ws) : h = ws[k].h => ws[k].override \in o
    BY <1>1 DEF Overrides, NameOrNone
  <2> HIDE DEF o
  <2>3. Asked(all, h, d, o)
    BY <1>2, <2>1, <2>2
  <2> QED BY <2>3 DEF o
<1> QED BY <1>2, <1>3 DEF all, ws

-----------------------------------------------------------------------------
(* What a Resolve comes to. *)

Injected(acc, h, name) ==
    \E i \in 1..Len(acc.got) : acc.got[i] = [h |-> h, name |-> name, fromGlobal |-> FALSE]

\* The variable of a Ref that has a name of its own.
NameOf(r) == IF r.override # Absent THEN r.override ELSE r.declared

Owed(r) == ~r.fromGlobal /\ r.declared # Absent

Answered(acc, r) == Owed(r) => Injected(acc, r.h, NameOf(r))

\* What checkCollision keeps: the last to have a variable is known, and a Global
\* Handle is the only one that has it.
Separate(acc) ==
    /\ \A i \in 1..Len(acc.got) :
         /\ acc.bound[acc.got[i].name] # Absent
         /\ acc.got[i].fromGlobal => acc.bound[acc.got[i].name].fromGlobal
    /\ \A i, j \in 1..Len(acc.got) :
         (acc.got[i].fromGlobal /\ acc.got[i].name = acc.got[j].name) => i = j

\* A step of it, from acc to new.
Advances(acc, new) ==
    /\ Separate(acc) => Separate(new)
    /\ new.error = "none" => acc.error = "none"
    /\ \A h, n : Injected(acc, h, n) => Injected(new, h, n)

LEMMA BindAdvances ==
    ASSUME NEW acc \in Outcome, acc.error = "none", NEW r \in Ref, NEW name \in Names
    PROVE  /\ Advances(acc, Bind(acc, r, name))
           /\ (Bind(acc, r, name).error = "none" /\ ~r.fromGlobal) =>
                Injected(Bind(acc, r, name), r.h, name)
<1> DEFINE contested == acc.bound[name] # Absent /\ (acc.bound[name].fromGlobal \/ r.fromGlobal)
           s == [h |-> r.h, name |-> name, fromGlobal |-> r.fromGlobal]
           new == [acc EXCEPT !.bound[name] = r, !.got = Append(@, s)]
           fail == Fail(acc, "collision")
           n == Len(acc.got)
<1>1. Bind(acc, r, name) = IF contested THEN fail ELSE new
  BY DEF Bind
<1>2. fail.got = acc.got /\ fail.bound = acc.bound /\ fail.error = "collision"
  BY DEF Fail, Outcome
<1>3. Advances(acc, fail)
  <2> HIDE DEF fail
  <2> QED BY <1>2 DEF Advances, Separate, Injected
<1>4. CASE ~contested
  <2>1. /\ new.got = Append(acc.got, s) /\ new.error = acc.error
        /\ new.bound = [acc.bound EXCEPT ![name] = r]
    BY DEF Outcome
  <2>2. s \in Got /\ acc.got \in Seq(Got) /\ acc.bound \in [Names -> Ref \cup {Absent}]
    BY DEF Outcome, Ref, Got
  <2>3. s.h = r.h /\ s.name = name /\ s.fromGlobal = r.fromGlobal
    OBVIOUS
  <2>4. n \in Nat /\ \A i \in 1..n : acc.got[i] \in Got /\ acc.got[i].name \in Names
    <3> HIDE DEF s, new, contested, fail
    <3>1. n \in Nat
      BY <2>2, LenProperties
    <3>2. ASSUME NEW i \in 1..n PROVE acc.got[i] \in Got
      BY <2>2, ElementOfSeq
    <3> HIDE DEF n
    <3> QED BY <3>1, <3>2 DEF Got
  <2> HIDE DEF s
  <2>5. Len(Append(acc.got, s)) = n + 1 /\ Append(acc.got, s)[n + 1] = s
        /\ \A i \in 1..n : Append(acc.got, s)[i] = acc.got[i]
    BY <2>2, <2>4, AppendProperties
  <2> HIDE DEF new, n
  <2>6. Len(new.got) = n + 1 /\ new.got[n + 1] = s /\ \A i \in 1..n : new.got[i] = acc.got[i]
    BY <2>1, <2>5
  <2>7. /\ \A i \in 1..n + 1 : i \in 1..n \/ i = n + 1
        /\ \A i \in 1..n : i \in 1..n + 1
        /\ n + 1 \in 1..n + 1
    BY <2>4
  <2>8. /\ new.bound[name] = r /\ r # Absent
        /\ \A m \in Names : m # name => new.bound[m] = acc.bound[m]
    BY <2>1, <2>2, AbsentIsNoRef
  <2>9. ASSUME Separate(acc) PROVE Separate(new)
    <3>1. \A i \in 1..n : acc.got[i].name = name => ~acc.got[i].fromGlobal /\ ~r.fromGlobal
      BY <1>4, <2>9 DEF Separate, n
    <3>2. ASSUME NEW i \in 1..n + 1
          PROVE  /\ new.bound[new.got[i].name] # Absent
                 /\ new.got[i].fromGlobal => new.bound[new.got[i].name].fromGlobal
      <4>1. CASE i = n + 1
        BY <2>3, <2>6, <2>8, <4>1
      <4>2. CASE i \in 1..n
        <5>1. /\ acc.bound[acc.got[i].name] # Absent
              /\ acc.got[i].fromGlobal => acc.bound[acc.got[i].name].fromGlobal
          BY <2>9, <4>2 DEF Separate, n
        <5>2. new.got[i] = acc.got[i] /\ acc.got[i].name \in Names
          BY <2>4, <2>6, <4>2
        <5> QED BY <2>8, <3>1, <4>2, <5>1, <5>2
      <4> QED BY <2>7, <4>1, <4>2
    <3>3. ASSUME NEW i \in 1..n + 1, NEW j \in 1..n + 1,
                 new.got[i].fromGlobal, new.got[i].name = new.got[j].name
          PROVE  i = j
      <4>1. CASE i \in 1..n /\ j \in 1..n
        BY <2>6, <2>9, <3>3, <4>1 DEF Separate, n
      <4>2. CASE i \in 1..n /\ j = n + 1
        BY <2>3, <2>6, <3>1, <3>3, <4>2
      <4>3. CASE i = n + 1 /\ j \in 1..n
        BY <2>3, <2>6, <3>1, <3>3, <4>3
      <4> QED BY <2>7, <4>1, <4>2, <4>3
    <3> QED BY <2>6, <3>2, <3>3 DEF Separate
  <2>10. \A h, m : Injected(acc, h, m) => Injected(new, h, m)
    BY <2>6, <2>7 DEF Injected, n
  <2>11. ~r.fromGlobal => Injected(new, r.h, name)
    <3>1. s = [h |-> r.h, name |-> name, fromGlobal |-> r.fromGlobal] /\ r.fromGlobal \in BOOLEAN
      BY DEF s, Ref
    <3> QED BY <2>6, <2>7, <3>1 DEF Injected
  <2>12. Advances(acc, new)
    BY <2>1, <2>9, <2>10 DEF Advances
  <2> QED BY <1>1, <1>4, <2>11, <2>12
<1> HIDE DEF fail, new, contested
<1> QED BY <1>1, <1>2, <1>3, <1>4

LEMMA UnresolvedAdvances ==
    ASSUME NEW acc \in Outcome, acc.error = "none", NEW r \in Ref, NEW why \in {"missing", "short"}
    PROVE  /\ Advances(acc, Unresolved(acc, r, why))
           /\ Unresolved(acc, r, why).error = "none" => r.fromGlobal
<1> DEFINE new == Unresolved(acc, r, why)
<1>1. new.got = acc.got /\ new.bound = acc.bound
      /\ (new.error = "none" => r.fromGlobal)
  BY DEF Unresolved, Fail, Outcome
<1> HIDE DEF new
<1>2. Advances(acc, new)
  BY <1>1 DEF Advances, Separate, Injected
<1> QED BY <1>1, <1>2 DEF new

LEMMA SameAdvances ==
    ASSUME NEW acc \in Outcome PROVE Advances(acc, acc)
BY DEF Advances

\* The name of a Ref that has one of its own.
LEMMA NameIs ==
    ASSUME NEW r \in Ref, NEW c \in Names
    PROVE  /\ First(<<r.override, r.declared, c>>) \in Names
           /\ Owed(r) => First(<<r.override, r.declared, c>>) = NameOf(r)
<1>1. r.override \in NameOrNone /\ r.declared \in NameOrNone
  BY DEF Ref, NameOrNone
<1>2. First(<<r.override, r.declared, c>>) =
        IF r.override # Absent THEN r.override ELSE IF r.declared # Absent THEN r.declared ELSE c
  BY <1>1, FirstIs
<1> QED BY <1>1, <1>2 DEF NameOrNone, Owed, NameOf

LEMMA VaultStepAdvances ==
    ASSUME NEW v \in Entries, NEW acc \in Outcome, NEW r \in Ref
    PROVE  /\ Advances(acc, VaultStep(v, acc, r))
           /\ VaultStep(v, acc, r).error = "none" => Answered(VaultStep(v, acc, r), r)
<1>1. CASE acc.error # "none"
  BY <1>1, SameAdvances DEF VaultStep
<1>2. CASE acc.error = "none" /\ v[r.h] = Absent
  BY <1>2, UnresolvedAdvances DEF VaultStep, Answered, Owed
<1>3. CASE acc.error = "none" /\ v[r.h] # Absent
  <2> DEFINE name == First(<<r.override, r.declared, v[r.h]>>)
  <2>1. v[r.h] \in Names
    BY <1>3 DEF Ref, Entries
  <2>2. name \in Names /\ (Owed(r) => name = NameOf(r))
    BY <2>1, NameIs
  <2>3. VaultStep(v, acc, r) = Bind(acc, r, name)
    BY <1>3 DEF VaultStep
  <2> HIDE DEF name
  <2> QED BY <1>3, <2>2, <2>3, BindAdvances DEF Answered, Owed
<1> QED BY <1>1, <1>2, <1>3

LEMMA EnvStepAdvances ==
    ASSUME NEW e \in Environ, NEW acc \in Outcome, NEW r \in Ref
    PROVE  /\ Advances(acc, EnvStep(e, acc, r))
           /\ EnvStep(e, acc, r).error = "none" =>
                Answered(EnvStep(e, acc, r), r) /\ (Owed(r) => e[NameOf(r)] = "long")
<1> DEFINE name == First(<<r.override, r.declared, DefaultName[r.h]>>)
<1>1. DefaultName[r.h] \in Names
  BY DefaultsAreNames DEF Ref
<1>2. name \in Names /\ (Owed(r) => name = NameOf(r))
  BY <1>1, NameIs
<1>3. EnvStep(e, acc, r) = IF acc.error # "none" THEN acc
        ELSE IF e[name] = Absent THEN Unresolved(acc, r, "missing")
        ELSE IF e[name] = "short" THEN Unresolved(acc, r, "short")
        ELSE Bind(acc, r, name)
  BY DEF EnvStep
<1>4. e[name] \in {"long", "short", Absent}
  <2> HIDE DEF name
  <2> QED BY <1>2 DEF Environ
<1> HIDE DEF name
<1>5. CASE acc.error # "none"
  BY <1>3, <1>5, SameAdvances
<1>6. CASE acc.error = "none" /\ e[name] = Absent
  BY <1>3, <1>6, UnresolvedAdvances DEF Answered, Owed
<1>7. CASE acc.error = "none" /\ e[name] # Absent /\ e[name] = "short"
  BY <1>3, <1>7, UnresolvedAdvances DEF Answered, Owed
<1>8. CASE acc.error = "none" /\ e[name] # Absent /\ e[name] # "short"
  <2>1. e[name] = "long"
    BY <1>4, <1>8
  <2>2. EnvStep(e, acc, r) = Bind(acc, r, name)
    BY <1>3, <1>8
  <2> QED BY <1>2, <1>8, <2>1, <2>2, BindAdvances DEF Answered, Owed
<1> QED BY <1>5, <1>6, <1>7, <1>8

LEMMA FreshIsSeparate == Separate(Fresh)
BY DEF Fresh, Separate

\* What advances keeps what was answered.
LEMMA StillAnswered ==
    ASSUME NEW acc, NEW new, Advances(acc, new), NEW r, Answered(acc, r)
    PROVE  Answered(new, r)
BY DEF Advances, Answered

LEMMA VaultResolves ==
    ASSUME NEW v \in Entries, NEW ws \in Seq(Ref)
    PROVE  /\ ResolveFromVault(ws, v) \in Outcome /\ Separate(ResolveFromVault(ws, v))
           /\ ResolveFromVault(ws, v).error = "none" =>
                \A i \in 1..Len(ws) : Answered(ResolveFromVault(ws, v), ws[i])
<1>1. PICK f : VaultSteps(f, v, ws) /\ ResolveFromVault(ws, v) = f[Len(ws)]
  BY VaultFolds
<1> DEFINE n == Len(ws)
           T == {k \in 0..n : /\ Separate(f[k])
                              /\ f[k].error = "none" => \A i \in 1..k : Answered(f[k], ws[i])}
<1>2. n \in Nat /\ \A k \in 1..n : ws[k] \in Ref
  BY LenProperties, ElementOfSeq
<1>3. /\ f \in [0..n -> Outcome] /\ f[0] = Fresh
      /\ \A k \in 1..n : f[k] = VaultStep(v, f[k - 1], ws[k])
  BY <1>1 DEF VaultSteps
<1>4. 0 \in T
  BY <1>2, <1>3, FreshIsSeparate
<1>5. ASSUME NEW k \in 0..n - 1, k \in T PROVE k + 1 \in T
  <2> DEFINE j == k + 1
  <2>1. j \in 1..n /\ j \in 0..n /\ k \in 0..n /\ j - 1 = k
    BY <1>2
  <2>2. ws[j] \in Ref /\ f[k] \in Outcome
    BY <1>2, <1>3, <2>1
  <2>3. f[j] = VaultStep(v, f[k], ws[j])
    BY <1>3, <2>1
  <2>4. Separate(f[k]) /\ (f[k].error = "none" => \A i \in 1..k : Answered(f[k], ws[i]))
    BY <1>5
  <2> HIDE DEF j
  <2>5. Advances(f[k], f[j]) /\ (f[j].error = "none" => Answered(f[j], ws[j]))
    BY <2>2, <2>3, VaultStepAdvances
  <2>6. Separate(f[j]) /\ (f[j].error = "none" => f[k].error = "none")
    BY <2>4, <2>5 DEF Advances
  <2>7. ASSUME f[j].error = "none", NEW i \in 1..j PROVE Answered(f[j], ws[i])
    <3>1. i = j \/ i \in 1..k
      BY <2>1 DEF j
    <3>2. CASE i = j
      BY <2>5, <2>7, <3>2
    <3>3. CASE i \in 1..k
      <4>1. Answered(f[k], ws[i])
        BY <2>4, <2>6, <2>7, <3>3
      <4> QED BY <2>5, <4>1, StillAnswered
    <3> QED BY <3>1, <3>2, <3>3
  <2>8. j \in T
    BY <2>1, <2>6, <2>7
  <2> QED BY <2>8 DEF j
<1> HIDE DEF T
<1>6. n \in T
  <2> HIDE DEF n
  <2> QED BY <1>2, <1>4, <1>5, Reaches
<1>7. Separate(f[n]) /\ (f[n].error = "none" => \A i \in 1..n : Answered(f[n], ws[i]))
  BY <1>6 DEF T
<1>8. f[n] \in Outcome
  <2>1. n \in 0..n
    BY <1>2
  <2> HIDE DEF n
  <2> QED BY <1>3, <2>1
<1> QED BY <1>1, <1>7, <1>8

LEMMA EnvResolves ==
    ASSUME NEW e \in Environ, NEW ws \in Seq(Ref)
    PROVE  /\ ResolveFromEnv(ws, e) \in Outcome /\ Separate(ResolveFromEnv(ws, e))
           /\ ResolveFromEnv(ws, e).error = "none" =>
                \A i \in 1..Len(ws) : Answered(ResolveFromEnv(ws, e), ws[i]) /\ (Owed(ws[i]) => e[NameOf(ws[i])] = "long")
<1>1. PICK f : EnvSteps(f, e, ws) /\ ResolveFromEnv(ws, e) = f[Len(ws)]
  BY EnvFolds
<1> DEFINE n == Len(ws)
           T == {k \in 0..n : /\ Separate(f[k])
                              /\ f[k].error = "none" => \A i \in 1..k : Answered(f[k], ws[i]) /\ (Owed(ws[i]) => e[NameOf(ws[i])] = "long")}
<1>2. n \in Nat /\ \A k \in 1..n : ws[k] \in Ref
  BY LenProperties, ElementOfSeq
<1>3. /\ f \in [0..n -> Outcome] /\ f[0] = Fresh
      /\ \A k \in 1..n : f[k] = EnvStep(e, f[k - 1], ws[k])
  BY <1>1 DEF EnvSteps
<1>4. 0 \in T
  BY <1>2, <1>3, FreshIsSeparate
<1>5. ASSUME NEW k \in 0..n - 1, k \in T PROVE k + 1 \in T
  <2> DEFINE j == k + 1
  <2>1. j \in 1..n /\ j \in 0..n /\ k \in 0..n /\ j - 1 = k
    BY <1>2
  <2>2. ws[j] \in Ref /\ f[k] \in Outcome
    BY <1>2, <1>3, <2>1
  <2>3. f[j] = EnvStep(e, f[k], ws[j])
    BY <1>3, <2>1
  <2>4. Separate(f[k]) /\ (f[k].error = "none" => \A i \in 1..k : Answered(f[k], ws[i]) /\ (Owed(ws[i]) => e[NameOf(ws[i])] = "long"))
    BY <1>5
  <2> HIDE DEF j
  <2>5. Advances(f[k], f[j]) /\ (f[j].error = "none" => Answered(f[j], ws[j]) /\ (Owed(ws[j]) => e[NameOf(ws[j])] = "long"))
    BY <2>2, <2>3, EnvStepAdvances
  <2>6. Separate(f[j]) /\ (f[j].error = "none" => f[k].error = "none")
    BY <2>4, <2>5 DEF Advances
  <2>7. ASSUME f[j].error = "none", NEW i \in 1..j PROVE Answered(f[j], ws[i]) /\ (Owed(ws[i]) => e[NameOf(ws[i])] = "long")
    <3>1. i = j \/ i \in 1..k
      BY <2>1 DEF j
    <3>2. CASE i = j
      BY <2>5, <2>7, <3>2
    <3>3. CASE i \in 1..k
      <4>1. Answered(f[k], ws[i]) /\ (Owed(ws[i]) => e[NameOf(ws[i])] = "long")
        BY <2>4, <2>6, <2>7, <3>3
      <4> QED BY <2>5, <4>1, StillAnswered
    <3> QED BY <3>1, <3>2, <3>3
  <2>8. j \in T
    BY <2>1, <2>6, <2>7
  <2> QED BY <2>8 DEF j
<1> HIDE DEF T
<1>6. n \in T
  <2> HIDE DEF n
  <2> QED BY <1>2, <1>4, <1>5, Reaches
<1>7. Separate(f[n]) /\ (f[n].error = "none" => \A i \in 1..n : Answered(f[n], ws[i]) /\ (Owed(ws[i]) => e[NameOf(ws[i])] = "long"))
  BY <1>6 DEF T
<1>8. f[n] \in Outcome
  <2>1. n \in 0..n
    BY <1>2
  <2> HIDE DEF n
  <2> QED BY <1>3, <2>1
<1> QED BY <1>1, <1>7, <1>8

\* A variable of the child holds a Secret that asked for it.
LEMMA EnvironmentIs ==
    ASSUME NEW got \in Seq(Got), NEW i \in 1..Len(got)
    PROVE  \E j \in 1..Len(got) :
             got[j].name = got[i].name /\ Environment(got)[got[i].name] = got[j].h
<1>1. PICK f : AssignSteps(f, got) /\ Environment(got) = f[Len(got)]
  BY AssignFolds
<1> DEFINE n == Len(got)
           Holder(k, name) == \E j \in 1..k : got[j].name = name /\ f[k][name] = got[j].h
           T == {k \in 0..n : \A l \in 1..k : Holder(k, got[l].name)}
<1>2. n \in Nat /\ \A k \in 1..n : got[k] \in Got
  BY LenProperties, ElementOfSeq
<1>3. /\ f \in [0..n -> Variables]
      /\ \A k \in 1..n : f[k] = Assign(f[k - 1], got[k])
  BY <1>1 DEF AssignSteps
<1>4. 0 \in T
  BY <1>2
<1>5. ASSUME NEW k \in 0..n - 1, k \in T PROVE k + 1 \in T
  <2> DEFINE m == k + 1
  <2>1. m \in 1..n /\ m \in 0..n /\ k \in 0..n /\ m - 1 = k
    BY <1>2
  <2>2. got[m] \in Got /\ f[k] \in Variables
    BY <1>2, <1>3, <2>1
  <2>3. f[m] = Assign(f[k], got[m])
    BY <1>3, <2>1
  <2>4. \A l \in 1..k : Holder(k, got[l].name)
    BY <1>5
  <2>5. \A l \in 1..m : l \in 1..n /\ (l = m \/ l \in 1..k)
    BY <2>1
  <2>6. m \in 1..m /\ \A l \in 1..k : l \in 1..m
    BY <2>1
  <2> HIDE DEF m
  <2>7. /\ f[m][got[m].name] = got[m].h
        /\ \A name \in Names : name # got[m].name => f[m][name] = f[k][name]
    BY <2>2, <2>3 DEF Assign, Variables, Got
  <2>8. ASSUME NEW l \in 1..m PROVE Holder(m, got[l].name)
    <3>1. CASE got[l].name = got[m].name
      BY <2>6, <2>7, <3>1
    <3>2. CASE got[l].name # got[m].name
      <4>1. l \in 1..k /\ got[l].name \in Names
        BY <1>2, <2>5, <3>2 DEF Got
      <4>2. PICK j \in 1..k : got[j].name = got[l].name /\ f[k][got[l].name] = got[j].h
        BY <2>4, <4>1
      <4> QED BY <2>6, <2>7, <3>2, <4>1, <4>2
    <3> QED BY <3>1, <3>2
  <2>9. m \in T
    BY <2>1, <2>8
  <2> QED BY <2>9 DEF m
<1>6. n \in T
  <2>1. n \in Nat /\ 0 \in T
    BY <1>2, <1>4
  <2>2. \A k \in 0..n - 1 : k \in T => k + 1 \in T
    <3> HIDE DEF T
    <3> QED BY <1>5
  <2> HIDE DEF T, n
  <2> QED BY <2>1, <2>2, Reaches
<1>7. Holder(n, got[i].name)
  BY <1>6
<1> QED BY <1>1, <1>7

-----------------------------------------------------------------------------
(* A run, from the Manifest it has read to its child. *)

InRun == {"global", "resolve", "child"}

ListedNeedsNone(p) == (pc[p] \in InRun /\ job[p].listed) => copy[p] = NoFile

\* The Refs, once the files are read.
RefsFollow(p) ==
    pc[p] \in {"resolve", "child"} =>
        /\ refs[p] \in Seq(Ref)
        /\ NoneAmbient(refs[p])
             \/ /\ copy[p] # NoFile /\ ~copy[p].disabled
                /\ ~job[p].noGlobal /\ ~job[p].listed /\ GlobalReaches(job[p].dir)
        /\ copy[p] # NoFile =>
             \A h \in Handles : copy[p].entries[h] # Absent =>
                Asked(refs[p], h, copy[p].entries[h], Overrides(job[p].with, h))

\* ... and what Resolve has made of them.
ResultAnswers(p) ==
    pc[p] = "child" =>
        /\ result[p] \in Outcome /\ Separate(result[p])
        /\ \A i \in 1..Len(refs[p]) :
             /\ Answered(result[p], refs[p][i])
             /\ (Owed(refs[p][i]) /\ job[p].environ # Absent) =>
                  job[p].environ[NameOf(refs[p][i])] = "long"

RunFollows(p) == ListedNeedsNone(p) /\ RefsFollow(p) /\ ResultAnswers(p)

RunInv ==
    /\ refs \in [Procs -> Seq(Ref)] /\ result \in [Procs -> Outcome]
    /\ \A p \in Procs : RunFollows(p)

LEMMA RunLines ==
    ASSUME NEW j \in Offered, j.op = "run"
    PROVE  /\ j.dir \in Dirs /\ j.with \in With /\ j.listed \in BOOLEAN /\ j.noGlobal \in BOOLEAN
           /\ j.environ \in Environ \cup {Absent}
BY OfferedAreCommandLines DEF CommandLine, With, Environ

LEMMA ReadProjectFollows ==
    ASSUME DInv, RunInv, NEW p \in Procs, ReadProject(p)
    PROVE  RunFollows(p)'
BY DEF DInv, Processes, ReadProject, Holds, Goto, Keeps, RunFollows, ListedNeedsNone,
       RefsFollow, ResultAnswers

LEMMA ReadGlobalFollows ==
    ASSUME DInv, RunInv, NEW p \in Procs, ReadGlobal(p)
    PROVE  refs'[p] \in Seq(Ref) /\ RunFollows(p)'
<1> DEFINE j == job[p]
           m == copy[p]
           base == IF m = NoFile THEN <<>> ELSE Refs(m, global, j.dir, ~j.noGlobal)
           all == IF j.listed THEN Explicit(j.with) ELSE FoldLeft(WithRef, base, Explicit(j.with))
           open == /\ m # NoFile /\ ~m.disabled
                   /\ ~j.noGlobal /\ ~j.listed /\ GlobalReaches(j.dir)
<1>1. /\ pc[p] = "global" /\ refs' = [refs EXCEPT ![p] = all] /\ pc' = [pc EXCEPT ![p] = "resolve"]
      /\ UNCHANGED <<job, copy, result>>
  BY DEF ReadGlobal, Goto
<1>2. /\ j.dir \in Dirs /\ j.with \in With /\ j.listed \in BOOLEAN /\ j.noGlobal \in BOOLEAN
      /\ m \in Manifest \cup {NoFile} /\ global \in Entries
  <2>1. j \in Offered /\ j.op = "run"
    BY <1>1 DEF DInv, Processes, At
  <2> HIDE DEF j
  <2>2. m \in Manifest \cup {NoFile} /\ global \in Entries
    BY DEF DInv, Processes, Files
  <2> QED BY <2>1, <2>2, RunLines
<1>3. j.listed => m = NoFile
  BY <1>1 DEF RunInv, RunFollows, ListedNeedsNone, InRun
<1>4. refs'[p] = all /\ pc'[p] = "resolve" /\ job'[p] = j /\ copy'[p] = m
  BY <1>1 DEF RunInv, DInv, Processes
<1> HIDE DEF j, m
<1>5. base \in Seq(Ref)
  <2>1. m # NoFile => Refs(m, global, j.dir, ~j.noGlobal) \in Seq(Ref)
    BY <1>2, RefsIs
  <2>2. <<>> \in Seq(Ref)
    BY EmptySeq
  <2> QED BY <2>1, <2>2
<1>6. ~j.listed => NoneAmbient(base) \/ open
  <2>1. NoneAmbient(<<>>)
    BY DEF NoneAmbient
  <2>2. m # NoFile => \/ NoneAmbient(Refs(m, global, j.dir, ~j.noGlobal))
                      \/ ~j.noGlobal /\ ~m.disabled /\ GlobalReaches(j.dir)
    BY <1>2, RefsIs
  <2> QED BY <2>1, <2>2
<1>7. m # NoFile => \A h \in Handles : m.entries[h] # Absent => Asked(base, h, m.entries[h], {Absent})
  <2>1. m # NoFile => \A h \in Handles : m.entries[h] # Absent =>
          Asked(Refs(m, global, j.dir, ~j.noGlobal), h, m.entries[h], {Absent})
    BY <1>2, RefsIs
  <2> QED BY <2>1
<1> HIDE DEF base
<1>8. all \in Seq(Ref) /\ (NoneAmbient(all) \/ open)
  <2>1. Explicit(j.with) \in Seq(Ref) /\ NoneAmbient(Explicit(j.with))
    BY <1>2, ExplicitIs
  <2>2. FoldLeft(WithRef, base, Explicit(j.with)) \in Seq(Ref)
        /\ (NoneAmbient(base) => NoneAmbient(FoldLeft(WithRef, base, Explicit(j.with))))
    BY <1>2, <1>5, RefsWith
  <2> HIDE DEF open
  <2> QED BY <1>6, <2>1, <2>2
<1>9. ASSUME m # NoFile, NEW h \in Handles, m.entries[h] # Absent
      PROVE  Asked(all, h, m.entries[h], Overrides(j.with, h))
  <2>1. Asked(base, h, m.entries[h], {Absent})
    BY <1>7, <1>9
  <2> DEFINE d == m.entries[h]
  <2> HIDE DEF d
  <2>2. Asked(base, h, d, {Absent})
    BY <2>1 DEF d
  <2>3. Asked(FoldLeft(WithRef, base, Explicit(j.with)), h, d, Overrides(j.with, h))
    BY <1>2, <1>5, <2>2, RefsWith
  <2>4. ~j.listed
    BY <1>3, <1>9
  <2> QED BY <2>3, <2>4 DEF d
<1> HIDE DEF all
<1>10. /\ (pc[p] \in InRun)' /\ ListedNeedsNone(p)'
  BY <1>3, <1>4 DEF ListedNeedsNone, InRun
<1>11. RefsFollow(p)'
  BY <1>4, <1>8, <1>9 DEF RefsFollow
<1>12. ResultAnswers(p)'
  BY <1>4 DEF ResultAnswers
<1> QED BY <1>4, <1>8, <1>10, <1>11, <1>12 DEF RunFollows

LEMMA ResolveFollows ==
    ASSUME DInv, RunInv, NEW p \in Procs, Resolve(p)
    PROVE  result'[p] \in Outcome /\ (pc'[p] = "idle" \/ RunFollows(p)')
<1> DEFINE j == job[p]
           rs == refs[p]
           acc == IF j.environ = Absent THEN ResolveFromVault(rs, vault)
                  ELSE ResolveFromEnv(rs, j.environ)
<1>1. CASE acc.error # "none"
  <2>1. End(p)
    BY <1>1 DEF Resolve
  <2>2. pc'[p] = "idle" /\ result'[p] = Fresh
    BY <2>1 DEF End, Goto, DInv, Processes, RunInv
  <2> QED BY <2>2, FreshIsOutcome
<1>2. CASE acc.error = "none"
  <2>1. /\ pc[p] = "resolve" /\ result' = [result EXCEPT ![p] = acc]
        /\ pc' = [pc EXCEPT ![p] = "child"] /\ UNCHANGED <<job, copy, refs>>
    BY <1>2 DEF Resolve, Goto
  <2>2. /\ result'[p] = acc /\ pc'[p] = "child" /\ job'[p] = j /\ refs'[p] = rs /\ copy'[p] = copy[p]
    BY <2>1 DEF RunInv, DInv, Processes
  <2>3. j.environ \in Environ \cup {Absent} /\ vault \in Entries /\ rs \in Seq(Ref)
    <3>1. j \in Offered /\ j.op = "run" /\ vault \in Entries /\ rs \in Seq(Ref)
      BY <2>1 DEF DInv, Processes, At, Files, RunInv
    <3> HIDE DEF j, rs
    <3> QED BY <3>1, RunLines
  <2> HIDE DEF j, rs
  <2>4. /\ acc \in Outcome /\ Separate(acc)
        /\ \A i \in 1..Len(rs) : /\ Answered(acc, rs[i])
                                 /\ (Owed(rs[i]) /\ j.environ # Absent) =>
                                      j.environ[NameOf(rs[i])] = "long"
    <3>1. CASE j.environ = Absent
      <4>1. acc = ResolveFromVault(rs, vault)
        BY <3>1
      <4> HIDE DEF acc
      <4> QED BY <1>2, <2>3, <3>1, <4>1, VaultResolves
    <3>2. CASE j.environ # Absent
      <4>1. acc = ResolveFromEnv(rs, j.environ) /\ j.environ \in Environ
        BY <2>3, <3>2
      <4> HIDE DEF acc
      <4> QED BY <1>2, <2>3, <4>1, EnvResolves
    <3> QED BY <3>1, <3>2
  <2> HIDE DEF acc
  <2>5. ResultAnswers(p)'
    BY <2>2, <2>4 DEF ResultAnswers
  <2>6. ListedNeedsNone(p)' /\ RefsFollow(p)'
    <3>1. ListedNeedsNone(p) /\ RefsFollow(p) /\ pc[p] = "resolve"
      BY <2>1 DEF RunInv, RunFollows
    <3> QED BY <2>2, <3>1 DEF ListedNeedsNone, RefsFollow, InRun, j, rs
  <2> QED BY <2>2, <2>4, <2>5, <2>6 DEF RunFollows
<1> QED BY <1>1, <1>2

\* What a step does to a run: nothing, one of its three, or its end; and a
\* command begins as no run that has read anything.
SameRun(p) ==
    /\ pc'[p] = pc[p] /\ job'[p] = job[p] /\ copy'[p] = copy[p]
    /\ refs'[p] = refs[p] /\ result'[p] = result[p]

LEMMA RunSteps ==
    ASSUME DInv, RunInv, [Next]_vars, NEW p \in Procs
    PROVE  \/ SameRun(p)
           \/ pc'[p] \notin InRun /\ refs'[p] \in {<<>>, refs[p]} /\ result'[p] \in {Fresh, result[p]}
           \/ ReadProject(p) /\ refs'[p] = refs[p] /\ result'[p] = result[p]
           \/ ReadGlobal(p) /\ result'[p] = result[p]
           \/ Resolve(p) /\ refs'[p] \in {<<>>, refs[p]}
<1> USE DEF DInv, RunInv, Processes, SameRun
<1>1. CASE UNCHANGED vars
  BY <1>1 DEF vars
<1>2. ASSUME NEW q \in Procs, NEW j \in Offered, Start(q, j)
      PROVE  SameRun(p) \/ (pc'[p] \notin InRun /\ refs'[p] = refs[p] /\ result'[p] = result[p])
  BY <1>2, BeginsFits DEF Start, Goto, Holds, InRun
<1>3. ASSUME NEW q \in Procs, End(q)
      PROVE  SameRun(p) \/ (pc'[p] \notin InRun /\ refs'[p] = <<>> /\ result'[p] = Fresh)
  BY <1>3 DEF End, Goto, InRun
<1>4. ASSUME NEW q \in Procs, NEW where \in Places \ InRun, Goto(q, where), Keeps,
             UNCHANGED copy \/ \E m : Holds(q, m)
      PROVE  SameRun(p) \/ (pc'[p] \notin InRun /\ refs'[p] = refs[p] /\ result'[p] = result[p])
  BY <1>4 DEF Goto, Keeps, Holds
<1>5. {"vault", "load", "save", "zero", "unlink", "lock", "gload", "gsave"} \subseteq Places \ InRun
  BY DEF Places, InRun
<1>6. ASSUME NEW q \in Procs, ImportVault(q) \/ AddVault(q) \/ RemoveFromVault(q)
      PROVE  SameRun(p) \/ (pc'[p] \notin InRun /\ refs'[p] \in {<<>>, refs[p]} /\ result'[p] \in {Fresh, result[p]})
  <2>1. End(q) \/ \E where \in Places \ InRun : Goto(q, where) /\ Keeps /\ UNCHANGED copy
    BY <1>5, <1>6 DEF ImportVault, AddVault, RemoveFromVault
  <2> QED BY <1>3, <1>4, <2>1
<1>7. ASSUME NEW q \in Procs, LoadProject(q) \/ SaveProject(q) \/ Zero(q) \/ Unlink(q)
      PROVE  SameRun(p) \/ (pc'[p] \notin InRun /\ refs'[p] \in {<<>>, refs[p]} /\ result'[p] \in {Fresh, result[p]})
  <2>1. \/ End(q)
        \/ \E where \in Places \ InRun : Goto(q, where) /\ Keeps /\ (UNCHANGED copy \/ \E m : Holds(q, m))
    BY <1>5, <1>7 DEF LoadProject, SaveProject, Zero, Unlink
  <2> QED BY <1>3, <1>4, <2>1
<1>8. ASSUME NEW q \in Procs, AcquireGlobal(q)
      PROVE  SameRun(p) \/ (pc'[p] \notin InRun /\ refs'[p] = refs[p] /\ result'[p] = result[p])
  BY <1>8 DEF AcquireGlobal, Goto, InRun
<1>9. ASSUME NEW q \in Procs, LoadGlobal(q) \/ SaveGlobal(q)
      PROVE  SameRun(p) \/ (pc'[p] \notin InRun /\ refs'[p] \in {<<>>, refs[p]} /\ result'[p] \in {Fresh, result[p]})
  <2>1. \/ End(q)
        \/ \E where \in Places \ InRun : Goto(q, where) /\ Keeps /\ (UNCHANGED copy \/ \E m : Holds(q, m))
    BY <1>5, <1>9 DEF LoadGlobal, SaveGlobal
  <2> QED BY <1>3, <1>4, <2>1
<1>10. ASSUME NEW q \in Procs, ReadProject(q)
       PROVE  SameRun(p) \/ (p = q /\ refs'[p] = refs[p] /\ result'[p] = result[p])
  BY <1>10 DEF ReadProject, Goto, Keeps, Holds
<1>11. ASSUME NEW q \in Procs, ReadGlobal(q)
       PROVE  SameRun(p) \/ (p = q /\ result'[p] = result[p])
  BY <1>11 DEF ReadGlobal, Goto
<1>12. ASSUME NEW q \in Procs, Resolve(q)
       PROVE  SameRun(p) \/ (p = q /\ refs'[p] \in {<<>>, refs[p]})
  BY <1>12 DEF Resolve, End, Goto
<1>13. ASSUME NEW q \in Procs, AcquireTimesOut(q) \/ ChildExits(q) \/ Kill(q)
       PROVE  SameRun(p) \/ (pc'[p] \notin InRun /\ refs'[p] = <<>> /\ result'[p] = Fresh)
  <2>1. End(q)
    BY <1>13 DEF AcquireTimesOut, ChildExits, Kill
  <2> QED BY <1>3, <2>1
<1> HIDE DEF DInv, RunInv, Processes, SameRun
<1>14. CASE Next
  <2>1. PICK q \in Procs :
          \/ \E j \in Offered : Start(q, j)
          \/ ImportVault(q) \/ AddVault(q) \/ RemoveFromVault(q)
          \/ LoadProject(q) \/ SaveProject(q) \/ Zero(q) \/ Unlink(q)
          \/ AcquireGlobal(q) \/ AcquireTimesOut(q) \/ LoadGlobal(q) \/ SaveGlobal(q)
          \/ ReadProject(q) \/ ReadGlobal(q) \/ Resolve(q) \/ ChildExits(q)
          \/ Kill(q)
    BY <1>14 DEF Next
  <2> QED BY <2>1, <1>2, <1>6, <1>7, <1>8, <1>9, <1>10, <1>11, <1>12, <1>13
<1> QED BY <1>1, <1>14

LEMMA StillFunctions ==
    ASSUME RunInv, [Next]_vars
    PROVE  /\ refs' = [p \in Procs |-> refs'[p]]
           /\ result' = [p \in Procs |-> result'[p]]
<1> DEFINE Kept == /\ refs' = refs \/ \E q, x : refs' = [refs EXCEPT ![q] = x]
                   /\ result' = result \/ \E q, x : result' = [result EXCEPT ![q] = x]
<1>1. CASE UNCHANGED vars
  BY <1>1 DEF vars, RunInv
<1>2. CASE Next
  <2>1. ASSUME NEW q \in Procs, End(q) PROVE Kept
    BY <2>1 DEF End
  <2>2. ASSUME NEW q \in Procs,
               \/ \E j \in Offered : Start(q, j)
               \/ ImportVault(q) \/ AddVault(q) \/ RemoveFromVault(q)
               \/ LoadProject(q) \/ SaveProject(q) \/ Zero(q) \/ Unlink(q)
        PROVE  Kept
    <3>1. End(q) \/ UNCHANGED <<refs, result>>
      BY <2>2 DEF Start, ImportVault, AddVault, RemoveFromVault, LoadProject, SaveProject, Zero,
                  Unlink, Keeps
    <3> QED BY <2>1, <3>1
  <2>3. ASSUME NEW q \in Procs,
               \/ AcquireGlobal(q) \/ AcquireTimesOut(q) \/ LoadGlobal(q) \/ SaveGlobal(q)
               \/ ReadProject(q) \/ ChildExits(q) \/ Kill(q)
        PROVE  Kept
    <3>1. End(q) \/ UNCHANGED <<refs, result>>
      BY <2>3 DEF AcquireGlobal, AcquireTimesOut, LoadGlobal, SaveGlobal, ReadProject, ChildExits,
                  Kill, Keeps
    <3> QED BY <2>1, <3>1
  <2>4. ASSUME NEW q \in Procs, ReadGlobal(q) PROVE Kept
    BY <2>4 DEF ReadGlobal
  <2>5. ASSUME NEW q \in Procs, Resolve(q) PROVE Kept
    <3>1. End(q) \/ (UNCHANGED refs /\ \E x : result' = [result EXCEPT ![q] = x])
      BY <2>5 DEF Resolve
    <3> QED BY <2>1, <3>1
  <2> HIDE DEF Kept
  <2>6. Kept
    BY <1>2, <2>2, <2>3, <2>4, <2>5 DEF Next
  <2> QED BY <2>6 DEF Kept, RunInv
<1> QED BY <1>1, <1>2

LEMMA RunInit == Init => RunInv
<1> SUFFICES ASSUME Init PROVE RunInv
  OBVIOUS
<1>1. <<>> \in Seq(Ref) /\ Fresh \in Outcome
  BY EmptySeq, FreshIsOutcome
<1> QED BY <1>1 DEF Init, RunInv, RunFollows, ListedNeedsNone, RefsFollow, ResultAnswers, InRun

LEMMA RunKeeps ==
    ASSUME DInv, RunInv, [Next]_vars
    PROVE  RunInv'
<1>1. ASSUME NEW p \in Procs
      PROVE  refs'[p] \in Seq(Ref) /\ result'[p] \in Outcome /\ RunFollows(p)'
  <2>1. refs[p] \in Seq(Ref) /\ result[p] \in Outcome /\ RunFollows(p)
    BY DEF RunInv
  <2>2. <<>> \in Seq(Ref) /\ Fresh \in Outcome
    BY EmptySeq, FreshIsOutcome
  <2>3. CASE SameRun(p)
    BY <2>1, <2>3 DEF SameRun, RunFollows, ListedNeedsNone, RefsFollow, ResultAnswers
  <2>4. ASSUME pc'[p] \notin InRun PROVE RunFollows(p)'
    BY <2>4 DEF RunFollows, ListedNeedsNone, RefsFollow, ResultAnswers, InRun
  <2>5. CASE ReadProject(p) /\ refs'[p] = refs[p] /\ result'[p] = result[p]
    BY <2>1, <2>5, ReadProjectFollows
  <2>6. CASE ReadGlobal(p) /\ result'[p] = result[p]
    BY <2>1, <2>6, ReadGlobalFollows
  <2>7. CASE Resolve(p) /\ refs'[p] \in {<<>>, refs[p]}
    <3>1. pc'[p] = "idle" => RunFollows(p)'
      BY <2>4 DEF InRun
    <3> QED BY <2>1, <2>2, <2>7, <3>1, ResolveFollows
  <2> QED BY <2>1, <2>2, <2>3, <2>4, <2>5, <2>6, <2>7, RunSteps
<1>2. refs' \in [Procs -> Seq(Ref)] /\ result' \in [Procs -> Outcome]
  <2>1. refs' = [p \in Procs |-> refs'[p]] /\ result' = [p \in Procs |-> result'[p]]
    BY StillFunctions
  <2> QED BY <1>1, <2>1
<1> QED BY <1>1, <1>2 DEF RunInv

LEMMA RunInvAlways == Spec => []RunInv
<1>1. Spec => []DInv
  BY DInvAlways
<1>2. DInv /\ RunInv /\ [Next]_vars => RunInv'
  BY RunKeeps
<1> QED BY <1>1, <1>2, RunInit, PTL DEF Spec

LEMMA GotIs ==
    ASSUME NEW acc \in Outcome, NEW i \in 1..Len(acc.got)
    PROVE  acc.got \in Seq(Got) /\ acc.got[i] \in Got
<1>1. acc.got \in Seq(Got)
  BY DEF Outcome
<1> QED BY <1>1, ElementOfSeq

\* What runs with Secrets is given every Handle that its project's Manifest
\* declares, under its name and not as a Global one, whatever has become of the
\* files since each was read, whatever the Global Manifest asks for and however
\* many variables collide (Refs, Resolve, Run).
THEOREM ProjectsGetTheirContract == Spec => []RunGetsItsContract
<1>1. ASSUME DInv, RunInv PROVE RunGetsItsContract
  <2> SUFFICES ASSUME NEW p \in Procs, pc[p] = "child", copy[p] # NoFile,
                      NEW h \in Handles, copy[p].entries[h] # Absent
               PROVE  \E i \in 1..Len(result[p].got) :
                        LET got == result[p].got
                            s == got[i]
                        IN  /\ s.h = h /\ ~s.fromGlobal
                            /\ \/ s.name = copy[p].entries[h]
                               \/ \E w \in 1..Len(job[p].with) :
                                    job[p].with[w] = [h |-> h, override |-> s.name]
                            /\ job[p].environ = Absent \/ job[p].environ[s.name] = "long"
                            /\ \/ Environment(got)[s.name] = h
                               \/ \E j \in 1..Len(got) :
                                    got[j].name = s.name /\ got[j].h # h /\ ~got[j].fromGlobal
    BY DEF RunGetsItsContract
  <2> DEFINE acc == result[p]
             got == acc.got
             d == copy[p].entries[h]
  <2>1. RefsFollow(p) /\ ResultAnswers(p)
    BY <1>1 DEF RunInv, RunFollows
  <2>2. PICK k \in 1..Len(refs[p]) :
          /\ refs[p][k].h = h /\ ~refs[p][k].fromGlobal
          /\ refs[p][k].declared = d /\ refs[p][k].override \in Overrides(job[p].with, h)
    BY <2>1 DEF RefsFollow, Asked
  <2> DEFINE r == refs[p][k]
  <2>3. /\ acc \in Outcome /\ Separate(acc) /\ Answered(acc, r)
        /\ (Owed(r) /\ job[p].environ # Absent) => job[p].environ[NameOf(r)] = "long"
    BY <2>1 DEF ResultAnswers
  <2>4. Owed(r)
    BY <2>2 DEF Owed
  <2>5. PICK i \in 1..Len(got) : got[i] = [h |-> h, name |-> NameOf(r), fromGlobal |-> FALSE]
    BY <2>2, <2>3, <2>4 DEF Answered, Injected
  <2>6. got[i].h = h /\ got[i].name = NameOf(r) /\ ~got[i].fromGlobal
    BY <2>5
  <2>7. \/ NameOf(r) = d
        \/ \E w \in 1..Len(job[p].with) : job[p].with[w] = [h |-> h, override |-> NameOf(r)]
    BY <2>2 DEF NameOf, Overrides
  <2>8. PICK j \in 1..Len(got) :
          got[j].name = got[i].name /\ Environment(got)[got[i].name] = got[j].h
    <3>1. got \in Seq(Got)
      BY <2>3 DEF Outcome
    <3> HIDE DEF got
    <3> QED BY <3>1, EnvironmentIs
  <2>9. got[j].fromGlobal => i = j
    BY <2>3, <2>8 DEF Separate
  <2> HIDE DEF r, got, acc, d
  <2>10. ~got[j].fromGlobal
    BY <2>6, <2>9
  <2> QED BY <2>3, <2>4, <2>6, <2>7, <2>8, <2>10 DEF got, acc, d
<1> QED BY <1>1, DInvAlways, RunInvAlways, PTL

\* A Global Handle is ambient and no more, for every directory and link, every
\* list of Refs and every order of commands that rewrite the Manifests (Refs,
\* globalReaches, checkCollision).
THEOREM GlobalsStayAmbient == Spec => []GlobalIsAmbient
<1>1. ASSUME DInv, RunInv PROVE GlobalIsAmbient
  <2> SUFFICES ASSUME NEW p \in Procs, pc[p] = "child",
                      \E i \in 1..Len(refs[p]) : refs[p][i].fromGlobal
               PROVE  /\ Uncontested(result[p].got)
                      /\ copy[p] # NoFile /\ ~copy[p].disabled
                      /\ ~job[p].noGlobal /\ ~job[p].listed
                      /\ LET real == Physical[job[p].dir]
                             repos == {i \in 1..Len(real) : real[i] \in Repositories}
                         IN  \E i \in 1..Len(real) : real[i] = Root /\ \A k \in repos : k >= i
    BY DEF GlobalIsAmbient
  <2>1. RefsFollow(p) /\ ResultAnswers(p)
    BY <1>1 DEF RunInv, RunFollows
  <2>2. ~NoneAmbient(refs[p])
    BY DEF NoneAmbient
  <2>3. /\ copy[p] # NoFile /\ ~copy[p].disabled
        /\ ~job[p].noGlobal /\ ~job[p].listed /\ GlobalReaches(job[p].dir)
    BY <2>1, <2>2 DEF RefsFollow
  <2>4. Uncontested(result[p].got)
    <3> DEFINE acc == result[p]
               got == acc.got
    <3>1. acc \in Outcome /\ Separate(acc)
      BY <2>1 DEF ResultAnswers
    <3>2. got \in Seq(Got)
      BY <3>1 DEF Outcome
    <3>3. \A i, j \in 1..Len(got) : (got[i].fromGlobal /\ got[i].name = got[j].name) => i = j
      BY <3>1 DEF Separate
    <3> HIDE DEF got, acc
    <3>4. ASSUME NEW i \in 1..Len(got), got[i].fromGlobal
          PROVE  Environment(got)[got[i].name] = got[i].h
      <4>1. PICK j \in 1..Len(got) :
              got[j].name = got[i].name /\ Environment(got)[got[i].name] = got[j].h
        BY <3>2, EnvironmentIs
      <4>2. i = j
        BY <3>3, <3>4, <4>1
      <4> QED BY <4>1, <4>2
    <3>5. Uncontested(got)
      BY <3>3, <3>4 DEF Uncontested
    <3> QED BY <3>5 DEF got, acc
  <2>5. LET real == Physical[job[p].dir]
            repos == {i \in 1..Len(real) : real[i] \in Repositories}
        IN  \E i \in 1..Len(real) : real[i] = Root /\ \A k \in repos : k >= i
    <3> DEFINE real == Physical[job[p].dir]
    <3>1. PICK i \in 1..Len(real) :
            real[i] = Root /\ \A k \in 1..i - 1 : real[k] \notin Repositories
      BY <2>3 DEF GlobalReaches
    <3>2. Len(real) \in Nat
      <4>1. job[p].dir \in Dirs
        BY <1>1, RunLines DEF DInv, Processes, At
      <4>2. real \in Seq(Dirs)
        BY <4>1, PathsGoUp
      <4> QED BY <4>2, LenProperties
    <3> HIDE DEF real
    <3>3. \A k \in {x \in 1..Len(real) : real[x] \in Repositories} : k >= i
      BY <3>1, <3>2
    <3> QED BY <3>1, <3>3 DEF real
  <2> QED BY <2>3, <2>4, <2>5
<1> QED BY <1>1, DInvAlways, RunInvAlways, PTL
=============================================================================
