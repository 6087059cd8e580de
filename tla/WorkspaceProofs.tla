-------------------------- MODULE WorkspaceProofs --------------------------
(***************************************************************************)
(* Proofs about the two services that share the workspace of a sandbox:    *)
(* the catalog of its project roots (WorkspaceCatalog) and the capture of  *)
(* checkpoints from it (ContinuityService).  The two modules declare       *)
(* different variables, and each theorem is about the specification of one *)
(* of them.                                                                *)
(*                                                                         *)
(* WorkspaceCatalog: RowsAreTrue is not inductive.  What a row says of its *)
(* leaf is Sound, which also ties the attestation to the row; that a step  *)
(* finds what the one before it left is Place, for the one lineage the     *)
(* stage works on.  Touched and Untouched say once that a step changes the *)
(* row and the leaf of that lineage and of no other.                       *)
(*                                                                         *)
(* ContinuityService, for every set of operations and every bound:         *)
(* NoForgottenFreeze is not inductive: that a settled row holds no pause   *)
(* depends on where the capture stands (StepInv), and that a pass reaches  *)
(* reconciliation only with settled rows depends on which rows Recover has *)
(* still to visit (RecoverInv).  TornInv follows the history of a freeze   *)
(* that was broken under the reader.                                       *)
(***************************************************************************)
EXTENDS ContinuityService, WorkspaceCatalog, TLAPS

\* What is true of a lineage's row and leaf wherever the pass is: a recorded
\* root is a directory the Runtime made, a published one is finished, and the
\* attestation is that of the row as it is.
Sound(k, row, dir) ==
    /\ row # Nothing =>
         /\ row.root => /\ dir # Nothing
                        /\ dir.data # "user"
                        /\ k # "cell" => dir.by # "user"
                        /\ SelfAttesting(row)
         /\ ~row.root => row.att = Nothing /\ row.sup = Nothing
         /\ row.phase = "ready" => row.root
         /\ row.avail => /\ row.root
                         /\ dir.owner = "agent" \/ dir.by = "older"
                         /\ k # "cell" => dir.data \in {"git", "edited"}
    /\ k \in Continuity /\ dir # Nothing => dir.by = "runtime" /\ dir.data # "user"

\* What is true of the lineage the stage works on, step by step.
Place(k, s, row, dir) ==
    /\ s \notin {"enter", "allocate"} => row # Nothing
    /\ s \in {"mkdir", "record", "leaf", "finish"} => ~row.root
    /\ s = "record" => dir # Nothing /\ dir.data = "empty"
    /\ s = "fill" => dir # Nothing /\ dir.data = "partial"
    /\ s = "complete" => dir # Nothing /\ dir.data \in {"git", "edited"}
    /\ s = "publish" => dir # Nothing /\ dir.owner = "agent"
    /\ k = "team" /\ s = "record" => dir.by = "runtime"
    /\ k = "cell" /\ s = "publish" => dir.data = "empty" /\ ~row.root

Working(k) == stage = k \/ (stage \in DOMAIN Operation /\ Operation[stage] = k)

SoundInv == \A k \in Kinds : Sound(k, rows[k], dirs[k])
PlaceInv == \A k \in Kinds : Working(k) => Place(k, step, rows[k], dirs[k])
WantInv == want # Nothing => rows["team"] # Nothing

CatalogInv == CatalogTypeOK /\ SoundInv /\ PlaceInv /\ WantInv

(***************************************************************************)
(* Rows and leaves.                                                        *)
(***************************************************************************)
LEMMA KindsAre ==
  /\ Kinds = {"team", "cell", "restore", "handoff"}
  /\ Stages \cap Kinds = {"team", "cell", "handoff", "restore"}
  /\ DOMAIN Operation = {"restore_recovery", "handoff_recovery", "restore", "handoff"}
  /\ Operation["restore_recovery"] = "restore" /\ Operation["restore"] = "restore"
  /\ Operation["handoff_recovery"] = "handoff" /\ Operation["handoff"] = "handoff"
  BY DEF Kinds, TeamProjects, Continuity, Stages, Operation

LEMMA StagesFollow == \A s \in Stages : Following[s] \in Stages
  BY DEF Stages, Following

\* A value of a table entry is a row, or there is none.
LEMMA RowIs ==
  ASSUME CatalogTypeOK, NEW k \in Kinds, rows[k] # Nothing
  PROVE  rows[k] \in Rows
  BY DEF CatalogTypeOK

LEMMA DirIs ==
  ASSUME CatalogTypeOK, NEW k \in Kinds, dirs[k] # Nothing
  PROVE  dirs[k] \in Directories
  BY DEF CatalogTypeOK

LEMMA AttestType ==
  ASSUME NEW row \in Rows
  PROVE  Attest(row) \in Attestations /\ Attest(row) # Nothing
  BY CatalogConstants DEF Attest, Attestations, Rows

LEMMA RecordedRow ==
  ASSUME NEW row \in Rows
  PROVE  LET new == Recorded(row)
         IN /\ new \in Rows
            /\ new.root /\ new.avail = row.avail /\ new.phase = row.phase
            /\ new.dev = row.dev /\ new.img = row.img /\ new.cfg = row.cfg
            /\ new.sup = row.sup /\ SelfAttesting(new)
<1>1. [row EXCEPT !.root = TRUE] \in Rows
  BY DEF Rows
<1>2. Attest([row EXCEPT !.root = TRUE]) \in Attestations
  BY <1>1, AttestType
<1>3. Recorded(row) \in Rows
  BY <1>1, <1>2 DEF Recorded, Rows
<1> QED
  BY <1>1, <1>2, <1>3 DEF Recorded, Rows, SelfAttesting, Attest

LEMMA RecordedIs ==
  ASSUME NEW row \in Rows, NEW phase \in RowPhases
  PROVE  LET new == [Recorded(row) EXCEPT !.phase = phase]
         IN /\ new \in Rows
            /\ new.root /\ new.avail = row.avail /\ new.phase = phase
            /\ new.dev = row.dev /\ new.img = row.img /\ new.cfg = row.cfg
            /\ new.sup = row.sup /\ SelfAttesting(new)
<1> DEFINE rooted == Recorded(row)
<1>1. /\ rooted \in Rows
      /\ rooted.root /\ rooted.avail = row.avail
      /\ rooted.dev = row.dev /\ rooted.img = row.img /\ rooted.cfg = row.cfg
      /\ rooted.sup = row.sup /\ SelfAttesting(rooted)
  BY RecordedRow
<1> HIDE DEF rooted
<1>2. [rooted EXCEPT !.phase = phase] \in Rows
  BY <1>1 DEF Rows
<1> QED
  BY <1>1, <1>2 DEF rooted, Rows, SelfAttesting, Attest

LEMMA ReadyIs ==
  ASSUME NEW row \in Rows
  PROVE  /\ Ready(row) \in Rows
         /\ Ready(row).avail /\ Ready(row).phase = "ready"
         /\ Ready(row).root = row.root /\ Ready(row).dev = row.dev
         /\ Ready(row).img = row.img /\ Ready(row).cfg = row.cfg
         /\ Ready(row).att = row.att /\ Ready(row).sup = row.sup
         /\ SelfAttesting(row) => SelfAttesting(Ready(row))
<1>1. Ready(row) \in Rows
  BY DEF Ready, Rows, RowPhases
<1> QED
  BY <1>1 DEF Ready, Rows, SelfAttesting, Attest

LEMMA NewRowIs ==
  ASSUME CatalogTypeOK, NEW phase \in RowPhases \ {"ready"}
  PROVE  LET new == NewRow(phase, BornWith)
         IN /\ new \in Rows
            /\ ~new.root /\ ~new.avail /\ new.phase # "ready"
            /\ new.att = Nothing /\ new.sup = Nothing
<1>1. mount.dev \in Devices /\ BornWith \in Images \cup {Nothing}
  BY DEF CatalogTypeOK, BornWith
<1>2. NewRow(phase, BornWith) \in Rows
  BY <1>1 DEF NewRow, Rows, Attestations
<1> QED
  BY <1>2 DEF NewRow, RowPhases

LEMMA PutIs ==
  ASSUME CatalogTypeOK, NEW k \in Kinds, NEW row \in Rows, Put(k, row)
  PROVE  /\ rows' \in [Kinds -> Rows \cup {Nothing}]
         /\ rows'[k] = row /\ row # Nothing
         /\ \A j \in Kinds : j # k => rows'[j] = rows[j]
  BY CatalogConstants DEF CatalogTypeOK, Put

LEMMA SetDirIs ==
  ASSUME CatalogTypeOK, NEW k \in Kinds, NEW dir \in Directories, SetDir(k, dir)
  PROVE  /\ dirs' \in [Kinds -> Directories \cup {Nothing}]
         /\ dirs'[k] = dir /\ dir # Nothing
         /\ \A j \in Kinds : j # k => dirs'[j] = dirs[j]
  BY CatalogConstants DEF CatalogTypeOK, SetDir

LEMMA DirOwned ==
  ASSUME NEW dir \in Directories
  PROVE  LET new == [dir EXCEPT !.owner = "agent"]
         IN /\ new \in Directories /\ new.owner = "agent"
            /\ new.data = dir.data /\ new.by = dir.by
  BY DEF Directories

LEMMA NewDirs ==
  ASSUME NEW owner \in {"root", "agent"}
  PROVE  /\ Dir("empty", owner, "runtime") \in Directories
         /\ Dir("empty", owner, "runtime").data = "empty"
         /\ Dir("empty", owner, "runtime").owner = owner
         /\ Dir("empty", owner, "runtime").by = "runtime"
  BY DEF Dir, Directories

(***************************************************************************)
(* A step of the pass touches the lineage it works on and no other.        *)
(***************************************************************************)
LEMMA OneWorks ==
  ASSUME CatalogTypeOK, NEW k \in Kinds, NEW j \in Kinds, Working(k), Working(j)
  PROVE  j = k
  BY KindsAre DEF CatalogTypeOK, Stages, Working

LEMMA Touched ==
  ASSUME CatalogInv, CatalogTypeOK', NEW k \in Kinds, Working(k),
         \A j \in Kinds : j # k => rows'[j] = rows[j] /\ dirs'[j] = dirs[j],
         rows[k] # Nothing => rows'[k] # Nothing, want' = want,
         Sound(k, rows'[k], dirs'[k]),
         \/ step' = "enter"
         \/ stage' = stage /\ Place(k, step', rows'[k], dirs'[k])
  PROVE  CatalogInv'
<1>1. SoundInv'
  BY DEF CatalogInv, SoundInv
<1>2. PlaceInv'
  <2>1. CASE step' = "enter"
    BY <2>1 DEF PlaceInv, Place
  <2>2. CASE stage' = stage /\ Place(k, step', rows'[k], dirs'[k])
    <3>1. \A j \in Kinds : Working(j)' => j = k
      BY <2>2, OneWorks DEF CatalogInv, Working
    <3> QED
      BY <2>2, <3>1 DEF PlaceInv
  <2> QED
    BY <2>1, <2>2
<1>3. WantInv'
  BY DEF CatalogInv, WantInv, Kinds, TeamProjects
<1> QED
  BY <1>1, <1>2, <1>3 DEF CatalogInv

\* A step that leaves rows and leaves alone.
LEMMA Untouched ==
  ASSUME CatalogInv, CatalogTypeOK', UNCHANGED <<rows, dirs, want>>,
         \/ step' = "enter"
         \/ UNCHANGED at
         \/ stage' = stage /\ \E k \in Kinds : Working(k) /\ Place(k, step', rows[k], dirs[k])
  PROVE  CatalogInv'
<1>1. SoundInv' /\ WantInv'
  BY DEF CatalogInv, SoundInv, WantInv
<1>2. PlaceInv'
  <2>1. CASE step' = "enter"
    BY <2>1 DEF PlaceInv, Place
  <2>2. CASE UNCHANGED at
    BY <2>2 DEF CatalogInv, PlaceInv, Working, at
  <2>3. CASE stage' = stage /\ \E k \in Kinds : Working(k) /\ Place(k, step', rows[k], dirs[k])
    <3>1. PICK k \in Kinds : Working(k) /\ Place(k, step', rows[k], dirs[k])
      BY <2>3
    <3>2. \A j \in Kinds : Working(j)' => j = k
      BY <2>3, <3>1, OneWorks DEF CatalogInv, Working
    <3> QED
      BY <3>1, <3>2 DEF PlaceInv
  <2> QED
    BY <2>1, <2>2, <2>3
<1> QED
  BY <1>1, <1>2 DEF CatalogInv

(***************************************************************************)
(* The steps that leave rows and leaves alone.                             *)
(***************************************************************************)
\* The actions of these stages only decide where the pass goes on.
LEMMA ControlInv ==
  ASSUME CatalogInv,
         \/ NoRequest \/ RefuseProjects \/ NoService \/ RecoverHandoff \/ DaemonDies
         \/ HostRestarts \/ ProjectsInterrupted
         \/ \E k \in Continuity : SkipOperation(k)
  PROVE  CatalogInv'
<1>1. CatalogTypeOK'
  <2> USE StagesFollow DEF CatalogInv, CatalogTypeOK, Proceed, Abort, host, store, outside,
                           given, Stages, Steps
  <2>1. CASE NoRequest \/ RefuseProjects \/ NoService \/ RecoverHandoff
    BY <2>1 DEF NoRequest, RefuseProjects, NoService, RecoverHandoff
  <2>2. CASE \E k \in Continuity : SkipOperation(k)
    BY <2>2 DEF SkipOperation
  <2>3. CASE DaemonDies \/ HostRestarts \/ ProjectsInterrupted
    <3>1. failures' \in 0 .. MaxFailures
      BY <2>3, CatalogConstants DEF DaemonDies, HostRestarts, ProjectsInterrupted, Fails
    <3>2. CASE DaemonDies \/ HostRestarts
      BY <3>1, <3>2 DEF DaemonDies, HostRestarts
    <3>3. CASE ProjectsInterrupted
      BY <3>1, <3>3 DEF ProjectsInterrupted
    <3> QED
      BY <2>3, <3>2, <3>3
  <2> QED
    BY <2>1, <2>2, <2>3
<1>2. UNCHANGED <<rows, dirs, want>> /\ step' = "enter"
  BY DEF NoRequest, RefuseProjects, NoService, RecoverHandoff, DaemonDies, HostRestarts,
     ProjectsInterrupted, SkipOperation, Proceed, Abort, host, store, outside, given
<1> QED
  BY <1>1, <1>2, Untouched

\* At(k, s) means that the stage works on k.
LEMMA AtWorks ==
  ASSUME NEW k \in Kinds, NEW s, At(k, s)
  PROVE  Working(k) /\ step = s
  BY DEF At, Working

\* The operation rows: one is written, resumed, marked or closed.
LEMMA OperationInv ==
  ASSUME CatalogInv, NEW k \in Continuity,
         \/ PutOperation(k)
         \/ ResumeRestore /\ k = "restore"
         \/ RecoverMaterializedHandoff /\ k = "handoff"
         \/ MarkMaterializing(k)
         \/ EndOperation(k)
  PROVE  CatalogInv'
<1>1. k \in Kinds /\ Working(k)
  BY AtWorks DEF PutOperation, ResumeRestore, RecoverMaterializedHandoff, MarkMaterializing,
     EndOperation, Kinds
<1>2. CatalogTypeOK'
  <2> USE StagesFollow DEF CatalogInv, CatalogTypeOK, StepTo, Proceed, Abort, host, store,
                           outside, given, Stages, Steps
  <2>1. CASE ResumeRestore
    BY <2>1 DEF ResumeRestore
  <2>2. CASE RecoverMaterializedHandoff
    BY <2>2 DEF RecoverMaterializedHandoff
  <2>3. CASE PutOperation(k)
    BY <2>3 DEF PutOperation
  <2>4. CASE MarkMaterializing(k)
    BY <2>4 DEF MarkMaterializing
  <2>5. CASE EndOperation(k)
    BY <2>5 DEF EndOperation
  <2> QED
    BY <2>1, <2>2, <2>3, <2>4, <2>5
<1>3. UNCHANGED <<rows, dirs, want>>
  BY DEF PutOperation, ResumeRestore, RecoverMaterializedHandoff, MarkMaterializing,
     EndOperation, host, store, outside, given
<1>4. CASE step' = "enter"
  BY <1>2, <1>3, <1>4, Untouched
<1>5. CASE step' # "enter"
  <2>1. stage' = stage /\ step' \in {"allocate", "materialize"}
    BY <1>5 DEF PutOperation, ResumeRestore, RecoverMaterializedHandoff, MarkMaterializing,
       EndOperation, StepTo, Proceed, Abort
  <2>2. step' = "materialize" => step = "mark"
    BY DEF PutOperation, ResumeRestore, RecoverMaterializedHandoff, MarkMaterializing,
       EndOperation, StepTo, Proceed, Abort, At
  <2>3. Place(k, step', rows[k], dirs[k])
    BY <1>1, <2>1, <2>2 DEF CatalogInv, PlaceInv, Place
  <2> QED
    BY <1>1, <1>2, <1>3, <2>1, <2>3, Untouched
<1> QED
  BY <1>4, <1>5

\* What the backend answers comes from a report.
LEMMA BackendInv ==
  ASSUME CatalogInv, BackendSelect \/ BackendRatify
  PROVE  CatalogInv'
<1>1. "team" \in Kinds /\ rows["team"] # Nothing
  BY DEF BackendSelect, BackendRatify, Reports, Publishable, CatalogInv, WantInv
<1>2. rows["team"].att \in Attestations
  BY <1>1, RowIs DEF CatalogInv, Rows
<1>3. want' \in Manifests
  <2>1. CASE BackendSelect
    BY <1>2, <2>1 DEF BackendSelect, Manifest, Manifests
  <2>2. CASE BackendRatify
    <3>1. want \in Manifests /\ want' = [want EXCEPT !.att = rows["team"].att, !.scope = @ + 1]
      BY <2>2 DEF BackendRatify, CatalogInv, CatalogTypeOK
    <3>2. want.cfg \in {0, 1} /\ want.scope + 1 \in Nat /\ want.act \in Nat
      BY <3>1 DEF Manifests
    <3>3. want' = Manifest(want.cfg, rows["team"].att, want.scope + 1, want.act)
      BY <3>1 DEF Manifests, Manifest
    <3> QED
      BY <1>2, <3>2, <3>3 DEF Manifests, Manifest
  <2> QED
    BY <2>1, <2>2
<1>4. CatalogTypeOK' /\ UNCHANGED <<rows, dirs, at>>
  BY <1>3 DEF BackendSelect, BackendRatify, CatalogInv, CatalogTypeOK, host, store, given, at
<1>5. SoundInv' /\ WantInv'
  BY <1>1, <1>4 DEF CatalogInv, SoundInv, WantInv
<1>6. PlaceInv'
  BY <1>4 DEF CatalogInv, PlaceInv, Working, at
<1> QED
  BY <1>4, <1>5, <1>6 DEF CatalogInv

(***************************************************************************)
(* The Team's project.                                                     *)
(***************************************************************************)
LEMMA AllocateDefaultInv ==
  ASSUME CatalogInv, AllocateDefault
  PROVE  CatalogInv'
<1> DEFINE new == NewRow("allocated", BornWith)
<1>1. "team" \in Kinds /\ Working("team")
  BY KindsAre DEF AllocateDefault, Working
<1>2. new \in Rows /\ ~new.root /\ ~new.avail /\ new.phase # "ready"
      /\ new.att = Nothing /\ new.sup = Nothing
  BY NewRowIs DEF CatalogInv, RowPhases
<1> HIDE DEF new
<1>3. Put("team", new)
  BY DEF AllocateDefault, new
<1>4. /\ rows' \in [Kinds -> Rows \cup {Nothing}] /\ rows'["team"] = new /\ new # Nothing
      /\ \A j \in Kinds : j # "team" => rows'[j] = rows[j]
  BY <1>1, <1>2, <1>3, PutIs DEF CatalogInv
<1>5. CatalogTypeOK'
  BY <1>4 DEF AllocateDefault, CatalogInv, CatalogTypeOK, EnsureProjects, StepTo, outside,
     given, Steps
<1>6. dirs' = dirs /\ want' = want /\ stage' = stage /\ step' = "mkdir"
  BY DEF AllocateDefault, StepTo, outside
<1>7. Sound("team", new, dirs["team"]) /\ Place("team", "mkdir", new, dirs["team"])
  BY <1>1, <1>2, <1>4 DEF CatalogInv, SoundInv, Sound, Place
<1> QED
  BY <1>1, <1>4, <1>5, <1>6, <1>7, Touched

LEMMA CreateDefaultRootInv ==
  ASSUME CatalogInv, CreateDefaultRoot
  PROVE  CatalogInv'
<1> DEFINE dir == Dir("empty", "root", "runtime")
<1>1. "team" \in Kinds /\ Working("team")
  BY KindsAre DEF CreateDefaultRoot, Working
<1>2. rows' = rows /\ want' = want
  BY DEF CreateDefaultRoot, store, outside
<1>3. CASE dirs["team"] = Nothing
  <2>1. dir \in Directories /\ dir.data = "empty" /\ dir.by = "runtime"
    BY NewDirs
  <2> HIDE DEF dir
  <2>2. SetDir("team", dir) /\ stage' = stage /\ step' = "record"
    BY <1>3 DEF CreateDefaultRoot, StepTo, dir
  <2>3. /\ dirs' \in [Kinds -> Directories \cup {Nothing}] /\ dirs'["team"] = dir
        /\ dir # Nothing /\ \A j \in Kinds : j # "team" => dirs'[j] = dirs[j]
    BY <1>1, <2>1, <2>2, SetDirIs DEF CatalogInv
  <2>4. CatalogTypeOK'
    BY <2>2, <2>3 DEF CreateDefaultRoot, CatalogInv, CatalogTypeOK, store, outside, given, Steps
  <2>5. Sound("team", rows["team"], dir) /\ Place("team", "record", rows["team"], dir)
    <3>1. Sound("team", rows["team"], dirs["team"]) /\ Place("team", "mkdir", rows["team"], dirs["team"])
      BY <1>1 DEF CatalogInv, SoundInv, PlaceInv, CreateDefaultRoot
    <3> QED
      BY <1>3, <2>1, <2>3, <3>1 DEF Sound, Place
  <2> QED
    BY <1>1, <1>2, <2>2, <2>3, <2>4, <2>5, Touched
<1>4. CASE dirs["team"] # Nothing
  <2>1. CatalogTypeOK' /\ UNCHANGED dirs /\ step' = "enter"
    BY <1>4 DEF CreateDefaultRoot, CatalogInv, CatalogTypeOK, Abort, store, outside, given,
       Stages, Steps
  <2> QED
    BY <1>2, <2>1, Untouched
<1> QED
  BY <1>3, <1>4

LEMMA RecordDefaultRootInv ==
  ASSUME CatalogInv, RecordDefaultRoot
  PROVE  CatalogInv'
<1> DEFINE new == [Recorded(rows["team"]) EXCEPT !.phase = "created"]
<1>1. "team" \in Kinds /\ Working("team")
  BY KindsAre DEF RecordDefaultRoot, Working
<1>2. Place("team", "record", rows["team"], dirs["team"]) /\ Sound("team", rows["team"], dirs["team"])
  BY <1>1 DEF CatalogInv, PlaceInv, SoundInv, RecordDefaultRoot
<1>3. rows["team"] \in Rows
  BY <1>1, <1>2, RowIs DEF CatalogInv, Place
<1>4. /\ new \in Rows /\ new.root /\ new.avail = rows["team"].avail /\ new.phase = "created"
      /\ SelfAttesting(new)
  BY <1>3, RecordedIs DEF RowPhases
<1> HIDE DEF new
<1>5. Put("team", new)
  BY DEF RecordDefaultRoot, new
<1>6. /\ rows' \in [Kinds -> Rows \cup {Nothing}] /\ rows'["team"] = new /\ new # Nothing
      /\ \A j \in Kinds : j # "team" => rows'[j] = rows[j]
  BY <1>1, <1>4, <1>5, PutIs DEF CatalogInv
<1>7. CatalogTypeOK'
  BY <1>6 DEF RecordDefaultRoot, CatalogInv, CatalogTypeOK, StepTo, host, outside, given, Steps
<1>8. dirs' = dirs /\ want' = want /\ stage' = stage /\ step' = "git"
  BY DEF RecordDefaultRoot, StepTo, host, outside
<1>9. Sound("team", new, dirs["team"]) /\ Place("team", "git", new, dirs["team"])
  BY <1>2, <1>4, <1>6 DEF Sound, Place, Continuity
<1> QED
  BY <1>1, <1>6, <1>7, <1>8, <1>9, Touched

\* The leaf of the Team is written by a step that keeps the row.
LEMMA TeamLeaf ==
  ASSUME CatalogInv, CatalogTypeOK', NEW dir \in Directories, stage = "team", SetDir("team", dir),
         rows' = rows, want' = want,
         Sound("team", rows["team"], dir),
         step' = "enter" \/ (stage' = stage /\ Place("team", step', rows["team"], dir))
  PROVE  CatalogInv'
<1>1. "team" \in Kinds /\ Working("team")
  BY KindsAre DEF Working
<1>2. dirs'["team"] = dir /\ \A j \in Kinds : j # "team" => dirs'[j] = dirs[j]
  BY <1>1, SetDirIs DEF CatalogInv
<1> QED
  BY <1>1, <1>2, Touched

LEMMA InitializeGitInv ==
  ASSUME CatalogInv, InitializeGit \/ GitInterrupted
  PROVE  CatalogInv'
<1>1. "team" \in Kinds /\ Working("team") /\ stage = "team"
  BY KindsAre DEF InitializeGit, GitInterrupted, Working
<1>2. rows' = rows /\ want' = want
  BY DEF InitializeGit, GitInterrupted, store, outside
<1>3. Sound("team", rows["team"], dirs["team"]) /\ Place("team", "git", rows["team"], dirs["team"])
  BY <1>1 DEF CatalogInv, SoundInv, PlaceInv, InitializeGit, GitInterrupted
<1>4. CASE OpenVerifiedRoot("team") /\ dirs["team"].data = "empty"
  <2>1. dirs["team"] \in Directories /\ rows["team"] # Nothing /\ rows["team"].root
    BY <1>1, <1>3, <1>4, DirIs DEF OpenVerifiedRoot, CatalogInv, Place
  <2>2. PICK d \in {"git", "partial"} :
           /\ SetDir("team", [dirs["team"] EXCEPT !.data = d])
           /\ step' = "enter" \/ (stage' = stage /\ step' = "own")
    <3>1. CASE InitializeGit
      BY <1>4, <3>1 DEF InitializeGit, StepTo
    <3>2. CASE GitInterrupted
      BY <3>2 DEF GitInterrupted, Abort
    <3> QED
      BY <3>1, <3>2
  <2> DEFINE dir == [dirs["team"] EXCEPT !.data = d]
  <2>3. /\ dir \in Directories /\ dir # Nothing /\ dir.data = d
        /\ dir.owner = dirs["team"].owner /\ dir.by = dirs["team"].by
    BY <2>1, CatalogConstants DEF Directories
  <2>4. SetDir("team", dir)
    BY <2>2
  <2> HIDE DEF dir
  <2>5. Sound("team", rows["team"], dir)
    BY <1>3, <1>4, <2>1, <2>3 DEF Sound, Continuity
  <2>6. dirs' \in [Kinds -> Directories \cup {Nothing}]
    BY <1>1, <2>3, <2>4, SetDirIs DEF CatalogInv
  <2>7. failures' \in 0 .. MaxFailures
    BY CatalogConstants DEF InitializeGit, GitInterrupted, Fails, CatalogInv, CatalogTypeOK
  <2>8. CatalogTypeOK'
    BY <2>2, <2>6, <2>7 DEF InitializeGit, GitInterrupted, CatalogInv, CatalogTypeOK, StepTo,
       Abort, store, outside, given, Stages, Steps
  <2>9. Place("team", "own", rows["team"], dir)
    BY <2>1 DEF Place
  <2> QED
    BY <1>1, <1>2, <2>2, <2>3, <2>4, <2>5, <2>8, <2>9, TeamLeaf
<1>5. CASE ~(OpenVerifiedRoot("team") /\ dirs["team"].data = "empty")
  <2>1. InitializeGit /\ UNCHANGED dirs
    BY <1>5 DEF InitializeGit, GitInterrupted
  <2>2. step' = "enter" \/ (stage' = stage /\ step' = "own")
    BY <2>1 DEF InitializeGit, StepTo, Abort
  <2>3. CatalogTypeOK'
    BY <2>1 DEF InitializeGit, CatalogInv, CatalogTypeOK, StepTo, Abort, store, outside, given,
       Stages, Steps
  <2>4. Place("team", "own", rows["team"], dirs["team"])
    BY <1>3 DEF Place
  <2> QED
    BY <1>1, <1>2, <2>1, <2>2, <2>3, <2>4, Untouched
<1> QED
  BY <1>4, <1>5

LEMMA OwnDefaultBootstrapInv ==
  ASSUME CatalogInv, OwnDefaultBootstrap
  PROVE  CatalogInv'
<1> DEFINE dir == [dirs["team"] EXCEPT !.owner = "agent"]
<1>1. "team" \in Kinds /\ Working("team") /\ stage = "team"
  BY KindsAre DEF OwnDefaultBootstrap, Working
<1>2. rows' = rows /\ want' = want
  BY DEF OwnDefaultBootstrap, store, outside
<1>3. Sound("team", rows["team"], dirs["team"]) /\ Place("team", "own", rows["team"], dirs["team"])
  BY <1>1 DEF CatalogInv, SoundInv, PlaceInv, OwnDefaultBootstrap
<1>4. CASE VerifyRoot("team") /\ BootstrapOwnable("team")
  <2>1. dirs["team"] \in Directories /\ dirs["team"] # Nothing
    BY <1>1, <1>4, DirIs DEF VerifyRoot, OpenVerifiedRoot, CatalogInv
  <2>2. dir \in Directories /\ dir.owner = "agent" /\ dir.data = dirs["team"].data
        /\ dir.by = dirs["team"].by
    BY <2>1, DirOwned
  <2> HIDE DEF dir
  <2>3. SetDir("team", dir) /\ stage' = stage /\ step' = "publish" /\ proj' = "agent"
    BY <1>4 DEF OwnDefaultBootstrap, BootstrapOwned, EnsureProjects, StepTo, dir
  <2>4. dirs' \in [Kinds -> Directories \cup {Nothing}] /\ dir # Nothing
    BY <1>1, <2>2, <2>3, SetDirIs DEF CatalogInv
  <2>5. CatalogTypeOK'
    BY <2>3, <2>4 DEF OwnDefaultBootstrap, CatalogInv, CatalogTypeOK, store, outside, given, Steps
  <2>6. Sound("team", rows["team"], dir) /\ Place("team", "publish", rows["team"], dir)
    BY <1>3, <2>1, <2>2, <2>4 DEF Sound, Place
  <2> QED
    BY <1>1, <1>2, <2>2, <2>3, <2>5, <2>6, TeamLeaf
<1>5. CASE ~(VerifyRoot("team") /\ BootstrapOwnable("team"))
  <2>1. CatalogTypeOK' /\ UNCHANGED dirs /\ step' = "enter"
    BY <1>5 DEF OwnDefaultBootstrap, CatalogInv, CatalogTypeOK, Abort, store, outside, given,
       Stages, Steps
  <2> QED
    BY <1>2, <2>1, Untouched
<1> QED
  BY <1>4, <1>5

LEMMA PublishDefaultInv ==
  ASSUME CatalogInv, PublishDefault
  PROVE  CatalogInv'
<1> DEFINE new == Ready(rows["team"])
<1>1. "team" \in Kinds /\ Working("team")
  BY KindsAre DEF PublishDefault, Working
<1>2. Sound("team", rows["team"], dirs["team"]) /\ Place("team", "publish", rows["team"], dirs["team"])
  BY <1>1 DEF CatalogInv, SoundInv, PlaceInv, PublishDefault
<1>3. dirs' = dirs /\ want' = want /\ step' = "enter" /\ stage' \in Stages
  BY StagesFollow DEF PublishDefault, Proceed, Abort, host, outside, Stages, CatalogInv, CatalogTypeOK
<1>4. CASE VerifyRoot("team")
  <2>1. /\ rows["team"] \in Rows /\ rows["team"] # Nothing /\ rows["team"].root
        /\ dirs["team"].data \in {"git", "edited"}
    BY <1>1, <1>2, <1>4, RowIs DEF VerifyRoot, OpenVerifiedRoot, ClassifyGit, CatalogInv, Place
  <2>2. new \in Rows /\ new.root = rows["team"].root /\ SelfAttesting(new)
    BY <1>2, <2>1, ReadyIs DEF Sound
  <2> HIDE DEF new
  <2>3. Put("team", new)
    BY <1>4 DEF PublishDefault, new
  <2>4. /\ rows' \in [Kinds -> Rows \cup {Nothing}] /\ rows'["team"] = new /\ new # Nothing
        /\ \A j \in Kinds : j # "team" => rows'[j] = rows[j]
    BY <1>1, <2>2, <2>3, PutIs DEF CatalogInv
  <2>5. CatalogTypeOK'
    BY <1>3, <2>4 DEF PublishDefault, CatalogInv, CatalogTypeOK, host, outside, given, Steps
  <2>6. Sound("team", new, dirs["team"])
    BY <1>2, <2>1, <2>2 DEF Sound, Place, Continuity
  <2> QED
    BY <1>1, <1>3, <2>4, <2>5, <2>6, Touched
<1>5. CASE ~VerifyRoot("team")
  <2>1. CatalogTypeOK' /\ UNCHANGED rows
    BY <1>3, <1>5 DEF PublishDefault, CatalogInv, CatalogTypeOK, host, outside, given, Steps
  <2> QED
    BY <1>3, <2>1, Untouched
<1> QED
  BY <1>4, <1>5

\* A row that resolves has its leaf, and the repair gives both directories to
\* the anchor's owner.
LEMMA RepairIs ==
  ASSUME CatalogInv, ResolveRecord("team"), RepairDefaultOwner("team")
  PROVE  /\ proj' \in {Nothing, "root", "agent"}
         /\ dirs' \in [Kinds -> Directories \cup {Nothing}]
         /\ \A j \in Kinds : j # "team" => dirs'[j] = dirs[j]
         /\ rows["team"] # Nothing => Sound("team", rows["team"], dirs'["team"])
<1> DEFINE dir == [dirs["team"] EXCEPT !.owner = "agent"]
<1>1. "team" \in Kinds
  BY KindsAre
<1>2. Sound("team", rows["team"], dirs["team"])
  BY <1>1 DEF CatalogInv, SoundInv
<1>3. CASE VerifyPublishedOwner("team")
  BY <1>2, <1>3 DEF RepairDefaultOwner, CatalogInv, CatalogTypeOK
<1>4. CASE ~VerifyPublishedOwner("team")
  <2>1. dirs["team"] \in Directories /\ dirs["team"] # Nothing
    BY <1>1, DirIs DEF ResolveRecord, VerifyRoot, OpenVerifiedRoot, CatalogInv
  <2>2. dir \in Directories /\ dir.owner = "agent" /\ dir.data = dirs["team"].data
        /\ dir.by = dirs["team"].by
    BY <2>1, DirOwned
  <2> HIDE DEF dir
  <2>3. SetDir("team", dir) /\ proj' = "agent"
    BY <1>4 DEF RepairDefaultOwner, BootstrapOwned, EnsureProjects, dir
  <2>4. /\ dirs' \in [Kinds -> Directories \cup {Nothing}] /\ dirs'["team"] = dir /\ dir # Nothing
        /\ \A j \in Kinds : j # "team" => dirs'[j] = dirs[j]
    BY <1>1, <2>2, <2>3, SetDirIs DEF CatalogInv
  <2> QED
    BY <1>2, <2>1, <2>2, <2>3, <2>4 DEF Sound
<1> QED
  BY <1>3, <1>4

LEMMA EnsureDefaultInv ==
  ASSUME CatalogInv, EnsureDefault
  PROVE  CatalogInv'
<1>1. "team" \in Kinds /\ Working("team") /\ rows["team"] # Nothing
  BY KindsAre DEF EnsureDefault, Working
<1>2. rows' = rows /\ want' = want
  BY DEF EnsureDefault, store, outside
<1>3. CASE rows["team"].phase # "created" /\ ResolveRecord("team")
  <2>1. RepairDefaultOwner("team") /\ step' = "enter" /\ stage' \in Stages
    BY <1>3, StagesFollow DEF EnsureDefault, Proceed, CatalogInv, CatalogTypeOK
  <2>2. CatalogTypeOK'
    BY <1>3, <2>1, RepairIs DEF EnsureDefault, CatalogInv, CatalogTypeOK, store, outside, given, Steps
  <2> QED
    BY <1>1, <1>2, <1>3, <2>1, <2>2, RepairIs, Touched
<1>4. CASE ~(rows["team"].phase # "created" /\ ResolveRecord("team"))
  <2>1. dirs' = dirs /\ (step' = "enter" \/ (stage' = stage /\ step' = "git"))
    BY <1>4 DEF EnsureDefault, StepTo, Abort
  <2>2. CatalogTypeOK'
    BY <1>4 DEF EnsureDefault, CatalogInv, CatalogTypeOK, StepTo, Abort, store, outside, given,
       Stages, Steps
  <2>3. Place("team", "git", rows["team"], dirs["team"])
    BY <1>1 DEF Place
  <2> QED
    BY <1>1, <1>2, <2>1, <2>2, <2>3, Untouched
<1> QED
  BY <1>3, <1>4

(***************************************************************************)
(* The cell's workspace.                                                   *)
(***************************************************************************)
\* A step that writes the leaf of the lineage it works on and no row.
LEMMA LeafWritten ==
  ASSUME CatalogInv, CatalogTypeOK', NEW k \in Kinds, Working(k),
         NEW dir \in Directories, SetDir(k, dir), rows' = rows, want' = want,
         Sound(k, rows[k], dir),
         step' = "enter" \/ (stage' = stage /\ Place(k, step', rows[k], dir))
  PROVE  CatalogInv'
<1>1. dirs'[k] = dir /\ \A j \in Kinds : j # k => dirs'[j] = dirs[j]
  BY SetDirIs DEF CatalogInv
<1> QED
  BY <1>1, Touched

LEMMA AllocateCellInv ==
  ASSUME CatalogInv, AllocateCell
  PROVE  CatalogInv'
<1> DEFINE new == NewRow("allocated", BornWith)
<1>1. "cell" \in Kinds /\ Working("cell")
  BY KindsAre DEF AllocateCell, Working
<1>2. new \in Rows /\ ~new.root /\ ~new.avail /\ new.phase # "ready"
      /\ new.att = Nothing /\ new.sup = Nothing
  BY NewRowIs DEF CatalogInv, RowPhases
<1> HIDE DEF new
<1>3. Put("cell", new)
  BY DEF AllocateCell, new
<1>4. /\ rows' \in [Kinds -> Rows \cup {Nothing}] /\ rows'["cell"] = new /\ new # Nothing
      /\ \A j \in Kinds : j # "cell" => rows'[j] = rows[j]
  BY <1>1, <1>2, <1>3, PutIs DEF CatalogInv
<1>5. CatalogTypeOK'
  BY <1>4 DEF AllocateCell, CatalogInv, CatalogTypeOK, EnsureProjects, StepTo, outside,
     given, Steps
<1>6. dirs' = dirs /\ want' = want /\ stage' = stage /\ step' = "finish"
  BY DEF AllocateCell, StepTo, outside
<1>7. Sound("cell", new, dirs["cell"]) /\ Place("cell", "finish", new, dirs["cell"])
  BY <1>1, <1>2, <1>4 DEF CatalogInv, SoundInv, Sound, Place
<1> QED
  BY <1>1, <1>4, <1>5, <1>6, <1>7, Touched

LEMMA MaterializeCellRootInv ==
  ASSUME CatalogInv, MaterializeCellRoot
  PROVE  CatalogInv'
<1>1. "cell" \in Kinds /\ Working("cell")
  BY KindsAre DEF MaterializeCellRoot, Working
<1>2. rows' = rows /\ want' = want
  BY DEF MaterializeCellRoot, store, outside
<1>3. Sound("cell", rows["cell"], dirs["cell"]) /\ Place("cell", "finish", rows["cell"], dirs["cell"])
  BY <1>1 DEF CatalogInv, SoundInv, PlaceInv, MaterializeCellRoot
<1>4. proj' \in {Nothing, "root", "agent"}
  BY DEF MaterializeCellRoot, EnsureProjects, CatalogInv, CatalogTypeOK
<1>5. CASE UNCHANGED dirs /\ step' = "enter" /\ stage' \in Stages
  <2>1. CatalogTypeOK'
    BY <1>4, <1>5 DEF MaterializeCellRoot, CatalogInv, CatalogTypeOK, store, outside, given, Steps
  <2> QED
    BY <1>2, <1>5, <2>1, Untouched
<1>6. CASE ~(UNCHANGED dirs /\ step' = "enter" /\ stage' \in Stages)
  <2>1. PICK dir \in Directories :
          /\ SetDir("cell", dir) /\ stage' = stage /\ step' = "publish"
          /\ dir.data = "empty" /\ dir.owner = "agent"
    <3>1. CASE dirs["cell"] = Nothing
      <4>1. SetDir("cell", Dir("empty", "agent", "runtime")) /\ stage' = stage /\ step' = "publish"
        BY <1>6, <3>1 DEF MaterializeCellRoot, StepTo, Abort, Stages
      <4> QED
        BY <4>1, NewDirs
    <3>2. CASE dirs["cell"] # Nothing
      <4>1. /\ SetDir("cell", [dirs["cell"] EXCEPT !.owner = "agent"])
            /\ stage' = stage /\ step' = "publish" /\ dirs["cell"].data = "empty"
        BY <1>6, <3>2 DEF MaterializeCellRoot, StepTo, Abort, Stages
      <4>2. dirs["cell"] \in Directories
        BY <1>1, <3>2, DirIs DEF CatalogInv
      <4> QED
        BY <4>1, <4>2, DirOwned
    <3> QED
      BY <3>1, <3>2
  <2>2. dirs' \in [Kinds -> Directories \cup {Nothing}] /\ dir # Nothing
    BY <1>1, <2>1, SetDirIs DEF CatalogInv
  <2>3. CatalogTypeOK'
    BY <1>4, <2>1, <2>2 DEF MaterializeCellRoot, CatalogInv, CatalogTypeOK, store, outside,
       given, Steps
  <2>4. Sound("cell", rows["cell"], dir) /\ Place("cell", "publish", rows["cell"], dir)
    BY <1>3, <2>1, <2>2 DEF Sound, Place, Continuity
  <2> QED
    BY <1>1, <1>2, <2>1, <2>3, <2>4, LeafWritten
<1> QED
  BY <1>5, <1>6

LEMMA CellInterruptedInv ==
  ASSUME CatalogInv, CellInterrupted
  PROVE  CatalogInv'
<1> DEFINE dir == Dir("empty", "root", "runtime")
<1>1. "cell" \in Kinds /\ Working("cell")
  BY KindsAre DEF CellInterrupted, Working
<1>2. rows' = rows /\ want' = want /\ step' = "enter" /\ stage' = "restore_recovery"
  BY DEF CellInterrupted, store, outside, Abort
<1>3. Sound("cell", rows["cell"], dirs["cell"]) /\ dirs["cell"] = Nothing
  BY <1>1 DEF CatalogInv, SoundInv, CellInterrupted
<1>4. dir \in Directories /\ dir.data = "empty" /\ dir.by = "runtime"
  BY NewDirs
<1> HIDE DEF dir
<1>5. SetDir("cell", dir)
  BY DEF CellInterrupted, dir
<1>6. dirs' \in [Kinds -> Directories \cup {Nothing}] /\ dir # Nothing
  BY <1>1, <1>4, <1>5, SetDirIs DEF CatalogInv
<1>7. failures' \in 0 .. MaxFailures
  BY CatalogConstants DEF CellInterrupted, Fails, CatalogInv, CatalogTypeOK
<1>8. CatalogTypeOK'
  BY <1>2, <1>6, <1>7 DEF CellInterrupted, CatalogInv, CatalogTypeOK, store, outside, given,
     Stages, Steps
<1>9. Sound("cell", rows["cell"], dir)
  BY <1>3, <1>4 DEF Sound, Continuity
<1> QED
  BY <1>1, <1>2, <1>4, <1>5, <1>8, <1>9, LeafWritten

LEMMA FinishCellAllocationInv ==
  ASSUME CatalogInv, FinishCellAllocation
  PROVE  CatalogInv'
<1> DEFINE rooted == Recorded(rows["cell"])
           new == Ready(rooted)
<1>1. "cell" \in Kinds /\ Working("cell")
  BY KindsAre DEF FinishCellAllocation, Working
<1>2. Sound("cell", rows["cell"], dirs["cell"]) /\ Place("cell", "publish", rows["cell"], dirs["cell"])
  BY <1>1 DEF CatalogInv, SoundInv, PlaceInv, FinishCellAllocation
<1>3. rows["cell"] \in Rows
  BY <1>1, <1>2, RowIs DEF CatalogInv, Place
<1>4. rooted \in Rows /\ rooted.root /\ SelfAttesting(rooted)
  BY <1>3, RecordedRow
<1> HIDE DEF rooted
<1>5. new \in Rows /\ new.root = rooted.root /\ SelfAttesting(new)
  BY <1>4, ReadyIs
<1> HIDE DEF new
<1>6. Put("cell", new)
  BY DEF FinishCellAllocation, new, rooted
<1>7. /\ rows' \in [Kinds -> Rows \cup {Nothing}] /\ rows'["cell"] = new /\ new # Nothing
      /\ \A j \in Kinds : j # "cell" => rows'[j] = rows[j]
  BY <1>1, <1>5, <1>6, PutIs DEF CatalogInv
<1>8. dirs' = dirs /\ want' = want /\ step' = "enter" /\ stage' \in Stages
  BY StagesFollow DEF FinishCellAllocation, Proceed, host, outside, CatalogInv, CatalogTypeOK
<1>9. CatalogTypeOK'
  BY <1>7, <1>8 DEF FinishCellAllocation, CatalogInv, CatalogTypeOK, host, outside, given, Steps
<1>10. Sound("cell", new, dirs["cell"])
  BY <1>2, <1>4, <1>5 DEF Sound, Place, Continuity
<1> QED
  BY <1>1, <1>7, <1>8, <1>9, <1>10, Touched

LEMMA EnsureCellDefaultInv ==
  ASSUME CatalogInv, EnsureCellDefault
  PROVE  CatalogInv'
<1> DEFINE dir == [dirs["cell"] EXCEPT !.owner = "agent"]
<1>1. "cell" \in Kinds /\ Working("cell") /\ rows["cell"] # Nothing
  BY KindsAre DEF EnsureCellDefault, Working
<1>2. rows' = rows /\ want' = want
  BY DEF EnsureCellDefault, store, outside
<1>3. CASE rows["cell"].phase = "allocated" /\ ~rows["cell"].root
  <2>1. dirs' = dirs /\ proj' = proj /\ stage' = stage /\ step' = "finish"
    BY <1>3 DEF EnsureCellDefault, StepTo
  <2>2. CatalogTypeOK'
    BY <2>1 DEF EnsureCellDefault, CatalogInv, CatalogTypeOK, store, outside, given, Steps
  <2>3. Place("cell", "finish", rows["cell"], dirs["cell"])
    BY <1>1, <1>3 DEF Place
  <2> QED
    BY <1>1, <1>2, <2>1, <2>2, <2>3, Untouched
<1>4. CASE /\ ~(rows["cell"].phase = "allocated" /\ ~rows["cell"].root)
           /\ rows["cell"].phase = "ready" /\ rows["cell"].avail /\ ResolveCellRecord
  <2>1. dirs["cell"] \in Directories /\ dirs["cell"] # Nothing
    BY <1>1, <1>4, DirIs DEF ResolveCellRecord, VerifyOwnedRoot, OpenVerifiedRoot, CatalogInv
  <2>2. dir \in Directories /\ dir.owner = "agent" /\ dir.data = dirs["cell"].data
        /\ dir.by = dirs["cell"].by
    BY <2>1, DirOwned
  <2> HIDE DEF dir
  <2>3. SetDir("cell", dir) /\ proj' = "agent" /\ step' = "enter" /\ stage' \in Stages
    BY <1>4, StagesFollow DEF EnsureCellDefault, RepairCellOwner, EnsureProjects, Proceed, dir,
       CatalogInv, CatalogTypeOK
  <2>4. dirs' \in [Kinds -> Directories \cup {Nothing}] /\ dir # Nothing
    BY <1>1, <2>2, <2>3, SetDirIs DEF CatalogInv
  <2>5. CatalogTypeOK'
    BY <2>3, <2>4 DEF EnsureCellDefault, CatalogInv, CatalogTypeOK, store, outside, given, Steps
  <2>6. Sound("cell", rows["cell"], dirs["cell"])
    BY <1>1 DEF CatalogInv, SoundInv
  <2>7. Sound("cell", rows["cell"], dir)
    BY <2>1, <2>2, <2>4, <2>6 DEF Sound
  <2> QED
    BY <1>1, <1>2, <2>2, <2>3, <2>5, <2>7, LeafWritten
<1>5. CASE /\ ~(rows["cell"].phase = "allocated" /\ ~rows["cell"].root)
           /\ ~(rows["cell"].phase = "ready" /\ rows["cell"].avail /\ ResolveCellRecord)
  <2>1. CatalogTypeOK' /\ dirs' = dirs /\ step' = "enter"
    BY <1>5 DEF EnsureCellDefault, CatalogInv, CatalogTypeOK, Abort, store, outside, given,
       Stages, Steps
  <2> QED
    BY <1>2, <2>1, Untouched
<1> QED
  BY <1>3, <1>4, <1>5

(***************************************************************************)
(* The managed service and the re-observation.                             *)
(***************************************************************************)
LEMMA ReboundIs ==
  ASSUME NEW row \in Rows, NEW cfg \in {0, 1}
  PROVE  /\ Rebound(row, cfg) \in Rows
         /\ SelfAttesting(Rebound(row, cfg))
         /\ Rebound(row, cfg).root = row.root /\ Rebound(row, cfg).avail = row.avail
         /\ Rebound(row, cfg).phase = row.phase
         /\ Rebound(row, cfg).dev = row.dev /\ Rebound(row, cfg).img = row.img
         /\ Rebound(row, cfg).cfg = cfg /\ Rebound(row, cfg).sup = Nothing
<1>1. [row EXCEPT !.cfg = cfg] \in Rows
  BY DEF Rows
<1>2. Attest([row EXCEPT !.cfg = cfg]) \in Attestations /\ Nothing \in Attestations
  BY <1>1, AttestType DEF Attestations
<1> QED
  BY <1>1, <1>2 DEF Rebound, Rows, SelfAttesting, Attest

LEMMA ResolveManagedProjectInv ==
  ASSUME CatalogInv, ResolveManagedProject
  PROVE  CatalogInv'
<1>1. "team" \in Kinds /\ rows["team"] \in Rows /\ rows["team"] # Nothing /\ want \in Manifests
  BY RowIs DEF ResolveManagedProject, CatalogInv, CatalogTypeOK, WantInv, Kinds, TeamProjects
<1>2. want' = want /\ step' = "enter" /\ stage' \in Stages
  BY StagesFollow DEF ResolveManagedProject, ServiceAdmitted, ServiceDeferred, ServiceRefused,
     ServiceRebound, Proceed, Abort, outside, CatalogInv, CatalogTypeOK, Stages
<1>3. /\ proj' \in {Nothing, "root", "agent"}
      /\ dirs' \in [Kinds -> Directories \cup {Nothing}]
      /\ \A j \in Kinds : j # "team" => dirs'[j] = dirs[j]
      /\ Sound("team", rows["team"], dirs'["team"])
  <2>1. CASE ResolveRecord("team")
    BY <1>1, <2>1, RepairIs DEF ResolveManagedProject
  <2>2. CASE ~ResolveRecord("team")
    BY <1>1, <2>2 DEF ResolveManagedProject, CatalogInv, CatalogTypeOK, SoundInv
  <2> QED
    BY <2>1, <2>2
<1>4. /\ rows' \in [Kinds -> Rows \cup {Nothing}]
      /\ \A j \in Kinds : j # "team" => rows'[j] = rows[j]
      /\ rows'["team"] # Nothing /\ Sound("team", rows'["team"], dirs'["team"])
  <2>1. CASE rows' = rows
    BY <1>1, <1>3, <2>1 DEF CatalogInv, CatalogTypeOK
  <2>2. CASE rows' # rows
    <3> DEFINE new == Rebound(rows["team"], want.cfg)
    <3>1. Put("team", new) /\ ResolveRecord("team")
      BY <2>2 DEF ResolveManagedProject, ServiceAdmitted, ServiceDeferred, ServiceRefused,
         ServiceRebound
    <3>2. /\ new \in Rows /\ SelfAttesting(new) /\ new.root = rows["team"].root
          /\ new.avail = rows["team"].avail /\ new.phase = rows["team"].phase
      BY <1>1, ReboundIs DEF Manifests
    <3> HIDE DEF new
    <3>3. /\ rows' \in [Kinds -> Rows \cup {Nothing}] /\ rows'["team"] = new /\ new # Nothing
          /\ \A j \in Kinds : j # "team" => rows'[j] = rows[j]
      BY <1>1, <3>1, <3>2, PutIs DEF CatalogInv
    <3>4. rows["team"].root
      BY <3>1 DEF ResolveRecord, VerifyRoot, OpenVerifiedRoot
    <3> QED
      BY <1>1, <1>3, <3>2, <3>3, <3>4 DEF Sound
  <2> QED
    BY <2>1, <2>2
<1>5. CatalogTypeOK'
  <2>1. svc' \in Manifests \cup {Nothing} /\ state' \in {"none", "ready", "deferred", "failed", "rebound"}
    BY <1>1 DEF ResolveManagedProject, ServiceAdmitted, ServiceDeferred, ServiceRefused,
       ServiceRebound, CatalogInv, CatalogTypeOK
  <2>2. UNCHANGED <<mount, derivable, asked, ops, failures>>
    BY DEF ResolveManagedProject, outside, given
  <2> QED
    BY <1>1, <1>2, <1>3, <1>4, <2>1, <2>2 DEF CatalogInv, CatalogTypeOK, Steps
<1>6. SoundInv' /\ WantInv'
  BY <1>1, <1>3, <1>4 DEF CatalogInv, SoundInv, WantInv
<1>7. PlaceInv'
  BY <1>2 DEF PlaceInv, Place
<1> QED
  BY <1>5, <1>6, <1>7 DEF CatalogInv

\* A re-observed row is the row on the device that is mounted, or the row with
\* the identity of the image that is mounted, or the row.
LEMMA ReobservedIs ==
  ASSUME CatalogTypeOK, NEW k \in Kinds, NEW named \in BOOLEAN, rows[k] \in Rows,
         rows[k] # Nothing
  PROVE  LET new == Reobserved(k, named)
         IN /\ new \in Rows
            /\ new.root = rows[k].root /\ new.avail = rows[k].avail /\ new.phase = rows[k].phase
            /\ SelfAttesting(rows[k]) => SelfAttesting(new)
            /\ ~SelfAttesting(rows[k]) => new = rows[k]
            /\ rows[k].phase # "ready" => new = rows[k]
            /\ rows[k].img # Nothing => new.img = rows[k].img
            /\ rows[k].img # Nothing /\ new.dev # rows[k].dev => mount.img = rows[k].img
<1> DEFINE row == rows[k]
           moved == [row EXCEPT !.dev = mount.dev]
           bound == [row EXCEPT !.img = mount.img]
<1>1. mount.dev \in Devices /\ mount.img \in Images
  BY DEF CatalogTypeOK
<1>2. moved \in Rows /\ Attest(moved) \in Attestations
  BY <1>1, AttestType DEF Rows
<1>3. /\ Reattested(row) \in Rows
      /\ Reattested(row).root = row.root /\ Reattested(row).avail = row.avail
      /\ Reattested(row).phase = row.phase /\ Reattested(row).img = row.img
      /\ SelfAttesting(Reattested(row))
  BY <1>1, <1>2 DEF Reattested, Rows, SelfAttesting, Attest
<1>4. /\ bound \in Rows /\ bound.root = row.root /\ bound.avail = row.avail
      /\ bound.phase = row.phase /\ bound.dev = row.dev
      /\ SelfAttesting(row) => SelfAttesting(bound)
  BY <1>1 DEF Rows, SelfAttesting, Attest
<1>5. CASE Reobserved(k, named) = row
  BY <1>5
<1>6. CASE /\ Reobserved(k, named) = Reattested(row) /\ BackingImageMatches(row, named)
           /\ SelfAttesting(row) /\ row.phase = "ready"
  BY <1>3, <1>6 DEF BackingImageMatches
<1>7. CASE /\ Reobserved(k, named) = bound /\ row.img = Nothing
           /\ SelfAttesting(row) /\ row.phase = "ready"
  BY <1>4, <1>7
<1> QED
  BY <1>5, <1>6, <1>7 DEF Reobserved, Bindable

LEMMA ReobserveInv ==
  ASSUME CatalogInv, ReobserveRemountedRoots
  PROVE  CatalogInv'
<1>1. PICK named \in BOOLEAN :
        rows' = [k \in Kinds |-> IF k \in TeamProjects THEN Reobserved(k, named) ELSE rows[k]]
  BY DEF ReobserveRemountedRoots, CatalogInv, CatalogTypeOK
<1>2. dirs' = dirs /\ want' = want /\ step' = "enter" /\ stage' \in Stages
  BY StagesFollow DEF ReobserveRemountedRoots, Proceed, host, outside, CatalogInv, CatalogTypeOK
<1>3. ASSUME NEW k \in Kinds
      PROVE  /\ rows'[k] \in Rows \cup {Nothing} /\ Sound(k, rows'[k], dirs[k])
             /\ rows[k] # Nothing => rows'[k] # Nothing
  <2>1. Sound(k, rows[k], dirs[k]) /\ rows[k] \in Rows \cup {Nothing}
    BY DEF CatalogInv, SoundInv, CatalogTypeOK
  <2>2. CASE rows'[k] = rows[k]
    BY <2>1, <2>2
  <2>3. CASE rows'[k] # rows[k]
    <3> DEFINE new == Reobserved(k, named)
    <3>1. rows'[k] = new /\ rows[k] # Nothing
      BY <1>1, <2>3 DEF Reobserved
    <3>2. rows[k] \in Rows
      BY <2>1, <3>1
    <3>3. /\ new \in Rows /\ new.root = rows[k].root /\ new.avail = rows[k].avail
          /\ new.phase = rows[k].phase /\ SelfAttesting(new) /\ rows[k].phase = "ready"
      BY <2>3, <3>1, <3>2, ReobservedIs DEF CatalogInv
    <3> HIDE DEF new
    <3>4. new # Nothing
      BY <3>3, CatalogConstants
    <3> QED
      BY <2>1, <3>1, <3>3, <3>4 DEF Sound
  <2> QED
    BY <2>2, <2>3
<1>4. rows' \in [Kinds -> Rows \cup {Nothing}]
  BY <1>1, <1>3
<1>5. CatalogTypeOK'
  BY <1>2, <1>4 DEF ReobserveRemountedRoots, CatalogInv, CatalogTypeOK, host, outside, given, Steps
<1>6. SoundInv' /\ WantInv'
  BY <1>2, <1>3 DEF CatalogInv, SoundInv, WantInv, Kinds, TeamProjects
<1>7. PlaceInv'
  BY <1>2 DEF PlaceInv, Place
<1> QED
  BY <1>5, <1>6, <1>7 DEF CatalogInv

(***************************************************************************)
(* Restore and handoff, and the agent in the leaves it owns.               *)
(***************************************************************************)
LEMMA AllocateInv ==
  ASSUME CatalogInv, NEW k \in Continuity, Allocate(k)
  PROVE  CatalogInv'
<1> DEFINE new == NewRow("allocating", BornWith)
<1>1. k \in Kinds /\ Working(k) /\ step = "allocate"
  BY AtWorks DEF Allocate, Kinds
<1>2. dirs' = dirs /\ want' = want
  BY DEF Allocate, outside
<1>3. Sound(k, rows[k], dirs[k])
  BY <1>1 DEF CatalogInv, SoundInv
<1>4. CASE BeginAllocation(k) /\ rows[k] = Nothing
  <2>1. new \in Rows /\ ~new.root /\ ~new.avail /\ new.phase # "ready"
        /\ new.att = Nothing /\ new.sup = Nothing
    BY NewRowIs DEF CatalogInv, RowPhases
  <2> HIDE DEF new
  <2>2. Put(k, new) /\ proj' = "agent" /\ stage' = stage /\ step' = "leaf"
    BY <1>4 DEF BeginAllocation, EnsureProjects, StepTo, new
  <2>3. /\ rows' \in [Kinds -> Rows \cup {Nothing}] /\ rows'[k] = new /\ new # Nothing
        /\ \A j \in Kinds : j # k => rows'[j] = rows[j]
    BY <1>1, <2>1, <2>2, PutIs DEF CatalogInv
  <2>4. CatalogTypeOK'
    BY <2>2, <2>3 DEF Allocate, CatalogInv, CatalogTypeOK, outside, given, Steps
  <2>5. Sound(k, new, dirs[k]) /\ Place(k, "leaf", new, dirs[k])
    BY <1>3, <2>1, <2>3 DEF Sound, Place
  <2> QED
    BY <1>1, <1>2, <2>2, <2>3, <2>4, <2>5, Touched
<1>5. CASE ~(BeginAllocation(k) /\ rows[k] = Nothing)
  <2>1. /\ UNCHANGED <<rows, proj>>
        /\ \/ step' = "enter" /\ stage' = "restore_recovery"
           \/ stage' = stage /\ rows[k] # Nothing /\ step' = "leaf" /\ ~rows[k].root
           \/ stage' = stage /\ rows[k] # Nothing /\ step' = "mark"
    BY <1>5 DEF Allocate, StepTo, Abort
  <2>2. CatalogTypeOK'
    BY <2>1 DEF Allocate, CatalogInv, CatalogTypeOK, outside, given, Stages, Steps
  <2>3. step' = "enter" \/ (stage' = stage /\ Place(k, step', rows[k], dirs[k]))
    BY <2>1 DEF Place
  <2> QED
    BY <1>1, <1>2, <2>1, <2>2, <2>3, Untouched
<1> QED
  BY <1>4, <1>5

LEMMA CreateLeafInv ==
  ASSUME CatalogInv, NEW k \in Continuity, CreateLeaf(k)
  PROVE  CatalogInv'
<1> DEFINE dir == Dir("empty", "root", "runtime")
<1>1. k \in Kinds /\ Working(k) /\ step = "leaf"
  BY AtWorks DEF CreateLeaf, Kinds
<1>2. rows' = rows /\ want' = want
  BY DEF CreateLeaf, store, outside
<1>3. Sound(k, rows[k], dirs[k]) /\ Place(k, "leaf", rows[k], dirs[k])
  BY <1>1 DEF CatalogInv, SoundInv, PlaceInv
<1>4. proj' \in {Nothing, "root", "agent"}
  BY DEF CreateLeaf, EnsureProjects, CatalogInv, CatalogTypeOK
<1>5. CASE dirs' = dirs
  <2>1. \/ step' = "enter" /\ stage' = "restore_recovery"
        \/ stage' = stage /\ step' = "record" /\ dirs[k] # Nothing /\ dirs[k].data = "empty"
    <3>1. dirs[k] = Nothing => ~SetDir(k, dir)
      BY <1>1, <1>5, NewDirs, SetDirIs DEF CatalogInv
    <3> QED
      BY <3>1 DEF CreateLeaf, StepTo, Abort
  <2>2. CatalogTypeOK'
    BY <1>4, <1>5, <2>1 DEF CreateLeaf, CatalogInv, CatalogTypeOK, store, outside, given, Stages, Steps
  <2>3. step' = "enter" \/ (stage' = stage /\ Place(k, step', rows[k], dirs[k]))
    BY <1>3, <2>1 DEF Place, Continuity
  <2> QED
    BY <1>1, <1>2, <1>5, <2>2, <2>3, Untouched
<1>6. CASE dirs' # dirs
  <2>1. dir \in Directories /\ dir.data = "empty" /\ dir.by = "runtime"
    BY NewDirs
  <2>2. SetDir(k, dir) /\ stage' = stage /\ step' = "record" /\ dirs[k] = Nothing
    BY <1>6 DEF CreateLeaf, StepTo
  <2> HIDE DEF dir
  <2>3. dirs' \in [Kinds -> Directories \cup {Nothing}] /\ dir # Nothing
    BY <1>1, <2>1, <2>2, SetDirIs DEF CatalogInv
  <2>4. CatalogTypeOK'
    BY <1>4, <2>2, <2>3 DEF CreateLeaf, CatalogInv, CatalogTypeOK, store, outside, given, Steps
  <2>5. Sound(k, rows[k], dir) /\ Place(k, "record", rows[k], dir)
    BY <1>3, <2>1, <2>2, <2>3 DEF Sound, Place, Continuity
  <2> QED
    BY <1>1, <1>2, <2>1, <2>2, <2>4, <2>5, LeafWritten
<1> QED
  BY <1>5, <1>6

LEMMA RecordLeafInv ==
  ASSUME CatalogInv, NEW k \in Continuity, RecordLeaf(k)
  PROVE  CatalogInv'
<1> DEFINE new == [Recorded(rows[k]) EXCEPT !.phase = "continuity_allocated"]
<1>1. k \in Kinds /\ Working(k) /\ step = "record"
  BY AtWorks DEF RecordLeaf, Kinds
<1>2. Sound(k, rows[k], dirs[k]) /\ Place(k, "record", rows[k], dirs[k])
  BY <1>1 DEF CatalogInv, SoundInv, PlaceInv
<1>3. rows[k] \in Rows
  BY <1>1, <1>2, RowIs DEF CatalogInv, Place
<1>4. /\ new \in Rows /\ new.root /\ new.avail = rows[k].avail
      /\ new.phase = "continuity_allocated" /\ SelfAttesting(new)
  BY <1>3, RecordedIs DEF RowPhases
<1> HIDE DEF new
<1>5. Put(k, new)
  BY DEF RecordLeaf, new
<1>6. /\ rows' \in [Kinds -> Rows \cup {Nothing}] /\ rows'[k] = new /\ new # Nothing
      /\ \A j \in Kinds : j # k => rows'[j] = rows[j]
  BY <1>1, <1>4, <1>5, PutIs DEF CatalogInv
<1>7. CatalogTypeOK'
  BY <1>6 DEF RecordLeaf, CatalogInv, CatalogTypeOK, StepTo, host, outside, given, Steps
<1>8. dirs' = dirs /\ want' = want /\ stage' = stage /\ step' = "mark"
  BY DEF RecordLeaf, StepTo, host, outside
<1>9. Sound(k, new, dirs[k]) /\ Place(k, "mark", new, dirs[k])
  BY <1>2, <1>4, <1>6 DEF Sound, Place, Continuity
<1> QED
  BY <1>1, <1>6, <1>7, <1>8, <1>9, Touched

\* The clone begins in an empty leaf, which no published row has.
LEMMA MaterializeNewInv ==
  ASSUME CatalogInv, NEW k \in Continuity, MaterializeNew(k)
  PROVE  CatalogInv'
<1> DEFINE dir == [dirs[k] EXCEPT !.data = "partial"]
<1>1. k \in Kinds /\ Working(k) /\ step = "materialize"
  BY AtWorks DEF MaterializeNew, Kinds
<1>2. rows' = rows /\ want' = want
  BY DEF MaterializeNew, store, outside
<1>3. Sound(k, rows[k], dirs[k]) /\ Place(k, "materialize", rows[k], dirs[k])
  BY <1>1 DEF CatalogInv, SoundInv, PlaceInv
<1>4. CASE ValidateMaterializationTarget(k) /\ dirs[k].data = "empty"
  <2>1. dirs[k] \in Directories /\ dirs[k] # Nothing
    BY <1>1, <1>4, DirIs DEF ValidateMaterializationTarget, CatalogInv
  <2>2. dir \in Directories /\ dir.data = "partial" /\ dir.owner = dirs[k].owner
        /\ dir.by = dirs[k].by
    BY <2>1 DEF Directories
  <2> HIDE DEF dir
  <2>3. SetDir(k, dir) /\ stage' = stage /\ step' = "fill"
    BY <1>4 DEF MaterializeNew, CloneWithoutCheckout, StepTo, dir
  <2>4. dirs' \in [Kinds -> Directories \cup {Nothing}] /\ dir # Nothing
    BY <1>1, <2>2, <2>3, SetDirIs DEF CatalogInv
  <2>5. CatalogTypeOK'
    BY <2>3, <2>4 DEF MaterializeNew, CatalogInv, CatalogTypeOK, store, outside, given, Steps
  <2>6. Sound(k, rows[k], dir) /\ Place(k, "fill", rows[k], dir)
    BY <1>3, <1>4, <2>1, <2>2, <2>4 DEF Sound, Place, Continuity
  <2> QED
    BY <1>1, <1>2, <2>2, <2>3, <2>5, <2>6, LeafWritten
<1>5. CASE ~(ValidateMaterializationTarget(k) /\ dirs[k].data = "empty")
  <2>1. /\ dirs' = dirs
        /\ \/ step' = "enter" /\ stage' = "restore_recovery"
           \/ stage' = stage /\ step' = "chown"
    BY <1>5 DEF MaterializeNew, StepTo, Abort
  <2>2. CatalogTypeOK'
    BY <2>1 DEF MaterializeNew, CatalogInv, CatalogTypeOK, store, outside, given, Stages, Steps
  <2>3. Place(k, "chown", rows[k], dirs[k])
    BY <1>3 DEF Place
  <2> QED
    BY <1>1, <1>2, <2>1, <2>2, <2>3, Untouched
<1> QED
  BY <1>4, <1>5

LEMMA MaterializeInv ==
  ASSUME CatalogInv, NEW k \in Continuity, Materialize(k)
  PROVE  CatalogInv'
<1> DEFINE dir == [dirs[k] EXCEPT !.data = "git"]
<1>1. k \in Kinds /\ Working(k) /\ step = "fill"
  BY AtWorks DEF Materialize, Kinds
<1>2. rows' = rows /\ want' = want
  BY DEF Materialize, store, outside
<1>3. Sound(k, rows[k], dirs[k]) /\ Place(k, "fill", rows[k], dirs[k])
  BY <1>1 DEF CatalogInv, SoundInv, PlaceInv
<1>4. dirs[k] \in Directories
  BY <1>1, <1>3, DirIs DEF Place, CatalogInv
<1>5. dir \in Directories /\ dir.data = "git" /\ dir.owner = dirs[k].owner /\ dir.by = dirs[k].by
  BY <1>4 DEF Directories
<1> HIDE DEF dir
<1>6. SetDir(k, dir) /\ stage' = stage /\ step' = "chown"
  BY DEF Materialize, StepTo, dir
<1>7. dirs' \in [Kinds -> Directories \cup {Nothing}] /\ dir # Nothing
  BY <1>1, <1>5, <1>6, SetDirIs DEF CatalogInv
<1>8. CatalogTypeOK'
  BY <1>6, <1>7 DEF Materialize, CatalogInv, CatalogTypeOK, store, outside, given, Steps
<1>9. Sound(k, rows[k], dir) /\ Place(k, "chown", rows[k], dir)
  BY <1>3, <1>4, <1>5, <1>7 DEF Sound, Place, Continuity
<1> QED
  BY <1>1, <1>2, <1>5, <1>6, <1>8, <1>9, LeafWritten

LEMMA CompleteMaterializationOwnerInv ==
  ASSUME CatalogInv, NEW k \in Continuity, CompleteMaterializationOwner(k)
  PROVE  CatalogInv'
<1> DEFINE dir == [dirs[k] EXCEPT !.owner = "agent"]
<1>1. k \in Kinds /\ Working(k) /\ step = "chown"
  BY AtWorks DEF CompleteMaterializationOwner, Kinds
<1>2. rows' = rows /\ want' = want
  BY DEF CompleteMaterializationOwner, store, outside
<1>3. Sound(k, rows[k], dirs[k]) /\ Place(k, "chown", rows[k], dirs[k])
  BY <1>1 DEF CatalogInv, SoundInv, PlaceInv
<1>4. CASE VerifyWorkspace(k) /\ ValidateMaterializationTarget(k)
  <2>1. dirs[k] \in Directories /\ dirs[k] # Nothing /\ dirs[k].data = "git"
    BY <1>1, <1>4, DirIs DEF VerifyWorkspace, ValidateMaterializationTarget, CatalogInv
  <2>2. dir \in Directories /\ dir.owner = "agent" /\ dir.data = dirs[k].data /\ dir.by = dirs[k].by
    BY <2>1, DirOwned
  <2> HIDE DEF dir
  <2>3. SetDir(k, dir) /\ stage' = stage /\ step' = "complete"
    BY <1>4 DEF CompleteMaterializationOwner, StepTo, dir
  <2>4. dirs' \in [Kinds -> Directories \cup {Nothing}] /\ dir # Nothing
    BY <1>1, <2>2, <2>3, SetDirIs DEF CatalogInv
  <2>5. CatalogTypeOK'
    BY <2>3, <2>4 DEF CompleteMaterializationOwner, CatalogInv, CatalogTypeOK, store, outside,
       given, Steps
  <2>6. Sound(k, rows[k], dir) /\ Place(k, "complete", rows[k], dir)
    BY <1>3, <2>1, <2>2, <2>4 DEF Sound, Place, Continuity
  <2> QED
    BY <1>1, <1>2, <2>2, <2>3, <2>5, <2>6, LeafWritten
<1>5. CASE ~(VerifyWorkspace(k) /\ ValidateMaterializationTarget(k))
  <2>1. CatalogTypeOK' /\ dirs' = dirs /\ step' = "enter"
    BY <1>5 DEF CompleteMaterializationOwner, CatalogInv, CatalogTypeOK, Abort, store, outside,
       given, Stages, Steps
  <2> QED
    BY <1>2, <2>1, Untouched
<1> QED
  BY <1>4, <1>5

LEMMA CompleteInv ==
  ASSUME CatalogInv, NEW k \in Continuity, Complete(k)
  PROVE  CatalogInv'
<1> DEFINE new == Ready(rows[k])
<1>1. k \in Kinds /\ Working(k) /\ step = "complete"
  BY AtWorks DEF Complete, Kinds
<1>2. dirs' = dirs /\ want' = want
  BY DEF Complete, host, outside
<1>3. Sound(k, rows[k], dirs[k]) /\ Place(k, "complete", rows[k], dirs[k])
  BY <1>1 DEF CatalogInv, SoundInv, PlaceInv
<1>4. CASE rows' = rows
  <2>1. \/ step' = "enter" /\ stage' = "restore_recovery"
        \/ stage' = stage /\ step' = "end"
    BY DEF Complete, StepTo, Abort
  <2>2. CatalogTypeOK'
    BY <1>4, <2>1 DEF Complete, CatalogInv, CatalogTypeOK, host, outside, given, Stages, Steps
  <2>3. Place(k, "end", rows[k], dirs[k])
    BY <1>3 DEF Place
  <2> QED
    BY <1>1, <1>2, <1>4, <2>1, <2>2, <2>3, Untouched
<1>5. CASE rows' # rows
  <2>1. Completable(k) /\ Put(k, new) /\ stage' = stage /\ step' = "end"
    BY <1>5 DEF Complete, StepTo
  <2>2. rows[k] \in Rows /\ rows[k].root /\ dirs[k].owner = "agent"
    BY <1>1, <1>3, <2>1, RowIs DEF Completable, VerifyPublishedOwner, OpenVerifiedRoot, Place, CatalogInv
  <2>3. new \in Rows /\ new.root = rows[k].root /\ SelfAttesting(new)
    BY <1>3, <2>1, <2>2, ReadyIs DEF Completable
  <2> HIDE DEF new
  <2>4. /\ rows' \in [Kinds -> Rows \cup {Nothing}] /\ rows'[k] = new /\ new # Nothing
        /\ \A j \in Kinds : j # k => rows'[j] = rows[j]
    BY <1>1, <2>1, <2>3, PutIs DEF CatalogInv
  <2>5. CatalogTypeOK'
    BY <2>1, <2>4 DEF Complete, CatalogInv, CatalogTypeOK, host, outside, given, Steps
  <2>6. Sound(k, new, dirs[k]) /\ Place(k, "end", new, dirs[k])
    BY <1>3, <2>2, <2>3, <2>4 DEF Sound, Place, Continuity
  <2> QED
    BY <1>1, <1>2, <2>1, <2>4, <2>5, <2>6, Touched
<1> QED
  BY <1>4, <1>5

\* The agent writes in a complete repository: what was finished stays finished.
LEMMA AgentEditsInv ==
  ASSUME CatalogInv, NEW k \in Kinds, AgentEdits(k)
  PROVE  CatalogInv'
<1> DEFINE dir == [dirs[k] EXCEPT !.data = "edited"]
<1>1. dirs[k] \in Directories /\ dirs[k] # Nothing /\ dirs[k].data = "git" /\ dirs[k].owner = "agent"
  BY DirIs DEF AgentEdits, CatalogInv
<1>2. dir \in Directories /\ dir.data = "edited" /\ dir.owner = dirs[k].owner /\ dir.by = dirs[k].by
  BY <1>1 DEF Directories
<1> HIDE DEF dir
<1>3. SetDir(k, dir) /\ rows' = rows /\ want' = want /\ stage' = stage /\ step' = step
  BY DEF AgentEdits, store, outside, at, dir
<1>4. /\ dirs' \in [Kinds -> Directories \cup {Nothing}] /\ dirs'[k] = dir /\ dir # Nothing
      /\ \A j \in Kinds : j # k => dirs'[j] = dirs[j]
  BY <1>2, <1>3, SetDirIs DEF CatalogInv
<1>5. CatalogTypeOK'
  BY <1>3, <1>4 DEF AgentEdits, CatalogInv, CatalogTypeOK, store, outside, given
<1>6. SoundInv'
  <2>1. Sound(k, rows[k], dir)
    BY <1>1, <1>2, <1>4 DEF CatalogInv, SoundInv, Sound
  <2> QED
    BY <1>3, <1>4, <2>1 DEF CatalogInv, SoundInv
<1>7. PlaceInv' /\ WantInv'
  <2>1. Working(k) => Place(k, step, rows[k], dir)
    BY <1>1, <1>2, <1>4 DEF CatalogInv, PlaceInv, Place
  <2>2. \A j \in Kinds : Working(j)' <=> Working(j)
    BY <1>3 DEF Working
  <2> QED
    BY <1>3, <1>4, <2>1, <2>2 DEF CatalogInv, PlaceInv, WantInv
<1> QED
  BY <1>5, <1>6, <1>7 DEF CatalogInv

(***************************************************************************)
(* The invariant.                                                          *)
(***************************************************************************)
LEMMA CatalogInitInv == CatalogInit => CatalogInv
<1> SUFFICES ASSUME CatalogInit PROVE CatalogInv
  OBVIOUS
<1>1. mount \in [dev : Devices, img : Images]
  BY CatalogConstants DEF CatalogInit
<1>2. /\ OlderRow \in Rows /\ OlderRow.root /\ SelfAttesting(OlderRow)
  <2> DEFINE new == NewRow("created", Nothing)
             rooted == Recorded(new)
  <2>1. new \in Rows
    BY <1>1 DEF NewRow, Rows, RowPhases, Attestations
  <2> HIDE DEF new
  <2>2. rooted \in Rows /\ rooted.root /\ SelfAttesting(rooted)
    BY <2>1, RecordedRow
  <2> HIDE DEF rooted
  <2> QED
    BY <2>2, ReadyIs DEF OlderRow, rooted, new
<1>3. dirs \in [Kinds -> Directories \cup {Nothing}]
  <2>1. /\ Dir("empty", "agent", "user") \in Directories
        /\ Dir("user", "agent", "user") \in Directories
        /\ Dir("git", "root", "older") \in Directories
        /\ Dir("empty", "root", "older") \in Directories
    BY DEF Dir, Directories
  <2> QED
    BY <2>1 DEF CatalogInit, UserDirs, OlderDirs, NoDirs
<1>4. rows \in [Kinds -> Rows \cup {Nothing}]
  BY <1>2 DEF CatalogInit, NoRows
<1>5. CatalogTypeOK
  BY <1>1, <1>3, <1>4, CatalogConstants DEF CatalogInit, CatalogTypeOK, Stages, Steps, Continuity
<1>6. SoundInv
  <2>1. CASE rows = NoRows
    <3>1. \A k \in Continuity : dirs[k] = Nothing
      BY DEF CatalogInit, UserDirs, OlderDirs, NoDirs, Kinds, TeamProjects, Continuity
    <3> QED
      BY <2>1, <3>1 DEF SoundInv, Sound, NoRows
  <2>2. CASE dirs = OlderDirs /\ rows = [NoRows EXCEPT !["team"] = OlderRow, !["cell"] = OlderRow]
    <3>1. /\ rows["team"] = OlderRow /\ rows["cell"] = OlderRow
          /\ dirs["team"] = Dir("git", "root", "older")
          /\ dirs["cell"] = Dir("empty", "root", "older")
          /\ \A k \in Continuity : rows[k] = Nothing /\ dirs[k] = Nothing
      BY <2>2 DEF OlderDirs, NoDirs, NoRows, Kinds, TeamProjects, Continuity
    <3>2. /\ Dir("git", "root", "older").data = "git" /\ Dir("git", "root", "older").by = "older"
          /\ Dir("empty", "root", "older").data = "empty" /\ Dir("empty", "root", "older").by = "older"
          /\ Dir("git", "root", "older") # Nothing /\ Dir("empty", "root", "older") # Nothing
      BY CatalogConstants DEF Dir, Directories
    <3>3. Sound("team", rows["team"], dirs["team"]) /\ Sound("cell", rows["cell"], dirs["cell"])
      BY <1>2, <3>1, <3>2 DEF Sound, Continuity
    <3>4. \A k \in Continuity : Sound(k, rows[k], dirs[k])
      BY <3>1 DEF Sound
    <3> QED
      BY <3>3, <3>4 DEF SoundInv, Kinds, TeamProjects
  <2> QED
    BY <2>1, <2>2 DEF CatalogInit
<1>7. PlaceInv /\ WantInv
  BY DEF CatalogInit, PlaceInv, Place, WantInv
<1> QED
  BY <1>5, <1>6, <1>7 DEF CatalogInv

LEMMA CatalogNextInv == CatalogInv /\ [CatalogNext]_catalogVars => CatalogInv'
<1> SUFFICES ASSUME CatalogInv, [CatalogNext]_catalogVars PROVE CatalogInv'
  OBVIOUS
<1>1. CASE TeamStep
  BY <1>1, ControlInv, AllocateDefaultInv, CreateDefaultRootInv, RecordDefaultRootInv,
     InitializeGitInv, OwnDefaultBootstrapInv, PublishDefaultInv, EnsureDefaultInv DEF TeamStep
<1>2. CASE CellStep
  BY <1>2, AllocateCellInv, MaterializeCellRootInv, FinishCellAllocationInv, EnsureCellDefaultInv
     DEF CellStep
<1>3. ASSUME NEW k \in Continuity, MaterializeStep(k) PROVE CatalogInv'
  BY <1>3, OperationInv, MaterializeNewInv, MaterializeInv, CompleteMaterializationOwnerInv
     DEF MaterializeStep
<1>4. CASE ApplyRestore
  <2>1. "restore" \in Continuity
    BY DEF Continuity
  <2> QED
    BY <1>3, <1>4, <2>1, ControlInv, OperationInv, AllocateInv, CreateLeafInv, RecordLeafInv,
       CompleteInv DEF ApplyRestore, AllocateRestore, FinishRestoreAllocation, CompleteRestore
<1>5. CASE ApplyHandoff
  <2>1. "handoff" \in Continuity
    BY DEF Continuity
  <2> QED
    BY <1>3, <1>5, <2>1, ControlInv, OperationInv, AllocateInv, CreateLeafInv, RecordLeafInv,
       CompleteInv DEF ApplyHandoff, AllocateHandoff, FinishHandoffAllocation, CompleteHandoff
<1>6. CASE Pass
  BY <1>1, <1>2, <1>4, <1>5, <1>6, ReobserveInv, ControlInv, ResolveManagedProjectInv DEF Pass
<1>7. CASE Backend
  BY <1>7, BackendInv DEF Backend
<1>8. CASE \E k \in Kinds : AgentEdits(k)
  BY <1>8, AgentEditsInv
<1>9. CASE Faults
  BY <1>9, ControlInv, InitializeGitInv, CellInterruptedInv DEF Faults
<1>10. CASE UNCHANGED catalogVars
  BY <1>10 DEF catalogVars, CatalogInv, CatalogTypeOK, SoundInv, PlaceInv, Working, WantInv
<1> QED
  BY <1>6, <1>7, <1>8, <1>9, <1>10 DEF CatalogNext

\* What the directories and the rows of a workspace are to each other, in every
\* state of every pass, whoever died and whatever came back from a restart: a
\* recorded root is a leaf the Runtime made, an attestation is that of the row
\* as it is, and a step finds what the one before it left (catalog.go:543-1321).
THEOREM CatalogInvariance == CatalogSpec => []CatalogInv
<1> QED
  BY CatalogInitInv, CatalogNextInv, PTL DEF CatalogSpec

\* A pass, a fault and the agent leave every row and every leaf of the catalog
\* well formed (internal/workspacecatalog/catalog.go, CatalogTypeOK).
THEOREM CatalogTypeCorrect == CatalogSpec => []CatalogTypeOK
<1>1. CatalogInv => CatalogTypeOK
  BY DEF CatalogInv
<1> QED
  BY <1>1, CatalogInvariance, PTL

\* What Reports publishes is finished and what the user made is left alone
\* (catalog.go:167-212, 543-1321).
THEOREM RowsAreTrueAlways == CatalogSpec => []RowsAreTrue
<1>1. CatalogInv => RowsAreTrue
  BY DEF CatalogInv, SoundInv, Sound, RowsAreTrue, PublishedIsFinished, UserDirectoryIsLeftAlone,
     Reports, Publishable
<1> QED
  BY <1>1, CatalogInvariance, PTL

(***************************************************************************)
(* What a step may do to a row.                                            *)
(***************************************************************************)
\* The step of RemountKeepsImage.
ImageKept ==
    \A k \in Kinds : (rows[k] # Nothing /\ rows[k].img # Nothing) =>
        /\ rows'[k].img = rows[k].img
        /\ rows'[k].dev # rows[k].dev => mount.img = rows[k].img

\* A row written over another keeps its device and its identity.
LEMMA WrittenOver ==
  ASSUME CatalogTypeOK, NEW k \in Kinds, NEW row, Put(k, row),
         rows[k] # Nothing => row.dev = rows[k].dev /\ row.img = rows[k].img
  PROVE  ImageKept
<1>1. rows'[k] = row /\ \A j \in Kinds : j # k => rows'[j] = rows[j]
  BY DEF CatalogTypeOK, Put
<1> QED
  BY <1>1 DEF ImageKept

LEMMA PublishedKept ==
  ASSUME CatalogInv, RecordDefaultRoot \/ PublishDefault \/ FinishCellAllocation
  PROVE  ImageKept
<1>1. "team" \in Kinds /\ "cell" \in Kinds /\ {"created", "ready"} \subseteq RowPhases
  BY KindsAre DEF RowPhases
<1>2. CASE RecordDefaultRoot
  <2>1. Place("team", "record", rows["team"], dirs["team"])
    BY <1>1, <1>2 DEF RecordDefaultRoot, CatalogInv, PlaceInv, Working
  <2>2. rows["team"] \in Rows
    BY <1>1, <2>1, RowIs DEF Place, CatalogInv
  <2> QED
    BY <1>1, <1>2, <2>2, RecordedIs, WrittenOver DEF RecordDefaultRoot, CatalogInv
<1>3. CASE PublishDefault
  <2>1. Place("team", "publish", rows["team"], dirs["team"])
    BY <1>1, <1>3 DEF PublishDefault, CatalogInv, PlaceInv, Working
  <2>2. rows["team"] \in Rows
    BY <1>1, <2>1, RowIs DEF Place, CatalogInv
  <2>3. CASE rows' = rows
    BY <2>3 DEF ImageKept
  <2>4. CASE Put("team", Ready(rows["team"]))
    BY <1>1, <2>2, <2>4, ReadyIs, WrittenOver DEF CatalogInv
  <2> QED
    BY <1>3, <2>3, <2>4 DEF PublishDefault
<1>4. CASE FinishCellAllocation
  <2>1. Place("cell", "publish", rows["cell"], dirs["cell"])
    BY <1>1, <1>4 DEF FinishCellAllocation, CatalogInv, PlaceInv, Working
  <2>2. rows["cell"] \in Rows
    BY <1>1, <2>1, RowIs DEF Place, CatalogInv
  <2> DEFINE rooted == Recorded(rows["cell"])
  <2>3. rooted \in Rows /\ rooted.dev = rows["cell"].dev /\ rooted.img = rows["cell"].img
    BY <2>2, RecordedRow
  <2>4. Put("cell", Ready(rooted))
    BY <1>4 DEF FinishCellAllocation
  <2> HIDE DEF rooted
  <2> QED
    BY <1>1, <2>3, <2>4, ReadyIs, WrittenOver DEF CatalogInv
<1> QED
  BY <1>2, <1>3, <1>4

LEMMA OperationKept ==
  ASSUME CatalogInv, NEW k \in Continuity, Allocate(k) \/ RecordLeaf(k) \/ Complete(k)
  PROVE  ImageKept
<1>1. k \in Kinds
  BY DEF Kinds
<1>2. CASE Allocate(k)
  <2>1. rows' = rows \/ (rows[k] = Nothing /\ Put(k, NewRow("allocating", BornWith)))
    BY <1>2 DEF Allocate, BeginAllocation
  <2> QED
    BY <1>1, <2>1, WrittenOver DEF ImageKept, CatalogInv
<1>3. CASE RecordLeaf(k)
  <2>1. Place(k, "record", rows[k], dirs[k])
    BY <1>1, <1>3, AtWorks DEF RecordLeaf, CatalogInv, PlaceInv
  <2>2. rows[k] \in Rows
    BY <1>1, <2>1, RowIs DEF Place, CatalogInv
  <2>3. "continuity_allocated" \in RowPhases
    BY DEF RowPhases
  <2> QED
    BY <1>1, <1>3, <2>2, <2>3, RecordedIs, WrittenOver DEF RecordLeaf, CatalogInv
<1>4. CASE Complete(k)
  <2>1. Place(k, "complete", rows[k], dirs[k])
    BY <1>1, <1>4, AtWorks DEF Complete, CatalogInv, PlaceInv
  <2>2. rows[k] \in Rows
    BY <1>1, <2>1, RowIs DEF Place, CatalogInv
  <2>3. rows' = rows \/ Put(k, Ready(rows[k]))
    BY <1>4 DEF Complete
  <2> QED
    BY <1>1, <2>2, <2>3, ReadyIs, WrittenOver DEF ImageKept, CatalogInv
<1> QED
  BY <1>2, <1>3, <1>4

LEMMA ServiceKept ==
  ASSUME CatalogInv, ResolveManagedProject
  PROVE  ImageKept
<1>1. "team" \in Kinds /\ rows["team"] \in Rows /\ want \in Manifests
  BY RowIs DEF ResolveManagedProject, CatalogInv, CatalogTypeOK, WantInv, Kinds, TeamProjects
<1>2. rows' = rows \/ Put("team", Rebound(rows["team"], want.cfg))
  BY DEF ResolveManagedProject, ServiceAdmitted, ServiceDeferred, ServiceRefused, ServiceRebound
<1>3. want.cfg \in {0, 1}
  BY <1>1 DEF Manifests
<1> QED
  BY <1>1, <1>2, <1>3, ReboundIs, WrittenOver DEF ImageKept, CatalogInv

LEMMA ReobservedKept ==
  ASSUME CatalogInv, ReobserveRemountedRoots
  PROVE  ImageKept
<1>1. PICK named \in BOOLEAN :
        rows' = [k \in Kinds |-> IF k \in TeamProjects THEN Reobserved(k, named) ELSE rows[k]]
  BY DEF ReobserveRemountedRoots, CatalogInv, CatalogTypeOK
<1>2. ASSUME NEW k \in Kinds, rows[k] # Nothing, rows[k].img # Nothing
      PROVE  /\ rows'[k].img = rows[k].img
             /\ rows'[k].dev # rows[k].dev => mount.img = rows[k].img
  <2>1. rows[k] \in Rows
    BY <1>2, RowIs DEF CatalogInv
  <2>2. rows'[k] = rows[k] \/ rows'[k] = Reobserved(k, named)
    BY <1>1
  <2> QED
    BY <1>2, <2>1, <2>2, ReobservedIs DEF CatalogInv
<1> QED
  BY <1>2 DEF ImageKept

LEMMA NextKept == CatalogInv /\ [CatalogNext]_catalogVars => ImageKept
<1> SUFFICES ASSUME CatalogInv, [CatalogNext]_catalogVars PROVE ImageKept
  OBVIOUS
<1>1. CASE rows' = rows
  BY <1>1 DEF ImageKept
<1>2. CASE AllocateDefault \/ AllocateCell
  <2>1. "team" \in Kinds /\ "cell" \in Kinds
    BY KindsAre
  <2> QED
    BY <1>2, <2>1, WrittenOver DEF AllocateDefault, AllocateCell, CatalogInv
<1>3. CASE TeamStep \/ CellStep
  <2>1. \/ AllocateDefault \/ AllocateCell
        \/ RecordDefaultRoot \/ PublishDefault \/ FinishCellAllocation
        \/ rows' = rows
    BY <1>3 DEF TeamStep, CellStep, NoRequest, CreateDefaultRoot, InitializeGit,
       OwnDefaultBootstrap, EnsureDefault, MaterializeCellRoot, EnsureCellDefault, store
  <2> QED
    BY <1>1, <1>2, <2>1, PublishedKept
<1>4. CASE ApplyRestore \/ ApplyHandoff
  <2>1. \/ \E k \in Continuity : Allocate(k) \/ RecordLeaf(k) \/ Complete(k)
        \/ rows' = rows
    BY <1>4 DEF ApplyRestore, ApplyHandoff, SkipOperation, PutOperation, ResumeRestore,
       RecoverHandoff, RecoverMaterializedHandoff, AllocateRestore, AllocateHandoff,
       FinishRestoreAllocation, FinishHandoffAllocation, CreateLeaf, MaterializeStep,
       MarkMaterializing, MaterializeNew, Materialize, CompleteMaterializationOwner,
       CompleteRestore, CompleteHandoff, EndOperation, store, Continuity
  <2> QED
    BY <1>1, <2>1, OperationKept
<1>5. CASE Pass
  <2>1. RefuseProjects \/ NoService => rows' = rows
    BY DEF RefuseProjects, NoService, store
  <2> QED
    BY <1>1, <1>3, <1>4, <1>5, <2>1, ServiceKept, ReobservedKept DEF Pass
<1>6. CASE Backend \/ (\E k \in Kinds : AgentEdits(k)) \/ Faults
  BY <1>1, <1>6 DEF Backend, BackendSelect, BackendRatify, AgentEdits, Faults,
     ProjectsInterrupted, GitInterrupted, CellInterrupted, DaemonDies, HostRestarts, store
<1> QED
  BY <1>1, <1>5, <1>6 DEF CatalogNext, catalogVars

\* A row that knows its image is moved to another device only while that image
\* is mounted, and never learns another identity: no copy at the workspace path
\* is attested for the original (backingImageMatches, remountAttestationAdoption).
THEOREM RemountKeepsImageAlways == CatalogSpec => RemountKeepsImage
<1>1. CatalogInv /\ [CatalogNext]_catalogVars
        => [\A k \in Kinds : (rows[k] # Nothing /\ rows[k].img # Nothing) =>
              /\ rows'[k].img = rows[k].img
              /\ rows'[k].dev # rows[k].dev => mount.img = rows[k].img]_catalogVars
  BY NextKept DEF ImageKept
<1> QED
  BY <1>1, CatalogInvariance, PTL DEF CatalogSpec, RemountKeepsImage

(***************************************************************************)
(* The pass and the guards of the store.                                   *)
(***************************************************************************)
\* Every row the pass is about to put over another is one the store takes.
WritesAccepted ==
    /\ stage = "team" /\ step = "record" =>
          WriteAllowed(rows["team"], [Recorded(rows["team"]) EXCEPT !.phase = "created"])
    /\ stage = "team" /\ step = "publish" =>
          WriteAllowed(rows["team"], Ready(rows["team"]))
    /\ stage = "cell" /\ step = "publish" =>
          WriteAllowed(rows["cell"], Ready(Recorded(rows["cell"])))
    /\ \A k \in Continuity :
          /\ At(k, "record") =>
                WriteAllowed(rows[k], [Recorded(rows[k]) EXCEPT !.phase = "continuity_allocated"])
          /\ At(k, "complete") => WriteAllowed(rows[k], Ready(rows[k]))
    /\ (want # Nothing /\ ResolveRecord("team") /\ rows["team"].cfg # want.cfg) =>
          WriteAllowed(rows["team"], Rebound(rows["team"], want.cfg))
    /\ \A k \in TeamProjects, named \in BOOLEAN :
          (stage = "observe" /\ rows[k] # Nothing /\ RemountDeviceChange(k)) =>
              WriteAllowed(rows[k], Reobserved(k, named))

LEMMA SelfAttested ==
  ASSUME NEW row \in Rows, SelfAttesting(row)
  PROVE  row.att # Nothing
  BY AttestType DEF SelfAttesting

\* A root is recorded once, on a row without one.
LEMMA RecordAccepted ==
  ASSUME NEW row \in Rows, NEW new \in Rows, ~row.root, row.att = Nothing, row.sup = Nothing,
         new.root, SelfAttesting(new), new.dev = row.dev, new.img = row.img, new.sup = row.sup
  PROVE  WriteAllowed(row, new)
<1>1. new.att # Nothing
  BY SelfAttested
<1> QED
  BY <1>1 DEF WriteAllowed, PinnedDiffers

LEMMA PublishAccepted ==
  ASSUME NEW row \in Rows
  PROVE  WriteAllowed(row, Ready(row))
  BY ReadyIs DEF WriteAllowed, PinnedDiffers

\* A row that is bound to another configuration attests differently.
LEMMA ReboundAccepted ==
  ASSUME NEW row \in Rows, NEW cfg \in {0, 1}, SelfAttesting(row), row.cfg # cfg
  PROVE  WriteAllowed(row, Rebound(row, cfg))
<1> DEFINE new == Rebound(row, cfg)
<1>1. /\ SelfAttesting(new) /\ new.root = row.root /\ new.dev = row.dev /\ new.img = row.img
      /\ new.cfg = cfg /\ new.sup = Nothing
  BY ReboundIs
<1> HIDE DEF new
<1>2. new.att # row.att
  BY <1>1 DEF SelfAttesting, Attest
<1> QED
  BY <1>1, <1>2 DEF WriteAllowed, PinnedDiffers, new

\* A row that is moved to the mounted device is an adoption; a row that is not
\* moved is left as it is.
LEMMA MovedAccepted ==
  ASSUME CatalogInv, NEW k \in Kinds, NEW named \in BOOLEAN, rows[k] # Nothing,
         RemountDeviceChange(k)
  PROVE  WriteAllowed(rows[k], Reobserved(k, named))
<1> DEFINE row == rows[k]
           moved == [row EXCEPT !.dev = mount.dev]
<1>1. row \in Rows /\ Sound(k, row, dirs[k])
  BY RowIs DEF CatalogInv, SoundInv
<1>2. CASE Reobserved(k, named) = row
  BY <1>2 DEF WriteAllowed, PinnedDiffers
<1>3. CASE Reobserved(k, named) = Reattested(row) /\ row.phase = "ready" /\ SelfAttesting(row)
  <2>1. row.root
    BY <1>1, <1>3 DEF Sound
  <2>2. mount.dev \in Devices /\ mount.dev # row.dev
    BY DEF RemountDeviceChange, CatalogInv, CatalogTypeOK
  <2>3. moved \in Rows /\ moved.dev = mount.dev
    BY <1>1, <2>2 DEF Rows
  <2>4. Attest(moved) # Attest(row) /\ Attest(moved) # Nothing
    BY <2>2, <2>3, AttestType DEF Attest
  <2>5. /\ Reattested(row) = [row EXCEPT !.dev = mount.dev, !.att = Attest(moved), !.sup = row.att]
        /\ Reattested(row).dev = mount.dev /\ Reattested(row).att = Attest(moved)
        /\ Reattested(row).sup = row.att
    BY <1>1, <2>3 DEF Reattested, Rows
  <2>6. RemountAdoption(row, Reattested(row))
    BY <1>3, <2>1, <2>2, <2>4, <2>5 DEF RemountAdoption, SelfAttesting
  <2>7. PinnedDiffers(row, Reattested(row))
    BY <2>2, <2>5 DEF PinnedDiffers
  <2> QED
    BY <1>3, <2>6, <2>7 DEF WriteAllowed
<1> QED
  BY <1>2, <1>3 DEF Reobserved

LEMMA WritesAreAccepted == CatalogInv => WritesAccepted
<1> SUFFICES ASSUME CatalogInv PROVE WritesAccepted
  OBVIOUS
<1>1. \A k \in Kinds : Sound(k, rows[k], dirs[k])
  BY DEF CatalogInv, SoundInv
<1>2. ASSUME NEW k \in Kinds, NEW phase \in RowPhases, Working(k), step = "record"
      PROVE  WriteAllowed(rows[k], [Recorded(rows[k]) EXCEPT !.phase = phase])
  <2>1. rows[k] \in Rows /\ rows[k] # Nothing /\ ~rows[k].root
    BY <1>2, RowIs DEF CatalogInv, PlaceInv, Place
  <2>2. rows[k].att = Nothing /\ rows[k].sup = Nothing
    BY <1>1, <2>1 DEF Sound
  <2> QED
    BY <2>1, <2>2, RecordedIs, RecordAccepted
<1>3. ASSUME NEW k \in Kinds, Working(k), step \in {"publish", "complete"}
      PROVE  rows[k] \in Rows /\ rows[k] # Nothing
  BY <1>3, RowIs DEF CatalogInv, PlaceInv, Place
<1>4. {"created", "continuity_allocated"} \subseteq RowPhases
  BY DEF RowPhases
<1>5. stage = "team" /\ step = "record" =>
        WriteAllowed(rows["team"], [Recorded(rows["team"]) EXCEPT !.phase = "created"])
  BY <1>2, <1>4 DEF Working, Kinds, TeamProjects
<1>6. stage = "team" /\ step = "publish" => WriteAllowed(rows["team"], Ready(rows["team"]))
  BY <1>3, PublishAccepted DEF Working, Kinds, TeamProjects
<1>7. ASSUME stage = "cell", step = "publish"
      PROVE  WriteAllowed(rows["cell"], Ready(Recorded(rows["cell"])))
  <2> DEFINE row == rows["cell"]
             rooted == Recorded(row)
  <2>1. "cell" \in Kinds /\ Working("cell")
    BY <1>7 DEF Working, Kinds, TeamProjects
  <2>2. row \in Rows /\ row # Nothing /\ ~row.root
    BY <1>3, <1>7, <2>1 DEF CatalogInv, PlaceInv, Place
  <2>3. row.att = Nothing /\ row.sup = Nothing
    BY <1>1, <2>1, <2>2 DEF Sound
  <2>4. /\ rooted \in Rows /\ rooted.root /\ SelfAttesting(rooted)
        /\ rooted.dev = row.dev /\ rooted.img = row.img /\ rooted.sup = row.sup
    BY <2>2, RecordedRow
  <2> HIDE DEF rooted
  <2>5. /\ Ready(rooted) \in Rows /\ Ready(rooted).root /\ SelfAttesting(Ready(rooted))
        /\ Ready(rooted).dev = row.dev /\ Ready(rooted).img = row.img
        /\ Ready(rooted).sup = row.sup
    BY <2>4, ReadyIs
  <2>6. WriteAllowed(row, Ready(rooted))
    BY <2>2, <2>3, <2>5, RecordAccepted
  <2> QED
    BY <2>6 DEF rooted
<1>8. ASSUME NEW k \in Continuity
      PROVE  /\ At(k, "record") =>
                  WriteAllowed(rows[k], [Recorded(rows[k]) EXCEPT !.phase = "continuity_allocated"])
             /\ At(k, "complete") => WriteAllowed(rows[k], Ready(rows[k]))
  <2>1. k \in Kinds /\ \A s : At(k, s) => Working(k) /\ step = s
    BY AtWorks DEF Kinds
  <2> QED
    BY <1>2, <1>3, <1>4, <2>1, PublishAccepted
<1>9. ASSUME want # Nothing, ResolveRecord("team"), rows["team"].cfg # want.cfg
      PROVE  WriteAllowed(rows["team"], Rebound(rows["team"], want.cfg))
  <2>1. rows["team"] \in Rows
    BY <1>9, RowIs DEF CatalogInv, WantInv, Kinds, TeamProjects
  <2>2. want.cfg \in {0, 1}
    BY <1>9 DEF CatalogInv, CatalogTypeOK, Manifests
  <2>3. SelfAttesting(rows["team"])
    BY <1>9 DEF ResolveRecord
  <2> QED
    BY <1>9, <2>1, <2>2, <2>3, ReboundAccepted
<1>10. \A k \in TeamProjects, named \in BOOLEAN :
         (stage = "observe" /\ rows[k] # Nothing /\ RemountDeviceChange(k)) =>
             WriteAllowed(rows[k], Reobserved(k, named))
  BY MovedAccepted DEF Kinds
<1> QED
  BY <1>5, <1>6, <1>7, <1>8, <1>9, <1>10 DEF WritesAccepted

\* The pass never writes a row that the store would refuse: no crash, restart
\* or re-attestation brings it to a write that ends every later pass
\* (the replacement guards of state/store.go:2540-2630, remountAttestationAdoption).
THEOREM StoreAcceptsEveryWrite == CatalogSpec => []WritesAccepted
<1> QED
  BY WritesAreAccepted, CatalogInvariance, PTL

(***************************************************************************)
(* The capture of checkpoints.                                             *)
(***************************************************************************)
\* Where Capture stands determines the row of its operation.
StepInv ==
    /\ pc = "pending" => opState[cur] = "pending" /\ ~frozen
    /\ pc \in {"pausing", "confirm"} => opState[cur] = "pausing"
    /\ pc = "paused" => opState[cur] = "paused" /\ owned[cur] /\ frozen
    /\ pc = "reading" => opState[cur] = "capturing" /\ owned[cur] = frozen
    /\ pc = "thaw" => opState[cur] = "capturing" /\ owned[cur] /\ frozen
    /\ pc \in {"record", "publish"} => opState[cur] = "capturing" /\ pausedBy # cur

\* Recover has visited every interrupted row, or has still to, or has failed.
RecoverInv ==
    /\ pc = "recover" /\ ~failing =>
           \A o \in Ops : opState[o] \in Interrupted => o \in todo
    /\ pc = "reconcile" => \A o \in Ops : opState[o] \notin Interrupted

\* While a frozen capture runs, only it or the operator holds the pause; once
\* its freeze was broken, it does not hold it again.
TornInv ==
    /\ engine = "paused" <=> pausedBy # None
    /\ pc \in {"confirm", "paused", "reading", "thaw"} /\ (pc = "reading" => frozen) =>
           pausedBy \in {cur, None, Operator}
    /\ \A o \in torn : opState[o] \in {"capturing", "captured", "failed", "recovery_required"}
    /\ pc \in {"reading", "thaw"} /\ frozen /\ cur \in torn => pausedBy # cur

IInv == TypeOK /\ NoForgottenFreeze /\ StepInv /\ RecoverInv /\ TornInv

USE Distinct, Bounds DEF rowVars, srcVars, boxVars, localVars, recVars, States,
    Interrupted, InCapture, Phases

LEMMA InitIInv == Init => IInv
<1> SUFFICES ASSUME Init PROVE IInv
  OBVIOUS
<1>1. TypeOK
  <2>1. owned \in [Ops -> BOOLEAN]
    BY DEF Init
  <2>2. opState \in [Ops -> States] /\ ownRev \in [Ops -> Nat]
    BY DEF Init
  <2> QED
    BY <2>1, <2>2 DEF Init, TypeOK
<1>2. NoForgottenFreeze
  BY DEF Init, NoForgottenFreeze
<1>3. StepInv /\ RecoverInv
  BY DEF Init, StepInv, RecoverInv
<1>4. TornInv
  BY DEF Init, TornInv
<1> QED
  BY <1>1, <1>2, <1>3, <1>4 DEF IInv

\* A counted fault keeps the type of the counter.
LEMMA FaultType == ASSUME faults \in Nat, Fault PROVE faults' \in Nat
  BY DEF Fault

\* A transition of a row keeps the types of its columns.
LEMMA RowType ==
  ASSUME TypeOK,
         \E o \in Ops, to \in States, own \in BOOLEAN, r \in Nat :
             Transition(o, to, own, r) \/ UNCHANGED rowVars
  PROVE  opState' \in [Ops -> States] /\ owned' \in [Ops -> BOOLEAN] /\ ownRev' \in [Ops -> Nat]
<1>1. opState' \in [Ops -> States]
  BY DEF TypeOK, Transition
<1>2. owned' \in [Ops -> BOOLEAN]
  BY DEF TypeOK, Transition
<1>3. ownRev' \in [Ops -> Nat]
  BY DEF TypeOK, Transition
<1> QED
  BY <1>1, <1>2, <1>3

\* Request preserves the inductive invariant.
LEMMA RequestIInv ==
  ASSUME IInv, NEW x \in Ops, Request(x)
  PROVE  IInv'
<1>1. TypeOK'
  BY DEF IInv, TypeOK, Request
<1>2. NoForgottenFreeze'
  BY DEF IInv, TypeOK, NoForgottenFreeze, StepInv, TornInv, Request
<1>3. StepInv'
  BY DEF IInv, TypeOK, StepInv, NoForgottenFreeze, Request
<1>4. RecoverInv'
  BY DEF IInv, TypeOK, RecoverInv, Request
<1>5. TornInv'
  BY DEF IInv, TypeOK, TornInv, StepInv, NoForgottenFreeze, Request
<1> QED
  BY <1>1, <1>2, <1>3, <1>4, <1>5 DEF IInv

\* FailPending preserves the inductive invariant.
LEMMA FailPendingIInv ==
  ASSUME IInv, FailPending
  PROVE  IInv'
<1>1. TypeOK'
  <2>1. faults' = faults \/ Fault
    BY DEF FailPending, Settle
  <2>2. faults' \in Nat
    BY <2>1, FaultType DEF IInv, TypeOK
  <2>3. \E o \in Ops, to \in States, own \in BOOLEAN, r \in Nat :
            Transition(o, to, own, r) \/ UNCHANGED rowVars
    BY DEF IInv, TypeOK, FailPending, Settle
  <2>4. opState' \in [Ops -> States] /\ owned' \in [Ops -> BOOLEAN] /\ ownRev' \in [Ops -> Nat]
    BY <2>3, RowType DEF IInv
  <2> QED
    BY <2>2, <2>4 DEF IInv, TypeOK, FailPending, Settle
<1>2. NoForgottenFreeze'
  BY DEF IInv, TypeOK, NoForgottenFreeze, StepInv, TornInv, FailPending, Settle,
     Transition, Fault
<1>3. StepInv'
  BY DEF IInv, TypeOK, StepInv, NoForgottenFreeze, FailPending, Settle,
     Transition, Fault
<1>4. RecoverInv'
  BY DEF IInv, TypeOK, RecoverInv, FailPending, Settle, Transition, Fault
<1>5. TornInv'
  BY DEF IInv, TypeOK, TornInv, StepInv, NoForgottenFreeze, FailPending, Settle,
     Transition, Fault
<1> QED
  BY <1>1, <1>2, <1>3, <1>4, <1>5 DEF IInv

\* BeginStopped preserves the inductive invariant.
LEMMA BeginStoppedIInv ==
  ASSUME IInv, BeginStopped
  PROVE  IInv'
<1>1. TypeOK'
  <2>1. faults' = faults \/ Fault
    BY DEF BeginStopped
  <2>2. faults' \in Nat
    BY <2>1, FaultType DEF IInv, TypeOK
  <2>3. \E o \in Ops, to \in States, own \in BOOLEAN, r \in Nat :
            Transition(o, to, own, r) \/ UNCHANGED rowVars
    BY DEF IInv, TypeOK, BeginStopped
  <2>4. opState' \in [Ops -> States] /\ owned' \in [Ops -> BOOLEAN] /\ ownRev' \in [Ops -> Nat]
    BY <2>3, RowType DEF IInv
  <2> QED
    BY <2>2, <2>4 DEF IInv, TypeOK, BeginStopped
<1>2. NoForgottenFreeze'
  BY DEF IInv, TypeOK, NoForgottenFreeze, StepInv, TornInv, BeginStopped,
     Transition, Fault
<1>3. StepInv'
  BY DEF IInv, TypeOK, StepInv, NoForgottenFreeze, BeginStopped, Transition, Fault
<1>4. RecoverInv'
  BY DEF IInv, TypeOK, RecoverInv, BeginStopped, Transition, Fault
<1>5. TornInv'
  BY DEF IInv, TypeOK, TornInv, StepInv, NoForgottenFreeze, BeginStopped,
     Transition, Fault
<1> QED
  BY <1>1, <1>2, <1>3, <1>4, <1>5 DEF IInv

\* BeginPause preserves the inductive invariant.
LEMMA BeginPauseIInv ==
  ASSUME IInv, BeginPause
  PROVE  IInv'
<1>1. TypeOK'
  <2>1. faults' = faults \/ Fault
    BY DEF BeginPause
  <2>2. faults' \in Nat
    BY <2>1, FaultType DEF IInv, TypeOK
  <2>3. \E o \in Ops, to \in States, own \in BOOLEAN, r \in Nat :
            Transition(o, to, own, r) \/ UNCHANGED rowVars
    BY DEF IInv, TypeOK, BeginPause
  <2>4. opState' \in [Ops -> States] /\ owned' \in [Ops -> BOOLEAN] /\ ownRev' \in [Ops -> Nat]
    BY <2>3, RowType DEF IInv
  <2> QED
    BY <2>2, <2>4 DEF IInv, TypeOK, BeginPause
<1>2. NoForgottenFreeze'
  BY DEF IInv, TypeOK, NoForgottenFreeze, StepInv, TornInv, BeginPause,
     Transition, Fault
<1>3. StepInv'
  BY DEF IInv, TypeOK, StepInv, NoForgottenFreeze, BeginPause, Transition, Fault
<1>4. RecoverInv'
  BY DEF IInv, TypeOK, RecoverInv, BeginPause, Transition, Fault
<1>5. TornInv'
  BY DEF IInv, TypeOK, TornInv, StepInv, NoForgottenFreeze, BeginPause,
     Transition, Fault
<1> QED
  BY <1>1, <1>2, <1>3, <1>4, <1>5 DEF IInv

\* Pause preserves the inductive invariant.
LEMMA PauseIInv ==
  ASSUME IInv, Pause
  PROVE  IInv'
<1>1. TypeOK'
  BY DEF IInv, TypeOK, Pause
<1>2. NoForgottenFreeze'
  BY DEF IInv, TypeOK, NoForgottenFreeze, StepInv, TornInv, Pause
<1>3. StepInv'
  BY DEF IInv, TypeOK, StepInv, NoForgottenFreeze, Pause
<1>4. RecoverInv'
  BY DEF IInv, TypeOK, RecoverInv, Pause
<1>5. TornInv'
  BY DEF IInv, TypeOK, TornInv, StepInv, NoForgottenFreeze, Pause
<1> QED
  BY <1>1, <1>2, <1>3, <1>4, <1>5 DEF IInv

\* PauseError preserves the inductive invariant.
LEMMA PauseErrorIInv ==
  ASSUME IInv, PauseError
  PROVE  IInv'
<1>1. TypeOK'
  <2>1. faults' = faults \/ Fault
    BY DEF PauseError, Settle, SettleAfterError
  <2>2. faults' \in Nat
    BY <2>1, FaultType DEF IInv, TypeOK
  <2>3. \E o \in Ops, to \in States, own \in BOOLEAN, r \in Nat :
            Transition(o, to, own, r) \/ UNCHANGED rowVars
    BY DEF IInv, TypeOK, PauseError, Settle, SettleAfterError
  <2>4. opState' \in [Ops -> States] /\ owned' \in [Ops -> BOOLEAN] /\ ownRev' \in [Ops -> Nat]
    BY <2>3, RowType DEF IInv
  <2> QED
    BY <2>2, <2>4 DEF IInv, TypeOK, PauseError, Settle, SettleAfterError
<1>2. NoForgottenFreeze'
  BY DEF IInv, TypeOK, NoForgottenFreeze, StepInv, TornInv, PauseError, Settle,
     SettleAfterError, Transition, Fault
<1>3. StepInv'
  BY DEF IInv, TypeOK, StepInv, NoForgottenFreeze, PauseError, Settle,
     SettleAfterError, Transition, Fault
<1>4. RecoverInv'
  BY DEF IInv, TypeOK, RecoverInv, PauseError, Settle, SettleAfterError,
     Transition, Fault
<1>5. TornInv'
  BY DEF IInv, TypeOK, TornInv, StepInv, NoForgottenFreeze, PauseError, Settle,
     SettleAfterError, Transition, Fault
<1> QED
  BY <1>1, <1>2, <1>3, <1>4, <1>5 DEF IInv

\* ConfirmPause preserves the inductive invariant.
LEMMA ConfirmPauseIInv ==
  ASSUME IInv, ConfirmPause
  PROVE  IInv'
<1>1. TypeOK'
  <2>1. faults' = faults \/ Fault
    BY DEF ConfirmPause
  <2>2. faults' \in Nat
    BY <2>1, FaultType DEF IInv, TypeOK
  <2>3. \E o \in Ops, to \in States, own \in BOOLEAN, r \in Nat :
            Transition(o, to, own, r) \/ UNCHANGED rowVars
    BY DEF IInv, TypeOK, ConfirmPause
  <2>4. opState' \in [Ops -> States] /\ owned' \in [Ops -> BOOLEAN] /\ ownRev' \in [Ops -> Nat]
    BY <2>3, RowType DEF IInv
  <2> QED
    BY <2>2, <2>4 DEF IInv, TypeOK, ConfirmPause
<1>2. NoForgottenFreeze'
  BY DEF IInv, TypeOK, NoForgottenFreeze, StepInv, TornInv, ConfirmPause,
     Transition, Fault
<1>3. StepInv'
  BY DEF IInv, TypeOK, StepInv, NoForgottenFreeze, ConfirmPause, Transition, Fault
<1>4. RecoverInv'
  BY DEF IInv, TypeOK, RecoverInv, ConfirmPause, Transition, Fault
<1>5. TornInv'
  BY DEF IInv, TypeOK, TornInv, StepInv, NoForgottenFreeze, ConfirmPause,
     Transition, Fault
<1> QED
  BY <1>1, <1>2, <1>3, <1>4, <1>5 DEF IInv

\* ConfirmError preserves the inductive invariant.
LEMMA ConfirmErrorIInv ==
  ASSUME IInv, ConfirmError
  PROVE  IInv'
<1>1. TypeOK'
  <2>1. faults' = faults \/ Fault
    BY DEF ConfirmError, Settle, SettleAfterError
  <2>2. faults' \in Nat
    BY <2>1, FaultType DEF IInv, TypeOK
  <2>3. \E o \in Ops, to \in States, own \in BOOLEAN, r \in Nat :
            Transition(o, to, own, r) \/ UNCHANGED rowVars
    BY DEF IInv, TypeOK, ConfirmError, Settle, SettleAfterError
  <2>4. opState' \in [Ops -> States] /\ owned' \in [Ops -> BOOLEAN] /\ ownRev' \in [Ops -> Nat]
    BY <2>3, RowType DEF IInv
  <2> QED
    BY <2>2, <2>4 DEF IInv, TypeOK, ConfirmError, Settle, SettleAfterError
<1>2. NoForgottenFreeze'
  BY DEF IInv, TypeOK, NoForgottenFreeze, StepInv, TornInv, ConfirmError, Settle,
     SettleAfterError, Transition, Fault
<1>3. StepInv'
  BY DEF IInv, TypeOK, StepInv, NoForgottenFreeze, ConfirmError, Settle,
     SettleAfterError, Transition, Fault
<1>4. RecoverInv'
  BY DEF IInv, TypeOK, RecoverInv, ConfirmError, Settle, SettleAfterError,
     Transition, Fault
<1>5. TornInv'
  BY DEF IInv, TypeOK, TornInv, StepInv, NoForgottenFreeze, ConfirmError, Settle,
     SettleAfterError, Transition, Fault
<1> QED
  BY <1>1, <1>2, <1>3, <1>4, <1>5 DEF IInv

\* BeginRead preserves the inductive invariant.
LEMMA BeginReadIInv ==
  ASSUME IInv, BeginRead
  PROVE  IInv'
<1>1. TypeOK'
  <2>1. faults' = faults \/ Fault
    BY DEF BeginRead
  <2>2. faults' \in Nat
    BY <2>1, FaultType DEF IInv, TypeOK
  <2>3. \E o \in Ops, to \in States, own \in BOOLEAN, r \in Nat :
            Transition(o, to, own, r) \/ UNCHANGED rowVars
    BY DEF IInv, TypeOK, BeginRead
  <2>4. opState' \in [Ops -> States] /\ owned' \in [Ops -> BOOLEAN] /\ ownRev' \in [Ops -> Nat]
    BY <2>3, RowType DEF IInv
  <2> QED
    BY <2>2, <2>4 DEF IInv, TypeOK, BeginRead
<1>2. NoForgottenFreeze'
  BY DEF IInv, TypeOK, NoForgottenFreeze, StepInv, TornInv, BeginRead, Transition,
     Fault
<1>3. StepInv'
  BY DEF IInv, TypeOK, StepInv, NoForgottenFreeze, BeginRead, Transition, Fault
<1>4. RecoverInv'
  BY DEF IInv, TypeOK, RecoverInv, BeginRead, Transition, Fault
<1>5. TornInv'
  BY DEF IInv, TypeOK, TornInv, StepInv, NoForgottenFreeze, BeginRead, Transition,
     Fault
<1> QED
  BY <1>1, <1>2, <1>3, <1>4, <1>5 DEF IInv

\* Read preserves the inductive invariant.
LEMMA ReadIInv ==
  ASSUME IInv, Read
  PROVE  IInv'
<1>1. TypeOK'
  BY DEF IInv, TypeOK, Read
<1>2. NoForgottenFreeze'
  BY DEF IInv, TypeOK, NoForgottenFreeze, StepInv, TornInv, Read
<1>3. StepInv'
  BY DEF IInv, TypeOK, StepInv, NoForgottenFreeze, Read
<1>4. RecoverInv'
  BY DEF IInv, TypeOK, RecoverInv, Read
<1>5. TornInv'
  BY DEF IInv, TypeOK, TornInv, StepInv, NoForgottenFreeze, Read
<1> QED
  BY <1>1, <1>2, <1>3, <1>4, <1>5 DEF IInv

\* Thaw preserves the inductive invariant.
LEMMA ThawIInv ==
  ASSUME IInv, Thaw
  PROVE  IInv'
<1>1. TypeOK'
  BY DEF IInv, TypeOK, Thaw, SameTarget
<1>2. NoForgottenFreeze'
  BY DEF IInv, TypeOK, NoForgottenFreeze, StepInv, TornInv, Thaw, SameTarget
<1>3. StepInv'
  BY DEF IInv, TypeOK, StepInv, NoForgottenFreeze, Thaw, SameTarget
<1>4. RecoverInv'
  BY DEF IInv, TypeOK, RecoverInv, Thaw, SameTarget
<1>5. TornInv'
  BY DEF IInv, TypeOK, TornInv, StepInv, NoForgottenFreeze, Thaw, SameTarget
<1> QED
  BY <1>1, <1>2, <1>3, <1>4, <1>5 DEF IInv

\* ThawError preserves the inductive invariant.
LEMMA ThawErrorIInv ==
  ASSUME IInv, ThawError
  PROVE  IInv'
<1>1. TypeOK'
  <2>1. faults' = faults \/ Fault
    BY DEF ThawError, Settle, SettleAfterError
  <2>2. faults' \in Nat
    BY <2>1, FaultType DEF IInv, TypeOK
  <2>3. \E o \in Ops, to \in States, own \in BOOLEAN, r \in Nat :
            Transition(o, to, own, r) \/ UNCHANGED rowVars
    BY DEF IInv, TypeOK, ThawError, Settle, SettleAfterError
  <2>4. opState' \in [Ops -> States] /\ owned' \in [Ops -> BOOLEAN] /\ ownRev' \in [Ops -> Nat]
    BY <2>3, RowType DEF IInv
  <2> QED
    BY <2>2, <2>4 DEF IInv, TypeOK, ThawError, Settle, SettleAfterError
<1>2. NoForgottenFreeze'
  BY DEF IInv, TypeOK, NoForgottenFreeze, StepInv, TornInv, ThawError, Settle,
     SettleAfterError, Transition, Fault, SameTarget
<1>3. StepInv'
  BY DEF IInv, TypeOK, StepInv, NoForgottenFreeze, ThawError, Settle,
     SettleAfterError, Transition, Fault, SameTarget
<1>4. RecoverInv'
  BY DEF IInv, TypeOK, RecoverInv, ThawError, Settle, SettleAfterError,
     Transition, Fault, SameTarget
<1>5. TornInv'
  BY DEF IInv, TypeOK, TornInv, StepInv, NoForgottenFreeze, ThawError, Settle,
     SettleAfterError, Transition, Fault, SameTarget
<1> QED
  BY <1>1, <1>2, <1>3, <1>4, <1>5 DEF IInv

\* Record preserves the inductive invariant.
LEMMA RecordIInv ==
  ASSUME IInv, Record
  PROVE  IInv'
<1>1. TypeOK'
  BY DEF IInv, TypeOK, Record
<1>2. NoForgottenFreeze'
  BY DEF IInv, TypeOK, NoForgottenFreeze, StepInv, TornInv, Record
<1>3. StepInv'
  BY DEF IInv, TypeOK, StepInv, NoForgottenFreeze, Record
<1>4. RecoverInv'
  BY DEF IInv, TypeOK, RecoverInv, Record
<1>5. TornInv'
  BY DEF IInv, TypeOK, TornInv, StepInv, NoForgottenFreeze, Record
<1> QED
  BY <1>1, <1>2, <1>3, <1>4, <1>5 DEF IInv

\* RecordError preserves the inductive invariant.
LEMMA RecordErrorIInv ==
  ASSUME IInv, RecordError
  PROVE  IInv'
<1>1. TypeOK'
  <2>1. faults' = faults \/ Fault
    BY DEF RecordError, Settle
  <2>2. faults' \in Nat
    BY <2>1, FaultType DEF IInv, TypeOK
  <2>3. \E o \in Ops, to \in States, own \in BOOLEAN, r \in Nat :
            Transition(o, to, own, r) \/ UNCHANGED rowVars
    BY DEF IInv, TypeOK, RecordError, Settle
  <2>4. opState' \in [Ops -> States] /\ owned' \in [Ops -> BOOLEAN] /\ ownRev' \in [Ops -> Nat]
    BY <2>3, RowType DEF IInv
  <2> QED
    BY <2>2, <2>4 DEF IInv, TypeOK, RecordError, Settle
<1>2. NoForgottenFreeze'
  BY DEF IInv, TypeOK, NoForgottenFreeze, StepInv, TornInv, RecordError, Settle,
     Transition, Fault
<1>3. StepInv'
  BY DEF IInv, TypeOK, StepInv, NoForgottenFreeze, RecordError, Settle,
     Transition, Fault
<1>4. RecoverInv'
  BY DEF IInv, TypeOK, RecoverInv, RecordError, Settle, Transition, Fault
<1>5. TornInv'
  BY DEF IInv, TypeOK, TornInv, StepInv, NoForgottenFreeze, RecordError, Settle,
     Transition, Fault
<1> QED
  BY <1>1, <1>2, <1>3, <1>4, <1>5 DEF IInv

\* Publish preserves the inductive invariant.
LEMMA PublishIInv ==
  ASSUME IInv, Publish
  PROVE  IInv'
<1>1. TypeOK'
  <2>1. faults' = faults \/ Fault
    BY DEF Publish, Settle
  <2>2. faults' \in Nat
    BY <2>1, FaultType DEF IInv, TypeOK
  <2>3. \E o \in Ops, to \in States, own \in BOOLEAN, r \in Nat :
            Transition(o, to, own, r) \/ UNCHANGED rowVars
    BY DEF IInv, TypeOK, Publish, Settle
  <2>4. opState' \in [Ops -> States] /\ owned' \in [Ops -> BOOLEAN] /\ ownRev' \in [Ops -> Nat]
    BY <2>3, RowType DEF IInv
  <2> QED
    BY <2>2, <2>4 DEF IInv, TypeOK, Publish, Settle
<1>2. NoForgottenFreeze'
  BY DEF IInv, TypeOK, NoForgottenFreeze, StepInv, TornInv, Publish, Settle,
     Transition, Fault
<1>3. StepInv'
  BY DEF IInv, TypeOK, StepInv, NoForgottenFreeze, Publish, Settle, Transition,
     Fault
<1>4. RecoverInv'
  BY DEF IInv, TypeOK, RecoverInv, Publish, Settle, Transition, Fault
<1>5. TornInv'
  BY DEF IInv, TypeOK, TornInv, StepInv, NoForgottenFreeze, Publish, Settle,
     Transition, Fault
<1> QED
  BY <1>1, <1>2, <1>3, <1>4, <1>5 DEF IInv

\* Expire preserves the inductive invariant.
LEMMA ExpireIInv ==
  ASSUME IInv, Expire
  PROVE  IInv'
<1>1. TypeOK'
  <2>1. moves' \in Nat
    BY DEF IInv, TypeOK, Expire
  <2> QED
    BY <2>1 DEF IInv, TypeOK, Expire
<1>2. NoForgottenFreeze'
  BY DEF IInv, TypeOK, NoForgottenFreeze, StepInv, TornInv, Expire
<1>3. StepInv'
  BY DEF IInv, TypeOK, StepInv, NoForgottenFreeze, Expire
<1>4. RecoverInv'
  BY DEF IInv, TypeOK, RecoverInv, Expire
<1>5. TornInv'
  BY DEF IInv, TypeOK, TornInv, StepInv, NoForgottenFreeze, Expire
<1> QED
  BY <1>1, <1>2, <1>3, <1>4, <1>5 DEF IInv

\* RecoverDone preserves the inductive invariant.
LEMMA RecoverDoneIInv ==
  ASSUME IInv, RecoverDone
  PROVE  IInv'
<1>1. TypeOK'
  BY DEF IInv, TypeOK, RecoverDone
<1>2. NoForgottenFreeze'
  BY DEF IInv, TypeOK, NoForgottenFreeze, StepInv, TornInv, RecoverDone
<1>3. StepInv'
  BY DEF IInv, TypeOK, StepInv, NoForgottenFreeze, RecoverDone
<1>4. RecoverInv'
  BY DEF IInv, TypeOK, RecoverInv, RecoverDone
<1>5. TornInv'
  BY DEF IInv, TypeOK, TornInv, StepInv, NoForgottenFreeze, RecoverDone
<1> QED
  BY <1>1, <1>2, <1>3, <1>4, <1>5 DEF IInv

\* Reconcile preserves the inductive invariant.
LEMMA ReconcileIInv ==
  ASSUME IInv, Reconcile
  PROVE  IInv'
<1>1. TypeOK'
  <2>1. rev' \in Nat
    BY DEF IInv, TypeOK, Reconcile
  <2>2. avail' \in BOOLEAN
    BY DEF IInv, TypeOK, Reconcile
  <2> QED
    BY <2>1, <2>2 DEF IInv, TypeOK, Reconcile
<1>2. NoForgottenFreeze'
  BY DEF IInv, TypeOK, NoForgottenFreeze, StepInv, TornInv, Reconcile
<1>3. StepInv'
  BY DEF IInv, TypeOK, StepInv, NoForgottenFreeze, Reconcile
<1>4. RecoverInv'
  BY DEF IInv, TypeOK, RecoverInv, Reconcile
<1>5. TornInv'
  BY DEF IInv, TypeOK, TornInv, StepInv, NoForgottenFreeze, Reconcile
<1> QED
  BY <1>1, <1>2, <1>3, <1>4, <1>5 DEF IInv

\* EndPass preserves the inductive invariant.
LEMMA EndPassIInv ==
  ASSUME IInv, EndPass
  PROVE  IInv'
<1>1. TypeOK'
  BY DEF IInv, TypeOK, EndPass
<1>2. NoForgottenFreeze'
  BY DEF IInv, TypeOK, NoForgottenFreeze, StepInv, TornInv, EndPass
<1>3. StepInv'
  BY DEF IInv, TypeOK, StepInv, NoForgottenFreeze, EndPass
<1>4. RecoverInv'
  BY DEF IInv, TypeOK, RecoverInv, EndPass
<1>5. TornInv'
  BY DEF IInv, TypeOK, TornInv, StepInv, NoForgottenFreeze, EndPass
<1> QED
  BY <1>1, <1>2, <1>3, <1>4, <1>5 DEF IInv

\* Restart preserves the inductive invariant.
LEMMA RestartIInv ==
  ASSUME IInv, Restart
  PROVE  IInv'
<1>1. TypeOK'
  BY DEF IInv, TypeOK, Restart
<1>2. NoForgottenFreeze'
  BY DEF IInv, TypeOK, NoForgottenFreeze, StepInv, TornInv, Restart
<1>3. StepInv'
  BY DEF IInv, TypeOK, StepInv, NoForgottenFreeze, Restart
<1>4. RecoverInv'
  BY DEF IInv, TypeOK, RecoverInv, Restart
<1>5. TornInv'
  BY DEF IInv, TypeOK, TornInv, StepInv, NoForgottenFreeze, Restart
<1> QED
  BY <1>1, <1>2, <1>3, <1>4, <1>5 DEF IInv

\* Crash preserves the inductive invariant.
LEMMA CrashIInv ==
  ASSUME IInv, Crash
  PROVE  IInv'
<1>1. TypeOK'
  BY DEF IInv, TypeOK, Crash, Fault
<1>2. NoForgottenFreeze'
  BY DEF IInv, TypeOK, NoForgottenFreeze, StepInv, TornInv, Crash, Fault
<1>3. StepInv'
  BY DEF IInv, TypeOK, StepInv, NoForgottenFreeze, Crash, Fault
<1>4. RecoverInv'
  BY DEF IInv, TypeOK, RecoverInv, Crash, Fault
<1>5. TornInv'
  BY DEF IInv, TypeOK, TornInv, StepInv, NoForgottenFreeze, Crash, Fault
<1> QED
  BY <1>1, <1>2, <1>3, <1>4, <1>5 DEF IInv

\* HostReboot preserves the inductive invariant.
LEMMA HostRebootIInv ==
  ASSUME IInv, HostReboot
  PROVE  IInv'
<1>1. TypeOK'
  BY DEF IInv, TypeOK, HostReboot, Fault
<1>2. NoForgottenFreeze'
  BY DEF IInv, TypeOK, NoForgottenFreeze, StepInv, TornInv, HostReboot, Fault
<1>3. StepInv'
  BY DEF IInv, TypeOK, StepInv, NoForgottenFreeze, HostReboot, Fault
<1>4. RecoverInv'
  BY DEF IInv, TypeOK, RecoverInv, HostReboot, Fault
<1>5. TornInv'
  BY DEF IInv, TypeOK, TornInv, StepInv, NoForgottenFreeze, HostReboot, Fault
<1> QED
  BY <1>1, <1>2, <1>3, <1>4, <1>5 DEF IInv

\* OperatorPause preserves the inductive invariant.
LEMMA OperatorPauseIInv ==
  ASSUME IInv, OperatorPause
  PROVE  IInv'
<1>1. TypeOK'
  BY DEF IInv, TypeOK, OperatorPause
<1>2. NoForgottenFreeze'
  BY DEF IInv, TypeOK, NoForgottenFreeze, StepInv, TornInv, OperatorPause
<1>3. StepInv'
  BY DEF IInv, TypeOK, StepInv, NoForgottenFreeze, OperatorPause
<1>4. RecoverInv'
  BY DEF IInv, TypeOK, RecoverInv, OperatorPause
<1>5. TornInv'
  BY DEF IInv, TypeOK, TornInv, StepInv, NoForgottenFreeze, OperatorPause
<1> QED
  BY <1>1, <1>2, <1>3, <1>4, <1>5 DEF IInv

\* OperatorUnpause preserves the inductive invariant.
LEMMA OperatorUnpauseIInv ==
  ASSUME IInv, OperatorUnpause
  PROVE  IInv'
<1>1. TypeOK'
  BY DEF IInv, TypeOK, OperatorUnpause, Tear
<1>2. NoForgottenFreeze'
  BY DEF IInv, TypeOK, NoForgottenFreeze, StepInv, TornInv, OperatorUnpause, Tear
<1>3. StepInv'
  BY DEF IInv, TypeOK, StepInv, NoForgottenFreeze, OperatorUnpause, Tear
<1>4. RecoverInv'
  BY DEF IInv, TypeOK, RecoverInv, OperatorUnpause, Tear
<1>5. TornInv'
  BY DEF IInv, TypeOK, TornInv, StepInv, NoForgottenFreeze, OperatorUnpause, Tear
<1> QED
  BY <1>1, <1>2, <1>3, <1>4, <1>5 DEF IInv

\* ContainerExit preserves the inductive invariant.
LEMMA ContainerExitIInv ==
  ASSUME IInv, ContainerExit
  PROVE  IInv'
<1>1. TypeOK'
  BY DEF IInv, TypeOK, ContainerExit
<1>2. NoForgottenFreeze'
  BY DEF IInv, TypeOK, NoForgottenFreeze, StepInv, TornInv, ContainerExit
<1>3. StepInv'
  BY DEF IInv, TypeOK, StepInv, NoForgottenFreeze, ContainerExit
<1>4. RecoverInv'
  BY DEF IInv, TypeOK, RecoverInv, ContainerExit
<1>5. TornInv'
  BY DEF IInv, TypeOK, TornInv, StepInv, NoForgottenFreeze, ContainerExit
<1> QED
  BY <1>1, <1>2, <1>3, <1>4, <1>5 DEF IInv

\* SourceStale preserves the inductive invariant.
LEMMA SourceStaleIInv ==
  ASSUME IInv, SourceStale
  PROVE  IInv'
<1>1. TypeOK'
  <2>1. moves' \in Nat
    BY DEF IInv, TypeOK, SourceStale
  <2>2. avail' \in BOOLEAN
    BY DEF SourceStale
  <2> QED
    BY <2>1, <2>2 DEF IInv, TypeOK, SourceStale
<1>2. NoForgottenFreeze'
  BY DEF IInv, TypeOK, NoForgottenFreeze, StepInv, TornInv, SourceStale
<1>3. StepInv'
  BY DEF IInv, TypeOK, StepInv, NoForgottenFreeze, SourceStale
<1>4. RecoverInv'
  BY DEF IInv, TypeOK, RecoverInv, SourceStale
<1>5. TornInv'
  BY DEF IInv, TypeOK, TornInv, StepInv, NoForgottenFreeze, SourceStale
<1> QED
  BY <1>1, <1>2, <1>3, <1>4, <1>5 DEF IInv

\* Recover preserves the inductive invariant.
LEMMA RecoverIInv ==
  ASSUME IInv, NEW x \in Ops, Recover(x)
  PROVE  IInv'
<1>1. TypeOK'
  <2>1. faults' = faults \/ Fault
    BY DEF Recover, RecoverBlocked, RecoverRetry, RecoverThaw, RecoverStopped,
       Settle, SettleAfterError
  <2>2. faults' \in Nat
    BY <2>1, FaultType DEF IInv, TypeOK
  <2>3. \E o \in Ops, to \in States, own \in BOOLEAN, r \in Nat :
            Transition(o, to, own, r) \/ UNCHANGED rowVars
    BY DEF IInv, TypeOK, Recover, RecoverBlocked, RecoverRetry, RecoverThaw,
       RecoverStopped, Settle, SettleAfterError
  <2>4. opState' \in [Ops -> States] /\ owned' \in [Ops -> BOOLEAN] /\ ownRev' \in [Ops -> Nat]
    BY <2>3, RowType DEF IInv
  <2> QED
    BY <2>2, <2>4 DEF IInv, TypeOK, Recover, RecoverBlocked, RecoverRetry,
       RecoverThaw, RecoverStopped, Settle, SettleAfterError
<1>2. NoForgottenFreeze'
  BY DEF IInv, TypeOK, NoForgottenFreeze, StepInv, TornInv, Recover,
     RecoverBlocked, RecoverRetry, RecoverThaw, RecoverStopped, Settle,
     SettleAfterError, Transition, Fault, SameTarget
<1>3. StepInv'
  BY DEF IInv, TypeOK, StepInv, NoForgottenFreeze, Recover, RecoverBlocked,
     RecoverRetry, RecoverThaw, RecoverStopped, Settle, SettleAfterError,
     Transition, Fault, SameTarget
<1>4. RecoverInv'
  BY DEF IInv, TypeOK, RecoverInv, Recover, RecoverBlocked, RecoverRetry,
     RecoverThaw, RecoverStopped, Settle, SettleAfterError, Transition, Fault,
     SameTarget
<1>5. TornInv'
  BY DEF IInv, TypeOK, TornInv, StepInv, NoForgottenFreeze, Recover,
     RecoverBlocked, RecoverRetry, RecoverThaw, RecoverStopped, Settle,
     SettleAfterError, Transition, Fault, SameTarget
<1> QED
  BY <1>1, <1>2, <1>3, <1>4, <1>5 DEF IInv

LEMMA NextIInv == IInv /\ [Next]_vars => IInv'
<1> SUFFICES ASSUME IInv, [Next]_vars PROVE IInv'
  OBVIOUS
<1>1. CASE CaptureStep
  BY <1>1, RequestIInv, FailPendingIInv, BeginStoppedIInv, BeginPauseIInv,
     PauseIInv,
     PauseErrorIInv, ConfirmPauseIInv, ConfirmErrorIInv, BeginReadIInv, ReadIInv,
     ThawIInv, ThawErrorIInv, RecordIInv, RecordErrorIInv, PublishIInv
     DEF CaptureStep
<1>2. CASE PassStep
  BY <1>2, ExpireIInv, RecoverIInv, RecoverDoneIInv, ReconcileIInv, EndPassIInv
     DEF PassStep
<1>3. CASE Environment
  BY <1>3, OperatorPauseIInv, OperatorUnpauseIInv, ContainerExitIInv,
     SourceStaleIInv
     DEF Environment
<1>4. CASE UNCHANGED vars
  BY <1>4 DEF vars, IInv, TypeOK, NoForgottenFreeze, StepInv, RecoverInv, TornInv
<1> QED
  BY <1>1, <1>2, <1>3, <1>4, CrashIInv, HostRebootIInv, RestartIInv DEF Next, Daemon

\* The inductive invariant holds in every reachable state.
THEOREM Invariance == Spec => []IInv
  BY InitIInv, NextIInv, PTL DEF Spec

\* Every variable keeps its type.
THEOREM TypeCorrect == Spec => []TypeOK
<1>1. IInv => TypeOK
  BY DEF IInv
<1> QED
  BY <1>1, Invariance, PTL

\* A container frozen by a capture is never forgotten: the row of the capture
\* that placed the pause stays one that Recover (service.go:454-541) visits.
THEOREM FreezeNeverForgotten == Spec => []NoForgottenFreeze
<1>1. IInv => NoForgottenFreeze
  BY DEF IInv
<1> QED
  BY <1>1, Invariance, PTL

\* Lifecycle reconciliation never runs beside an interrupted capture.
THEOREM ReconcileIsSettled == Spec => []ReconcileSeesSettledOps
<1>1. IInv => ReconcileSeesSettledOps
  BY DEF IInv, RecoverInv, NoForgottenFreeze, ReconcileSeesSettledOps
<1> QED
  BY <1>1, Invariance, PTL

\* thawOwned (service.go:580-622) refuses a capture whose freeze was broken,
\* unless the operator paused the container again.
THEOREM TornReadIsRefused == Spec => TornReadRefused
<1>1. IInv /\ [Next]_vars =>
        [pc = "thaw" /\ pc' = "record" /\ cur \in torn => pausedBy = Operator]_vars
  <2> SUFFICES ASSUME IInv, Next, pc = "thaw", pc' = "record", cur \in torn
               PROVE  pausedBy = Operator
    OBVIOUS
  <2>1. Thaw
    BY DEF Next, Daemon, CaptureStep, PassStep, Environment, Request, FailPending,
       BeginStopped, BeginPause, Pause, PauseError, ConfirmPause, ConfirmError,
       BeginRead, Read, ThawError, Record, RecordError, Publish, Expire, Recover,
       RecoverDone, Reconcile, EndPass, Restart, Crash, HostReboot, OperatorPause,
       OperatorUnpause, ContainerExit, SourceStale
  <2> QED
    BY <2>1 DEF Thaw, IInv, TornInv, StepInv
<1> QED
  BY <1>1, Invariance, PTL DEF Spec, TornReadRefused

\* A freeze always has its row, and reconciliation never meets it: both for every
\* set of operations and every number of faults.
THEOREM FreezeFenced == Spec => []FreezeIsFenced
<1> QED
  BY FreezeNeverForgotten, ReconcileIsSettled, PTL DEF FreezeIsFenced
=============================================================================
