---------------------- MODULE SandboxLifecycleProofs ----------------------
(***************************************************************************)
(* What one pass over a sandbox keeps true, for every number of setup      *)
(* operations, images, generations, changes of the manifest and faults.    *)
(*                                                                         *)
(* The inductive invariant says what the host holds at each phase of       *)
(* reconcileSandbox: which containers exist inside replaceContainer, that  *)
(* the workspace exists from Ensure on, that the row has left "deleted"    *)
(* before a container is made, and that the row and its local copy agree   *)
(* where a later phase writes the copy back.                               *)
(*                                                                         *)
(* The second half is the access gateway, for every set of grants and      *)
(* sessions: while the pass waits for the sessions of a grant it is about  *)
(* to record as revoked, those it cut are among the ones it waits for, so  *)
(* the record is written when none of them is left.                        *)
(***************************************************************************)
EXTENDS SandboxLifecycle, AccessGateway, TLAPS

Replacing == {"replace", "verify", "settle", "stop_old", "rename", "create", "start_new",
              "witness", "drop", "rb_remove", "rb_rename", "rb_state"}
Starting == {"restart", "ensure", "start_box", "preflight", "observe"}
\* The phases that come after Workspaces.Ensure.
Mounted == Replacing \cup Starting \cup {"mkfs", "branch"}

\* Every container was made from an image.
Real(b) == b = NoBox \/ b.img # 0
BoxesReal ==
    /\ Real(main) /\ Real(backup)
    /\ pc \in Mounted \cup {"ws"} => loc.img # 0 /\ job.tgt # 0

\* Which containers exist at the phases of replaceContainer.
BoxesPlaced ==
    /\ pc \in {"verify", "settle", "stop_old", "rename", "start_new", "witness", "drop", "rb_state"}
         => main # NoBox
    /\ pc \in {"verify", "settle", "witness", "rb_remove", "rb_rename"} => backup # NoBox
    /\ pc \in {"stop_old", "rename"} => backup = NoBox

\* Container, workspace and row.
RowTrue ==
    /\ pc \in Mounted => ws # "none"
    /\ main # NoBox => ws # "none"
    /\ pc \in {"destroy", "deleted"} => main = NoBox
    /\ pc = "deleted" => ws = "none"
    /\ row.obs = "deleted" => main = NoBox
    /\ pc \in Replacing \cup Starting => row.obs # "deleted"
    /\ pc \in {"ws", "mkfs", "branch"} => loc = row
    /\ pc = "ws" => row.des # "deleted"

IInv == TypeOK /\ BoxesReal /\ BoxesPlaced /\ RowTrue

\* What a step may do to the containers, to the workspace and the row, and to
\* the setup operations.
BoxKept == main # NoBox \/ backup # NoBox => main' # NoBox \/ backup' # NoBox \/ pc = "remove"
GoneStep == /\ row'.obs = "deleted" => main' = NoBox
            /\ main' # NoBox => ws' # "none"
            /\ row'.obs = "deleted" /\ row.obs # "deleted" => ws' = "none"
            /\ ws = "none" /\ ws' # "none" => row.des # "deleted"
SetupKept == \A o \in Setups : setup[o].st \in {"ready", "failed", "cancelled"} => setup'[o] = setup[o]
Good == IInv' /\ BoxKept /\ GoneStep /\ SetupKept

-----------------------------------------------------------------------------
(* The records.                                                            *)

\* Starting or stopping a container that exists leaves one that exists.
LEMMA Switch ==
    ASSUME NEW b \in Boxes, NEW u \in BOOLEAN, Real(b), b # NoBox \/ u = FALSE
    PROVE  /\ [b EXCEPT !.up = u] \in Boxes /\ Real([b EXCEPT !.up = u])
           /\ [b EXCEPT !.up = u] = NoBox <=> b = NoBox
<1> DEFINE s == [b EXCEPT !.up = u]
<1>1. s \in Boxes /\ s.img = b.img /\ s.up = u /\ s.hook = b.hook
  BY DEF Boxes
<1>2. CASE b = NoBox
  <2>1. s.img = NoBox.img /\ s.up = NoBox.up /\ s.hook = NoBox.hook
    BY <1>1, <1>2 DEF NoBox
  <2>2. \A x, y \in Boxes : x.img = y.img /\ x.up = y.up /\ x.hook = y.hook => x = y
    BY DEF Boxes
  <2>3. s = NoBox
    BY <1>1, <1>2, <2>1, <2>2
  <2> QED
    BY <1>1, <1>2, <2>3 DEF Real
<1>3. CASE b # NoBox
  <2>1. s.img # 0 /\ NoBox.img = 0
    BY <1>1, <1>3 DEF Real, NoBox
  <2> QED
    BY <1>1, <1>3, <2>1 DEF Real
<1> QED
  BY <1>2, <1>3

LEMMA NoBoxFact == NoBox \in Boxes /\ Real(NoBox) /\ ~NoBox.up
BY DEF NoBox, Boxes, Real

\* A container that is created exists.
LEMMA Made ==
    ASSUME NEW i \in Nat, i # 0, man \in Manifests
    PROVE  NewBox(i) \in Boxes /\ Real(NewBox(i)) /\ NewBox(i) # NoBox
BY DEF NewBox, Boxes, Real, NoBox, Manifests

\* A write of the observed state keeps the rest of the row.
LEMMA Write ==
    ASSUME NEW r \in Rows, NEW s \in Observed
    PROVE  /\ [r EXCEPT !.obs = s] \in Rows /\ [r EXCEPT !.obs = s].obs = s
           /\ [r EXCEPT !.obs = s].img = r.img /\ [r EXCEPT !.obs = s].des = r.des
BY DEF Rows

-----------------------------------------------------------------------------
LEMMA TypeInit == Init => TypeOK
<1> SUFFICES ASSUME Init PROVE TypeOK
  OBVIOUS
<1>1. want \in Manifests
  BY DEF Init, Manifests, Desired
<1>2. row \in Rows /\ loc \in Rows /\ job \in [tgt : Nat, pre : BOOLEAN, new : BOOLEAN, adopted : BOOLEAN]
  BY DEF Init, NoRow, NoJob, Rows, Desired, Observed
<1>3. setup \in [Setups -> [st : SetupStates, gen : Nat]]
  BY DEF Init, NoSetup, SetupStates
<1> QED
  BY <1>1, <1>2, <1>3, NoBoxFact DEF Init, TypeOK, Phases

THEOREM InitHolds == Init => IInv
<1> SUFFICES ASSUME Init PROVE IInv
  OBVIOUS
<1>1. NoRow.obs = "none"
  BY DEF NoRow
<1>2. BoxesReal /\ BoxesPlaced /\ RowTrue
  BY <1>1, NoBoxFact DEF Init, BoxesReal, BoxesPlaced, RowTrue, Mounted, Replacing, Starting
<1> QED
  BY <1>2, TypeInit DEF IInv

-----------------------------------------------------------------------------
(* Steps in general.                                                       *)

\* A step between the phases that act on the containers.
LEMMA HostStep ==
    ASSUME IInv, PodmanStep, faults' \in Nat,
           pc \in Replacing \cup Starting, pc' \in Replacing \cup Starting \cup {"fail"},
           main' \in Boxes, backup' \in Boxes, Real(main'), Real(backup'), BoxesPlaced',
           main # NoBox \/ backup # NoBox => main' # NoBox \/ backup' # NoBox
    PROVE  Good
BY DEF PodmanStep, cpVars, rowVars, locals, IInv, TypeOK, BoxesReal, RowTrue, Phases,
   Mounted, Replacing, Starting, Good, BoxKept, GoneStep, SetupKept

\* A write of the row and the phases it leads to.
LEMMA RowStep ==
    ASSUME IInv, NEW v \in Rows, NEW next, PutSandbox(v, next),
           UNCHANGED <<cpVars, man, setup, applied, host, ret, job, moves>>,
           next \in {"replace", "restart", "ensure", "stop", "remove", "setup", "prune", "fetch"},
           next \in {"replace", "restart", "ensure"} => pc = "branch" /\ v.img = loc.img,
           v.obs = "deleted" => next \in {"setup", "prune", "fetch"} /\ pc = "deleted"
    PROVE  Good
BY DEF PutSandbox, Fault, cpVars, rowVars, host, locals, IInv, TypeOK, BoxesReal,
   BoxesPlaced, RowTrue, Phases, Mounted, Replacing, Starting, Good, BoxKept, GoneStep,
   SetupKept

-----------------------------------------------------------------------------
(* The actions.                                                            *)

LEMMA ExpireKeeps == IInv /\ Expire => Good
BY Bounds, NoBoxFact DEF Expire, ExpiredBox, Rows, Desired, cpVars, rowVars, host, locals,
   vars, IInv, TypeOK, BoxesReal, BoxesPlaced, RowTrue, Phases, Mounted, Replacing,
   Starting, Good, BoxKept, GoneStep, SetupKept

LEMMA FetchKeeps == IInv /\ Fetch => Good
BY Bounds, NoBoxFact DEF Fetch, Fault, cpVars, rowVars, host, locals, vars, IInv, TypeOK,
   BoxesReal, BoxesPlaced, RowTrue, Phases, Mounted, Replacing, Starting, Good, BoxKept,
   GoneStep, SetupKept

LEMMA ReconcileSandboxKeeps == IInv /\ ReconcileSandbox => Good
<1> SUFFICES ASSUME IInv, ReconcileSandbox PROVE Good
  OBVIOUS
<1>1. Target \in Nat /\ Target # 0
  BY Bounds DEF Target, IInv, TypeOK, Rows, Manifests
<1>2. Entry \in Rows /\ Entry.img # 0 /\ (Entry.obs = "deleted" => row.obs = "deleted")
  <2>1. man.st \in Desired
    BY DEF ReconcileSandbox, IInv, TypeOK, Manifests
  <2> QED
    BY <1>1, <2>1 DEF Entry, IInv, TypeOK, Rows, Manifests, Desired, Observed
<1>3. AfterEntry(Entry) \in {"setup", "deleting", "ws", "stopping"}
      /\ (AfterEntry(Entry) = "ws" => Entry.des # "deleted")
  BY DEF AfterEntry
<1>4. job' \in [tgt : Nat, pre : BOOLEAN, new : BOOLEAN, adopted : BOOLEAN] /\ job'.tgt = Target
  BY <1>1 DEF ReconcileSandbox
<1>5. /\ pc = "box" /\ ret' = "setup" /\ faults' \in Nat
      /\ UNCHANGED <<cpVars, man, setup, applied, host, moves>>
      /\ \/ row' = Entry /\ loc' = Entry /\ pc' = AfterEntry(Entry)
         \/ pc' = "report" /\ UNCHANGED <<row, loc>>
  BY DEF ReconcileSandbox, PutSandbox, Fault, IInv, TypeOK
<1> QED
  BY <1>1, <1>2, <1>3, <1>4, <1>5 DEF cpVars, host, IInv, TypeOK, BoxesReal, BoxesPlaced,
     RowTrue, Phases, Mounted, Replacing, Starting, Good, BoxKept, GoneStep, SetupKept

LEMMA EnsureWorkspaceKeeps == IInv /\ EnsureWorkspace => Good
BY Bounds, NoBoxFact DEF EnsureWorkspace, Fault, cpVars, rowVars, host, locals, vars, IInv,
   TypeOK, BoxesReal, BoxesPlaced, RowTrue, Phases, Mounted, Replacing, Starting, Good,
   BoxKept, GoneStep, SetupKept

LEMMA MakeFileSystemKeeps == IInv /\ MakeFileSystem => Good
BY Bounds, NoBoxFact DEF MakeFileSystem, Fault, cpVars, rowVars, host, locals, vars, IInv,
   TypeOK, BoxesReal, BoxesPlaced, RowTrue, Phases, Mounted, Replacing, Starting, Good,
   BoxKept, GoneStep, SetupKept

LEMMA AdoptKeeps == IInv /\ Adopt => Good
BY Bounds, NoBoxFact DEF Adopt, CellTransition, Adoptable, Refresh, cpVars, rowVars, host,
   locals, vars, IInv, TypeOK, BoxesReal, BoxesPlaced, RowTrue, Phases, Mounted, Replacing,
   Starting, Good, BoxKept, GoneStep, SetupKept

LEMMA HoldKeeps == IInv /\ Hold => Good
BY Bounds, NoBoxFact DEF Hold, CellTransition, Refresh, Fault, cpVars, rowVars, host,
   locals, vars, IInv, TypeOK, BoxesReal, BoxesPlaced, RowTrue, Phases, Mounted, Replacing,
   Starting, Good, BoxKept, GoneStep, SetupKept

LEMMA BeginReplaceKeeps == IInv /\ BeginReplace => Good
<1> SUFFICES ASSUME IInv, BeginReplace PROVE Good
  OBVIOUS
<1> DEFINE v == [loc EXCEPT !.obs = "restarting"]
<1>1. v \in Rows /\ v.obs = "restarting" /\ v.img = loc.img
  BY DEF IInv, TypeOK, Rows, Observed
<1>2. pc = "branch" /\ UNCHANGED <<cpVars, man, setup, applied, host, ret, job, moves>>
  BY DEF BeginReplace
<1>3. CASE PutSandbox(v, "replace")
  <2> HIDE DEF v
  <2> QED
    BY <1>1, <1>2, <1>3, RowStep
<1>4. CASE Fault /\ loc' = v /\ row' = v /\ pc' = "replace"
  <2> HIDE DEF v
  <2> QED
    BY <1>1, <1>2, <1>4 DEF Fault, cpVars, rowVars, host, locals, vars, IInv, TypeOK,
       BoxesReal, BoxesPlaced, RowTrue, Phases, Mounted, Replacing, Starting, Good, BoxKept,
       GoneStep, SetupKept
<1> QED
  BY <1>3, <1>4 DEF BeginReplace

LEMMA BeginRestartKeeps == IInv /\ BeginRestart => Good
<1> SUFFICES ASSUME IInv, BeginRestart PROVE Good
  OBVIOUS
<1> DEFINE v == [loc EXCEPT !.obs = "restarting"]
<1>1. v \in Rows /\ v.obs = "restarting" /\ v.img = loc.img
  BY DEF IInv, TypeOK, Rows, Observed
<1> HIDE DEF v
<1> QED
  BY <1>1, RowStep DEF BeginRestart, v

LEMMA BeginStartKeeps == IInv /\ BeginStart => Good
BY Bounds, NoBoxFact DEF BeginStart, cpVars, rowVars, host, locals, vars, IInv, TypeOK,
   BoxesReal, BoxesPlaced, RowTrue, Phases, Mounted, Replacing, Starting, Good, BoxKept,
   GoneStep, SetupKept

LEMMA BeginCreateKeeps == IInv /\ BeginCreate => Good
<1> SUFFICES ASSUME IInv, BeginCreate PROVE Good
  OBVIOUS
<1> DEFINE v == [loc EXCEPT !.obs = "creating"]
<1>1. v \in Rows /\ v.obs = "creating" /\ v.img = loc.img
  BY DEF IInv, TypeOK, Rows, Observed
<1> HIDE DEF v
<1> QED
  BY <1>1, RowStep DEF BeginCreate, v

LEMMA EnsureKeeps == IInv /\ Ensure => Good
<1> SUFFICES ASSUME IInv, Ensure PROVE Good
  OBVIOUS
<1>1. NewBox(loc.img) \in Boxes /\ Real(NewBox(loc.img)) /\ NewBox(loc.img) # NoBox
  BY Made DEF IInv, TypeOK, BoxesReal, Rows, Ensure, Mounted, Starting
<1>2. /\ PodmanStep /\ faults' \in Nat /\ pc \in Replacing \cup Starting
      /\ pc' \in Replacing \cup Starting \cup {"fail"}
      /\ main' \in Boxes /\ backup' \in Boxes /\ Real(main') /\ Real(backup') /\ BoxesPlaced'
      /\ main # NoBox \/ backup # NoBox => main' # NoBox \/ backup' # NoBox
  BY <1>1, NoBoxFact DEF Ensure, IInv, TypeOK, BoxesReal, BoxesPlaced, Fault, Podman, OneOf,
     Replacing, Starting, Mounted
<1> QED
  BY <1>2, HostStep

LEMMA StartKeeps == IInv /\ Start => Good
<1> SUFFICES ASSUME IInv, Start PROVE Good
  OBVIOUS
<1> DEFINE m == [main EXCEPT !.up = TRUE]
<1>1. main # NoBox => m \in Boxes /\ Real(m) /\ (m = NoBox <=> main = NoBox)
  BY Switch DEF IInv, TypeOK, BoxesReal, BoxesPlaced
<1>a. /\ pc \in {"start_box", "restart"} /\ PodmanStep
      /\ \/ main = NoBox /\ pc' = "fail" /\ UNCHANGED <<main, backup, faults>>
         \/ main # NoBox /\ Podman(m, backup, "preflight", "fail")
  BY DEF Start
<1> HIDE DEF m
<1>2. /\ PodmanStep /\ faults' \in Nat /\ pc \in Replacing \cup Starting
      /\ pc' \in Replacing \cup Starting \cup {"fail"}
      /\ main' \in Boxes /\ backup' \in Boxes /\ Real(main') /\ Real(backup') /\ BoxesPlaced'
      /\ main # NoBox \/ backup # NoBox => main' # NoBox \/ backup' # NoBox
  BY <1>1, <1>a DEF IInv, TypeOK, BoxesReal, BoxesPlaced, Fault, Podman, OneOf, Replacing,
     Starting, Mounted
<1> QED
  BY <1>2, HostStep

LEMMA ReplaceKeeps == IInv /\ Replace => Good
<1> SUFFICES ASSUME IInv, Replace PROVE Good
  OBVIOUS
<1>1. /\ PodmanStep /\ UNCHANGED <<main, backup>> /\ pc = "replace" /\ faults' \in Nat
      /\ \/ pc' = "verify" /\ main # NoBox /\ backup # NoBox
         \/ pc' = "stop_old" /\ main # NoBox /\ backup = NoBox
         \/ pc' \in {"create", "fail"}
  BY DEF Replace, Fault, IInv, TypeOK
<1>2. /\ PodmanStep /\ faults' \in Nat /\ pc \in Replacing \cup Starting
      /\ pc' \in Replacing \cup Starting \cup {"fail"}
      /\ main' \in Boxes /\ backup' \in Boxes /\ Real(main') /\ Real(backup') /\ BoxesPlaced'
      /\ main # NoBox \/ backup # NoBox => main' # NoBox \/ backup' # NoBox
  BY NoBoxFact, <1>1 DEF IInv, TypeOK, BoxesReal, BoxesPlaced, Fault, Replacing, Starting,
     Mounted
<1> QED
  BY <1>2, HostStep

LEMMA VerifyKeeps == IInv /\ Verify => Good
<1> SUFFICES ASSUME IInv, Verify PROVE Good
  OBVIOUS
<1> DEFINE m == [main EXCEPT !.up = TRUE]
<1>1. main # NoBox => m \in Boxes /\ Real(m) /\ (m = NoBox <=> main = NoBox)
  BY Switch DEF IInv, TypeOK, BoxesReal, BoxesPlaced
<1>a. /\ pc = "verify" /\ PodmanStep
      /\ \E n \in {main, m}, next \in {"settle", "rb_remove", "fail"} : Podman(n, backup, next, "fail")
  BY DEF Verify
<1> HIDE DEF m
<1>2. /\ PodmanStep /\ faults' \in Nat /\ pc \in Replacing \cup Starting
      /\ pc' \in Replacing \cup Starting \cup {"fail"}
      /\ main' \in Boxes /\ backup' \in Boxes /\ Real(main') /\ Real(backup') /\ BoxesPlaced'
      /\ main # NoBox \/ backup # NoBox => main' # NoBox \/ backup' # NoBox
  BY <1>1, <1>a DEF IInv, TypeOK, BoxesReal, BoxesPlaced, Fault, Podman, OneOf, Replacing,
     Starting, Mounted
<1> QED
  BY <1>2, HostStep

LEMMA SettleKeeps == IInv /\ Settle => Good
<1> SUFFICES ASSUME IInv, Settle PROVE Good
  OBVIOUS
<1> DEFINE m == [main EXCEPT !.up = Runs]
<1>1. main # NoBox => m \in Boxes /\ Real(m) /\ (m = NoBox <=> main = NoBox)
  BY Switch DEF IInv, TypeOK, BoxesReal, Runs
<1> HIDE DEF m
<1>2. /\ PodmanStep /\ faults' \in Nat /\ pc \in Replacing \cup Starting
      /\ pc' \in Replacing \cup Starting \cup {"fail"}
      /\ main' \in Boxes /\ backup' \in Boxes /\ Real(main') /\ Real(backup') /\ BoxesPlaced'
      /\ main # NoBox \/ backup # NoBox => main' # NoBox \/ backup' # NoBox
  BY <1>1 DEF Settle, IInv, TypeOK, BoxesReal, BoxesPlaced, Fault, Podman, OneOf, m,
     Replacing, Starting, Mounted
<1> QED
  BY <1>2, HostStep

LEMMA StopOldKeeps == IInv /\ StopOld => Good
<1> SUFFICES ASSUME IInv, StopOld PROVE Good
  OBVIOUS
<1> DEFINE m == [main EXCEPT !.up = FALSE]
<1>1. main # NoBox => m \in Boxes /\ Real(m) /\ (m = NoBox <=> main = NoBox)
  BY Switch DEF IInv, TypeOK, BoxesReal, BoxesPlaced
<1>a. pc = "stop_old" /\ PodmanStep /\ Podman(m, backup, "rename", "fail")
  BY DEF StopOld
<1> HIDE DEF m
<1>2. /\ PodmanStep /\ faults' \in Nat /\ pc \in Replacing \cup Starting
      /\ pc' \in Replacing \cup Starting \cup {"fail"}
      /\ main' \in Boxes /\ backup' \in Boxes /\ Real(main') /\ Real(backup') /\ BoxesPlaced'
      /\ main # NoBox \/ backup # NoBox => main' # NoBox \/ backup' # NoBox
  BY <1>1, <1>a DEF IInv, TypeOK, BoxesReal, BoxesPlaced, Fault, Podman, OneOf, Replacing,
     Starting, Mounted
<1> QED
  BY <1>2, HostStep

LEMMA RenameKeeps == IInv /\ Rename => Good
<1> SUFFICES ASSUME IInv, Rename PROVE Good
  OBVIOUS
<1> DEFINE m == [main EXCEPT !.up = Runs]
<1>1. main # NoBox => m \in Boxes /\ Real(m) /\ (m = NoBox <=> main = NoBox)
  BY Switch DEF IInv, TypeOK, BoxesReal, Runs
<1> HIDE DEF m
<1>2. /\ PodmanStep /\ faults' \in Nat /\ pc \in Replacing \cup Starting
      /\ pc' \in Replacing \cup Starting \cup {"fail"}
      /\ main' \in Boxes /\ backup' \in Boxes /\ Real(main') /\ Real(backup') /\ BoxesPlaced'
      /\ main # NoBox \/ backup # NoBox => main' # NoBox \/ backup' # NoBox
  BY <1>1, NoBoxFact DEF Rename, IInv, TypeOK, BoxesReal, BoxesPlaced, Fault, Podman, OneOf,
     m, Replacing, Starting, Mounted
<1> QED
  BY <1>2, HostStep

LEMMA CreateKeeps == IInv /\ Create => Good
<1> SUFFICES ASSUME IInv, Create PROVE Good
  OBVIOUS
<1>1. NewBox(job.tgt) \in Boxes /\ Real(NewBox(job.tgt)) /\ NewBox(job.tgt) # NoBox
  BY Made DEF IInv, TypeOK, BoxesReal, Create, Mounted, Replacing
<1>2. /\ PodmanStep /\ faults' \in Nat /\ pc \in Replacing \cup Starting
      /\ pc' \in Replacing \cup Starting \cup {"fail"}
      /\ main' \in Boxes /\ backup' \in Boxes /\ Real(main') /\ Real(backup') /\ BoxesPlaced'
      /\ main # NoBox \/ backup # NoBox => main' # NoBox \/ backup' # NoBox
  BY <1>1 DEF Create, IInv, TypeOK, BoxesReal, BoxesPlaced, Fault, Podman, OneOf, OnError,
     Replacing, Starting, Mounted
<1> QED
  BY <1>2, HostStep

LEMMA StartNewKeeps == IInv /\ StartNew => Good
<1> SUFFICES ASSUME IInv, StartNew PROVE Good
  OBVIOUS
<1> DEFINE m == [main EXCEPT !.up = Runs]
<1>1. main # NoBox => m \in Boxes /\ Real(m) /\ (m = NoBox <=> main = NoBox)
  BY Switch DEF IInv, TypeOK, BoxesReal, Runs
<1> HIDE DEF m
<1>2. /\ PodmanStep /\ faults' \in Nat /\ pc \in Replacing \cup Starting
      /\ pc' \in Replacing \cup Starting \cup {"fail"}
      /\ main' \in Boxes /\ backup' \in Boxes /\ Real(main') /\ Real(backup') /\ BoxesPlaced'
      /\ main # NoBox \/ backup # NoBox => main' # NoBox \/ backup' # NoBox
  BY <1>1 DEF StartNew, IInv, TypeOK, BoxesReal, BoxesPlaced, Fault, Podman, OneOf, OnError,
     m, Replacing, Starting, Mounted
<1> QED
  BY <1>2, HostStep

LEMMA WitnessKeeps == IInv /\ Witness => Good
<1> SUFFICES ASSUME IInv, Witness PROVE Good
  OBVIOUS
<1>2. /\ PodmanStep /\ faults' \in Nat /\ pc \in Replacing \cup Starting
      /\ pc' \in Replacing \cup Starting \cup {"fail"}
      /\ main' \in Boxes /\ backup' \in Boxes /\ Real(main') /\ Real(backup') /\ BoxesPlaced'
      /\ main # NoBox \/ backup # NoBox => main' # NoBox \/ backup' # NoBox
  BY NoBoxFact DEF Witness, IInv, TypeOK, BoxesReal, BoxesPlaced, Fault, Podman, OneOf,
     Replacing, Starting, Mounted
<1> QED
  BY <1>2, HostStep

LEMMA DropKeeps == IInv /\ Drop => Good
<1> SUFFICES ASSUME IInv, Drop PROVE Good
  OBVIOUS
<1> DEFINE v == [loc EXCEPT !.img = job.tgt]
<1>1. v \in Rows /\ v.img = job.tgt
  BY DEF IInv, TypeOK, Rows
<1>2. pc = "drop" /\ UNCHANGED <<cpVars, man, rowVars, main, ws, ret, job, moves>>
  BY DEF Drop
<1>3. backup' \in {backup, NoBox} /\ loc' \in {loc, v} /\ faults' \in Nat
      /\ (pc' = "preflight" => loc' = v) /\ pc' \in {"preflight", "stopping", "fail"}
  BY DEF Drop, Fault, IInv, TypeOK
<1> HIDE DEF v
<1> QED
  BY <1>1, <1>2, <1>3, NoBoxFact DEF cpVars, rowVars, host, locals, vars, IInv, TypeOK,
     BoxesReal, BoxesPlaced, RowTrue, Phases, Mounted, Replacing, Starting, Good, BoxKept,
     GoneStep, SetupKept

LEMMA RollbackRemoveKeeps == IInv /\ RollbackRemove => Good
<1> SUFFICES ASSUME IInv, RollbackRemove PROVE Good
  OBVIOUS
<1>2. /\ PodmanStep /\ faults' \in Nat /\ pc \in Replacing \cup Starting
      /\ pc' \in Replacing \cup Starting \cup {"fail"}
      /\ main' \in Boxes /\ backup' \in Boxes /\ Real(main') /\ Real(backup') /\ BoxesPlaced'
      /\ main # NoBox \/ backup # NoBox => main' # NoBox \/ backup' # NoBox
  BY NoBoxFact DEF RollbackRemove, IInv, TypeOK, BoxesReal, BoxesPlaced, Fault, Podman,
     OneOf, Replacing, Starting, Mounted
<1> QED
  BY <1>2, HostStep

LEMMA RollbackRenameKeeps == IInv /\ RollbackRename => Good
<1> SUFFICES ASSUME IInv, RollbackRename PROVE Good
  OBVIOUS
<1>2. /\ PodmanStep /\ faults' \in Nat /\ pc \in Replacing \cup Starting
      /\ pc' \in Replacing \cup Starting \cup {"fail"}
      /\ main' \in Boxes /\ backup' \in Boxes /\ Real(main') /\ Real(backup') /\ BoxesPlaced'
      /\ main # NoBox \/ backup # NoBox => main' # NoBox \/ backup' # NoBox
  BY NoBoxFact DEF RollbackRename, IInv, TypeOK, BoxesReal, BoxesPlaced, Fault, Podman,
     OneOf, Replacing, Starting, Mounted
<1> QED
  BY <1>2, HostStep

LEMMA RollbackStateKeeps == IInv /\ RollbackState => Good
<1> SUFFICES ASSUME IInv, RollbackState PROVE Good
  OBVIOUS
<1> DEFINE m == [main EXCEPT !.up = Runs]
<1>1. main # NoBox => m \in Boxes /\ Real(m) /\ (m = NoBox <=> main = NoBox)
  BY Switch DEF IInv, TypeOK, BoxesReal, Runs
<1> HIDE DEF m
<1>2. /\ PodmanStep /\ faults' \in Nat /\ pc \in Replacing \cup Starting
      /\ pc' \in Replacing \cup Starting \cup {"fail"}
      /\ main' \in Boxes /\ backup' \in Boxes /\ Real(main') /\ Real(backup') /\ BoxesPlaced'
      /\ main # NoBox \/ backup # NoBox => main' # NoBox \/ backup' # NoBox
  BY <1>1 DEF RollbackState, IInv, TypeOK, BoxesReal, BoxesPlaced, Fault, Podman, OneOf, m,
     Replacing, Starting, Mounted
<1> QED
  BY <1>2, HostStep

LEMMA PreflightKeeps == IInv /\ Preflight => Good
<1> SUFFICES ASSUME IInv, Preflight PROVE Good
  OBVIOUS
<1> DEFINE m == [main EXCEPT !.up = FALSE]
<1>1. m \in Boxes /\ Real(m) /\ (m = NoBox <=> main = NoBox)
  BY Switch DEF IInv, TypeOK, BoxesReal, BoxesPlaced
<1>a. /\ pc = "preflight" /\ PodmanStep /\ pc' \in {"observe", "fail"}
      /\ main' \in {main, m} /\ backup' = backup /\ faults' \in Nat
  BY DEF Preflight, PodmanStep, Fault, IInv, TypeOK
<1> HIDE DEF m
<1>2. /\ PodmanStep /\ faults' \in Nat /\ pc \in Replacing \cup Starting
      /\ pc' \in Replacing \cup Starting \cup {"fail"}
      /\ main' \in Boxes /\ backup' \in Boxes /\ Real(main') /\ Real(backup') /\ BoxesPlaced'
      /\ main # NoBox \/ backup # NoBox => main' # NoBox \/ backup' # NoBox
  BY <1>1, <1>a DEF IInv, TypeOK, BoxesReal, BoxesPlaced, Fault, Replacing, Starting, Mounted
<1> QED
  BY <1>2, HostStep

LEMMA ObserveKeeps == IInv /\ Observe => Good
<1> SUFFICES ASSUME IInv, Observe PROVE Good
  OBVIOUS
<1> PICK ready \in BOOLEAN :
       PutSandbox([loc EXCEPT !.obs = "running", !.ogen = loc.gen, !.cell = man.cell,
                              !.ready = ready, !.timed = temp], "setup")
  BY DEF Observe
<1> DEFINE v == [loc EXCEPT !.obs = "running", !.ogen = loc.gen, !.cell = man.cell,
                            !.ready = ready, !.timed = temp]
<1>1. v \in Rows /\ v.obs = "running"
  BY DEF IInv, TypeOK, Rows, Observed, Manifests
<1>2. PutSandbox(v, "setup")
  OBVIOUS
<1> HIDE DEF v
<1> QED
  BY <1>1, <1>2, RowStep DEF Observe

LEMMA StoppingKeeps == IInv /\ Stopping => Good
<1> SUFFICES ASSUME IInv, Stopping PROVE Good
  OBVIOUS
<1> DEFINE v == [loc EXCEPT !.obs = "stopping"]
<1>1. v \in Rows /\ v.obs = "stopping"
  BY DEF IInv, TypeOK, Rows, Observed
<1>2. CASE loc.obs = "stopped"
  BY <1>2 DEF Stopping, cpVars, rowVars, host, locals, vars, IInv, TypeOK, BoxesReal,
     BoxesPlaced, RowTrue, Phases, Mounted, Replacing, Starting, Good, BoxKept, GoneStep,
     SetupKept
<1>3. CASE loc.obs # "stopped"
  <2>1. PutSandbox(v, "stop") /\ UNCHANGED <<cpVars, man, setup, applied, host, ret, job, moves>>
    BY <1>3 DEF Stopping
  <2> HIDE DEF v
  <2> QED
    BY <1>1, <2>1, RowStep
<1> QED
  BY <1>2, <1>3

LEMMA StopKeeps == IInv /\ Stop => Good
<1> SUFFICES ASSUME IInv, Stop PROVE Good
  OBVIOUS
<1> DEFINE m == [main EXCEPT !.up = FALSE]
<1>1. m \in Boxes /\ Real(m) /\ (m = NoBox <=> main = NoBox)
  BY Switch DEF IInv, TypeOK, BoxesReal, BoxesPlaced
<1> HIDE DEF m
<1>2. (main' = main \/ main' = m) /\ backup' = backup /\ faults' \in Nat /\ pc' \in {"stopped", "fail"}
  BY DEF Stop, Podman, OneOf, Fault, IInv, TypeOK, m
<1>3. PodmanStep /\ pc = "stop"
  BY DEF Stop
<1> QED
  BY <1>1, <1>2, <1>3 DEF PodmanStep, cpVars, rowVars, locals, IInv, TypeOK, BoxesReal,
     BoxesPlaced, RowTrue, Phases, Mounted, Replacing, Starting, Good, BoxKept, GoneStep,
     SetupKept

LEMMA StoppedKeeps == IInv /\ Stopped => Good
<1> SUFFICES ASSUME IInv, Stopped PROVE Good
  OBVIOUS
<1> DEFINE v == [loc EXCEPT !.obs = "stopped", !.ogen = loc.gen]
<1>1. v \in Rows /\ v.obs = "stopped" /\ v.img = loc.img
  BY DEF IInv, TypeOK, Rows, Observed
<1> HIDE DEF v
<1> QED
  BY <1>1, RowStep DEF Stopped, v

LEMMA FailSandboxKeeps == IInv /\ FailSandbox => Good
<1> SUFFICES ASSUME IInv, FailSandbox PROVE Good
  OBVIOUS
<1> DEFINE v == [loc EXCEPT !.obs = "failed"]
<1>1. v \in Rows /\ v.obs = "failed"
  BY DEF IInv, TypeOK, Rows, Observed
<1>2. pc = "fail" /\ pc' = "report" /\ row' \in {row, v} /\ faults' \in Nat
      /\ UNCHANGED <<cpVars, man, setup, applied, host, locals, moves>>
  BY DEF FailSandbox, Fault, IInv, TypeOK
<1> HIDE DEF v
<1> QED
  BY <1>1, <1>2 DEF cpVars, rowVars, host, locals, vars, IInv, TypeOK, BoxesReal,
     BoxesPlaced, RowTrue, Phases, Mounted, Replacing, Starting, Good, BoxKept, GoneStep,
     SetupKept

LEMMA DeletingKeeps == IInv /\ Deleting => Good
<1> SUFFICES ASSUME IInv, Deleting PROVE Good
  OBVIOUS
<1> DEFINE v == [loc EXCEPT !.obs = "deleting"]
<1>1. v \in Rows /\ v.obs = "deleting" /\ v.img = loc.img
  BY DEF IInv, TypeOK, Rows, Observed
<1> HIDE DEF v
<1> QED
  BY <1>1, RowStep DEF Deleting, v

LEMMA RemoveKeeps == IInv /\ Remove => Good
<1> SUFFICES ASSUME IInv, Remove PROVE Good
  OBVIOUS
<1>1. /\ main' \in {main, NoBox} /\ backup' = backup /\ faults' \in Nat
      /\ pc' \in {"destroy", "fail"} /\ (pc' = "destroy" => main' = NoBox)
  BY DEF Remove, Podman, OneOf, Fault, IInv, TypeOK
<1>2. PodmanStep /\ pc = "remove"
  BY DEF Remove
<1> QED
  BY <1>1, <1>2, NoBoxFact DEF PodmanStep, cpVars, rowVars, locals, IInv, TypeOK, BoxesReal,
     BoxesPlaced, RowTrue, Phases, Mounted, Replacing, Starting, Good, BoxKept, GoneStep,
     SetupKept

LEMMA DestroyKeeps == IInv /\ Destroy => Good
BY Bounds, NoBoxFact DEF Destroy, Fault, cpVars, rowVars, host, locals, vars, IInv, TypeOK,
   BoxesReal, BoxesPlaced, RowTrue, Phases, Mounted, Replacing, Starting, Good, BoxKept,
   GoneStep, SetupKept

LEMMA DeletedKeeps == IInv /\ Deleted => Good
<1> SUFFICES ASSUME IInv, Deleted PROVE Good
  OBVIOUS
<1> DEFINE v == [loc EXCEPT !.obs = "deleted", !.ogen = loc.gen]
<1>1. v \in Rows /\ v.obs = "deleted"
  BY DEF IInv, TypeOK, Rows, Observed
<1>2. ret \in {"fetch", "setup", "prune"}
  BY DEF IInv, TypeOK
<1> HIDE DEF v
<1> QED
  BY <1>1, <1>2, RowStep DEF Deleted, v

LEMMA MissingKeeps == IInv /\ Missing => Good
BY Bounds, NoBoxFact DEF Missing, Rows, Desired, cpVars, rowVars, host, locals, vars, IInv,
   TypeOK, BoxesReal, BoxesPlaced, RowTrue, Phases, Mounted, Replacing, Starting, Good,
   BoxKept, GoneStep, SetupKept

LEMMA PruneKeeps == IInv /\ Prune => Good
<1> SUFFICES ASSUME IInv, Prune PROVE Good
  OBVIOUS
<1>1. NoRow \in Rows /\ NoRow.obs = "none"
  BY DEF NoRow, Rows, Observed, Desired
<1>2. /\ pc = "prune" /\ pc' \in {"setup", "report"} /\ row' \in {row, NoRow}
      /\ expired' \in BOOLEAN /\ faults' \in Nat
      /\ UNCHANGED <<want, temp, man, setup, applied, host, locals, moves>>
  <2>1. pc = "prune" /\ UNCHANGED <<want, temp, man, setup, applied, host, locals, moves>>
    BY DEF Prune
  <2>2. CASE row' = NoRow /\ expired' = FALSE /\ pc' = "setup" /\ UNCHANGED faults
    BY <2>1, <2>2 DEF IInv, TypeOK
  <2>3. CASE Fault /\ pc' = "report" /\ UNCHANGED <<row, expired>>
    BY <2>1, <2>3 DEF Fault, IInv, TypeOK
  <2> QED
    BY <2>2, <2>3 DEF Prune
<1> QED
  BY <1>1, <1>2 DEF cpVars, rowVars, host, locals, vars, IInv, TypeOK, BoxesReal,
     BoxesPlaced, RowTrue, Phases, Mounted, Replacing, Starting, Good, BoxKept, GoneStep,
     SetupKept

LEMMA PersistSetupsKeeps == IInv /\ PersistSetups => Good
BY Bounds, NoBoxFact DEF PersistSetups, PutSetupOperation, Fault, SetupStates, NoSetup,
   Manifests, cpVars, rowVars, host, locals, vars, IInv, TypeOK, BoxesReal, BoxesPlaced,
   RowTrue, Phases, Mounted, Replacing, Starting, Good, BoxKept, GoneStep, SetupKept

LEMMA CancelSetupsKeeps == IInv /\ CancelSetups => Good
BY Bounds, NoBoxFact DEF CancelSetups, Transition, MayTransition, Fault, SetupStates,
   cpVars, rowVars, host, locals, vars, IInv, TypeOK, BoxesReal, BoxesPlaced, RowTrue,
   Phases, Mounted, Replacing, Starting, Good, BoxKept, GoneStep, SetupKept

LEMMA ScanSetupsKeeps == IInv /\ ScanSetups => Good
BY Bounds, NoBoxFact DEF ScanSetups, Transition, MayTransition, Open, Stuck, Fault,
   SetupStates, cpVars, rowVars, host, locals, vars, IInv, TypeOK, BoxesReal, BoxesPlaced,
   RowTrue, Phases, Mounted, Replacing, Starting, Good, BoxKept, GoneStep, SetupKept

LEMMA ExecuteSetupKeeps == IInv /\ ExecuteSetup => Good
BY Bounds, NoBoxFact DEF ExecuteSetup, Transition, MayTransition, Open, ExecSetup,
   ValidateSetupReceipt, Fault, SetupStates, cpVars, rowVars, host, locals, vars, IInv,
   TypeOK, BoxesReal, BoxesPlaced, RowTrue, Phases, Mounted, Replacing, Starting, Good,
   BoxKept, GoneStep, SetupKept

LEMMA SetRevisionKeeps == IInv /\ SetRevision => Good
BY Bounds, NoBoxFact DEF SetRevision, Fault, Manifests, cpVars, rowVars, host, locals, vars,
   IInv, TypeOK, BoxesReal, BoxesPlaced, RowTrue, Phases, Mounted, Replacing, Starting,
   Good, BoxKept, GoneStep, SetupKept

LEMMA EndPassKeeps == IInv /\ EndPass => Good
<1>1. NoRow \in Rows /\ NoRow.obs = "none"
  BY DEF NoRow, Rows, Observed, Desired
<1>2. NoJob \in [tgt : Nat, pre : BOOLEAN, new : BOOLEAN, adopted : BOOLEAN]
  BY DEF NoJob
<1> QED
  BY <1>1, <1>2 DEF EndPass, cpVars, rowVars, host, locals, vars, IInv, TypeOK, BoxesReal,
     BoxesPlaced, RowTrue, Phases, Mounted, Replacing, Starting, Good, BoxKept, GoneStep,
     SetupKept

LEMMA CrashKeeps == IInv /\ Crash => Good
<1>1. NoRow \in Rows /\ NoRow.obs = "none"
  BY DEF NoRow, Rows, Observed, Desired
<1>2. NoJob \in [tgt : Nat, pre : BOOLEAN, new : BOOLEAN, adopted : BOOLEAN]
  BY DEF NoJob
<1> QED
  BY <1>1, <1>2 DEF Crash, Fault, cpVars, rowVars, host, locals, vars, IInv, TypeOK,
     BoxesReal, BoxesPlaced, RowTrue, Phases, Mounted, Replacing, Starting, Good, BoxKept,
     GoneStep, SetupKept

LEMMA ControlPlaneKeeps == IInv /\ ControlPlane => Good
<1> SUFFICES ASSUME IInv, ControlPlane PROVE Good
  OBVIOUS
<1>1. want' \in Manifests /\ moves' \in Nat
  <2>1. want \in Manifests /\ Move
    BY DEF ControlPlane, IInv, TypeOK
  <2>2. moves' \in Nat
    BY <2>1 DEF Move, IInv, TypeOK
  <2>3. NextManifest \in Manifests
    BY <2>1 DEF NextManifest, Manifests
  <2>4. ASSUME NEW st \in Desired \cup {"omitted"}, NEW ops \in SUBSET Setups
        PROVE  [NextManifest EXCEPT !.st = st, !.setups = ops] \in Manifests
    BY <2>3 DEF Manifests
  <2>5. ASSUME NEW g \in Nat
        PROVE  [NextManifest EXCEPT !.gen = g, !.setups = {}] \in Manifests
    BY <2>3 DEF Manifests
  <2>6. ASSUME NEW i \in Images
        PROVE  [NextManifest EXCEPT !.img = i] \in Manifests
    BY <2>3, Bounds DEF Manifests
  <2>7. ASSUME NEW c \in BOOLEAN
        PROVE  [NextManifest EXCEPT !.cell = c] \in Manifests
    BY <2>3 DEF Manifests
  <2>8. ASSUME NEW ops \in SUBSET Setups
        PROVE  [NextManifest EXCEPT !.setups = ops] \in Manifests
    BY <2>3 DEF Manifests
  <2>9. want.setups \in SUBSET Setups /\ want.gen + 1 \in Nat
    BY <2>1 DEF Manifests
  <2>10. (~want.cell) \in BOOLEAN
    OBVIOUS
  <2>11. ASSUME NEW st \in Desired \cup {"omitted"},
                want' = [NextManifest EXCEPT !.st = st,
                                             !.setups = IF st = "omitted" THEN {} ELSE want.setups]
         PROVE  want' \in Manifests
    <3>1. (IF st = "omitted" THEN {} ELSE want.setups) \in SUBSET Setups
      BY <2>9
    <3> QED
      BY <2>4, <2>11, <3>1
  <2>12. ASSUME NEW o \in Setups, want' = [NextManifest EXCEPT !.setups = want.setups \cup {o}]
         PROVE  want' \in Manifests
    <3>1. want.setups \cup {o} \in SUBSET Setups
      BY <2>9
    <3> QED
      BY <2>8, <2>12, <3>1
  <2> QED
    BY <2>2, <2>5, <2>6, <2>7, <2>9, <2>10, <2>11, <2>12, Zenon DEF ControlPlane
<1>2. UNCHANGED <<temp, expired, man, rowVars, host, pc, locals, faults>>
  BY DEF ControlPlane
<1> QED
  BY <1>1, <1>2 DEF rowVars, host, locals, IInv, TypeOK, BoxesReal, BoxesPlaced, RowTrue,
     Phases, Mounted, Replacing, Starting, Good, BoxKept, GoneStep, SetupKept

LEMMA TimePassesKeeps == IInv /\ TimePasses => Good
BY Bounds, NoBoxFact DEF TimePasses, cpVars, rowVars, host, locals, vars, IInv, TypeOK,
   BoxesReal, BoxesPlaced, RowTrue, Phases, Mounted, Replacing, Starting, Good, BoxKept,
   GoneStep, SetupKept

LEMMA ContainerDiesKeeps == IInv /\ ContainerDies => Good
<1> SUFFICES ASSUME IInv, ContainerDies PROVE Good
  OBVIOUS
<1> DEFINE m == [main EXCEPT !.up = FALSE]
<1>1. m \in Boxes /\ Real(m) /\ (m = NoBox <=> main = NoBox)
  BY Switch DEF IInv, TypeOK, BoxesReal, BoxesPlaced
<1> HIDE DEF m
<1>2. main.up /\ main' = m /\ faults' \in Nat /\ UNCHANGED <<cpVars, man, rowVars, backup, ws, pc, locals, moves>>
  BY DEF ContainerDies, Fault, IInv, TypeOK, m
<1> QED
  BY <1>1, <1>2, NoBoxFact DEF cpVars, rowVars, locals, IInv, TypeOK, BoxesReal,
     BoxesPlaced, RowTrue, Phases, Mounted, Replacing, Starting, Good, BoxKept, GoneStep,
     SetupKept

-----------------------------------------------------------------------------

\* Every step of the daemon, the control plane, the clock and the host keeps
\* the invariant, the containers, the workspace and the settled operations.
THEOREM StepKeeps == IInv /\ [Next]_vars => Good
<1> SUFFICES ASSUME IInv, [Next]_vars PROVE Good
  OBVIOUS
<1>1. CASE Expire
  BY <1>1, ExpireKeeps
<1>2. CASE Fetch
  BY <1>2, FetchKeeps
<1>3. CASE ReconcileSandbox
  BY <1>3, ReconcileSandboxKeeps
<1>4. CASE EnsureWorkspace
  BY <1>4, EnsureWorkspaceKeeps
<1>5. CASE MakeFileSystem
  BY <1>5, MakeFileSystemKeeps
<1>6. CASE Adopt
  BY <1>6, AdoptKeeps
<1>7. CASE Hold
  BY <1>7, HoldKeeps
<1>8. CASE BeginReplace
  BY <1>8, BeginReplaceKeeps
<1>9. CASE BeginRestart
  BY <1>9, BeginRestartKeeps
<1>10. CASE BeginStart
  BY <1>10, BeginStartKeeps
<1>11. CASE BeginCreate
  BY <1>11, BeginCreateKeeps
<1>12. CASE Ensure
  BY <1>12, EnsureKeeps
<1>13. CASE Start
  BY <1>13, StartKeeps
<1>14. CASE Replace
  BY <1>14, ReplaceKeeps
<1>15. CASE Verify
  BY <1>15, VerifyKeeps
<1>16. CASE Settle
  BY <1>16, SettleKeeps
<1>17. CASE StopOld
  BY <1>17, StopOldKeeps
<1>18. CASE Rename
  BY <1>18, RenameKeeps
<1>19. CASE Create
  BY <1>19, CreateKeeps
<1>20. CASE StartNew
  BY <1>20, StartNewKeeps
<1>21. CASE Witness
  BY <1>21, WitnessKeeps
<1>22. CASE Drop
  BY <1>22, DropKeeps
<1>23. CASE RollbackRemove
  BY <1>23, RollbackRemoveKeeps
<1>24. CASE RollbackRename
  BY <1>24, RollbackRenameKeeps
<1>25. CASE RollbackState
  BY <1>25, RollbackStateKeeps
<1>26. CASE Preflight
  BY <1>26, PreflightKeeps
<1>27. CASE Observe
  BY <1>27, ObserveKeeps
<1>28. CASE Stopping
  BY <1>28, StoppingKeeps
<1>29. CASE Stop
  BY <1>29, StopKeeps
<1>30. CASE Stopped
  BY <1>30, StoppedKeeps
<1>31. CASE FailSandbox
  BY <1>31, FailSandboxKeeps
<1>32. CASE Deleting
  BY <1>32, DeletingKeeps
<1>33. CASE Remove
  BY <1>33, RemoveKeeps
<1>34. CASE Destroy
  BY <1>34, DestroyKeeps
<1>35. CASE Deleted
  BY <1>35, DeletedKeeps
<1>36. CASE Missing
  BY <1>36, MissingKeeps
<1>37. CASE Prune
  BY <1>37, PruneKeeps
<1>38. CASE PersistSetups
  BY <1>38, PersistSetupsKeeps
<1>39. CASE CancelSetups
  BY <1>39, CancelSetupsKeeps
<1>40. CASE ScanSetups
  BY <1>40, ScanSetupsKeeps
<1>41. CASE ExecuteSetup
  BY <1>41, ExecuteSetupKeeps
<1>42. CASE SetRevision
  BY <1>42, SetRevisionKeeps
<1>43. CASE EndPass
  BY <1>43, EndPassKeeps
<1>44. CASE ControlPlane
  BY <1>44, ControlPlaneKeeps
<1>45. CASE TimePasses
  BY <1>45, TimePassesKeeps
<1>46. CASE ContainerDies
  BY <1>46, ContainerDiesKeeps
<1>47. CASE Crash
  BY <1>47, CrashKeeps
<1>48. CASE UNCHANGED vars
  BY <1>48 DEF cpVars, rowVars, host, locals, vars, IInv, TypeOK, BoxesReal, BoxesPlaced,
     RowTrue, Phases, Mounted, Replacing, Starting, Good, BoxKept, GoneStep, SetupKept
<1> QED
  BY <1>1, <1>2, <1>3, <1>4, <1>5, <1>6, <1>7, <1>8, <1>9, <1>10, <1>11, <1>12, <1>13,
     <1>14, <1>15, <1>16, <1>17, <1>18, <1>19, <1>20, <1>21, <1>22, <1>23, <1>24, <1>25,
     <1>26, <1>27, <1>28, <1>29, <1>30, <1>31, <1>32, <1>33, <1>34, <1>35, <1>36, <1>37,
     <1>38, <1>39, <1>40, <1>41, <1>42, <1>43, <1>44, <1>45, <1>46, <1>47, <1>48 DEF Next,
     Daemon

THEOREM Inductive == Spec => []IInv
<1>1. IInv /\ [Next]_vars => IInv'
  BY StepKeeps DEF Good
<1> QED
  BY InitHolds, <1>1, PTL DEF Spec

\* The variables keep their types.
THEOREM TypeCorrect == Spec => []TypeOK
<1>1. IInv => TypeOK
  BY DEF IInv
<1> QED
  BY Inductive, <1>1, PTL

\* Only removeSandbox leaves a sandbox without a container that had one.
THEOREM BoxStays == Spec => BoxNeverLost
<1>1. IInv /\ [Next]_vars =>
        [main # NoBox \/ backup # NoBox => main' # NoBox \/ backup' # NoBox \/ pc = "remove"]_vars
  BY StepKeeps DEF Good, BoxKept
<1> QED
  BY Inductive, <1>1, PTL DEF Spec, BoxNeverLost

\* The row, the container and the workspace agree about a deletion.
THEOREM GoneWhenDeleted == Spec => DeletedIsGone
<1>1. IInv /\ [Next]_vars =>
        [/\ row'.obs = "deleted" => main' = NoBox
         /\ main' # NoBox => ws' # "none"
         /\ row'.obs = "deleted" /\ row.obs # "deleted" => ws' = "none"
         /\ ws = "none" /\ ws' # "none" => row.des # "deleted"]_vars
  BY StepKeeps DEF Good, GoneStep
<1> QED
  BY Inductive, <1>1, PTL DEF Spec, DeletedIsGone

\* A setup operation that ended is never run, reset or ended again.
THEOREM SetupStaysEnded == Spec => SetupEndsOnce
<1>1. IInv /\ [Next]_vars =>
        [\A o \in Setups : setup[o].st \in {"ready", "failed", "cancelled"} => setup'[o] = setup[o]]_vars
  BY StepKeeps DEF Good, SetupKept
<1> QED
  BY Inductive, <1>1, PTL DEF Spec, SetupEndsOnce

-----------------------------------------------------------------------------
(***************************************************************************)
(* The access gateway.                                                     *)
(***************************************************************************)
\* A session is cut only while it is in the table, and the sessions of the
\* grant in hand that were cut are those whose end is still awaited.
CutInv ==
    /\ \A c \in Conns : conn[c].cut => Tracked(c)
    /\ at \in {"wait", "wait_omitted"} =>
         /\ cur \in Grants
         /\ \A c \in Conns : Tracked(c) /\ conn[c].g = cur /\ conn[c].cut => c \in wait

AccessInv == AccessTypeOK /\ CutInv

(* The connections of the gateway, and what one step makes of one of them. *)
Connections ==
    [st : {"idle", "grant", "box", "handoff", "prepare", "checked", "open", "running", "ending"},
     g : Grants \cup {None}, ask : Asks \cup {None}, may : Rights \cup {None}, cut : BOOLEAN]
ConnTypeOK == conn \in [Conns -> Connections]

LEMMA OneConnection ==
  ASSUME ConnTypeOK, NEW c \in Conns
  PROVE  /\ \A st \in {"idle", "grant", "box", "handoff", "prepare", "checked", "open",
                       "running", "ending"} : Goto(c, st) =>
              /\ ConnTypeOK' /\ conn'[c].cut = conn[c].cut /\ conn'[c].g = conn[c].g /\ conn'[c].st = st
              /\ \A d \in Conns : d # c => conn'[d] = conn[d]
         /\ \A m \in Rights : Set(c, [conn[c] EXCEPT !.st = "checked", !.may = m]) =>
              /\ ConnTypeOK' /\ conn'[c].cut = conn[c].cut /\ conn'[c].st = "checked"
              /\ \A d \in Conns : d # c => conn'[d] = conn[d]
         /\ Refuse(c) =>
              /\ ConnTypeOK' /\ ~conn'[c].cut
              /\ \A d \in Conns : d # c => conn'[d] = conn[d]
         /\ \A g \in Grants, ask \in Asks :
              Set(c, [Idle EXCEPT !.st = "grant", !.g = g, !.ask = ask]) =>
                /\ ConnTypeOK' /\ ~conn'[c].cut
                /\ \A d \in Conns : d # c => conn'[d] = conn[d]
<1>1. conn[c] \in Connections
  BY DEF ConnTypeOK
<1>2. ASSUME NEW x \in Connections, Set(c, x)
      PROVE  ConnTypeOK' /\ conn'[c] = x /\ \A d \in Conns : d # c => conn'[d] = conn[d]
  BY <1>2 DEF ConnTypeOK, Set
<1>3. ASSUME NEW st \in {"idle", "grant", "box", "handoff", "prepare", "checked", "open",
                         "running", "ending"}
      PROVE  LET x == [conn[c] EXCEPT !.st = st] IN
             x \in Connections /\ x.cut = conn[c].cut /\ x.g = conn[c].g /\ x.st = st
  BY <1>1 DEF Connections
<1>4. ASSUME NEW m \in Rights
      PROVE  LET x == [conn[c] EXCEPT !.st = "checked", !.may = m] IN
             x \in Connections /\ x.cut = conn[c].cut /\ x.st = "checked"
  BY <1>1 DEF Connections
<1>5. Idle \in Connections /\ ~Idle.cut
  BY DEF Idle, Connections
<1>6. ASSUME NEW g \in Grants, NEW ask \in Asks
      PROVE  LET x == [Idle EXCEPT !.st = "grant", !.g = g, !.ask = ask] IN
             x \in Connections /\ ~x.cut
  BY DEF Idle, Connections
<1>7. ASSUME NEW st \in {"idle", "grant", "box", "handoff", "prepare", "checked", "open",
                         "running", "ending"}, Goto(c, st)
      PROVE  /\ ConnTypeOK' /\ conn'[c].cut = conn[c].cut /\ conn'[c].g = conn[c].g /\ conn'[c].st = st
             /\ \A d \in Conns : d # c => conn'[d] = conn[d]
  <2> DEFINE x == [conn[c] EXCEPT !.st = st]
  <2>1. x \in Connections /\ x.cut = conn[c].cut /\ x.g = conn[c].g /\ x.st = st
    BY <1>3
  <2>2. Set(c, x)
    BY <1>7 DEF Goto
  <2> HIDE DEF x
  <2> QED BY <1>2, <2>1, <2>2
<1>8. ASSUME NEW m \in Rights, Set(c, [conn[c] EXCEPT !.st = "checked", !.may = m])
      PROVE  /\ ConnTypeOK' /\ conn'[c].cut = conn[c].cut /\ conn'[c].st = "checked"
             /\ \A d \in Conns : d # c => conn'[d] = conn[d]
  BY <1>2, <1>4, <1>8
<1>9. ASSUME Refuse(c)
      PROVE  ConnTypeOK' /\ ~conn'[c].cut /\ \A d \in Conns : d # c => conn'[d] = conn[d]
  BY <1>2, <1>5, <1>9 DEF Refuse
<1>10. ASSUME NEW g \in Grants, NEW ask \in Asks,
              Set(c, [Idle EXCEPT !.st = "grant", !.g = g, !.ask = ask])
       PROVE  ConnTypeOK' /\ ~conn'[c].cut /\ \A d \in Conns : d # c => conn'[d] = conn[d]
  BY <1>2, <1>6, <1>10
<1> QED BY <1>7, <1>8, <1>9, <1>10

(* The steps of a goroutine and of its client leave the sessions of the    *)
(* table uncut, and take only a finished one out of those awaited.         *)
LEMMA ConnectionKeeps ==
  ASSUME AccessInv, NEW c \in Conns, Accept(c) \/ Serve(c) \/ ExecEnds(c)
  PROVE  AccessInv' /\ grant' = grant
<1>1. ConnTypeOK /\ keys \subseteq Grants
  BY DEF AccessInv, AccessTypeOK, ConnTypeOK, Connections
<1>2. /\ ConnTypeOK'
      /\ \A d \in Conns : d # c => conn'[d] = conn[d]
      /\ UNCHANGED <<wanted, parts, manifest, at, todo, cur, rows, accessFaults, accessMoves>>
      /\ bound' \in BOOLEAN
      /\ \/ wait' = wait /\ conn'[c].cut = conn[c].cut /\ (Tracked(c) => Tracked(c)' /\ conn'[c].g = conn[c].g)
         \/ wait' \in {wait, wait \ {c}} /\ ~conn'[c].cut
  <2>1. CASE Accept(c)
    BY <1>1, <2>1, OneConnection DEF Accept, ConnStep, envVars, passVars, rows, AccessInv, AccessTypeOK
  <2>2. CASE ReadGrant(c)
    BY <1>1, <2>2, OneConnection DEF ReadGrant, ConnStep, envVars, passVars, rows, AccessInv, AccessTypeOK,
       Tracked
  <2>3. CASE ReadBox(c)
    BY <1>1, <2>3, OneConnection DEF ReadBox, ConnStep, envVars, passVars, rows, AccessInv, AccessTypeOK,
       Tracked, Rights
  <2>4. CASE SessionHandoff(c)
    BY <1>1, <2>4, OneConnection DEF SessionHandoff, ConnStep, envVars, passVars, rows, AccessInv,
       AccessTypeOK, Tracked, Rights
  <2>5. CASE ChatHandoff(c)
    BY <1>1, <2>5, OneConnection DEF ChatHandoff, ConnStep, envVars, passVars, rows, AccessInv,
       AccessTypeOK, Tracked
  <2>6. CASE PrepareChat(c)
    BY <1>1, <2>6, OneConnection DEF PrepareChat, passVars, rows, AccessInv, AccessTypeOK, Tracked, Rights
  <2>7. CASE AddSession(c)
    BY <1>1, <2>7, OneConnection DEF AddSession, ConnStep, envVars, passVars, rows, AccessInv,
       AccessTypeOK, Tracked
  <2>8. CASE Exec(c)
    BY <1>1, <2>8, OneConnection DEF Exec, ConnStep, envVars, passVars, rows, AccessInv, AccessTypeOK,
       Tracked
  <2>9. CASE ExecEnds(c)
    BY <1>1, <2>9, OneConnection DEF ExecEnds, ConnStep, envVars, passVars, rows, AccessInv,
       AccessTypeOK, Tracked
  <2>10. CASE FinishSession(c)
    BY <1>1, <2>10, OneConnection DEF FinishSession, envVars, rows, AccessInv, AccessTypeOK
  <2> QED BY <2>1, <2>2, <2>3, <2>4, <2>5, <2>6, <2>7, <2>8, <2>9, <2>10 DEF Serve
<1>3. AccessTypeOK'
  BY <1>2 DEF AccessInv, AccessTypeOK, ConnTypeOK, Connections, rows
<1>4. CutInv'
  <2>1. \A d \in Conns : d # c => (Tracked(d)' <=> Tracked(d))
    BY <1>2 DEF Tracked
  <2> QED BY <1>2, <2>1 DEF AccessInv, CutInv
<1> QED BY <1>2, <1>3, <1>4 DEF AccessInv, rows

(* Cutting the sessions of some grants, and what is awaited then.          *)
LEMMA TerminateCuts ==
  ASSUME AccessInv, NEW gs, NEW next, Terminate(gs, next)
  PROVE  /\ ConnTypeOK' /\ wait' \subseteq Conns
         /\ \A c \in Conns : /\ Tracked(c)' <=> Tracked(c)
                             /\ conn'[c].g = conn[c].g
                             /\ conn'[c].cut => Tracked(c)
                             /\ Tracked(c) /\ conn[c].g \in gs => c \in wait'
<1>1. ConnTypeOK /\ \A c \in Conns : conn[c].cut => Tracked(c)
  BY DEF AccessInv, AccessTypeOK, ConnTypeOK, Connections, CutInv
<1>2. /\ conn' = [c \in Conns |-> IF c \in TrackedOf(gs) THEN [conn[c] EXCEPT !.cut = TRUE] ELSE conn[c]]
      /\ wait' = TrackedOf(gs)
  BY DEF Terminate, Cut
<1>3. \A c \in Conns : /\ conn'[c] = IF c \in TrackedOf(gs) THEN [conn[c] EXCEPT !.cut = TRUE] ELSE conn[c]
                       /\ conn'[c].st = conn[c].st /\ conn'[c].g = conn[c].g
  BY <1>1, <1>2 DEF ConnTypeOK, Connections
<1>4. ConnTypeOK'
  <2>1. \A x \in Connections : [x EXCEPT !.cut = TRUE] \in Connections
    BY DEF Connections
  <2> QED BY <1>1, <1>2, <2>1 DEF ConnTypeOK
<1> QED BY <1>1, <1>2, <1>3, <1>4 DEF TrackedOf, Tracked

(* The steps of the pass, one by one.                                      *)
LEMMA PassKeeps ==
  ASSUME AccessInv, Pass
  PROVE  AccessInv'
<1> USE DEF envVars, rows
<1>1. ASSUME UNCHANGED conn, wait' \subseteq wait, at' \notin {"wait", "wait_omitted"}
      PROVE  CutInv'
  BY <1>1 DEF AccessInv, CutInv, Tracked
<1>2. CASE StartPass
  <2>1. AccessTypeOK'
    BY <1>2 DEF StartPass, AccessInv, AccessTypeOK
  <2> QED BY <1>1, <1>2, <2>1 DEF StartPass, AccessInv
<1>3. CASE ReconcileBox
  <2>1. box \in [des : {"running", "stopped"}, obs : {"running", "stopping", "stopped"}]
    BY DEF AccessInv, AccessTypeOK
  <2>2. /\ box' \in [des : {"running", "stopped"}, obs : {"running", "stopping", "stopped"}]
        /\ up' \in BOOLEAN /\ todo' \subseteq Grants /\ at' \in {"listed", "term_box"}
    <3>1. up \in BOOLEAN /\ todo \subseteq Grants
      BY DEF AccessInv, AccessTypeOK
    <3>2. CASE manifest.box = "running"
      BY <1>3, <3>1, <3>2 DEF ReconcileBox
    <3>3. CASE manifest.box # "running"
      BY <1>3, <2>1, <3>1, <3>3 DEF ReconcileBox
    <3> QED BY <3>2, <3>3
  <2>3. UNCHANGED <<envVars, manifest, grant, keys, conn, cur, wait, accessFaults, accessMoves>>
    BY <1>3 DEF ReconcileBox
  <2>4. AccessTypeOK'
    BY <2>2, <2>3 DEF AccessInv, AccessTypeOK
  <2> QED BY <1>1, <2>2, <2>3, <2>4 DEF AccessInv
<1>4. CASE TerminateSandbox
  <2>1. /\ ConnTypeOK' /\ wait' \subseteq Conns /\ at' = "stop"
        /\ \A c \in Conns : conn'[c].cut => Tracked(c)'
    BY <1>4, TerminateCuts DEF TerminateSandbox, Terminate
  <2>2. AccessTypeOK'
    BY <1>4, <2>1 DEF TerminateSandbox, AccessInv, AccessTypeOK, ConnTypeOK, Connections
  <2> QED BY <2>1, <2>2 DEF AccessInv, CutInv
<1>5. CASE StopBox
  <2>1. ConnTypeOK /\ box \in [des : {"running", "stopped"}, obs : {"running", "stopping", "stopped"}]
    BY DEF AccessInv, AccessTypeOK, ConnTypeOK, Connections
  <2>2. \A x \in Connections : LET y == [x EXCEPT !.st = "ending"] IN
          y \in Connections /\ y.st = "ending" /\ y.cut = x.cut
    BY DEF Connections
  <2>3. conn' = [c \in Conns |-> IF conn[c].st = "running" THEN [conn[c] EXCEPT !.st = "ending"] ELSE conn[c]]
    BY <1>5 DEF StopBox
  <2>4. /\ ConnTypeOK'
        /\ \A c \in Conns : conn'[c].cut = conn[c].cut /\ (Tracked(c)' <=> Tracked(c))
    BY <2>1, <2>2, <2>3 DEF ConnTypeOK, Tracked
  <2>5. box' \in [des : {"running", "stopped"}, obs : {"running", "stopping", "stopped"}]
    BY <1>5, <2>1 DEF StopBox
  <2>6. accessFaults' \in Nat
    BY <1>5 DEF StopBox, AccessFault, AccessInv, AccessTypeOK
  <2>7. /\ UNCHANGED <<envVars, manifest, grant, keys, cur, accessMoves>>
        /\ up' = FALSE /\ wait' = {} /\ at' = "listed" /\ todo' \subseteq Grants
    BY <1>5 DEF StopBox
  <2>8. AccessTypeOK'
    BY <2>4, <2>5, <2>6, <2>7 DEF AccessInv, AccessTypeOK, ConnTypeOK, Connections
  <2> QED BY <2>4, <2>7, <2>8 DEF AccessInv, CutInv
<1>6. ASSUME NEW g \in Grants, ApplyGrant(g)
      PROVE  AccessInv'
  <2>1. AccessTypeOK'
    BY <1>6 DEF ApplyGrant, Put, NoGrant, Abort, AccessFault, AccessInv, AccessTypeOK
  <2>2. UNCHANGED conn /\ wait' \subseteq wait /\ at' \notin {"wait", "wait_omitted"}
    BY <1>6 DEF ApplyGrant, Abort
  <2> QED BY <1>1, <2>1, <2>2 DEF AccessInv
<1>7. ASSUME NEW g \in Grants, NEW next \in {"wait", "wait_omitted"}, Terminate({g}, next), cur' = g,
             UNCHANGED <<envVars, rows, manifest, todo, accessFaults, accessMoves>>
      PROVE  AccessInv'
  <2>1. /\ ConnTypeOK' /\ wait' \subseteq Conns /\ at' = next
        /\ \A c \in Conns : /\ conn'[c].cut => Tracked(c)'
                            /\ Tracked(c)' /\ conn'[c].g = g => c \in wait'
    <3>1. at' = next
      BY <1>7 DEF Terminate
    <3> HIDE DEF envVars, rows
    <3> QED BY <1>7, <3>1, TerminateCuts
  <2>2. AccessTypeOK'
    BY <1>7, <2>1 DEF AccessInv, AccessTypeOK, ConnTypeOK, Connections
  <2> QED BY <1>7, <2>1, <2>2 DEF AccessInv, CutInv
<1>8. ASSUME NEW g \in Grants, RevokeGrant(g) \/ OmitGrant(g)
      PROVE  AccessInv'
  BY <1>7, <1>8 DEF RevokeGrant, OmitGrant
<1>9. CASE ListedDone
  <2>1. AccessTypeOK'
    BY <1>9 DEF ListedDone, AccessInv, AccessTypeOK
  <2> QED BY <1>1, <1>9, <2>1 DEF ListedDone, AccessInv
<1>10. CASE Revoked
  <2>1. AccessTypeOK'
    BY <1>10 DEF Revoked, Put, Abort, AccessFault, AccessInv, AccessTypeOK, CutInv
  <2>2. UNCHANGED conn /\ wait' \subseteq wait /\ at' \notin {"wait", "wait_omitted"}
    BY <1>10 DEF Revoked, Abort
  <2> QED BY <1>1, <2>1, <2>2 DEF AccessInv
<1>11. CASE OmittedDone
  <2>1. AccessTypeOK'
    BY <1>11 DEF OmittedDone, AccessInv, AccessTypeOK
  <2> QED BY <1>1, <1>11, <2>1 DEF OmittedDone, AccessInv
<1>12. CASE WriteKeys
  <2>1. AccessTypeOK'
    BY <1>12 DEF WriteKeys, Active, AccessFault, AccessInv, AccessTypeOK
  <2>2. UNCHANGED <<conn, wait>> /\ at' \notin {"wait", "wait_omitted"}
    BY <1>12 DEF WriteKeys
  <2> QED BY <1>1, <2>1, <2>2 DEF AccessInv
<1>13. CASE MarkFailed
  <2>1. AccessTypeOK'
    BY <1>13 DEF MarkFailed, AccessFault, AccessInv, AccessTypeOK
  <2> QED BY <1>1, <1>13, <2>1 DEF MarkFailed, AccessInv
<1>14. ASSUME NEW g \in Grants, MarkGrant(g)
       PROVE  AccessInv'
  <2>1. AccessTypeOK'
    BY <1>14 DEF MarkGrant, Put, NoGrant, Abort, AccessFault, AccessInv, AccessTypeOK
  <2>2. UNCHANGED conn /\ wait' \subseteq wait /\ at' \notin {"wait", "wait_omitted"}
    BY <1>14 DEF MarkGrant, Abort
  <2> QED BY <1>1, <2>1, <2>2 DEF AccessInv
<1>15. CASE EndGrantPass
  <2>1. AccessTypeOK'
    BY <1>15 DEF EndGrantPass, AccessInv, AccessTypeOK
  <2> QED BY <1>1, <1>15, <2>1 DEF EndGrantPass, AccessInv
<1> QED BY <1>2, <1>3, <1>4, <1>5, <1>6, <1>8, <1>9, <1>10, <1>11, <1>12, <1>13, <1>14, <1>15 DEF Pass

(* Every step of the gateway, of the pass and of the world.                *)
LEMMA AccessStepKeeps ==
  ASSUME AccessInv, [AccessNext]_accessVars
  PROVE  AccessInv'
<1>1. CASE Pass
  BY <1>1, PassKeeps
<1>2. CASE AccessControlPlane
  <2>1. wanted' \in [g : [Grants -> {"active", "revoked", "omitted"}], box : {"running", "stopped"}]
    <3>1. wanted \in [g : [Grants -> {"active", "revoked", "omitted"}], box : {"running", "stopped"}]
      BY DEF AccessInv, AccessTypeOK
    <3>2. ASSUME NEW g \in Grants, NEW st \in {"active", "revoked", "omitted"},
                 wanted' = [wanted EXCEPT !.g[g] = st]
          PROVE  wanted' = [wanted EXCEPT !.g = [wanted.g EXCEPT ![g] = st]]
      BY <3>1, <3>2
    <3>3. \A g \in Grants, st \in {"active", "revoked", "omitted"} :
            [wanted.g EXCEPT ![g] = st] \in [Grants -> {"active", "revoked", "omitted"}]
      BY <3>1
    <3> QED BY <1>2, <3>1, <3>2, <3>3 DEF AccessControlPlane
  <2>2. accessMoves' \in Nat
    BY <1>2 DEF AccessControlPlane, AccessMove, AccessInv, AccessTypeOK
  <2> QED BY <1>2, <2>1, <2>2 DEF AccessControlPlane, passVars, rows, AccessInv, AccessTypeOK, CutInv, Tracked
<1>3. CASE RowsMove
  <2>1. parts' \subseteq Parts /\ bound' \in BOOLEAN /\ accessMoves' \in Nat
    BY <1>3 DEF RowsMove, AccessMove, AccessInv, AccessTypeOK
  <2> QED BY <1>3, <2>1 DEF RowsMove, passVars, rows, AccessInv, AccessTypeOK, CutInv, Tracked
<1>4. CASE GatewayCrash
  <2>1. AccessTypeOK'
    BY <1>4 DEF GatewayCrash, Abort, AccessFault, envVars, rows, Idle, AccessInv, AccessTypeOK
  <2>2. CutInv'
    BY <1>4 DEF GatewayCrash, Abort, Idle, CutInv
  <2> QED BY <2>1, <2>2 DEF AccessInv
<1>5. ASSUME NEW c \in Conns, Accept(c) \/ Serve(c) \/ ExecEnds(c)
      PROVE  AccessInv'
  BY <1>5, ConnectionKeeps
<1>6. CASE UNCHANGED accessVars
  BY <1>6 DEF accessVars, envVars, passVars, rows, AccessInv, AccessTypeOK, CutInv, Tracked
<1> QED BY <1>1, <1>2, <1>3, <1>4, <1>5, <1>6 DEF AccessNext

(* The gateway starts without a connection and with an empty key file.     *)
LEMMA AccessInitInv == AccessInit => AccessInv
<1> SUFFICES ASSUME AccessInit PROVE AccessInv
  OBVIOUS
<1>1. ConnTypeOK
  BY DEF AccessInit, Idle, ConnTypeOK, Connections
<1>2. grant \in [Grants -> [des : {None, "active", "revoked"},
                            obs : {None, "pending", "applied", "revoking", "revoked", "failed"}]]
  BY DEF AccessInit, NoGrant
<1>3. wanted \in [g : [Grants -> {"active", "revoked", "omitted"}], box : {"running", "stopped"}]
  BY DEF AccessInit
<1>4. box \in [des : {"running", "stopped"}, obs : {"running", "stopping", "stopped"}]
  BY DEF AccessInit
<1>5. AccessTypeOK
  BY <1>1, <1>2, <1>3, <1>4 DEF AccessInit, Parts, AccessTypeOK, ConnTypeOK, Connections
<1>6. CutInv
  BY DEF AccessInit, Idle, CutInv
<1> QED BY <1>5, <1>6 DEF AccessInv

(* The rows, the key file, the sessions of the gateway's table and the     *)
(* pass over the grants always have values of their types (state.Grant,    *)
(* access.trackedSession).                                                 *)
THEOREM AccessTypeCorrect == AccessSpec => []AccessTypeOK
<1>1. AccessInit => AccessInv
  BY AccessInitInv
<1>2. AccessInv /\ [AccessNext]_accessVars => AccessInv'
  BY AccessStepKeeps
<1>3. AccessInv => AccessTypeOK
  BY DEF AccessInv
<1> QED BY <1>1, <1>2, <1>3, PTL DEF AccessSpec

(* When reconcileGrants marks a row revoked, none of the sessions that     *)
(* TerminateGrant found in the table is left, for any number of grants and *)
(* connections: what runs on got in behind the lock.                       *)
THEOREM CutStays == AccessSpec => CutBeforeRevoked
<1>1. AccessInit => AccessInv
  BY AccessInitInv
<1>2. AccessInv /\ [AccessNext]_accessVars => AccessInv'
  BY AccessStepKeeps
<1> DEFINE Late == \A g \in Grants, c \in Conns :
          (grant'[g].obs = "revoking" /\ grant[g].obs # "revoking" /\ Tracked(c) /\ conn[c].g = g)
             => ~conn[c].cut
<1>3. AccessInv /\ [AccessNext]_accessVars => [Late]_accessVars
  <2> SUFFICES ASSUME AccessInv, AccessNext, NEW g \in Grants, NEW c \in Conns,
                      grant'[g].obs = "revoking", grant[g].obs # "revoking",
                      Tracked(c), conn[c].g = g
               PROVE  ~conn[c].cut
    OBVIOUS
  <2>1. Revoked /\ cur = g /\ wait = {} /\ at \in {"wait", "wait_omitted"}
    <3>1. grant \in [Grants -> [des : {None, "active", "revoked"},
                                obs : {None, "pending", "applied", "revoking", "revoked", "failed"}]]
          /\ grant'[g] # grant[g]
      BY DEF AccessInv, AccessTypeOK
    <3>2. CASE Revoked
      BY <3>1, <3>2 DEF Revoked, Put, Abort
    <3>3. ASSUME NEW h \in Grants, ApplyGrant(h)
          PROVE  FALSE
      BY <3>1, <3>3 DEF ApplyGrant, Put, NoGrant, Abort, None
    <3>4. ASSUME NEW h \in Grants, MarkGrant(h)
          PROVE  FALSE
      BY <3>1, <3>4 DEF MarkGrant, Put, NoGrant, Abort, None
    <3>5. CASE MarkFailed
      BY <3>1, <3>5 DEF MarkFailed, Active
    <3>6. CASE UNCHANGED grant
      BY <3>1, <3>6
    <3>7. Pass => UNCHANGED grant \/ Revoked \/ MarkFailed \/ \E h \in Grants : ApplyGrant(h) \/ MarkGrant(h)
      BY DEF Pass, StartPass, ReconcileBox, TerminateSandbox, StopBox, ListedDone, OmittedDone, WriteKeys,
         EndGrantPass, RevokeGrant, OmitGrant, rows
    <3>8. \A d \in Conns : Accept(d) \/ Serve(d) \/ ExecEnds(d) => UNCHANGED grant
      BY ConnectionKeeps
    <3>9. AccessControlPlane \/ RowsMove \/ GatewayCrash => UNCHANGED grant
      BY DEF AccessControlPlane, RowsMove, GatewayCrash, rows
    <3> QED BY <3>2, <3>3, <3>4, <3>5, <3>6, <3>7, <3>8, <3>9 DEF AccessNext
  <2> QED BY <2>1 DEF AccessInv, CutInv
<1> QED BY <1>1, <1>2, <1>3, PTL DEF AccessSpec, CutBeforeRevoked
=============================================================================
