-------------------------- MODULE SandboxLifecycle --------------------------
(***************************************************************************)
(* internal/reconcile/reconcile.go, internal/containers/podman.go and      *)
(* internal/storage/workspace.go: how one pass brings one sandbox to the   *)
(* state its manifest entry asks for. The sandbox has a row in the store,  *)
(* a container, during an image refresh a backup container, and a          *)
(* workspace image on disk; setup operations run inside it, and the        *)
(* applied revision is written when everything in the pass succeeded.      *)
(*                                                                         *)
(* One step per durable write and per Podman or storage call. A call may   *)
(* fail with or without its effect, and the daemon may die between any two *)
(* steps. Access grants and sessions are AccessGateway's.                  *)
(*                                                                         *)
(* Definitions named Bad... are seeded faults, used by no action: each     *)
(* stands in for the definition after it to show a property would notice.  *)
(***************************************************************************)
EXTENDS Naturals, FiniteSets

CONSTANTS
    Setups,     \* setup operations the control plane may issue
    Images,     \* image digests, positive numbers
    Default,    \* the manifest's default image
    MaxGen,     \* bound: generations of the sandbox
    MaxMoves,   \* bound: changes of the desired state
    MaxFaults   \* bound: crashes, failing calls, containers that die

ASSUME Bounds == /\ Images \subseteq Nat \ {0} /\ Default \in Images
                 /\ MaxGen \in Nat \ {0} /\ MaxMoves \in Nat /\ MaxFaults \in Nat

VARIABLES
    want,       \* control plane: the desired state
    temp,       \* control plane: the sandbox has a temporary lifetime
    expired,    \* the lifetime recorded in the row has run out
    man,        \* local: the manifest of this pass
    row,        \* durable: the sandbox row
    setup,      \* durable: the setup operation rows
    applied,    \* durable: the applied revision
    main,       \* the container warpmetal-<id>
    backup,     \* the container warpmetal-<id>-image-backup
    ws,         \* the workspace image: none, raw (no file system yet) or ready
    pc, ret,
    loc,        \* local: the copy of the row that reconcileSandbox works on
    job,        \* local: target image, preflight needed, witness adopted
    faults, moves

cpVars == <<want, temp, expired>>
rowVars == <<row, setup, applied>>
host == <<main, backup, ws>>
locals == <<ret, loc, job>>
vars == <<cpVars, man, rowVars, host, pc, locals, faults, moves>>

NoRow == [des |-> "none", obs |-> "none", gen |-> 0, ogen |-> 0, img |-> 0,
          cell |-> FALSE, ready |-> FALSE, timed |-> FALSE]
NoBox == [img |-> 0, up |-> FALSE, hook |-> FALSE]
NoJob == [tgt |-> 0, pre |-> FALSE, new |-> FALSE, adopted |-> FALSE]
NoSetup == [st |-> "none", gen |-> 0]

Desired == {"running", "stopped", "deleted"}
Observed == {"none", "pending", "creating", "running", "restarting", "stopping", "stopped",
             "deleting", "deleted", "failed"}
Rows == [des : Desired \cup {"none"}, obs : Observed, gen : Nat, ogen : Nat, img : Nat,
         cell : BOOLEAN, ready : BOOLEAN, timed : BOOLEAN]
Boxes == [img : Nat, up : BOOLEAN, hook : BOOLEAN]
Manifests == [rev : Nat, st : Desired \cup {"omitted"}, gen : Nat, img : Nat,
              cell : BOOLEAN, setups : SUBSET Setups]
SetupStates == {"none", "pending", "applying", "ready", "failed", "cancelled"}
Phases == {"start", "fetch", "box", "ws", "mkfs", "branch", "replace", "verify", "settle",
           "stop_old", "rename", "create", "start_new", "witness", "drop", "rb_remove",
           "rb_rename", "rb_state", "restart", "ensure", "start_box", "preflight", "observe",
           "stopping", "stop", "stopped", "deleting", "remove", "destroy", "deleted", "prune",
           "setup", "cancel", "scan", "exec", "revision", "fail", "report"}

TypeOK ==
    /\ want \in Manifests /\ man \in Manifests /\ temp \in BOOLEAN /\ expired \in BOOLEAN
    /\ row \in Rows /\ loc \in Rows
    /\ setup \in [Setups -> [st : SetupStates, gen : Nat]] /\ applied \in Nat
    /\ main \in Boxes /\ backup \in Boxes /\ ws \in {"none", "raw", "ready"}
    /\ pc \in Phases /\ ret \in {"fetch", "setup", "prune"}
    /\ job \in [tgt : Nat, pre : BOOLEAN, new : BOOLEAN, adopted : BOOLEAN]
    /\ faults \in Nat /\ moves \in Nat

Init ==
    /\ \E cell \in BOOLEAN :
          want = [rev |-> 1, st |-> "running", gen |-> 1, img |-> 0, cell |-> cell, setups |-> {}]
    /\ man = want /\ temp \in BOOLEAN /\ expired = FALSE
    /\ row = NoRow /\ setup = [o \in Setups |-> NoSetup] /\ applied = 0
    /\ main = NoBox /\ backup = NoBox /\ ws = "none"
    /\ pc = "start" /\ ret = "fetch" /\ loc = NoRow /\ job = NoJob
    /\ faults = 0 /\ moves = 0

Fault == faults < MaxFaults /\ faults' = faults + 1
Move == moves < MaxMoves /\ moves' = moves + 1

\* A write of the row: it is stored and the step goes on, or the error ends
\* the reconciliation of this pass.
PutSandbox(value, next) ==
    \/ row' = value /\ loc' = value /\ pc' = next /\ UNCHANGED faults
    \/ Fault /\ pc' = "report" /\ UNCHANGED <<row, loc>>

-----------------------------------------------------------------------------
(* The start of a pass: Expire and the manifest.                           *)

ExpiredBox == temp /\ row.timed /\ expired

Expire ==
    /\ pc = "start"
    /\ IF ExpiredBox /\ row.obs \notin {"none", "deleted"}
       THEN loc' = [row EXCEPT !.des = "deleted"] /\ ret' = "fetch" /\ pc' = "deleting"
       ELSE pc' = "fetch" /\ UNCHANGED <<loc, ret>>
    /\ UNCHANGED <<cpVars, man, rowVars, host, job, faults, moves>>

\* A manifest that cannot be fetched, or that validation refuses, ends the pass.
Fetch ==
    /\ pc = "fetch"
    /\ \/ man' = want /\ pc' = "box" /\ UNCHANGED faults
       \/ Fault /\ pc' = "report" /\ UNCHANGED man
    /\ UNCHANGED <<cpVars, rowVars, host, locals, moves>>

-----------------------------------------------------------------------------
(* reconcileSandbox: the row takes over the manifest entry.                *)

Target == IF man.img # 0 THEN man.img ELSE IF row.img # 0 THEN row.img ELSE Default

\* A temporary sandbox whose lifetime is over is wanted no longer. An enabled
\* cell is recorded only once the container carries the witness.
Entry ==
    [des |-> IF ExpiredBox THEN "deleted" ELSE man.st,
     obs |-> IF row = NoRow THEN "pending" ELSE row.obs,
     gen |-> man.gen, ogen |-> row.ogen,
     img |-> IF row.img = 0 THEN Target ELSE row.img,
     cell |-> man.cell /\ row.cell, ready |-> FALSE, timed |-> row.timed]

AfterEntry(e) ==
    CASE e.des = "deleted" -> IF e.obs = "deleted" THEN "setup" ELSE "deleting"
      [] e.des = "stopped" -> IF e.img # Target THEN "ws" ELSE "stopping"
      [] OTHER -> IF e.obs = "deleted" /\ temp THEN "setup" ELSE "ws"

ReconcileSandbox ==
    /\ pc = "box" /\ man.st # "omitted"
    /\ IF Entry.img # Target /\ man.gen < row.ogen
       THEN pc' = "report" /\ UNCHANGED <<row, loc, faults>>
       ELSE PutSandbox(Entry, AfterEntry(Entry))
    /\ ret' = "setup"
    /\ job' = [tgt |-> Target, new |-> row = NoRow, adopted |-> FALSE,
               pre |-> man.setups # {} /\ (Entry.img # Target \/ Entry.obs # "running"
                                           \/ Entry.ogen < Entry.gen)]
    /\ UNCHANGED <<cpVars, man, setup, applied, host, moves>>

\* Ensure truncates an image file, makes a file system in it and mounts it. A
\* file that is already there is mounted as it is.
EnsureWorkspace ==
    /\ pc = "ws"
    /\ \/ ws = "none" /\ ws' = "raw" /\ pc' = "mkfs" /\ UNCHANGED faults
       \/ ws = "none" /\ Fault /\ ws' \in {"none", "raw"} /\ pc' = "fail"
       \/ ws = "raw" /\ pc' = "fail" /\ UNCHANGED <<ws, faults>>
       \/ ws = "ready" /\ pc' = "branch" /\ UNCHANGED <<ws, faults>>
       \/ ws = "ready" /\ Fault /\ pc' = "fail" /\ UNCHANGED ws
    /\ UNCHANGED <<cpVars, man, rowVars, main, backup, locals, moves>>

MakeFileSystem ==
    /\ pc = "mkfs"
    /\ \/ ws' = "ready" /\ pc' = "branch" /\ UNCHANGED faults
       \/ Fault /\ ws' \in {"raw", "ready"} /\ pc' = "fail"
    /\ UNCHANGED <<cpVars, man, rowVars, main, backup, locals, moves>>

-----------------------------------------------------------------------------
(* The alternatives of a sandbox that shall run (or be refreshed).         *)

Refresh == loc.img # job.tgt
\* A legacy container that shall become a cell.
CellTransition == ~Refresh /\ man.cell /\ ~loc.cell /\ ~job.new
Forced == CellTransition
Runs == loc.des = "running"
Adoptable == loc.obs = "running" /\ main.up /\ main.hook

\* The running container already carries the witness: nothing is replaced.
Adopt ==
    /\ pc = "branch" /\ CellTransition /\ Adoptable
    /\ job' = [job EXCEPT !.adopted = TRUE] /\ pc' = "preflight"
    /\ UNCHANGED <<cpVars, man, rowVars, host, ret, loc, faults, moves>>

\* Work in the sandbox, or work that cannot be ruled out, holds the
\* transition; the pass goes on.
Hold ==
    /\ pc = "branch" /\ CellTransition /\ Fault
    /\ row' = loc /\ pc' = "setup"
    /\ UNCHANGED <<cpVars, man, setup, applied, host, locals, moves>>

\* A witness that is there but could not be observed is not adopted.
BeginReplace ==
    /\ pc = "branch"
    /\ \/ /\ Refresh \/ (CellTransition /\ ~Adoptable)
          /\ PutSandbox([loc EXCEPT !.obs = "restarting"], "replace")
       \/ /\ CellTransition /\ Adoptable /\ Fault
          /\ loc' = [loc EXCEPT !.obs = "restarting"] /\ row' = loc' /\ pc' = "replace"
    /\ UNCHANGED <<cpVars, man, setup, applied, host, ret, job, moves>>

BeginRestart ==
    /\ pc = "branch" /\ ~Refresh /\ ~CellTransition
    /\ loc.obs = "running" /\ loc.ogen < loc.gen
    /\ PutSandbox([loc EXCEPT !.obs = "restarting"], "restart")
    /\ UNCHANGED <<cpVars, man, setup, applied, host, ret, job, moves>>

BeginStart ==
    /\ pc = "branch" /\ ~Refresh /\ ~CellTransition
    /\ \/ loc.obs = "stopped" /\ pc' = "start_box"
       \/ loc.obs = "running" /\ loc.ogen = loc.gen /\ pc' = "ensure"
    /\ UNCHANGED <<cpVars, man, rowVars, host, locals, faults, moves>>

BeginCreate ==
    /\ pc = "branch" /\ ~Refresh /\ ~CellTransition
    /\ loc.obs \notin {"running", "stopped"}
    /\ PutSandbox([loc EXCEPT !.obs = "creating"], "ensure")
    /\ UNCHANGED <<cpVars, man, setup, applied, host, ret, job, moves>>

-----------------------------------------------------------------------------
(* Podman. A container that exists is started as it is.                    *)

NewBox(image) == [img |-> image, up |-> FALSE, hook |-> man.cell]

OneOf(pairs) == \E p \in pairs : main' = p[1] /\ backup' = p[2]

\* A call that changes the containers to m and b, or fails with or without
\* having done so.
Podman(m, b, next, error) ==
    \/ main' = m /\ backup' = b /\ pc' = next /\ UNCHANGED faults
    \/ Fault /\ OneOf({<<main, backup>>, <<m, b>>}) /\ pc' = error

PodmanStep == UNCHANGED <<cpVars, man, rowVars, ws, locals, moves>>

Ensure ==
    /\ pc = "ensure"
    /\ Podman(IF main = NoBox THEN NewBox(loc.img) ELSE main, backup, "start_box", "fail")
    /\ PodmanStep

\* start and restart of a container that must exist.
Start ==
    /\ pc \in {"start_box", "restart"}
    /\ IF main = NoBox THEN pc' = "fail" /\ UNCHANGED <<main, backup, faults>>
       ELSE Podman([main EXCEPT !.up = TRUE], backup, "preflight", "fail")
    /\ PodmanStep

\* replaceContainer: the image is pulled, then what exists decides.
Replace ==
    /\ pc = "replace"
    /\ \/ /\ pc' = IF main = NoBox THEN "create"
                  ELSE IF backup # NoBox THEN "verify" ELSE "stop_old"
          /\ UNCHANGED faults
       \/ Fault /\ pc' = "fail"
    /\ UNCHANGED <<main, backup>>
    /\ PodmanStep

\* Both containers are there: an earlier replacement was interrupted. It is
\* completed if the container is the wanted one; otherwise a forced cell
\* transition rolls back and an image refresh gives up.
Verify ==
    /\ pc = "verify"
    /\ LET m == IF Forced THEN [main EXCEPT !.up = TRUE] ELSE main
           ready == m.img = job.tgt /\ (Forced => m.hook)
       IN Podman(m, backup, IF ready THEN "settle" ELSE IF Forced THEN "rb_remove" ELSE "fail", "fail")
    /\ PodmanStep

Settle ==
    /\ pc = "settle"
    /\ Podman([main EXCEPT !.up = Runs], backup, "drop", "fail")
    /\ PodmanStep

StopOld ==
    /\ pc = "stop_old"
    /\ Podman([main EXCEPT !.up = FALSE], backup, "rename", "fail")
    /\ PodmanStep

\* A rename that fails restores the state of the container, if it can.
Rename ==
    /\ pc = "rename"
    /\ \/ main' = NoBox /\ backup' = main /\ pc' = "create" /\ UNCHANGED faults
       \/ /\ Fault /\ pc' = "fail"
          /\ OneOf({<<NoBox, main>>, <<main, backup>>, <<[main EXCEPT !.up = Runs], backup>>})
    /\ PodmanStep

OnError == IF backup # NoBox THEN "rb_remove" ELSE "fail"

Create ==
    /\ pc = "create"
    /\ Podman(NewBox(job.tgt), backup, "start_new", OnError)
    /\ PodmanStep

StartNew ==
    /\ pc = "start_new"
    /\ Podman([main EXCEPT !.up = Runs], backup,
              IF backup # NoBox /\ Forced THEN "witness" ELSE "drop", OnError)
    /\ PodmanStep

Witness ==
    /\ pc = "witness"
    /\ \/ main.hook /\ pc' = "drop" /\ UNCHANGED faults
       \/ ~main.hook /\ pc' = "rb_remove" /\ UNCHANGED faults
       \/ Fault /\ pc' = "rb_remove"
    /\ UNCHANGED <<main, backup>>
    /\ PodmanStep

\* The backup goes once the replacement stands; then the row may name the image.
Drop ==
    /\ pc = "drop"
    /\ \/ /\ backup' = NoBox /\ loc' = [loc EXCEPT !.img = job.tgt]
          /\ pc' = IF Runs THEN "preflight" ELSE "stopping"
          /\ UNCHANGED faults
       \/ Fault /\ backup' \in {backup, NoBox} /\ pc' = "fail" /\ UNCHANGED loc
    /\ UNCHANGED <<cpVars, man, rowVars, main, ws, ret, job, moves>>

\* The rollback removes the backup together with the failed replacement.
BadRollbackRemove ==
    /\ pc = "rb_remove"
    /\ Podman(NoBox, NoBox, "rb_rename", "fail")
    /\ PodmanStep

\* rollbackReplacement goes on after an error, but does not start the backup.
RollbackRemove ==
    /\ pc = "rb_remove"
    /\ \/ main' = NoBox /\ pc' = "rb_rename" /\ UNCHANGED <<backup, faults>>
       \/ /\ Fault /\ pc' = "fail"
          /\ OneOf({<<main, backup>>, <<NoBox, backup>>, <<backup, NoBox>>})
    /\ PodmanStep

RollbackRename ==
    /\ pc = "rb_rename"
    /\ IF backup = NoBox THEN pc' = "fail" /\ UNCHANGED <<main, backup, faults>>
       ELSE Podman(backup, NoBox, "rb_state", "fail")
    /\ PodmanStep

RollbackState ==
    /\ pc = "rb_state"
    /\ Podman([main EXCEPT !.up = Runs], backup, "fail", "fail")
    /\ PodmanStep

-----------------------------------------------------------------------------
(* The end of reconcileSandbox.                                            *)

\* A preflight that fails stops the container.
Preflight ==
    /\ pc = "preflight"
    /\ \/ pc' = "observe" /\ UNCHANGED <<main, faults>>
       \/ job.pre /\ Fault /\ pc' = "fail" /\ main' \in {main, [main EXCEPT !.up = FALSE]}
    /\ UNCHANGED <<cpVars, man, rowVars, backup, ws, locals, moves>>

\* The observed generation is the row's, not the one that was started.
BadObserve ==
    /\ pc = "observe"
    /\ PutSandbox([loc EXCEPT !.obs = "running", !.cell = man.cell, !.timed = temp], "setup")
    /\ UNCHANGED <<cpVars, man, setup, applied, host, ret, job, moves>>

\* Readiness of a cell is what the container shows now; an observation that
\* fails means not ready.
Observe ==
    /\ pc = "observe"
    /\ \E ready \in BOOLEAN :
          /\ ready => man.cell /\ (job.adopted \/ main.hook)
          /\ PutSandbox([loc EXCEPT !.obs = "running", !.ogen = loc.gen, !.cell = man.cell,
                                    !.ready = ready, !.timed = temp], "setup")
    /\ UNCHANGED <<cpVars, man, setup, applied, host, ret, job, moves>>

Stopping ==
    /\ pc = "stopping"
    /\ IF loc.obs = "stopped" THEN pc' = "stop" /\ UNCHANGED <<row, loc, faults>>
       ELSE PutSandbox([loc EXCEPT !.obs = "stopping"], "stop")
    /\ UNCHANGED <<cpVars, man, setup, applied, host, ret, job, moves>>

Stop ==
    /\ pc = "stop"
    /\ Podman([main EXCEPT !.up = FALSE], backup, "stopped", "fail")
    /\ PodmanStep

Stopped ==
    /\ pc = "stopped"
    /\ PutSandbox([loc EXCEPT !.obs = "stopped", !.ogen = loc.gen], "setup")
    /\ UNCHANGED <<cpVars, man, setup, applied, host, ret, job, moves>>

\* failSandbox: the pass ends whether or not the row could be written.
FailSandbox ==
    /\ pc = "fail"
    /\ pc' = "report"
    /\ \/ row' = [loc EXCEPT !.obs = "failed"] /\ UNCHANGED faults
       \/ Fault /\ UNCHANGED row
    /\ UNCHANGED <<cpVars, man, setup, applied, host, locals, moves>>

-----------------------------------------------------------------------------
(* removeSandbox, for an expired, a deleted or an omitted sandbox.         *)

Deleting ==
    /\ pc = "deleting"
    /\ PutSandbox([loc EXCEPT !.obs = "deleting"], "remove")
    /\ UNCHANGED <<cpVars, man, setup, applied, host, ret, job, moves>>

\* The workspace may be destroyed while the container is still there.
BadRemove ==
    /\ pc = "remove"
    /\ Podman(NoBox, backup, "destroy", "destroy")
    /\ PodmanStep

\* The container, not its backup.
Remove ==
    /\ pc = "remove"
    /\ Podman(NoBox, backup, "destroy", "fail")
    /\ PodmanStep

Destroy ==
    /\ pc = "destroy"
    /\ \/ ws' = "none" /\ pc' = "deleted" /\ UNCHANGED faults
       \/ Fault /\ ws' \in {ws, "none"} /\ pc' = "fail"
    /\ UNCHANGED <<cpVars, man, rowVars, main, backup, locals, moves>>

Deleted ==
    /\ pc = "deleted"
    /\ PutSandbox([loc EXCEPT !.obs = "deleted", !.ogen = loc.gen], ret)
    /\ UNCHANGED <<cpVars, man, setup, applied, host, ret, job, moves>>

\* reconcileMissingSandboxes: a sandbox the manifest omits is removed, and
\* then its row.
Missing ==
    /\ pc = "box" /\ man.st = "omitted"
    /\ IF row.obs \in {"none", "deleted"}
       THEN pc' = "prune" /\ UNCHANGED <<loc, ret>>
       ELSE loc' = [row EXCEPT !.des = "deleted"] /\ ret' = "prune" /\ pc' = "deleting"
    /\ UNCHANGED <<cpVars, man, rowVars, host, job, faults, moves>>

Prune ==
    /\ pc = "prune"
    /\ \/ row' = NoRow /\ expired' = FALSE /\ pc' = "setup" /\ UNCHANGED faults
       \/ Fault /\ pc' = "report" /\ UNCHANGED <<row, expired>>
    /\ UNCHANGED <<want, temp, man, setup, applied, host, locals, moves>>

-----------------------------------------------------------------------------
(* Setup operations and the applied revision.                              *)

\* TransitionSetupOperation: the edges the store allows.
MayTransition(from, to) ==
    \/ from = "pending" /\ to \in {"applying", "cancelled"}
    \/ from = "applying" /\ to \in {"ready", "failed", "cancelled"}

Transition(ops, to) ==
    [o \in Setups |-> IF o \in ops /\ MayTransition(setup[o].st, to)
                      THEN [setup[o] EXCEPT !.st = to] ELSE setup[o]]

\* An operation the manifest lists again becomes pending again.
BadPersistSetups ==
    /\ pc = "setup"
    /\ setup' = [o \in Setups |-> IF o \in man.setups /\ setup[o].st # "applying"
                                  THEN [st |-> "pending", gen |-> man.gen] ELSE setup[o]]
    /\ pc' = "cancel"
    /\ UNCHANGED <<cpVars, man, row, applied, host, locals, faults, moves>>

\* PutSetupOperation inserts; a row that is there must name the same
\* generation, which the control plane never changes.
PutSetupOperation(ops) ==
    [o \in Setups |-> IF o \in ops /\ setup[o] = NoSetup
                      THEN [st |-> "pending", gen |-> man.gen] ELSE setup[o]]

\* The grants come first (AccessGateway); an error there ends the pass too.
PersistSetups ==
    /\ pc = "setup"
    /\ \E ops \in SUBSET man.setups :
          /\ setup' = PutSetupOperation(ops)
          /\ \/ ops = man.setups /\ pc' = "cancel" /\ UNCHANGED faults
             \/ Fault /\ pc' = "report"
    /\ UNCHANGED <<cpVars, man, row, applied, host, locals, moves>>

\* Operations the manifest lists no longer are cancelled.
CancelSetups ==
    /\ pc = "cancel"
    /\ LET omitted == {o \in Setups \ man.setups : setup[o].st \in {"pending", "applying"}}
       IN \E ops \in SUBSET omitted :
             /\ setup' = Transition(ops, "cancelled")
             /\ IF ops = omitted THEN pc' = "scan" /\ UNCHANGED faults
                ELSE Fault /\ pc' = "report"
    /\ UNCHANGED <<cpVars, man, row, applied, host, locals, moves>>

Open == {o \in man.setups : setup[o].st # "ready"}
\* A terminal operation, or one whose sandbox generation does not run yet.
Stuck(o) ==
    \/ setup[o].st \in {"failed", "cancelled"}
    \/ row.obs # "running" \/ row.ogen # setup[o].gen

\* The scan in manifest order: the pending operations before the first stuck
\* one are started. Nothing runs in the pass that starts an operation.
ScanSetups ==
    /\ pc = "scan"
    /\ LET pending == {o \in Open : setup[o].st = "pending"}
           stuck == {o \in Open : Stuck(o)}
       IN \/ /\ stuck # {} /\ pc' = "report"
             /\ \E ops \in SUBSET {o \in pending : ~Stuck(o)} : setup' = Transition(ops, "applying")
             /\ UNCHANGED faults
          \/ /\ stuck = {} /\ pending # {} /\ pc' = "report"
             /\ setup' = Transition(pending, "applying") /\ UNCHANGED faults
          \/ /\ stuck = {} /\ pending = {}
             /\ pc' = IF Open = {} THEN "revision" ELSE "exec"
             /\ UNCHANGED <<setup, faults>>
    /\ UNCHANGED <<cpVars, man, row, applied, host, locals, moves>>

\* ExecSetup returns the runner's bounded output, or an error (of the preflight
\* before it too).
ExecSetup == {"ready", "failed", "cancelled", "garbage", "error"}
\* validateSetupReceipt: a receipt that is not canonical, not of this operation
\* or not under its own digest is as good as a failure.
ValidateSetupReceipt(out) ==
    IF out \in {"ready", "failed", "cancelled"} THEN out ELSE "failed"

\* executeSetupOperation: only a ready receipt lets the pass go on. A cancelled
\* context leaves the operation applying, and a later pass runs it again.
ExecuteSetup ==
    /\ pc = "exec"
    /\ \E o \in Open :
          \/ \E out \in ExecSetup :
                LET st == ValidateSetupReceipt(out) IN
                /\ setup' = Transition({o}, st)
                /\ pc' = IF st = "ready" /\ Cardinality(Open) = 1
                         THEN "revision" ELSE "report"
                /\ UNCHANGED faults
          \/ Fault /\ pc' = "report" /\ UNCHANGED setup
    /\ UNCHANGED <<cpVars, man, row, applied, host, locals, moves>>

\* The rest of Reconcile belongs to other modules; any error there leaves the
\* revision as it is.
SetRevision ==
    /\ pc = "revision"
    /\ \/ applied' = man.rev /\ UNCHANGED faults
       \/ Fault /\ UNCHANGED applied
    /\ pc' = "report"
    /\ UNCHANGED <<cpVars, man, row, setup, host, locals, moves>>

EndPass ==
    /\ pc = "report"
    /\ pc' = "start" /\ loc' = NoRow /\ job' = NoJob /\ ret' = "fetch"
    /\ UNCHANGED <<cpVars, man, rowVars, host, faults, moves>>

-----------------------------------------------------------------------------
(* The environment.                                                        *)

NextManifest == [want EXCEPT !.rev = @ + 1]

ControlPlane ==
    /\ Move
    /\ \/ \E st \in (Desired \cup {"omitted"}) \ {want.st} :
             want' = [NextManifest EXCEPT !.st = st,
                                          !.setups = IF st = "omitted" THEN {} ELSE want.setups]
       \/ want.gen < MaxGen
          /\ want' = [NextManifest EXCEPT !.gen = want.gen + 1, !.setups = {}]
       \/ \E i \in Images \ {want.img} : want' = [NextManifest EXCEPT !.img = i]
       \/ want' = [NextManifest EXCEPT !.cell = ~want.cell]
       \/ \E o \in {o \in Setups : setup[o] = NoSetup} \ want.setups :
             /\ want.st # "omitted"
             /\ man.gen = want.gen
             /\ want' = [NextManifest EXCEPT !.setups = want.setups \cup {o}]
    /\ UNCHANGED <<temp, expired, man, rowVars, host, pc, locals, faults>>

TimePasses ==
    /\ temp /\ row.timed /\ ~expired
    /\ expired' = TRUE
    /\ UNCHANGED <<want, temp, man, rowVars, host, pc, locals, faults, moves>>

\* The container's main process ends, or the host reboots.
ContainerDies ==
    /\ Fault /\ main.up
    /\ main' = [main EXCEPT !.up = FALSE]
    /\ UNCHANGED <<cpVars, man, rowVars, backup, ws, pc, locals, moves>>

Crash ==
    /\ Fault /\ pc # "start"
    /\ pc' = "start" /\ loc' = NoRow /\ job' = NoJob /\ ret' = "fetch"
    /\ UNCHANGED <<cpVars, man, rowVars, host, moves>>

Daemon ==
    \/ Expire \/ Fetch \/ ReconcileSandbox \/ EnsureWorkspace \/ MakeFileSystem
    \/ Adopt \/ Hold \/ BeginReplace \/ BeginRestart \/ BeginStart \/ BeginCreate
    \/ Ensure \/ Start \/ Replace \/ Verify \/ Settle \/ StopOld \/ Rename \/ Create
    \/ StartNew \/ Witness \/ Drop \/ RollbackRemove \/ RollbackRename \/ RollbackState
    \/ Preflight \/ Observe \/ Stopping \/ Stop \/ Stopped \/ FailSandbox
    \/ Deleting \/ Remove \/ Destroy \/ Deleted \/ Missing \/ Prune
    \/ PersistSetups \/ CancelSetups \/ ScanSetups \/ ExecuteSetup \/ SetRevision \/ EndPass

Next == Daemon \/ ControlPlane \/ TimePasses \/ ContainerDies \/ Crash

Spec == Init /\ [][Next]_vars /\ WF_vars(Daemon)

-----------------------------------------------------------------------------
(* Properties.                                                             *)

\* replaceContainer and its rollback, whichever call fails and wherever the
\* daemon dies, never leave a sandbox that had a container with none; only
\* removeSandbox does.
BoxNeverLost ==
    [][main # NoBox \/ backup # NoBox => main' # NoBox \/ backup' # NoBox \/ pc = "remove"]_vars

\* The workspace goes only after the container that mounts it; a row that says
\* deleted has no container; it comes to say so only when the workspace is gone,
\* and no workspace is made for a row that shall be deleted.
DeletedIsGone ==
    [][/\ row'.obs = "deleted" => main' = NoBox
       /\ main' # NoBox => ws' # "none"
       /\ row'.obs = "deleted" /\ row.obs # "deleted" => ws' = "none"
       /\ ws = "none" /\ ws' # "none" => row.des # "deleted"]_vars

\* A setup operation that ended stays as it ended, across crashes, redrives
\* and a manifest that lists it again.
SetupEndsOnce ==
    [][\A o \in Setups : setup[o].st \in {"ready", "failed", "cancelled"} => setup'[o] = setup[o]]_vars

\* States in which no pass makes progress towards a running sandbox.
NeedsHelp == ws = "raw" \/ (main # NoBox /\ backup # NoBox)

\* Once the control plane has settled on a running sandbox, it runs the wanted
\* image at the wanted generation, unless it needs help.
Converges ==
    (moves = MaxMoves /\ want.st = "running" /\ ~temp)
       ~> (NeedsHelp \/ (row.obs = "running" /\ row.ogen = want.gen /\ main.up
                          /\ (want.img # 0 => row.img = want.img)))
=============================================================================
