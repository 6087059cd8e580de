-------------------------- MODULE WorkspaceCatalog --------------------------
(***************************************************************************)
(* The workspace catalog: the durable rows of managed project roots and    *)
(* the directories they attest (internal/workspacecatalog, the managed     *)
(* project tables of internal/state/store.go, resolveManagedProject of     *)
(* internal/reconcile/managed_service.go), and the materialisation of a    *)
(* checkpoint into a fresh leaf (internal/storage/checkpoint.go and        *)
(* checkpoint_owner.go, called from internal/continuity).                  *)
(*                                                                         *)
(* One sandbox owns one workspace image, loop-mounted on a device that a   *)
(* host restart may change; the file may have become a copy meanwhile.     *)
(* What is in the image is the same after a restart, inodes included, so   *)
(* device and inode alone do not tell a copy from the original, and the    *)
(* image identity of a row is what does.  Four lineages own one leaf of    *)
(* the image each: the Team default, the cell workspace, a restore and a   *)
(* handoff.                                                                *)
(*                                                                         *)
(* One daemon pass walks the stages in the order of ReconcileSource.  The  *)
(* error of a stage ends the pass, and the next one starts over.  Whether  *)
(* source, target and checkpoint of an operation still have authority is   *)
(* in Continuations; here they have it.                                    *)
(*                                                                         *)
(* Definitions named Bad... are seeded faults, used by no action: each     *)
(* stands in for the definition after it to show a property would notice.  *)
(***************************************************************************)
EXTENDS Naturals, FiniteSets

CONSTANTS
    Devices,        \* loop devices a mount may land on
    Images,         \* image file objects that may be at the workspace path
    Nothing,        \* no row, no directory, no identity
    MaxEntries,     \* maxCatalogEntries
    MaxFailures     \* bound: crashes, failed calls and host restarts

TeamProjects == {"team", "cell"}       \* designation team_project
Continuity == {"restore", "handoff"}   \* continuity-materialization, -handoff
Kinds == TeamProjects \cup Continuity

Attestations == {Nothing} \cup (Devices \X BOOLEAN \X {0, 1})
RowPhases == {"allocated", "created", "allocating", "continuity_allocated", "ready"}
Rows == [phase : RowPhases, avail : BOOLEAN, dev : Devices, root : BOOLEAN,
         img : Images \cup {Nothing}, att : Attestations, sup : Attestations,
         cfg : {0, 1}]
Directories == [data : {"empty", "partial", "git", "edited", "user"},
                owner : {"root", "agent"},
                by : {"runtime", "older", "user"}]
Manifests == [cfg : {0, 1}, att : Attestations, scope : Nat, act : Nat]

ASSUME CatalogConstants ==
    /\ Devices # {} /\ Images # {}
    /\ Nothing \notin Images /\ Nothing \notin Devices \X BOOLEAN \X {0, 1}
    /\ Nothing \notin Rows /\ Nothing \notin Directories /\ Nothing \notin Manifests
    /\ MaxEntries \in Nat /\ MaxFailures \in Nat

VARIABLES
    mount,      \* [dev, img]: what Workspaces.Ensure has mounted
    proj,       \* owner of the shared projects directory, or Nothing
    dirs,       \* the leaf of each lineage, or Nothing
    rows,       \* managed_workspace_projects, one per lineage, or Nothing
    derivable,  \* the anchor tells where the image is (workspaceImagePath)
    asked,      \* the restore and the handoff the manifests list
    ops,        \* their rows: restore operation, handoff preparation
    stage,      \* the stage of the pass
    step,       \* where in its stage the pass is
    want,       \* the manifest's managed service, or Nothing
    svc,        \* the stored manifest of the managed service, or Nothing
    state,      \* how the last service step ended
    failures

catalogVars == <<mount, proj, dirs, rows, derivable, asked, ops, stage, step,
                 want, svc, state, failures>>
store == <<rows, ops, svc>>
host == <<mount, proj, dirs>>
given == <<derivable, asked>>
outside == <<given, want>>
at == <<stage, step>>

(***************************************************************************)
(* The pass.                                                               *)
(***************************************************************************)
Stages == {"restore_recovery", "handoff_recovery", "observe", "team", "cell",
           "service", "handoff", "restore"}

Following == [restore_recovery |-> "handoff_recovery", handoff_recovery |-> "observe",
              observe |-> "team", team |-> "cell", cell |-> "service",
              service |-> "handoff", handoff |-> "restore",
              restore |-> "restore_recovery"]

\* The lineage an operation stage works on.
Operation == [restore_recovery |-> "restore", handoff_recovery |-> "handoff",
              restore |-> "restore", handoff |-> "handoff"]

Steps == {"enter", "mkdir", "record", "git", "own", "publish", "finish",
          "allocate", "leaf", "mark", "materialize", "fill", "chown",
          "complete", "end"}

StepTo(s) == stage' = stage /\ step' = s
Proceed == stage' = Following[stage] /\ step' = "enter"
Abort == stage' = "restore_recovery" /\ step' = "enter"
Fails == failures < MaxFailures /\ failures' = failures + 1

(***************************************************************************)
(* Directories and rows.                                                   *)
(***************************************************************************)
Dir(data, owner, by) == [data |-> data, owner |-> owner, by |-> by]
SetDir(k, d) == dirs' = [dirs EXCEPT ![k] = d]

\* What the attestation digest binds of what can change.
Attest(row) == <<row.dev, row.root, row.cfg>>

NewRow(phase, img) ==
    [phase |-> phase, avail |-> FALSE, dev |-> mount.dev, root |-> FALSE,
     img |-> img, att |-> Nothing, sup |-> Nothing, cfg |-> 0]

\* bindWorkspaceImageIdentity: a legacy anchor leaves the identity zero.
BornWith == IF derivable THEN mount.img ELSE Nothing

SelfAttesting(row) == row.att = Attest(row)

\* sameDurableObject of anchor and root on the current mount.
OpenVerifiedRoot(k) ==
    /\ proj # Nothing
    /\ dirs[k] # Nothing
    /\ rows[k].root
    /\ rows[k].dev = mount.dev

ClassifyGit(k) ==
    CASE dirs[k].data \in {"git", "edited"} -> "available"
      [] dirs[k].data = "partial" -> "unsafe_root"
      [] OTHER -> "no_git"

VerifyRoot(k) == OpenVerifiedRoot(k) /\ ClassifyGit(k) = "available"
VerifyOwnedRoot(k) == OpenVerifiedRoot(k)

VerifyPublishedOwner(k) ==
    /\ OpenVerifiedRoot(k)
    /\ proj = "agent"
    /\ dirs[k].owner = "agent"

Publishable(row) ==
    /\ row # Nothing
    /\ row.att # Nothing
    /\ SelfAttesting(row)
    /\ \/ row.phase = "ready" /\ row.avail
       \/ row.phase = "continuity_allocated" /\ ~row.avail

Reports == {k \in Kinds : Publishable(rows[k])}

(***************************************************************************)
(* The guards of the store on a replaced row.                              *)
(***************************************************************************)
PinnedDiffers(old, new) ==
    \/ old.dev # new.dev
    \/ old.img # new.img
    \/ old.root /\ old.root # new.root

RemountAdoption(old, new) ==
    /\ new.dev # old.dev
    /\ old.root
    /\ new.att \notin {Nothing, old.att}
    /\ new.sup = old.att
    /\ new = [old EXCEPT !.dev = new.dev, !.att = new.att, !.sup = new.sup]

WriteAllowed(old, new) ==
    IF old = Nothing THEN TRUE
    ELSE IF PinnedDiffers(old, new) THEN RemountAdoption(old, new)
    ELSE \/ old.att = new.att /\ old.sup = new.sup
         \/ /\ old.att # new.att /\ new.sup = Nothing
            /\ \/ old.cfg # new.cfg
               \/ old.root # new.root

Put(k, row) ==
    /\ WriteAllowed(rows[k], row)
    /\ rows' = [rows EXCEPT ![k] = row]

(***************************************************************************)
(* ReobserveRemountedRoots.                                                *)
(***************************************************************************)
RemountDeviceChange(k) == rows[k].dev # mount.dev

\* A path is enough, whatever image is behind it.
BadBackingImageMatches(row, named) == named \/ row.img = mount.img

\* \E named: whether the host can name the loop backing of the device; the
\* path it names is the path of the image that is mounted.
BackingImageMatches(row, named) ==
    IF row.img # Nothing THEN row.img = mount.img ELSE named

Reattested(row) ==
    LET moved == [row EXCEPT !.dev = mount.dev]
    IN [moved EXCEPT !.sup = row.att, !.att = Attest(moved)]

Bindable(row, named) == row.img = Nothing /\ row.avail /\ named

Reobserved(k, named) ==
    LET row == rows[k]
    IN IF ~ /\ row # Nothing
            /\ row.phase = "ready"
            /\ SelfAttesting(row)
            /\ dirs[k] # Nothing
            /\ proj # Nothing
       THEN row
       ELSE IF RemountDeviceChange(k)
       THEN IF BackingImageMatches(row, named) THEN Reattested(row) ELSE row
       ELSE IF Bindable(row, named) THEN [row EXCEPT !.img = mount.img] ELSE row

ReobserveRemountedRoots ==
    /\ stage = "observe"
    /\ \E named \in {FALSE, derivable} :
          rows' = [k \in Kinds |->
                     IF k \in TeamProjects THEN Reobserved(k, named) ELSE rows[k]]
    /\ Proceed
    /\ UNCHANGED <<host, outside, ops, svc, state, failures>>

(***************************************************************************)
(* The shared projects directory.  A directory root still owns is given to *)
(* the anchor's owner only when every child is an attested row's root.     *)
(***************************************************************************)
Attributed(k) ==
    /\ rows[k] # Nothing
    /\ rows[k].root
    /\ SelfAttesting(rows[k])
    /\ rows[k].dev = mount.dev

ProjectsOwnerPreflight ==
    \/ proj \in {Nothing, "agent"}
    \/ \A k \in Kinds : dirs[k] # Nothing => Attributed(k)

EnsureProjects == proj' = "agent"

\* The cell's request is listed on every pass, the Team's until the selection.
Requested == stage = "team" => want = Nothing

\* The lineage the stage works on.
Current == IF stage \in TeamProjects THEN stage ELSE Operation[stage]

\* ensureProjectsDirectory made the directory, or ensureProjectsOwner handed
\* it over, and the row of the leaf was never written.
ProjectsInterrupted ==
    /\ \/ stage \in TeamProjects /\ step = "enter" /\ Requested
       \/ step = "allocate"
    /\ rows[Current] = Nothing
    /\ ProjectsOwnerPreflight
    /\ Fails
    /\ proj' \in {IF proj = Nothing THEN "root" ELSE proj, "agent"}
    /\ Abort
    /\ UNCHANGED <<mount, dirs, store, outside, state>>

(***************************************************************************)
(* EnsureDefault: the Team's project.  The backend lists the request for   *)
(* it until it has selected the reported project for the service: the      *)
(* request names no configuration, and would be refused of a row that is   *)
(* bound to one.                                                           *)
(***************************************************************************)
NoRequest ==
    /\ stage = "team" /\ step = "enter"
    /\ want # Nothing
    /\ Proceed
    /\ UNCHANGED <<host, store, outside, state, failures>>

\* Only the exact repository the Runtime wrote, each node of it owned by root or
\* already by the anchor's owner, is handed over.
PreflightBootstrap(k) == dirs[k].data = "git"

\* ownDefaultBootstrap: everything is checked before the first owner changes.
BootstrapOwnable(k) ==
    /\ OpenVerifiedRoot(k)
    /\ ProjectsOwnerPreflight
    /\ PreflightBootstrap(k)

BootstrapOwned(k) == SetDir(k, [dirs[k] EXCEPT !.owner = "agent"]) /\ EnsureProjects

ResolveRecord(k) ==
    /\ rows[k].phase = "ready"
    /\ rows[k].avail
    /\ SelfAttesting(rows[k])
    /\ VerifyPublishedOwner(k) \/ BootstrapOwnable(k)
    /\ VerifyRoot(k)

\* A root that an older Runtime left with root is transferred.
RepairDefaultOwner(k) ==
    IF VerifyPublishedOwner(k) THEN UNCHANGED <<dirs, proj>> ELSE BootstrapOwned(k)

AllocateDefault ==
    /\ stage = "team" /\ step = "enter" /\ Requested
    /\ rows["team"] = Nothing
    /\ ProjectsOwnerPreflight
    /\ EnsureProjects
    /\ Put("team", NewRow("allocated", BornWith))
    /\ StepTo("mkdir")
    /\ UNCHANGED <<mount, dirs, outside, ops, svc, state, failures>>

\* The mkdir of the continuity leaves, which may find the leaf there.
BadCreateDefaultRoot ==
    /\ stage = "team" /\ step = "mkdir"
    /\ IF dirs["team"] = Nothing
       THEN SetDir("team", Dir("empty", "root", "runtime")) /\ StepTo("record")
       ELSE /\ IF dirs["team"].data = "empty" THEN StepTo("record") ELSE Abort
            /\ UNCHANGED dirs
    /\ UNCHANGED <<mount, proj, store, outside, state, failures>>

\* The exclusive mkdir: a leaf that is there already is nobody's.
CreateDefaultRoot ==
    /\ stage = "team" /\ step = "mkdir"
    /\ IF dirs["team"] = Nothing
       THEN SetDir("team", Dir("empty", "root", "runtime")) /\ StepTo("record")
       ELSE Abort /\ UNCHANGED dirs
    /\ UNCHANGED <<mount, proj, store, outside, state, failures>>

Recorded(row) == [row EXCEPT !.root = TRUE, !.att = Attest([row EXCEPT !.root = TRUE])]

RecordDefaultRoot ==
    /\ stage = "team" /\ step = "record"
    /\ Put("team", [Recorded(rows["team"]) EXCEPT !.phase = "created"])
    /\ StepTo("git")
    /\ UNCHANGED <<host, outside, ops, svc, state, failures>>

\* EnsureDefault and resumeCreated: a root that is not empty is not
\* initialised again.
InitializeGit ==
    /\ stage = "team" /\ step = "git"
    /\ IF OpenVerifiedRoot("team")
       THEN /\ IF dirs["team"].data = "empty"
               THEN SetDir("team", [dirs["team"] EXCEPT !.data = "git"])
               ELSE UNCHANGED dirs
            /\ StepTo("own")
       ELSE Abort /\ UNCHANGED dirs
    /\ UNCHANGED <<mount, proj, store, outside, state, failures>>

GitInterrupted ==
    /\ stage = "team" /\ step = "git"
    /\ OpenVerifiedRoot("team")
    /\ dirs["team"].data = "empty"
    /\ Fails
    /\ SetDir("team", [dirs["team"] EXCEPT !.data = "partial"])
    /\ Abort
    /\ UNCHANGED <<mount, proj, store, outside, state>>

OwnDefaultBootstrap ==
    /\ stage = "team" /\ step = "own"
    /\ IF VerifyRoot("team") /\ BootstrapOwnable("team")
       THEN BootstrapOwned("team") /\ StepTo("publish")
       ELSE Abort /\ UNCHANGED <<dirs, proj>>
    /\ UNCHANGED <<mount, store, outside, state, failures>>

Ready(row) == [row EXCEPT !.phase = "ready", !.avail = TRUE]

PublishDefault ==
    /\ stage = "team" /\ step = "publish"
    /\ IF VerifyRoot("team")
       THEN Put("team", Ready(rows["team"])) /\ Proceed
       ELSE Abort /\ UNCHANGED rows
    /\ UNCHANGED <<host, outside, ops, svc, state, failures>>

EnsureDefault ==
    /\ stage = "team" /\ step = "enter" /\ Requested
    /\ rows["team"] # Nothing
    /\ IF rows["team"].phase = "created" THEN StepTo("git") /\ UNCHANGED <<dirs, proj>>
       ELSE IF ResolveRecord("team") THEN RepairDefaultOwner("team") /\ Proceed
       ELSE Abort /\ UNCHANGED <<dirs, proj>>
    /\ UNCHANGED <<mount, store, outside, state, failures>>

(***************************************************************************)
(* EnsureCellDefault: an ordinary directory, resumed when its row has no   *)
(* root yet.                                                               *)
(***************************************************************************)
AllocateCell ==
    /\ stage = "cell" /\ step = "enter"
    /\ rows["cell"] = Nothing
    /\ ProjectsOwnerPreflight
    /\ EnsureProjects
    /\ Put("cell", NewRow("allocated", BornWith))
    /\ StepTo("finish")
    /\ UNCHANGED <<mount, dirs, outside, ops, svc, state, failures>>

\* ownCellRoot through the open descriptor; adoption is for an empty
\* directory only.
MaterializeCellRoot ==
    /\ stage = "cell" /\ step = "finish"
    /\ IF rows["cell"].dev = mount.dev /\ ProjectsOwnerPreflight
       THEN /\ EnsureProjects
            /\ IF dirs["cell"] = Nothing
               THEN SetDir("cell", Dir("empty", "agent", "runtime")) /\ StepTo("publish")
               ELSE IF dirs["cell"].data = "empty"
               THEN SetDir("cell", [dirs["cell"] EXCEPT !.owner = "agent"]) /\ StepTo("publish")
               ELSE Abort /\ UNCHANGED dirs
       ELSE Abort /\ UNCHANGED <<dirs, proj>>
    /\ UNCHANGED <<mount, store, outside, state, failures>>

\* The step died after mkdirat and before the ownership was transferred.
CellInterrupted ==
    /\ stage = "cell" /\ step = "finish"
    /\ rows["cell"].dev = mount.dev
    /\ proj = "agent"
    /\ dirs["cell"] = Nothing
    /\ Fails
    /\ SetDir("cell", Dir("empty", "root", "runtime"))
    /\ Abort
    /\ UNCHANGED <<mount, proj, store, outside, state>>

\* The phase is left as the mkdir left it.
BadFinishCellAllocation ==
    /\ stage = "cell" /\ step = "publish"
    /\ Put("cell", [Recorded(rows["cell"]) EXCEPT !.phase = "created"])
    /\ Proceed
    /\ UNCHANGED <<host, outside, ops, svc, state, failures>>

FinishCellAllocation ==
    /\ stage = "cell" /\ step = "publish"
    /\ Put("cell", Ready(Recorded(rows["cell"])))
    /\ Proceed
    /\ UNCHANGED <<host, outside, ops, svc, state, failures>>

RepairCellOwner == SetDir("cell", [dirs["cell"] EXCEPT !.owner = "agent"]) /\ EnsureProjects

ResolveCellRecord ==
    /\ SelfAttesting(rows["cell"])
    /\ VerifyOwnedRoot("cell")
    /\ ProjectsOwnerPreflight

EnsureCellDefault ==
    /\ stage = "cell" /\ step = "enter"
    /\ rows["cell"] # Nothing
    /\ IF rows["cell"].phase = "allocated" /\ ~rows["cell"].root
       THEN StepTo("finish") /\ UNCHANGED <<dirs, proj>>
       ELSE IF rows["cell"].phase = "ready" /\ rows["cell"].avail /\ ResolveCellRecord
       THEN RepairCellOwner /\ Proceed
       ELSE Abort /\ UNCHANGED <<dirs, proj>>
    /\ UNCHANGED <<mount, store, outside, state, failures>>

\* projectsOwnerPreflight refuses a projects directory it cannot attribute.
RefuseProjects ==
    /\ stage \in TeamProjects /\ step = "enter" /\ Requested
    /\ rows[stage] = Nothing
    /\ ~ProjectsOwnerPreflight
    /\ Abort
    /\ UNCHANGED <<host, store, outside, state, failures>>

(***************************************************************************)
(* The managed service of the Team: resolveManagedProject, then            *)
(* PutManagedServiceIntent with the adoption of a ratified remount.        *)
(***************************************************************************)

\* A ratified remount at the same action revision is a conflict.
BadRemountAdopted == FALSE

RemountAdopted ==
    /\ want.act = svc.act
    /\ want.scope = svc.scope + 1
    /\ rows["team"].att = want.att
    /\ rows["team"].sup = svc.att
    /\ rows["team"].img # Nothing

IntentAccepted ==
    svc # Nothing => (svc = want \/ want.act > svc.act \/ RemountAdopted)

\* The row rebinds to the manifest's configuration: the new attestation has
\* to come back in a manifest before the service is admitted.
Rebound(row, cfg) == LET new == [row EXCEPT !.cfg = cfg]
                     IN [new EXCEPT !.att = Attest(new), !.sup = Nothing]

ServiceAdmitted ==
    /\ IntentAccepted
    /\ svc' = want
    /\ state' = "ready"
    /\ Proceed
    /\ UNCHANGED rows

ServiceDeferred ==
    /\ rows["team"].sup = want.att
    /\ state' = "deferred"
    /\ Proceed
    /\ UNCHANGED <<rows, svc>>

ServiceRefused ==
    /\ state' = "failed"
    /\ Abort
    /\ UNCHANGED <<rows, svc>>

ServiceRebound ==
    /\ Put("team", Rebound(rows["team"], want.cfg))
    /\ state' = "rebound"
    /\ Abort
    /\ UNCHANGED svc

ResolveManagedProject ==
    /\ stage = "service"
    /\ want # Nothing
    /\ LET matches == rows["team"].cfg = want.cfg
           resolves == ResolveRecord("team")
       IN /\ IF resolves THEN RepairDefaultOwner("team") ELSE UNCHANGED <<dirs, proj>>
          /\ \/ ~resolves /\ ServiceRefused
             \/ resolves /\ ~matches /\ ServiceRebound
             \/ /\ resolves /\ matches
                /\ IF rows["team"].att = want.att
                   THEN ServiceAdmitted \/ (~IntentAccepted /\ ServiceRefused)
                   ELSE ServiceDeferred \/ (rows["team"].sup # want.att /\ ServiceRefused)
    /\ UNCHANGED <<mount, outside, ops, failures>>

NoService ==
    /\ stage = "service"
    /\ want = Nothing
    /\ Proceed
    /\ UNCHANGED <<host, store, outside, state, failures>>

(***************************************************************************)
(* Restore and handoff: applyRestore and realizeHandoffWorkspace.  Both    *)
(* allocate a leaf, materialise the checkpoint into it, hand it to the     *)
(* sandbox and publish its row.  Every step is made again when the         *)
(* operation is resumed, and has to find what the earlier attempt left.    *)
(***************************************************************************)
Recoveries == {"restore_recovery", "handoff_recovery"}

At(k, s) == stage \in DOMAIN Operation /\ Operation[stage] = k /\ step = s

\* An operation that is over, that the manifest does not list, or that has
\* no row for its recovery to find.
SkipOperation(k) ==
    /\ At(k, "enter")
    /\ k \notin asked \/ ops[k] = "done" \/ (ops[k] = "none" /\ stage \in Recoveries)
    /\ Proceed
    /\ UNCHANGED <<host, store, outside, state, failures>>

\* PutRestoreOperation, PutContinuationHandoffPreparation.
PutOperation(k) ==
    /\ At(k, "enter")
    /\ k \in asked /\ ops[k] = "none" /\ stage \notin Recoveries
    /\ ops' = [ops EXCEPT ![k] = "allocating"]
    /\ StepTo("allocate")
    /\ UNCHANGED <<host, rows, svc, outside, state, failures>>

ResumeRestore ==
    /\ At("restore", "enter")
    /\ "restore" \in asked /\ ops["restore"] = "allocating"
    /\ StepTo("allocate")
    /\ UNCHANGED <<host, store, outside, state, failures>>

\* A preparation that names no target yet cannot be resumed.
RecoverHandoff ==
    /\ At("handoff", "enter")
    /\ "handoff" \in asked /\ ops["handoff"] = "allocating"
    /\ Abort
    /\ UNCHANGED <<host, store, outside, state, failures>>

\* The whole of realizeHandoffWorkspace is done again on the recorded target.
RecoverMaterializedHandoff ==
    /\ At("handoff", "enter")
    /\ "handoff" \in asked /\ ops["handoff"] = "materializing"
    /\ IF rows["handoff"] # Nothing /\ rows["handoff"].root
       THEN StepTo("allocate") ELSE Abort
    /\ UNCHANGED <<host, store, outside, state, failures>>

Entries == Cardinality({k \in Kinds : rows[k] # Nothing})

\* BeginRestoreAllocation, BeginHandoffAllocation.
BeginAllocation(k) ==
    /\ EnsureProjects
    /\ Put(k, NewRow("allocating", BornWith))
    /\ StepTo("leaf")

\* The row of this operation, or a new one.
Allocate(k) ==
    /\ At(k, "allocate")
    /\ \/ /\ rows[k] = Nothing
          /\ IF Entries < MaxEntries /\ ProjectsOwnerPreflight
             THEN BeginAllocation(k) ELSE Abort /\ UNCHANGED <<proj, rows>>
       \/ /\ rows[k] # Nothing
          /\ IF ~rows[k].root THEN StepTo("leaf")
             ELSE IF SelfAttesting(rows[k]) /\ VerifyOwnedRoot(k) THEN StepTo("mark")
             ELSE Abort
          /\ UNCHANGED <<proj, rows>>
    /\ UNCHANGED <<mount, dirs, ops, svc, outside, state, failures>>

AllocateRestore == Allocate("restore")
AllocateHandoff == Allocate("handoff")

\* finishRestoreAllocation, finishHandoffAllocation: the leaf is made, or an
\* earlier attempt made it and it is empty still.
CreateLeaf(k) ==
    /\ At(k, "leaf")
    /\ IF rows[k].dev = mount.dev /\ ProjectsOwnerPreflight
       THEN /\ EnsureProjects
            /\ IF dirs[k] = Nothing
               THEN SetDir(k, Dir("empty", "root", "runtime")) /\ StepTo("record")
               ELSE /\ IF dirs[k].data = "empty" THEN StepTo("record") ELSE Abort
                    /\ UNCHANGED dirs
       ELSE Abort /\ UNCHANGED <<dirs, proj>>
    /\ UNCHANGED <<mount, store, outside, state, failures>>

\* ... and its identity is recorded.
RecordLeaf(k) ==
    /\ At(k, "record")
    /\ Put(k, [Recorded(rows[k]) EXCEPT !.phase = "continuity_allocated"])
    /\ StepTo("mark")
    /\ UNCHANGED <<host, ops, svc, outside, state, failures>>

FinishRestoreAllocation == CreateLeaf("restore") \/ RecordLeaf("restore")
FinishHandoffAllocation == CreateLeaf("handoff") \/ RecordLeaf("handoff")

\* SetContinuationHandoffPhase; a restore has no such phase.
MarkMaterializing(k) ==
    /\ At(k, "mark")
    /\ ops' = IF k = "handoff" THEN [ops EXCEPT ![k] = "materializing"] ELSE ops
    /\ StepTo("materialize")
    /\ UNCHANGED <<host, rows, svc, outside, state, failures>>

\* openMaterializationBoundary: anchor, projects and leaf on one mount, the
\* projects directory with the anchor's owner, the leaf the recorded object.
ValidateMaterializationTarget(k) ==
    /\ proj = "agent"
    /\ dirs[k] # Nothing
    /\ rows[k].dev = mount.dev

\* HEAD, index, every file and its mode, and nothing else.
VerifyCompletedMaterialization(k) == dirs[k].data = "git"

\* The capture that would be made of the leaf now is the checkpoint.
VerifyWorkspace(k) == dirs[k].data = "git"

\* cloneWithoutCheckout and seedBaseTree write into the leaf until Materialize
\* has replaced the last file.
CloneWithoutCheckout(k) == SetDir(k, [dirs[k] EXCEPT !.data = "partial"]) /\ StepTo("fill")

\* An empty leaf is cloned into; what an earlier attempt left in a leaf is only
\* ever verified.
MaterializeNew(k) ==
    /\ At(k, "materialize")
    /\ IF ValidateMaterializationTarget(k) /\ dirs[k].data = "empty"
       THEN CloneWithoutCheckout(k)
       ELSE /\ IF ValidateMaterializationTarget(k) /\ VerifyCompletedMaterialization(k)
               THEN StepTo("chown") ELSE Abort
            /\ UNCHANGED dirs
    /\ UNCHANGED <<mount, proj, store, outside, state, failures>>

\* Index and worktree are those of the checkpoint.
Materialize(k) ==
    /\ At(k, "fill")
    /\ SetDir(k, [dirs[k] EXCEPT !.data = "git"])
    /\ StepTo("chown")
    /\ UNCHANGED <<mount, proj, store, outside, state, failures>>

\* The descendants first, the leaf last: until then no agent gets at it.
CompleteMaterializationOwner(k) ==
    /\ At(k, "chown")
    /\ IF VerifyWorkspace(k) /\ ValidateMaterializationTarget(k)
       THEN SetDir(k, [dirs[k] EXCEPT !.owner = "agent"]) /\ StepTo("complete")
       ELSE Abort /\ UNCHANGED dirs
    /\ UNCHANGED <<mount, proj, store, outside, state, failures>>

\* CompleteRestore wants a repository, CompleteHandoff the recorded root.
Completable(k) ==
    /\ SelfAttesting(rows[k])
    /\ IF k = "restore" THEN VerifyRoot(k) ELSE VerifyOwnedRoot(k)
    /\ VerifyPublishedOwner(k)

Complete(k) ==
    /\ At(k, "complete")
    /\ IF Completable(k)
       THEN /\ IF rows[k].phase = "ready" THEN UNCHANGED rows ELSE Put(k, Ready(rows[k]))
            /\ StepTo("end")
       ELSE Abort /\ UNCHANGED rows
    /\ UNCHANGED <<host, ops, svc, outside, state, failures>>

CompleteRestore == Complete("restore")
CompleteHandoff == Complete("handoff")

\* CompleteRestoreOperation; a handoff verifies the leaf once more before its
\* workspace is registered.
EndOperation(k) ==
    /\ At(k, "end")
    /\ IF k = "handoff" => VerifyWorkspace(k)
       THEN ops' = [ops EXCEPT ![k] = "done"] /\ Proceed
       ELSE Abort /\ UNCHANGED ops
    /\ UNCHANGED <<host, rows, svc, outside, state, failures>>

(***************************************************************************)
(* External: the backend selects a published Team project and ratifies     *)
(* the attestations that later reports carry; the agent works in the       *)
(* leaves it owns.                                                         *)
(***************************************************************************)
Manifest(cfg, att, scope, act) == [cfg |-> cfg, att |-> att, scope |-> scope, act |-> act]

BackendSelect ==
    /\ want = Nothing
    /\ "team" \in Reports
    /\ want' = Manifest(1, rows["team"].att, 1, 1)
    /\ UNCHANGED <<host, store, given, at, state, failures>>

BackendRatify ==
    /\ want # Nothing
    /\ "team" \in Reports
    /\ want.att # rows["team"].att
    /\ want' = [want EXCEPT !.att = rows["team"].att, !.scope = @ + 1]
    /\ UNCHANGED <<host, store, given, at, state, failures>>

AgentEdits(k) ==
    /\ dirs[k] # Nothing
    /\ dirs[k].owner = "agent" /\ dirs[k].data = "git"
    /\ SetDir(k, [dirs[k] EXCEPT !.data = "edited"])
    /\ UNCHANGED <<mount, proj, store, outside, at, state, failures>>

(***************************************************************************)
(* Faults: the daemon dies, or a call of the host fails; or the host       *)
(* restarts and mounts the image at the workspace path on any device, and  *)
(* the file there may have become a copy.                                  *)
(***************************************************************************)
DaemonDies ==
    /\ at # <<"restore_recovery", "enter">>
    /\ Fails
    /\ Abort
    /\ UNCHANGED <<host, store, outside, state>>

HostRestarts ==
    /\ Fails
    /\ Abort
    /\ mount' \in [dev : Devices, img : Images] \ {mount}
    /\ UNCHANGED <<proj, dirs, store, outside, state>>

(***************************************************************************)
(* Init: an empty workspace; one in which the user already has a projects  *)
(* directory with one directory in it; or one whose Team and cell an older *)
(* Runtime left with root, and without an image identity.                  *)
(***************************************************************************)
NoDirs == [k \in Kinds |-> Nothing]
NoRows == [k \in Kinds |-> Nothing]
UserDirs == {NoDirs,
             [NoDirs EXCEPT !["team"] = Dir("empty", "agent", "user")],
             [NoDirs EXCEPT !["cell"] = Dir("user", "agent", "user")]}
OlderDirs == [NoDirs EXCEPT !["team"] = Dir("git", "root", "older"),
                            !["cell"] = Dir("empty", "root", "older")]
OlderRow == Ready(Recorded(NewRow("created", Nothing)))

CatalogInit ==
    /\ mount = [dev |-> CHOOSE d \in Devices : TRUE, img |-> CHOOSE i \in Images : TRUE]
    /\ \/ /\ proj \in {Nothing, "agent", "root"}
          /\ dirs \in UserDirs
          /\ dirs # NoDirs => proj # Nothing
          /\ rows = NoRows
       \/ /\ proj = "root"
          /\ dirs = OlderDirs
          /\ rows = [NoRows EXCEPT !["team"] = OlderRow, !["cell"] = OlderRow]
    /\ derivable \in BOOLEAN
    /\ asked \in SUBSET Continuity
    /\ ops = [k \in Continuity |-> "none"]
    /\ stage = "restore_recovery" /\ step = "enter"
    /\ want = Nothing
    /\ svc = Nothing
    /\ state = "none"
    /\ failures = 0

\* MaterializeNew, from the phase of a handoff to the owner of the leaf.
MaterializeStep(k) ==
    \/ MarkMaterializing(k)
    \/ MaterializeNew(k)
    \/ Materialize(k)
    \/ CompleteMaterializationOwner(k)

ApplyRestore ==
    \/ SkipOperation("restore")
    \/ PutOperation("restore")
    \/ ResumeRestore
    \/ AllocateRestore
    \/ FinishRestoreAllocation
    \/ MaterializeStep("restore")
    \/ CompleteRestore
    \/ EndOperation("restore")

ApplyHandoff ==
    \/ SkipOperation("handoff")
    \/ PutOperation("handoff")
    \/ RecoverHandoff
    \/ RecoverMaterializedHandoff
    \/ AllocateHandoff
    \/ FinishHandoffAllocation
    \/ MaterializeStep("handoff")
    \/ CompleteHandoff
    \/ EndOperation("handoff")

TeamStep ==
    \/ NoRequest
    \/ AllocateDefault
    \/ CreateDefaultRoot
    \/ RecordDefaultRoot
    \/ InitializeGit
    \/ OwnDefaultBootstrap
    \/ PublishDefault
    \/ EnsureDefault

CellStep ==
    \/ AllocateCell
    \/ MaterializeCellRoot
    \/ FinishCellAllocation
    \/ EnsureCellDefault

Pass ==
    \/ ReobserveRemountedRoots
    \/ TeamStep
    \/ CellStep
    \/ RefuseProjects
    \/ ResolveManagedProject
    \/ NoService
    \/ ApplyRestore
    \/ ApplyHandoff

Backend == BackendSelect \/ BackendRatify

Faults ==
    \/ ProjectsInterrupted
    \/ GitInterrupted
    \/ CellInterrupted
    \/ DaemonDies
    \/ HostRestarts

CatalogNext == Pass \/ Backend \/ (\E k \in Kinds : AgentEdits(k)) \/ Faults

CatalogSpec == CatalogInit /\ [][CatalogNext]_catalogVars
                           /\ WF_catalogVars(Pass) /\ WF_catalogVars(Backend)

(***************************************************************************)
(* Properties.                                                             *)
(***************************************************************************)
CatalogTypeOK ==
    /\ mount \in [dev : Devices, img : Images]
    /\ proj \in {Nothing, "root", "agent"}
    /\ dirs \in [Kinds -> Directories \cup {Nothing}]
    /\ rows \in [Kinds -> Rows \cup {Nothing}]
    /\ derivable \in BOOLEAN
    /\ asked \subseteq Continuity
    /\ ops \in [Continuity -> {"none", "allocating", "materializing", "done"}]
    /\ stage \in Stages /\ step \in Steps
    /\ want \in Manifests \cup {Nothing}
    /\ svc \in Manifests \cup {Nothing}
    /\ state \in {"none", "ready", "deferred", "failed", "rebound"}
    /\ failures \in 0 .. MaxFailures

\* What Reports publishes as available is finished, wherever the daemon died
\* between the mkdir and the publication and whoever resumed it
\* (EnsureDefault, finishCellAllocation, CompleteRestore, CompleteHandoff):
\* the leaf exists, it is the sandbox's unless an older Runtime made it, and
\* for every lineage but the cell it holds a complete repository.
PublishedIsFinished ==
    \A k \in Reports : rows[k].avail =>
        /\ dirs[k] # Nothing
        /\ dirs[k].owner = "agent" \/ dirs[k].by = "older"
        /\ k # "cell" => dirs[k].data \in {"git", "edited"}

\* A directory the Runtime did not make is never taken over: the Team's root
\* is one its own exclusive mkdir created, and no root is recorded on a
\* directory with the user's files in it.
UserDirectoryIsLeftAlone ==
    \A k \in Kinds : (rows[k] # Nothing /\ rows[k].root) =>
        /\ dirs[k] # Nothing
        /\ dirs[k].data # "user"
        /\ k # "cell" => dirs[k].by # "user"

\* The rows say the truth about the directories, in every state a crash can
\* leave behind: what is offered is finished, what is the user's is not ours.
RowsAreTrue == PublishedIsFinished /\ UserDirectoryIsLeftAlone

\* A row with an image identity moves to another device only while that very
\* image is the one mounted (backingImageMatches, remountAttestationAdoption),
\* and the identity itself never changes once it is there.
RemountKeepsImage ==
    [][\A k \in Kinds : (rows[k] # Nothing /\ rows[k].img # Nothing) =>
          /\ rows'[k].img = rows[k].img
          /\ rows'[k].dev # rows[k].dev => mount.img = rows[k].img]_catalogVars

\* The strands that the code refuses on purpose or cannot get out of by
\* itself.  The Team's leaf is an orphan or half initialised, or it has to be
\* re-attested on an image that is a copy or was never recorded.
TeamStranded ==
    \/ dirs["team"] # Nothing /\ dirs["team"].by = "user"
    \/ dirs["cell"] # Nothing /\ dirs["cell"].by = "user"
    \/ /\ rows["team"] # Nothing
       /\ \/ rows["team"].phase = "allocated"
          \/ rows["team"].phase = "created" /\ rows["team"].dev # mount.dev
          \/ dirs["team"].data = "partial"
          \/ rows["team"].phase = "created" /\ dirs["team"].data = "edited"
          \/ rows["team"].img # mount.img
    \/ rows["cell"] # Nothing /\ rows["cell"].dev # mount.dev

\* A second remount came before the first was ratified and stored.
ServiceStranded ==
    svc # Nothing /\ (\/ svc.att \notin {rows["team"].att, rows["team"].sup}
                      \/ want.scope > svc.scope + 1)

\* A recovery that fails ends every pass before anything else is done: the
\* handoff was cut short before it had a target, the device moved under the
\* leaf, the clone was cut short, the agent was faster than the verification,
\* or the catalog is full.
OperationStuck(k) ==
    /\ k \in asked
    /\ \/ k = "handoff" /\ ops[k] = "allocating" /\ stage # "handoff"
       \/ /\ ops[k] \in {"allocating", "materializing"}
          /\ \/ rows[k] # Nothing /\ rows[k].dev # mount.dev
             \/ dirs[k] # Nothing /\ dirs[k].data \in {"partial", "edited"}
             \/ rows[k] = Nothing /\ Entries >= MaxEntries

Stuck == TeamStranded \/ \E k \in Continuity : OperationStuck(k)

\* A remount ends with the service admitted again: the row is re-attested,
\* the backend ratifies the new attestation and PutManagedServiceIntent adopts
\* it at the unchanged action revision, whenever the daemon died on the way.
RemountIsAdopted == []<>((state = "ready" /\ svc = want) \/ Stuck \/ ServiceStranded)

\* An interrupted allocation of the cell's leaf is resumed and published; an
\* interrupted restore or handoff is carried to its end.
AllocationFinishes ==
    /\ []<>((rows["cell"] # Nothing /\ rows["cell"].phase = "ready") \/ Stuck)
    /\ \A k \in Continuity :
          []<>(ops[k] = "done" \/ k \notin asked \/ Stuck \/ ServiceStranded)
=============================================================================
