# A verification project for the WarpMetal agent runtime

`warpmetald` is a daemon that keeps the sandboxes (Podman containers with a
workspace each) of one host in the state a remote control plane asks for. It is
a reconciler: every few seconds it fetches a manifest of desired state, brings
the host closer to it, and reports what it observed. All of its own state is in
one SQLite database and in directories on disk; it can die between any two
writes, and systemd starts it again.

This directory holds TLA+ modules that model the daemon's protocols, the TLC
configurations that check them, and TLAPS proofs of every safety property the
configurations check. `PROJECT.json` gives, for every definition, the source lines it models.

## The system

### One pass

`cmd/warpmetald/main.go` runs passes on a single goroutine:

1. `Expire`: checkpoint collection, then removal of expired temporary sandboxes;
2. the manifest is fetched and validated (without it the pass ends here);
3. `Reconcile`: `RecoverLocalSafety` and `RecoverCurrent` (interrupted captures
   and boundaries), recovery of continuations, restores and handoffs, then
   sandboxes, grants, setup operations (one per pass), manager policies, workspace
   requests, `Acknowledge` of continuity, source observation, managed services,
   cells, handoffs, `Apply` of continuity, continuations and restores, the manager
   lifecycle. An error ends the reconciliation of this pass;
4. the report is sent through `ReportSync`; then workspace applications are
   completed, the feedback loop runs and a final report is sent.

Beside it run the gateway's connection goroutines, the handlers of the physical
gate's socket, worker one-shots and setup runners; an operator may act on a
container by hand at any time.

### Inventory

| Component | State | Operations | Interacts with | What is hard | Correct when |
| --- | --- | --- | --- | --- | --- |
| Capture service `internal/continuity/service.go` | `continuity_operations`, the container's pause | `Capture`, `Checkpoint`, `Recover`, `thawOwned` | engine, registry, object store, store | a crash around pause and unpause; operator moves; a target that changes | a freeze is never forgotten; recovery precedes lifecycle; a torn read is refused |
| Checkpoint lifecycle `continuity/checkpoint_lifecycle.go`, `state/checkpoint_lifecycle.go`, `storage/checkpoint.go` | captures, checkpoints, pointers, collection intents, tombstones, objects on disk | publish, accept, plan, confirm, unlink, complete | capture service, S2 controller | a root that appears after planning; removals cut off between files; replay | what is named is readable; what is gone stays gone; quota |
| Coordinator `continuity/coordinator.go` | registrations, barriers, outbox, retirement tombstones; the helper's boundary | `Apply`, `Acknowledge`, `RecoverCurrent`, `ReportsCurrent` | helper in the sandbox, capture service, control plane | calls without an answer, crashes, relisting, rebinding | at most once; no boundary without a barrier; honest reports |
| Report sync `reconcile/report_sync.go` | `report_sync_state` | `Send`, `backoff` | control plane | attempts, rebuilds, window and context end one loop; crash after acceptance | what counts as acknowledged was received; a block can be lifted |
| Pass loop `cmd/warpmetald/main.go` | applied revision, policy lease, last validated manifest | `pass`, `Reconcile` | everything | failing stages, stale manifests, lost answers | the revision converges and means what it says |
| S2 controller `continuity/s2controller.go`, `s2bhandoff.go` | continuation, restore, handoff and release rows with a phase | apply, recover, release | helper, catalog, checkpoints, registrations | lost answers; sources and targets that advance | one native session per operation, consumed or released, truthfully reported |
| Sandboxes `reconcile/reconcile.go`, `containers/podman.go`, `storage/workspace.go` | sandbox rows, container, backup container, workspace image | create, replace, start, stop, restart, reset, remove, expire | Podman, disk | steps that fail half way or after their effect | rows and containers agree; deleted means gone |
| Setup operations `reconcile/reconcile.go` | setup rows | persist, start, execute, cancel | engine | re-execution after a crash | terminal states are final |
| Gateway and grants `internal/access`, `reconcileGrants` | live sessions, grant rows, key file | serve, terminate, grant, revoke | sandbox rows, handoffs | goroutines against the pass | no session outlives its grant |
| Managed services `reconcile/managed_service.go` | service rows, source rows, monitor policy | enrol, bind, start, stop, observe | supervisor, worker, insights | a start whose answer is lost; policies that change under a task | one session per generation; an acknowledged stop is down |
| Workspace catalog `internal/workspacecatalog` | projects, ownership records, leaves on the image | allocate, publish, attest, adopt a remount | disk, managed services, S2 | crashes, copied images, moving loop devices | rows are true of directories; ownership is exclusive |
| Manager and insights `internal/manager`, `internal/insights` | policies, findings, intents, runs, holds, outbox, cursor | collect, admit, review, steer, take over, recover | control plane, helper | retries of paid calls; policies that move | one effect per intent; honest reports |
| Cells `reconcile/cell_v3_*`, `state/cell_*` | cell, journal and execution rows | prepare, grant, execute, cancel, repair | adapter, control plane | renewed grants, late journal writes | receipts durable; outcomes final |
| Controller parents `reconcile/controller_parent.go`, `controller_application*.go` | parent and application rows | start, look up, stop, attest, submit | sandbox, control plane | an envelope pinned before it is submitted | created and submitted once |
| Physical gate, paid cases `internal/physicalgate`, `internal/qualification` | ledger rows, openings, enrolments, claims | admit, settle, probe, adopt, open | native processes, control plane | an answer lost between admission and settlement | one request in flight; spend within the case |
| Manifest rules `internal/model/model.go` | none | `ValidateManifest` | pass loop | rules that relate two sections | an admitted manifest can be resolved |
| Controller activity, agent kit, host probes, packaging | see `PROJECT.json` | | | | mostly validation or I/O |

## Modules

Every component module has the pass goroutine's place in the code between two
durable writes, or between a write and an external call: `pc`, or `at`, `pos`,
`place` or `stage` and `step` where two modules are extended together. Reads that
only feed the next write belong to the step of that write. `Crash` (`DaemonDies`,
`GatewayCrash`) may happen anywhere and keeps only what the module marks durable.
`Fault` (`AccessFault`, `Fails`) counts every failure (crash, lost write, call that
fails or loses its answer) against the bound named `MaxFaults` (`MaxAccessFaults`,
`MaxCellFaults`, `MaxManagerFaults`, `MaxFailures`).

A proof module may be about two component modules: the components declare
different variables and constants, and each theorem names the specification it
is about (`Spec`, `CatalogSpec`, `CellSpec`, `ManagerSpec`, `AccessSpec`,
`PassSpec`).

Definitions named `Bad...` are seeded faults. No action uses them; each one is a
plausible bug in the definition that follows it, and shows that a property would
notice the bug.

### ContinuityService

`Capture` inserts a row, inspects and pauses the container, confirms the pause,
owns it durably, reads, thaws and settles the row. One action per row transition
and engine call: `Request`, `BeginPause`, `Pause`, `ConfirmPause`, `BeginRead`,
`Read`, `Thaw`, `Record`, `Publish`, and an `...Error` action per failure path.
The UPDATE of a transition overwrites the pause columns, so `Transition` does.
A context that expires behaves like any failing call: the final transitions run
under `transitionIndependent`, whose error the code drops (`Settle`).

`Expire`, `Recover(o)`, `RecoverDone`, `Reconcile` and `EndPass` are the pass
around it. The environment may crash the daemon, reboot the host, pause and
unpause the container by hand, end its main process and let the last observation
of the source grow old. `pausedBy` and `torn` are history variables.

The workspace is one source in one sandbox; operations on other sandboxes touch
none of these rows. The pause records the workspace identity, container,
sandbox generation and lifecycle revision; all but the last are one fact here
(`avail`), because a difference makes `Registry.Resolve` fail.

### CheckpointLifecycle

Every row and directory of a capture's life: `Capture`, `PublishObject`,
`PutContinuityCapture`, `Captured`, `Verify`, `Accept`, `Succeed`, and the
collection `Plan`, `Skip`, `Confirm`, `Collect`, `CollectRefused`, `Complete`.
An object directory is whole, or was left by an interrupted removal torn (the
manifest there, blobs missing), as rubble (blobs there, no manifest) or empty:
these are the cases `Collect` tells apart. `Kept` is the retention loop, defined
as the one set that the newest-first loop produces. References taken by
continuations, restores and handoffs are `AddReference`/`DropReference`.
The count and byte limits of the policy are constants: the daemon never calls
`SetCheckpointPolicy`, and `ApplyCheckpointRetention` has no caller either.

### Coordinator

`applyOperation` step by step: intent barrier, `applying` report, acquire,
receipt, capture, checkpoint, release, barrier deletion, final report; the
recovery of barriers (`Reconcile`, `ReleaseRecovered`, `UnbarRecovered`,
`ReportRecovered`); registration metadata and retirement. `Service.Capture` and
`Checkpoint` appear by their outcome on the local operation (`loc`), which the
two modules above describe in detail: a capture that fails may leave its row
pending, failed, interrupted or in recovery_required.

The control plane issues operations, drops those it has a terminal report of,
withdraws or relists them, and revokes and reactivates the session binding; the
manifest then lists the revoked predecessor beside its successor. The helper is
external: acquire and release are idempotent and may take effect without an
answer. The comparison of a barrier with its operation (`coordinator.go:683-714`) is a
step that may fail, as often as `MaxFaults` allows: `HeldIsReleased` says nothing of a
barrier that conflicts for good, which ends every pass.

### ReportSync, ManifestRules, ControllerParents and RuntimePass

`ReportSync` is `Send` with its loop: `Post`, `Ack`, `Conflict` (a typed 409 with
a fresh manifest, a rebuild or a resync), `Backoff`, `Exhausted`. Time is counted
in units of the first backoff delay, without jitter
(`Rand` is unset in the daemon, which makes it zero). Each Send is given a context from
`Deadlines`; when it ends during a POST the attempt fails, and when it ends in the
backoff Send returns its error at once, neither accepted nor blocked. `received` is
what the control plane holds of the last report it accepted, and is no part of the
daemon's state.

`ManifestRules` holds the wire types and `ValidateManifest`: pure operators over
sequences of small records. What a single field must look like is one Boolean per
entry; every rule that relates two entries, or two sections, is kept.

`ControllerParents` says what one call of the parent and application code may
leave in its rows and in the sandbox.

`RuntimePass` composes the three into the daemon's pass: it extends them, adds the
manifests the control plane has served, the applied revision, the policy lease and
the parents, and lets `Send` post and rebuild real reports. The stages of
`Reconcile` that other modules describe are steps that succeed, fail, or return
early.

### SandboxLifecycle

One sandbox: its row, its container, the backup container of an image
replacement and its workspace image. One step per durable write and per Podman or
storage call, each of which may fail with or without its effect. `Reconcile`
creates, replaces with rollback, adopts, starts, stops, restarts and removes;
`Expire` removes on its own; setup operations are persisted, started, executed
and cancelled; the revision is written at the end of a clean pass.

### AccessGateway

Connection goroutines against `reconcileGrants`. A goroutine reads the grant, the
sandbox and the rows a handoff names one after the other, registers its session
and runs it; the pass writes the rows and `authorized_keys` and cuts sessions.
Only the session table is locked, so every read may be stale when it is used.

### OneShotOperation and Continuations

`OneShotOperation` is what the controller promises the control plane of one
continuation or handoff: at most one native session, which ends consumed or
released and never both, and reports that only say what has happened for good.
`Continuations` is the protocol that keeps the promise: rows with phases, a helper
whose answers are lost, records that move between recovery and application, and
manifests that drop and relist an operation. The refinement mapping takes the
native session and the number made from the helper's state, and the two reports
from the rows (`Outcome`). Operation identifiers are unique over both kinds
(`OpsAssumption`).

### ManagedService

One managed service: `resolve`, `enrol`, `bind`, policy read, dispatch mark, start,
publication, and the stop path, each a step of the pass; the worker one-shot in a
goroutine of its own; the collector's `ApplyPolicy` between passes; broker tasks
that restart the native process. An intent carries the desired revision it was
issued with (`des`); a row also says which one its observation belongs to (`odes`).

### WorkspaceCatalog

The rows of managed projects and the directories they attest. Four lineages own
one leaf each: the Team default, the cell workspace, a restore and a handoff. A
host restart may mount the image on another loop device, and the image file may be
a copy: its inodes are the same, so only the image identity of a row tells them
apart.

A pass walks the stages in the order of the code (`Following`): the recovery of
restores and handoffs, the observation of remounts, the Team's and the cell's
default, the service that binds the project, the handoff, the restore. Within a
stage `step` is the place between two of its effects: the row, the `mkdir`, the
owner, the clone, its verification, the publication. The materialisation of a
checkpoint (`storage/checkpoint.go`) is here, from the fresh leaf to the owner of
what was cloned; whether source, target and checkpoint of an operation still have
authority is in `Continuations`, and here they have it. `MaxEntries` is the limit
of the catalog, which a restore or a handoff may meet.

The backend is external. A Team's request names no configuration digest, so the
model lists it until the backend has selected the project; `CatalogInit` includes
hosts an older Runtime has left behind and directories of the user.

### ManagerCoordinator

The insights collector and the manager: batch, outbox, acknowledgement and cursor;
policy application and renewal; admission of an automatic review, its
reservation, run, report, guidance and settlement; the manual review; takeovers
of the owner; recovery at the start of a pass. Every call to the control plane or
the helper may fail before or after its effect. The pass walks `place`; `duties`
is what the loop of a place has still to visit, `inhand` the row it works on, and
`ret` the loop a call returns to. A finding carries its anchor: the batch that
reported it and how far its admission has come.

`negotiated` says whether the stored capability is of this sandbox generation and
has a native guard. `PolicyStatus` looks at guidance only over such a capability;
`guard` keeps with an applied policy whether it did. A new generation of the service
or the sandbox (`SourceRotates`) may lose or gain the guard. Of the helper, `starts`
counts paid starts, `more` the places of a pass that asked it for a further model
request of a run (`continue_review`), and `guid` is the guidance. Whether a
continuation really makes a request is the helper's choice; `DoneOnce` asks that
one follows a start and, of an automatic run, comes from the feedback phase only,
behind the gate of the current policy (`coordinator.go:224-230`). A helper that cannot
tell what came of a run answers `execution_unknown`, one of the bounded faults, and
a run it never saw is answered `failed`. The answer to `start_review` is the run's
first state or a refusal; a review that ends later is seen by an observation.

### CellServices

One cell entry in format 2 (launched in one pass) and in format 3 (prepared, receipt
reported, executed under a grant). A receipt carries a status and the state of the
child; a failed status becomes the row `failed`. An observation keeps both what the code
reports (`ready`) and the child it was made of: "admitted" is a `ready` whose child
still runs, so that a completion can be told from it. A journal write the pass stopped
waiting for may land later (`late`).

### PhysicalGate

The ledger of paid requests. A process asks the gate's socket to admit a request, sends
it once it has read "admitted", and asks to settle it with the provider's answer. It
does not ask again for a request it has sent: that is assumed of the process, so "none
is sent twice" is about several processes, handlers and restarts. Three accountings
share the ledger: imported baselines with domains adopted one after another, one runtime
joined with the backend's reservations, and several runtimes under one global prefix.
Money is counted in reservations. A settlement is signed for the operation that was
verified, compared as a whole (`provider_settlement.go:27-34`); an imported ledger may
have an unknown outcome in its last row only. `PlanAssumption` states the layout of a
plan: which runtime a preparation's requests use, and that several runtimes occur under
a global prefix only.

## Runs

All runs pass: TLC finds no violation. Symmetry is not used, because every run
checks a temporal property.

Each module states its type invariant (`TypeOK`, `PassTypeOK`, `CatalogTypeOK`,
`CellTypeOK`, `ManagerTypeOK`, `AccessTypeOK`). The runs list the properties about
behaviour only: the type invariants hold for every value of the constants, by the
theorems `TypeCorrect`, `PassTypeCorrect`, `CatalogTypeCorrect`, `CellTypeCorrect`,
`ManagerTypeCorrect` and `AccessTypeCorrect`.

| Run | States | Properties | What it shows |
| --- | --- | --- | --- |
| `capture` | 240,448 | `FreezeIsFenced`, `TornReadRefused`, `FreezeIsResolved` | a frozen container always has a row that `Recover` visits and reconciliation waits for it; a broken freeze is noticed; every freeze is lifted or ends in `recovery_required` |
| `checkpoints` | 485,739 | `CollectionIsSafe`, `PolicyIsKept`, `DeletionResumes` | what a Work or a reference names stays readable, tombstones are final, the policy bounds what is charged and only age retires, a durable deletion is carried through unless an object was torn |
| `coordinator` | 756,138 | `BoundaryHasBarrier`, `ReportIsTrue`, `NothingReverts`, `HeldIsReleased` | a boundary is never lost, taken twice or misreported; registrations never flip back; a held boundary is released while its operation stays listed and its source resolves |
| `pass` | 540,675 | `CreatedOnce`, `AcknowledgedWasReceived`, `BlockLifts`, `PassConverges` | a parent and its application are created once; a parent counts as acknowledged once its report was received; blocks lift; the applied revision reaches the desired one unless the code leaves no way on |
| `sandbox` | 1,021,712 | `DeletedIsGone`, `BoxNeverLost`, `SetupEndsOnce`, `Converges` | what becomes deleted has neither container nor workspace and only a revived row gets them again, a replacement never loses the container, a setup ends once, the sandbox reaches what is asked |
| `access` | 366,692 | `CutBeforeRevoked`, `RevokedIsCut` | the row says revoked only after the visible sessions are cut; a listed revoked grant ends without any session |
| `continuations` | 237,691 | `ImplementsOneShot`, `ReleaseSettles`, `HandoffResumes` | the protocol implements `OneShotOperation`; releases settle; an interrupted handoff resumes |
| `managed` | 747,866 | `OneSessionPerGeneration`, `AcknowledgedStopIsDown`, `IntentIsAnswered` | no second native session of a generation; an acknowledged stop stays down; an intent, a terminal one issued again included, is answered under its own revision |
| `catalog` | 458,922 | `RowsAreTrue`, `RemountKeepsImage`, `RemountIsAdopted`, `AllocationFinishes` | rows are true of the directories; identity follows the image; a remount is adopted; an interrupted allocation, restore or handoff is finished |
| `manager` | 1,223,767 | `DoneOnce`, `ToldIsTrue`, `RunsSettle` | nothing is paid for or steered twice; what the control plane is told is true; stored runs are settled |
| `cells` | 843,637 | `ToldIsTrue`, `NothingIsTakenBack`, `RetiredIsAnswered` | accepted receipts are durable, a cancelled child cannot act, outcomes and authority are never taken back, a revoked child is answered |
| `physical` | 419,449 | `OneInFlight`, `SpendWithinCase`, `SettledIsAccepted`, `OpeningCompletes` | one request in flight per case; reservations within its budget whatever is lost; a settled request is one the backend accepted; a joint opening completes |

`MCRuntimePass` also evaluates two assumptions over bounded inputs: `PlansAsMeant`
(a manifest with one entry in most sections and one after a rebuild are admitted,
one that still lists a registration of the old generation is refused) and
`ResolutionsAgree` (over every group of at most two registrations of a binding, the
acknowledgement resolves the group exactly when the manifest check accepts it, and
a handoff is confirmed against that registration; `ReadingsAgree` proves the
latter for every list).

### Bounds

- `capture`: two operations, which meet only in the container and in `todo`;
  `MaxRev = 2` is a changed revision; `MaxFaults = 2` lets a fault hit the recovery
  from a fault; `MaxMoves = 2` lets an operator both undo a pause and place one.
- `checkpoints`: three captures, so that one Work's pointer can move while another
  Work holds capacity; `MaxBytes = 3` for sizes 1, 2, 1 and `MaxPerBox = 2` are both
  met; `MaxAge`, `Grace` and `MaxTime` let a checkpoint retire and its grace end.
- `coordinator`: two operations and at most four faults and moves together while
  one has been issued, one once both have (`Budget`): revoke, reactivate, relist and
  a crash for one operation, every single fault for two that share a binding.
- `sandbox`: one setup, two images, two generations, two changes of the desired
  state, two faults, so that a rollback or the recovery from it can fail too.
- `access`: one grant and one connection (sessions meet only through their grant),
  three moves, one fault.
- `continuations`: one operation of each kind, two faults and two moves. Operations
  of one kind meet in the mutex only; the kinds meet in the catalog and the manifest.
- `managed`: three desired revisions, so that a stop is followed by a resume or a
  reissue; two generations, two monitor policies, one broker task and one fault.
- `catalog`: two devices, two images, two faults; `MaxEntries = 3` with four lineages,
  so the catalog fills up. The hosts to start from are a fresh one, one with
  directories of the user and one an older Runtime has left.
- `manager`: a finding with two revisions (`MaxFindingRev`), two batches, three
  policies, two faults. An Off that is applied over no guard while guidance is still
  pending, which `OffIsSettled` leaves out, occurs with three faults.
- `cells`: both formats, three desired revisions, two grants, two credentials, a
  refresh limit of one that is reached, two faults.
- `pass`: two attempts and one rebuild, so each bound of the loop ends it once; two
  revisions, two sequence numbers, one lease renewal, one fault; a manifest that is
  admitted and one that is refused. A POST takes two units and the window is five:
  contexts of 3 and 5 units end before the attempts are used up, as the daemon's do,
  one of 20 outlives them, as that of a caller without a deadline; so attempts,
  window and context each end a Send.
- `physical`: two handlers at once and one fault; three plans, one per accounting,
  with more requests than the smallest case allows. Deadlock is not checked: a case
  whose requests are used up, or whose only row stays unknown, is at its end.

### Fairness

Weak fairness of the pass (`WF_vars(Daemon)`, `Pass` or `Step`): the loop of
`main.go` does not stop, and `packaging/systemd/warpmetald.service:18-19` restarts a
daemon that died. The number of faults is bounded, so every liveness property says
what happens once faults stop. In addition:

- `CheckpointLifecycle`: `WF_vars(EndPass)`, a manifest is a finite list, so a pass ends;
- `AccessGateway`: `WF_vars(Serve(c))`, a goroutine is scheduled;
- `ManagedService`: the ends of a task, an execution and its goroutine (all run under
  deadlines); strong fairness of `PutManagedServiceIntent` and `ApplyPolicy`, two
  steps of the loop that a change of the manifest may disable again and again;
- `WorkspaceCatalog`: `WF_vars(Backend)`, the control plane selects a project and ratifies it;
- `ManagerCoordinator`: strong fairness of `HelperFinishes` and `ManualWithdrawn`: a
  run of the helper ends when it is up often enough, and the control plane withdraws
  a manual review that was answered;
- `CellServices`: a cancelled child is interrupted, and a journal write the pass
  abandoned ends (it has a deadline of its own);
- `PhysicalGate`: only the three steps of a joint opening, `PassOpening`, `PostOpening`
  and `GetOpening`, per runtime.

Nothing is assumed of crashes, operators, or anything else outside the daemon.

Some liveness properties carry the situations in which the code leaves no way on as
explicit hypotheses; the next section names them. `OpeningCompletes` assumes that
the backend's opening file is observed while it is fresh (120 s).

## Observations

Met while modelling; the properties above are stated so that they admit this
behaviour, and their comments say so.

Where code and documents disagree:

- *Operator pause*, `continuity/service.go:525` against
  `docs/AGENT_CONTINUITY_STORAGE.md:123`. `Recover` unpauses what it finds paused when
  the row owns a pause. If the capture's freeze is gone already (the unpause took
  effect and was not recorded) and the operator paused since, that pause is lifted.
- *Host reboot*, `service.go:531` against the same document, 125-127. A container that
  is neither paused nor running leaves the row `capturing`, and the error ends every
  pass before the reconciliation that would start the container.
- *Torn objects*, `storage/checkpoint.go:612` against 101-102. `Collect` verifies before
  it removes, so a removal cut off between a blob and `manifest.json` is refused in
  every later pass, and with it the whole of `Expire`.
- *Replay*, `service.go:567` against 78 and 102-103. An acceptance whose settling write
  was lost is replayed after a newer checkpoint of the Work was accepted, and the
  upsert moves the pointer back.
- *Empty receipts*, `coordinator.go:689` against 346-347. `RecoverCurrent` visits the
  barriers of listed operations only; `outcome_unknown` is terminal, so the control
  plane may drop the operation first.
- *Deadline*, `main.go:40` against `report_sync.go:32` and 150-151. The backoff of twelve
  attempts with an 8 s cap takes 63.75 s, the window is
  300 s, and the daemon grants 45 s: Send returns the error of its context, neither
  accepted nor blocked, and a block is never persisted (`ShortContextNeverBlocks`,
  `PassNeverBlocks`). The sequence numbers such a Send has used are not persisted
  either, so the next one uses them again.
- *Off*, `manager/coordinator.go:442` against
  `coordinator_integration_test.go:2096`. Off over a capability without a native guard
  of this sandbox generation, as after a new generation, is reported applied without
  a look at guidance that was sent before; `OffIsSettled` speaks of a guarded one.
- *Omitted grant*, `reconcile.go:1787` and 1797 against `README.md:124-125`. Sessions of a
  grant the manifest no longer lists are not cut.
- *Renewed grant*, `cell_v3_store.go:185` against the comment above it. A grant renewed
  after the effect is adopted.
- *Active task*, `docs/AGENT_MANAGED_SERVICE_RUNTIME.md:170-173` ("An active worker task
  is never restarted"). Whether the source is idle is read before the status probe; a
  task claimed in between is restarted by a change of the monitor policy.
- *Image rollback*, `podman.go:387` against `README.md:314-316`. A `Replace` that was
  interrupted and whose image was then changed back keeps the wrong image, or reports
  an ambiguous container for ever.

Where a fault leaves no way on:

- continuity: a source stale at restart turns an owned freeze into
  `recovery_required`, which nothing leaves; a barrier the helper does not know is
  deleted without a terminal report; a relisted retired operation ends `Apply` in
  every pass; an object published before a crash and not yet in a row is neither
  charged nor collected; an expired temporary sandbox is removed although one of its
  captures requires recovery; an object whose `manifest.json` went first counts as
  collected while blobs remain;
- report: a crash between a POST and the write of its sequence number makes the next
  Send reuse the number; a block lifts only with a newer desired revision;
- S2: a release the helper refuses, for whatever reason it names, is over as failed
  (`s2controller.go:509-515`), and a session that is only prepared then stays prepared;
  a crash between `workspace_registered` and the preparation strands a handoff
  (`s2bhandoff.go:1030`); an undelivered handoff release is not sent again (1492); a
  continuation whose daemon died between the row and the call is not sent again; a
  ready handoff that is consumed while listed ends every pass;
- sandbox: a crash between truncate and mkfs leaves a raw image
  (`storage/workspace.go:45-48`); `Remove` leaves an image backup container; a crash
  between the row "restarting" and `Engine.Restart` advances the generation; a held
  sandbox does not keep the revision from advancing; a deleted sandbox that is
  asked for again gets its workspace image while its row still says deleted; when it
  is deleted again before that row is written, `removeSandbox` returns at once and
  the image stays (`reconcile.go:1726`), so `DeletedIsGone` speaks of the step that
  writes "deleted" and not of every later state;
- managed services: a first start that was lost while the policy flipped strands the
  service; a re-registered generation waits while monitoring is on, and is refused as
  long as the row of the earlier one is not retired, so for ever after a failed
  retirement; a reissued lower action revision conflicts for ever, unless the service
  is down and asked for the same terminal state (`store.go:2774`): the three holds are
  what `IntentIsAnswered` leaves out (`HeldByEarlierGeneration`, `HoldsLaterAction`,
  `Stranded`); retired outbox rows are kept up to their cap;
- catalog: a second remount before the first was stored strands the service
  (`store.go:2852`); a crash after the row "allocated" aborts later passes; a partial
  git leaf is refused for ever; an interrupted allocation whose device changed never
  finishes; the path of an unmoved project does not check the image identity; a
  handoff cut short while it was "allocating" has no target that its recovery could
  resume, and a recovery that fails ends the pass before everything else; an agent
  that edits a restored leaf before it was verified strands the operation;
- manager: a policy that moved makes `Recover` fail in every pass
  (`manager/coordinator.go:1502-1504`), which `RunsSettle` leaves out together with a
  refused renewal (`RecoveryBlocked`); recovery continues a manual review whatever the
  policy is by then, and may so pay for a further request under Off (224); a failed
  batch stays, and an older finding is
  then refused in every pass; a transient read failure settles a start as zero;
- insights: a drain does not skip a source whose batch failed, a revision that is
  not open is not compared with the finding that is stored (`coordinator.go:1055`),
  and the acknowledgement of a batch sets the cursor without a comparison
  (`store.go:3785`). An older open revision can so be stored after a newer, closed
  one was acknowledged, and the cursor moves back. The next collection heals it
  unless the policy is superseded after a crash in between; the admission of the
  older revision is then deferred, because the control plane knows another one. So
  `CursorIsObserved` speaks of revisions that were open (`WasOpen`);
- cells: a lost acknowledgement of a preparation that is followed by an execute entry
  is refused for ever; a lost answer followed by a renewal conflicts; a retired child
  that was never observed stays unknown (`cell_v3_execute.go:426`);
- parents: a Send under a block returns nil without a POST, and a Send that rebuilt its
  report returns nil for the rebuilt one, while the pass goes on with the report it made
  before (`main.go:433-437`): its parents are marked acknowledged although the control
  plane has not received them. `AcknowledgedWasReceived` leaves these two out; a
  submission whose answer was lost while the revision advanced stays
  `dependency_pending`; a lost first start is looked up for ever; an envelope pinned
  before a stop conflicts after a resume;
- physical gate: a lost admission answer, a crash after admission, or a provider call
  without an answer leaves the row unknown, and so the case, by design
  (`rpc.go:117-118`); a refused settlement of a probe is not retried; a daemon restart
  makes the same access preparation conflict; a readback that expires before its
  acceptance strands the demand.

## Proofs

| Module | Theorems |
| --- | --- |
| `WorkspaceProofs` | of `ContinuityService`: `TypeCorrect`, `FreezeNeverForgotten`, `ReconcileIsSettled`, `FreezeFenced`, `TornReadIsRefused`; of `WorkspaceCatalog`: `CatalogTypeCorrect`, `CatalogInvariance`, `RowsAreTrueAlways`, `RemountKeepsImageAlways`, `StoreAcceptsEveryWrite` |
| `CheckpointLifecycleProofs` | `TypeCorrect`, `AcceptedCheckpointReadable`, `ReferencedCheckpointReadable`, `NoRowWithoutObject`, `TombstoneNeverResurrected`, `CollectionSafe`, `PolicyKept` |
| `CoordinatorProofs` | of `Coordinator`: `TypeCorrect`, `HeldBoundaryHasBarrier`, `KnownOutcomeReleased`, `AcceptedIsCheckpointed`, `RetiredStaysOver`, `ReportsTrue`, `ReleasedForGood`, `RegistrationStable`, `NothingReverted`; of `ManagerCoordinator`: `ManagerTypeCorrect`, `ManagerInvariance`, `DoneOnceAlways`, `ToldIsTrueAlways` |
| `RuntimePassProofs` | of `ReportSync`: `TypeCorrect`, `BlockIsLiftable`, `ShortContextNeverBlocks`; of the whole pass: `PassTypeCorrect`, `PassBlockIsLiftable`, `PassCreatesOnce`, `PassNeverBlocks`; of `ManifestRules`: `ReadingsAgree` |
| `SandboxLifecycleProofs` | of `SandboxLifecycle`: `TypeCorrect`, `BoxStays`, `GoneWhenDeleted`, `SetupStaysEnded`; of `AccessGateway`: `AccessTypeCorrect`, `CutStays` |
| `ContinuationsProofs` | of `Continuations`: `TypeCorrect`, `Refinement`, `OneSession`; of `CellServices`: `CellTypeCorrect`, `CellInvariance`, `ToldStays`, `NothingTakenBack` |
| `ManagedServiceProofs` | `TypeCorrect`, `OneSession`, `StoppedIsDown` |
| `PhysicalGateProofs` | `TypeCorrect`, `InFlight`, `Accepted`, `SpendStays` |

They hold for every value of the constants, from the named assumptions of the component
modules only: the distinguished values are not operations or rows, the limits are
natural numbers, sizes and Works are functions on the operations, a power of two is a
natural number, a plan has the layout `PlanAssumption` states, and a version 2 demand is
one case with one exposure (`ExposureAssumption`, the check of
`physical_gate_store.go:64`). For each component an inductive invariant is proved
(`Invariance`, `Inductive`, `PassInductive`, `CatalogInvariance`, `CellInvariance`,
`ManagerInvariance`), with one lemma per action or group of actions, and its theorems
are derived from it. Every invariant and action property the runs check, but
`AcknowledgedWasReceived`, is stated by a theorem: `RowsAreTrueAlways`,
`RemountKeepsImageAlways`, `DoneOnceAlways`, `ToldIsTrueAlways`, `ToldStays`,
`NothingTakenBack`, `SpendStays`, `CutStays`, `FreezeFenced`, `CollectionSafe`,
`PolicyKept`, `ReportsTrue`, `NothingReverted`, `BoxStays`, `GoneWhenDeleted`,
`SetupStaysEnded`, `Refinement`, `StoppedIsDown`, `InFlight`, `Accepted` and
`PassCreatesOnce` state the very properties the runs check, and so do `OneSession` of
`ManagedServiceProofs`, `TornReadIsRefused` and `HeldBoundaryHasBarrier`.

- `ContinuityService`: that a settled row holds no freeze depends on where the
  capture stands (`StepInv`); that reconciliation sees settled rows depends on
  which rows `Recover` has still to visit (`RecoverInv`); `TornInv` follows a freeze
  that was broken while it was read.
- `CheckpointLifecycle`: a rooted checkpoint is never confirmed, so a pointer's
  object is whole; the invariant adds which rows and directories each step may
  find, and that a condemned capture cannot be accepted. `PolicyKept` adds that
  everything kept or protected was accepted and so fits, hence only age retires
  it. Its bytes are a sum over a finite set: `SumsExist`, `SumsUnique`,
  `BytesUnion`, `BytesRemove` and `BytesMonotone` say what the recursive
  definition of a sum needs. They are shown by induction on the subsets of a
  finite set, as the minimal element of a well-founded order (`SubsetInduction`).
- `Coordinator`: `FreshInv` says an operation without report and tombstone has never
  run, `StepInv` ties the step to the rows of its operation; together they make a
  second acquire impossible. `RegInv` orders registration, manifest and control
  plane.
- `ReportSync`: a block names a revision that a Send has observed
  (`ObservedNotAhead`). `ShortContextNeverBlocks` assumes what is so of the daemon's
  limits: every context ends within the sum of the delays of all attempts
  (`SleptBelow`, `ContextIsShort`: 180 units of 255) and before the window. A Send at
  its n-th attempt has slept n - 1 delays (`InTime`), so its context ends first,
  whatever is answered and however long a POST takes.
- `RuntimePass`: a parent has a session only after its dispatch was recorded
  (`ParentOK`), and what was submitted is the pinned envelope (`AppOK`): no order of
  lost answers, redrives and revisions creates either twice. `Where` says which
  manifest a stage of the pass works for. The steps of `ReportSync` keep their
  invariants inside the pass, where the manifests are the ones served so far.
- `SandboxLifecycle`: `BoxesPlaced` says which of the two containers exists at each
  step of a replacement and of its rollback, `RowTrue` ties container, workspace
  and row, `BoxesReal` says that a container's image is known. The three properties
  are about steps; `StepKeeps` proves them together with the invariant, action by
  action (`BoxKept`, `GoneStep`, `SetupKept`).
- `Continuations`: a refused release is over without an outcome of the session, which
  `OneShotOperation` allows: it does not promise that a failed release leaves a session
  consumed. `ContInv` and `HandInv` say what the row's phase and the place of
  the pass tell about the helper's session, and `MadeInv` that its number follows
  from its state. Then each step is a step of `OneShotOperation`, of one operation,
  or a stutter.
- `ManagedService`: a pass works for the intent its row holds (`JobInv`); a desired
  revision names one issue of an intent (`IssueInv`); a session was made under a
  row that is marked or was superseded (`MarkedInv`), so a first start finds none;
  `EndedInv` says what the steps of a stop have already ended when the
  acknowledgement is written; the monitor of a process is read
  and changed only for a row that is ready (`MonitorInv`).
- `PhysicalGate`: a request is followed through the client that waits for an answer
  (`ClientInv`), the goroutine that serves the call (`HandlerInv`), the row of its
  runtime (`LedgerInv`) and what the provider was sent (`SentInv`). A request in
  flight owns its runtime's ledger; with several runtimes, the global prefix adds
  that a later row exists only once the earlier ones are settled at the backend.
  Connections are a set of goroutines of any size, crashed clients included.

  `SpendStays` adds up charges (`CaseInv`): an open request counts at its full
  reservation and an answered one at its usage, an answer once journalled stays,
  and what a step adds to the sum over the rows, or over the reserved prefix when
  there are several runtimes, has just been fitted under the exposure. The sums are
  functions of finite sets of requests: that a sum grows with its set and with its
  summands is proved by induction over subsets.
- `WorkspaceCatalog`: what a row says of its leaf is `Sound`, which holds of all
  lineages wherever the pass is, and also says that an attestation is the one of
  the row as it is; what a step may rely on is `Place`, for the one lineage the
  stage works on; a project the backend wants has a row (`WantInv`). `Touched` and
  `Untouched` say once that a step changes one lineage only. `StoreAcceptsEveryWrite`
  follows: every write of the pass satisfies the replacement guards of the store.
- `CellServices`: a receipt that is more than pending is the child's own and the
  one that was acknowledged (`ReceiptInv`); a write the pass has given up on is one
  the journal would still take and changes nothing that was told (`LateInv`); a
  cancelled preparation has a child that is over (`CancelledInv`, `AnswerInv`); an
  exhausted row says so in its report (`OutcomeInv`); `PlaceInv` says what a
  position of the pass has established.
- `ManagerCoordinator`: `Agree` relates the row of a run to what the helper has done
  and the control plane has acknowledged, for each run apart. That the row in hand
  is in the phase its place needs is `HandInv`, that a loop visits rows that exist
  is `DutyInv`. The outbox needs an order: a batch with a newer revision was built
  later (`OrderInv`), and reservations are not younger than the finding's anchor
  (`AnchorInv`); with what the batches know of open revisions (`CursorInv`) this
  gives the cursor. `GateInv` says that the row of an automatic run keeps its origin while
  it runs, and `FenceInv` that a further request follows a start and, of an automatic
  run, was never made by the recovery.
- `AccessGateway`: a session is cut only while it is in the table, and while the
  pass waits, the cut sessions of the grant in hand are among those it waits for
  (`CutInv`); goroutines that register or end meanwhile do not change that.
- `ManifestRules`: a group of registrations the manifest check admits stands for one
  registration, in either order of the two, and a handoff is confirmed against that
  one or none (`ReadingsAgree`); a succession cannot be read backwards, because it
  advances the revision (`SuccessionIsOneWay`).

Model-checked only: the liveness properties (`FreezeIsResolved`, `DeletionResumes`,
`HeldIsReleased`, `BlockLifts`, `PassConverges`, `Converges`, `RevokedIsCut`,
`ReleaseSettles`, `HandoffResumes`, `IntentIsAnswered`, `RemountIsAdopted`,
`AllocationFinishes`, `RunsSettle`, `RetiredIsAnswered`, `OpeningCompletes`), because
liveness under fairness and ENABLED are beyond the prover; `AcknowledgedWasReceived`,
whose proof needs the order in which workspaces are served; and the assumptions of
`MCRuntimePass` that evaluate `ValidateManifest` on whole manifests. That
`SelectSeq` returns a sequence of what it was given is an induction over data and a
hypothesis of `ReadingsAgree`.

## Plan

The core and the protocols around it are modelled, and every safety property a run
checks is proved but one, `AcknowledgedWasReceived`. What would come next, in this order:

1. the controller's first task, stages and progress facts
   (`reconcile/controller_*.go`), after `ControllerParents`;
2. two sandboxes in `SandboxLifecycle`, which share the host's capacity;
3. the fencing of `Continuations` and of the materialisation in `WorkspaceCatalog` in
   one module: the two meet in the phase of a restore or handoff, and an authority
   that ends between allocation and completion is in the first only.

## Not modelled

- The controller's activity, first task, stages and reviewer completion, the
  `child_*` documents, most of `internal/qualification` and
  `internal/workflowcontract`: validation of signed documents and append-only rows.
- Wire formats and single-field validation (`internal/model`), Podman command lines,
  the network helper, file layout and digests of an object, kernel-level identity
  checks of the physical gate, host probes, the agent kit, installers: they keep no
  protocol state, or are I/O whose outcome is a nondeterministic choice.
- Code the daemon never reaches: `Service.Materialize`, `Coordinator.Recover`,
  `SetCheckpointPolicy`, `ApplyCheckpointRetention`, the catalog's `Refresh`, and the
  offline path of the physical gate (no caller outside the tests sets a permit's
  `Offline`; `resolvePhysicalRequest` returns `ErrSourceLocalGrantPending`).
