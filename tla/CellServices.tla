---------------------------- MODULE CellServices ----------------------------
(***************************************************************************)
(* One cell-owned service of internal/reconcile: format 2 launches its     *)
(* child in one pass (managed_service.go), format 3 first prepares it,     *)
(* reports the receipt and executes only under a grant the control plane   *)
(* issues for that receipt (cell_v3_prepare.go, cell_v3_execute.go).  The  *)
(* rows are those of internal/state (cell_store.go, cell_v3_store.go,      *)
(* cell_v3_execution_store.go).  The adapter inside the sandbox and the    *)
(* control plane are external.                                             *)
(*                                                                         *)
(* Definitions named Bad... are seeded faults, used by no action: each     *)
(* stands in for the definition after it to show a property would notice.  *)
(***************************************************************************)
EXTENDS Naturals, FiniteSets

CONSTANTS None,        \* no row, no answer
          Formats,     \* the formats an entry may have: a subset of {2, 3}
          MaxRev,      \* bound: desired revisions of the entry
          MaxGrants,   \* bound: execution grants the control plane issues
          MaxReceipts, \* bound: credentials the adapter adopts
          MaxModes,    \* bound: repairs of the session mode
          RefreshMax,  \* cellV3SessionModeRefreshMax
          MaxCellFaults \* bound: crashes, failed calls and lost answers

ASSUME CellBounds ==
    /\ Formats \subseteq {2, 3} /\ Formats # {}
    /\ {MaxRev, MaxGrants, MaxReceipts, MaxModes, RefreshMax, MaxCellFaults} \subseteq Nat
    /\ MaxRev # 0

Grants == 1..MaxGrants
Receipts == 0..MaxReceipts
States == {"active", "paused", "stopped", "retired"}
Phases == {"prepare", "execute", "launch"}
Entries == [ph : Phases, des : States, rev : 1..MaxRev, grant : 0..MaxGrants,
            mode : {"create_initial", "lookup_only"}]
(* What a report says: its ObservedState with the state of its child.  A    *)
(* ready one whose child still runs is "admitted", one whose child ended is *)
(* "ready".                                                                 *)
Observations == {"unknown", "admitted", "ready", "failed", "cancelled", "exhausted"}
ChildStates == {"absent", "prepared", "running", "terminal", "exhausted"}
Outcomes == {"succeeded", "failed", "interrupted"}

Optional(S) == S \union {None}
NoJob == [e |-> None, ans |-> None, r |-> 0]
NoReport == [obs |-> None, rev |-> 0, des |-> None]
Report(obs, e) == [obs |-> obs, rev |-> e.rev, des |-> e.des]

CellReports == [obs : Observations, rev : 1..MaxRev, des : States] \union {NoReport}
Preparations == [e : Entries, phase : {"pending", "prepared", "reported"}, receipt : Receipts,
                 parent : BOOLEAN, refreshes : 0..RefreshMax, ctl : CellReports]
Executions == [grant : Grants, rep : CellReports,
               phase : {"pending", "admitted", "terminal", "exhausted", "unknown"}]
CellRows == [e : Entries, phase : {"pending", "terminal", "failed", "exhausted", "unknown"},
             exh : BOOLEAN, rep : CellReports]
Children == [st : ChildStates, out : Optional(Outcomes), guard : 0..MaxGrants,
             receipt : Receipts, stop : BOOLEAN]
Answers == [kind : {"receipt", "failed", "refused", "unknown"}, st : Optional(ChildStates),
            out : Optional(Outcomes)]
Jobs == [e : Optional(Entries), ans : Optional(Answers), r : Receipts]
Positions == {"idle", "send", "journal", "prepare", "lease", "received", "report", "acked",
              "execute", "effect", "answered", "quiesce", "cancel", "stopped",
              "launch", "server", "launched", "hold", "revoke", "revoked"}

ASSUME NoRow ==
    /\ None \notin Entries \union Preparations \union Executions \union CellRows \union Answers
    /\ None \notin Observations \union ChildStates \union Outcomes \union States

VARIABLES fmt,     \* the format of the entry
          want,    \* the manifest entry: phase, state, revision, grant, mode
          expired, \* the grants whose expiry has passed
          heard,   \* the control plane: accepted receipt, last reported observation
          row,     \* cell_operations (format 2)
          op,      \* cell_v3_operations with its native context
          exe,     \* cell_v3_executions
          child,   \* the child inside the sandbox and its admission guard
          late,    \* a journal write the pass stopped waiting for
          pos, job, \* position and locals of the pass
          modes, cellFaults

control == <<want, expired, heard>>
store == <<row, op, exe>>
cellVars == <<fmt, control, store, child, late, pos, job, modes, cellFaults>>

CellInit ==
    /\ fmt \in Formats
    /\ want = [ph |-> IF fmt = 2 THEN "launch" ELSE "prepare", des |-> "active", rev |-> 1,
               grant |-> 0, mode |-> "create_initial"]
    /\ expired = {} /\ heard = [receipt |-> 0, obs |-> None]
    /\ row = None /\ op = None /\ exe = None /\ late = None
    /\ child = [st |-> "absent", out |-> None, guard |-> 0, receipt |-> 0, stop |-> FALSE]
    /\ pos = "idle" /\ job = NoJob /\ modes = 0 /\ cellFaults = 0

(***************************************************************************)
(* The control plane and the child                                         *)
(***************************************************************************)
ControlsDesired(des) ==
    /\ want.rev < MaxRev /\ want.des \notin {des, "retired"}
    /\ want' = [want EXCEPT !.des = des, !.rev = @ + 1]
    /\ UNCHANGED <<fmt, expired, heard, store, child, late, pos, job, modes, cellFaults>>

(* The accepted receipt is answered by an execute entry with a grant.       *)
IssueGrant ==
    /\ want.ph = "prepare" /\ want.des = "active" /\ heard.receipt # 0 /\ MaxGrants > 0
    /\ want' = [want EXCEPT !.ph = "execute", !.grant = 1]
    /\ UNCHANGED <<fmt, expired, heard, store, child, late, pos, job, modes, cellFaults>>

(* An expired grant nobody reported as consumed is issued again.            *)
RenewGrant ==
    /\ want.ph = "execute" /\ want.des = "active" /\ want.grant \in expired
    /\ want.grant < MaxGrants /\ heard.obs \in {None, "unknown"}
    /\ want' = [want EXCEPT !.grant = @ + 1]
    /\ UNCHANGED <<fmt, expired, heard, store, child, late, pos, job, modes, cellFaults>>

(* The mode of a first preparation is repaired.                             *)
RepairMode ==
    /\ fmt = 3 /\ want.ph = "prepare" /\ want.des = "active" /\ modes < MaxModes /\ modes' = modes + 1
    /\ want' = [want EXCEPT !.mode = IF @ = "create_initial" THEN "lookup_only" ELSE "create_initial"]
    /\ UNCHANGED <<fmt, expired, heard, store, child, late, pos, job, cellFaults>>

GrantExpires ==
    /\ want.grant \notin expired \union {0}
    /\ expired' = expired \union {want.grant}
    /\ UNCHANGED <<fmt, want, heard, store, child, late, pos, job, modes, cellFaults>>

ChildEnds ==
    /\ child.st = "running" /\ ~child.stop
    /\ \/ \E out \in {"succeeded", "failed"} : child' = [child EXCEPT !.st = "terminal", !.out = out]
       \/ child' = [child EXCEPT !.st = "exhausted"]
    /\ UNCHANGED <<fmt, control, store, late, pos, job, modes, cellFaults>>

ChildInterrupted ==
    /\ child.st \in {"prepared", "running"} /\ child.stop
    /\ child' = [child EXCEPT !.st = "terminal", !.out = "interrupted"]
    /\ UNCHANGED <<fmt, control, store, late, pos, job, modes, cellFaults>>

(***************************************************************************)
(* Steps of the pass                                                       *)
(***************************************************************************)
Go(to, j) == pos' = to /\ job' = j
EndCellPass == Go("send", [NoJob EXCEPT !.e = job.e])
CellFault == cellFaults < MaxCellFaults /\ cellFaults' = cellFaults + 1

(* The daemon dies; the rows and the sandbox stay.                          *)
CellCrash ==
    /\ (pos # "idle" \/ late # None) /\ CellFault
    /\ pos' = "idle" /\ job' = NoJob /\ late' = None
    /\ UNCHANGED <<fmt, control, store, child, modes>>

(* What a pass checks or fetches before its first native effect.  Each      *)
(* failure ends the pass and leaves the journal as it is.                   *)
BindStages == {"manager_binding"}
RouteStages == {"manager_route"}
StatusStages == {"setup_operation", "status_probe"}
StartStages == {"native_start"}
ParentStages == {"controller_parent_probe", "controller_parent_role"}
LeaseFetchStages == {"credential_lease"}
MaterialStages == {"credential_binding", "credential_material"}
ProvisionStages == {"credential_provision"}
LookupStages == {"worktree_lookup"}
MaterializeStages == {"worktree_materialize"}
InstructionStages == {"instruction_fetch"}
ProductStages == {"product_control"}
QualificationStages == {"qualification"}
EvidenceStages == {"qualification_evidence"}
SandboxStages == {"sandbox_generation"}

GateStages == ProductStages \union QualificationStages
WorktreeStages == LookupStages \union MaterializeStages
ServerStages == BindStages \union StatusStages \union StartStages \union RouteStages
LeaseStages == LeaseFetchStages \union MaterialStages

PrepareStages(e) == GateStages \union SandboxStages \union WorktreeStages \union InstructionStages
                    \union (IF e.mode = "lookup_only" THEN ParentStages ELSE ServerStages)

RefusedAt(stages) == /\ stages # {} /\ CellFault /\ EndCellPass
                     /\ UNCHANGED <<fmt, control, store, child, late, modes>>

(***************************************************************************)
(* The journal of a preparation                                            *)
(***************************************************************************)
NewOperation(e) == [e |-> e, phase |-> "pending", receipt |-> 0, parent |-> FALSE, refreshes |-> 0, ctl |-> NoReport]

(* Of the fields fixed by a preparation only the session mode ever differs. *)
SamePreparationIdentity(a, b) == a.mode = b.mode

(* A renewal: another grant of the same preparation that expires later.     *)
Renews(g, older) == g > older

(* The grant is of the receipt the journal holds: a grant is only issued    *)
(* for the receipt the control plane accepted.                              *)
ValidateExecutionAuthority(e, receipt) == e.ph = "execute" /\ e.grant # 0 /\ receipt # 0 /\ receipt = heard.receipt

SessionModeRefreshAllowed(e) ==
    /\ op.phase = "pending" /\ op.refreshes < RefreshMax
    /\ ~op.parent /\ op.receipt = 0 /\ op.e.ph = "prepare" /\ e.ph = "prepare"

RenewalAllowed == exe # None => exe.phase = "pending"

ValidTransition(e) ==
    /\ ~SamePreparationIdentity(op.e, e) => SessionModeRefreshAllowed(e)
    /\ e.rev >= op.e.rev
    /\ op.e.ph = "execute" => e.ph = "execute"
    /\ (op.e.grant # 0 /\ op.e.grant # e.grant) => (RenewalAllowed /\ Renews(e.grant, op.e.grant))
    /\ IF e.ph = "execute" THEN op.phase = "reported" /\ ValidateExecutionAuthority(e, op.receipt)
       ELSE e.grant = 0

JournalAccepts(e) == IF op = None THEN e.ph = "prepare" ELSE ValidTransition(e)

Journaled(e) == IF op = None THEN NewOperation(e)
                ELSE [op EXCEPT !.e = e, !.refreshes = IF @ < RefreshMax /\ op.e.mode # e.mode THEN @ + 1 ELSE @]

Next3(e) == IF e.des # "active" THEN "quiesce" ELSE IF e.ph = "prepare" THEN "prepare" ELSE "execute"

(* The write is bounded: the pass waits for it, or gives up on it and it    *)
(* may still land.  No second write is started meanwhile.                   *)
JournalFree == late = None

PutCellV3Operation ==
    /\ pos = "journal" /\ JournalFree
    /\ \/ /\ JournalAccepts(job.e) /\ op' = Journaled(job.e) /\ Go(Next3(job.e), job)
          /\ UNCHANGED <<late, cellFaults>>
       \/ /\ ~JournalAccepts(job.e) /\ EndCellPass /\ UNCHANGED <<op, late, cellFaults>>
       \/ /\ JournalAccepts(job.e) /\ CellFault /\ EndCellPass /\ late' = Journaled(job.e) /\ UNCHANGED op
    /\ UNCHANGED <<fmt, control, row, exe, child, modes>>

JournalBusy ==
    /\ pos = "journal" /\ ~JournalFree /\ EndCellPass
    /\ UNCHANGED <<fmt, control, store, child, late, modes, cellFaults>>

LateWriteEnds ==
    /\ late # None /\ late' = None
    /\ op' \in {late, op}
    /\ UNCHANGED <<fmt, control, row, exe, child, pos, job, modes, cellFaults>>

(* The manifest is refused unless a grant comes with the execute phase, and *)
(* with it only.                                                            *)
ValidateManagedServiceV2(e) == e.ph = "launch" /\ e.grant = 0
ValidateManagedServiceV3(e) == e.ph \in {"prepare", "execute"} /\ (e.ph = "execute" <=> e.grant # 0)

BeginPass ==
    /\ pos = "idle" /\ IF fmt = 2 THEN ValidateManagedServiceV2(want) ELSE ValidateManagedServiceV3(want)
    /\ Go(IF fmt = 3 THEN "journal" ELSE IF want.des = "retired" THEN "hold"
          ELSE IF want.des = "active" THEN "launch" ELSE "send",
          [NoJob EXCEPT !.e = want])
    /\ UNCHANGED <<fmt, control, store, child, late, modes, cellFaults>>

(***************************************************************************)
(* Prepare                                                                 *)
(***************************************************************************)
PrepareRefused ==
    /\ pos \in {"prepare", "report"}
    /\ RefusedAt(IF pos = "report" \/ op.phase # "pending" THEN GateStages ELSE PrepareStages(job.e))

\* A prepared child is prepared once more instead of replayed.
BadReplayPreparation ==
    /\ pos = "prepare" /\ op.phase # "pending" /\ Go(IF op.phase = "prepared" THEN "lease" ELSE "report", job)
    /\ UNCHANGED <<fmt, control, store, child, late, modes, cellFaults>>

ReplayPreparation ==
    /\ pos = "prepare" /\ op.phase # "pending" /\ Go("report", job)
    /\ UNCHANGED <<fmt, control, store, child, late, modes, cellFaults>>

(* The parent and the worktree are pinned before the adapter is called.     *)
PutCellV3NativeContext ==
    /\ pos = "prepare" /\ op.phase = "pending"
    /\ op' = [op EXCEPT !.parent = TRUE] /\ Go("lease", job)
    /\ UNCHANGED <<fmt, control, row, exe, child, late, modes, cellFaults>>

LeaseRefused == pos = "lease" /\ RefusedAt(LeaseStages)

(* The adapter binds a credential to the child and returns the receipt.     *)
PrepareEffect ==
    /\ pos = "lease" /\ child.st \in {"absent", "prepared"}
    /\ \E r \in {child.receipt, child.receipt + 1} \intersect 1..MaxReceipts :
         /\ child' = [child EXCEPT !.st = "prepared", !.receipt = r]
         /\ \/ Go("received", [job EXCEPT !.r = r]) /\ UNCHANGED cellFaults
            \/ CellFault /\ EndCellPass
    /\ UNCHANGED <<fmt, control, store, late, modes>>

PrepareEffectRefused ==
    /\ pos = "lease" /\ child.st \notin {"absent", "prepared"} /\ EndCellPass
    /\ UNCHANGED <<fmt, control, store, child, late, modes, cellFaults>>

(* The receipt is durable before it is reported.                            *)
PersistReceipt ==
    /\ pos = "received" /\ Go("report", [job EXCEPT !.r = 0])
    /\ op' = [op EXCEPT !.phase = "prepared", !.receipt = job.r]
    /\ UNCHANGED <<fmt, control, row, exe, child, late, modes, cellFaults>>

ReportCellPreparation ==
    /\ pos = "report"
    /\ \/ /\ heard.receipt \in {0, op.receipt} /\ heard' = [heard EXCEPT !.receipt = op.receipt]
          /\ \/ Go("acked", job) /\ UNCHANGED cellFaults
             \/ CellFault /\ EndCellPass
       \/ heard.receipt \notin {0, op.receipt} /\ EndCellPass /\ UNCHANGED <<heard, cellFaults>>
    /\ UNCHANGED <<fmt, want, expired, store, child, late, modes>>

MarkReported ==
    /\ pos = "acked" /\ EndCellPass
    /\ op' = [op EXCEPT !.phase = "reported"]
    /\ UNCHANGED <<fmt, control, row, exe, child, late, modes, cellFaults>>

(***************************************************************************)
(* The effects of the adapter, by what it answers                          *)
(***************************************************************************)
Answered(n) == [kind |-> "receipt", st |-> n.st, out |-> n.out]
Refusal == [kind |-> "refused", st |-> None, out |-> None]
Unknown == [kind |-> "unknown", st |-> None, out |-> None]
(* A receipt whose status is failed still names the state of the child.     *)
Failure(n) == [kind |-> "failed", st |-> n.st, out |-> n.out]

Admissible(g) == child.st = "prepared" /\ ~child.stop /\ child.guard = 0 /\ g \notin expired
Admitted(g) == [child EXCEPT !.st = "running", !.guard = g]

(* The guard admits one input of a child, under one grant, before it        *)
(* expires; a repeat of that grant is answered with the state of the child. *)
Admit(g) ==
    \/ /\ Admissible(g)
       /\ child' = Admitted(g) /\ job' = [job EXCEPT !.ans = Answered(Admitted(g))]
    \/ child.guard = g /\ UNCHANGED child /\ job' = [job EXCEPT !.ans = Answered(child)]
    \/ /\ child.guard = 0 /\ g \in expired
       /\ UNCHANGED child /\ job' = [job EXCEPT !.ans = Unknown]
    \/ /\ child.guard \notin {0, g} \/ (child.guard = 0 /\ g \notin expired /\ ~Admissible(g))
       /\ UNCHANGED child /\ job' = [job EXCEPT !.ans = Refusal]

Stopping(n) == [n EXCEPT !.stop = n.st \in {"prepared", "running"}]

(* A child under another grant is not touched.                              *)
Interrupt(g) ==
    \/ /\ child.st # "absent" /\ child.guard \in {0, g}
       /\ child' = Stopping(child) /\ job' = [job EXCEPT !.ans = Answered(child)]
    \/ (child.st = "absent" \/ child.guard \notin {0, g}) /\ UNCHANGED child /\ job' = [job EXCEPT !.ans = Unknown]

(***************************************************************************)
(* Execute                                                                 *)
(***************************************************************************)
ExecuteStages == GateStages \union SandboxStages \union LookupStages \union InstructionStages \union EvidenceStages

ExecuteRefused == pos = "execute" /\ RefusedAt(ExecuteStages)

Settled == exe # None /\ exe.phase \in {"terminal", "exhausted"}

ExecuteWaits ==
    /\ pos = "execute" /\ (Settled \/ (exe = None /\ (job.e.grant \in expired \/ ~op.parent))) /\ EndCellPass
    /\ UNCHANGED <<fmt, control, store, child, late, modes, cellFaults>>

NewExecution(e, phase) == [grant |-> e.grant, phase |-> phase, rep |-> NoReport]

(* The execution is durable before its effect.                              *)
BeginExecution ==
    /\ pos = "execute" /\ ~Settled
    /\ \/ exe = None /\ job.e.grant \notin expired /\ op.parent /\ exe' = NewExecution(job.e, "pending")
       \/ exe # None /\ UNCHANGED exe
    /\ Go("effect", job)
    /\ UNCHANGED <<fmt, control, row, op, child, late, modes, cellFaults>>

ExecuteEffect ==
    /\ pos = "effect" /\ pos' = "answered"
    /\ \/ Admit(job.e.grant) /\ UNCHANGED cellFaults
       \/ /\ CellFault /\ job' = [job EXCEPT !.ans = Unknown]
          /\ \/ UNCHANGED child
             \/ Admissible(job.e.grant) /\ child' = Admitted(job.e.grant)
       \/ child.guard = 0 /\ CellFault /\ job' = [job EXCEPT !.ans = Refusal] /\ UNCHANGED child
    /\ UNCHANGED <<fmt, control, store, late, modes>>

(* The receipt must name the grant of the execution's row.                  *)
Proved(ans) == ans.kind = "receipt" /\ exe.grant = job.e.grant
Exhausts(ans) == exe.phase = "exhausted" \/ ans.st = "exhausted"

RefusedBeforeAdmission(ans) == ans.kind = "refused"

ExecuteOutcome(ans) ==
    IF Exhausts(ans) THEN [phase |-> "exhausted", obs |-> "exhausted"]
    ELSE CASE Proved(ans) /\ ans.st = "terminal" /\ ans.out \in {"succeeded", "failed"} -> [phase |-> "terminal", obs |-> "ready"]
           [] Proved(ans) /\ ans.st = "running" -> [phase |-> "admitted", obs |-> "admitted"]
           [] RefusedBeforeAdmission(ans) -> [phase |-> "pending", obs |-> "unknown"]
           [] OTHER -> [phase |-> "unknown", obs |-> "unknown"]

Interrupted(ans) == ans.st = "terminal" /\ ans.out = "interrupted"

CancelOutcome(ans) ==
    IF Exhausts(ans) THEN [phase |-> "exhausted", obs |-> "exhausted"]
    ELSE IF Proved(ans) /\ job.e.des = "retired" /\ Interrupted(ans) THEN [phase |-> "terminal", obs |-> "cancelled"]
    ELSE [phase |-> "unknown", obs |-> "unknown"]

(* The row takes an outcome only under its own grant, and an exhausted one  *)
(* stays exhausted.                                                         *)
PutCellV3Execution(o) ==
    exe' = IF exe.grant = job.e.grant /\ (exe.phase = "exhausted" => o.phase = "exhausted")
           THEN [exe EXCEPT !.phase = o.phase, !.rep = Report(o.obs, job.e)] ELSE exe

StoreExecution ==
    /\ pos = "answered" /\ PutCellV3Execution(ExecuteOutcome(job.ans)) /\ EndCellPass
    /\ UNCHANGED <<fmt, control, row, op, child, late, modes, cellFaults>>

\* Only a child that was never executed can be quiet.
BadQuiet == exe = None /\ op.ctl.obs = "cancelled" /\ op.ctl.rev = job.e.rev

(***************************************************************************)
(* Quiescence: a preparation or an execution that is no longer active      *)
(***************************************************************************)
Quiet == IF exe # None
         THEN (exe.phase = "terminal" /\ exe.rep.obs = "ready") \/ (exe.rep.obs = "cancelled" /\ exe.rep.rev = job.e.rev)
         ELSE op.ctl.obs = "cancelled" /\ op.ctl.rev = job.e.rev

Quiesce ==
    /\ pos = "quiesce"
    /\ IF Quiet \/ (exe = None /\ ~op.parent) THEN EndCellPass ELSE Go("cancel", job)
    /\ exe' = IF exe = None /\ op.parent /\ job.e.ph = "execute" THEN NewExecution(job.e, "unknown") ELSE exe
    /\ UNCHANGED <<fmt, control, row, op, child, late, modes, cellFaults>>

CancelEffect ==
    /\ pos = "cancel" /\ pos' = "stopped"
    /\ \/ Interrupt(job.e.grant) /\ UNCHANGED cellFaults
       \/ CellFault /\ job' = [job EXCEPT !.ans = Unknown]
          /\ child' \in {child} \union (IF child.guard \in {0, job.e.grant} THEN {Stopping(child)} ELSE {})
    /\ UNCHANGED <<fmt, control, store, late, modes>>

CancelPreparation ==
    /\ pos = "stopped" /\ exe = None /\ EndCellPass
    /\ op' = [op EXCEPT !.ctl = Report(IF job.e.des = "retired" /\ Interrupted(job.ans) THEN "cancelled" ELSE "unknown", job.e)]
    /\ UNCHANGED <<fmt, control, row, exe, child, late, modes, cellFaults>>

StoreCancellation ==
    /\ pos = "stopped" /\ exe # None /\ PutCellV3Execution(CancelOutcome(job.ans)) /\ EndCellPass
    /\ UNCHANGED <<fmt, control, row, op, child, late, modes, cellFaults>>

(***************************************************************************)
(* Format 2                                                                *)
(***************************************************************************)
LaunchStages == SandboxStages \union WorktreeStages \union InstructionStages
HeldStages == ServerStages \union ProvisionStages
NewCellOperation(e) == [e |-> e, phase |-> "pending", exh |-> FALSE, rep |-> NoReport]

LaunchRefused == pos = "launch" /\ RefusedAt(LaunchStages)

PutCellOperation ==
    /\ pos = "launch"
    /\ CASE row = None -> row' = NewCellOperation(job.e) /\ Go("server", job)
         [] row # None /\ (row.e = job.e \/ job.e.rev > row.e.rev) -> row' = [row EXCEPT !.e = job.e] /\ Go("server", job)
         [] OTHER -> UNCHANGED row /\ EndCellPass
    /\ UNCHANGED <<fmt, control, op, exe, child, late, modes, cellFaults>>

\* The entry stays behind the outcome.
BadUpdateCellOperation(phase, exh, obs) ==
    row' = CASE row.exh /\ ~exh -> row
             [] row.e.rev > job.e.rev -> row
             [] OTHER -> [row EXCEPT !.phase = phase, !.exh = exh, !.rep = Report(obs, job.e)]

(* An exhausted row keeps its report and its entry against any weaker       *)
(* observation; otherwise the entry moves forward with the outcome.         *)
UpdateCellOperation(phase, exh, obs) ==
    row' = CASE row.exh /\ ~exh -> row
             [] row.e.rev > job.e.rev -> row
             [] OTHER -> [e |-> job.e, phase |-> phase, exh |-> exh, rep |-> Report(obs, job.e)]

StoreCellUnknown ==
    IF row.exh THEN UpdateCellOperation("exhausted", TRUE, "exhausted") ELSE UpdateCellOperation("unknown", FALSE, "unknown")

(* The native server or the credential is not ready.                        *)
LaunchHeld ==
    /\ pos = "server" /\ HeldStages # {} /\ CellFault /\ StoreCellUnknown /\ EndCellPass
    /\ UNCHANGED <<fmt, control, op, exe, child, late, modes>>

LaunchEffect ==
    /\ pos = "server" /\ pos' = "launched"
    /\ child' = IF child.st = "absent" THEN [child EXCEPT !.st = "running"] ELSE child
    /\ \/ job' = [job EXCEPT !.ans = Answered(child')] /\ UNCHANGED cellFaults
       \/ CellFault /\ \E ans \in {Unknown, Failure(child')} : job' = [job EXCEPT !.ans = ans]
    /\ UNCHANGED <<fmt, control, store, late, modes>>

LaunchNotMade ==
    /\ pos = "server" /\ CellFault
    /\ \E ans \in {Unknown, Failure(child)} : Go("launched", [job EXCEPT !.ans = ans])
    /\ UNCHANGED <<fmt, control, store, child, late, modes>>

StoreLaunch ==
    /\ pos = "launched" /\ EndCellPass
    /\ LET ans == job.ans
       IN IF ans.kind \notin {"receipt", "failed"} THEN StoreCellUnknown
          ELSE IF row.exh \/ ans.st = "exhausted" THEN UpdateCellOperation("exhausted", TRUE, "exhausted")
          ELSE IF ans.st = "terminal" THEN UpdateCellOperation("terminal", FALSE, "ready")
          ELSE IF ans.kind = "failed" THEN UpdateCellOperation("failed", FALSE, "failed")
          ELSE UpdateCellOperation("unknown", FALSE, "unknown")
    /\ UNCHANGED <<fmt, control, op, exe, child, late, modes, cellFaults>>

(* A revocation without a local record is held explicitly first.            *)
HoldCellOperation ==
    /\ pos = "hold" /\ Go("revoke", job)
    /\ row' = IF row = None THEN NewCellOperation(job.e) ELSE row
    /\ UNCHANGED <<fmt, control, op, exe, child, late, modes, cellFaults>>

ManagerStages == {"cell_manager_status_unavailable", "cell_manager_identity_missing", "cell_manager_identity_mismatch"}

RevokeHeld ==
    /\ pos = "revoke" /\ ManagerStages # {} /\ CellFault /\ StoreCellUnknown /\ EndCellPass
    /\ UNCHANGED <<fmt, control, op, exe, child, late, modes>>

RevokeEffect ==
    /\ pos = "revoke" /\ pos' = "revoked"
    /\ \/ Interrupt(0) /\ UNCHANGED cellFaults
       \/ CellFault /\ job' = [job EXCEPT !.ans = Unknown] /\ child' \in {child, Stopping(child)}
    /\ UNCHANGED <<fmt, control, store, late, modes>>

StoreRevocation ==
    /\ pos = "revoked" /\ EndCellPass
    /\ LET ans == job.ans
       IN IF ans.kind # "receipt" THEN StoreCellUnknown
          ELSE IF ans.st = "exhausted" THEN UpdateCellOperation("exhausted", TRUE, "exhausted")
          ELSE IF ans.st = "terminal" THEN UpdateCellOperation("terminal", FALSE, "cancelled")
          ELSE UpdateCellOperation("unknown", FALSE, "unknown")
    /\ UNCHANGED <<fmt, control, op, exe, child, late, modes, cellFaults>>

(***************************************************************************)
(* The report of the pass: the rows of the current entry                   *)
(***************************************************************************)
CurrentCellServiceTuple(e) == row # None /\ row.rep # NoReport /\ row.e.rev = e.rev

CellReport(e) ==
    IF fmt = 2 THEN IF CurrentCellServiceTuple(e) THEN row.rep ELSE NoReport
    ELSE IF (op # None => op.e # e) THEN NoReport
    ELSE IF exe # None
         THEN IF exe.grant = e.grant /\ exe.rep.rev = e.rev /\ exe.rep.des = e.des THEN exe.rep ELSE NoReport
    ELSE IF e.ph = "prepare" /\ op.ctl.rev = e.rev /\ op.ctl.des = e.des THEN op.ctl ELSE NoReport

(* The control plane takes a report of the revision it asks for.            *)
SendReport ==
    /\ pos = "send" /\ pos' = "idle" /\ job' = NoJob
    /\ LET rep == CellReport(job.e)
       IN \/ heard' = (IF rep # NoReport /\ rep.rev = want.rev THEN [heard EXCEPT !.obs = rep.obs] ELSE heard) /\ UNCHANGED cellFaults
          \/ rep # NoReport /\ CellFault /\ UNCHANGED heard
    /\ UNCHANGED <<fmt, want, expired, store, child, late, modes>>

CellPass ==
    \/ BeginPass \/ PutCellV3Operation \/ JournalBusy
    \/ PrepareRefused \/ ReplayPreparation \/ PutCellV3NativeContext \/ LeaseRefused
    \/ PrepareEffect \/ PrepareEffectRefused \/ PersistReceipt \/ ReportCellPreparation \/ MarkReported
    \/ ExecuteRefused \/ ExecuteWaits \/ BeginExecution \/ ExecuteEffect \/ StoreExecution
    \/ Quiesce \/ CancelEffect \/ CancelPreparation \/ StoreCancellation
    \/ LaunchRefused \/ PutCellOperation \/ LaunchHeld \/ LaunchEffect \/ LaunchNotMade \/ StoreLaunch
    \/ HoldCellOperation \/ RevokeHeld \/ RevokeEffect \/ StoreRevocation
    \/ SendReport

Child == ChildEnds \/ ChildInterrupted

CellNext ==
    \/ \E des \in States : ControlsDesired(des)
    \/ IssueGrant \/ RenewGrant \/ RepairMode \/ GrantExpires
    \/ Child \/ LateWriteEnds \/ CellCrash \/ CellPass

(* The loop of the daemon takes its steps, an interrupted child stops and a *)
(* bounded write ends; the control plane and the faults are not fair.       *)
CellFairness == WF_cellVars(CellPass) /\ WF_cellVars(ChildInterrupted) /\ WF_cellVars(LateWriteEnds)

CellSpec == CellInit /\ [][CellNext]_cellVars /\ CellFairness

(***************************************************************************)
(* Properties                                                              *)
(***************************************************************************)
(* The entry, the rows, the child and the pass have their types.            *)
CellTypeOK ==
    /\ fmt \in Formats /\ want \in Entries /\ expired \subseteq Grants
    /\ heard \in [receipt : Receipts, obs : Optional(Observations)]
    /\ row \in Optional(CellRows) /\ op \in Optional(Preparations)
    /\ exe \in Optional(Executions) /\ late \in Optional(Preparations)
    /\ child \in Children /\ pos \in Positions /\ job \in Jobs
    /\ modes \in 0..MaxModes /\ cellFaults \in 0..MaxCellFaults

(* cell_v3_prepare.go: the receipt the control plane accepted is the one    *)
(* the journal holds, whatever crashed or got lost in between, so that the  *)
(* grant it issues is for what the sandbox prepared.                        *)
AcceptedIsDurable == heard.receipt # 0 => (op # None /\ op.receipt = heard.receipt /\ child.receipt = heard.receipt)

Cancelled == \/ heard.obs = "cancelled" \/ (op # None /\ op.ctl.obs = "cancelled")
             \/ (exe # None /\ exe.rep.obs = "cancelled") \/ (row # None /\ row.rep.obs = "cancelled")

(* cell_v3_execute.go, managed_service.go: nothing is recorded or reported  *)
(* as cancelled while the child can still act.                              *)
CancelledIsStopped == Cancelled => child.st \notin {"absent", "prepared", "running"}

(* A completion or an exhaustion once stored is never taken back: not by a  *)
(* later cancellation, a lost answer or a weaker observation.               *)
OutcomeIsFinal ==
    [][/\ (exe # None /\ (exe.phase = "exhausted" \/ (exe.phase = "terminal" /\ exe.rep.obs = "ready"))) =>
            (exe'.phase = exe.phase /\ exe'.rep.obs = exe.rep.obs)
       /\ (row # None /\ row.exh) => (row'.exh /\ row'.rep.obs = "exhausted")]_cellVars

(* cell_v3_store.go: the journal never returns to an older authority, even  *)
(* when a write the pass gave up on lands later.                            *)
JournalMovesForward ==
    [][(op # None /\ op' # op) =>
         /\ op'.e.rev >= op.e.rev /\ op'.e.grant >= op.e.grant
         /\ op.e.ph = "execute" => op'.e.ph = "execute"
         /\ op.receipt # 0 => op'.receipt = op.receipt]_cellVars

(* Nothing that was decided is taken back, by a late write, a replay or a   *)
(* lost answer.                                                             *)
NothingIsTakenBack == OutcomeIsFinal /\ JournalMovesForward

(* What the control plane is told about a child holds: its receipt is the   *)
(* durable one, and a cancelled child cannot act any more.                  *)
ToldIsTrue == AcceptedIsDurable /\ CancelledIsStopped

(* The entry in force can reach the adapter: the journal takes it, and the  *)
(* row of the execution is of its grant.                                    *)
Reachable ==
    IF fmt = 2 THEN TRUE
    ELSE /\ op # None /\ op.parent /\ op.e.mode = want.mode
         /\ want.ph = "execute" => (op.phase = "reported" /\ (exe # None => exe.grant = want.grant))

Finished == child.out \in {"succeeded", "failed"}

(* A revoked child is eventually reported as stopped, unless it ended by    *)
(* itself first.                                                            *)
RetiredIsAnswered ==
    (want.des = "retired" /\ child.st # "absent" /\ Reachable)
        ~> (heard.obs \in {"cancelled", "exhausted", "ready"} \/ Finished)
=============================================================================
