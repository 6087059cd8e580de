-------------------------- MODULE ControllerParents --------------------------
(***************************************************************************)
(* internal/reconcile/controller_parent.go, controller_application.go and  *)
(* controller_application_receipt.go with their rows in                     *)
(* internal/state/controller_parent_store.go: a controller parent is        *)
(* started once in its sandbox and reported; when the report is            *)
(* acknowledged, the workspace application it belongs to is attested,      *)
(* pinned, submitted and accepted. The operators say what one call may     *)
(* leave behind; RuntimePass calls them. An application serves one parent   *)
(* here, and is named by the revision it targets.                          *)
(*                                                                         *)
(* Definitions named Bad... are seeded faults, used by no action: each     *)
(* stands in for the definition after it to show a property would notice.  *)
(***************************************************************************)
EXTENDS Naturals, FiniteSets

CONSTANT None

(* intent: [svc, act, want], svc the revision the parent's application targets *)
(* row:    the intent of a parent, whether a creation was sent, the last report,*)
(*         and whether an acknowledged report carried it                       *)
(* native: the parent's process: its session (0 when none), up, sessions made  *)
(* app:    None until the operation was read; the pinned envelope; applied     *)

ParentWants == {"active", "stopped"}
ParentReports == [act : Nat, state : {"pending", "ready", "failed"} \cup ParentWants, session : Nat]
ParentRows == [act : Nat, want : ParentWants, dispatched : BOOLEAN,
               report : ParentReports \cup {None}, accepted : BOOLEAN]
ParentNatives == [session : Nat, up : BOOLEAN, made : Nat]
Envelopes == [id : Nat, report : ParentReports]
Applications == [envelope : Envelopes \cup {None}, applied : BOOLEAN]

ASSUME NoneAssumption ==
    None \notin ParentReports /\ None \notin ParentRows /\ None \notin Envelopes
    /\ None \notin Applications

NoNative == [session |-> 0, up |-> FALSE, made |-> 0]
NewApp == [envelope |-> None, applied |-> FALSE]

\* The immutable intent of a service may only be raised. A conflict is None.
PutControllerParentIntent(row, intent) ==
    CASE row = None -> [act |-> intent.act, want |-> intent.want, dispatched |-> FALSE,
                        report |-> None, accepted |-> FALSE]
      [] row # None /\ row.act = intent.act /\ row.want = intent.want -> row
      [] row # None /\ intent.act > row.act ->
            [row EXCEPT !.act = intent.act, !.want = intent.want, !.accepted = FALSE]
      [] OTHER -> None

\* A report that differs from the last one takes its acknowledgement away.
PutControllerParentReport(row, report) ==
    [row EXCEPT !.report = report, !.accepted = @ /\ row.report = report]

Session(row) == IF row.report = None THEN 0 ELSE row.report.session
ReportOf(row, state, session) == [act |-> row.act, state |-> state, session |-> session]
failControllerParent(row) == PutControllerParentReport(row, ReportOf(row, "failed", Session(row)))

\* Only the application of the node's own revision is current.
BadapplicationRevisionCurrent(svc, desired, app) == svc = desired

\* An operation that was applied stays current when the node moves on for
\* another workspace; one that was not has to target the node's revision.
applicationRevisionCurrent(svc, desired, app) ==
    \/ svc = desired
    \/ app # None /\ app.applied /\ desired > svc

\* What one call leaves: the row, the native process, the application's row, how
\* it ended, and whether something outside had to fail for it.
Result(row, native, app, end, odd) ==
    [row |-> row, native |-> native, app |-> app, end |-> end, odd |-> odd]

StopParent(row, native, app) ==
    LET down == [native EXCEPT !.up = FALSE]
        Stopped(n) == PutControllerParentReport(row, ReportOf(row, row.want, Session(row)))
    IN  IF ~row.dispatched THEN {Result(Stopped(native), native, app, "ok", FALSE)}
        ELSE {Result(Stopped(down), down, app, "ok", FALSE)}
             \union {Result(failControllerParent(row), n, app, "failed", TRUE) : n \in {native, down}}

\* The exact running identity is registered, read again and reported ready; a
\* session other than the one reported before is refused.
finalizeControllerParent(row, native, app) ==
    IF native.up /\ Session(row) \in {0, native.session}
    THEN {Result(PutControllerParentReport(row, ReportOf(row, "ready", native.session)),
                 native, app, "ok", FALSE),
          Result(failControllerParent(row), native, app, "failed", TRUE)}
    ELSE {Result(failControllerParent(row), native, app, "failed", FALSE)}

\* The supervisor: a first start makes the session, a later one only finds it.
Supervise(native, mode) ==
    IF mode = "create_initial"
    THEN [session |-> native.made + 1, up |-> TRUE, made |-> native.made + 1]
    ELSE [native EXCEPT !.up = native.session # 0]

\* The creation is recorded as sent before it is. Its answer may be lost, and the
\* launch with it; a receipt that is not ready yet is awaited. The failure is
\* recorded, unless the daemon stops before.
startControllerParent(row, native, app) ==
    LET mode == IF row.dispatched THEN "lookup_only" ELSE "create_initial"
        sent == [row EXCEPT !.dispatched = TRUE]
        Lost(left) == {Result(left, n, app, "failed", TRUE) : n \in {native, Supervise(native, mode)}}
    IN  finalizeControllerParent(sent, Supervise(native, mode), app)
        \union Lost(failControllerParent(sent)) \union Lost(sent)

\* A launch that was sent and is not ready: the running process is adopted when
\* it is the one that was issued, and started otherwise.
upgradeControllerParentFromCurrent(row, native, app) ==
    IF native.up THEN finalizeControllerParent(row, native, app)
                      \union {[r EXCEPT !.odd = TRUE] : r \in startControllerParent(row, native, app)}
    ELSE startControllerParent(row, native, app)

\* A bounded read that is cut changes nothing; any other error of it fails the
\* parent.
Unread(row, native, app) ==
    {Result(row, native, app, "blocked", TRUE),
     Result(failControllerParent(row), native, app, "failed", TRUE)}

\* The profiles and the instructions are staged over the same registered root,
\* bounded reads too, after the application is stored.
stageControllerApplicationProfiles(row, native, app) == Unread(row, native, app)

\* An application of another revision than the manifest's is a named refusal.
ActiveParent(row, native, app, svc, desired) ==
    LET put == IF app = None THEN NewApp ELSE app
    IN  Unread(row, native, app)
        \union
        IF ~applicationRevisionCurrent(svc, desired, app)
        THEN {Result(failControllerParent(row), native, app, "failed", FALSE)}
        ELSE stageControllerApplicationProfiles(row, native, put)
             \union
             IF row.dispatched /\ (row.report = None \/ row.report.state # "ready")
             THEN upgradeControllerParentFromCurrent(row, native, put)
             ELSE startControllerParent(row, native, put)

reconcileControllerParent(row, native, app, intent, desired) ==
    LET put == PutControllerParentIntent(row, intent)
    IN  IF put = None THEN {Result(row, native, app, "failed", FALSE)}
        ELSE IF intent.want # "active" THEN StopParent(put, native, app)
        ELSE ActiveParent(put, native, app, intent.svc, desired)

\* The report of a current parent: the stored one if it is of this very intent.
ReportedParent(row, intent) ==
    IF /\ row # None /\ row.report # None
       /\ row.act = intent.act /\ row.want = intent.want /\ row.report.act = intent.act
    THEN row.report
    ELSE [act |-> intent.act, state |-> "pending", session |-> 0]

-----------------------------------------------------------------------------
(* After the acknowledged report.                                          *)

\* Only a stored report equal to the acknowledged one is marked; None is a conflict.
AcknowledgeControllerParents(row, reported) ==
    CASE reported.state # "ready" -> row
      [] reported.state = "ready" /\ row # None /\ row.report = reported -> [row EXCEPT !.accepted = TRUE]
      [] OTHER -> None

\* The row, the process and what the acknowledged report says of the parent agree.
Attestable(row, native, intent, reported) ==
    /\ row # None /\ row.act = intent.act /\ row.want = intent.want
    /\ row.accepted /\ row.report \in reported /\ row.report.state = "ready"
    /\ native.up /\ native.session = row.report.session

\* Submitted first, pinned when the answer is there.
BadSubmitApplication(app, envelope) ==
    {[app |-> app, sent |-> {}, end |-> "failed", odd |-> TRUE],
     [app |-> app, sent |-> {envelope}, end |-> "failed", odd |-> TRUE],
     [app |-> [app EXCEPT !.envelope = envelope], sent |-> {envelope}, end |-> "failed", odd |-> TRUE],
     [app |-> [envelope |-> envelope, applied |-> TRUE], sent |-> {envelope}, end |-> "ok", odd |-> FALSE]}

\* Pin, submit, accept: the daemon may stop, and an answer be lost, between them.
SubmitApplication(app, envelope) ==
    LET pinned == [app EXCEPT !.envelope = envelope]
    IN  {[app |-> app, sent |-> {}, end |-> "failed", odd |-> TRUE],
         [app |-> pinned, sent |-> {}, end |-> "failed", odd |-> TRUE],
         [app |-> pinned, sent |-> {envelope}, end |-> "failed", odd |-> TRUE],
         [app |-> [pinned EXCEPT !.applied = TRUE], sent |-> {envelope}, end |-> "ok", odd |-> FALSE]}

\* CompleteWorkspaceApplications for the application of one parent, after its
\* row was acknowledged. fresh is the envelope an attestation would sign now.
CompleteWorkspaceApplication(row, native, app, intent, desired, reported, applied, fresh) ==
    LET Kept(end) == [app |-> app, sent |-> {}, end |-> end, odd |-> FALSE]
        envelope == IF app.envelope = None THEN fresh ELSE app.envelope
    IN  IF app = None THEN {Kept("failed")}
        ELSE IF app.applied THEN {Kept("ok")}
        ELSE IF /\ applicationRevisionCurrent(intent.svc, desired, app) /\ applied = intent.svc
                /\ Attestable(row, native, intent, reported)
                /\ envelope.report = row.report
             THEN SubmitApplication(app, envelope)
             ELSE {Kept("failed")}
=============================================================================
