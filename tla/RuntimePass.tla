----------------------------- MODULE RuntimePass -----------------------------
(***************************************************************************)
(* cmd/warpmetald/main.go, pass: the daemon fetches the manifest, applies  *)
(* it (internal/reconcile/reconcile.go, Reconcile), builds and sends its   *)
(* report (ReportSync), completes the workspace applications the report    *)
(* acknowledged (ControllerParents), runs the feedback phase and sends a   *)
(* final report. The stages of Reconcile that other modules model are      *)
(* steps that succeed, fail or return early.                               *)
(*                                                                         *)
(* Definitions named Bad... are seeded faults, used by no action: each     *)
(* stands in for the definition after it to show a property would notice.  *)
(***************************************************************************)
EXTENDS ReportSync, ManifestRules, ControllerParents, Sequences

CONSTANTS
    Plans,      \* the sections a manifest may have: [name -> manifest], revision aside
    MaxLeases   \* bound: renewals of the manager policy lease

ASSUME PlansAssumption == "ordinary" \in DOMAIN Plans /\ \A p \in DOMAIN Plans : Plans[p] \in Manifest
ASSUME LeaseBoundAssumption == MaxLeases \in Nat

VARIABLES
    history,    \* control plane: every manifest it served, the last one is current
    submitted,  \* control plane: the envelopes it received, by application
    received,   \* control plane: the ready parents of the last report it accepted
    revision,   \* durable: applied revision
    lease,      \* durable: manager policy lease
    row, app,   \* durable: parent and application, by service
    native,     \* the parents' processes, by service
    attested,   \* envelopes signed so far
    at,         \* where the pass is
    fetched,    \* local: index of the manifest of the pass
    authority,  \* memory: index of the last validated manifest, 0 after a restart
    ok,         \* local: the pass's err is nil
    body, mine, \* local: the report Send posts, and the one the pass keeps
    broken      \* a late stage that fails in every pass

passVars == <<at, fetched, authority, ok, body, mine>>
nodeVars == <<revision, lease, row, app, native, attested>>
allVars == <<vars, history, submitted, received, passVars, nodeVars, broken>>

Services == 1..MaxRev
Now == Len(history)
Fresh == history[Now]
Intent(m) == [svc |-> m.svc, act |-> m.act, want |-> m.want]

\* The report: the applied revision and, when the authority lists a parent, its report.
Report(index, applied, rows) ==
    [rev |-> applied,
     parents |-> IF index = 0 THEN {}
                 ELSE {[svc |-> history[index].svc,
                        report |-> ReportedParent(rows[history[index].svc], Intent(history[index]))]}]
NoReport == [rev |-> 0, parents |-> {}]

PassInit ==
    /\ Init
    /\ history = <<[rev |-> 1, plan |-> "ordinary", lease |-> 1, svc |-> 1, act |-> 1, want |-> "active"]>>
    /\ submitted = [s \in Services |-> {}] /\ received = {}
    /\ revision = 0 /\ lease = 0 /\ attested = 0
    /\ row = [s \in Services |-> None] /\ app = [s \in Services |-> None]
    /\ native = [s \in Services |-> NoNative]
    /\ at = "tick" /\ fetched = 0 /\ authority = 0 /\ ok = FALSE
    /\ body = NoReport /\ mine = NoReport
    /\ broken \in BOOLEAN

-----------------------------------------------------------------------------
(* Reconcile.                                                              *)

\* The stages in order. The lease is stored by "policies"; the parents are
\* reconciled by "services" and their failure is returned by "parents", after the
\* cell services; "late" is everything between them and the revision.
Stages == <<"validate", "safety", "window", "manager", "sandboxes", "setup", "policies",
            "workspaces", "acknowledge", "services", "cells", "parents", "late", "revision">>
StageNo(s) == CHOOSE i \in DOMAIN Stages : Stages[i] = s

\* The policies are applied with the rest of the manager's manifest, at the end.
BadPolicyStage == StageNo("late")

PolicyStage == StageNo("policies")

\* Return nil before the revision is set: the setup is not ready.
EarlyReturn(stop) == stop = StageNo("setup")

ValidPlan == [p \in DOMAIN Plans |-> ValidateManifest([Plans[p] EXCEPT !.rev = 1], 0)]
Acknowledged == [p \in DOMAIN Plans |->
                   \/ Plans[p].registrations = <<>>
                   \/ EffectiveContinuityRegistrations(Plans[p].registrations) # {}]

\* How Reconcile ended: the stage it stopped before (past the end when it stopped
\* nowhere), what the parent stage left, and whether something outside failed.
End(stop, res, odd) == [stop |-> stop, res |-> res, odd |-> odd]

\* The ends after a parent stage that left res.
AfterParents(res) ==
    IF res.end = "failed" THEN {End(StageNo("parents"), res, res.odd)}
    ELSE IF broken THEN {End(StageNo("late"), res, res.odd)}
    ELSE {End(Len(Stages) + 1, res, res.odd)}
         \union {End(s, res, TRUE) : s \in IF res.odd THEN {} ELSE StageNo("cells")..Len(Stages)}

\* Every way Reconcile of the manifest with this index may end.
ReconcileEnds(index) ==
    LET m == history[index]
        r == row[m.svc]  n == native[m.svc]  a == app[m.svc]
        untouched == Result(r, n, a, "ok", FALSE)
    IN  IF ~(ValidPlan[m.plan] /\ m.rev >= revision) THEN {End(1, untouched, FALSE)}
        ELSE IF ~Acknowledged[m.plan] THEN {End(StageNo("acknowledge"), untouched, FALSE)}
        ELSE {End(s, untouched, TRUE) : s \in StageNo("safety")..StageNo("services")}
             \union UNION {AfterParents(res) : res \in reconcileControllerParent(r, n, a, Intent(m), m.rev)}

\* What the node holds once Reconcile ended so.
Reconciled(index, e) ==
    LET m == history[index]
    IN  /\ authority' = IF e.stop > 1 THEN index ELSE authority
        /\ lease' = IF e.stop > PolicyStage THEN m.lease ELSE lease
        /\ row' = [row EXCEPT ![m.svc] = e.res.row]
        /\ app' = [app EXCEPT ![m.svc] = e.res.app]
        /\ native' = [native EXCEPT ![m.svc] = e.res.native]
        /\ revision' = IF e.stop > Len(Stages) THEN m.rev ELSE revision

Succeeded(e) == e.stop > Len(Stages) \/ EarlyReturn(e.stop)

-----------------------------------------------------------------------------
(* The pass.                                                               *)

\* Expire and the fetch of the manifest; a failure still sends a report.
Fetch ==
    /\ pc = "idle" /\ at = "tick"
    /\ \/ at' = "reconcile" /\ fetched' = Now /\ UNCHANGED <<faults, ok, body, mine>>
       \/ /\ Fault /\ at' = "send" /\ fetched' = 0 /\ ok' = FALSE
          /\ body' = Report(authority, revision, row) /\ mine' = body'
    /\ UNCHANGED <<cpVars, stored, pc, locals, history, submitted, received, nodeVars, authority, broken>>

ReconcileStep ==
    /\ pc = "idle" /\ at = "reconcile"
    /\ \E e \in ReconcileEnds(fetched) :
          /\ IF e.odd THEN Fault ELSE UNCHANGED faults
          /\ Reconciled(fetched, e)
          /\ ok' = Succeeded(e)
          /\ body' = Report(authority', revision', row') /\ mine' = body'
    /\ at' = "send"
    /\ UNCHANGED <<cpVars, stored, pc, locals, history, submitted, received, attested, fetched, broken>>

\* An error of Send is logged only.
BadReturn(nil) ==
    /\ IF at = "send" /\ ok THEN at' = "complete" /\ body' = NoReport /\ UNCHANGED mine
       ELSE at' = "tick" /\ body' = NoReport /\ mine' = NoReport
    /\ fetched' = 0 /\ ok' = FALSE /\ UNCHANGED authority

\* Send returns: nil lets a pass without an error go on.
Return(nil) ==
    /\ IF at = "send" /\ nil /\ ok THEN at' = "complete" /\ body' = NoReport /\ UNCHANGED mine
       ELSE at' = "tick" /\ body' = NoReport /\ mine' = NoReport
    /\ fetched' = 0 /\ ok' = FALSE /\ UNCHANGED authority

Posting == UNCHANGED passVars

SendStep ==
    /\ at \in {"send", "final"} /\ Send
    /\ IF pc' = "loop" THEN Posting
       ELSE Return(faults' = faults /\ stored.code # "none" /\ StillBlocked)
    /\ UNCHANGED <<history, submitted, received, nodeVars, broken>>

\* The parents the posted report calls ready.
Ready == {p \in body.parents : p.report.state = "ready"}

PostStep ==
    /\ Post /\ Posting
    /\ received' \in CASE pc' = "ack" -> {Ready}
                       [] pc' = "conflict" -> {received}
                       [] OTHER -> {received, Ready}
    /\ UNCHANGED <<history, submitted, nodeVars, broken>>

\* After a 409 the rebuild reconciles a fresh manifest and builds a new report.
ConflictStep ==
    /\ Conflict
    /\ IF observed' = desired /\ faults' = faults /\ rebuilds < MaxRebuilds
       THEN \E e \in ReconcileEnds(Now) :
               /\ ~e.odd /\ Reconciled(Now, e)
               /\ Succeeded(e) => gen' = gen /\ attempt' = attempt
               /\ body' = IF Succeeded(e) THEN Report(authority', revision', row') ELSE body
               /\ ~Succeeded(e) /\ resync > gen => gen' = resync
               /\ UNCHANGED <<at, fetched, ok, mine, attested>>
       ELSE UNCHANGED <<passVars, nodeVars>>
    /\ UNCHANGED <<history, submitted, received, broken>>

BackoffStep ==
    /\ Backoff
    /\ IF pc' = "loop" THEN Posting ELSE Return(FALSE)
    /\ UNCHANGED <<history, submitted, received, nodeVars, broken>>

AckStep ==
    /\ (Ack \/ Exhausted) /\ Return(elapsed < deadline /\ faults' = faults)
    /\ UNCHANGED <<history, submitted, received, nodeVars, broken>>

\* The report CompleteWorkspaceApplications is given: the one the pass kept, or, when
\* it is tried again, the stored report that is ready and acknowledged.
GivenReport ==
    LET m == history[authority]  r == row[m.svc]
    IN  IF at = "complete" THEN mine
        ELSE [rev |-> m.rev,
              parents |-> IF r # None /\ r.accepted /\ r.report.state = "ready"
                          THEN {[svc |-> m.svc, report |-> r.report]} ELSE {}]

\* CompleteWorkspaceApplications; on an error it is tried once more.
CompleteStep ==
    /\ pc = "idle" /\ at \in {"complete", "redrive"}
    /\ LET m == history[authority]
           given == GivenReport
           marked == [s \in Services |->
                        IF \E p \in given.parents : p.svc = s
                        THEN AcknowledgeControllerParents(row[s], (CHOOSE p \in given.parents : p.svc = s).report)
                        ELSE row[s]]
           conflict == \E p \in given.parents : marked[p.svc] = None
           reported == {p.report : p \in {q \in given.parents : q.svc = m.svc}}
           fresh == [id |-> attested + 1, report |-> marked[m.svc].report]
           Failed == at' = IF at = "complete" THEN "redrive" ELSE "tick"
       IN  \/ /\ conflict
              /\ Failed /\ UNCHANGED <<row, app, submitted, attested, faults>>
           \/ /\ ~conflict /\ (given.parents = {} \/ m.want # "active")
              /\ row' = marked /\ at' = "feedback" /\ UNCHANGED <<app, submitted, attested, faults>>
           \/ /\ ~conflict /\ given.parents # {} /\ m.want = "active"
              /\ row' = marked
              /\ \E c \in CompleteWorkspaceApplication(marked[m.svc], native[m.svc], app[m.svc], Intent(m),
                                                       m.rev, reported, given.rev, fresh) :
                    /\ IF c.odd THEN Fault ELSE UNCHANGED faults
                    /\ app' = [app EXCEPT ![m.svc] = c.app]
                    /\ submitted' = [submitted EXCEPT ![m.svc] = @ \union c.sent]
                    /\ attested' = IF c.sent # {} \/ c.app # app[m.svc] THEN attested + 1 ELSE attested
                    /\ IF c.end = "ok" THEN at' = "feedback" ELSE Failed
    /\ mine' = NoReport
    /\ UNCHANGED <<cpVars, stored, pc, locals, history, received, revision, lease, native,
                   fetched, authority, ok, body, broken>>

\* The feedback phase: a fresh manifest of the applied revision renews the policies.
\* Then the final report.
FeedbackStep ==
    /\ pc = "idle" /\ at = "feedback"
    /\ lease' \in {lease} \union
          IF ValidPlan[Fresh.plan] /\ Fresh.rev = revision THEN {Fresh.lease} ELSE {}
    /\ body' = Report(authority, revision, row)
    /\ at' = "final"
    /\ UNCHANGED <<vars, history, submitted, received, revision, row, app, native, attested,
                   fetched, authority, ok, mine, broken>>

-----------------------------------------------------------------------------
(* The world around the daemon. It moves on where the daemon looks next: at  *)
(* the fetch of a manifest, at the desired revision a Send compares with its *)
(* block, at a parent's process. Elsewhere its steps commute with the pass.  *)

Fetching == pc = "conflict" \/ (pc = "idle" /\ at \in {"tick", "feedback"})
Looking == Fetching \/ (pc = "idle" /\ at \in {"send", "final"})

CrashStep ==
    /\ Crash
    /\ at' = "tick" /\ fetched' = 0 /\ authority' = 0 /\ ok' = FALSE
    /\ body' = NoReport /\ mine' = NoReport
    /\ UNCHANGED <<history, submitted, received, nodeVars, broken>>

RestartStep == Restart /\ UNCHANGED <<history, submitted, received, passVars, nodeVars, broken>>

Serve(m) == history' = Append(history, m) /\ UNCHANGED <<submitted, received, passVars, nodeVars, broken>>

\* The desired state moves on: for another workspace, with a new application, or
\* with the parent stopped. Of a manifest the node refuses no entry is ever read.
AdvanceStep ==
    /\ Looking /\ Advance
    /\ LET same == [Fresh EXCEPT !.rev = desired']
           other == [same EXCEPT !.svc = desired', !.act = desired', !.want = "active"]
           stop == [same EXCEPT !.act = desired', !.want = "stopped"]
       IN  \E p \in DOMAIN Plans : \E m \in IF ValidPlan[p] THEN {same, other, stop} ELSE {same} :
              Serve([m EXCEPT !.plan = p])

ResyncStep == pc = "conflict" /\ Resync /\ UNCHANGED <<history, submitted, received, passVars, nodeVars, broken>>

RenewLease ==
    /\ Fetching /\ Fresh.lease <= MaxLeases
    /\ Serve([Fresh EXCEPT !.lease = @ + 1])
    /\ UNCHANGED vars

\* The sandbox restarts and takes the parent's process with it.
NativeStops ==
    /\ pc = "conflict" \/ at \in {"reconcile", "complete", "redrive"}
    /\ Fault
    /\ \E s \in Services : native[s].up /\ native' = [native EXCEPT ![s].up = FALSE]
    /\ UNCHANGED <<cpVars, stored, pc, locals, history, submitted, received, passVars,
                   revision, lease, row, app, attested, broken>>

Pass == \/ Fetch \/ ReconcileStep \/ SendStep \/ PostStep \/ ConflictStep \/ BackoffStep
        \/ AckStep \/ CompleteStep \/ FeedbackStep \/ RestartStep

PassNext == Pass \/ CrashStep \/ AdvanceStep \/ ResyncStep \/ RenewLease \/ NativeStops

\* The timer of the pass loop keeps firing, and systemd restarts the daemon.
PassSpec == PassInit /\ [][PassNext]_allVars /\ WF_allVars(Pass)

-----------------------------------------------------------------------------
(* Correctness.                                                            *)

Served == [rev : 1..MaxRev, plan : DOMAIN Plans, lease : 1..MaxLeases + 1, svc : Services,
           act : Nat, want : ParentWants]
Bodies == [rev : Nat, parents : SUBSET [svc : Services, report : ParentReports]]

PassTypeOK ==
    /\ history \in Seq(Served) /\ Now > 0
    /\ submitted \in [Services -> SUBSET Envelopes]
    /\ revision \in 0..MaxRev /\ lease \in 0..MaxLeases + 1 /\ attested \in Nat
    /\ row \in [Services -> ParentRows \cup {None}]
    /\ app \in [Services -> Applications \cup {None}]
    /\ native \in [Services -> ParentNatives]
    /\ at \in {"tick", "reconcile", "send", "complete", "redrive", "feedback", "final"}
    /\ fetched \in 0..Now /\ authority \in 0..Now /\ ok \in BOOLEAN
    /\ body \in Bodies /\ mine \in Bodies /\ broken \in BOOLEAN

ReceivedOK == received \subseteq [svc : Services, report : ParentReports]

\* A renewed policy lease reaches the node even if a later stage of every pass fails
\* (reconcile.go:415-421 "a renewed policy lease must be stored even when a later
\* step aborts"), unless the manifest itself is refused.
LeaseOutlivesFailure == <>[](ValidPlan[Fresh.plan] => lease = Fresh.lease)

\* What the code leaves without a way on: a stage that always fails, a refused
\* manifest, a parent whose first start was lost with its effect (lookup_only finds
\* nothing), and an application left behind by the revision before it was applied.
Stuck ==
    \/ broken \/ ~ValidPlan[Fresh.plan]
    \/ /\ Fresh.want = "active"
       /\ \/ row[Fresh.svc] # None /\ row[Fresh.svc].dispatched /\ native[Fresh.svc].session = 0
          \/ Fresh.svc < Fresh.rev /\ (app[Fresh.svc] # None => ~app[Fresh.svc].applied)

\* Otherwise the applied revision reaches the desired one (reconcile.go:587).
RevisionConverges == <>[](Stuck \/ revision = desired)

\* The node converges, its policy lease first of all.
PassConverges == LeaseOutlivesFailure /\ RevisionConverges

\* The control plane never receives two envelopes of one application, and what the
\* node calls applied is the envelope it received, across lost answers and restarts
\* (controller_application_receipt.go:22-24 "Pin/replay one immutable signed
\* application envelope before submitting; lost ACK replays exact bytes").
OneEnvelope ==
    \A s \in Services :
        /\ Cardinality(submitted[s]) <= 1
        /\ app[s] # None /\ app[s].applied => submitted[s] = {app[s].envelope}

\* A parent's session is created once, whatever answer is lost and wherever the
\* daemon stops (controller_parent.go:444-456).
OneParentSession == \A s \in Services : native[s].made <= 1

\* Neither an application nor a parent is created twice.
CreatedOnce == OneEnvelope /\ OneParentSession

\* A parent's report is marked acknowledged, and with it the attestation of its
\* application allowed, only when the control plane has received it: in the last
\* report it accepted (main.go:427-441, controller_application_receipt.go:61-71).
\* Two cases are left out, where the code does it: Send returned nil under a block,
\* or a 409 made it rebuild the report for another parent.
AcknowledgedWasReceived ==
    [][\A s \in Services :
          (row'[s] # None /\ row'[s].accepted /\ (row[s] = None \/ ~row[s].accepted)) =>
             \/ [svc |-> s, report |-> row'[s].report] \in received
             \/ stored.code # "none"
             \/ history[authority].svc # s]_allVars
=============================================================================
