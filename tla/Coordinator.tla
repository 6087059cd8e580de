---------------------------- MODULE Coordinator ----------------------------
(***************************************************************************)
(* internal/continuity/coordinator.go: how the daemon executes the         *)
(* capture_checkpoint operations of the control plane's manifest. Each one *)
(* acquires a safe boundary from the helper inside the sandbox, captures   *)
(* and checkpoints, releases the boundary and leaves a report in the       *)
(* outbox (continuity_remote_operations); barrier rows carry the boundary  *)
(* across a crash, and a terminal report the control plane has dropped is  *)
(* retired to a tombstone.                                                 *)
(*                                                                         *)
(* One step per durable write and per helper call. Service.Capture,        *)
(* Checkpoint and Recover appear by their outcome: ContinuityService and   *)
(* CheckpointLifecycle model them.                                         *)
(***************************************************************************)
EXTENDS Naturals, FiniteSets, FiniteSetsExt

CONSTANTS
    Ops,        \* continuity operations of the control plane
    MaxRev,     \* bound: revisions of the session binding
    MaxFaults,  \* bound: crashes, lost writes, helper calls without an answer
    MaxMoves    \* bound: moves of the control plane and the source

ASSUME Bounds == MaxRev \in Nat \ {0} /\ MaxFaults \in Nat /\ MaxMoves \in Nat

VARIABLES
    want,       \* control plane: operations its manifest lists
    seen,       \* control plane: the status of each operation it was told
    wantRev,    \* control plane: current revision of the binding
    wantOn,     \* control plane: the binding is active, not revoked
    opRev,      \* the binding revision an operation was issued under (0: not issued)
    man,        \* local: operations of the manifest of this pass
    manRegs,    \* local: registration revisions that manifest lists
    manOn,      \* local: the newest of them is active
    reg,        \* durable: the registration row of the binding
    rep,        \* durable: status of the outbox row ("none": no row)
    bar,        \* durable: the barrier row; "intent" has an empty receipt
    retired,    \* durable: retirement tombstones
    loc,        \* durable: the local capture and checkpoint operations
    helper,     \* the sandbox helper's boundary for each operation
    avail,      \* whether Registry.Resolve finds the source
    pc, cur, todo,
    outcome,    \* local: how the operation will be reported
    faults, moves

cpVars   == <<want, seen, wantRev, wantOn, opRev>>
manVars  == <<man, manRegs, manOn>>
rowVars  == <<reg, rep, bar, retired, loc>>
locals   == <<cur, todo, outcome>>
vars == <<cpVars, manVars, rowVars, helper, avail, pc, locals, faults, moves>>

Terminal == {"accepted", "failed", "outcome_unknown"}
Reports == {"none", "applying"} \cup Terminal
\* Local states that Service.Recover visits, and those that count as live.
Visited == {"capturing", "verifying", "recovery_required"}
Live == {"pending"} \cup Visited
LocalStates == {"none", "captured", "succeeded", "failed"} \cup Live
Outcomes == {"accepted", "failed", "capture_failed"}
Phases == {"down", "fetch", "safety", "recover", "release_recovered", "unbar_recovered",
           "report_recovered", "register", "retire", "apply", "applying", "acquire",
           "refused", "receipt", "capture", "captured", "checkpoint", "checkpointed",
           "release", "unbar", "final", "report"}

TypeOK ==
    /\ want \subseteq Ops /\ seen \in [Ops -> Reports]
    /\ wantRev \in Nat /\ wantOn \in BOOLEAN /\ opRev \in [Ops -> Nat]
    /\ man \subseteq Ops /\ manRegs \subseteq Nat /\ manOn \in BOOLEAN
    /\ reg \in [rev : Nat, on : BOOLEAN, status : {"none", "failed", "verified", "revoked"}]
    /\ rep \in [Ops -> Reports]
    /\ bar \in [Ops -> {"none", "intent", "receipt"}]
    /\ retired \subseteq Ops
    /\ loc \in [Ops -> LocalStates]
    /\ helper \in [Ops -> {"free", "held", "released"}]
    /\ avail \in BOOLEAN
    /\ pc \in Phases /\ cur \in Ops /\ todo \subseteq Ops
    /\ outcome \in Outcomes
    /\ faults \in Nat /\ moves \in Nat

Init ==
    /\ want = {} /\ seen = [o \in Ops |-> "none"]
    /\ wantRev = 1 /\ wantOn = TRUE /\ opRev = [o \in Ops |-> 0]
    /\ man = {} /\ manRegs = {1} /\ manOn = TRUE
    /\ reg = [rev |-> 0, on |-> FALSE, status |-> "none"]
    /\ rep = [o \in Ops |-> "none"] /\ bar = [o \in Ops |-> "none"]
    /\ retired = {} /\ loc = [o \in Ops |-> "none"]
    /\ helper = [o \in Ops |-> "free"]
    /\ avail = TRUE
    /\ pc = "fetch" /\ cur \in Ops /\ todo = {} /\ outcome = "failed"
    /\ faults = 0 /\ moves = 0

Fault == faults < MaxFaults /\ faults' = faults + 1
Move == moves < MaxMoves /\ moves' = moves + 1

(* Definitions named Bad... are seeded faults, used by no action: each stands   *)
(* in for the definition after it to show that a property would notice.        *)

PutContinuityOperationReport(o, status) == rep' = [rep EXCEPT ![o] = status]
PutContinuityBarrier(o, b) == bar' = [bar EXCEPT ![o] = b]
DeleteContinuityBarrier(o) == bar' = [bar EXCEPT ![o] = "none"]

\* A step writes a report and goes on to `next`, or the write fails and the
\* error ends the reconciliation of this pass.
ReportThen(o, status, next) ==
    \/ PutContinuityOperationReport(o, status) /\ pc' = next /\ UNCHANGED faults
    \/ Fault /\ pc' = "report" /\ UNCHANGED rep

-----------------------------------------------------------------------------
(* The start of a pass: the manifest, RecoverLocalSafety, RecoverCurrent.  *)

\* A fresh manifest; right after a reactivation it lists the revoked
\* predecessor of the binding beside its successor.
Fetch ==
    /\ pc = "fetch"
    /\ man' = want /\ manOn' = wantOn
    /\ manRegs' \in {{wantRev}} \cup IF wantRev > 1 /\ wantOn THEN {{wantRev - 1, wantRev}} ELSE {}
    /\ pc' = "safety"
    /\ UNCHANGED <<cpVars, rowVars, helper, avail, locals, faults, moves>>

\* What Service.Recover does to one local operation: an interrupted capture
\* fails or stays as it is or requires recovery; an interrupted checkpoint is
\* accepted again or fails.
Recovered(from) ==
    CASE from = "capturing" -> {"failed", "capturing", "recovery_required"}
      [] from = "verifying" -> {"succeeded", "failed", "verifying"}
      [] OTHER -> {from}

\* Only a barrier with a receipt is recovered.
BadBarriers == {o \in man : bar[o] = "receipt"}

\* The barriers RecoverCurrent visits: those of operations the manifest lists.
Barriers == {o \in man : bar[o] # "none"}

\* It succeeds only if nothing it visits is left and no checkpoint was lost. A
\* row that is still pending is not visited.
LocalSafety ==
    /\ pc = "safety"
    /\ loc' \in [Ops -> LocalStates]
    /\ \A o \in Ops : loc'[o] \in Recovered(loc[o])
    /\ IF \E o \in Ops : loc'[o] \in Visited \/ (loc[o] = "verifying" /\ loc'[o] = "failed")
       THEN pc' = "report" /\ UNCHANGED todo
       ELSE pc' = "recover" /\ todo' = Barriers
    /\ IF \E o \in Ops : loc'[o] \in {"capturing", "verifying"} THEN Fault ELSE UNCHANGED faults
    /\ UNCHANGED <<cpVars, manVars, reg, rep, bar, retired, helper, avail, cur, outcome, moves>>

\* reconcile_boundary for the barrier of a listed operation: the helper
\* acknowledges the boundary, or does not know it and the barrier is dropped.
\* A source that does not resolve, a changed request or no answer end the pass.
Reconcile(o) ==
    /\ pc = "recover" /\ o \in todo
    /\ \/ /\ avail /\ helper[o] = "held"
          /\ cur' = o /\ pc' = "release_recovered" /\ UNCHANGED <<bar, todo, faults>>
       \/ /\ avail /\ helper[o] # "held"
          /\ DeleteContinuityBarrier(o) /\ todo' = todo \ {o}
          /\ UNCHANGED <<cur, pc, faults>>
       \/ ~avail /\ pc' = "report" /\ UNCHANGED <<bar, cur, todo, faults>>
       \/ Fault /\ pc' = "report" /\ UNCHANGED <<bar, cur, todo>>
    /\ UNCHANGED <<cpVars, manVars, reg, rep, retired, loc, helper, avail, outcome, moves>>

\* A release without an answer is taken for done.
BadReleaseRecovered ==
    /\ pc = "release_recovered"
    /\ pc' = "unbar_recovered"
    /\ \/ helper' = [helper EXCEPT ![cur] = "released"] /\ UNCHANGED faults
       \/ Fault /\ UNCHANGED helper
    /\ UNCHANGED <<cpVars, manVars, rowVars, avail, locals, moves>>

\* release_boundary; a call without an answer may have taken effect.
ReleaseRecovered ==
    /\ pc = "release_recovered"
    /\ \/ helper' = [helper EXCEPT ![cur] = "released"] /\ pc' = "unbar_recovered"
          /\ UNCHANGED faults
       \/ Fault /\ pc' = "report" /\ helper' \in {helper, [helper EXCEPT ![cur] = "released"]}
    /\ UNCHANGED <<cpVars, manVars, rowVars, avail, locals, moves>>

UnbarRecovered ==
    /\ pc = "unbar_recovered"
    /\ \/ DeleteContinuityBarrier(cur) /\ pc' = "report_recovered" /\ UNCHANGED faults
       \/ Fault /\ pc' = "report" /\ UNCHANGED bar
    /\ UNCHANGED <<cpVars, manVars, reg, rep, retired, loc, helper, avail, locals, moves>>

\* The report of an operation whose result was lost with the process.
ReportRecovered ==
    /\ pc = "report_recovered"
    /\ IF rep[cur] = "applying" THEN ReportThen(cur, "outcome_unknown", "recover")
       ELSE pc' = "recover" /\ UNCHANGED <<rep, faults>>
    /\ todo' = todo \ {cur}
    /\ UNCHANGED <<cpVars, manVars, reg, bar, retired, loc, helper, avail, cur, outcome, moves>>

\* The steps of other components lie between recovery and acknowledgement;
\* one of them may end the pass.
RecoverDone ==
    /\ pc = "recover" /\ todo = {}
    /\ pc' \in {"register", "report"}
    /\ UNCHANGED <<cpVars, manVars, rowVars, helper, avail, locals, faults, moves>>

-----------------------------------------------------------------------------
(* Acknowledge: registration metadata, then retirement.                    *)

\* The effective registration of a binding is the successor of a listed pair.
Effective == Max(manRegs)

\* applyRegistrationMetadata: the receipt of an unchanged registration is
\* immutable; a changed one is revoked, verified against the source, or failed.
ApplyRegistrationMetadata ==
    LET status == IF ~manOn THEN "revoked" ELSE IF avail THEN "verified" ELSE "failed"
    IN  reg' = IF reg.status # "none" /\ reg.rev = Effective /\ reg.on = manOn
               THEN reg ELSE [rev |-> Effective, on |-> manOn, status |-> status]

\* The owners an acknowledgement accepts: the registration rows as they were
\* before this manifest, and every revision the manifest lists.
Register ==
    /\ pc = "register"
    /\ ApplyRegistrationMetadata
    /\ todo' = {o \in Ops : opRev[o] \in {reg.rev} \cup manRegs}
    /\ pc' = "retire"
    /\ UNCHANGED <<cpVars, manVars, rep, bar, retired, loc, helper, avail, cur, outcome,
                   faults, moves>>

\* A terminal report of an owned operation that the manifest no longer lists,
\* without a barrier and without a live local operation.
Retirable(o) ==
    /\ rep[o] \in Terminal /\ o \notin man
    /\ bar[o] = "none" /\ loc[o] \notin Live
    /\ o \in todo

\* RetireContinuityOperationReports: one transaction.
Retire ==
    /\ pc = "retire"
    /\ LET R == {o \in Ops : Retirable(o)}
       IN  /\ retired' = retired \cup R
           /\ rep' = [o \in Ops |-> IF o \in R THEN "none" ELSE rep[o]]
    /\ \/ pc' = "apply" /\ todo' = man
       \/ pc' = "report" /\ UNCHANGED todo
    /\ UNCHANGED <<cpVars, manVars, reg, bar, loc, helper, avail, cur, outcome, faults, moves>>

-----------------------------------------------------------------------------
(* Apply: applyOperation for each listed operation.                        *)

\* A retired operation ends the pass; one with a report is not run again. A
\* source that does not resolve, or a projection that cannot be provisioned,
\* fails the operation; otherwise its intent is made durable.
Begin(o) ==
    /\ pc = "apply" /\ o \in todo
    /\ cur' = o
    /\ \/ o \in retired /\ pc' = "report" /\ UNCHANGED <<todo, rep, bar, faults>>
       \/ /\ o \notin retired /\ rep[o] # "none"
          /\ todo' = todo \ {o} /\ UNCHANGED <<rep, bar, pc, faults>>
       \/ /\ o \notin retired /\ rep[o] = "none"
          /\ ReportThen(o, "failed", "apply") /\ todo' = todo \ {o} /\ UNCHANGED bar
       \/ /\ o \notin retired /\ rep[o] = "none" /\ avail
          /\ PutContinuityBarrier(o, "intent") /\ todo' = todo \ {o} /\ pc' = "applying"
          /\ UNCHANGED <<rep, faults>>
    /\ UNCHANGED <<cpVars, manVars, reg, retired, loc, helper, avail, outcome, moves>>

ApplyDone ==
    /\ pc = "apply" /\ todo = {}
    /\ pc' = "report"
    /\ UNCHANGED <<cpVars, manVars, rowVars, helper, avail, locals, faults, moves>>

\* The report is written when the operation ends, not before it starts.
BadApplying ==
    /\ pc = "applying"
    /\ pc' = "acquire"
    /\ UNCHANGED <<cpVars, manVars, rowVars, helper, avail, locals, faults, moves>>

Applying ==
    /\ pc = "applying"
    /\ ReportThen(cur, "applying", "acquire")
    /\ UNCHANGED <<cpVars, manVars, reg, bar, retired, loc, helper, avail, locals, moves>>

\* acquire_boundary: acknowledged, refused, or without an answer.
Acquire ==
    /\ pc = "acquire"
    /\ \/ /\ helper' = [helper EXCEPT ![cur] = "held"] /\ pc' = "receipt"
          /\ UNCHANGED <<rep, faults>>
       \/ pc' = "refused" /\ UNCHANGED <<rep, helper, faults>>
       \/ /\ Fault /\ helper' \in {helper, [helper EXCEPT ![cur] = "held"]}
          /\ \/ PutContinuityOperationReport(cur, "outcome_unknown") /\ pc' = "apply"
             \/ pc' = "report" /\ UNCHANGED rep
    /\ UNCHANGED <<cpVars, manVars, reg, bar, retired, loc, avail, locals, moves>>

Refuse ==
    /\ pc = "refused"
    /\ \/ /\ DeleteContinuityBarrier(cur) /\ outcome' = "failed" /\ pc' = "final"
          /\ UNCHANGED faults
       \/ Fault /\ pc' = "report" /\ UNCHANGED <<bar, outcome>>
    /\ UNCHANGED <<cpVars, manVars, reg, rep, retired, loc, helper, avail, cur, todo, moves>>

\* The receipt is stored and the source is resolved a second time: a changed
\* target is released without a capture.
Receipt ==
    /\ pc = "receipt"
    /\ \/ /\ PutContinuityBarrier(cur, "receipt") /\ UNCHANGED faults
          /\ \/ avail /\ pc' = "capture" /\ UNCHANGED outcome
             \/ pc' = "release" /\ outcome' = "failed"
       \/ Fault /\ pc' = "report" /\ UNCHANGED <<bar, outcome>>
    /\ UNCHANGED <<cpVars, manVars, reg, rep, retired, loc, helper, avail, cur, todo, moves>>

\* Service.Capture refuses the request, or makes its own row durable.
Capture ==
    /\ pc = "capture"
    /\ \/ /\ \E s \in {"pending", "capturing"} : loc' = [loc EXCEPT ![cur] = s]
          /\ pc' = "captured" /\ UNCHANGED outcome
       \/ UNCHANGED loc /\ pc' = "release" /\ outcome' = "capture_failed"
    /\ UNCHANGED <<cpVars, manVars, reg, rep, bar, retired, helper, avail, cur, todo, faults, moves>>

CaptureEnds ==
    /\ pc = "captured"
    /\ \/ loc' = [loc EXCEPT ![cur] = "captured"] /\ pc' = "checkpoint" /\ UNCHANGED <<outcome, faults>>
       \/ /\ loc' = [loc EXCEPT ![cur] = "failed"] /\ pc' = "release"
          /\ outcome' = "capture_failed" /\ UNCHANGED faults
       \/ /\ Fault /\ pc' = "release" /\ outcome' = "capture_failed"
          /\ loc' \in {loc, [loc EXCEPT ![cur] = "recovery_required"]}
    /\ UNCHANGED <<cpVars, manVars, reg, rep, bar, retired, helper, avail, cur, todo, moves>>

Checkpoint ==
    /\ pc = "checkpoint"
    /\ \E s \in {"pending", "verifying"} : loc' = [loc EXCEPT ![cur] = s]
    /\ pc' = "checkpointed"
    /\ UNCHANGED <<cpVars, manVars, reg, rep, bar, retired, helper, avail, locals, faults, moves>>

\* The checkpoint's error is dropped.
BadCheckpointEnds ==
    /\ pc = "checkpointed"
    /\ \E s \in {"succeeded", "failed"} : loc' = [loc EXCEPT ![cur] = s]
    /\ outcome' = "accepted" /\ pc' = "release"
    /\ UNCHANGED <<cpVars, manVars, reg, rep, bar, retired, helper, avail, cur, todo, faults, moves>>

\* A failure to record the result fails the operation but leaves the row.
CheckpointEnds ==
    /\ pc = "checkpointed"
    /\ \/ loc' = [loc EXCEPT ![cur] = "succeeded"] /\ outcome' = "accepted" /\ UNCHANGED faults
       \/ loc' = [loc EXCEPT ![cur] = "failed"] /\ outcome' = "failed" /\ UNCHANGED faults
       \/ Fault /\ UNCHANGED loc /\ outcome' = "failed"
    /\ pc' = "release"
    /\ UNCHANGED <<cpVars, manVars, reg, rep, bar, retired, helper, avail, cur, todo, moves>>

\* release: without an answer the outcome is unknown and the barrier stays.
Release ==
    /\ pc = "release"
    /\ \/ /\ helper' = [helper EXCEPT ![cur] = "released"] /\ pc' = "unbar"
          /\ UNCHANGED <<rep, faults>>
       \/ /\ Fault /\ helper' \in {helper, [helper EXCEPT ![cur] = "released"]}
          /\ \/ PutContinuityOperationReport(cur, "outcome_unknown") /\ pc' = "apply"
             \/ pc' = "report" /\ UNCHANGED rep
    /\ UNCHANGED <<cpVars, manVars, reg, bar, retired, loc, avail, locals, moves>>

\* An error of this write ends the pass, except after a failed capture.
Unbar ==
    /\ pc = "unbar"
    /\ \/ DeleteContinuityBarrier(cur) /\ pc' = "final" /\ UNCHANGED faults
       \/ Fault /\ UNCHANGED bar /\ (pc' = "report" \/ (outcome = "capture_failed" /\ pc' = "final"))
    /\ UNCHANGED <<cpVars, manVars, reg, rep, retired, loc, helper, avail, locals, moves>>

Final ==
    /\ pc = "final"
    /\ ReportThen(cur, IF outcome = "accepted" THEN "accepted" ELSE "failed", "apply")
    /\ UNCHANGED <<cpVars, manVars, reg, bar, retired, loc, helper, avail, locals, moves>>

\* ReportsCurrent: the control plane learns the status of what it listed, or
\* the report is lost.
Report ==
    /\ pc = "report"
    /\ \/ seen' = [o \in Ops |-> IF o \in man THEN rep[o] ELSE seen[o]] /\ UNCHANGED faults
       \/ Fault /\ UNCHANGED seen
    /\ pc' = "fetch"
    /\ UNCHANGED <<want, wantRev, wantOn, opRev, manVars, rowVars, helper, avail, locals, moves>>

-----------------------------------------------------------------------------
(* The environment.                                                        *)

Crash ==
    /\ pc # "down" /\ Fault
    /\ pc' = "down"
    /\ UNCHANGED <<cpVars, manVars, rowVars, helper, avail, locals, moves>>

Restart ==
    /\ pc = "down"
    /\ pc' = "fetch"
    /\ UNCHANGED <<cpVars, manVars, rowVars, helper, avail, locals, faults, moves>>

\* The control plane issues an operation under the active binding.
Issue(o) ==
    /\ opRev[o] = 0 /\ wantOn
    /\ want' = want \cup {o} /\ opRev' = [opRev EXCEPT ![o] = wantRev]
    /\ UNCHANGED <<seen, wantRev, wantOn, manVars, rowVars, helper, avail, pc, locals,
                   faults, moves>>

\* It drops one whose terminal report it has.
Drop(o) ==
    /\ o \in want /\ seen[o] \in Terminal
    /\ want' = want \ {o}
    /\ UNCHANGED <<seen, wantRev, wantOn, opRev, manVars, rowVars, helper, avail, pc, locals,
                   faults, moves>>

\* It withdraws an unfinished one, or lists a dropped one again.
Relist(o) ==
    /\ opRev[o] # 0 /\ Move
    /\ want' = IF o \in want THEN want \ {o} ELSE want \cup {o}
    /\ UNCHANGED <<seen, wantRev, wantOn, opRev, manVars, rowVars, helper, avail, pc, locals,
                   faults>>

\* It revokes the binding, or reactivates it under the next revision.
Rebind ==
    /\ Move
    /\ \/ wantOn /\ wantOn' = FALSE /\ UNCHANGED wantRev
       \/ ~wantOn /\ wantRev < MaxRev /\ wantOn' = TRUE /\ wantRev' = wantRev + 1
    /\ UNCHANGED <<want, seen, opRev, manVars, rowVars, helper, avail, pc, locals, faults>>

\* The observation of the source becomes stale or fresh, or its lifecycle moves.
SourceMoves ==
    /\ Move
    /\ avail' = ~avail
    /\ UNCHANGED <<cpVars, manVars, rowVars, helper, pc, locals, faults>>

RecoverStep ==
    \/ Fetch \/ LocalSafety \/ ReleaseRecovered \/ UnbarRecovered \/ ReportRecovered
    \/ RecoverDone \/ Register \/ Retire
    \/ \E o \in Ops : Reconcile(o)

ApplyStep ==
    \/ \E o \in Ops : Begin(o)
    \/ ApplyDone \/ Applying \/ Acquire \/ Refuse \/ Receipt \/ Capture \/ CaptureEnds
    \/ Checkpoint \/ CheckpointEnds \/ Release \/ Unbar \/ Final

Daemon == RecoverStep \/ ApplyStep \/ Report \/ Restart

ControlPlane == Rebind \/ \E o \in Ops : Issue(o) \/ Drop(o) \/ Relist(o)

Next == Daemon \/ Crash \/ ControlPlane \/ SourceMoves

Spec == Init /\ [][Next]_vars

\* The pass loop does not stop and systemd restarts the daemon. Nothing is
\* assumed of the control plane.
FairSpec == Spec /\ WF_vars(Daemon)

-----------------------------------------------------------------------------
(* Correctness.                                                            *)

\* A boundary the helper holds for an operation has a durable barrier: the
\* intent precedes acquire_boundary and the row outlives the release
\* (coordinator.go:346-353, 396-402), so no crash leaves a box held by nobody.
BoundaryHasBarrier == \A o \in Ops : helper[o] = "held" => bar[o] # "none"

\* An operation runs at most once: a boundary that was released is never
\* acquired again, whatever is replayed, listed again or retired
\* (coordinator.go:308-327: a report, then a tombstone, stands for it).
ReleasedIsFinal == [][\A o \in Ops : helper[o] = "released" => helper'[o] = "released"]_vars

\* A report that claims to know the outcome is only written once the boundary
\* is free (coordinator.go:369-412); a release without an answer is reported
\* outcome_unknown.
KnownOutcomeIsReleased ==
    \A o \in Ops : rep[o] \in {"accepted", "failed"} => helper[o] # "held"

\* What the control plane is told is accepted is an accepted checkpoint
\* (coordinator.go:405-412).
AcceptedMeansCheckpoint ==
    \A o \in Ops : "accepted" \in {rep[o], seen[o]} => loc[o] = "succeeded"

\* A retired operation is over: no barrier, no boundary, no live local
\* operation, and no report that would be sent again (coordinator.go:190-203).
RetiredIsOver ==
    \A o \in retired : /\ rep[o] = "none" /\ bar[o] = "none"
                       /\ helper[o] # "held" /\ loc[o] \notin Live

\* What is reported or retired is so: a report tells the truth about the boundary
\* and the checkpoint, a tombstone leaves nothing behind.
ReportIsTrue == KnownOutcomeIsReleased /\ AcceptedMeansCheckpoint /\ RetiredIsOver

\* The receipt of an unchanged registration is immutable, and a registration
\* never goes back to a predecessor a manifest still lists
\* (coordinator.go:104-107, 124-132).
RegistrationIsStable ==
    [][/\ reg'.rev >= reg.rev
       /\ reg'.rev = reg.rev /\ reg'.on = reg.on => reg' = reg]_vars

\* What was released stays released and what was registered stays registered.
NothingReverts == ReleasedIsFinal /\ RegistrationIsStable

\* A held boundary is released as long as the control plane keeps the operation
\* listed, the source resolves and no local operation requires recovery
\* (RecoverCurrent, coordinator.go:669-748).
HeldIsReleased ==
    \A o \in Ops : helper[o] = "held" ~>
        \/ helper[o] # "held" \/ o \notin want \/ ~avail
        \/ \E p \in Ops : loc[p] = "recovery_required"
=============================================================================
