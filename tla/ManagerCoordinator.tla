-------------------------- MODULE ManagerCoordinator --------------------------
(***************************************************************************)
(* The insights collector and the manager coordinator of the runtime       *)
(* (internal/insights, internal/manager), as the daemon's pass and its     *)
(* post-report feedback phase drive them: findings travel from the monitor *)
(* through a durable outbox to the control plane, an acknowledged finding  *)
(* may be admitted as one automatic review, a review is a paid model run   *)
(* of a helper, its recommendation may be steered into the worker once,    *)
(* and the owner may pause and resume the member with takeovers.           *)
(*                                                                         *)
(* One sandbox with one source and one finding; the finding's revisions    *)
(* are what the monitor reports.  A reservation is identified by the batch *)
(* that anchored it, and its run carries the same number; run 0 is the     *)
(* owner's manual review.  Every call to the control plane or the helper   *)
(* may fail before or after its effect, or find the daemon dead after it.  *)
(*                                                                         *)
(* Definitions named Bad... are seeded faults, used by no action: each     *)
(* stands in for the definition after it to show a property would notice.  *)
(***************************************************************************)
EXTENDS Integers, FiniteSets

CONSTANTS None,             \* the absent row
          MaxFindingRev,    \* bound: revisions of the finding
          MaxBatches,       \* bound: insight batches built
          MaxPolicy,        \* bound: revisions of the manager policy
          MaxManagerFaults  \* bound: failed calls, crashes and changes of authority

ASSUME BoundsAssumption ==
    {MaxFindingRev, MaxBatches, MaxPolicy} \subseteq Nat \ {0} /\ MaxManagerFaults \in Nat

VARIABLES
    desired,   \* control plane: the manager policy it wants, [mode, rev]
    known,     \* control plane: the revision of the finding it accepted
    task,      \* control plane: the canonical task of the target
    acked,     \* control plane: the state it acknowledged for each run
    granted,   \* control plane: the reservations it granted
    manual,    \* control plane: the manual review of the manifest, or None
    owner,     \* control plane: the takeovers of the manifest, [pause, resume]
    ipol,      \* control plane: the insights policy, [rev, on]
    src,       \* the current generation of the source
    mon,       \* the monitor's finding, [rev, open]
    hlp,       \* the helper's view of each run
    did,       \* the takeover operations the helper carried out
    negotiated,    \* the stored capability of the sandbox generation has a native guard
    pol, fnd, intent, run, hold, outbox, cursor,    \* the tables
    place, ret, inhand, duties, failed, skip,    \* the daemon's pass
    built,     \* how many batches were built
    managerFaults

control == <<desired, known, task, acked, granted, manual, owner, ipol>>
world   == <<src, mon, hlp, did, negotiated>>
tables  == <<pol, fnd, intent, run, hold, outbox, cursor>>
pass    == <<place, ret, inhand, duties, failed, skip>>
managerVars    == <<control, world, tables, pass, built, managerFaults>>

Batches == 1..MaxBatches
Runs    == 0..MaxBatches
TakeoverOps     == {"pause", "resume"}

-----------------------------------------------------------------------------
(* Calls and failures.                                                     *)

\* How a call to the control plane or to the helper ends.
CallOutcomes == {"ok", "lost", "fail", "crash"}

\* Every outcome but "ok" is a fault, and faults are bounded.
Outcome(o) ==
    /\ o \in CallOutcomes
    /\ managerFaults' = managerFaults + (IF o = "ok" THEN 0 ELSE 1)
    /\ managerFaults' <= MaxManagerFaults

\* Did the callee act?
Effect(o) == o # "fail"

\* Where the daemon goes after an error: the feedback phase survives an
\* error of the admissions, everything else ends the pass.
OnError == IF ret = "adm" THEN "round" ELSE "idle"

\* The daemon's next step after a call: the pass is over when it died.
After(o, next) ==
    place' = CASE o = "ok" -> next [] o = "crash" -> "idle" [] OTHER -> OnError

\* The locals of the pass: what is left to do and the run in hand.
Left(rest) == duties' = IF place' \in {"idle", "round"} THEN {} ELSE rest
InHand(r)  == inhand' = IF place' \in {"ack", "go", "sub", "steer"} THEN r ELSE 0

-----------------------------------------------------------------------------
(* Authority.                                                              *)

\* A policy that may start reviews.
ReviewPolicyModeValid == pol.mode \in {"recommend", "auto_steer"}

\* auto_steer needs a capability with the native guard of its policy object.
AutoSteerQualified == pol.mode = "auto_steer" => negotiated

\* The local source, service and capability are those of the review.
LocalSourceAuthority(a) == src = a.src /\ AutoSteerQualified

\* The canonical target, freshly read from the control plane, is unchanged.
LocalTargetAuthority(a, read) == read /\ known = a.rev /\ task = a.task

\* An automatic review needs its acknowledged finding at the same revision.
FindingEvidence(r, a) == r = 0 \/ (fnd # None /\ fnd.rev = a.rev /\ fnd.src = a.src)

ReviewAuthority(r, a, lease, read) ==
    /\ lease
    /\ LocalSourceAuthority(a)
    /\ ReviewPolicyModeValid /\ pol.rev = a.prev /\ pol.lease
    /\ FindingEvidence(r, a)
    /\ LocalTargetAuthority(a, read)

\* A read of the target that fails is a fault.
Read(read) ==
    /\ managerFaults' = managerFaults + (IF read THEN 0 ELSE 1)
    /\ managerFaults' <= MaxManagerFaults

Row(a, phase, lease, auto, rep) ==
    [phase |-> phase, rev |-> a.rev, prev |-> a.prev, src |-> a.src,
     task |-> a.task, lease |-> lease, auto |-> auto, rep |-> rep,
     att |-> FALSE, guid |-> None]

TerminalPhases == {"recommended", "failed"}
Running  == {"start_ack_pending", "execution_unknown", "reviewing"}

\* The dispositions of guidance that never change again.
FinalGuidance == {"available", "cancelled", "refused"}

-----------------------------------------------------------------------------
(* The rows and what they hold.                                            *)

Optional(S) == S \cup {None}
Modes    == {"off", "recommend", "auto_steer"}
Tasks    == 1..2     \* the task may change once
Sources  == 1..2     \* the source may rotate once
RunReports  == {"zero"} \cup TerminalPhases
Policies == [mode : Modes, rev : 1..MaxPolicy, lease : BOOLEAN,
             status : {"applied", "awaiting_guidance"}, guard : BOOLEAN]
Reviews  == [rev : 1..MaxFindingRev, prev : 1..MaxPolicy, src : Sources, task : Tasks]
Requests == [prev : 1..MaxPolicy, src : Sources, task : Tasks, n : 1..2]
Holds    == [phase : {"acquiring", "acquire_unknown", "releasing", "release_unknown",
                      "unsettled", "ready", "released"},
             prev : 1..MaxPolicy, n : 1..2, rep : Optional({"ready", "unsettled"})]
Intents  == [phase : {"pending", "reserved", "applied", "unused"}, rev : 1..MaxFindingRev,
             prev : 1..MaxPolicy, src : Sources, task : Tasks, mode : Modes]
RunRows  == [phase : Running \cup TerminalPhases \cup {"report_pending"}, rev : 1..MaxFindingRev,
             prev : 1..MaxPolicy, src : Sources, task : Tasks, lease : BOOLEAN, auto : BOOLEAN,
             rep : Optional(RunReports), att : BOOLEAN,
             guid : Optional(FinalGuidance \cup {"pending", "unknown"})]
HelperRuns == [starts : Nat, more : SUBSET {"runs", "adv"}, st : {"none", "running"} \cup TerminalPhases,
               steers : Nat, guid : FinalGuidance \cup {"none", "pending"}]
Anchors  == [st : {"pending", "deferred", "declined", "admitted"}, b : Batches, mode : Modes,
             prev : 1..MaxPolicy, task : Tasks]
Findings == [rev : 1..MaxFindingRev, open : BOOLEAN, src : Sources, anchor : Anchors]
Items    == [b : Batches, irev : 1..2, on : BOOLEAN, src : Sources, seq : 0..MaxFindingRev,
             rev : 0..MaxFindingRev, open : BOOLEAN]

\* Where the pass may be: at a phase, at a call of a run, at a takeover.
Places == {"idle", "resv", "runs", "holds", "guid", "pol", "revw", "listed", "tko", "fpol",
           "ifetch", "outbox", "adm0", "adm", "round", "disp", "adv"}
Calls  == {"ack", "go", "sub", "steer"}

\* No row and no answer is None.
ASSUME NoRow ==
    /\ None \notin Reviews \cup Requests \cup Holds \cup Intents \cup RunRows \cup Findings
    /\ None \notin RunReports \cup FinalGuidance \cup {"pending", "unknown", "ready", "unsettled"}

-----------------------------------------------------------------------------
ManagerInit ==
    /\ \E m \in {"recommend", "auto_steer"} :
          /\ desired = [mode |-> m, rev |-> 1]
          /\ pol = [mode |-> m, rev |-> 1, lease |-> TRUE, status |-> "applied", guard |-> TRUE]
    /\ known = 0 /\ task = 1
    /\ acked = [r \in Runs |-> "none"] /\ granted = {}
    /\ manual = None /\ owner = [o \in TakeoverOps |-> None]
    /\ ipol = [rev |-> 1, on |-> TRUE]
    /\ src = 1 /\ mon = [rev |-> 0, open |-> TRUE]
    /\ hlp = [r \in Runs |-> [starts |-> 0, more |-> {}, st |-> "none", steers |-> 0, guid |-> "none"]]
    /\ did = {} /\ negotiated = TRUE
    /\ fnd = None
    /\ intent = [b \in Batches |-> None] /\ run = [r \in Runs |-> None]
    /\ hold = [o \in TakeoverOps |-> None]
    /\ outbox = {} /\ cursor = [seq |-> 0, irev |-> 0, on |-> FALSE]
    /\ place = "idle" /\ ret = "idle" /\ inhand = 0 /\ duties = {} /\ failed = FALSE /\ skip = FALSE
    /\ built = 0 /\ managerFaults = 0

-----------------------------------------------------------------------------
(* The pass.  A phase works off the rows it found when it began.           *)

UnsettledIntents == {b \in Batches : intent[b] # None /\ intent[b].phase \in {"pending", "reserved"}}
UnsettledRuns    == {r \in Runs : run[r] # None /\ run[r].phase \notin TerminalPhases}
UnsettledHolds   == {o \in TakeoverOps : hold[o] # None /\ hold[o].phase \in {"acquiring", "acquire_unknown", "releasing", "release_unknown"}}
GuidanceRows     == {r \in Runs : run[r] # None /\ run[r].att /\ run[r].guid \notin FinalGuidance}

\* The lease of a pause whose acquisition is unknown is renewed first: the
\* exact Off policy must be applied, else the whole pass fails.
RenewalDue ==
    /\ hold["pause"] # None /\ owner["pause"] # None
    /\ hold["pause"].phase = "acquire_unknown"
    /\ hold["pause"].n # owner["pause"].n
RenewalAllowed ==
    /\ src = owner["pause"].src /\ task = owner["pause"].task
    /\ pol.mode = "off" /\ pol.rev = owner["pause"].prev /\ pol.status = "applied"
    /\ desired = [mode |-> pol.mode, rev |-> pol.rev]

\* The phases of the recovery, in order, and the rows each has to look at; a
\* phase without rows is passed over.
RecoveryPhases == <<"resv", "runs", "holds", "guid", "pol">>

Due(p) ==
    CASE p = "resv" -> UnsettledIntents [] p = "runs" -> UnsettledRuns
      [] p = "holds" -> UnsettledHolds [] p = "guid" -> GuidanceRows [] OTHER -> {}

EnterPhase(k) ==
    \E i \in k..5 :
        /\ i = 5 \/ Due(RecoveryPhases[i]) # {}
        /\ \A j \in k..(i - 1) : Due(RecoveryPhases[j]) = {}
        /\ place' = RecoveryPhases[i] /\ duties' = Due(RecoveryPhases[i])

RenewPendingTakeovers ==
    /\ place = "idle"
    /\ IF RenewalDue /\ ~RenewalAllowed THEN place' = "idle" /\ duties' = {} ELSE EnterPhase(1)
    /\ ret' = place'
    /\ hold' = IF RenewalDue /\ RenewalAllowed
               THEN [hold EXCEPT !["pause"].n = owner["pause"].n] ELSE hold
    /\ UNCHANGED <<control, world, pol, fnd, intent, run, outbox, cursor, inhand, failed, skip, built, managerFaults>>

\* The rounds go on while some automatic run may still steer the worker.
AutomaticWorkPending ==
    \E r \in Batches :
        /\ run[r] # None /\ run[r].auto /\ ~run[r].att
        /\ ReviewAuthority(r, run[r], run[r].lease, TRUE)
        /\ run[r].phase \notin TerminalPhases \/ (run[r].phase = "recommended" /\ pol.mode = "auto_steer")

ListedTakeovers == {op \in TakeoverOps : owner[op] # None}
AutomaticRuns   == {r \in UnsettledRuns : run[r].auto}
Steerable       == {r \in Runs : run[r] # None /\ run[r].auto /\ ~run[r].att}

\* A phase with nothing left to do hands over to the next one.
NextPhase ==
    /\ duties = {}
    /\ \/ \E k \in 1..4 : place = RecoveryPhases[k] /\ EnterPhase(k + 1)
       \/ place = "listed" /\ place' = "tko" /\ duties' = ListedTakeovers
       \/ place = "disp"  /\ place' = "adv"   /\ duties' = AutomaticRuns
       \/ place = "adv"   /\ AutomaticWorkPending /\ place' = "round" /\ duties' = {}
       \/ place = "adv"   /\ place' = "idle" /\ duties' = {}
       \/ place = "adm"   /\ place' = "round" /\ duties' = {}
    /\ ret' = place'
    /\ UNCHANGED <<control, world, tables, inhand, failed, skip, built, managerFaults>>

-----------------------------------------------------------------------------
(* Reservations.                                                           *)

\* The control plane's answer to a reservation request: it keeps its word on
\* one it granted, and tells a stale source or target from anything else.
ReserveAnswer(b) ==
    CASE b \in granted -> "granted"
      [] b \notin granted /\ (src # intent[b].src \/ known # intent[b].rev \/ task # intent[b].task) -> "stale"
      [] b \notin granted /\ src = intent[b].src /\ known = intent[b].rev /\ task = intent[b].task
            /\ (desired.rev # intent[b].prev \/ desired.mode = "off") -> "refused"
      [] OTHER -> "granted"

\* completeAutomaticReservation up to the stored reservation.  A request of a
\* superseded policy is an error; a typed stale refusal retires the intent.
CompleteAutomaticReservation(b, o) ==
    /\ intent[b].phase = "pending" \/ pol.rev # intent[b].prev
    /\ IF pol.rev # intent[b].prev
       THEN /\ o = "ok" /\ place' = OnError /\ ret' = OnError
            /\ UNCHANGED <<granted, intent, inhand, managerFaults>> /\ Left(duties)
       ELSE LET answer == ReserveAnswer(b) IN
            /\ Outcome(o)
            /\ granted' = IF Effect(o) /\ answer = "granted" THEN granted \cup {b} ELSE granted
            /\ intent' = CASE o = "ok" /\ answer = "granted" -> [intent EXCEPT ![b].phase = "reserved"]
                           [] o = "ok" /\ answer = "stale" -> [intent EXCEPT ![b].phase = "unused"]
                           [] OTHER -> intent
            /\ IF o = "ok" /\ answer # "refused" THEN place' = place /\ ret' = ret
               ELSE After(IF o = "ok" THEN "fail" ELSE o, place) /\ ret' = place'
            /\ Left(IF answer = "stale" THEN duties \ {b} ELSE duties)
            /\ UNCHANGED inhand
    /\ UNCHANGED <<desired, known, task, acked, manual, owner, ipol, world,
                   pol, fnd, run, hold, outbox, cursor, failed, skip, built>>

\* The stored reservation becomes a run, or is settled without execution when
\* its authority is gone; a run that is already there is only linked.
BeginReservedRun(b, fresh, read, dies) ==
    /\ intent[b].phase = "reserved" /\ pol.rev = intent[b].prev
    /\ dies \in BOOLEAN
    /\ managerFaults' = managerFaults + (IF read THEN 0 ELSE 1) + (IF dies THEN 1 ELSE 0)
    /\ managerFaults' <= MaxManagerFaults
    /\ LET ok == ReviewAuthority(b, intent[b], fresh, read) IN
       /\ run' = IF run[b] # None THEN run
                 ELSE [run EXCEPT ![b] = IF ok THEN Row(intent[b], "start_ack_pending", TRUE, TRUE, None)
                                         ELSE Row(intent[b], "report_pending", FALSE, FALSE, "zero")]
       /\ intent' = IF dies THEN intent ELSE [intent EXCEPT ![b].phase = "applied"]
       /\ place' = CASE dies -> "idle"
                  [] ~dies /\ run[b] # None -> place
                  [] ~dies /\ run[b] = None /\ ok -> "ack"
                  [] OTHER -> "sub"
       /\ ret' = IF dies THEN "idle" ELSE ret
    /\ InHand(b) /\ Left(duties \ {b})
    /\ UNCHANGED <<control, world, pol, fnd, hold, outbox, cursor, failed, skip, built>>

RecoverReservations ==
    /\ place = "resv"
    /\ \E b \in duties :
          \/ \E o \in CallOutcomes : CompleteAutomaticReservation(b, o)
          \/ \E fresh, read, dies \in BOOLEAN : BeginReservedRun(b, fresh, read, dies)

-----------------------------------------------------------------------------
(* Runs.                                                                   *)

\* Possible dispatch is not stored before the helper is called.
BadStartAcknowledgedReview(o, read) ==
    /\ place = "ack"
    /\ (o # "ok" => read)
    /\ managerFaults' = managerFaults + (IF o = "ok" THEN 0 ELSE 1) + (IF read THEN 0 ELSE 1)
    /\ managerFaults' <= MaxManagerFaults
    /\ acked' = IF Effect(o) /\ acked[inhand] = "none" THEN [acked EXCEPT ![inhand] = "reviewing"] ELSE acked
    /\ LET ok == ReviewAuthority(inhand, run[inhand], run[inhand].lease, read) IN
       /\ run' = CASE o = "ok" /\ ok -> run
                   [] o = "ok" /\ ~ok -> [run EXCEPT ![inhand].phase = "report_pending", ![inhand].rep = "zero"]
                   [] OTHER -> run
       /\ After(o, IF ok THEN "go" ELSE "sub")
    /\ ret' = IF o = "ok" THEN ret ELSE place'
    /\ InHand(inhand) /\ Left(duties)
    /\ UNCHANGED <<desired, known, task, granted, manual, owner, ipol, world,
                   pol, fnd, intent, hold, outbox, cursor, failed, skip, built>>

\* The exact reviewing report is acknowledged before anything is dispatched;
\* the authority is then checked again, and possible dispatch is stored.
StartAcknowledgedReview(o, read) ==
    /\ place = "ack"
    /\ (o # "ok" => read)
    /\ managerFaults' = managerFaults + (IF o = "ok" THEN 0 ELSE 1) + (IF read THEN 0 ELSE 1)
    /\ managerFaults' <= MaxManagerFaults
    /\ acked' = IF Effect(o) /\ acked[inhand] = "none" THEN [acked EXCEPT ![inhand] = "reviewing"] ELSE acked
    /\ LET ok == ReviewAuthority(inhand, run[inhand], run[inhand].lease, read) IN
       /\ run' = CASE o = "ok" /\ ok -> [run EXCEPT ![inhand].phase = "execution_unknown"]
                   [] o = "ok" /\ ~ok -> [run EXCEPT ![inhand].phase = "report_pending", ![inhand].rep = "zero"]
                   [] OTHER -> run
       /\ After(o, IF ok THEN "go" ELSE "sub")
    /\ ret' = IF o = "ok" THEN ret ELSE place'
    /\ InHand(inhand) /\ Left(duties)
    /\ UNCHANGED <<desired, known, task, granted, manual, owner, ipol, world,
                   pol, fnd, intent, hold, outbox, cursor, failed, skip, built>>

\* The helper answers execution_unknown while it cannot tell what came of a
\* run: that is a fault too, of the bounded number.
Answered(o, unsure) ==
    /\ o \in CallOutcomes
    /\ unsure => o = "ok"
    /\ managerFaults' = managerFaults + (IF o = "ok" /\ ~unsure THEN 0 ELSE 1)
    /\ managerFaults' <= MaxManagerFaults

\* The helper's answers to a start; a refusal is a failed run.
StartAnswers == {"reviewing", "execution_unknown", "failed"}

\* The helper is asked to start the paid review.  An error leaves the run
\* unknown; from here on it is only observed or continued.
StartReview(o, answer) ==
    /\ place = "go" /\ answer \in StartAnswers
    /\ Answered(o, answer = "execution_unknown")
    /\ hlp' = IF Effect(o) THEN [hlp EXCEPT ![inhand].starts = @ + 1,
                                            ![inhand].st = IF answer = "failed" THEN "failed" ELSE "running"]
              ELSE hlp
    /\ run' = CASE o = "ok" /\ answer # "failed" -> [run EXCEPT ![inhand].phase = answer]
                [] o = "ok" /\ answer = "failed" -> [run EXCEPT ![inhand].phase = "report_pending", ![inhand].rep = "failed"]
                [] OTHER -> run
    /\ After(o, IF answer = "failed" THEN "sub" ELSE ret)
    /\ ret' = IF o = "ok" THEN ret ELSE place'
    /\ InHand(inhand) /\ Left(duties)
    /\ UNCHANGED <<control, src, mon, did, negotiated, pol, fnd, intent, hold, outbox, cursor, failed, skip, built>>

\* A run the helper has no record of is taken to be running.
BadReviewStatus(r) ==
    CASE hlp[r].st = "running" -> "reviewing"
      [] hlp[r].st = "none" -> "reviewing"
      [] OTHER -> hlp[r].st

\* The helper's answer to an observation of a run it may never have seen.
ReviewStatus(r) ==
    CASE hlp[r].st = "running" -> "reviewing"
      [] hlp[r].st = "none" -> "failed"
      [] OTHER -> hlp[r].st

\* The recovery continues what it finds reviewing, automatic or not.
BadContinues(r) == run[r].phase = "reviewing"

\* A reviewing run is continued, an unknown one only reconciled; the recovery
\* observes an automatic run whatever its phase, and leaves its further model
\* request to the feedback phase, behind the gate of the current policy.
Continues(r) == run[r].phase = "reviewing" /\ (place = "adv" \/ ~run[r].auto)

\* continue_review may make the helper pay for a further model request, and
\* where in the pass it did is kept while the run lasts; reconcile_review
\* never does.
MakesRequest(r) == Continues(r) /\ hlp[r].st = "running"

\* resumeRun, never start_review.
ResumeRun(r, o, unsure) ==
    /\ run[r].phase \in {"execution_unknown", "reviewing"}
    /\ Answered(o, unsure)
    /\ hlp' = IF Effect(o) /\ MakesRequest(r) THEN [hlp EXCEPT ![r].more = @ \cup {place}] ELSE hlp
    /\ LET status == IF unsure THEN "execution_unknown" ELSE ReviewStatus(r) IN
       /\ run' = CASE o = "ok" /\ status \notin TerminalPhases -> [run EXCEPT ![r].phase = status]
                   [] o = "ok" /\ status \in TerminalPhases -> [run EXCEPT ![r].phase = "report_pending", ![r].rep = status]
                   [] o \in {"lost", "fail"} -> [run EXCEPT ![r].phase = "execution_unknown"]
                   [] OTHER -> run
       /\ After(o, IF status \in TerminalPhases THEN "sub" ELSE place)
    /\ ret' = IF o = "ok" THEN ret ELSE place'
    /\ InHand(r) /\ Left(duties \ {r})
    /\ UNCHANGED <<control, src, mon, did, negotiated, pol, fnd, intent, hold, outbox, cursor, failed, skip, built>>

\* An unknown execution is recovered as one that was never started.
BadRecoverStartAck(r, read) ==
    /\ run[r].phase \in {"start_ack_pending", "execution_unknown"}
    /\ Read(read)
    /\ LET ok == ReviewAuthority(r, run[r], run[r].lease, read) IN
       /\ run' = IF ok THEN run
                 ELSE [run EXCEPT ![r].phase = "report_pending", ![r].rep = "zero"]
       /\ place' = IF ok THEN "ack" ELSE "sub"
    /\ InHand(r) /\ Left(duties \ {r})
    /\ UNCHANGED <<control, world, pol, fnd, intent, hold, outbox, cursor, ret, failed, skip, built>>

\* A start that was never acknowledged is retried while its authority holds,
\* else the run is settled as never started.
RecoverStartAck(r, read) ==
    /\ run[r].phase = "start_ack_pending"
    /\ Read(read)
    /\ LET ok == ReviewAuthority(r, run[r], run[r].lease, read) IN
       /\ run' = IF ok THEN run
                 ELSE [run EXCEPT ![r].phase = "report_pending", ![r].rep = "zero"]
       /\ place' = IF ok THEN "ack" ELSE "sub"
    /\ InHand(r) /\ Left(duties \ {r})
    /\ UNCHANGED <<control, world, pol, fnd, intent, hold, outbox, cursor, ret, failed, skip, built>>

\* The terminal report is stored before it is sent, and sent again as it is.
SubmitRunReport(r, o) ==
    /\ Outcome(o)
    /\ acked' = IF Effect(o) THEN [acked EXCEPT ![r] = run[r].rep] ELSE acked
    /\ run' = IF o = "ok" THEN [run EXCEPT ![r].phase = IF run[r].rep = "zero" THEN "failed" ELSE run[r].rep]
              ELSE run
    /\ After(o, ret)
    /\ ret' = IF o = "ok" THEN ret ELSE place'
    /\ InHand(r) /\ Left(duties \ {r})
    /\ UNCHANGED <<desired, known, task, granted, manual, owner, ipol, world,
                   pol, fnd, intent, hold, outbox, cursor, failed, skip, built>>

SendReport == place = "sub" /\ \E o \in CallOutcomes : SubmitRunReport(inhand, o)

AdvanceRun(r) ==
    \/ \E read \in BOOLEAN : RecoverStartAck(r, read)
    \/ \E o \in CallOutcomes, unsure \in BOOLEAN : ResumeRun(r, o, unsure)
    \/ run[r].phase = "report_pending" /\ \E o \in CallOutcomes : SubmitRunReport(r, o)

RecoverRuns == place = "runs" /\ \E r \in duties : AdvanceRun(r)

\* The feedback phase advances an automatic run only while the policy and the
\* lease it was admitted under still hold.
AutomaticRunEligible(r) == ReviewAuthority(r, run[r], run[r].lease, TRUE)

LeaveRun(r) ==
    /\ ~AutomaticRunEligible(r)
    /\ duties' = duties \ {r}
    /\ UNCHANGED <<control, world, tables, place, ret, inhand, failed, skip, built, managerFaults>>

AdvanceAutomaticRuns ==
    /\ place = "adv"
    /\ \E r \in duties : (AutomaticRunEligible(r) /\ AdvanceRun(r)) \/ LeaveRun(r)

-----------------------------------------------------------------------------
(* Guidance.                                                               *)

\* The attempt is stored before the one call that may steer the worker.
GuidanceDue(r) ==
    /\ run[r] # None /\ run[r].auto /\ ~run[r].att
    /\ run[r].phase = "recommended"
    /\ pol.mode = "auto_steer"
    /\ ReviewAuthority(r, run[r], run[r].lease, TRUE)

DispatchPendingGuidance ==
    /\ place = "disp"
    /\ \E r \in duties :
          /\ IF GuidanceDue(r)
             THEN run' = [run EXCEPT ![r].att = TRUE] /\ place' = "steer" /\ inhand' = r
             ELSE UNCHANGED <<run, place, inhand>>
          /\ duties' = duties \ {r}
    /\ UNCHANGED <<control, world, pol, fnd, intent, hold, outbox, cursor, ret, failed, skip, built, managerFaults>>

DispatchGuidance(o, refuses) ==
    /\ place = "steer"
    /\ Outcome(o)
    /\ LET answer == IF refuses THEN "refused" ELSE "pending" IN
       /\ hlp' = IF Effect(o) THEN [hlp EXCEPT ![inhand].steers = @ + 1, ![inhand].guid = answer] ELSE hlp
       /\ run' = CASE o = "ok" -> [run EXCEPT ![inhand].guid = answer]
                   [] o = "crash" -> run
                   [] OTHER -> [run EXCEPT ![inhand].guid = "unknown"]
    /\ After(o, ret)
    /\ ret' = IF o = "ok" THEN ret ELSE place'
    /\ InHand(inhand) /\ Left(duties)
    /\ UNCHANGED <<control, src, mon, did, negotiated, pol, fnd, intent, hold, outbox, cursor, failed, skip, built>>

\* A final disposition never changes; an observation only moves an open one.
PersistGuidance(r, state) ==
    [run EXCEPT ![r].guid = IF @ \in FinalGuidance THEN @ ELSE state]

\* Attempted guidance is observed.  With no snapshot yet an unreadable one is
\* stored as unknown, once for a run and so no fault of the bounded number;
\* with one, the error ends the pass.
RecoverPendingGuidance ==
    /\ place = "guid"
    /\ \E r \in duties, o \in {"ok", "fail"} :
          /\ IF run[r].guid = None THEN UNCHANGED managerFaults ELSE Outcome(o)
          /\ run' = CASE o = "ok" /\ hlp[r].guid # "none" -> PersistGuidance(r, hlp[r].guid)
                      [] o = "ok" /\ hlp[r].guid = "none" -> PersistGuidance(r, "unknown")
                      [] o = "fail" /\ run[r].guid = None -> PersistGuidance(r, "unknown")
                      [] OTHER -> run
          /\ place' = IF o = "fail" /\ run[r].guid # None THEN "idle" ELSE place
          /\ Left(duties \ {r})
    /\ ret' = place'
    /\ UNCHANGED <<control, world, pol, fnd, intent, hold, outbox, cursor, inhand, failed, skip, built>>

-----------------------------------------------------------------------------
(* Policies.                                                               *)

PendingGuidance == {r \in Runs : run[r] # None /\ run[r].guid = "pending"}

\* Off cancels the guidance known to be pending before it is reported, whatever
\* was negotiated.
FenceOffGuidance(o) ==
    /\ desired.mode = "off" /\ PendingGuidance # {}
    /\ Outcome(o)
    /\ \E r \in PendingGuidance :
          LET after == IF hlp[r].guid = "pending" THEN "cancelled" ELSE hlp[r].guid IN
          /\ hlp' = IF Effect(o) THEN [hlp EXCEPT ![r].guid = after] ELSE hlp
          /\ run' = IF o = "ok" THEN PersistGuidance(r, after) ELSE run
    /\ After(o, place)
    /\ ret' = place'
    /\ Left(duties)
    /\ UNCHANGED <<control, src, mon, did, negotiated, pol, fnd, intent, hold, outbox, cursor, inhand, failed, skip, built>>

\* Off is applied only when no attempt is without a final disposition.
GuidanceSettled == \A r \in Runs : (run[r] # None /\ run[r].att) => run[r].guid \in FinalGuidance

\* Off does not wait for guidance.
BadPolicyStatus(mode) == "applied"

\* Without a negotiated capability guidance is not looked at.
PolicyStatus(mode) ==
    IF mode = "off" /\ negotiated /\ ~GuidanceSettled THEN "awaiting_guidance" ELSE "applied"

\* The policy of the manifest is stored; after the heavy pass the manifest's
\* own review and takeovers follow, in the feedback phase what it is read for.
ApplyPolicy ==
    /\ desired.mode # "off" \/ PendingGuidance = {}
    /\ pol' = [mode |-> desired.mode, rev |-> desired.rev, lease |-> TRUE,
               status |-> PolicyStatus(desired.mode), guard |-> negotiated]
    /\ place' = CASE place = "pol" /\ manual # None -> "revw"
                  [] place = "pol" /\ manual = None -> "tko"
                  [] place = "fpol" -> "ifetch"
                  [] place = "round" /\ Steerable \cup AutomaticRuns # {} -> "disp"
                  [] OTHER -> "idle"
    /\ ret' = place'
    /\ duties' = CASE place' = "tko" -> ListedTakeovers
                   [] place' = "disp" -> Steerable
                   [] OTHER -> {}
    /\ UNCHANGED <<control, world, fnd, intent, run, hold, outbox, cursor, inhand,
                   failed, skip, built, managerFaults>>

\* The fresh manifest of the feedback phase cannot be had, or it is newer than
\* the one the pass applied.
ManifestNotApplied ==
    /\ place \in {"fpol", "round"}
    /\ desired.rev # pol.rev \/ managerFaults < MaxManagerFaults
    /\ managerFaults' = IF desired.rev # pol.rev THEN managerFaults ELSE managerFaults + 1
    /\ place' = "idle" /\ ret' = "idle"
    /\ Left({})
    /\ UNCHANGED <<control, world, tables, inhand, failed, skip, built>>

\* The heavy pass applies the policies, and the feedback phase applies them
\* again before it collects and before every round.
ApplyPolicies ==
    /\ place \in {"pol", "fpol", "round"}
    /\ \/ \E o \in CallOutcomes : FenceOffGuidance(o)
       \/ ApplyPolicy
       \/ ManifestNotApplied

-----------------------------------------------------------------------------
(* The manifest's manual review and takeovers.                             *)

\* A known review only renews its lease; a new one needs full authority, and
\* the pass fails while the manifest lists one that has none.
ApplyReview ==
    /\ place = "revw"
    /\ \/ /\ run[0] # None
          /\ run' = [run EXCEPT ![0].lease = TRUE]
          /\ place' = "listed" /\ ret' = "listed" /\ UNCHANGED <<inhand, managerFaults>>
       \/ /\ run[0] = None
          /\ \E read \in BOOLEAN :
                /\ Read(read)
                /\ IF ReviewAuthority(0, manual, TRUE, read)
                   THEN /\ run' = [run EXCEPT ![0] = Row(manual, "start_ack_pending", TRUE, FALSE, None)]
                        /\ place' = "ack" /\ ret' = "listed" /\ inhand' = 0
                   ELSE /\ place' = "idle" /\ ret' = "idle" /\ UNCHANGED <<run, inhand>>
    /\ duties' = {}
    /\ UNCHANGED <<control, world, pol, fnd, intent, hold, outbox, cursor, failed, skip, built>>

\* A pause needs the exact Off policy; a resume needs the settled pause, the
\* policy revision that follows it, and the qualification of auto_steer.
TakeoverAuthority(op) ==
    /\ src = owner[op].src /\ task = owner[op].task /\ pol.rev = owner[op].prev
    /\ op = "pause" => pol.mode = "off"
    /\ op = "resume" => /\ AutoSteerQualified
                        /\ hold["pause"] # None /\ hold["pause"].rep = "ready"
                        /\ hold["pause"].prev + 1 = owner[op].prev

\* The helper's receipt: settled for an operation it carried out, unsettled
\* for one it has no record of.
TakeoverReceipt(op) == IF op \in did THEN "ready" ELSE "unsettled"

Unknown(op) == IF op = "pause" THEN "acquire_unknown" ELSE "release_unknown"

\* The operation is stored as dispatched before the helper is called; a lease
\* renewed for a known pause acquires again.
ApplyTakeover ==
    /\ place = "tko" /\ duties # {}
    /\ \E op \in duties :
          \/ /\ hold[op] # None /\ hold[op].n = owner[op].n
             /\ duties' = duties \ {op}
             /\ UNCHANGED <<hold, place, ret, inhand>>
          \/ /\ hold[op] # None => (op = "pause" /\ hold[op].n < owner[op].n)
             /\ IF TakeoverAuthority(op)
                THEN /\ hold' = [hold EXCEPT ![op] =
                            [phase |-> IF op = "pause" THEN "acquiring" ELSE "releasing",
                             prev |-> owner[op].prev, n |-> owner[op].n, rep |-> None]]
                     /\ place' = op /\ ret' = "tko" /\ duties' = duties \ {op}
                ELSE place' = "idle" /\ ret' = "idle" /\ UNCHANGED hold /\ duties' = {}
             /\ UNCHANGED inhand
    /\ UNCHANGED <<control, world, pol, fnd, intent, run, outbox, cursor, failed, skip, built, managerFaults>>

Receive(op, answer) ==
    [hold EXCEPT ![op].rep = answer,
                 ![op].phase = CASE answer = "unsettled" -> "unsettled"
                                 [] answer = "ready" /\ op = "pause" -> "ready"
                                 [] OTHER -> "released"]

\* The call that acquires or releases the hold.
DispatchTakeover(o) ==
    /\ place \in TakeoverOps
    /\ Outcome(o)
    /\ did' = IF Effect(o) THEN did \cup {place} ELSE did
    /\ hold' = CASE o = "ok" -> Receive(place, "ready")
                 [] o = "crash" -> hold
                 [] OTHER -> [hold EXCEPT ![place].phase = Unknown(place)]
    /\ After(o, "tko")
    /\ ret' = place'
    /\ Left(duties)
    /\ UNCHANGED <<control, src, mon, hlp, negotiated, pol, fnd, intent, run, outbox, cursor, inhand, failed, skip, built>>

\* Recovery observes the same operation and never acquires or releases.
ReconcileTakeover ==
    /\ place = "holds"
    /\ \E op \in duties, o \in {"ok", "fail"} :
          /\ Outcome(o)
          /\ hold' = IF o = "ok" THEN Receive(op, TakeoverReceipt(op))
                     ELSE [hold EXCEPT ![op].phase = Unknown(op)]
          /\ After(o, place)
          /\ Left(duties \ {op})
    /\ ret' = place'
    /\ UNCHANGED <<control, world, pol, fnd, intent, run, outbox, cursor, inhand, failed, skip, built>>

\* The report of the pass is acknowledged, and the feedback phase begins.
PassReported ==
    /\ place = "tko" /\ duties = {}
    /\ \E o \in {"ok", "fail"} : Outcome(o) /\ After(o, "fpol")
    /\ ret' = place'
    /\ UNCHANGED <<control, world, tables, inhand, duties, failed, skip, built>>

-----------------------------------------------------------------------------
(* The insights collector.                                                 *)

\* The collector fetches the insights policy and takes up its outbox.
FetchInsightPolicies ==
    /\ place = "ifetch"
    /\ \E o \in {"ok", "fail"} : Outcome(o) /\ After(o, "outbox")
    /\ ret' = place'
    /\ duties' = IF place' = "outbox" THEN {item.b : item \in outbox} ELSE {}
    /\ failed' = FALSE /\ skip' = FALSE
    /\ UNCHANGED <<control, world, tables, inhand, built>>

\* A pending batch of another policy revision or source is retired.
PendingDisposition(item) ==
    CASE item.irev # ipol.rev \/ (~ipol.on /\ item.on) -> "policy_superseded"
      [] item.irev = ipol.rev /\ (ipol.on \/ ~item.on) /\ item.src # src -> "source_rotated"
      [] OTHER -> "exact"

\* The anchor of a newly observed finding: it is declined for good when the
\* policy is off or nothing binds it to a task, and admitted at once when its
\* episode was attempted before.
EpisodeAttempted(rev, mode) ==
    \/ \E b \in Batches : intent[b] # None /\ (mode = "auto_steer" \/ intent[b].rev = rev)
    \/ \E r \in Batches : run[r] # None /\ (mode = "auto_steer" \/ run[r].rev = rev)

Anchor(b, rev, bound) ==
    [st |-> CASE ~ReviewPolicyModeValid -> "declined"
              [] ReviewPolicyModeValid /\ (intent[b] # None \/ EpisodeAttempted(rev, pol.mode)) -> "admitted"
              [] ReviewPolicyModeValid /\ intent[b] = None /\ ~EpisodeAttempted(rev, pol.mode) /\ ~bound -> "declined"
              [] OTHER -> "pending",
     b |-> b, mode |-> pol.mode, prev |-> pol.rev, task |-> task]

LiveAnchor(anchor) == anchor.st \in {"pending", "deferred"}

\* A later observation keeps the anchor: a changed source or a closed finding
\* declines it, and under recommend a new revision is a new episode.
Reanchor(item, bound) ==
    CASE item.src # fnd.src -> [fnd.anchor EXCEPT !.st = "declined"]
      [] item.src = fnd.src /\ ~item.open ->
            IF LiveAnchor(fnd.anchor) THEN [fnd.anchor EXCEPT !.st = "declined"] ELSE fnd.anchor
      [] item.src = fnd.src /\ item.open /\ fnd.anchor.mode = "recommend" /\ item.rev # fnd.rev ->
            Anchor(item.b, item.rev, bound)
      [] OTHER -> fnd.anchor

\* The manager accepts an observation of the current source that does not go
\* back to an older revision of the finding.
ObservationAccepted(item) ==
    /\ item.src = src
    /\ item.rev > 0 /\ fnd # None => item.rev >= fnd.rev

Observed(item, bound) ==
    CASE item.rev = 0 -> fnd
      [] item.rev > 0 /\ fnd = None /\ item.open ->
            [rev |-> item.rev, open |-> TRUE, src |-> item.src, anchor |-> Anchor(item.b, item.rev, bound)]
      [] item.rev > 0 /\ fnd = None /\ ~item.open -> None
      [] OTHER -> [rev |-> item.rev, open |-> item.open, src |-> item.src, anchor |-> Reanchor(item, bound)]

\* A batch is sent; once the control plane acknowledged it the manager
\* observes it, and only then the cursor moves and the outbox forgets it.
SubmitInsightBatch(item, o, bound) ==
    /\ managerFaults' = managerFaults + (IF o = "ok" THEN 0 ELSE 1) + (IF bound THEN 0 ELSE 1)
    /\ managerFaults' <= MaxManagerFaults
    /\ known' = IF Effect(o) /\ item.rev > known THEN item.rev ELSE known
    /\ fnd' = IF o \in {"ok", "crash"} /\ ObservationAccepted(item) THEN Observed(item, bound) ELSE fnd
    /\ cursor' = IF o = "ok" /\ ObservationAccepted(item)
                 THEN [seq |-> item.seq, irev |-> item.irev, on |-> item.on] ELSE cursor

\* The items of the outbox, oldest first.
DrainOutbox ==
    /\ place = "outbox"
    /\ \E item \in outbox :
           /\ item.b \in duties /\ \A b \in duties : item.b <= b
           /\ IF PendingDisposition(item) # "exact"
              THEN /\ outbox' = outbox \ {item} /\ place' = place /\ duties' = duties \ {item.b}
                   /\ UNCHANGED <<known, fnd, cursor, failed, skip, managerFaults>>
              ELSE \E o \in CallOutcomes, bound \in BOOLEAN :
                   LET done == o = "ok" /\ ObservationAccepted(item) IN
                   /\ SubmitInsightBatch(item, o, bound)
                   /\ outbox' = IF done THEN outbox \ {item} ELSE outbox
                   /\ place' = IF o = "crash" THEN "idle" ELSE place
                   /\ duties' = IF o = "crash" THEN {} ELSE duties \ {item.b}
                   /\ failed' = (o # "crash" /\ (failed \/ ~done))
                   /\ skip' = (o # "crash" /\ (skip \/ done))
    /\ ret' = place'
    /\ UNCHANGED <<desired, task, acked, granted, manual, owner, ipol, world, pol, intent, run, hold, inhand, built>>

\* What a new batch would say: the finding's change beyond the cursor under an
\* enabled policy, nothing under a disabled one, and no batch when it would
\* repeat what the cursor already stands for.
NothingToReport ==
    /\ cursor.irev = ipol.rev /\ cursor.on = ipol.on
    /\ ipol.on => mon.rev = cursor.seq

NewBatch(b) ==
    [b |-> b, irev |-> ipol.rev, on |-> ipol.on, src |-> src,
     seq |-> IF ipol.on THEN mon.rev ELSE cursor.seq,
     rev |-> IF ipol.on /\ mon.rev > cursor.seq THEN mon.rev ELSE 0,
     open |-> mon.open]

\* The admissions look at the finding only while its anchor is live.
NextAdmission(f) == IF f = None THEN "round" ELSE IF LiveAnchor(f.anchor) THEN "adm0" ELSE "round"

\* collectSource and publishDisabled: the batch is stored in the outbox before
\* it is sent.  A source whose pending batch was just acknowledged waits for
\* the next pass, and a failure anywhere ends the feedback phase.
CollectSource ==
    /\ place = "outbox" /\ duties = {}
    /\ IF skip \/ NothingToReport \/ built = MaxBatches
       THEN place' = (IF failed THEN "idle" ELSE NextAdmission(fnd)) /\ UNCHANGED <<known, fnd, cursor, outbox, built, managerFaults>>
       ELSE \E o \in CallOutcomes, bound \in BOOLEAN :
               LET item == NewBatch(built + 1)
                   done == o = "ok" /\ ObservationAccepted(item) IN
               /\ SubmitInsightBatch(item, o, bound)
               /\ built' = built + 1
               /\ outbox' = IF done THEN outbox ELSE outbox \cup {item}
               /\ place' = IF done /\ ~failed THEN NextAdmission(fnd') ELSE "idle"
    /\ ret' = place' /\ failed' = FALSE /\ skip' = FALSE
    /\ UNCHANGED <<desired, task, acked, granted, manual, owner, ipol, world, pol, intent, run, hold, inhand, duties>>

-----------------------------------------------------------------------------
(* Automatic admission.                                                    *)

\* No run of the same finding revision, and room under the concurrency limit.
EligibleAutomatic ==
    \A r \in Runs : run[r] # None => run[r].rev # fnd.rev /\ run[r].phase \notin Running

\* attemptAdmission: what becomes of a live anchor.  The order of the checks
\* is the code's: what is permanent declines before what is temporary defers.
AdmissionVerdict(read) ==
    LET a == fnd.anchor IN
    CASE ~fnd.open -> "declined"
      [] fnd.open /\ intent[a.b] # None -> "admitted"
      [] fnd.open /\ intent[a.b] = None
            /\ (pol.mode = "off" \/ pol.rev # a.prev \/ pol.mode # a.mode) -> "declined"
      [] fnd.open /\ intent[a.b] = None /\ pol.rev = a.prev /\ pol.mode = a.mode /\ pol.mode # "off" ->
            IF EpisodeAttempted(fnd.rev, a.mode) THEN "admitted"
            ELSE IF ~pol.lease \/ ~EligibleAutomatic \/ ~AutoSteerQualified \/ ~read \/ known # fnd.rev \/ src # fnd.src THEN "deferred"
            ELSE IF task # a.task THEN "declined" ELSE "reserve"

\* The intent is stored before the anchor is marked admitted, and the request
\* is built once, from the finding and the current target.
AttemptAdmission ==
    /\ place = "adm0"
    /\ \E read, dies \in BOOLEAN :
          LET verdict == AdmissionVerdict(read)
              b == fnd.anchor.b IN
          /\ dies => verdict = "reserve"
          /\ managerFaults' = managerFaults + (IF read THEN 0 ELSE 1) + (IF dies THEN 1 ELSE 0)
          /\ managerFaults' <= MaxManagerFaults
          /\ fnd' = IF dies THEN fnd
                    ELSE [fnd EXCEPT !.anchor.st = IF verdict = "reserve" THEN "admitted" ELSE verdict]
          /\ IF verdict = "reserve"
             THEN /\ intent' = [intent EXCEPT ![b] =
                        [phase |-> "pending", rev |-> fnd.rev, prev |-> pol.rev, src |-> fnd.src,
                         task |-> task, mode |-> pol.mode]]
                  /\ place' = (IF dies THEN "idle" ELSE "adm") /\ duties' = IF dies THEN {} ELSE {b}
             ELSE place' = "round" /\ UNCHANGED <<intent, duties>>
    /\ ret' = place'
    /\ UNCHANGED <<control, world, pol, run, hold, outbox, cursor, inhand, failed, skip, built>>

CompleteAdmission ==
    /\ place = "adm"
    /\ \E b \in duties :
          \/ \E o \in CallOutcomes : CompleteAutomaticReservation(b, o)
          \/ \E fresh, read, dies \in BOOLEAN : BeginReservedRun(b, fresh, read, dies)

-----------------------------------------------------------------------------
(* The world.                                                              *)

ManagerFault == managerFaults < MaxManagerFaults /\ managerFaults' = managerFaults + 1

\* What the monitor, the helper and the worker do while the daemon is busy
\* elsewhere is taken where it is about to look: before a pass and before a
\* round of the feedback phase.
Looking == place \in {"idle", "round"}

\* A pass works with the manifest it fetched: what the control plane edits
\* while the heavy part of a pass runs is seen by the next fetch, so an edit is
\* taken where the policy is about to be read: before a pass, before the
\* feedback phase applies it, and before a reservation is requested.
BetweenManifests == place \in {"idle", "fpol", "round", "adm"}

\* The steps that read the source, the task or a lease.
Checking == place \in {"idle", "ack", "revw", "tko", "outbox", "adm0", "adm", "round"}

IncidentChanges ==
    /\ place = "idle"
    /\ mon.rev < MaxFindingRev /\ mon.open
    /\ \E open \in BOOLEAN :
          /\ mon.rev = 0 => open
          /\ mon' = [rev |-> mon.rev + 1, open |-> open]
    /\ UNCHANGED <<control, src, hlp, did, negotiated, tables, pass, built, managerFaults>>

\* A new generation of the service, whose capability replaces the stored one
\* when it becomes ready, or of the sandbox, which the stored one is not of.
SourceRotates ==
    /\ Checking /\ src = 1 /\ src' = 2 /\ ManagerFault
    /\ negotiated' \in BOOLEAN
    /\ UNCHANGED <<control, mon, hlp, did, tables, pass, built>>

TaskChanges ==
    /\ Checking /\ task = 1 /\ task' = 2 /\ ManagerFault
    /\ UNCHANGED <<desired, known, acked, granted, manual, owner, ipol, world, tables, pass, built>>

LeaseExpires ==
    /\ Checking /\ ManagerFault
    /\ \/ pol.lease /\ pol' = [pol EXCEPT !.lease = FALSE] /\ UNCHANGED run
       \/ \E r \in UnsettledRuns : run[r].lease /\ run' = [run EXCEPT ![r].lease = FALSE] /\ UNCHANGED pol
    /\ UNCHANGED <<control, world, fnd, intent, hold, outbox, cursor, pass, built>>

InsightPolicyChanges ==
    /\ place = "ifetch" /\ ipol.rev = 1 /\ ManagerFault
    /\ \E on \in BOOLEAN : ipol' = [rev |-> 2, on |-> on]
    /\ UNCHANGED <<desired, known, task, acked, granted, manual, owner, world, tables, pass, built>>

PolicyEdited ==
    /\ BetweenManifests /\ ManagerFault
    /\ desired.rev < MaxPolicy /\ owner["pause"] = None /\ owner["resume"] = None
    /\ \E m \in {"off", "recommend", "auto_steer"} : desired' = [mode |-> m, rev |-> desired.rev + 1]
    /\ UNCHANGED <<known, task, acked, granted, manual, owner, ipol, world, tables, pass, built>>

ManualRequested ==
    /\ place = "idle" /\ ManagerFault
    /\ manual = None /\ run[0] = None /\ known > 0 /\ desired.mode # "off"
    /\ manual' = [rev |-> known, prev |-> desired.rev, src |-> src, task |-> task]
    /\ UNCHANGED <<desired, known, task, acked, granted, owner, ipol, world, tables, pass, built>>

\* The control plane drops a review that is over or that no longer holds.
ManualWithdrawn ==
    /\ place = "idle"
    /\ manual # None
    /\ acked[0] \notin {"none", "reviewing"} \/ desired.rev # manual.prev \/ src # manual.src
          \/ task # manual.task \/ known # manual.rev
    /\ manual' = None
    /\ UNCHANGED <<desired, known, task, acked, granted, owner, ipol, world, tables, pass, built, managerFaults>>

\* The owner pauses the manager, which turns the policy off, and resumes it
\* once the pause is reported; a pause that is listed longer is renewed.
OwnerActs ==
    /\ place = "idle" /\ ManagerFault
    /\ \/ /\ owner["pause"] = None /\ hold["pause"] = None /\ known > 0 /\ desired.rev < MaxPolicy
          /\ desired' = [mode |-> "off", rev |-> desired.rev + 1]
          /\ owner' = [owner EXCEPT !["pause"] = [prev |-> desired.rev + 1, src |-> src, task |-> task, n |-> 1]]
       \/ /\ owner["pause"] # None /\ owner["pause"].n = 1
          /\ owner' = [owner EXCEPT !["pause"].n = 2] /\ UNCHANGED desired
       \/ /\ owner["pause"] # None /\ hold["pause"] # None /\ hold["pause"].rep = "ready"
          /\ GuidanceSettled /\ desired.rev < MaxPolicy
          /\ \E m \in {"recommend", "auto_steer"} : desired' = [mode |-> m, rev |-> desired.rev + 1]
          /\ owner' = [pause |-> None, resume |-> [prev |-> desired.rev + 1, src |-> src, task |-> task, n |-> 1]]
    /\ UNCHANGED <<known, task, acked, granted, manual, ipol, world, tables, pass, built>>

TakeoverWithdrawn ==
    /\ place = "idle"
    /\ \E op \in TakeoverOps :
          /\ owner[op] # None
          /\ src # owner[op].src \/ task # owner[op].task \/ (op = "resume" /\ hold[op] # None /\ hold[op].rep # None)
          /\ owner' = [owner EXCEPT ![op] = None]
    /\ UNCHANGED <<desired, known, task, acked, granted, manual, ipol, world, tables, pass, built, managerFaults>>

HelperFinishes ==
    /\ Looking
    /\ \E r \in Runs, st \in TerminalPhases :
          hlp[r].st = "running" /\ hlp' = [hlp EXCEPT ![r].st = st, ![r].more = {}]
    /\ UNCHANGED <<control, src, mon, did, negotiated, tables, pass, built, managerFaults>>

GuidanceLands ==
    /\ Looking
    /\ \E r \in Runs, g \in {"available", "refused"} :
          hlp[r].guid = "pending" /\ hlp' = [hlp EXCEPT ![r].guid = g]
    /\ UNCHANGED <<control, src, mon, did, negotiated, tables, pass, built, managerFaults>>

\* A crash matters between a row and the call it announces; elsewhere it only
\* repeats the pass, and the crash after a call is an outcome of the call.
ManagerCrash ==
    /\ place \in {"ack", "go", "sub", "steer", "adm0", "adm", "disp"} \cup TakeoverOps /\ ManagerFault
    /\ place' = "idle" /\ ret' = "idle" /\ duties' = {} /\ inhand' = 0 /\ failed' = FALSE /\ skip' = FALSE
    /\ UNCHANGED <<control, world, tables, built>>

-----------------------------------------------------------------------------
Pass ==
    \/ RenewPendingTakeovers \/ NextPhase \/ RecoverReservations
    \/ \E o \in CallOutcomes, read \in BOOLEAN : StartAcknowledgedReview(o, read)
    \/ \E o \in CallOutcomes, answer \in StartAnswers : StartReview(o, answer)
    \/ SendReport \/ RecoverRuns \/ AdvanceAutomaticRuns
    \/ DispatchPendingGuidance
    \/ \E o \in CallOutcomes, refuses \in BOOLEAN : DispatchGuidance(o, refuses)
    \/ RecoverPendingGuidance \/ ApplyPolicies
    \/ ApplyReview \/ ApplyTakeover \/ ReconcileTakeover
    \/ \E o \in CallOutcomes : DispatchTakeover(o)
    \/ PassReported
    \/ FetchInsightPolicies \/ DrainOutbox \/ CollectSource
    \/ AttemptAdmission \/ CompleteAdmission

ManagerNext ==
    \/ Pass \/ ManagerCrash
    \/ IncidentChanges \/ SourceRotates \/ TaskChanges \/ LeaseExpires
    \/ InsightPolicyChanges \/ PolicyEdited
    \/ ManualRequested \/ ManualWithdrawn \/ OwnerActs \/ TakeoverWithdrawn
    \/ HelperFinishes \/ GuidanceLands

\* The daemon keeps passing, the helper finishes what it runs, and the control
\* plane drops what is over.
ManagerSpec ==
    /\ ManagerInit /\ [][ManagerNext]_managerVars
    /\ WF_managerVars(Pass) /\ SF_managerVars(HelperFinishes) /\ SF_managerVars(ManualWithdrawn)

-----------------------------------------------------------------------------
(* Properties.                                                             *)

ManagerTypeOK ==
    /\ desired \in [mode : Modes, rev : 1..MaxPolicy]
    /\ pol \in Policies
    /\ known \in 0..MaxFindingRev /\ task \in Tasks /\ src \in Sources
    /\ acked \in [Runs -> RunReports \cup {"none", "reviewing"}] /\ granted \subseteq Batches
    /\ manual \in Optional(Reviews) /\ owner \in [TakeoverOps -> Optional(Requests)]
    /\ ipol \in [rev : 1..2, on : BOOLEAN] /\ mon \in [rev : 0..MaxFindingRev, open : BOOLEAN]
    /\ hlp \in [Runs -> HelperRuns] /\ did \subseteq TakeoverOps /\ negotiated \in BOOLEAN
    /\ fnd \in Optional(Findings)
    /\ intent \in [Batches -> Optional(Intents)] /\ run \in [Runs -> Optional(RunRows)]
    /\ hold \in [TakeoverOps -> Optional(Holds)]
    /\ outbox \subseteq Items /\ cursor \in [seq : 0..MaxFindingRev, irev : 0..2, on : BOOLEAN]
    /\ place \in Places \cup Calls \cup TakeoverOps /\ ret \in Places /\ inhand \in Runs
    /\ duties \subseteq (IF ret \in {"holds", "tko"} THEN TakeoverOps ELSE Runs)
    /\ failed \in BOOLEAN /\ skip \in BOOLEAN
    /\ built \in 0..MaxBatches /\ managerFaults \in 0..MaxManagerFaults

\* A review is started at most once, the worker is steered at most once for
\* a run, nothing is started before the control plane acknowledged the
\* reviewing report of that run, and the recovery never makes an automatic run
\* pay for a further request (startAcknowledgedReview, dispatchGuidance, Recover).
EffectsOnce ==
    \A r \in Runs :
        /\ hlp[r].starts <= 1 /\ hlp[r].steers <= 1
        /\ hlp[r].starts = 1 => acked[r] # "none"
        /\ hlp[r].more # {} => hlp[r].starts = 1
        /\ r \in Batches => "runs" \notin hlp[r].more

\* A run reported as trusted_zero_start was never started: whatever was lost
\* or crashed on the way, paid usage is not reported as unused
\* (settleUnstartedRun, settleReservedWithoutExecution).
ZeroStartIsTruthful ==
    \A r \in Runs : (run[r] # None /\ run[r].rep = "zero") => hlp[r].starts = 0

\* One automatic attempt per episode: no two reservations of one finding
\* revision, and none after an attempt under auto_steer unless the policy has
\* gone to recommend since (automaticEpisodeAttempt, attemptAdmission).
OneAttemptPerEpisode ==
    \A b, c \in Batches :
        (b < c /\ intent[b] # None /\ intent[c] # None) =>
            /\ intent[b].rev # intent[c].rev
            /\ intent[c].mode = "recommend"

\* Off is reported as applied, over a capability with a native guard, only
\* when no guidance can still reach the worker (fenceOffGuidance,
\* guidanceSettled, policyReport).  A report over none says nothing of guidance.
OffIsSettled ==
    (pol.mode = "off" /\ pol.status = "applied" /\ pol.guard) => \A r \in Runs : hlp[r].guid # "pending"

\* A batch leaves the outbox as acknowledged only when the manager keeps its
\* open finding: the cursor never passes an open revision that was not
\* observed (acknowledge).  A closed finding is the last of its revisions.
WasOpen(seq) == seq > 0 /\ (seq < mon.rev \/ mon.open)

CursorIsObserved ==
    WasOpen(cursor.seq) => (fnd # None /\ fnd.rev >= cursor.seq)

\* Nothing is done twice: neither an effect on the sandbox nor an automatic
\* attempt, whatever is replayed after a crash or a lost answer.
DoneOnce == EffectsOnce /\ OneAttemptPerEpisode

\* What the control plane is told is true: a zero start, an Off applied under a guard,
\* a batch that was observed (coordinator.go:619, guidance.go:507, collector.go:120).
ToldIsTrue == ZeroStartIsTruthful /\ OffIsSettled /\ CursorIsObserved

\* A reservation of a superseded policy, or a pause whose renewal is refused,
\* stops every pass before the runs are looked at.
RecoveryBlocked ==
    \/ \E b \in UnsettledIntents :
          \/ intent[b].prev # pol.rev
          \/ intent[b].phase = "pending" /\ ReserveAnswer(b) = "refused"
    \/ RenewalDue /\ ~RenewalAllowed

\* Every run the daemon stored is settled: whatever answers were lost, the
\* recovery brings it to an acknowledged terminal report, unless something
\* else stops the recovery pass first (Recover).
RunsSettle == []<>(UnsettledRuns = {} \/ RecoveryBlocked)
=============================================================================
