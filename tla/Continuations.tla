--------------------------- MODULE Continuations ----------------------------
(***************************************************************************)
(* The S2 controller of internal/continuity: continuations and their       *)
(* releases, restores into a new project, and continuation handoffs to     *)
(* another service with their releases (s2controller.go, s2bhandoff.go),   *)
(* on the rows of internal/state.  The native helper inside the sandbox is *)
(* external: it executes a request and the answer may be lost.             *)
(*                                                                         *)
(* A reconcile pass works on the manifest it read (cur), first recovering  *)
(* what rows say is unfinished and then applying what is listed, one       *)
(* operation after the other under one mutex.  Any error ends the pass,    *)
(* except the ones the pass defers; a crash ends it between two steps.     *)
(*                                                                         *)
(* Definitions named Bad... are seeded faults, used by no action: each     *)
(* stands in for the definition after it to show a property would notice.  *)
(***************************************************************************)
EXTENDS Naturals, Sequences, SequencesExt

CONSTANTS Conts,       \* continuation operations
          Rests,       \* restore operations
          Hands,       \* handoff operations
          MaxFaults,   \* bound: crashes and lost or failed calls
          MaxMoves     \* bound: changes of the manifest and of the authority

ASSUME BoundsAssumption == MaxFaults \in Nat /\ MaxMoves \in Nat
ASSUME OpsAssumption == Conts \intersect Hands = {}   \* operation identifiers are unique

Ops == Conts \union Hands
Projects == Rests \union Hands

(* Which of the records the controller compares still agree with the       *)
(* manifest: all, or all but one.                                          *)
Situations == {"exact", "checkpoint_gone", "source_changed", "succession",
               "source_not_ready", "workspace_changed", "scope_advanced",
               "target_starting", "target_changed"}

VARIABLES listed,    \* what the control plane lists: <<kind, operation>>
          cur,       \* the manifest of the pass
          situation, \* the state of the records an operation is validated against
          mode,      \* how a handoff gets its workspace
          prep,      \* phase of a continuation's row
          rel,       \* phase of a release's row
          rest,      \* phase of a restore's row
          hand,      \* phase of a handoff's row
          sel,       \* handoffs whose row names the selected target project
          proj,      \* the catalog's project for a restore or a handoff
          mapped,    \* handoffs whose target session has a source row
          admitted,  \* handoffs whose target is registered and scheduled
          native,    \* the helper: the session of an operation
          made,      \* the helper: sessions made for an operation
          told,      \* reports the control plane has received
          pc,        \* position in the pass
          faults, moves

rows == <<prep, rel, rest, hand, sel, mapped, admitted>>
helper == <<native, made>>
vars == <<listed, cur, situation, mode, rows, proj, helper, told, pc, faults, moves>>

Kinds == {"prepare", "release", "target"}

TypeOK ==
    /\ listed \subseteq Kinds \X (Ops \union Rests) /\ cur \subseteq Kinds \X (Ops \union Rests)
    /\ situation \in Situations
    /\ mode \in [Hands -> {"allocate", "accepted_restore"}]
    /\ prep \in [Conts -> {"none", "preparing", "ready", "failed"}]
    /\ rel \in [Ops -> {"none", "releasing", "released", "failed", "refused"}]
    /\ rest \in [Rests -> {"none", "allocating", "accepted"}]
    /\ hand \in [Hands -> {"none", "allocating", "materializing", "workspace_registered",
                           "recovery_required", "ready"}]
    /\ sel \subseteq Hands /\ mapped \subseteq Hands /\ admitted \subseteq Hands
    /\ proj \in [Projects -> {"none", "allocated", "ready"}]
    /\ native \in [Ops -> {"none", "prepared", "consumed", "released"}]
    /\ made \in [Ops -> 0..2]

(***************************************************************************)
(* Validation of the records an operation rests on                         *)
(***************************************************************************)
(* The accepted, verified checkpoint is still the one the manifest names.   *)
RetainedCheckpoint == situation # "checkpoint_gone"

(* And the registration is verified and active, its source available and    *)
(* observed within 120 s, and nothing holds a barrier.                      *)
CommonAuthority == RetainedCheckpoint /\ situation \notin {"source_changed", "succession", "scope_advanced"}

(* And the service that continues is ready and resolves to its project.     *)
ContinuationService == CommonAuthority /\ situation # "source_not_ready"

(* And the workspace still holds what the checkpoint holds.                 *)
ContinuationAuthority == ContinuationService /\ situation # "workspace_changed"

HandoffTarget == situation \notin {"target_starting", "target_changed"}

HandoffAuthority == CommonAuthority /\ HandoffTarget

(* The restore whose accepted project an accepted_restore handoff names.    *)
AcceptedRestore == \E r \in Rests : rest[r] = "accepted" /\ proj[r] = "ready"

(***************************************************************************)
(* The pass                                                                *)
(***************************************************************************)
Stage(s, S) == LET q == SetToSeq(S) IN [k \in 1..Len(q) |-> [stage |-> s, op |-> q[k]]]

Recovery == Stage("recover_prep", Conts) \o Stage("recover_release", Conts)
            \o Stage("recover_restore", Rests) \o Stage("recover_handoff", Hands)
            \o Stage("recover_hrelease", Hands)

Plan == Recovery
        \o Stage("apply_handoff", Hands) \o Stage("apply_target", Hands)
        \o Stage("apply_hrelease", Hands) \o Stage("apply_prep", Conts)
        \o Stage("apply_restore", Rests) \o Stage("apply_release", Conts)

Idle == [i |-> 0, at |-> "enter"]
Running == pc.i \in 1..Len(Plan)
At(s, o, step) == Running /\ Plan[pc.i] = [stage |-> s, op |-> o] /\ pc.at = step
In(S, o, step) == \E s \in S : At(s, o, step)
Goto(step) == pc' = [pc EXCEPT !.at = step]
Advance == pc' = [i |-> pc.i + 1, at |-> "enter"]
Abort == pc' = [i |-> Len(Plan) + 1, at |-> "enter"]   \* the error; the report follows all the same
Fault == faults < MaxFaults /\ faults' = faults + 1
Well == UNCHANGED faults

Listed(kind, o) == <<kind, o>> \in cur

(* The rows a recovery loops over.                                          *)
ContinuationPreparations == {c \in Conts : prep[c] # "none"}
ContinuationReleases == {c \in Conts : rel[c] # "none"}
RestoreOperations == {r \in Rests : rest[r] # "none"}
ContinuationHandoffPreparations == {h \in Hands : hand[h] # "none"}
ContinuationHandoffReleases == {h \in Hands : rel[h] # "none"}

(* An operation is recovered when its row is unfinished and the manifest    *)
(* still lists it, and applied when the manifest lists it: a reported one   *)
(* is left alone, a ready handoff is observed again by every recovery.      *)
Recoverable(s, o) ==
    \/ s = "recover_prep" /\ Listed("prepare", o) /\ o \in ContinuationPreparations /\ prep[o] = "preparing"
    \/ s = "recover_release" /\ Listed("release", o) /\ o \in ContinuationReleases /\ rel[o] = "releasing"
    \/ s = "recover_restore" /\ Listed("prepare", o) /\ o \in RestoreOperations /\ rest[o] = "allocating"

RecoverableHandoff(s, o) ==
    \/ s = "recover_handoff" /\ Listed("prepare", o) /\ o \in ContinuationHandoffPreparations
    \/ s = "recover_hrelease" /\ Listed("release", o) /\ o \in ContinuationHandoffReleases /\ rel[o] = "releasing"

Applicable(s, o) ==
    \/ s = "apply_prep" /\ Listed("prepare", o) /\ prep[o] \in {"none", "preparing"}
    \/ s = "apply_restore" /\ Listed("prepare", o) /\ rest[o] # "accepted"
    \/ s = "apply_release" /\ Listed("release", o) /\ rel[o] \in {"none", "releasing"}

ApplicableHandoff(s, o) ==
    \/ s = "apply_handoff" /\ Listed("prepare", o) /\ hand[o] # "ready"
    \/ s = "apply_target" /\ Listed("target", o) /\ hand[o] = "ready"
    \/ s = "apply_hrelease" /\ Listed("release", o) /\ rel[o] \in {"none", "releasing"}

Work(s, o) == Recoverable(s, o) \/ RecoverableHandoff(s, o) \/ Applicable(s, o) \/ ApplicableHandoff(s, o)

Pass == /\ pc = Idle
        /\ cur' = listed /\ pc' = [i |-> 1, at |-> "enter"]
        /\ UNCHANGED <<listed, situation, mode, rows, proj, helper, told, faults, moves>>

(* Nothing to do for this operation: the loop goes on.                      *)
SkipOperation == /\ Running /\ pc.at = "enter" /\ ~Work(Plan[pc.i].stage, Plan[pc.i].op)
                 /\ Advance
                 /\ UNCHANGED <<listed, cur, situation, mode, rows, proj, helper, told, faults, moves>>

Enter(s, o) == At(s, o, "enter") /\ Work(s, o)

(***************************************************************************)
(* Continuations                                                           *)
(***************************************************************************)
PutContinuationPreparation(c) == prep' = [prep EXCEPT ![c] = "preparing"]
CompleteContinuationPreparation(c, status) == prep' = [prep EXCEPT ![c] = status]

(* The helper makes the native session of an operation.                     *)
HelperPrepares(o) == /\ native' = [native EXCEPT ![o] = "prepared"]
                     /\ made' = [made EXCEPT ![o] = @ + 1]

(* A listed continuation without a row: validate, write the intent, then    *)
(* ask the helper.  A workspace that changed since the checkpoint ends it.  *)
ApplyContinuation(c) ==
    /\ Enter("apply_prep", c) /\ prep[c] = "none"
    /\ IF ContinuationAuthority \/ (ContinuationService /\ situation = "workspace_changed")
       THEN PutContinuationPreparation(c) /\ Goto(IF ContinuationAuthority THEN "prepare" ELSE "fail")
       ELSE Abort /\ UNCHANGED prep
    /\ UNCHANGED <<listed, cur, situation, mode, rel, rest, hand, sel, mapped, admitted, proj,
                   helper, told, faults, moves>>

FailContinuation(c) ==
    /\ At("apply_prep", c, "fail")
    /\ CompleteContinuationPreparation(c, "failed") /\ Advance
    /\ UNCHANGED <<listed, cur, situation, mode, rel, rest, hand, sel, mapped, admitted, proj,
                   helper, told, faults, moves>>

(* prepare_continuation: any answer that is not a matching ready report     *)
(* leaves the row for recovery and ends the pass.                           *)
PrepareContinuation(c) ==
    /\ At("apply_prep", c, "prepare")
    /\ \/ HelperPrepares(c) /\ CompleteContinuationPreparation(c, "ready") /\ Advance /\ Well
       \/ HelperPrepares(c) /\ Fault /\ Abort /\ UNCHANGED prep
       \/ Fault /\ Abort /\ UNCHANGED <<prep, helper>>
    /\ UNCHANGED <<listed, cur, situation, mode, rel, rest, hand, sel, mapped, admitted, proj, told, moves>>

(* reconcile_continuation: the preparation is never sent again; only a      *)
(* session the helper still holds, or has seen consumed, completes the row. *)
RecoverContinuation(c) ==
    /\ Enter("recover_prep", c) \/ (Enter("apply_prep", c) /\ prep[c] = "preparing")
    /\ \/ /\ ContinuationAuthority /\ native[c] \in {"prepared", "consumed"}
          /\ CompleteContinuationPreparation(c, "ready") /\ Advance /\ Well
       \/ /\ ~ContinuationAuthority \/ native[c] \notin {"prepared", "consumed"}
          /\ Abort /\ UNCHANGED prep /\ Well
       \/ Fault /\ Abort /\ UNCHANGED prep
    /\ UNCHANGED <<listed, cur, situation, mode, rel, rest, hand, sel, mapped, admitted, proj,
                   helper, told, moves>>

(***************************************************************************)
(* Releases of continuations                                               *)
(***************************************************************************)
PutContinuationRelease(o) == rel' = [rel EXCEPT ![o] = "releasing"]
CompleteContinuationRelease(o, status) == rel' = [rel EXCEPT ![o] = status]

HelperReleases(o) == native' = [native EXCEPT ![o] = "released"]

(* A release needs the reported preparation it releases.                    *)
ReleasePreparation(c) == prep[c] \in {"ready", "failed"}

ApplyRelease(c) ==
    /\ Enter("apply_release", c) /\ rel[c] = "none"
    /\ IF ReleasePreparation(c) THEN PutContinuationRelease(c) /\ Goto("dispatch")
                                ELSE Abort /\ UNCHANGED rel
    /\ UNCHANGED <<listed, cur, situation, mode, prep, rest, hand, sel, mapped, admitted, proj,
                   helper, told, faults, moves>>

\* The row is completed whatever the helper holds.
BadDispatchRelease(c) ==
    /\ At("apply_release", c, "dispatch") \/ At("recover_release", c, "dispatch")
    /\ CompleteContinuationRelease(c, "released") /\ Advance /\ Well
    /\ native' = [native EXCEPT ![c] = IF @ = "prepared" THEN "released" ELSE @]
    /\ UNCHANGED <<listed, cur, situation, mode, prep, rest, hand, sel, mapped, admitted, proj,
                   made, told, moves>>

(* A preparation that failed holds nothing: its release is done.  Otherwise *)
(* release_continuation: released, unknown, or refused.  Any refusal ends   *)
(* the release, whatever the session holds: it is reported as failed under  *)
(* the helper's own error code, here the phase "refused", and "failed" is   *)
(* the recovery's continuation_consumed.                                    *)
DispatchRelease(c) ==
    /\ At("apply_release", c, "dispatch") \/ At("recover_release", c, "dispatch")
    /\ \/ /\ prep[c] = "failed"
          /\ CompleteContinuationRelease(c, "released") /\ Advance /\ Well /\ UNCHANGED native
       \/ /\ prep[c] # "failed" /\ native[c] = "prepared" /\ HelperReleases(c)
          /\ \/ CompleteContinuationRelease(c, "released") /\ Advance /\ Well
             \/ Fault /\ Abort /\ UNCHANGED rel
       \/ /\ prep[c] # "failed"
          /\ CompleteContinuationRelease(c, "refused") /\ Advance /\ Well /\ UNCHANGED native
       \/ prep[c] # "failed" /\ Fault /\ Abort /\ UNCHANGED <<rel, native>>
    /\ UNCHANGED <<listed, cur, situation, mode, prep, rest, hand, sel, mapped, admitted, proj,
                   made, told, moves>>

\* A session the helper still holds is not released again.
BadRecoverRelease(c) ==
    /\ \/ Enter("recover_release", c)
       \/ Enter("apply_release", c) /\ rel[c] = "releasing"
    /\ IF prep[c] = "failed" \/ native[c] = "released"
       THEN CompleteContinuationRelease(c, "released") /\ Advance
       ELSE Abort /\ UNCHANGED rel
    /\ UNCHANGED <<listed, cur, situation, mode, prep, rest, hand, sel, mapped, admitted, proj,
                   helper, told, faults, moves>>

(* The helper is asked first; only a session it still holds is released     *)
(* again.                                                                   *)
RecoverRelease(c) ==
    /\ \/ Enter("recover_release", c)
       \/ Enter("apply_release", c) /\ rel[c] = "releasing"
    /\ \/ /\ prep[c] = "failed" \/ native[c] = "released"
          /\ CompleteContinuationRelease(c, "released") /\ Advance /\ Well
       \/ /\ prep[c] = "ready" /\ native[c] = "consumed"
          /\ CompleteContinuationRelease(c, "failed") /\ Advance /\ Well
       \/ prep[c] = "ready" /\ native[c] = "prepared" /\ Goto("dispatch") /\ Well /\ UNCHANGED rel
       \/ /\ prep[c] \in {"none", "preparing"} \/ (prep[c] = "ready" /\ native[c] = "none")
          /\ Abort /\ Well /\ UNCHANGED rel
       \/ Fault /\ Abort /\ UNCHANGED rel
    /\ UNCHANGED <<listed, cur, situation, mode, prep, rest, hand, sel, mapped, admitted, proj,
                   helper, told, moves>>

(***************************************************************************)
(* Restores: every step is idempotent by operation and redone from the     *)
(* first one                                                               *)
(***************************************************************************)
PutRestoreOperation(r) == rest' = [rest EXCEPT ![r] = "allocating"]
CompleteRestoreOperation(r) == rest' = [rest EXCEPT ![r] = "accepted"]

ApplyRestore(r) ==
    /\ Enter("recover_restore", r) \/ Enter("apply_restore", r)
    /\ IF CommonAuthority THEN PutRestoreOperation(r) /\ Goto("allocate")
                          ELSE Abort /\ UNCHANGED rest
    /\ UNCHANGED <<listed, cur, situation, mode, prep, rel, hand, sel, mapped, admitted, proj,
                   helper, told, faults, moves>>

(* AllocateRestore, then MaterializeNew with CompleteRestore, then the      *)
(* report.                                                                  *)
RestoreStep(r) ==
    /\ \/ /\ In({"recover_restore", "apply_restore"}, r, "allocate")
          /\ proj' = [proj EXCEPT ![r] = IF @ = "none" THEN "allocated" ELSE @]
          /\ Goto("materialize") /\ Well /\ UNCHANGED rest
       \/ /\ In({"recover_restore", "apply_restore"}, r, "materialize")
          /\ proj' = [proj EXCEPT ![r] = "ready"]
          /\ Goto("complete") /\ Well /\ UNCHANGED rest
       \/ /\ In({"recover_restore", "apply_restore"}, r, "complete")
          /\ CompleteRestoreOperation(r) /\ Advance /\ Well /\ UNCHANGED proj
       \/ /\ \E step \in {"allocate", "materialize"} : In({"recover_restore", "apply_restore"}, r, step)
          /\ Fault /\ Abort /\ UNCHANGED <<rest, proj>>
    /\ UNCHANGED <<listed, cur, situation, mode, prep, rel, hand, sel, mapped, admitted,
                   helper, told, moves>>

(***************************************************************************)
(* Handoffs                                                                *)
(***************************************************************************)
Handling == {"recover_handoff", "apply_handoff"}

PutContinuationHandoffPreparation(h) == hand' = [hand EXCEPT ![h] = "allocating"]

SetContinuationHandoffPhase(h, phase) ==
    hand[h] # "ready" /\ hand' = [hand EXCEPT ![h] = phase] /\ sel' = sel \union {h}

CompleteContinuationHandoffPreparation(h) == hand' = [hand EXCEPT ![h] = "ready"]

ApplyHandoff(h) ==
    /\ Enter("apply_handoff", h) /\ hand[h] = "none"
    /\ IF HandoffAuthority THEN PutContinuationHandoffPreparation(h) /\ Goto("realize")
                           ELSE Abort /\ UNCHANGED hand
    /\ UNCHANGED <<listed, cur, situation, mode, prep, rel, rest, sel, mapped, admitted, proj,
                   helper, told, faults, moves>>

(* realizeHandoffWorkspace: an accepted restore is verified and selected;   *)
(* otherwise a project is allocated, selected, materialized and completed.  *)
RealizeWorkspace(h) ==
    /\ \/ /\ In(Handling, h, "realize") /\ mode[h] = "allocate"
          /\ proj' = [proj EXCEPT ![h] = IF @ = "none" THEN "allocated" ELSE @]
          /\ Goto("select") /\ Well /\ UNCHANGED <<hand, sel>>
       \/ /\ In(Handling, h, "realize") /\ mode[h] = "accepted_restore"
          /\ IF AcceptedRestore
             THEN SetContinuationHandoffPhase(h, "materializing") /\ Goto("registered")
             ELSE Abort /\ UNCHANGED <<hand, sel>>
          /\ Well /\ UNCHANGED proj
       \/ /\ In(Handling, h, "select")
          /\ SetContinuationHandoffPhase(h, "materializing") /\ Goto("materialize")
          /\ Well /\ UNCHANGED proj
       \/ /\ In(Handling, h, "materialize")
          /\ proj' = [proj EXCEPT ![h] = "ready"]
          /\ Goto("registered") /\ Well /\ UNCHANGED <<hand, sel>>
       \/ /\ \E step \in {"realize", "materialize"} : In(Handling, h, step)
          /\ Fault /\ Abort /\ UNCHANGED <<hand, sel, proj>>
    /\ UNCHANGED <<listed, cur, situation, mode, prep, rel, rest, mapped, admitted, helper, told, moves>>

(* completeHandoffWorkspace, before the dispatch: the phase that proves the *)
(* native preparation may have run is written first, then the supervisor    *)
(* registers the workspace.                                                 *)
CompleteWorkspace(h) ==
    /\ In(Handling, h, "registered") /\ SetContinuationHandoffPhase(h, "workspace_registered")
    /\ Goto("register")
    /\ UNCHANGED <<listed, cur, situation, mode, prep, rel, rest, mapped, admitted, proj,
                   helper, told, faults, moves>>

RegisterHandoffWorkspace(h) ==
    /\ In(Handling, h, "register")
    /\ (Goto("prepare") /\ Well) \/ (Fault /\ Abort)
    /\ UNCHANGED <<listed, cur, situation, mode, rows, proj, helper, told, moves>>

(* The single prepare_handoff.  A lost or wrong answer is recorded as       *)
(* recovery_required, a write whose own failure is ignored.                 *)
PrepareHandoff(h) ==
    /\ In(Handling, h, "prepare")
    /\ \/ HelperPrepares(h) /\ CompleteContinuationHandoffPreparation(h)
          /\ Goto("map") /\ Well /\ UNCHANGED sel
       \/ /\ HelperPrepares(h) \/ UNCHANGED helper
          /\ Fault /\ Abort
          /\ SetContinuationHandoffPhase(h, "recovery_required") \/ UNCHANGED <<hand, sel>>
    /\ UNCHANGED <<listed, cur, situation, mode, prep, rel, rest, mapped, admitted, proj, told, moves>>

(* publishHandoffReady, after the report: the target session's source row   *)
(* is written when there is none.                                           *)
MapSource(h) ==
    /\ In(Handling, h, "map")
    /\ mapped' = mapped \union {h} /\ Advance
    /\ UNCHANGED <<listed, cur, situation, mode, prep, rel, rest, hand, sel, admitted, proj,
                   helper, told, faults, moves>>

(* reconcile_handoff with a ready, prepared answer: the report is published.*)
PublishPrepared(h) == native[h] = "prepared" /\ CompleteContinuationHandoffPreparation(h) /\ Goto("map")

(* A materializing record proves the preparation never ran: only the target *)
(* and the checkpoint are validated and the workspace is realized again.    *)
RecoverMaterializedHandoff(h) ==
    /\ IF HandoffTarget /\ RetainedCheckpoint /\ proj[h] # "none" THEN Goto("realize") ELSE Abort
    /\ Well /\ UNCHANGED hand

\* A missing session does not send the handoff back.
BadRecoverRegisteredHandoff(h) ==
    /\ Well
    /\ IF HandoffTarget /\ proj[h] = "ready" /\ native[h] = "prepared"
       THEN PublishPrepared(h) ELSE Abort /\ UNCHANGED hand

(* A preparation whose dispatch failed: the helper's refusal for a missing  *)
(* session sends it through register and prepare again.                     *)
RecoverRegisteredHandoff(h) ==
    \/ /\ HandoffTarget /\ proj[h] = "ready" /\ Well
       /\ \/ PublishPrepared(h)
          \/ native[h] = "none" /\ Goto("registered") /\ UNCHANGED hand
          \/ native[h] \in {"consumed", "released"} /\ Abort /\ UNCHANGED hand
    \/ ~(HandoffTarget /\ proj[h] = "ready") /\ Abort /\ Well /\ UNCHANGED hand
    \/ Fault /\ Abort /\ UNCHANGED hand

(* Every other unfinished record needs the whole authority, a selection and *)
(* a session the helper reports as prepared.                                *)
RecoverOtherHandoff(h) ==
    \/ HandoffAuthority /\ h \in sel /\ PublishPrepared(h) /\ Well
    \/ /\ ~(HandoffAuthority /\ h \in sel /\ native[h] = "prepared")
       /\ Abort /\ Well /\ UNCHANGED hand
    \/ Fault /\ Abort /\ UNCHANGED hand

RecoverHandoff(h) ==
    /\ \/ Enter("recover_handoff", h)
       \/ Enter("apply_handoff", h) /\ hand[h] # "none"
    /\ hand[h] # "ready"
    /\ IF hand[h] = "materializing" /\ h \in sel /\ mode[h] = "allocate"
       THEN RecoverMaterializedHandoff(h)
       ELSE IF hand[h] = "recovery_required" /\ h \in sel /\ mode[h] = "allocate"
            THEN RecoverRegisteredHandoff(h)
            ELSE RecoverOtherHandoff(h)
    /\ UNCHANGED <<listed, cur, situation, mode, prep, rel, rest, sel, mapped, admitted, proj,
                   helper, told, moves>>

(* A ready record is probed again by every recovery: the source service,    *)
(* the target service and the target session.  A service that is not ready  *)
(* yet leaves it for a later pass; a probe that did not complete, and a     *)
(* succession the manifest confirms, are deferred and the pass goes on with *)
(* applying; anything else ends the pass.                                   *)
Deferred == pc' = [i |-> Len(Recovery) + 1, at |-> "enter"]

(* The source's registration, service, sandbox and row are exactly the      *)
(* manifest's, or the row is one proven workspace scope ahead of it.        *)
ScopeAdvanceProven == situation = "scope_advanced"
SourceExact == situation \notin {"source_changed", "succession", "scope_advanced", "source_not_ready"}
SourceObservable == SourceExact \/ ScopeAdvanceProven

(* The succession: the binding's active successor is already adopted.       *)
SuccessionDeferral == situation = "succession"

(* The status receipt of the target service proves its primary session.     *)
TargetServiceObservable == HandoffTarget

(* reconcile_handoff answers that the target session is still prepared.     *)
TargetSessionObservable(h) == native[h] = "prepared"

ReobserveHandoff(h) ==
    /\ Enter("recover_handoff", h) /\ hand[h] = "ready"
    /\ \/ /\ situation \in {"source_not_ready", "target_starting"}
          /\ Advance /\ Well
       \/ /\ situation \notin {"source_not_ready", "target_starting"} /\ Well
          /\ \/ ~(SourceObservable \/ SuccessionDeferral) \/ ~TargetServiceObservable
             \/ ~TargetSessionObservable(h)
          /\ Abort
       \/ /\ TargetServiceObservable /\ TargetSessionObservable(h) /\ Well
          /\ \/ SourceObservable /\ Goto("map")
             \/ SuccessionDeferral /\ (Deferred \/ Abort)
       \/ /\ SourceObservable \/ SuccessionDeferral
          /\ Fault /\ Deferred
    /\ UNCHANGED <<listed, cur, situation, mode, rows, proj, helper, told, moves>>

(* The target registration is exactly the one the ready preparation owns    *)
(* and its mapped source is current.                                        *)
OwnedByPreparation(h) == hand[h] = "ready" /\ h \in mapped

(* The control plane registers the target of a ready handoff: the helper    *)
(* takes the registration and the daemon schedules the admission.           *)
ApplyTarget(h) ==
    /\ Enter("apply_target", h)
    /\ \/ OwnedByPreparation(h) /\ native[h] = "prepared" /\ admitted' = admitted \union {h} /\ Advance /\ Well
       \/ /\ ~OwnedByPreparation(h) \/ native[h] # "prepared"
          /\ Abort /\ Well /\ UNCHANGED admitted
       \/ Fault /\ Abort /\ UNCHANGED admitted
    /\ UNCHANGED <<listed, cur, situation, mode, prep, rel, rest, hand, sel, mapped, proj,
                   helper, told, moves>>

(***************************************************************************)
(* Releases of handoffs: the release is sent once and only a released      *)
(* session completes it                                                    *)
(***************************************************************************)
PutContinuationHandoffRelease(h) == rel' = [rel EXCEPT ![h] = "releasing"]
CompleteContinuationHandoffRelease(h) == rel' = [rel EXCEPT ![h] = "released"]

ApplyHandoffRelease(h) ==
    /\ Enter("apply_hrelease", h) /\ rel[h] = "none"
    /\ IF hand[h] = "ready" THEN PutContinuationHandoffRelease(h) /\ Goto("dispatch")
                            ELSE Abort /\ UNCHANGED rel
    /\ UNCHANGED <<listed, cur, situation, mode, prep, rest, hand, sel, mapped, admitted, proj,
                   helper, told, faults, moves>>

DispatchHandoffRelease(h) ==
    /\ At("apply_hrelease", h, "dispatch")
    /\ \/ /\ native[h] = "prepared" /\ HelperReleases(h)
          /\ \/ CompleteContinuationHandoffRelease(h) /\ Advance /\ Well
             \/ Fault /\ Abort /\ UNCHANGED rel
       \/ native[h] # "prepared" /\ Abort /\ Well /\ UNCHANGED <<rel, native>>
       \/ Fault /\ Abort /\ UNCHANGED <<rel, native>>
    /\ UNCHANGED <<listed, cur, situation, mode, prep, rest, hand, sel, mapped, admitted, proj,
                   made, told, moves>>

RecoverHandoffRelease(h) ==
    /\ \/ Enter("recover_hrelease", h)
       \/ Enter("apply_hrelease", h) /\ rel[h] = "releasing"
    /\ \/ native[h] = "released" /\ CompleteContinuationHandoffRelease(h) /\ Advance /\ Well
       \/ native[h] # "released" /\ Abort /\ Well /\ UNCHANGED rel
       \/ Fault /\ Abort /\ UNCHANGED rel
    /\ UNCHANGED <<listed, cur, situation, mode, prep, rest, hand, sel, mapped, admitted, proj,
                   helper, told, moves>>

(***************************************************************************)
(* Reports, the control plane, the sandbox and failures                    *)
(***************************************************************************)
(* The finished rows of the operations that the manifest of the pass lists. *)
ContinuationReports(manifest) ==
    {<<"prepare", c, prep[c]>> : c \in {x \in Conts : <<"prepare", x>> \in manifest /\ prep[x] \in {"ready", "failed"}}}
    \union {<<"prepare", r, rest[r]>> : r \in {x \in Rests : <<"prepare", x>> \in manifest /\ rest[x] = "accepted"}}

HandoffReports(manifest) ==
    {<<"prepare", h, hand[h]>> : h \in {x \in Hands : <<"prepare", x>> \in manifest /\ hand[x] = "ready"}}

ReleaseReports(manifest) ==
    {<<"release", o, rel[o]>> : o \in {x \in Ops : <<"release", x>> \in manifest /\ rel[x] \in {"released", "failed", "refused"}}}

Reports == ContinuationReports(cur) \union HandoffReports(cur) \union ReleaseReports(cur)

(* The pass is over, completed or not: the daemon reports.                  *)
EndPass ==
    /\ pc.i = Len(Plan) + 1
    /\ pc' = Idle /\ told' = told \union Reports
    /\ UNCHANGED <<listed, cur, situation, mode, rows, proj, helper, faults, moves>>

(* The control plane lists a preparation, later its release or the target's *)
(* registration, and drops what it no longer wants.                         *)
MoveManifest ==
    /\ moves < MaxMoves /\ moves' = moves + 1
    /\ \E o \in Ops \union Rests, kind \in Kinds :
          /\ kind = "release" => o \in Ops
          /\ kind = "target" => o \in Hands
          /\ IF <<kind, o>> \in listed THEN listed' = listed \ {<<kind, o>>}
             ELSE /\ kind # "prepare" => \E s \in {"ready", "failed"} : <<"prepare", o, s>> \in told
                  /\ listed' = listed \union {<<kind, o>>}
    /\ UNCHANGED <<cur, situation, mode, rows, proj, helper, told, pc, faults>>

MoveAuthority ==
    /\ moves < MaxMoves /\ moves' = moves + 1
    /\ situation' \in Situations \ {situation}
    /\ UNCHANGED <<listed, cur, mode, rows, proj, helper, told, pc, faults>>

(* The prepared session of a continuation, or of an admitted handoff, takes *)
(* its first message.                                                       *)
Consume(o) ==
    /\ native[o] = "prepared" /\ (o \in Hands => o \in admitted)
    /\ native' = [native EXCEPT ![o] = "consumed"]
    /\ UNCHANGED <<listed, cur, situation, mode, rows, proj, made, told, pc, faults, moves>>

Crash == /\ pc # Idle /\ Fault /\ pc' = Idle /\ cur' = {}
         /\ UNCHANGED <<listed, situation, mode, rows, proj, helper, told, moves>>

Init == /\ listed = {"prepare"} \X (Ops \union Rests) /\ cur = {} /\ situation = "exact"
        /\ mode \in [Hands -> {"allocate", "accepted_restore"}]
        /\ prep = [c \in Conts |-> "none"] /\ rel = [o \in Ops |-> "none"]
        /\ rest = [r \in Rests |-> "none"] /\ hand = [h \in Hands |-> "none"]
        /\ sel = {} /\ mapped = {} /\ admitted = {} /\ proj = [x \in Projects |-> "none"]
        /\ native = [o \in Ops |-> "none"] /\ made = [o \in Ops |-> 0]
        /\ told = {} /\ pc = Idle /\ faults = 0 /\ moves = 0

ContinuationStep(c) ==
    \/ ApplyContinuation(c) \/ FailContinuation(c) \/ PrepareContinuation(c) \/ RecoverContinuation(c)
    \/ ApplyRelease(c) \/ DispatchRelease(c) \/ RecoverRelease(c)

HandoffStep(h) ==
    \/ ApplyHandoff(h) \/ RealizeWorkspace(h) \/ CompleteWorkspace(h)
    \/ RegisterHandoffWorkspace(h) \/ PrepareHandoff(h)
    \/ MapSource(h) \/ RecoverHandoff(h) \/ ReobserveHandoff(h) \/ ApplyTarget(h)
    \/ ApplyHandoffRelease(h) \/ DispatchHandoffRelease(h) \/ RecoverHandoffRelease(h)

Step == \/ Pass \/ SkipOperation \/ EndPass
        \/ \E c \in Conts : ContinuationStep(c)
        \/ \E r \in Rests : ApplyRestore(r) \/ RestoreStep(r)
        \/ \E h \in Hands : HandoffStep(h)

Next == Step \/ MoveManifest \/ MoveAuthority \/ Crash \/ \E o \in Ops : Consume(o)

(* The daemon keeps starting passes and a pass keeps going.                 *)
Spec == Init /\ [][Next]_vars /\ WF_vars(Step)

(***************************************************************************)
(* Properties                                                              *)
(***************************************************************************)
(* Whatever crashes, lost answers and changes of authority do in between,   *)
(* the control plane sees an operation with one native session at most,     *)
(* which is consumed or released and never both, and with reports that say  *)
(* only what has happened for good, but for a refused release, which says   *)
(* nothing of the session (OneShotOperation).                               *)
Outcome(status) == IF status \in {"ready", "failed", "released", "refused"} THEN status ELSE "none"

Prepared == [o \in Ops |-> Outcome(IF o \in Conts THEN prep[o] ELSE hand[o])]
Released == [o \in Ops |-> Outcome(rel[o])]

Abstract == INSTANCE OneShotOperation WITH
                session <- native, sessions <- made, prepared <- Prepared, released <- Released

ImplementsOneShot == Abstract!Spec

(* A release whose row was written is settled by the passes that follow, as *)
(* long as it stays listed and no listed preparation is stuck before it in  *)
(* the pass: its answer may be lost, it is asked for again (recoverRelease).*)
PreparationsAnswered == \A c \in Conts : <<"prepare", c>> \in listed => prep[c] # "preparing"

ReleaseSettles ==
    \A c \in Conts :
        (rel[c] = "releasing" /\ [](<<"release", c>> \in listed /\ PreparationsAnswered))
            ~> (rel[c] \in {"released", "failed", "refused"})

(* A handoff whose project was being materialized, or whose dispatch failed,*)
(* is published by the passes that follow once the authority is exact, the  *)
(* target is registered neither way and nothing before it in the pass is    *)
(* stuck, unless it stopped in the one window recovery does not cross: the  *)
(* phase workspace_registered with no session made (s2bhandoff.go:1030).    *)
Undisturbed(h) == /\ <<"prepare", h>> \in listed /\ situation = "exact" /\ PreparationsAnswered
                  /\ \A g \in Hands \ {h} : <<"prepare", g>> \notin listed

HandoffResumes ==
    \A h \in Hands :
        (/\ hand[h] \in {"materializing", "recovery_required"} /\ mode[h] = "allocate"
         /\ []Undisturbed(h))
            ~> (hand[h] = "ready" \/ (hand[h] = "workspace_registered" /\ native[h] = "none"))
====
