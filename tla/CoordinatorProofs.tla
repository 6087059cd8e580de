------------------------- MODULE CoordinatorProofs -------------------------
(***************************************************************************)
(* Proofs about the two coordinators, for every set of operations and      *)
(* every bound.                                                            *)
(*                                                                         *)
(* Coordinator: the safety of a boundary is not inductive by itself: what  *)
(* the helper and the local operation have seen of an operation depends on *)
(* its report (FreshInv) and on where applyOperation and RecoverCurrent    *)
(* stand (StepInv).  RegInv orders the revisions of a binding.             *)
(*                                                                         *)
(* ManagerCoordinator: MInv relates where the pass stands to the rows in   *)
(* its hands, the row of a run to what the helper and the control plane    *)
(* saw of it, and the outbox to the finding and the cursor.                *)
(***************************************************************************)
EXTENDS Coordinator, ManagerCoordinator, TLAPS

\* An operation without a report and without a tombstone has never run.
FreshInv ==
    \A o \in Ops : rep[o] = "none" /\ o \notin retired => helper[o] = "free" /\ loc[o] = "none"

\* Where the daemon stands determines the rows and the boundary of `cur`.
StepInv ==
    /\ pc = "applying" => rep[cur] = "none" /\ cur \notin retired
    /\ pc \in {"acquire", "refused", "receipt", "capture", "captured", "checkpoint",
               "checkpointed", "release", "unbar", "final"} => rep[cur] = "applying"
    /\ pc \in {"applying", "acquire", "refused", "receipt", "capture", "captured",
               "checkpoint", "checkpointed", "release", "release_recovered"} =>
                   bar[cur] # "none"
    /\ pc \in {"acquire", "refused"} => helper[cur] = "free"
    /\ pc \in {"acquire", "refused", "receipt", "capture"} => loc[cur] = "none"
    /\ pc = "captured" => loc[cur] \in {"pending", "capturing"}
    /\ pc = "checkpoint" => loc[cur] = "captured"
    /\ pc = "checkpointed" => loc[cur] \in {"pending", "verifying"}
    /\ pc \in {"release", "unbar", "final"} /\ outcome = "accepted" => loc[cur] = "succeeded"
    /\ pc \in {"unbar", "final", "unbar_recovered"} => helper[cur] # "held"
    /\ pc = "release_recovered" => helper[cur] = "held"

\* The registration row is never ahead of the manifest, nor the manifest of the
\* control plane.
RegInv ==
    /\ wantRev >= 1 /\ Effective \in 1..wantRev
    /\ reg.rev <= Effective
    /\ reg.status = "none" => reg.rev = 0

Safety == BoundaryHasBarrier /\ KnownOutcomeIsReleased /\ AcceptedMeansCheckpoint /\ RetiredIsOver

IInv == TypeOK /\ Safety /\ FreshInv /\ StepInv /\ RegInv

USE Bounds DEF cpVars, manVars, rowVars, locals, Terminal, Reports, Visited, Live,
    LocalStates, Outcomes, Phases

\* The newest of the one or two listed revisions of a binding.
LEMMA MaxOne == ASSUME NEW r \in Nat PROVE Max({r}) = r
  BY DEF Max

LEMMA MaxPair == ASSUME NEW r \in Nat, r > 1 PROVE Max({r - 1, r}) = r
<1>1. \A x \in {r - 1, r} : (\A y \in {r - 1, r} : x >= y) <=> x = r
  OBVIOUS
<1> QED
  BY <1>1 DEF Max

LEMMA InitIInv == Init => IInv
<1> SUFFICES ASSUME Init PROVE IInv
  OBVIOUS
<1>1. TypeOK
  BY DEF Init, TypeOK
<1>2. Safety /\ FreshInv
  BY DEF Init, Safety, FreshInv, BoundaryHasBarrier, KnownOutcomeIsReleased,
     AcceptedMeansCheckpoint, RetiredIsOver
<1>3. StepInv
  BY DEF Init, StepInv
<1>4. RegInv
  BY MaxOne DEF Init, RegInv, Effective
<1> QED
  BY <1>1, <1>2, <1>3, <1>4 DEF IInv

\* A counted fault, and a counted move, keep the type of the counter.
LEMMA FaultType == ASSUME faults \in Nat, Fault PROVE faults' \in Nat
  BY DEF Fault

LEMMA MoveType == ASSUME moves \in Nat, Move PROVE moves' \in Nat
  BY DEF Move

\* Fetch preserves the inductive invariant.
LEMMA FetchIInv ==
  ASSUME IInv, Fetch
  PROVE  IInv'
<1>1. TypeOK'
  BY DEF IInv, TypeOK, Fetch
<1>2. Safety'
  BY DEF IInv, TypeOK, Safety, BoundaryHasBarrier, KnownOutcomeIsReleased,
     AcceptedMeansCheckpoint, RetiredIsOver, FreshInv, StepInv, Fetch
<1>3. FreshInv'
  BY DEF IInv, TypeOK, Safety, BoundaryHasBarrier, KnownOutcomeIsReleased,
     AcceptedMeansCheckpoint, RetiredIsOver, FreshInv, StepInv, Fetch
<1>4. StepInv'
  BY DEF IInv, TypeOK, Safety, BoundaryHasBarrier, KnownOutcomeIsReleased,
     AcceptedMeansCheckpoint, RetiredIsOver, FreshInv, StepInv, Fetch
<1>5. RegInv'
  <2>1. manRegs' = {wantRev} \/ (wantRev > 1 /\ manRegs' = {wantRev - 1, wantRev})
    BY DEF Fetch
  <2>2. wantRev \in Nat /\ wantRev >= 1 /\ wantRev' = wantRev /\ reg' = reg
    BY DEF IInv, TypeOK, RegInv, Fetch
  <2>3. Effective' = wantRev
    BY <2>1, <2>2, MaxOne, MaxPair DEF Effective
  <2> QED
    BY <2>2, <2>3 DEF IInv, TypeOK, RegInv
<1> QED
  BY <1>1, <1>2, <1>3, <1>4, <1>5 DEF IInv

\* LocalSafety preserves the inductive invariant.
LEMMA LocalSafetyIInv ==
  ASSUME IInv, LocalSafety
  PROVE  IInv'
<1>1. TypeOK'
  <2>1. faults' = faults \/ Fault
    BY DEF LocalSafety, Recovered, Barriers
  <2>2. faults' \in Nat
    BY <2>1, FaultType DEF IInv, TypeOK
  <2> QED
    BY <2>2 DEF IInv, TypeOK, LocalSafety, Recovered, Barriers
<1>2. Safety'
  BY DEF IInv, TypeOK, Safety, BoundaryHasBarrier, KnownOutcomeIsReleased,
     AcceptedMeansCheckpoint, RetiredIsOver, FreshInv, StepInv, LocalSafety, Recovered,
     Barriers
<1>3. FreshInv'
  BY DEF IInv, TypeOK, Safety, BoundaryHasBarrier, KnownOutcomeIsReleased,
     AcceptedMeansCheckpoint, RetiredIsOver, FreshInv, StepInv, LocalSafety, Recovered,
     Barriers
<1>4. StepInv'
  BY DEF IInv, TypeOK, Safety, BoundaryHasBarrier, KnownOutcomeIsReleased,
     AcceptedMeansCheckpoint, RetiredIsOver, FreshInv, StepInv, LocalSafety, Recovered,
     Barriers
<1>5. RegInv'
  BY DEF IInv, TypeOK, RegInv, Effective, LocalSafety, Recovered, Barriers
<1> QED
  BY <1>1, <1>2, <1>3, <1>4, <1>5 DEF IInv

\* Reconcile preserves the inductive invariant.
LEMMA ReconcileIInv ==
  ASSUME IInv, NEW x \in Ops, Reconcile(x)
  PROVE  IInv'
<1>1. TypeOK'
  <2>1. faults' = faults \/ Fault
    BY DEF Reconcile, DeleteContinuityBarrier
  <2>2. faults' \in Nat
    BY <2>1, FaultType DEF IInv, TypeOK
  <2> QED
    BY <2>2 DEF IInv, TypeOK, Reconcile, DeleteContinuityBarrier
<1>2. Safety'
  BY DEF IInv, TypeOK, Safety, BoundaryHasBarrier, KnownOutcomeIsReleased,
     AcceptedMeansCheckpoint, RetiredIsOver, FreshInv, StepInv, Reconcile,
     DeleteContinuityBarrier
<1>3. FreshInv'
  BY DEF IInv, TypeOK, Safety, BoundaryHasBarrier, KnownOutcomeIsReleased,
     AcceptedMeansCheckpoint, RetiredIsOver, FreshInv, StepInv, Reconcile,
     DeleteContinuityBarrier
<1>4. StepInv'
  BY DEF IInv, TypeOK, Safety, BoundaryHasBarrier, KnownOutcomeIsReleased,
     AcceptedMeansCheckpoint, RetiredIsOver, FreshInv, StepInv, Reconcile,
     DeleteContinuityBarrier
<1>5. RegInv'
  BY DEF IInv, TypeOK, RegInv, Effective, Reconcile, DeleteContinuityBarrier
<1> QED
  BY <1>1, <1>2, <1>3, <1>4, <1>5 DEF IInv

\* ReleaseRecovered preserves the inductive invariant.
LEMMA ReleaseRecoveredIInv ==
  ASSUME IInv, ReleaseRecovered
  PROVE  IInv'
<1>1. TypeOK'
  <2>1. faults' = faults \/ Fault
    BY DEF ReleaseRecovered
  <2>2. faults' \in Nat
    BY <2>1, FaultType DEF IInv, TypeOK
  <2> QED
    BY <2>2 DEF IInv, TypeOK, ReleaseRecovered
<1>2. Safety'
  BY DEF IInv, TypeOK, Safety, BoundaryHasBarrier, KnownOutcomeIsReleased,
     AcceptedMeansCheckpoint, RetiredIsOver, FreshInv, StepInv, ReleaseRecovered
<1>3. FreshInv'
  BY DEF IInv, TypeOK, Safety, BoundaryHasBarrier, KnownOutcomeIsReleased,
     AcceptedMeansCheckpoint, RetiredIsOver, FreshInv, StepInv, ReleaseRecovered
<1>4. StepInv'
  BY DEF IInv, TypeOK, Safety, BoundaryHasBarrier, KnownOutcomeIsReleased,
     AcceptedMeansCheckpoint, RetiredIsOver, FreshInv, StepInv, ReleaseRecovered
<1>5. RegInv'
  BY DEF IInv, TypeOK, RegInv, Effective, ReleaseRecovered
<1> QED
  BY <1>1, <1>2, <1>3, <1>4, <1>5 DEF IInv

\* UnbarRecovered preserves the inductive invariant.
LEMMA UnbarRecoveredIInv ==
  ASSUME IInv, UnbarRecovered
  PROVE  IInv'
<1>1. TypeOK'
  <2>1. faults' = faults \/ Fault
    BY DEF UnbarRecovered, DeleteContinuityBarrier
  <2>2. faults' \in Nat
    BY <2>1, FaultType DEF IInv, TypeOK
  <2> QED
    BY <2>2 DEF IInv, TypeOK, UnbarRecovered, DeleteContinuityBarrier
<1>2. Safety'
  BY DEF IInv, TypeOK, Safety, BoundaryHasBarrier, KnownOutcomeIsReleased,
     AcceptedMeansCheckpoint, RetiredIsOver, FreshInv, StepInv, UnbarRecovered,
     DeleteContinuityBarrier
<1>3. FreshInv'
  BY DEF IInv, TypeOK, Safety, BoundaryHasBarrier, KnownOutcomeIsReleased,
     AcceptedMeansCheckpoint, RetiredIsOver, FreshInv, StepInv, UnbarRecovered,
     DeleteContinuityBarrier
<1>4. StepInv'
  BY DEF IInv, TypeOK, Safety, BoundaryHasBarrier, KnownOutcomeIsReleased,
     AcceptedMeansCheckpoint, RetiredIsOver, FreshInv, StepInv, UnbarRecovered,
     DeleteContinuityBarrier
<1>5. RegInv'
  BY DEF IInv, TypeOK, RegInv, Effective, UnbarRecovered, DeleteContinuityBarrier
<1> QED
  BY <1>1, <1>2, <1>3, <1>4, <1>5 DEF IInv

\* ReportRecovered preserves the inductive invariant.
LEMMA ReportRecoveredIInv ==
  ASSUME IInv, ReportRecovered
  PROVE  IInv'
<1>1. TypeOK'
  <2>1. faults' = faults \/ Fault
    BY DEF ReportRecovered, ReportThen, PutContinuityOperationReport
  <2>2. faults' \in Nat
    BY <2>1, FaultType DEF IInv, TypeOK
  <2> QED
    BY <2>2 DEF IInv, TypeOK, ReportRecovered, ReportThen, PutContinuityOperationReport
<1>2. Safety'
  BY DEF IInv, TypeOK, Safety, BoundaryHasBarrier, KnownOutcomeIsReleased,
     AcceptedMeansCheckpoint, RetiredIsOver, FreshInv, StepInv, ReportRecovered,
     ReportThen, PutContinuityOperationReport
<1>3. FreshInv'
  BY DEF IInv, TypeOK, Safety, BoundaryHasBarrier, KnownOutcomeIsReleased,
     AcceptedMeansCheckpoint, RetiredIsOver, FreshInv, StepInv, ReportRecovered,
     ReportThen, PutContinuityOperationReport
<1>4. StepInv'
  BY DEF IInv, TypeOK, Safety, BoundaryHasBarrier, KnownOutcomeIsReleased,
     AcceptedMeansCheckpoint, RetiredIsOver, FreshInv, StepInv, ReportRecovered,
     ReportThen, PutContinuityOperationReport
<1>5. RegInv'
  BY DEF IInv, TypeOK, RegInv, Effective, ReportRecovered, ReportThen,
     PutContinuityOperationReport
<1> QED
  BY <1>1, <1>2, <1>3, <1>4, <1>5 DEF IInv

\* RecoverDone preserves the inductive invariant.
LEMMA RecoverDoneIInv ==
  ASSUME IInv, RecoverDone
  PROVE  IInv'
<1>1. TypeOK'
  BY DEF IInv, TypeOK, RecoverDone
<1>2. Safety'
  BY DEF IInv, TypeOK, Safety, BoundaryHasBarrier, KnownOutcomeIsReleased,
     AcceptedMeansCheckpoint, RetiredIsOver, FreshInv, StepInv, RecoverDone
<1>3. FreshInv'
  BY DEF IInv, TypeOK, Safety, BoundaryHasBarrier, KnownOutcomeIsReleased,
     AcceptedMeansCheckpoint, RetiredIsOver, FreshInv, StepInv, RecoverDone
<1>4. StepInv'
  BY DEF IInv, TypeOK, Safety, BoundaryHasBarrier, KnownOutcomeIsReleased,
     AcceptedMeansCheckpoint, RetiredIsOver, FreshInv, StepInv, RecoverDone
<1>5. RegInv'
  BY DEF IInv, TypeOK, RegInv, Effective, RecoverDone
<1> QED
  BY <1>1, <1>2, <1>3, <1>4, <1>5 DEF IInv

\* Register preserves the inductive invariant.
LEMMA RegisterIInv ==
  ASSUME IInv, Register
  PROVE  IInv'
<1>1. TypeOK'
  <2>1. Effective \in Nat /\ manOn \in BOOLEAN
    BY DEF IInv, TypeOK, RegInv
  <2>2. \E s \in {"none", "failed", "verified", "revoked"} :
            reg' = reg \/ reg' = [rev |-> Effective, on |-> manOn, status |-> s]
    BY DEF Register, ApplyRegistrationMetadata
  <2>3. reg' \in [rev : Nat, on : BOOLEAN, status : {"none", "failed", "verified", "revoked"}]
    BY <2>1, <2>2 DEF IInv, TypeOK
  <2> QED
    BY <2>3 DEF IInv, TypeOK, Register
<1>2. Safety'
  BY DEF IInv, TypeOK, Safety, BoundaryHasBarrier, KnownOutcomeIsReleased,
     AcceptedMeansCheckpoint, RetiredIsOver, FreshInv, StepInv, Register,
     ApplyRegistrationMetadata
<1>3. FreshInv'
  BY DEF IInv, TypeOK, Safety, BoundaryHasBarrier, KnownOutcomeIsReleased,
     AcceptedMeansCheckpoint, RetiredIsOver, FreshInv, StepInv, Register,
     ApplyRegistrationMetadata
<1>4. StepInv'
  BY DEF IInv, TypeOK, Safety, BoundaryHasBarrier, KnownOutcomeIsReleased,
     AcceptedMeansCheckpoint, RetiredIsOver, FreshInv, StepInv, Register,
     ApplyRegistrationMetadata
<1>5. RegInv'
  BY DEF IInv, TypeOK, RegInv, Effective, Register, ApplyRegistrationMetadata
<1> QED
  BY <1>1, <1>2, <1>3, <1>4, <1>5 DEF IInv

\* Retire preserves the inductive invariant.
LEMMA RetireIInv ==
  ASSUME IInv, Retire
  PROVE  IInv'
<1>1. TypeOK'
  BY DEF IInv, TypeOK, Retire, Retirable
<1>2. Safety'
  BY DEF IInv, TypeOK, Safety, BoundaryHasBarrier, KnownOutcomeIsReleased,
     AcceptedMeansCheckpoint, RetiredIsOver, FreshInv, StepInv, Retire, Retirable
<1>3. FreshInv'
  BY DEF IInv, TypeOK, Safety, BoundaryHasBarrier, KnownOutcomeIsReleased,
     AcceptedMeansCheckpoint, RetiredIsOver, FreshInv, StepInv, Retire, Retirable
<1>4. StepInv'
  BY DEF IInv, TypeOK, Safety, BoundaryHasBarrier, KnownOutcomeIsReleased,
     AcceptedMeansCheckpoint, RetiredIsOver, FreshInv, StepInv, Retire, Retirable
<1>5. RegInv'
  BY DEF IInv, TypeOK, RegInv, Effective, Retire, Retirable
<1> QED
  BY <1>1, <1>2, <1>3, <1>4, <1>5 DEF IInv

\* Begin preserves the inductive invariant.
LEMMA BeginIInv ==
  ASSUME IInv, NEW x \in Ops, Begin(x)
  PROVE  IInv'
<1>1. TypeOK'
  <2>1. faults' = faults \/ Fault
    BY DEF Begin, ReportThen, PutContinuityOperationReport, PutContinuityBarrier
  <2>2. faults' \in Nat
    BY <2>1, FaultType DEF IInv, TypeOK
  <2> QED
    BY <2>2 DEF IInv, TypeOK, Begin, ReportThen, PutContinuityOperationReport,
     PutContinuityBarrier
<1>2. Safety'
  BY DEF IInv, TypeOK, Safety, BoundaryHasBarrier, KnownOutcomeIsReleased,
     AcceptedMeansCheckpoint, RetiredIsOver, FreshInv, StepInv, Begin, ReportThen,
     PutContinuityOperationReport, PutContinuityBarrier
<1>3. FreshInv'
  BY DEF IInv, TypeOK, Safety, BoundaryHasBarrier, KnownOutcomeIsReleased,
     AcceptedMeansCheckpoint, RetiredIsOver, FreshInv, StepInv, Begin, ReportThen,
     PutContinuityOperationReport, PutContinuityBarrier
<1>4. StepInv'
  BY DEF IInv, TypeOK, Safety, BoundaryHasBarrier, KnownOutcomeIsReleased,
     AcceptedMeansCheckpoint, RetiredIsOver, FreshInv, StepInv, Begin, ReportThen,
     PutContinuityOperationReport, PutContinuityBarrier
<1>5. RegInv'
  BY DEF IInv, TypeOK, RegInv, Effective, Begin, ReportThen, PutContinuityOperationReport,
     PutContinuityBarrier
<1> QED
  BY <1>1, <1>2, <1>3, <1>4, <1>5 DEF IInv

\* ApplyDone preserves the inductive invariant.
LEMMA ApplyDoneIInv ==
  ASSUME IInv, ApplyDone
  PROVE  IInv'
<1>1. TypeOK'
  BY DEF IInv, TypeOK, ApplyDone
<1>2. Safety'
  BY DEF IInv, TypeOK, Safety, BoundaryHasBarrier, KnownOutcomeIsReleased,
     AcceptedMeansCheckpoint, RetiredIsOver, FreshInv, StepInv, ApplyDone
<1>3. FreshInv'
  BY DEF IInv, TypeOK, Safety, BoundaryHasBarrier, KnownOutcomeIsReleased,
     AcceptedMeansCheckpoint, RetiredIsOver, FreshInv, StepInv, ApplyDone
<1>4. StepInv'
  BY DEF IInv, TypeOK, Safety, BoundaryHasBarrier, KnownOutcomeIsReleased,
     AcceptedMeansCheckpoint, RetiredIsOver, FreshInv, StepInv, ApplyDone
<1>5. RegInv'
  BY DEF IInv, TypeOK, RegInv, Effective, ApplyDone
<1> QED
  BY <1>1, <1>2, <1>3, <1>4, <1>5 DEF IInv

\* Applying preserves the inductive invariant.
LEMMA ApplyingIInv ==
  ASSUME IInv, Applying
  PROVE  IInv'
<1>1. TypeOK'
  <2>1. faults' = faults \/ Fault
    BY DEF Applying, ReportThen, PutContinuityOperationReport
  <2>2. faults' \in Nat
    BY <2>1, FaultType DEF IInv, TypeOK
  <2> QED
    BY <2>2 DEF IInv, TypeOK, Applying, ReportThen, PutContinuityOperationReport
<1>2. Safety'
  BY DEF IInv, TypeOK, Safety, BoundaryHasBarrier, KnownOutcomeIsReleased,
     AcceptedMeansCheckpoint, RetiredIsOver, FreshInv, StepInv, Applying, ReportThen,
     PutContinuityOperationReport
<1>3. FreshInv'
  BY DEF IInv, TypeOK, Safety, BoundaryHasBarrier, KnownOutcomeIsReleased,
     AcceptedMeansCheckpoint, RetiredIsOver, FreshInv, StepInv, Applying, ReportThen,
     PutContinuityOperationReport
<1>4. StepInv'
  BY DEF IInv, TypeOK, Safety, BoundaryHasBarrier, KnownOutcomeIsReleased,
     AcceptedMeansCheckpoint, RetiredIsOver, FreshInv, StepInv, Applying, ReportThen,
     PutContinuityOperationReport
<1>5. RegInv'
  BY DEF IInv, TypeOK, RegInv, Effective, Applying, ReportThen,
     PutContinuityOperationReport
<1> QED
  BY <1>1, <1>2, <1>3, <1>4, <1>5 DEF IInv

\* Acquire preserves the inductive invariant.
LEMMA AcquireIInv ==
  ASSUME IInv, Acquire
  PROVE  IInv'
<1>1. TypeOK'
  <2>1. faults' = faults \/ Fault
    BY DEF Acquire, PutContinuityOperationReport
  <2>2. faults' \in Nat
    BY <2>1, FaultType DEF IInv, TypeOK
  <2> QED
    BY <2>2 DEF IInv, TypeOK, Acquire, PutContinuityOperationReport
<1>2. Safety'
  BY DEF IInv, TypeOK, Safety, BoundaryHasBarrier, KnownOutcomeIsReleased,
     AcceptedMeansCheckpoint, RetiredIsOver, FreshInv, StepInv, Acquire,
     PutContinuityOperationReport
<1>3. FreshInv'
  BY DEF IInv, TypeOK, Safety, BoundaryHasBarrier, KnownOutcomeIsReleased,
     AcceptedMeansCheckpoint, RetiredIsOver, FreshInv, StepInv, Acquire,
     PutContinuityOperationReport
<1>4. StepInv'
  BY DEF IInv, TypeOK, Safety, BoundaryHasBarrier, KnownOutcomeIsReleased,
     AcceptedMeansCheckpoint, RetiredIsOver, FreshInv, StepInv, Acquire,
     PutContinuityOperationReport
<1>5. RegInv'
  BY DEF IInv, TypeOK, RegInv, Effective, Acquire, PutContinuityOperationReport
<1> QED
  BY <1>1, <1>2, <1>3, <1>4, <1>5 DEF IInv

\* Refuse preserves the inductive invariant.
LEMMA RefuseIInv ==
  ASSUME IInv, Refuse
  PROVE  IInv'
<1>1. TypeOK'
  <2>1. faults' = faults \/ Fault
    BY DEF Refuse, DeleteContinuityBarrier
  <2>2. faults' \in Nat
    BY <2>1, FaultType DEF IInv, TypeOK
  <2> QED
    BY <2>2 DEF IInv, TypeOK, Refuse, DeleteContinuityBarrier
<1>2. Safety'
  BY DEF IInv, TypeOK, Safety, BoundaryHasBarrier, KnownOutcomeIsReleased,
     AcceptedMeansCheckpoint, RetiredIsOver, FreshInv, StepInv, Refuse,
     DeleteContinuityBarrier
<1>3. FreshInv'
  BY DEF IInv, TypeOK, Safety, BoundaryHasBarrier, KnownOutcomeIsReleased,
     AcceptedMeansCheckpoint, RetiredIsOver, FreshInv, StepInv, Refuse,
     DeleteContinuityBarrier
<1>4. StepInv'
  BY DEF IInv, TypeOK, Safety, BoundaryHasBarrier, KnownOutcomeIsReleased,
     AcceptedMeansCheckpoint, RetiredIsOver, FreshInv, StepInv, Refuse,
     DeleteContinuityBarrier
<1>5. RegInv'
  BY DEF IInv, TypeOK, RegInv, Effective, Refuse, DeleteContinuityBarrier
<1> QED
  BY <1>1, <1>2, <1>3, <1>4, <1>5 DEF IInv

\* Receipt preserves the inductive invariant.
LEMMA ReceiptIInv ==
  ASSUME IInv, Receipt
  PROVE  IInv'
<1>1. TypeOK'
  <2>1. faults' = faults \/ Fault
    BY DEF Receipt, PutContinuityBarrier
  <2>2. faults' \in Nat
    BY <2>1, FaultType DEF IInv, TypeOK
  <2> QED
    BY <2>2 DEF IInv, TypeOK, Receipt, PutContinuityBarrier
<1>2. Safety'
  BY DEF IInv, TypeOK, Safety, BoundaryHasBarrier, KnownOutcomeIsReleased,
     AcceptedMeansCheckpoint, RetiredIsOver, FreshInv, StepInv, Receipt,
     PutContinuityBarrier
<1>3. FreshInv'
  BY DEF IInv, TypeOK, Safety, BoundaryHasBarrier, KnownOutcomeIsReleased,
     AcceptedMeansCheckpoint, RetiredIsOver, FreshInv, StepInv, Receipt,
     PutContinuityBarrier
<1>4. StepInv'
  BY DEF IInv, TypeOK, Safety, BoundaryHasBarrier, KnownOutcomeIsReleased,
     AcceptedMeansCheckpoint, RetiredIsOver, FreshInv, StepInv, Receipt,
     PutContinuityBarrier
<1>5. RegInv'
  BY DEF IInv, TypeOK, RegInv, Effective, Receipt, PutContinuityBarrier
<1> QED
  BY <1>1, <1>2, <1>3, <1>4, <1>5 DEF IInv

\* Capture preserves the inductive invariant.
LEMMA CaptureIInv ==
  ASSUME IInv, Capture
  PROVE  IInv'
<1>1. TypeOK'
  BY DEF IInv, TypeOK, Capture
<1>2. Safety'
  BY DEF IInv, TypeOK, Safety, BoundaryHasBarrier, KnownOutcomeIsReleased,
     AcceptedMeansCheckpoint, RetiredIsOver, FreshInv, StepInv, Capture
<1>3. FreshInv'
  BY DEF IInv, TypeOK, Safety, BoundaryHasBarrier, KnownOutcomeIsReleased,
     AcceptedMeansCheckpoint, RetiredIsOver, FreshInv, StepInv, Capture
<1>4. StepInv'
  BY DEF IInv, TypeOK, Safety, BoundaryHasBarrier, KnownOutcomeIsReleased,
     AcceptedMeansCheckpoint, RetiredIsOver, FreshInv, StepInv, Capture
<1>5. RegInv'
  BY DEF IInv, TypeOK, RegInv, Effective, Capture
<1> QED
  BY <1>1, <1>2, <1>3, <1>4, <1>5 DEF IInv

\* CaptureEnds preserves the inductive invariant.
LEMMA CaptureEndsIInv ==
  ASSUME IInv, CaptureEnds
  PROVE  IInv'
<1>1. TypeOK'
  <2>1. faults' = faults \/ Fault
    BY DEF CaptureEnds
  <2>2. faults' \in Nat
    BY <2>1, FaultType DEF IInv, TypeOK
  <2> QED
    BY <2>2 DEF IInv, TypeOK, CaptureEnds
<1>2. Safety'
  BY DEF IInv, TypeOK, Safety, BoundaryHasBarrier, KnownOutcomeIsReleased,
     AcceptedMeansCheckpoint, RetiredIsOver, FreshInv, StepInv, CaptureEnds
<1>3. FreshInv'
  BY DEF IInv, TypeOK, Safety, BoundaryHasBarrier, KnownOutcomeIsReleased,
     AcceptedMeansCheckpoint, RetiredIsOver, FreshInv, StepInv, CaptureEnds
<1>4. StepInv'
  BY DEF IInv, TypeOK, Safety, BoundaryHasBarrier, KnownOutcomeIsReleased,
     AcceptedMeansCheckpoint, RetiredIsOver, FreshInv, StepInv, CaptureEnds
<1>5. RegInv'
  BY DEF IInv, TypeOK, RegInv, Effective, CaptureEnds
<1> QED
  BY <1>1, <1>2, <1>3, <1>4, <1>5 DEF IInv

\* Checkpoint preserves the inductive invariant.
LEMMA CheckpointIInv ==
  ASSUME IInv, Checkpoint
  PROVE  IInv'
<1>1. TypeOK'
  BY DEF IInv, TypeOK, Checkpoint
<1>2. Safety'
  BY DEF IInv, TypeOK, Safety, BoundaryHasBarrier, KnownOutcomeIsReleased,
     AcceptedMeansCheckpoint, RetiredIsOver, FreshInv, StepInv, Checkpoint
<1>3. FreshInv'
  BY DEF IInv, TypeOK, Safety, BoundaryHasBarrier, KnownOutcomeIsReleased,
     AcceptedMeansCheckpoint, RetiredIsOver, FreshInv, StepInv, Checkpoint
<1>4. StepInv'
  BY DEF IInv, TypeOK, Safety, BoundaryHasBarrier, KnownOutcomeIsReleased,
     AcceptedMeansCheckpoint, RetiredIsOver, FreshInv, StepInv, Checkpoint
<1>5. RegInv'
  BY DEF IInv, TypeOK, RegInv, Effective, Checkpoint
<1> QED
  BY <1>1, <1>2, <1>3, <1>4, <1>5 DEF IInv

\* CheckpointEnds preserves the inductive invariant.
LEMMA CheckpointEndsIInv ==
  ASSUME IInv, CheckpointEnds
  PROVE  IInv'
<1>1. TypeOK'
  <2>1. faults' = faults \/ Fault
    BY DEF CheckpointEnds
  <2>2. faults' \in Nat
    BY <2>1, FaultType DEF IInv, TypeOK
  <2> QED
    BY <2>2 DEF IInv, TypeOK, CheckpointEnds
<1>2. Safety'
  BY DEF IInv, TypeOK, Safety, BoundaryHasBarrier, KnownOutcomeIsReleased,
     AcceptedMeansCheckpoint, RetiredIsOver, FreshInv, StepInv, CheckpointEnds
<1>3. FreshInv'
  BY DEF IInv, TypeOK, Safety, BoundaryHasBarrier, KnownOutcomeIsReleased,
     AcceptedMeansCheckpoint, RetiredIsOver, FreshInv, StepInv, CheckpointEnds
<1>4. StepInv'
  BY DEF IInv, TypeOK, Safety, BoundaryHasBarrier, KnownOutcomeIsReleased,
     AcceptedMeansCheckpoint, RetiredIsOver, FreshInv, StepInv, CheckpointEnds
<1>5. RegInv'
  BY DEF IInv, TypeOK, RegInv, Effective, CheckpointEnds
<1> QED
  BY <1>1, <1>2, <1>3, <1>4, <1>5 DEF IInv

\* Release preserves the inductive invariant.
LEMMA ReleaseIInv ==
  ASSUME IInv, Release
  PROVE  IInv'
<1>1. TypeOK'
  <2>1. faults' = faults \/ Fault
    BY DEF Release, PutContinuityOperationReport
  <2>2. faults' \in Nat
    BY <2>1, FaultType DEF IInv, TypeOK
  <2> QED
    BY <2>2 DEF IInv, TypeOK, Release, PutContinuityOperationReport
<1>2. Safety'
  BY DEF IInv, TypeOK, Safety, BoundaryHasBarrier, KnownOutcomeIsReleased,
     AcceptedMeansCheckpoint, RetiredIsOver, FreshInv, StepInv, Release,
     PutContinuityOperationReport
<1>3. FreshInv'
  BY DEF IInv, TypeOK, Safety, BoundaryHasBarrier, KnownOutcomeIsReleased,
     AcceptedMeansCheckpoint, RetiredIsOver, FreshInv, StepInv, Release,
     PutContinuityOperationReport
<1>4. StepInv'
  BY DEF IInv, TypeOK, Safety, BoundaryHasBarrier, KnownOutcomeIsReleased,
     AcceptedMeansCheckpoint, RetiredIsOver, FreshInv, StepInv, Release,
     PutContinuityOperationReport
<1>5. RegInv'
  BY DEF IInv, TypeOK, RegInv, Effective, Release, PutContinuityOperationReport
<1> QED
  BY <1>1, <1>2, <1>3, <1>4, <1>5 DEF IInv

\* Unbar preserves the inductive invariant.
LEMMA UnbarIInv ==
  ASSUME IInv, Unbar
  PROVE  IInv'
<1>1. TypeOK'
  <2>1. faults' = faults \/ Fault
    BY DEF Unbar, DeleteContinuityBarrier
  <2>2. faults' \in Nat
    BY <2>1, FaultType DEF IInv, TypeOK
  <2> QED
    BY <2>2 DEF IInv, TypeOK, Unbar, DeleteContinuityBarrier
<1>2. Safety'
  BY DEF IInv, TypeOK, Safety, BoundaryHasBarrier, KnownOutcomeIsReleased,
     AcceptedMeansCheckpoint, RetiredIsOver, FreshInv, StepInv, Unbar,
     DeleteContinuityBarrier
<1>3. FreshInv'
  BY DEF IInv, TypeOK, Safety, BoundaryHasBarrier, KnownOutcomeIsReleased,
     AcceptedMeansCheckpoint, RetiredIsOver, FreshInv, StepInv, Unbar,
     DeleteContinuityBarrier
<1>4. StepInv'
  BY DEF IInv, TypeOK, Safety, BoundaryHasBarrier, KnownOutcomeIsReleased,
     AcceptedMeansCheckpoint, RetiredIsOver, FreshInv, StepInv, Unbar,
     DeleteContinuityBarrier
<1>5. RegInv'
  BY DEF IInv, TypeOK, RegInv, Effective, Unbar, DeleteContinuityBarrier
<1> QED
  BY <1>1, <1>2, <1>3, <1>4, <1>5 DEF IInv

\* Final preserves the inductive invariant.
LEMMA FinalIInv ==
  ASSUME IInv, Final
  PROVE  IInv'
<1>1. TypeOK'
  <2>1. faults' = faults \/ Fault
    BY DEF Final, ReportThen, PutContinuityOperationReport
  <2>2. faults' \in Nat
    BY <2>1, FaultType DEF IInv, TypeOK
  <2> QED
    BY <2>2 DEF IInv, TypeOK, Final, ReportThen, PutContinuityOperationReport
<1>2. Safety'
  BY DEF IInv, TypeOK, Safety, BoundaryHasBarrier, KnownOutcomeIsReleased,
     AcceptedMeansCheckpoint, RetiredIsOver, FreshInv, StepInv, Final, ReportThen,
     PutContinuityOperationReport
<1>3. FreshInv'
  BY DEF IInv, TypeOK, Safety, BoundaryHasBarrier, KnownOutcomeIsReleased,
     AcceptedMeansCheckpoint, RetiredIsOver, FreshInv, StepInv, Final, ReportThen,
     PutContinuityOperationReport
<1>4. StepInv'
  BY DEF IInv, TypeOK, Safety, BoundaryHasBarrier, KnownOutcomeIsReleased,
     AcceptedMeansCheckpoint, RetiredIsOver, FreshInv, StepInv, Final, ReportThen,
     PutContinuityOperationReport
<1>5. RegInv'
  BY DEF IInv, TypeOK, RegInv, Effective, Final, ReportThen, PutContinuityOperationReport
<1> QED
  BY <1>1, <1>2, <1>3, <1>4, <1>5 DEF IInv

\* Report preserves the inductive invariant.
LEMMA ReportIInv ==
  ASSUME IInv, Report
  PROVE  IInv'
<1>1. TypeOK'
  <2>1. faults' = faults \/ Fault
    BY DEF Report
  <2>2. faults' \in Nat
    BY <2>1, FaultType DEF IInv, TypeOK
  <2> QED
    BY <2>2 DEF IInv, TypeOK, Report
<1>2. Safety'
  BY DEF IInv, TypeOK, Safety, BoundaryHasBarrier, KnownOutcomeIsReleased,
     AcceptedMeansCheckpoint, RetiredIsOver, FreshInv, StepInv, Report
<1>3. FreshInv'
  BY DEF IInv, TypeOK, Safety, BoundaryHasBarrier, KnownOutcomeIsReleased,
     AcceptedMeansCheckpoint, RetiredIsOver, FreshInv, StepInv, Report
<1>4. StepInv'
  BY DEF IInv, TypeOK, Safety, BoundaryHasBarrier, KnownOutcomeIsReleased,
     AcceptedMeansCheckpoint, RetiredIsOver, FreshInv, StepInv, Report
<1>5. RegInv'
  BY DEF IInv, TypeOK, RegInv, Effective, Report
<1> QED
  BY <1>1, <1>2, <1>3, <1>4, <1>5 DEF IInv

\* Crash preserves the inductive invariant.
LEMMA CrashIInv ==
  ASSUME IInv, Crash
  PROVE  IInv'
<1>1. TypeOK'
  <2>1. faults' = faults \/ Fault
    BY DEF Crash
  <2>2. faults' \in Nat
    BY <2>1, FaultType DEF IInv, TypeOK
  <2> QED
    BY <2>2 DEF IInv, TypeOK, Crash
<1>2. Safety'
  BY DEF IInv, TypeOK, Safety, BoundaryHasBarrier, KnownOutcomeIsReleased,
     AcceptedMeansCheckpoint, RetiredIsOver, FreshInv, StepInv, Crash
<1>3. FreshInv'
  BY DEF IInv, TypeOK, Safety, BoundaryHasBarrier, KnownOutcomeIsReleased,
     AcceptedMeansCheckpoint, RetiredIsOver, FreshInv, StepInv, Crash
<1>4. StepInv'
  BY DEF IInv, TypeOK, Safety, BoundaryHasBarrier, KnownOutcomeIsReleased,
     AcceptedMeansCheckpoint, RetiredIsOver, FreshInv, StepInv, Crash
<1>5. RegInv'
  BY DEF IInv, TypeOK, RegInv, Effective, Crash
<1> QED
  BY <1>1, <1>2, <1>3, <1>4, <1>5 DEF IInv

\* Restart preserves the inductive invariant.
LEMMA RestartIInv ==
  ASSUME IInv, Restart
  PROVE  IInv'
<1>1. TypeOK'
  BY DEF IInv, TypeOK, Restart
<1>2. Safety'
  BY DEF IInv, TypeOK, Safety, BoundaryHasBarrier, KnownOutcomeIsReleased,
     AcceptedMeansCheckpoint, RetiredIsOver, FreshInv, StepInv, Restart
<1>3. FreshInv'
  BY DEF IInv, TypeOK, Safety, BoundaryHasBarrier, KnownOutcomeIsReleased,
     AcceptedMeansCheckpoint, RetiredIsOver, FreshInv, StepInv, Restart
<1>4. StepInv'
  BY DEF IInv, TypeOK, Safety, BoundaryHasBarrier, KnownOutcomeIsReleased,
     AcceptedMeansCheckpoint, RetiredIsOver, FreshInv, StepInv, Restart
<1>5. RegInv'
  BY DEF IInv, TypeOK, RegInv, Effective, Restart
<1> QED
  BY <1>1, <1>2, <1>3, <1>4, <1>5 DEF IInv

\* Issue preserves the inductive invariant.
LEMMA IssueIInv ==
  ASSUME IInv, NEW x \in Ops, Issue(x)
  PROVE  IInv'
<1>1. TypeOK'
  BY DEF IInv, TypeOK, Issue
<1>2. Safety'
  BY DEF IInv, TypeOK, Safety, BoundaryHasBarrier, KnownOutcomeIsReleased,
     AcceptedMeansCheckpoint, RetiredIsOver, FreshInv, StepInv, Issue
<1>3. FreshInv'
  BY DEF IInv, TypeOK, Safety, BoundaryHasBarrier, KnownOutcomeIsReleased,
     AcceptedMeansCheckpoint, RetiredIsOver, FreshInv, StepInv, Issue
<1>4. StepInv'
  BY DEF IInv, TypeOK, Safety, BoundaryHasBarrier, KnownOutcomeIsReleased,
     AcceptedMeansCheckpoint, RetiredIsOver, FreshInv, StepInv, Issue
<1>5. RegInv'
  BY DEF IInv, TypeOK, RegInv, Effective, Issue
<1> QED
  BY <1>1, <1>2, <1>3, <1>4, <1>5 DEF IInv

\* Drop preserves the inductive invariant.
LEMMA DropIInv ==
  ASSUME IInv, NEW x \in Ops, Drop(x)
  PROVE  IInv'
<1>1. TypeOK'
  BY DEF IInv, TypeOK, Drop
<1>2. Safety'
  BY DEF IInv, TypeOK, Safety, BoundaryHasBarrier, KnownOutcomeIsReleased,
     AcceptedMeansCheckpoint, RetiredIsOver, FreshInv, StepInv, Drop
<1>3. FreshInv'
  BY DEF IInv, TypeOK, Safety, BoundaryHasBarrier, KnownOutcomeIsReleased,
     AcceptedMeansCheckpoint, RetiredIsOver, FreshInv, StepInv, Drop
<1>4. StepInv'
  BY DEF IInv, TypeOK, Safety, BoundaryHasBarrier, KnownOutcomeIsReleased,
     AcceptedMeansCheckpoint, RetiredIsOver, FreshInv, StepInv, Drop
<1>5. RegInv'
  BY DEF IInv, TypeOK, RegInv, Effective, Drop
<1> QED
  BY <1>1, <1>2, <1>3, <1>4, <1>5 DEF IInv

\* Relist preserves the inductive invariant.
LEMMA RelistIInv ==
  ASSUME IInv, NEW x \in Ops, Relist(x)
  PROVE  IInv'
<1>1. TypeOK'
  <2>1. moves' = moves \/ Move
    BY DEF Relist
  <2>2. moves' \in Nat
    BY <2>1, MoveType DEF IInv, TypeOK
  <2> QED
    BY <2>2 DEF IInv, TypeOK, Relist
<1>2. Safety'
  BY DEF IInv, TypeOK, Safety, BoundaryHasBarrier, KnownOutcomeIsReleased,
     AcceptedMeansCheckpoint, RetiredIsOver, FreshInv, StepInv, Relist
<1>3. FreshInv'
  BY DEF IInv, TypeOK, Safety, BoundaryHasBarrier, KnownOutcomeIsReleased,
     AcceptedMeansCheckpoint, RetiredIsOver, FreshInv, StepInv, Relist
<1>4. StepInv'
  BY DEF IInv, TypeOK, Safety, BoundaryHasBarrier, KnownOutcomeIsReleased,
     AcceptedMeansCheckpoint, RetiredIsOver, FreshInv, StepInv, Relist
<1>5. RegInv'
  BY DEF IInv, TypeOK, RegInv, Effective, Relist
<1> QED
  BY <1>1, <1>2, <1>3, <1>4, <1>5 DEF IInv

\* Rebind preserves the inductive invariant.
LEMMA RebindIInv ==
  ASSUME IInv, Rebind
  PROVE  IInv'
<1>1. TypeOK'
  <2>1. moves' = moves \/ Move
    BY DEF Rebind
  <2>2. moves' \in Nat
    BY <2>1, MoveType DEF IInv, TypeOK
  <2>3. wantRev' \in Nat
    BY DEF IInv, TypeOK, Rebind
  <2>4. wantOn' \in BOOLEAN
    BY Zenon DEF Rebind
  <2> QED
    BY <2>2, <2>3, <2>4 DEF IInv, TypeOK, Rebind
<1>2. Safety'
  BY DEF IInv, TypeOK, Safety, BoundaryHasBarrier, KnownOutcomeIsReleased,
     AcceptedMeansCheckpoint, RetiredIsOver, FreshInv, StepInv, Rebind
<1>3. FreshInv'
  BY DEF IInv, TypeOK, Safety, BoundaryHasBarrier, KnownOutcomeIsReleased,
     AcceptedMeansCheckpoint, RetiredIsOver, FreshInv, StepInv, Rebind
<1>4. StepInv'
  BY DEF IInv, TypeOK, Safety, BoundaryHasBarrier, KnownOutcomeIsReleased,
     AcceptedMeansCheckpoint, RetiredIsOver, FreshInv, StepInv, Rebind
<1>5. RegInv'
  BY DEF IInv, TypeOK, RegInv, Effective, Rebind
<1> QED
  BY <1>1, <1>2, <1>3, <1>4, <1>5 DEF IInv

\* SourceMoves preserves the inductive invariant.
LEMMA SourceMovesIInv ==
  ASSUME IInv, SourceMoves
  PROVE  IInv'
<1>1. TypeOK'
  <2>1. moves' = moves \/ Move
    BY DEF SourceMoves
  <2>2. moves' \in Nat
    BY <2>1, MoveType DEF IInv, TypeOK
  <2> QED
    BY <2>2 DEF IInv, TypeOK, SourceMoves
<1>2. Safety'
  BY DEF IInv, TypeOK, Safety, BoundaryHasBarrier, KnownOutcomeIsReleased,
     AcceptedMeansCheckpoint, RetiredIsOver, FreshInv, StepInv, SourceMoves
<1>3. FreshInv'
  BY DEF IInv, TypeOK, Safety, BoundaryHasBarrier, KnownOutcomeIsReleased,
     AcceptedMeansCheckpoint, RetiredIsOver, FreshInv, StepInv, SourceMoves
<1>4. StepInv'
  BY DEF IInv, TypeOK, Safety, BoundaryHasBarrier, KnownOutcomeIsReleased,
     AcceptedMeansCheckpoint, RetiredIsOver, FreshInv, StepInv, SourceMoves
<1>5. RegInv'
  BY DEF IInv, TypeOK, RegInv, Effective, SourceMoves
<1> QED
  BY <1>1, <1>2, <1>3, <1>4, <1>5 DEF IInv

LEMMA StutterIInv ==
  ASSUME IInv, UNCHANGED vars
  PROVE  IInv'
<1>1. TypeOK'
  BY DEF IInv, TypeOK, vars
<1>2. Safety' /\ FreshInv'
  BY DEF IInv, Safety, FreshInv, BoundaryHasBarrier, KnownOutcomeIsReleased,
     AcceptedMeansCheckpoint, RetiredIsOver, vars
<1>3. StepInv'
  BY DEF IInv, StepInv, vars
<1>4. RegInv'
  BY DEF IInv, RegInv, Effective, vars
<1> QED
  BY <1>1, <1>2, <1>3, <1>4 DEF IInv

LEMMA NextIInv == IInv /\ [Next]_vars => IInv'
<1> SUFFICES ASSUME IInv, [Next]_vars PROVE IInv'
  OBVIOUS
<1>1. CASE RecoverStep
  BY <1>1, FetchIInv, LocalSafetyIInv, ReleaseRecoveredIInv, UnbarRecoveredIInv,
     ReportRecoveredIInv, RecoverDoneIInv, RegisterIInv, RetireIInv, ReconcileIInv DEF
     RecoverStep
<1>2. CASE ApplyStep
  BY <1>2, BeginIInv, ApplyDoneIInv, ApplyingIInv, AcquireIInv, RefuseIInv, ReceiptIInv,
     CaptureIInv, CaptureEndsIInv, CheckpointIInv, CheckpointEndsIInv, ReleaseIInv,
     UnbarIInv, FinalIInv DEF ApplyStep
<1>3. CASE Report \/ Restart \/ Crash
  BY <1>3, ReportIInv, RestartIInv, CrashIInv
<1>4. CASE ControlPlane \/ SourceMoves
  BY <1>4, RebindIInv, IssueIInv, DropIInv, RelistIInv, SourceMovesIInv DEF ControlPlane
<1>5. CASE UNCHANGED vars
  BY <1>5, StutterIInv
<1> QED
  BY <1>1, <1>2, <1>3, <1>4, <1>5 DEF Next, Daemon

\* The inductive invariant holds in every reachable state.
THEOREM Invariance == Spec => []IInv
  BY InitIInv, NextIInv, PTL DEF Spec

-----------------------------------------------------------------------------
\* Every variable keeps its type.
THEOREM TypeCorrect == Spec => []TypeOK
<1>1. IInv => TypeOK
  BY DEF IInv
<1> QED
  BY Invariance, <1>1, PTL

\* Whatever crashes or goes unanswered, a boundary the helper holds has a
\* durable barrier row (coordinator.go:346-353, 396-402).
THEOREM HeldBoundaryHasBarrier == Spec => []BoundaryHasBarrier
<1>1. IInv => BoundaryHasBarrier
  BY DEF IInv, Safety
<1> QED
  BY Invariance, <1>1, PTL

\* A report accepted or failed is only ever written for a boundary that is free
\* (coordinator.go:369-412).
THEOREM KnownOutcomeReleased == Spec => []KnownOutcomeIsReleased
<1>1. IInv => KnownOutcomeIsReleased
  BY DEF IInv, Safety
<1> QED
  BY Invariance, <1>1, PTL

\* An operation reported accepted, or known as accepted to the control plane,
\* has an accepted checkpoint (coordinator.go:405-412).
THEOREM AcceptedIsCheckpointed == Spec => []AcceptedMeansCheckpoint
<1>1. IInv => AcceptedMeansCheckpoint
  BY DEF IInv, Safety
<1> QED
  BY Invariance, <1>1, PTL

\* A retired operation has no report, no barrier, no boundary and no live local
\* operation, and stays so (coordinator.go:190-203, 308-327).
THEOREM RetiredStaysOver == Spec => []RetiredIsOver
<1>1. IInv => RetiredIsOver
  BY DEF IInv, Safety
<1> QED
  BY Invariance, <1>1, PTL

\* A step that acquires a boundary finds it free: applyOperation runs an
\* operation at most once (coordinator.go:308-327).
LEMMA ReleasedStep ==
    ASSUME IInv, [Next]_vars, NEW o \in Ops, helper[o] = "released"
    PROVE  helper'[o] = "released"
<1>1. CASE ReleaseRecovered \/ Release
  BY <1>1 DEF IInv, TypeOK, ReleaseRecovered, Release
<1>2. CASE Acquire
  BY <1>2 DEF IInv, TypeOK, StepInv, Acquire
<1>3. CASE UNCHANGED helper
  BY <1>3
<1> QED
  BY <1>1, <1>2, <1>3 DEF Next, Daemon, RecoverStep, ApplyStep, ControlPlane, vars, Fetch,
     LocalSafety, Reconcile, UnbarRecovered, ReportRecovered, RecoverDone, Register, Retire,
     Begin, ApplyDone, Applying, Refuse, Receipt, Capture, CaptureEnds, Checkpoint,
     CheckpointEnds, Unbar, Final, Report, Crash, Restart, Issue, Drop, Relist, Rebind,
     SourceMoves

\* A boundary that was released is never acquired again.
THEOREM ReleasedForGood == Spec => ReleasedIsFinal
<1>1. IInv /\ [Next]_vars =>
          [\A o \in Ops : helper[o] = "released" => helper'[o] = "released"]_vars
  BY ReleasedStep
<1> QED
  BY Invariance, <1>1, PTL DEF Spec, ReleasedIsFinal

\* Only a manifest with a newer revision, or a changed activity, of the binding
\* writes the registration row (coordinator.go:110-152).
LEMMA RegistrationStep ==
    ASSUME IInv, [Next]_vars
    PROVE  /\ reg'.rev >= reg.rev
           /\ reg'.rev = reg.rev /\ reg'.on = reg.on => reg' = reg
<1>1. CASE Register
  <2>1. reg' = reg \/ (reg'.rev = Effective /\ reg'.on = manOn
                       /\ ~(reg.status # "none" /\ reg.rev = Effective /\ reg.on = manOn))
    BY <1>1 DEF Register, ApplyRegistrationMetadata
  <2> QED
    BY <2>1 DEF IInv, TypeOK, RegInv
<1>2. CASE UNCHANGED reg
  BY <1>2 DEF IInv, TypeOK
<1> QED
  BY <1>1, <1>2 DEF Next, Daemon, RecoverStep, ApplyStep, ControlPlane, vars, Fetch,
     LocalSafety, Reconcile, ReleaseRecovered, UnbarRecovered, ReportRecovered, RecoverDone,
     Retire, Begin, ApplyDone, Applying, Acquire, Refuse, Receipt, Capture, CaptureEnds,
     Checkpoint, CheckpointEnds, Release, Unbar, Final, Report, Crash, Restart, Issue, Drop,
     Relist, Rebind, SourceMoves

\* A registration's receipt is immutable until the registration changes, and a
\* registration never goes back to its predecessor.
THEOREM RegistrationStable == Spec => RegistrationIsStable
<1>1. IInv /\ [Next]_vars =>
          [/\ reg'.rev >= reg.rev
           /\ reg'.rev = reg.rev /\ reg'.on = reg.on => reg' = reg]_vars
  BY RegistrationStep
<1> QED
  BY Invariance, <1>1, PTL DEF Spec, RegistrationIsStable

\* What the outbox reports and what is retired is so, in every interleaving of
\* crashes, lost answers and control plane moves.
THEOREM ReportsTrue == Spec => []ReportIsTrue
<1>1. IInv => ReportIsTrue
  BY DEF IInv, Safety, ReportIsTrue
<1> QED
  BY Invariance, <1>1, PTL

\* No step takes a release or a registration back.
THEOREM NothingReverted == Spec => NothingReverts
<1> QED
  BY ReleasedForGood, RegistrationStable, PTL DEF NothingReverts

-----------------------------------------------------------------------------
(***************************************************************************)
(* The manager coordinator and the insights collector.                     *)
(***************************************************************************)
(* Where the pass is, and what the rows in its hands are.                   *)
Mine(p) == CASE p \in {"resv", "adm"} -> {b \in Batches : intent[b] # None}
             [] p \in {"runs", "disp", "adv"} -> {r \in Runs : run[r] # None}
             [] p = "guid" -> {r \in Runs : run[r] # None /\ run[r].att}
             [] p = "holds" -> {op \in TakeoverOps : hold[op] # None}
             [] p = "tko" -> ListedTakeovers
             [] p = "outbox" -> Batches
             [] OTHER -> {}

PlaceInv ==
    /\ place \in Calls => ret \in {"resv", "runs", "adv", "adm", "listed", "disp"}
    /\ place \in TakeoverOps => ret = "tko"
    /\ place \in Places => ret = place
DutyInv == duties \subseteq Mine(ret)
HandInv ==
    /\ place \in TakeoverOps => hold[place] # None
    /\ place \in Calls => run[inhand] # None
    /\ place = "ack" => run[inhand].phase = "start_ack_pending"
    /\ place = "go" =>
         /\ run[inhand].phase = "execution_unknown"
         /\ hlp[inhand].starts = 0 /\ acked[inhand] # "none"
    /\ place = "sub" => run[inhand].phase = "report_pending"
    /\ place = "steer" =>
         /\ run[inhand].att /\ run[inhand].guid = None /\ hlp[inhand].steers = 0
         /\ pol.mode = "auto_steer"
    /\ place = "adm0" => fnd # None
    /\ place = "revw" => manual # None

(* What the row of a run, the helper and the acknowledged state of the run  *)
(* say of each other.                                                       *)
Agree(row, h, ack) ==
    /\ h.starts <= 1 /\ h.steers <= 1
    /\ h.starts = 1 => ack # "none"
    /\ h.steers = 0 => h.guid = "none"
    /\ row = None => h.starts = 0 /\ h.steers = 0
    /\ row # None =>
         /\ row.phase = "start_ack_pending" => h.starts = 0
         /\ row.rep = "zero" => h.starts = 0
         /\ row.rep # None <=> row.phase \in TerminalPhases \cup {"report_pending"}
         /\ ~row.att => h.steers = 0 /\ row.guid = None
         /\ row.guid = "pending" => h.guid # "none"
         /\ row.guid \in FinalGuidance => h.guid \in FinalGuidance
RunInv == \A r \in Runs : Agree(run[r], hlp[r], acked[r])

(* Reservations, anchors and the batches still to be sent.                  *)
AnchorInv ==
    /\ \A b \in Batches : intent[b] # None => fnd # None /\ b <= fnd.anchor.b
    /\ fnd # None => fnd.anchor.b <= built /\ fnd.rev <= mon.rev
OrderInv ==
    \A y \in outbox :
        /\ y.b <= built
        /\ fnd # None /\ y.rev > fnd.rev => y.b > fnd.anchor.b
        /\ \A z \in outbox : y.rev > 0 /\ z.rev > y.rev => z.b > y.b

(* The cursor, the batches and what was observed.                           *)
CursorInv ==
    /\ cursor.seq <= mon.rev /\ CursorIsObserved
    /\ \A y \in outbox :
         /\ y.rev <= mon.rev /\ y.seq <= mon.rev
         /\ y.rev > 0 => y.seq = y.rev /\ (WasOpen(y.rev) => y.open)
         /\ y.rev = 0 /\ WasOpen(y.seq) => fnd # None /\ fnd.rev >= y.seq

MInv == ManagerTypeOK /\ PlaceInv /\ DutyInv /\ HandInv /\ RunInv /\ OffIsSettled
        /\ OneAttemptPerEpisode /\ AnchorInv /\ OrderInv /\ CursorInv

USE DEF control, world, tables, pass

(* The bounds, one by one.                                                  *)
LEMMA ManagerBounds ==
  MaxFindingRev \in Nat \ {0} /\ MaxBatches \in Nat \ {0} /\ MaxPolicy \in Nat \ {0} /\ MaxManagerFaults \in Nat
BY BoundsAssumption

(* What the rows of a phase are, and that the pass is at the phase itself.  *)
LEMMA InDuties ==
  ASSUME MInv
  PROVE  /\ place \notin {"ack", "go", "sub", "steer", "pause", "resume"} => ret = place
         /\ place \in {"resv", "adm"} =>
              /\ ret = place
              /\ \A b \in duties : b \in Batches /\ b \in Runs /\ intent[b] # None /\ intent[b] \in Intents
         /\ place \in {"runs", "guid", "disp", "adv"} =>
              /\ ret = place
              /\ \A r \in duties : r \in Runs /\ run[r] # None /\ run[r] \in RunRows
         /\ place = "guid" => \A r \in duties : run[r].att
         /\ place = "holds" =>
              \A op \in duties : op \in {"pause", "resume"} /\ hold[op] # None /\ hold[op] \in Holds
         /\ place = "tko" =>
              \A op \in duties : op \in {"pause", "resume"} /\ owner[op] # None /\ owner[op] \in Requests
         /\ place = "outbox" => duties \subseteq Batches /\ duties \subseteq Runs
<1>1. Batches \subseteq Runs
  BY ManagerBounds DEF Batches, Runs
<1>2. place \notin {"ack", "go", "sub", "steer", "pause", "resume"} => ret = place
  <2>1. place \in Places \cup Calls \cup TakeoverOps
    BY DEF MInv, ManagerTypeOK
  <2> QED BY <2>1 DEF MInv, PlaceInv, Calls, TakeoverOps
<1>3. place \in {"resv", "adm"} => ret = place /\ \A b \in duties : b \in Batches /\ intent[b] # None
  BY <1>2 DEF MInv, DutyInv, Mine
<1>4. place \in {"runs", "guid", "disp", "adv"} => ret = place /\ \A r \in duties : r \in Runs /\ run[r] # None
  BY <1>2 DEF MInv, DutyInv, Mine
<1>5. place = "holds" => \A op \in duties : op \in {"pause", "resume"} /\ hold[op] # None
  BY <1>2 DEF MInv, DutyInv, Mine, TakeoverOps
<1>6. place = "tko" => \A op \in duties : op \in {"pause", "resume"} /\ owner[op] # None
  BY <1>2 DEF MInv, DutyInv, Mine, ListedTakeovers, TakeoverOps
<1>7. /\ intent \in [Batches -> Optional(Intents)] /\ run \in [Runs -> Optional(RunRows)]
      /\ hold \in [TakeoverOps -> Optional(Holds)] /\ owner \in [TakeoverOps -> Optional(Requests)]
  BY DEF MInv, ManagerTypeOK
<1>8. place = "outbox" => duties \subseteq Batches
  BY <1>2 DEF MInv, DutyInv, Mine
<1>9. place = "guid" => \A r \in duties : run[r].att
  BY <1>2 DEF MInv, DutyInv, Mine
<1> QED BY <1>1, <1>2, <1>3, <1>4, <1>5, <1>6, <1>7, <1>8, <1>9 DEF Optional, TakeoverOps

(* The run or the takeover in hand at a call.                               *)
LEMMA InHands ==
  ASSUME MInv
  PROVE  /\ inhand \in Runs
         /\ place \in {"ack", "go", "sub", "steer"} =>
              /\ run[inhand] # None /\ run[inhand] \in RunRows
              /\ ret \in {"resv", "runs", "adv", "adm", "listed", "disp"}
         /\ place \in {"pause", "resume"} => ret = "tko" /\ hold[place] # None /\ hold[place] \in Holds
<1>1. /\ inhand \in Runs /\ run \in [Runs -> Optional(RunRows)]
      /\ hold \in [TakeoverOps -> Optional(Holds)]
  BY DEF MInv, ManagerTypeOK
<1> QED BY <1>1 DEF MInv, PlaceInv, HandInv, Optional, Calls, TakeoverOps

(* A run about to be reported has a report.                                 *)
LEMMA ReportIs ==
  ASSUME MInv, NEW r \in Runs, run[r] # None, run[r].phase = "report_pending"
  PROVE  run[r].rep # None /\ run[r].rep \in RunReports
<1>1. run[r] \in RunRows
  BY DEF MInv, ManagerTypeOK, Optional
<1>2. run[r].rep # None
  BY DEF MInv, RunInv, Agree
<1> QED BY <1>1, <1>2 DEF RunRows, Optional

(* A row is not the absent one.                                             *)
LEMMA Present ==
  /\ \A x \in RunRows : x # None
  /\ \A x \in Intents : x # None
  /\ \A x \in Holds : x # None
  /\ \A x \in Findings : x # None
  /\ \A x \in RunReports : x # None
BY NoRow

(* What the steps make of a run's row is a row.                             *)
LEMMA RowSteps ==
  ASSUME MInv, NEW r \in Runs, run[r] # None
  PROVE  /\ run[r] \in RunRows
         /\ \A p \in {"start_ack_pending", "execution_unknown", "reviewing", "report_pending",
                     "recommended", "failed"} :
              /\ [run[r] EXCEPT !.phase = p] \in RunRows
              /\ \A q \in RunReports : [run[r] EXCEPT !.phase = p, !.rep = q] \in RunRows
         /\ \A g \in {"available", "cancelled", "refused", "pending", "unknown"} :
              [run[r] EXCEPT !.guid = g] \in RunRows
         /\ [run[r] EXCEPT !.att = TRUE] \in RunRows
         /\ \A b \in BOOLEAN : [run[r] EXCEPT !.lease = b] \in RunRows
<1>1. run[r] \in RunRows
  BY DEF MInv, ManagerTypeOK, Optional
<1>2. ASSUME NEW p \in {"start_ack_pending", "execution_unknown", "reviewing", "report_pending",
                       "recommended", "failed"}
      PROVE  /\ [run[r] EXCEPT !.phase = p] \in RunRows
             /\ \A q \in RunReports : [run[r] EXCEPT !.phase = p, !.rep = q] \in RunRows
  BY <1>1 DEF RunRows, Optional, Running, TerminalPhases
<1>3. ASSUME NEW g \in {"available", "cancelled", "refused", "pending", "unknown"}
      PROVE  [run[r] EXCEPT !.guid = g] \in RunRows
  BY <1>1 DEF RunRows, Optional, FinalGuidance
<1>4. [run[r] EXCEPT !.att = TRUE] \in RunRows
  BY <1>1 DEF RunRows
<1>5. ASSUME NEW b \in BOOLEAN PROVE [run[r] EXCEPT !.lease = b] \in RunRows
  BY <1>1 DEF RunRows
<1> QED BY <1>1, <1>2, <1>3, <1>4, <1>5

(* The table of the runs after a step that writes one row.                  *)
LEMMA RunTable ==
  ASSUME MInv, NEW r \in Runs, NEW x \in RunRows, run' = [run EXCEPT ![r] = x]
  PROVE  /\ run' \in [Runs -> Optional(RunRows)] /\ run'[r] = x /\ x # None
         /\ \A q \in Runs : q # r => run'[q] = run[q]
         /\ \A q \in Runs : run[q] # None => run'[q] # None
<1>1. run \in [Runs -> Optional(RunRows)]
  BY DEF MInv, ManagerTypeOK
<1> QED BY <1>1, Present DEF Optional

(* A table that keeps its row is the table.                                 *)
LEMMA SameRow ==
  ASSUME MInv, NEW r \in Runs
  PROVE  run = [run EXCEPT ![r] = run[r]]
<1>1. run \in [Runs -> Optional(RunRows)]
  BY DEF MInv, ManagerTypeOK
<1> QED BY <1>1

(* What the steps make of the helper's view of a run.                       *)
LEMMA HelperSteps ==
  ASSUME MInv, NEW r \in Runs
  PROVE  /\ \A s \in TerminalPhases \cup {"running"} :
              /\ [hlp EXCEPT ![r].starts = @ + 1, ![r].st = s] \in [Runs -> HelperRuns]
              /\ [hlp EXCEPT ![r].st = s] \in [Runs -> HelperRuns]
              /\ [hlp EXCEPT ![r].st = s, ![r].more = {}] \in [Runs -> HelperRuns]
         /\ \A g \in FinalGuidance \cup {"pending"} :
              /\ [hlp EXCEPT ![r].steers = @ + 1, ![r].guid = g] \in [Runs -> HelperRuns]
              /\ [hlp EXCEPT ![r].guid = g] \in [Runs -> HelperRuns]
         /\ \A p \in {"runs", "adv"} : [hlp EXCEPT ![r].more = @ \cup {p}] \in [Runs -> HelperRuns]
<1>1. hlp \in [Runs -> HelperRuns] /\ hlp[r] \in HelperRuns
  BY DEF MInv, ManagerTypeOK
<1>2. \A x \in HelperRuns : [hlp EXCEPT ![r] = x] \in [Runs -> HelperRuns]
  BY <1>1
<1>3. hlp[r].starts + 1 \in Nat /\ hlp[r].steers + 1 \in Nat
  <2>1. hlp[r].starts \in Nat /\ hlp[r].steers \in Nat
    BY <1>1 DEF HelperRuns
  <2> QED BY <2>1
<1>4. /\ \A n \in Nat, s \in TerminalPhases \cup {"running"} :
           [hlp[r] EXCEPT !.starts = n, !.st = s] \in HelperRuns
      /\ \A s \in TerminalPhases \cup {"running"} : [hlp[r] EXCEPT !.st = s] \in HelperRuns
      /\ \A n \in Nat, g \in FinalGuidance \cup {"pending"} :
           [hlp[r] EXCEPT !.steers = n, !.guid = g] \in HelperRuns
      /\ \A g \in FinalGuidance \cup {"pending"} : [hlp[r] EXCEPT !.guid = g] \in HelperRuns
      /\ \A s \in TerminalPhases \cup {"running"} : [hlp[r] EXCEPT !.st = s, !.more = {}] \in HelperRuns
      /\ \A p \in {"runs", "adv"} : [hlp[r] EXCEPT !.more = hlp[r].more \cup {p}] \in HelperRuns
  BY <1>1 DEF HelperRuns
<1>5. ASSUME NEW s
      PROVE  /\ [hlp EXCEPT ![r].starts = @ + 1, ![r].st = s]
                   = [hlp EXCEPT ![r] = [hlp[r] EXCEPT !.starts = hlp[r].starts + 1, !.st = s]]
             /\ [hlp EXCEPT ![r].steers = @ + 1, ![r].guid = s]
                   = [hlp EXCEPT ![r] = [hlp[r] EXCEPT !.steers = hlp[r].steers + 1, !.guid = s]]
             /\ [hlp EXCEPT ![r].st = s] = [hlp EXCEPT ![r] = [hlp[r] EXCEPT !.st = s]]
             /\ [hlp EXCEPT ![r].guid = s] = [hlp EXCEPT ![r] = [hlp[r] EXCEPT !.guid = s]]
             /\ [hlp EXCEPT ![r].st = s, ![r].more = {}] = [hlp EXCEPT ![r] = [hlp[r] EXCEPT !.st = s, !.more = {}]]
             /\ [hlp EXCEPT ![r].more = @ \cup {s}] = [hlp EXCEPT ![r] = [hlp[r] EXCEPT !.more = hlp[r].more \cup {s}]]
  BY <1>1
<1> QED BY <1>2, <1>3, <1>4, <1>5

(* The invariant of the runs after a step that touches one run only.        *)
LEMMA AgreesAfter ==
  ASSUME MInv, NEW r \in Runs,
         \A q \in Runs : q # r => run'[q] = run[q] /\ hlp'[q] = hlp[q] /\ acked'[q] = acked[q],
         Agree(run'[r], hlp'[r], acked'[r])
  PROVE  RunInv'
<1>1. \A q \in Runs : Agree(run[q], hlp[q], acked[q])
  BY DEF MInv, RunInv
<1>2. ASSUME NEW q \in Runs PROVE Agree(run'[q], hlp'[q], acked'[q])
  <2>1. CASE q = r
    BY <2>1
  <2>2. CASE q # r
    BY <1>1, <2>2
  <2> QED BY <2>1, <2>2
<1> QED BY <1>2 DEF RunInv

(* The rows a phase works off stay while they are worked off.               *)
LEMMA DutiesShrink ==
  ASSUME MInv,
         duties' = {} \/ (duties' \subseteq duties /\ ret' = ret),
         \A b \in Batches : intent[b] # None => intent'[b] # None,
         \A r \in Runs : run[r] # None => run'[r] # None,
         \A op \in TakeoverOps : hold[op] # None => hold'[op] # None,
         ret = "guid" => \A r \in Runs : run[r] # None /\ run[r].att => run'[r].att,
         ret = "tko" => owner' = owner
  PROVE  DutyInv'
<1>1. CASE duties' = {}
  BY <1>1 DEF DutyInv
<1>2. CASE duties' \subseteq duties /\ ret' = ret
  BY <1>2 DEF MInv, DutyInv, Mine, ListedTakeovers
<1> QED BY <1>1, <1>2

(* A new row is a row.                                                      *)
LEMMA RowIsTyped ==
  ASSUME NEW a \in Intents \cup Reviews,
         NEW phase \in {"start_ack_pending", "report_pending"}, NEW lease \in BOOLEAN,
         NEW auto \in BOOLEAN, NEW answer \in {None, "zero"}
  PROVE  Row(a, phase, lease, auto, answer) \in RunRows
<1>1. /\ a.rev \in 1..MaxFindingRev /\ a.prev \in 1..MaxPolicy /\ a.src \in Sources /\ a.task \in Tasks
  BY DEF Intents, Reviews
<1> QED BY <1>1 DEF Row, RunRows, Running, Optional, RunReports

(* The phase of an intent moves, the rest of it stays.                      *)
LEMMA IntentSteps ==
  ASSUME MInv, NEW b \in Batches, intent[b] # None, NEW p \in {"reserved", "unused", "applied"},
         intent' = [intent EXCEPT ![b].phase = p]
  PROVE  \A c \in Batches :
           /\ intent[c] = None <=> intent'[c] = None
           /\ intent[c] # None => intent'[c].rev = intent[c].rev /\ intent'[c].mode = intent[c].mode
<1>1. intent \in [Batches -> Optional(Intents)] /\ intent[b] \in Intents
  BY DEF MInv, ManagerTypeOK, Optional
<1> DEFINE x == [intent[b] EXCEPT !.phase = p]
<1>2. x \in Intents /\ x.rev = intent[b].rev /\ x.mode = intent[b].mode
  BY <1>1 DEF Intents
<1>3. intent' = [intent EXCEPT ![b] = x]
  OBVIOUS
<1> HIDE DEF x
<1> QED BY <1>1, <1>2, <1>3, Present

(* A phase of the recovery begins with rows it may work off.                *)
LEMMA PhaseDuties ==
  ASSUME MInv, NEW i \in 1..5, duties' = Due(RecoveryPhases[i]), ret' = RecoveryPhases[i],
         intent' = intent, run' = run,
         \A op \in TakeoverOps : hold[op] # None => hold'[op] # None
  PROVE  DutyInv'
<1>1. i \in {1, 2, 3, 4, 5}
  OBVIOUS
<1>2. CASE i = 1
  BY <1>2 DEF RecoveryPhases, Due, UnsettledIntents, DutyInv, Mine
<1>3. CASE i = 2
  BY <1>3 DEF RecoveryPhases, Due, UnsettledRuns, DutyInv, Mine
<1>4. CASE i = 3
  BY <1>4 DEF RecoveryPhases, Due, UnsettledHolds, DutyInv, Mine
<1>5. CASE i = 4
  BY <1>5 DEF RecoveryPhases, Due, GuidanceRows, DutyInv, Mine
<1>6. CASE i = 5
  BY <1>6 DEF RecoveryPhases, Due, DutyInv
<1> QED BY <1>1, <1>2, <1>3, <1>4, <1>5, <1>6

(* What an acknowledged batch makes of the anchor of the finding.           *)
LEMMA AnchorsTyped ==
  ASSUME MInv, NEW item \in Items, item.rev > 0, NEW bound \in BOOLEAN
  PROVE  /\ Anchor(item.b, item.rev, bound) \in Anchors /\ Anchor(item.b, item.rev, bound).b = item.b
         /\ fnd # None =>
              /\ Reanchor(item, bound) \in Anchors
              /\ \/ Reanchor(item, bound).b = fnd.anchor.b
                 \/ Reanchor(item, bound).b = item.b /\ item.rev # fnd.rev
<1>1. Anchor(item.b, item.rev, bound) \in Anchors /\ Anchor(item.b, item.rev, bound).b = item.b
  <2> DEFINE st == Anchor(item.b, item.rev, bound).st
  <2>1. st \in {"pending", "declined", "admitted"}
    BY DEF Anchor
  <2>2. Anchor(item.b, item.rev, bound)
          = [st |-> st, b |-> item.b, mode |-> pol.mode, prev |-> pol.rev, task |-> task]
    BY DEF Anchor
  <2>3. item.b \in Batches /\ pol.mode \in Modes /\ pol.rev \in 1..MaxPolicy /\ task \in Tasks
    BY DEF MInv, ManagerTypeOK, Items, Policies
  <2> HIDE DEF st
  <2> QED BY <2>1, <2>2, <2>3 DEF Anchors
<1>2. CASE fnd # None
  <2>1. fnd \in Findings /\ fnd.anchor \in Anchors
    BY <1>2 DEF MInv, ManagerTypeOK, Optional, Findings
  <2>2. [fnd.anchor EXCEPT !.st = "declined"] \in Anchors
        /\ [fnd.anchor EXCEPT !.st = "declined"].b = fnd.anchor.b
    BY <2>1 DEF Anchors
  <2>3. \/ Reanchor(item, bound) = [fnd.anchor EXCEPT !.st = "declined"]
        \/ Reanchor(item, bound) = fnd.anchor
        \/ Reanchor(item, bound) = Anchor(item.b, item.rev, bound) /\ item.rev # fnd.rev
    BY DEF Reanchor
  <2> QED BY <1>1, <2>1, <2>2, <2>3
<1> QED BY <1>1, <1>2

(* What a submitted batch makes of the finding and of the cursor.           *)
LEMMA FindingMoves ==
  ASSUME MInv, NEW item \in Items, NEW o \in CallOutcomes, NEW bound \in BOOLEAN,
         SubmitInsightBatch(item, o, bound), intent' = intent,
         item.rev <= mon.rev, item.seq <= mon.rev,
         item.rev > 0 => item.seq = item.rev /\ (WasOpen(item.rev) => item.open),
         item.rev = 0 /\ WasOpen(item.seq) => fnd # None /\ fnd.rev >= item.seq,
         fnd # None /\ item.rev > fnd.rev => item.b > fnd.anchor.b
  PROVE  /\ fnd' \in Optional(Findings) /\ known' \in 0..MaxFindingRev
         /\ cursor' \in [seq : 0..MaxFindingRev, irev : 0..2, on : BOOLEAN]
         /\ \A b \in Batches : intent'[b] # None => fnd' # None /\ b <= fnd'.anchor.b
         /\ fnd' # None =>
              /\ fnd'.rev <= mon.rev
              /\ fnd'.anchor.b <= built \/ (fnd'.anchor.b = item.b /\ fnd'.rev = item.rev)
         /\ fnd # None => fnd' # None /\ fnd'.rev >= fnd.rev
         /\ \A y \in outbox :
              (item.rev > 0 /\ y.rev > item.rev => y.b > item.b) =>
                 (fnd' # None /\ y.rev > fnd'.rev => y.b > fnd'.anchor.b)
         /\ cursor'.seq <= mon.rev
         /\ WasOpen(cursor'.seq) => fnd' # None /\ fnd'.rev >= cursor'.seq
<1>1. /\ fnd \in Optional(Findings) /\ known \in 0..MaxFindingRev /\ mon.rev \in 0..MaxFindingRev
      /\ cursor \in [seq : 0..MaxFindingRev, irev : 0..2, on : BOOLEAN] /\ built \in Nat
      /\ outbox \subseteq Items
  BY ManagerBounds DEF MInv, ManagerTypeOK
<1>2. /\ item.b \in Batches /\ item.irev \in 1..2 /\ item.on \in BOOLEAN /\ item.src \in Sources
      /\ item.seq \in 0..MaxFindingRev /\ item.rev \in 0..MaxFindingRev /\ item.open \in BOOLEAN
  BY DEF Items
<1>3. fnd # None =>
        /\ fnd \in Findings /\ fnd.anchor.b \in Nat /\ fnd.rev \in Nat /\ fnd.anchor.b <= built
        /\ fnd.rev <= mon.rev
  BY <1>1 DEF MInv, AnchorInv, Optional, Findings, Anchors, Batches
<1>4. /\ \A b \in Batches : intent[b] # None => fnd # None /\ b <= fnd.anchor.b
      /\ cursor.seq <= mon.rev /\ (WasOpen(cursor.seq) => fnd # None /\ fnd.rev >= cursor.seq)
      /\ \A y \in outbox : fnd # None /\ y.rev > fnd.rev => y.b > fnd.anchor.b
  BY DEF MInv, AnchorInv, OrderInv, CursorInv, CursorIsObserved
<1>5. Batches \subseteq Nat /\ MaxFindingRev \in Nat /\ \A y \in outbox : y.b \in Nat /\ y.rev \in Nat
  BY <1>1, ManagerBounds DEF Batches, Items
<1>6. \/ fnd' = fnd
      \/ /\ fnd' \in Findings /\ fnd' # None /\ fnd'.rev = item.rev /\ item.rev > 0
         /\ fnd # None => item.rev >= fnd.rev
         /\ \/ fnd # None /\ fnd'.anchor.b = fnd.anchor.b
            \/ fnd'.anchor.b = item.b /\ (fnd # None => item.rev > fnd.rev)
  <2>1. CASE o \in {"ok", "crash"} /\ ObservationAccepted(item) /\ item.rev > 0
    <3>1. fnd' = Observed(item, bound) /\ (fnd # None => item.rev >= fnd.rev)
      BY <2>1 DEF SubmitInsightBatch, ObservationAccepted
    <3>2. CASE fnd = None
      <4>1. CASE item.open
        <5>1. fnd' = [rev |-> item.rev, open |-> TRUE, src |-> item.src, anchor |-> Anchor(item.b, item.rev, bound)]
          BY <2>1, <3>1, <3>2, <4>1 DEF Observed
        <5> DEFINE an == Anchor(item.b, item.rev, bound)
        <5>2. an \in Anchors /\ an.b = item.b
          BY <2>1, AnchorsTyped
        <5> HIDE DEF an
        <5>3. fnd' \in Findings /\ fnd'.rev = item.rev /\ fnd'.anchor.b = item.b
          BY <1>2, <1>5, <2>1, <5>1, <5>2 DEF an, Findings
        <5> QED BY <2>1, <3>2, <5>3, Present
      <4>2. CASE ~item.open
        BY <2>1, <3>1, <3>2, <4>2 DEF Observed
      <4> QED BY <4>1, <4>2
    <3>3. CASE fnd # None
      <4>1. fnd' = [rev |-> item.rev, open |-> item.open, src |-> item.src, anchor |-> Reanchor(item, bound)]
        BY <2>1, <3>1, <3>3 DEF Observed
      <4> DEFINE an == Reanchor(item, bound)
      <4>2. an \in Anchors /\ (an.b = fnd.anchor.b \/ (an.b = item.b /\ item.rev # fnd.rev))
        BY <2>1, <3>3, AnchorsTyped
      <4> HIDE DEF an
      <4>3. fnd' \in Findings /\ fnd'.rev = item.rev /\ fnd'.anchor.b = an.b
        BY <1>2, <1>5, <2>1, <4>1, <4>2 DEF an, Findings
      <4> QED BY <1>2, <1>3, <2>1, <3>1, <3>3, <4>2, <4>3, Present
    <3> QED BY <3>2, <3>3
  <2>2. CASE ~(o \in {"ok", "crash"} /\ ObservationAccepted(item) /\ item.rev > 0)
    BY <1>2, <2>2 DEF SubmitInsightBatch, Observed
  <2> QED BY <2>1, <2>2
<1>7. \/ cursor' = cursor
      \/ /\ cursor' = [seq |-> item.seq, irev |-> item.irev, on |-> item.on]
         /\ item.rev > 0 /\ WasOpen(item.seq) => fnd' # None /\ fnd'.rev = item.rev
  <2>1. CASE o = "ok" /\ ObservationAccepted(item)
    <3>1. cursor' = [seq |-> item.seq, irev |-> item.irev, on |-> item.on] /\ fnd' = Observed(item, bound)
      BY <2>1 DEF SubmitInsightBatch
    <3>2. ASSUME item.rev > 0, WasOpen(item.seq) PROVE fnd' # None /\ fnd'.rev = item.rev
      <4>1. item.open
        BY <3>2
      <4>2. CASE fnd = None
        <5>1. fnd' = [rev |-> item.rev, open |-> TRUE, src |-> item.src, anchor |-> Anchor(item.b, item.rev, bound)]
          BY <3>1, <3>2, <4>1, <4>2 DEF Observed
        <5> DEFINE an == Anchor(item.b, item.rev, bound)
        <5>2. an \in Anchors
          BY <3>2, AnchorsTyped
        <5> HIDE DEF an
        <5>3. fnd' \in Findings
          BY <1>2, <1>5, <3>2, <5>1, <5>2 DEF an, Findings
        <5> QED BY <1>6, <4>2, <5>3, Present
      <4>3. CASE fnd # None
        <5>1. fnd' = [rev |-> item.rev, open |-> item.open, src |-> item.src, anchor |-> Reanchor(item, bound)]
          BY <3>1, <3>2, <4>3 DEF Observed
        <5> QED BY <1>6, <4>3, <5>1
      <4> QED BY <4>2, <4>3
    <3> QED BY <3>1, <3>2
  <2>2. CASE ~(o = "ok" /\ ObservationAccepted(item))
    BY <2>2 DEF SubmitInsightBatch
  <2> QED BY <2>1, <2>2
<1>8. fnd' \in Optional(Findings) /\ (fnd # None => fnd' # None /\ fnd'.rev >= fnd.rev)
  BY <1>1, <1>2, <1>3, <1>6 DEF Optional
<1>9. known' \in 0..MaxFindingRev
  BY <1>1, <1>2 DEF SubmitInsightBatch
<1>10. cursor' \in [seq : 0..MaxFindingRev, irev : 0..2, on : BOOLEAN]
  BY <1>1, <1>2, <1>7
<1>11. ASSUME NEW b \in Batches, intent'[b] # None PROVE fnd' # None /\ b <= fnd'.anchor.b
  <2>1. fnd # None /\ b <= fnd.anchor.b /\ b \in Nat
    BY <1>4, <1>5, <1>11
  <2>2. CASE fnd' = fnd
    BY <2>1, <2>2
  <2>3. CASE fnd' # None /\ (fnd'.anchor.b = fnd.anchor.b \/ (fnd'.anchor.b = item.b /\ item.rev > fnd.rev))
    <3>1. item.b \in Nat
      BY <1>2, <1>5
    <3> QED BY <1>3, <2>1, <2>3, <3>1
  <2> QED BY <1>6, <2>1, <2>2, <2>3
<1>12. fnd' # None =>
         /\ fnd'.rev <= mon.rev
         /\ fnd'.anchor.b <= built \/ (fnd'.anchor.b = item.b /\ fnd'.rev = item.rev)
  BY <1>3, <1>6
<1>13. \A y \in outbox :
         (item.rev > 0 /\ y.rev > item.rev => y.b > item.b) =>
            (fnd' # None /\ y.rev > fnd'.rev => y.b > fnd'.anchor.b)
  BY <1>2, <1>3, <1>4, <1>5, <1>6
<1>14. cursor'.seq <= mon.rev /\ (WasOpen(cursor'.seq) => fnd' # None /\ fnd'.rev >= cursor'.seq)
  <2>1. CASE cursor' = cursor
    <3>1. cursor'.seq = cursor.seq /\ cursor.seq \in Nat
      BY <1>1, <2>1
    <3> QED BY <1>1, <1>2, <1>3, <1>4, <1>6, <1>8, <3>1
  <2>2. CASE cursor' = [seq |-> item.seq, irev |-> item.irev, on |-> item.on]
             /\ (item.rev > 0 /\ WasOpen(item.seq) => fnd' # None /\ fnd'.rev = item.rev)
    <3>1. cursor'.seq = item.seq /\ item.rev \in Nat /\ item.seq \in Nat
      BY <1>2, <2>2
    <3>2. CASE item.rev > 0
      BY <2>2, <3>1, <3>2
    <3>3. CASE item.rev = 0
      BY <1>2, <1>3, <1>6, <3>1, <3>3
    <3> QED BY <3>1, <3>2, <3>3
  <2> QED BY <1>7, <2>1, <2>2
<1> QED BY <1>8, <1>9, <1>10, <1>11, <1>12, <1>13, <1>14


(* The finding and the cursor while no batch is acknowledged.               *)
LEMMA FindingStays ==
  ASSUME MInv, known' = known, fnd' = fnd, cursor' = cursor, intent' = intent
  PROVE  /\ fnd' \in Optional(Findings) /\ known' \in 0..MaxFindingRev
         /\ cursor' \in [seq : 0..MaxFindingRev, irev : 0..2, on : BOOLEAN]
         /\ \A b \in Batches : intent'[b] # None => fnd' # None /\ b <= fnd'.anchor.b
         /\ fnd' # None => fnd'.rev <= mon.rev /\ fnd'.anchor.b <= built
         /\ fnd # None => fnd' # None /\ fnd'.rev >= fnd.rev
         /\ \A y \in outbox : fnd' # None /\ y.rev > fnd'.rev => y.b > fnd'.anchor.b
         /\ cursor'.seq <= mon.rev
         /\ WasOpen(cursor'.seq) => fnd' # None /\ fnd'.rev >= cursor'.seq
<1>1. /\ fnd \in Optional(Findings) /\ known \in 0..MaxFindingRev
      /\ cursor \in [seq : 0..MaxFindingRev, irev : 0..2, on : BOOLEAN]
  BY DEF MInv, ManagerTypeOK
<1>2. /\ \A b \in Batches : intent[b] # None => fnd # None /\ b <= fnd.anchor.b
      /\ fnd # None => fnd.rev <= mon.rev /\ fnd.anchor.b <= built
  BY DEF MInv, AnchorInv
<1>3. \A y \in outbox : fnd # None /\ y.rev > fnd.rev => y.b > fnd.anchor.b
  BY DEF MInv, OrderInv
<1>4. cursor.seq <= mon.rev /\ (WasOpen(cursor.seq) => fnd # None /\ fnd.rev >= cursor.seq)
  BY DEF MInv, CursorInv, CursorIsObserved
<1>5. fnd # None => fnd.rev \in Nat
  BY <1>1, ManagerBounds DEF Optional, Findings
<1>6. fnd # None => fnd' # None /\ fnd'.rev >= fnd.rev
  BY <1>5
<1> QED BY <1>1, <1>2, <1>3, <1>4, <1>6

LEMMA RenewPendingTakeoversKeeps ==
  ASSUME MInv, RenewPendingTakeovers
  PROVE  MInv'
<1>1. /\ ret' = place' /\ intent' = intent /\ run' = run
      /\ \A op \in TakeoverOps : hold[op] # None => hold'[op] # None /\ hold'[op].phase = hold[op].phase
  <2>1. /\ ret' = place' /\ intent' = intent /\ run' = run
        /\ hold' = hold \/ (hold["pause"] # None /\ owner["pause"] # None
                            /\ hold' = [hold EXCEPT !["pause"].n = owner["pause"].n])
    BY DEF RenewPendingTakeovers, RenewalDue
  <2>2. hold \in [TakeoverOps -> Optional(Holds)] /\ owner["pause"] \in Optional(Requests)
    BY DEF MInv, ManagerTypeOK, TakeoverOps
  <2>3. CASE hold["pause"] # None /\ owner["pause"] # None
             /\ hold' = [hold EXCEPT !["pause"].n = owner["pause"].n]
    <3>1. hold["pause"] \in Holds /\ owner["pause"] \in Requests
      BY <2>2, <2>3 DEF Optional, TakeoverOps
    <3> DEFINE h == [hold["pause"] EXCEPT !.n = owner["pause"].n]
    <3>2. h \in Holds /\ h.phase = hold["pause"].phase
      BY <3>1 DEF Holds, Requests
    <3>3. hold' = [hold EXCEPT !["pause"] = h]
      BY <2>3
    <3> HIDE DEF h
    <3> QED BY <2>1, <2>2, <3>2, <3>3, Present DEF TakeoverOps
  <2> QED BY <2>1, <2>3
<1>2. ManagerTypeOK'
  <2>1. place' \in Places \cup Calls \cup TakeoverOps
    BY BoundsAssumption DEF MInv, ManagerTypeOK, RenewPendingTakeovers, EnterPhase, Due,
       RecoveryPhases, RenewalDue, RenewalAllowed, UnsettledIntents, UnsettledRuns,
       UnsettledHolds, GuidanceRows, Places, Calls, TakeoverOps
  <2>2. ret' \in Places
    BY BoundsAssumption DEF MInv, ManagerTypeOK, RenewPendingTakeovers, EnterPhase, Due,
       RecoveryPhases, RenewalDue, RenewalAllowed, UnsettledIntents, UnsettledRuns,
       UnsettledHolds, GuidanceRows, Places
  <2>3. duties' \subseteq (IF ret' \in {"holds", "tko"} THEN TakeoverOps ELSE Runs)
    BY BoundsAssumption DEF MInv, ManagerTypeOK, RenewPendingTakeovers, EnterPhase, Due,
       RecoveryPhases, RenewalDue, RenewalAllowed, UnsettledIntents, UnsettledRuns,
       UnsettledHolds, GuidanceRows, Runs, Batches
  <2>4. hold' \in [TakeoverOps -> Optional(Holds)]
    BY BoundsAssumption DEF MInv, ManagerTypeOK, RenewPendingTakeovers, EnterPhase, Due,
       RecoveryPhases, RenewalDue, RenewalAllowed, UnsettledIntents, UnsettledRuns,
       UnsettledHolds, GuidanceRows, Optional, Holds, Requests, TakeoverOps
  <2> QED BY <2>1, <2>2, <2>3, <2>4 DEF MInv, ManagerTypeOK, RenewPendingTakeovers
<1>3. PlaceInv'
  BY DEF MInv, RenewPendingTakeovers, EnterPhase, Due, RecoveryPhases, RenewalDue,
     RenewalAllowed, UnsettledIntents, UnsettledRuns, UnsettledHolds, GuidanceRows,
     PlaceInv, Places, Calls, TakeoverOps
<1>4. DutyInv'
  <2>1. CASE place' = "idle" /\ duties' = {}
    BY <2>1 DEF DutyInv
  <2>2. CASE EnterPhase(1)
    <3>1. PICK i \in 1..5 : place' = RecoveryPhases[i] /\ duties' = Due(RecoveryPhases[i])
      BY <2>2 DEF EnterPhase
    <3> QED BY <1>1, <3>1, PhaseDuties DEF RenewPendingTakeovers
  <2> QED BY <2>1, <2>2 DEF RenewPendingTakeovers
<1>5. HandInv'
  BY DEF MInv, RenewPendingTakeovers, EnterPhase, Due, RecoveryPhases, RenewalDue,
     RenewalAllowed, UnsettledIntents, UnsettledRuns, UnsettledHolds, GuidanceRows,
     HandInv, Calls, TakeoverOps
<1>6. RunInv'
  BY DEF MInv, RenewPendingTakeovers, RunInv, Agree, Running, TerminalPhases,
     FinalGuidance
<1>7. OffIsSettled'
  BY DEF MInv, RenewPendingTakeovers, OffIsSettled
<1>8. OneAttemptPerEpisode'
  BY DEF MInv, RenewPendingTakeovers, OneAttemptPerEpisode
<1>9. AnchorInv'
  BY DEF MInv, RenewPendingTakeovers, AnchorInv
<1>10. OrderInv'
  BY DEF MInv, RenewPendingTakeovers, OrderInv
<1>11. CursorInv'
  BY DEF MInv, RenewPendingTakeovers, CursorInv, CursorIsObserved, WasOpen
<1> QED BY <1>2, <1>3, <1>4, <1>5, <1>6, <1>7, <1>8, <1>9, <1>10, <1>11 DEF MInv

LEMMA NextPhaseKeeps ==
  ASSUME MInv, NextPhase
  PROVE  MInv'
<1>1. ManagerTypeOK'
  <2>1. place' \in Places \cup Calls \cup TakeoverOps
    BY BoundsAssumption DEF MInv, ManagerTypeOK, NextPhase, EnterPhase, Due,
       RecoveryPhases, UnsettledIntents, UnsettledRuns, UnsettledHolds, GuidanceRows,
       AutomaticRuns, ListedTakeovers, Places, Calls, TakeoverOps
  <2>2. ret' \in Places
    BY BoundsAssumption DEF MInv, ManagerTypeOK, NextPhase, EnterPhase, Due,
       RecoveryPhases, UnsettledIntents, UnsettledRuns, UnsettledHolds, GuidanceRows,
       AutomaticRuns, ListedTakeovers, Places
  <2>3. duties' \subseteq (IF ret' \in {"holds", "tko"} THEN TakeoverOps ELSE Runs)
    BY BoundsAssumption DEF MInv, ManagerTypeOK, NextPhase, EnterPhase, Due,
       RecoveryPhases, UnsettledIntents, UnsettledRuns, UnsettledHolds, GuidanceRows,
       AutomaticRuns, ListedTakeovers, Runs, Batches
  <2> QED BY <2>1, <2>2, <2>3 DEF MInv, ManagerTypeOK, NextPhase
<1>2. PlaceInv'
  BY DEF MInv, NextPhase, EnterPhase, Due, RecoveryPhases, UnsettledIntents,
     UnsettledRuns, UnsettledHolds, GuidanceRows, AutomaticRuns, ListedTakeovers,
     PlaceInv, Places, Calls, TakeoverOps
<1>3. DutyInv'
  BY DEF MInv, NextPhase, EnterPhase, Due, RecoveryPhases, UnsettledIntents,
     UnsettledRuns, UnsettledHolds, GuidanceRows, AutomaticRuns, ListedTakeovers, DutyInv,
     Mine
<1>4. HandInv'
  BY DEF MInv, NextPhase, EnterPhase, Due, RecoveryPhases, UnsettledIntents,
     UnsettledRuns, UnsettledHolds, GuidanceRows, AutomaticRuns, ListedTakeovers, HandInv,
     Calls, TakeoverOps
<1>5. RunInv'
  BY DEF MInv, NextPhase, RunInv, Agree, Running, TerminalPhases, FinalGuidance
<1>6. OffIsSettled'
  BY DEF MInv, NextPhase, OffIsSettled
<1>7. OneAttemptPerEpisode'
  BY DEF MInv, NextPhase, OneAttemptPerEpisode
<1>8. AnchorInv'
  BY DEF MInv, NextPhase, AnchorInv
<1>9. OrderInv'
  BY DEF MInv, NextPhase, OrderInv
<1>10. CursorInv'
  BY DEF MInv, NextPhase, CursorInv, CursorIsObserved, WasOpen
<1> QED BY <1>1, <1>2, <1>3, <1>4, <1>5, <1>6, <1>7, <1>8, <1>9, <1>10 DEF MInv

LEMMA CompleteAutomaticReservationKeeps ==
  ASSUME MInv, NEW b \in duties, NEW o \in CallOutcomes, place \in {"resv", "adm"},
         CompleteAutomaticReservation(b, o)
  PROVE  MInv'
<1>1. b \in Batches /\ intent[b] # None /\ intent[b] \in Intents /\ ret = place
  BY InDuties
<1>2. \A c \in Batches :
        /\ intent[c] = None <=> intent'[c] = None
        /\ intent[c] # None => intent'[c].rev = intent[c].rev /\ intent'[c].mode = intent[c].mode
  <2>1. CASE intent' = intent
    BY <2>1
  <2>2. CASE intent' # intent
    <3>1. PICK p \in {"reserved", "unused"} : intent' = [intent EXCEPT ![b].phase = p]
      BY <2>2 DEF CompleteAutomaticReservation
    <3> QED BY <1>1, <3>1, IntentSteps
  <2> QED BY <2>1, <2>2
<1>3. ManagerTypeOK'
  <2>1. place' \in Places \cup Calls \cup TakeoverOps
    BY BoundsAssumption DEF MInv, ManagerTypeOK, CompleteAutomaticReservation,
       ReserveAnswer, Outcome, Effect, After, OnError, Left, CallOutcomes, Places, Calls,
       TakeoverOps
  <2>2. ret' \in Places
    BY BoundsAssumption DEF MInv, ManagerTypeOK, CompleteAutomaticReservation,
       ReserveAnswer, Outcome, Effect, After, OnError, Left, CallOutcomes, Places
  <2>3. duties' \subseteq (IF ret' \in {"holds", "tko"} THEN TakeoverOps ELSE Runs)
    BY BoundsAssumption DEF MInv, ManagerTypeOK, CompleteAutomaticReservation,
       ReserveAnswer, Outcome, Effect, After, OnError, Left, CallOutcomes, Runs, Batches
  <2>4. granted' \subseteq Batches
    BY ManagerBounds, InDuties, InHands DEF MInv, ManagerTypeOK,
       CompleteAutomaticReservation, ReserveAnswer, Outcome, Effect, After, OnError, Left,
       CallOutcomes
  <2>5. intent' \in [Batches -> Optional(Intents)]
    BY ManagerBounds, InDuties, InHands DEF MInv, ManagerTypeOK,
       CompleteAutomaticReservation, ReserveAnswer, Outcome, Effect, After, OnError, Left,
       CallOutcomes, Optional, Intents, Findings, Anchors, Modes
  <2>6. managerFaults' \in 0..MaxManagerFaults
    BY BoundsAssumption DEF MInv, ManagerTypeOK, CompleteAutomaticReservation,
       ReserveAnswer, Outcome, Effect, After, OnError, Left, CallOutcomes
  <2> QED BY <2>1, <2>2, <2>3, <2>4, <2>5, <2>6 DEF MInv, ManagerTypeOK,
             CompleteAutomaticReservation
<1>4. PlaceInv'
  BY DEF MInv, CompleteAutomaticReservation, ReserveAnswer, Outcome, Effect, After,
     OnError, Left, CallOutcomes, PlaceInv, Places, Calls, TakeoverOps
<1>5. DutyInv'
  <2>1. duties' = {} \/ (duties' \subseteq duties /\ ret' = ret)
    BY InDuties DEF CompleteAutomaticReservation, Left, After, OnError
  <2>2. \A c \in Batches : intent[c] # None => intent'[c] # None
    BY <1>1, <1>2
  <2> QED BY <2>1, <2>2, DutiesShrink DEF CompleteAutomaticReservation
<1>6. HandInv'
  BY DEF MInv, CompleteAutomaticReservation, ReserveAnswer, Outcome, Effect, After,
     OnError, Left, CallOutcomes, HandInv, Calls, TakeoverOps
<1>7. RunInv'
  BY DEF MInv, CompleteAutomaticReservation, RunInv, Agree, Running, TerminalPhases,
     FinalGuidance
<1>8. OffIsSettled'
  BY DEF MInv, CompleteAutomaticReservation, OffIsSettled
<1>9. OneAttemptPerEpisode'
  BY <1>1, <1>2 DEF MInv, OneAttemptPerEpisode
<1>10. AnchorInv'
  BY <1>1, <1>2 DEF MInv, AnchorInv, CompleteAutomaticReservation
<1>11. OrderInv'
  BY DEF MInv, CompleteAutomaticReservation, OrderInv
<1>12. CursorInv'
  BY DEF MInv, CompleteAutomaticReservation, CursorInv, CursorIsObserved, WasOpen
<1> QED BY <1>3, <1>4, <1>5, <1>6, <1>7, <1>8, <1>9, <1>10, <1>11, <1>12 DEF MInv

LEMMA BeginReservedRunKeeps ==
  ASSUME MInv, NEW b \in duties, NEW fresh \in BOOLEAN, NEW read \in BOOLEAN,
         NEW dies \in BOOLEAN, place \in {"resv", "adm"},
         BeginReservedRun(b, fresh, read, dies)
  PROVE  MInv'
<1>1. /\ b \in Runs /\ b \in Batches /\ intent[b] \in Intents /\ intent[b] # None
      /\ ret = place
  BY InDuties
<1>2. PICK x \in RunRows :
        /\ run' = [run EXCEPT ![b] = x]
        /\ place' \in {"ack", "sub"} => inhand' = b
        /\ \/ run[b] # None /\ x = run[b] /\ place' \in {"idle", place}
           \/ /\ run[b] = None /\ ~x.att /\ x.guid = None
              /\ \/ x.phase = "start_ack_pending" /\ x.rep = None /\ place' \in {"idle", "ack"}
                 \/ x.phase = "report_pending" /\ x.rep = "zero" /\ place' \in {"idle", "sub"}
  <2> DEFINE ok == ReviewAuthority(b, intent[b], fresh, read)
  <2>1. place' \in {"ack", "sub"} => inhand' = b
    BY DEF BeginReservedRun, InHand
  <2>2. CASE run[b] # None
    <3>1. run' = run /\ place' \in {"idle", place}
      BY <2>2 DEF BeginReservedRun
    <3> QED BY <1>1, <2>1, <2>2, <3>1, RowSteps, SameRow
  <2>3. CASE run[b] = None /\ ok
    <3> DEFINE new == Row(intent[b], "start_ack_pending", TRUE, TRUE, None)
    <3>1. new \in RunRows
      BY <1>1, RowIsTyped
    <3>2. run' = [run EXCEPT ![b] = new]
      BY <2>3 DEF BeginReservedRun
    <3>3. place' \in {"idle", "ack"}
      BY <2>3 DEF BeginReservedRun
    <3>4. ~new.att /\ new.guid = None /\ new.phase = "start_ack_pending" /\ new.rep = None
      BY DEF Row
    <3> HIDE DEF new
    <3> QED BY <2>1, <2>3, <3>1, <3>2, <3>3, <3>4
  <2>4. CASE run[b] = None /\ ~ok
    <3> DEFINE new == Row(intent[b], "report_pending", FALSE, FALSE, "zero")
    <3>1. new \in RunRows
      BY <1>1, RowIsTyped
    <3>2. run' = [run EXCEPT ![b] = new]
      BY <2>4 DEF BeginReservedRun
    <3>3. place' \in {"idle", "sub"}
      BY <2>4 DEF BeginReservedRun
    <3>4. ~new.att /\ new.guid = None /\ new.phase = "report_pending" /\ new.rep = "zero"
      BY DEF Row
    <3> HIDE DEF new
    <3> QED BY <2>1, <2>4, <3>1, <3>2, <3>3, <3>4
  <2> QED BY <2>2, <2>3, <2>4
<1>3. /\ run' \in [Runs -> Optional(RunRows)] /\ run'[b] = x
      /\ \A q \in Runs : q # b => run'[q] = run[q]
      /\ \A q \in Runs : run[q] # None => run'[q] # None
  BY <1>1, <1>2, RunTable
<1>4. \A c \in Batches :
        /\ intent[c] = None <=> intent'[c] = None
        /\ intent[c] # None => intent'[c].rev = intent[c].rev /\ intent'[c].mode = intent[c].mode
  <2>1. intent' = intent \/ intent' = [intent EXCEPT ![b].phase = "applied"]
    BY DEF BeginReservedRun
  <2> QED BY <1>1, <2>1, IntentSteps
<1>5. ManagerTypeOK'
  <2>1. place' \in Places \cup Calls \cup TakeoverOps
    BY BoundsAssumption DEF MInv, ManagerTypeOK, BeginReservedRun, Row, InHand, Left,
       ReviewAuthority, ReviewPolicyModeValid, Places, Calls, TakeoverOps
  <2>2. ret' \in Places
    BY BoundsAssumption DEF MInv, ManagerTypeOK, BeginReservedRun, Row, InHand, Left,
       ReviewAuthority, ReviewPolicyModeValid, Places
  <2>3. duties' \subseteq (IF ret' \in {"holds", "tko"} THEN TakeoverOps ELSE Runs)
    BY BoundsAssumption DEF MInv, ManagerTypeOK, BeginReservedRun, Row, InHand, Left,
       ReviewAuthority, ReviewPolicyModeValid, Runs, Batches
  <2>4. inhand' \in Runs
    BY <1>1, ManagerBounds DEF BeginReservedRun, InHand, Runs
  <2>5. run' \in [Runs -> Optional(RunRows)]
    BY <1>3
  <2>6. intent' \in [Batches -> Optional(Intents)]
    BY ManagerBounds, InDuties, InHands DEF MInv, ManagerTypeOK, BeginReservedRun, Row,
       InHand, Left, ReviewAuthority, ReviewPolicyModeValid, Optional, Intents, Findings,
       Anchors, Modes
  <2>7. managerFaults' \in 0..MaxManagerFaults
    BY BoundsAssumption DEF MInv, ManagerTypeOK, BeginReservedRun, Row, InHand, Left,
       ReviewAuthority, ReviewPolicyModeValid
  <2> QED BY <2>1, <2>2, <2>3, <2>4, <2>5, <2>6, <2>7 DEF MInv, ManagerTypeOK,
             BeginReservedRun
<1>6. PlaceInv'
  BY DEF MInv, BeginReservedRun, Row, InHand, Left, ReviewAuthority,
     ReviewPolicyModeValid, PlaceInv, Places, Calls, TakeoverOps
<1>7. DutyInv'
  <2>1. duties' = {} \/ (duties' \subseteq duties /\ ret' = ret)
    BY DEF BeginReservedRun, Left
  <2> QED BY <1>1, <1>3, <1>4, <2>1, DutiesShrink DEF BeginReservedRun
<1>8. HandInv'
  <2>1. hlp' = hlp /\ acked' = acked /\ place' \in {"idle", "resv", "adm", "ack", "sub"}
    BY <1>2 DEF BeginReservedRun
  <2> QED BY <1>1, <1>2, <1>3, <2>1, Present DEF HandInv, Calls, TakeoverOps
<1>9. RunInv'
  <2>1. hlp' = hlp /\ acked' = acked
    BY DEF BeginReservedRun
  <2>2. Agree(run[b], hlp[b], acked[b])
    BY <1>1 DEF MInv, RunInv
  <2>3. CASE run[b] # None
    BY <1>1, <1>2, <1>3, <2>1, <2>2, <2>3, AgreesAfter
  <2>4. CASE run[b] = None
    <3>1. Agree(x, hlp[b], acked[b])
      BY <1>2, <1>3, <2>2, <2>4, NoRow DEF Agree, TerminalPhases, RunReports, FinalGuidance
    <3> QED BY <1>1, <1>3, <2>1, <3>1, AgreesAfter
  <2> QED BY <2>3, <2>4
<1>10. OffIsSettled'
  BY DEF MInv, BeginReservedRun, OffIsSettled
<1>11. OneAttemptPerEpisode'
  BY <1>4 DEF MInv, OneAttemptPerEpisode
<1>12. AnchorInv'
  BY <1>4 DEF MInv, AnchorInv, BeginReservedRun
<1>13. OrderInv'
  BY DEF MInv, BeginReservedRun, OrderInv
<1>14. CursorInv'
  BY DEF MInv, BeginReservedRun, CursorInv, CursorIsObserved, WasOpen
<1> QED BY <1>5, <1>6, <1>7, <1>8, <1>9, <1>10, <1>11, <1>12, <1>13, <1>14 DEF MInv

LEMMA StartAcknowledgedReviewKeeps ==
  ASSUME MInv, NEW o \in CallOutcomes, NEW read \in BOOLEAN,
         StartAcknowledgedReview(o, read)
  PROVE  MInv'
<1>1. /\ inhand \in Runs /\ run[inhand] # None /\ run[inhand].phase = "start_ack_pending"
      /\ hlp[inhand].starts = 0
  BY InHands DEF MInv, HandInv, RunInv, Agree, StartAcknowledgedReview
<1>2. PICK x \in RunRows :
        /\ run' = [run EXCEPT ![inhand] = x]
        /\ \/ x = run[inhand] /\ place' \in {"idle", "round"}
           \/ /\ o = "ok" /\ place' = "go" /\ inhand' = inhand
              /\ x = [run[inhand] EXCEPT !.phase = "execution_unknown"]
           \/ /\ place' = "sub" /\ inhand' = inhand
              /\ x = [run[inhand] EXCEPT !.phase = "report_pending", !.rep = "zero"]
  <2> DEFINE ok == ReviewAuthority(inhand, run[inhand], run[inhand].lease, read)
  <2>1. CASE o = "ok" /\ ok
    <3>1. run' = [run EXCEPT ![inhand] = [run[inhand] EXCEPT !.phase = "execution_unknown"]]
      BY <1>1, <2>1 DEF StartAcknowledgedReview
    <3> QED BY <1>1, <2>1, <3>1, RowSteps DEF StartAcknowledgedReview, After, InHand
  <2>2. CASE o = "ok" /\ ~ok
    <3>1. run' = [run EXCEPT ![inhand] = [run[inhand] EXCEPT !.phase = "report_pending", !.rep = "zero"]]
      BY <1>1, <2>2 DEF StartAcknowledgedReview
    <3> QED BY <1>1, <2>2, <3>1, RowSteps DEF StartAcknowledgedReview, After, InHand, RunReports
  <2>3. CASE o # "ok"
    <3>1. run' = run /\ place' \in {"idle", "round"}
      BY <2>3 DEF StartAcknowledgedReview, After, OnError
    <3> QED BY <1>1, <3>1, RowSteps, SameRow
  <2> QED BY <2>1, <2>2, <2>3
<1>3. /\ run' \in [Runs -> Optional(RunRows)] /\ run'[inhand] = x
      /\ \A q \in Runs : q # inhand => run'[q] = run[q]
      /\ \A q \in Runs : run[q] # None => run'[q] # None
  BY <1>1, <1>2, RunTable
<1>4. /\ acked' \in [Runs -> RunReports \cup {"none", "reviewing"}]
      /\ \A q \in Runs : q # inhand => acked'[q] = acked[q]
      /\ acked[inhand] # "none" => acked'[inhand] # "none"
      /\ o = "ok" => acked'[inhand] # "none"
  BY <1>1 DEF MInv, ManagerTypeOK, StartAcknowledgedReview, Effect
<1>5. ManagerTypeOK'
  <2>1. place' \in Places \cup Calls \cup TakeoverOps
    BY BoundsAssumption DEF MInv, ManagerTypeOK, StartAcknowledgedReview, Effect, After,
       OnError, Left, InHand, CallOutcomes, Places, Calls, TakeoverOps
  <2>2. ret' \in Places
    BY BoundsAssumption DEF MInv, ManagerTypeOK, StartAcknowledgedReview, Effect, After,
       OnError, Left, InHand, CallOutcomes, Places
  <2>3. duties' \subseteq (IF ret' \in {"holds", "tko"} THEN TakeoverOps ELSE Runs)
    BY BoundsAssumption DEF MInv, ManagerTypeOK, StartAcknowledgedReview, Effect, After,
       OnError, Left, InHand, CallOutcomes, Runs, Batches
  <2>4. inhand' \in Runs
    BY BoundsAssumption DEF MInv, ManagerTypeOK, StartAcknowledgedReview, Effect, After,
       OnError, Left, InHand, CallOutcomes, Runs, Batches
  <2>5. run' \in [Runs -> Optional(RunRows)]
    BY <1>3
  <2>6. acked' \in [Runs -> RunReports \cup {"none", "reviewing"}]
    BY <1>4
  <2>7. managerFaults' \in 0..MaxManagerFaults
    BY BoundsAssumption DEF MInv, ManagerTypeOK, StartAcknowledgedReview, Effect, After,
       OnError, Left, InHand, CallOutcomes
  <2> QED BY <2>1, <2>2, <2>3, <2>4, <2>5, <2>6, <2>7 DEF MInv, ManagerTypeOK,
             StartAcknowledgedReview
<1>6. PlaceInv'
  BY DEF MInv, StartAcknowledgedReview, Effect, After, OnError, Left, InHand,
     CallOutcomes, PlaceInv, Places, Calls, TakeoverOps
<1>7. DutyInv'
  <2>1. duties' = {} \/ (duties' \subseteq duties /\ ret' = ret)
    BY DEF StartAcknowledgedReview, Left, After, OnError
  <2> QED BY <1>3, <2>1, InHands, DutiesShrink DEF StartAcknowledgedReview
<1>8. HandInv'
  <2>1. place' \in {"idle", "round", "go", "sub"} /\ hlp' = hlp
    BY <1>2 DEF StartAcknowledgedReview
  <2> QED BY <1>1, <1>2, <1>3, <1>4, <2>1, Present DEF HandInv, Calls, TakeoverOps, RunRows
<1>9. RunInv'
  <2>1. hlp' = hlp
    BY DEF StartAcknowledgedReview
  <2>2. Agree(run[inhand], hlp[inhand], acked[inhand]) /\ run[inhand] \in RunRows
    BY <1>1, RowSteps DEF MInv, RunInv
  <2>3. Agree(x, hlp[inhand], acked'[inhand])
    <3>1. CASE x = run[inhand]
      BY <1>4, <2>2, <3>1 DEF Agree
    <3>2. CASE x = [run[inhand] EXCEPT !.phase = "execution_unknown"]
      BY <1>1, <1>4, <2>2, <3>2, Present DEF Agree, RunRows, TerminalPhases
    <3>3. CASE x = [run[inhand] EXCEPT !.phase = "report_pending", !.rep = "zero"]
      BY <1>1, <1>4, <2>2, <3>3, Present DEF Agree, RunRows, RunReports
    <3> QED BY <1>2, <3>1, <3>2, <3>3
  <2> QED BY <1>1, <1>3, <1>4, <2>1, <2>3, AgreesAfter
<1>10. OffIsSettled'
  BY DEF MInv, StartAcknowledgedReview, OffIsSettled
<1>11. OneAttemptPerEpisode'
  BY DEF MInv, StartAcknowledgedReview, OneAttemptPerEpisode
<1>12. AnchorInv'
  BY DEF MInv, StartAcknowledgedReview, AnchorInv
<1>13. OrderInv'
  BY DEF MInv, StartAcknowledgedReview, OrderInv
<1>14. CursorInv'
  BY DEF MInv, StartAcknowledgedReview, CursorInv, CursorIsObserved, WasOpen
<1> QED BY <1>5, <1>6, <1>7, <1>8, <1>9, <1>10, <1>11, <1>12, <1>13, <1>14 DEF MInv

LEMMA StartReviewKeeps ==
  ASSUME MInv, NEW o \in CallOutcomes, NEW answer \in StartAnswers, StartReview(o, answer)
  PROVE  MInv'
<1>1. /\ inhand \in Runs /\ run[inhand] # None /\ run[inhand].phase = "execution_unknown"
      /\ hlp[inhand].starts = 0 /\ acked[inhand] # "none"
      /\ ret \in {"resv", "runs", "adv", "adm", "listed", "disp"}
  BY InHands DEF MInv, HandInv, StartReview
<1>2. PICK x \in RunRows :
        /\ run' = [run EXCEPT ![inhand] = x]
        /\ \/ x = run[inhand] /\ place' \in {"idle", "round"}
           \/ /\ place' = ret
              /\ \E p \in {"reviewing", "execution_unknown"} : x = [run[inhand] EXCEPT !.phase = p]
           \/ /\ place' = "sub" /\ inhand' = inhand
              /\ x = [run[inhand] EXCEPT !.phase = "report_pending", !.rep = "failed"]
  <2>1. CASE o = "ok" /\ answer # "failed"
    <3>1. run' = [run EXCEPT ![inhand] = [run[inhand] EXCEPT !.phase = answer]] /\ place' = ret
      BY <1>1, <2>1 DEF StartReview, After
    <3>2. answer \in {"reviewing", "execution_unknown"}
      BY <2>1 DEF StartAnswers
    <3> QED BY <1>1, <3>1, <3>2, RowSteps
  <2>2. CASE o = "ok" /\ answer = "failed"
    <3>1. run' = [run EXCEPT ![inhand] = [run[inhand] EXCEPT !.phase = "report_pending", !.rep = "failed"]]
      BY <1>1, <2>2 DEF StartReview
    <3> QED BY <1>1, <2>2, <3>1, RowSteps DEF StartReview, After, InHand, RunReports, TerminalPhases
  <2>3. CASE o # "ok"
    <3>1. run' = run /\ place' \in {"idle", "round"}
      BY <2>3 DEF StartReview, After, OnError
    <3> QED BY <1>1, <3>1, RowSteps, SameRow
  <2> QED BY <2>1, <2>2, <2>3
<1>3. /\ run' \in [Runs -> Optional(RunRows)] /\ run'[inhand] = x
      /\ \A q \in Runs : q # inhand => run'[q] = run[q]
      /\ \A q \in Runs : run[q] # None => run'[q] # None
  BY <1>1, <1>2, RunTable
<1>4. /\ hlp' \in [Runs -> HelperRuns] /\ acked' = acked
      /\ \A q \in Runs : q # inhand => hlp'[q] = hlp[q]
      /\ hlp'[inhand].starts \in {0, 1} /\ hlp'[inhand].steers = hlp[inhand].steers
      /\ hlp'[inhand].guid = hlp[inhand].guid
  <2>1. hlp \in [Runs -> HelperRuns] /\ hlp[inhand] \in HelperRuns
    BY <1>1 DEF MInv, ManagerTypeOK
  <2>2. acked' = acked
    BY DEF StartReview
  <2>3. CASE Effect(o)
    <3>1. PICK s \in TerminalPhases \cup {"running"} :
             hlp' = [hlp EXCEPT ![inhand].starts = @ + 1, ![inhand].st = s]
      BY <2>3 DEF StartReview, TerminalPhases
    <3>2. hlp' \in [Runs -> HelperRuns]
      BY <1>1, <3>1, HelperSteps
    <3> QED BY <1>1, <2>1, <2>2, <3>1, <3>2 DEF HelperRuns
  <2>4. CASE ~Effect(o)
    <3>1. hlp' = hlp
      BY <2>4 DEF StartReview
    <3> QED BY <1>1, <2>1, <2>2, <3>1
  <2> QED BY <2>3, <2>4
<1>5. ManagerTypeOK'
  <2>1. place' \in Places \cup Calls \cup TakeoverOps
    BY BoundsAssumption DEF MInv, ManagerTypeOK, StartReview, Answered, Effect, After,
       OnError, Left, InHand, CallOutcomes, Places, Calls, TakeoverOps
  <2>2. ret' \in Places
    BY BoundsAssumption DEF MInv, ManagerTypeOK, StartReview, Answered, Effect, After,
       OnError, Left, InHand, CallOutcomes, Places
  <2>3. duties' \subseteq (IF ret' \in {"holds", "tko"} THEN TakeoverOps ELSE Runs)
    BY BoundsAssumption DEF MInv, ManagerTypeOK, StartReview, Answered, Effect, After,
       OnError, Left, InHand, CallOutcomes, Runs, Batches
  <2>4. inhand' \in Runs
    BY BoundsAssumption DEF MInv, ManagerTypeOK, StartReview, Answered, Effect, After,
       OnError, Left, InHand, CallOutcomes, Runs, Batches
  <2>5. run' \in [Runs -> Optional(RunRows)]
    BY <1>3
  <2>6. hlp' \in [Runs -> HelperRuns]
    BY <1>4
  <2>7. managerFaults' \in 0..MaxManagerFaults
    BY BoundsAssumption DEF MInv, ManagerTypeOK, StartReview, Answered, Effect, After,
       OnError, Left, InHand, CallOutcomes
  <2> QED BY <2>1, <2>2, <2>3, <2>4, <2>5, <2>6, <2>7 DEF MInv, ManagerTypeOK, StartReview
<1>6. PlaceInv'
  BY DEF MInv, StartReview, Answered, Effect, After, OnError, Left, InHand, CallOutcomes,
     PlaceInv, Places, Calls, TakeoverOps
<1>7. DutyInv'
  <2>1. duties' = {} \/ (duties' \subseteq duties /\ ret' = ret)
    BY DEF StartReview, Left, After, OnError
  <2> QED BY <1>1, <1>3, <2>1, DutiesShrink DEF StartReview
<1>8. HandInv'
  <2>1. place' = "sub" \/ place' \in {"idle", "round", "resv", "runs", "adv", "adm", "listed", "disp"}
    BY <1>1, <1>2
  <2> QED BY <1>1, <1>2, <1>3, <2>1, Present DEF HandInv, Calls, TakeoverOps, RunRows
<1>9. RunInv'
  <2>1. Agree(run[inhand], hlp[inhand], acked[inhand]) /\ run[inhand] \in RunRows
    BY <1>1, RowSteps DEF MInv, RunInv
  <2>2. run[inhand].rep = None
    BY <1>1, <2>1 DEF Agree, TerminalPhases
  <2>3. Agree(x, hlp'[inhand], acked[inhand])
    <3>1. CASE x = run[inhand]
      BY <1>1, <1>4, <2>1, <2>2, <3>1, NoRow DEF Agree, RunReports
    <3>2. ASSUME NEW p \in {"reviewing", "execution_unknown"}, x = [run[inhand] EXCEPT !.phase = p]
          PROVE  Agree(x, hlp'[inhand], acked[inhand])
      <4>1. /\ x.phase = p /\ x.rep = None
            /\ x.att = run[inhand].att /\ x.guid = run[inhand].guid
        BY <2>1, <2>2, <3>2 DEF RunRows
      <4>2. p \notin TerminalPhases \cup {"report_pending", "start_ack_pending"} /\ None # "zero"
        BY <3>2, NoRow DEF TerminalPhases, RunReports
      <4> QED BY <1>1, <1>4, <2>1, <4>1, <4>2, Present DEF Agree
    <3>3. CASE x = [run[inhand] EXCEPT !.phase = "report_pending", !.rep = "failed"]
      <4>1. "failed" # None
        BY NoRow DEF RunReports, TerminalPhases
      <4>2. /\ x.phase = "report_pending" /\ x.rep = "failed"
            /\ x.att = run[inhand].att /\ x.guid = run[inhand].guid
        BY <2>1, <3>3 DEF RunRows
      <4> QED BY <1>1, <1>4, <2>1, <4>1, <4>2, Present DEF Agree
    <3> QED BY <1>2, <3>1, <3>2, <3>3
  <2> QED BY <1>1, <1>3, <1>4, <2>3, AgreesAfter
<1>10. OffIsSettled'
  BY ManagerBounds, NoRow, InDuties, InHands, ReportIs DEF MInv, StartReview, Answered,
     Effect, After, OnError, Left, InHand, CallOutcomes, OffIsSettled, ManagerTypeOK,
     HandInv, RunInv, Agree
<1>11. OneAttemptPerEpisode'
  BY DEF MInv, StartReview, OneAttemptPerEpisode
<1>12. AnchorInv'
  BY DEF MInv, StartReview, AnchorInv
<1>13. OrderInv'
  BY DEF MInv, StartReview, OrderInv
<1>14. CursorInv'
  BY DEF MInv, StartReview, CursorInv, CursorIsObserved, WasOpen
<1> QED BY <1>5, <1>6, <1>7, <1>8, <1>9, <1>10, <1>11, <1>12, <1>13, <1>14 DEF MInv

LEMMA ResumeRunKeeps ==
  ASSUME MInv, NEW r \in duties, NEW o \in CallOutcomes, NEW unsure \in BOOLEAN,
         place \in {"runs", "adv"}, ResumeRun(r, o, unsure)
  PROVE  MInv'
<1>1. r \in Runs /\ run[r] # None /\ ret = place
  BY InDuties
<1> DEFINE status == IF unsure THEN "execution_unknown" ELSE ReviewStatus(r)
<1>a. status \in TerminalPhases \cup {"reviewing", "execution_unknown"}
  BY <1>1 DEF ReviewStatus, MInv, ManagerTypeOK, HelperRuns, TerminalPhases
<1>2. PICK x \in RunRows :
        /\ run' = [run EXCEPT ![r] = x]
        /\ \/ x = run[r] /\ place' \in {"idle", "round"}
           \/ /\ place' \in {"idle", "round", place}
              /\ \E p \in {"reviewing", "execution_unknown"} : x = [run[r] EXCEPT !.phase = p]
           \/ /\ place' = "sub" /\ inhand' = r
              /\ \E q \in TerminalPhases : x = [run[r] EXCEPT !.phase = "report_pending", !.rep = q]
  <2>1. CASE o = "ok" /\ status \notin TerminalPhases
    <3>1. run' = [run EXCEPT ![r] = [run[r] EXCEPT !.phase = status]] /\ place' = place
      BY <1>1, <2>1 DEF ResumeRun, After
    <3>2. status \in {"reviewing", "execution_unknown"}
      BY <1>a, <2>1
    <3> HIDE DEF status
    <3> QED BY <1>1, <3>1, <3>2, RowSteps
  <2>2. CASE o = "ok" /\ status \in TerminalPhases
    <3>1. /\ run' = [run EXCEPT ![r] = [run[r] EXCEPT !.phase = "report_pending", !.rep = status]]
          /\ place' = "sub" /\ inhand' = r
      BY <1>1, <2>2 DEF ResumeRun, After, InHand
    <3> HIDE DEF status
    <3> QED BY <1>1, <2>2, <3>1, RowSteps DEF RunReports
  <2>3. CASE o \in {"lost", "fail"}
    <3>1. run' = [run EXCEPT ![r] = [run[r] EXCEPT !.phase = "execution_unknown"]]
      BY <1>1, <2>3 DEF ResumeRun
    <3> QED BY <1>1, <2>3, <3>1, RowSteps DEF ResumeRun, After, OnError
  <2>4. CASE o = "crash"
    <3>1. run' = run /\ place' = "idle"
      BY <2>4 DEF ResumeRun, After
    <3> QED BY <1>1, <3>1, RowSteps, SameRow
  <2> QED BY <2>1, <2>2, <2>3, <2>4 DEF CallOutcomes
<1> HIDE DEF status
<1>3. /\ run' \in [Runs -> Optional(RunRows)] /\ run'[r] = x
      /\ \A q \in Runs : q # r => run'[q] = run[q]
      /\ \A q \in Runs : run[q] # None => run'[q] # None
  BY <1>1, <1>2, RunTable
<1>b. /\ hlp' \in [Runs -> HelperRuns] /\ acked' = acked
      /\ \A q \in Runs : q # r => hlp'[q] = hlp[q]
      /\ hlp'[r].starts = hlp[r].starts /\ hlp'[r].steers = hlp[r].steers
      /\ hlp'[r].guid = hlp[r].guid
  <2>1. hlp \in [Runs -> HelperRuns] /\ hlp[r] \in HelperRuns /\ acked' = acked
    BY <1>1 DEF MInv, ManagerTypeOK, ResumeRun
  <2>2. hlp' = hlp \/ hlp' = [hlp EXCEPT ![r].more = @ \cup {place}]
    BY DEF ResumeRun
  <2>3. [hlp EXCEPT ![r].more = @ \cup {place}] \in [Runs -> HelperRuns]
    BY <1>1, HelperSteps
  <2> QED BY <1>1, <2>1, <2>2, <2>3 DEF HelperRuns
<1>4. ManagerTypeOK'
  <2>1. place' \in Places \cup Calls \cup TakeoverOps
    BY BoundsAssumption DEF MInv, ManagerTypeOK, ResumeRun, ReviewStatus, Answered, After,
       OnError, Left, InHand, CallOutcomes, Places, Calls, TakeoverOps
  <2>2. ret' \in Places
    BY BoundsAssumption DEF MInv, ManagerTypeOK, ResumeRun, ReviewStatus, Answered, After,
       OnError, Left, InHand, CallOutcomes, Places
  <2>3. duties' \subseteq (IF ret' \in {"holds", "tko"} THEN TakeoverOps ELSE Runs)
    BY BoundsAssumption DEF MInv, ManagerTypeOK, ResumeRun, ReviewStatus, Answered, After,
       OnError, Left, InHand, CallOutcomes, Runs, Batches
  <2>4. inhand' \in Runs
    BY <1>1, ManagerBounds DEF ResumeRun, InHand, Runs
  <2>5. run' \in [Runs -> Optional(RunRows)]
    BY <1>3
  <2>6. managerFaults' \in 0..MaxManagerFaults
    BY BoundsAssumption DEF MInv, ManagerTypeOK, ResumeRun, ReviewStatus, Answered, After,
       OnError, Left, InHand, CallOutcomes
  <2> QED BY <1>b, <2>1, <2>2, <2>3, <2>4, <2>5, <2>6 DEF MInv, ManagerTypeOK, ResumeRun
<1>5. PlaceInv'
  BY DEF MInv, ResumeRun, ReviewStatus, Answered, After, OnError, Left, InHand,
     CallOutcomes, PlaceInv, Places, Calls, TakeoverOps
<1>6. DutyInv'
  <2>1. duties' = {} \/ (duties' \subseteq duties /\ ret' = ret)
    BY <1>1 DEF ResumeRun, Left, After, OnError
  <2> QED BY <1>1, <1>3, <2>1, DutiesShrink DEF ResumeRun
<1>7. HandInv'
  <2>1. place' = "sub" \/ place' \in {"idle", "round", "runs", "adv"}
    BY <1>2
  <2> QED BY <1>1, <1>2, <1>3, <2>1, Present DEF HandInv, Calls, TakeoverOps, RunRows
<1>8. RunInv'
  <2>1. run[r].phase \in {"execution_unknown", "reviewing"}
    BY DEF ResumeRun
  <2>2. Agree(run[r], hlp[r], acked[r]) /\ run[r] \in RunRows
    BY <1>1, RowSteps DEF MInv, RunInv
  <2>3. Agree(x, hlp'[r], acked[r])
    <3>1. CASE x = run[r]
      BY <1>b, <2>2, <3>1 DEF Agree
    <3>2. ASSUME NEW p \in {"reviewing", "execution_unknown"}, x = [run[r] EXCEPT !.phase = p]
          PROVE  Agree(x, hlp'[r], acked[r])
      BY <1>1, <1>b, <2>1, <2>2, <3>2, Present DEF Agree, RunRows, TerminalPhases
    <3>3. ASSUME NEW q \in TerminalPhases, x = [run[r] EXCEPT !.phase = "report_pending", !.rep = q]
          PROVE  Agree(x, hlp'[r], acked[r])
      <4>1. q # "zero" /\ q # None
        BY NoRow DEF TerminalPhases, RunReports
      <4> QED BY <1>1, <1>b, <2>2, <3>3, <4>1, Present DEF Agree, RunRows
    <3> QED BY <1>2, <3>1, <3>2, <3>3
  <2> QED BY <1>1, <1>3, <1>b, <2>3, AgreesAfter
<1>9. OffIsSettled'
  <2>1. \A q \in Runs : hlp'[q].guid = hlp[q].guid
    BY <1>1, <1>b
  <2> QED BY <2>1 DEF MInv, ResumeRun, OffIsSettled
<1>10. OneAttemptPerEpisode'
  BY DEF MInv, ResumeRun, OneAttemptPerEpisode
<1>11. AnchorInv'
  BY DEF MInv, ResumeRun, AnchorInv
<1>12. OrderInv'
  BY DEF MInv, ResumeRun, OrderInv
<1>13. CursorInv'
  BY DEF MInv, ResumeRun, CursorInv, CursorIsObserved, WasOpen
<1> QED BY <1>4, <1>5, <1>6, <1>7, <1>8, <1>9, <1>10, <1>11, <1>12, <1>13 DEF MInv

LEMMA RecoverStartAckKeeps ==
  ASSUME MInv, NEW r \in duties, NEW read \in BOOLEAN, place \in {"runs", "adv"},
         RecoverStartAck(r, read)
  PROVE  MInv'
<1>1. r \in Runs /\ run[r] # None /\ ret = place
  BY InDuties
<1>2. PICK x \in RunRows :
        /\ run' = [run EXCEPT ![r] = x] /\ inhand' = r
        /\ \/ x = run[r] /\ place' = "ack"
           \/ place' = "sub" /\ x = [run[r] EXCEPT !.phase = "report_pending", !.rep = "zero"]
  <2> DEFINE ok == ReviewAuthority(r, run[r], run[r].lease, read)
  <2>1. CASE ok
    <3>1. run' = run /\ place' = "ack" /\ inhand' = r
      BY <2>1 DEF RecoverStartAck, InHand
    <3> QED BY <1>1, <3>1, RowSteps, SameRow
  <2>2. CASE ~ok
    <3>1. run' = [run EXCEPT ![r] = [run[r] EXCEPT !.phase = "report_pending", !.rep = "zero"]]
      BY <1>1, <2>2 DEF RecoverStartAck
    <3>2. place' = "sub" /\ inhand' = r
      BY <2>2 DEF RecoverStartAck, InHand
    <3> QED BY <1>1, <3>1, <3>2, RowSteps DEF RunReports
  <2> QED BY <2>1, <2>2
<1>3. /\ run' \in [Runs -> Optional(RunRows)] /\ run'[r] = x
      /\ \A q \in Runs : q # r => run'[q] = run[q]
      /\ \A q \in Runs : run[q] # None => run'[q] # None
  BY <1>1, <1>2, RunTable
<1>4. ManagerTypeOK'
  <2>1. place' \in Places \cup Calls \cup TakeoverOps
    BY BoundsAssumption DEF MInv, ManagerTypeOK, RecoverStartAck, Read, Left, InHand,
       Places, Calls, TakeoverOps
  <2>2. duties' \subseteq (IF ret' \in {"holds", "tko"} THEN TakeoverOps ELSE Runs)
    BY BoundsAssumption DEF MInv, ManagerTypeOK, RecoverStartAck, Read, Left, InHand,
       Runs, Batches
  <2>3. inhand' \in Runs
    BY <1>1, <1>2
  <2>4. run' \in [Runs -> Optional(RunRows)]
    BY <1>3
  <2>5. managerFaults' \in 0..MaxManagerFaults
    BY BoundsAssumption DEF MInv, ManagerTypeOK, RecoverStartAck, Read, Left, InHand
  <2> QED BY <2>1, <2>2, <2>3, <2>4, <2>5 DEF MInv, ManagerTypeOK, RecoverStartAck
<1>5. PlaceInv'
  BY DEF MInv, RecoverStartAck, Read, Left, InHand, PlaceInv, Places, Calls, TakeoverOps
<1>6. DutyInv'
  <2>1. duties' = {} \/ (duties' \subseteq duties /\ ret' = ret)
    BY <1>1 DEF RecoverStartAck, Left, After, OnError
  <2> QED BY <1>1, <1>3, <2>1, DutiesShrink DEF RecoverStartAck
<1>7. HandInv'
  <2>1. run[r].phase = "start_ack_pending" /\ run[r] \in RunRows
    BY <1>1, RowSteps DEF RecoverStartAck
  <2> QED BY <1>1, <1>2, <1>3, <2>1, Present DEF HandInv, Calls, TakeoverOps, RunRows
<1>8. RunInv'
  <2>1. hlp' = hlp /\ acked' = acked /\ run[r].phase = "start_ack_pending"
    BY DEF RecoverStartAck
  <2>2. Agree(run[r], hlp[r], acked[r]) /\ run[r] \in RunRows
    BY <1>1, RowSteps DEF MInv, RunInv
  <2>3. CASE x = [run[r] EXCEPT !.phase = "report_pending", !.rep = "zero"]
    <3>1. Agree(x, hlp[r], acked[r])
      BY <1>1, <2>1, <2>2, <2>3, Present DEF Agree, RunRows, RunReports
    <3> QED BY <1>1, <1>3, <2>1, <3>1, AgreesAfter
  <2>4. CASE x = run[r]
    BY <1>1, <1>3, <2>1, <2>2, <2>4, AgreesAfter
  <2> QED BY <1>2, <2>3, <2>4
<1>9. OffIsSettled'
  BY DEF MInv, RecoverStartAck, OffIsSettled
<1>10. OneAttemptPerEpisode'
  BY DEF MInv, RecoverStartAck, OneAttemptPerEpisode
<1>11. AnchorInv'
  BY DEF MInv, RecoverStartAck, AnchorInv
<1>12. OrderInv'
  BY DEF MInv, RecoverStartAck, OrderInv
<1>13. CursorInv'
  BY DEF MInv, RecoverStartAck, CursorInv, CursorIsObserved, WasOpen
<1> QED BY <1>4, <1>5, <1>6, <1>7, <1>8, <1>9, <1>10, <1>11, <1>12, <1>13 DEF MInv

LEMMA SubmitRunReportKeeps ==
  ASSUME MInv, NEW r \in Runs,
         NEW o \in CallOutcomes, (place = "sub" /\ r = inhand) \/ (place \in {"runs", "adv"} /\ r \in duties),
         run[r].phase = "report_pending", SubmitRunReport(r, o)
  PROVE  MInv'
<1>1. /\ r \in Runs /\ run[r] # None /\ run[r].rep \in RunReports /\ run[r].rep # None
      /\ ret \in {"resv", "runs", "adv", "adm", "listed", "disp"}
  BY InDuties, InHands, ReportIs
<1>2. PICK x \in RunRows :
        /\ run' = [run EXCEPT ![r] = x] /\ place' \in {"idle", "round", ret}
        /\ \/ x = run[r]
           \/ \E q \in TerminalPhases : x = [run[r] EXCEPT !.phase = q]
  <2>1. CASE o = "ok"
    <3>1. PICK q \in TerminalPhases : run' = [run EXCEPT ![r] = [run[r] EXCEPT !.phase = q]]
      BY <1>1, <2>1 DEF SubmitRunReport, RunReports, TerminalPhases
    <3> QED BY <1>1, <2>1, <3>1, RowSteps DEF SubmitRunReport, After, TerminalPhases
  <2>2. CASE o # "ok"
    <3>1. run' = run /\ place' \in {"idle", "round"}
      BY <2>2 DEF SubmitRunReport, After, OnError
    <3> QED BY <1>1, <3>1, RowSteps, SameRow
  <2> QED BY <2>1, <2>2
<1>3. /\ run' \in [Runs -> Optional(RunRows)] /\ run'[r] = x
      /\ \A q \in Runs : q # r => run'[q] = run[q]
      /\ \A q \in Runs : run[q] # None => run'[q] # None
  BY <1>1, <1>2, RunTable
<1>4. /\ acked' \in [Runs -> RunReports \cup {"none", "reviewing"}]
      /\ \A q \in Runs : q # r => acked'[q] = acked[q]
      /\ acked'[r] \in {acked[r], run[r].rep} /\ run[r].rep # "none"
  BY <1>1 DEF MInv, ManagerTypeOK, SubmitRunReport, RunReports, TerminalPhases
<1>5. ManagerTypeOK'
  <2>1. place' \in Places \cup Calls \cup TakeoverOps
    BY BoundsAssumption DEF MInv, ManagerTypeOK, SubmitRunReport, Outcome, Effect, After,
       OnError, Left, InHand, CallOutcomes, Places, Calls, TakeoverOps
  <2>2. ret' \in Places
    BY BoundsAssumption DEF MInv, ManagerTypeOK, SubmitRunReport, Outcome, Effect, After,
       OnError, Left, InHand, CallOutcomes, Places
  <2>3. duties' \subseteq (IF ret' \in {"holds", "tko"} THEN TakeoverOps ELSE Runs)
    BY BoundsAssumption DEF MInv, ManagerTypeOK, SubmitRunReport, Outcome, Effect, After,
       OnError, Left, InHand, CallOutcomes, Runs, Batches
  <2>4. inhand' \in Runs
    BY BoundsAssumption DEF MInv, ManagerTypeOK, SubmitRunReport, Outcome, Effect, After,
       OnError, Left, InHand, CallOutcomes, Runs, Batches
  <2>5. run' \in [Runs -> Optional(RunRows)]
    BY <1>3
  <2>6. acked' \in [Runs -> RunReports \cup {"none", "reviewing"}]
    BY <1>4
  <2>7. managerFaults' \in 0..MaxManagerFaults
    BY BoundsAssumption DEF MInv, ManagerTypeOK, SubmitRunReport, Outcome, Effect, After,
       OnError, Left, InHand, CallOutcomes
  <2> QED BY <2>1, <2>2, <2>3, <2>4, <2>5, <2>6, <2>7 DEF MInv, ManagerTypeOK,
             SubmitRunReport
<1>6. PlaceInv'
  BY DEF MInv, SubmitRunReport, Outcome, Effect, After, OnError, Left, InHand,
     CallOutcomes, PlaceInv, Places, Calls, TakeoverOps
<1>7. DutyInv'
  <2>1. duties' = {} \/ (duties' \subseteq duties /\ ret' = ret)
    BY <1>1 DEF SubmitRunReport, Left, After, OnError
  <2> QED BY <1>1, <1>3, <2>1, DutiesShrink DEF SubmitRunReport
<1>8. HandInv'
  <2>1. place' \in {"idle", "round", "resv", "runs", "adv", "adm", "listed", "disp"}
    BY <1>1, <1>2
  <2> QED BY <2>1 DEF HandInv, Calls, TakeoverOps
<1>9. RunInv'
  <2>1. hlp' = hlp
    BY DEF SubmitRunReport
  <2>2. Agree(run[r], hlp[r], acked[r]) /\ run[r] \in RunRows
    BY <1>1, RowSteps DEF MInv, RunInv
  <2>3. Agree(x, hlp[r], acked'[r])
    <3>1. CASE x = run[r]
      BY <1>4, <2>2, <3>1 DEF Agree
    <3>2. ASSUME NEW q \in TerminalPhases, x = [run[r] EXCEPT !.phase = q]
          PROVE  Agree(x, hlp[r], acked'[r])
      BY <1>1, <1>4, <2>2, <3>2, Present DEF Agree, RunRows, TerminalPhases
    <3> QED BY <1>2, <3>1, <3>2
  <2> QED BY <1>1, <1>3, <1>4, <2>1, <2>3, AgreesAfter
<1>10. OffIsSettled'
  BY DEF MInv, SubmitRunReport, OffIsSettled
<1>11. OneAttemptPerEpisode'
  BY DEF MInv, SubmitRunReport, OneAttemptPerEpisode
<1>12. AnchorInv'
  BY DEF MInv, SubmitRunReport, AnchorInv
<1>13. OrderInv'
  BY DEF MInv, SubmitRunReport, OrderInv
<1>14. CursorInv'
  BY DEF MInv, SubmitRunReport, CursorInv, CursorIsObserved, WasOpen
<1> QED BY <1>5, <1>6, <1>7, <1>8, <1>9, <1>10, <1>11, <1>12, <1>13, <1>14 DEF MInv

LEMMA LeaveRunKeeps ==
  ASSUME MInv, NEW r \in duties, place = "adv", LeaveRun(r)
  PROVE  MInv'
<1>1. ManagerTypeOK'
  <2>1. duties' \subseteq (IF ret' \in {"holds", "tko"} THEN TakeoverOps ELSE Runs)
    BY BoundsAssumption DEF MInv, ManagerTypeOK, LeaveRun, Runs, Batches
  <2> QED BY <2>1 DEF MInv, ManagerTypeOK, LeaveRun
<1>2. PlaceInv'
  BY DEF MInv, LeaveRun, PlaceInv, Places, Calls, TakeoverOps
<1>3. DutyInv'
  BY DEF MInv, LeaveRun, DutyInv, Mine, ListedTakeovers
<1>4. HandInv'
  BY DEF MInv, LeaveRun, HandInv, Calls, TakeoverOps
<1>5. RunInv'
  BY DEF MInv, LeaveRun, RunInv, Agree, Running, TerminalPhases, FinalGuidance
<1>6. OffIsSettled'
  BY DEF MInv, LeaveRun, OffIsSettled
<1>7. OneAttemptPerEpisode'
  BY DEF MInv, LeaveRun, OneAttemptPerEpisode
<1>8. AnchorInv'
  BY DEF MInv, LeaveRun, AnchorInv
<1>9. OrderInv'
  BY DEF MInv, LeaveRun, OrderInv
<1>10. CursorInv'
  BY DEF MInv, LeaveRun, CursorInv, CursorIsObserved, WasOpen
<1> QED BY <1>1, <1>2, <1>3, <1>4, <1>5, <1>6, <1>7, <1>8, <1>9, <1>10 DEF MInv

LEMMA DispatchPendingGuidanceKeeps ==
  ASSUME MInv, DispatchPendingGuidance
  PROVE  MInv'
<1>1. PICK r \in duties :
        /\ IF GuidanceDue(r)
           THEN run' = [run EXCEPT ![r].att = TRUE] /\ place' = "steer" /\ inhand' = r
           ELSE UNCHANGED <<run, place, inhand>>
        /\ duties' = duties \ {r}
  BY DEF DispatchPendingGuidance
<1>2. /\ place = "disp" /\ ret = place /\ ret' = ret /\ inhand \in Runs
      /\ r \in Runs /\ run[r] # None /\ run[r] \in RunRows
      /\ Agree(run[r], hlp[r], acked[r]) /\ hlp' = hlp /\ acked' = acked /\ pol' = pol
  BY InDuties, InHands DEF DispatchPendingGuidance, MInv, RunInv
<1>3. PICK x \in RunRows :
        /\ run' = [run EXCEPT ![r] = x]
        /\ \/ x = run[r] /\ place' = place /\ inhand' = inhand
           \/ /\ x = [run[r] EXCEPT !.att = TRUE] /\ place' = "steer" /\ inhand' = r
              /\ ~run[r].att /\ pol.mode = "auto_steer"
  <2>1. CASE GuidanceDue(r)
    <3>1. run' = [run EXCEPT ![r] = [run[r] EXCEPT !.att = TRUE]]
      BY <1>1, <1>2, <2>1
    <3>2. ~run[r].att /\ pol.mode = "auto_steer"
      BY <2>1 DEF GuidanceDue
    <3> QED BY <1>1, <1>2, <2>1, <3>1, <3>2, RowSteps
  <2>2. CASE ~GuidanceDue(r)
    BY <1>1, <1>2, <2>2, SameRow
  <2> QED BY <2>1, <2>2
<1>4. /\ run' \in [Runs -> Optional(RunRows)] /\ run'[r] = x
      /\ \A q \in Runs : q # r => run'[q] = run[q]
      /\ \A q \in Runs : run[q] # None => run'[q] # None
  BY <1>2, <1>3, RunTable
<1>5. ManagerTypeOK'
  <2>1. place' \in Places \cup Calls \cup TakeoverOps
    BY <1>2, <1>3 DEF Places, Calls
  <2>2. duties' \subseteq (IF ret' \in {"holds", "tko"} THEN TakeoverOps ELSE Runs)
    BY <1>1, <1>2 DEF MInv, ManagerTypeOK
  <2>3. inhand' \in Runs
    BY <1>2, <1>3
  <2>4. run' \in [Runs -> Optional(RunRows)]
    BY <1>4
  <2> QED BY <2>1, <2>2, <2>3, <2>4 DEF MInv, ManagerTypeOK, DispatchPendingGuidance
<1>6. PlaceInv'
  BY <1>2, <1>3 DEF PlaceInv, Calls, TakeoverOps, Places
<1>7. DutyInv'
  BY <1>1, <1>2, <1>4, DutiesShrink DEF DispatchPendingGuidance
<1>8. HandInv'
  <2>1. CASE place' = place
    BY <1>2, <2>1 DEF HandInv, Calls, TakeoverOps
  <2>2. CASE /\ x = [run[r] EXCEPT !.att = TRUE] /\ place' = "steer" /\ inhand' = r
             /\ ~run[r].att /\ pol.mode = "auto_steer"
    <3>1. x.att /\ x.guid = None /\ hlp[r].steers = 0
      BY <1>2, <2>2 DEF RunRows, Agree
    <3> QED BY <1>2, <1>4, <2>2, <3>1, Present DEF HandInv, Calls, TakeoverOps
  <2> QED BY <1>3, <2>1, <2>2
<1>9. RunInv'
  <2>1. Agree(x, hlp[r], acked[r])
    <3>1. CASE x = run[r]
      BY <1>2, <3>1
    <3>2. CASE x = [run[r] EXCEPT !.att = TRUE]
      BY <1>2, <3>2, Present DEF Agree, RunRows
    <3> QED BY <1>3, <3>1, <3>2
  <2> QED BY <1>2, <1>4, <2>1, AgreesAfter
<1>10. OffIsSettled'
  BY DEF MInv, DispatchPendingGuidance, OffIsSettled
<1>11. OneAttemptPerEpisode'
  BY DEF MInv, DispatchPendingGuidance, OneAttemptPerEpisode
<1>12. AnchorInv'
  BY DEF MInv, DispatchPendingGuidance, AnchorInv
<1>13. OrderInv'
  BY DEF MInv, DispatchPendingGuidance, OrderInv
<1>14. CursorInv'
  BY DEF MInv, DispatchPendingGuidance, CursorInv, CursorIsObserved, WasOpen
<1> QED BY <1>5, <1>6, <1>7, <1>8, <1>9, <1>10, <1>11, <1>12, <1>13, <1>14 DEF MInv

LEMMA DispatchGuidanceKeeps ==
  ASSUME MInv, NEW o \in CallOutcomes, NEW refuses \in BOOLEAN,
         DispatchGuidance(o, refuses)
  PROVE  MInv'
<1>1. /\ inhand \in Runs /\ run[inhand] # None /\ run[inhand] \in RunRows
      /\ run[inhand].att /\ run[inhand].guid = None /\ hlp[inhand].steers = 0
      /\ Agree(run[inhand], hlp[inhand], acked[inhand]) /\ acked' = acked
      /\ ret \in {"resv", "runs", "adv", "adm", "listed", "disp"}
  BY InHands DEF MInv, HandInv, RunInv, DispatchGuidance
<1>2. PICK x \in RunRows :
        /\ run' = [run EXCEPT ![inhand] = x] /\ place' \in {"idle", "round", ret}
        /\ \/ x = run[inhand]
           \/ x = [run[inhand] EXCEPT !.guid = "unknown"]
           \/ Effect(o) /\ x = [run[inhand] EXCEPT !.guid = IF refuses THEN "refused" ELSE "pending"]
  <2>1. CASE o = "ok"
    <3>1. run' = [run EXCEPT ![inhand] = [run[inhand] EXCEPT !.guid = IF refuses THEN "refused" ELSE "pending"]]
      BY <1>1, <2>1 DEF DispatchGuidance
    <3> QED BY <1>1, <2>1, <3>1, RowSteps DEF DispatchGuidance, After, Effect
  <2>2. CASE o = "crash"
    <3>1. run' = run /\ place' = "idle"
      BY <2>2 DEF DispatchGuidance, After
    <3> QED BY <1>1, <3>1, RowSteps, SameRow
  <2>3. CASE o \notin {"ok", "crash"}
    <3>1. run' = [run EXCEPT ![inhand] = [run[inhand] EXCEPT !.guid = "unknown"]]
      BY <1>1, <2>3 DEF DispatchGuidance
    <3> QED BY <1>1, <2>3, <3>1, RowSteps DEF DispatchGuidance, After, OnError
  <2> QED BY <2>1, <2>2, <2>3
<1>3. /\ run' \in [Runs -> Optional(RunRows)] /\ run'[inhand] = x
      /\ \A q \in Runs : q # inhand => run'[q] = run[q]
      /\ \A q \in Runs : run[q] # None => run'[q] # None
  BY <1>1, <1>2, RunTable
<1>4. /\ hlp' \in [Runs -> HelperRuns]
      /\ \A q \in Runs : q # inhand => hlp'[q] = hlp[q]
      /\ hlp'[inhand].starts = hlp[inhand].starts
      /\ ~Effect(o) => hlp'[inhand] = hlp[inhand]
      /\ Effect(o) => hlp'[inhand].steers = 1
                      /\ hlp'[inhand].guid = IF refuses THEN "refused" ELSE "pending"
  <2>1. hlp \in [Runs -> HelperRuns] /\ hlp[inhand] \in HelperRuns
    BY <1>1 DEF MInv, ManagerTypeOK
  <2>2. CASE Effect(o)
    <3>1. PICK s \in FinalGuidance \cup {"pending"} :
             /\ s = IF refuses THEN "refused" ELSE "pending"
             /\ hlp' = [hlp EXCEPT ![inhand].steers = @ + 1, ![inhand].guid = s]
      BY <2>2 DEF DispatchGuidance, FinalGuidance
    <3>2. hlp' \in [Runs -> HelperRuns]
      BY <1>1, <3>1, HelperSteps
    <3> QED BY <1>1, <2>1, <2>2, <3>1, <3>2 DEF HelperRuns
  <2>3. CASE ~Effect(o)
    <3>1. hlp' = hlp
      BY <2>3 DEF DispatchGuidance
    <3> QED BY <1>1, <2>1, <2>3, <3>1
  <2> QED BY <2>2, <2>3
<1>5. ManagerTypeOK'
  <2>1. place' \in Places \cup Calls \cup TakeoverOps
    BY BoundsAssumption DEF MInv, ManagerTypeOK, DispatchGuidance, Outcome, Effect, After,
       OnError, Left, InHand, CallOutcomes, FinalGuidance, Places, Calls, TakeoverOps
  <2>2. ret' \in Places
    BY BoundsAssumption DEF MInv, ManagerTypeOK, DispatchGuidance, Outcome, Effect, After,
       OnError, Left, InHand, CallOutcomes, FinalGuidance, Places
  <2>3. duties' \subseteq (IF ret' \in {"holds", "tko"} THEN TakeoverOps ELSE Runs)
    BY BoundsAssumption DEF MInv, ManagerTypeOK, DispatchGuidance, Outcome, Effect, After,
       OnError, Left, InHand, CallOutcomes, FinalGuidance, Runs, Batches
  <2>4. inhand' \in Runs
    BY BoundsAssumption DEF MInv, ManagerTypeOK, DispatchGuidance, Outcome, Effect, After,
       OnError, Left, InHand, CallOutcomes, FinalGuidance, Runs, Batches
  <2>5. run' \in [Runs -> Optional(RunRows)]
    BY <1>3
  <2>6. hlp' \in [Runs -> HelperRuns]
    BY <1>4
  <2>7. managerFaults' \in 0..MaxManagerFaults
    BY BoundsAssumption DEF MInv, ManagerTypeOK, DispatchGuidance, Outcome, Effect, After,
       OnError, Left, InHand, CallOutcomes, FinalGuidance
  <2> QED BY <2>1, <2>2, <2>3, <2>4, <2>5, <2>6, <2>7 DEF MInv, ManagerTypeOK,
             DispatchGuidance
<1>6. PlaceInv'
  BY DEF MInv, DispatchGuidance, Outcome, Effect, After, OnError, Left, InHand,
     CallOutcomes, FinalGuidance, PlaceInv, Places, Calls, TakeoverOps
<1>7. DutyInv'
  <2>1. duties' = {} \/ (duties' \subseteq duties /\ ret' = ret)
    BY <1>1 DEF DispatchGuidance, Left, After, OnError
  <2> QED BY <1>1, <1>3, <2>1, DutiesShrink DEF DispatchGuidance
<1>8. HandInv'
  <2>1. place' \in {"idle", "round", "resv", "runs", "adv", "adm", "listed", "disp"}
    BY <1>1, <1>2
  <2> QED BY <2>1 DEF HandInv, Calls, TakeoverOps
<1>9. RunInv'
  <2>1. \A g \in {"unknown", "refused", "pending"} :
          x = [run[inhand] EXCEPT !.guid = g] =>
            /\ x.phase = run[inhand].phase /\ x.rep = run[inhand].rep /\ x.att = run[inhand].att
            /\ x.guid = g
    BY <1>1 DEF RunRows
  <2>2. Agree(x, hlp'[inhand], acked[inhand])
    <3>1. CASE x = run[inhand] \/ x = [run[inhand] EXCEPT !.guid = "unknown"]
      <4>1. x.guid # "pending" /\ x.guid \notin FinalGuidance
        BY <1>1, <2>1, <3>1, NoRow DEF FinalGuidance
      <4>2. x.phase = run[inhand].phase /\ x.rep = run[inhand].rep /\ x.att = run[inhand].att
        BY <2>1, <3>1
      <4>3. hlp'[inhand].steers = 0 => hlp'[inhand].guid = "none"
        BY <1>1, <1>4 DEF Agree
      <4>4. hlp'[inhand].steers \in {0, 1}
        BY <1>1, <1>4
      <4> QED BY <1>1, <1>3, <1>4, <4>1, <4>2, <4>3, <4>4 DEF Agree
    <3>2. CASE Effect(o) /\ x = [run[inhand] EXCEPT !.guid = IF refuses THEN "refused" ELSE "pending"]
      BY <1>1, <1>3, <1>4, <2>1, <3>2 DEF Agree, FinalGuidance
    <3> QED BY <1>2, <3>1, <3>2
  <2> QED BY <1>1, <1>3, <1>4, <2>2, AgreesAfter
<1>10. OffIsSettled'
  BY InDuties, InHands, ReportIs DEF MInv, DispatchGuidance, Outcome, Effect, After,
     OnError, Left, InHand, CallOutcomes, FinalGuidance, OffIsSettled, HandInv, RunInv,
     Agree
<1>11. OneAttemptPerEpisode'
  BY DEF MInv, DispatchGuidance, OneAttemptPerEpisode
<1>12. AnchorInv'
  BY DEF MInv, DispatchGuidance, AnchorInv
<1>13. OrderInv'
  BY DEF MInv, DispatchGuidance, OrderInv
<1>14. CursorInv'
  BY DEF MInv, DispatchGuidance, CursorInv, CursorIsObserved, WasOpen
<1> QED BY <1>5, <1>6, <1>7, <1>8, <1>9, <1>10, <1>11, <1>12, <1>13, <1>14 DEF MInv

LEMMA RecoverPendingGuidanceKeeps ==
  ASSUME MInv, RecoverPendingGuidance
  PROVE  MInv'
<1>1. PICK r \in duties, o \in {"ok", "fail"} :
        /\ run' = CASE o = "ok" /\ hlp[r].guid # "none" -> PersistGuidance(r, hlp[r].guid)
                    [] o = "ok" /\ hlp[r].guid = "none" -> PersistGuidance(r, "unknown")
                    [] o = "fail" /\ run[r].guid = None -> PersistGuidance(r, "unknown")
                    [] OTHER -> run
        /\ place' \in {"idle", place} /\ Left(duties \ {r})
  BY DEF RecoverPendingGuidance
<1>2. /\ place = "guid" /\ ret = place /\ ret' = place'
      /\ r \in Runs /\ run[r] # None /\ run[r] \in RunRows /\ run[r].att /\ hlp[r] \in HelperRuns
      /\ Agree(run[r], hlp[r], acked[r]) /\ hlp' = hlp /\ acked' = acked
  BY InDuties DEF RecoverPendingGuidance, MInv, ManagerTypeOK, RunInv
<1>3. PICK x \in RunRows :
        /\ run' = [run EXCEPT ![r] = x]
        /\ \/ x = run[r]
           \/ run[r].guid \notin FinalGuidance /\ x = [run[r] EXCEPT !.guid = "unknown"]
           \/ /\ run[r].guid \notin FinalGuidance /\ hlp[r].guid # "none"
              /\ x = [run[r] EXCEPT !.guid = hlp[r].guid]
  <2>1. CASE run' = run
    BY <1>2, <2>1, SameRow
  <2>2. ASSUME NEW g \in {hlp[r].guid, "unknown"}, g # "none", run' = PersistGuidance(r, g)
        PROVE  \E x \in RunRows :
                 /\ run' = [run EXCEPT ![r] = x]
                 /\ x = run[r] \/ (run[r].guid \notin FinalGuidance /\ x = [run[r] EXCEPT !.guid = g])
    <3>1. CASE run[r].guid \in FinalGuidance
      <4>1. run' = [run EXCEPT ![r] = [run[r] EXCEPT !.guid = run[r].guid]]
        BY <1>2, <2>2, <3>1 DEF PersistGuidance
      <4>2. [run[r] EXCEPT !.guid = run[r].guid] = run[r]
        BY <1>2 DEF RunRows
      <4> QED BY <1>2, <4>1, <4>2
    <3>2. CASE run[r].guid \notin FinalGuidance
      <4>1. run' = [run EXCEPT ![r] = [run[r] EXCEPT !.guid = g]]
        BY <1>2, <2>2, <3>2 DEF PersistGuidance
      <4>2. g \in {"available", "cancelled", "refused", "pending", "unknown"}
        BY <1>2, <2>2 DEF HelperRuns, FinalGuidance
      <4> QED BY <1>2, <3>2, <4>1, <4>2, RowSteps
    <3> QED BY <3>1, <3>2
  <2>3. \/ run' = run
        \/ hlp[r].guid # "none" /\ run' = PersistGuidance(r, hlp[r].guid)
        \/ run' = PersistGuidance(r, "unknown")
    BY <1>1
  <2> QED BY <2>1, <2>2, <2>3
<1>4. /\ run' \in [Runs -> Optional(RunRows)] /\ run'[r] = x
      /\ \A q \in Runs : q # r => run'[q] = run[q]
      /\ \A q \in Runs : run[q] # None => run'[q] # None
  BY <1>2, <1>3, RunTable
<1>5. ManagerTypeOK'
  <2>1. place' \in Places \cup Calls \cup TakeoverOps
    BY BoundsAssumption DEF MInv, ManagerTypeOK, RecoverPendingGuidance, PersistGuidance,
       Outcome, Left, CallOutcomes, FinalGuidance, Places, Calls, TakeoverOps
  <2>2. ret' \in Places
    BY BoundsAssumption DEF MInv, ManagerTypeOK, RecoverPendingGuidance, PersistGuidance,
       Outcome, Left, CallOutcomes, FinalGuidance, Places
  <2>3. duties' \subseteq (IF ret' \in {"holds", "tko"} THEN TakeoverOps ELSE Runs)
    BY ManagerBounds, InDuties, InHands DEF MInv, ManagerTypeOK, RecoverPendingGuidance,
       PersistGuidance, Outcome, Left, CallOutcomes, FinalGuidance, Runs, Batches
  <2>4. run' \in [Runs -> Optional(RunRows)]
    BY <1>4
  <2>5. managerFaults' \in 0..MaxManagerFaults
    BY BoundsAssumption DEF MInv, ManagerTypeOK, RecoverPendingGuidance, PersistGuidance,
       Outcome, Left, CallOutcomes, FinalGuidance
  <2> QED BY <2>1, <2>2, <2>3, <2>4, <2>5 DEF MInv, ManagerTypeOK, RecoverPendingGuidance
<1>6. PlaceInv'
  BY DEF MInv, RecoverPendingGuidance, PersistGuidance, Outcome, Left, CallOutcomes,
     FinalGuidance, PlaceInv, Places, Calls, TakeoverOps
<1>7. DutyInv'
  <2>1. x.att
    BY <1>2, <1>3 DEF RunRows
  <2>2. duties' = {} \/ (duties' \subseteq duties /\ ret' = ret)
    BY <1>1, <1>2 DEF Left
  <2> QED BY <1>2, <1>4, <2>1, <2>2, DutiesShrink DEF RecoverPendingGuidance
<1>8. HandInv'
  BY <1>1, <1>2 DEF HandInv, Calls, TakeoverOps
<1>9. RunInv'
  <2>1. \A g \in {"unknown", hlp[r].guid} :
          x = [run[r] EXCEPT !.guid = g] =>
            x.phase = run[r].phase /\ x.rep = run[r].rep /\ x.att = run[r].att /\ x.guid = g
    BY <1>2 DEF RunRows
  <2>2. Agree(x, hlp[r], acked[r])
    <3>1. CASE x = run[r]
      BY <1>2, <3>1
    <3>2. CASE x = [run[r] EXCEPT !.guid = "unknown"]
      BY <1>2, <1>4, <2>1, <3>2 DEF Agree, FinalGuidance
    <3>3. CASE hlp[r].guid # "none" /\ x = [run[r] EXCEPT !.guid = hlp[r].guid]
      BY <1>2, <1>4, <2>1, <3>3 DEF Agree, FinalGuidance
    <3> QED BY <1>3, <3>1, <3>2, <3>3
  <2> QED BY <1>2, <1>4, <2>2, AgreesAfter
<1>10. OffIsSettled'
  BY DEF MInv, RecoverPendingGuidance, OffIsSettled
<1>11. OneAttemptPerEpisode'
  BY DEF MInv, RecoverPendingGuidance, OneAttemptPerEpisode
<1>12. AnchorInv'
  BY DEF MInv, RecoverPendingGuidance, AnchorInv
<1>13. OrderInv'
  BY DEF MInv, RecoverPendingGuidance, OrderInv
<1>14. CursorInv'
  BY DEF MInv, RecoverPendingGuidance, CursorInv, CursorIsObserved, WasOpen
<1> QED BY <1>5, <1>6, <1>7, <1>8, <1>9, <1>10, <1>11, <1>12, <1>13, <1>14 DEF MInv

LEMMA FenceOffGuidanceKeeps ==
  ASSUME MInv, NEW o \in CallOutcomes, place \in {"pol", "fpol", "round"},
         FenceOffGuidance(o)
  PROVE  MInv'
<1>1. PICK r \in PendingGuidance :
        LET after == IF hlp[r].guid = "pending" THEN "cancelled" ELSE hlp[r].guid IN
        /\ hlp' = IF Effect(o) THEN [hlp EXCEPT ![r].guid = after] ELSE hlp
        /\ run' = IF o = "ok" THEN PersistGuidance(r, after) ELSE run
  BY DEF FenceOffGuidance
<1> DEFINE after == IF hlp[r].guid = "pending" THEN "cancelled" ELSE hlp[r].guid
<1>2. /\ r \in Runs /\ run[r] # None /\ run[r].guid = "pending" /\ run[r] \in RunRows
      /\ hlp \in [Runs -> HelperRuns] /\ hlp[r] \in HelperRuns
      /\ Agree(run[r], hlp[r], acked[r]) /\ acked' = acked /\ ret' = place'
      /\ ret = place /\ duties' \in {{}, duties}
  BY InDuties, RowSteps DEF FenceOffGuidance, PendingGuidance, MInv, ManagerTypeOK, RunInv, Left
<1>3. after \in FinalGuidance
  BY <1>2 DEF Agree, HelperRuns, FinalGuidance
<1>4. /\ hlp' \in [Runs -> HelperRuns]
      /\ \A q \in Runs : q # r => hlp'[q] = hlp[q]
      /\ hlp'[r].starts = hlp[r].starts /\ hlp'[r].steers = hlp[r].steers
      /\ hlp'[r].guid \in {hlp[r].guid, after}
      /\ o = "ok" => hlp'[r].guid = after
  <2>1. CASE Effect(o)
    <3>1. PICK s \in FinalGuidance : s = after /\ hlp' = [hlp EXCEPT ![r].guid = s]
      BY <1>1, <1>3, <2>1
    <3> HIDE DEF after
    <3>2. hlp' \in [Runs -> HelperRuns]
      BY <1>2, <3>1, HelperSteps
    <3> QED BY <1>2, <3>1, <3>2 DEF HelperRuns
  <2>2. CASE ~Effect(o)
    BY <1>1, <1>2, <2>2 DEF Effect
  <2> QED BY <2>1, <2>2
<1>5. PICK x \in RunRows :
        /\ run' = [run EXCEPT ![r] = x]
        /\ x = run[r] \/ (o = "ok" /\ x = [run[r] EXCEPT !.guid = after])
  <2>1. CASE o = "ok"
    <3>1. run' = [run EXCEPT ![r] = [run[r] EXCEPT !.guid = after]]
      BY <1>1, <1>2, <2>1 DEF PersistGuidance, FinalGuidance
    <3> HIDE DEF after
    <3> QED BY <1>2, <1>3, <2>1, <3>1, RowSteps DEF FinalGuidance
  <2>2. CASE o # "ok"
    BY <1>1, <1>2, <2>2, SameRow
  <2> QED BY <2>1, <2>2
<1> HIDE DEF after
<1>6. /\ run' \in [Runs -> Optional(RunRows)] /\ run'[r] = x
      /\ \A q \in Runs : q # r => run'[q] = run[q]
      /\ \A q \in Runs : run[q] # None => run'[q] # None
  BY <1>2, <1>5, RunTable
<1>9. ManagerTypeOK'
  <2>1. place' \in Places \cup Calls \cup TakeoverOps
    BY BoundsAssumption DEF MInv, ManagerTypeOK, FenceOffGuidance, PendingGuidance,
       PersistGuidance, Outcome, Effect, After, OnError, Left, CallOutcomes,
       FinalGuidance, Places, Calls, TakeoverOps
  <2>2. ret' \in Places
    BY BoundsAssumption DEF MInv, ManagerTypeOK, FenceOffGuidance, PendingGuidance,
       PersistGuidance, Outcome, Effect, After, OnError, Left, CallOutcomes,
       FinalGuidance, Places
  <2>3. duties' \subseteq (IF ret' \in {"holds", "tko"} THEN TakeoverOps ELSE Runs)
    <3>1. duties' = {} \/ (ret' = place /\ duties' = duties)
      BY <1>2 DEF FenceOffGuidance, Left, After, OnError
    <3> QED BY <1>2, <3>1 DEF MInv, ManagerTypeOK
  <2>4. run' \in [Runs -> Optional(RunRows)]
    BY <1>6
  <2>5. hlp' \in [Runs -> HelperRuns]
    BY <1>4
  <2>6. managerFaults' \in 0..MaxManagerFaults
    BY BoundsAssumption DEF MInv, ManagerTypeOK, FenceOffGuidance, PendingGuidance,
       PersistGuidance, Outcome, Effect, After, OnError, Left, CallOutcomes, FinalGuidance
  <2> QED BY <2>1, <2>2, <2>3, <2>4, <2>5, <2>6 DEF MInv, ManagerTypeOK, FenceOffGuidance
<1>10. PlaceInv'
  BY DEF MInv, FenceOffGuidance, PendingGuidance, PersistGuidance, Outcome, Effect, After,
     OnError, Left, CallOutcomes, FinalGuidance, PlaceInv, Places, Calls, TakeoverOps
<1>11. DutyInv'
  <2>1. duties' = {} \/ (duties' \subseteq duties /\ ret' = ret)
    BY <1>2 DEF FenceOffGuidance, Left, After, OnError
  <2> QED BY <1>2, <1>6, <2>1, DutiesShrink DEF FenceOffGuidance
<1>12. HandInv'
  <2>1. place' \in {"pol", "fpol", "round", "idle"}
    BY <1>2 DEF FenceOffGuidance, After, OnError
  <2> QED BY <2>1 DEF HandInv, Calls, TakeoverOps
<1>13. RunInv'
  <2>1. x = [run[r] EXCEPT !.guid = after] =>
          x.phase = run[r].phase /\ x.rep = run[r].rep /\ x.att = run[r].att /\ x.guid = after
    BY <1>2 DEF RunRows
  <2>2. after # "none" /\ after # "pending"
    BY <1>3 DEF FinalGuidance
  <2>3. run[r].guid = "pending" /\ "pending" \notin FinalGuidance /\ run[r].att
    BY <1>2, NoRow DEF FinalGuidance, Agree
  <2>4. Agree(x, hlp'[r], acked[r])
    BY <1>2, <1>3, <1>4, <1>5, <1>6, <2>1, <2>2, <2>3 DEF Agree
  <2> QED BY <1>2, <1>4, <1>6, <2>4, AgreesAfter
<1>14. OffIsSettled'
  <2>1. hlp'[r].guid = "pending" => hlp[r].guid = "pending"
    BY <1>3, <1>4 DEF FinalGuidance
  <2> QED BY <1>2, <1>4, <2>1 DEF MInv, OffIsSettled, FenceOffGuidance
<1>15. OneAttemptPerEpisode'
  BY DEF MInv, FenceOffGuidance, OneAttemptPerEpisode
<1>16. AnchorInv'
  BY DEF MInv, FenceOffGuidance, AnchorInv
<1>17. OrderInv'
  BY DEF MInv, FenceOffGuidance, OrderInv
<1>18. CursorInv'
  BY DEF MInv, FenceOffGuidance, CursorInv, CursorIsObserved, WasOpen
<1> QED BY <1>9, <1>10, <1>11, <1>12, <1>13, <1>14, <1>15, <1>16, <1>17, <1>18 DEF MInv

LEMMA ApplyPolicyKeeps ==
  ASSUME MInv, place \in {"pol", "fpol", "round"}, ApplyPolicy
  PROVE  MInv'
<1>1. ManagerTypeOK'
  <2>1. place' \in Places \cup Calls \cup TakeoverOps
    BY BoundsAssumption DEF MInv, ManagerTypeOK, ApplyPolicy, PolicyStatus,
       GuidanceSettled, ListedTakeovers, Steerable, AutomaticRuns, UnsettledRuns, Places,
       Calls, TakeoverOps
  <2>2. ret' \in Places
    BY BoundsAssumption DEF MInv, ManagerTypeOK, ApplyPolicy, PolicyStatus,
       GuidanceSettled, ListedTakeovers, Steerable, AutomaticRuns, UnsettledRuns, Places
  <2>3. duties' \subseteq (IF ret' \in {"holds", "tko"} THEN TakeoverOps ELSE Runs)
    BY BoundsAssumption DEF MInv, ManagerTypeOK, ApplyPolicy, PolicyStatus,
       GuidanceSettled, ListedTakeovers, Steerable, AutomaticRuns, UnsettledRuns, Runs,
       Batches
  <2>4. pol' \in Policies
    BY BoundsAssumption DEF MInv, ManagerTypeOK, ApplyPolicy, PolicyStatus,
       GuidanceSettled, ListedTakeovers, Steerable, AutomaticRuns, UnsettledRuns, Modes,
       Policies
  <2> QED BY <2>1, <2>2, <2>3, <2>4 DEF MInv, ManagerTypeOK, ApplyPolicy
<1>2. PlaceInv'
  BY DEF MInv, ApplyPolicy, PolicyStatus, GuidanceSettled, ListedTakeovers, Steerable,
     AutomaticRuns, UnsettledRuns, PlaceInv, Places, Calls, TakeoverOps
<1>3. DutyInv'
  BY DEF MInv, ApplyPolicy, PolicyStatus, GuidanceSettled, ListedTakeovers, Steerable,
     AutomaticRuns, UnsettledRuns, DutyInv, Mine
<1>4. HandInv'
  BY DEF MInv, ApplyPolicy, PolicyStatus, GuidanceSettled, ListedTakeovers, Steerable,
     AutomaticRuns, UnsettledRuns, HandInv, Calls, TakeoverOps
<1>5. RunInv'
  BY DEF MInv, ApplyPolicy, RunInv, Agree, Running, TerminalPhases, FinalGuidance
<1>6. OffIsSettled'
  <2>1. hlp' = hlp /\ (pol'.mode = "off" /\ pol'.status = "applied" /\ pol'.guard => GuidanceSettled)
    BY DEF ApplyPolicy, PolicyStatus
  <2>2. ASSUME GuidanceSettled, NEW r \in Runs PROVE hlp[r].guid # "pending"
    <3>1. Agree(run[r], hlp[r], acked[r])
      BY DEF MInv, RunInv
    <3>2. CASE run[r] = None \/ ~run[r].att
      BY <3>1, <3>2 DEF Agree
    <3>3. CASE run[r] # None /\ run[r].att
      BY <2>2, <3>1, <3>3 DEF Agree, GuidanceSettled, FinalGuidance
    <3> QED BY <3>2, <3>3
  <2> QED BY <2>1, <2>2 DEF OffIsSettled
<1>7. OneAttemptPerEpisode'
  BY DEF MInv, ApplyPolicy, OneAttemptPerEpisode
<1>8. AnchorInv'
  BY DEF MInv, ApplyPolicy, AnchorInv
<1>9. OrderInv'
  BY DEF MInv, ApplyPolicy, OrderInv
<1>10. CursorInv'
  BY DEF MInv, ApplyPolicy, CursorInv, CursorIsObserved, WasOpen
<1> QED BY <1>1, <1>2, <1>3, <1>4, <1>5, <1>6, <1>7, <1>8, <1>9, <1>10 DEF MInv

LEMMA ManifestNotAppliedKeeps ==
  ASSUME MInv, place \in {"fpol", "round"}, ManifestNotApplied
  PROVE  MInv'
<1>1. ManagerTypeOK'
  <2>1. place' \in Places \cup Calls \cup TakeoverOps
    BY BoundsAssumption DEF MInv, ManagerTypeOK, ManifestNotApplied, Left, Places, Calls,
       TakeoverOps
  <2>2. ret' \in Places
    BY BoundsAssumption DEF MInv, ManagerTypeOK, ManifestNotApplied, Left, Places
  <2>3. duties' \subseteq (IF ret' \in {"holds", "tko"} THEN TakeoverOps ELSE Runs)
    BY BoundsAssumption DEF MInv, ManagerTypeOK, ManifestNotApplied, Left, Runs, Batches
  <2>4. managerFaults' \in 0..MaxManagerFaults
    BY BoundsAssumption DEF MInv, ManagerTypeOK, ManifestNotApplied, Left
  <2> QED BY <2>1, <2>2, <2>3, <2>4 DEF MInv, ManagerTypeOK, ManifestNotApplied
<1>2. PlaceInv'
  BY DEF MInv, ManifestNotApplied, Left, PlaceInv, Places, Calls, TakeoverOps
<1>3. DutyInv'
  BY DEF MInv, ManifestNotApplied, Left, DutyInv, Mine, ListedTakeovers
<1>4. HandInv'
  BY DEF MInv, ManifestNotApplied, Left, HandInv, Calls, TakeoverOps
<1>5. RunInv'
  BY DEF MInv, ManifestNotApplied, RunInv, Agree, Running, TerminalPhases, FinalGuidance
<1>6. OffIsSettled'
  BY DEF MInv, ManifestNotApplied, OffIsSettled
<1>7. OneAttemptPerEpisode'
  BY DEF MInv, ManifestNotApplied, OneAttemptPerEpisode
<1>8. AnchorInv'
  BY DEF MInv, ManifestNotApplied, AnchorInv
<1>9. OrderInv'
  BY DEF MInv, ManifestNotApplied, OrderInv
<1>10. CursorInv'
  BY DEF MInv, ManifestNotApplied, CursorInv, CursorIsObserved, WasOpen
<1> QED BY <1>1, <1>2, <1>3, <1>4, <1>5, <1>6, <1>7, <1>8, <1>9, <1>10 DEF MInv

LEMMA ApplyReviewKeeps ==
  ASSUME MInv, ApplyReview
  PROVE  MInv'
<1>1. /\ 0 \in Runs /\ manual \in Reviews /\ hlp' = hlp /\ acked' = acked /\ duties' = {}
      /\ Agree(run[0], hlp[0], acked[0])
  <2>1. 0 \in Runs
    BY ManagerBounds DEF Runs
  <2>2. manual # None /\ manual \in Optional(Reviews)
    BY DEF MInv, HandInv, ManagerTypeOK, ApplyReview
  <2> QED BY <2>1, <2>2 DEF MInv, RunInv, Optional, ApplyReview
<1>2. \/ run' = run /\ place' = "idle"
      \/ \E x \in RunRows :
           /\ run' = [run EXCEPT ![0] = x]
           /\ \/ run[0] # None /\ x = [run[0] EXCEPT !.lease = TRUE] /\ place' = "listed"
              \/ /\ run[0] = None /\ place' = "ack" /\ inhand' = 0
                 /\ ~x.att /\ x.guid = None /\ x.phase = "start_ack_pending" /\ x.rep = None
  <2>1. CASE run[0] # None
    <3>1. run' = [run EXCEPT ![0] = [run[0] EXCEPT !.lease = TRUE]] /\ place' = "listed"
      BY <1>1, <2>1 DEF ApplyReview
    <3> QED BY <1>1, <2>1, <3>1, RowSteps
  <2>2. CASE run[0] = None
    <3> DEFINE new == Row(manual, "start_ack_pending", TRUE, FALSE, None)
    <3>1. new \in RunRows
      BY <1>1, RowIsTyped
    <3>2. \/ run' = run /\ place' = "idle"
          \/ run' = [run EXCEPT ![0] = new] /\ place' = "ack" /\ inhand' = 0
      BY <2>2 DEF ApplyReview
    <3>3. ~new.att /\ new.guid = None /\ new.phase = "start_ack_pending" /\ new.rep = None
      BY DEF Row
    <3> HIDE DEF new
    <3> QED BY <2>2, <3>1, <3>2, <3>3
  <2> QED BY <2>1, <2>2
<1>3. ManagerTypeOK'
  <2>1. place' \in Places \cup Calls \cup TakeoverOps
    BY BoundsAssumption DEF MInv, ManagerTypeOK, ApplyReview, Read, Row, ReviewAuthority,
       Places, Calls, TakeoverOps
  <2>2. ret' \in Places
    BY BoundsAssumption DEF MInv, ManagerTypeOK, ApplyReview, Read, Row, ReviewAuthority,
       Places
  <2>3. duties' \subseteq (IF ret' \in {"holds", "tko"} THEN TakeoverOps ELSE Runs)
    BY BoundsAssumption DEF MInv, ManagerTypeOK, ApplyReview, Read, Row, ReviewAuthority,
       Runs, Batches
  <2>4. inhand' \in Runs
    BY BoundsAssumption DEF MInv, ManagerTypeOK, ApplyReview, Read, Row, ReviewAuthority,
       Runs, Batches
  <2>5. run' \in [Runs -> Optional(RunRows)]
    <3>1. run' = run \/ \E x \in RunRows : run' = [run EXCEPT ![0] = x]
      BY <1>2
    <3> QED BY <1>1, <3>1, RunTable DEF MInv, ManagerTypeOK
  <2>6. managerFaults' \in 0..MaxManagerFaults
    BY BoundsAssumption DEF MInv, ManagerTypeOK, ApplyReview, Read, Row, ReviewAuthority
  <2> QED BY <2>1, <2>2, <2>3, <2>4, <2>5, <2>6 DEF MInv, ManagerTypeOK, ApplyReview
<1>4. PlaceInv'
  BY DEF MInv, ApplyReview, Read, Row, ReviewAuthority, PlaceInv, Places, Calls,
     TakeoverOps
<1>5. DutyInv'
  BY DEF MInv, ApplyReview, Read, Row, ReviewAuthority, DutyInv, Mine, ListedTakeovers
<1>6. HandInv'
  <2>1. CASE place' \in {"idle", "listed"}
    BY <2>1 DEF HandInv, Calls, TakeoverOps
  <2>2. CASE place' = "ack"
    <3>1. PICK x \in RunRows : run' = [run EXCEPT ![0] = x] /\ inhand' = 0 /\ x.phase = "start_ack_pending"
      BY <1>2, <2>2
    <3>2. run'[0] = x /\ x # None
      BY <1>1, <3>1, RunTable
    <3> QED BY <2>2, <3>1, <3>2 DEF HandInv, Calls, TakeoverOps
  <2> QED BY <1>2, <2>1, <2>2
<1>7. RunInv'
  <2>1. CASE run' = run
    BY <1>1, <2>1 DEF MInv, RunInv
  <2>2. ASSUME NEW x \in RunRows, run' = [run EXCEPT ![0] = x], run[0] # None,
               x = [run[0] EXCEPT !.lease = TRUE]
        PROVE  RunInv'
    <3>1. run[0] \in RunRows
      BY <1>1, <2>2, RowSteps
    <3>2. /\ x.phase = run[0].phase /\ x.rep = run[0].rep /\ x.att = run[0].att
          /\ x.guid = run[0].guid /\ x # None
      BY <2>2, <3>1, Present DEF RunRows
    <3>3. Agree(x, hlp[0], acked[0])
      BY <1>1, <2>2, <3>2 DEF Agree
    <3> QED BY <1>1, <2>2, <3>3, RunTable, AgreesAfter
  <2>3. ASSUME NEW x \in RunRows, run' = [run EXCEPT ![0] = x], run[0] = None,
               ~x.att, x.guid = None, x.phase = "start_ack_pending", x.rep = None
        PROVE  RunInv'
    <3>1. Agree(x, hlp[0], acked[0])
      BY <1>1, <2>3, NoRow, Present DEF Agree, TerminalPhases, RunReports, FinalGuidance
    <3> QED BY <1>1, <2>3, <3>1, RunTable, AgreesAfter
  <2> QED BY <1>2, <2>1, <2>2, <2>3
<1>8. OffIsSettled'
  BY DEF MInv, ApplyReview, OffIsSettled
<1>9. OneAttemptPerEpisode'
  BY DEF MInv, ApplyReview, OneAttemptPerEpisode
<1>10. AnchorInv'
  BY DEF MInv, ApplyReview, AnchorInv
<1>11. OrderInv'
  BY DEF MInv, ApplyReview, OrderInv
<1>12. CursorInv'
  BY DEF MInv, ApplyReview, CursorInv, CursorIsObserved, WasOpen
<1> QED BY <1>3, <1>4, <1>5, <1>6, <1>7, <1>8, <1>9, <1>10, <1>11, <1>12 DEF MInv

LEMMA ApplyTakeoverKeeps ==
  ASSUME MInv, ApplyTakeover
  PROVE  MInv'
<1>1. ManagerTypeOK'
  <2>1. place' \in Places \cup Calls \cup TakeoverOps
    BY ManagerBounds, InDuties, InHands DEF MInv, ManagerTypeOK, ApplyTakeover,
       TakeoverOps, Places, Calls
  <2>2. ret' \in Places
    BY BoundsAssumption DEF MInv, ManagerTypeOK, ApplyTakeover, TakeoverOps, Places
  <2>3. duties' \subseteq (IF ret' \in {"holds", "tko"} THEN TakeoverOps ELSE Runs)
    BY ManagerBounds, InDuties, InHands DEF MInv, ManagerTypeOK, ApplyTakeover,
       TakeoverOps, Runs, Batches
  <2>4. hold' \in [TakeoverOps -> Optional(Holds)]
    BY ManagerBounds, InDuties, InHands DEF MInv, ManagerTypeOK, ApplyTakeover,
       TakeoverOps, Optional, Holds, Requests
  <2> QED BY <2>1, <2>2, <2>3, <2>4 DEF MInv, ManagerTypeOK, ApplyTakeover
<1>2. PlaceInv'
  BY InDuties, InHands, ReportIs DEF MInv, ApplyTakeover, TakeoverOps, PlaceInv, Places,
     Calls
<1>3. DutyInv'
  BY InDuties, InHands DEF MInv, ApplyTakeover, TakeoverOps, DutyInv, Mine,
     ListedTakeovers
<1>4. HandInv'
  <2>1. PICK op \in duties :
          \/ place' \in {"tko", "idle"}
          \/ /\ place' = op
             /\ hold' = [hold EXCEPT ![op] =
                          [phase |-> IF op = "pause" THEN "acquiring" ELSE "releasing",
                           prev |-> owner[op].prev, n |-> owner[op].n, rep |-> None]]
    BY DEF ApplyTakeover
  <2>2. op \in {"pause", "resume"} /\ owner[op] \in Requests /\ hold \in [TakeoverOps -> Optional(Holds)]
    BY InDuties DEF ApplyTakeover, MInv, ManagerTypeOK
  <2>3. CASE place' \in {"tko", "idle"}
    BY <2>3 DEF HandInv, Calls, TakeoverOps
  <2>4. CASE place' = op
    <3> DEFINE h == [phase |-> IF op = "pause" THEN "acquiring" ELSE "releasing",
                     prev |-> owner[op].prev, n |-> owner[op].n, rep |-> None]
    <3>1. h \in Holds
      BY <2>2 DEF Holds, Requests, Optional
    <3>2. hold' = [hold EXCEPT ![op] = h]
      BY <2>1, <2>2, <2>4
    <3> HIDE DEF h
    <3> QED BY <2>2, <2>4, <3>1, <3>2, Present DEF HandInv, Calls, TakeoverOps
  <2> QED BY <2>1, <2>3, <2>4
<1>5. RunInv'
  BY DEF MInv, ApplyTakeover, RunInv, Agree, Running, TerminalPhases, FinalGuidance
<1>6. OffIsSettled'
  BY DEF MInv, ApplyTakeover, OffIsSettled
<1>7. OneAttemptPerEpisode'
  BY DEF MInv, ApplyTakeover, OneAttemptPerEpisode
<1>8. AnchorInv'
  BY DEF MInv, ApplyTakeover, AnchorInv
<1>9. OrderInv'
  BY DEF MInv, ApplyTakeover, OrderInv
<1>10. CursorInv'
  BY DEF MInv, ApplyTakeover, CursorInv, CursorIsObserved, WasOpen
<1> QED BY <1>1, <1>2, <1>3, <1>4, <1>5, <1>6, <1>7, <1>8, <1>9, <1>10 DEF MInv

LEMMA DispatchTakeoverKeeps ==
  ASSUME MInv, NEW o \in CallOutcomes, DispatchTakeover(o)
  PROVE  MInv'
<1>1. ManagerTypeOK'
  <2>1. place' \in Places \cup Calls \cup TakeoverOps
    BY BoundsAssumption DEF MInv, ManagerTypeOK, DispatchTakeover, Receive, Unknown,
       Outcome, Effect, After, OnError, Left, CallOutcomes, TakeoverOps, Places, Calls
  <2>2. ret' \in Places
    BY BoundsAssumption DEF MInv, ManagerTypeOK, DispatchTakeover, Receive, Unknown,
       Outcome, Effect, After, OnError, Left, CallOutcomes, TakeoverOps, Places
  <2>3. duties' \subseteq (IF ret' \in {"holds", "tko"} THEN TakeoverOps ELSE Runs)
    BY ManagerBounds, InDuties, InHands DEF MInv, ManagerTypeOK, DispatchTakeover,
       Receive, Unknown, Outcome, Effect, After, OnError, Left, CallOutcomes, TakeoverOps,
       Runs, Batches
  <2>4. hold' \in [TakeoverOps -> Optional(Holds)]
    BY ManagerBounds, InDuties, InHands DEF MInv, ManagerTypeOK, DispatchTakeover,
       Receive, Unknown, Outcome, Effect, After, OnError, Left, CallOutcomes, TakeoverOps,
       Optional, Holds, Requests
  <2>5. did' \subseteq TakeoverOps
    BY BoundsAssumption DEF MInv, ManagerTypeOK, DispatchTakeover, Receive, Unknown,
       Outcome, Effect, After, OnError, Left, CallOutcomes, TakeoverOps
  <2>6. managerFaults' \in 0..MaxManagerFaults
    BY BoundsAssumption DEF MInv, ManagerTypeOK, DispatchTakeover, Receive, Unknown,
       Outcome, Effect, After, OnError, Left, CallOutcomes, TakeoverOps
  <2> QED BY <2>1, <2>2, <2>3, <2>4, <2>5, <2>6 DEF MInv, ManagerTypeOK, DispatchTakeover
<1>2. PlaceInv'
  BY DEF MInv, DispatchTakeover, Receive, Unknown, Outcome, Effect, After, OnError, Left,
     CallOutcomes, TakeoverOps, PlaceInv, Places, Calls
<1>3. DutyInv'
  BY InDuties, InHands DEF MInv, DispatchTakeover, Receive, Unknown, Outcome, Effect,
     After, OnError, Left, CallOutcomes, TakeoverOps, DutyInv, Mine, ListedTakeovers
<1>4. HandInv'
  BY DEF MInv, DispatchTakeover, Receive, Unknown, Outcome, Effect, After, OnError, Left,
     CallOutcomes, TakeoverOps, HandInv, Calls
<1>5. RunInv'
  BY DEF MInv, DispatchTakeover, RunInv, Agree, Running, TerminalPhases, FinalGuidance
<1>6. OffIsSettled'
  BY DEF MInv, DispatchTakeover, OffIsSettled
<1>7. OneAttemptPerEpisode'
  BY DEF MInv, DispatchTakeover, OneAttemptPerEpisode
<1>8. AnchorInv'
  BY DEF MInv, DispatchTakeover, AnchorInv
<1>9. OrderInv'
  BY DEF MInv, DispatchTakeover, OrderInv
<1>10. CursorInv'
  BY DEF MInv, DispatchTakeover, CursorInv, CursorIsObserved, WasOpen
<1> QED BY <1>1, <1>2, <1>3, <1>4, <1>5, <1>6, <1>7, <1>8, <1>9, <1>10 DEF MInv

LEMMA ReconcileTakeoverKeeps ==
  ASSUME MInv, ReconcileTakeover
  PROVE  MInv'
<1>1. ManagerTypeOK'
  <2>1. place' \in Places \cup Calls \cup TakeoverOps
    BY BoundsAssumption DEF MInv, ManagerTypeOK, ReconcileTakeover, Receive, Unknown,
       TakeoverReceipt, Outcome, After, OnError, Left, CallOutcomes, TakeoverOps, Places,
       Calls
  <2>2. ret' \in Places
    BY BoundsAssumption DEF MInv, ManagerTypeOK, ReconcileTakeover, Receive, Unknown,
       TakeoverReceipt, Outcome, After, OnError, Left, CallOutcomes, TakeoverOps, Places
  <2>3. duties' \subseteq (IF ret' \in {"holds", "tko"} THEN TakeoverOps ELSE Runs)
    BY ManagerBounds, InDuties, InHands DEF MInv, ManagerTypeOK, ReconcileTakeover,
       Receive, Unknown, TakeoverReceipt, Outcome, After, OnError, Left, CallOutcomes,
       TakeoverOps, Runs, Batches
  <2>4. hold' \in [TakeoverOps -> Optional(Holds)]
    BY ManagerBounds, InDuties, InHands DEF MInv, ManagerTypeOK, ReconcileTakeover,
       Receive, Unknown, TakeoverReceipt, Outcome, After, OnError, Left, CallOutcomes,
       TakeoverOps, Optional, Holds, Requests
  <2>5. managerFaults' \in 0..MaxManagerFaults
    BY BoundsAssumption DEF MInv, ManagerTypeOK, ReconcileTakeover, Receive, Unknown,
       TakeoverReceipt, Outcome, After, OnError, Left, CallOutcomes, TakeoverOps
  <2> QED BY <2>1, <2>2, <2>3, <2>4, <2>5 DEF MInv, ManagerTypeOK, ReconcileTakeover
<1>2. PlaceInv'
  BY DEF MInv, ReconcileTakeover, Receive, Unknown, TakeoverReceipt, Outcome, After,
     OnError, Left, CallOutcomes, TakeoverOps, PlaceInv, Places, Calls
<1>3. DutyInv'
  <2>1. PICK op \in duties, o \in {"ok", "fail"} :
          /\ hold' = IF o = "ok" THEN Receive(op, TakeoverReceipt(op))
                     ELSE [hold EXCEPT ![op].phase = Unknown(op)]
          /\ After(o, place) /\ Left(duties \ {op})
    BY DEF ReconcileTakeover
  <2>2. /\ place = "holds" /\ ret = place /\ ret' = place'
        /\ op \in {"pause", "resume"} /\ hold[op] # None /\ hold[op] \in Holds
        /\ hold \in [TakeoverOps -> Optional(Holds)]
    BY InDuties DEF ReconcileTakeover, MInv, ManagerTypeOK
  <2>3. \E h \in Holds : hold' = [hold EXCEPT ![op] = h]
    <3>1. CASE o = "ok"
      <4> DEFINE h == [hold[op] EXCEPT !.rep = TakeoverReceipt(op),
                           !.phase = CASE TakeoverReceipt(op) = "unsettled" -> "unsettled"
                                       [] TakeoverReceipt(op) = "ready" /\ op = "pause" -> "ready"
                                       [] OTHER -> "released"]
      <4>1. TakeoverReceipt(op) \in {"ready", "unsettled"}
        BY DEF TakeoverReceipt
      <4>2. h \in Holds
        BY <2>2, <4>1 DEF Holds, Optional
      <4>3. hold' = [hold EXCEPT ![op] = h]
        BY <2>1, <2>2, <3>1 DEF Receive
      <4> HIDE DEF h
      <4> QED BY <4>2, <4>3
    <3>2. CASE o = "fail"
      <4> DEFINE h == [hold[op] EXCEPT !.phase = Unknown(op)]
      <4>1. h \in Holds
        BY <2>2 DEF Holds, Unknown
      <4>2. hold' = [hold EXCEPT ![op] = h]
        BY <2>1, <3>2
      <4> HIDE DEF h
      <4> QED BY <4>1, <4>2
    <3> QED BY <3>1, <3>2
  <2>4. \A p \in TakeoverOps : hold[p] # None => hold'[p] # None
    BY <2>2, <2>3, Present DEF TakeoverOps
  <2>5. duties' = {} \/ (duties' \subseteq duties /\ ret' = ret)
    BY <2>1, <2>2 DEF Left, After, OnError
  <2> QED BY <2>2, <2>4, <2>5, DutiesShrink DEF ReconcileTakeover
<1>4. HandInv'
  BY DEF MInv, ReconcileTakeover, Receive, Unknown, TakeoverReceipt, Outcome, After,
     OnError, Left, CallOutcomes, TakeoverOps, HandInv, Calls
<1>5. RunInv'
  BY DEF MInv, ReconcileTakeover, RunInv, Agree, Running, TerminalPhases, FinalGuidance
<1>6. OffIsSettled'
  BY DEF MInv, ReconcileTakeover, OffIsSettled
<1>7. OneAttemptPerEpisode'
  BY DEF MInv, ReconcileTakeover, OneAttemptPerEpisode
<1>8. AnchorInv'
  BY DEF MInv, ReconcileTakeover, AnchorInv
<1>9. OrderInv'
  BY DEF MInv, ReconcileTakeover, OrderInv
<1>10. CursorInv'
  BY DEF MInv, ReconcileTakeover, CursorInv, CursorIsObserved, WasOpen
<1> QED BY <1>1, <1>2, <1>3, <1>4, <1>5, <1>6, <1>7, <1>8, <1>9, <1>10 DEF MInv

LEMMA PassReportedKeeps ==
  ASSUME MInv, PassReported
  PROVE  MInv'
<1>1. ManagerTypeOK'
  <2>1. place' \in Places \cup Calls \cup TakeoverOps
    BY BoundsAssumption DEF MInv, ManagerTypeOK, PassReported, Outcome, After, OnError,
       CallOutcomes, Places, Calls, TakeoverOps
  <2>2. ret' \in Places
    BY BoundsAssumption DEF MInv, ManagerTypeOK, PassReported, Outcome, After, OnError,
       CallOutcomes, Places
  <2>3. managerFaults' \in 0..MaxManagerFaults
    BY BoundsAssumption DEF MInv, ManagerTypeOK, PassReported, Outcome, After, OnError,
       CallOutcomes
  <2> QED BY <2>1, <2>2, <2>3 DEF MInv, ManagerTypeOK, PassReported
<1>2. PlaceInv'
  BY DEF MInv, PassReported, Outcome, After, OnError, CallOutcomes, PlaceInv, Places,
     Calls, TakeoverOps
<1>3. DutyInv'
  BY DEF MInv, PassReported, Outcome, After, OnError, CallOutcomes, DutyInv, Mine,
     ListedTakeovers
<1>4. HandInv'
  BY DEF MInv, PassReported, Outcome, After, OnError, CallOutcomes, HandInv, Calls,
     TakeoverOps
<1>5. RunInv'
  BY DEF MInv, PassReported, RunInv, Agree, Running, TerminalPhases, FinalGuidance
<1>6. OffIsSettled'
  BY DEF MInv, PassReported, OffIsSettled
<1>7. OneAttemptPerEpisode'
  BY DEF MInv, PassReported, OneAttemptPerEpisode
<1>8. AnchorInv'
  BY DEF MInv, PassReported, AnchorInv
<1>9. OrderInv'
  BY DEF MInv, PassReported, OrderInv
<1>10. CursorInv'
  BY DEF MInv, PassReported, CursorInv, CursorIsObserved, WasOpen
<1> QED BY <1>1, <1>2, <1>3, <1>4, <1>5, <1>6, <1>7, <1>8, <1>9, <1>10 DEF MInv

LEMMA FetchInsightPoliciesKeeps ==
  ASSUME MInv, FetchInsightPolicies
  PROVE  MInv'
<1>1. ManagerTypeOK'
  <2>1. place' \in Places \cup Calls \cup TakeoverOps
    BY BoundsAssumption DEF MInv, ManagerTypeOK, FetchInsightPolicies, Outcome, After,
       OnError, CallOutcomes, Places, Calls, TakeoverOps
  <2>2. ret' \in Places
    BY BoundsAssumption DEF MInv, ManagerTypeOK, FetchInsightPolicies, Outcome, After,
       OnError, CallOutcomes, Places
  <2>3. duties' \subseteq (IF ret' \in {"holds", "tko"} THEN TakeoverOps ELSE Runs)
    <3>1. /\ duties' = {} \/ duties' = {item.b : item \in outbox}
          /\ ret' \in {"idle", "outbox"}
      BY InDuties DEF FetchInsightPolicies, After, OnError
    <3>2. {item.b : item \in outbox} \subseteq Runs
      BY ManagerBounds DEF MInv, ManagerTypeOK, Items, Batches, Runs
    <3> QED BY <3>1, <3>2
  <2>4. failed' \in BOOLEAN
    BY Zenon DEF FetchInsightPolicies
  <2>5. skip' \in BOOLEAN
    BY Zenon DEF FetchInsightPolicies
  <2>6. managerFaults' \in 0..MaxManagerFaults
    BY BoundsAssumption DEF MInv, ManagerTypeOK, FetchInsightPolicies, Outcome, After,
       OnError, CallOutcomes
  <2> QED BY <2>1, <2>2, <2>3, <2>4, <2>5, <2>6 DEF MInv, ManagerTypeOK,
             FetchInsightPolicies
<1>2. PlaceInv'
  BY DEF MInv, FetchInsightPolicies, Outcome, After, OnError, CallOutcomes, PlaceInv,
     Places, Calls, TakeoverOps
<1>3. DutyInv'
  <2>1. duties' = {} \/ (duties' = {item.b : item \in outbox} /\ ret' = "outbox")
    BY DEF FetchInsightPolicies
  <2>2. {item.b : item \in outbox} \subseteq Batches
    BY DEF MInv, ManagerTypeOK, Items
  <2> QED BY <2>1, <2>2 DEF DutyInv, Mine
<1>4. HandInv'
  BY DEF MInv, FetchInsightPolicies, Outcome, After, OnError, CallOutcomes, HandInv,
     Calls, TakeoverOps
<1>5. RunInv'
  BY DEF MInv, FetchInsightPolicies, RunInv, Agree, Running, TerminalPhases, FinalGuidance
<1>6. OffIsSettled'
  BY DEF MInv, FetchInsightPolicies, OffIsSettled
<1>7. OneAttemptPerEpisode'
  BY DEF MInv, FetchInsightPolicies, OneAttemptPerEpisode
<1>8. AnchorInv'
  BY DEF MInv, FetchInsightPolicies, AnchorInv
<1>9. OrderInv'
  BY DEF MInv, FetchInsightPolicies, OrderInv
<1>10. CursorInv'
  BY DEF MInv, FetchInsightPolicies, CursorInv, CursorIsObserved, WasOpen
<1> QED BY <1>1, <1>2, <1>3, <1>4, <1>5, <1>6, <1>7, <1>8, <1>9, <1>10 DEF MInv

LEMMA DrainOutboxKeeps ==
  ASSUME MInv, DrainOutbox
  PROVE  MInv'
<1>1. PICK item \in outbox :
        /\ item.b \in duties
        /\ \/ /\ outbox' = outbox \ {item} /\ place' = place /\ duties' = duties \ {item.b}
              /\ UNCHANGED <<known, fnd, cursor, managerFaults>>
           \/ \E o \in CallOutcomes, bound \in BOOLEAN :
                /\ SubmitInsightBatch(item, o, bound)
                /\ outbox' \in {outbox, outbox \ {item}} /\ place' \in {"idle", place}
                /\ duties' = {} \/ (place' = place /\ duties' = duties \ {item.b})
  BY DEF DrainOutbox
<1>2. /\ place = "outbox" /\ ret = place /\ ret' = place' /\ duties \subseteq Batches /\ duties \subseteq Runs
      /\ intent' = intent /\ mon' = mon /\ built' = built /\ run' = run /\ hold' = hold
      /\ outbox' \subseteq outbox /\ outbox \subseteq Items
  BY <1>1, InDuties DEF DrainOutbox, MInv, ManagerTypeOK
<1>3. /\ fnd' \in Optional(Findings) /\ known' \in 0..MaxFindingRev
      /\ cursor' \in [seq : 0..MaxFindingRev, irev : 0..2, on : BOOLEAN]
      /\ \A b \in Batches : intent'[b] # None => fnd' # None /\ b <= fnd'.anchor.b
      /\ fnd' # None => fnd'.rev <= mon.rev /\ fnd'.anchor.b <= built
      /\ fnd # None => fnd' # None /\ fnd'.rev >= fnd.rev
      /\ \A y \in outbox : fnd' # None /\ y.rev > fnd'.rev => y.b > fnd'.anchor.b
      /\ cursor'.seq <= mon.rev
      /\ WasOpen(cursor'.seq) => fnd' # None /\ fnd'.rev >= cursor'.seq
  <2>1. CASE UNCHANGED <<known, fnd, cursor>>
    BY <1>2, <2>1, FindingStays
  <2>2. ASSUME NEW o \in CallOutcomes, NEW bound \in BOOLEAN, SubmitInsightBatch(item, o, bound)
        PROVE  /\ fnd' \in Optional(Findings) /\ known' \in 0..MaxFindingRev
               /\ cursor' \in [seq : 0..MaxFindingRev, irev : 0..2, on : BOOLEAN]
               /\ \A b \in Batches : intent'[b] # None => fnd' # None /\ b <= fnd'.anchor.b
               /\ fnd' # None => fnd'.rev <= mon.rev /\ fnd'.anchor.b <= built
               /\ fnd # None => fnd' # None /\ fnd'.rev >= fnd.rev
               /\ \A y \in outbox : fnd' # None /\ y.rev > fnd'.rev => y.b > fnd'.anchor.b
               /\ cursor'.seq <= mon.rev
               /\ WasOpen(cursor'.seq) => fnd' # None /\ fnd'.rev >= cursor'.seq
    <3>1. item \in Items
      BY <1>2
    <3>2. /\ item.b <= built /\ item.rev <= mon.rev /\ item.seq <= mon.rev
          /\ item.rev > 0 => item.seq = item.rev /\ (WasOpen(item.rev) => item.open)
          /\ item.rev = 0 /\ WasOpen(item.seq) => fnd # None /\ fnd.rev >= item.seq
          /\ fnd # None /\ item.rev > fnd.rev => item.b > fnd.anchor.b
          /\ \A y \in outbox : item.rev > 0 /\ y.rev > item.rev => y.b > item.b
      BY DEF MInv, OrderInv, CursorInv
    <3> QED BY <1>2, <2>2, <3>1, <3>2, FindingMoves
  <2> QED BY <1>1, <2>1, <2>2
<1>4. ManagerTypeOK'
  <2>1. place' \in Places \cup Calls \cup TakeoverOps
    BY BoundsAssumption DEF MInv, ManagerTypeOK, DrainOutbox, SubmitInsightBatch,
       ObservationAccepted, Observed, Reanchor, Anchor, Effect, CallOutcomes, Places,
       Calls, TakeoverOps
  <2>2. ret' \in Places
    BY BoundsAssumption DEF MInv, ManagerTypeOK, DrainOutbox, SubmitInsightBatch,
       ObservationAccepted, Observed, Reanchor, Anchor, Effect, CallOutcomes, Places
  <2>3. duties' \subseteq (IF ret' \in {"holds", "tko"} THEN TakeoverOps ELSE Runs)
    BY <1>1, <1>2
  <2>4. outbox' \subseteq Items
    BY <1>2
  <2>5. known' \in 0..MaxFindingRev
    BY <1>3
  <2>6. fnd' \in Optional(Findings)
    BY <1>3
  <2>7. cursor' \in [seq : 0..MaxFindingRev, irev : 0..2, on : BOOLEAN]
    BY <1>3
  <2>8. failed' \in BOOLEAN
    BY ZenonT(20) DEF DrainOutbox, MInv, ManagerTypeOK
  <2>9. skip' \in BOOLEAN
    BY ZenonT(20) DEF DrainOutbox, MInv, ManagerTypeOK
  <2>10. managerFaults' \in 0..MaxManagerFaults
    BY BoundsAssumption DEF MInv, ManagerTypeOK, DrainOutbox, SubmitInsightBatch,
       ObservationAccepted, Observed, Reanchor, Anchor, Effect, CallOutcomes
  <2> QED BY <2>1, <2>2, <2>3, <2>4, <2>5, <2>6, <2>7, <2>8, <2>9, <2>10 DEF MInv,
             ManagerTypeOK, DrainOutbox
<1>5. PlaceInv'
  BY DEF MInv, DrainOutbox, SubmitInsightBatch, ObservationAccepted, Observed, Reanchor,
     Anchor, Effect, CallOutcomes, PlaceInv, Places, Calls, TakeoverOps
<1>6. DutyInv'
  <2>1. duties' \subseteq Batches /\ (duties' # {} => ret' = "outbox")
    BY <1>1, <1>2
  <2> QED BY <2>1 DEF DutyInv, Mine
<1>7. HandInv'
  BY <1>1, <1>2 DEF HandInv, Calls, TakeoverOps
<1>8. RunInv'
  BY DEF MInv, DrainOutbox, RunInv, Agree, Running, TerminalPhases, FinalGuidance
<1>9. OffIsSettled'
  BY DEF MInv, DrainOutbox, OffIsSettled
<1>10. OneAttemptPerEpisode'
  BY <1>2 DEF MInv, OneAttemptPerEpisode
<1>11. AnchorInv'
  BY <1>2, <1>3 DEF AnchorInv
<1>12. OrderInv'
  BY <1>2, <1>3 DEF MInv, OrderInv
<1>13. CursorInv'
  <2>1. \A y \in outbox : y.seq \in Nat
    BY <1>2 DEF Items
  <2>2. fnd # None => fnd.rev \in Nat /\ fnd'.rev \in Nat
    BY <1>3 DEF MInv, ManagerTypeOK, Optional, Findings
  <2> QED BY <1>2, <1>3, <2>1, <2>2 DEF MInv, CursorInv, CursorIsObserved, WasOpen
<1> QED BY <1>4, <1>5, <1>6, <1>7, <1>8, <1>9, <1>10, <1>11, <1>12, <1>13 DEF MInv

LEMMA CollectSourceKeeps ==
  ASSUME MInv, CollectSource
  PROVE  MInv'
<1> DEFINE item == NewBatch(built + 1)
<1>1. \/ UNCHANGED <<known, fnd, cursor, outbox, built, managerFaults>>
      \/ /\ built # MaxBatches /\ built' = built + 1 /\ outbox' \in {outbox, outbox \cup {item}}
         /\ \E o \in CallOutcomes, bound \in BOOLEAN : SubmitInsightBatch(item, o, bound)
  BY DEF CollectSource
<1>2. /\ place = "outbox" /\ ret = place /\ ret' = place' /\ duties = {} /\ duties' = duties
      /\ intent' = intent /\ mon' = mon
      /\ outbox \subseteq Items /\ built \in 0..MaxBatches /\ MaxBatches \in Nat
      /\ mon.rev \in 0..MaxFindingRev /\ MaxFindingRev \in Nat
      /\ cursor \in [seq : 0..MaxFindingRev, irev : 0..2, on : BOOLEAN]
  BY InDuties, ManagerBounds DEF CollectSource, MInv, ManagerTypeOK
<1>3. /\ item.b = built + 1 /\ item.open = mon.open
      /\ item.rev = 0 \/ (item.rev = mon.rev /\ item.seq = mon.rev)
      /\ item.seq = cursor.seq \/ item.seq = mon.rev
      /\ item.rev = 0 => item.seq = cursor.seq \/ ~(mon.rev > cursor.seq)
  BY <1>2 DEF NewBatch
<1>4. built # MaxBatches => item \in Items
  BY <1>2 DEF NewBatch, Items, Batches, MInv, ManagerTypeOK
<1>5. /\ item.rev <= mon.rev /\ item.seq <= mon.rev
      /\ item.rev > 0 => item.seq = item.rev /\ (WasOpen(item.rev) => item.open)
      /\ item.rev = 0 /\ WasOpen(item.seq) => fnd # None /\ fnd.rev >= item.seq
      /\ fnd # None => item.b > fnd.anchor.b
      /\ \A y \in outbox : y.rev <= mon.rev /\ y.rev \in Nat
  <2>1. cursor.seq <= mon.rev /\ (WasOpen(cursor.seq) => fnd # None /\ fnd.rev >= cursor.seq)
    BY DEF MInv, CursorInv, CursorIsObserved
  <2>2. fnd # None => fnd.anchor.b <= built /\ fnd.anchor.b \in Nat
    BY DEF MInv, AnchorInv, ManagerTypeOK, Optional, Findings, Anchors, Batches
  <2>3. \A y \in outbox : y.rev <= mon.rev /\ y.rev \in Nat
    BY <1>2 DEF MInv, CursorInv, Items
  <2>4. cursor.seq \in Nat /\ mon.rev \in Nat
    BY <1>2
  <2>5. item.seq = cursor.seq \/ (item.seq = mon.rev /\ item.rev = mon.rev)
    BY <1>3, <2>1, <2>4
  <2> HIDE DEF item
  <2> QED BY <1>2, <1>3, <2>1, <2>2, <2>3, <2>4, <2>5 DEF WasOpen
<1> HIDE DEF item
<1>6. /\ fnd' \in Optional(Findings) /\ known' \in 0..MaxFindingRev
      /\ cursor' \in [seq : 0..MaxFindingRev, irev : 0..2, on : BOOLEAN]
      /\ \A b \in Batches : intent'[b] # None => fnd' # None /\ b <= fnd'.anchor.b
      /\ fnd' # None => fnd'.rev <= mon.rev /\ fnd'.anchor.b <= built'
      /\ fnd # None => fnd' # None /\ fnd'.rev >= fnd.rev
      /\ \A y \in outbox : fnd' # None /\ y.rev > fnd'.rev => y.b > fnd'.anchor.b
      /\ cursor'.seq <= mon.rev
      /\ WasOpen(cursor'.seq) => fnd' # None /\ fnd'.rev >= cursor'.seq
      /\ fnd' # None /\ item.rev > fnd'.rev => item.b > fnd'.anchor.b
  <2>1. CASE UNCHANGED <<known, fnd, cursor, outbox, built, managerFaults>>
    <3>1. /\ fnd' \in Optional(Findings) /\ known' \in 0..MaxFindingRev
          /\ cursor' \in [seq : 0..MaxFindingRev, irev : 0..2, on : BOOLEAN]
          /\ \A b \in Batches : intent'[b] # None => fnd' # None /\ b <= fnd'.anchor.b
          /\ fnd' # None => fnd'.rev <= mon.rev /\ fnd'.anchor.b <= built
          /\ fnd # None => fnd' # None /\ fnd'.rev >= fnd.rev
          /\ \A y \in outbox : fnd' # None /\ y.rev > fnd'.rev => y.b > fnd'.anchor.b
          /\ cursor'.seq <= mon.rev
          /\ WasOpen(cursor'.seq) => fnd' # None /\ fnd'.rev >= cursor'.seq
      BY <1>2, <2>1, FindingStays
    <3> QED BY <1>5, <2>1, <3>1
  <2>2. CASE /\ built # MaxBatches /\ built' = built + 1
             /\ \E o \in CallOutcomes, bound \in BOOLEAN : SubmitInsightBatch(item, o, bound)
    <3>1. PICK o \in CallOutcomes, bound \in BOOLEAN : SubmitInsightBatch(item, o, bound)
      BY <2>2
    <3>2. item \in Items /\ item.rev \in Nat
      BY <1>4, <2>2 DEF Items
    <3>3. /\ fnd' \in Optional(Findings) /\ known' \in 0..MaxFindingRev
          /\ cursor' \in [seq : 0..MaxFindingRev, irev : 0..2, on : BOOLEAN]
          /\ \A b \in Batches : intent'[b] # None => fnd' # None /\ b <= fnd'.anchor.b
          /\ fnd' # None => fnd'.rev <= mon.rev /\ (fnd'.anchor.b <= built \/ (fnd'.anchor.b = item.b /\ fnd'.rev = item.rev))
          /\ fnd # None => fnd' # None /\ fnd'.rev >= fnd.rev
          /\ \A y \in outbox : fnd' # None /\ y.rev > fnd'.rev => y.b > fnd'.anchor.b
          /\ cursor'.seq <= mon.rev
          /\ WasOpen(cursor'.seq) => fnd' # None /\ fnd'.rev >= cursor'.seq
      <4>1. \A y \in outbox : item.rev > 0 /\ y.rev > item.rev => y.b > item.b
        BY <1>2, <1>3, <1>5, <3>2
      <4> QED BY <1>2, <1>5, <3>1, <3>2, <4>1, FindingMoves
    <3>4. fnd' # None => fnd'.anchor.b \in Nat /\ fnd'.rev \in Nat
      BY <3>3 DEF Optional, Findings, Anchors, Batches
    <3> QED BY <1>2, <1>3, <1>5, <2>2, <3>2, <3>3, <3>4
  <2> QED BY <1>1, <2>1, <2>2
<1>9. ManagerTypeOK'
  <2>1. place' \in Places \cup Calls \cup TakeoverOps
    BY BoundsAssumption DEF MInv, ManagerTypeOK, CollectSource, SubmitInsightBatch,
       ObservationAccepted, Observed, Reanchor, Anchor, NewBatch, NextAdmission, Effect,
       CallOutcomes, NothingToReport, Places, Calls, TakeoverOps
  <2>2. ret' \in Places
    BY BoundsAssumption DEF MInv, ManagerTypeOK, CollectSource, SubmitInsightBatch,
       ObservationAccepted, Observed, Reanchor, Anchor, NewBatch, NextAdmission, Effect,
       CallOutcomes, NothingToReport, Places
  <2>3. outbox' \subseteq Items
    BY <1>1, <1>2, <1>4
  <2>4. known' \in 0..MaxFindingRev
    BY <1>6
  <2>5. fnd' \in Optional(Findings)
    BY <1>6
  <2>6. cursor' \in [seq : 0..MaxFindingRev, irev : 0..2, on : BOOLEAN]
    BY <1>6
  <2>7. failed' \in BOOLEAN
    BY Zenon DEF CollectSource
  <2>8. skip' \in BOOLEAN
    BY Zenon DEF CollectSource
  <2>9. built' \in 0..MaxBatches
    BY <1>1, <1>2
  <2>10. managerFaults' \in 0..MaxManagerFaults
    BY BoundsAssumption DEF MInv, ManagerTypeOK, CollectSource, SubmitInsightBatch,
       ObservationAccepted, Observed, Reanchor, Anchor, NewBatch, NextAdmission, Effect,
       CallOutcomes, NothingToReport
  <2> QED BY <2>1, <2>2, <2>3, <2>4, <2>5, <2>6, <2>7, <2>8, <2>9, <2>10 DEF MInv,
             ManagerTypeOK, CollectSource
<1>10. PlaceInv'
  BY DEF MInv, CollectSource, SubmitInsightBatch, ObservationAccepted, Observed, Reanchor,
     Anchor, NewBatch, NextAdmission, Effect, CallOutcomes, NothingToReport, PlaceInv,
     Places, Calls, TakeoverOps
<1>11. DutyInv'
  BY <1>2 DEF DutyInv
<1>12. HandInv'
  <2>1. place' \in {"idle", "round"} \/ (place' = "adm0" /\ fnd' # None)
    BY <1>1 DEF CollectSource, NextAdmission
  <2> QED BY <2>1 DEF HandInv, Calls, TakeoverOps
<1>13. RunInv'
  BY DEF MInv, CollectSource, RunInv, Agree, Running, TerminalPhases, FinalGuidance
<1>14. OffIsSettled'
  BY DEF MInv, CollectSource, OffIsSettled
<1>15. OneAttemptPerEpisode'
  BY <1>2 DEF MInv, OneAttemptPerEpisode
<1>16. AnchorInv'
  BY <1>2, <1>6 DEF AnchorInv
<1>17. OrderInv'
  <2>1. outbox' \subseteq outbox \cup {item} /\ built' \in {built, built + 1}
        /\ (item \in outbox' /\ item \notin outbox => built' = built + 1)
    BY <1>1
  <2>2. \A y \in outbox : y.b <= built /\ y.b \in Nat
    BY <1>2 DEF MInv, OrderInv, Items, Batches
  <2>3. \A y, z \in outbox : y.rev > 0 /\ z.rev > y.rev => z.b > y.b
    BY DEF MInv, OrderInv
  <2>4. item.rev = 0 \/ item.rev = mon.rev
    BY <1>3
  <2> QED BY <1>2, <1>3, <1>5, <1>6, <2>1, <2>2, <2>3, <2>4 DEF OrderInv
<1>18. CursorInv'
  <2>1. outbox' \subseteq outbox \cup {item}
    BY <1>1
  <2>2. \A y \in outbox : y.seq \in Nat /\ y.rev \in Nat
    BY <1>2 DEF Items
  <2>3. fnd # None => fnd.rev \in Nat /\ fnd'.rev \in Nat
    BY <1>6 DEF MInv, ManagerTypeOK, Optional, Findings
  <2>4. item.seq \in Nat /\ mon.rev \in Nat
    BY <1>2, <1>3
  <2>5. \A n : WasOpen(n)' <=> WasOpen(n)
    BY <1>2 DEF WasOpen
  <2>6. ASSUME NEW y \in outbox'
        PROVE  /\ y.rev <= mon.rev /\ y.seq <= mon.rev
               /\ y.rev > 0 => y.seq = y.rev /\ (WasOpen(y.rev) => y.open)
               /\ y.rev = 0 /\ WasOpen(y.seq) => fnd' # None /\ fnd'.rev >= y.seq
    <3>1. CASE y = item
      BY <1>5, <1>6, <2>3, <2>4, <3>1
    <3>2. CASE y \in outbox
      BY <1>6, <2>2, <2>3, <3>2 DEF MInv, CursorInv
    <3> QED BY <2>1, <3>1, <3>2
  <2> QED BY <1>2, <1>6, <2>5, <2>6 DEF CursorInv, CursorIsObserved
<1> QED BY <1>9, <1>10, <1>11, <1>12, <1>13, <1>14, <1>15, <1>16, <1>17, <1>18 DEF MInv

LEMMA AttemptAdmissionKeeps ==
  ASSUME MInv, AttemptAdmission
  PROVE  MInv'
<1>1. /\ place = "adm0" /\ ret = place /\ ret' = place' /\ duties = {} /\ fnd # None
      /\ run' = run /\ hold' = hold /\ outbox' = outbox /\ cursor' = cursor /\ mon' = mon
      /\ built' = built /\ pol' = pol /\ task' = task
  BY InDuties DEF AttemptAdmission, MInv, HandInv, DutyInv, Mine
<1>2. /\ fnd \in Findings /\ fnd.anchor \in Anchors /\ fnd.anchor.b \in Batches /\ fnd.anchor.mode \in Modes
      /\ fnd.rev \in 1..MaxFindingRev /\ fnd.src \in Sources
      /\ pol.mode \in Modes /\ pol.rev \in 1..MaxPolicy /\ task \in Tasks
      /\ intent \in [Batches -> Optional(Intents)]
  BY <1>1 DEF MInv, ManagerTypeOK, Optional, Findings, Anchors, Policies
<1> DEFINE b == fnd.anchor.b
           new == [phase |-> "pending", rev |-> fnd.rev, prev |-> pol.rev, src |-> fnd.src,
                   task |-> task, mode |-> pol.mode]
<1>3. new \in Intents /\ new # None
  <2>1. new \in Intents
    BY <1>2 DEF Intents
  <2> QED BY <2>1, Present
<1>4. \/ fnd' = fnd
      \/ \E st \in {"admitted", "declined", "deferred"} : fnd' = [fnd EXCEPT !.anchor.st = st]
  BY DEF AttemptAdmission, AdmissionVerdict
<1>5. fnd' \in Findings /\ fnd'.rev = fnd.rev /\ fnd'.anchor.b = b /\ fnd' # None
  <2>1. CASE fnd' = fnd
    BY <1>1, <1>2, <2>1
  <2>2. CASE \E st \in {"admitted", "declined", "deferred"} : fnd' = [fnd EXCEPT !.anchor.st = st]
    <3>1. PICK st \in {"admitted", "declined", "deferred"} : fnd' = [fnd EXCEPT !.anchor.st = st]
      BY <2>2
    <3> DEFINE an == [fnd.anchor EXCEPT !.st = st]
    <3>2. an \in Anchors /\ an.b = b
      BY <1>2 DEF Anchors
    <3>3. fnd' = [fnd EXCEPT !.anchor = an]
      BY <1>2, <3>1 DEF Findings
    <3> HIDE DEF an
    <3>4. fnd' \in Findings /\ fnd'.rev = fnd.rev /\ fnd'.anchor = an
      BY <1>2, <3>2, <3>3 DEF Findings
    <3> QED BY <3>2, <3>4, Present
  <2> QED BY <1>4, <2>1, <2>2
<1>6. \/ intent' = intent /\ duties' = {}
      \/ /\ intent' = [intent EXCEPT ![b] = new] /\ duties' \in {{}, {b}}
         /\ duties' # {} => ret' = "adm"
         /\ intent[b] = None /\ pol.mode = fnd.anchor.mode /\ pol.mode # "off"
         /\ ~EpisodeAttempted(fnd.rev, fnd.anchor.mode)
  <2>1. CASE \A read \in BOOLEAN : AdmissionVerdict(read) # "reserve"
    BY <1>1, <2>1 DEF AttemptAdmission
  <2>2. CASE \E read \in BOOLEAN : AdmissionVerdict(read) = "reserve"
    <3>1. /\ intent[b] = None /\ pol.mode = fnd.anchor.mode /\ pol.mode # "off"
          /\ ~EpisodeAttempted(fnd.rev, fnd.anchor.mode)
      BY <2>2 DEF AdmissionVerdict
    <3> QED BY <1>1, <3>1 DEF AttemptAdmission
  <2> QED BY <2>1, <2>2
<1> HIDE DEF new, b
<1>7. /\ intent' \in [Batches -> Optional(Intents)] /\ b \in Batches /\ b \in Runs
      /\ \A c \in Batches : intent'[c] = intent[c] \/ (c = b /\ intent'[c] = new)
  <2>1. b \in Batches /\ b \in Runs
    BY <1>2, ManagerBounds DEF b, Batches, Runs
  <2> QED BY <1>2, <1>3, <1>6, <2>1 DEF Optional
<1>10. ManagerTypeOK'
  <2>1. place' \in Places \cup Calls \cup TakeoverOps
    BY BoundsAssumption DEF MInv, ManagerTypeOK, AttemptAdmission, AdmissionVerdict,
       EpisodeAttempted, Places, Calls, TakeoverOps
  <2>2. ret' \in Places
    BY BoundsAssumption DEF MInv, ManagerTypeOK, AttemptAdmission, AdmissionVerdict,
       EpisodeAttempted, Places
  <2>3. duties' \subseteq (IF ret' \in {"holds", "tko"} THEN TakeoverOps ELSE Runs)
    BY <1>6, <1>7
  <2>4. fnd' \in Optional(Findings)
    BY <1>5 DEF Optional
  <2>5. intent' \in [Batches -> Optional(Intents)]
    BY <1>7
  <2>6. managerFaults' \in 0..MaxManagerFaults
    BY BoundsAssumption DEF MInv, ManagerTypeOK, AttemptAdmission, AdmissionVerdict,
       EpisodeAttempted
  <2> QED BY <2>1, <2>2, <2>3, <2>4, <2>5, <2>6 DEF MInv, ManagerTypeOK, AttemptAdmission
<1>11. PlaceInv'
  BY DEF MInv, AttemptAdmission, AdmissionVerdict, EpisodeAttempted, PlaceInv, Places,
     Calls, TakeoverOps
<1>12. DutyInv'
  <2>1. duties' # {} => duties' = {b} /\ ret' = "adm" /\ intent' = [intent EXCEPT ![b] = new]
    BY <1>6
  <2>2. duties' # {} => intent'[b] # None
    BY <1>2, <1>3, <1>7, <2>1
  <2> QED BY <1>7, <2>1, <2>2 DEF DutyInv, Mine
<1>13. HandInv'
  BY DEF MInv, AttemptAdmission, AdmissionVerdict, EpisodeAttempted, HandInv, Calls,
     TakeoverOps
<1>14. RunInv'
  BY DEF MInv, AttemptAdmission, RunInv, Agree, Running, TerminalPhases, FinalGuidance
<1>15. OffIsSettled'
  BY DEF MInv, AttemptAdmission, OffIsSettled
<1>16. OneAttemptPerEpisode'
  <2>1. CASE intent' = intent
    BY <2>1 DEF MInv, OneAttemptPerEpisode
  <2>2. CASE /\ intent' = [intent EXCEPT ![b] = new]
             /\ intent[b] = None /\ pol.mode = fnd.anchor.mode /\ pol.mode # "off"
             /\ ~EpisodeAttempted(fnd.rev, fnd.anchor.mode)
    <3> SUFFICES ASSUME NEW c \in Batches, NEW d \in Batches, c < d,
                        intent'[c] # None, intent'[d] # None
                 PROVE  intent'[c].rev # intent'[d].rev /\ intent'[d].mode = "recommend"
      BY DEF OneAttemptPerEpisode
    <3>1. CASE c # b /\ d # b
      BY <1>7, <3>1 DEF MInv, OneAttemptPerEpisode
    <3>2. CASE c = b
      <4>1. d # b /\ intent[d] # None
        BY <1>7, <3>2 DEF Batches
      <4>2. d <= b
        BY <4>1 DEF MInv, AnchorInv, b
      <4> QED BY <3>2, <4>2 DEF Batches
    <3>3. CASE c # b /\ d = b
      <4>1. intent[c] # None /\ intent'[c] = intent[c] /\ intent'[d] = new
        BY <1>2, <1>7, <2>2, <3>3
      <4>2. intent[c].rev # fnd.rev /\ pol.mode # "auto_steer"
        BY <2>2, <4>1 DEF EpisodeAttempted
      <4> QED BY <1>2, <2>2, <4>1, <4>2 DEF new, Modes
    <3> QED BY <3>1, <3>2, <3>3
  <2> QED BY <1>6, <2>1, <2>2
<1>17. AnchorInv'
  <2>1. \A c \in Batches : intent[c] # None => c <= b
    BY DEF MInv, AnchorInv, b
  <2>2. \A c \in Batches : intent'[c] # None => c <= b
    BY <1>7, <2>1 DEF Batches
  <2>3. b <= built /\ fnd.rev <= mon.rev
    BY <1>1 DEF MInv, AnchorInv, b
  <2> QED BY <1>1, <1>5, <2>2, <2>3 DEF AnchorInv
<1>18. OrderInv'
  BY <1>1, <1>5 DEF MInv, OrderInv, b
<1>19. CursorInv'
  BY <1>1, <1>5 DEF MInv, CursorInv, CursorIsObserved, WasOpen
<1> QED BY <1>10, <1>11, <1>12, <1>13, <1>14, <1>15, <1>16, <1>17, <1>18, <1>19 DEF MInv

LEMMA ManagerCrashKeeps ==
  ASSUME MInv, ManagerCrash
  PROVE  MInv'
<1>1. ManagerTypeOK'
  <2>1. place' \in Places \cup Calls \cup TakeoverOps
    BY BoundsAssumption DEF MInv, ManagerTypeOK, ManagerCrash, ManagerFault, Places,
       Calls, TakeoverOps
  <2>2. ret' \in Places
    BY BoundsAssumption DEF MInv, ManagerTypeOK, ManagerCrash, ManagerFault, Places
  <2>3. duties' \subseteq (IF ret' \in {"holds", "tko"} THEN TakeoverOps ELSE Runs)
    BY BoundsAssumption DEF MInv, ManagerTypeOK, ManagerCrash, ManagerFault, Runs, Batches
  <2>4. inhand' \in Runs
    BY BoundsAssumption DEF MInv, ManagerTypeOK, ManagerCrash, ManagerFault, Runs, Batches
  <2>5. failed' \in BOOLEAN
    BY Zenon DEF ManagerCrash
  <2>6. skip' \in BOOLEAN
    BY Zenon DEF ManagerCrash
  <2>7. managerFaults' \in 0..MaxManagerFaults
    BY BoundsAssumption DEF MInv, ManagerTypeOK, ManagerCrash, ManagerFault
  <2> QED BY <2>1, <2>2, <2>3, <2>4, <2>5, <2>6, <2>7 DEF MInv, ManagerTypeOK,
             ManagerCrash
<1>2. PlaceInv'
  BY DEF MInv, ManagerCrash, ManagerFault, PlaceInv, Places, Calls, TakeoverOps
<1>3. DutyInv'
  BY DEF MInv, ManagerCrash, ManagerFault, DutyInv, Mine, ListedTakeovers
<1>4. HandInv'
  BY DEF MInv, ManagerCrash, ManagerFault, HandInv, Calls, TakeoverOps
<1>5. RunInv'
  BY DEF MInv, ManagerCrash, RunInv, Agree, Running, TerminalPhases, FinalGuidance
<1>6. OffIsSettled'
  BY DEF MInv, ManagerCrash, OffIsSettled
<1>7. OneAttemptPerEpisode'
  BY DEF MInv, ManagerCrash, OneAttemptPerEpisode
<1>8. AnchorInv'
  BY DEF MInv, ManagerCrash, AnchorInv
<1>9. OrderInv'
  BY DEF MInv, ManagerCrash, OrderInv
<1>10. CursorInv'
  BY DEF MInv, ManagerCrash, CursorInv, CursorIsObserved, WasOpen
<1> QED BY <1>1, <1>2, <1>3, <1>4, <1>5, <1>6, <1>7, <1>8, <1>9, <1>10 DEF MInv

LEMMA IncidentChangesKeeps ==
  ASSUME MInv, IncidentChanges
  PROVE  MInv'
<1>1. ManagerTypeOK'
  <2>1. mon' \in [rev : 0..MaxFindingRev, open : BOOLEAN]
    BY BoundsAssumption DEF MInv, ManagerTypeOK, IncidentChanges
  <2> QED BY <2>1 DEF MInv, ManagerTypeOK, IncidentChanges
<1>2. PlaceInv'
  BY DEF MInv, IncidentChanges, PlaceInv, Places, Calls, TakeoverOps
<1>3. DutyInv'
  BY DEF MInv, IncidentChanges, DutyInv, Mine, ListedTakeovers
<1>4. HandInv'
  BY DEF MInv, IncidentChanges, HandInv, Calls, TakeoverOps
<1>5. RunInv'
  BY DEF MInv, IncidentChanges, RunInv, Agree, Running, TerminalPhases, FinalGuidance
<1>6. OffIsSettled'
  BY DEF MInv, IncidentChanges, OffIsSettled
<1>7. OneAttemptPerEpisode'
  BY DEF MInv, IncidentChanges, OneAttemptPerEpisode
<1>8. AnchorInv'
  <2>1. mon'.rev = mon.rev + 1 /\ mon.rev \in Nat /\ intent' = intent /\ fnd' = fnd /\ built' = built
    BY DEF IncidentChanges, MInv, ManagerTypeOK
  <2>2. fnd # None => fnd.rev \in Nat
    BY DEF MInv, ManagerTypeOK, Optional, Findings
  <2> QED BY <2>1, <2>2 DEF MInv, AnchorInv
<1>9. OrderInv'
  BY DEF MInv, IncidentChanges, OrderInv
<1>10. CursorInv'
  <2>1. /\ mon'.rev = mon.rev + 1 /\ mon.rev \in Nat /\ mon.open
        /\ cursor' = cursor /\ outbox' = outbox /\ fnd' = fnd
        /\ outbox \subseteq Items /\ cursor.seq \in Nat
    BY DEF IncidentChanges, MInv, ManagerTypeOK
  <2>2. \A n \in Nat : n <= mon.rev => (WasOpen(n)' => WasOpen(n))
    BY <2>1 DEF WasOpen
  <2>3. \A y \in outbox : y.seq \in Nat /\ y.rev \in Nat
    BY <2>1 DEF Items
  <2> QED BY <2>1, <2>2, <2>3 DEF MInv, CursorInv, CursorIsObserved, WasOpen
<1> QED BY <1>1, <1>2, <1>3, <1>4, <1>5, <1>6, <1>7, <1>8, <1>9, <1>10 DEF MInv

LEMMA SourceRotatesKeeps ==
  ASSUME MInv, SourceRotates
  PROVE  MInv'
<1>1. ManagerTypeOK'
  <2>1. src' \in Sources /\ negotiated' \in BOOLEAN
    BY BoundsAssumption DEF MInv, ManagerTypeOK, SourceRotates, ManagerFault, Sources
  <2>2. managerFaults' \in 0..MaxManagerFaults
    BY BoundsAssumption DEF MInv, ManagerTypeOK, SourceRotates, ManagerFault
  <2> QED BY <2>1, <2>2 DEF MInv, ManagerTypeOK, SourceRotates
<1>2. PlaceInv'
  BY DEF MInv, SourceRotates, PlaceInv, Places, Calls, TakeoverOps
<1>3. DutyInv'
  BY DEF MInv, SourceRotates, DutyInv, Mine, ListedTakeovers
<1>4. HandInv'
  BY DEF MInv, SourceRotates, HandInv, Calls, TakeoverOps
<1>5. RunInv'
  BY DEF MInv, SourceRotates, RunInv, Agree, Running, TerminalPhases, FinalGuidance
<1>6. OffIsSettled'
  BY DEF MInv, SourceRotates, OffIsSettled
<1>7. OneAttemptPerEpisode'
  BY DEF MInv, SourceRotates, OneAttemptPerEpisode
<1>8. AnchorInv'
  BY DEF MInv, SourceRotates, AnchorInv
<1>9. OrderInv'
  BY DEF MInv, SourceRotates, OrderInv
<1>10. CursorInv'
  BY DEF MInv, SourceRotates, CursorInv, CursorIsObserved, WasOpen
<1> QED BY <1>1, <1>2, <1>3, <1>4, <1>5, <1>6, <1>7, <1>8, <1>9, <1>10 DEF MInv

LEMMA TaskChangesKeeps ==
  ASSUME MInv, TaskChanges
  PROVE  MInv'
<1>1. ManagerTypeOK'
  <2>1. task' \in Tasks
    BY BoundsAssumption DEF MInv, ManagerTypeOK, TaskChanges, ManagerFault, Tasks
  <2>2. managerFaults' \in 0..MaxManagerFaults
    BY BoundsAssumption DEF MInv, ManagerTypeOK, TaskChanges, ManagerFault
  <2> QED BY <2>1, <2>2 DEF MInv, ManagerTypeOK, TaskChanges
<1>2. PlaceInv'
  BY DEF MInv, TaskChanges, PlaceInv, Places, Calls, TakeoverOps
<1>3. DutyInv'
  BY DEF MInv, TaskChanges, DutyInv, Mine, ListedTakeovers
<1>4. HandInv'
  BY DEF MInv, TaskChanges, HandInv, Calls, TakeoverOps
<1>5. RunInv'
  BY DEF MInv, TaskChanges, RunInv, Agree, Running, TerminalPhases, FinalGuidance
<1>6. OffIsSettled'
  BY DEF MInv, TaskChanges, OffIsSettled
<1>7. OneAttemptPerEpisode'
  BY DEF MInv, TaskChanges, OneAttemptPerEpisode
<1>8. AnchorInv'
  BY DEF MInv, TaskChanges, AnchorInv
<1>9. OrderInv'
  BY DEF MInv, TaskChanges, OrderInv
<1>10. CursorInv'
  BY DEF MInv, TaskChanges, CursorInv, CursorIsObserved, WasOpen
<1> QED BY <1>1, <1>2, <1>3, <1>4, <1>5, <1>6, <1>7, <1>8, <1>9, <1>10 DEF MInv

LEMMA LeaseExpiresKeeps ==
  ASSUME MInv, LeaseExpires
  PROVE  MInv'
<1>1. /\ hlp' = hlp /\ acked' = acked
      /\ \/ run' = run /\ pol' = [pol EXCEPT !.lease = FALSE]
         \/ pol' = pol /\ \E r \in UnsettledRuns : run' = [run EXCEPT ![r].lease = FALSE]
  BY DEF LeaseExpires
<1>2. /\ run' \in [Runs -> Optional(RunRows)]
      /\ \A q \in Runs :
           /\ run[q] = None <=> run'[q] = None
           /\ run[q] # None =>
                /\ run'[q].phase = run[q].phase /\ run'[q].rep = run[q].rep
                /\ run'[q].att = run[q].att /\ run'[q].guid = run[q].guid
  <2>1. CASE run' = run
    BY <2>1 DEF MInv, ManagerTypeOK
  <2>2. CASE run' # run
    <3>1. PICK r \in UnsettledRuns : run' = [run EXCEPT ![r].lease = FALSE]
      BY <1>1, <2>2
    <3>2. r \in Runs /\ run[r] # None
      BY DEF UnsettledRuns
    <3> DEFINE x == [run[r] EXCEPT !.lease = FALSE]
    <3>3. x \in RunRows /\ run[r] \in RunRows
      BY <3>2, RowSteps
    <3>4. x.phase = run[r].phase /\ x.rep = run[r].rep /\ x.att = run[r].att /\ x.guid = run[r].guid
      BY <3>3 DEF RunRows
    <3>5. run' = [run EXCEPT ![r] = x]
      BY <3>1
    <3> HIDE DEF x
    <3> QED BY <3>2, <3>3, <3>4, <3>5, RunTable
  <2> QED BY <2>1, <2>2
<1>3. ManagerTypeOK'
  <2>1. pol' \in Policies
    <3>1. pol \in Policies
      BY DEF MInv, ManagerTypeOK
    <3>2. pol' = pol \/ pol' = [pol EXCEPT !.lease = FALSE]
      BY <1>1
    <3> QED BY <3>1, <3>2 DEF Policies
  <2>2. run' \in [Runs -> Optional(RunRows)]
    BY <1>2
  <2>3. managerFaults' \in 0..MaxManagerFaults
    BY BoundsAssumption DEF MInv, ManagerTypeOK, LeaseExpires, ManagerFault, UnsettledRuns
  <2> QED BY <2>1, <2>2, <2>3 DEF MInv, ManagerTypeOK, LeaseExpires
<1>4. PlaceInv'
  BY DEF MInv, LeaseExpires, PlaceInv, Places, Calls, TakeoverOps
<1>5. DutyInv'
  <2>1. intent' = intent /\ hold' = hold /\ owner' = owner /\ duties' = duties /\ ret' = ret
    BY DEF LeaseExpires
  <2> QED BY <1>2, <2>1, DutiesShrink
<1>6. HandInv'
  <2>1. /\ place' = place /\ inhand' = inhand /\ hold' = hold /\ fnd' = fnd /\ manual' = manual
        /\ place \notin {"go", "sub", "steer", "pause", "resume"} /\ inhand \in Runs
    BY InHands DEF LeaseExpires, Checking
  <2> QED BY <1>2, <2>1 DEF MInv, HandInv, Calls, TakeoverOps
<1>7. RunInv'
  <2>1. ASSUME NEW q \in Runs PROVE Agree(run'[q], hlp[q], acked[q])
    <3>1. Agree(run[q], hlp[q], acked[q])
      BY DEF MInv, RunInv
    <3> QED BY <1>2, <3>1 DEF Agree
  <2> QED BY <1>1, <2>1 DEF RunInv
<1>8. OffIsSettled'
  <2>1. pol \in Policies /\ hlp' = hlp
    BY DEF MInv, ManagerTypeOK, LeaseExpires
  <2>2. pol'.mode = pol.mode /\ pol'.status = pol.status /\ pol'.guard = pol.guard
    BY <1>1, <2>1 DEF Policies
  <2> QED BY <2>1, <2>2 DEF MInv, OffIsSettled
<1>9. OneAttemptPerEpisode'
  BY DEF MInv, LeaseExpires, OneAttemptPerEpisode
<1>10. AnchorInv'
  BY DEF MInv, LeaseExpires, AnchorInv
<1>11. OrderInv'
  BY DEF MInv, LeaseExpires, OrderInv
<1>12. CursorInv'
  BY DEF MInv, LeaseExpires, CursorInv, CursorIsObserved, WasOpen
<1> QED BY <1>3, <1>4, <1>5, <1>6, <1>7, <1>8, <1>9, <1>10, <1>11, <1>12 DEF MInv

LEMMA InsightPolicyChangesKeeps ==
  ASSUME MInv, InsightPolicyChanges
  PROVE  MInv'
<1>1. ManagerTypeOK'
  <2>1. ipol' \in [rev : 1..2, on : BOOLEAN]
    BY BoundsAssumption DEF MInv, ManagerTypeOK, InsightPolicyChanges, ManagerFault
  <2>2. managerFaults' \in 0..MaxManagerFaults
    BY BoundsAssumption DEF MInv, ManagerTypeOK, InsightPolicyChanges, ManagerFault
  <2> QED BY <2>1, <2>2 DEF MInv, ManagerTypeOK, InsightPolicyChanges
<1>2. PlaceInv'
  BY DEF MInv, InsightPolicyChanges, PlaceInv, Places, Calls, TakeoverOps
<1>3. DutyInv'
  BY DEF MInv, InsightPolicyChanges, DutyInv, Mine, ListedTakeovers
<1>4. HandInv'
  BY DEF MInv, InsightPolicyChanges, HandInv, Calls, TakeoverOps
<1>5. RunInv'
  BY DEF MInv, InsightPolicyChanges, RunInv, Agree, Running, TerminalPhases, FinalGuidance
<1>6. OffIsSettled'
  BY DEF MInv, InsightPolicyChanges, OffIsSettled
<1>7. OneAttemptPerEpisode'
  BY DEF MInv, InsightPolicyChanges, OneAttemptPerEpisode
<1>8. AnchorInv'
  BY DEF MInv, InsightPolicyChanges, AnchorInv
<1>9. OrderInv'
  BY DEF MInv, InsightPolicyChanges, OrderInv
<1>10. CursorInv'
  BY DEF MInv, InsightPolicyChanges, CursorInv, CursorIsObserved, WasOpen
<1> QED BY <1>1, <1>2, <1>3, <1>4, <1>5, <1>6, <1>7, <1>8, <1>9, <1>10 DEF MInv

LEMMA PolicyEditedKeeps ==
  ASSUME MInv, PolicyEdited
  PROVE  MInv'
<1>1. ManagerTypeOK'
  <2>1. desired' \in [mode : Modes, rev : 1..MaxPolicy]
    BY BoundsAssumption DEF MInv, ManagerTypeOK, PolicyEdited, ManagerFault, Modes
  <2>2. managerFaults' \in 0..MaxManagerFaults
    BY BoundsAssumption DEF MInv, ManagerTypeOK, PolicyEdited, ManagerFault, Modes
  <2> QED BY <2>1, <2>2 DEF MInv, ManagerTypeOK, PolicyEdited
<1>2. PlaceInv'
  BY DEF MInv, PolicyEdited, PlaceInv, Places, Calls, TakeoverOps
<1>3. DutyInv'
  BY DEF MInv, PolicyEdited, DutyInv, Mine, ListedTakeovers
<1>4. HandInv'
  BY DEF MInv, PolicyEdited, HandInv, Calls, TakeoverOps
<1>5. RunInv'
  BY DEF MInv, PolicyEdited, RunInv, Agree, Running, TerminalPhases, FinalGuidance
<1>6. OffIsSettled'
  BY DEF MInv, PolicyEdited, OffIsSettled
<1>7. OneAttemptPerEpisode'
  BY DEF MInv, PolicyEdited, OneAttemptPerEpisode
<1>8. AnchorInv'
  BY DEF MInv, PolicyEdited, AnchorInv
<1>9. OrderInv'
  BY DEF MInv, PolicyEdited, OrderInv
<1>10. CursorInv'
  BY DEF MInv, PolicyEdited, CursorInv, CursorIsObserved, WasOpen
<1> QED BY <1>1, <1>2, <1>3, <1>4, <1>5, <1>6, <1>7, <1>8, <1>9, <1>10 DEF MInv

LEMMA ManualRequestedKeeps ==
  ASSUME MInv, ManualRequested
  PROVE  MInv'
<1>1. ManagerTypeOK'
  <2>1. manual' \in Optional(Reviews)
    BY BoundsAssumption DEF MInv, ManagerTypeOK, ManualRequested, ManagerFault, Optional,
       Reviews, Tasks, Sources
  <2>2. managerFaults' \in 0..MaxManagerFaults
    BY BoundsAssumption DEF MInv, ManagerTypeOK, ManualRequested, ManagerFault
  <2> QED BY <2>1, <2>2 DEF MInv, ManagerTypeOK, ManualRequested
<1>2. PlaceInv'
  BY DEF MInv, ManualRequested, PlaceInv, Places, Calls, TakeoverOps
<1>3. DutyInv'
  BY DEF MInv, ManualRequested, DutyInv, Mine, ListedTakeovers
<1>4. HandInv'
  BY DEF MInv, ManualRequested, ManagerFault, HandInv, Calls, TakeoverOps
<1>5. RunInv'
  BY DEF MInv, ManualRequested, RunInv, Agree, Running, TerminalPhases, FinalGuidance
<1>6. OffIsSettled'
  BY DEF MInv, ManualRequested, OffIsSettled
<1>7. OneAttemptPerEpisode'
  BY DEF MInv, ManualRequested, OneAttemptPerEpisode
<1>8. AnchorInv'
  BY DEF MInv, ManualRequested, AnchorInv
<1>9. OrderInv'
  BY DEF MInv, ManualRequested, OrderInv
<1>10. CursorInv'
  BY DEF MInv, ManualRequested, CursorInv, CursorIsObserved, WasOpen
<1> QED BY <1>1, <1>2, <1>3, <1>4, <1>5, <1>6, <1>7, <1>8, <1>9, <1>10 DEF MInv

LEMMA ManualWithdrawnKeeps ==
  ASSUME MInv, ManualWithdrawn
  PROVE  MInv'
<1>1. ManagerTypeOK'
  <2>1. manual' \in Optional(Reviews)
    BY BoundsAssumption DEF MInv, ManagerTypeOK, ManualWithdrawn, Optional, Reviews,
       Tasks, Sources
  <2> QED BY <2>1 DEF MInv, ManagerTypeOK, ManualWithdrawn
<1>2. PlaceInv'
  BY DEF MInv, ManualWithdrawn, PlaceInv, Places, Calls, TakeoverOps
<1>3. DutyInv'
  BY DEF MInv, ManualWithdrawn, DutyInv, Mine, ListedTakeovers
<1>4. HandInv'
  BY DEF MInv, ManualWithdrawn, HandInv, Calls, TakeoverOps
<1>5. RunInv'
  BY DEF MInv, ManualWithdrawn, RunInv, Agree, Running, TerminalPhases, FinalGuidance
<1>6. OffIsSettled'
  BY DEF MInv, ManualWithdrawn, OffIsSettled
<1>7. OneAttemptPerEpisode'
  BY DEF MInv, ManualWithdrawn, OneAttemptPerEpisode
<1>8. AnchorInv'
  BY DEF MInv, ManualWithdrawn, AnchorInv
<1>9. OrderInv'
  BY DEF MInv, ManualWithdrawn, OrderInv
<1>10. CursorInv'
  BY DEF MInv, ManualWithdrawn, CursorInv, CursorIsObserved, WasOpen
<1> QED BY <1>1, <1>2, <1>3, <1>4, <1>5, <1>6, <1>7, <1>8, <1>9, <1>10 DEF MInv

LEMMA OwnerActsKeeps ==
  ASSUME MInv, OwnerActs
  PROVE  MInv'
<1>1. ManagerTypeOK'
  <2>1. desired' \in [mode : Modes, rev : 1..MaxPolicy]
    BY BoundsAssumption DEF MInv, ManagerTypeOK, OwnerActs, ManagerFault, TakeoverOps,
       Modes
  <2>2. owner' \in [TakeoverOps -> Optional(Requests)]
    BY BoundsAssumption DEF MInv, ManagerTypeOK, OwnerActs, ManagerFault, TakeoverOps,
       Modes, Optional, Requests, Tasks, Sources
  <2>3. managerFaults' \in 0..MaxManagerFaults
    BY BoundsAssumption DEF MInv, ManagerTypeOK, OwnerActs, ManagerFault, TakeoverOps,
       Modes
  <2> QED BY <2>1, <2>2, <2>3 DEF MInv, ManagerTypeOK, OwnerActs
<1>2. PlaceInv'
  BY DEF MInv, OwnerActs, PlaceInv, Places, Calls, TakeoverOps
<1>3. DutyInv'
  BY InDuties, InHands, DutiesShrink DEF MInv, OwnerActs, ManagerFault, TakeoverOps,
     Modes, DutyInv
<1>4. HandInv'
  BY DEF MInv, OwnerActs, HandInv, Calls, TakeoverOps
<1>5. RunInv'
  BY DEF MInv, OwnerActs, RunInv, Agree, Running, TerminalPhases, FinalGuidance
<1>6. OffIsSettled'
  BY DEF MInv, OwnerActs, OffIsSettled
<1>7. OneAttemptPerEpisode'
  BY DEF MInv, OwnerActs, OneAttemptPerEpisode
<1>8. AnchorInv'
  BY DEF MInv, OwnerActs, AnchorInv
<1>9. OrderInv'
  BY DEF MInv, OwnerActs, OrderInv
<1>10. CursorInv'
  BY DEF MInv, OwnerActs, CursorInv, CursorIsObserved, WasOpen
<1> QED BY <1>1, <1>2, <1>3, <1>4, <1>5, <1>6, <1>7, <1>8, <1>9, <1>10 DEF MInv

LEMMA TakeoverWithdrawnKeeps ==
  ASSUME MInv, TakeoverWithdrawn
  PROVE  MInv'
<1>1. ManagerTypeOK'
  <2>1. owner' \in [TakeoverOps -> Optional(Requests)]
    BY BoundsAssumption DEF MInv, ManagerTypeOK, TakeoverWithdrawn, TakeoverOps, Optional,
       Requests, Tasks, Sources
  <2> QED BY <2>1 DEF MInv, ManagerTypeOK, TakeoverWithdrawn
<1>2. PlaceInv'
  BY DEF MInv, TakeoverWithdrawn, PlaceInv, Places, Calls, TakeoverOps
<1>3. DutyInv'
  BY InDuties, InHands, DutiesShrink DEF MInv, TakeoverWithdrawn, TakeoverOps, DutyInv
<1>4. HandInv'
  BY DEF MInv, TakeoverWithdrawn, HandInv, Calls, TakeoverOps
<1>5. RunInv'
  BY DEF MInv, TakeoverWithdrawn, RunInv, Agree, Running, TerminalPhases, FinalGuidance
<1>6. OffIsSettled'
  BY DEF MInv, TakeoverWithdrawn, OffIsSettled
<1>7. OneAttemptPerEpisode'
  BY DEF MInv, TakeoverWithdrawn, OneAttemptPerEpisode
<1>8. AnchorInv'
  BY DEF MInv, TakeoverWithdrawn, AnchorInv
<1>9. OrderInv'
  BY DEF MInv, TakeoverWithdrawn, OrderInv
<1>10. CursorInv'
  BY DEF MInv, TakeoverWithdrawn, CursorInv, CursorIsObserved, WasOpen
<1> QED BY <1>1, <1>2, <1>3, <1>4, <1>5, <1>6, <1>7, <1>8, <1>9, <1>10 DEF MInv

LEMMA HelperFinishesKeeps ==
  ASSUME MInv, HelperFinishes
  PROVE  MInv'
<1>11. /\ hlp' \in [Runs -> HelperRuns]
       /\ \A q \in Runs : hlp'[q].starts = hlp[q].starts /\ hlp'[q].steers = hlp[q].steers
                         /\ hlp'[q].guid = hlp[q].guid
  <2>1. PICK r \in Runs, st \in TerminalPhases : hlp' = [hlp EXCEPT ![r].st = st, ![r].more = {}]
    BY DEF HelperFinishes
  <2>2. hlp \in [Runs -> HelperRuns] /\ hlp[r] \in HelperRuns
    BY DEF MInv, ManagerTypeOK
  <2>3. hlp' \in [Runs -> HelperRuns]
    BY <2>1, HelperSteps
  <2>4. hlp' = [hlp EXCEPT ![r] = [hlp[r] EXCEPT !.st = st, !.more = {}]]
    BY <2>1, <2>2
  <2>5. /\ [hlp[r] EXCEPT !.st = st, !.more = {}].starts = hlp[r].starts
        /\ [hlp[r] EXCEPT !.st = st, !.more = {}].steers = hlp[r].steers
        /\ [hlp[r] EXCEPT !.st = st, !.more = {}].guid = hlp[r].guid
    BY <2>2 DEF HelperRuns
  <2>6. ASSUME NEW q \in Runs
        PROVE  /\ hlp'[q].starts = hlp[q].starts /\ hlp'[q].steers = hlp[q].steers
               /\ hlp'[q].guid = hlp[q].guid
    <3>1. CASE q = r
      BY <2>2, <2>4, <2>5, <3>1
    <3>2. CASE q # r
      BY <2>2, <2>4, <3>2
    <3> QED BY <3>1, <3>2
  <2> QED BY <2>3, <2>6
<1>1. ManagerTypeOK'
  BY <1>11 DEF MInv, ManagerTypeOK, HelperFinishes
<1>2. PlaceInv'
  BY DEF MInv, HelperFinishes, PlaceInv, Places, Calls, TakeoverOps
<1>3. DutyInv'
  BY DEF MInv, HelperFinishes, DutyInv, Mine, ListedTakeovers
<1>4. HandInv'
  BY DEF MInv, HelperFinishes, Looking, HandInv, Calls, TakeoverOps
<1>5. RunInv'
  BY <1>11 DEF MInv, HelperFinishes, RunInv, Agree
<1>6. OffIsSettled'
  BY <1>11 DEF MInv, HelperFinishes, OffIsSettled
<1>7. OneAttemptPerEpisode'
  BY DEF MInv, HelperFinishes, OneAttemptPerEpisode
<1>8. AnchorInv'
  BY DEF MInv, HelperFinishes, AnchorInv
<1>9. OrderInv'
  BY DEF MInv, HelperFinishes, OrderInv
<1>10. CursorInv'
  BY DEF MInv, HelperFinishes, CursorInv, CursorIsObserved, WasOpen
<1> QED BY <1>1, <1>2, <1>3, <1>4, <1>5, <1>6, <1>7, <1>8, <1>9, <1>10 DEF MInv

LEMMA GuidanceLandsKeeps ==
  ASSUME MInv, GuidanceLands
  PROVE  MInv'
<1>1. ManagerTypeOK'
  <2>1. PICK r \in Runs, g \in {"available", "refused"} : hlp' = [hlp EXCEPT ![r].guid = g]
    BY DEF GuidanceLands
  <2>2. hlp' \in [Runs -> HelperRuns]
    BY <2>1, HelperSteps DEF FinalGuidance
  <2> QED BY <2>2 DEF MInv, ManagerTypeOK, GuidanceLands
<1>2. PlaceInv'
  BY DEF MInv, GuidanceLands, PlaceInv, Places, Calls, TakeoverOps
<1>3. DutyInv'
  BY DEF MInv, GuidanceLands, DutyInv, Mine, ListedTakeovers
<1>4. HandInv'
  BY DEF MInv, GuidanceLands, FinalGuidance, HandInv, Calls, TakeoverOps
<1>5. RunInv'
  BY DEF MInv, GuidanceLands, FinalGuidance, RunInv, Agree, Running, TerminalPhases
<1>6. OffIsSettled'
  BY DEF MInv, GuidanceLands, FinalGuidance, OffIsSettled
<1>7. OneAttemptPerEpisode'
  BY DEF MInv, GuidanceLands, OneAttemptPerEpisode
<1>8. AnchorInv'
  BY DEF MInv, GuidanceLands, AnchorInv
<1>9. OrderInv'
  BY DEF MInv, GuidanceLands, OrderInv
<1>10. CursorInv'
  BY DEF MInv, GuidanceLands, CursorInv, CursorIsObserved, WasOpen
<1> QED BY <1>1, <1>2, <1>3, <1>4, <1>5, <1>6, <1>7, <1>8, <1>9, <1>10 DEF MInv

(* Every step of the coordinator, of the owner and of the world.            *)
LEMMA ManagerStepKeeps ==
  ASSUME MInv, [ManagerNext]_managerVars
  PROVE  MInv'
<1>1. CASE RenewPendingTakeovers
  BY <1>1, RenewPendingTakeoversKeeps
<1>2. CASE NextPhase
  BY <1>2, NextPhaseKeeps
<1>3. CASE RecoverReservations
  <2>1. PICK b \in duties :
          \/ \E o \in CallOutcomes : CompleteAutomaticReservation(b, o)
          \/ \E fresh, read, dies \in BOOLEAN : BeginReservedRun(b, fresh, read, dies)
    BY <1>3 DEF RecoverReservations
  <2>2. place \in {"resv", "adm"}
    BY <1>3 DEF RecoverReservations
  <2> QED BY <2>1, <2>2, CompleteAutomaticReservationKeeps, BeginReservedRunKeeps
<1>4. ASSUME NEW o \in CallOutcomes, NEW read \in BOOLEAN, StartAcknowledgedReview(o, read)
      PROVE  MInv'
  BY <1>4, StartAcknowledgedReviewKeeps
<1>5. ASSUME NEW o \in CallOutcomes, NEW answer \in StartAnswers, StartReview(o, answer)
      PROVE  MInv'
  BY <1>5, StartReviewKeeps
<1>6. CASE SendReport
  <2>1. place = "sub" /\ inhand \in Runs /\ run[inhand].phase = "report_pending"
    BY <1>6, InHands DEF SendReport, MInv, HandInv
  <2>2. PICK r \in Runs : r = inhand
    BY <2>1
  <2>3. PICK o \in CallOutcomes : SubmitRunReport(r, o)
    BY <1>6, <2>2 DEF SendReport, SubmitRunReport, InHand
  <2>4. place = "sub" /\ r = inhand /\ run[r].phase = "report_pending"
    BY <2>1, <2>2
  <2> QED BY <2>3, <2>4, SubmitRunReportKeeps
<1>7. ASSUME NEW r \in duties, place \in {"runs", "adv"}, AdvanceRun(r)
      PROVE  MInv'
  <2>1. r \in Runs
    BY <1>7, InDuties
  <2>2. ASSUME NEW o \in CallOutcomes, run[r].phase = "report_pending", SubmitRunReport(r, o)
        PROVE  MInv'
    BY <1>7, <2>1, <2>2, SubmitRunReportKeeps
  <2> QED BY <1>7, <2>2, RecoverStartAckKeeps, ResumeRunKeeps DEF AdvanceRun
<1>8. CASE RecoverRuns
  BY <1>7, <1>8 DEF RecoverRuns
<1>9. CASE AdvanceAutomaticRuns
  BY <1>7, <1>9, LeaveRunKeeps DEF AdvanceAutomaticRuns
<1>10. CASE DispatchPendingGuidance
  BY <1>10, DispatchPendingGuidanceKeeps
<1>11. ASSUME NEW o \in CallOutcomes, NEW refuses \in BOOLEAN, DispatchGuidance(o, refuses)
       PROVE  MInv'
  BY <1>11, DispatchGuidanceKeeps
<1>12. CASE RecoverPendingGuidance
  BY <1>12, RecoverPendingGuidanceKeeps
<1>13. CASE ApplyPolicies
  BY <1>13, FenceOffGuidanceKeeps, ApplyPolicyKeeps, ManifestNotAppliedKeeps DEF ApplyPolicies, ManifestNotApplied
<1>14. CASE ApplyReview
  BY <1>14, ApplyReviewKeeps
<1>15. CASE ApplyTakeover
  BY <1>15, ApplyTakeoverKeeps
<1>16. CASE ReconcileTakeover
  BY <1>16, ReconcileTakeoverKeeps
<1>17. ASSUME NEW o \in CallOutcomes, DispatchTakeover(o)
       PROVE  MInv'
  BY <1>17, DispatchTakeoverKeeps
<1>18. CASE PassReported
  BY <1>18, PassReportedKeeps
<1>19. CASE FetchInsightPolicies
  BY <1>19, FetchInsightPoliciesKeeps
<1>20. CASE DrainOutbox
  BY <1>20, DrainOutboxKeeps
<1>21. CASE CollectSource
  BY <1>21, CollectSourceKeeps
<1>22. CASE AttemptAdmission
  BY <1>22, AttemptAdmissionKeeps
<1>23. CASE CompleteAdmission
  <2>1. PICK b \in duties :
          \/ \E o \in CallOutcomes : CompleteAutomaticReservation(b, o)
          \/ \E fresh, read, dies \in BOOLEAN : BeginReservedRun(b, fresh, read, dies)
    BY <1>23 DEF CompleteAdmission
  <2>2. place \in {"resv", "adm"}
    BY <1>23 DEF CompleteAdmission
  <2> QED BY <2>1, <2>2, CompleteAutomaticReservationKeeps, BeginReservedRunKeeps
<1>24. CASE Pass
  BY <1>1, <1>2, <1>3, <1>4, <1>5, <1>6, <1>8, <1>9, <1>10, <1>11, <1>12, <1>13, <1>14,
     <1>15, <1>16, <1>17, <1>18, <1>19, <1>20, <1>21, <1>22, <1>23, <1>24 DEF Pass
<1>25. CASE ManagerCrash
  BY <1>25, ManagerCrashKeeps
<1>26. CASE IncidentChanges
  BY <1>26, IncidentChangesKeeps
<1>27. CASE SourceRotates
  BY <1>27, SourceRotatesKeeps
<1>28. CASE TaskChanges
  BY <1>28, TaskChangesKeeps
<1>29. CASE LeaseExpires
  BY <1>29, LeaseExpiresKeeps
<1>30. CASE InsightPolicyChanges
  BY <1>30, InsightPolicyChangesKeeps
<1>31. CASE PolicyEdited
  BY <1>31, PolicyEditedKeeps
<1>32. CASE ManualRequested
  BY <1>32, ManualRequestedKeeps
<1>33. CASE ManualWithdrawn
  BY <1>33, ManualWithdrawnKeeps
<1>34. CASE OwnerActs
  BY <1>34, OwnerActsKeeps
<1>35. CASE TakeoverWithdrawn
  BY <1>35, TakeoverWithdrawnKeeps
<1>36. CASE HelperFinishes
  BY <1>36, HelperFinishesKeeps
<1>37. CASE GuidanceLands
  BY <1>37, GuidanceLandsKeeps
<1>38. CASE UNCHANGED managerVars
  <2>1. UNCHANGED <<control, world, tables, pass, built, managerFaults>>
    BY <1>38 DEF managerVars
  <2>2. ManagerTypeOK' /\ PlaceInv' /\ OffIsSettled' /\ OneAttemptPerEpisode'
    BY <2>1 DEF MInv, ManagerTypeOK, PlaceInv, OffIsSettled, OneAttemptPerEpisode
  <2>3. DutyInv' /\ HandInv'
    BY <2>1 DEF MInv, DutyInv, Mine, ListedTakeovers, HandInv
  <2>4. RunInv'
    BY <2>1 DEF MInv, RunInv, Agree
  <2>5. AnchorInv' /\ OrderInv' /\ CursorInv'
    BY <2>1 DEF MInv, AnchorInv, OrderInv, CursorInv, CursorIsObserved, WasOpen
  <2> QED BY <2>2, <2>3, <2>4, <2>5 DEF MInv
<1> QED BY <1>24, <1>25, <1>26, <1>27, <1>28, <1>29, <1>30, <1>31, <1>32, <1>33, <1>34,
           <1>35, <1>36, <1>37, <1>38 DEF ManagerNext

-----------------------------------------------------------------------------
(* Further model requests.  A run of the automatic kind is marked as such   *)
(* from its first row to its report, so the recovery, which continues the   *)
(* others, leaves its further request to the feedback phase.                *)
GateInv == \A r \in Batches : (run[r] # None /\ run[r].phase \in Running) => run[r].auto
FenceInv ==
    \A r \in Runs :
        /\ (hlp[r].st = "running" \/ hlp[r].more # {}) => hlp[r].starts = 1
        /\ r \in Batches => "runs" \notin hlp[r].more

(* No write to a row that is there loses the mark of a running run.         *)
LEMMA GateExcept ==
  ASSUME MInv, GateInv, NEW r \in Runs, run[r] # None
  PROVE  /\ run[r].phase \in Running => \A p : run' = [run EXCEPT ![r].phase = p] => GateInv'
         /\ \A p : p \notin Running =>
              /\ run' = [run EXCEPT ![r].phase = p] => GateInv'
              /\ \A q : run' = [run EXCEPT ![r].phase = p, ![r].rep = q] => GateInv'
         /\ \A g : run' = [run EXCEPT ![r].guid = g] => GateInv'
         /\ run' = [run EXCEPT ![r].att = TRUE] => GateInv'
         /\ \A b : run' = [run EXCEPT ![r].lease = b] => GateInv'
<1>1. run \in [Runs -> Optional(RunRows)] /\ run[r] \in RunRows
  BY RowSteps DEF MInv, ManagerTypeOK
<1>2. Batches \subseteq Runs
  BY ManagerBounds DEF Batches, Runs
<1>3. ASSUME NEW x, x.auto = run[r].auto, x.phase \in Running => run[r].phase \in Running,
             run' = [run EXCEPT ![r] = x]
      PROVE  GateInv'
  BY <1>1, <1>2, <1>3 DEF GateInv
<1>4. ASSUME NEW p PROVE [run[r] EXCEPT !.phase = p].auto = run[r].auto /\ [run[r] EXCEPT !.phase = p].phase = p
  BY <1>1 DEF RunRows
<1>5. ASSUME NEW p, NEW q
      PROVE  /\ [run[r] EXCEPT !.phase = p, !.rep = q].auto = run[r].auto
             /\ [run[r] EXCEPT !.phase = p, !.rep = q].phase = p
  BY <1>1 DEF RunRows
<1>6. ASSUME NEW g
      PROVE  /\ [run[r] EXCEPT !.guid = g].auto = run[r].auto
             /\ [run[r] EXCEPT !.guid = g].phase = run[r].phase
             /\ [run[r] EXCEPT !.lease = g].auto = run[r].auto
             /\ [run[r] EXCEPT !.lease = g].phase = run[r].phase
             /\ [run[r] EXCEPT !.att = g].auto = run[r].auto
             /\ [run[r] EXCEPT !.att = g].phase = run[r].phase
  BY <1>1 DEF RunRows
<1>7. /\ \A p : [run EXCEPT ![r].phase = p] = [run EXCEPT ![r] = [run[r] EXCEPT !.phase = p]]
      /\ \A p, q : [run EXCEPT ![r].phase = p, ![r].rep = q]
                     = [run EXCEPT ![r] = [run[r] EXCEPT !.phase = p, !.rep = q]]
      /\ \A g : [run EXCEPT ![r].guid = g] = [run EXCEPT ![r] = [run[r] EXCEPT !.guid = g]]
      /\ \A g : [run EXCEPT ![r].lease = g] = [run EXCEPT ![r] = [run[r] EXCEPT !.lease = g]]
      /\ [run EXCEPT ![r].att = TRUE] = [run EXCEPT ![r] = [run[r] EXCEPT !.att = TRUE]]
  BY <1>1
<1>8. ASSUME run[r].phase \in Running, NEW p, run' = [run EXCEPT ![r].phase = p] PROVE GateInv'
  BY <1>3, <1>4, <1>7, <1>8
<1>9. ASSUME NEW p, p \notin Running, run' = [run EXCEPT ![r].phase = p] PROVE GateInv'
  <2> DEFINE x == [run[r] EXCEPT !.phase = p]
  <2>1. x.auto = run[r].auto /\ x.phase = p /\ run' = [run EXCEPT ![r] = x]
    BY <1>4, <1>7, <1>9
  <2> HIDE DEF x
  <2> QED BY <1>3, <1>9, <2>1
<1>10. ASSUME NEW p, p \notin Running, NEW q, run' = [run EXCEPT ![r].phase = p, ![r].rep = q] PROVE GateInv'
  <2> DEFINE x == [run[r] EXCEPT !.phase = p, !.rep = q]
  <2>1. x.auto = run[r].auto /\ x.phase = p /\ run' = [run EXCEPT ![r] = x]
    BY <1>5, <1>7, <1>10
  <2> HIDE DEF x
  <2> QED BY <1>3, <1>10, <2>1
<1>11. ASSUME NEW g, run' = [run EXCEPT ![r].guid = g] \/ run' = [run EXCEPT ![r].lease = g]
       PROVE  GateInv'
  BY <1>3, <1>6, <1>7, <1>11
<1>12. ASSUME run' = [run EXCEPT ![r].att = TRUE] PROVE GateInv'
  BY <1>3, <1>6, <1>7, <1>12
<1> QED BY <1>8, <1>9, <1>10, <1>11, <1>12

LEMMA GateKeeps ==
  ASSUME MInv, GateInv, [ManagerNext]_managerVars
  PROVE  GateInv'
<1>1. CASE UNCHANGED run
  BY <1>1 DEF GateInv
<1>2. ASSUME NEW b \in duties, NEW fresh \in BOOLEAN, NEW read \in BOOLEAN, NEW dies \in BOOLEAN,
             place \in {"resv", "adm"}, BeginReservedRun(b, fresh, read, dies)
      PROVE  GateInv'
  <2>1. b \in Runs /\ run \in [Runs -> Optional(RunRows)]
    BY <1>2, InDuties DEF MInv, ManagerTypeOK
  <2>2. \/ run' = run
        \/ run' = [run EXCEPT ![b] = Row(intent[b], "start_ack_pending", TRUE, TRUE, None)]
        \/ run' = [run EXCEPT ![b] = Row(intent[b], "report_pending", FALSE, FALSE, "zero")]
    BY <1>2 DEF BeginReservedRun
  <2>3. Batches \subseteq Runs
    BY ManagerBounds DEF Batches, Runs
  <2> QED BY <2>1, <2>2, <2>3 DEF GateInv, Row, Running
<1>3. ASSUME NEW o \in CallOutcomes, NEW read \in BOOLEAN, StartAcknowledgedReview(o, read)
      PROVE  GateInv'
  <2>1. inhand \in Runs /\ run[inhand] # None /\ run[inhand].phase \in Running
    BY <1>3, InHands DEF MInv, HandInv, StartAcknowledgedReview, Running
  <2>2. \/ run' = run
        \/ run' = [run EXCEPT ![inhand].phase = "execution_unknown"]
        \/ run' = [run EXCEPT ![inhand].phase = "report_pending", ![inhand].rep = "zero"]
    BY <1>3 DEF StartAcknowledgedReview
  <2> QED BY <1>1, <2>1, <2>2, GateExcept DEF Running
<1>4. ASSUME NEW o \in CallOutcomes, NEW answer \in StartAnswers, StartReview(o, answer)
      PROVE  GateInv'
  <2>1. inhand \in Runs /\ run[inhand] # None /\ run[inhand].phase \in Running
    BY <1>4, InHands DEF MInv, HandInv, StartReview, Running
  <2>2. \/ run' = run
        \/ run' = [run EXCEPT ![inhand].phase = answer]
        \/ run' = [run EXCEPT ![inhand].phase = "report_pending", ![inhand].rep = "failed"]
    BY <1>4 DEF StartReview
  <2> QED BY <1>1, <2>1, <2>2, GateExcept DEF Running
<1>5. ASSUME NEW r \in Runs, run[r] # None, NEW o \in CallOutcomes,
             place = "sub" \/ run[r].phase = "report_pending", SubmitRunReport(r, o)
      PROVE  GateInv'
  <2>1. run' = run \/ run' = [run EXCEPT ![r].phase = IF run[r].rep = "zero" THEN "failed" ELSE run[r].rep]
    BY <1>5 DEF SubmitRunReport
  <2>2. CASE run[r].phase = "report_pending"
    <3>1. (IF run[r].rep = "zero" THEN "failed" ELSE run[r].rep) \notin Running
      BY <1>5, <2>2, ReportIs DEF RunReports, TerminalPhases, Running
    <3> QED BY <1>1, <1>5, <2>1, <3>1, GateExcept
  <2>3. CASE run[r].phase \in Running
    BY <1>1, <1>5, <2>1, <2>3, GateExcept
  <2>4. CASE run[r].phase \in TerminalPhases
    <3>1. run[r].rep # None /\ run[r] \in RunRows
      BY <1>5, <2>4, RowSteps DEF MInv, RunInv, Agree
    <3>2. (IF run[r].rep = "zero" THEN "failed" ELSE run[r].rep) \notin Running
      BY <3>1 DEF RunRows, Optional, RunReports, TerminalPhases, Running
    <3> QED BY <1>1, <1>5, <2>1, <3>2, GateExcept
  <2>5. run[r] \in RunRows
    BY <1>5, RowSteps
  <2> QED BY <2>2, <2>3, <2>4, <2>5 DEF RunRows
<1>6. ASSUME NEW r \in duties, place \in {"runs", "adv"}, AdvanceRun(r)
      PROVE  GateInv'
  <2>1. r \in Runs /\ run[r] # None
    BY <1>6, InDuties
  <2>2. ASSUME NEW read \in BOOLEAN, RecoverStartAck(r, read) PROVE GateInv'
    <3>1. run' = run \/ run' = [run EXCEPT ![r].phase = "report_pending", ![r].rep = "zero"]
      BY <2>2 DEF RecoverStartAck
    <3> QED BY <1>1, <2>1, <3>1, GateExcept DEF Running
  <2>3. ASSUME NEW o \in CallOutcomes, NEW unsure \in BOOLEAN, ResumeRun(r, o, unsure) PROVE GateInv'
    <3>1. \/ run' = run
          \/ \E p : run' = [run EXCEPT ![r].phase = p]
          \/ \E q : run' = [run EXCEPT ![r].phase = "report_pending", ![r].rep = q]
      BY <2>3 DEF ResumeRun
    <3>2. run[r].phase \in Running
      BY <2>3 DEF ResumeRun, Running
    <3> QED BY <1>1, <2>1, <3>1, <3>2, GateExcept DEF Running
  <2> QED BY <1>5, <1>6, <2>1, <2>2, <2>3 DEF AdvanceRun
<1>7. CASE DispatchPendingGuidance
  <2>1. PICK r \in duties : run' = run \/ run' = [run EXCEPT ![r].att = TRUE]
    BY <1>7 DEF DispatchPendingGuidance
  <2>2. r \in Runs /\ run[r] # None
    BY <1>7, InDuties DEF DispatchPendingGuidance
  <2> QED BY <1>1, <2>1, <2>2, GateExcept
<1>8. ASSUME NEW o \in CallOutcomes, NEW refuses \in BOOLEAN, DispatchGuidance(o, refuses)
      PROVE  GateInv'
  <2>1. inhand \in Runs /\ run[inhand] # None
    BY <1>8, InHands DEF DispatchGuidance
  <2>2. run' = run \/ \E g : run' = [run EXCEPT ![inhand].guid = g]
    BY <1>8 DEF DispatchGuidance
  <2> QED BY <1>1, <2>1, <2>2, GateExcept
<1>9. ASSUME NEW r \in Runs, run[r] # None, NEW state, run' = PersistGuidance(r, state)
      PROVE  GateInv'
  <2>1. run \in [Runs -> Optional(RunRows)]
    BY DEF MInv, ManagerTypeOK
  <2>2. run' = [run EXCEPT ![r].guid = run[r].guid] \/ run' = [run EXCEPT ![r].guid = state]
    BY <1>9, <2>1 DEF PersistGuidance
  <2> QED BY <1>9, <2>2, GateExcept
<1>10. CASE RecoverPendingGuidance
  <2>1. PICK r \in duties : run' = run \/ \E state : run' = PersistGuidance(r, state)
    BY <1>10 DEF RecoverPendingGuidance
  <2>2. r \in Runs /\ run[r] # None
    BY <1>10, InDuties DEF RecoverPendingGuidance
  <2> QED BY <1>1, <1>9, <2>1, <2>2
<1>11. CASE ApplyPolicies
  <2>1. UNCHANGED run \/ \E r \in PendingGuidance : \E state : run' = PersistGuidance(r, state)
    BY <1>11 DEF ApplyPolicies, FenceOffGuidance, ApplyPolicy, ManifestNotApplied
  <2> QED BY <1>1, <1>9, <2>1 DEF PendingGuidance
<1>12. CASE ApplyReview
  <2>1. 0 \notin Batches /\ Batches \subseteq Runs /\ run \in [Runs -> Optional(RunRows)]
    BY ManagerBounds DEF Batches, Runs, MInv, ManagerTypeOK
  <2>2. \A b \in Batches : run'[b] = run[b]
    BY <1>12, <2>1 DEF ApplyReview
  <2> QED BY <2>2 DEF GateInv
<1>13. CASE LeaseExpires
  <2>1. UNCHANGED run \/ \E r \in UnsettledRuns : run' = [run EXCEPT ![r].lease = FALSE]
    BY <1>13 DEF LeaseExpires
  <2> QED BY <1>1, <2>1, GateExcept DEF UnsettledRuns
<1>14. CASE SendReport
  <2>1. inhand \in Runs /\ run[inhand] # None
    BY <1>14, InHands DEF SendReport
  <2>2. PICK r \in Runs : r = inhand
    BY <2>1
  <2> QED BY <1>5, <1>14, <2>1, <2>2 DEF SendReport
<1>15. CASE RecoverReservations \/ CompleteAdmission
  <2>1. PICK b \in duties :
          \/ \E o \in CallOutcomes : CompleteAutomaticReservation(b, o)
          \/ \E fresh, read, dies \in BOOLEAN : BeginReservedRun(b, fresh, read, dies)
    BY <1>15 DEF RecoverReservations, CompleteAdmission
  <2>2. place \in {"resv", "adm"}
    BY <1>15 DEF RecoverReservations, CompleteAdmission
  <2> QED BY <1>1, <1>2, <2>1, <2>2 DEF CompleteAutomaticReservation
<1>16. CASE RecoverRuns \/ AdvanceAutomaticRuns
  BY <1>1, <1>6, <1>16 DEF RecoverRuns, AdvanceAutomaticRuns, LeaveRun
<1>17. CASE Pass
  BY <1>1, <1>3, <1>4, <1>7, <1>8, <1>10, <1>11, <1>12, <1>14, <1>15, <1>16, <1>17
     DEF Pass, RenewPendingTakeovers, NextPhase, ApplyTakeover, ReconcileTakeover, DispatchTakeover,
         PassReported, FetchInsightPolicies, DrainOutbox, CollectSource, AttemptAdmission
<1>18. CASE ManagerCrash \/ IncidentChanges \/ SourceRotates \/ TaskChanges \/ InsightPolicyChanges
            \/ PolicyEdited \/ ManualRequested \/ ManualWithdrawn \/ OwnerActs \/ TakeoverWithdrawn
            \/ HelperFinishes \/ GuidanceLands
  BY <1>1, <1>18 DEF ManagerCrash, IncidentChanges, SourceRotates, TaskChanges, InsightPolicyChanges,
     PolicyEdited, ManualRequested, ManualWithdrawn, OwnerActs, TakeoverWithdrawn, HelperFinishes,
     GuidanceLands
<1>19. CASE UNCHANGED managerVars
  BY <1>1, <1>19 DEF managerVars
<1> QED BY <1>13, <1>17, <1>18, <1>19 DEF ManagerNext

LEMMA FenceKeeps ==
  ASSUME MInv, GateInv, FenceInv, [ManagerNext]_managerVars
  PROVE  FenceInv'
<1>1. CASE UNCHANGED hlp
  BY <1>1 DEF FenceInv
<1>2. hlp \in [Runs -> HelperRuns] /\ Batches \subseteq Runs
  BY ManagerBounds DEF Batches, Runs, MInv, ManagerTypeOK
<1>3. ASSUME NEW o \in CallOutcomes, NEW answer \in StartAnswers, StartReview(o, answer)
      PROVE  FenceInv'
  <2>1. inhand \in Runs /\ hlp[inhand].starts = 0 /\ hlp[inhand] \in HelperRuns
    BY <1>2, <1>3, InHands DEF MInv, HandInv, StartReview
  <2>2. \/ hlp' = hlp
        \/ \E s : hlp' = [hlp EXCEPT ![inhand].starts = @ + 1, ![inhand].st = s]
    BY <1>3 DEF StartReview
  <2>3. ASSUME NEW s, hlp' = [hlp EXCEPT ![inhand].starts = @ + 1, ![inhand].st = s]
        PROVE  /\ \A q \in Runs : q # inhand => hlp'[q] = hlp[q]
               /\ hlp'[inhand].starts = 1 /\ hlp'[inhand].more = hlp[inhand].more
    BY <1>2, <2>1, <2>3 DEF HelperRuns
  <2> QED BY <1>1, <2>1, <2>2, <2>3 DEF FenceInv
<1>4. ASSUME NEW r \in duties, place \in {"runs", "adv"}, NEW o \in CallOutcomes, NEW unsure \in BOOLEAN,
             ResumeRun(r, o, unsure)
      PROVE  FenceInv'
  <2>1. r \in Runs /\ run[r] # None /\ hlp[r] \in HelperRuns
    BY <1>2, <1>4, InDuties
  <2>2. CASE MakesRequest(r) /\ hlp' = [hlp EXCEPT ![r].more = @ \cup {place}]
    <3>1. /\ \A q \in Runs : q # r => hlp'[q] = hlp[q]
          /\ hlp'[r].more = hlp[r].more \cup {place}
          /\ hlp'[r].starts = hlp[r].starts
      BY <1>2, <2>1, <2>2 DEF HelperRuns
    <3>2. hlp[r].starts = 1
      BY <2>1, <2>2 DEF MakesRequest, FenceInv
    <3>3. r \in Batches => place = "adv"
      BY <1>4, <2>1, <2>2 DEF MakesRequest, Continues, GateInv, Running
    <3> QED BY <3>1, <3>2, <3>3 DEF FenceInv
  <2> QED BY <1>1, <1>4, <2>2 DEF ResumeRun
<1>5. ASSUME NEW o \in CallOutcomes, NEW refuses \in BOOLEAN, DispatchGuidance(o, refuses)
      PROVE  FenceInv'
  <2>1. inhand \in Runs /\ hlp[inhand] \in HelperRuns
    BY <1>2, InHands
  <2>2. hlp' = hlp \/ \E g : hlp' = [hlp EXCEPT ![inhand].steers = @ + 1, ![inhand].guid = g]
    BY <1>5 DEF DispatchGuidance
  <2>3. ASSUME NEW g, hlp' = [hlp EXCEPT ![inhand].steers = @ + 1, ![inhand].guid = g]
        PROVE  \A q \in Runs : hlp'[q].st = hlp[q].st /\ hlp'[q].more = hlp[q].more /\ hlp'[q].starts = hlp[q].starts
    BY <1>2, <2>1, <2>3 DEF HelperRuns
  <2> QED BY <1>1, <2>2, <2>3 DEF FenceInv
<1>6. ASSUME NEW r \in Runs, NEW g, hlp' = [hlp EXCEPT ![r].guid = g] PROVE FenceInv'
  <2>1. \A q \in Runs : hlp'[q].st = hlp[q].st /\ hlp'[q].more = hlp[q].more /\ hlp'[q].starts = hlp[q].starts
    BY <1>2, <1>6 DEF HelperRuns
  <2> QED BY <2>1 DEF FenceInv
<1>7. CASE ApplyPolicies
  <2>1. UNCHANGED hlp \/ \E r \in Runs : \E g : hlp' = [hlp EXCEPT ![r].guid = g]
    BY <1>7 DEF ApplyPolicies, FenceOffGuidance, ApplyPolicy, ManifestNotApplied, PendingGuidance
  <2> QED BY <1>1, <1>6, <2>1
<1>8. CASE GuidanceLands
  BY <1>6, <1>8 DEF GuidanceLands
<1>9. CASE HelperFinishes
  <2>1. PICK r \in Runs, st \in TerminalPhases : hlp' = [hlp EXCEPT ![r].st = st, ![r].more = {}]
    BY <1>9 DEF HelperFinishes
  <2>2. /\ \A q \in Runs : q # r => hlp'[q] = hlp[q]
        /\ hlp'[r].st = st /\ hlp'[r].more = {}
    BY <1>2, <2>1 DEF HelperRuns
  <2> QED BY <2>2 DEF FenceInv, TerminalPhases
<1>10. ASSUME NEW r \in duties, place \in {"runs", "adv"}, AdvanceRun(r)
       PROVE  FenceInv'
  BY <1>1, <1>4, <1>10 DEF AdvanceRun, RecoverStartAck, SubmitRunReport
<1>11. CASE RecoverRuns \/ AdvanceAutomaticRuns
  BY <1>1, <1>10, <1>11 DEF RecoverRuns, AdvanceAutomaticRuns, LeaveRun
<1>15. CASE RecoverReservations \/ CompleteAdmission
  <2>1. ASSUME NEW b, NEW o, CompleteAutomaticReservation(b, o) PROVE UNCHANGED hlp
    BY <2>1 DEF CompleteAutomaticReservation
  <2>2. ASSUME NEW b, NEW fresh, NEW read, NEW dies, BeginReservedRun(b, fresh, read, dies) PROVE UNCHANGED hlp
    BY <2>2 DEF BeginReservedRun
  <2> QED BY <1>1, <1>15, <2>1, <2>2 DEF RecoverReservations, CompleteAdmission
<1>16. CASE \/ SendReport \/ DispatchPendingGuidance \/ RecoverPendingGuidance \/ ApplyReview
            \/ \E o \in CallOutcomes, read \in BOOLEAN : StartAcknowledgedReview(o, read)
  BY <1>1, <1>16 DEF SendReport, SubmitRunReport, DispatchPendingGuidance, RecoverPendingGuidance,
     ApplyReview, StartAcknowledgedReview
<1>17. CASE \/ RenewPendingTakeovers \/ NextPhase \/ ApplyTakeover \/ ReconcileTakeover \/ PassReported
            \/ FetchInsightPolicies \/ DrainOutbox \/ CollectSource \/ AttemptAdmission
            \/ \E o \in CallOutcomes : DispatchTakeover(o)
  BY <1>1, <1>17 DEF RenewPendingTakeovers, NextPhase, ApplyTakeover, ReconcileTakeover, DispatchTakeover,
     PassReported, FetchInsightPolicies, DrainOutbox, CollectSource, AttemptAdmission
<1>12. CASE Pass
  BY <1>3, <1>5, <1>7, <1>11, <1>12, <1>15, <1>16, <1>17 DEF Pass
<1>13. CASE ManagerCrash \/ IncidentChanges \/ SourceRotates \/ TaskChanges \/ LeaseExpires
            \/ InsightPolicyChanges \/ PolicyEdited \/ ManualRequested \/ ManualWithdrawn \/ OwnerActs
            \/ TakeoverWithdrawn
  BY <1>1, <1>13 DEF ManagerCrash, IncidentChanges, SourceRotates, TaskChanges, LeaseExpires,
     InsightPolicyChanges, PolicyEdited, ManualRequested, ManualWithdrawn, OwnerActs, TakeoverWithdrawn
<1>14. CASE UNCHANGED managerVars
  BY <1>1, <1>14 DEF managerVars
<1> QED BY <1>8, <1>9, <1>12, <1>13, <1>14 DEF ManagerNext

(* The coordinator starts without rows, and with a policy that is applied.  *)
LEMMA ManagerInitInv == ManagerInit => MInv
<1> SUFFICES ASSUME ManagerInit PROVE MInv
  OBVIOUS
<1>1. /\ desired \in [mode : Modes, rev : 1..MaxPolicy] /\ desired.rev = 1
      /\ pol \in Policies
      /\ pol.mode # "off"
  BY ManagerBounds DEF ManagerInit, Modes, Policies
<1>2. /\ known \in 0..MaxFindingRev /\ task \in Tasks /\ src \in Sources /\ granted \subseteq Batches
      /\ acked \in [Runs -> RunReports \cup {"none", "reviewing"}]
      /\ manual \in Optional(Reviews) /\ owner \in [TakeoverOps -> Optional(Requests)]
      /\ ipol \in [rev : 1..2, on : BOOLEAN] /\ mon \in [rev : 0..MaxFindingRev, open : BOOLEAN]
      /\ did \subseteq TakeoverOps /\ negotiated \in BOOLEAN
  BY ManagerBounds DEF ManagerInit, Tasks, Sources, Optional
<1>3. hlp \in [Runs -> HelperRuns]
  BY DEF ManagerInit, HelperRuns
<1>4. /\ fnd \in Optional(Findings) /\ intent \in [Batches -> Optional(Intents)]
      /\ run \in [Runs -> Optional(RunRows)] /\ hold \in [TakeoverOps -> Optional(Holds)]
      /\ outbox \subseteq Items
      /\ cursor \in [seq : 0..MaxFindingRev, irev : 0..2, on : BOOLEAN] /\ cursor.seq = 0
  BY ManagerBounds DEF ManagerInit, Optional
<1>5. /\ place \in Places \cup Calls \cup TakeoverOps /\ ret \in Places /\ inhand \in Runs
      /\ duties \subseteq (IF ret \in {"holds", "tko"} THEN TakeoverOps ELSE Runs)
      /\ failed \in BOOLEAN /\ skip \in BOOLEAN
      /\ built \in 0..MaxBatches /\ managerFaults \in 0..MaxManagerFaults
  <2>1. place \in Places /\ ret \in Places /\ failed \in BOOLEAN /\ skip \in BOOLEAN /\ duties = {}
    BY DEF ManagerInit, Places
  <2>2. inhand \in Runs /\ built \in 0..MaxBatches /\ managerFaults \in 0..MaxManagerFaults
    BY ManagerBounds DEF ManagerInit, Runs
  <2> QED BY <2>1, <2>2
<1>6. ManagerTypeOK
  BY <1>1, <1>2, <1>3, <1>4, <1>5 DEF ManagerTypeOK
<1>7. PlaceInv /\ DutyInv /\ HandInv
  BY DEF ManagerInit, PlaceInv, DutyInv, HandInv, Places, Calls, TakeoverOps
<1>8. RunInv
  BY DEF ManagerInit, RunInv, Agree
<1>9. OffIsSettled /\ OneAttemptPerEpisode
  BY <1>1 DEF ManagerInit, OffIsSettled, OneAttemptPerEpisode
<1>10. AnchorInv /\ OrderInv /\ CursorInv
  BY <1>2, <1>4 DEF ManagerInit, AnchorInv, OrderInv, CursorInv, CursorIsObserved, WasOpen
<1> QED BY <1>6, <1>7, <1>8, <1>9, <1>10 DEF MInv

(* What an interrupted review, reservation, piece of guidance or batch      *)
(* leaves in the tables always agrees with what the helper and the control  *)
(* plane have seen: the invariant of manager/coordinator.go's Recover,      *)
(* ApplyManifest and RunAutomatic, and of insights/collector.go.            *)
THEOREM ManagerInvariance == ManagerSpec => [](MInv /\ GateInv /\ FenceInv)
<1>1. ManagerInit => MInv /\ GateInv /\ FenceInv
  <2>1. ManagerInit => GateInv /\ FenceInv
    BY ManagerBounds DEF ManagerInit, GateInv, FenceInv, Batches, Runs
  <2> QED BY <2>1, ManagerInitInv
<1>2. MInv /\ GateInv /\ FenceInv /\ [ManagerNext]_managerVars => (MInv /\ GateInv /\ FenceInv)'
  BY ManagerStepKeeps, GateKeeps, FenceKeeps
<1> QED BY <1>1, <1>2, PTL DEF ManagerSpec

(* The tables of the coordinator, the control plane, the helper and the     *)
(* pass always hold values of their types (model.ManagerRun, ManagerFinding, *)
(* AutomaticIntent, ManagerHold, InsightBatch).                             *)
THEOREM ManagerTypeCorrect == ManagerSpec => []ManagerTypeOK
<1>1. MInv => ManagerTypeOK
  BY DEF MInv
<1> QED BY <1>1, ManagerInvariance, PTL

(* Whatever is replayed after a crash or a lost answer, a review is started *)
(* at most once and only after its reviewing report was acknowledged, the   *)
(* recovery makes no automatic run pay for a further request, the worker is *)
(* steered at most once for a run, and one episode is attempted             *)
(* automatically at most once (startAcknowledgedReview, resumeRun,          *)
(* dispatchGuidance, attemptAdmission).                                     *)
THEOREM DoneOnceAlways == ManagerSpec => []DoneOnce
<1>1. MInv /\ FenceInv => DoneOnce
  <2> SUFFICES ASSUME MInv, FenceInv PROVE DoneOnce
    OBVIOUS
  <2>1. EffectsOnce
    BY DEF MInv, RunInv, Agree, FenceInv, EffectsOnce
  <2> QED BY <2>1 DEF MInv, DoneOnce
<1> QED BY <1>1, ManagerInvariance, PTL

(* What the control plane is told is true: a run reported as                *)
(* trusted_zero_start was never started, an Off reported as applied over a  *)
(* capability with a native guard has no guidance under way, and the cursor *)
(* of the acknowledged batches never passes an open revision the manager    *)
(* did not keep (settleUnstartedRun, policyReport, fenceOffGuidance, the    *)
(* collector's acknowledge).                                                *)
THEOREM ToldIsTrueAlways == ManagerSpec => []ToldIsTrue
<1>1. MInv => ToldIsTrue
  <2> SUFFICES ASSUME MInv PROVE ToldIsTrue
    OBVIOUS
  <2>1. ZeroStartIsTruthful
    BY DEF MInv, RunInv, Agree, ZeroStartIsTruthful
  <2> QED BY <2>1 DEF MInv, CursorInv, ToldIsTrue
<1> QED BY <1>1, ManagerInvariance, PTL

=============================================================================
