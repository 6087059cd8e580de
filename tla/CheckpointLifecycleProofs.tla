--------------------- MODULE CheckpointLifecycleProofs ---------------------
(***************************************************************************)
(* Proofs about CheckpointLifecycle for every set of operations and Works, *)
(* every policy and every bound. That a pointer stays readable depends on  *)
(* what a deletion in progress may touch (IntentInv), which depends on how *)
(* far the operation of a capture has come (OpInv) and on where the daemon *)
(* stands (StepInv).                                                       *)
(***************************************************************************)
EXTENDS CheckpointLifecycle, FiniteSetTheorems, TLAPS

\* The rows of an operation follow its state: nothing exists before it runs,
\* and only a captured one is checkpointed.
OpInv ==
    \A o \in Ops :
        /\ capOp[o] = "none" => o \notin captures \cup tombs
        /\ ckOp[o] # "none" => capOp[o] = "captured"
        /\ o \in checkpoints => capOp[o] = "captured"

\* An intent belongs to a capture that nothing roots once it is deleting; an
\* orphan intent belongs to a capture that was never completed.
IntentInv ==
    \A o \in Ops :
        /\ intent[o] # "none" => o \in captures
        /\ o \in orphan => intent[o] # "none" /\ capOp[o] # "captured"
        /\ intent[o] = "deleting" => o \notin refs /\ \A w \in Works : pointer[w] # o

\* Where the daemon stands determines what exists of the current operation.
StepInv ==
    /\ pc = "collect" => \A o \in todo : intent[o] # "none"
    /\ pc = "unlink" => intent[cur] = "deleting" /\ \A o \in todo : intent[o] # "none"
    /\ pc = "complete" => /\ intent[cur] = "deleting" /\ disk[cur] \in {"none", "rubble"}
                          /\ \A o \in todo : intent[o] # "none"
    /\ pc = "publish" => capOp[cur] = "capturing" /\ cur \notin captures \cup tombs
    /\ pc = "row" => capOp[cur] = "capturing" /\ disk[cur] = "whole" /\ cur \notin captures \cup tombs
    /\ pc = "settle" => capOp[cur] = "capturing" /\ intent[cur] = "none"
    /\ pc \in {"verify", "accept", "succeed"} => capOp[cur] = "captured"

IInv ==
    /\ TypeOK /\ PointerReadable /\ ReferenceReadable /\ MissingObjectIsCondemned
    /\ TombstoneIsFinal /\ OpInv /\ IntentInv /\ StepInv

USE OpsAssumption, WorkAssumption, PolicyAssumption
    DEF opVars, rowVars, gcVars, locals, DiskStates, Phases

LEMMA InitIInv == Init => IInv
<1> SUFFICES ASSUME Init PROVE IInv
  OBVIOUS
<1>1. TypeOK
  BY DEF Init, TypeOK
<1>2. PointerReadable /\ ReferenceReadable /\ MissingObjectIsCondemned /\ TombstoneIsFinal
  BY DEF Init, PointerReadable, ReferenceReadable, MissingObjectIsCondemned,
     TombstoneIsFinal
<1>3. OpInv /\ IntentInv /\ StepInv
  BY DEF Init, OpInv, IntentInv, StepInv
<1> QED
  BY <1>1, <1>2, <1>3 DEF IInv

\* A counted fault keeps the type of the counter.
LEMMA FaultType == ASSUME faults \in Nat, Fault PROVE faults' \in Nat
  BY DEF Fault

\* Plan preserves the inductive invariant.
LEMMA PlanIInv ==
  ASSUME IInv, Plan
  PROVE  IInv'
<1>1. TypeOK'
  <2>1. notBefore' \in [Ops -> Nat]
    BY DEF IInv, TypeOK, Plan, Victims, Orphans, Unprotected,
       checkpointIsRooted, captureIsRooted
  <2>2. intent' \in [Ops -> {"none", "planned", "deleting"}]
    BY DEF IInv, TypeOK, Plan, Victims, Orphans, Unprotected,
       checkpointIsRooted, captureIsRooted
  <2>3. orphan' \subseteq Ops /\ todo' \subseteq Ops
    BY DEF IInv, TypeOK, Plan, Victims, Orphans, Unprotected,
       checkpointIsRooted, captureIsRooted
  <2> QED
    BY <2>1, <2>2, <2>3 DEF IInv, TypeOK, Plan, Victims, Orphans, Unprotected,
       checkpointIsRooted, captureIsRooted
<1>2. PointerReadable'
  BY DEF IInv, TypeOK, PointerReadable, MissingObjectIsCondemned, OpInv,
     IntentInv, StepInv, Plan, Victims, Orphans, Unprotected, checkpointIsRooted,
     captureIsRooted
<1>3. ReferenceReadable'
  BY DEF IInv, TypeOK, ReferenceReadable, PointerReadable, OpInv, IntentInv,
     StepInv, Plan, Victims, Orphans, Unprotected, checkpointIsRooted,
     captureIsRooted
<1>4. MissingObjectIsCondemned'
  BY DEF IInv, TypeOK, MissingObjectIsCondemned, OpInv, IntentInv, StepInv, Plan,
     Victims, Orphans, Unprotected, checkpointIsRooted, captureIsRooted
<1>5. TombstoneIsFinal'
  BY DEF IInv, TypeOK, TombstoneIsFinal, OpInv, IntentInv, StepInv, Plan, Victims,
     Orphans, Unprotected, checkpointIsRooted, captureIsRooted
<1>6. OpInv'
  BY DEF IInv, TypeOK, OpInv, IntentInv, StepInv, Plan, Victims, Orphans,
     Unprotected, checkpointIsRooted, captureIsRooted
<1>7. IntentInv'
  BY DEF IInv, TypeOK, IntentInv, OpInv, StepInv, PointerReadable,
     ReferenceReadable, MissingObjectIsCondemned, Plan, Victims, Orphans,
     Unprotected, checkpointIsRooted, captureIsRooted
<1>8. StepInv'
  BY DEF IInv, TypeOK, StepInv, OpInv, IntentInv, MissingObjectIsCondemned, Plan,
     Victims, Orphans, Unprotected, checkpointIsRooted, captureIsRooted
<1> QED
  BY <1>1, <1>2, <1>3, <1>4, <1>5, <1>6, <1>7, <1>8 DEF IInv

\* Skip preserves the inductive invariant.
LEMMA SkipIInv ==
  ASSUME IInv, NEW x \in Ops, Skip(x)
  PROVE  IInv'
<1>1. TypeOK'
  <2> QED
    BY DEF IInv, TypeOK, Skip
<1>2. PointerReadable'
  BY DEF IInv, TypeOK, PointerReadable, MissingObjectIsCondemned, OpInv,
     IntentInv, StepInv, Skip
<1>3. ReferenceReadable'
  BY DEF IInv, TypeOK, ReferenceReadable, PointerReadable, OpInv, IntentInv,
     StepInv, Skip
<1>4. MissingObjectIsCondemned'
  BY DEF IInv, TypeOK, MissingObjectIsCondemned, OpInv, IntentInv, StepInv, Skip
<1>5. TombstoneIsFinal'
  BY DEF IInv, TypeOK, TombstoneIsFinal, OpInv, IntentInv, StepInv, Skip
<1>6. OpInv'
  BY DEF IInv, TypeOK, OpInv, IntentInv, StepInv, Skip
<1>7. IntentInv'
  BY DEF IInv, TypeOK, IntentInv, OpInv, StepInv, PointerReadable,
     ReferenceReadable, MissingObjectIsCondemned, Skip
<1>8. StepInv'
  BY DEF IInv, TypeOK, StepInv, OpInv, IntentInv, MissingObjectIsCondemned, Skip
<1> QED
  BY <1>1, <1>2, <1>3, <1>4, <1>5, <1>6, <1>7, <1>8 DEF IInv

\* Confirm preserves the inductive invariant.
LEMMA ConfirmIInv ==
  ASSUME IInv, NEW x \in Ops, Confirm(x)
  PROVE  IInv'
<1>1. TypeOK'
  <2> QED
    BY DEF IInv, TypeOK, Confirm, IntentIsRooted, checkpointIsRooted,
       captureIsRooted, First
<1>2. PointerReadable'
  BY DEF IInv, TypeOK, PointerReadable, MissingObjectIsCondemned, OpInv,
     IntentInv, StepInv, Confirm, IntentIsRooted, checkpointIsRooted,
     captureIsRooted, First
<1>3. ReferenceReadable'
  BY DEF IInv, TypeOK, ReferenceReadable, PointerReadable, OpInv, IntentInv,
     StepInv, Confirm, IntentIsRooted, checkpointIsRooted, captureIsRooted, First
<1>4. MissingObjectIsCondemned'
  BY DEF IInv, TypeOK, MissingObjectIsCondemned, OpInv, IntentInv, StepInv,
     Confirm, IntentIsRooted, checkpointIsRooted, captureIsRooted, First
<1>5. TombstoneIsFinal'
  BY DEF IInv, TypeOK, TombstoneIsFinal, OpInv, IntentInv, StepInv, Confirm,
     IntentIsRooted, checkpointIsRooted, captureIsRooted, First
<1>6. OpInv'
  BY DEF IInv, TypeOK, OpInv, IntentInv, StepInv, Confirm, IntentIsRooted,
     checkpointIsRooted, captureIsRooted, First
<1>7. IntentInv'
  <2> SUFFICES ASSUME NEW o \in Ops
               PROVE  /\ intent'[o] # "none" => o \in captures'
                      /\ o \in orphan' => intent'[o] # "none" /\ capOp'[o] # "captured"
                      /\ intent'[o] = "deleting" =>
                             o \notin refs' /\ \A w \in Works : pointer'[w] # o
    BY DEF IntentInv
  <2>1. CASE intent[x] = "planned" /\ IntentIsRooted(x)
    BY <2>1 DEF IInv, TypeOK, IntentInv, Confirm
  <2>2. CASE ~(intent[x] = "planned" /\ IntentIsRooted(x))
    <3>1. x \in todo /\ intent' = [intent EXCEPT ![x] = "deleting"]
      BY <2>2 DEF Confirm, First
    <3>2. intent[x] # "none"
      BY DEF IInv, StepInv, Confirm, First
    <3>3. x \notin refs /\ \A w \in Works : pointer[w] # x
      <4>1. CASE intent[x] = "deleting"
        BY <4>1 DEF IInv, IntentInv
      <4>2. CASE x \in orphan
        BY <4>2 DEF IInv, IntentInv, OpInv, TypeOK, PointerReadable,
           ReferenceReadable
      <4>3. CASE intent[x] = "planned" /\ x \notin orphan
        BY <4>3, <2>2 DEF IntentIsRooted, checkpointIsRooted
      <4> QED
        BY <3>2, <4>1, <4>2, <4>3 DEF IInv, TypeOK
    <3> QED
      BY <2>2, <3>1, <3>2, <3>3 DEF IInv, TypeOK, IntentInv, Confirm
  <2> QED
    BY <2>1, <2>2
<1>8. StepInv'
  BY DEF IInv, TypeOK, StepInv, OpInv, IntentInv, MissingObjectIsCondemned,
     Confirm, IntentIsRooted, checkpointIsRooted, captureIsRooted, First
<1> QED
  BY <1>1, <1>2, <1>3, <1>4, <1>5, <1>6, <1>7, <1>8 DEF IInv

\* Collect preserves the inductive invariant.
LEMMA CollectIInv ==
  ASSUME IInv, Collect
  PROVE  IInv'
<1>1. TypeOK'
  <2> QED
    BY DEF IInv, TypeOK, Collect
<1>2. PointerReadable'
  BY DEF IInv, TypeOK, PointerReadable, MissingObjectIsCondemned, OpInv,
     IntentInv, StepInv, Collect
<1>3. ReferenceReadable'
  BY DEF IInv, TypeOK, ReferenceReadable, PointerReadable, OpInv, IntentInv,
     StepInv, Collect
<1>4. MissingObjectIsCondemned'
  BY DEF IInv, TypeOK, MissingObjectIsCondemned, OpInv, IntentInv, StepInv, Collect
<1>5. TombstoneIsFinal'
  BY DEF IInv, TypeOK, TombstoneIsFinal, OpInv, IntentInv, StepInv, Collect
<1>6. OpInv'
  BY DEF IInv, TypeOK, OpInv, IntentInv, StepInv, Collect
<1>7. IntentInv'
  BY DEF IInv, TypeOK, IntentInv, OpInv, StepInv, PointerReadable,
     ReferenceReadable, MissingObjectIsCondemned, Collect
<1>8. StepInv'
  BY DEF IInv, TypeOK, StepInv, OpInv, IntentInv, MissingObjectIsCondemned, Collect
<1> QED
  BY <1>1, <1>2, <1>3, <1>4, <1>5, <1>6, <1>7, <1>8 DEF IInv

\* CollectRefused preserves the inductive invariant.
LEMMA CollectRefusedIInv ==
  ASSUME IInv, CollectRefused
  PROVE  IInv'
<1>1. TypeOK'
  <2> QED
    BY DEF IInv, TypeOK, CollectRefused
<1>2. PointerReadable'
  BY DEF IInv, TypeOK, PointerReadable, MissingObjectIsCondemned, OpInv,
     IntentInv, StepInv, CollectRefused
<1>3. ReferenceReadable'
  BY DEF IInv, TypeOK, ReferenceReadable, PointerReadable, OpInv, IntentInv,
     StepInv, CollectRefused
<1>4. MissingObjectIsCondemned'
  BY DEF IInv, TypeOK, MissingObjectIsCondemned, OpInv, IntentInv, StepInv,
     CollectRefused
<1>5. TombstoneIsFinal'
  BY DEF IInv, TypeOK, TombstoneIsFinal, OpInv, IntentInv, StepInv, CollectRefused
<1>6. OpInv'
  BY DEF IInv, TypeOK, OpInv, IntentInv, StepInv, CollectRefused
<1>7. IntentInv'
  BY DEF IInv, TypeOK, IntentInv, OpInv, StepInv, PointerReadable,
     ReferenceReadable, MissingObjectIsCondemned, CollectRefused
<1>8. StepInv'
  BY DEF IInv, TypeOK, StepInv, OpInv, IntentInv, MissingObjectIsCondemned,
     CollectRefused
<1> QED
  BY <1>1, <1>2, <1>3, <1>4, <1>5, <1>6, <1>7, <1>8 DEF IInv

\* CollectInterrupted preserves the inductive invariant.
LEMMA CollectInterruptedIInv ==
  ASSUME IInv, CollectInterrupted
  PROVE  IInv'
<1>1. TypeOK'
  <2>1. faults' = faults \/ Fault
    BY DEF CollectInterrupted
  <2>2. faults' \in Nat
    BY <2>1, FaultType DEF IInv, TypeOK
  <2> QED
    BY <2>2 DEF IInv, TypeOK, CollectInterrupted
<1>2. PointerReadable'
  BY DEF IInv, TypeOK, PointerReadable, MissingObjectIsCondemned, OpInv,
     IntentInv, StepInv, CollectInterrupted, Fault
<1>3. ReferenceReadable'
  BY DEF IInv, TypeOK, ReferenceReadable, PointerReadable, OpInv, IntentInv,
     StepInv, CollectInterrupted, Fault
<1>4. MissingObjectIsCondemned'
  BY DEF IInv, TypeOK, MissingObjectIsCondemned, OpInv, IntentInv, StepInv,
     CollectInterrupted, Fault
<1>5. TombstoneIsFinal'
  BY DEF IInv, TypeOK, TombstoneIsFinal, OpInv, IntentInv, StepInv,
     CollectInterrupted, Fault
<1>6. OpInv'
  BY DEF IInv, TypeOK, OpInv, IntentInv, StepInv, CollectInterrupted, Fault
<1>7. IntentInv'
  BY DEF IInv, TypeOK, IntentInv, OpInv, StepInv, PointerReadable,
     ReferenceReadable, MissingObjectIsCondemned, CollectInterrupted, Fault
<1>8. StepInv'
  BY DEF IInv, TypeOK, StepInv, OpInv, IntentInv, MissingObjectIsCondemned,
     CollectInterrupted, Fault
<1> QED
  BY <1>1, <1>2, <1>3, <1>4, <1>5, <1>6, <1>7, <1>8 DEF IInv

\* Complete preserves the inductive invariant.
LEMMA CompleteIInv ==
  ASSUME IInv, Complete
  PROVE  IInv'
<1>1. TypeOK'
  <2> QED
    BY DEF IInv, TypeOK, Complete, checkpointIsRooted
<1>2. PointerReadable'
  BY DEF IInv, TypeOK, PointerReadable, MissingObjectIsCondemned, OpInv,
     IntentInv, StepInv, Complete, checkpointIsRooted
<1>3. ReferenceReadable'
  BY DEF IInv, TypeOK, ReferenceReadable, PointerReadable, OpInv, IntentInv,
     StepInv, Complete, checkpointIsRooted
<1>4. MissingObjectIsCondemned'
  BY DEF IInv, TypeOK, MissingObjectIsCondemned, OpInv, IntentInv, StepInv,
     Complete, checkpointIsRooted
<1>5. TombstoneIsFinal'
  BY DEF IInv, TypeOK, TombstoneIsFinal, OpInv, IntentInv, StepInv, Complete,
     checkpointIsRooted
<1>6. OpInv'
  BY DEF IInv, TypeOK, OpInv, IntentInv, StepInv, Complete, checkpointIsRooted
<1>7. IntentInv'
  BY DEF IInv, TypeOK, IntentInv, OpInv, StepInv, PointerReadable,
     ReferenceReadable, MissingObjectIsCondemned, Complete, checkpointIsRooted
<1>8. StepInv'
  BY DEF IInv, TypeOK, StepInv, OpInv, IntentInv, MissingObjectIsCondemned,
     Complete, checkpointIsRooted
<1> QED
  BY <1>1, <1>2, <1>3, <1>4, <1>5, <1>6, <1>7, <1>8 DEF IInv

\* CollectDone preserves the inductive invariant.
LEMMA CollectDoneIInv ==
  ASSUME IInv, CollectDone
  PROVE  IInv'
<1>1. TypeOK'
  <2> QED
    BY DEF IInv, TypeOK, CollectDone
<1>2. PointerReadable'
  BY DEF IInv, TypeOK, PointerReadable, MissingObjectIsCondemned, OpInv,
     IntentInv, StepInv, CollectDone
<1>3. ReferenceReadable'
  BY DEF IInv, TypeOK, ReferenceReadable, PointerReadable, OpInv, IntentInv,
     StepInv, CollectDone
<1>4. MissingObjectIsCondemned'
  BY DEF IInv, TypeOK, MissingObjectIsCondemned, OpInv, IntentInv, StepInv,
     CollectDone
<1>5. TombstoneIsFinal'
  BY DEF IInv, TypeOK, TombstoneIsFinal, OpInv, IntentInv, StepInv, CollectDone
<1>6. OpInv'
  BY DEF IInv, TypeOK, OpInv, IntentInv, StepInv, CollectDone
<1>7. IntentInv'
  BY DEF IInv, TypeOK, IntentInv, OpInv, StepInv, PointerReadable,
     ReferenceReadable, MissingObjectIsCondemned, CollectDone
<1>8. StepInv'
  BY DEF IInv, TypeOK, StepInv, OpInv, IntentInv, MissingObjectIsCondemned,
     CollectDone
<1> QED
  BY <1>1, <1>2, <1>3, <1>4, <1>5, <1>6, <1>7, <1>8 DEF IInv

\* Manifest preserves the inductive invariant.
LEMMA ManifestIInv ==
  ASSUME IInv, Manifest
  PROVE  IInv'
<1>1. TypeOK'
  <2>1. faults' = faults \/ Fault
    BY DEF Manifest
  <2>2. faults' \in Nat
    BY <2>1, FaultType DEF IInv, TypeOK
  <2>3. failing' \in BOOLEAN
    BY DEF IInv, TypeOK, Manifest
  <2> QED
    BY <2>2, <2>3 DEF IInv, TypeOK, Manifest
<1>2. PointerReadable'
  BY DEF IInv, TypeOK, PointerReadable, MissingObjectIsCondemned, OpInv,
     IntentInv, StepInv, Manifest, Fault
<1>3. ReferenceReadable'
  BY DEF IInv, TypeOK, ReferenceReadable, PointerReadable, OpInv, IntentInv,
     StepInv, Manifest, Fault
<1>4. MissingObjectIsCondemned'
  BY DEF IInv, TypeOK, MissingObjectIsCondemned, OpInv, IntentInv, StepInv,
     Manifest, Fault
<1>5. TombstoneIsFinal'
  BY DEF IInv, TypeOK, TombstoneIsFinal, OpInv, IntentInv, StepInv, Manifest, Fault
<1>6. OpInv'
  BY DEF IInv, TypeOK, OpInv, IntentInv, StepInv, Manifest, Fault
<1>7. IntentInv'
  BY DEF IInv, TypeOK, IntentInv, OpInv, StepInv, PointerReadable,
     ReferenceReadable, MissingObjectIsCondemned, Manifest, Fault
<1>8. StepInv'
  BY DEF IInv, TypeOK, StepInv, OpInv, IntentInv, MissingObjectIsCondemned,
     Manifest, Fault
<1> QED
  BY <1>1, <1>2, <1>3, <1>4, <1>5, <1>6, <1>7, <1>8 DEF IInv

\* RecoverCapture preserves the inductive invariant.
LEMMA RecoverCaptureIInv ==
  ASSUME IInv, NEW x \in Ops, RecoverCapture(x)
  PROVE  IInv'
<1>1. TypeOK'
  <2>1. faults' = faults \/ Fault
    BY DEF RecoverCapture, SettleCap
  <2>2. faults' \in Nat
    BY <2>1, FaultType DEF IInv, TypeOK
  <2>3. failing' \in BOOLEAN
    BY DEF IInv, TypeOK, RecoverCapture, SettleCap
  <2> QED
    BY <2>2, <2>3 DEF IInv, TypeOK, RecoverCapture, SettleCap
<1>2. PointerReadable'
  BY DEF IInv, TypeOK, PointerReadable, MissingObjectIsCondemned, OpInv,
     IntentInv, StepInv, RecoverCapture, SettleCap, Fault
<1>3. ReferenceReadable'
  BY DEF IInv, TypeOK, ReferenceReadable, PointerReadable, OpInv, IntentInv,
     StepInv, RecoverCapture, SettleCap, Fault
<1>4. MissingObjectIsCondemned'
  BY DEF IInv, TypeOK, MissingObjectIsCondemned, OpInv, IntentInv, StepInv,
     RecoverCapture, SettleCap, Fault
<1>5. TombstoneIsFinal'
  BY DEF IInv, TypeOK, TombstoneIsFinal, OpInv, IntentInv, StepInv,
     RecoverCapture, SettleCap, Fault
<1>6. OpInv'
  BY DEF IInv, TypeOK, OpInv, IntentInv, StepInv, RecoverCapture, SettleCap, Fault
<1>7. IntentInv'
  BY DEF IInv, TypeOK, IntentInv, OpInv, StepInv, PointerReadable,
     ReferenceReadable, MissingObjectIsCondemned, RecoverCapture, SettleCap, Fault
<1>8. StepInv'
  BY DEF IInv, TypeOK, StepInv, OpInv, IntentInv, MissingObjectIsCondemned,
     RecoverCapture, SettleCap, Fault
<1> QED
  BY <1>1, <1>2, <1>3, <1>4, <1>5, <1>6, <1>7, <1>8 DEF IInv

\* RecoverCheckpoint preserves the inductive invariant.
LEMMA RecoverCheckpointIInv ==
  ASSUME IInv, NEW x \in Ops, RecoverCheckpoint(x)
  PROVE  IInv'
<1>1. TypeOK'
  <2>1. faults' = faults \/ Fault
    BY DEF RecoverCheckpoint, SettleCk, AcceptCheckpoint, Acceptable
  <2>2. faults' \in Nat
    BY <2>1, FaultType DEF IInv, TypeOK
  <2>3. clock' \in Nat
    BY DEF IInv, TypeOK, RecoverCheckpoint, SettleCk, AcceptCheckpoint, Acceptable
  <2>4. ckAt' \in [Ops -> Nat]
    BY DEF IInv, TypeOK, RecoverCheckpoint, SettleCk, AcceptCheckpoint, Acceptable
  <2>5. failing' \in BOOLEAN
    BY DEF IInv, TypeOK, RecoverCheckpoint, SettleCk, AcceptCheckpoint, Acceptable
  <2> QED
    BY <2>2, <2>3, <2>4, <2>5 DEF IInv, TypeOK, RecoverCheckpoint, SettleCk,
       AcceptCheckpoint, Acceptable
<1>2. PointerReadable'
  BY DEF IInv, TypeOK, PointerReadable, MissingObjectIsCondemned, OpInv,
     IntentInv, StepInv, RecoverCheckpoint, SettleCk, AcceptCheckpoint,
     Acceptable, Fault
<1>3. ReferenceReadable'
  BY DEF IInv, TypeOK, ReferenceReadable, PointerReadable, OpInv, IntentInv,
     StepInv, RecoverCheckpoint, SettleCk, AcceptCheckpoint, Acceptable, Fault
<1>4. MissingObjectIsCondemned'
  BY DEF IInv, TypeOK, MissingObjectIsCondemned, OpInv, IntentInv, StepInv,
     RecoverCheckpoint, SettleCk, AcceptCheckpoint, Acceptable, Fault
<1>5. TombstoneIsFinal'
  BY DEF IInv, TypeOK, TombstoneIsFinal, OpInv, IntentInv, StepInv,
     RecoverCheckpoint, SettleCk, AcceptCheckpoint, Acceptable, Fault
<1>6. OpInv'
  BY DEF IInv, TypeOK, OpInv, IntentInv, StepInv, RecoverCheckpoint, SettleCk,
     AcceptCheckpoint, Acceptable, Fault
<1>7. IntentInv'
  BY DEF IInv, TypeOK, IntentInv, OpInv, StepInv, PointerReadable,
     ReferenceReadable, MissingObjectIsCondemned, RecoverCheckpoint, SettleCk,
     AcceptCheckpoint, Acceptable, Fault
<1>8. StepInv'
  BY DEF IInv, TypeOK, StepInv, OpInv, IntentInv, MissingObjectIsCondemned,
     RecoverCheckpoint, SettleCk, AcceptCheckpoint, Acceptable, Fault
<1> QED
  BY <1>1, <1>2, <1>3, <1>4, <1>5, <1>6, <1>7, <1>8 DEF IInv

\* RecoverDone preserves the inductive invariant.
LEMMA RecoverDoneIInv ==
  ASSUME IInv, RecoverDone
  PROVE  IInv'
<1>1. TypeOK'
  <2> QED
    BY DEF IInv, TypeOK, RecoverDone
<1>2. PointerReadable'
  BY DEF IInv, TypeOK, PointerReadable, MissingObjectIsCondemned, OpInv,
     IntentInv, StepInv, RecoverDone
<1>3. ReferenceReadable'
  BY DEF IInv, TypeOK, ReferenceReadable, PointerReadable, OpInv, IntentInv,
     StepInv, RecoverDone
<1>4. MissingObjectIsCondemned'
  BY DEF IInv, TypeOK, MissingObjectIsCondemned, OpInv, IntentInv, StepInv,
     RecoverDone
<1>5. TombstoneIsFinal'
  BY DEF IInv, TypeOK, TombstoneIsFinal, OpInv, IntentInv, StepInv, RecoverDone
<1>6. OpInv'
  BY DEF IInv, TypeOK, OpInv, IntentInv, StepInv, RecoverDone
<1>7. IntentInv'
  BY DEF IInv, TypeOK, IntentInv, OpInv, StepInv, PointerReadable,
     ReferenceReadable, MissingObjectIsCondemned, RecoverDone
<1>8. StepInv'
  BY DEF IInv, TypeOK, StepInv, OpInv, IntentInv, MissingObjectIsCondemned,
     RecoverDone
<1> QED
  BY <1>1, <1>2, <1>3, <1>4, <1>5, <1>6, <1>7, <1>8 DEF IInv

\* Capture preserves the inductive invariant.
LEMMA CaptureIInv ==
  ASSUME IInv, NEW x \in Ops, Capture(x)
  PROVE  IInv'
<1>1. TypeOK'
  <2> QED
    BY DEF IInv, TypeOK, Capture
<1>2. PointerReadable'
  BY DEF IInv, TypeOK, PointerReadable, MissingObjectIsCondemned, OpInv,
     IntentInv, StepInv, Capture
<1>3. ReferenceReadable'
  BY DEF IInv, TypeOK, ReferenceReadable, PointerReadable, OpInv, IntentInv,
     StepInv, Capture
<1>4. MissingObjectIsCondemned'
  BY DEF IInv, TypeOK, MissingObjectIsCondemned, OpInv, IntentInv, StepInv, Capture
<1>5. TombstoneIsFinal'
  BY DEF IInv, TypeOK, TombstoneIsFinal, OpInv, IntentInv, StepInv, Capture
<1>6. OpInv'
  BY DEF IInv, TypeOK, OpInv, IntentInv, StepInv, Capture
<1>7. IntentInv'
  BY DEF IInv, TypeOK, IntentInv, OpInv, StepInv, PointerReadable,
     ReferenceReadable, MissingObjectIsCondemned, Capture
<1>8. StepInv'
  BY DEF IInv, TypeOK, StepInv, OpInv, IntentInv, MissingObjectIsCondemned, Capture
<1> QED
  BY <1>1, <1>2, <1>3, <1>4, <1>5, <1>6, <1>7, <1>8 DEF IInv

\* PublishObject preserves the inductive invariant.
LEMMA PublishObjectIInv ==
  ASSUME IInv, PublishObject
  PROVE  IInv'
<1>1. TypeOK'
  <2>1. faults' = faults \/ Fault
    BY DEF PublishObject, SettleCap
  <2>2. faults' \in Nat
    BY <2>1, FaultType DEF IInv, TypeOK
  <2> QED
    BY <2>2 DEF IInv, TypeOK, PublishObject, SettleCap
<1>2. PointerReadable'
  BY DEF IInv, TypeOK, PointerReadable, MissingObjectIsCondemned, OpInv,
     IntentInv, StepInv, PublishObject, SettleCap, Fault
<1>3. ReferenceReadable'
  BY DEF IInv, TypeOK, ReferenceReadable, PointerReadable, OpInv, IntentInv,
     StepInv, PublishObject, SettleCap, Fault
<1>4. MissingObjectIsCondemned'
  BY DEF IInv, TypeOK, MissingObjectIsCondemned, OpInv, IntentInv, StepInv,
     PublishObject, SettleCap, Fault
<1>5. TombstoneIsFinal'
  BY DEF IInv, TypeOK, TombstoneIsFinal, OpInv, IntentInv, StepInv, PublishObject,
     SettleCap, Fault
<1>6. OpInv'
  BY DEF IInv, TypeOK, OpInv, IntentInv, StepInv, PublishObject, SettleCap, Fault
<1>7. IntentInv'
  BY DEF IInv, TypeOK, IntentInv, OpInv, StepInv, PointerReadable,
     ReferenceReadable, MissingObjectIsCondemned, PublishObject, SettleCap, Fault
<1>8. StepInv'
  BY DEF IInv, TypeOK, StepInv, OpInv, IntentInv, MissingObjectIsCondemned,
     PublishObject, SettleCap, Fault
<1> QED
  BY <1>1, <1>2, <1>3, <1>4, <1>5, <1>6, <1>7, <1>8 DEF IInv

\* PutContinuityCapture preserves the inductive invariant.
LEMMA PutContinuityCaptureIInv ==
  ASSUME IInv, PutContinuityCapture
  PROVE  IInv'
<1>1. TypeOK'
  <2>1. faults' = faults \/ Fault
    BY DEF PutContinuityCapture
  <2>2. faults' \in Nat
    BY <2>1, FaultType DEF IInv, TypeOK
  <2>3. capAt' \in [Ops -> Nat]
    BY DEF IInv, TypeOK, PutContinuityCapture
  <2> QED
    BY <2>2, <2>3 DEF IInv, TypeOK, PutContinuityCapture
<1>2. PointerReadable'
  BY DEF IInv, TypeOK, PointerReadable, MissingObjectIsCondemned, OpInv,
     IntentInv, StepInv, PutContinuityCapture, Fault
<1>3. ReferenceReadable'
  BY DEF IInv, TypeOK, ReferenceReadable, PointerReadable, OpInv, IntentInv,
     StepInv, PutContinuityCapture, Fault
<1>4. MissingObjectIsCondemned'
  BY DEF IInv, TypeOK, MissingObjectIsCondemned, OpInv, IntentInv, StepInv,
     PutContinuityCapture, Fault
<1>5. TombstoneIsFinal'
  BY DEF IInv, TypeOK, TombstoneIsFinal, OpInv, IntentInv, StepInv,
     PutContinuityCapture, Fault
<1>6. OpInv'
  BY DEF IInv, TypeOK, OpInv, IntentInv, StepInv, PutContinuityCapture, Fault
<1>7. IntentInv'
  BY DEF IInv, TypeOK, IntentInv, OpInv, StepInv, PointerReadable,
     ReferenceReadable, MissingObjectIsCondemned, PutContinuityCapture, Fault
<1>8. StepInv'
  BY DEF IInv, TypeOK, StepInv, OpInv, IntentInv, MissingObjectIsCondemned,
     PutContinuityCapture, Fault
<1> QED
  BY <1>1, <1>2, <1>3, <1>4, <1>5, <1>6, <1>7, <1>8 DEF IInv

\* Captured preserves the inductive invariant.
LEMMA CapturedIInv ==
  ASSUME IInv, Captured
  PROVE  IInv'
<1>1. TypeOK'
  <2>1. faults' = faults \/ Fault
    BY DEF Captured, SettleCap
  <2>2. faults' \in Nat
    BY <2>1, FaultType DEF IInv, TypeOK
  <2> QED
    BY <2>2 DEF IInv, TypeOK, Captured, SettleCap
<1>2. PointerReadable'
  BY DEF IInv, TypeOK, PointerReadable, MissingObjectIsCondemned, OpInv,
     IntentInv, StepInv, Captured, SettleCap, Fault
<1>3. ReferenceReadable'
  BY DEF IInv, TypeOK, ReferenceReadable, PointerReadable, OpInv, IntentInv,
     StepInv, Captured, SettleCap, Fault
<1>4. MissingObjectIsCondemned'
  BY DEF IInv, TypeOK, MissingObjectIsCondemned, OpInv, IntentInv, StepInv,
     Captured, SettleCap, Fault
<1>5. TombstoneIsFinal'
  BY DEF IInv, TypeOK, TombstoneIsFinal, OpInv, IntentInv, StepInv, Captured,
     SettleCap, Fault
<1>6. OpInv'
  BY DEF IInv, TypeOK, OpInv, IntentInv, StepInv, Captured, SettleCap, Fault
<1>7. IntentInv'
  BY DEF IInv, TypeOK, IntentInv, OpInv, StepInv, PointerReadable,
     ReferenceReadable, MissingObjectIsCondemned, Captured, SettleCap, Fault
<1>8. StepInv'
  BY DEF IInv, TypeOK, StepInv, OpInv, IntentInv, MissingObjectIsCondemned,
     Captured, SettleCap, Fault
<1> QED
  BY <1>1, <1>2, <1>3, <1>4, <1>5, <1>6, <1>7, <1>8 DEF IInv

\* Verify preserves the inductive invariant.
LEMMA VerifyIInv ==
  ASSUME IInv, Verify
  PROVE  IInv'
<1>1. TypeOK'
  <2>1. faults' = faults \/ Fault
    BY DEF Verify
  <2>2. faults' \in Nat
    BY <2>1, FaultType DEF IInv, TypeOK
  <2> QED
    BY <2>2 DEF IInv, TypeOK, Verify
<1>2. PointerReadable'
  BY DEF IInv, TypeOK, PointerReadable, MissingObjectIsCondemned, OpInv,
     IntentInv, StepInv, Verify, Fault
<1>3. ReferenceReadable'
  BY DEF IInv, TypeOK, ReferenceReadable, PointerReadable, OpInv, IntentInv,
     StepInv, Verify, Fault
<1>4. MissingObjectIsCondemned'
  BY DEF IInv, TypeOK, MissingObjectIsCondemned, OpInv, IntentInv, StepInv,
     Verify, Fault
<1>5. TombstoneIsFinal'
  BY DEF IInv, TypeOK, TombstoneIsFinal, OpInv, IntentInv, StepInv, Verify, Fault
<1>6. OpInv'
  BY DEF IInv, TypeOK, OpInv, IntentInv, StepInv, Verify, Fault
<1>7. IntentInv'
  BY DEF IInv, TypeOK, IntentInv, OpInv, StepInv, PointerReadable,
     ReferenceReadable, MissingObjectIsCondemned, Verify, Fault
<1>8. StepInv'
  BY DEF IInv, TypeOK, StepInv, OpInv, IntentInv, MissingObjectIsCondemned,
     Verify, Fault
<1> QED
  BY <1>1, <1>2, <1>3, <1>4, <1>5, <1>6, <1>7, <1>8 DEF IInv

\* Accept preserves the inductive invariant.
LEMMA AcceptIInv ==
  ASSUME IInv, Accept
  PROVE  IInv'
<1>1. TypeOK'
  <2>1. faults' = faults \/ Fault
    BY DEF Accept, SettleCk, AcceptCheckpoint, Acceptable
  <2>2. faults' \in Nat
    BY <2>1, FaultType DEF IInv, TypeOK
  <2>3. clock' \in Nat
    BY DEF IInv, TypeOK, Accept, SettleCk, AcceptCheckpoint, Acceptable
  <2>4. ckAt' \in [Ops -> Nat]
    BY DEF IInv, TypeOK, Accept, SettleCk, AcceptCheckpoint, Acceptable
  <2>5. failing' \in BOOLEAN
    BY DEF IInv, TypeOK, Accept, SettleCk, AcceptCheckpoint, Acceptable
  <2> QED
    BY <2>2, <2>3, <2>4, <2>5 DEF IInv, TypeOK, Accept, SettleCk,
       AcceptCheckpoint, Acceptable
<1>2. PointerReadable'
  BY DEF IInv, TypeOK, PointerReadable, MissingObjectIsCondemned, OpInv,
     IntentInv, StepInv, Accept, SettleCk, AcceptCheckpoint, Acceptable, Fault
<1>3. ReferenceReadable'
  BY DEF IInv, TypeOK, ReferenceReadable, PointerReadable, OpInv, IntentInv,
     StepInv, Accept, SettleCk, AcceptCheckpoint, Acceptable, Fault
<1>4. MissingObjectIsCondemned'
  BY DEF IInv, TypeOK, MissingObjectIsCondemned, OpInv, IntentInv, StepInv,
     Accept, SettleCk, AcceptCheckpoint, Acceptable, Fault
<1>5. TombstoneIsFinal'
  BY DEF IInv, TypeOK, TombstoneIsFinal, OpInv, IntentInv, StepInv, Accept,
     SettleCk, AcceptCheckpoint, Acceptable, Fault
<1>6. OpInv'
  BY DEF IInv, TypeOK, OpInv, IntentInv, StepInv, Accept, SettleCk,
     AcceptCheckpoint, Acceptable, Fault
<1>7. IntentInv'
  BY DEF IInv, TypeOK, IntentInv, OpInv, StepInv, PointerReadable,
     ReferenceReadable, MissingObjectIsCondemned, Accept, SettleCk,
     AcceptCheckpoint, Acceptable, Fault
<1>8. StepInv'
  BY DEF IInv, TypeOK, StepInv, OpInv, IntentInv, MissingObjectIsCondemned,
     Accept, SettleCk, AcceptCheckpoint, Acceptable, Fault
<1> QED
  BY <1>1, <1>2, <1>3, <1>4, <1>5, <1>6, <1>7, <1>8 DEF IInv

\* Succeed preserves the inductive invariant.
LEMMA SucceedIInv ==
  ASSUME IInv, Succeed
  PROVE  IInv'
<1>1. TypeOK'
  <2>1. faults' = faults \/ Fault
    BY DEF Succeed, SettleCk
  <2>2. faults' \in Nat
    BY <2>1, FaultType DEF IInv, TypeOK
  <2> QED
    BY <2>2 DEF IInv, TypeOK, Succeed, SettleCk
<1>2. PointerReadable'
  BY DEF IInv, TypeOK, PointerReadable, MissingObjectIsCondemned, OpInv,
     IntentInv, StepInv, Succeed, SettleCk, Fault
<1>3. ReferenceReadable'
  BY DEF IInv, TypeOK, ReferenceReadable, PointerReadable, OpInv, IntentInv,
     StepInv, Succeed, SettleCk, Fault
<1>4. MissingObjectIsCondemned'
  BY DEF IInv, TypeOK, MissingObjectIsCondemned, OpInv, IntentInv, StepInv,
     Succeed, SettleCk, Fault
<1>5. TombstoneIsFinal'
  BY DEF IInv, TypeOK, TombstoneIsFinal, OpInv, IntentInv, StepInv, Succeed,
     SettleCk, Fault
<1>6. OpInv'
  BY DEF IInv, TypeOK, OpInv, IntentInv, StepInv, Succeed, SettleCk, Fault
<1>7. IntentInv'
  BY DEF IInv, TypeOK, IntentInv, OpInv, StepInv, PointerReadable,
     ReferenceReadable, MissingObjectIsCondemned, Succeed, SettleCk, Fault
<1>8. StepInv'
  BY DEF IInv, TypeOK, StepInv, OpInv, IntentInv, MissingObjectIsCondemned,
     Succeed, SettleCk, Fault
<1> QED
  BY <1>1, <1>2, <1>3, <1>4, <1>5, <1>6, <1>7, <1>8 DEF IInv

\* AddReference preserves the inductive invariant.
LEMMA AddReferenceIInv ==
  ASSUME IInv, NEW x \in Ops, AddReference(x)
  PROVE  IInv'
<1>1. TypeOK'
  <2> QED
    BY DEF IInv, TypeOK, AddReference
<1>2. PointerReadable'
  BY DEF IInv, TypeOK, PointerReadable, MissingObjectIsCondemned, OpInv,
     IntentInv, StepInv, AddReference
<1>3. ReferenceReadable'
  BY DEF IInv, TypeOK, ReferenceReadable, PointerReadable, OpInv, IntentInv,
     StepInv, AddReference
<1>4. MissingObjectIsCondemned'
  BY DEF IInv, TypeOK, MissingObjectIsCondemned, OpInv, IntentInv, StepInv,
     AddReference
<1>5. TombstoneIsFinal'
  BY DEF IInv, TypeOK, TombstoneIsFinal, OpInv, IntentInv, StepInv, AddReference
<1>6. OpInv'
  BY DEF IInv, TypeOK, OpInv, IntentInv, StepInv, AddReference
<1>7. IntentInv'
  BY DEF IInv, TypeOK, IntentInv, OpInv, StepInv, PointerReadable,
     ReferenceReadable, MissingObjectIsCondemned, AddReference
<1>8. StepInv'
  BY DEF IInv, TypeOK, StepInv, OpInv, IntentInv, MissingObjectIsCondemned,
     AddReference
<1> QED
  BY <1>1, <1>2, <1>3, <1>4, <1>5, <1>6, <1>7, <1>8 DEF IInv

\* DropReference preserves the inductive invariant.
LEMMA DropReferenceIInv ==
  ASSUME IInv, NEW x \in Ops, DropReference(x)
  PROVE  IInv'
<1>1. TypeOK'
  <2> QED
    BY DEF IInv, TypeOK, DropReference
<1>2. PointerReadable'
  BY DEF IInv, TypeOK, PointerReadable, MissingObjectIsCondemned, OpInv,
     IntentInv, StepInv, DropReference
<1>3. ReferenceReadable'
  BY DEF IInv, TypeOK, ReferenceReadable, PointerReadable, OpInv, IntentInv,
     StepInv, DropReference
<1>4. MissingObjectIsCondemned'
  BY DEF IInv, TypeOK, MissingObjectIsCondemned, OpInv, IntentInv, StepInv,
     DropReference
<1>5. TombstoneIsFinal'
  BY DEF IInv, TypeOK, TombstoneIsFinal, OpInv, IntentInv, StepInv, DropReference
<1>6. OpInv'
  BY DEF IInv, TypeOK, OpInv, IntentInv, StepInv, DropReference
<1>7. IntentInv'
  BY DEF IInv, TypeOK, IntentInv, OpInv, StepInv, PointerReadable,
     ReferenceReadable, MissingObjectIsCondemned, DropReference
<1>8. StepInv'
  BY DEF IInv, TypeOK, StepInv, OpInv, IntentInv, MissingObjectIsCondemned,
     DropReference
<1> QED
  BY <1>1, <1>2, <1>3, <1>4, <1>5, <1>6, <1>7, <1>8 DEF IInv

\* EndPass preserves the inductive invariant.
LEMMA EndPassIInv ==
  ASSUME IInv, EndPass
  PROVE  IInv'
<1>1. TypeOK'
  <2> QED
    BY DEF IInv, TypeOK, EndPass
<1>2. PointerReadable'
  BY DEF IInv, TypeOK, PointerReadable, MissingObjectIsCondemned, OpInv,
     IntentInv, StepInv, EndPass
<1>3. ReferenceReadable'
  BY DEF IInv, TypeOK, ReferenceReadable, PointerReadable, OpInv, IntentInv,
     StepInv, EndPass
<1>4. MissingObjectIsCondemned'
  BY DEF IInv, TypeOK, MissingObjectIsCondemned, OpInv, IntentInv, StepInv, EndPass
<1>5. TombstoneIsFinal'
  BY DEF IInv, TypeOK, TombstoneIsFinal, OpInv, IntentInv, StepInv, EndPass
<1>6. OpInv'
  BY DEF IInv, TypeOK, OpInv, IntentInv, StepInv, EndPass
<1>7. IntentInv'
  BY DEF IInv, TypeOK, IntentInv, OpInv, StepInv, PointerReadable,
     ReferenceReadable, MissingObjectIsCondemned, EndPass
<1>8. StepInv'
  BY DEF IInv, TypeOK, StepInv, OpInv, IntentInv, MissingObjectIsCondemned, EndPass
<1> QED
  BY <1>1, <1>2, <1>3, <1>4, <1>5, <1>6, <1>7, <1>8 DEF IInv

\* Crash preserves the inductive invariant.
LEMMA CrashIInv ==
  ASSUME IInv, Crash
  PROVE  IInv'
<1>1. TypeOK'
  <2>1. faults' = faults \/ Fault
    BY DEF Crash
  <2>2. faults' \in Nat
    BY <2>1, FaultType DEF IInv, TypeOK
  <2> QED
    BY <2>2 DEF IInv, TypeOK, Crash
<1>2. PointerReadable'
  BY DEF IInv, TypeOK, PointerReadable, MissingObjectIsCondemned, OpInv,
     IntentInv, StepInv, Crash, Fault
<1>3. ReferenceReadable'
  BY DEF IInv, TypeOK, ReferenceReadable, PointerReadable, OpInv, IntentInv,
     StepInv, Crash, Fault
<1>4. MissingObjectIsCondemned'
  BY DEF IInv, TypeOK, MissingObjectIsCondemned, OpInv, IntentInv, StepInv, Crash,
     Fault
<1>5. TombstoneIsFinal'
  BY DEF IInv, TypeOK, TombstoneIsFinal, OpInv, IntentInv, StepInv, Crash, Fault
<1>6. OpInv'
  BY DEF IInv, TypeOK, OpInv, IntentInv, StepInv, Crash, Fault
<1>7. IntentInv'
  BY DEF IInv, TypeOK, IntentInv, OpInv, StepInv, PointerReadable,
     ReferenceReadable, MissingObjectIsCondemned, Crash, Fault
<1>8. StepInv'
  BY DEF IInv, TypeOK, StepInv, OpInv, IntentInv, MissingObjectIsCondemned, Crash,
     Fault
<1> QED
  BY <1>1, <1>2, <1>3, <1>4, <1>5, <1>6, <1>7, <1>8 DEF IInv

\* Restart preserves the inductive invariant.
LEMMA RestartIInv ==
  ASSUME IInv, Restart
  PROVE  IInv'
<1>1. TypeOK'
  <2> QED
    BY DEF IInv, TypeOK, Restart
<1>2. PointerReadable'
  BY DEF IInv, TypeOK, PointerReadable, MissingObjectIsCondemned, OpInv,
     IntentInv, StepInv, Restart
<1>3. ReferenceReadable'
  BY DEF IInv, TypeOK, ReferenceReadable, PointerReadable, OpInv, IntentInv,
     StepInv, Restart
<1>4. MissingObjectIsCondemned'
  BY DEF IInv, TypeOK, MissingObjectIsCondemned, OpInv, IntentInv, StepInv, Restart
<1>5. TombstoneIsFinal'
  BY DEF IInv, TypeOK, TombstoneIsFinal, OpInv, IntentInv, StepInv, Restart
<1>6. OpInv'
  BY DEF IInv, TypeOK, OpInv, IntentInv, StepInv, Restart
<1>7. IntentInv'
  BY DEF IInv, TypeOK, IntentInv, OpInv, StepInv, PointerReadable,
     ReferenceReadable, MissingObjectIsCondemned, Restart
<1>8. StepInv'
  BY DEF IInv, TypeOK, StepInv, OpInv, IntentInv, MissingObjectIsCondemned, Restart
<1> QED
  BY <1>1, <1>2, <1>3, <1>4, <1>5, <1>6, <1>7, <1>8 DEF IInv

\* Tick preserves the inductive invariant.
LEMMA TickIInv ==
  ASSUME IInv, Tick
  PROVE  IInv'
<1>1. TypeOK'
  <2>1. clock' \in Nat
    BY DEF IInv, TypeOK, Tick
  <2>2. failing' \in BOOLEAN
    BY DEF IInv, TypeOK, Tick
  <2> QED
    BY <2>1, <2>2 DEF IInv, TypeOK, Tick
<1>2. PointerReadable'
  BY DEF IInv, TypeOK, PointerReadable, MissingObjectIsCondemned, OpInv,
     IntentInv, StepInv, Tick
<1>3. ReferenceReadable'
  BY DEF IInv, TypeOK, ReferenceReadable, PointerReadable, OpInv, IntentInv,
     StepInv, Tick
<1>4. MissingObjectIsCondemned'
  BY DEF IInv, TypeOK, MissingObjectIsCondemned, OpInv, IntentInv, StepInv, Tick
<1>5. TombstoneIsFinal'
  BY DEF IInv, TypeOK, TombstoneIsFinal, OpInv, IntentInv, StepInv, Tick
<1>6. OpInv'
  BY DEF IInv, TypeOK, OpInv, IntentInv, StepInv, Tick
<1>7. IntentInv'
  BY DEF IInv, TypeOK, IntentInv, OpInv, StepInv, PointerReadable,
     ReferenceReadable, MissingObjectIsCondemned, Tick
<1>8. StepInv'
  BY DEF IInv, TypeOK, StepInv, OpInv, IntentInv, MissingObjectIsCondemned, Tick
<1> QED
  BY <1>1, <1>2, <1>3, <1>4, <1>5, <1>6, <1>7, <1>8 DEF IInv

LEMMA NextIInv == IInv /\ [Next]_vars => IInv'
<1> SUFFICES ASSUME IInv, [Next]_vars PROVE IInv'
  OBVIOUS
<1>1. CASE CollectStep
  BY <1>1, PlanIInv, CollectIInv, CollectRefusedIInv, CompleteIInv,
     CollectDoneIInv, SkipIInv, ConfirmIInv DEF CollectStep
<1>2. CASE WorkStep
  BY <1>2, CaptureIInv, AddReferenceIInv, DropReferenceIInv, PublishObjectIInv,
     PutContinuityCaptureIInv, CapturedIInv, VerifyIInv, AcceptIInv, SucceedIInv
     DEF WorkStep
<1>3. CASE PassStep
  BY <1>3, ManifestIInv, RecoverDoneIInv, EndPassIInv, RestartIInv,
     RecoverCaptureIInv, RecoverCheckpointIInv DEF PassStep
<1>4. CASE UNCHANGED vars
  BY <1>4 DEF vars, IInv, TypeOK, PointerReadable, ReferenceReadable,
     MissingObjectIsCondemned, TombstoneIsFinal, OpInv, IntentInv, StepInv
<1> QED
  BY <1>1, <1>2, <1>3, <1>4, CollectInterruptedIInv, CrashIInv, TickIInv DEF Next,
     Daemon

\* The inductive invariant holds in every reachable state.
THEOREM Invariance == Spec => []IInv
  BY InitIInv, NextIInv, PTL DEF Spec

\* Every variable keeps its type.
THEOREM TypeCorrect == Spec => []TypeOK
<1>1. IInv => TypeOK
  BY DEF IInv
<1> QED
  BY <1>1, Invariance, PTL

\* The checkpoint a Work points at keeps its rows and its whole object, whatever
\* checkpoint_lifecycle.go collects and wherever a pass is interrupted.
THEOREM AcceptedCheckpointReadable == Spec => []PointerReadable
<1>1. IInv => PointerReadable
  BY DEF IInv
<1> QED
  BY <1>1, Invariance, PTL

\* So does a checkpoint that a live continuation, restore or handoff names.
THEOREM ReferencedCheckpointReadable == Spec => []ReferenceReadable
<1>1. IInv => ReferenceReadable
  BY DEF IInv
<1> QED
  BY <1>1, Invariance, PTL

\* A capture row whose object is not whole is durably being deleted.
THEOREM NoRowWithoutObject == Spec => []MissingObjectIsCondemned
<1>1. IInv => MissingObjectIsCondemned
  BY DEF IInv
<1> QED
  BY <1>1, Invariance, PTL

\* A tombstoned capture has no row and no readable object, for ever.
THEOREM TombstoneNeverResurrected == Spec => []TombstoneIsFinal
<1>1. IInv => TombstoneIsFinal
  BY DEF IInv
<1> QED
  BY <1>1, Invariance, PTL

\* What the collector of checkpoint_lifecycle.go may never do, for every policy,
\* grace period and number of crashes.
THEOREM CollectionSafe == Spec => []CollectionIsSafe
<1>1. IInv => CollectionIsSafe
  BY DEF IInv, CollectionIsSafe
<1> QED
  BY <1>1, Invariance, PTL

-----------------------------------------------------------------------------
(* Bytes adds up: it is a fold over a set, and its recursion is justified by   *)
(* induction over the finite sets of operations. The induction principles are *)
(* stated on sets of sets, as the provers do not instantiate a predicate.      *)

\* A set of sets that is closed under adding an element has all of them.
LEMMA SetInduction ==
  ASSUME NEW S, IsFiniteSet(S), NEW T, {} \in T,
         \A U \in SUBSET S : U \in T => \A x \in S \ U : U \cup {x} \in T
  PROVE  \A U \in SUBSET S : U \in T
<1> DEFINE bad == {U \in SUBSET S : U \notin T}
           R == StrictSubsetOrdering(S)
<1>1. IsWellFoundedOn(R, SUBSET S)
  BY FS_StrictSubsetOrderingWellFounded, FS_FiniteSubsetsOfFinite
<1>2. SUFFICES ASSUME bad # {} PROVE FALSE
  OBVIOUS
<1>2a. bad \subseteq SUBSET S
  OBVIOUS
<1> HIDE DEF R, bad
<1>3. PICK X \in bad : \A Y \in bad : <<Y, X>> \notin R
  BY <1>1, <1>2, <1>2a, WFMin
<1> USE DEF bad
<1>4. PICK x \in X : TRUE
  BY <1>3
<1>5. X \ {x} \in SUBSET S /\ X \ {x} # X
  BY <1>3, <1>4
<1>6. <<X \ {x}, X>> \in R
  BY <1>3, <1>5 DEF R, StrictSubsetOrdering
<1>7. X \ {x} \in T
  BY <1>3, <1>5, <1>6
<1>8. (X \ {x}) \cup {x} = X /\ x \in S \ (X \ {x})
  BY <1>3, <1>4
<1> QED BY <1>3, <1>5, <1>7, <1>8

\* A set of sets that has each set whose proper subsets it has, has all of them.
LEMMA SubsetInduction ==
  ASSUME NEW S, IsFiniteSet(S), NEW T,
         \A U \in SUBSET S : (\A V \in SUBSET U : V # U => V \in T) => U \in T
  PROVE  \A U \in SUBSET S : U \in T
<1> DEFINE bad == {U \in SUBSET S : U \notin T}
           R == StrictSubsetOrdering(S)
<1>1. IsWellFoundedOn(R, SUBSET S)
  BY FS_StrictSubsetOrderingWellFounded, FS_FiniteSubsetsOfFinite
<1>2. SUFFICES ASSUME bad # {} PROVE FALSE
  OBVIOUS
<1>2a. bad \subseteq SUBSET S
  OBVIOUS
<1> HIDE DEF R, bad
<1>3. PICK X \in bad : \A Y \in bad : <<Y, X>> \notin R
  BY <1>1, <1>2, <1>2a, WFMin
<1> USE DEF bad
<1>4. ASSUME NEW V \in SUBSET X, V # X PROVE V \in T
  <2>1. <<V, X>> \in R
    BY <1>3, <1>4 DEF R, StrictSubsetOrdering
  <2> QED BY <1>3, <2>1
<1> QED BY <1>3, <1>4

Pick(s) == CHOOSE o \in s : TRUE

\* The equation of the fold, for a table of the sums of the sets in D.
SumsUp(f, D) ==
  \A s \in D : f[s] = IF s = {} THEN 0 ELSE Size[Pick(s)] + f[s \ {Pick(s)}]

LEMMA Picked == ASSUME NEW s, s # {} PROVE Pick(s) \in s
  BY DEF Pick

\* There is a table of the sums of the subsets of a set of operations.
LEMMA SumsExist ==
  ASSUME NEW S \in SUBSET Ops
  PROVE  \E f \in [SUBSET S -> Nat] : SumsUp(f, SUBSET S)
<1> DEFINE Low(n) == {s \in SUBSET S : Cardinality(s) <= n}
           T == {U \in SUBSET S : \E f \in [Low(Cardinality(U)) -> Nat] :
                                    SumsUp(f, Low(Cardinality(U)))}
<1>1. IsFiniteSet(S) /\ \A U \in SUBSET S : IsFiniteSet(U) /\ Cardinality(U) \in Nat
  BY FS_Subset, FS_CardinalityType
<1>2. {} \in T
  <2>1. Low(0) = {{}}
    BY <1>1, FS_EmptySet
  <2>2. [s \in Low(0) |-> 0] \in [Low(0) -> Nat]
    OBVIOUS
  <2>3. SumsUp([s \in Low(0) |-> 0], Low(0))
    BY <2>1 DEF SumsUp
  <2> HIDE DEF Low
  <2>4. Cardinality({}) = 0
    BY FS_EmptySet
  <2> QED BY <2>2, <2>3, <2>4
<1>3. ASSUME NEW U \in SUBSET S, U \in T, NEW x \in S \ U
      PROVE  U \cup {x} \in T
  <2>1. PICK n \in Nat : n = Cardinality(U)
    BY <1>1
  <2>2. PICK f \in [Low(n) -> Nat] : SumsUp(f, Low(n))
    BY <1>3, <2>1
  <2>3. Cardinality(U \cup {x}) = n + 1
    BY <1>1, <1>3, <2>1, FS_AddElement
  <2> DEFINE g == [s \in Low(n + 1) |->
                     IF s \in Low(n) THEN f[s] ELSE Size[Pick(s)] + f[s \ {Pick(s)}]]
  <2>4. ASSUME NEW s \in Low(n + 1), s # {}
        PROVE  s \ {Pick(s)} \in Low(n) /\ Size[Pick(s)] \in Nat
    <3>1. Pick(s) \in s /\ s \in SUBSET S /\ IsFiniteSet(s) /\ Cardinality(s) \in Nat
      BY <1>1, <2>4, Picked
    <3>2. Cardinality(s \ {Pick(s)}) = Cardinality(s) - 1
      BY <3>1, FS_RemoveElement
    <3>3. Cardinality(s) <= n + 1 /\ s \ {Pick(s)} \in SUBSET S
      BY <3>1
    <3> QED BY <3>1, <3>2, <3>3
  <2>5. {} \in Low(n)
    BY FS_EmptySet
  <2>6. Low(n) \subseteq Low(n + 1)
    BY <1>1
  <2> HIDE DEF Low
  <2>7. g \in [Low(n + 1) -> Nat]
    <3>1. ASSUME NEW s \in Low(n + 1), s \notin Low(n)
          PROVE  Size[Pick(s)] + f[s \ {Pick(s)}] \in Nat
      <4>1. s \ {Pick(s)} \in Low(n) /\ Size[Pick(s)] \in Nat
        BY <2>4, <2>5, <3>1
      <4>2. f[s \ {Pick(s)}] \in Nat
        BY <4>1
      <4> QED BY <4>1, <4>2
    <3> QED BY <3>1
  <2>8. \A s \in Low(n) : g[s] = f[s]
    BY <2>6
  <2>9. ASSUME NEW s \in Low(n + 1)
        PROVE  g[s] = IF s = {} THEN 0 ELSE Size[Pick(s)] + g[s \ {Pick(s)}]
    <3>1. CASE s = {}
      BY <2>2, <2>5, <2>8, <3>1 DEF SumsUp
    <3>2. CASE s # {}
      <4>1. s \ {Pick(s)} \in Low(n) /\ g[s \ {Pick(s)}] = f[s \ {Pick(s)}]
        BY <2>4, <2>8, <3>2
      <4>2. g[s] = Size[Pick(s)] + f[s \ {Pick(s)}]
        BY <2>2, <3>2 DEF SumsUp
      <4> QED BY <3>2, <4>1, <4>2
    <3> QED BY <3>1, <3>2
  <2>10. SumsUp(g, Low(n + 1))
    BY <2>9 DEF SumsUp
  <2> HIDE DEF g
  <2> QED BY <2>3, <2>7, <2>10
<1>4. S \in T
  <2>1. \A U \in SUBSET S : U \in T => \A x \in S \ U : U \cup {x} \in T
    BY <1>3
  <2> HIDE DEF T
  <2>2. \A U \in SUBSET S : U \in T
    BY <1>1, <1>2, <2>1, SetInduction
  <2> QED BY <2>2
<1>5. Low(Cardinality(S)) = SUBSET S
  BY <1>1, FS_Subset
<1> QED BY <1>4, <1>5

\* Two tables of the same sums agree.
LEMMA SumsUnique ==
  ASSUME NEW S \in SUBSET Ops, NEW f, SumsUp(f, SUBSET S), NEW g, SumsUp(g, SUBSET S)
  PROVE  \A s \in SUBSET S : f[s] = g[s]
<1> DEFINE T == {s \in SUBSET S : f[s] = g[s]}
<1>1. IsFiniteSet(S)
  BY FS_Subset
<1>2. ASSUME NEW U \in SUBSET S, \A V \in SUBSET U : V # U => V \in T
      PROVE  U \in T
  <2>1. CASE U = {}
    BY <2>1 DEF SumsUp
  <2>2. CASE U # {}
    <3>1. Pick(U) \in U
      BY <2>2, Picked
    <3>2. U \ {Pick(U)} \in T
      BY <1>2, <3>1
    <3> QED BY <2>2, <3>2 DEF SumsUp
  <2> QED BY <2>1, <2>2
<1>3. \A U \in SUBSET S : U \in T
  <2> HIDE DEF T
  <2> QED BY <1>1, <1>2, SubsetInduction
<1> QED BY <1>3

\* The bytes of a set are its entry in any table of sums.
LEMMA BytesIs ==
  ASSUME NEW F \in [SUBSET Ops -> Nat], SumsUp(F, SUBSET Ops), NEW S \in SUBSET Ops
  PROVE  Bytes(S) = F[S]
<1> DEFINE Eq(f) == f = [s \in SUBSET S |->
                          IF s = {} THEN 0 ELSE Size[Pick(s)] + f[s \ {Pick(s)}]]
<1>1. Bytes(S) = (CHOOSE f : Eq(f))[S]
  BY Zenon DEF Bytes, MapThenSumSet, MapThenFoldSet, Pick
<1>2. PICK h \in [SUBSET S -> Nat] : SumsUp(h, SUBSET S)
  BY SumsExist
<1>3. Eq(h)
  BY <1>2 DEF SumsUp
<1>4. PICK f : f = CHOOSE k : Eq(k)
  OBVIOUS
<1>5. Eq(f)
  BY <1>3, <1>4
<1>6. SumsUp(f, SUBSET S)
  BY <1>5 DEF SumsUp
<1>7. SumsUp(F, SUBSET S)
  BY DEF SumsUp
<1>8. \A s \in SUBSET S : f[s] = F[s]
  BY <1>6, <1>7, SumsUnique
<1>9. f[S] = F[S]
  BY <1>8
<1> QED BY <1>1, <1>4, <1>9

LEMMA BytesTable ==
  \E F \in [SUBSET Ops -> Nat] : SumsUp(F, SUBSET Ops) /\ \A S \in SUBSET Ops : Bytes(S) = F[S]
<1>1. PICK F \in [SUBSET Ops -> Nat] : SumsUp(F, SUBSET Ops)
  BY SumsExist
<1> QED BY <1>1, BytesIs

LEMMA BytesType == /\ Bytes({}) = 0
                   /\ \A S \in SUBSET Ops : Bytes(S) \in Nat
<1>1. PICK F \in [SUBSET Ops -> Nat] :
        SumsUp(F, SUBSET Ops) /\ \A S \in SUBSET Ops : Bytes(S) = F[S]
  BY BytesTable
<1>2. Bytes({}) = F[{}] /\ F[{}] = 0
  BY <1>1 DEF SumsUp
<1> QED BY <1>1, <1>2

\* An operation counts once, whichever one the fold takes first.
LEMMA BytesRemove ==
  \A U \in SUBSET Ops : \A o \in U : Bytes(U) = Size[o] + Bytes(U \ {o})
<1>1. PICK F \in [SUBSET Ops -> Nat] :
        SumsUp(F, SUBSET Ops) /\ \A S \in SUBSET Ops : Bytes(S) = F[S]
  BY BytesTable
<1> DEFINE T == {U \in SUBSET Ops : \A o \in U : F[U] = Size[o] + F[U \ {o}]}
<1>2. ASSUME NEW U \in SUBSET Ops, \A V \in SUBSET U : V # U => V \in T
      PROVE  U \in T
  <2> SUFFICES ASSUME NEW o \in U
               PROVE  F[U] = Size[o] + F[U \ {o}]
    OBVIOUS
  <2>1. PICK y \in U : y = Pick(U)
    BY Picked
  <2>2. F[U] = Size[y] + F[U \ {y}]
    BY <1>1, <2>1 DEF SumsUp
  <2>3. CASE o = y
    BY <2>2, <2>3
  <2>4. CASE o # y
    <3>1. U \ {y} \in T /\ U \ {o} \in T
      <4>1. U \ {y} # U /\ U \ {o} # U /\ U \ {y} \in SUBSET U /\ U \ {o} \in SUBSET U
        OBVIOUS
      <4> HIDE DEF T
      <4> QED BY <1>2, <4>1
    <3>2. F[U \ {y}] = Size[o] + F[(U \ {y}) \ {o}]
      BY <2>4, <3>1
    <3>3. F[U \ {o}] = Size[y] + F[(U \ {o}) \ {y}]
      BY <2>4, <3>1
    <3>4. (U \ {y}) \ {o} = (U \ {o}) \ {y} /\ (U \ {o}) \ {y} \in SUBSET Ops
      OBVIOUS
    <3>5. PICK a \in Nat : a = F[(U \ {o}) \ {y}]
      BY <3>4
    <3>6. PICK b \in Nat, c \in Nat : b = Size[o] /\ c = Size[y]
      OBVIOUS
    <3>7. F[U \ {y}] = b + a /\ F[U \ {o}] = c + a
      BY <3>2, <3>3, <3>4, <3>5, <3>6
    <3>8. F[U] = c + (b + a)
      BY <2>2, <3>6, <3>7
    <3>9. c + (b + a) = b + (c + a)
      OBVIOUS
    <3> QED BY <3>6, <3>7, <3>8, <3>9
  <2> QED BY <2>3, <2>4
<1>3. \A U \in SUBSET Ops : U \in T
  <2>1. \A U \in SUBSET Ops : (\A V \in SUBSET U : V # U => V \in T) => U \in T
    BY <1>2
  <2> HIDE DEF T
  <2> QED BY <2>1, SubsetInduction
<1>4. ASSUME NEW U \in SUBSET Ops, NEW o \in U
      PROVE  Bytes(U) = Size[o] + Bytes(U \ {o})
  <2>1. F[U] = Size[o] + F[U \ {o}]
    BY <1>3
  <2>2. U \ {o} \in SUBSET Ops
    OBVIOUS
  <2>3. Bytes(U) = F[U] /\ Bytes(U \ {o}) = F[U \ {o}]
    BY <1>1, <2>2
  <2> QED BY <2>1, <2>3
<1> QED BY <1>4

LEMMA BytesUnion ==
  ASSUME NEW A \in SUBSET Ops, NEW B \in SUBSET Ops, A \cap B = {}
  PROVE  Bytes(A \cup B) = Bytes(A) + Bytes(B)
<1> DEFINE T == {U \in SUBSET B : Bytes(A \cup U) = Bytes(A) + Bytes(U)}
<1>1. IsFiniteSet(B)
  BY FS_Subset
<1>2. {} \in T
  <2>1. A \cup {} = A
    OBVIOUS
  <2> QED BY <2>1, BytesType
<1>3. ASSUME NEW U \in SUBSET B, U \in T, NEW x \in B \ U
      PROVE  U \cup {x} \in T
  <2>1. /\ A \cup (U \cup {x}) \in SUBSET Ops /\ x \in A \cup (U \cup {x})
        /\ (A \cup (U \cup {x})) \ {x} = A \cup U
        /\ U \cup {x} \in SUBSET Ops /\ (U \cup {x}) \ {x} = U
        /\ U \in SUBSET Ops /\ Size[x] \in Nat
    BY <1>3
  <2>2. Bytes(A \cup (U \cup {x})) = Size[x] + Bytes(A \cup U)
    BY <2>1, BytesRemove
  <2>3. Bytes(U \cup {x}) = Size[x] + Bytes(U)
    BY <2>1, BytesRemove
  <2>4. Bytes(A) \in Nat /\ Bytes(U) \in Nat
    BY <2>1, BytesType
  <2>5. Bytes(A \cup U) = Bytes(A) + Bytes(U)
    BY <1>3
  <2> QED BY <2>1, <2>2, <2>3, <2>4, <2>5
<1>4. B \in T
  <2>1. \A U \in SUBSET B : U \in T => \A x \in B \ U : U \cup {x} \in T
    BY <1>3
  <2> HIDE DEF T
  <2>2. \A U \in SUBSET B : U \in T
    BY <1>1, <1>2, <2>1, SetInduction
  <2> QED BY <2>2
<1> QED BY <1>4

LEMMA BytesMonotone ==
  ASSUME NEW A \in SUBSET Ops, NEW B \in SUBSET A
  PROVE  Bytes(B) <= Bytes(A)
<1>1. B \cup (A \ B) = A
  OBVIOUS
<1>2. Bytes(A) = Bytes(B) + Bytes(A \ B)
  BY <1>1, BytesUnion
<1> QED BY <1>2, BytesType

-----------------------------------------------------------------------------
(* The policy.                                                             *)

\* Accepting a checkpoint keeps the count.
LEMMA AcceptWithin ==
  ASSUME IInv, WithinPolicy, NEW o \in Ops, AcceptCheckpoint(o)
  PROVE  WithinPolicy'
<1>1. captures' = captures /\ checkpoints \subseteq Ops
  BY DEF AcceptCheckpoint, IInv, TypeOK
<1>2. IsFiniteSet(checkpoints) /\ Cardinality(checkpoints) \in Nat
  BY <1>1, FS_Subset, FS_CardinalityType
<1>3. CASE o \in checkpoints
  BY <1>1, <1>3 DEF AcceptCheckpoint, WithinPolicy
<1>4. CASE o \notin checkpoints
  <2>1. checkpoints' = checkpoints \cup {o} /\ Cardinality(checkpoints) < MaxPerBox
    BY <1>4 DEF AcceptCheckpoint, Affordable
  <2>2. Cardinality(checkpoints \cup {o}) = Cardinality(checkpoints) + 1
    BY <1>2, <1>4, FS_AddElement
  <2>3. Cardinality(checkpoints') <= MaxPerBox
    BY <1>2, <2>1, <2>2
  <2> QED BY <1>1, <2>3 DEF WithinPolicy
<1> QED BY <1>3, <1>4

\* No step exceeds the policy: a capture row is put and a checkpoint accepted
\* within it, collection only gives back.
LEMMA NextWithin ==
  ASSUME IInv, WithinPolicy, [Next]_vars
  PROVE  WithinPolicy'
<1>1. captures \subseteq Ops /\ checkpoints \subseteq Ops /\ cur \in Ops
  BY DEF IInv, TypeOK
<1>2. CASE UNCHANGED <<captures, checkpoints>>
  BY <1>2 DEF WithinPolicy
<1>3. CASE Complete
  <2>1. captures' \subseteq captures /\ checkpoints' \subseteq checkpoints
    BY <1>3 DEF Complete
  <2>2. captures' \in SUBSET captures /\ checkpoints' \in SUBSET checkpoints
    BY <2>1
  <2>3. Bytes(captures') <= Bytes(captures)
    BY <1>1, <2>2, BytesMonotone
  <2>4. Bytes(captures') \in Nat /\ Bytes(captures) \in Nat
    BY <1>1, <2>1, BytesType
  <2>5. IsFiniteSet(checkpoints) /\ Cardinality(checkpoints) \in Nat
    BY <1>1, FS_Subset, FS_CardinalityType
  <2>6. Cardinality(checkpoints') <= Cardinality(checkpoints) /\ Cardinality(checkpoints') \in Nat
    BY <2>2, <2>5, FS_Subset, FS_CardinalityType
  <2> QED BY <2>3, <2>4, <2>5, <2>6 DEF WithinPolicy
<1>4. CASE PutContinuityCapture
  <2>1. CASE UNCHANGED captures
    BY <1>4, <2>1 DEF PutContinuityCapture, WithinPolicy
  <2>2. CASE ~UNCHANGED captures
    <3>1. /\ captures' = captures \cup {cur} /\ checkpoints' = checkpoints
          /\ Bytes(captures) + Size[cur] <= MaxBytes
      BY <1>4, <2>2 DEF PutContinuityCapture
    <3>2. cur \notin captures
      BY <1>4 DEF IInv, StepInv, PutContinuityCapture
    <3>3. captures \cup {cur} \in SUBSET Ops /\ (captures \cup {cur}) \ {cur} = captures
      BY <1>1, <3>2
    <3>4. Bytes(captures \cup {cur}) = Size[cur] + Bytes(captures)
      BY <3>3, BytesRemove
    <3>5. Bytes(captures) \in Nat /\ Size[cur] \in Nat
      BY <1>1, BytesType
    <3>6. Bytes(captures') <= MaxBytes
      BY <3>1, <3>4, <3>5
    <3> QED BY <3>1, <3>6 DEF WithinPolicy
  <2> QED BY <2>1, <2>2
<1>5. CASE Accept
  <2>1. CASE AcceptCheckpoint(cur)
    BY <1>1, <2>1, AcceptWithin
  <2>2. CASE ~AcceptCheckpoint(cur)
    BY <1>2, <1>5, <2>2 DEF Accept
  <2> QED BY <2>1, <2>2
<1>6. CASE \E o \in Ops : RecoverCheckpoint(o)
  <2>1. PICK o \in Ops : RecoverCheckpoint(o)
    BY <1>6
  <2>2. CASE AcceptCheckpoint(o)
    BY <2>2, AcceptWithin
  <2>3. CASE ~AcceptCheckpoint(o)
    BY <1>2, <2>1, <2>3 DEF RecoverCheckpoint
  <2> QED BY <2>2, <2>3
<1>7. \/ UNCHANGED <<captures, checkpoints>> \/ Complete \/ PutContinuityCapture \/ Accept
      \/ \E o \in Ops : RecoverCheckpoint(o)
  BY DEF Next, Daemon, CollectStep, WorkStep, PassStep, vars, Plan, Skip, Confirm, Collect,
     CollectRefused, CollectInterrupted, CollectDone, Manifest, RecoverCapture, RecoverDone,
     Capture, PublishObject, Captured, Verify, Succeed, AddReference, DropReference, EndPass,
     Crash, Restart, Tick
<1> QED BY <1>2, <1>3, <1>4, <1>5, <1>6, <1>7

\* What is kept and what is protected has room within the policy, as all of it
\* has been accepted.
LEMMA RoomFor ==
  ASSUME IInv, WithinPolicy, NEW K \in SUBSET Unprotected, NEW o \in Unprotected
  PROVE  Fits(o, K) <=> clock <= ckAt[o] + MaxAge
<1> DEFINE newer == {k \in K : ckAt[k] > ckAt[o]}
           A == Protected \cup newer
<1>1. /\ checkpoints \subseteq captures /\ captures \subseteq Ops /\ ckAt \in [Ops -> Nat]
      /\ checkpoints \subseteq Ops
  BY DEF IInv, TypeOK, MissingObjectIsCondemned
<1>2. Protected \subseteq checkpoints /\ Unprotected \subseteq checkpoints
      /\ Protected \cap Unprotected = {}
  BY DEF Protected, Unprotected
<1>3. o \notin newer /\ newer \subseteq Unprotected /\ o \in Ops
  BY <1>1, <1>2
<1>4. /\ Protected \cap newer = {} /\ o \notin A /\ A \cup {o} \subseteq checkpoints
      /\ Protected \in SUBSET Ops /\ newer \in SUBSET Ops /\ A \in SUBSET Ops
  BY <1>1, <1>2, <1>3
<1>5. IsFiniteSet(Protected) /\ IsFiniteSet(newer) /\ IsFiniteSet(checkpoints)
      /\ IsFiniteSet(A) /\ Cardinality(Protected) \in Nat /\ Cardinality(newer) \in Nat
      /\ Cardinality(A) \in Nat /\ Cardinality(checkpoints) \in Nat
  BY <1>1, <1>4, FS_Subset, FS_CardinalityType
<1> HIDE DEF newer
<1>6. Cardinality(Protected) + Cardinality(newer) < MaxPerBox
  <2>1. Cardinality(A) = Cardinality(Protected) + Cardinality(newer)
    <3>1. Cardinality(Protected \cap newer) = 0
      BY <1>4, FS_EmptySet
    <3>2. Cardinality(A) = Cardinality(Protected) + Cardinality(newer)
                             - Cardinality(Protected \cap newer)
      BY <1>5, FS_Union
    <3> QED BY <1>5, <3>1, <3>2
  <2> HIDE DEF A
  <2>2. Cardinality(A \cup {o}) = Cardinality(A) + 1
    BY <1>4, <1>5, FS_AddElement
  <2>3. Cardinality(A \cup {o}) <= Cardinality(checkpoints)
    BY <1>4, <1>5, FS_Subset
  <2> QED BY <1>5, <2>1, <2>2, <2>3 DEF WithinPolicy
<1>7. Bytes(Protected) + Bytes(newer) + Size[o] <= MaxBytes
  <2>1. Bytes(A) = Bytes(Protected) + Bytes(newer)
    BY <1>4, BytesUnion
  <2> HIDE DEF A
  <2>2. A \cup {o} \in SUBSET Ops /\ (A \cup {o}) \ {o} = A /\ A \cup {o} \in SUBSET captures
    BY <1>1, <1>3, <1>4
  <2>3. Bytes(A \cup {o}) = Size[o] + Bytes(A)
    BY <2>2, BytesRemove
  <2>4. Bytes(A \cup {o}) <= Bytes(captures)
    BY <1>1, <2>2, BytesMonotone
  <2>5. /\ Bytes(Protected) \in Nat /\ Bytes(newer) \in Nat /\ Size[o] \in Nat
        /\ Bytes(captures) \in Nat /\ Bytes(A) \in Nat
    BY <1>1, <1>3, <1>4, BytesType
  <2> QED BY <2>1, <2>3, <2>4, <2>5 DEF WithinPolicy
<1> QED BY <1>6, <1>7 DEF Fits, newer

\* The plan of a collection retires a checkpoint for its age only.
LEMMA AgeRetires ==
  ASSUME IInv, WithinPolicy
  PROVE  OnlyAgeRetires
<1> DEFINE Is(K) == \A o \in Unprotected : o \in K <=> Fits(o, K)
           Young == {o \in Unprotected : clock <= ckAt[o] + MaxAge}
<1>1. Young \in SUBSET Unprotected /\ Is(Young)
  BY RoomFor
<1>2. Kept = CHOOSE K \in SUBSET Unprotected : Is(K)
  BY DEF Kept
<1> HIDE DEF Is
<1>3. Kept \in SUBSET Unprotected /\ Is(Kept)
  BY <1>1, <1>2
<1> USE DEF Is
<1> SUFFICES ASSUME NEW o \in Unprotected \ Kept
             PROVE  ckAt[o] + MaxAge < clock
  BY DEF OnlyAgeRetires
<1>4. ~Fits(o, Kept)
  BY <1>3
<1>5. ~(clock <= ckAt[o] + MaxAge)
  BY <1>3, <1>4, RoomFor
<1>6. clock \in Nat /\ ckAt[o] \in Nat
  BY DEF IInv, TypeOK, Unprotected
<1> QED BY <1>5, <1>6

\* The capture bytes and the checkpoints of a sandbox stay within the policy, and
\* retention never has to make room: what it retires is too old. For every
\* set of operations, sizes, policy and bound.
THEOREM PolicyKept == Spec => []PolicyIsKept
<1>1. Init => WithinPolicy
  <2> SUFFICES ASSUME Init PROVE WithinPolicy
    OBVIOUS
  <2>1. Bytes({}) = 0 /\ Cardinality({}) = 0
    BY BytesType, FS_EmptySet
  <2> QED BY <2>1 DEF Init, WithinPolicy
<1>2. IInv /\ WithinPolicy /\ [Next]_vars => WithinPolicy'
  BY NextWithin
<1>3. IInv /\ WithinPolicy => PolicyIsKept
  BY AgeRetires DEF PolicyIsKept
<1> QED BY <1>1, <1>2, <1>3, Invariance, PTL DEF Spec
=============================================================================
