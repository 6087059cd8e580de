------------------------ MODULE CheckpointLifecycle ------------------------
(***************************************************************************)
(* The life of a durable capture in one sandbox: its object on disk, its   *)
(* capture row, its acceptance as a checkpoint and the Work pointer to it  *)
(* (internal/continuity/service.go, internal/state/store.go), and the      *)
(* collection that every daemon pass starts with                           *)
(* (internal/continuity/checkpoint_lifecycle.go,                           *)
(* internal/state/checkpoint_lifecycle.go, internal/storage/checkpoint.go).*)
(*                                                                         *)
(* A capture object is named by the digest of a manifest that contains its *)
(* operation and its creation time, so an operation, its capture and its   *)
(* checkpoint are identified with each other. How a capture freezes the    *)
(* container is the subject of ContinuityService.                          *)
(***************************************************************************)
EXTENDS Naturals, FiniteSets, FiniteSetsExt

CONSTANTS
    Ops,        \* capture_checkpoint operations
    Works,      \* Works of the sandbox
    WorkOf,     \* the Work an operation captures
    Size,       \* bytes of the operation's capture
    None,       \* no operation
    MaxBytes,   \* policy: capture bytes of the sandbox
    MaxPerBox,  \* policy: accepted checkpoints of the sandbox
    MaxAge,     \* policy: age at which an unprotected checkpoint is collected
    Grace,      \* delay between planning a collection and confirming it
    Limit,      \* collection intents outstanding at one time
    MaxTime,    \* bound: time that passes between passes
    MaxFaults   \* bound: crashes, lost writes, failed calls

ASSUME OpsAssumption == IsFiniteSet(Ops) /\ None \notin Ops
ASSUME WorkAssumption == WorkOf \in [Ops -> Works] /\ Size \in [Ops -> Nat]
ASSUME PolicyAssumption ==
    /\ MaxBytes \in Nat /\ MaxPerBox \in Nat /\ MaxAge \in Nat
    /\ Grace \in Nat /\ Limit \in Nat /\ MaxTime \in Nat /\ MaxFaults \in Nat

VARIABLES
    clock,       \* wall clock
    capOp,       \* durable: state of the capture operation
    ckOp,        \* durable: state of the checkpoint operation
    disk,        \* the object directory below checkpoints/
    captures,    \* durable: rows of continuity_captures
    capAt,       \* durable: their created_at
    checkpoints, \* durable: rows of checkpoints
    ckAt,        \* durable: their created_at
    pointer,     \* durable: work_checkpoint_pointers
    intent,      \* durable: phase of the collection intent ("none": no row)
    orphan,      \* durable: intents without a checkpoint_id
    notBefore,   \* durable: not_before of the intent
    tombs,       \* durable: checkpoint_gc_tombstones
    refs,        \* durable: checkpoints a live continuation, restore or handoff names
    pc,          \* the daemon: where its pass goroutine is
    cur,         \* local: the operation it works on
    todo,        \* local: intents, then interrupted operations, still to visit
    failing,     \* local: Recover collected an error
    faults

opVars  == <<capOp, ckOp>>
rowVars == <<captures, capAt, checkpoints, ckAt, pointer>>
gcVars  == <<intent, orphan, notBefore, tombs>>
locals  == <<cur, todo, failing>>
vars == <<clock, opVars, disk, rowVars, gcVars, refs, pc, locals, faults>>

\* An object directory is missing, complete, or left by an interrupted removal:
\* "torn" (manifest.json there, blobs missing), "rubble" (blobs there, manifest
\* missing) or "empty".
DiskStates == {"none", "whole", "torn", "rubble", "empty"}
Phases == {"down", "plan", "collect", "unlink", "complete", "manifest", "recover",
           "work", "publish", "row", "settle", "verify", "accept", "succeed"}

TypeOK ==
    /\ clock \in Nat
    /\ capOp \in [Ops -> {"none", "capturing", "captured", "failed"}]
    /\ ckOp \in [Ops -> {"none", "pending", "verifying", "succeeded", "failed"}]
    /\ disk \in [Ops -> DiskStates]
    /\ captures \subseteq Ops /\ capAt \in [Ops -> Nat]
    /\ checkpoints \subseteq Ops /\ ckAt \in [Ops -> Nat]
    /\ pointer \in [Works -> Ops \cup {None}]
    /\ intent \in [Ops -> {"none", "planned", "deleting"}]
    /\ orphan \subseteq Ops /\ notBefore \in [Ops -> Nat]
    /\ tombs \subseteq Ops
    /\ refs \subseteq Ops
    /\ pc \in Phases
    /\ cur \in Ops /\ todo \subseteq Ops /\ failing \in BOOLEAN
    /\ faults \in Nat

Init ==
    /\ clock = 0
    /\ capOp = [o \in Ops |-> "none"] /\ ckOp = [o \in Ops |-> "none"]
    /\ disk = [o \in Ops |-> "none"]
    /\ captures = {} /\ capAt = [o \in Ops |-> 0]
    /\ checkpoints = {} /\ ckAt = [o \in Ops |-> 0]
    /\ pointer = [w \in Works |-> None]
    /\ intent = [o \in Ops |-> "none"] /\ orphan = {}
    /\ notBefore = [o \in Ops |-> 0] /\ tombs = {}
    /\ refs = {}
    /\ pc = "plan"
    /\ cur \in Ops /\ todo = {} /\ failing = FALSE
    /\ faults = 0

Fault == faults < MaxFaults /\ faults' = faults + 1

(* Definitions named Bad... are seeded faults, used by no action: each stands   *)
(* in for the definition after it to show that a property would notice.        *)

Bytes(S) == MapThenSumSet(LAMBDA o : Size[o], S)

-----------------------------------------------------------------------------
(* Roots.                                                                  *)

\* The live references are forgotten.
BadcheckpointIsRooted(o) == \E w \in Works : pointer[w] = o

\* A pointer or a live reference protects a checkpoint. (Pins are never set, and
\* an operation row carries its checkpoint only once it has succeeded.)
checkpointIsRooted(o) == o \in refs \/ \E w \in Works : pointer[w] = o

\* An unfinished operation that names the capture protects it. The row of a
\* capture operation names it only from "captured" on.
captureIsRooted(o) == capOp[o] = "captured" \/ ckOp[o] = "verifying"

-----------------------------------------------------------------------------
(* Collection: CheckpointLifecycle.Run.                                    *)

Unprotected == {o \in checkpoints : ~checkpointIsRooted(o)}
Protected == checkpoints \ Unprotected

\* The count limit is off by one.
BadFits(o, K) ==
    LET newer == {k \in K : ckAt[k] > ckAt[o]}
    IN  /\ Cardinality(Protected) + Cardinality(newer) + 1 < MaxPerBox
        /\ Bytes(Protected) + Bytes(newer) + Size[o] <= MaxBytes
        /\ clock <= ckAt[o] + MaxAge

\* Retention keeps the newest unprotected checkpoints that fit beside the
\* protected ones and are young enough: newest first, each kept one consumes
\* its share of the count and the bytes.
Fits(o, K) ==
    LET newer == {k \in K : ckAt[k] > ckAt[o]}
    IN  /\ Cardinality(Protected) + Cardinality(newer) < MaxPerBox
        /\ Bytes(Protected) + Bytes(newer) + Size[o] <= MaxBytes
        /\ clock <= ckAt[o] + MaxAge

Kept == CHOOSE K \in SUBSET Unprotected : \A o \in Unprotected : o \in K <=> Fits(o, K)

\* Captures nothing accepted and nothing unfinished names, older than Grace.
Orphans == {o \in captures \ checkpoints : ~captureIsRooted(o) /\ capAt[o] + Grace <= clock}

Victims == {o \in (Unprotected \ Kept) \cup Orphans : intent[o] = "none"}

Room == LET n == Cardinality({o \in Ops : intent[o] # "none"})
        IN  IF n < Limit THEN Limit - n ELSE 0

\* Only planned intents are returned: an interrupted deletion is not resumed.
BadPlan ==
    /\ pc = "plan"
    /\ \E P \in SUBSET Victims :
          /\ Cardinality(P) = Min({Cardinality(Victims), Room})
          /\ intent' = [o \in Ops |-> IF o \in P THEN "planned" ELSE intent[o]]
          /\ orphan' = orphan \cup (P \ checkpoints)
          /\ notBefore' = [o \in Ops |-> IF o \in P THEN clock + Grace ELSE notBefore[o]]
    /\ todo' = {o \in Ops : intent'[o] = "planned"}
    /\ pc' = "collect"
    /\ UNCHANGED <<clock, opVars, disk, rowVars, tombs, refs, cur, failing, faults>>

\* PlanCheckpointCollection: one transaction, at most Limit intents outstanding.
Plan ==
    /\ pc = "plan"
    /\ \E P \in SUBSET Victims :
          /\ Cardinality(P) = Min({Cardinality(Victims), Room})
          /\ intent' = [o \in Ops |-> IF o \in P THEN "planned" ELSE intent[o]]
          /\ orphan' = orphan \cup (P \ checkpoints)
          /\ notBefore' = [o \in Ops |-> IF o \in P THEN clock + Grace ELSE notBefore[o]]
    /\ todo' = {o \in Ops : intent'[o] # "none"}
    /\ pc' = "collect"
    /\ UNCHANGED <<clock, opVars, disk, rowVars, tombs, refs, cur, failing, faults>>

\* The oldest intent is next.
First(o) == o \in todo /\ \A p \in todo : notBefore[o] <= notBefore[p]

Skip(o) ==
    /\ pc = "collect" /\ First(o) /\ clock < notBefore[o]
    /\ todo' = todo \ {o}
    /\ UNCHANGED <<clock, opVars, disk, rowVars, gcVars, refs, pc, cur, failing, faults>>

IntentIsRooted(o) == IF o \in orphan THEN captureIsRooted(o) ELSE checkpointIsRooted(o)

\* ConfirmCheckpointCollection: the roots are checked again in the transaction
\* that makes the deletion durable; a rooted intent is dropped.
Confirm(o) ==
    /\ pc = "collect" /\ First(o) /\ notBefore[o] <= clock
    /\ IF intent[o] = "planned" /\ IntentIsRooted(o)
       THEN /\ intent' = [intent EXCEPT ![o] = "none"] /\ orphan' = orphan \ {o}
            /\ todo' = todo \ {o} /\ UNCHANGED <<pc, cur>>
       ELSE /\ intent' = [intent EXCEPT ![o] = "deleting"] /\ UNCHANGED orphan
            /\ cur' = o /\ pc' = "unlink" /\ UNCHANGED todo
    /\ UNCHANGED <<clock, opVars, disk, rowVars, notBefore, tombs, refs, failing, faults>>

\* CheckpointStore.Collect: a verified object is removed, file by file; an empty
\* directory is removed; a missing object or a missing manifest counts as
\* unavailable, which the caller takes for collected.
Collect ==
    /\ pc = "unlink" /\ disk[cur] # "torn"
    /\ disk' = IF disk[cur] = "rubble" THEN disk ELSE [disk EXCEPT ![cur] = "none"]
    /\ pc' = "complete"
    /\ UNCHANGED <<clock, opVars, rowVars, gcVars, refs, locals, faults>>

\* An object that does not verify is taken for collected.
BadCollectRefused ==
    /\ pc = "unlink" /\ disk[cur] = "torn"
    /\ pc' = "complete"
    /\ UNCHANGED <<clock, opVars, disk, rowVars, gcVars, refs, locals, faults>>

\* An object that does not verify is refused: the pass ends with an error.
CollectRefused ==
    /\ pc = "unlink" /\ disk[cur] = "torn"
    /\ pc' = "plan"
    /\ UNCHANGED <<clock, opVars, disk, rowVars, gcVars, refs, locals, faults>>

\* The removal of a verified object stops half way, by an expired context or a
\* failing call (the pass ends) or by a crash. Files go in directory order.
CollectInterrupted ==
    /\ pc = "unlink" /\ disk[cur] = "whole" /\ Fault
    /\ \E d \in {"torn", "rubble", "empty"} : disk' = [disk EXCEPT ![cur] = d]
    /\ pc' \in {"plan", "down"}
    /\ UNCHANGED <<clock, opVars, rowVars, gcVars, refs, locals>>

\* CompleteCheckpointCollection: rows out, tombstone in, intent gone.
Complete ==
    /\ pc = "complete"
    /\ checkpoints' = IF cur \in orphan THEN checkpoints ELSE checkpoints \ {cur}
    /\ captures' = captures \ {cur}
    /\ tombs' = tombs \cup {cur}
    /\ intent' = [intent EXCEPT ![cur] = "none"] /\ orphan' = orphan \ {cur}
    /\ todo' = todo \ {cur}
    /\ pc' = "collect"
    /\ UNCHANGED <<clock, opVars, disk, capAt, ckAt, pointer, notBefore, refs, cur,
                   failing, faults>>

CollectDone ==
    /\ pc = "collect" /\ todo = {}
    /\ pc' = "manifest"
    /\ UNCHANGED <<clock, opVars, disk, rowVars, gcVars, refs, locals, faults>>

-----------------------------------------------------------------------------
(* The rest of the pass.                                                   *)

\* Without a manifest from the control plane the pass ends before recovery.
Manifest ==
    /\ pc = "manifest"
    /\ \/ /\ pc' = "recover" /\ UNCHANGED faults
          /\ todo' = {o \in Ops : capOp[o] = "capturing" \/ ckOp[o] = "verifying"}
          /\ failing' = FALSE
       \/ pc' = "plan" /\ Fault /\ UNCHANGED <<todo, failing>>
    /\ UNCHANGED <<clock, opVars, disk, rowVars, gcVars, refs, cur>>

\* AcceptCheckpoint's guard against collected and condemned captures, and its
\* match with the capture row.
Acceptable(o) == o \in captures /\ o \notin tombs /\ intent[o] # "deleting"

\* Its quota, which an exact replay does not consume again.
Affordable(o) ==
    o \in checkpoints \/ /\ Bytes(checkpoints) + Size[o] <= MaxBytes
                         /\ Cardinality(checkpoints) < MaxPerBox

\* Its transaction: the checkpoint and the Work pointer together.
AcceptCheckpoint(o) ==
    /\ Acceptable(o) /\ Affordable(o)
    /\ pointer' = [pointer EXCEPT ![WorkOf[o]] = o]
    /\ IF o \in checkpoints THEN UNCHANGED <<checkpoints, ckAt, clock>>
       ELSE /\ checkpoints' = checkpoints \cup {o}
            /\ ckAt' = [ckAt EXCEPT ![o] = clock]
            /\ clock' = clock + 1
    /\ UNCHANGED <<captures, capAt>>

Refused(o) == ~(disk[o] = "whole" /\ Acceptable(o) /\ Affordable(o))

\* The row of an operation is settled, or the write is lost.
SettleCap(o, s) ==
    \/ capOp' = [capOp EXCEPT ![o] = s] /\ UNCHANGED <<ckOp, faults>>
    \/ Fault /\ UNCHANGED opVars
SettleCk(o, s) ==
    \/ ckOp' = [ckOp EXCEPT ![o] = s] /\ UNCHANGED <<capOp, faults>>
    \/ Fault /\ UNCHANGED opVars

\* Recover: an interrupted capture fails.
RecoverCapture(o) ==
    /\ pc = "recover" /\ o \in todo /\ capOp[o] = "capturing"
    /\ SettleCap(o, "failed")
    /\ failing' = (failing \/ faults' # faults)
    /\ todo' = todo \ {o}
    /\ UNCHANGED <<clock, disk, rowVars, gcVars, refs, pc, cur>>

\* recoverCheckpoint: an interrupted checkpoint is verified and accepted again.
RecoverCheckpoint(o) ==
    /\ pc = "recover" /\ o \in todo /\ ckOp[o] = "verifying"
    /\ \/ /\ disk[o] = "whole" /\ AcceptCheckpoint(o) /\ SettleCk(o, "succeeded")
          /\ failing' = (failing \/ faults' # faults)
       \/ /\ Refused(o) /\ UNCHANGED <<clock, rowVars>> /\ SettleCk(o, "failed")
          /\ failing' = TRUE
    /\ todo' = todo \ {o}
    /\ UNCHANGED <<disk, gcVars, refs, pc, cur>>

RecoverDone ==
    /\ pc = "recover" /\ todo = {}
    /\ pc' = IF failing THEN "plan" ELSE "work"
    /\ UNCHANGED <<clock, opVars, disk, rowVars, gcVars, refs, locals, faults>>

-----------------------------------------------------------------------------
(* applyOperation: Capture, then Checkpoint. An operation runs once.       *)

\* The capture starts, or fails at once when no byte of the budget is left.
Capture(o) ==
    /\ pc = "work" /\ capOp[o] = "none"
    /\ IF Bytes(captures) < MaxBytes
       THEN capOp' = [capOp EXCEPT ![o] = "capturing"] /\ pc' = "publish"
       ELSE capOp' = [capOp EXCEPT ![o] = "failed"] /\ UNCHANGED pc
    /\ cur' = o
    /\ UNCHANGED <<clock, ckOp, disk, rowVars, gcVars, refs, todo, failing, faults>>

\* The object is renamed into place, unless it exceeds the remaining budget.
PublishObject ==
    /\ pc = "publish"
    /\ IF Bytes(captures) + Size[cur] <= MaxBytes
       THEN /\ disk' = [disk EXCEPT ![cur] = "whole"] /\ pc' = "row"
            /\ UNCHANGED <<opVars, faults>>
       ELSE SettleCap(cur, "failed") /\ pc' = "work" /\ UNCHANGED disk
    /\ UNCHANGED <<clock, rowVars, gcVars, refs, locals>>

\* PutContinuityCapture; a write that fails ends the operation.
PutContinuityCapture ==
    /\ pc = "row"
    /\ \/ /\ cur \notin tombs /\ Bytes(captures) + Size[cur] <= MaxBytes
          /\ captures' = captures \cup {cur} /\ capAt' = [capAt EXCEPT ![cur] = clock]
          /\ pc' = "settle" /\ UNCHANGED <<opVars, faults>>
       \/ /\ Fault /\ UNCHANGED <<captures, capAt>> /\ pc' = "work"
          /\ \/ capOp' = [capOp EXCEPT ![cur] = "failed"] /\ UNCHANGED ckOp
             \/ UNCHANGED opVars
    /\ UNCHANGED <<clock, disk, checkpoints, ckAt, pointer, gcVars, refs, locals>>

Captured ==
    /\ pc = "settle"
    /\ SettleCap(cur, "captured")
    /\ pc' = IF capOp'[cur] = "captured" THEN "verify" ELSE "work"
    /\ UNCHANGED <<clock, disk, rowVars, gcVars, refs, locals>>

\* Checkpoint: the row is inserted pending, then moved to verifying.
Verify ==
    /\ pc = "verify"
    /\ \/ /\ ckOp' = [ckOp EXCEPT ![cur] = "verifying"] /\ pc' = "accept"
          /\ UNCHANGED <<capOp, faults>>
       \/ /\ Fault /\ pc' = "work" /\ UNCHANGED capOp
          /\ ckOp' \in {ckOp, [ckOp EXCEPT ![cur] = "pending"]}
    /\ UNCHANGED <<clock, disk, rowVars, gcVars, refs, locals>>

Accept ==
    /\ pc = "accept"
    /\ \/ /\ disk[cur] = "whole" /\ AcceptCheckpoint(cur)
          /\ pc' = "succeed" /\ UNCHANGED <<opVars, faults>>
       \/ /\ Refused(cur) /\ UNCHANGED <<clock, rowVars>>
          /\ SettleCk(cur, "failed") /\ pc' = "work"
    /\ UNCHANGED <<disk, gcVars, refs, locals>>

Succeed ==
    /\ pc = "succeed"
    /\ SettleCk(cur, "succeeded")
    /\ pc' = "work"
    /\ UNCHANGED <<clock, disk, rowVars, gcVars, refs, locals>>

\* The S2 controller admits a continuation, restore or handoff of a Work's
\* accepted checkpoint (validateRetainedCheckpoint), and ends it.
AddReference(o) ==
    /\ pc = "work" /\ o \notin refs
    /\ pointer[WorkOf[o]] = o /\ disk[o] = "whole" /\ ckOp[o] = "succeeded"
    /\ intent[o] # "deleting"
    /\ refs' = refs \cup {o}
    /\ UNCHANGED <<clock, opVars, disk, rowVars, gcVars, pc, locals, faults>>

DropReference(o) ==
    /\ pc = "work" /\ o \in refs
    /\ refs' = refs \ {o}
    /\ UNCHANGED <<clock, opVars, disk, rowVars, gcVars, pc, locals, faults>>

EndPass ==
    /\ pc = "work"
    /\ pc' = "plan"
    /\ UNCHANGED <<clock, opVars, disk, rowVars, gcVars, refs, locals, faults>>

-----------------------------------------------------------------------------
Crash ==
    /\ pc # "down" /\ Fault
    /\ pc' = "down"
    /\ UNCHANGED <<clock, opVars, disk, rowVars, gcVars, refs, locals>>

Restart ==
    /\ pc = "down"
    /\ pc' = "plan"
    /\ UNCHANGED <<clock, opVars, disk, rowVars, gcVars, refs, locals, faults>>

\* Time passes between passes; within one it is negligible beside Grace.
Tick ==
    /\ pc \in {"plan", "down"} /\ clock < MaxTime
    /\ clock' = clock + 1
    /\ UNCHANGED <<opVars, disk, rowVars, gcVars, refs, pc, locals, faults>>

CollectStep ==
    \/ Plan \/ Collect \/ CollectRefused \/ Complete \/ CollectDone
    \/ \E o \in Ops : Skip(o) \/ Confirm(o)

WorkStep ==
    \/ \E o \in Ops : Capture(o) \/ AddReference(o) \/ DropReference(o)
    \/ PublishObject \/ PutContinuityCapture \/ Captured \/ Verify \/ Accept \/ Succeed

PassStep ==
    \/ Manifest \/ RecoverDone \/ EndPass \/ Restart
    \/ \E o \in Ops : RecoverCapture(o) \/ RecoverCheckpoint(o)

Daemon == CollectStep \/ WorkStep \/ PassStep

Next == Daemon \/ CollectInterrupted \/ Crash \/ Tick

Spec == Init /\ [][Next]_vars

\* The pass loop does not stop, a manifest is a finite list of work, and systemd
\* restarts the daemon.
FairSpec == Spec /\ WF_vars(Daemon) /\ WF_vars(EndPass)

-----------------------------------------------------------------------------
(* Correctness.                                                            *)

\* The checkpoint a Work points at can be read: its rows and its whole object
\* are there, whatever was collected, interrupted or refused since
\* (AcceptCheckpoint, checkpointIsRooted, ConfirmCheckpointCollection).
PointerReadable ==
    \A w \in Works : pointer[w] # None =>
        /\ pointer[w] \in checkpoints \cap captures
        /\ disk[pointer[w]] = "whole"

\* So can a checkpoint that a live continuation, restore or handoff names, even
\* after the Work pointer has moved on (checkpointIsRooted).
ReferenceReadable ==
    \A o \in refs : o \in checkpoints \cap captures /\ disk[o] = "whole"

\* A capture row without its whole object is one that is durably being deleted:
\* no crash leaves a row that promises bytes that are gone, and a checkpoint row
\* never outlives its capture row.
MissingObjectIsCondemned ==
    /\ checkpoints \subseteq captures
    /\ \A o \in captures : disk[o] # "whole" => intent[o] = "deleting"

\* Capacity comes back only for an object that can no longer be read: a
\* tombstoned capture has no row and no manifest (CompleteCheckpointCollection
\* follows Collect), and no replay brings it back.
TombstoneIsFinal ==
    \A o \in tombs : o \notin captures /\ disk[o] \in {"none", "rubble"}

\* Collection never takes what is still needed nor leaves a promise behind it:
\* roots are readable, rows have their objects, tombstones are final
\* (ConfirmCheckpointCollection, Collect, CompleteCheckpointCollection).
CollectionIsSafe ==
    PointerReadable /\ ReferenceReadable /\ MissingObjectIsCondemned /\ TombstoneIsFinal

\* The policy bounds what the sandbox is charged for, across concurrent
\* collection, replayed acceptance and interrupted captures.
WithinPolicy == Bytes(captures) <= MaxBytes /\ Cardinality(checkpoints) <= MaxPerBox

\* Retention only ever retires a checkpoint for its age: acceptance refuses what
\* the count and byte limits of PlanCheckpointCollection would have to make room
\* for, so a box full of recent checkpoints stays full.
OnlyAgeRetires == \A o \in Unprotected \ Kept : ckAt[o] + MaxAge < clock

\* Acceptance and collection read the policy the same way at its limits.
PolicyIsKept == WithinPolicy /\ OnlyAgeRetires

\* A durable deletion is carried through across crashes, unless an object was
\* torn by an interrupted removal.
DeletionResumes ==
    \A o \in Ops : intent[o] = "deleting" ~> (o \in tombs \/ \E p \in Ops : disk[p] = "torn")
=============================================================================
