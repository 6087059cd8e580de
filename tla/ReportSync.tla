----------------------------- MODULE ReportSync -----------------------------
(***************************************************************************)
(* internal/reconcile/report_sync.go: how one pass of the daemon delivers  *)
(* its report to the control plane, with retries, a sequence number and a  *)
(* persisted block. The body of a report is abstracted away. Time is       *)
(* counted in units of the first backoff delay.                            *)
(***************************************************************************)
EXTENDS Naturals, FiniteSets, FiniteSetsExt

CONSTANTS
    MaxAttempts,  \* attempts of one Send
    MaxRebuilds,  \* fresh-manifest rebuilds of one Send
    MaxDelay,     \* cap of the exponential backoff
    MaxWindow,    \* Send starts no attempt later than this
    Deadlines,    \* what the context passed to Send may have left
    PostTimes,    \* how long a POST may take
    MaxRev,       \* bound: desired revisions
    MaxGen,       \* bound: resync generations
    MaxSeq,       \* bound: sequence number from which Send posts no more
    MaxFaults     \* bound: crashes, failed writes, failed manifest reads

ASSUME LimitsAssumption ==
    /\ MaxAttempts \in Nat \ {0} /\ MaxRebuilds \in Nat /\ MaxDelay \in Nat
    /\ MaxWindow \in Nat /\ Deadlines \subseteq Nat /\ PostTimes \subseteq Nat
\* The exponential delays are numbers.
ASSUME DelayAssumption == \A k \in 0..MaxAttempts : 2 ^ k \in Nat
ASSUME BoundsAssumption ==
    MaxRev \in Nat \ {0} /\ MaxGen \in Nat /\ MaxSeq \in Nat /\ MaxFaults \in Nat

VARIABLES
    desired,    \* control plane: desired revision
    resync,     \* control plane: resync generation
    stored,     \* durable: report_sync_state
    pc, seq, attempt, rebuilds,
    code,       \* local: lastCode
    observed,   \* local: observedDesired
    gen,        \* local: BlockedResyncGeneration of the copy of the state
    elapsed,    \* local: time since Send began
    deadline,   \* local: when the context of this Send ends
    faults

cpVars == <<desired, resync>>
locals == <<seq, attempt, rebuilds, code, observed, gen, elapsed, deadline>>
vars == <<cpVars, stored, pc, locals, faults>>

Codes == {"none", "conflict", "report_retry_exhausted"}

TypeOK ==
    /\ desired \in Nat /\ resync \in Nat
    /\ stored \in [seq : Nat, code : Codes, rev : Nat, gen : Nat]
    /\ pc \in {"down", "idle", "loop", "conflict", "backoff", "ack", "exhausted"}
    /\ seq \in Nat /\ attempt \in 0..MaxAttempts /\ rebuilds \in 0..MaxRebuilds
    /\ code \in {"none", "conflict"} /\ observed \in Nat /\ gen \in Nat
    /\ elapsed \in Nat /\ deadline \in Nat /\ faults \in Nat

Init ==
    /\ desired = 1 /\ resync = 0
    /\ stored = [seq |-> 0, code |-> "none", rev |-> 0, gen |-> 0]
    /\ pc = "idle" /\ seq = 0 /\ attempt = 0 /\ rebuilds = 0
    /\ code = "none" /\ observed = 0 /\ gen = 0 /\ elapsed = 0 /\ deadline = 0
    /\ faults = 0

Fault == faults < MaxFaults /\ faults' = faults + 1

(* Definitions named Bad... are seeded faults, used by no action: each stands   *)
(* in for the definition after it to show that a property would notice.        *)

Started ==
    /\ seq' = stored.seq /\ attempt' = 0 /\ rebuilds' = 0 /\ code' = "none"
    /\ observed' = 0 /\ elapsed' = 0
    /\ IF stored.seq < MaxSeq THEN pc' = "loop" /\ deadline' \in Deadlines
                              ELSE pc' = "idle" /\ deadline' = 0

\* Send is over, by a return or a crash: its locals are gone.
Forgotten ==
    /\ seq' = 0 /\ attempt' = 0 /\ rebuilds' = 0 /\ code' = "none"
    /\ observed' = 0 /\ gen' = 0 /\ elapsed' = 0 /\ deadline' = 0

\* The block survives the revision after the one it was recorded for.
BadStillBlocked == desired <= stored.rev + 1

StillBlocked == desired <= stored.rev

\* Send loads the state. A block is lifted by a newer desired revision only;
\* under it Send returns without a POST.
Send ==
    /\ pc = "idle"
    /\ \/ stored.code = "none" /\ Started /\ gen' = stored.gen /\ UNCHANGED <<stored, faults>>
       \/ /\ stored.code # "none" /\ ~StillBlocked
          /\ Started /\ gen' = 0
          /\ stored' = [seq |-> stored.seq, code |-> "none", rev |-> 0, gen |-> 0]
          /\ UNCHANGED faults
       \/ stored.code # "none" /\ StillBlocked /\ UNCHANGED <<stored, pc, locals, faults>>
       \/ stored.code # "none" /\ Fault /\ UNCHANGED <<stored, pc, locals>>
    /\ UNCHANGED cpVars

MayPost == attempt < MaxAttempts /\ elapsed <= MaxWindow

\* One attempt, under the next sequence number. The control plane accepts the
\* report, rejects it with a typed 409, or the answer is an error, as it is when
\* the context ends; an error may hide an acceptance.
Post ==
    /\ pc = "loop" /\ MayPost
    /\ seq' = seq + 1 /\ attempt' = attempt + 1
    /\ \E d \in PostTimes : elapsed' = Min({elapsed + d, deadline})
    /\ \/ elapsed' < deadline /\ pc' = "ack" /\ UNCHANGED code
       \/ elapsed' < deadline /\ pc' = "conflict" /\ code' = "conflict"
       \/ pc' = "backoff" /\ code' = "none"
    /\ UNCHANGED <<cpVars, stored, rebuilds, observed, gen, deadline, faults>>

\* The acceptance is persisted, or the write fails.
Ack ==
    /\ pc = "ack"
    /\ \/ stored' = [seq |-> seq, code |-> "none", rev |-> 0, gen |-> 0] /\ UNCHANGED faults
       \/ Fault /\ UNCHANGED stored
    /\ pc' = "idle"
    /\ Forgotten /\ UNCHANGED cpVars

\* After a 409 the manifest is read again, and the report is rebuilt from it
\* while rebuilds are left; a newer resync generation restores the attempts
\* of a report that was not rebuilt.
Conflict ==
    /\ pc = "conflict"
    /\ \/ Fault /\ UNCHANGED <<observed, rebuilds, gen, attempt>>
       \/ /\ observed' = desired /\ UNCHANGED faults
          /\ rebuilds' = Min({rebuilds + 1, MaxRebuilds})
          /\ \/ rebuilds < MaxRebuilds /\ UNCHANGED <<gen, attempt>>
             \/ IF resync > gen THEN gen' = resync /\ attempt' = 0
                                ELSE UNCHANGED <<gen, attempt>>
    /\ pc' = "backoff"
    /\ UNCHANGED <<cpVars, stored, seq, code, elapsed, deadline>>

Delay == LET k == IF attempt < 1 THEN 0 ELSE attempt - 1
             remaining == IF elapsed < MaxWindow THEN MaxWindow - elapsed ELSE 0
         IN  Min({2 ^ k, MaxDelay, remaining})

\* Past the window nothing is slept, and the context is not looked at.
Awakes == elapsed >= MaxWindow \/ elapsed + Delay < deadline

\* The sleep ends, or the context does: then Send returns its error at once.
Backoff ==
    /\ pc = "backoff"
    /\ \/ /\ Awakes
          /\ pc' = "loop" /\ elapsed' = elapsed + Delay
          /\ UNCHANGED <<seq, attempt, rebuilds, code, observed, gen, deadline>>
       \/ ~Awakes /\ pc' = "idle" /\ Forgotten
    /\ UNCHANGED <<cpVars, stored, faults>>

\* The attempts or the window are used up: the block is persisted, unless the
\* context is over too.
Exhausted ==
    /\ pc = "loop" /\ ~MayPost
    /\ \/ /\ elapsed < deadline
          /\ stored' = [seq |-> seq, rev |-> observed, gen |-> gen,
                        code |-> IF code = "none" THEN "report_retry_exhausted" ELSE code]
          /\ UNCHANGED faults
       \/ elapsed < deadline /\ Fault /\ UNCHANGED stored
       \/ elapsed >= deadline /\ UNCHANGED <<stored, faults>>
    /\ pc' = "idle"
    /\ Forgotten /\ UNCHANGED cpVars

-----------------------------------------------------------------------------
Crash ==
    /\ pc # "down" /\ Fault
    /\ pc' = "down"
    /\ Forgotten /\ UNCHANGED <<cpVars, stored>>

Restart ==
    /\ pc = "down"
    /\ pc' = "idle"
    /\ UNCHANGED <<cpVars, stored, locals, faults>>

\* The owner changes the desired state, or an operator forces a resync.
Advance ==
    /\ desired < MaxRev
    /\ desired' = desired + 1
    /\ UNCHANGED <<resync, stored, pc, locals, faults>>

Resync ==
    /\ resync < MaxGen
    /\ resync' = resync + 1
    /\ UNCHANGED <<desired, stored, pc, locals, faults>>

Daemon == Send \/ Post \/ Ack \/ Conflict \/ Backoff \/ Exhausted \/ Restart

Next == Daemon \/ Crash \/ Advance \/ Resync

Spec == Init /\ [][Next]_vars

\* The pass loop does not stop and systemd restarts the daemon.
FairSpec == Spec /\ WF_vars(Daemon)

-----------------------------------------------------------------------------
(* Correctness.                                                            *)

\* A block never names a desired revision the control plane has not reached, so
\* the next change of the desired state always lifts it
\* (report_sync.go:163-177, 250-260).
BlockNotAhead == stored.code # "none" => stored.rev <= desired

\* A block is lifted after the next change of the desired revision, whatever
\* revision Send recorded with it (report_sync.go:163-177, 250-260; :35-36 "a newer
\* manifest desired revision (owner redrive/operator resync) clears it automatically").
BlockLifts ==
    \A r \in 1..MaxRev - 1 :
        (stored.code # "none" /\ desired = r) ~> (stored.code = "none" \/ [](desired = r))
=============================================================================
