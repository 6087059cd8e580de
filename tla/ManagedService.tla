--------------------------- MODULE ManagedService ---------------------------
(***************************************************************************)
(* The managed-service producer of internal/reconcile (managed_service.go, *)
(* managed_monitor.go, source_observation.go) for one service on one       *)
(* sandbox, with the rows of internal/state.  A pass resolves and persists *)
(* the intent, enrols, binds, reads the monitor policy, marks the creation *)
(* as dispatched, starts the native process and publishes its source; the  *)
(* worker one-shot runs in a goroutine of its own; the collector applies   *)
(* the monitor policy under the mutex of the pass.  The supervisor and the *)
(* worker inside the sandbox are external.                                 *)
(*                                                                         *)
(* Definitions named Bad... are seeded faults, used by no action: each     *)
(* stands in for the definition after it to show a property would notice.  *)
(***************************************************************************)
EXTENDS Naturals

CONSTANTS None,       \* no row, no session
          MaxRev,     \* bound: desired revisions of a generation
          MaxGen,     \* bound: generations of the service
          MaxPolicy,  \* bound: revisions of the monitor policy
          MaxTasks,   \* bound: broker tasks
          MaxFaults   \* bound: crashes, failed calls and lost answers

ASSUME BoundsAssumption == /\ MaxRev \in Nat /\ MaxGen \in Nat \ {0} /\ MaxPolicy \in Nat
                           /\ MaxTasks \in Nat /\ MaxFaults \in Nat

Gens == 1..MaxGen
States == {"active", "paused", "stopped", "retired"}
Phases == {"pending", "starting", "recovery_required", "failed", "ready", "paused", "stopped", "retired"}
Modes == {"create_initial", "lookup_only"}

Sessions == [gen : Gens, n : Nat]
Wants == [st : States, rev : Nat, des : Nat, gen : Gens]
Policies == [rev : Nat, on : BOOLEAN]
Rows == [st : States, rev : Nat, des : Nat, gen : Gens, phase : Phases,
         dispatched : BOOLEAN, odes : Nat, nat : Sessions \union {None}]
Sources == [gen : Gens, sess : Sessions, life : {"running", "stopped"}, lrev : Nat,
            avail : BOOLEAN, idle : BOOLEAN]
Natives == [up : BOOLEAN, sess : Sessions \union {None}, mon : BOOLEAN]
Works == [st : {"none", "run", "done"}, rev : Nat, did : BOOLEAN, idle : BOOLEAN, asked : BOOLEAN]
Pins == Sources \union Sessions \union {None}
Jobs == [w : Wants \union Policies \union {None}, mode : Modes \union {None}, mon : BOOLEAN, pin : Pins,
         sess : Sessions \union {None}, idle : BOOLEAN, nat : Sessions \union {None}, transient : BOOLEAN]

ASSUME NoneAssumption == None \notin Rows /\ None \notin Sources /\ None \notin Sessions

VARIABLES want,    \* the manifest entry: state, action and desired revision, generation
          policy,  \* the control plane's monitor policy: revision, enabled
          row,     \* managed_services
          src,     \* continuity_sources
          applied, \* insight_policy_state
          native,  \* the supervisor: process up, saved session, monitoring
          made,    \* sessions made in each generation
          work,    \* the worker execution of managedExecutions
          task,    \* a broker task is being executed in the sandbox
          tasks,   \* broker tasks so far
          pc, job, \* position and locals of the pass
          faults

store == <<row, src, applied>>
sandbox == <<native, made, task, tasks>>
vars == <<want, policy, store, sandbox, work, pc, job, faults>>

Terminal == {"stopped", "retired"}
NoWork == [st |-> "none", rev |-> 0, did |-> FALSE, idle |-> FALSE, asked |-> FALSE]
NoJob == [w |-> None, mode |-> None, mon |-> FALSE, pin |-> None, sess |-> None,
          idle |-> FALSE, nat |-> None, transient |-> FALSE]

Init ==
    /\ want = [st |-> "active", rev |-> 1, des |-> 1, gen |-> 1]
    /\ policy = [rev |-> 1, on |-> FALSE]
    /\ row = None /\ src = None /\ applied = None
    /\ native = [up |-> FALSE, sess |-> None, mon |-> FALSE]
    /\ made = [g \in Gens |-> 0]
    /\ work = NoWork /\ task = FALSE /\ tasks = 0
    /\ pc = "idle" /\ job = NoJob /\ faults = 0

(***************************************************************************)
(* The control plane                                                       *)
(***************************************************************************)
Owner(st) ==
    /\ want.des < MaxRev /\ st # want.st /\ want.st # "retired"
    /\ want' = [want EXCEPT !.st = st, !.rev = @ + 1, !.des = @ + 1]
    /\ UNCHANGED <<policy, store, sandbox, work, pc, job, faults>>

(* A retired service is registered again under the next generation.         *)
Reregister ==
    /\ want.st = "retired" /\ want.gen < MaxGen
    /\ row # None /\ row.phase = "retired"
    /\ want' = [st |-> "active", rev |-> want.rev + 1, des |-> want.des + 1, gen |-> want.gen + 1]
    /\ UNCHANGED <<policy, store, sandbox, work, pc, job, faults>>

(* A terminal operation is issued again with a lower action revision.  The  *)
(* desired revision tells one issue of an operation from the next.          *)
ReissueTerminal ==
    /\ want.des < MaxRev
    /\ want.st \in Terminal /\ want.rev > 1 /\ row # None /\ row.phase = want.st /\ row.rev = want.rev
    /\ want' = [want EXCEPT !.rev = @ - 1, !.des = @ + 1]
    /\ UNCHANGED <<policy, store, sandbox, work, pc, job, faults>>

SetPolicy ==
    /\ policy.rev < MaxPolicy
    /\ policy' = [rev |-> policy.rev + 1, on |-> ~policy.on]
    /\ UNCHANGED <<want, store, sandbox, work, pc, job, faults>>

(***************************************************************************)
(* Steps of the pass                                                       *)
(***************************************************************************)
Go(to, j) == pc' = to /\ job' = j
EndPass == pc' = "idle" /\ job' = NoJob
Fault == faults < MaxFaults /\ faults' = faults + 1

(* Any external call or authority check that fails without touching a row.  *)
Refuse ==
    /\ pc \in {"fetch", "mstatus", "reestablish"} /\ Fault /\ EndPass
    /\ UNCHANGED <<want, policy, store, sandbox, work>>

(* The failures a step stores, by the code the row gets.                    *)
FetchCodes == {"enrollment_unavailable", "instruction_unavailable", "invalid_enrollment", "invalid_instruction"}
EnrolCodes == {"enrollment_failed", "invalid_enrollment_receipt"}
RebindCodes == {"authority_rebind_failed"}
StatusCodes == {"native_status_failed", "invalid_native_status"}
MonitorCodes == {"invalid_monitor_receipt"}
WorkerCodes == {"worker_not_ready"}
RecheckCodes == {"authority_changed"}
RegisterCodes == {"source_registration_failed"}
CapabilityCodes == {"manager_capability_invalid"}
LifecycleCodes == {"lifecycle_action_failed", "invalid_lifecycle_receipt"}

Codes(step) == CASE step = "fetch" -> FetchCodes \union EnrolCodes \union RebindCodes
                 [] step = "status" -> StatusCodes \union MonitorCodes
                 [] step = "boundary" -> WorkerCodes \union RecheckCodes \union RegisterCodes
                 [] step = "publish" -> CapabilityCodes
                 [] step = "stop" -> LifecycleCodes
                 [] OTHER -> {}

TransientControlFailure(code) == code \in {"enrollment_unavailable", "instruction_unavailable"}

(* The source is tombstoned, then the row.                                  *)
FailsWith(code) == Go("failing", [NoJob EXCEPT !.w = job.w, !.transient = TransientControlFailure(code)])

FailService ==
    /\ Fault /\ \E code \in Codes(pc) : FailsWith(code)
    /\ UNCHANGED <<want, policy, store, sandbox, work>>

TombstoneSource ==
    /\ pc = "failing" /\ Go("failed", job)
    /\ src' = IF row.nat = None \/ src = None THEN src
              ELSE IF job.transient THEN [src EXCEPT !.avail = FALSE]
              ELSE [src EXCEPT !.avail = FALSE, !.life = "stopped", !.lrev = job.w.rev]
    /\ UNCHANGED <<want, policy, row, applied, sandbox, work, faults>>

ReportFailed ==
    /\ pc = "failed" /\ EndPass
    /\ row' = [row EXCEPT !.phase = "failed", !.odes = job.w.des, !.nat = None]
    /\ UNCHANGED <<want, policy, src, applied, sandbox, work, faults>>

(* A completed stop or retirement of this very intent is acknowledged       *)
(* without touching what may by now be another sandbox.                     *)
Completed(w) == /\ w.st \in Terminal /\ row # None /\ row.phase = w.st
                /\ row.st = w.st /\ row.rev = w.rev /\ row.des = w.des /\ row.gen = w.gen
                /\ row.odes = w.des
                /\ work.st = "none"

Replay ==
    /\ pc = "idle" /\ Completed(want) /\ UNCHANGED vars

\* Every lower action revision is refused.
BadTerminalReissue(w) == row.phase = "retired" /\ row.st = w.st /\ w.st = "stopped"

TerminalReissue(w) == row.st = w.st /\ w.st \in Terminal /\ row.phase \in Terminal

NewRow(w) == [st |-> w.st, rev |-> w.rev, des |-> w.des, gen |-> w.gen, phase |-> "pending",
              dispatched |-> FALSE, odes |-> 0, nat |-> None]

(* One action revision is one manifest: anything else under it is refused,  *)
(* and so is a desired revision that goes back.                             *)
SameManifest(w) == row.st = w.st /\ row.rev = w.rev /\ row.des = w.des
Supersedes(w) ==
    /\ w.gen = row.gen /\ w.des >= row.des
    /\ w.rev = row.rev => SameManifest(w)
    /\ w.rev < row.rev => TerminalReissue(w)

(* The pass reads the manifest and persists the intent before any fetch; it *)
(* goes on with the row it reads back.                                      *)
PutManagedServiceIntent ==
    LET w == want
        fresh == row = None
        again == ~fresh /\ row.phase = "retired" /\ w.gen > row.gen
        legal == ~fresh /\ ~again /\ Supersedes(w)
        accepted == fresh \/ again \/ legal
    IN
    /\ pc = "idle" /\ ~Completed(w)
    /\ row' = CASE fresh \/ again -> NewRow(w)
                [] legal -> [row EXCEPT !.st = w.st, !.rev = w.rev, !.des = w.des]
                [] OTHER -> row
    /\ IF ~accepted THEN EndPass
       ELSE Go(IF w.st = "active" THEN "fetch" ELSE "cancel",
               [NoJob EXCEPT !.w = w, !.mode = IF row' = None \/ ~row'.dispatched THEN "create_initial" ELSE "lookup_only",
                           !.nat = IF w.st = "active" THEN None ELSE row'.nat])
    /\ UNCHANGED <<want, policy, src, applied, sandbox, work, faults>>

RetainedMatches(w) == src # None /\ src.gen = w.gen

(* Enrolment and instructions are fetched and the service is enrolled and   *)
(* bound; then the monitor decision comes from a fresh read.  An enabled policy with a  *)
(* retained source of another generation, or no answer, holds the start     *)
(* before the creation is marked.                                           *)
StartupMonitorIntent ==
    /\ pc = "fetch"
    /\ IF policy.on /\ src # None /\ ~RetainedMatches(job.w) THEN EndPass
       ELSE Go("mark", [job EXCEPT !.mon = policy.on, !.pin = IF src = None THEN None ELSE src.sess])
    /\ UNCHANGED <<want, policy, store, sandbox, work, faults>>

\* The creation is sent without a trace.
BadMarkCreationDispatched ==
    /\ pc = "mark" /\ Go("start", job)
    /\ UNCHANGED <<want, policy, store, sandbox, work, faults>>

(* The mode was read before the mark; the mark is durable before the start. *)
MarkCreationDispatched ==
    /\ pc = "mark" /\ Go("start", job)
    /\ row' = IF row.dispatched THEN row ELSE [row EXCEPT !.dispatched = TRUE, !.phase = "starting"]
    /\ UNCHANGED <<want, policy, src, applied, sandbox, work, faults>>

(* External.  A running process answers with its session unless its monitor *)
(* configuration differs; otherwise create_initial makes a session and      *)
(* lookup_only needs the saved one.                                         *)
Answer(mode, mon) ==
    CASE native.up /\ native.mon # mon -> "mismatch"
      [] ~native.up /\ mode = "lookup_only" /\ native.sess = None -> "failed"
      [] OTHER -> "ready"

SupervisorStart(mode, mon, g) ==
    IF native.up \/ Answer(mode, mon) # "ready" THEN UNCHANGED <<native, made>>
    ELSE IF mode = "create_initial"
    THEN /\ made' = [made EXCEPT ![g] = @ + 1]
         /\ native' = [up |-> TRUE, sess |-> [gen |-> g, n |-> made[g] + 1], mon |-> mon]
    ELSE native' = [native EXCEPT !.up = TRUE, !.mon = mon] /\ UNCHANGED made

(* The start and its receipt; the session must be the one the source pins.  *)
ReceiptOk(pin) == native'.sess # None /\ (pin # None => native'.sess = pin)

Start ==
    LET answer == Answer(job.mode, job.mon)
    IN
    /\ pc = "start" /\ SupervisorStart(job.mode, job.mon, job.w.gen)
    /\ CASE answer = "mismatch" -> Go("reestablish", job)
         [] answer = "ready" /\ ReceiptOk(job.pin) -> Go("status", [NoJob EXCEPT !.w = job.w, !.sess = native'.sess])
         [] OTHER -> FailsWith("invalid_start_receipt")
    /\ UNCHANGED <<want, policy, store, work, task, tasks, faults>>

(* The answer is lost: whether the process started stays unknown.           *)
StartOutcomeUnknown ==
    /\ pc = "start" /\ Fault /\ EndPass
    /\ \/ SupervisorStart(job.mode, job.mon, job.w.gen)
       \/ UNCHANGED <<native, made>>
    /\ row' = [row EXCEPT !.phase = "recovery_required", !.odes = job.w.des, !.nat = None]
    /\ UNCHANGED <<want, policy, src, applied, work, task, tasks>>

(* External.  A restart looks the saved session up and brings the process   *)
(* up with it, whether it ran or had died.                                  *)
SupervisorRestart(mon) == native' = IF native.sess = None THEN native ELSE [native EXCEPT !.up = TRUE, !.mon = mon]

(* One restart with the fresh monitor decision, only for the pinned source  *)
(* and only when its row says that nothing was admitted.  Its answer may be *)
(* lost after its effect.                                                   *)
Reestablish ==
    /\ pc = "reestablish"
    /\ IF RetainedMatches(job.w) /\ src.idle
       THEN /\ SupervisorRestart(job.mon)
            /\ \/ /\ src.sess = native'.sess /\ UNCHANGED faults
                  /\ Go("status", [NoJob EXCEPT !.w = job.w, !.sess = native'.sess])
               \/ src.sess # native'.sess /\ EndPass /\ UNCHANGED faults
               \/ Fault /\ EndPass
       ELSE EndPass /\ UNCHANGED <<native, faults>>
    /\ UNCHANGED <<want, policy, store, made, task, tasks, work>>

Status ==
    /\ pc = "status"
    /\ IF native.up /\ native.sess = job.sess THEN Go("boundary", job) ELSE FailsWith("invalid_native_status")
    /\ UNCHANGED <<want, policy, store, sandbox, work, faults>>

(* The worker reconciles its durable marker unless an execution is active.  *)
WorkerBoundary == task' = (task /\ work.st # "none")

(* Row, sandbox and project are compared again after all answers, and the   *)
(* source is registered with the supervisor.                                *)
Recheck ==
    /\ pc = "boundary" /\ WorkerBoundary
    /\ IF row.rev = job.w.rev /\ row.gen = job.w.gen THEN Go("execute", job) ELSE FailsWith("authority_changed")
    /\ UNCHANGED <<want, policy, store, native, made, tasks, work, faults>>

(* At most one execution per service; the previous source is read next.     *)
PreservedIdleBoundary(j) == src # None /\ src.idle /\ src.gen = j.w.gen /\ src.sess = j.sess

EnsureWorkerExecution ==
    /\ pc = "execute"
    /\ work' = IF work.st = "none" THEN [NoWork EXCEPT !.st = "run", !.rev = job.w.rev] ELSE work
    /\ Go("publish", [job EXCEPT !.idle = PreservedIdleBoundary(job)])
    /\ UNCHANGED <<want, policy, store, sandbox, faults>>

(* The capability proof is stored, then the source row is written over      *)
(* whatever a goroutine marked meanwhile.                                   *)
PublishSource ==
    /\ pc = "publish" /\ Go("ready", job)
    /\ src' = [gen |-> job.w.gen, sess |-> job.sess, life |-> "running", lrev |-> job.w.rev,
               avail |-> TRUE, idle |-> job.idle]
    /\ UNCHANGED <<want, policy, row, applied, sandbox, work, faults>>

PromoteIdle(s, w) == IF s # None /\ w.st = "done" /\ w.idle /\ s.life = "running" /\ s.lrev = w.rev
                     THEN [s EXCEPT !.idle = TRUE] ELSE s

(* A renewal keeps the stored report only when every field of it agrees.    *)
ReportReady ==
    /\ pc = "ready" /\ EndPass
    /\ src' = PromoteIdle(src, work)
    /\ row' = [row EXCEPT !.phase = "ready", !.odes = job.w.des, !.nat = job.sess]
    /\ UNCHANGED <<want, policy, applied, sandbox, work, faults>>

\* The process is stopped without cancelling its execution.
BadCancelExecution ==
    /\ pc = "cancel" /\ Go("stop", job)
    /\ UNCHANGED <<want, policy, store, sandbox, work, faults>>

(***************************************************************************)
(* Pausing, stopping and retiring                                          *)
(***************************************************************************)
(* The execution is cancelled first; it has two seconds to end.             *)
CancelExecution ==
    /\ pc = "cancel"
    /\ IF work.st = "run"
       THEN work' = [work EXCEPT !.asked = TRUE] /\ Go("cancelling", job)
       ELSE UNCHANGED work /\ Go("stop", job)
    /\ UNCHANGED <<want, policy, store, sandbox, faults>>

AwaitExecution ==
    /\ pc = "cancelling"
    /\ \/ work.st # "run" /\ Go("stop", job) /\ UNCHANGED faults
       \/ work.st = "run" /\ Fault /\ FailsWith("worker_cancel_failed")
    /\ UNCHANGED <<want, policy, store, sandbox, work>>

(* Stop ends the process, drain leaves it.                                  *)
StopProcess ==
    /\ pc = "stop" /\ Go("unsource", job)
    /\ native' = IF job.w.st \in Terminal THEN [native EXCEPT !.up = FALSE] ELSE native
    /\ UNCHANGED <<want, policy, store, made, task, tasks, work, faults>>

(* The source is tombstoned when the row's report names it.                 *)
StopSource ==
    /\ pc = "unsource" /\ Go("ack", job)
    /\ src' = IF job.nat = None \/ src = None THEN src
              ELSE [src EXCEPT !.avail = FALSE, !.life = "stopped", !.lrev = job.w.rev]
    /\ UNCHANGED <<want, policy, row, applied, sandbox, work, faults>>

\* The report keeps its old revision.
BadAcknowledgeStop ==
    /\ pc = "ack" /\ EndPass
    /\ row' = [row EXCEPT !.phase = job.w.st, !.nat = job.nat]
    /\ UNCHANGED <<want, policy, src, applied, sandbox, work, faults>>

(* The earlier report is stamped with this operation and its revision.      *)
AcknowledgeStop ==
    /\ pc = "ack" /\ EndPass
    /\ row' = [row EXCEPT !.phase = job.w.st, !.odes = job.w.des, !.nat = job.nat]
    /\ UNCHANGED <<want, policy, src, applied, sandbox, work, faults>>

(***************************************************************************)
(* Observation of the source before the services are reconciled            *)
(***************************************************************************)
(* The row is read, the status probed, and the row written back.            *)
ProbeRead ==
    /\ pc = "idle" /\ src # None /\ row # None /\ src.gen = row.gen
    /\ Go("probe", [NoJob EXCEPT !.pin = src])
    /\ UNCHANGED <<want, policy, store, sandbox, work, faults>>

ProbeWrite ==
    /\ pc = "probe" /\ EndPass
    /\ src' = [job.pin EXCEPT !.avail = native.up]
    /\ UNCHANGED <<want, policy, row, applied, sandbox, work, faults>>

(***************************************************************************)
(* The collector applies the monitor policy under the mutex of the pass    *)
(***************************************************************************)
MonitorAuthority == src # None /\ src.life = "running" /\ src.avail

MonitorReady == row # None /\ row.phase = "ready" /\ row.gen = src.gen

Unchanged == applied # None /\ applied.rev = policy.rev /\ applied.on = policy.on

ApplyPolicy ==
    /\ pc = "idle" /\ MonitorAuthority
    /\ IF applied = None /\ ~policy.on
       THEN applied' = [rev |-> policy.rev, on |-> FALSE] /\ UNCHANGED <<pc, job>>
       ELSE /\ UNCHANGED applied
            /\ (Unchanged \/ src.idle) /\ MonitorReady
            /\ Go("mstatus", [NoJob EXCEPT !.mon = policy.on, !.w = policy, !.pin = src.sess, !.idle = src.idle])
    /\ UNCHANGED <<want, policy, row, src, sandbox, work, faults>>

(* An equal policy that the process proves is a no-op even under a task.    *)
MonitorStatus ==
    LET same == applied # None /\ applied.rev = job.w.rev /\ applied.on = job.w.on
    IN
    /\ pc = "mstatus"
    /\ IF native.up /\ native.sess = job.pin /\ ~(same /\ native.mon = job.mon) /\ (same => job.idle)
       THEN Go("mrestart", job) ELSE EndPass
    /\ UNCHANGED <<want, policy, store, sandbox, work, faults>>

MonitorRestart ==
    /\ pc = "mrestart"
    /\ \/ Go("mput", job) /\ UNCHANGED faults
       \/ EndPass /\ Fault
    /\ SupervisorRestart(job.mon)
    /\ UNCHANGED <<want, policy, store, made, task, tasks, work>>

PutPolicyState ==
    /\ pc = "mput" /\ EndPass
    /\ applied' = job.w
    /\ UNCHANGED <<want, policy, row, src, sandbox, work, faults>>

(***************************************************************************)
(* The worker one-shot and its goroutine                                   *)
(***************************************************************************)
ClaimTask ==
    /\ work.st = "run" /\ ~work.did /\ ~work.asked /\ native.up /\ tasks < MaxTasks
    /\ task' = TRUE /\ tasks' = tasks + 1 /\ work' = [work EXCEPT !.did = TRUE]
    /\ UNCHANGED <<want, policy, store, native, made, pc, job, faults>>

(* A continuation handoff starts the one targeted worker of a ready         *)
(* service, or leaves the slot to the execution that has it.                *)
ScheduleHandoff ==
    /\ pc = "idle" /\ row # None /\ row.phase = "ready" /\ work.st = "none" /\ native.up /\ tasks < MaxTasks
    /\ work' = [NoWork EXCEPT !.st = "run", !.did = TRUE]
    /\ task' = TRUE /\ tasks' = tasks + 1
    /\ UNCHANGED <<want, policy, store, native, made, pc, job, faults>>

FinishTask ==
    /\ task /\ task' = FALSE
    /\ UNCHANGED <<want, policy, store, native, made, tasks, work, pc, job, faults>>

(* The one-shot returns idle when it found no task; a cancelled one leaves  *)
(* its marker behind.                                                       *)
ExecutionReturns ==
    /\ work.st = "run" /\ (task => work.asked)
    /\ work' = [work EXCEPT !.st = "done", !.idle = ~work.did /\ ~work.asked]
    /\ UNCHANGED <<want, policy, store, sandbox, pc, job, faults>>

(* The goroutine marks the source idle and gives up its slot.               *)
GoroutineEnds ==
    /\ work.st = "done"
    /\ src' = PromoteIdle(src, work) /\ work' = NoWork
    /\ UNCHANGED <<want, policy, row, applied, sandbox, pc, job, faults>>

(***************************************************************************)
(* Faults                                                                  *)
(***************************************************************************)
Crash ==
    /\ Fault /\ EndPass /\ work' = NoWork
    /\ task' \in {task, FALSE}
    /\ UNCHANGED <<want, policy, store, native, made, tasks>>

ProcessDies ==
    /\ native.up /\ Fault /\ native' = [native EXCEPT !.up = FALSE] /\ task' = FALSE
    /\ UNCHANGED <<want, policy, store, made, tasks, work, pc, job>>

Control == (\E st \in States : Owner(st)) \/ Reregister \/ ReissueTerminal \/ SetPolicy

Pass == \/ StartupMonitorIntent
        \/ MarkCreationDispatched \/ Start \/ Reestablish \/ Status \/ Recheck
        \/ EnsureWorkerExecution \/ PublishSource \/ ReportReady
        \/ CancelExecution \/ AwaitExecution \/ StopProcess \/ StopSource \/ AcknowledgeStop
        \/ TombstoneSource \/ ReportFailed \/ ProbeWrite \/ MonitorStatus \/ MonitorRestart \/ PutPolicyState

Worker == FinishTask \/ ExecutionReturns \/ GoroutineEnds

Next == \/ Control \/ Replay \/ PutManagedServiceIntent \/ ProbeRead \/ ApplyPolicy \/ Pass
        \/ Worker \/ ClaimTask \/ ScheduleHandoff
        \/ Refuse \/ FailService \/ StartOutcomeUnknown \/ Crash \/ ProcessDies

(* The daemon's loop begins a pass and a collection again and again, and a  *)
(* call inside a pass returns or times out; tasks end and a cancelled       *)
(* execution returns.                                                       *)
Fairness == /\ WF_vars(Pass) /\ SF_vars(PutManagedServiceIntent) /\ SF_vars(ApplyPolicy)
            /\ WF_vars(FinishTask) /\ WF_vars(ExecutionReturns) /\ WF_vars(GoroutineEnds)

Spec == Init /\ [][Next]_vars /\ Fairness

(***************************************************************************)
(* Properties                                                              *)
(***************************************************************************)
TypeOK ==
    /\ want \in Wants /\ policy \in Policies
    /\ row \in Rows \union {None} /\ src \in Sources \union {None} /\ applied \in Policies \union {None}
    /\ native \in Natives
    /\ made \in [Gens -> Nat]
    /\ work \in Works
    /\ task \in BOOLEAN /\ tasks \in Nat /\ faults \in Nat
    /\ job \in Jobs

(* A generation gets one native session, whatever crashes, answers are lost *)
(* and policies hold: the creation is marked before the one create_initial. *)
OneSessionPerGeneration == \A g \in Gens : made[g] <= 1

(* An acknowledged stop or retirement is down and stays down: no process,   *)
(* no execution, until an active intent is persisted.                       *)
AcknowledgedStopIsDown ==
    row # None /\ row.phase \in Terminal /\ row.st = row.phase /\ row.odes = row.des
        => ~native.up /\ work.st # "run"

(* A process whose monitoring differs from the policy, and no source row    *)
(* that says it may be restarted.                                           *)
Stranded == native.up /\ native.mon # policy.on /\ (src = None \/ ~src.idle)

(* A later generation is held while monitoring is on and the source row is  *)
(* still that of the earlier one, and refused while the row of the earlier  *)
(* one is not retired.                                                      *)
HeldByEarlierGeneration == \/ policy.on /\ src # None /\ src.gen # want.gen
                           \/ row # None /\ row.gen # want.gen /\ row.phase # "retired"

(* A later action than the one asked, which only the same terminal intent   *)
(* of a service that is down may replace.                                   *)
HoldsLaterAction == row # None /\ row.rev > want.rev
                    /\ (row.phase \in Terminal => row.st # want.st \/ want.st \notin Terminal)

(* What the owner finally asks is answered under that very desired revision,*)
(* whatever failed before and even when a terminal operation is issued      *)
(* again, unless the row holds a later action, an earlier generation holds  *)
(* the start or the process is stranded.                                    *)
IntentIsAnswered ==
    []<>(\/ HeldByEarlierGeneration \/ HoldsLaterAction \/ Stranded
         \/ row # None /\ row.odes = want.des /\ row.phase \in {want.st, "failed"} \union (IF want.st = "active" THEN {"ready"} ELSE {}))
=============================================================================
