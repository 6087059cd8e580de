------------------------ MODULE ManagedServiceProofs ------------------------
(***************************************************************************)
(* The managed service for every number of revisions, generations, tasks   *)
(* and faults: a generation gets one native session, and an acknowledged   *)
(* stop is down.                                                           *)
(***************************************************************************)
EXTENDS ManagedService, TLAPS

(* The steps of a pass over an active intent, over an inactive one, and     *)
(* those of its failure.                                                    *)
ActiveSteps == {"fetch", "mark", "start", "reestablish", "status", "boundary", "execute", "publish", "ready"}
StopSteps == {"cancel", "cancelling", "stop", "unsource", "ack"}
FailSteps == {"failing", "failed"}
MonitorSteps == {"mstatus", "mrestart", "mput"}

(* A pass works for the intent that its row holds: nobody else writes it.   *)
RowIsOfJob == /\ row # None
              /\ row.st = job.w.st /\ row.rev = job.w.rev /\ row.des = job.w.des /\ row.gen = job.w.gen

JobInv ==
    /\ pc \in ActiveSteps \union StopSteps \union FailSteps => job.w \in Wants /\ RowIsOfJob
    /\ pc \in ActiveSteps => job.w.st = "active"
    /\ pc \in StopSteps => job.w.st # "active"
    /\ pc \in {"status", "boundary", "execute", "publish", "ready"} => job.sess \in Sessions
    /\ pc = "probe" => job.pin \in Sources
    /\ pc \in MonitorSteps => job.w \in Policies

(* The desired revision names one issue of an intent, and reports follow    *)
(* rows follow the manifest.                                                *)
IssueInv ==
    row # None => /\ row.odes <= row.des /\ row.des <= want.des
                  /\ row.des = want.des => row.st = want.st

(* A session was made under a row that is marked, or was superseded.        *)
MarkedInv ==
    /\ \A g \in Gens : made[g] > 0 => row # None /\ (row.gen > g \/ (row.gen = g /\ row.dispatched))
    /\ pc \in {"fetch", "mark"} /\ job.mode = "create_initial" => ~row.dispatched
    /\ pc = "start" => row.dispatched /\ (job.mode = "create_initial" => made[job.w.gen] = 0)

(* What the steps of a stop have already ended.                             *)
EndedInv ==
    /\ pc \in {"stop", "unsource", "ack"} => work.st # "run"
    /\ pc \in {"unsource", "ack"} /\ job.w.st \in Terminal => ~native.up

(* A monitored process is only restarted under a ready row.                 *)
MonitorInv == pc \in {"mstatus", "mrestart"} => row # None /\ row.phase = "ready"

IInv == /\ TypeOK /\ JobInv /\ IssueInv /\ MarkedInv /\ EndedInv /\ MonitorInv
        /\ OneSessionPerGeneration /\ AcknowledgedStopIsDown
-----------------------------------------------------------------------------
(***************************************************************************)
(* Which actions write which variable                                      *)
(***************************************************************************)
(* The manifest is written by no other action. *)
LEMMA WantFrame ==
  ASSUME [Next]_vars, ~((\E st \in States : Owner(st)) \/ Reregister \/ ReissueTerminal)
  PROVE  want' = want
BY DEF vars, store, sandbox, Next, Control, Pass, Worker, Replay, SetPolicy, PutManagedServiceIntent,
       ProbeRead, ApplyPolicy, StartupMonitorIntent, MarkCreationDispatched, Start, Reestablish, Status,
       Recheck, EnsureWorkerExecution, PublishSource, ReportReady, CancelExecution, AwaitExecution,
       StopProcess, StopSource, AcknowledgeStop, TombstoneSource, ReportFailed, ProbeWrite, MonitorStatus,
       MonitorRestart, PutPolicyState, FinishTask, ExecutionReturns, GoroutineEnds, ClaimTask,
       ScheduleHandoff, Refuse, FailService, StartOutcomeUnknown, Crash, ProcessDies

(* The policy is written by no other action. *)
LEMMA PolicyFrame ==
  ASSUME [Next]_vars, ~(SetPolicy)
  PROVE  policy' = policy
BY DEF vars, store, sandbox, Next, Control, Pass, Worker, Replay, Owner, Reregister, ReissueTerminal,
       PutManagedServiceIntent, ProbeRead, ApplyPolicy, StartupMonitorIntent, MarkCreationDispatched,
       Start, Reestablish, Status, Recheck, EnsureWorkerExecution, PublishSource, ReportReady,
       CancelExecution, AwaitExecution, StopProcess, StopSource, AcknowledgeStop, TombstoneSource,
       ReportFailed, ProbeWrite, MonitorStatus, MonitorRestart, PutPolicyState, FinishTask,
       ExecutionReturns, GoroutineEnds, ClaimTask, ScheduleHandoff, Refuse, FailService,
       StartOutcomeUnknown, Crash, ProcessDies

(* The row of managed_services is written by no other action. *)
LEMMA RowFrame ==
  ASSUME [Next]_vars, ~(PutManagedServiceIntent \/ MarkCreationDispatched \/ StartOutcomeUnknown \/ ReportFailed \/
          ReportReady \/ AcknowledgeStop)
  PROVE  row' = row
BY DEF vars, store, sandbox, Next, Control, Pass, Worker, Replay, Owner, Reregister, ReissueTerminal,
       SetPolicy, ProbeRead, ApplyPolicy, StartupMonitorIntent, Start, Reestablish, Status, Recheck,
       EnsureWorkerExecution, PublishSource, CancelExecution, AwaitExecution, StopProcess, StopSource,
       TombstoneSource, ProbeWrite, MonitorStatus, MonitorRestart, PutPolicyState, FinishTask,
       ExecutionReturns, GoroutineEnds, ClaimTask, ScheduleHandoff, Refuse, FailService, Crash, ProcessDies

(* The source row is written by no other action. *)
LEMMA SrcFrame ==
  ASSUME [Next]_vars, ~(TombstoneSource \/ PublishSource \/ ReportReady \/ StopSource \/ ProbeWrite \/ GoroutineEnds)
  PROVE  src' = src
BY DEF vars, store, sandbox, Next, Control, Pass, Worker, Replay, Owner, Reregister, ReissueTerminal,
       SetPolicy, PutManagedServiceIntent, ProbeRead, ApplyPolicy, StartupMonitorIntent,
       MarkCreationDispatched, Start, Reestablish, Status, Recheck, EnsureWorkerExecution, CancelExecution,
       AwaitExecution, StopProcess, AcknowledgeStop, ReportFailed, MonitorStatus, MonitorRestart,
       PutPolicyState, FinishTask, ExecutionReturns, ClaimTask, ScheduleHandoff, Refuse, FailService,
       StartOutcomeUnknown, Crash, ProcessDies

(* The applied policy is written by no other action. *)
LEMMA AppliedFrame ==
  ASSUME [Next]_vars, ~(ApplyPolicy \/ PutPolicyState)
  PROVE  applied' = applied
BY DEF vars, store, sandbox, Next, Control, Pass, Worker, Replay, Owner, Reregister, ReissueTerminal,
       SetPolicy, PutManagedServiceIntent, ProbeRead, StartupMonitorIntent, MarkCreationDispatched, Start,
       Reestablish, Status, Recheck, EnsureWorkerExecution, PublishSource, ReportReady, CancelExecution,
       AwaitExecution, StopProcess, StopSource, AcknowledgeStop, TombstoneSource, ReportFailed, ProbeWrite,
       MonitorStatus, MonitorRestart, FinishTask, ExecutionReturns, GoroutineEnds, ClaimTask,
       ScheduleHandoff, Refuse, FailService, StartOutcomeUnknown, Crash, ProcessDies

(* The native process is written by no other action. *)
LEMMA NativeFrame ==
  ASSUME [Next]_vars, ~(Start \/ StartOutcomeUnknown \/ Reestablish \/ StopProcess \/ MonitorRestart \/ ProcessDies)
  PROVE  native' = native
BY DEF vars, store, sandbox, Next, Control, Pass, Worker, Replay, Owner, Reregister, ReissueTerminal,
       SetPolicy, PutManagedServiceIntent, ProbeRead, ApplyPolicy, StartupMonitorIntent,
       MarkCreationDispatched, Status, Recheck, EnsureWorkerExecution, PublishSource, ReportReady,
       CancelExecution, AwaitExecution, StopSource, AcknowledgeStop, TombstoneSource, ReportFailed,
       ProbeWrite, MonitorStatus, PutPolicyState, FinishTask, ExecutionReturns, GoroutineEnds, ClaimTask,
       ScheduleHandoff, Refuse, FailService, Crash

(* The count of sessions is written by no other action. *)
LEMMA MadeFrame ==
  ASSUME [Next]_vars, ~(Start \/ StartOutcomeUnknown)
  PROVE  made' = made
BY DEF vars, store, sandbox, Next, Control, Pass, Worker, Replay, Owner, Reregister, ReissueTerminal,
       SetPolicy, PutManagedServiceIntent, ProbeRead, ApplyPolicy, StartupMonitorIntent,
       MarkCreationDispatched, Reestablish, Status, Recheck, EnsureWorkerExecution, PublishSource,
       ReportReady, CancelExecution, AwaitExecution, StopProcess, StopSource, AcknowledgeStop,
       TombstoneSource, ReportFailed, ProbeWrite, MonitorStatus, MonitorRestart, PutPolicyState,
       FinishTask, ExecutionReturns, GoroutineEnds, ClaimTask, ScheduleHandoff, Refuse, FailService, Crash,
       ProcessDies

(* The execution is written by no other action. *)
LEMMA WorkFrame ==
  ASSUME [Next]_vars, ~(EnsureWorkerExecution \/ CancelExecution \/ ClaimTask \/ ScheduleHandoff \/ ExecutionReturns \/
          GoroutineEnds \/ Crash)
  PROVE  work' = work
BY DEF vars, store, sandbox, Next, Control, Pass, Worker, Replay, Owner, Reregister, ReissueTerminal,
       SetPolicy, PutManagedServiceIntent, ProbeRead, ApplyPolicy, StartupMonitorIntent,
       MarkCreationDispatched, Start, Reestablish, Status, Recheck, PublishSource, ReportReady,
       AwaitExecution, StopProcess, StopSource, AcknowledgeStop, TombstoneSource, ReportFailed, ProbeWrite,
       MonitorStatus, MonitorRestart, PutPolicyState, FinishTask, Refuse, FailService, StartOutcomeUnknown,
       ProcessDies

(* Everybody else leaves the pass where it is. *)
LEMMA PassFrame ==
  ASSUME [Next]_vars, ~(PutManagedServiceIntent \/ ProbeRead \/ ApplyPolicy \/ StartupMonitorIntent \/
          MarkCreationDispatched \/ Start \/ Reestablish \/ Status \/ Recheck \/ EnsureWorkerExecution \/
          PublishSource \/ ReportReady \/ CancelExecution \/ AwaitExecution \/ StopProcess \/ StopSource \/
          AcknowledgeStop \/ TombstoneSource \/ ReportFailed \/ ProbeWrite \/ MonitorStatus \/ MonitorRestart
          \/ PutPolicyState \/ Refuse \/ FailService \/ StartOutcomeUnknown \/ Crash)
  PROVE  pc' = pc /\ job' = job
BY DEF vars, store, sandbox, Next, Control, Pass, Worker, Replay, Owner, Reregister, ReissueTerminal,
       SetPolicy, FinishTask, ExecutionReturns, GoroutineEnds, ClaimTask, ScheduleHandoff, ProcessDies,
       EndPass, Go

-----------------------------------------------------------------------------
(***************************************************************************)
(* Types                                                                   *)
(***************************************************************************)
(* The locals of a pass are built field by field from an empty record.      *)
LEMMA JobFields ==
  /\ NoJob \in Jobs
  /\ \A j \in Jobs, x \in Wants \union Policies : [j EXCEPT !.w = x] \in Jobs
  /\ \A j \in Jobs, x \in Modes : [j EXCEPT !.mode = x] \in Jobs
  /\ \A j \in Jobs, x \in BOOLEAN : [j EXCEPT !.mon = x] \in Jobs
  /\ \A j \in Jobs, x \in Pins : [j EXCEPT !.pin = x] \in Jobs
  /\ \A j \in Jobs, x \in Sessions \union {None} : [j EXCEPT !.sess = x] \in Jobs
  /\ \A j \in Jobs, x \in BOOLEAN : [j EXCEPT !.idle = x] \in Jobs
  /\ \A j \in Jobs, x \in Sessions \union {None} : [j EXCEPT !.nat = x] \in Jobs
  /\ \A j \in Jobs, x \in BOOLEAN : [j EXCEPT !.transient = x] \in Jobs
BY DEF Jobs, NoJob, Pins

(* A failure keeps the intent and nothing else of the locals.               *)
LEMMA FailureType ==
  ASSUME job.w \in Wants, NEW code, FailsWith(code)
  PROVE  pc' = "failing" /\ job' \in Jobs /\ job'.w = job.w
<1>1. TransientControlFailure(code) \in BOOLEAN
  BY DEF TransientControlFailure
<1>2. [NoJob EXCEPT !.w = job.w] \in Jobs /\ [NoJob EXCEPT !.w = job.w].w = job.w
  BY JobFields DEF NoJob
<1>3. [[NoJob EXCEPT !.w = job.w] EXCEPT !.transient = TransientControlFailure(code)] \in Jobs
  BY <1>1, <1>2, JobFields
<1> QED BY <1>2, <1>3 DEF FailsWith, Go, Jobs

LEMMA WantType ==
  ASSUME TypeOK, [Next]_vars
  PROVE  want' \in Wants
<1>1. ASSUME NEW st \in States, Owner(st) PROVE want' \in Wants
  <2>1. want.rev + 1 \in Nat /\ want.des + 1 \in Nat
    BY DEF TypeOK, Wants
  <2> QED BY <1>1, <2>1 DEF Owner, TypeOK, Wants
<1>2. CASE Reregister
  BY <1>2, BoundsAssumption DEF Reregister, TypeOK, Wants, States, Gens
<1>3. CASE ReissueTerminal
  <2>1. want.rev - 1 \in Nat /\ want.des + 1 \in Nat
    BY <1>3 DEF ReissueTerminal, TypeOK, Wants
  <2> QED BY <1>3, <2>1 DEF ReissueTerminal, TypeOK, Wants
<1> QED BY <1>1, <1>2, <1>3, WantFrame DEF TypeOK

LEMMA PolicyType ==
  ASSUME TypeOK, [Next]_vars
  PROVE  policy' \in Policies
<1>1. CASE SetPolicy
  BY <1>1 DEF SetPolicy, TypeOK, Policies
<1> QED BY <1>1, PolicyFrame DEF TypeOK

LEMMA RowType ==
  ASSUME TypeOK, JobInv, [Next]_vars
  PROVE  row' \in Rows \union {None}
<1> USE DEF TypeOK, Rows, Phases
<1>1. CASE PutManagedServiceIntent
  BY <1>1 DEF PutManagedServiceIntent, NewRow, Wants
<1>2. CASE MarkCreationDispatched
  BY <1>2 DEF MarkCreationDispatched, JobInv, ActiveSteps, RowIsOfJob
<1>3. CASE StartOutcomeUnknown
  BY <1>3 DEF StartOutcomeUnknown, JobInv, ActiveSteps, RowIsOfJob
<1>4. CASE ReportFailed
  BY <1>4 DEF ReportFailed, JobInv, FailSteps, RowIsOfJob
<1>5. CASE ReportReady
  BY <1>5 DEF ReportReady, JobInv, ActiveSteps, RowIsOfJob
<1>6. CASE AcknowledgeStop
  BY <1>6 DEF AcknowledgeStop, JobInv, StopSteps, RowIsOfJob, States, Wants, Jobs
<1> QED BY <1>1, <1>2, <1>3, <1>4, <1>5, <1>6, RowFrame

LEMMA SrcType ==
  ASSUME TypeOK, JobInv, [Next]_vars
  PROVE  src' \in Sources \union {None}
<1>1. CASE TombstoneSource
  BY <1>1 DEF TombstoneSource, TypeOK, Sources, JobInv, FailSteps, Wants
<1>2. CASE PublishSource
  BY <1>2 DEF PublishSource, TypeOK, Sources, JobInv, ActiveSteps, Jobs, Wants
<1>3. CASE ReportReady \/ GoroutineEnds
  BY <1>3 DEF ReportReady, GoroutineEnds, PromoteIdle, TypeOK, Sources
<1>4. CASE StopSource
  BY <1>4 DEF StopSource, TypeOK, Sources, JobInv, StopSteps, Wants
<1>5. CASE ProbeWrite
  BY <1>5 DEF ProbeWrite, TypeOK, Sources, JobInv, Natives
<1> QED BY <1>1, <1>2, <1>3, <1>4, <1>5, SrcFrame DEF TypeOK

LEMMA AppliedType ==
  ASSUME TypeOK, JobInv, [Next]_vars
  PROVE  applied' \in Policies \union {None}
<1>1. CASE ApplyPolicy
  BY <1>1 DEF ApplyPolicy, TypeOK, Policies
<1>2. CASE PutPolicyState
  BY <1>2 DEF PutPolicyState, TypeOK, JobInv, MonitorSteps
<1> QED BY <1>1, <1>2, AppliedFrame DEF TypeOK

(* A start makes at most one session, in the generation it is asked for.    *)
LEMMA StartType ==
  ASSUME TypeOK, NEW mode, NEW mon \in BOOLEAN, NEW g \in Gens, SupervisorStart(mode, mon, g)
  PROVE  /\ native' \in Natives /\ made' \in [Gens -> Nat]
         /\ made' = made \/ (mode = "create_initial" /\ made' = [made EXCEPT ![g] = @ + 1])
<1>1. made[g] + 1 \in Nat /\ native \in Natives /\ made \in [Gens -> Nat]
  BY DEF TypeOK
<1>2. CASE UNCHANGED <<native, made>>
  BY <1>1, <1>2
<1>3. CASE /\ mode = "create_initial" /\ made' = [made EXCEPT ![g] = @ + 1]
           /\ native' = [up |-> TRUE, sess |-> [gen |-> g, n |-> made[g] + 1], mon |-> mon]
  BY <1>1, <1>3 DEF Natives, Sessions
<1>4. CASE native' = [native EXCEPT !.up = TRUE, !.mon = mon] /\ UNCHANGED made
  BY <1>1, <1>4 DEF Natives
<1> QED BY <1>2, <1>3, <1>4 DEF SupervisorStart

LEMMA NativeType ==
  ASSUME TypeOK, JobInv, [Next]_vars
  PROVE  native' \in Natives
<1>1. CASE Start \/ StartOutcomeUnknown
  BY <1>1, StartType DEF Start, StartOutcomeUnknown, TypeOK, JobInv, ActiveSteps, Wants, Jobs
<1>2. CASE Reestablish \/ StopProcess \/ MonitorRestart \/ ProcessDies
  BY <1>2 DEF Reestablish, StopProcess, MonitorRestart, SupervisorRestart, ProcessDies, TypeOK, Natives, Jobs
<1> QED BY <1>1, <1>2, NativeFrame DEF TypeOK

LEMMA MadeType ==
  ASSUME TypeOK, JobInv, [Next]_vars
  PROVE  made' \in [Gens -> Nat]
<1>1. CASE Start \/ StartOutcomeUnknown
  BY <1>1, StartType DEF Start, StartOutcomeUnknown, TypeOK, JobInv, ActiveSteps, Wants, Jobs
<1> QED BY <1>1, MadeFrame DEF TypeOK

LEMMA WorkType ==
  ASSUME TypeOK, JobInv, [Next]_vars
  PROVE  work' \in Works
<1>1. CASE EnsureWorkerExecution
  BY <1>1 DEF EnsureWorkerExecution, TypeOK, NoWork, Works, JobInv, ActiveSteps, Wants
<1>2. CASE CancelExecution \/ ClaimTask
  BY <1>2 DEF CancelExecution, ClaimTask, TypeOK, Works
<1>5. CASE ScheduleHandoff
  BY <1>5 DEF ScheduleHandoff, NoWork, Works
<1>3. CASE ExecutionReturns
  BY <1>3 DEF ExecutionReturns, TypeOK, Works
<1>4. CASE GoroutineEnds \/ Crash
  <2>1. work' = NoWork
    BY <1>4 DEF GoroutineEnds, Crash
  <2> QED BY <2>1 DEF NoWork, Works
<1> QED BY <1>1, <1>2, <1>3, <1>4, <1>5, WorkFrame DEF TypeOK

LEMMA CountType ==
  ASSUME TypeOK, [Next]_vars
  PROVE  task' \in BOOLEAN /\ tasks' \in Nat /\ faults' \in Nat
<1> USE DEF TypeOK
<1>1. CASE ClaimTask \/ ScheduleHandoff
  <2>1. task' = TRUE /\ tasks' = tasks + 1 /\ faults' = faults
    BY <1>1 DEF ClaimTask, ScheduleHandoff
  <2> QED BY <2>1
<1>2. CASE Recheck
  BY <1>2 DEF Recheck, WorkerBoundary
<1>3. CASE Refuse \/ FailService \/ StartOutcomeUnknown \/ Crash \/ ProcessDies
  <2>1. task' \in {task, FALSE} /\ tasks' = tasks /\ faults' = faults + 1
    BY <1>3 DEF Refuse, FailService, StartOutcomeUnknown, Crash, ProcessDies, Fault, sandbox
  <2>2. task' \in BOOLEAN
    BY <2>1
  <2>3. tasks' \in Nat /\ faults' \in Nat
    BY <2>1
  <2> QED BY <2>2, <2>3
<1>4. CASE AwaitExecution \/ MonitorRestart \/ Reestablish
  BY <1>4 DEF AwaitExecution, MonitorRestart, Reestablish, Fault, sandbox
<1>5. CASE FinishTask \/ ExecutionReturns \/ GoroutineEnds
  BY <1>5 DEF FinishTask, ExecutionReturns, GoroutineEnds, sandbox
<1>6. CASE Control \/ Replay \/ PutManagedServiceIntent \/ ProbeRead \/ ApplyPolicy \/ UNCHANGED vars
  BY <1>6 DEF Control, Owner, Reregister, ReissueTerminal, SetPolicy, Replay, PutManagedServiceIntent,
              ProbeRead, ApplyPolicy, vars, sandbox
<1>7. CASE Pass /\ ~Recheck /\ ~AwaitExecution /\ ~MonitorRestart /\ ~Reestablish
  BY <1>7 DEF Pass, StartupMonitorIntent, MarkCreationDispatched, Start, Status, EnsureWorkerExecution,
              PublishSource, ReportReady, CancelExecution, StopProcess, StopSource, AcknowledgeStop,
              TombstoneSource, ReportFailed, ProbeWrite, MonitorStatus, PutPolicyState, sandbox
<1> QED BY <1>1, <1>2, <1>3, <1>4, <1>5, <1>6, <1>7 DEF Next, Worker

-----------------------------------------------------------------------------
(***************************************************************************)
(* The pass and its row                                                    *)
(***************************************************************************)
(* Between the persisted intent and the end of the pass only the pass       *)
(* writes the row, and it leaves the intent in it alone.                    *)
LEMMA JobStep ==
  ASSUME TypeOK, JobInv, [Next]_vars
  PROVE  job' \in Jobs /\ JobInv'
<1> DEFINE Good == job' \in Jobs /\ JobInv'
<1> USE DEF JobInv, RowIsOfJob, ActiveSteps, StopSteps, FailSteps, MonitorSteps
<1>1. ASSUME EndPass PROVE Good
  BY <1>1, JobFields DEF EndPass
<1>2. ASSUME row' = row, job.w \in Wants, RowIsOfJob, NEW code, FailsWith(code) PROVE Good
  BY <1>2, FailureType
<1>3. CASE PutManagedServiceIntent
  <2> DEFINE j == [[[NoJob EXCEPT !.w = want]
                   EXCEPT !.mode = IF row' = None \/ ~row'.dispatched THEN "create_initial" ELSE "lookup_only"]
                   EXCEPT !.nat = IF want.st = "active" THEN None ELSE row'.nat]
  <2>1. \/ EndPass
        \/ /\ pc' = (IF want.st = "active" THEN "fetch" ELSE "cancel") /\ job' = j
           /\ \/ row' = NewRow(want)
              \/ row # None /\ want.gen = row.gen /\ row' = [row EXCEPT !.st = want.st, !.rev = want.rev, !.des = want.des]
    BY <1>3 DEF PutManagedServiceIntent, Go, Supersedes
  <2>2. want \in Wants /\ row' \in Rows \union {None}
    BY RowType DEF TypeOK
  <2>3. CASE /\ pc' = (IF want.st = "active" THEN "fetch" ELSE "cancel") /\ job' = j
             /\ row' # None /\ row' \in Rows
             /\ row'.st = want.st /\ row'.rev = want.rev /\ row'.des = want.des /\ row'.gen = want.gen
    <3>1. row'.nat \in Sessions \union {None}
      BY <2>3 DEF Rows
    <3>2. [NoJob EXCEPT !.w = want] \in Jobs
      BY <2>2, JobFields
    <3>3. [[NoJob EXCEPT !.w = want]
             EXCEPT !.mode = IF row' = None \/ ~row'.dispatched THEN "create_initial" ELSE "lookup_only"] \in Jobs
      BY <3>2, JobFields DEF Modes
    <3>4. j \in Jobs
      BY <3>1, <3>3, JobFields
    <3>5. j.w = want
      BY DEF NoJob
    <3> QED BY <2>2, <2>3, <3>4, <3>5
  <2>4. CASE row' = NewRow(want)
    <3>1. row' \in Rows /\ row'.st = want.st /\ row'.rev = want.rev /\ row'.des = want.des /\ row'.gen = want.gen
      BY <2>2, <2>4 DEF NewRow, Wants, Rows, Phases
    <3> QED BY <1>1, <2>1, <2>3, <3>1, NoneAssumption
  <2>5. CASE row # None /\ want.gen = row.gen /\ row' = [row EXCEPT !.st = want.st, !.rev = want.rev, !.des = want.des]
    <3>1. row' \in Rows /\ row'.st = want.st /\ row'.rev = want.rev /\ row'.des = want.des /\ row'.gen = want.gen
      BY <2>2, <2>5 DEF TypeOK, Wants, Rows
    <3> QED BY <1>1, <2>1, <2>3, <3>1, NoneAssumption
  <2> QED BY <1>1, <2>1, <2>4, <2>5
<1>4. CASE ProbeRead
  <2>1. pc' = "probe" /\ job' = [NoJob EXCEPT !.pin = src] /\ src \in Sources
    BY <1>4 DEF ProbeRead, Go, TypeOK
  <2> QED BY <2>1, JobFields DEF Pins, NoJob
<1>5. CASE ApplyPolicy
  <2>1. CASE UNCHANGED <<pc, job>>
    <3>1. row' = row
      BY <1>5 DEF ApplyPolicy
    <3> QED BY <2>1, <3>1 DEF TypeOK
  <2>2. CASE Go("mstatus", [NoJob EXCEPT !.mon = policy.on, !.w = policy, !.pin = src.sess, !.idle = src.idle])
    <3>1. policy \in Policies /\ policy.on \in BOOLEAN /\ src.sess \in Pins /\ src.idle \in BOOLEAN
      BY <1>5 DEF ApplyPolicy, MonitorAuthority, TypeOK, Policies, Sources, Pins
    <3>2. [NoJob EXCEPT !.mon = policy.on] \in Jobs
      BY <3>1, JobFields
    <3>3. [[NoJob EXCEPT !.mon = policy.on] EXCEPT !.w = policy] \in Jobs
      BY <3>1, <3>2, JobFields
    <3>4. [[[NoJob EXCEPT !.mon = policy.on] EXCEPT !.w = policy] EXCEPT !.pin = src.sess] \in Jobs
      BY <3>1, <3>3, JobFields
    <3>5. job' \in Jobs
      BY <2>2, <3>1, <3>4, JobFields DEF Go
    <3>6. pc' = "mstatus" /\ job'.w = policy
      BY <2>2 DEF Go, NoJob
    <3> QED BY <3>1, <3>5, <3>6
  <2> QED BY <1>5, <2>1, <2>2 DEF ApplyPolicy
<1>6. CASE StartupMonitorIntent
  <2> DEFINE pinned == IF src = None THEN None ELSE src.sess
  <2>1. pc = "fetch" /\ row' = row /\ policy.on \in BOOLEAN /\ pinned \in Pins /\ job \in Jobs
    BY <1>6 DEF StartupMonitorIntent, store, TypeOK, Policies, Sources, Pins
  <2>2. [job EXCEPT !.mon = policy.on] \in Jobs /\ [job EXCEPT !.mon = policy.on].w = job.w
    BY <2>1, JobFields DEF Jobs
  <2>3. CASE Go("mark", [job EXCEPT !.mon = policy.on, !.pin = pinned])
    <3>1. job' \in Jobs
      BY <2>1, <2>2, <2>3, JobFields DEF Go
    <3>2. job'.w = job.w /\ pc' = "mark"
      BY <2>1, <2>2, <2>3 DEF Go, Jobs
    <3> QED BY <2>1, <3>1, <3>2
  <2> QED BY <1>1, <1>6, <2>3 DEF StartupMonitorIntent
<1>7. CASE MarkCreationDispatched
  <2>1. pc = "mark" /\ pc' = "start" /\ job' = job /\ row \in Rows
    BY <1>7 DEF MarkCreationDispatched, Go, TypeOK
  <2>2. row' \in Rows /\ row'.st = row.st /\ row'.rev = row.rev /\ row'.des = row.des /\ row'.gen = row.gen
    BY <1>7, <2>1 DEF MarkCreationDispatched, Rows, Phases
  <2> QED BY <2>1, <2>2, NoneAssumption DEF TypeOK
<1>8. CASE Start
  <2>1. pc = "start" /\ row' = row /\ job \in Jobs /\ native' \in Natives
    BY <1>8, NativeType DEF Start, store, TypeOK
  <2>2. CASE Go("reestablish", job)
    BY <2>1, <2>2 DEF Go
  <2>3. CASE ReceiptOk(job.pin) /\ Go("status", [NoJob EXCEPT !.w = job.w, !.sess = native'.sess])
    <3>1. native'.sess \in Sessions
      BY <2>1, <2>3 DEF ReceiptOk, Natives
    <3>2. [NoJob EXCEPT !.w = job.w] \in Jobs
      BY <2>1, JobFields
    <3>3. job' \in Jobs
      BY <2>3, <3>1, <3>2, JobFields DEF Go
    <3>4. pc' = "status" /\ job'.w = job.w /\ job'.sess = native'.sess
      BY <2>3 DEF Go, NoJob
    <3> QED BY <2>1, <3>1, <3>3, <3>4
  <2> QED BY <1>2, <1>8, <2>1, <2>2, <2>3 DEF Start
<1>9. CASE Reestablish
  <2>1. pc = "reestablish" /\ row' = row /\ job \in Jobs
    BY <1>9 DEF Reestablish, store, TypeOK
  <2>2. CASE /\ RetainedMatches(job.w) /\ src.sess = native'.sess
             /\ Go("status", [NoJob EXCEPT !.w = job.w, !.sess = native'.sess])
    <3>1. native'.sess \in Sessions
      BY <2>2 DEF RetainedMatches, TypeOK, Sources
    <3>2. [NoJob EXCEPT !.w = job.w] \in Jobs
      BY <2>1, JobFields
    <3>3. job' \in Jobs
      BY <2>2, <3>1, <3>2, JobFields DEF Go
    <3>4. pc' = "status" /\ job'.w = job.w /\ job'.sess = native'.sess
      BY <2>2 DEF Go, NoJob
    <3> QED BY <2>1, <3>1, <3>3, <3>4
  <2> QED BY <1>1, <1>9, <2>2 DEF Reestablish
<1>10. CASE Status \/ Recheck
  <2>1. pc \in {"status", "boundary"} /\ row' = row /\ job \in Jobs
    BY <1>10 DEF Status, Recheck, store, TypeOK
  <2>2. CASE pc' \in {"boundary", "execute"} /\ job' = job
    BY <2>1, <2>2
  <2> QED BY <1>2, <1>10, <2>1, <2>2 DEF Status, Recheck, Go
<1>11. CASE EnsureWorkerExecution
  <2>1. PreservedIdleBoundary(job) \in BOOLEAN /\ job \in Jobs
    BY DEF PreservedIdleBoundary, TypeOK, Sources
  <2>2. job' \in Jobs /\ job'.w = job.w /\ job'.sess = job.sess /\ pc = "execute" /\ pc' = "publish" /\ row' = row
    BY <1>11, <2>1, JobFields DEF EnsureWorkerExecution, Go, Jobs, store
  <2> QED BY <2>2
<1>12. CASE PublishSource
  <2>1. pc = "publish" /\ pc' = "ready" /\ job' = job /\ row' = row
    BY <1>12 DEF PublishSource, Go
  <2> QED BY <2>1 DEF TypeOK
<1>13. CASE CancelExecution
  <2>1. pc = "cancel" /\ pc' \in {"cancelling", "stop"} /\ job' = job /\ row' = row
    BY <1>13 DEF CancelExecution, Go, store
  <2> QED BY <2>1 DEF TypeOK
<1>14. CASE AwaitExecution
  <2>1. pc = "cancelling" /\ row' = row
    BY <1>14 DEF AwaitExecution, store
  <2>2. CASE pc' = "stop" /\ job' = job
    BY <2>1, <2>2 DEF TypeOK
  <2> QED BY <1>2, <1>14, <2>1, <2>2 DEF AwaitExecution, Go
<1>15. CASE StopProcess \/ StopSource
  <2>1. pc \in {"stop", "unsource"} /\ pc' \in {"unsource", "ack"} /\ job' = job /\ row' = row
    BY <1>15 DEF StopProcess, StopSource, Go, store
  <2> QED BY <2>1 DEF TypeOK
<1>16. CASE TombstoneSource
  <2>1. pc = "failing" /\ pc' = "failed" /\ job' = job /\ row' = row
    BY <1>16 DEF TombstoneSource, Go
  <2> QED BY <2>1 DEF TypeOK
<1>17. CASE MonitorStatus \/ MonitorRestart
  <2>1. CASE pc \in {"mstatus", "mrestart"} /\ pc' \in {"mrestart", "mput"} /\ job' = job
    BY <2>1 DEF TypeOK
  <2> QED BY <1>1, <1>17, <2>1 DEF MonitorStatus, MonitorRestart, Go
<1>18. CASE FailService
  <2>1. PICK code \in Codes(pc) : FailsWith(code)
    BY <1>18 DEF FailService
  <2>2. pc \in ActiveSteps \union StopSteps /\ row' = row
    BY <1>18, <2>1 DEF FailService, Codes, store
  <2> QED BY <1>2, <2>1, <2>2
<1>19. CASE AcknowledgeStop \/ ReportFailed \/ ReportReady \/ ProbeWrite \/ PutPolicyState
            \/ Refuse \/ StartOutcomeUnknown \/ Crash
  BY <1>1, <1>19 DEF AcknowledgeStop, ReportFailed, ReportReady, ProbeWrite, PutPolicyState, Refuse,
                     StartOutcomeUnknown, Crash
<1>20. CASE Control \/ Replay \/ Worker \/ ClaimTask \/ ScheduleHandoff \/ ProcessDies \/ UNCHANGED vars
  <2>1. pc' = pc /\ job' = job /\ row' = row
    BY <1>20 DEF Control, Owner, Reregister, ReissueTerminal, SetPolicy, Replay, Worker, FinishTask, ExecutionReturns,
                 GoroutineEnds, ClaimTask, ScheduleHandoff, ProcessDies, vars, store
  <2> QED BY <2>1 DEF TypeOK
<1> QED BY <1>3, <1>4, <1>5, <1>6, <1>7, <1>8, <1>9, <1>10, <1>11, <1>12, <1>13, <1>14, <1>15, <1>16, <1>17,
           <1>18, <1>19, <1>20 DEF Next, Pass
(* A report leaves the intent, the generation and the mark of the row.      *)
LEMMA Reported ==
  ASSUME row \in Rows, NEW p \in Phases, job.w.des \in Nat, NEW n \in Sessions \union {None},
         row' = [row EXCEPT !.phase = p, !.odes = job.w.des, !.nat = n]
  PROVE  row' # None /\ row'.gen = row.gen /\ row'.dispatched = row.dispatched
<1>1. row' \in Rows
  BY DEF Rows
<1> QED BY <1>1, NoneAssumption DEF Rows

(* The order of manifest, row and report: a stale manifest is refused.      *)
LEMMA IssueStep ==
  ASSUME TypeOK, JobInv, IssueInv, [Next]_vars
  PROVE  IssueInv'
<1> USE DEF IssueInv
<1>1. row \in Rows \union {None} /\ want \in Wants
  BY DEF TypeOK
<1>2. CASE Control
  <2>1. row' = row /\ (want' = want \/ want'.des = want.des + 1)
    <3>1. ASSUME NEW st \in States, Owner(st) PROVE row' = row /\ want'.des = want.des + 1
      BY <1>1, <3>1 DEF Owner, store, Wants
    <3>2. CASE ReissueTerminal
      BY <1>1, <3>2 DEF ReissueTerminal, store, Wants
    <3>3. CASE Reregister \/ SetPolicy
      BY <3>3 DEF Reregister, SetPolicy, store
    <3> QED BY <1>2, <3>1, <3>2, <3>3 DEF Control
  <2> QED BY <1>1, <2>1 DEF Rows, Wants
<1>3. CASE PutManagedServiceIntent
  <2>1. want' = want
    BY <1>3 DEF PutManagedServiceIntent
  <2>2. \/ row' = row \/ row' = NewRow(want)
        \/ row # None /\ want.des >= row.des /\ row' = [row EXCEPT !.st = want.st, !.rev = want.rev, !.des = want.des]
    BY <1>3 DEF PutManagedServiceIntent, Supersedes
  <2>3. CASE row' = NewRow(want)
    BY <1>1, <2>1, <2>3 DEF NewRow, Wants
  <2>4. CASE row # None /\ want.des >= row.des /\ row' = [row EXCEPT !.st = want.st, !.rev = want.rev, !.des = want.des]
    <3>1. row'.odes = row.odes /\ row'.des = want.des /\ row'.st = want.st
      BY <1>1, <2>4 DEF Rows
    <3> QED BY <1>1, <2>1, <2>4, <3>1 DEF Rows, Wants
  <2> QED BY <2>1, <2>2, <2>3, <2>4
<1>4. CASE MarkCreationDispatched
  <2>1. row # None /\ want' = want
    BY <1>4 DEF MarkCreationDispatched, JobInv, RowIsOfJob, ActiveSteps
  <2>2. row'.odes = row.odes /\ row'.des = row.des /\ row'.st = row.st
    BY <1>1, <1>4, <2>1 DEF MarkCreationDispatched, Rows
  <2> QED BY <2>1, <2>2
<1>5. CASE StartOutcomeUnknown \/ ReportFailed \/ ReportReady \/ AcknowledgeStop
  <2>1. row # None /\ row \in Rows /\ row.des = job.w.des
    BY <1>1, <1>5 DEF StartOutcomeUnknown, ReportFailed, ReportReady, AcknowledgeStop, JobInv, RowIsOfJob, ActiveSteps,
                      StopSteps, FailSteps
  <2>2. want' = want /\ row'.odes = row.des /\ row'.des = row.des /\ row'.st = row.st
    BY <1>5, <2>1 DEF StartOutcomeUnknown, ReportFailed, ReportReady, AcknowledgeStop, Rows
  <2> QED BY <1>1, <2>1, <2>2 DEF Rows, Wants
<1> QED BY <1>2, <1>3, <1>4, <1>5, RowFrame, WantFrame DEF Control

(* A start of the pass creates only what its row had not been marked for.   *)
LEMMA MarkedStep ==
  ASSUME TypeOK, JobInv, MarkedInv, OneSessionPerGeneration, [Next]_vars
  PROVE  MarkedInv' /\ OneSessionPerGeneration'
<1> DEFINE Marked(g) == made[g] > 0 => row # None /\ (row.gen > g \/ (row.gen = g /\ row.dispatched))
<1> USE DEF MarkedInv, OneSessionPerGeneration
<1>1. row \in Rows \union {None} /\ want \in Wants /\ made \in [Gens -> Nat] /\ job \in Jobs /\ row' \in Rows \union {None}
  BY RowType DEF TypeOK
<1>2. Gens \subseteq Nat
  BY DEF Gens
<1>3. CASE Start \/ StartOutcomeUnknown
  <2>1. pc = "start" /\ row # None /\ row \in Rows /\ job.w \in Wants /\ job.w.gen = row.gen /\ row.gen \in Gens
    BY <1>1, <1>3 DEF Start, StartOutcomeUnknown, JobInv, RowIsOfJob, ActiveSteps, Rows
  <2>2. row' # None /\ row'.gen = row.gen /\ row'.dispatched = row.dispatched
    <3>1. CASE Start
      BY <2>1, <3>1 DEF Start, store
    <3>2. CASE StartOutcomeUnknown
      <4>1. job.w.des \in Nat /\ "recovery_required" \in Phases
        BY <2>1 DEF Wants, Phases
      <4>2. row' = [row EXCEPT !.phase = "recovery_required", !.odes = job.w.des, !.nat = None]
        BY <3>2 DEF StartOutcomeUnknown
      <4> QED BY <2>1, <4>1, <4>2, Reported
    <3> QED BY <1>3, <3>1, <3>2
  <2>3. made' = made \/ (job.mode = "create_initial" /\ made' = [made EXCEPT ![row.gen] = @ + 1])
    BY <1>1, <1>3, <2>1, StartType DEF Start, StartOutcomeUnknown, Jobs
  <2>4. pc' \notin {"fetch", "mark", "start"}
    BY <1>3 DEF Start, StartOutcomeUnknown, FailsWith, Go, EndPass
  <2>5. made' = made \/ (made[row.gen] = 0 /\ made' = [made EXCEPT ![row.gen] = 1])
    BY <1>1, <2>1, <2>3
  <2>6. row.dispatched
    BY <2>1
  <2>7. ASSUME NEW g \in Gens PROVE made'[g] <= 1 /\ Marked(g)'
    BY <1>1, <2>1, <2>2, <2>5, <2>6, <2>7
  <2> QED BY <2>4, <2>7
<1>4. CASE PutManagedServiceIntent
  <2>1. made' = made
    BY <1>4 DEF PutManagedServiceIntent, sandbox
  <2>2. pc' \in {"idle", "fetch", "cancel"}
    BY <1>4 DEF PutManagedServiceIntent, Go, EndPass
  <2>3. pc' = "fetch" /\ job'.mode = "create_initial" => row' = None \/ ~row'.dispatched
    <3>1. \/ pc' = "idle"
          \/ job' = [NoJob EXCEPT !.w = want,
                        !.mode = IF row' = None \/ ~row'.dispatched THEN "create_initial" ELSE "lookup_only",
                        !.nat = IF want.st = "active" THEN None ELSE row'.nat]
      BY <1>4 DEF PutManagedServiceIntent, Go, EndPass
    <3>2. \/ pc' = "idle"
          \/ job'.mode = IF row' = None \/ ~row'.dispatched THEN "create_initial" ELSE "lookup_only"
      BY <3>1 DEF NoJob
    <3> QED BY <3>2
  <2>4. pc' = "fetch" => row' # None
    BY JobStep DEF JobInv, RowIsOfJob, ActiveSteps
  <2>5. \/ row' = row
        \/ row' = NewRow(want) /\ (row # None => want.gen > row.gen)
        \/ row # None /\ row' = [row EXCEPT !.st = want.st, !.rev = want.rev, !.des = want.des]
    BY <1>4 DEF PutManagedServiceIntent
  <2>6. ASSUME NEW g \in Gens PROVE Marked(g)'
    <3>1. CASE row' = row
      BY <2>1, <3>1
    <3>2. CASE row' = NewRow(want) /\ (row # None => want.gen > row.gen)
      <4>1. row' # None /\ row'.gen = want.gen
        <5>1. NewRow(want) \in Rows
          BY <1>1 DEF NewRow, Wants, Rows, Phases
        <5> QED BY <3>2, <5>1, NoneAssumption DEF NewRow
      <4>2. want.gen \in Nat /\ (row # None => row.gen \in Nat)
        BY <1>1, <1>2 DEF Wants, Rows
      <4> QED BY <1>2, <2>1, <3>2, <4>1, <4>2
    <3>3. CASE row # None /\ row' = [row EXCEPT !.st = want.st, !.rev = want.rev, !.des = want.des]
      <4>1. row' \in Rows /\ row'.gen = row.gen /\ row'.dispatched = row.dispatched
        BY <1>1, <3>3 DEF Rows, Wants
      <4> QED BY <2>1, <3>3, <4>1, NoneAssumption
    <3> QED BY <2>5, <3>1, <3>2, <3>3
  <2> QED BY <2>1, <2>2, <2>3, <2>4, <2>6
<1>5. CASE MarkCreationDispatched
  <2>1. /\ pc = "mark" /\ pc' = "start" /\ job' = job /\ made' = made
        /\ row # None /\ row \in Rows /\ job.w.gen = row.gen /\ row.gen \in Gens
    BY <1>1, <1>5 DEF MarkCreationDispatched, Go, sandbox, JobInv, RowIsOfJob, ActiveSteps, Rows
  <2>2. row' \in Rows /\ row'.gen = row.gen /\ row'.dispatched
    BY <1>5, <2>1 DEF MarkCreationDispatched, Rows, Phases
  <2>3. job.mode = "create_initial" => made[row.gen] = 0
    <3>1. made[row.gen] > 0 => row.gen > row.gen \/ row.dispatched
      BY <2>1
    <3>2. made[row.gen] \in Nat /\ row.gen \in Nat
      BY <1>1, <1>2, <2>1
    <3> QED BY <2>1, <3>1, <3>2
  <2> QED BY <2>1, <2>2, <2>3, NoneAssumption
<1>6. CASE StartupMonitorIntent
  <2>1. pc = "fetch" /\ row' = row /\ made' = made /\ pc' \in {"idle", "mark"}
    BY <1>6 DEF StartupMonitorIntent, store, sandbox, Go, EndPass
  <2>2. pc' = "mark" => job'.mode = job.mode
    BY <1>1, <1>6 DEF StartupMonitorIntent, Go, EndPass, Jobs
  <2> QED BY <2>1, <2>2
<1>7. CASE ReportFailed \/ ReportReady \/ AcknowledgeStop
  <2>1. row # None /\ row \in Rows /\ made' = made /\ pc' = "idle"
    BY <1>1, <1>7 DEF ReportFailed, ReportReady, AcknowledgeStop, EndPass, sandbox, JobInv, RowIsOfJob, ActiveSteps,
                      StopSteps, FailSteps
  <2>2. row' # None /\ row'.gen = row.gen /\ row'.dispatched = row.dispatched
    <3>1. /\ job.w.des \in Nat /\ job.sess \in Sessions \union {None} /\ job.nat \in Sessions \union {None}
          /\ job.w.st \in States /\ (AcknowledgeStop => job.w.st \in Phases)
      BY <1>1, <1>7 DEF ReportFailed, ReportReady, AcknowledgeStop, JobInv, ActiveSteps, StopSteps, FailSteps, Wants, Jobs,
                        States, Phases
    <3>2. "failed" \in Phases /\ "ready" \in Phases
      BY DEF Phases
    <3>3. CASE ReportFailed
      <4>2. row' = [row EXCEPT !.phase = "failed", !.odes = job.w.des, !.nat = None]
        BY <3>3 DEF ReportFailed
      <4> QED BY <2>1, <3>1, <3>2, <4>2, Reported
    <3>4. CASE ReportReady
      <4>2. row' = [row EXCEPT !.phase = "ready", !.odes = job.w.des, !.nat = job.sess]
        BY <3>4 DEF ReportReady
      <4> QED BY <2>1, <3>1, <3>2, <4>2, Reported
    <3>5. CASE AcknowledgeStop
      <4>2. row' = [row EXCEPT !.phase = job.w.st, !.odes = job.w.des, !.nat = job.nat]
        BY <3>5 DEF AcknowledgeStop
      <4> QED BY <2>1, <3>1, <3>5, <4>2, Reported
    <3> QED BY <1>7, <3>3, <3>4, <3>5
  <2> QED BY <2>1, <2>2
<1>8. CASE /\ ~Start /\ ~StartOutcomeUnknown /\ ~PutManagedServiceIntent /\ ~MarkCreationDispatched
           /\ ~StartupMonitorIntent /\ ~ReportFailed /\ ~ReportReady /\ ~AcknowledgeStop
  <2>1. row' = row /\ made' = made
    BY <1>8, RowFrame, MadeFrame
  <2>2. (pc' = pc /\ job' = job) \/ pc' \notin {"fetch", "mark", "start"}
    BY <1>8, PassFrame DEF ProbeRead, ApplyPolicy, Reestablish, Status, Recheck, EnsureWorkerExecution, PublishSource,
       CancelExecution, AwaitExecution, StopProcess, StopSource, TombstoneSource, ProbeWrite, MonitorStatus,
       MonitorRestart, PutPolicyState, Refuse, FailService, Crash, Go, EndPass, FailsWith
  <2> QED BY <2>1, <2>2
<1> QED BY <1>3, <1>4, <1>5, <1>6, <1>7, <1>8

LEMMA EndedStep ==
  ASSUME TypeOK, JobInv, EndedInv, [Next]_vars
  PROVE  EndedInv'
<1> USE DEF EndedInv
<1>1. CASE CancelExecution \/ AwaitExecution
  BY <1>1 DEF CancelExecution, AwaitExecution, Go, FailsWith
<1>2. CASE StopProcess
  BY <1>2 DEF StopProcess, Go, TypeOK, Natives
<1>3. CASE StopSource
  BY <1>3 DEF StopSource, Go, sandbox
<1>4. CASE ProcessDies
  BY <1>4 DEF ProcessDies, TypeOK, Natives
<1>5. CASE ExecutionReturns \/ GoroutineEnds
  BY <1>5 DEF ExecutionReturns, GoroutineEnds, NoWork, TypeOK, Works, sandbox
<1>6. CASE ClaimTask \/ ScheduleHandoff
  BY <1>6 DEF ClaimTask, ScheduleHandoff, TypeOK, Works
<1>7. CASE pc' \notin {"stop", "unsource", "ack"}
  BY <1>7
<1>8. CASE pc' = pc /\ job' = job /\ work' = work /\ native' = native
  BY <1>8
<1>9. CASE Control \/ Replay \/ FinishTask \/ UNCHANGED vars
  BY <1>8, <1>9 DEF Control, Owner, Reregister, ReissueTerminal, SetPolicy, Replay, FinishTask, vars, sandbox
<1>10. CASE ~(Control \/ Replay \/ FinishTask \/ UNCHANGED vars \/ CancelExecution \/ AwaitExecution \/ StopProcess
              \/ StopSource \/ ProcessDies \/ ExecutionReturns \/ GoroutineEnds \/ ClaimTask \/ ScheduleHandoff)
  <2>1. pc' \notin {"stop", "unsource", "ack"}
    BY <1>10 DEF Next, Worker, Pass, PutManagedServiceIntent, ProbeRead, ApplyPolicy, StartupMonitorIntent,
       MarkCreationDispatched, Start, Reestablish, Status, Recheck, EnsureWorkerExecution, PublishSource, ReportReady,
       AcknowledgeStop, TombstoneSource, ReportFailed, ProbeWrite, MonitorStatus, MonitorRestart, PutPolicyState,
       Refuse, FailService, StartOutcomeUnknown, Crash, Go, EndPass, FailsWith
  <2> QED BY <1>7, <2>1
<1> QED BY <1>1, <1>2, <1>3, <1>4, <1>5, <1>6, <1>9, <1>10

LEMMA MonitorStep ==
  ASSUME MonitorInv, [Next]_vars
  PROVE  MonitorInv'
<1> USE DEF MonitorInv
<1>1. CASE ApplyPolicy
  BY <1>1 DEF ApplyPolicy, MonitorReady
<1>2. CASE MonitorStatus \/ Control \/ Replay \/ FinishTask \/ UNCHANGED vars
  BY <1>2 DEF MonitorStatus, Control, Owner, Reregister, ReissueTerminal, SetPolicy, Replay, FinishTask,
     Go, EndPass, store, vars
<1>3. CASE pc' \notin {"mstatus", "mrestart"}
  BY <1>3
<1>4. CASE (Pass /\ ~MonitorStatus) \/ PutManagedServiceIntent \/ ProbeRead
  <2>1. pc' \notin {"mstatus", "mrestart"}
    BY <1>4 DEF Pass, PutManagedServiceIntent, ProbeRead, StartupMonitorIntent, MarkCreationDispatched, Start,
       Reestablish, Status, Recheck, EnsureWorkerExecution, PublishSource, ReportReady, CancelExecution,
       AwaitExecution, StopProcess, StopSource, AcknowledgeStop, TombstoneSource, ReportFailed, ProbeWrite,
       MonitorRestart, PutPolicyState, Go, EndPass, FailsWith
  <2> QED BY <1>3, <2>1
<1>5. CASE Refuse \/ FailService \/ StartOutcomeUnknown \/ Crash
  <2>1. pc' \notin {"mstatus", "mrestart"}
    BY <1>5 DEF Refuse, FailService, StartOutcomeUnknown, Crash, Go, EndPass, FailsWith
  <2> QED BY <1>3, <2>1
<1>6. CASE ExecutionReturns \/ GoroutineEnds \/ ClaimTask \/ ScheduleHandoff \/ ProcessDies
  <2>1. pc' = pc /\ row' = row
    BY <1>6 DEF ExecutionReturns, GoroutineEnds, ClaimTask, ScheduleHandoff, ProcessDies, store
  <2> QED BY <2>1
<1> QED BY <1>1, <1>2, <1>4, <1>5, <1>6 DEF Next, Worker

LEMMA DownStep ==
  ASSUME IInv, [Next]_vars
  PROVE  AcknowledgedStopIsDown'
<1> USE DEF AcknowledgedStopIsDown
<1>1. /\ row \in Rows \union {None} /\ want \in Wants /\ row' \in Rows \union {None}
      /\ native \in Natives /\ work \in Works /\ AcknowledgedStopIsDown
  BY RowType DEF IInv, TypeOK
<1>2. CASE PutManagedServiceIntent
  <2>1. native' = native /\ work' = work
    BY <1>2 DEF PutManagedServiceIntent, sandbox
  <2>2. \/ row' = row \/ row' = NewRow(want)
        \/ row # None /\ want.des >= row.des /\ row' = [row EXCEPT !.st = want.st, !.rev = want.rev, !.des = want.des]
    BY <1>2 DEF PutManagedServiceIntent, Supersedes
  <2>3. CASE row' = NewRow(want)
    BY <2>3 DEF NewRow, Terminal
  <2>4. CASE row # None /\ want.des >= row.des /\ row' = [row EXCEPT !.st = want.st, !.rev = want.rev, !.des = want.des]
    <3>1. /\ row'.st = want.st /\ row'.phase = row.phase /\ row'.odes = row.odes /\ row'.des = want.des
          /\ row.des \in Nat /\ row.odes \in Nat /\ want.des \in Nat
      BY <1>1, <2>4 DEF Rows, Wants
    <3> QED BY <1>1, <2>1, <2>4, <3>1 DEF IInv, IssueInv
  <2> QED BY <1>1, <2>1, <2>2, <2>3, <2>4
<1>3. CASE MarkCreationDispatched \/ StartOutcomeUnknown \/ ReportFailed \/ ReportReady
  <2>1. row # None /\ row \in Rows
    BY <1>1, <1>3 DEF MarkCreationDispatched, StartOutcomeUnknown, ReportFailed, ReportReady, IInv, JobInv, RowIsOfJob,
                      ActiveSteps, FailSteps
  <2>2. CASE MarkCreationDispatched
    <3>1. row.st = "active" /\ row'.st = row.st
      BY <1>1, <2>1, <2>2 DEF MarkCreationDispatched, IInv, JobInv, RowIsOfJob, ActiveSteps, Rows
    <3> QED BY <3>1 DEF Terminal
  <2>3. CASE StartOutcomeUnknown \/ ReportFailed \/ ReportReady
    <3>1. row'.phase \notin Terminal
      BY <2>1, <2>3 DEF StartOutcomeUnknown, ReportFailed, ReportReady, Rows, Terminal
    <3> QED BY <3>1
  <2> QED BY <1>3, <2>2, <2>3
<1>4. CASE AcknowledgeStop
  <2>1. native' = native /\ work' = work /\ row # None /\ row \in Rows
    BY <1>1, <1>4 DEF AcknowledgeStop, sandbox, IInv, JobInv, RowIsOfJob, StopSteps
  <2>2. row'.phase = job.w.st
    BY <1>4, <2>1 DEF AcknowledgeStop, Rows
  <2> QED BY <1>4, <2>1, <2>2 DEF AcknowledgeStop, IInv, EndedInv
<1>5. CASE row' = row /\ (Start \/ EnsureWorkerExecution)
  BY <1>5 DEF Start, EnsureWorkerExecution, IInv, JobInv, RowIsOfJob, ActiveSteps, Terminal
<1>6. CASE row' = row /\ (native'.up => native.up) /\ (work'.st = "run" => work.st = "run")
  BY <1>1, <1>6
<1>9. CASE row' = row /\ (Reestablish \/ MonitorRestart)
  BY <1>9 DEF Reestablish, MonitorRestart, IInv, JobInv, RowIsOfJob, MonitorInv, ActiveSteps, Terminal
<1>7. CASE ScheduleHandoff
  BY <1>7 DEF ScheduleHandoff, store, Terminal
<1>8. CASE ~(PutManagedServiceIntent \/ MarkCreationDispatched \/ StartOutcomeUnknown \/ ReportFailed \/ ReportReady
             \/ AcknowledgeStop \/ Start \/ EnsureWorkerExecution \/ ScheduleHandoff \/ Reestablish \/ MonitorRestart)
  <2>1. row' = row
    BY <1>8, RowFrame
  <2>2. native'.up => native.up
    BY <1>1, <1>8, NativeFrame DEF StopProcess, ProcessDies, Natives
  <2>3. work'.st = "run" => work.st = "run"
    <3>1. CASE CancelExecution \/ ClaimTask
      BY <1>1, <3>1 DEF CancelExecution, ClaimTask, Works
    <3>2. CASE ExecutionReturns
      BY <1>1, <3>2 DEF ExecutionReturns, Works
    <3>3. CASE GoroutineEnds \/ Crash
      <4>1. work' = NoWork
        BY <3>3 DEF GoroutineEnds, Crash
      <4> QED BY <4>1 DEF NoWork
    <3> QED BY <1>8, <3>1, <3>2, <3>3, WorkFrame
  <2> QED BY <1>6, <2>1, <2>2, <2>3
<1> QED BY <1>2, <1>3, <1>4, <1>5, <1>7, <1>8, <1>9, RowFrame
-----------------------------------------------------------------------------
(***************************************************************************)
(* The theorems                                                            *)
(***************************************************************************)
LEMMA InitInv == Init => IInv
<1> SUFFICES ASSUME Init PROVE IInv
  OBVIOUS
<1> USE DEF Init
<1>1. TypeOK
  <2>1. want \in Wants
    BY BoundsAssumption DEF Wants, States, Gens
  <2>2. policy \in Policies /\ native \in Natives
    BY DEF Policies, Natives
  <2>3. work \in Works
    BY DEF Works, NoWork
  <2> QED BY <2>1, <2>2, <2>3, JobFields DEF TypeOK
<1>2. \A g \in Gens : made[g] = 0
  OBVIOUS
<1> QED BY <1>1, <1>2 DEF IInv, JobInv, IssueInv, MarkedInv, EndedInv, MonitorInv, OneSessionPerGeneration, AcknowledgedStopIsDown,
           ActiveSteps, StopSteps, FailSteps, MonitorSteps

LEMMA StepInv == IInv /\ [Next]_vars => IInv'
<1> SUFFICES ASSUME IInv, [Next]_vars PROVE IInv'
  OBVIOUS
<1>1. TypeOK /\ JobInv /\ IssueInv /\ MarkedInv /\ EndedInv /\ MonitorInv /\ OneSessionPerGeneration
  BY DEF IInv
<1>2. job' \in Jobs /\ JobInv'
  BY <1>1, JobStep
<1>3. TypeOK'
  BY <1>1, <1>2, WantType, PolicyType, RowType, SrcType, AppliedType, NativeType, MadeType, WorkType, CountType DEF TypeOK
<1>4. IssueInv' /\ MarkedInv' /\ EndedInv' /\ MonitorInv' /\ OneSessionPerGeneration'
  BY <1>1, IssueStep, MarkedStep, EndedStep, MonitorStep
<1> QED BY <1>2, <1>3, <1>4, DownStep DEF IInv

THEOREM Inductive == Spec => []IInv
BY InitInv, StepInv, PTL DEF Spec

(* Type correctness of the producer's rows, its pass, the process and the   *)
(* execution.                                                               *)
THEOREM TypeCorrect == Spec => []TypeOK
<1>1. IInv => TypeOK
  BY DEF IInv
<1> QED BY Inductive, <1>1, PTL

(* Whatever crashes, refusals, lost answers and reissued intents there are, *)
(* a generation gets at most one native session.                            *)
THEOREM OneSession == Spec => []OneSessionPerGeneration
<1>1. IInv => OneSessionPerGeneration
  BY DEF IInv
<1> QED BY Inductive, <1>1, PTL

(* A stop or retirement that is acknowledged under the row's desired        *)
(* revision has no process and no running execution.                        *)
THEOREM StoppedIsDown == Spec => []AcknowledgedStopIsDown
<1>1. IInv => AcknowledgedStopIsDown
  BY DEF IInv
<1> QED BY Inductive, <1>1, PTL
=============================================================================
