------------------------- MODULE ContinuityService -------------------------
(***************************************************************************)
(* internal/continuity/service.go: the capture operation on one sandbox,   *)
(* its freeze of the container, and the recovery of interrupted captures   *)
(* that precedes lifecycle reconciliation in every daemon pass.            *)
(*                                                                         *)
(* A capture is split where the daemon may crash or the world may move:    *)
(* between two writes of the operation row, and between a write and an     *)
(* engine call. Reads that only feed the next write are part of it.        *)
(***************************************************************************)
EXTENDS Naturals

CONSTANTS
    Ops,        \* identifiers of capture operations (rows of continuity_operations)
    None,       \* "nobody paused the container"
    Operator,   \* the human operator, who may pause the container by hand
    MaxRev,     \* bound: lifecycle revisions of the source
    MaxFaults,  \* bound: crashes, failed writes and failed engine calls
    MaxMoves    \* bound: operator and environment moves

ASSUME Distinct == None \notin Ops /\ Operator \notin Ops /\ None # Operator
ASSUME Bounds == MaxRev \in Nat \ {0} /\ MaxFaults \in Nat /\ MaxMoves \in Nat

VARIABLES
    opState,    \* durable: state column of each operation ("none": no row)
    owned,      \* durable: pause_owned column
    ownRev,     \* durable: pause_lifecycle_revision column
    recorded,   \* durable: operations whose capture row exists
    lifecycle,  \* durable: lifecycle column of the source
    rev,        \* durable: lifecycle_revision column of the source
    avail,      \* whether Registry.Resolve finds the source fresh and available
    engine,     \* the container: running, paused, stopped, or removed ("absent")
    pausedBy,   \* history: who placed the pause that is in force
    torn,       \* history: captures read while the container was not paused
    pc,         \* the daemon: where its single pass goroutine is
    cur,        \* local: the operation Capture works on
    wsLife,     \* local: lifecycle of the resolved workspace
    wsRev,      \* local: lifecycle revision of the resolved workspace
    frozen,     \* local: the `paused` flag of Capture
    readOk,     \* local: Objects.Capture returned no error
    todo,       \* local: operations Recover has still to visit
    failing,    \* local: Recover collected an error
    faults, moves

rowVars   == <<opState, owned, ownRev>>
srcVars   == <<lifecycle, rev, avail>>
boxVars   == <<engine, pausedBy>>
localVars == <<cur, wsLife, wsRev, frozen, readOk>>
recVars   == <<todo, failing>>
vars == <<rowVars, recorded, srcVars, boxVars, torn, pc, localVars, recVars,
          faults, moves>>

States == {"none", "pending", "pausing", "paused", "capturing", "captured",
           "failed", "recovery_required"}
Interrupted == {"pausing", "paused", "capturing", "recovery_required"}
InCapture == {"pending", "pausing", "confirm", "paused", "reading", "thaw",
              "record", "publish"}
Phases == {"down", "expire", "recover", "reconcile", "work"} \cup InCapture

TypeOK ==
    /\ opState \in [Ops -> States]
    /\ owned \in [Ops -> BOOLEAN]
    /\ ownRev \in [Ops -> Nat]
    /\ recorded \subseteq Ops
    /\ lifecycle \in {"running", "stopped"}
    /\ rev \in Nat
    /\ avail \in BOOLEAN
    /\ engine \in {"running", "paused", "stopped", "absent"}
    /\ pausedBy \in Ops \cup {None, Operator}
    /\ torn \subseteq Ops
    /\ pc \in Phases
    /\ cur \in Ops
    /\ wsLife \in {"running", "stopped"}
    /\ wsRev \in Nat
    /\ frozen \in BOOLEAN
    /\ readOk \in BOOLEAN
    /\ todo \subseteq Ops
    /\ failing \in BOOLEAN
    /\ faults \in Nat
    /\ moves \in Nat

Init ==
    /\ opState = [o \in Ops |-> "none"]
    /\ owned = [o \in Ops |-> FALSE]
    /\ ownRev = [o \in Ops |-> 0]
    /\ recorded = {}
    /\ lifecycle = "running" /\ rev = 1 /\ avail = TRUE
    /\ engine = "running" /\ pausedBy = None
    /\ torn = {}
    /\ pc = "expire"
    /\ cur \in Ops
    /\ wsLife = "running" /\ wsRev = 0 /\ frozen = FALSE /\ readOk = FALSE
    /\ todo = {} /\ failing = FALSE
    /\ faults = 0 /\ moves = 0

-----------------------------------------------------------------------------
(* The operation row.                                                      *)

\* Every failure of a write, an engine call or the daemon itself.
Fault == faults < MaxFaults /\ faults' = faults + 1

(* Definitions named Bad... are seeded faults, used by no action: each stands   *)
(* in for the definition after it to show that a property would notice.        *)

\* The UPDATE of TransitionContinuityOperation: every pause column is
\* overwritten with the transition's values, so that an omitted one is cleared.
Transition(o, to, own, r) ==
    /\ opState' = [opState EXCEPT ![o] = to]
    /\ owned' = [owned EXCEPT ![o] = own]
    /\ ownRev' = [ownRev EXCEPT ![o] = r]

\* transitionIndependent with its error dropped: the write happens or is lost.
Settle(o, to, own, r) ==
    \/ Transition(o, to, own, r) /\ UNCHANGED faults
    \/ Fault /\ UNCHANGED rowVars

\* The same after an engine call that failed: both may fail.
SettleAfterError(o, to, own, r) ==
    Fault /\ (Transition(o, to, own, r) \/ UNCHANGED rowVars)

\* Registry.Resolve succeeds and the fences the pause recorded still hold. The
\* sandbox generation is part of the identity: a different one fails Resolve.
SameTarget(o) == avail /\ rev = ownRev[o]

-----------------------------------------------------------------------------
(* Capture.                                                                *)

\* Validation and resolution pass, and the operation row is pending. A row in
\* any other state returns its outcome and changes nothing.
Request(o) ==
    /\ pc = "work" /\ avail
    /\ opState[o] \in {"none", "pending"}
    /\ opState' = [opState EXCEPT ![o] = "pending"]
    /\ cur' = o /\ wsLife' = lifecycle /\ wsRev' = rev
    /\ frozen' = FALSE /\ readOk' = FALSE
    /\ pc' = "pending"
    /\ UNCHANGED <<owned, ownRev, recorded, srcVars, boxVars, torn, recVars,
                   faults, moves>>

\* The operation fails before it touched the container: no budget left, or
\* the container of a running source is not running, or is already paused.
FailPending ==
    /\ pc = "pending"
    /\ Settle(cur, "failed", FALSE, 0)
    /\ pc' = "work"
    /\ UNCHANGED <<recorded, srcVars, boxVars, torn, localVars, recVars, moves>>

\* A stopped source is read without a freeze.
BeginStopped ==
    /\ pc = "pending" /\ wsLife = "stopped"
    /\ \/ Transition(cur, "capturing", FALSE, 0) /\ pc' = "reading" /\ UNCHANGED faults
       \/ Fault /\ UNCHANGED rowVars /\ pc' = "work"
    /\ UNCHANGED <<recorded, srcVars, boxVars, torn, localVars, recVars, moves>>

\* A running source is inspected; only a running container may be paused.
BeginPause ==
    /\ pc = "pending" /\ wsLife = "running" /\ engine = "running"
    /\ \/ Transition(cur, "pausing", FALSE, 0) /\ pc' = "pausing" /\ UNCHANGED faults
       \/ Fault /\ UNCHANGED rowVars /\ pc' = "work"
    /\ UNCHANGED <<recorded, srcVars, boxVars, torn, localVars, recVars, moves>>

\* Engine.Pause succeeds.
Pause ==
    /\ pc = "pausing" /\ engine = "running"
    /\ engine' = "paused" /\ pausedBy' = cur
    /\ pc' = "confirm"
    /\ UNCHANGED <<rowVars, recorded, srcVars, torn, localVars, recVars, faults,
                   moves>>

\* Engine.Pause returns an error: the container was not running, or the call
\* failed before or after it took effect.
PauseError ==
    /\ pc = "pausing"
    /\ \/ /\ engine # "running"
          /\ UNCHANGED boxVars
          /\ Settle(cur, "recovery_required", FALSE, 0)
       \/ /\ engine = "running"
          /\ \/ UNCHANGED boxVars
             \/ engine' = "paused" /\ pausedBy' = cur
          /\ SettleAfterError(cur, "recovery_required", FALSE, 0)
    /\ pc' = "work"
    /\ UNCHANGED <<recorded, srcVars, torn, localVars, recVars, moves>>

\* The pause is confirmed by a second inspection, then owned durably.
ConfirmPause ==
    /\ pc = "confirm" /\ engine = "paused"
    /\ \/ /\ Transition(cur, "paused", TRUE, wsRev)
          /\ frozen' = TRUE /\ pc' = "paused" /\ UNCHANGED faults
       \/ Fault /\ UNCHANGED <<rowVars, frozen>> /\ pc' = "work"
    /\ UNCHANGED <<recorded, srcVars, boxVars, torn, cur, wsLife, wsRev, readOk,
                   recVars, moves>>

\* The second inspection fails or does not show a paused container.
ConfirmError ==
    /\ pc = "confirm"
    /\ \/ engine # "paused" /\ Settle(cur, "recovery_required", FALSE, 0)
       \/ SettleAfterError(cur, "recovery_required", FALSE, 0)
    /\ pc' = "work"
    /\ UNCHANGED <<recorded, srcVars, boxVars, torn, localVars, recVars, moves>>

BeginRead ==
    /\ pc = "paused"
    /\ \/ /\ Transition(cur, "capturing", TRUE, wsRev)
          /\ torn' = IF engine = "paused" THEN torn ELSE torn \cup {cur}
          /\ pc' = "reading" /\ UNCHANGED faults
       \/ Fault /\ UNCHANGED <<rowVars, torn>> /\ pc' = "work"
    /\ UNCHANGED <<recorded, srcVars, boxVars, localVars, recVars, moves>>

\* Objects.Capture returns: an object, or an error (quota, deadline, layout).
Read ==
    /\ pc = "reading"
    /\ readOk' \in BOOLEAN
    /\ pc' = IF frozen THEN "thaw" ELSE "record"
    /\ UNCHANGED <<rowVars, recorded, srcVars, boxVars, torn, cur, wsLife, wsRev,
                   frozen, recVars, faults, moves>>

\* The container is not inspected before it is unpaused.
BadThaw ==
    /\ pc = "thaw" /\ owned[cur]
    /\ SameTarget(cur) /\ lifecycle = "running"
    /\ engine' = "running" /\ pausedBy' = None
    /\ pc' = "record"
    /\ UNCHANGED <<rowVars, recorded, srcVars, torn, localVars, recVars, faults,
                   moves>>

\* thawOwned: every fence of the owned pause holds and Engine.Unpause succeeds.
Thaw ==
    /\ pc = "thaw" /\ owned[cur]
    /\ SameTarget(cur) /\ lifecycle = "running" /\ engine = "paused"
    /\ engine' = "running" /\ pausedBy' = None
    /\ pc' = "record"
    /\ UNCHANGED <<rowVars, recorded, srcVars, torn, localVars, recVars, faults,
                   moves>>

\* thawOwned gives up: a fence changed, the container is not paused, the
\* inspection failed, or Unpause failed before or after it took effect.
ThawError ==
    /\ pc = "thaw" /\ owned[cur]
    /\ \/ /\ ~SameTarget(cur) \/ lifecycle # "running" \/ engine # "paused"
          /\ Settle(cur, "recovery_required", TRUE, ownRev[cur])
          /\ UNCHANGED boxVars
       \/ /\ SettleAfterError(cur, "recovery_required", TRUE, ownRev[cur])
          /\ \/ UNCHANGED boxVars
             \/ engine = "paused" /\ engine' = "running" /\ pausedBy' = None
    /\ pc' = "work"
    /\ UNCHANGED <<recorded, srcVars, torn, localVars, recVars, moves>>

\* PutContinuityCapture inserts the capture row.
Record ==
    /\ pc = "record" /\ readOk
    /\ recorded' = recorded \cup {cur}
    /\ pc' = "publish"
    /\ UNCHANGED <<rowVars, srcVars, boxVars, torn, localVars, recVars, faults,
                   moves>>

\* The read failed, or the capture row was refused.
RecordError ==
    /\ pc = "record"
    /\ Settle(cur, "failed", FALSE, 0)
    /\ pc' = "work"
    /\ UNCHANGED <<recorded, srcVars, boxVars, torn, localVars, recVars, moves>>

Publish ==
    /\ pc = "publish"
    /\ Settle(cur, "captured", FALSE, 0)
    /\ pc' = "work"
    /\ UNCHANGED <<recorded, srcVars, boxVars, torn, localVars, recVars, moves>>

-----------------------------------------------------------------------------
(* The pass: Expire, Recover, lifecycle reconciliation, captures.          *)

\* Expire removes the container of an expired temporary sandbox, or nothing.
Expire ==
    /\ pc = "expire"
    /\ \/ UNCHANGED <<boxVars, torn, moves>>
       \/ /\ engine # "absent" /\ moves < MaxMoves /\ moves' = moves + 1
          /\ engine' = "absent" /\ pausedBy' = None /\ UNCHANGED torn
    /\ pc' = "recover"
    /\ todo' = {o \in Ops : opState[o] \in Interrupted} /\ failing' = FALSE
    /\ UNCHANGED <<rowVars, recorded, srcVars, localVars, faults>>

\* A capture interrupted while pausing is taken for one that never paused.
BadRecoverBlocked(o) ==
    /\ \/ /\ opState[o] = "recovery_required"
          /\ UNCHANGED <<rowVars, faults>>
       \/ /\ opState[o] = "pausing"
          /\ Settle(o, "failed", FALSE, 0)
       \/ /\ opState[o] \in {"paused", "capturing"} /\ owned[o]
          /\ \/ /\ ~SameTarget(o) \/ engine = "absent"
                /\ Settle(o, "recovery_required", TRUE, ownRev[o])
             \/ SettleAfterError(o, "recovery_required", TRUE, ownRev[o])
    /\ failing' = TRUE
    /\ UNCHANGED boxVars

\* One iteration of Recover that ends in an error for this operation: its row
\* is already, or becomes, recovery_required.
RecoverBlocked(o) ==
    /\ \/ /\ opState[o] = "recovery_required"
          /\ UNCHANGED <<rowVars, faults>>
       \/ /\ opState[o] = "pausing"
          /\ Settle(o, "recovery_required", FALSE, 0)
       \/ /\ opState[o] \in {"paused", "capturing"} /\ owned[o]
          /\ \/ /\ ~SameTarget(o) \/ engine = "absent"
                /\ Settle(o, "recovery_required", TRUE, ownRev[o])
             \/ SettleAfterError(o, "recovery_required", TRUE, ownRev[o])
    /\ failing' = TRUE
    /\ UNCHANGED boxVars

\* The row stays as it is and the next pass tries again: Unpause failed
\* (before or after it took effect), or the container is neither paused nor
\* running, or the thaw was not recorded.
RecoverRetry(o) ==
    /\ opState[o] \in {"paused", "capturing"} /\ owned[o] /\ SameTarget(o)
    /\ \/ engine = "stopped" /\ UNCHANGED <<boxVars, faults>>
       \/ engine = "paused" /\ Fault
          /\ (UNCHANGED boxVars \/ (engine' = "running" /\ pausedBy' = None))
       \/ engine = "running" /\ Fault /\ UNCHANGED boxVars
    /\ UNCHANGED rowVars
    /\ failing' = TRUE

\* A container that is still paused is reported, not unpaused.
BadRecoverThaw(o) ==
    /\ opState[o] \in {"paused", "capturing"} /\ owned[o] /\ SameTarget(o)
    /\ \/ engine = "running" /\ Transition(o, "failed", FALSE, 0) /\ UNCHANGED failing
       \/ engine = "paused" /\ UNCHANGED rowVars /\ failing' = TRUE
    /\ UNCHANGED <<boxVars, faults>>

\* The owned pause is lifted (or was already lifted) and the operation fails.
RecoverThaw(o) ==
    /\ opState[o] \in {"paused", "capturing"} /\ owned[o] /\ SameTarget(o)
    /\ engine \in {"paused", "running"}
    /\ engine' = "running"
    /\ pausedBy' = None
    /\ Transition(o, "failed", FALSE, 0)
    /\ UNCHANGED <<failing, faults>>

\* A capture of a stopped source holds no pause: it is marked interrupted.
RecoverStopped(o) ==
    /\ opState[o] = "capturing" /\ ~owned[o]
    /\ \/ Transition(o, "failed", FALSE, 0) /\ UNCHANGED <<failing, faults>>
       \/ Fault /\ UNCHANGED rowVars /\ failing' = TRUE
    /\ UNCHANGED boxVars

\* Recover visits the interrupted operations one by one.
Recover(o) ==
    /\ pc = "recover" /\ o \in todo
    /\ RecoverBlocked(o) \/ RecoverRetry(o) \/ RecoverThaw(o) \/ RecoverStopped(o)
    /\ todo' = todo \ {o}
    /\ UNCHANGED <<recorded, srcVars, torn, pc, localVars, moves>>

\* A joined error aborts the pass before any lifecycle step.
RecoverDone ==
    /\ pc = "recover" /\ todo = {}
    /\ pc' = IF failing THEN "expire" ELSE "reconcile"
    /\ UNCHANGED <<rowVars, recorded, srcVars, boxVars, torn, localVars, recVars,
                   faults, moves>>

\* Lifecycle reconciliation of this pass: the managed service is stopped or
\* (re)started under a newer action revision, the container is stopped or
\* restarted, the source is observed, or nothing changes.
Reconcile ==
    /\ pc = "reconcile"
    /\ \/ /\ rev < MaxRev /\ rev' = rev + 1
          /\ lifecycle' \in {"running", "stopped"} /\ avail' = (lifecycle' = "running")
          /\ UNCHANGED boxVars
       \/ /\ engine # "absent"
          /\ engine' \in {"running", "stopped"} /\ pausedBy' = None
          /\ UNCHANGED srcVars
       \/ avail' \in BOOLEAN /\ UNCHANGED <<lifecycle, rev, boxVars>>
    /\ pc' = "work"
    /\ UNCHANGED <<rowVars, recorded, torn, localVars, recVars, faults, moves>>

EndPass ==
    /\ pc = "work"
    /\ pc' = "expire"
    /\ UNCHANGED <<rowVars, recorded, srcVars, boxVars, torn, localVars, recVars,
                   faults, moves>>

-----------------------------------------------------------------------------
(* The environment.                                                        *)

\* The process dies: every local is lost, every row stays.
Crash ==
    /\ pc # "down" /\ Fault
    /\ pc' = "down"
    /\ UNCHANGED <<rowVars, recorded, srcVars, boxVars, torn, localVars, recVars,
                   moves>>

\* The host reboots: the daemon dies and no container is left running or paused.
HostReboot ==
    /\ Fault
    /\ pc' = "down"
    /\ engine' = (IF engine = "absent" THEN "absent" ELSE "stopped")
    /\ pausedBy' = None
    /\ UNCHANGED <<rowVars, recorded, srcVars, torn, localVars, recVars, moves>>

Restart ==
    /\ pc = "down"
    /\ pc' = "expire"
    /\ UNCHANGED <<rowVars, recorded, srcVars, boxVars, torn, localVars, recVars,
                   faults, moves>>

\* A container that leaves the paused state while it is read tears the capture.
Tear == torn' = IF pc = "reading" /\ frozen THEN torn \cup {cur} ELSE torn

OperatorPause ==
    /\ engine = "running" /\ moves < MaxMoves
    /\ engine' = "paused" /\ pausedBy' = Operator
    /\ moves' = moves + 1
    /\ UNCHANGED <<rowVars, recorded, srcVars, torn, pc, localVars, recVars, faults>>

OperatorUnpause ==
    /\ engine = "paused" /\ moves < MaxMoves
    /\ engine' = "running" /\ pausedBy' = None
    /\ Tear
    /\ moves' = moves + 1
    /\ UNCHANGED <<rowVars, recorded, srcVars, pc, localVars, recVars, faults>>

\* The container's main process ends.
ContainerExit ==
    /\ engine = "running" /\ moves < MaxMoves
    /\ engine' = "stopped" /\ pausedBy' = None
    /\ moves' = moves + 1
    /\ UNCHANGED <<rowVars, recorded, srcVars, torn, pc, localVars, recVars, faults>>

\* The last observation of the source grows older than SourceFreshness.
SourceStale ==
    /\ avail /\ moves < MaxMoves
    /\ avail' = FALSE
    /\ moves' = moves + 1
    /\ UNCHANGED <<rowVars, recorded, lifecycle, rev, boxVars, torn, pc, localVars,
                   recVars, faults>>

-----------------------------------------------------------------------------
CaptureStep ==
    \/ \E o \in Ops : Request(o)
    \/ FailPending \/ BeginStopped \/ BeginPause
    \/ Pause \/ PauseError \/ ConfirmPause \/ ConfirmError
    \/ BeginRead \/ Read \/ Thaw \/ ThawError
    \/ Record \/ RecordError \/ Publish

PassStep ==
    \/ Expire
    \/ \E o \in Ops : Recover(o)
    \/ RecoverDone \/ Reconcile \/ EndPass

Environment == OperatorPause \/ OperatorUnpause \/ ContainerExit \/ SourceStale

Daemon == CaptureStep \/ PassStep \/ Restart

Next == Daemon \/ Crash \/ HostReboot \/ Environment

Spec == Init /\ [][Next]_vars

\* systemd restarts the daemon and the daemon's pass loop never stops; nothing
\* is assumed of crashes, the operator or the environment.
FairSpec == Spec /\ WF_vars(Daemon)

-----------------------------------------------------------------------------
(* Correctness.                                                            *)

\* A container frozen by a capture is never forgotten: as long as the pause
\* that operation o placed is in force, o's row is one that Recover visits,
\* and a row past the point of uncertainty claims the pause. Capture, thawOwned
\* and Recover (service.go:150-622) must not settle a row under a live freeze.
NoForgottenFreeze ==
    \A o \in Ops : pausedBy = o =>
        /\ engine = "paused"
        /\ opState[o] \in Interrupted
        /\ opState[o] \in {"paused", "capturing"} => owned[o]

\* Lifecycle reconciliation runs only when every interrupted capture has been
\* settled: Recover's joined error (service.go:454-541) aborts the pass.
ReconcileSeesSettledOps ==
    pc = "reconcile" => \A o \in Ops : opState[o] \notin Interrupted /\ pausedBy # o

\* A freeze is neither forgotten nor met by lifecycle reconciliation.
FreezeIsFenced == NoForgottenFreeze /\ ReconcileSeesSettledOps

\* A capture whose freeze was broken while it was read is thawed, and so
\* recorded, only if the operator had paused the container again: thawOwned
\* (service.go:580-622) refuses a container it does not find paused.
TornReadRefused ==
    [][pc = "thaw" /\ pc' = "record" /\ cur \in torn => pausedBy = Operator]_vars

\* Whatever fails, a container frozen by a capture is thawed (or gone), or its
\* operation asks for recovery: the watchdog thaw and Recover retry until then.
FreezeIsResolved ==
    \A o \in Ops : (pausedBy = o) ~> (pausedBy # o \/ opState[o] = "recovery_required")
=============================================================================
