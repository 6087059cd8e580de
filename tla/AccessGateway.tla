--------------------------- MODULE AccessGateway ---------------------------
(***************************************************************************)
(* internal/access/access.go, cmd/warpmetal-sandbox-gateway and            *)
(* reconcileGrants of internal/reconcile/reconcile.go: who gets a session  *)
(* in one sandbox. The pass writes the grant rows and the authorized_keys  *)
(* file and cuts sessions; a goroutine per connection reads the rows, one  *)
(* after the other, registers its session and runs it. Nothing but the     *)
(* session table is locked, so every read may be stale when it is used.    *)
(*                                                                         *)
(* Key material, frames and the fields that identify a handoff's target    *)
(* are abstracted to "matches" or "does not": parts holds the rows that    *)
(* match what a descriptor names. The sandbox's own life is               *)
(* SandboxLifecycle's; here it runs or it is stopped.                      *)
(*                                                                         *)
(* Definitions named Bad... are seeded faults, used by no action: each     *)
(* stands in for the definition after it to show a property would notice.  *)
(***************************************************************************)
EXTENDS Naturals, FiniteSets

CONSTANTS
    Grants,         \* the access grants of one sandbox
    Conns,          \* connections, each served by a goroutine of its own
    MaxAccessMoves, \* bound: changes of the manifest and of the rows handoffs name
    MaxAccessFaults \* bound: failing writes, expired contexts, crashes

ASSUME AccessBounds == MaxAccessMoves \in Nat /\ MaxAccessFaults \in Nat

VARIABLES
    wanted,     \* control plane: desired state of the grants and the sandbox
    manifest,   \* local: the manifest of this pass
    grant,      \* durable: the grant rows
    keys,       \* the authorized_keys file
    box,        \* durable: desired and observed state of the sandbox row
    up,         \* the container runs
    conn,       \* the connections
    parts,      \* rows that match what a handoff names
    bound,      \* the supervisor holds a prepared receipt for the Foreman
    at, todo,   \* the pass, and the grants its current loop has left
    cur,        \* local: the grant whose sessions are being cut
    wait,       \* local: the sessions whose end is awaited
    accessFaults, accessMoves

passVars == <<manifest, at, todo, cur, wait>>
envVars == <<wanted, parts, bound>>
rows == <<grant, keys, box, up>>
accessVars == <<envVars, passVars, rows, conn, accessFaults, accessMoves>>

None == "none"
NoGrant == [des |-> None, obs |-> None]
Idle == [st |-> "idle", g |-> None, ask |-> None, may |-> None, cut |-> FALSE]

\* The managed service with its project and continuity source, the manager's
\* run with its capability, the controller parent with its projection.
Parts == {"target", "run", "parent"}
Asks == {"shell", "worker", "manager", "chat"}
Rights == {"shell", "write", "read", "chat"}

AccessTypeOK ==
    /\ wanted \in [g : [Grants -> {"active", "revoked", "omitted"}], box : {"running", "stopped"}]
    /\ manifest \in [g : [Grants -> {"active", "revoked", "omitted"}], box : {"running", "stopped"}]
    /\ grant \in [Grants -> [des : {None, "active", "revoked"},
                             obs : {None, "pending", "applied", "revoking", "revoked", "failed"}]]
    /\ keys \subseteq Grants /\ up \in BOOLEAN /\ bound \in BOOLEAN
    /\ box \in [des : {"running", "stopped"}, obs : {"running", "stopping", "stopped"}]
    /\ conn \in [Conns -> [st : {"idle", "grant", "box", "handoff", "prepare", "checked", "open",
                                 "running", "ending"},
                           g : Grants \cup {None}, ask : Asks \cup {None},
                           may : Rights \cup {None}, cut : BOOLEAN]]
    /\ parts \subseteq Parts /\ todo \subseteq Grants /\ wait \subseteq Conns
    /\ cur \in Grants \cup {None}
    /\ at \in {"start", "box", "term_box", "stop", "listed", "wait", "omitted", "wait_omitted",
               "write", "mark", "failed"}
    /\ accessFaults \in Nat /\ accessMoves \in Nat

AccessInit ==
    /\ wanted = [g |-> [g \in Grants |-> "active"], box |-> "running"] /\ manifest = wanted
    /\ grant = [g \in Grants |-> NoGrant] /\ keys = {}
    /\ box = [des |-> "running", obs |-> "running"] /\ up = TRUE
    /\ conn = [c \in Conns |-> Idle] /\ parts = Parts \ {"run"} /\ bound = FALSE
    /\ at = "start" /\ todo = {} /\ cur = None /\ wait = {}
    /\ accessFaults = 0 /\ accessMoves = 0

AccessFault == accessFaults < MaxAccessFaults /\ accessFaults' = accessFaults + 1
AccessMove == accessMoves < MaxAccessMoves /\ accessMoves' = accessMoves + 1

-----------------------------------------------------------------------------
(* The gateway's session table.                                            *)

Tracked(c) == conn[c].st \in {"open", "running", "ending"}
TrackedOf(gs) == {c \in Conns : Tracked(c) /\ conn[c].g \in gs}

Cut(cs) == conn' = [c \in Conns |-> IF c \in cs THEN [conn[c] EXCEPT !.cut = TRUE] ELSE conn[c]]

\* TerminateGrant, up to the unlock: cancel every session of the grant, then
\* wait for them without the lock.
Terminate(gs, next) ==
    /\ Cut(TrackedOf(gs)) /\ wait' = TrackedOf(gs) /\ at' = next

-----------------------------------------------------------------------------
(* The pass.                                                               *)

StartPass ==
    /\ at = "start"
    /\ manifest' = wanted /\ at' = "box"
    /\ UNCHANGED <<envVars, rows, conn, todo, cur, wait, accessFaults, accessMoves>>

\* A sandbox that shall stop says so in its row before its sessions are cut.
ReconcileBox ==
    /\ at = "box"
    /\ IF manifest.box = "running"
       THEN /\ box' = [des |-> "running", obs |-> "running"] /\ up' = TRUE
            /\ at' = "listed" /\ todo' = {g \in Grants : manifest.g[g] # "omitted"}
       ELSE /\ box' = [des |-> "stopped", obs |-> IF box.obs = "stopped" THEN "stopped" ELSE "stopping"]
            /\ at' = "term_box" /\ UNCHANGED <<up, todo>>
    /\ UNCHANGED <<envVars, manifest, grant, keys, conn, cur, wait, accessFaults, accessMoves>>

\* TerminateSandbox: by the grant rows of the sandbox.
TerminateSandbox ==
    /\ at = "term_box"
    /\ Terminate({g \in Grants : grant[g] # NoGrant}, "stop")
    /\ UNCHANGED <<envVars, rows, manifest, todo, cur, accessFaults, accessMoves>>

\* The drain is awaited or its context expires; its error is ignored. The
\* processes of a stopped container end.
StopBox ==
    /\ at = "stop"
    /\ (wait = {} /\ UNCHANGED accessFaults) \/ AccessFault
    /\ up' = FALSE /\ box' = [box EXCEPT !.obs = "stopped"]
    /\ conn' = [c \in Conns |-> IF conn[c].st = "running" THEN [conn[c] EXCEPT !.st = "ending"] ELSE conn[c]]
    /\ wait' = {} /\ at' = "listed" /\ todo' = {g \in Grants : manifest.g[g] # "omitted"}
    /\ UNCHANGED <<envVars, manifest, grant, keys, cur, accessMoves>>

\* An error ends the pass.
Abort == AccessFault /\ at' = "start" /\ todo' = {} /\ cur' = None /\ wait' = {}

Put(g, des, obs) == grant' = [grant EXCEPT ![g] = [des |-> des, obs |-> obs]]

ApplyGrant(g) ==
    /\ at = "listed" /\ g \in todo /\ manifest.g[g] = "active"
    /\ \/ /\ Put(g, "active", IF grant[g] = NoGrant THEN "pending" ELSE grant[g].obs)
          /\ todo' = todo \ {g} /\ UNCHANGED <<at, cur, wait, accessFaults>>
       \/ Abort /\ UNCHANGED grant
    /\ UNCHANGED <<envVars, manifest, keys, box, up, conn, accessMoves>>

\* A grant that is revoked already is not cut again.
BadRevokeGrant(g) ==
    /\ at = "listed" /\ g \in todo /\ manifest.g[g] = "revoked"
    /\ IF grant[g].des = "active" THEN Terminate({g}, "wait") ELSE at' = "wait" /\ UNCHANGED <<conn, wait>>
    /\ cur' = g
    /\ UNCHANGED <<envVars, rows, manifest, todo, accessFaults, accessMoves>>

\* A listed revoked grant is cut in every pass.
RevokeGrant(g) ==
    /\ at = "listed" /\ g \in todo /\ manifest.g[g] = "revoked"
    /\ Terminate({g}, "wait") /\ cur' = g
    /\ UNCHANGED <<envVars, rows, manifest, todo, accessFaults, accessMoves>>

ListedDone ==
    /\ at = "listed" /\ todo = {}
    /\ at' = "omitted" /\ todo' = {g \in Grants : manifest.g[g] = "omitted" /\ grant[g].des = "active"}
    /\ UNCHANGED <<envVars, rows, manifest, conn, cur, wait, accessFaults, accessMoves>>

\* An omitted grant is cut in the pass that finds it active.
OmitGrant(g) ==
    /\ at = "omitted" /\ g \in todo
    /\ Terminate({g}, "wait_omitted") /\ cur' = g
    /\ UNCHANGED <<envVars, rows, manifest, todo, accessFaults, accessMoves>>

\* The row is revoked while its sessions are still ending.
BadRevoked ==
    /\ at \in {"wait", "wait_omitted"}
    /\ Put(cur, "revoked", "revoking") /\ todo' = todo \ {cur} /\ cur' = None /\ wait' = {}
    /\ at' = IF at = "wait" THEN "listed" ELSE "omitted"
    /\ UNCHANGED <<envVars, manifest, keys, box, up, conn, accessFaults, accessMoves>>

\* The row is revoked when its sessions have ended.
Revoked ==
    /\ at \in {"wait", "wait_omitted"}
    /\ \/ /\ wait = {} /\ Put(cur, "revoked", "revoking")
          /\ todo' = todo \ {cur} /\ cur' = None
          /\ at' = IF at = "wait" THEN "listed" ELSE "omitted"
          /\ UNCHANGED <<wait, accessFaults>>
       \/ Abort /\ UNCHANGED grant
    /\ UNCHANGED <<envVars, manifest, keys, box, up, conn, accessMoves>>

OmittedDone ==
    /\ at = "omitted" /\ todo = {}
    /\ at' = "write"
    /\ UNCHANGED <<envVars, rows, manifest, conn, todo, cur, wait, accessFaults, accessMoves>>

Active == {g \in Grants : grant[g].des = "active"}

\* Renderer.Write: the file is replaced as a whole, or it stays.
WriteKeys ==
    /\ at = "write"
    /\ \/ keys' = Active /\ at' = "mark" /\ todo' = {g \in Grants : grant[g] # NoGrant} /\ UNCHANGED accessFaults
       \/ AccessFault /\ at' = "failed" /\ UNCHANGED <<keys, todo>>
    /\ UNCHANGED <<envVars, manifest, grant, box, up, conn, cur, wait, accessMoves>>

\* Rows whose key may be missing are marked, as far as that succeeds.
MarkFailed ==
    /\ at = "failed"
    /\ \E gs \in SUBSET Active :
          /\ (gs = Active /\ UNCHANGED accessFaults) \/ AccessFault
          /\ grant' = [g \in Grants |-> IF g \in gs THEN [grant[g] EXCEPT !.obs = "failed"] ELSE grant[g]]
    /\ at' = "start"
    /\ UNCHANGED <<envVars, manifest, keys, box, up, conn, todo, cur, wait, accessMoves>>

\* Applied or revoked; the row of an omitted grant goes.
MarkGrant(g) ==
    /\ at = "mark" /\ g \in todo
    /\ \/ /\ IF manifest.g[g] = "omitted" THEN grant' = [grant EXCEPT ![g] = NoGrant]
             ELSE Put(g, grant[g].des, IF grant[g].des = "active" THEN "applied" ELSE "revoked")
          /\ todo' = todo \ {g} /\ UNCHANGED <<at, cur, wait, accessFaults>>
       \/ Abort /\ grant' \in {grant, [grant EXCEPT ![g].obs = IF @ = "revoking" THEN "revoked" ELSE @]}
    /\ UNCHANGED <<envVars, manifest, keys, box, up, conn, accessMoves>>

EndGrantPass ==
    /\ at = "mark" /\ todo = {}
    /\ at' = "start"
    /\ UNCHANGED <<envVars, rows, manifest, conn, todo, cur, wait, accessFaults, accessMoves>>

-----------------------------------------------------------------------------
(* One connection.                                                         *)

Set(c, field) == conn' = [conn EXCEPT ![c] = field]
Refuse(c) == Set(c, Idle)
Goto(c, st) == Set(c, [conn[c] EXCEPT !.st = st])
ConnStep == UNCHANGED <<envVars, passVars, rows, accessFaults, accessMoves>>

\* sshd finds the key and runs the gateway, which connects and sends the hello.
Accept(c) ==
    /\ conn[c].st = "idle"
    /\ \E g \in keys, ask \in Asks : Set(c, [Idle EXCEPT !.st = "grant", !.g = g, !.ask = ask])
    /\ ConnStep

ReadGrant(c) ==
    /\ conn[c].st = "grant"
    /\ IF grant[conn[c].g] = [des |-> "active", obs |-> "applied"] THEN Goto(c, "box") ELSE Refuse(c)
    /\ ConnStep

ReadBox(c) ==
    /\ conn[c].st = "box"
    /\ IF box # [des |-> "running", obs |-> "running"] THEN Refuse(c)
       ELSE IF conn[c].ask = "shell" THEN Set(c, [conn[c] EXCEPT !.st = "checked", !.may = "shell"])
       ELSE Goto(c, "handoff")
    /\ ConnStep

\* The exact service, project, source and, for continued work, registration.
WorkerMayOpen == "target" \in parts

\* A completed manager run is opened read-only, and only when its own rows
\* and the primary source still match.
ManagerMayOpen == {"run", "target"} \subseteq parts

\* The run mapping, not the descriptor, selects the path; a manager's session
\* is no continuity source.
SessionHandoff(c) ==
    /\ conn[c].st = "handoff" /\ conn[c].ask \in {"worker", "manager"}
    /\ IF conn[c].ask = "manager" /\ ManagerMayOpen
       THEN Set(c, [conn[c] EXCEPT !.st = "checked", !.may = "read"])
       ELSE IF conn[c].ask = "worker" /\ WorkerMayOpen
       THEN Set(c, [conn[c] EXCEPT !.st = "checked", !.may = "write"])
       ELSE Refuse(c)
    /\ ConnStep

\* Chat is for a controller parent whose application was applied and whose
\* projection names the pinned model.
ChatMayOpen == "parent" \in parts

\* Foreman chat: the parent, its project and its running native instance.
ChatHandoff(c) ==
    /\ conn[c].st = "handoff" /\ conn[c].ask = "chat"
    /\ IF ChatMayOpen THEN Goto(c, "prepare") ELSE Refuse(c)
    /\ ConnStep

\* The supervisor's receipt is reused, or the credential is fetched and a new
\* receipt is bound; either call may be refused.
PrepareChat(c) ==
    /\ conn[c].st = "prepare"
    /\ \/ Set(c, [conn[c] EXCEPT !.st = "checked", !.may = "chat"]) /\ bound' = TRUE
       \/ Refuse(c) /\ bound' \in {bound, TRUE}
    /\ UNCHANGED <<wanted, parts, passVars, rows, accessFaults, accessMoves>>

AddSession(c) ==
    /\ conn[c].st = "checked"
    /\ Goto(c, "open")
    /\ ConnStep

\* Exec in the container; it fails at once when the container is stopped or
\* the session was cut.
Exec(c) ==
    /\ conn[c].st = "open"
    /\ Goto(c, IF up /\ ~conn[c].cut THEN "running" ELSE "ending")
    /\ ConnStep

\* The command ends, the client leaves, or the session was cut.
ExecEnds(c) ==
    /\ conn[c].st = "running"
    /\ Goto(c, "ending")
    /\ ConnStep

\* finishSession deletes the entry and tells who waits for it.
FinishSession(c) ==
    /\ conn[c].st = "ending"
    /\ Refuse(c) /\ wait' = wait \ {c}
    /\ UNCHANGED <<envVars, manifest, at, todo, cur, rows, accessFaults, accessMoves>>

-----------------------------------------------------------------------------
(* The environment.                                                        *)

AccessControlPlane ==
    /\ AccessMove
    /\ \/ \E g \in Grants, st \in {"active", "revoked", "omitted"} :
             wanted.g[g] # st /\ wanted' = [wanted EXCEPT !.g[g] = st]
       \/ wanted' = [wanted EXCEPT !.box = IF @ = "running" THEN "stopped" ELSE "running"]
    /\ UNCHANGED <<parts, bound, passVars, rows, conn, accessFaults>>

\* The other passes' work: a service, project, source, run or parent changes.
RowsMove ==
    /\ AccessMove
    /\ \E p \in Parts : parts' = IF p \in parts THEN parts \ {p} ELSE parts \cup {p}
    /\ bound' = (bound /\ "parent" \in parts')
    /\ UNCHANGED <<wanted, passVars, rows, conn, accessFaults>>

\* The daemon's death ends the pass, the goroutines and their sessions.
GatewayCrash ==
    /\ Abort
    /\ conn' = [c \in Conns |-> Idle]
    /\ UNCHANGED <<envVars, manifest, rows, accessMoves>>

Pass ==
    \/ StartPass \/ ReconcileBox \/ TerminateSandbox \/ StopBox \/ ListedDone \/ Revoked
    \/ OmittedDone \/ WriteKeys \/ MarkFailed \/ EndGrantPass
    \/ \E g \in Grants : ApplyGrant(g) \/ RevokeGrant(g) \/ OmitGrant(g) \/ MarkGrant(g)

\* What a goroutine does by itself; clients come and leave as they like.
Serve(c) ==
    \/ ReadGrant(c) \/ ReadBox(c) \/ SessionHandoff(c) \/ ChatHandoff(c) \/ PrepareChat(c)
    \/ AddSession(c) \/ Exec(c) \/ FinishSession(c)
    \/ conn[c].cut /\ ExecEnds(c)

AccessNext ==
    \/ Pass \/ AccessControlPlane \/ RowsMove \/ GatewayCrash
    \/ \E c \in Conns : Accept(c) \/ Serve(c) \/ ExecEnds(c)

AccessSpec == AccessInit /\ [][AccessNext]_accessVars /\ WF_accessVars(Pass) /\ \A c \in Conns : WF_accessVars(Serve(c))

-----------------------------------------------------------------------------
(* Properties.                                                             *)

\* When a row is marked revoked, the sessions of the grant are those whose
\* goroutine had read the row before: none that was in the table when
\* TerminateGrant took the lock is left.
CutBeforeRevoked ==
    [][\A g \in Grants, c \in Conns :
          (grant'[g].obs = "revoking" /\ grant[g].obs # "revoking" /\ Tracked(c) /\ conn[c].g = g)
             => ~conn[c].cut]_accessVars

\* A revoked grant that stays listed has no session in the end, not even one
\* that slipped past a termination.
RevokedIsCut ==
    \A g \in Grants : <>[](wanted.g[g] = "revoked" => \A c \in Conns : conn[c].g # g \/ ~Tracked(c))
=============================================================================
