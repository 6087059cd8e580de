---------------------------- MODULE ManifestRules ----------------------------
(***************************************************************************)
(* internal/model/model.go: the manifest the control plane serves, and the *)
(* rules ValidateManifest checks before a pass may use it. A section is a  *)
(* sequence of small records; the patterns, digests and bounds a field is  *)
(* matched against, and the limits on the number of entries, are one       *)
(* Boolean, ok. Every other rule that relates two entries is kept.         *)
(***************************************************************************)
EXTENDS Naturals, Sequences, FiniteSets

CONSTANT
    Server   \* the node's registered identity

(* The wire types.                                                         *)

Resources == [disk : Nat, cpu : Nat]
Desired == {"running", "stopped", "deleted"}
Expiry == {"none", "valid", "invalid"}
Sandbox == [id : STRING, name : STRING, want : Desired, gen : Nat, ok : BOOLEAN,
            life : STRING, expires : Expiry, res : Resources]
ContinuityBindingV1 == [id : STRING, rev : Nat, session : STRING]
ContinuityIdentityV1 == [work : STRING, box : STRING, gen : Nat, rev : Nat]
ContinuityRegistrationV1 ==
    [identity : ContinuityIdentityV1, binding : ContinuityBindingV1, scope : Nat,
     want : {"active", "revoked"}, enabled : BOOLEAN, ok : BOOLEAN]
ContinuityOperationV1 ==
    [id : STRING, identity : ContinuityIdentityV1, binding : ContinuityBindingV1, scope : Nat,
     kind : {"initial", "task", "stopped"}, task : BOOLEAN, ok : BOOLEAN]
SetupOperation == [id : STRING, box : STRING, gen : Nat, profile : STRING, ok : BOOLEAN]
ManagedWorkspaceRequestV1 ==
    [service : STRING, box : STRING, gen : Nat, team : BOOLEAN, cell : BOOLEAN, ok : BOOLEAN]
ServiceWants == {"active", "paused", "stopped", "retired"}
ManagedServiceV1 ==
    [id : STRING, box : STRING, gen : Nat, want : ServiceWants,
     mode : {"create_initial", "lookup_only"}, setup : STRING, profile : STRING, ok : BOOLEAN]
ControllerParentIntent ==
    [id : STRING, box : STRING, gen : Nat, role : {"manager", "orchestrator"},
     setup : STRING, profile : STRING, config : STRING, ok : BOOLEAN]
CellEntry ==
    [id : STRING, operation : STRING, launch : STRING, session : STRING, format : {2, 3},
     phase : {"prepare", "execute"}, receipt : BOOLEAN, grant : {"none", "own", "other"},
     box : STRING, gen : Nat, want : ServiceWants, setup : STRING, profile : STRING, ok : BOOLEAN]
S2Kinds == {"continuation", "release", "restore", "handoff", "handoff release"}
S2Operation ==
    [id : STRING, kind : S2Kinds, box : STRING, gen : Nat, target : STRING, targetGen : Nat,
     rev : Nat, prepareRev : Nat, role : {"worker", "reviewer"},
     mode : {"none", "allocate_and_materialize", "accepted_restore"}, ok : BOOLEAN]
InsightsManagerPolicyManifestV1 ==
    [box : STRING, gen : Nat, mode : {"off", "recommend", "auto_steer"},
     rules : Nat, steer : {"absent", "available", "unavailable", "malformed"}, ok : BOOLEAN]
InsightsManagerReviewManifestV1 ==
    [id : STRING, finding : STRING, rev : Nat, evidence : [finding : STRING, rev : Nat], ok : BOOLEAN]
InsightsTakeoverManifestV1 ==
    [id : STRING, action : {"pause", "resume"}, predecessor : BOOLEAN,
     hold : {"active", "released"}, ok : BOOLEAN]
AccessGrant == [id : STRING, box : STRING, key : STRING, want : {"active", "revoked"}, ok : BOOLEAN]

Manifest ==
    [server : STRING, rev : Nat, ok : BOOLEAN, capacity : Resources,
     sandboxes : Seq(Sandbox), registrations : Seq(ContinuityRegistrationV1),
     operations : Seq(ContinuityOperationV1), setups : Seq(SetupOperation),
     requests : Seq(ManagedWorkspaceRequestV1), services : Seq(ManagedServiceV1),
     parents : Seq(ControllerParentIntent), cells : Seq(CellEntry), s2 : Seq(S2Operation),
     policies : Seq(InsightsManagerPolicyManifestV1),
     reviews : Seq(InsightsManagerReviewManifestV1), takeovers : Seq(InsightsTakeoverManifestV1),
     grants : Seq(AccessGrant)]

-----------------------------------------------------------------------------
(* The rules.                                                              *)

Elements(s) == {s[i] : i \in DOMAIN s}

\* No two entries share a key.
Unique(s, Key(_)) == \A i, j \in DOMAIN s : Key(s[i]) = Key(s[j]) => i = j

Total(s, Of(_)) ==
    LET sum[i \in 0..Len(s)] == IF i = 0 THEN 0 ELSE sum[i - 1] + Of(s[i])
    IN  sum[Len(s)]

Fits(used, capacity) == used.disk <= capacity.disk /\ used.cpu <= capacity.cpu

\* What the desired sandboxes ask for: a stopped one keeps its disk only.
Requested(sandboxes) ==
    [disk |-> Total(sandboxes, LAMBDA b : IF b.want = "deleted" THEN 0 ELSE b.res.disk),
     cpu  |-> Total(sandboxes, LAMBDA b : IF b.want = "running" THEN b.res.cpu ELSE 0)]

ValidSandboxes(m) ==
    /\ Unique(m.sandboxes, LAMBDA b : b.id) /\ Unique(m.sandboxes, LAMBDA b : b.name)
    /\ \A b \in Elements(m.sandboxes) :
          /\ b.ok /\ b.gen >= 1
          /\ \/ b.life = "persistent" /\ b.expires = "none"
             \/ b.life = "temporary" /\ b.expires = "valid"
    /\ Fits(Requested(m.sandboxes), m.capacity)

\* The manifest carries the sandbox an entry names, in the generation it names.
Current(m, e) == \E b \in Elements(m.sandboxes) : b.id = e.box /\ b.gen = e.gen

SameContinuityWorkFence(l, r) ==
    /\ l.work = r.work /\ l.box = r.box /\ l.gen = r.gen /\ l.rev = r.rev

\* One binding whose revision moved on by one, the old one revoked.
continuityRegistrationRevisionSuccession(revoked, active) ==
    /\ revoked.want = "revoked" /\ active.want = "active"
    /\ active.binding = [revoked.binding EXCEPT !.rev = @ + 1]
    /\ active.scope >= revoked.scope
    /\ SameContinuityWorkFence(revoked.identity, active.identity)

Group(registrations, binding) == SelectSeq(registrations, LAMBDA r : r.binding.id = binding)
Bindings(registrations) == {r.binding.id : r \in Elements(registrations)}

\* ValidateManifest's own resolution of a group, as the registrations it may stand for.
Resolved(group) ==
    CASE Len(group) = 1 -> {group[1]}
      [] Len(group) = 2 /\ continuityRegistrationRevisionSuccession(group[1], group[2]) -> {group[2]}
      [] Len(group) = 2 /\ ~continuityRegistrationRevisionSuccession(group[1], group[2])
            /\ continuityRegistrationRevisionSuccession(group[2], group[1]) -> {group[1]}
      [] OTHER -> {}

ValidateContinuityRegistration(r) == r.ok /\ r.scope >= 1 /\ r.binding.rev >= 1 /\ r.identity.rev >= 1

ValidRegistrations(m) ==
    /\ \A r \in Elements(m.registrations) : ValidateContinuityRegistration(r) /\ Current(m, r.identity)
    /\ \A b \in Bindings(m.registrations) : Resolved(Group(m.registrations, b)) # {}

\* The acknowledgement's resolution of every binding, {} when one is refused.
EffectiveContinuityRegistrations(registrations) ==
    IF \E b \in Bindings(registrations) : Resolved(Group(registrations, b)) = {} THEN {}
    ELSE UNION {Resolved(Group(registrations, b)) : b \in Bindings(registrations)}

\* The resolution a deferred handoff source succession is confirmed against.
effectiveHandoffSuccessionRegistration(registrations, binding) ==
    LET group == Group(registrations, binding)
        Live(r) == r.want = "active" /\ r.enabled
        Succession(old, new) ==
            /\ old.want = "revoked" /\ ~old.enabled /\ Live(new)
            /\ new.binding = [old.binding EXCEPT !.rev = @ + 1] /\ new.scope = old.scope + 1
            /\ SameContinuityWorkFence(old.identity, new.identity)
    IN  IF Len(group) = 1 THEN {r \in Elements(group) : Live(r)}
        ELSE IF Len(group) # 2 THEN {}
        ELSE {group[i] : i \in {j \in 1..2 : Succession(group[3 - j], group[j])}}

ValidOperations(m) ==
    /\ Unique(m.operations, LAMBDA o : o.id)
    /\ \A o \in Elements(m.operations) :
          /\ o.ok /\ o.scope >= 1
          /\ o.kind = "initial" => ~o.task
          /\ o.kind = "task" => o.task
          /\ \E r \in Resolved(Group(m.registrations, o.binding.id)) :
                /\ SameContinuityWorkFence(r.identity, o.identity) /\ r.binding = o.binding
                /\ r.scope = o.scope /\ r.want = "active" /\ r.enabled

ValidSetups(m) ==
    /\ Unique(m.setups, LAMBDA s : s.id)
    /\ \A s \in Elements(m.setups) : s.ok /\ Current(m, s)

ValidRequests(m) ==
    /\ Unique(m.requests, LAMBDA q : q.service)
    /\ \A q \in Elements(m.requests) : q.ok /\ Current(m, q) /\ q.cell # q.team

ProfileExists(m, e) == \E s \in Elements(m.setups) : s.id = e.setup
ProfileMatches(m, e) ==
    \E s \in Elements(m.setups) :
        s.id = e.setup /\ s.box = e.box /\ s.gen = e.gen /\ s.profile = e.profile

\* A service that is over may outlive its sandbox's generation: its setup
\* operation is gone from the manifest, and no other difference is tolerated.
RetainedTerminal(m, s) ==
    /\ s.want \in {"stopped", "retired"}
    /\ \E b \in Elements(m.sandboxes) : b.id = s.box /\ b.gen > s.gen

ValidServices(m) ==
    /\ Unique(m.services, LAMBDA s : s.id)
    /\ \A s \in Elements(m.services) :
          /\ s.ok
          /\ s.want # "active" => s.mode = "lookup_only"
          /\ Current(m, s) \/ RetainedTerminal(m, s)
          /\ ProfileMatches(m, s) \/ (RetainedTerminal(m, s) /\ ~ProfileExists(m, s))

\* The digest of a parent's intent is the one of its own fields.
ValidateControllerParentIntent(e) == e.ok /\ e.config = e.id

\* One parent of a role in a sandbox, and no id a member service has.
ValidParents(m) ==
    /\ Unique(m.parents, LAMBDA e : e.id) /\ Unique(m.parents, LAMBDA e : <<e.box, e.role>>)
    /\ \A e \in Elements(m.parents) :
          /\ ValidateControllerParentIntent(e) /\ Current(m, e) /\ ProfileMatches(m, e)
          /\ \A s \in Elements(m.services) : s.id # e.id

ValidateManagedServiceV2(m, c) == c.ok /\ Current(m, c) /\ ProfileMatches(m, c)

\* The child's session is the one its launch operation derives; only an entry to
\* execute carries a receipt and a grant, and the grant is of this very entry.
ValidateManagedServiceV3(m, c) ==
    /\ c.ok /\ Current(m, c) /\ ProfileMatches(m, c) /\ c.session = c.launch
    /\ c.phase = "prepare" => ~c.receipt /\ c.grant = "none"
    /\ c.phase = "execute" => c.receipt /\ c.grant = "own"

ValidCells(m) ==
    /\ Unique(m.cells, LAMBDA c : c.id)
    /\ Unique(SelectSeq(m.cells, LAMBDA c : c.format = 3), LAMBDA c : c.operation)
    /\ \A c \in Elements(m.cells) :
          IF c.format = 2 THEN ValidateManagedServiceV2(m, c) ELSE ValidateManagedServiceV3(m, c)

\* A continuation, its release and a restore stay in their sandbox.
validateContinuationManifest(m, o) == o.target = o.box /\ o.targetGen = o.gen

\* A handoff may target another one: a reviewer in a workspace of its own, or a
\* worker in a restored one. Its release is a later revision.
validateContinuationHandoffManifest(m, o) ==
    /\ Current(m, [box |-> o.target, gen |-> o.targetGen])
    /\ <<o.mode, o.role>> \in {<<"allocate_and_materialize", "reviewer">>, <<"accepted_restore", "worker">>}
    /\ o.kind = "handoff release" => o.rev > o.prepareRev

\* The operations of the five lists share one name space.
ValidContinuations(m) ==
    /\ Unique(m.s2, LAMBDA o : o.id)
    /\ \A o \in Elements(m.s2) :
          /\ o.ok /\ o.rev >= 1 /\ Current(m, o)
          /\ IF o.kind \in {"continuation", "release", "restore"} THEN validateContinuationManifest(m, o)
             ELSE validateContinuationHandoffManifest(m, o)

\* Automatic steering without a policy is saved, and never executed.
validInsightsManagerPolicyMode(p) == p.mode = "auto_steer" => p.steer # "malformed"

ValidateInsightsManagerPolicyManifest(p) ==
    p.ok /\ validInsightsManagerPolicyMode(p) /\ (p.mode = "off" => p.rules = 0)

\* The evidence of a review, when there is one, is of the very finding it reviews.
ValidateInsightsManagerReviewManifest(v) ==
    v.ok /\ (v.evidence.rev # 0 => v.evidence = [finding |-> v.finding, rev |-> v.rev])

\* A resume names the pause it ends.
ValidateInsightsTakeoverManifest(t) ==
    /\ t.ok /\ t.predecessor = (t.action = "resume")
    /\ t.hold = IF t.action = "pause" THEN "active" ELSE "released"

ValidManager(m) ==
    /\ Unique(m.policies, LAMBDA p : p.box)
    /\ \A p \in Elements(m.policies) : ValidateInsightsManagerPolicyManifest(p) /\ Current(m, p)
    /\ Unique(m.reviews, LAMBDA v : v.id)
    /\ \A v \in Elements(m.reviews) : ValidateInsightsManagerReviewManifest(v)
    /\ Unique(m.takeovers, LAMBDA t : t.id)
    /\ \A t \in Elements(m.takeovers) : ValidateInsightsTakeoverManifest(t)

\* One active grant of a key on the whole node.
ValidGrants(m) ==
    /\ Unique(m.grants, LAMBDA g : g.id)
    /\ Unique(SelectSeq(m.grants, LAMBDA g : g.want = "active"), LAMBDA g : g.key)
    /\ \A g \in Elements(m.grants) :
          /\ g.ok
          /\ \E b \in Elements(m.sandboxes) :
                b.id = g.box /\ (g.want = "active" => b.want # "deleted")

ValidateManifest(m, lastRevision) ==
    /\ m.server = Server /\ m.rev >= lastRevision /\ m.rev >= 1 /\ m.ok
    /\ ValidSandboxes(m) /\ ValidRegistrations(m) /\ ValidOperations(m) /\ ValidSetups(m)
    /\ ValidRequests(m) /\ ValidServices(m) /\ ValidParents(m) /\ ValidCells(m)
    /\ ValidContinuations(m) /\ ValidManager(m) /\ ValidGrants(m)
=============================================================================
