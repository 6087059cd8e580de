---------------------------- MODULE MCRuntimePass ----------------------------
(* Bounded instances of RuntimePass, and the manifest rules over bounded inputs. *)
EXTENDS RuntimePass

Box(g) == [id |-> "box", name |-> "b", want |-> "running", gen |-> g, ok |-> TRUE,
             life |-> "persistent", expires |-> "none", res |-> [disk |-> 2, cpu |-> 1]]
Other == [id |-> "other", name |-> "o", want |-> "stopped", gen |-> 1, ok |-> TRUE,
          life |-> "temporary", expires |-> "valid", res |-> [disk |-> 1, cpu |-> 1]]
Identity(g) == [work |-> "w", box |-> "box", gen |-> g, rev |-> 1]
Registration(g, rev, scope, want) ==
    [identity |-> Identity(g), binding |-> [id |-> "b1", rev |-> rev, session |-> "s"],
     scope |-> scope, want |-> want, enabled |-> want = "active", ok |-> TRUE]
Setup(g) == [id |-> "setup", box |-> "box", gen |-> g, profile |-> "p", ok |-> TRUE]
Service(g, want) ==
    [id |-> "svc", box |-> "box", gen |-> g, want |-> want, mode |-> "lookup_only",
     setup |-> "setup0", profile |-> "p", ok |-> TRUE]

\* One entry in most sections.
Ordinary ==
    [server |-> "node", rev |-> 1, ok |-> TRUE, capacity |-> [disk |-> 3, cpu |-> 1],
     sandboxes |-> <<Box(1), Other>>,
     registrations |-> <<Registration(1, 1, 1, "active")>>,
     operations |-> <<[id |-> "op", identity |-> Identity(1),
                       binding |-> [id |-> "b1", rev |-> 1, session |-> "s"], scope |-> 1,
                       kind |-> "task", task |-> TRUE, ok |-> TRUE]>>,
     setups |-> <<Setup(1)>>,
     requests |-> <<[service |-> "svc", box |-> "box", gen |-> 1, team |-> TRUE, cell |-> FALSE, ok |-> TRUE]>>,
     services |-> <<[Service(1, "active") EXCEPT !.setup = "setup"]>>,
     parents |-> <<[id |-> "parent", box |-> "box", gen |-> 1, role |-> "manager",
                    setup |-> "setup", profile |-> "p", config |-> "parent", ok |-> TRUE]>>,
     cells |-> <<[id |-> "cell", operation |-> "c1", launch |-> "l1", session |-> "l1", format |-> 3,
                  phase |-> "execute", receipt |-> TRUE, grant |-> "own", box |-> "box", gen |-> 1,
                  want |-> "active", setup |-> "setup", profile |-> "p", ok |-> TRUE]>>,
     s2 |-> <<[id |-> "h", kind |-> "handoff", box |-> "box", gen |-> 1, target |-> "other",
               targetGen |-> 1, rev |-> 1, prepareRev |-> 0, role |-> "reviewer",
               mode |-> "allocate_and_materialize", ok |-> TRUE]>>,
     policies |-> <<[box |-> "box", gen |-> 1, mode |-> "auto_steer", rules |-> 1, steer |-> "absent", ok |-> TRUE]>>,
     reviews |-> <<[id |-> "run", finding |-> "f", rev |-> 1, evidence |-> [finding |-> "f", rev |-> 1], ok |-> TRUE]>>,
     takeovers |-> <<[id |-> "run", action |-> "pause", predecessor |-> FALSE, hold |-> "active", ok |-> TRUE]>>,
     grants |-> <<[id |-> "g1", box |-> "box", key |-> "k", want |-> "active", ok |-> TRUE],
                  [id |-> "g2", box |-> "other", key |-> "k", want |-> "revoked", ok |-> TRUE]>>]

\* The sandbox was rebuilt: its binding moved on, and a stopped service is still
\* listed without its old setup operation.
Rebuilt ==
    [Ordinary EXCEPT
        !.sandboxes = <<Box(2)>>,
        !.registrations = <<Registration(2, 2, 2, "active"), Registration(2, 1, 1, "revoked")>>,
        !.operations = <<>>, !.setups = <<Setup(2)>>, !.requests = <<>>,
        !.services = <<Service(1, "stopped")>>,
        !.parents = <<[Ordinary.parents[1] EXCEPT !.gen = 2]>>, !.cells = <<>>, !.s2 = <<>>,
        !.policies = <<>>, !.grants = <<>>]

\* The same, with a registration of the old generation.
Refused == [Rebuilt EXCEPT !.registrations = <<Registration(1, 1, 1, "active")>>]

MCPlans == [ordinary |-> Ordinary, refused |-> Refused]

\* The plans are what they are meant to be.
ASSUME PlansAsMeant ==
    ValidPlan["ordinary"] /\ ~ValidPlan["refused"] /\ ValidateManifest(Rebuilt, 1)

\* model.go:2357-2366, reconcile.go:637-647: over every group of at most two
\* registrations of one binding, the acknowledgement resolves a group exactly when
\* the manifest check accepts it, and a confirmed handoff succession is that one.
Candidates ==
    {[Registration(1, v, c, w) EXCEPT !.enabled = e, !.identity.work = k] :
        v \in 1..2, c \in 1..2, w \in {"active", "revoked"}, e \in BOOLEAN, k \in {"w", "x"}}
ASSUME ResolutionsAgree ==
    \A group \in {<<r>> : r \in Candidates} \union {<<r, s>> : r, s \in Candidates} :
        LET m == [Ordinary EXCEPT !.registrations = group]
            confirmed == effectiveHandoffSuccessionRegistration(group, "b1")
        IN  /\ ValidRegistrations(m) <=> EffectiveContinuityRegistrations(group) # {}
            /\ ValidRegistrations(m) => confirmed \subseteq EffectiveContinuityRegistrations(group)
            /\ ValidRegistrations(m) => Cardinality(EffectiveContinuityRegistrations(group)) = 1
=============================================================================
