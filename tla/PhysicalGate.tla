---------------------------- MODULE PhysicalGate ----------------------------
(***************************************************************************)
(* The physical gate: every paid request to the model provider is one row  *)
(* of a ledger that the Runtime's daemon keeps.  A native process (or the  *)
(* daemon's own access probe) asks the gate's unix socket to admit the     *)
(* request, sends it only after it has read "admitted", and asks to settle *)
(* it with the provider's answer.  One row may be unknown at a time.       *)
(*                                                                         *)
(* The signed demand fixes which request has which index: Plan[mode][i]    *)
(* says which runtime, domain and preparation slot i belongs to.  Three    *)
(* accountings share the ledger: "domain" (version 1: an imported baseline *)
(* and paid domains adopted one after the other), "single" (version 2: one *)
(* runtime, reservations and settlements joined with the backend's) and    *)
(* "participant" (version 2: several runtimes, one global prefix).         *)
(*                                                                         *)
(* Money is counted in reservations: a request reserves 1 and is settled   *)
(* at 0 or 1.                                                              *)
(*                                                                         *)
(* Definitions named Bad... are seeded faults, used by no action: each     *)
(* stands in for the definition after it to show a property would notice.  *)
(***************************************************************************)
EXTENDS Integers, FiniteSets, FiniteSetsExt, Sequences

CONSTANTS Runtimes,     \* the daemons, each with its own database
          Plan,         \* mode -> sequence of [rt, dom, prep, kind]
          Legacy,       \* the domain of the imported baseline
          Usd,          \* domain -> the exposure its case allows
          Prior,        \* domain -> the qualification domain it follows, or None
          MaxConns,     \* mode -> handler goroutines of a daemon alive at once
          MaxFaults,    \* mode -> crashes, lost answers, timeouts, operator switches
          None

Modes == DOMAIN Plan
PrepsOf == [m \in Modes |-> {Plan[m][i].prep : i \in DOMAIN Plan[m]}]
Kinds == {"access", "cell", "parent"}
Requests(m) == [rt : Runtimes, dom : DOMAIN Usd, prep : PrepsOf[m], kind : Kinds]

\* A case has requests; those of one preparation are made on one runtime, and
\* only a participant case has several runtimes.
ASSUME PlanAssumption ==
  /\ Modes \subseteq {"domain", "single", "participant"}
  /\ \A m \in Modes :
       /\ Plan[m] \in Seq(Requests(m)) \ {<<>>}
       /\ \A i, j \in DOMAIN Plan[m] :
            Plan[m][i].prep = Plan[m][j].prep \/ m # "participant"
              => Plan[m][i].rt = Plan[m][j].rt

ASSUME BoundsAssumption == MaxFaults \in [Modes -> Nat]

\* A version 2 demand is one case with one exposure (physical_gate_store.go:64).
ASSUME ExposureAssumption ==
  /\ Usd \in [DOMAIN Usd -> Nat]
  /\ \A m \in Modes \ {"domain"} :
       \A i, j \in DOMAIN Plan[m] : Plan[m][i].dom = Plan[m][j].dom

Usages == {0, 1}
Operations == [phase : {"unknown", "settled"}, who : Nat, usage : Usages \cup {None}]
ASSUME NoneAssumption ==
  None \notin Operations /\ None \notin Nat /\ None \notin DOMAIN Usd

VARIABLES mode,     \* which accounting the installed authority selects
          db,       \* runtime -> its physical_gate_* tables
          be,       \* the control plane's side of the accounting (external)
          entries,  \* preparations whose entry of the manifest is active
          sel,      \* the demand manifest the operator's files name now
          expired,  \* demands whose signed ledger readback has expired
          drv,      \* ensurePaidCaseDomain's program counter
          pass,     \* runtime -> initializeProviderAccounting's counter
          conns,    \* the gate's handler goroutines
          clients,  \* preparation -> the process that uses the gate
          life,     \* preparation -> incarnation of its native process
          boot,     \* runtime -> incarnation of its daemon
          sent,     \* slot -> requests that reached the provider
          resp,     \* slot -> the usage in the journalled answer
          faults

vars == <<mode, entries, db, be, sel, expired, drv, pass, conns, clients, life, boot,
          sent, resp, faults>>

Slots == DOMAIN Plan[mode]
Slot(i) == Plan[mode][i]
V2 == mode # "domain"
HomeOf ==
  [m \in Modes |-> [p \in PrepsOf[m] |->
     CHOOSE i \in DOMAIN Plan[m] : Plan[m][i].prep = p]]
Preps == PrepsOf[mode]
Domains == IF V2 THEN {} ELSE {Slot(i).dom : i \in Slots} \ {Legacy}
\* participantAuthority: the runtimes of the inventory, each the owner of an
\* allocation of the demand.
Members == {Slot(i).rt : i \in Slots}
Own(d) == {i \in Slots : Slot(i).dom = d}
Home(p) == HomeOf[mode][p]
RuntimeOf(p) == Slot(Home(p)).rt
IsAccess(p) == Slot(Home(p)).kind = "access"
OuterIndex(i) == Cardinality({j \in Own(Slot(i).dom) : j <= i})

\* The identity the kernel reports for the peer of a connection: the daemon's
\* own process for the access probe, the native process of the sandbox otherwise.
OwnProcess(p) == boot[RuntimeOf(p)]
ObserveNativeProcess(p) == life[p]
Identity(p) == IF IsAccess(p) THEN OwnProcess(p) ELSE ObserveNativeProcess(p)

IdleClient == [pc |-> "idle", slot |-> None]

EmptyStore ==
  [anchor |-> FALSE, row |-> [i \in Slots |-> None], owner |-> None,
   bootstrap |-> [d \in Domains |-> None], basis |-> {}, signed |-> {},
   accepted |-> {}, confirmed |-> {}, opening |-> "none", bound |-> {},
   reservations |-> 0, settlements |-> 0, archive |-> [i \in Slots |-> None],
   envelope |-> [i \in Slots |-> None], ack |-> {},
   enrolled |-> [p \in Preps |-> None], registered |-> [p \in Preps |-> {}]]

Init ==
  /\ mode \in Modes
  /\ db = [r \in Runtimes |-> EmptyStore]
  /\ be = [contributed |-> {}, reserved |-> 0,
           settled |-> [i \in Slots |-> None], adopted |-> {}, accepted |-> {}]
  /\ entries = Preps
  /\ sel \in (IF Domains = {} THEN {None}
              ELSE {d \in Domains : \A e \in Domains : Min(Own(d)) <= Min(Own(e))})
  /\ expired = {}
  /\ drv = [pc |-> "idle", dom |-> None]
  /\ pass = [r \in Runtimes |-> "idle"]
  /\ conns = {}
  /\ clients = [p \in Preps |-> IdleClient]
  /\ life = [p \in Preps |-> 1]
  /\ boot = [r \in Runtimes |-> 1]
  /\ sent = [i \in Slots |-> 0]
  /\ resp = [i \in Slots |-> None]
  /\ faults = 0

Fault == faults < MaxFaults[mode] /\ faults' = faults + 1
NoFault == UNCHANGED faults

-----------------------------------------------------------------------------
(* The ledger's rules, on one runtime's store D.                           *)

Rows(D) == {i \in Slots : D.row[i] # None}
AllSettled(D) == \A i \in Rows(D) : D.row[i].phase = "settled"
PhysicalOwner(D) == D.owner

\* A fact is written once; the same again is accepted, another refused.
Retains(old, new) == old \in {None, new}

SamePreparation(i, j) == Slot(i).prep = Slot(j).prep
IsModel(i) == Slot(i).kind # "access"

\* PaidDomain.valid: the allocations cover the case one after the other, and an
\* access allocation is a single request.
ValidDomain(d) ==
  \A i, j \in Own(d) : (SamePreparation(i, j) /\ i <= j) =>
    /\ \A k \in i..j : SamePreparation(i, k)
    /\ IsModel(i) \/ i = j
ReadPaidDomain(D, d) == d \in D.basis /\ ValidDomain(d)
PaidDomainHistory(D, d) == Rows(D) \cap Own(d)
PhysicalHistory(D, d) ==
  IF d \in Domains THEN PaidDomainHistory(D, d)
  ELSE {i \in Rows(D) : Slot(i).dom \notin Domains}

\* A row of a domain is stored behind the rows the domain found.
PaidAssociation(D, i, index) == index = D.bootstrap[Slot(i).dom] + OuterIndex(i)

\* physicalLedgerCut: rows form a prefix, each where its domain puts it, and the
\* owner is the one unknown row.
LedgerCut(D) ==
  /\ D.anchor
  /\ Rows(D) = 1..Cardinality(Rows(D))
  /\ \A i \in Rows(D) :
       IF Slot(i).dom \in Domains
       THEN ReadPaidDomain(D, Slot(i).dom) /\ PaidAssociation(D, i, i)
       ELSE i = OuterIndex(i)
  /\ {i \in Rows(D) : D.row[i].phase = "unknown"} = {PhysicalOwner(D)} \ {None}

\* Cash held by the rows H: version 1 never gives a reservation back.
Exposure(D, H) ==
  IF V2 THEN MapThenSumSet(LAMBDA j : D.row[j].usage, H) ELSE Cardinality(H)

\* The request's number in its preparation; a parent's is the case's model count.
RequestIndex(i) ==
  Cardinality(IF Slot(i).kind = "parent"
              THEN {j \in Own(Slot(i).dom) : IsModel(j) /\ j <= i}
              ELSE {j \in Slots : SamePreparation(i, j) /\ j <= i})
ExpectedRequest(H, i) ==
  1 + Cardinality(IF Slot(i).kind = "parent" THEN {j \in H : IsModel(j)}
                  ELSE {j \in H : SamePreparation(i, j)})

\* The next index, the next request of its preparation, within the case's counts.
InSequence(H, i) ==
  /\ OuterIndex(i) = Cardinality(H) + 1
  /\ RequestIndex(i) = ExpectedRequest(H, i)
  /\ Slot(i).kind = "parent" => \A j \in H : ~SamePreparation(i, j)
  /\ Cardinality({j \in H : IsModel(j) = IsModel(i)})
       < Cardinality({j \in Own(Slot(i).dom) : IsModel(j) = IsModel(i)})

\* The reservation of the new request is not counted.
BadValidatePhysicalAppend(D, H, i, who) ==
  /\ \A j \in H : j # i /\ D.row[j].phase = "settled"
  /\ \A j \in H : SamePreparation(i, j) => D.row[j].who = who
  /\ InSequence(H, i)
  /\ Exposure(D, H) <= Usd[Slot(i).dom]

ValidatePhysicalAppend(D, H, i, who) ==
  /\ \A j \in H : j # i /\ D.row[j].phase = "settled"
  /\ \A j \in H : SamePreparation(i, j) => D.row[j].who = who
  /\ InSequence(H, i)
  /\ Exposure(D, H) <= Usd[Slot(i).dom] - 1

AdmitPaidDomain(D, i, who) ==
  LET d == Slot(i).dom  own == PaidDomainHistory(D, d) IN
  /\ ReadPaidDomain(D, d) /\ d \in D.accepted \cap D.confirmed
  /\ LedgerCut(D) /\ PhysicalOwner(D) = None
  /\ Cardinality(Rows(D)) = D.bootstrap[d] + Cardinality(own)
  /\ ValidatePhysicalAppend(D, own, i, who)
  /\ PaidAssociation(D, i, Cardinality(Rows(D)) + 1)

\* Only the runtime's own rows are asked about.
BadValidateParticipantAppend(D, i, who) ==
  /\ i \in D.bound /\ i <= D.reservations
  /\ \A j \in Rows(D) : j < i /\ D.row[j].phase = "settled"
  /\ \A j \in Rows(D) : SamePreparation(i, j) => D.row[j].who = who
  /\ RequestIndex(i) = ExpectedRequest(Rows(D), i)

\* Earlier indices of every runtime must be settled in the retained prefix,
\* the runtime's own rows in its ledger as well.
ValidateParticipantAppend(D, i, who) ==
  /\ i \in D.bound /\ i <= D.reservations
  /\ D.settlements = i - 1
  /\ \A j \in Rows(D) : j < i /\ D.row[j].phase = "settled"
  /\ \A j \in Rows(D) : SamePreparation(i, j) => D.row[j].who = who
  /\ RequestIndex(i) = ExpectedRequest(Rows(D), i)

AdmitAllowed(D, i, who) ==
  /\ D.anchor /\ PhysicalOwner(D) = None
  /\ CASE mode = "domain"      -> AdmitPaidDomain(D, i, who)
       [] mode = "single"      -> D.basis = {} /\ ValidatePhysicalAppend(D, Rows(D), i, who)
       [] mode = "participant" -> ValidateParticipantAppend(D, i, who)

InsertPhysical(D, i, op) == [D EXCEPT !.row[i] = op]
AdmitPhysical(D, i, who) ==
  [InsertPhysical(D, i, [phase |-> "unknown", who |-> who, usage |-> None])
     EXCEPT !.owner = i]

SettleAllowed(D, i, who, u) ==
  /\ D.row[i] # None /\ D.row[i].who = who
  /\ V2 => i \in D.ack
  /\ Retains(D.archive[i], u)
  /\ IF D.row[i].phase = "settled" THEN D.row[i].usage = u ELSE PhysicalOwner(D) = i

SettlePhysical(D, i, u) ==
  IF D.row[i].phase = "settled" THEN D
  ELSE [D EXCEPT !.row[i] = [@ EXCEPT !.phase = "settled", !.usage = u], !.owner = None]

\* The imported history becomes the first rows in the transaction that
\* stores the case.  Each is appended to settled ones, so that only the last may
\* be unknown; it takes the owner row with it.
ImportedUnknown == {None} \cup {i \in Own(Legacy) : \A j \in Own(Legacy) : j <= i}
AdoptPhysicalLedger(D, unknown) ==
  [D EXCEPT !.anchor = TRUE,
            !.row = [i \in Slots |->
                       IF i \notin Own(Legacy) THEN None
                       ELSE IF i = unknown
                       THEN [phase |-> "unknown", who |-> 0, usage |-> None]
                       ELSE [phase |-> "settled", who |-> 0, usage |-> 0]],
            !.owner = unknown]

-----------------------------------------------------------------------------
(* The backend's prefix, read by a GET, is joined with the local ledger.   *)
(* A snapshot is the number of reservations and of settlements it lists.   *)

Current == [reserved |-> be.reserved,
            settled  |-> {i \in Slots : be.settled[i] # None}]

\* verifyParticipantPrefix: reservations and settlements are listed in order, an
\* allocation's reservations belong to its runtime, and what they reserve and
\* have spent is within the case.
PrefixExposure(s) ==
  MapThenSumSet(LAMBDA i : IF i \in s.settled THEN be.settled[i] ELSE 1,
                1..s.reserved)
VerifyPrefix(s) ==
  /\ s.settled = 1..Cardinality(s.settled)
  /\ s.settled \subseteq 1..s.reserved
  /\ PrefixExposure(s) <= Usd[Slot(1).dom]

ProviderLocalCut(r, D, s) ==
  /\ \A i \in Rows(D) :
       /\ i <= s.reserved
       /\ D.row[i].phase = "settled" =>
            /\ i \in s.settled /\ i \in D.ack
            /\ D.envelope[i] = be.settled[i] /\ D.row[i].usage = be.settled[i]
       /\ (D.row[i].phase = "unknown" /\ i \in s.settled) =>
            D.envelope[i] = be.settled[i]
  /\ \A i \in s.settled : Slot(i).rt = r => i \in Rows(D)

\* The mirrored prefix may only grow.
PrefixRetainable(r, D, s) ==
  /\ D.opening = "opened" /\ VerifyPrefix(s)
  /\ D.reservations <= s.reserved /\ D.settlements <= Cardinality(s.settled)
  /\ ProviderLocalCut(r, D, s)
RetainProviderPrefix(D, s) ==
  [D EXCEPT !.reservations = s.reserved,
            !.settlements = Cardinality(s.settled)]

\* The single runtime's reservation is the next one, and every settlement the
\* backend lists is one this runtime signed.
BindProviderReservation(D, i, s) ==
  LET own == PhysicalHistory(D, Slot(i).dom) IN
  /\ D.opening = "opened"
  /\ OuterIndex(i) = Cardinality(own) + 1 /\ OuterIndex(i) <= s.reserved
  /\ \A j \in s.settled : j \in own /\ D.envelope[j] = be.settled[j]

BindParticipantReservation(r, D, i, s) ==
  PrefixRetainable(r, D, s) /\ i <= s.reserved /\ Slot(i).rt = r

BindAllowed(r, D, i, s) ==
  IF mode = "participant" THEN BindParticipantReservation(r, D, i, s)
  ELSE BindProviderReservation(D, i, s)

BindReservation(D, i, s) ==
  LET E == IF mode = "participant" THEN RetainProviderPrefix(D, s) ELSE D IN
  [E EXCEPT !.bound = @ \cup {i}]

-----------------------------------------------------------------------------
(* The processes that use the gate.  A native process is outside the       *)
(* repository; the access probe is runProbe.                               *)

MayConnect(p) ==
  Cardinality({h \in conns : RuntimeOf(h.prep) = RuntimeOf(p)}) < MaxConns[mode]
Await(c, h) == conns' = (conns \ {c}) \cup {h}

\* The accounting is opened (the pass ends otherwise) or the domain confirmed
\* before anything that uses the gate is started.
GateOpen(D, i) ==
  IF V2 THEN D.opening = "opened" ELSE Slot(i).dom \in D.confirmed

\* RegisterNative: the supervisor's readback enters the process that runs now;
\* earlier entries stay.
RetainPhysicalProcess(D, p, who) ==
  [D EXCEPT !.registered[p] = @ \cup {who}]
RegisterNative(p) ==
  LET r == RuntimeOf(p) IN
  /\ ~IsAccess(p) /\ p \in entries /\ GateOpen(db[r], Home(p))
  /\ ObserveNativeProcess(p) \notin db[r].registered[p]
  /\ db' = [db EXCEPT ![r] =
              RetainPhysicalProcess(@, p, ObserveNativeProcess(p))]
  /\ UNCHANGED <<mode, entries, be, sel, expired, drv, pass, conns, clients, life,
                 boot, sent, resp, faults>>

\* The probe enrolls the daemon's own process: a preparation's first enrollment
\* stays, so that another daemon process cannot enroll again.
EnrollAllowed(D, p) == p \in entries /\ Retains(D.enrolled[p], OwnProcess(p))
Enroll(D, p) == [D EXCEPT !.enrolled[p] = OwnProcess(p)]

Registration(D, p, who) == who \in D.registered[p]
AccessAuthenticates(D, p) == D.enrolled[p] = OwnProcess(p)
NativeAuthenticates(D, p) == Registration(D, p, ObserveNativeProcess(p))

Call(p, i, act, claim) ==
  [prep |-> p, slot |-> i, act |-> act, who |-> Identity(p), live |-> TRUE,
   pc |-> IF act = "admit" THEN "authorise" ELSE "verify",
   claim |-> claim, snap |-> None]

\* The request is journalled, then the admit call is made; a peer that does not
\* authenticate has its connection closed.
Ask(p, i) ==
  LET r == RuntimeOf(p)
      D == IF IsAccess(p) THEN Enroll(db[r], p) ELSE db[r]
  IN
  /\ clients[p].pc = "idle" /\ Slot(i).prep = p /\ Slot(i).dom # Legacy
  /\ sent[i] = 0 /\ MayConnect(p) /\ GateOpen(db[r], i)
  /\ IF IsAccess(p) THEN EnrollAllowed(db[r], p) /\ AccessAuthenticates(D, p)
     ELSE NativeAuthenticates(D, p)
  /\ db' = [db EXCEPT ![r] = D]
  /\ conns' = conns \cup {Call(p, i, "admit", None)}
  /\ clients' = [clients EXCEPT ![p] = [pc |-> "admitting", slot |-> i]]
  /\ UNCHANGED <<mode, entries, be, sel, expired, drv, pass, life, boot, sent,
                 resp, faults>>

\* Only an "admitted" answer lets the request leave.
Send(p) ==
  /\ clients[p].pc = "admitted"
  /\ sent' = [sent EXCEPT ![clients[p].slot] = @ + 1]
  /\ clients' = [clients EXCEPT ![p].pc = "sent"]
  /\ UNCHANGED <<mode, entries, db, be, sel, expired, drv, pass, conns, life, boot, resp,
                 faults>>

\* The provider's answer is journalled before the settle call (a GET of the
\* access probe costs nothing).
Answered(p) ==
  /\ clients[p].pc = "sent"
  /\ \E u \in (IF IsAccess(p) THEN {0} ELSE {0, 1}) :
       resp' = [resp EXCEPT ![clients[p].slot] = u]
  /\ clients' = [clients EXCEPT ![p].pc = "got"]
  /\ UNCHANGED <<mode, entries, db, be, sel, expired, drv, pass, conns, life, boot, sent,
                 faults>>

\* No usable answer arrives: the operation stays unknown.
Unanswered(p) ==
  /\ clients[p].pc = "sent" /\ Fault
  /\ clients' = [clients EXCEPT ![p] = IdleClient]
  /\ UNCHANGED <<mode, entries, db, be, sel, expired, drv, pass, conns, life, boot, sent,
                 resp>>

\* The settle call claims a usage; a native process may report a wrong one.
AskSettle(p) ==
  LET i == clients[p].slot IN
  /\ clients[p].pc = "got" /\ MayConnect(p)
  /\ \/ conns' = conns \cup {Call(p, i, "settle", resp[i])} /\ NoFault
     \/ /\ ~IsAccess(p) /\ Fault
        /\ conns' = conns \cup {Call(p, i, "settle", 1 - resp[i])}
  /\ clients' = [clients EXCEPT ![p].pc = "settling"]
  /\ UNCHANGED <<mode, entries, db, be, sel, expired, drv, pass, life, boot, sent,
                 resp>>

\* A call that failed: the probe returns, a native process may settle again.
Failed(p) ==
  IF clients[p].pc = "settling" /\ ~IsAccess(p)
  THEN [clients[p] EXCEPT !.pc = "got"] ELSE IdleClient

\* The client's deadline passes while the handler goroutine goes on.
GiveUp(h) ==
  /\ h \in conns /\ h.live /\ Fault
  /\ Await(h, [h EXCEPT !.live = FALSE])
  /\ clients' = [clients EXCEPT ![h.prep] = Failed(h.prep)]
  /\ UNCHANGED <<mode, entries, db, be, sel, expired, drv, pass, life, boot, sent, resp>>

-----------------------------------------------------------------------------
(* Server.handle: one goroutine per connection.                            *)

Store(h) == db[RuntimeOf(h.prep)]
VerifyNativePeer(p, who) == ObserveNativeProcess(p) = who
SamePeer(h) ==
  IF IsAccess(h.prep)
  THEN AccessAuthenticates(Store(h), h.prep) /\ h.who = OwnProcess(h.prep)
  ELSE Registration(Store(h), h.prep, h.who) /\ VerifyNativePeer(h.prep, h.who)
Refuse(h) == Await(h, [h EXCEPT !.pc = "refused", !.snap = None])
rest == <<mode, entries, be, sel, expired, drv, pass, clients, life, boot, sent,
          resp, faults>>

\* The installed authority's case: the demand selected now, accepted here and by
\* the backend, over a ledger that reads back; or the opened accounting.
CurrentPaidCaseDomain(D, d) ==
  /\ sel = d /\ D.bootstrap[d] # None /\ ReadPaidDomain(D, d)
  /\ d \in D.accepted \cap D.confirmed
  /\ LedgerCut(D)
ProviderPhysicalCase(D) == D.anchor /\ D.opening = "opened"
PhysicalBaseline(D, d) ==
  IF V2 THEN ProviderPhysicalCase(D) ELSE CurrentPaidCaseDomain(D, d)

\* The permit of each consumer: the access allocation has one request; a cell's
\* and a parent's entry is active and the registered binary is the pinned one.
AccessPermit(D, h) ==
  D.enrolled[h.prep] = h.who /\ RequestIndex(h.slot) = 1
AuthorizeAccess(D, h) ==
  /\ h.prep \in entries /\ PhysicalBaseline(D, Slot(h.slot).dom)
  /\ AccessPermit(D, h)
AuthorizeCell(D, h) ==
  /\ h.prep \in entries /\ Registration(D, h.prep, h.who)
  /\ PhysicalBaseline(D, Slot(h.slot).dom)
AuthorizeParent(D, h) ==
  /\ h.prep \in entries /\ PhysicalBaseline(D, Slot(h.slot).dom)
  /\ Registration(D, h.prep, h.who)
Resolvable(h) ==
  CASE Slot(h.slot).kind = "access" -> AuthorizeAccess(Store(h), h)
    [] Slot(h.slot).kind = "cell"   -> AuthorizeCell(Store(h), h)
    [] Slot(h.slot).kind = "parent" -> AuthorizeParent(Store(h), h)

\* A version 2 permit goes on with the prefix the backend lists at this moment.
Authorise(h) ==
  /\ h \in conns /\ h.pc = "authorise"
  /\ IF ~(SamePeer(h) /\ Resolvable(h)) THEN Refuse(h)
     ELSE Await(h, IF V2 THEN [h EXCEPT !.pc = "bind", !.snap = Current]
                   ELSE [h EXCEPT !.pc = "admit"])
  /\ UNCHANGED <<db, rest>>

Bind(h) ==
  LET r == RuntimeOf(h.prep) IN
  /\ h \in conns /\ h.pc = "bind"
  /\ IF BindAllowed(r, db[r], h.slot, h.snap)
     THEN /\ db' = [db EXCEPT ![r] = BindReservation(@, h.slot, h.snap)]
          /\ Await(h, [h EXCEPT !.pc = "admit", !.snap = None])
     ELSE Refuse(h) /\ UNCHANGED db
  /\ UNCHANGED rest

\* The peer is authenticated again, then one transaction inserts row and owner.
Admit(h) ==
  LET r == RuntimeOf(h.prep) IN
  /\ h \in conns /\ h.pc = "admit"
  /\ IF SamePeer(h) /\ AdmitAllowed(db[r], h.slot, h.who)
     THEN /\ db' = [db EXCEPT ![r] = AdmitPhysical(@, h.slot, h.who)]
          /\ Await(h, [h EXCEPT !.pc = "granted"])
     ELSE Refuse(h) /\ UNCHANGED db
  /\ UNCHANGED rest

\* What the originals say: the journal of the process holds the provider's answer,
\* and the claim must be the usage in it, at the tariff of the accounting.
Journal(i) == resp[i]
VerifyOriginalUsage(i, claim) == claim = Journal(i)
ProviderResponseUsage(i) == Journal(i)
NativeOriginals(h) ==
  IF V2 THEN h.claim = ProviderResponseUsage(h.slot)
  ELSE VerifyOriginalUsage(h.slot, h.claim)
AccessOriginals(h) ==
  /\ Journal(h.slot) # None /\ h.claim = 0
  /\ V2 => Store(h).enrolled[h.prep] = h.who

\* The verified bytes are archived before the answer: one archive per operation.
RetainOriginals(D, i, u) == [D EXCEPT !.archive[i] = u]

\* The operation is read and its caller compared, then its originals verified.
Verify(h) ==
  LET r == RuntimeOf(h.prep)  i == h.slot  row == db[r].row[i] IN
  /\ h \in conns /\ h.pc = "verify"
  /\ IF /\ SamePeer(h) /\ row # None /\ row.who = h.who
        /\ IF IsAccess(h.prep) THEN AccessOriginals(h) ELSE NativeOriginals(h)
        /\ Retains(db[r].archive[i], h.claim)
     THEN /\ db' = IF V2 \/ ~IsAccess(h.prep)
                   THEN [db EXCEPT ![r] = RetainOriginals(@, i, h.claim)] ELSE db
          /\ Await(h, IF V2 THEN [h EXCEPT !.pc = "sign", !.snap = row]
                      ELSE [h EXCEPT !.pc = "close"])
     ELSE Refuse(h) /\ UNCHANGED db
  /\ UNCHANGED rest

\* SettleProviderPhysical: the operation must not have moved since it was read;
\* the first signed settlement is retained before it is posted.
Sign(h) ==
  LET r == RuntimeOf(h.prep)  i == h.slot IN
  /\ h \in conns /\ h.pc = "sign"
  /\ IF db[r].row[i] = h.snap /\ Retains(db[r].envelope[i], db[r].archive[i])
     THEN /\ db' = [db EXCEPT ![r].envelope[i] = db[r].archive[i]]
          /\ Await(h, [h EXCEPT !.pc = IF i \in db[r].ack THEN "close" ELSE "post",
                                !.snap = None])
     ELSE Refuse(h) /\ UNCHANGED db
  /\ UNCHANGED rest

\* The acknowledgement is retained when the call returns, however.
BadPost(h) ==
  LET r == RuntimeOf(h.prep)  i == h.slot
      taken == [be EXCEPT !.settled[i] = IF @ = None THEN db[r].envelope[i] ELSE @]
  IN
  /\ h \in conns /\ h.pc = "post"
  /\ db' = [db EXCEPT ![r].ack = @ \cup {i}]
  /\ Await(h, [h EXCEPT !.pc = "close"])
  /\ \/ be' = taken /\ NoFault
     \/ be' \in {be, taken} /\ Fault
  /\ UNCHANGED <<mode, entries, sel, expired, drv, pass, clients, life, boot, sent, resp>>

\* SettleProviderAccountingOriginals: the backend keeps the first settlement of
\* an index and answers a repetition alike; its answer is retained as the
\* acknowledgement, a lost one leaves the operation unknown.
Post(h) ==
  LET r == RuntimeOf(h.prep)  i == h.slot
      taken == [be EXCEPT !.settled[i] = IF @ = None THEN db[r].envelope[i] ELSE @]
  IN
  /\ h \in conns /\ h.pc = "post"
  /\ \/ /\ be' = taken /\ db' = [db EXCEPT ![r].ack = @ \cup {i}]
        /\ Await(h, [h EXCEPT !.pc = "close"]) /\ NoFault
     \/ /\ be' \in {be, taken} /\ Refuse(h) /\ Fault /\ UNCHANGED db
  /\ UNCHANGED <<mode, entries, sel, expired, drv, pass, clients, life, boot, sent, resp>>

Close(h) ==
  LET r == RuntimeOf(h.prep)  i == h.slot IN
  /\ h \in conns /\ h.pc = "close"
  /\ IF SamePeer(h) /\ SettleAllowed(db[r], i, h.who, h.claim)
     THEN /\ db' = [db EXCEPT ![r] = SettlePhysical(@, i, h.claim)]
          /\ Await(h, [h EXCEPT !.pc = "closed"])
     ELSE Refuse(h) /\ UNCHANGED db
  /\ UNCHANGED rest

\* The reply is written only while the peer is the one that connected.
Reply(h) ==
  /\ h \in conns /\ h.pc \in {"granted", "closed", "refused"}
  /\ conns' = conns \ {h}
  /\ clients' =
       IF ~(h.live /\ SamePeer(h)) THEN clients
       ELSE [clients EXCEPT ![h.prep] =
               CASE h.pc = "granted" -> [@ EXCEPT !.pc = "admitted"]
                 [] h.pc = "closed"  -> IdleClient
                 [] h.pc = "refused" -> Failed(h.prep)]
  /\ UNCHANGED <<mode, entries, db, be, sel, expired, drv, pass, life, boot, sent, resp,
                 faults>>

-----------------------------------------------------------------------------
(* initializeProviderAccounting, on every pass of a version 2 runtime.     *)

opening == <<mode, entries, sel, expired, drv, conns, clients, life, boot, sent, resp>>

\* The first observation is retained over an empty ledger, and never taken again.
ObserveOpening(D) == D.opening # "none" \/ (Rows(D) = {} /\ D.owner = None)

\* A participant's contribution is retained with it.
ObserveProviderOpening(D) ==
  [D EXCEPT !.anchor = TRUE,
            !.opening = IF mode = "participant" THEN "contributed" ELSE "observed"]

\* The pair (or, of a participant, this runtime's contribution, retained first)
\* goes to the backend until it has been accepted.
PassOpening(r) ==
  LET D == db[r] IN
  /\ V2 /\ r \in Members /\ pass[r] = "idle" /\ D.opening # "opened"
  /\ ObserveOpening(D)
  /\ db' = [db EXCEPT ![r] = ObserveProviderOpening(@)]
  /\ pass' = [pass EXCEPT ![r] =
       IF D.opening = "contributed" THEN "get" ELSE "post"]
  /\ UNCHANGED <<opening, be, faults>>

\* Only the complete handshake is accepted, with this runtime's observation in it.
Opened(c) == IF mode = "participant" THEN Members \subseteq c ELSE TRUE
AcceptOpening(D) == [D EXCEPT !.opening = "opened"]

\* AcceptProviderAccountingOpening: the complete opening is retained, a pending
\* one waits for the next pass, and a lost answer ends this pass.
PostOpening(r) ==
  LET c == be.contributed \cup {r} IN
  /\ pass[r] = "post"
  /\ pass' = [pass EXCEPT ![r] = "idle"]
  /\ \/ /\ be' = [be EXCEPT !.contributed = c]
        /\ db' = IF Opened(c) THEN [db EXCEPT ![r] = AcceptOpening(@)] ELSE db
        /\ NoFault
     \/ be' \in {be, [be EXCEPT !.contributed = c]} /\ Fault /\ UNCHANGED db
  /\ UNCHANGED opening

\* An absent contribution ends the pass.
BadGetOpening(r) ==
  /\ pass[r] = "get"
  /\ pass' = [pass EXCEPT ![r] = "idle"]
  /\ db' = IF r \in be.contributed /\ Opened(be.contributed)
           THEN [db EXCEPT ![r] = AcceptOpening(@)] ELSE db
  /\ UNCHANGED <<opening, be, faults>>

\* ProviderAccountingOpening: a contribution the backend does not have is
\* replayed, the same first one.
GetOpening(r) ==
  /\ pass[r] = "get"
  /\ IF r \notin be.contributed
     THEN pass' = [pass EXCEPT ![r] = "post"] /\ UNCHANGED db
     ELSE /\ pass' = [pass EXCEPT ![r] = "idle"]
          /\ db' = IF Opened(be.contributed)
                   THEN [db EXCEPT ![r] = AcceptOpening(@)] ELSE db
  /\ UNCHANGED <<opening, be, faults>>

\* CollectProviderReadback, at the end of every pass of an opened participant:
\* the prefix the backend lists is mirrored, unless the ledger disagrees.
CollectReadback(r) ==
  /\ mode = "participant" /\ r \in Members
  /\ PrefixRetainable(r, db[r], Current)
  /\ db' = [db EXCEPT ![r] = RetainProviderPrefix(@, Current)]
  /\ UNCHANGED <<opening, be, pass, faults>>

\* The backend reserves the next index (external, and not trusted to keep to
\* the case).
BackendReserves ==
  /\ V2 /\ Opened(be.contributed) /\ be.contributed # {}
  /\ be.reserved < Cardinality(Slots)
  /\ be' = [be EXCEPT !.reserved = @ + 1]
  /\ UNCHANGED <<opening, db, pass, faults>>

-----------------------------------------------------------------------------
(* ensurePaidCaseDomain, on the one runtime of a version 1 case.           *)

Host == Slot(1).rt
Ledger == db[Host]
steady == <<mode, entries, pass, conns, clients, life, boot, sent, resp>>
Goto(pc) == drv' = [drv EXCEPT !.pc = pc]
StopDriver == drv' = [pc |-> "idle", dom |-> None]
At(pc) == drv.pc = pc /\ sel = drv.dom

\* ObservePaidLedgerReadback: the signed readback has no owner.
LedgerReadback(D) == LedgerCut(D) /\ PhysicalOwner(D) = None /\ AllSettled(D)

\* paidBootstrapOriginals: the n rows the readback lists are settled ones of a
\* ledger that still reads back.
BootstrapOriginals(D, n) ==
  LedgerCut(D) /\ \A i \in 1..n : D.row[i] # None /\ D.row[i].phase = "settled"

\* The retained request and the backend's adoption of it agree.
AdoptionBasis(D, d) ==
  D.bootstrap[d] # None /\ BootstrapOriginals(D, D.bootstrap[d]) /\ d \in be.adopted

\* The cash is reconstructed allocation by allocation: each is joined with all of
\* its operations, so none may be used in part.
FinancialOriginals(D, d) ==
  \A i \in 1..D.bootstrap[d] :
    {j \in Own(Slot(i).dom) : SamePreparation(i, j)} \subseteq 1..D.bootstrap[d]

\* PreparePaidCaseDomainAdoption: the ledger is adopted when there is none, and
\* the bootstrap request with its signed readback is retained before any POST:
\* only over a ledger whose rows are all settled.
PrepareDomain(d) ==
  /\ drv.pc = "idle" /\ sel = d /\ d \in Domains
  /\ \E unknown \in (IF Ledger.anchor THEN {None} ELSE ImportedUnknown) :
       LET D == IF Ledger.anchor THEN Ledger ELSE AdoptPhysicalLedger(Ledger, unknown)
           ready == IF D.bootstrap[d] # None THEN BootstrapOriginals(D, D.bootstrap[d])
                    ELSE LedgerReadback(D)
           kept == IF D.bootstrap[d] # None \/ ~ready THEN D
                   ELSE [D EXCEPT !.bootstrap[d] = Cardinality(Rows(D))]
       IN /\ db' = [db EXCEPT ![Host] = kept]
          /\ drv' = IF ready THEN [pc |-> "observe", dom |-> d] ELSE drv
          /\ <<db, drv>>' # <<db, drv>>
  /\ UNCHANGED <<steady, be, sel, expired, faults>>

\* ObservePaidCaseDomain hands the readback over; its answer is compared.
ObserveDomain ==
  /\ At("observe")
  /\ \/ Goto("adopt") /\ NoFault
     \/ StopDriver /\ Fault
  /\ UNCHANGED <<steady, db, be, sel, expired>>

\* The backend commits its mapping while the readback is current.
AdoptDomain ==
  LET d == drv.dom
      taken == [be EXCEPT !.adopted = IF d \in expired THEN @ ELSE @ \cup {d}]
  IN
  /\ At("adopt")
  /\ \/ /\ be' = taken /\ NoFault
        /\ IF d \in taken.adopted THEN Goto("basis") ELSE StopDriver
     \/ be' \in {be, taken} /\ StopDriver /\ Fault
  /\ UNCHANGED <<steady, db, sel, expired>>

\* AdoptPaidDomain: the ledger is still the one the readback signed, nobody
\* owns it, and every earlier domain is used up.
AdoptPaidDomain(D, d) ==
  \/ ReadPaidDomain(D, d) /\ LedgerCut(D)
  \/ /\ ValidDomain(d) /\ LedgerCut(D) /\ PhysicalOwner(D) = None
     /\ Cardinality(Rows(D)) = D.bootstrap[d]
     /\ \A e \in D.basis : PaidDomainHistory(D, e) = Own(e)
     /\ AllSettled(D)

\* The full domain of an inventory with a qualification pair follows that pair:
\* accepted by the backend, all its requests made and settled.
FollowsQualification(D, d) ==
  LET e == Prior[d] IN
  e # None => /\ ReadPaidDomain(D, e) /\ e \in D.confirmed
              /\ PaidDomainHistory(D, e) = Own(e)
              /\ \A i \in Own(e) : D.row[i].phase = "settled"

\* A new acceptance needs a readback that has not expired; one that is in the
\* database does not.
StoreBasis ==
  LET d == drv.dom IN
  /\ At("basis")
  /\ IF /\ AdoptionBasis(Ledger, d) /\ FollowsQualification(Ledger, d)
        /\ FinancialOriginals(Ledger, d)
        /\ (d \in Ledger.accepted \/ d \notin expired)
        /\ AdoptPaidDomain(Ledger, d)
     THEN db' = [db EXCEPT ![Host].basis = @ \cup {d}] /\ Goto("sign")
     ELSE UNCHANGED db /\ StopDriver
  /\ UNCHANGED <<steady, be, sel, expired, faults>>

\* The acceptance is signed once and kept as a file, then as a fact.
SignAcceptance ==
  LET d == drv.dom IN
  /\ At("sign")
  /\ IF d \in Ledger.accepted \cup Ledger.signed \/ d \notin expired
     THEN db' = [db EXCEPT ![Host].signed = @ \cup {d}] /\ Goto("retain")
     ELSE UNCHANGED db /\ StopDriver
  /\ UNCHANGED <<steady, be, sel, expired, faults>>

RetainAcceptance ==
  /\ At("retain")
  /\ db' = [db EXCEPT ![Host].accepted = @ \cup {drv.dom}]
  /\ Goto("accept")
  /\ UNCHANGED <<steady, be, sel, expired, faults>>

\* AcceptPaidCaseDomain and ConfirmPaidDomainAcceptance: only the backend's
\* copy of the acceptance makes the domain usable.
ConfirmDomain ==
  LET d == drv.dom  taken == [be EXCEPT !.accepted = @ \cup {d}] IN
  /\ At("accept") /\ StopDriver
  /\ \/ /\ be' = taken /\ NoFault
        /\ db' = [db EXCEPT ![Host].confirmed = @ \cup {d}]
     \/ be' \in {be, taken} /\ Fault /\ UNCHANGED db
  /\ UNCHANGED <<steady, sel, expired>>

\* stable() fails: the current manifest names another demand.
ScopeChanged ==
  /\ drv.pc # "idle" /\ sel # drv.dom /\ StopDriver
  /\ UNCHANGED <<steady, db, be, sel, expired, faults>>

\* The operator installs the next demand (external), at any moment; going back to
\* an earlier one is counted as a fault.
SelectDemand(d) ==
  /\ d \in Domains \ {sel}
  /\ IF Min(Own(d)) > Min(Own(sel)) THEN NoFault ELSE Fault
  /\ sel' = d
  /\ UNCHANGED <<steady, db, be, expired, drv>>

\* The control plane retires a preparation's entry (external).
RetireEntry(p) ==
  /\ p \in entries /\ Slot(Home(p)).dom # Legacy /\ Fault
  /\ entries' = entries \ {p}
  /\ UNCHANGED <<mode, db, be, sel, expired, drv, pass, conns, clients, life, boot,
                 sent, resp>>

Expire(d) ==
  /\ d \in Domains \ expired /\ Ledger.bootstrap[d] # None
  /\ expired' = expired \cup {d}
  /\ UNCHANGED <<steady, db, be, sel, drv, faults>>

-----------------------------------------------------------------------------
(* Restarts.                                                               *)

\* A new native process has another identity; the handlers of the old one
\* find out when they check the peer.
NativeRestart(p) ==
  /\ ~IsAccess(p) /\ Slot(Home(p)).dom # Legacy /\ Fault
  /\ life' = [life EXCEPT ![p] = @ + 1]
  /\ clients' = [clients EXCEPT ![p] = IdleClient]
  /\ conns' = {[h EXCEPT !.live = h.live /\ h.prep # p] : h \in conns}
  /\ UNCHANGED <<mode, entries, db, be, sel, expired, drv, pass, boot, sent, resp>>

\* The daemon's goroutines and its access probe die with it; the database, the
\* native processes and their journals stay.
DaemonRestart(r) ==
  /\ r \in Members /\ Fault
  /\ boot' = [boot EXCEPT ![r] = @ + 1]
  /\ conns' = {h \in conns : RuntimeOf(h.prep) # r}
  /\ clients' = [p \in Preps |->
       IF RuntimeOf(p) # r THEN clients[p]
       ELSE IF IsAccess(p) THEN IdleClient
       ELSE IF clients[p].pc \in {"admitting", "settling"} THEN Failed(p)
       ELSE clients[p]]
  /\ pass' = [pass EXCEPT ![r] = "idle"]
  /\ StopDriver
  /\ UNCHANGED <<mode, entries, db, be, sel, expired, life, sent, resp>>

-----------------------------------------------------------------------------
Next ==
  \/ \E p \in Preps : \E i \in Slots : Ask(p, i)
  \/ \E p \in Preps : \/ Send(p) \/ Answered(p) \/ Unanswered(p)
                      \/ AskSettle(p) \/ NativeRestart(p)
                      \/ RegisterNative(p) \/ RetireEntry(p)
  \/ \E h \in conns : \/ GiveUp(h) \/ Authorise(h) \/ Bind(h) \/ Admit(h)
                      \/ Verify(h) \/ Sign(h) \/ Post(h) \/ Close(h) \/ Reply(h)
  \/ \E r \in Runtimes : \/ PassOpening(r) \/ PostOpening(r) \/ GetOpening(r)
                         \/ CollectReadback(r) \/ DaemonRestart(r)
  \/ BackendReserves
  \/ \E d \in Domains : PrepareDomain(d) \/ SelectDemand(d) \/ Expire(d)
  \/ ObserveDomain \/ AdoptDomain \/ StoreBasis \/ SignAcceptance
  \/ RetainAcceptance \/ ConfirmDomain \/ ScopeChanged

\* The daemon's pass loop comes round and every call of it returns.
Fairness ==
  \A r \in Runtimes :
    /\ WF_vars(PassOpening(r)) /\ WF_vars(PostOpening(r))
    /\ WF_vars(GetOpening(r))

Spec == Init /\ [][Next]_vars /\ Fairness

-----------------------------------------------------------------------------
Optional(S) == S \cup {None}
Snapshots == [reserved : 0..Cardinality(Slots), settled : SUBSET Slots]
Stores ==
  [anchor : BOOLEAN, row : [Slots -> Optional(Operations)], owner : Optional(Slots),
   bootstrap : [Domains -> Optional(Nat)], basis : SUBSET Domains,
   signed : SUBSET Domains, accepted : SUBSET Domains, confirmed : SUBSET Domains,
   opening : {"none", "observed", "contributed", "opened"}, bound : SUBSET Slots,
   reservations : 0..Cardinality(Slots), settlements : Nat,
   archive : [Slots -> Optional(Usages)], envelope : [Slots -> Optional(Usages)],
   ack : SUBSET Slots, enrolled : [Preps -> Optional(Nat)],
   registered : [Preps -> SUBSET Nat]]
Backends ==
  [contributed : SUBSET Runtimes, reserved : 0..Cardinality(Slots),
   settled : [Slots -> Optional(Usages)], adopted : SUBSET Domains,
   accepted : SUBSET Domains]
Handlers ==
  [prep : Preps, slot : Slots, act : {"admit", "settle"}, who : Nat, live : BOOLEAN,
   pc : {"authorise", "bind", "admit", "granted", "verify", "sign", "post", "close",
         "closed", "refused"},
   claim : Optional(Usages), snap : Optional(Operations) \cup Snapshots]
Clients ==
  [pc : {"idle", "admitting", "admitted", "sent", "got", "settling"},
   slot : Optional(Slots)]
Drivers ==
  [pc : {"idle", "observe", "adopt", "basis", "sign", "retain", "accept"},
   dom : Optional(Domains)]

\* The rows, the facts and the counters have their types.
TypeOK ==
  /\ mode \in Modes
  /\ db \in [Runtimes -> Stores]
  /\ \A r \in Runtimes : db[r].settlements <= db[r].reservations
  /\ be \in Backends
  /\ entries \subseteq Preps
  /\ sel \in Optional(Domains) /\ expired \subseteq Domains
  /\ drv \in Drivers /\ (drv.pc # "idle" => drv.dom # None)
  /\ pass \in [Runtimes -> {"idle", "post", "get"}]
  /\ conns \subseteq Handlers /\ clients \in [Preps -> Clients]
  /\ life \in [Preps -> Nat] /\ boot \in [Runtimes -> Nat]
  /\ sent \in [Slots -> Nat] /\ resp \in [Slots -> Optional(Usages)]
  /\ faults \in 0..MaxFaults[mode]

\* At most one request is with the provider, over all runtimes of the case, and
\* no request is sent twice, whatever admit answers were lost, processes
\* restarted or handlers overlapped (AdmitPhysical's singleton owner, and
\* validateParticipantAppend's earlier settlements).
OneInFlight ==
  /\ \A i \in Slots : sent[i] <= 1
  /\ Cardinality({i \in Slots : sent[i] = 1 /\ resp[i] = None}) <= 1

\* What the provider may charge, the open request at its full reservation, stays
\* within the case's exposure, though the backend hands out reservations freely
\* (validatePhysicalAppend, verifyParticipantPrefix).
SpendWithinCase ==
  \A d \in {Slot(i).dom : i \in Slots} :
    MapThenSumSet(LAMBDA i : IF resp[i] = None THEN 1 ELSE resp[i],
                  {i \in Own(d) : sent[i] > 0}) <= Usd[d]

\* A settled row has the usage of the provider's answer; in version 2 the
\* backend holds the same settlement before the ledger lets the next request in
\* (SettlePhysical's acknowledgement).  The owner row is exactly the unknown one.
SettledIsAccepted ==
  \A r \in Runtimes :
    /\ {i \in Rows(db[r]) : db[r].row[i].phase = "unknown"} = {db[r].owner} \ {None}
    /\ \A i \in Rows(db[r]) \ Own(Legacy) : db[r].row[i].phase = "settled" =>
         /\ db[r].row[i].usage = resp[i]
         /\ V2 => be.settled[i] = resp[i]

\* Every runtime of a version 2 case comes to hold the opening the backend
\* accepted, lost posts and restarts notwithstanding
\* (InitializeProviderAccounting, initializeParticipantAccounting).
OpeningCompletes ==
  V2 => <>(\A r \in Members : db[r].opening = "opened")
=============================================================================
