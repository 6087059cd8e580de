------------------------- MODULE PhysicalGateProofs -------------------------
(***************************************************************************)
(* Proofs about PhysicalGate, for every plan, number of runtimes, handlers *)
(* and faults: one request in flight (OneInFlight), settled rows as the    *)
(* provider and the backend have them (SettledIsAccepted) and the spend of *)
(* every case within its exposure (SpendWithinCase).                       *)
(*                                                                         *)
(* The inductive invariant follows a request through its four places: the  *)
(* client that waits for an answer, the handler goroutine that serves the  *)
(* call, the row of its runtime's ledger, and the backend's settlement.    *)
(*                                                                         *)
(* The spend argument (CaseInv) adds up what the provider may charge for   *)
(* the rows of a ledger, or for the prefix a participant mirrors; the sums *)
(* are those of the model's folds, over finite sets of requests.           *)
(***************************************************************************)
EXTENDS PhysicalGate, FiniteSetTheorems, TLAPS

Mine(i) == db[Slot(i).rt]
Open == {i \in Slots : Slot(i).dom # Legacy}

(* The client of a preparation: what it has sent and read so far.          *)
Waits(p) ==
  LET c == clients[p] IN c.pc # "idle" =>
    /\ c.slot \in Open /\ Slot(c.slot).prep = p
    /\ c.pc \in {"admitting", "admitted"} => sent[c.slot] = 0
    /\ c.pc = "admitted" => Mine(c.slot).row[c.slot] # None
    /\ c.pc = "sent" => sent[c.slot] # 0 /\ resp[c.slot] = None
    /\ c.pc \in {"got", "settling"} => resp[c.slot] # None

ClientInv == \A p \in Preps : Waits(p)

(* A handler goroutine: whose call it serves, and what it has verified.    *)
Serves(h) ==
  /\ h.slot \in Open /\ Slot(h.slot).prep = h.prep
  /\ h.pc \in {"authorise", "bind", "admit", "granted"} => h.act = "admit"
  /\ h.pc \in {"verify", "sign", "post", "close", "closed"} => h.act = "settle"
  /\ h.live => /\ clients[h.prep].slot = h.slot
               /\ clients[h.prep].pc = IF h.act = "admit" THEN "admitting" ELSE "settling"
  /\ h.pc = "granted" => Mine(h.slot).row[h.slot] # None
Verified(h) ==
  /\ h.act = "settle" => resp[h.slot] # None
  /\ h.pc \in {"sign", "post", "close"} =>
       h.claim = resp[h.slot] /\ Mine(h.slot).row[h.slot] # None
  /\ h.pc = "sign" => Mine(h.slot).archive[h.slot] = h.claim
  /\ h.pc = "post" => Mine(h.slot).envelope[h.slot] = h.claim
  /\ h.pc = "bind" => h.snap \in Snapshots /\ \A i \in h.snap.settled : be.settled[i] # None
HandlerInv ==
  /\ \A h \in conns : Serves(h) /\ Verified(h)
  /\ \A g, h \in conns : g.live /\ h.live /\ g.prep = h.prep => g = h

(* One runtime's ledger.                                                   *)
OwnerInv(D) ==
  /\ \A i \in Slots : D.row[i] # None /\ D.row[i].phase = "unknown" <=> D.owner = i
  /\ ~D.anchor => \A i \in Slots : D.row[i] = None
Fact(x, i) == x # None => x = resp[i]
FactsInv(D) ==
  \A i \in Slots :
    /\ Fact(D.archive[i], i) /\ Fact(D.envelope[i], i)
    /\ i \in D.ack => resp[i] # None /\ be.settled[i] = resp[i]
RowsInv(r, D) ==
  \A i \in Open : D.row[i] # None =>
    /\ Slot(i).rt = r
    /\ D.row[i].phase = "settled" =>
         /\ resp[i] # None /\ D.row[i].usage = resp[i]
         /\ V2 => be.settled[i] = resp[i]
PrefixInv(D) ==
  \A j \in Slots :
    /\ j <= D.settlements => be.settled[j] # None
    /\ mode = "participant" /\ (\E i \in Slots : j < i /\ D.row[i] # None)
         => be.settled[j] # None
Sound(r) == LET D == db[r] IN OwnerInv(D) /\ FactsInv(D) /\ RowsInv(r, D) /\ PrefixInv(D)
LedgerInv ==
  /\ \A r \in Runtimes : Sound(r)
  /\ \A i \in Slots : /\ Fact(be.settled[i], i)
                      /\ IsAccess(Slot(i).prep) => resp[i] \in {0, None}

(* What reached the provider has a row, and nothing else has an answer.    *)
SentInv ==
  \A i \in Slots :
    /\ sent[i] # 0 => sent[i] = 1 /\ i \in Open /\ Mine(i).row[i] # None
    /\ sent[i] = 0 => resp[i] = None

IInv == TypeOK /\ ClientInv /\ HandlerInv /\ LedgerInv /\ SentInv

-----------------------------------------------------------------------------
(* The plan.                                                               *)

LEMMA SlotType ==
  ASSUME mode \in Modes
  PROVE  /\ Slots = 1..Len(Plan[mode]) /\ Len(Plan[mode]) \in Nat
         /\ 1 \in Slots
         /\ Slots \subseteq Nat /\ IsFiniteSet(Slots) /\ Cardinality(Slots) \in Nat
         /\ None \notin Slots
         /\ \A i \in Slots : /\ Slot(i).rt \in Runtimes
                             /\ Slot(i).prep \in Preps
<1> USE DEF Slots
<1>1. Plan[mode] \in Seq(Requests(mode)) /\ Plan[mode] # <<>>
  BY PlanAssumption
<1>2. Slots = 1..Len(Plan[mode]) /\ Len(Plan[mode]) \in Nat /\ Len(Plan[mode]) # 0
  BY <1>1
<1>3. IsFiniteSet(Slots) /\ Cardinality(Slots) \in Nat
  <2> DEFINE n == Len(Plan[mode])
  <2>1. n \in Int /\ 1 \in Int
    BY <1>2
  <2>2. IsFiniteSet(1..n)
    BY <2>1, FS_Interval
  <2>3. Cardinality(1..n) \in Nat
    BY <2>2, FS_CardinalityType
  <2> QED BY <1>2, <2>2, <2>3
<1>4. ASSUME NEW i \in Slots
      PROVE  Slot(i).rt \in Runtimes /\ Slot(i).prep \in Preps
  <2>1. Plan[mode][i] \in Requests(mode)
    BY <1>1, <1>2
  <2> QED BY <2>1 DEF Requests, Slot, Preps
<1> QED BY <1>2, <1>3, <1>4, NoneAssumption

\* The runtime of a preparation is that of each of its requests.
LEMMA RuntimeOfSlot ==
  ASSUME mode \in Modes, NEW i \in Slots
  PROVE  RuntimeOf(Slot(i).prep) = Slot(i).rt
<1> DEFINE p == Slot(i).prep
           k == CHOOSE j \in DOMAIN Plan[mode] : Plan[mode][j].prep = p
<1>1. p \in PrepsOf[mode]
  BY SlotType DEF Preps
<1>2. Home(p) = k
  BY <1>1 DEF Home, HomeOf
<1>3. k \in DOMAIN Plan[mode] /\ Plan[mode][k].prep = p
  BY DEF Slots, Slot
<1>4. Plan[mode][k].rt = Plan[mode][i].rt
  BY <1>3, PlanAssumption DEF Slots, Slot
<1> QED BY <1>2, <1>4 DEF RuntimeOf, Slot

\* Only a participant case has several runtimes.
LEMMA OneRuntime ==
  ASSUME mode \in Modes, mode # "participant", NEW i \in Slots, NEW j \in Slots
  PROVE  Slot(i).rt = Slot(j).rt
BY PlanAssumption DEF Slots, Slot

\* What a case is does not change.
LEMMA SameMode ==
  ASSUME mode' = mode
  PROVE  /\ Slots' = Slots /\ Preps' = Preps /\ Domains' = Domains
         /\ V2' = V2 /\ Open' = Open /\ Stores' = Stores /\ Backends' = Backends
         /\ Handlers' = Handlers /\ Clients' = Clients /\ Drivers' = Drivers
         /\ Snapshots' = Snapshots
         /\ \A i : Slot(i)' = Slot(i) /\ \A p : IsAccess(p)' = IsAccess(p)
<1>1. Slots' = Slots /\ Preps' = Preps /\ V2' = V2 /\ \A i : Slot(i)' = Slot(i)
  BY DEF Slots, Preps, V2, Slot
<1>2. Domains' = Domains /\ Open' = Open /\ Snapshots' = Snapshots /\ Clients' = Clients
  BY <1>1 DEF Domains, Open, Snapshots, Clients
<1>3. Stores' = Stores /\ Backends' = Backends /\ Handlers' = Handlers /\ Drivers' = Drivers
  BY <1>1, <1>2 DEF Stores, Backends, Handlers, Drivers
<1>4. \A p : IsAccess(p)' = IsAccess(p)
  BY DEF IsAccess, Slot, Home
<1> QED BY <1>1, <1>2, <1>3, <1>4

-----------------------------------------------------------------------------
(* The operations on a store keep its type.                                *)

LEMMA EmptyStoreType ==
  ASSUME mode \in Modes
  PROVE  EmptyStore \in Stores
<1>1. Cardinality(Slots) \in Nat
  BY SlotType
<1> QED BY <1>1 DEF EmptyStore, Stores, Optional

LEMMA AdmitPhysicalType ==
  ASSUME NEW D \in Stores, NEW i \in Slots, NEW who \in Nat
  PROVE  LET E == AdmitPhysical(D, i, who) IN
         /\ E \in Stores
         /\ E.row = [D.row EXCEPT ![i] =
                       [phase |-> "unknown", who |-> who, usage |-> None]]
         /\ E.owner = i /\ E.anchor = D.anchor
         /\ E.archive = D.archive /\ E.envelope = D.envelope /\ E.ack = D.ack
         /\ E.settlements = D.settlements /\ E.reservations = D.reservations
<1> DEFINE op == [phase |-> "unknown", who |-> who, usage |-> None]
           row == [D.row EXCEPT ![i] = op]
<1>1. D.row \in [Slots -> Optional(Operations)]
  BY DEF Stores
<1>2. op \in Operations
  BY DEF Operations
<1>3. row \in [Slots -> Optional(Operations)]
  BY <1>1, <1>2 DEF Optional
<1>4. AdmitPhysical(D, i, who) = [[D EXCEPT !.row = row] EXCEPT !.owner = i]
  BY DEF AdmitPhysical, InsertPhysical, Stores
<1> HIDE DEF row
<1>5. i \in Optional(Slots)
  BY DEF Optional
<1>6. [[D EXCEPT !.row = row] EXCEPT !.owner = i] \in Stores
  BY <1>3, <1>5 DEF Stores
<1> QED BY <1>4, <1>6 DEF Stores, row

LEMMA SettlePhysicalType ==
  ASSUME NEW D \in Stores, NEW i \in Slots, NEW u \in Usages, D.row[i] # None
  PROVE  LET E == SettlePhysical(D, i, u) IN
         /\ E \in Stores
         /\ D.row[i].phase = "settled" => E = D
         /\ D.row[i].phase # "settled" =>
              /\ E.row[i] \in Operations
              /\ E.row[i].phase = "settled" /\ E.row[i].usage = u
              /\ \A j \in Slots \ {i} : E.row[j] = D.row[j]
              /\ E.owner = None
         /\ E.anchor = D.anchor
         /\ E.archive = D.archive /\ E.envelope = D.envelope /\ E.ack = D.ack
         /\ E.settlements = D.settlements /\ E.reservations = D.reservations
<1> DEFINE op == [D.row[i] EXCEPT !.phase = "settled", !.usage = u]
           row == [D.row EXCEPT ![i] = op]
<1>1. D.row \in [Slots -> Optional(Operations)]
  BY DEF Stores
<1>2. D.row[i] \in Operations
  BY <1>1 DEF Optional
<1>3. op \in Operations /\ op.phase = "settled" /\ op.usage = u
  BY <1>2 DEF Operations
<1>4. row \in [Slots -> Optional(Operations)]
  BY <1>1, <1>3 DEF Optional
<1>5. D.row[i].phase # "settled" =>
        SettlePhysical(D, i, u) = [[D EXCEPT !.row = row] EXCEPT !.owner = None]
  BY DEF SettlePhysical, Stores
<1>6. D.row[i].phase = "settled" => SettlePhysical(D, i, u) = D
  BY DEF SettlePhysical
<1>9. row[i] = op /\ \A j \in Slots \ {i} : row[j] = D.row[j]
  BY <1>1
<1> HIDE DEF row, op
<1>7. None \in Optional(Slots)
  BY DEF Optional
<1>8. [[D EXCEPT !.row = row] EXCEPT !.owner = None] \in Stores
  BY <1>4, <1>7 DEF Stores
<1> QED BY <1>3, <1>5, <1>6, <1>8, <1>9 DEF Stores

-----------------------------------------------------------------------------
(* What most steps leave alone.                                            *)

\* Facts are only added.
Grows ==
  /\ mode' = mode
  /\ \A r \in Runtimes : \A i \in Slots :
       /\ db[r].row[i] # None => db'[r].row[i] # None
       /\ db[r].archive[i] # None => db'[r].archive[i] = db[r].archive[i]
       /\ db[r].envelope[i] # None => db'[r].envelope[i] = db[r].envelope[i]
  /\ \A i \in Slots : /\ be.settled[i] # None => be'.settled[i] = be.settled[i]
                      /\ resp[i] # None => resp'[i] = resp[i]

\* The part of a runtime's store the invariant is about stays.
Steady(r) ==
  /\ db'[r].row = db[r].row /\ db'[r].owner = db[r].owner
  /\ (db[r].anchor => db'[r].anchor)
  /\ db'[r].archive = db[r].archive /\ db'[r].envelope = db[r].envelope
  /\ db'[r].ack = db[r].ack /\ db'[r].settlements = db[r].settlements

LEMMA ClientKept ==
  ASSUME TypeOK, Grows, NEW p \in Preps, Waits(p), clients'[p] = clients[p],
         clients[p].pc # "idle" =>
           /\ sent'[clients[p].slot] = sent[clients[p].slot]
           /\ resp'[clients[p].slot] = resp[clients[p].slot]
  PROVE  Waits(p)'
<1> DEFINE c == clients[p]
<1>1. mode \in Modes /\ mode' = mode
  BY DEF TypeOK, Grows
<1>2. SUFFICES ASSUME c.pc # "idle"
               PROVE  Waits(p)'
  BY DEF Waits
<1>3. c.slot \in Slots /\ Slot(c.slot).rt \in Runtimes
  BY <1>1, <1>2, SlotType DEF Waits, Open
<1> QED BY <1>1, <1>2, <1>3, SameMode DEF Waits, Grows, Mine

LEMMA HandlerKept ==
  ASSUME TypeOK, Grows, NEW h \in Handlers, Serves(h), Verified(h),
         h.live => clients'[h.prep] = clients[h.prep]
  PROVE  Serves(h)' /\ Verified(h)'
<1>1. mode \in Modes /\ mode' = mode
  BY DEF TypeOK, Grows
<1>2. h.slot \in Slots /\ Slot(h.slot).rt \in Runtimes
  BY <1>1, SlotType DEF Serves, Open
<1>3. Serves(h)'
  BY <1>1, <1>2, SameMode DEF Serves, Grows, Mine
<1>4. h.claim = resp[h.slot] /\ resp[h.slot] # None => h.claim = resp'[h.slot]
  BY <1>2 DEF Grows
<1>5. h.pc = "bind" => h.snap.settled \subseteq Slots
  BY DEF Verified, Snapshots
<1>6. h.pc \in {"sign", "post", "close"} => h.act = "settle"
  BY DEF Serves
<1>7. Verified(h)'
  BY <1>1, <1>2, <1>4, <1>5, <1>6, SameMode DEF Verified, Grows, Mine
<1> QED BY <1>3, <1>7

LEMMA SoundKept ==
  ASSUME TypeOK, mode' = mode, NEW r \in Runtimes, Sound(r), Steady(r),
         be'.settled = be.settled, resp' = resp
  PROVE  Sound(r)'
<1>1. Slots' = Slots /\ Open' = Open /\ V2' = V2 /\ \A i : Slot(i)' = Slot(i)
  BY SameMode
<1>2. OwnerInv(db[r])'
  BY <1>1 DEF Sound, Steady, OwnerInv
<1>3. FactsInv(db[r])'
  BY <1>1 DEF Sound, Steady, FactsInv, Fact
<1>4. RowsInv(r, db[r])'
  BY <1>1 DEF Sound, Steady, RowsInv
<1>5. PrefixInv(db[r])'
  BY <1>1 DEF Sound, Steady, PrefixInv
<1> QED BY <1>2, <1>3, <1>4, <1>5 DEF Sound

LEMMA SentKept ==
  ASSUME TypeOK, Grows, SentInv, sent' = sent, resp' = resp
  PROVE  SentInv'
<1>1. mode \in Modes /\ mode' = mode
  BY DEF TypeOK, Grows
<1> QED BY <1>1, SameMode, SlotType DEF SentInv, Grows, Mine

\* A step that only touches what the invariant does not mention.
LEMMA SteadyGrows ==
  ASSUME mode' = mode, \A r \in Runtimes : Steady(r),
         be'.settled = be.settled, resp' = resp
  PROVE  Grows
BY DEF Grows, Steady

LEMMA StoresSteady ==
  ASSUME IInv, mode' = mode, \A r \in Runtimes : Steady(r),
         be'.settled = be.settled, resp' = resp, sent' = sent
  PROVE  Grows /\ LedgerInv' /\ SentInv'
<1>1. Grows
  BY SteadyGrows
<1>2. \A r \in Runtimes : Sound(r)'
  BY SoundKept DEF IInv, LedgerInv
<1>3. \A i \in Slots' : Fact(be.settled[i], i)'
                        /\ (IsAccess(Slot(i).prep) => resp[i] \in {0, None})'
  BY SameMode DEF IInv, LedgerInv, Fact
<1>4. SentInv'
  BY <1>1, SentKept DEF IInv
<1> QED BY <1>1, <1>2, <1>3, <1>4 DEF LedgerInv

LEMMA ClientsKept ==
  ASSUME IInv, Grows, clients' = clients, sent' = sent, resp' = resp
  PROVE  ClientInv'
<1>1. Preps' = Preps
  BY SameMode DEF Grows
<1> QED BY <1>1, ClientKept DEF IInv, ClientInv

LEMMA HandlersKept ==
  ASSUME IInv, Grows, clients' = clients, conns' = conns
  PROVE  HandlerInv'
<1>1. \A h \in conns : h \in Handlers
  BY DEF IInv, TypeOK
<1>2. \A h \in conns : Serves(h)' /\ Verified(h)'
  BY <1>1, HandlerKept DEF IInv, HandlerInv
<1> QED BY <1>2 DEF IInv, HandlerInv

\* A handler goroutine goes from h to g; its client waits on.
LEMMA AwaitKept ==
  ASSUME IInv, Grows, clients' = clients, NEW h \in conns, NEW g \in Handlers,
         g.live = h.live, g.prep = h.prep, Await(h, g), Serves(g)', Verified(g)'
  PROVE  conns' \subseteq Handlers' /\ HandlerInv'
<1>1. \A k \in conns : k \in Handlers
  BY DEF IInv, TypeOK
<1>2. \A k \in conns : Serves(k)' /\ Verified(k)'
  BY <1>1, HandlerKept DEF IInv, HandlerInv
<1>3. conns' = (conns \ {h}) \cup {g}
  BY DEF Await
<1>4. Handlers' = Handlers
  BY SameMode DEF Grows
<1>5. \A k, l \in conns' : k.live /\ l.live /\ k.prep = l.prep => k = l
  BY <1>3 DEF IInv, HandlerInv
<1>6. \A k \in conns' : Serves(k)' /\ Verified(k)'
  BY <1>2, <1>3
<1> QED BY <1>1, <1>3, <1>4, <1>5, <1>6 DEF HandlerInv

LEMMA RefuseKept ==
  ASSUME IInv, Grows, clients' = clients, NEW h \in conns, Refuse(h)
  PROVE  conns' \subseteq Handlers' /\ HandlerInv'
<1> DEFINE g == [h EXCEPT !.pc = "refused", !.snap = None]
<1>1. h \in Handlers /\ Serves(h) /\ Verified(h)
  BY DEF IInv, TypeOK, HandlerInv
<1>2. g \in Handlers
  BY <1>1 DEF Handlers, Optional
<1>3. /\ g.pc = "refused" /\ g.live = h.live /\ g.prep = h.prep /\ g.slot = h.slot
      /\ g.act = h.act
  BY <1>1 DEF Handlers
<1>4. Serves(h)' /\ Verified(h)'
  BY <1>1, HandlerKept DEF IInv
<1> HIDE DEF g
<1>5. Serves(g)' /\ Verified(g)'
  BY <1>3, <1>4 DEF Serves, Verified
<1>6. Await(h, g)
  BY DEF Refuse, g
<1> QED BY <1>2, <1>3, <1>5, <1>6, AwaitKept

\* A handler's step changes the store and the handlers only.
LEMMA HandlerType ==
  ASSUME TypeOK, UNCHANGED rest, conns' \subseteq Handlers',
         db' \in [Runtimes -> Stores],
         \A r \in Runtimes : db'[r].settlements <= db'[r].reservations
  PROVE  TypeOK'
<1>1. mode' = mode
  BY DEF rest
<1> QED BY <1>1, SameMode DEF TypeOK, rest

LEMMA StoreStays ==
  ASSUME IInv, UNCHANGED <<db, rest>>
  PROVE  /\ Grows /\ LedgerInv' /\ SentInv' /\ ClientInv'
         /\ (conns' \subseteq Handlers' => TypeOK')
<1>1. mode' = mode /\ be' = be /\ resp' = resp /\ sent' = sent /\ clients' = clients /\ db' = db
  BY DEF rest
<1>2. \A r \in Runtimes : Steady(r)
  BY <1>1 DEF Steady
<1>3. Grows /\ LedgerInv' /\ SentInv'
  BY <1>1, <1>2, StoresSteady
<1>4. ClientInv'
  BY <1>1, <1>3, ClientsKept
<1>5. conns' \subseteq Handlers' => TypeOK'
  BY <1>1, HandlerType DEF IInv, TypeOK
<1> QED BY <1>3, <1>4, <1>5

\* A handler that refuses changes nothing else.
LEMMA RefuseStep ==
  ASSUME IInv, NEW h \in conns, Refuse(h), UNCHANGED <<db, rest>>
  PROVE  IInv'
<1>1. /\ Grows /\ LedgerInv' /\ SentInv' /\ ClientInv'
      /\ (conns' \subseteq Handlers' => TypeOK')
  BY StoreStays
<1>2. clients' = clients
  BY DEF rest
<1> QED BY <1>1, <1>2, RefuseKept DEF IInv

LEMMA AuthoriseStep ==
  ASSUME IInv, NEW h \in conns, Authorise(h)
  PROVE  IInv'
<1>1. UNCHANGED <<db, rest>> /\ h.pc = "authorise"
  BY DEF Authorise
<1>2. CASE ~(SamePeer(h) /\ Resolvable(h))
  BY <1>1, <1>2, RefuseStep DEF Authorise
<1>3. CASE SamePeer(h) /\ Resolvable(h)
  <2>1. h \in Handlers /\ Serves(h) /\ Verified(h) /\ TypeOK
    BY DEF IInv, TypeOK, HandlerInv
  <2>2. /\ Grows /\ LedgerInv' /\ SentInv' /\ ClientInv'
        /\ (conns' \subseteq Handlers' => TypeOK')
    BY <1>1, StoreStays
  <2>3a. Current \in Snapshots /\ \A i \in Current.settled : be.settled[i] # None
    BY <2>1 DEF Current, Snapshots, TypeOK, Backends
  <2>3. PICK s \in Snapshots : s = Current /\ \A i \in s.settled : be.settled[i] # None
    BY <2>3a
  <2>4. PICK g \in Handlers :
          g = IF V2 THEN [h EXCEPT !.pc = "bind", !.snap = s] ELSE [h EXCEPT !.pc = "admit"]
    BY <2>1, <2>3 DEF Handlers
  <2>5. Await(h, g)
    BY <1>3, <2>3, <2>4 DEF Authorise
  <2>6. /\ g.slot = h.slot /\ g.prep = h.prep /\ g.act = h.act /\ g.live = h.live
        /\ g.pc \in {"bind", "admit"} /\ (g.pc = "bind" => g.snap = s)
    BY <2>1, <2>4 DEF Handlers
  <2>7. Serves(h)' /\ clients' = clients /\ be' = be /\ mode' = mode
    BY <1>1, <2>1, <2>2, HandlerKept DEF rest
  <2>8. h.act = "admit"
    BY <1>1, <2>1 DEF Serves
  <2>9. Serves(g)'
    BY <2>6, <2>7, <2>8 DEF Serves
  <2>10. Verified(g)'
    BY <2>3, <2>6, <2>7, <2>8, SameMode DEF Verified
  <2>11. conns' \subseteq Handlers' /\ HandlerInv'
    BY <2>2, <2>5, <2>6, <2>7, <2>9, <2>10, AwaitKept
  <2> QED BY <2>2, <2>11 DEF IInv
<1> QED BY <1>2, <1>3

LEMMA SoundIs ==
  ASSUME mode' = mode, be'.settled = be.settled, resp' = resp, NEW r, NEW E, db'[r] = E,
         OwnerInv(E), FactsInv(E), RowsInv(r, E), PrefixInv(E)
  PROVE  Sound(r)'
<1>1. Slots' = Slots /\ Open' = Open /\ V2' = V2 /\ \A i : Slot(i)' = Slot(i)
  BY SameMode
<1>2. OwnerInv(db[r])'
  BY <1>1 DEF OwnerInv
<1>3. FactsInv(db[r])'
  BY <1>1 DEF FactsInv, Fact
<1>4. RowsInv(r, db[r])'
  BY <1>1 DEF RowsInv
<1>5. PrefixInv(db[r])'
  BY <1>1 DEF PrefixInv
<1> QED BY <1>2, <1>3, <1>4, <1>5 DEF Sound

\* The store of one runtime becomes E.
LEMMA LedgerStep ==
  ASSUME IInv, NEW r \in Runtimes, NEW E \in Stores, db' = [db EXCEPT ![r] = E],
         E.settlements <= E.reservations,
         mode' = mode, be' = be, resp' = resp, sent' = sent, clients' = clients,
         OwnerInv(E), FactsInv(E), RowsInv(r, E), PrefixInv(E),
         \A i \in Slots :
           /\ db[r].row[i] # None => E.row[i] # None
           /\ db[r].archive[i] # None => E.archive[i] = db[r].archive[i]
           /\ db[r].envelope[i] # None => E.envelope[i] = db[r].envelope[i]
  PROVE  /\ Grows /\ LedgerInv' /\ SentInv' /\ ClientInv'
         /\ db' \in [Runtimes -> Stores]
         /\ \A q \in Runtimes : db'[q].settlements <= db'[q].reservations
<1>2. db \in [Runtimes -> Stores] /\ TypeOK
  BY DEF IInv, TypeOK
<1>3. db'[r] = E /\ \A q \in Runtimes \ {r} : db'[q] = db[q]
  BY <1>2
<1>4. Grows
  BY <1>3 DEF Grows
<1>4a. Sound(r)'
  BY <1>3, SoundIs
<1>5. \A q \in Runtimes \ {r} : Steady(q)
  BY <1>3 DEF Steady
<1>6. \A q \in Runtimes : Sound(q)'
  BY <1>2, <1>4a, <1>5, SoundKept DEF IInv, LedgerInv
<1>7. \A i \in Slots' : Fact(be.settled[i], i)'
                        /\ (IsAccess(Slot(i).prep) => resp[i] \in {0, None})'
  BY SameMode DEF IInv, LedgerInv, Fact
<1>8. LedgerInv'
  BY <1>6, <1>7 DEF LedgerInv
<1>9. SentInv' /\ ClientInv'
  BY <1>2, <1>4, SentKept, ClientsKept DEF IInv
<1>10. db' \in [Runtimes -> Stores]
       /\ \A q \in Runtimes : db'[q].settlements <= db'[q].reservations
  BY <1>2, <1>3 DEF TypeOK
<1> QED BY <1>4, <1>8, <1>9, <1>10

\* A handler's transaction on the store of one runtime.
LEMMA StoreStep ==
  ASSUME IInv, NEW r \in Runtimes, NEW E \in Stores, db' = [db EXCEPT ![r] = E],
         E.settlements <= E.reservations, UNCHANGED rest, OwnerInv(E), FactsInv(E),
         RowsInv(r, E), PrefixInv(E),
         \A i \in Slots :
           /\ db[r].row[i] # None => E.row[i] # None
           /\ db[r].archive[i] # None => E.archive[i] = db[r].archive[i]
           /\ db[r].envelope[i] # None => E.envelope[i] = db[r].envelope[i]
  PROVE  /\ Grows /\ LedgerInv' /\ SentInv' /\ ClientInv'
         /\ (conns' \subseteq Handlers' => TypeOK')
<1>1. mode' = mode /\ be' = be /\ resp' = resp /\ sent' = sent /\ clients' = clients
  BY DEF rest
<1>2. /\ Grows /\ LedgerInv' /\ SentInv' /\ ClientInv'
      /\ db' \in [Runtimes -> Stores]
      /\ \A q \in Runtimes : db'[q].settlements <= db'[q].reservations
  BY <1>1, LedgerStep
<1>3. conns' \subseteq Handlers' => TypeOK'
  BY <1>2, HandlerType DEF IInv
<1> QED BY <1>2, <1>3

\* The request of a handler: its runtime, its store.
LEMMA HandlerSlot ==
  ASSUME IInv, NEW h \in conns
  PROVE  /\ h \in Handlers /\ Serves(h) /\ Verified(h)
         /\ h.slot \in Slots /\ h.slot \in Open /\ h.who \in Nat
         /\ RuntimeOf(h.prep) \in Runtimes
         /\ Slot(h.slot).rt = RuntimeOf(h.prep) /\ Mine(h.slot) = db[RuntimeOf(h.prep)]
         /\ db[RuntimeOf(h.prep)] \in Stores
         /\ Sound(RuntimeOf(h.prep))
<1>1. h \in Handlers /\ Serves(h) /\ Verified(h) /\ mode \in Modes
      /\ db \in [Runtimes -> Stores]
  BY DEF IInv, TypeOK, HandlerInv
<1>2. h.slot \in Slots /\ h.slot \in Open /\ Slot(h.slot).prep = h.prep /\ h.who \in Nat
  BY <1>1 DEF Handlers, Serves
<1>3. RuntimeOf(h.prep) = Slot(h.slot).rt /\ Slot(h.slot).rt \in Runtimes
  BY <1>1, <1>2, RuntimeOfSlot, SlotType
<1> QED BY <1>1, <1>2, <1>3 DEF Mine, IInv, LedgerInv


\* What the handler g needs of its store E.
Ready(g, E) ==
  /\ g.pc \in {"admit", "granted", "sign", "post", "close", "closed"}
  /\ g.pc \in {"admit", "granted"} => g.act = "admit"
  /\ g.pc \in {"sign", "post", "close", "closed"} => g.act = "settle"
  /\ g.pc = "granted" => E.row[g.slot] # None
  /\ g.pc \in {"sign", "post", "close"} => g.claim = resp[g.slot] /\ E.row[g.slot] # None
  /\ g.pc = "sign" => E.archive[g.slot] = g.claim
  /\ g.pc = "post" => E.envelope[g.slot] = g.claim

\* A handler writes the store E and goes on as g.
LEMMA HandlerStep ==
  ASSUME IInv, NEW h \in conns, NEW g \in Handlers, NEW r \in Runtimes, NEW E \in Stores,
         r = RuntimeOf(h.prep), db' = [db EXCEPT ![r] = E], Await(h, g), UNCHANGED rest,
         g.slot = h.slot, g.prep = h.prep, g.act = h.act, g.live = h.live, Ready(g, E),
         E.settlements <= E.reservations,
         OwnerInv(E), FactsInv(E), RowsInv(r, E), PrefixInv(E),
         \A i \in Slots :
           /\ db[r].row[i] # None => E.row[i] # None
           /\ db[r].archive[i] # None => E.archive[i] = db[r].archive[i]
           /\ db[r].envelope[i] # None => E.envelope[i] = db[r].envelope[i]
  PROVE  IInv'
<1>1. /\ Grows /\ LedgerInv' /\ SentInv' /\ ClientInv'
      /\ (conns' \subseteq Handlers' => TypeOK')
  BY StoreStep
<1>2. /\ h \in Handlers /\ Serves(h) /\ Verified(h) /\ h.slot \in Slots
      /\ Slot(h.slot).rt = r /\ db \in [Runtimes -> Stores] /\ TypeOK
  BY HandlerSlot DEF IInv, TypeOK
<1>3. mode' = mode /\ resp' = resp /\ clients' = clients
  BY DEF rest
<1>4. Serves(h)' /\ Verified(h)'
  BY <1>1, <1>2, <1>3, HandlerKept
<1>5. Mine(g.slot)' = E
  BY <1>2, <1>3, SameMode DEF Mine
<1>6. Serves(g)' /\ Verified(g)'
  BY <1>2, <1>3, <1>4, <1>5 DEF Serves, Verified, Ready
<1>7. conns' \subseteq Handlers' /\ HandlerInv'
  BY <1>1, <1>3, <1>6, AwaitKept
<1> QED BY <1>1, <1>7 DEF IInv

LEMMA AdmitStep ==
  ASSUME IInv, NEW h \in conns, Admit(h)
  PROVE  IInv'
<1> DEFINE ok == SamePeer(h) /\ AdmitAllowed(db[RuntimeOf(h.prep)], h.slot, h.who)
<1>1. UNCHANGED rest /\ h.pc = "admit"
  BY DEF Admit
<1>2. CASE ~ok
  <2>1. Refuse(h) /\ UNCHANGED db
    BY <1>2 DEF Admit
  <2> QED BY <1>1, <2>1, RefuseStep
<1>3. CASE ok
  <2>1. PICK r \in Runtimes : r = RuntimeOf(h.prep)
    BY HandlerSlot
  <2>2. PICK D \in Stores : D = db[r]
    BY <2>1, HandlerSlot
  <2>3. /\ h \in Handlers /\ Serves(h) /\ Verified(h) /\ h.slot \in Slots
        /\ h.slot \in Open /\ h.who \in Nat
        /\ Slot(h.slot).rt = r /\ Mine(h.slot) = D /\ Sound(r)
        /\ mode \in Modes /\ db \in [Runtimes -> Stores] /\ TypeOK
    BY <2>1, <2>2, HandlerSlot DEF IInv, TypeOK
  <2> DEFINE op == [phase |-> "unknown", who |-> h.who, usage |-> None]
  <2>4. PICK E \in Stores : E = AdmitPhysical(D, h.slot, h.who)
    BY <2>3, AdmitPhysicalType
  <2>5. /\ E.row = [D.row EXCEPT ![h.slot] = op]
        /\ E.owner = h.slot /\ E.anchor = D.anchor
        /\ E.archive = D.archive /\ E.envelope = D.envelope /\ E.ack = D.ack
        /\ E.settlements = D.settlements /\ E.reservations = D.reservations
    BY <2>3, <2>4, AdmitPhysicalType
  <2>6. db' = [db EXCEPT ![r] = E] /\ Await(h, [h EXCEPT !.pc = "granted"])
    BY <1>3, <2>1, <2>2, <2>4 DEF Admit
  <2>8. D.anchor /\ D.owner = None
        /\ (mode = "participant" => D.settlements = h.slot - 1)
    BY <1>3, <2>1, <2>2 DEF AdmitAllowed, PhysicalOwner, ValidateParticipantAppend
  <2>9. op # None /\ op.phase = "unknown"
    BY <2>3, NoneAssumption DEF Operations
  <2>10. D.row \in [Slots -> Optional(Operations)]
    BY DEF Stores
  <2>11. E.row[h.slot] = op /\ \A i \in Slots \ {h.slot} : E.row[i] = D.row[i]
    BY <2>3, <2>5, <2>10
  <2> HIDE DEF op
  <2>13. None \notin Slots /\ Slots \subseteq Nat
    BY <2>3, SlotType
  <2>14. OwnerInv(D) /\ FactsInv(D) /\ RowsInv(r, D) /\ PrefixInv(D)
    BY <2>2, <2>3 DEF Sound
  <2>15. OwnerInv(E)
    BY <2>3, <2>5, <2>8, <2>9, <2>11, <2>13, <2>14 DEF OwnerInv
  <2>16. FactsInv(E)
    BY <2>5, <2>14 DEF FactsInv
  <2>17. RowsInv(r, E)
    BY <2>3, <2>9, <2>11, <2>14 DEF RowsInv, Open
  <2>18. PrefixInv(E)
    <3>1. SUFFICES ASSUME NEW j \in Slots, mode = "participant",
                          NEW i \in Slots, j < i, E.row[i] # None
                   PROVE  be.settled[j] # None
      BY <2>5, <2>14 DEF PrefixInv
    <3>2. CASE i = h.slot
      BY <2>8, <2>13, <2>14, <3>1, <3>2 DEF PrefixInv
    <3>3. CASE i # h.slot
      BY <2>11, <2>14, <3>1, <3>3 DEF PrefixInv
    <3> QED BY <3>2, <3>3
  <2>19. E.settlements <= E.reservations
    BY <2>2, <2>3, <2>5 DEF TypeOK
  <2>20. \A i \in Slots :
           /\ db[r].row[i] # None => E.row[i] # None
           /\ db[r].archive[i] # None => E.archive[i] = db[r].archive[i]
           /\ db[r].envelope[i] # None => E.envelope[i] = db[r].envelope[i]
    BY <2>2, <2>5, <2>9, <2>11
  <2>21. PICK g \in Handlers : g = [h EXCEPT !.pc = "granted"]
    BY <2>3 DEF Handlers
  <2>22. /\ g.slot = h.slot /\ g.prep = h.prep /\ g.act = h.act /\ g.live = h.live
         /\ g.pc = "granted"
    BY <2>3, <2>21 DEF Handlers
  <2>23. Ready(g, E)
    BY <1>1, <2>3, <2>9, <2>11, <2>22 DEF Ready, Serves
  <2> QED BY <1>1, <2>1, <2>6, <2>15, <2>16, <2>17, <2>18, <2>19, <2>20, <2>21,
             <2>22, <2>23, HandlerStep
<1> QED BY <1>2, <1>3

LEMMA RetainType ==
  ASSUME TypeOK, NEW D \in Stores, NEW s \in Snapshots, VerifyPrefix(s)
  PROVE  LET E == RetainProviderPrefix(D, s) IN
         /\ E \in Stores /\ E.settlements <= E.reservations
         /\ E.row = D.row /\ E.owner = D.owner /\ E.anchor = D.anchor
         /\ E.archive = D.archive /\ E.envelope = D.envelope /\ E.ack = D.ack
         /\ E.bound = D.bound
         /\ \A j \in Slots : j <= E.settlements => j \in s.settled
<1> DEFINE n == Cardinality(s.settled)
<1>1. IsFiniteSet(Slots) /\ Slots \subseteq Nat /\ Slots = 1..Len(Plan[mode])
      /\ Len(Plan[mode]) \in Nat
  BY SlotType DEF TypeOK
<1>2. s.settled \subseteq Slots /\ s.reserved \in 0..Cardinality(Slots)
  BY DEF Snapshots
<1>3. n \in Nat
  BY <1>1, <1>2, FS_Subset, FS_CardinalityType
<1>4. Cardinality(Slots) \in Nat
  BY <1>1, FS_CardinalityType
<1>5. s.settled = 1..n /\ s.settled \subseteq 1..s.reserved
  BY DEF VerifyPrefix
<1>6. n <= s.reserved
  BY <1>2, <1>3, <1>4, <1>5
<1>7. \A j \in Slots : j <= n => j \in s.settled
  BY <1>1, <1>3, <1>5
<1> HIDE DEF n
<1>8. RetainProviderPrefix(D, s) = [[D EXCEPT !.reservations = s.reserved] EXCEPT !.settlements = n]
  BY DEF RetainProviderPrefix, Stores, n
<1>9. [[D EXCEPT !.reservations = s.reserved] EXCEPT !.settlements = n] \in Stores
  BY <1>2, <1>3 DEF Stores
<1> QED BY <1>6, <1>7, <1>8, <1>9 DEF Stores

\* A retained prefix is of settlements the backend has.
LEMMA RetainSound ==
  ASSUME IInv, NEW r \in Runtimes, NEW D \in Stores, D = db[r], NEW E \in Stores,
         NEW s \in Snapshots,
         \A i \in s.settled : be.settled[i] # None,
         E.row = D.row, E.owner = D.owner, E.anchor = D.anchor,
         E.archive = D.archive, E.envelope = D.envelope, E.ack = D.ack,
         E.settlements = D.settlements
           \/ \A j \in Slots : j <= E.settlements => j \in s.settled
  PROVE  OwnerInv(E) /\ FactsInv(E) /\ RowsInv(r, E) /\ PrefixInv(E)
<1>1. OwnerInv(D) /\ FactsInv(D) /\ RowsInv(r, D) /\ PrefixInv(D)
  BY DEF IInv, LedgerInv, Sound
<1> QED BY <1>1 DEF OwnerInv, FactsInv, RowsInv, PrefixInv

LEMMA BindStep ==
  ASSUME IInv, NEW h \in conns, Bind(h)
  PROVE  IInv'
<1> DEFINE ok == BindAllowed(RuntimeOf(h.prep), db[RuntimeOf(h.prep)], h.slot, h.snap)
<1>1. UNCHANGED rest /\ h.pc = "bind"
  BY DEF Bind
<1>2. CASE ~ok
  <2>1. Refuse(h) /\ UNCHANGED db
    BY <1>2 DEF Bind
  <2> QED BY <1>1, <2>1, RefuseStep
<1>3. CASE ok
  <2>1. PICK r \in Runtimes : r = RuntimeOf(h.prep)
    BY HandlerSlot
  <2>2. PICK D \in Stores : D = db[r]
    BY <2>1, HandlerSlot
  <2>3. h \in Handlers /\ Serves(h) /\ Verified(h) /\ h.slot \in Slots /\ TypeOK
        /\ D.settlements <= D.reservations
    BY <2>1, <2>2, HandlerSlot DEF IInv, TypeOK
  <2>4. h.snap \in Snapshots /\ \A i \in h.snap.settled : be.settled[i] # None
    BY <1>1, <2>3 DEF Verified
  <2>5. mode = "participant" => VerifyPrefix(h.snap)
    BY <1>3, <2>1, <2>2 DEF BindAllowed, BindParticipantReservation, PrefixRetainable
  <2> DEFINE F == IF mode = "participant" THEN RetainProviderPrefix(D, h.snap) ELSE D
  <2>6. /\ F \in Stores /\ F.settlements <= F.reservations
        /\ F.row = D.row /\ F.owner = D.owner /\ F.anchor = D.anchor
        /\ F.archive = D.archive /\ F.envelope = D.envelope /\ F.ack = D.ack
        /\ F.bound = D.bound
        /\ \/ F.settlements = D.settlements
           \/ \A j \in Slots : j <= F.settlements => j \in h.snap.settled
    BY <2>3, <2>4, <2>5, RetainType
  <2>7. BindReservation(D, h.slot, h.snap) = [F EXCEPT !.bound = F.bound \cup {h.slot}]
    BY DEF BindReservation
  <2> HIDE DEF F
  <2>8. [F EXCEPT !.bound = F.bound \cup {h.slot}] \in Stores
    BY <2>3, <2>6 DEF Stores
  <2>9. PICK E \in Stores : E = [F EXCEPT !.bound = F.bound \cup {h.slot}]
    BY <2>8
  <2>10. /\ E.settlements <= E.reservations
         /\ E.row = D.row /\ E.owner = D.owner /\ E.anchor = D.anchor
         /\ E.archive = D.archive /\ E.envelope = D.envelope /\ E.ack = D.ack
         /\ \/ E.settlements = D.settlements
            \/ \A j \in Slots : j <= E.settlements => j \in h.snap.settled
    BY <2>6, <2>9 DEF Stores
  <2>11. OwnerInv(E) /\ FactsInv(E) /\ RowsInv(r, E) /\ PrefixInv(E)
    BY <2>2, <2>4, <2>10, RetainSound
  <2>12. /\ db' = [db EXCEPT ![r] = E]
         /\ Await(h, [h EXCEPT !.pc = "admit", !.snap = None])
    BY <1>3, <2>1, <2>2, <2>7, <2>9 DEF Bind
  <2>13. PICK g \in Handlers : g = [h EXCEPT !.pc = "admit", !.snap = None]
    BY <2>3 DEF Handlers, Optional
  <2>14. /\ g.slot = h.slot /\ g.prep = h.prep /\ g.act = h.act /\ g.live = h.live
         /\ g.pc = "admit"
    BY <2>3, <2>13 DEF Handlers
  <2>15. Ready(g, E)
    BY <1>1, <2>3, <2>14 DEF Ready, Serves
  <2> QED BY <1>1, <2>1, <2>2, <2>10, <2>11, <2>12, <2>13, <2>14, <2>15, HandlerStep
<1> QED BY <1>2, <1>3

\* The usage a handler claims after its originals were verified.
LEMMA OriginalsAgree ==
  ASSUME IInv, NEW h \in conns, h.act = "settle",
         IF IsAccess(h.prep) THEN AccessOriginals(h) ELSE NativeOriginals(h)
  PROVE  h.claim = resp[h.slot] /\ resp[h.slot] # None /\ h.claim \in Usages
<1>1. /\ h.slot \in Slots /\ Slot(h.slot).prep = h.prep /\ resp[h.slot] # None
      /\ resp \in [Slots -> Optional(Usages)]
  BY HandlerSlot DEF IInv, TypeOK, Serves, Verified
<1>2. IsAccess(h.prep) => resp[h.slot] \in {0, None}
  BY <1>1 DEF IInv, LedgerInv
<1>3. h.claim = resp[h.slot]
  BY <1>1, <1>2 DEF AccessOriginals, NativeOriginals, Journal, VerifyOriginalUsage,
                    ProviderResponseUsage
<1> QED BY <1>1, <1>3 DEF Optional

LEMMA VerifyStep ==
  ASSUME IInv, NEW h \in conns, Verify(h)
  PROVE  IInv'
<1> DEFINE q == RuntimeOf(h.prep)
           ok == /\ SamePeer(h) /\ db[q].row[h.slot] # None
                 /\ db[q].row[h.slot].who = h.who
                 /\ IF IsAccess(h.prep) THEN AccessOriginals(h) ELSE NativeOriginals(h)
                 /\ Retains(db[q].archive[h.slot], h.claim)
<1>1. UNCHANGED rest /\ h.pc = "verify"
  BY DEF Verify
<1>2. CASE ~ok
  <2>1. Refuse(h) /\ UNCHANGED db
    BY <1>2 DEF Verify
  <2> QED BY <1>1, <2>1, RefuseStep
<1>3. CASE ok
  <2>1. PICK r \in Runtimes : r = RuntimeOf(h.prep)
    BY HandlerSlot
  <2>2. PICK D \in Stores : D = db[r]
    BY <2>1, HandlerSlot
  <2>3. /\ h \in Handlers /\ Serves(h) /\ h.slot \in Slots /\ TypeOK
        /\ D.settlements <= D.reservations
        /\ db \in [Runtimes -> Stores]
        /\ OwnerInv(D) /\ FactsInv(D) /\ RowsInv(r, D) /\ PrefixInv(D)
    BY <2>1, <2>2, HandlerSlot DEF IInv, TypeOK, Sound
  <2>4. h.act = "settle"
    BY <1>1, <2>3 DEF Serves
  <2>5. h.claim = resp[h.slot] /\ resp[h.slot] # None /\ h.claim \in Usages
    BY <1>3, <2>4, OriginalsAgree
  <2>6. D.row[h.slot] # None /\ D.archive[h.slot] \in {None, h.claim}
    BY <1>3, <2>1, <2>2 DEF Retains
  <2> DEFINE arch == [D.archive EXCEPT ![h.slot] = h.claim]
  <2>7. /\ D.row \in [Slots -> Optional(Operations)]
        /\ D.archive \in [Slots -> Optional(Usages)]
    BY DEF Stores
  <2>8. /\ arch \in [Slots -> Optional(Usages)] /\ arch[h.slot] = h.claim
        /\ \A i \in Slots \ {h.slot} : arch[i] = D.archive[i]
    BY <2>3, <2>5, <2>7 DEF Optional
  <2>9. RetainOriginals(D, h.slot, h.claim) = [D EXCEPT !.archive = arch]
    BY DEF RetainOriginals, Stores
  <2> HIDE DEF arch
  <2>10. [D EXCEPT !.archive = arch] \in Stores
    BY <2>8 DEF Stores
  <2>11. PICK E \in Stores : E = IF V2 \/ ~IsAccess(h.prep)
                                 THEN [D EXCEPT !.archive = arch] ELSE D
    BY <2>10
  <2>12. /\ E.row = D.row /\ E.owner = D.owner /\ E.anchor = D.anchor
         /\ E.envelope = D.envelope /\ E.ack = D.ack
         /\ E.settlements = D.settlements /\ E.reservations = D.reservations
         /\ E.archive = IF V2 \/ ~IsAccess(h.prep) THEN arch ELSE D.archive
    BY <2>11 DEF Stores
  <2>13. db = [db EXCEPT ![r] = D]
    BY <2>2, <2>3
  <2>14. db' = [db EXCEPT ![r] = E]
    BY <1>3, <2>1, <2>2, <2>9, <2>11, <2>13 DEF Verify
  <2>15. FactsInv(E)
    BY <2>3, <2>5, <2>8, <2>12 DEF FactsInv, Fact
  <2>16. OwnerInv(E) /\ RowsInv(r, E) /\ PrefixInv(E)
    BY <2>3, <2>12 DEF OwnerInv, RowsInv, PrefixInv
  <2>17. \A i \in Slots :
           /\ db[r].row[i] # None => E.row[i] # None
           /\ db[r].archive[i] # None => E.archive[i] = db[r].archive[i]
           /\ db[r].envelope[i] # None => E.envelope[i] = db[r].envelope[i]
    BY <2>2, <2>6, <2>8, <2>12
  <2>18. D.row[h.slot] \in Operations
    BY <2>3, <2>6, <2>7 DEF Optional
  <2>19. PICK g \in Handlers :
           g = IF V2 THEN [h EXCEPT !.pc = "sign", !.snap = D.row[h.slot]]
               ELSE [h EXCEPT !.pc = "close"]
    BY <2>3, <2>18 DEF Handlers, Optional
  <2>20. Await(h, g)
    BY <1>3, <2>1, <2>2, <2>19 DEF Verify
  <2>21. /\ g.slot = h.slot /\ g.prep = h.prep /\ g.act = h.act /\ g.live = h.live
         /\ g.claim = h.claim /\ g.pc = IF V2 THEN "sign" ELSE "close"
    BY <2>3, <2>19 DEF Handlers
  <2>22. Ready(g, E)
    BY <2>4, <2>5, <2>6, <2>8, <2>12, <2>21 DEF Ready
  <2> QED BY <1>1, <2>1, <2>2, <2>3, <2>12, <2>14, <2>15, <2>16, <2>17, <2>20, <2>21,
             <2>22, HandlerStep
<1> QED BY <1>2, <1>3

LEMMA SignStep ==
  ASSUME IInv, NEW h \in conns, Sign(h)
  PROVE  IInv'
<1> DEFINE q == RuntimeOf(h.prep)
           ok == /\ db[q].row[h.slot] = h.snap
                 /\ Retains(db[q].envelope[h.slot], db[q].archive[h.slot])
<1>1. UNCHANGED rest /\ h.pc = "sign"
  BY DEF Sign
<1>2. CASE ~ok
  <2>1. Refuse(h) /\ UNCHANGED db
    BY <1>2 DEF Sign
  <2> QED BY <1>1, <2>1, RefuseStep
<1>3. CASE ok
  <2>1. PICK r \in Runtimes : r = RuntimeOf(h.prep)
    BY HandlerSlot
  <2>2. PICK D \in Stores : D = db[r]
    BY <2>1, HandlerSlot
  <2>3. /\ h \in Handlers /\ Serves(h) /\ Verified(h) /\ h.slot \in Slots /\ TypeOK
        /\ D.settlements <= D.reservations /\ Mine(h.slot) = D
        /\ db \in [Runtimes -> Stores]
        /\ OwnerInv(D) /\ FactsInv(D) /\ RowsInv(r, D) /\ PrefixInv(D)
    BY <2>1, <2>2, HandlerSlot DEF IInv, TypeOK, Sound
  <2>4. /\ h.act = "settle" /\ resp[h.slot] # None /\ h.claim = resp[h.slot]
        /\ D.row[h.slot] # None /\ D.archive[h.slot] = h.claim
    BY <1>1, <2>3 DEF Serves, Verified
  <2>5. D.envelope[h.slot] \in {None, h.claim}
    BY <1>3, <2>1, <2>2, <2>4 DEF Retains
  <2> DEFINE env == [D.envelope EXCEPT ![h.slot] = D.archive[h.slot]]
  <2>6. D.envelope \in [Slots -> Optional(Usages)] /\ D.archive \in [Slots -> Optional(Usages)]
    BY DEF Stores
  <2>7. /\ env \in [Slots -> Optional(Usages)] /\ env[h.slot] = h.claim
        /\ \A i \in Slots \ {h.slot} : env[i] = D.envelope[i]
    BY <2>3, <2>4, <2>6
  <2>8. [db EXCEPT ![r].envelope[h.slot] = db[r].archive[h.slot]]
          = [db EXCEPT ![r] = [D EXCEPT !.envelope = env]]
    BY <2>2, <2>3 DEF Stores
  <2> HIDE DEF env
  <2>9. [D EXCEPT !.envelope = env] \in Stores
    BY <2>7 DEF Stores
  <2>10. PICK E \in Stores : E = [D EXCEPT !.envelope = env]
    BY <2>9
  <2>11. /\ E.row = D.row /\ E.owner = D.owner /\ E.anchor = D.anchor
         /\ E.archive = D.archive /\ E.ack = D.ack /\ E.envelope = env
         /\ E.settlements = D.settlements /\ E.reservations = D.reservations
    BY <2>10 DEF Stores
  <2>12. db' = [db EXCEPT ![r] = E]
    BY <1>3, <2>1, <2>8, <2>10 DEF Sign
  <2>13. FactsInv(E)
    BY <2>3, <2>4, <2>7, <2>11 DEF FactsInv, Fact
  <2>14. OwnerInv(E) /\ RowsInv(r, E) /\ PrefixInv(E)
    BY <2>3, <2>11 DEF OwnerInv, RowsInv, PrefixInv
  <2>15. \A i \in Slots :
           /\ db[r].row[i] # None => E.row[i] # None
           /\ db[r].archive[i] # None => E.archive[i] = db[r].archive[i]
           /\ db[r].envelope[i] # None => E.envelope[i] = db[r].envelope[i]
    BY <2>2, <2>5, <2>7, <2>11
  <2>16. PICK g \in Handlers :
           g = [h EXCEPT !.pc = IF h.slot \in D.ack THEN "close" ELSE "post", !.snap = None]
    BY <2>3 DEF Handlers, Optional
  <2>17. Await(h, g)
    BY <1>3, <2>1, <2>2, <2>16 DEF Sign
  <2>18. /\ g.slot = h.slot /\ g.prep = h.prep /\ g.act = h.act /\ g.live = h.live
         /\ g.claim = h.claim /\ g.pc \in {"close", "post"}
    BY <2>3, <2>16 DEF Handlers
  <2>19. Ready(g, E)
    BY <2>4, <2>7, <2>11, <2>18 DEF Ready
  <2>20. E.settlements <= E.reservations
    BY <2>3, <2>11
  <2> QED BY <1>1, <2>1, <2>12, <2>13, <2>14, <2>15, <2>17, <2>18,
             <2>19, <2>20, HandlerStep
<1> QED BY <1>2, <1>3

LEMMA CloseStep ==
  ASSUME IInv, NEW h \in conns, Close(h)
  PROVE  IInv'
<1> DEFINE q == RuntimeOf(h.prep)
           ok == SamePeer(h) /\ SettleAllowed(db[q], h.slot, h.who, h.claim)
<1>1. UNCHANGED rest /\ h.pc = "close"
  BY DEF Close
<1>2. CASE ~ok
  <2>1. Refuse(h) /\ UNCHANGED db
    BY <1>2 DEF Close
  <2> QED BY <1>1, <2>1, RefuseStep
<1>3. CASE ok
  <2>1. PICK r \in Runtimes : r = RuntimeOf(h.prep)
    BY HandlerSlot
  <2>2. PICK D \in Stores : D = db[r]
    BY <2>1, HandlerSlot
  <2>3. /\ h \in Handlers /\ Serves(h) /\ Verified(h) /\ h.slot \in Slots /\ TypeOK
        /\ D.settlements <= D.reservations /\ Mine(h.slot) = D
        /\ resp \in [Slots -> Optional(Usages)] /\ mode \in Modes
        /\ OwnerInv(D) /\ FactsInv(D) /\ RowsInv(r, D) /\ PrefixInv(D)
    BY <2>1, <2>2, HandlerSlot DEF IInv, TypeOK, Sound
  <2>4. /\ h.act = "settle" /\ resp[h.slot] # None /\ h.claim = resp[h.slot]
        /\ D.row[h.slot] # None
    BY <1>1, <2>3 DEF Serves, Verified
  <2>5. h.claim \in Usages
    BY <2>3, <2>4 DEF Optional
  <2>6. /\ V2 => h.slot \in D.ack
        /\ D.row[h.slot].phase # "settled" => D.owner = h.slot
    BY <1>3, <2>1, <2>2 DEF SettleAllowed, PhysicalOwner
  <2>7. PICK E \in Stores : E = SettlePhysical(D, h.slot, h.claim)
    BY <2>3, <2>4, <2>5, SettlePhysicalType
  <2>8. /\ D.row[h.slot].phase = "settled" => E = D
        /\ D.row[h.slot].phase # "settled" =>
             /\ E.row[h.slot] \in Operations
             /\ E.row[h.slot].phase = "settled" /\ E.row[h.slot].usage = h.claim
             /\ \A j \in Slots \ {h.slot} : E.row[j] = D.row[j]
             /\ E.owner = None
        /\ E.anchor = D.anchor
        /\ E.archive = D.archive /\ E.envelope = D.envelope /\ E.ack = D.ack
        /\ E.settlements = D.settlements /\ E.reservations = D.reservations
    BY <2>3, <2>4, <2>5, <2>7, SettlePhysicalType
  <2>9. db' = [db EXCEPT ![r] = E] /\ Await(h, [h EXCEPT !.pc = "closed"])
    BY <1>3, <2>1, <2>2, <2>7 DEF Close
  <2>10. None \notin Slots /\ None \notin Operations
    BY <2>3, SlotType, NoneAssumption
  <2>11. D.row[h.slot].phase # "settled" => E.row[h.slot] # None
    BY <2>8, <2>10
  <2>12. OwnerInv(E)
    BY <2>3, <2>4, <2>6, <2>8, <2>10, <2>11 DEF OwnerInv
  <2>13. FactsInv(E)
    BY <2>3, <2>8 DEF FactsInv
  <2>14. V2 => be.settled[h.slot] = resp[h.slot]
    BY <2>3, <2>6 DEF FactsInv
  <2>15. RowsInv(r, E)
    BY <2>3, <2>4, <2>8, <2>14 DEF RowsInv, Open
  <2>16. PrefixInv(E)
    BY <2>3, <2>4, <2>8 DEF PrefixInv
  <2>17. \A i \in Slots :
           /\ db[r].row[i] # None => E.row[i] # None
           /\ db[r].archive[i] # None => E.archive[i] = db[r].archive[i]
           /\ db[r].envelope[i] # None => E.envelope[i] = db[r].envelope[i]
    BY <2>2, <2>8, <2>11
  <2>18. PICK g \in Handlers : g = [h EXCEPT !.pc = "closed"]
    BY <2>3 DEF Handlers
  <2>19. /\ g.slot = h.slot /\ g.prep = h.prep /\ g.act = h.act /\ g.live = h.live
         /\ g.pc = "closed"
    BY <2>3, <2>18 DEF Handlers
  <2>20. Ready(g, E)
    BY <2>4, <2>19 DEF Ready
  <2>21. E.settlements <= E.reservations
    BY <2>3, <2>8
  <2> QED BY <1>1, <2>1, <2>9, <2>12, <2>13, <2>15, <2>16, <2>17, <2>18, <2>19, <2>20,
             <2>21, HandlerStep
<1> QED BY <1>2, <1>3

\* The backend takes the settlement of request i, if any, and the runtime may
\* keep its acknowledgement.
LEMMA SettlementTaken ==
  ASSUME IInv, mode' = mode, resp' = resp, NEW i \in Slots, resp[i] # None,
         \A j \in Slots \ {i} : be'.settled[j] = be.settled[j],
         be'.settled[i] \in {be.settled[i], resp[i]},
         \A r \in Runtimes :
           /\ db'[r].row = db[r].row /\ db'[r].owner = db[r].owner
           /\ db'[r].anchor = db[r].anchor /\ db'[r].archive = db[r].archive
           /\ db'[r].envelope = db[r].envelope
           /\ db'[r].settlements = db[r].settlements
           /\ \/ db'[r].ack = db[r].ack
              \/ db'[r].ack = db[r].ack \cup {i} /\ be'.settled[i] = resp[i]
  PROVE  Grows /\ LedgerInv'
<1>1. /\ Slots' = Slots /\ Open' = Open /\ V2' = V2
      /\ \A j : Slot(j)' = Slot(j) /\ \A p : IsAccess(p)' = IsAccess(p)
  BY SameMode
<1>2. \A j \in Slots : be.settled[j] # None => be.settled[j] = resp[j]
  BY DEF IInv, LedgerInv, Fact
<1>3. \A j \in Slots : be.settled[j] # None => be'.settled[j] = be.settled[j]
  BY <1>2
<1>4. Grows
  BY <1>3 DEF Grows
<1>5. \A j \in Slots' : Fact(be.settled[j], j)'
                        /\ (IsAccess(Slot(j).prep) => resp[j] \in {0, None})'
  BY <1>1, <1>2 DEF IInv, LedgerInv, Fact
<1>6. ASSUME NEW r \in Runtimes
      PROVE  Sound(r)'
  <2>1. OwnerInv(db[r]) /\ FactsInv(db[r]) /\ RowsInv(r, db[r]) /\ PrefixInv(db[r])
    BY DEF IInv, LedgerInv, Sound
  <2>2. OwnerInv(db[r])'
    BY <1>1, <2>1 DEF OwnerInv
  <2>3. FactsInv(db[r])'
    BY <1>1, <1>3, <2>1 DEF FactsInv, Fact
  <2>4. RowsInv(r, db[r])'
    BY <1>1, <1>3, <2>1 DEF RowsInv, Open
  <2>5. PrefixInv(db[r])'
    BY <1>1, <1>3, <2>1 DEF PrefixInv
  <2> QED BY <2>2, <2>3, <2>4, <2>5 DEF Sound
<1> QED BY <1>4, <1>5, <1>6 DEF LedgerInv

LEMMA FaultType ==
  ASSUME TypeOK, mode' = mode, Fault \/ NoFault
  PROVE  faults' \in 0..MaxFaults[mode']
<1>1. MaxFaults[mode] \in Nat
  BY BoundsAssumption DEF TypeOK
<1> QED BY <1>1 DEF TypeOK, Fault, NoFault

LEMMA PostStep ==
  ASSUME IInv, NEW h \in conns, Post(h)
  PROVE  IInv'
<1>1. PICK r \in Runtimes : r = RuntimeOf(h.prep)
  BY HandlerSlot
<1>2. PICK D \in Stores : D = db[r]
  BY <1>1, HandlerSlot
<1>3. /\ h \in Handlers /\ Serves(h) /\ Verified(h) /\ h.slot \in Slots /\ TypeOK
      /\ Mine(h.slot) = D /\ be \in Backends /\ db \in [Runtimes -> Stores]
      /\ resp \in [Slots -> Optional(Usages)]
  BY <1>1, <1>2, HandlerSlot DEF IInv, TypeOK
<1>4. /\ h.pc = "post"
      /\ UNCHANGED <<mode, entries, sel, expired, drv, pass, clients, life, boot, sent, resp>>
  BY DEF Post
<1>5. /\ h.act = "settle" /\ resp[h.slot] # None /\ h.claim = resp[h.slot]
      /\ D.row[h.slot] # None /\ D.envelope[h.slot] = resp[h.slot]
  BY <1>3, <1>4 DEF Serves, Verified
<1>6. Fact(be.settled[h.slot], h.slot)
  BY <1>3 DEF IInv, LedgerInv
<1> DEFINE S == [be.settled EXCEPT ![h.slot] = resp[h.slot]]
<1>7. PICK taken \in Backends : taken = [be EXCEPT !.settled = S]
  BY <1>3 DEF Backends
<1>8. /\ taken.settled[h.slot] = resp[h.slot]
      /\ \A j \in Slots \ {h.slot} : taken.settled[j] = be.settled[j]
  BY <1>3, <1>7 DEF Backends
<1>9. [be EXCEPT !.settled[h.slot] = IF @ = None THEN D.envelope[h.slot] ELSE @] = taken
  BY <1>3, <1>5, <1>6, <1>7 DEF Fact, Backends
<1> HIDE DEF S
<1>10. ASSUME be' \in {be, taken}, Refuse(h), Fault, UNCHANGED db
       PROVE  IInv'
  <2>1. Grows /\ LedgerInv'
    BY <1>3, <1>4, <1>5, <1>8, <1>10, SettlementTaken
  <2>2. ClientInv' /\ SentInv'
    BY <1>3, <1>4, <2>1, ClientsKept, SentKept DEF IInv
  <2>3. conns' \subseteq Handlers' /\ HandlerInv'
    BY <1>4, <1>10, <2>1, RefuseKept
  <2>4. TypeOK'
    BY <1>3, <1>4, <1>10, <2>3, SameMode, FaultType DEF TypeOK
  <2> QED BY <2>1, <2>2, <2>3, <2>4 DEF IInv
<1>11. ASSUME be' = taken, db' = [db EXCEPT ![r].ack = @ \cup {h.slot}],
              Await(h, [h EXCEPT !.pc = "close"]), NoFault
       PROVE  IInv'
  <2>1. PICK E \in Stores : E = [D EXCEPT !.ack = D.ack \cup {h.slot}]
    BY <1>3 DEF Stores
  <2>2. db' = [db EXCEPT ![r] = E]
    BY <1>2, <1>3, <1>11, <2>1
  <2>3. /\ E.row = D.row /\ E.owner = D.owner /\ E.anchor = D.anchor
        /\ E.archive = D.archive /\ E.envelope = D.envelope
        /\ E.ack = D.ack \cup {h.slot}
        /\ E.settlements = D.settlements /\ E.reservations = D.reservations
    BY <2>1 DEF Stores
  <2>4. db'[r] = E /\ \A q \in Runtimes \ {r} : db'[q] = db[q]
    BY <1>3, <2>2
  <2>5. \A q \in Runtimes :
           /\ db'[q].row = db[q].row /\ db'[q].owner = db[q].owner
           /\ db'[q].anchor = db[q].anchor /\ db'[q].archive = db[q].archive
           /\ db'[q].envelope = db[q].envelope
           /\ db'[q].settlements = db[q].settlements
           /\ \/ db'[q].ack = db[q].ack
              \/ db'[q].ack = db[q].ack \cup {h.slot} /\ be'.settled[h.slot] = resp[h.slot]
    BY <1>2, <1>8, <1>11, <2>3, <2>4
  <2>6. Grows /\ LedgerInv'
    BY <1>3, <1>4, <1>5, <1>8, <1>11, <2>5, SettlementTaken
  <2>7. ClientInv' /\ SentInv'
    BY <1>3, <1>4, <2>6, ClientsKept, SentKept DEF IInv
  <2>8. PICK g \in Handlers : g = [h EXCEPT !.pc = "close"]
    BY <1>3 DEF Handlers
  <2>9. /\ g.slot = h.slot /\ g.prep = h.prep /\ g.act = h.act /\ g.live = h.live
        /\ g.pc = "close" /\ g.claim = h.claim
    BY <1>3, <2>8 DEF Handlers
  <2>10. Serves(h)' /\ Verified(h)'
    BY <1>3, <1>4, <2>6, HandlerKept
  <2>11. Serves(g)' /\ Verified(g)'
    BY <1>4, <1>5, <2>9, <2>10 DEF Serves, Verified
  <2>12. conns' \subseteq Handlers' /\ HandlerInv'
    BY <1>4, <1>11, <2>6, <2>8, <2>9, <2>11, AwaitKept
  <2>13. \A q \in Runtimes : db'[q].settlements <= db'[q].reservations
    BY <1>2, <1>3, <2>3, <2>4 DEF TypeOK
  <2>14. TypeOK'
    BY <1>3, <1>4, <1>11, <2>2, <2>12, <2>13, SameMode, FaultType DEF TypeOK
  <2> QED BY <2>6, <2>7, <2>12, <2>14 DEF IInv
<1> QED BY <1>1, <1>2, <1>9, <1>10, <1>11 DEF Post

-----------------------------------------------------------------------------
(* The clients.                                                            *)

\* One client changes.
LEMMA ClientChanges ==
  ASSUME IInv, Grows, NEW p \in Preps, clients' = [clients EXCEPT ![p] = clients'[p]],
         Waits(p)',
         \A q \in Preps \ {p} : clients[q].pc # "idle" =>
           /\ sent'[clients[q].slot] = sent[clients[q].slot]
           /\ resp'[clients[q].slot] = resp[clients[q].slot]
  PROVE  ClientInv'
<1>1. Preps' = Preps
  BY SameMode DEF Grows
<1>2. \A q \in Preps \ {p} : clients'[q] = clients[q]
  BY DEF IInv, TypeOK
<1>3. \A q \in Preps \ {p} : Waits(q)'
  BY <1>2, ClientKept DEF IInv, ClientInv
<1> QED BY <1>1, <1>3 DEF ClientInv

\* The handlers when one client changes: none that is kept is one it waits for.
LEMMA HandlersChange ==
  ASSUME IInv, Grows, NEW p \in Preps, clients' = [clients EXCEPT ![p] = clients'[p]],
         conns' \subseteq Handlers,
         \A g \in conns' : \/ g \in conns /\ (g.live => g.prep # p)
                           \/ Serves(g)' /\ Verified(g)',
         \A g, h \in conns' : g.live /\ h.live /\ g.prep = h.prep => g = h
  PROVE  conns' \subseteq Handlers' /\ HandlerInv'
<1>1. Handlers' = Handlers
  BY SameMode DEF Grows
<1>2. \A q \in Preps \ {p} : clients'[q] = clients[q]
  BY DEF IInv, TypeOK
<1>3. ASSUME NEW g \in conns, g.live => g.prep # p
      PROVE  Serves(g)' /\ Verified(g)'
  <2>1. g \in Handlers /\ Serves(g) /\ Verified(g) /\ TypeOK
    BY DEF IInv, TypeOK, HandlerInv
  <2>2. g.live => clients'[g.prep] = clients[g.prep]
    BY <1>2, <1>3, <2>1 DEF Handlers
  <2> QED BY <2>1, <2>2, HandlerKept
<1> QED BY <1>1, <1>3 DEF HandlerInv

\* A client makes a call.
LEMMA NewCall ==
  ASSUME IInv, Grows, NEW p \in Preps, NEW i \in Open, Slot(i).prep = p,
         clients[p].pc \notin {"admitting", "settling"},
         NEW act \in {"admit", "settle"}, NEW g \in Handlers,
         g.prep = p, g.slot = i, g.act = act,
         g.pc = IF act = "admit" THEN "authorise" ELSE "verify",
         conns' = conns \cup {g},
         clients' = [clients EXCEPT ![p] = clients'[p]], clients'[p].slot = i,
         clients'[p].pc = IF act = "admit" THEN "admitting" ELSE "settling",
         sent' = sent, resp' = resp,
         act = "admit" => sent[i] = 0, act = "settle" => resp[i] # None
  PROVE  ClientInv' /\ conns' \subseteq Handlers' /\ HandlerInv'
<1>1. mode' = mode
  BY DEF Grows
<1>2. Waits(p)'
  BY <1>1, SameMode DEF Waits
<1>3. ClientInv'
  BY <1>2, ClientChanges
<1>4. Serves(g)' /\ Verified(g)'
  BY <1>1, SameMode DEF Serves, Verified
<1>5. \A h \in conns : h \in Handlers /\ Serves(h)
  BY DEF IInv, TypeOK, HandlerInv
<1>6. \A h \in conns : h.live => h.prep # p
  BY <1>5 DEF Serves
<1>7. \A k, h \in conns' : k.live /\ h.live /\ k.prep = h.prep => k = h
  BY <1>6 DEF IInv, HandlerInv
<1> QED BY <1>3, <1>4, <1>5, <1>6, <1>7, HandlersChange

\* The kernel's identity of a peer.
LEMMA IdentityType ==
  ASSUME TypeOK, NEW i \in Slots
  PROVE  /\ RuntimeOf(Slot(i).prep) \in Runtimes /\ Slot(i).prep \in Preps
         /\ OwnProcess(Slot(i).prep) \in Nat /\ Identity(Slot(i).prep) \in Nat
         /\ db[RuntimeOf(Slot(i).prep)] \in Stores
<1>1. mode \in Modes
  BY DEF TypeOK
<1>2. RuntimeOf(Slot(i).prep) \in Runtimes /\ Slot(i).prep \in Preps
  BY <1>1, SlotType, RuntimeOfSlot
<1> QED BY <1>2 DEF TypeOK, OwnProcess, Identity, ObserveNativeProcess

LEMMA AskStep ==
  ASSUME IInv, NEW p \in Preps, NEW i \in Slots, Ask(p, i)
  PROVE  IInv'
<1>1. /\ clients[p].pc = "idle" /\ Slot(i).prep = p /\ Slot(i).dom # Legacy /\ sent[i] = 0
      /\ clients' = [clients EXCEPT ![p] = [pc |-> "admitting", slot |-> i]]
      /\ conns' = conns \cup {Call(p, i, "admit", None)}
      /\ UNCHANGED <<mode, entries, be, sel, expired, drv, pass, life, boot, sent, resp, faults>>
  BY DEF Ask
<1>2. TypeOK /\ mode \in Modes /\ db \in [Runtimes -> Stores] /\ clients \in [Preps -> Clients]
  BY DEF IInv, TypeOK
<1>3. PICK r \in Runtimes : r = RuntimeOf(p)
  BY <1>1, <1>2, IdentityType
<1>4. PICK D \in Stores : D = db[r]
  BY <1>2
<1>5. OwnProcess(p) \in Nat /\ Identity(p) \in Nat /\ p \in Preps
  BY <1>1, <1>2, IdentityType
<1> DEFINE enr == [D.enrolled EXCEPT ![p] = OwnProcess(p)]
<1>6. D.enrolled \in [Preps -> Optional(Nat)]
  BY DEF Stores
<1>7. enr \in [Preps -> Optional(Nat)]
  BY <1>5, <1>6 DEF Optional
<1>8. Enroll(D, p) = [D EXCEPT !.enrolled = enr]
  BY DEF Enroll, Stores
<1> HIDE DEF enr
<1>9. [D EXCEPT !.enrolled = enr] \in Stores
  BY <1>7 DEF Stores
<1>10. PICK E \in Stores : E = IF IsAccess(p) THEN [D EXCEPT !.enrolled = enr] ELSE D
  BY <1>9
<1>11. db' = [db EXCEPT ![r] = E]
  BY <1>3, <1>4, <1>8, <1>10 DEF Ask
<1>12. db'[r] = E /\ \A q \in Runtimes \ {r} : db'[q] = db[q]
  BY <1>2, <1>11
<1>13. /\ E.row = D.row /\ E.owner = D.owner /\ E.anchor = D.anchor
       /\ E.archive = D.archive /\ E.envelope = D.envelope /\ E.ack = D.ack
       /\ E.settlements = D.settlements /\ E.reservations = D.reservations
  BY <1>10 DEF Stores
<1>14. \A q \in Runtimes : Steady(q)
  BY <1>4, <1>12, <1>13 DEF Steady
<1>15. Grows /\ LedgerInv' /\ SentInv'
  BY <1>1, <1>14, StoresSteady
<1>16. PICK g \in Handlers : g = Call(p, i, "admit", None)
  BY <1>5 DEF Call, Handlers, Optional
<1>17. g.prep = p /\ g.slot = i /\ g.act = "admit" /\ g.pc = "authorise"
  BY <1>16 DEF Call
<1>18. clients'[p] = [pc |-> "admitting", slot |-> i]
  BY <1>1, <1>2
<1>19. i \in Open
  BY <1>1 DEF Open
<1>19a. clients'[p].slot = i /\ clients'[p].pc = "admitting"
  BY <1>18
<1>19b. /\ clients' = [clients EXCEPT ![p] = clients'[p]]
        /\ clients[p].pc \notin {"admitting", "settling"}
  BY <1>1, <1>18
<1>20. ClientInv' /\ conns' \subseteq Handlers' /\ HandlerInv'
  BY <1>1, <1>15, <1>16, <1>17, <1>19, <1>19a, <1>19b, NewCall
<1>21. [pc |-> "admitting", slot |-> i] \in Clients
  BY DEF Clients, Optional
<1>22. clients' \in [Preps -> Clients] /\ db' \in [Runtimes -> Stores]
  BY <1>1, <1>2, <1>11, <1>21
<1>23. \A q \in Runtimes : db'[q].settlements <= db'[q].reservations
  BY <1>2, <1>4, <1>12, <1>13 DEF TypeOK
<1>24. TypeOK'
  BY <1>1, <1>2, <1>20, <1>22, <1>23, SameMode DEF TypeOK
<1> QED BY <1>15, <1>20, <1>24 DEF IInv

\* A step of a client that leaves the stores, the backend and the passes alone.
Apart == <<mode, entries, db, be, sel, expired, drv, pass, life, boot>>

LEMMA ApartSteady ==
  ASSUME IInv, UNCHANGED Apart, resp' = resp, sent' = sent
  PROVE  Grows /\ LedgerInv' /\ SentInv'
<1>1. mode' = mode /\ be' = be /\ db' = db
  BY DEF Apart
<1>2. \A r \in Runtimes : Steady(r)
  BY <1>1 DEF Steady
<1> QED BY <1>1, <1>2, StoresSteady

LEMMA ApartType ==
  ASSUME TypeOK, UNCHANGED Apart, conns' \subseteq Handlers',
         clients' \in [Preps -> Clients], sent' \in [Slots -> Nat],
         resp' \in [Slots -> Optional(Usages)], Fault \/ NoFault
  PROVE  TypeOK'
<1>1. mode' = mode
  BY DEF Apart
<1>2. faults' \in 0..MaxFaults[mode']
  BY <1>1, FaultType
<1> QED BY <1>1, <1>2, SameMode DEF TypeOK, Apart

LEMMA AskSettleStep ==
  ASSUME IInv, NEW p \in Preps, AskSettle(p)
  PROVE  IInv'
<1>1. /\ clients[p].pc = "got" /\ (Fault \/ NoFault)
      /\ clients' = [clients EXCEPT ![p].pc = "settling"]
      /\ UNCHANGED Apart /\ sent' = sent /\ resp' = resp
  BY DEF AskSettle, Apart
<1>2. TypeOK /\ mode \in Modes /\ clients \in [Preps -> Clients] /\ Waits(p)
      /\ resp \in [Slots -> Optional(Usages)] /\ sent \in [Slots -> Nat]
  BY DEF IInv, TypeOK, ClientInv
<1>3. PICK i \in Slots : i = clients[p].slot
  BY <1>1, <1>2 DEF Waits, Open
<1>4. i \in Open /\ Slot(i).prep = p /\ resp[i] # None
  BY <1>1, <1>2, <1>3 DEF Waits
<1>5. resp[i] \in Usages /\ 1 - resp[i] \in Usages
  BY <1>2, <1>4 DEF Optional, Usages
<1>6. PICK u \in Usages : conns' = conns \cup {Call(p, i, "settle", u)}
  BY <1>3, <1>5 DEF AskSettle
<1>7. Identity(p) \in Nat
  BY <1>2, <1>4, IdentityType
<1>8. PICK g \in Handlers : g = Call(p, i, "settle", u)
  <2>1. u \in Optional(Usages) /\ None \in Optional(Operations) \cup Snapshots
    BY DEF Optional
  <2>2. Call(p, i, "settle", u) \in Handlers
    BY <1>7, <2>1 DEF Call, Handlers
  <2> QED BY <2>2
<1>9. g.prep = p /\ g.slot = i /\ g.act = "settle" /\ g.pc = "verify"
  BY <1>8 DEF Call
<1>10. Grows /\ LedgerInv' /\ SentInv'
  BY <1>1, ApartSteady
<1>11. /\ clients' = [clients EXCEPT ![p] = clients'[p]]
       /\ clients'[p].slot = i /\ clients'[p].pc = "settling"
       /\ clients[p].pc \notin {"admitting", "settling"}
       /\ clients' \in [Preps -> Clients]
  BY <1>1, <1>2, <1>3 DEF Clients
<1>12. conns' = conns \cup {g}
  BY <1>6, <1>8
<1>13. ClientInv' /\ conns' \subseteq Handlers' /\ HandlerInv'
  <2>1. sent' = sent /\ resp' = resp
    BY <1>1
  <2> QED BY <1>4, <1>9, <1>10, <1>11, <1>12, <2>1, NewCall
<1>14. TypeOK'
  BY <1>1, <1>2, <1>11, <1>13, ApartType
<1> QED BY <1>10, <1>13, <1>14 DEF IInv

\* A client that waits for no handler moves on.
LEMMA Unattended ==
  ASSUME IInv, NEW p \in Preps, clients[p].pc \notin {"admitting", "settling"},
         Grows, conns' = conns, clients' = [clients EXCEPT ![p] = clients'[p]]
  PROVE  conns' \subseteq Handlers' /\ HandlerInv'
<1>1. \A h \in conns : h \in Handlers /\ Serves(h)
  BY DEF IInv, TypeOK, HandlerInv
<1>2. \A h \in conns : h.live => h.prep # p
  BY <1>1 DEF Serves
<1> QED BY <1>1, <1>2, HandlersChange DEF IInv, HandlerInv

LEMMA SendStep ==
  ASSUME IInv, NEW p \in Preps, Send(p)
  PROVE  IInv'
<1>1. /\ clients[p].pc = "admitted" /\ NoFault
      /\ sent' = [sent EXCEPT ![clients[p].slot] = @ + 1]
      /\ clients' = [clients EXCEPT ![p].pc = "sent"]
      /\ UNCHANGED Apart /\ resp' = resp /\ conns' = conns
  BY DEF Send, Apart, NoFault
<1>2. TypeOK /\ mode \in Modes /\ clients \in [Preps -> Clients] /\ ClientInv
      /\ resp \in [Slots -> Optional(Usages)] /\ sent \in [Slots -> Nat] /\ SentInv
  BY DEF IInv, TypeOK
<1>3. PICK i \in Slots : i = clients[p].slot
  BY <1>1, <1>2 DEF ClientInv, Waits, Open
<1>4. i \in Open /\ Slot(i).prep = p /\ sent[i] = 0 /\ Mine(i).row[i] # None
  BY <1>1, <1>2, <1>3 DEF ClientInv, Waits
<1>5. mode' = mode /\ db' = db /\ be' = be
  BY <1>1 DEF Apart
<1>6. sent'[i] = 1 /\ \A j \in Slots \ {i} : sent'[j] = sent[j]
  BY <1>1, <1>2, <1>3, <1>4
<1>7. \A r \in Runtimes : Steady(r)
  BY <1>5 DEF Steady
<1>8. Grows
  BY <1>1, <1>5, <1>7, SteadyGrows
<1>9. LedgerInv'
  <2>1. \A r \in Runtimes : Sound(r)'
    BY <1>1, <1>2, <1>5, <1>7, SoundKept DEF IInv, LedgerInv
  <2> QED BY <1>1, <1>5, <2>1, SameMode DEF IInv, LedgerInv, Fact
<1>10. SentInv'
  BY <1>1, <1>2, <1>4, <1>5, <1>6, SameMode DEF SentInv, Mine
<1>11. /\ clients' = [clients EXCEPT ![p] = clients'[p]]
       /\ clients'[p].slot = i /\ clients'[p].pc = "sent"
       /\ clients' \in [Preps -> Clients]
  BY <1>1, <1>2, <1>3 DEF Clients
<1>12. resp[i] = None
  BY <1>2, <1>4 DEF SentInv
<1>13. Waits(p)'
  BY <1>1, <1>4, <1>5, <1>6, <1>11, <1>12, SameMode DEF Waits
<1>14. \A q \in Preps \ {p} : clients[q].pc # "idle" =>
           /\ sent'[clients[q].slot] = sent[clients[q].slot]
           /\ resp'[clients[q].slot] = resp[clients[q].slot]
  BY <1>1, <1>2, <1>4, <1>6 DEF ClientInv, Waits, Open
<1>15. ClientInv'
  BY <1>8, <1>11, <1>13, <1>14, ClientChanges
<1>16. conns' \subseteq Handlers' /\ HandlerInv'
  BY <1>1, <1>8, <1>11, Unattended
<1>17. TypeOK'
  BY <1>1, <1>2, <1>11, <1>16, ApartType
<1> QED BY <1>9, <1>10, <1>15, <1>16, <1>17 DEF IInv

\* The answer of the provider is the first fact about the usage.
LEMMA AnsweredStep ==
  ASSUME IInv, NEW p \in Preps, Answered(p)
  PROVE  IInv'
<1>1. PICK u \in (IF IsAccess(p) THEN {0} ELSE {0, 1}) :
        resp' = [resp EXCEPT ![clients[p].slot] = u]
  BY DEF Answered
<1>2. /\ clients[p].pc = "sent" /\ NoFault
      /\ clients' = [clients EXCEPT ![p].pc = "got"]
      /\ UNCHANGED Apart /\ sent' = sent /\ conns' = conns
  BY DEF Answered, Apart, NoFault
<1>3. TypeOK /\ mode \in Modes /\ clients \in [Preps -> Clients] /\ ClientInv
      /\ resp \in [Slots -> Optional(Usages)] /\ sent \in [Slots -> Nat] /\ SentInv
  BY DEF IInv, TypeOK
<1>4. PICK i \in Slots : i = clients[p].slot
  BY <1>2, <1>3 DEF ClientInv, Waits, Open
<1>5. i \in Open /\ Slot(i).prep = p /\ resp[i] = None
  BY <1>2, <1>3, <1>4 DEF ClientInv, Waits
<1>6. u \in Usages /\ u # None /\ (IsAccess(p) => u = 0)
  BY <1>1, NoneAssumption DEF Usages
<1>7. resp'[i] = u /\ \A j \in Slots \ {i} : resp'[j] = resp[j]
  BY <1>1, <1>3, <1>4
<1>8. resp' \in [Slots -> Optional(Usages)]
  BY <1>1, <1>3, <1>6 DEF Optional
<1>9. mode' = mode /\ db' = db /\ be' = be
  BY <1>2 DEF Apart
<1>10. Grows
  BY <1>5, <1>7, <1>9 DEF Grows
<1>11. \A j \in Slots : \A x : Fact(x, j) => (x # None => x = resp'[j])
  BY <1>5, <1>7 DEF Fact
<1>12. /\ Slots' = Slots /\ Open' = Open /\ V2' = V2
       /\ \A j : Slot(j)' = Slot(j) /\ \A q : IsAccess(q)' = IsAccess(q)
  BY <1>9, SameMode
<1>13. ASSUME NEW r \in Runtimes
       PROVE  Sound(r)'
  <2>1. OwnerInv(db[r]) /\ FactsInv(db[r]) /\ RowsInv(r, db[r]) /\ PrefixInv(db[r])
    BY DEF IInv, LedgerInv, Sound
  <2>2. OwnerInv(db[r])' /\ PrefixInv(db[r])'
    BY <1>9, <1>12, <2>1 DEF OwnerInv, PrefixInv
  <2>3. FactsInv(db[r])'
    BY <1>5, <1>7, <1>9, <1>12, <2>1 DEF FactsInv, Fact
  <2>4. RowsInv(r, db[r])'
    BY <1>5, <1>7, <1>9, <1>12, <2>1 DEF RowsInv, Open
  <2> QED BY <2>2, <2>3, <2>4 DEF Sound
<1>14. \A j \in Slots' : Fact(be.settled[j], j)'
                         /\ (IsAccess(Slot(j).prep) => resp[j] \in {0, None})'
  BY <1>5, <1>6, <1>7, <1>9, <1>12 DEF IInv, LedgerInv, Fact
<1>15. LedgerInv'
  BY <1>13, <1>14 DEF LedgerInv
<1>16. sent[i] # 0
  BY <1>2, <1>3, <1>4 DEF ClientInv, Waits
<1>17. SentInv'
  BY <1>2, <1>3, <1>7, <1>9, <1>12, <1>16 DEF SentInv, Mine
<1>18. /\ clients' = [clients EXCEPT ![p] = clients'[p]]
       /\ clients'[p].slot = i /\ clients'[p].pc = "got"
       /\ clients' \in [Preps -> Clients]
  BY <1>2, <1>3, <1>4 DEF Clients
<1>19. Waits(p)'
  BY <1>2, <1>5, <1>6, <1>7, <1>12, <1>18 DEF Waits
<1>20. \A q \in Preps \ {p} : clients[q].pc # "idle" =>
           /\ sent'[clients[q].slot] = sent[clients[q].slot]
           /\ resp'[clients[q].slot] = resp[clients[q].slot]
  BY <1>2, <1>3, <1>5, <1>7 DEF ClientInv, Waits, Open
<1>21. ClientInv'
  BY <1>10, <1>18, <1>19, <1>20, ClientChanges
<1>22. conns' \subseteq Handlers' /\ HandlerInv'
  BY <1>2, <1>10, <1>18, Unattended
<1>23. TypeOK'
  BY <1>2, <1>3, <1>8, <1>18, <1>22, ApartType
<1> QED BY <1>15, <1>17, <1>21, <1>22, <1>23 DEF IInv

LEMMA UnansweredStep ==
  ASSUME IInv, NEW p \in Preps, Unanswered(p)
  PROVE  IInv'
<1>1. /\ clients[p].pc = "sent" /\ Fault
      /\ clients' = [clients EXCEPT ![p] = IdleClient]
      /\ UNCHANGED Apart /\ sent' = sent /\ resp' = resp /\ conns' = conns
  BY DEF Unanswered, Apart
<1>2. TypeOK /\ clients \in [Preps -> Clients]
      /\ resp \in [Slots -> Optional(Usages)] /\ sent \in [Slots -> Nat]
  BY DEF IInv, TypeOK
<1>3. Grows /\ LedgerInv' /\ SentInv'
  BY <1>1, ApartSteady
<1>4. clients'[p] = IdleClient /\ IdleClient \in Clients /\ IdleClient.pc = "idle"
  BY <1>1, <1>2 DEF IdleClient, Clients, Optional
<1>5. clients' = [clients EXCEPT ![p] = clients'[p]] /\ clients' \in [Preps -> Clients]
  BY <1>1, <1>2, <1>4
<1>6. Waits(p)'
  BY <1>4 DEF Waits
<1>7. ClientInv'
  BY <1>1, <1>3, <1>5, <1>6, ClientChanges
<1>8. conns' \subseteq Handlers' /\ HandlerInv'
  BY <1>1, <1>3, <1>5, Unattended
<1>9. TypeOK'
  BY <1>1, <1>2, <1>5, <1>8, ApartType
<1> QED BY <1>3, <1>7, <1>8, <1>9 DEF IInv

\* A client whose call failed: the probe returns, a native process may settle again.
LEMMA FailedClient ==
  ASSUME IInv, NEW p \in Preps
  PROVE  /\ IdleClient \in Clients /\ IdleClient.pc = "idle"
         /\ Failed(p) \in Clients
         /\ \/ Failed(p).pc = "idle"
            \/ /\ clients[p].pc = "settling" /\ Failed(p).pc = "got"
               /\ Failed(p).slot = clients[p].slot
<1>1. clients[p] \in Clients
  BY DEF IInv, TypeOK
<1>2. IdleClient \in Clients /\ IdleClient.pc = "idle"
  BY DEF IdleClient, Clients, Optional
<1> QED BY <1>1, <1>2 DEF Failed, Clients

\* It holds what the invariant asks of it.
LEMMA FailedWaits ==
  ASSUME IInv, Grows, NEW p \in Preps, clients'[p] \in {IdleClient, Failed(p)},
         sent' = sent, resp' = resp
  PROVE  Waits(p)'
<1>1. Waits(p) /\ mode' = mode
  BY DEF IInv, ClientInv, Grows
<1>2. CASE clients'[p].pc = "idle"
  BY <1>2 DEF Waits
<1>3. CASE clients'[p].pc # "idle"
  <2>1. clients[p].pc = "settling" /\ clients'[p].pc = "got"
        /\ clients'[p].slot = clients[p].slot
    BY <1>3, FailedClient
  <2> QED BY <1>1, <2>1, SameMode DEF Waits
<1> QED BY <1>2, <1>3

LEMMA GiveUpStep ==
  ASSUME IInv, NEW h \in conns, GiveUp(h)
  PROVE  IInv'
<1>1. /\ h.live /\ Fault /\ Await(h, [h EXCEPT !.live = FALSE])
      /\ clients' = [clients EXCEPT ![h.prep] = Failed(h.prep)]
      /\ UNCHANGED Apart /\ sent' = sent /\ resp' = resp
  BY DEF GiveUp, Apart
<1>2. /\ h \in Handlers /\ Serves(h) /\ Verified(h) /\ TypeOK /\ HandlerInv
      /\ clients \in [Preps -> Clients]
      /\ resp \in [Slots -> Optional(Usages)] /\ sent \in [Slots -> Nat]
  BY DEF IInv, TypeOK, HandlerInv
<1>3. PICK p \in Preps : p = h.prep
  BY <1>2 DEF Handlers
<1>4. Grows /\ LedgerInv' /\ SentInv'
  BY <1>1, ApartSteady
<1>5. Failed(p) \in Clients /\ clients'[p] = Failed(p)
  BY <1>1, <1>2, <1>3, FailedClient
<1>6. clients' = [clients EXCEPT ![p] = clients'[p]] /\ clients' \in [Preps -> Clients]
  BY <1>1, <1>2, <1>3, <1>5
<1>7. ClientInv'
  BY <1>1, <1>4, <1>5, <1>6, FailedWaits, ClientChanges
<1>8. PICK g \in Handlers : g = [h EXCEPT !.live = FALSE]
  BY <1>2 DEF Handlers
<1>9. /\ g.slot = h.slot /\ g.prep = h.prep /\ g.act = h.act /\ ~g.live
      /\ g.pc = h.pc /\ g.claim = h.claim /\ g.snap = h.snap
  BY <1>2, <1>8 DEF Handlers
<1>10. Serves(g) /\ Verified(g)
  BY <1>2, <1>9 DEF Serves, Verified
<1>11. Serves(g)' /\ Verified(g)'
  BY <1>2, <1>4, <1>9, <1>10, HandlerKept
<1>12. conns' = (conns \ {h}) \cup {g} /\ conns \subseteq Handlers
  BY <1>1, <1>8 DEF Await, IInv, TypeOK
<1>13. \A k \in conns \ {h} : k.live => k.prep # p
  BY <1>1, <1>2, <1>3 DEF HandlerInv
<1>14. \A k, l \in conns' : k.live /\ l.live /\ k.prep = l.prep => k = l
  BY <1>2, <1>9, <1>12 DEF HandlerInv
<1>15. conns' \subseteq Handlers' /\ HandlerInv'
  <2>1. conns' \subseteq Handlers
    BY <1>12
  <2>2. \A k \in conns' : \/ k \in conns /\ (k.live => k.prep # p)
                          \/ Serves(k)' /\ Verified(k)'
    BY <1>11, <1>12, <1>13
  <2> QED BY <1>4, <1>6, <1>14, <2>1, <2>2, HandlersChange
<1>16. TypeOK'
  BY <1>1, <1>2, <1>6, <1>15, ApartType
<1> QED BY <1>4, <1>7, <1>15, <1>16 DEF IInv

LEMMA ReplyStep ==
  ASSUME IInv, NEW h \in conns, Reply(h)
  PROVE  IInv'
<1>1. /\ h.pc \in {"granted", "closed", "refused"} /\ conns' = conns \ {h} /\ NoFault
      /\ UNCHANGED Apart /\ sent' = sent /\ resp' = resp
  BY DEF Reply, Apart, NoFault
<1>2. /\ h \in Handlers /\ Serves(h) /\ Verified(h) /\ TypeOK /\ HandlerInv
      /\ clients \in [Preps -> Clients]
      /\ resp \in [Slots -> Optional(Usages)] /\ sent \in [Slots -> Nat]
      /\ conns \subseteq Handlers
  BY DEF IInv, TypeOK, HandlerInv
<1>3. Grows /\ LedgerInv' /\ SentInv' /\ mode' = mode /\ db' = db
  BY <1>1, ApartSteady DEF Apart
<1>4. CASE ~(h.live /\ SamePeer(h))
  <2>1. clients' = clients
    BY <1>4 DEF Reply
  <2>2. ClientInv'
    BY <1>1, <1>3, <2>1, ClientsKept
  <2>3. \A k \in conns : Serves(k)' /\ Verified(k)'
    BY <1>2, <1>3, <2>1, HandlerKept DEF HandlerInv
  <2>4. conns' \subseteq Handlers' /\ HandlerInv'
    BY <1>1, <1>2, <1>3, <2>3, SameMode DEF HandlerInv
  <2>5. TypeOK'
    BY <1>1, <1>2, <2>1, <2>4, ApartType
  <2> QED BY <1>3, <2>2, <2>4, <2>5 DEF IInv
<1>5. CASE h.live /\ SamePeer(h)
  <2>1. PICK p \in Preps : p = h.prep
    BY <1>2 DEF Handlers
  <2> DEFINE c == CASE h.pc = "granted" -> [clients[p] EXCEPT !.pc = "admitted"]
                    [] h.pc = "closed"  -> IdleClient
                    [] h.pc = "refused" -> Failed(p)
  <2>2. clients' = [clients EXCEPT ![p] = c]
    BY <1>5, <2>1 DEF Reply
  <2>3. /\ clients[p] \in Clients /\ clients[p].slot = h.slot
        /\ clients[p].pc = IF h.act = "admit" THEN "admitting" ELSE "settling"
        /\ h.slot \in Open /\ Slot(h.slot).prep = p
        /\ (h.pc = "granted" => h.act = "admit" /\ Mine(h.slot).row[h.slot] # None)
    BY <1>2, <1>5, <2>1 DEF Serves
  <2>4. c \in Clients
    BY <1>1, <2>3, FailedClient DEF Clients
  <2>5. h.pc = "granted" => c.pc = "admitted" /\ c.slot = h.slot
    BY <2>3 DEF Clients
  <2>6. h.pc # "granted" => c \in {IdleClient, Failed(p)}
    BY <1>1
  <2> HIDE DEF c
  <2>7. clients'[p] = c /\ clients' = [clients EXCEPT ![p] = clients'[p]]
        /\ clients' \in [Preps -> Clients]
    BY <1>2, <2>2, <2>4
  <2>8. Waits(p)'
    <3>1. CASE h.pc = "granted"
      <4>1. sent[h.slot] = 0
        BY <2>3, <3>1 DEF IInv, ClientInv, Waits
      <4> QED BY <1>1, <1>3, <2>3, <2>5, <2>7, <3>1, <4>1, SameMode DEF Waits, Mine
    <3>2. CASE h.pc # "granted"
      BY <1>1, <1>3, <2>6, <2>7, <3>2, FailedWaits
    <3> QED BY <3>1, <3>2
  <2>9. ClientInv'
    BY <1>1, <1>3, <2>7, <2>8, ClientChanges
  <2>10. \A k \in conns \ {h} : k.live => k.prep # p
    BY <1>2, <1>5, <2>1 DEF HandlerInv
  <2>11. conns' \subseteq Handlers' /\ HandlerInv'
    BY <1>1, <1>2, <1>3, <2>7, <2>10, HandlersChange DEF HandlerInv
  <2>12. TypeOK'
    BY <1>1, <1>2, <2>7, <2>11, ApartType
  <2> QED BY <1>3, <2>9, <2>11, <2>12 DEF IInv
<1> QED BY <1>4, <1>5

LEMMA NativeRestartStep ==
  ASSUME IInv, NEW p \in Preps, NativeRestart(p)
  PROVE  IInv'
<1>1. /\ Fault /\ life' = [life EXCEPT ![p] = @ + 1]
      /\ clients' = [clients EXCEPT ![p] = IdleClient]
      /\ conns' = {[h EXCEPT !.live = h.live /\ h.prep # p] : h \in conns}
      /\ UNCHANGED <<mode, entries, db, be, sel, expired, drv, pass, boot, sent, resp>>
  BY DEF NativeRestart
<1>2. /\ TypeOK /\ HandlerInv /\ conns \subseteq Handlers
      /\ clients \in [Preps -> Clients] /\ life \in [Preps -> Nat]
  BY DEF IInv, TypeOK
<1>3. \A r \in Runtimes : Steady(r)
  BY <1>1 DEF Steady
<1>4. Grows /\ LedgerInv' /\ SentInv'
  BY <1>1, <1>3, StoresSteady
<1>5. clients'[p] = IdleClient /\ IdleClient \in Clients
  BY <1>1, <1>2, FailedClient
<1>6. clients' = [clients EXCEPT ![p] = clients'[p]] /\ clients' \in [Preps -> Clients]
  BY <1>1, <1>2, <1>5
<1>7. ClientInv'
  BY <1>1, <1>4, <1>5, <1>6, FailedWaits, ClientChanges
<1>8. \A q \in Preps \ {p} : clients'[q] = clients[q]
  BY <1>1, <1>2
<1>9. ASSUME NEW g \in conns'
      PROVE  \E h \in conns :
               /\ g = [h EXCEPT !.live = h.live /\ h.prep # p] /\ g \in Handlers
               /\ g.slot = h.slot /\ g.prep = h.prep /\ g.act = h.act
               /\ g.pc = h.pc /\ g.claim = h.claim /\ g.snap = h.snap
               /\ (g.live => h.live /\ h.prep # p)
  <2>1. PICK h \in conns : g = [h EXCEPT !.live = h.live /\ h.prep # p]
    BY <1>1
  <2>2. h \in Handlers
    BY <1>2
  <2>3. PICK b \in BOOLEAN : b = (h.live /\ h.prep # p)
    OBVIOUS
  <2>4. g = [h EXCEPT !.live = b]
    BY <2>1, <2>3
  <2>5. /\ g \in Handlers /\ g.live = b
        /\ g.slot = h.slot /\ g.prep = h.prep /\ g.act = h.act
        /\ g.pc = h.pc /\ g.claim = h.claim /\ g.snap = h.snap
    BY <2>2, <2>4 DEF Handlers
  <2> QED BY <2>1, <2>3, <2>5
<1>10. ASSUME NEW g \in conns'
       PROVE  Serves(g)' /\ Verified(g)'
  <2>1. PICK h \in conns :
               /\ g \in Handlers
               /\ g.slot = h.slot /\ g.prep = h.prep /\ g.act = h.act
               /\ g.pc = h.pc /\ g.claim = h.claim /\ g.snap = h.snap
               /\ (g.live => h.live /\ h.prep # p)
    BY <1>9
  <2>2. Serves(h) /\ Verified(h) /\ h.prep \in Preps
    BY <1>2 DEF HandlerInv, Handlers
  <2>3. Serves(g) /\ Verified(g)
    BY <2>1, <2>2 DEF Serves, Verified
  <2>4. g.live => clients'[g.prep] = clients[g.prep]
    BY <1>8, <2>1, <2>2
  <2> QED BY <1>2, <1>4, <2>1, <2>3, <2>4, HandlerKept
<1>11. ASSUME NEW g \in conns', NEW k \in conns', g.live, k.live, g.prep = k.prep
       PROVE  g = k
  <2>1. PICK h \in conns : /\ g = [h EXCEPT !.live = h.live /\ h.prep # p]
                           /\ g.prep = h.prep /\ h.live
    BY <1>9, <1>11
  <2>2. PICK l \in conns : /\ k = [l EXCEPT !.live = l.live /\ l.prep # p]
                           /\ k.prep = l.prep /\ l.live
    BY <1>9, <1>11
  <2>3. h = l
    BY <1>2, <1>11, <2>1, <2>2 DEF HandlerInv
  <2> QED BY <2>1, <2>2, <2>3
<1>12. conns' \subseteq Handlers' /\ HandlerInv'
  <2>1. conns' \subseteq Handlers /\ Handlers' = Handlers
    BY <1>1, <1>9, SameMode
  <2> QED BY <1>10, <1>11, <2>1 DEF HandlerInv
<1>13. life' \in [Preps -> Nat] /\ faults' \in 0..MaxFaults[mode']
  BY <1>1, <1>2, FaultType
<1>14. TypeOK'
  BY <1>1, <1>2, <1>6, <1>12, <1>13, SameMode DEF TypeOK
<1> QED BY <1>4, <1>7, <1>12, <1>14 DEF IInv

LEMMA DaemonRestartStep ==
  ASSUME IInv, NEW r \in Runtimes, DaemonRestart(r)
  PROVE  IInv'
<1>1. /\ Fault /\ boot' = [boot EXCEPT ![r] = @ + 1]
      /\ conns' = {h \in conns : RuntimeOf(h.prep) # r}
      /\ pass' = [pass EXCEPT ![r] = "idle"] /\ drv' = [pc |-> "idle", dom |-> None]
      /\ UNCHANGED <<mode, entries, db, be, sel, expired, life, sent, resp>>
  BY DEF DaemonRestart, StopDriver
<1>2. /\ TypeOK /\ HandlerInv /\ conns \subseteq Handlers
      /\ clients \in [Preps -> Clients] /\ boot \in [Runtimes -> Nat]
      /\ pass \in [Runtimes -> {"idle", "post", "get"}]
  BY DEF IInv, TypeOK
<1>3. \A q \in Runtimes : Steady(q)
  BY <1>1 DEF Steady
<1>4. Grows /\ LedgerInv' /\ SentInv'
  BY <1>1, <1>3, StoresSteady
<1>5. ASSUME NEW p \in Preps
      PROVE  /\ RuntimeOf(p) # r => clients'[p] = clients[p]
             /\ clients'[p] \in {clients[p], IdleClient, Failed(p)}
  BY DEF DaemonRestart
<1>6. clients' \in [Preps -> Clients]
  <2>1. \A p \in Preps : clients'[p] \in Clients
    BY <1>2, <1>5, FailedClient
  <2>2. clients' = [p \in Preps |-> clients'[p]]
    BY DEF DaemonRestart
  <2> QED BY <2>1, <2>2
<1>7. \A p \in Preps : Waits(p)'
  BY <1>1, <1>2, <1>4, <1>5, ClientKept, FailedWaits DEF IInv, ClientInv
<1>8. ClientInv'
  BY <1>1, <1>7, SameMode DEF ClientInv
<1>9. \A h \in conns' : h \in conns /\ h \in Handlers /\ clients'[h.prep] = clients[h.prep]
  BY <1>1, <1>2, <1>5 DEF Handlers
<1>10. \A h \in conns' : Serves(h)' /\ Verified(h)'
  BY <1>2, <1>4, <1>9, HandlerKept DEF HandlerInv
<1>11. conns' \subseteq Handlers' /\ HandlerInv'
  BY <1>1, <1>2, <1>9, <1>10, SameMode DEF HandlerInv
<1>12. /\ boot' \in [Runtimes -> Nat] /\ pass' \in [Runtimes -> {"idle", "post", "get"}]
       /\ drv' \in Drivers /\ drv'.pc = "idle" /\ faults' \in 0..MaxFaults[mode']
  BY <1>1, <1>2, FaultType DEF Drivers, Optional
<1>13. TypeOK'
  BY <1>1, <1>2, <1>6, <1>11, <1>12, SameMode DEF TypeOK
<1> QED BY <1>4, <1>8, <1>11, <1>13 DEF IInv

-----------------------------------------------------------------------------
(* The passes, the driver, the operator and the backend.                   *)

\* A step that moves no request.
LEMMA Quiet ==
  ASSUME IInv, mode' = mode, clients' = clients, conns' = conns, sent' = sent,
         resp' = resp, be'.settled = be.settled, \A r \in Runtimes : Steady(r)
  PROVE  /\ ClientInv' /\ HandlerInv' /\ LedgerInv' /\ SentInv'
         /\ conns' \subseteq Handlers' /\ Handlers' = Handlers
<1>1. Grows /\ LedgerInv' /\ SentInv'
  BY StoresSteady
<1>2. ClientInv' /\ HandlerInv'
  BY <1>1, ClientsKept, HandlersKept
<1>3. conns' \subseteq Handlers' /\ Handlers' = Handlers
  BY SameMode DEF IInv, TypeOK
<1> QED BY <1>1, <1>2, <1>3

\* A field the invariant does not mention is written in the store of r.
LEMMA OneStore ==
  ASSUME TypeOK, NEW r \in Runtimes, NEW E \in Stores, db' = [db EXCEPT ![r] = E],
         E.row = db[r].row, E.owner = db[r].owner, db[r].anchor => E.anchor,
         E.archive = db[r].archive, E.envelope = db[r].envelope, E.ack = db[r].ack,
         E.settlements = db[r].settlements, E.reservations = db[r].reservations
  PROVE  /\ db' \in [Runtimes -> Stores]
         /\ \A q \in Runtimes : Steady(q) /\ db'[q].settlements <= db'[q].reservations
<1>1. db \in [Runtimes -> Stores]
      /\ \A q \in Runtimes : db[q].settlements <= db[q].reservations
  BY DEF TypeOK
<1>2. db'[r] = E /\ \A q \in Runtimes \ {r} : db'[q] = db[q]
  BY <1>1
<1> QED BY <1>1, <1>2 DEF Steady

LEMMA SameStore ==
  ASSUME TypeOK, db' = db
  PROVE  /\ db' \in [Runtimes -> Stores]
         /\ \A q \in Runtimes : Steady(q) /\ db'[q].settlements <= db'[q].reservations
BY DEF Steady, TypeOK

LEMMA RegisterNativeStep ==
  ASSUME IInv, NEW p \in Preps, RegisterNative(p)
  PROVE  IInv'
<1>1. /\ UNCHANGED <<mode, entries, be, sel, expired, drv, pass, conns, clients, life,
                     boot, sent, resp, faults>>
      /\ db' = [db EXCEPT ![RuntimeOf(p)] =
                  RetainPhysicalProcess(@, p, ObserveNativeProcess(p))]
  BY DEF RegisterNative
<1>2. TypeOK /\ db \in [Runtimes -> Stores] /\ life \in [Preps -> Nat] /\ mode \in Modes
  BY DEF IInv, TypeOK
<1>3. PICK i \in Slots : Slot(i).prep = p
  BY <1>2 DEF Preps, PrepsOf, Slots, Slot
<1>4. PICK r \in Runtimes : r = RuntimeOf(p)
  BY <1>2, <1>3, IdentityType
<1>5. PICK D \in Stores : D = db[r]
  BY <1>2
<1> DEFINE reg == [D.registered EXCEPT ![p] = @ \cup {life[p]}]
<1>6. reg \in [Preps -> SUBSET Nat]
  BY <1>2 DEF Stores
<1>7. RetainPhysicalProcess(D, p, ObserveNativeProcess(p)) = [D EXCEPT !.registered = reg]
  BY DEF RetainPhysicalProcess, ObserveNativeProcess, Stores
<1> HIDE DEF reg
<1>8. PICK E \in Stores : E = [D EXCEPT !.registered = reg]
  BY <1>6 DEF Stores
<1>9. /\ E.row = D.row /\ E.owner = D.owner /\ E.anchor = D.anchor
      /\ E.archive = D.archive /\ E.envelope = D.envelope /\ E.ack = D.ack
      /\ E.settlements = D.settlements /\ E.reservations = D.reservations
  BY <1>8 DEF Stores
<1>10. db' = [db EXCEPT ![r] = E]
  BY <1>1, <1>4, <1>5, <1>7, <1>8
<1>11. /\ db' \in [Runtimes -> Stores]
       /\ \A q \in Runtimes : Steady(q) /\ db'[q].settlements <= db'[q].reservations
  BY <1>2, <1>5, <1>9, <1>10, OneStore
<1>12. ClientInv' /\ HandlerInv' /\ LedgerInv' /\ SentInv' /\ conns' \subseteq Handlers'
  BY <1>1, <1>11, Quiet
<1>13. TypeOK'
  BY <1>1, <1>2, <1>11, <1>12, SameMode DEF TypeOK
<1> QED BY <1>12, <1>13 DEF IInv

LEMMA RetireEntryStep ==
  ASSUME IInv, NEW p \in Preps, RetireEntry(p)
  PROVE  IInv'
<1>1. /\ Fault /\ entries' = entries \ {p}
      /\ UNCHANGED <<mode, db, be, sel, expired, drv, pass, conns, clients, life, boot,
                     sent, resp>>
  BY DEF RetireEntry
<1>2. TypeOK
  BY DEF IInv
<1>3. \A q \in Runtimes : Steady(q)
  BY <1>1, <1>2, SameStore
<1>4. ClientInv' /\ HandlerInv' /\ LedgerInv' /\ SentInv' /\ conns' \subseteq Handlers'
  BY <1>1, <1>3, Quiet
<1>5. TypeOK'
  BY <1>1, <1>2, <1>4, SameMode, FaultType DEF TypeOK
<1> QED BY <1>4, <1>5 DEF IInv

\* A pass of the accounting writes the opening and the anchor only.
LEMMA OpeningWritten ==
  ASSUME TypeOK, NEW r \in Runtimes,
         db' \in {db, [db EXCEPT ![r] = AcceptOpening(db[r])],
                  [db EXCEPT ![r] = ObserveProviderOpening(db[r])]}
  PROVE  /\ db' \in [Runtimes -> Stores]
         /\ \A q \in Runtimes : Steady(q) /\ db'[q].settlements <= db'[q].reservations
<1>1. PICK D \in Stores : D = db[r]
  BY DEF TypeOK
<1>2. CASE db' = db
  BY <1>2, SameStore
<1>3. CASE db' = [db EXCEPT ![r] = AcceptOpening(db[r])]
  <2>1. PICK E \in Stores : E = AcceptOpening(D)
    BY DEF AcceptOpening, Stores
  <2>2. /\ E.row = D.row /\ E.owner = D.owner /\ E.anchor = D.anchor
        /\ E.archive = D.archive /\ E.envelope = D.envelope /\ E.ack = D.ack
        /\ E.settlements = D.settlements /\ E.reservations = D.reservations
    BY <2>1 DEF AcceptOpening, Stores
  <2> QED BY <1>1, <1>3, <2>1, <2>2, OneStore
<1>4. CASE db' = [db EXCEPT ![r] = ObserveProviderOpening(db[r])]
  <2> DEFINE o == IF mode = "participant" THEN "contributed" ELSE "observed"
  <2>1. o \in {"none", "observed", "contributed", "opened"}
    OBVIOUS
  <2>2. ObserveProviderOpening(D) = [[D EXCEPT !.anchor = TRUE] EXCEPT !.opening = o]
    BY DEF ObserveProviderOpening, Stores
  <2> HIDE DEF o
  <2>3. PICK E \in Stores : E = [[D EXCEPT !.anchor = TRUE] EXCEPT !.opening = o]
    BY <2>1 DEF Stores
  <2>4. /\ E.row = D.row /\ E.owner = D.owner /\ E.anchor
        /\ E.archive = D.archive /\ E.envelope = D.envelope /\ E.ack = D.ack
        /\ E.settlements = D.settlements /\ E.reservations = D.reservations
    BY <2>3 DEF Stores
  <2> QED BY <1>1, <1>4, <2>2, <2>3, <2>4, OneStore
<1> QED BY <1>2, <1>3, <1>4

LEMMA OpeningStep ==
  ASSUME IInv, NEW r \in Runtimes,
         PassOpening(r) \/ PostOpening(r) \/ GetOpening(r)
  PROVE  IInv'
<1> DEFINE posted == [be EXCEPT !.contributed = be.contributed \cup {r}]
<1>1. TypeOK /\ be \in Backends /\ pass \in [Runtimes -> {"idle", "post", "get"}]
  BY DEF IInv, TypeOK
<1>2. db' \in {db, [db EXCEPT ![r] = AcceptOpening(db[r])],
               [db EXCEPT ![r] = ObserveProviderOpening(db[r])]}
  BY DEF PassOpening, PostOpening, GetOpening
<1>3. be' \in {be, posted} /\ UNCHANGED opening /\ (faults' = faults \/ Fault)
  BY DEF PassOpening, PostOpening, GetOpening, NoFault
<1>4. \E s \in {"idle", "post", "get"} : pass' = [pass EXCEPT ![r] = s]
  BY DEF PassOpening, PostOpening, GetOpening
<1>5. posted \in Backends /\ posted.settled = be.settled
  BY <1>1 DEF Backends
<1> HIDE DEF posted
<1>6. be' \in Backends /\ be'.settled = be.settled
  BY <1>1, <1>3, <1>5
<1>7. /\ db' \in [Runtimes -> Stores]
      /\ \A q \in Runtimes : Steady(q) /\ db'[q].settlements <= db'[q].reservations
  BY <1>1, <1>2, OpeningWritten
<1>8. /\ mode' = mode /\ clients' = clients /\ conns' = conns /\ sent' = sent
      /\ resp' = resp /\ entries' = entries /\ sel' = sel /\ expired' = expired
      /\ drv' = drv /\ life' = life /\ boot' = boot
  BY <1>3 DEF opening
<1>9. ClientInv' /\ HandlerInv' /\ LedgerInv' /\ SentInv' /\ conns' \subseteq Handlers'
  BY <1>6, <1>7, <1>8, Quiet
<1>10. pass' \in [Runtimes -> {"idle", "post", "get"}]
  BY <1>1, <1>4
<1>11. faults' \in 0..MaxFaults[mode']
  BY <1>1, <1>3, <1>8, FaultType DEF NoFault
<1>12. TypeOK'
  BY <1>1, <1>6, <1>7, <1>8, <1>9, <1>10, <1>11, SameMode DEF TypeOK
<1> QED BY <1>9, <1>12 DEF IInv

LEMMA BackendReservesStep ==
  ASSUME IInv, BackendReserves
  PROVE  IInv'
<1>1. TypeOK /\ be \in Backends /\ mode \in Modes
  BY DEF IInv, TypeOK
<1>2. /\ be.reserved < Cardinality(Slots) /\ be' = [be EXCEPT !.reserved = @ + 1]
      /\ db' = db /\ pass' = pass /\ faults' = faults /\ UNCHANGED opening
  BY DEF BackendReserves
<1>3. Cardinality(Slots) \in Nat
  BY <1>1, SlotType
<1>4. be.reserved + 1 \in 0..Cardinality(Slots)
  BY <1>1, <1>2, <1>3 DEF Backends
<1>5. be' \in Backends /\ be'.settled = be.settled
  BY <1>1, <1>2, <1>4 DEF Backends
<1>6. /\ mode' = mode /\ clients' = clients /\ conns' = conns /\ sent' = sent
      /\ resp' = resp /\ entries' = entries /\ sel' = sel /\ expired' = expired
      /\ drv' = drv /\ life' = life /\ boot' = boot
  BY <1>2 DEF opening
<1>7. \A q \in Runtimes : Steady(q)
  BY <1>1, <1>2, SameStore
<1>8. ClientInv' /\ HandlerInv' /\ LedgerInv' /\ SentInv' /\ conns' \subseteq Handlers'
  BY <1>5, <1>6, <1>7, Quiet
<1>9. TypeOK'
  BY <1>1, <1>2, <1>5, <1>6, <1>8, SameMode DEF TypeOK
<1> QED BY <1>8, <1>9 DEF IInv

\* The end of a participant's pass.
LEMMA CollectReadbackStep ==
  ASSUME IInv, NEW r \in Runtimes, CollectReadback(r)
  PROVE  IInv'
<1>1. TypeOK /\ db \in [Runtimes -> Stores] /\ be \in Backends
  BY DEF IInv, TypeOK
<1>2. PICK D \in Stores : D = db[r]
  BY <1>1
<1>3. Current \in Snapshots /\ \A i \in Current.settled : be.settled[i] # None
  BY <1>1 DEF Current, Snapshots, Backends
<1>4. PICK s \in Snapshots : s = Current /\ \A i \in s.settled : be.settled[i] # None
  BY <1>3
<1>5. /\ VerifyPrefix(s) /\ db' = [db EXCEPT ![r] = RetainProviderPrefix(D, s)]
      /\ UNCHANGED <<opening, be, pass, faults>>
  BY <1>2, <1>4 DEF CollectReadback, PrefixRetainable
<1>6. PICK E \in Stores : E = RetainProviderPrefix(D, s)
  BY <1>1, <1>5, RetainType
<1>7. /\ E.settlements <= E.reservations
      /\ E.row = D.row /\ E.owner = D.owner /\ E.anchor = D.anchor
      /\ E.archive = D.archive /\ E.envelope = D.envelope /\ E.ack = D.ack
      /\ \A j \in Slots : j <= E.settlements => j \in s.settled
  BY <1>1, <1>5, <1>6, RetainType
<1>8. OwnerInv(E) /\ FactsInv(E) /\ RowsInv(r, E) /\ PrefixInv(E)
  BY <1>2, <1>4, <1>7, RetainSound
<1>9. UNCHANGED rest /\ conns' = conns /\ clients' = clients /\ mode' = mode
  BY <1>5 DEF rest, opening
<1>10. db' = [db EXCEPT ![r] = E]
  BY <1>5, <1>6
<1>11. \A i \in Slots :
         /\ db[r].row[i] # None => E.row[i] # None
         /\ db[r].archive[i] # None => E.archive[i] = db[r].archive[i]
         /\ db[r].envelope[i] # None => E.envelope[i] = db[r].envelope[i]
  BY <1>2, <1>7
<1>12. /\ Grows /\ LedgerInv' /\ SentInv' /\ ClientInv'
       /\ (conns' \subseteq Handlers' => TypeOK')
  BY <1>7, <1>8, <1>9, <1>10, <1>11, StoreStep
<1>13. HandlerInv' /\ conns' \subseteq Handlers'
  BY <1>1, <1>9, <1>12, HandlersKept, SameMode DEF TypeOK
<1> QED BY <1>12, <1>13 DEF IInv

-----------------------------------------------------------------------------
(* The driver of a version 1 case.                                         *)

LEMMA DriverStep ==
  ASSUME IInv, UNCHANGED steady, be' \in Backends, be'.settled = be.settled,
         sel' \in Optional(Domains), expired' \subseteq Domains,
         drv' \in Drivers, drv'.pc # "idle" => drv'.dom # None, Fault \/ NoFault,
         db' \in [Runtimes -> Stores],
         \A q \in Runtimes : Steady(q) /\ db'[q].settlements <= db'[q].reservations
  PROVE  IInv'
<1>1. /\ mode' = mode /\ entries' = entries /\ pass' = pass /\ conns' = conns
      /\ clients' = clients /\ life' = life /\ boot' = boot /\ sent' = sent /\ resp' = resp
  BY DEF steady
<1>2. TypeOK
  BY DEF IInv
<1>3. ClientInv' /\ HandlerInv' /\ LedgerInv' /\ SentInv' /\ conns' \subseteq Handlers'
  BY <1>1, Quiet
<1>4. faults' \in 0..MaxFaults[mode']
  BY <1>1, <1>2, FaultType
<1>5. Optional(Domains)' = Optional(Domains)
  BY <1>1, SameMode DEF Optional
<1>6. TypeOK'
  BY <1>1, <1>2, <1>3, <1>4, <1>5, SameMode DEF TypeOK
<1> QED BY <1>3, <1>6 DEF IInv

LEMMA DriverMoves ==
  ASSUME TypeOK, drv.pc # "idle",
         \/ StopDriver
         \/ \E pc \in {"adopt", "basis", "sign", "retain", "accept"} : Goto(pc)
  PROVE  drv' \in Drivers /\ (drv'.pc # "idle" => drv'.dom # None)
<1>1. drv \in Drivers /\ drv.dom # None
  BY DEF TypeOK
<1>2. CASE StopDriver
  BY <1>2 DEF StopDriver, Drivers, Optional
<1>3. CASE \E pc \in {"adopt", "basis", "sign", "retain", "accept"} : Goto(pc)
  BY <1>1, <1>3 DEF Goto, Drivers
<1> QED BY <1>2, <1>3

\* A domain is added to one of the facts of the version 1 case.
LEMMA DomainWritten ==
  ASSUME TypeOK, NEW d \in Domains,
         db' \in {db, [db EXCEPT ![Host].basis = @ \cup {d}],
                  [db EXCEPT ![Host].signed = @ \cup {d}],
                  [db EXCEPT ![Host].accepted = @ \cup {d}],
                  [db EXCEPT ![Host].confirmed = @ \cup {d}]}
  PROVE  /\ db' \in [Runtimes -> Stores]
         /\ \A q \in Runtimes : Steady(q) /\ db'[q].settlements <= db'[q].reservations
<1>1. mode \in Modes /\ db \in [Runtimes -> Stores]
  BY DEF TypeOK
<1>2. PICK r \in Runtimes : r = Host
  BY <1>1, SlotType DEF Host
<1>3. PICK D \in Stores : D = db[r]
  BY <1>1
<1>4. CASE db' = db
  BY <1>4, SameStore
<1>5. CASE db' # db
  <2>1. PICK E \in {[D EXCEPT !.basis = @ \cup {d}], [D EXCEPT !.signed = @ \cup {d}],
                    [D EXCEPT !.accepted = @ \cup {d}],
                    [D EXCEPT !.confirmed = @ \cup {d}]} : db' = [db EXCEPT ![r] = E]
    BY <1>1, <1>2, <1>3, <1>5
  <2>2. E \in Stores
    BY <2>1 DEF Stores
  <2>3. /\ E.row = D.row /\ E.owner = D.owner /\ E.anchor = D.anchor
        /\ E.archive = D.archive /\ E.envelope = D.envelope /\ E.ack = D.ack
        /\ E.settlements = D.settlements /\ E.reservations = D.reservations
    BY <2>1 DEF Stores
  <2> QED BY <1>3, <2>1, <2>2, <2>3, OneStore
<1> QED BY <1>4, <1>5

\* The steps of ensurePaidCaseDomain after the bootstrap request is retained.
LEMMA CaseDomainStep ==
  ASSUME IInv,
         \/ ObserveDomain \/ AdoptDomain \/ StoreBasis \/ SignAcceptance
         \/ RetainAcceptance \/ ConfirmDomain \/ ScopeChanged
  PROVE  IInv'
<1> DEFINE adopted  == [be EXCEPT !.adopted = @ \cup {drv.dom}]
           accepted == [be EXCEPT !.accepted = @ \cup {drv.dom}]
<1>1. TypeOK /\ be \in Backends /\ sel \in Optional(Domains) /\ expired \subseteq Domains
      /\ drv \in Drivers
  BY DEF IInv, TypeOK
<1>2. drv.pc # "idle"
  BY DEF ObserveDomain, AdoptDomain, StoreBasis, SignAcceptance, RetainAcceptance,
         ConfirmDomain, ScopeChanged, At
<1>3. drv.dom \in Domains
  BY <1>1, <1>2 DEF TypeOK, Drivers, Optional
<1>4. PICK d \in Domains : d = drv.dom
  BY <1>3
<1>5. UNCHANGED steady /\ sel' = sel /\ expired' = expired
  BY DEF ObserveDomain, AdoptDomain, StoreBasis, SignAcceptance, RetainAcceptance,
         ConfirmDomain, ScopeChanged
<1>6. Fault \/ NoFault
  BY DEF ObserveDomain, AdoptDomain, StoreBasis, SignAcceptance, RetainAcceptance,
         ConfirmDomain, ScopeChanged, NoFault
<1>7. \/ StopDriver
      \/ \E pc \in {"adopt", "basis", "sign", "retain", "accept"} : Goto(pc)
  BY DEF ObserveDomain, AdoptDomain, StoreBasis, SignAcceptance, RetainAcceptance,
         ConfirmDomain, ScopeChanged
<1>8. drv' \in Drivers /\ (drv'.pc # "idle" => drv'.dom # None)
  BY <1>1, <1>2, <1>7, DriverMoves
<1>9. db' \in {db, [db EXCEPT ![Host].basis = @ \cup {d}],
               [db EXCEPT ![Host].signed = @ \cup {d}],
               [db EXCEPT ![Host].accepted = @ \cup {d}],
               [db EXCEPT ![Host].confirmed = @ \cup {d}]}
  BY <1>4 DEF ObserveDomain, AdoptDomain, StoreBasis, SignAcceptance, RetainAcceptance,
         ConfirmDomain, ScopeChanged
<1>10. /\ db' \in [Runtimes -> Stores]
       /\ \A q \in Runtimes : Steady(q) /\ db'[q].settlements <= db'[q].reservations
  BY <1>1, <1>9, DomainWritten
<1>11. be' \in {be, adopted, accepted}
  <2>1. CASE AdoptDomain
    <3>1. [be EXCEPT !.adopted = IF drv.dom \in expired THEN @ ELSE @ \cup {drv.dom}]
            \in {be, adopted}
      BY <1>1 DEF Backends
    <3> QED BY <2>1, <3>1 DEF AdoptDomain
  <2>2. CASE ~AdoptDomain
    BY <2>2 DEF ObserveDomain, StoreBasis, SignAcceptance, RetainAcceptance,
                ConfirmDomain, ScopeChanged
  <2> QED BY <2>1, <2>2
<1>12. /\ adopted \in Backends /\ adopted.settled = be.settled
       /\ accepted \in Backends /\ accepted.settled = be.settled
  BY <1>1, <1>3 DEF Backends
<1> HIDE DEF adopted, accepted
<1>13. be' \in Backends /\ be'.settled = be.settled
  BY <1>1, <1>11, <1>12
<1> QED BY <1>1, <1>5, <1>6, <1>8, <1>10, <1>13, DriverStep

\* What the operator and the clock do to a version 1 case.
LEMMA DemandStep ==
  ASSUME IInv, NEW d \in Domains, SelectDemand(d) \/ Expire(d)
  PROVE  IInv'
<1>1. TypeOK /\ be \in Backends /\ sel \in Optional(Domains) /\ expired \subseteq Domains
      /\ drv \in Drivers /\ (drv.pc # "idle" => drv.dom # None)
  BY DEF IInv, TypeOK
<1>2. UNCHANGED steady /\ db' = db /\ be' = be /\ drv' = drv
  BY DEF SelectDemand, Expire
<1>3. (Fault \/ NoFault) /\ sel' \in {sel, d} /\ expired' \in {expired, expired \cup {d}}
  BY DEF SelectDemand, Expire, NoFault
<1>4. sel' \in Optional(Domains) /\ expired' \subseteq Domains
  BY <1>1, <1>3 DEF Optional
<1>5. /\ db' \in [Runtimes -> Stores]
      /\ \A q \in Runtimes : Steady(q) /\ db'[q].settlements <= db'[q].reservations
  BY <1>1, <1>2, SameStore
<1> QED BY <1>1, <1>2, <1>3, <1>4, <1>5, DriverStep

\* The imported ledger: settled rows, and the last one perhaps unknown.
LEMMA AdoptedLedger ==
  ASSUME IInv, mode = "domain", NEW r \in Runtimes, NEW D \in Stores, D = db[r],
         ~D.anchor, NEW u \in ImportedUnknown
  PROVE  LET E == AdoptPhysicalLedger(D, u) IN
         /\ E \in Stores /\ OwnerInv(E) /\ FactsInv(E) /\ RowsInv(r, E) /\ PrefixInv(E)
         /\ E.archive = D.archive /\ E.envelope = D.envelope
         /\ E.settlements = D.settlements /\ E.reservations = D.reservations
         /\ \A i \in Slots : D.row[i] = None
<1> DEFINE unknown == [phase |-> "unknown", who |-> 0, usage |-> None]
           settled == [phase |-> "settled", who |-> 0, usage |-> 0]
           row == [i \in Slots |-> IF i \notin Own(Legacy) THEN None
                                   ELSE IF i = u THEN unknown ELSE settled]
           E == AdoptPhysicalLedger(D, u)
<1>1. /\ unknown \in Operations /\ settled \in Operations /\ unknown # None /\ settled # None
      /\ unknown.phase = "unknown" /\ settled.phase = "settled"
  BY NoneAssumption DEF Operations, Usages
<1>2. u \in Optional(Slots) /\ u \in Own(Legacy) \cup {None} /\ Own(Legacy) \subseteq Slots
  BY DEF ImportedUnknown, Own, Optional
<1>3. None \notin Slots
  BY SlotType DEF IInv, TypeOK
<1> HIDE DEF unknown, settled
<1>4. row \in [Slots -> Optional(Operations)]
  BY <1>1 DEF Optional
<1>5. E = [[[D EXCEPT !.anchor = TRUE] EXCEPT !.row = row] EXCEPT !.owner = u]
  BY DEF AdoptPhysicalLedger, Stores, unknown, settled
<1>6. \A i \in Slots :
        /\ row[i] # None <=> i \in Own(Legacy)
        /\ row[i] # None => (row[i].phase = "unknown" <=> i = u)
  BY <1>1
<1> HIDE DEF row
<1>7. [[[D EXCEPT !.anchor = TRUE] EXCEPT !.row = row] EXCEPT !.owner = u] \in Stores
  BY <1>2, <1>4 DEF Stores
<1>8. /\ E \in Stores /\ E.anchor /\ E.row = row /\ E.owner = u
      /\ E.archive = D.archive /\ E.envelope = D.envelope /\ E.ack = D.ack
      /\ E.settlements = D.settlements /\ E.reservations = D.reservations
  BY <1>5, <1>7 DEF Stores
<1> HIDE DEF E
<1>9. OwnerInv(D) /\ FactsInv(D) /\ PrefixInv(D)
  BY DEF IInv, LedgerInv, Sound
<1>10. OwnerInv(E)
  BY <1>2, <1>3, <1>6, <1>8 DEF OwnerInv
<1>11. FactsInv(E) /\ PrefixInv(E)
  BY <1>8, <1>9 DEF FactsInv, PrefixInv
<1>12. RowsInv(r, E)
  BY <1>6, <1>8 DEF RowsInv, Open, Own
<1>13. \A i \in Slots : D.row[i] = None
  BY <1>9 DEF OwnerInv
<1> QED BY <1>8, <1>10, <1>11, <1>12, <1>13 DEF E

LEMMA PrepareDomainStep ==
  ASSUME IInv, NEW d \in Domains, PrepareDomain(d)
  PROVE  IInv'
<1>1. TypeOK /\ db \in [Runtimes -> Stores] /\ mode \in Modes /\ drv \in Drivers
      /\ (drv.pc # "idle" => drv.dom # None) /\ sel \in Optional(Domains)
  BY DEF IInv, TypeOK
<1>2. PICK r \in Runtimes : r = Host
  BY <1>1, SlotType DEF Host
<1>3. PICK L \in Stores : L = db[r]
  BY <1>1
<1>4. mode = "domain"
  BY DEF Domains, V2
<1>5. PICK u \in (IF L.anchor THEN {None} ELSE ImportedUnknown) :
        LET D == IF L.anchor THEN L ELSE AdoptPhysicalLedger(L, u)
            ready == IF D.bootstrap[d] # None THEN BootstrapOriginals(D, D.bootstrap[d])
                     ELSE LedgerReadback(D)
            kept == IF D.bootstrap[d] # None \/ ~ready THEN D
                    ELSE [D EXCEPT !.bootstrap[d] = Cardinality(Rows(D))]
        IN /\ db' = [db EXCEPT ![r] = kept]
           /\ drv' = IF ready THEN [pc |-> "observe", dom |-> d] ELSE drv
  BY <1>2, <1>3 DEF PrepareDomain, Ledger
<1>6. PICK D \in Stores :
        /\ D = IF L.anchor THEN L ELSE AdoptPhysicalLedger(L, u)
        /\ OwnerInv(D) /\ FactsInv(D) /\ RowsInv(r, D) /\ PrefixInv(D)
        /\ D.archive = L.archive /\ D.envelope = L.envelope
        /\ D.settlements = L.settlements /\ D.reservations = L.reservations
        /\ \A i \in Slots : L.row[i] # None => D.row[i] # None
  <2>1. CASE L.anchor
    <3>1. OwnerInv(L) /\ FactsInv(L) /\ RowsInv(r, L) /\ PrefixInv(L)
      BY <1>3 DEF IInv, LedgerInv, Sound
    <3> QED BY <2>1, <3>1
  <2>2. CASE ~L.anchor
    <3>1. u \in ImportedUnknown
      BY <2>2
    <3> QED BY <1>3, <1>4, <2>2, <3>1, AdoptedLedger
  <2> QED BY <2>1, <2>2
<1> DEFINE n == Cardinality(Rows(D))
           boot1 == [D.bootstrap EXCEPT ![d] = n]
<1>7. n \in Nat
  <2>1. Rows(D) \subseteq Slots /\ IsFiniteSet(Slots)
    BY <1>1, SlotType DEF Rows
  <2> QED BY <2>1, FS_Subset, FS_CardinalityType
<1> HIDE DEF n
<1>8. boot1 \in [Domains -> Optional(Nat)]
  BY <1>7 DEF Stores, Optional
<1>9. [D EXCEPT !.bootstrap[d] = n] = [D EXCEPT !.bootstrap = boot1]
  BY DEF Stores
<1> HIDE DEF boot1
<1>10. PICK E \in Stores : E \in {D, [D EXCEPT !.bootstrap = boot1]}
                           /\ db' = [db EXCEPT ![r] = E]
  <2>1. [D EXCEPT !.bootstrap = boot1] \in Stores
    BY <1>8 DEF Stores
  <2>2. db' \in {[db EXCEPT ![r] = D], [db EXCEPT ![r] = [D EXCEPT !.bootstrap[d] = n]]}
    BY <1>5, <1>6 DEF n
  <2> QED BY <1>9, <2>1, <2>2
<1>11. /\ E.row = D.row /\ E.owner = D.owner /\ E.anchor = D.anchor
       /\ E.archive = D.archive /\ E.envelope = D.envelope /\ E.ack = D.ack
       /\ E.settlements = D.settlements /\ E.reservations = D.reservations
  BY <1>10 DEF Stores
<1>12. OwnerInv(E) /\ FactsInv(E) /\ RowsInv(r, E) /\ PrefixInv(E)
  BY <1>6, <1>11 DEF OwnerInv, FactsInv, RowsInv, PrefixInv
<1>13. E.settlements <= E.reservations
  BY <1>1, <1>3, <1>6, <1>11 DEF TypeOK
<1>14. \A i \in Slots :
         /\ db[r].row[i] # None => E.row[i] # None
         /\ db[r].archive[i] # None => E.archive[i] = db[r].archive[i]
         /\ db[r].envelope[i] # None => E.envelope[i] = db[r].envelope[i]
  BY <1>3, <1>6, <1>11
<1>15. /\ mode' = mode /\ entries' = entries /\ pass' = pass /\ conns' = conns
       /\ clients' = clients /\ life' = life /\ boot' = boot /\ sent' = sent /\ resp' = resp
       /\ be' = be /\ sel' = sel /\ expired' = expired /\ faults' = faults
  BY DEF PrepareDomain, steady
<1>16. /\ Grows /\ LedgerInv' /\ SentInv' /\ ClientInv'
       /\ db' \in [Runtimes -> Stores]
       /\ \A q \in Runtimes : db'[q].settlements <= db'[q].reservations
  BY <1>10, <1>12, <1>13, <1>14, <1>15, LedgerStep
<1>17. HandlerInv' /\ conns' \subseteq Handlers'
  BY <1>1, <1>15, <1>16, HandlersKept, SameMode DEF TypeOK
<1>18. d # None
  <2>1. PICK i \in Slots : d = Slot(i).dom
    BY DEF Domains
  <2>2. Plan[mode] \in Seq(Requests(mode)) /\ i \in 1..Len(Plan[mode])
    BY <1>1, SlotType, PlanAssumption
  <2>3. Slot(i) \in Requests(mode)
    BY <2>2 DEF Slot
  <2> QED BY <2>1, <2>3, NoneAssumption DEF Requests
<1>19. drv' \in Drivers /\ (drv'.pc # "idle" => drv'.dom # None)
  <2>1. drv' = drv \/ drv' = [pc |-> "observe", dom |-> d]
    BY <1>5
  <2> QED BY <1>1, <1>18, <2>1 DEF Drivers, Optional
<1>20. Optional(Domains)' = Optional(Domains)
  BY <1>15, SameMode DEF Optional
<1>21. TypeOK'
  BY <1>1, <1>15, <1>16, <1>17, <1>19, <1>20, SameMode DEF TypeOK
<1> QED BY <1>16, <1>17, <1>21 DEF IInv

-----------------------------------------------------------------------------
(* The invariant.                                                          *)

LEMMA InitHolds == Init => IInv
<1> SUFFICES ASSUME Init
             PROVE  IInv
  OBVIOUS
<1>1. mode \in Modes /\ MaxFaults[mode] \in Nat
  BY BoundsAssumption DEF Init
<1>2. Slots \subseteq Nat /\ Cardinality(Slots) \in Nat /\ None \notin Slots
  BY <1>1, SlotType
<1>3. PICK E \in Stores : E = EmptyStore
  BY <1>1, EmptyStoreType
<1>4. /\ E.row = [i \in Slots |-> None] /\ E.owner = None /\ E.anchor = FALSE
      /\ E.archive = [i \in Slots |-> None] /\ E.envelope = [i \in Slots |-> None]
      /\ E.ack = {} /\ E.settlements = 0 /\ E.reservations = 0
  BY <1>3 DEF EmptyStore
<1>5. \A r \in Runtimes : db[r] = E
  BY <1>3 DEF Init
<1>6. be \in Backends /\ be.settled = [i \in Slots |-> None]
  BY <1>2 DEF Init, Backends, Optional
<1>7. sel \in Optional(Domains)
  BY DEF Init, Optional
<1>8. IdleClient \in Clients /\ IdleClient.pc = "idle"
  BY DEF IdleClient, Clients, Optional
<1>9. drv \in Drivers /\ drv.pc = "idle"
  BY DEF Init, Drivers, Optional
<1>10. db \in [Runtimes -> Stores] /\ \A r \in Runtimes : db[r].settlements <= db[r].reservations
  BY <1>3, <1>4, <1>5 DEF Init
<1>11. /\ clients \in [Preps -> Clients] /\ life \in [Preps -> Nat] /\ boot \in [Runtimes -> Nat]
       /\ sent \in [Slots -> Nat] /\ resp \in [Slots -> Optional(Usages)]
       /\ pass \in [Runtimes -> {"idle", "post", "get"}]
  BY <1>8 DEF Init, Optional
<1>12. entries \subseteq Preps /\ expired \subseteq Domains /\ conns = {} /\ faults = 0
  BY DEF Init
<1>13. TypeOK
  BY <1>1, <1>6, <1>7, <1>9, <1>10, <1>11, <1>12 DEF TypeOK
<1>14. ClientInv /\ HandlerInv /\ SentInv
  BY <1>8, <1>12 DEF Init, ClientInv, Waits, HandlerInv, SentInv
<1>15. \A r \in Runtimes : Sound(r)
  <2>1. OwnerInv(E)
    BY <1>2, <1>4 DEF OwnerInv
  <2>2. FactsInv(E)
    BY <1>4 DEF FactsInv, Fact
  <2>3. \A r \in Runtimes : RowsInv(r, E)
    BY <1>4 DEF RowsInv, Open
  <2>4. PrefixInv(E)
    <3>1. \A j \in Slots : ~(j <= 0)
      BY <1>1, SlotType
    <3> QED BY <1>4, <3>1 DEF PrefixInv
  <2> QED BY <1>5, <2>1, <2>2, <2>3, <2>4 DEF Sound
<1>16. LedgerInv
  BY <1>6, <1>15 DEF Init, LedgerInv, Fact
<1> QED BY <1>13, <1>14, <1>16 DEF IInv

LEMMA StutterStep ==
  ASSUME IInv, UNCHANGED vars
  PROVE  IInv'
<1>1. TypeOK /\ UNCHANGED Apart /\ UNCHANGED <<conns, clients, sent, resp, faults>>
  BY DEF vars, Apart, IInv
<1>2. mode' = mode /\ be' = be /\ db' = db
  BY <1>1 DEF Apart
<1>3. \A q \in Runtimes : Steady(q)
  BY <1>1, <1>2, SameStore
<1>4. ClientInv' /\ HandlerInv' /\ LedgerInv' /\ SentInv'
  BY <1>1, <1>2, <1>3, Quiet
<1>5. /\ conns' \subseteq Handlers' /\ clients' \in [Preps -> Clients]
      /\ sent' \in [Slots -> Nat] /\ resp' \in [Slots -> Optional(Usages)]
  BY <1>1, <1>2, SameMode DEF TypeOK
<1>6. TypeOK'
  BY <1>1, <1>5, ApartType DEF NoFault
<1> QED BY <1>4, <1>6 DEF IInv

LEMMA StepHolds == IInv /\ [Next]_vars => IInv'
<1> SUFFICES ASSUME IInv, [Next]_vars
             PROVE  IInv'
  OBVIOUS
<1>1. CASE \E p \in Preps : \E i \in Slots : Ask(p, i)
  BY <1>1, AskStep
<1>2. CASE \E p \in Preps : \/ Send(p) \/ Answered(p) \/ Unanswered(p)
                            \/ AskSettle(p) \/ NativeRestart(p)
                            \/ RegisterNative(p) \/ RetireEntry(p)
  BY <1>2, SendStep, AnsweredStep, UnansweredStep, AskSettleStep, NativeRestartStep,
     RegisterNativeStep, RetireEntryStep
<1>3. CASE \E h \in conns : \/ GiveUp(h) \/ Authorise(h) \/ Bind(h) \/ Admit(h)
                            \/ Verify(h) \/ Sign(h) \/ Post(h) \/ Close(h) \/ Reply(h)
  BY <1>3, GiveUpStep, AuthoriseStep, BindStep, AdmitStep, VerifyStep, SignStep, PostStep,
     CloseStep, ReplyStep
<1>4. CASE \E r \in Runtimes : \/ PassOpening(r) \/ PostOpening(r) \/ GetOpening(r)
                               \/ CollectReadback(r) \/ DaemonRestart(r)
  BY <1>4, OpeningStep, CollectReadbackStep, DaemonRestartStep
<1>5. CASE BackendReserves
  BY <1>5, BackendReservesStep
<1>6. CASE \E d \in Domains : PrepareDomain(d) \/ SelectDemand(d) \/ Expire(d)
  BY <1>6, PrepareDomainStep, DemandStep
<1>7. CASE \/ ObserveDomain \/ AdoptDomain \/ StoreBasis \/ SignAcceptance
           \/ RetainAcceptance \/ ConfirmDomain \/ ScopeChanged
  BY <1>7, CaseDomainStep
<1>8. CASE UNCHANGED vars
  BY <1>8, StutterStep
<1> QED BY <1>1, <1>2, <1>3, <1>4, <1>5, <1>6, <1>7, <1>8 DEF Next

\* The ledger, its handlers, clients and backend stay consistent in every state
\* of every execution.
THEOREM Inductive == Spec => []IInv
<1>1. Init => IInv
  BY InitHolds
<1>2. IInv /\ [Next]_vars => IInv'
  BY StepHolds
<1> QED BY <1>1, <1>2, PTL DEF Spec

\* Rows, facts, handlers and counters have their types in every state.
THEOREM TypeCorrect == Spec => []TypeOK
<1>1. IInv => TypeOK
  BY DEF IInv
<1> QED BY <1>1, Inductive, PTL

\* A request that has no answer is its runtime's owner.
LEMMA InFlightOwns ==
  ASSUME IInv, NEW i \in Slots, sent[i] = 1, resp[i] = None
  PROVE  Mine(i).row[i] # None /\ Mine(i).owner = i /\ Slot(i).rt \in Runtimes
<1>1. mode \in Modes /\ db \in [Runtimes -> Stores]
  BY DEF IInv, TypeOK
<1>2. i \in Open /\ Mine(i).row[i] # None
  BY DEF IInv, SentInv
<1>3. PICK r \in Runtimes : r = Slot(i).rt
  BY <1>1, SlotType
<1>4. PICK D \in Stores : D = db[r]
  BY <1>1
<1>5. OwnerInv(D) /\ RowsInv(r, D) /\ Mine(i) = D
  BY <1>3, <1>4 DEF IInv, LedgerInv, Sound, Mine
<1>6. D.row[i] \in Operations
  BY <1>2, <1>5 DEF Stores, Optional
<1>7. D.row[i].phase = "unknown"
  BY <1>2, <1>5, <1>6 DEF RowsInv, Operations
<1> QED BY <1>2, <1>3, <1>5, <1>7 DEF OwnerInv

LEMMA InFlightAlone ==
  ASSUME IInv, NEW i \in Slots, sent[i] = 1, resp[i] = None,
         NEW j \in Slots, sent[j] = 1, resp[j] = None
  PROVE  i = j
<1>1. mode \in Modes /\ Slots \subseteq Nat
  BY SlotType DEF IInv, TypeOK
<1>2. /\ Mine(i).row[i] # None /\ Mine(i).owner = i /\ Slot(i).rt \in Runtimes
      /\ Mine(j).row[j] # None /\ Mine(j).owner = j /\ Slot(j).rt \in Runtimes
  BY InFlightOwns
<1>3. CASE mode # "participant"
  <2>1. Slot(i).rt = Slot(j).rt
    BY <1>1, <1>3, OneRuntime
  <2> QED BY <1>2, <2>1 DEF Mine
<1>4. CASE mode = "participant"
  \* An earlier index is settled at the backend, so that it has an answer.
  <2>1. ASSUME NEW k \in Slots, NEW m \in Slots, k < m, Slot(m).rt \in Runtimes,
               Mine(m).row[m] # None
        PROVE  resp[k] # None
    <3>1. PrefixInv(db[Slot(m).rt])
      BY <2>1 DEF IInv, LedgerInv, Sound
    <3>2. be.settled[k] # None
      BY <1>4, <2>1, <3>1 DEF PrefixInv, Mine
    <3> QED BY <3>2 DEF IInv, LedgerInv, Fact
  <2>2. ~(i < j) /\ ~(j < i)
    BY <1>2, <2>1
  <2> QED BY <1>1, <2>2
<1> QED BY <1>3, <1>4

\* At most one request of the case is with the provider, over all of its
\* runtimes, and none is sent twice, for any plan, any number of runtimes and of
\* handler goroutines, restarts and lost answers.
THEOREM InFlight == Spec => []OneInFlight
<1>1. IInv => OneInFlight
  <2> SUFFICES ASSUME IInv
               PROVE  OneInFlight
    OBVIOUS
  <2> DEFINE X == {i \in Slots : sent[i] = 1 /\ resp[i] = None}
  <2>1. \A i \in Slots : sent[i] <= 1
    <3>1. sent \in [Slots -> Nat] /\ \A i \in Slots : sent[i] # 0 => sent[i] = 1
      BY DEF IInv, TypeOK, SentInv
    <3> QED BY <3>1
  <2>2. \A i, j \in X : i = j
    BY InFlightAlone
  <2> HIDE DEF X
  <2>3. X = {} => Cardinality(X) = 0
    BY FS_EmptySet
  <2>4. X # {} => Cardinality(X) = 1
    <3>1. SUFFICES ASSUME X # {}
                   PROVE  Cardinality(X) = 1
      OBVIOUS
    <3>2. PICK x \in X : TRUE
      BY <3>1
    <3>3. X = {x}
      BY <2>2, <3>2
    <3> QED BY <3>3, FS_Singleton
  <2>5. Cardinality(X) <= 1
    BY <2>3, <2>4
  <2> QED BY <2>1, <2>5 DEF OneInFlight, X
<1> QED BY <1>1, Inductive, PTL

\* A settled row has the usage in the provider's answer, in version 2 also the
\* backend's settlement of it, and the owner row is the one unknown operation.
THEOREM Accepted == Spec => []SettledIsAccepted
<1>1. IInv => SettledIsAccepted
  <2> SUFFICES ASSUME IInv, NEW r \in Runtimes
               PROVE  LET D == db[r] IN
                      /\ {i \in Rows(D) : D.row[i].phase = "unknown"} = {D.owner} \ {None}
                      /\ \A i \in Rows(D) \ Own(Legacy) : D.row[i].phase = "settled" =>
                           /\ D.row[i].usage = resp[i]
                           /\ V2 => be.settled[i] = resp[i]
    BY DEF SettledIsAccepted
  <2>1. PICK D \in Stores : D = db[r]
    BY DEF IInv, TypeOK
  <2>2. OwnerInv(D) /\ RowsInv(r, D)
    BY <2>1 DEF IInv, LedgerInv, Sound
  <2>3. D.owner \in Slots \cup {None} /\ None \notin Slots
    BY SlotType DEF IInv, TypeOK, Stores, Optional
  <2>4. {i \in Rows(D) : D.row[i].phase = "unknown"} = {D.owner} \ {None}
    BY <2>2, <2>3 DEF OwnerInv, Rows
  <2>5. \A i \in Rows(D) \ Own(Legacy) : i \in Open /\ D.row[i] # None
    BY DEF Rows, Own, Open
  <2> QED BY <2>1, <2>2, <2>4, <2>5 DEF RowsInv
<1> QED BY <1>1, Inductive, PTL

-----------------------------------------------------------------------------
(* Sums over finite sets.                                                  *)

\* A set of sets that has the empty one, and each set with one more element
\* than one it has, has all of them.
LEMMA SetInduction ==
  ASSUME NEW S, IsFiniteSet(S), NEW T, {} \in T,
         \A U \in SUBSET S : U \in T => \A x \in S \ U : U \cup {x} \in T
  PROVE  \A U \in SUBSET S : U \in T
<1> DEFINE bad == {U \in SUBSET S : U \notin T}
           R == StrictSubsetOrdering(S)
<1>1. IsWellFoundedOn(R, SUBSET S)
  BY FS_StrictSubsetOrderingWellFounded, FS_FiniteSubsetsOfFinite
<1>2. SUFFICES ASSUME bad # {} PROVE FALSE
  OBVIOUS
<1>3. bad \subseteq SUBSET S
  OBVIOUS
<1> HIDE DEF R, bad
<1>4. PICK X \in bad : \A Y \in bad : <<Y, X>> \notin R
  BY <1>1, <1>2, <1>3, WFMin
<1> USE DEF bad
<1>5. PICK x \in X : TRUE
  BY <1>4
<1>6. X \ {x} \in SUBSET S /\ X \ {x} # X
  BY <1>4, <1>5
<1>7. <<X \ {x}, X>> \in R
  BY <1>4, <1>6 DEF R, StrictSubsetOrdering
<1>8. X \ {x} \in T
  BY <1>4, <1>6, <1>7
<1>9. (X \ {x}) \cup {x} = X /\ x \in S \ (X \ {x})
  BY <1>4, <1>5
<1> QED BY <1>4, <1>6, <1>8, <1>9

\* A set of sets that has each set whose proper subsets it has, has all of them.
LEMMA SubsetInduction ==
  ASSUME NEW S, IsFiniteSet(S), NEW T,
         \A U \in SUBSET S : (\A V \in SUBSET U : V # U => V \in T) => U \in T
  PROVE  \A U \in SUBSET S : U \in T
<1> DEFINE bad == {U \in SUBSET S : U \notin T}
           R == StrictSubsetOrdering(S)
<1>1. IsWellFoundedOn(R, SUBSET S)
  BY FS_StrictSubsetOrderingWellFounded, FS_FiniteSubsetsOfFinite
<1>2. SUFFICES ASSUME bad # {} PROVE FALSE
  OBVIOUS
<1>3. bad \subseteq SUBSET S
  OBVIOUS
<1> HIDE DEF R, bad
<1>4. PICK X \in bad : \A Y \in bad : <<Y, X>> \notin R
  BY <1>1, <1>2, <1>3, WFMin
<1> USE DEF bad
<1>5. ASSUME NEW V \in SUBSET X, V # X PROVE V \in T
  <2>1. <<V, X>> \in R
    BY <1>4, <1>5 DEF R, StrictSubsetOrdering
  <2> QED BY <1>4, <2>1
<1> QED BY <1>4, <1>5

Pick(s) == CHOOSE i \in s : TRUE

\* The equation of the fold of the charges c, for a table of the sums of the
\* sets in D.
SumsUp(c, f, D) ==
  \A s \in D : f[s] = IF s = {} THEN 0 ELSE c[Pick(s)] + f[s \ {Pick(s)}]

\* The sum of the charges c over the set S.
TableOf(c) ==
  CHOOSE f \in [SUBSET DOMAIN c -> Nat] : SumsUp(c, f, SUBSET DOMAIN c)
Total(c, S) == TableOf(c)[S]

LEMMA Picked == ASSUME NEW s, s # {} PROVE Pick(s) \in s
  BY DEF Pick

\* There is a table of the sums of the subsets of a finite set.
LEMMA SumsExist ==
  ASSUME NEW S, IsFiniteSet(S), NEW c \in [S -> Nat]
  PROVE  \E f \in [SUBSET S -> Nat] : SumsUp(c, f, SUBSET S)
<1> DEFINE Low(n) == {s \in SUBSET S : Cardinality(s) <= n}
           T == {U \in SUBSET S : \E f \in [Low(Cardinality(U)) -> Nat] :
                                    SumsUp(c, f, Low(Cardinality(U)))}
<1>1. \A U \in SUBSET S : IsFiniteSet(U) /\ Cardinality(U) \in Nat
  BY FS_Subset, FS_CardinalityType
<1>2. {} \in T
  <2>1. Low(0) = {{}}
    BY <1>1, FS_EmptySet
  <2>2. [s \in Low(0) |-> 0] \in [Low(0) -> Nat]
    OBVIOUS
  <2>3. SumsUp(c, [s \in Low(0) |-> 0], Low(0))
    BY <2>1 DEF SumsUp
  <2> HIDE DEF Low
  <2>4. Cardinality({}) = 0
    BY FS_EmptySet
  <2> QED BY <2>2, <2>3, <2>4
<1>3. ASSUME NEW U \in SUBSET S, U \in T, NEW x \in S \ U
      PROVE  U \cup {x} \in T
  <2>1. PICK n \in Nat : n = Cardinality(U)
    BY <1>1
  <2>2. PICK f \in [Low(n) -> Nat] : SumsUp(c, f, Low(n))
    BY <1>3, <2>1
  <2>3. Cardinality(U \cup {x}) = n + 1
    BY <1>1, <1>3, <2>1, FS_AddElement
  <2> DEFINE g == [s \in Low(n + 1) |->
                     IF s \in Low(n) THEN f[s] ELSE c[Pick(s)] + f[s \ {Pick(s)}]]
  <2>4. ASSUME NEW s \in Low(n + 1), s # {}
        PROVE  s \ {Pick(s)} \in Low(n) /\ c[Pick(s)] \in Nat
    <3>1. Pick(s) \in s /\ s \in SUBSET S /\ IsFiniteSet(s) /\ Cardinality(s) \in Nat
      BY <1>1, <2>4, Picked
    <3>2. Cardinality(s \ {Pick(s)}) = Cardinality(s) - 1
      BY <3>1, FS_RemoveElement
    <3>3. Cardinality(s) <= n + 1 /\ s \ {Pick(s)} \in SUBSET S
      BY <3>1
    <3> QED BY <3>1, <3>2, <3>3
  <2>5. {} \in Low(n)
    BY FS_EmptySet
  <2>6. Low(n) \subseteq Low(n + 1)
    BY <1>1
  <2> HIDE DEF Low
  <2>7. g \in [Low(n + 1) -> Nat]
    <3>1. ASSUME NEW s \in Low(n + 1), s \notin Low(n)
          PROVE  c[Pick(s)] + f[s \ {Pick(s)}] \in Nat
      <4>1. s \ {Pick(s)} \in Low(n) /\ c[Pick(s)] \in Nat
        BY <2>4, <2>5, <3>1
      <4>2. f[s \ {Pick(s)}] \in Nat
        BY <4>1
      <4> QED BY <4>1, <4>2
    <3> QED BY <3>1
  <2>8. \A s \in Low(n) : g[s] = f[s]
    BY <2>6
  <2>9. ASSUME NEW s \in Low(n + 1)
        PROVE  g[s] = IF s = {} THEN 0 ELSE c[Pick(s)] + g[s \ {Pick(s)}]
    <3>1. CASE s = {}
      BY <2>2, <2>5, <2>8, <3>1 DEF SumsUp
    <3>2. CASE s # {}
      <4>1. s \ {Pick(s)} \in Low(n) /\ g[s \ {Pick(s)}] = f[s \ {Pick(s)}]
        BY <2>4, <2>8, <3>2
      <4>2. g[s] = c[Pick(s)] + f[s \ {Pick(s)}]
        BY <2>2, <3>2 DEF SumsUp
      <4> QED BY <3>2, <4>1, <4>2
    <3> QED BY <3>1, <3>2
  <2>10. SumsUp(c, g, Low(n + 1))
    BY <2>9 DEF SumsUp
  <2> HIDE DEF g
  <2> QED BY <2>3, <2>7, <2>10
<1>4. S \in T
  <2>1. \A U \in SUBSET S : U \in T => \A x \in S \ U : U \cup {x} \in T
    BY <1>3
  <2> HIDE DEF T
  <2>2. \A U \in SUBSET S : U \in T
    BY <1>2, <2>1, SetInduction
  <2> QED BY <2>2
<1>5. Low(Cardinality(S)) = SUBSET S
  BY <1>1, FS_Subset
<1> QED BY <1>4, <1>5

\* Tables of charges that agree agree.
LEMMA SumsUnique ==
  ASSUME NEW S, IsFiniteSet(S), NEW c, NEW b, \A i \in S : b[i] = c[i],
         NEW f, SumsUp(c, f, SUBSET S), NEW g, SumsUp(b, g, SUBSET S)
  PROVE  \A s \in SUBSET S : f[s] = g[s]
<1> DEFINE T == {s \in SUBSET S : f[s] = g[s]}
<1>1. ASSUME NEW U \in SUBSET S, \A V \in SUBSET U : V # U => V \in T
      PROVE  U \in T
  <2>1. CASE U = {}
    BY <2>1 DEF SumsUp
  <2>2. CASE U # {}
    <3>1. Pick(U) \in U
      BY <2>2, Picked
    <3>2. U \ {Pick(U)} \in T
      BY <1>1, <3>1
    <3> QED BY <2>2, <3>1, <3>2 DEF SumsUp
  <2> QED BY <2>1, <2>2
<1>2. \A U \in SUBSET S : U \in T
  <2> HIDE DEF T
  <2> QED BY <1>1, SubsetInduction
<1> QED BY <1>2

LEMMA TableIs ==
  ASSUME NEW S, IsFiniteSet(S), NEW c \in [S -> Nat]
  PROVE  TableOf(c) \in [SUBSET S -> Nat] /\ SumsUp(c, TableOf(c), SUBSET S)
<1>1. \E f \in [SUBSET S -> Nat] : SumsUp(c, f, SUBSET S)
  BY SumsExist
<1>2. DOMAIN c = S
  OBVIOUS
<1>3. PICK G : G = SUBSET S
  OBVIOUS
<1>4. TableOf(c) = CHOOSE f \in [G -> Nat] : SumsUp(c, f, G)
  BY <1>2, <1>3 DEF TableOf
<1>5. \E f \in [G -> Nat] : SumsUp(c, f, G)
  BY <1>1, <1>3
<1>6. TableOf(c) \in [G -> Nat] /\ SumsUp(c, TableOf(c), G)
  BY <1>4, <1>5, Zenon
<1>7. TableOf(c) \in [SUBSET S -> Nat]
  BY <1>3, <1>6
<1>8. SumsUp(c, TableOf(c), SUBSET S)
  BY <1>3, <1>6, Zenon
<1> QED BY <1>7, <1>8

LEMMA TotalType ==
  ASSUME NEW S, IsFiniteSet(S), NEW c \in [S -> Nat]
  PROVE  Total(c, {}) = 0 /\ \A U \in SUBSET S : Total(c, U) \in Nat
<1>1. TableOf(c) \in [SUBSET S -> Nat]
  BY TableIs
<1>2. SumsUp(c, TableOf(c), SUBSET S)
  BY TableIs
<1>3. TableOf(c)[{}] = 0
  BY <1>2 DEF SumsUp
<1> QED BY <1>1, <1>3 DEF Total

\* Any table of the sums of the subsets of a set has its sum.
LEMMA FoldTotal ==
  ASSUME NEW S, IsFiniteSet(S), NEW c \in [S -> Nat], NEW Z \in SUBSET S,
         NEW f, SumsUp(c, f, SUBSET Z)
  PROVE  f[Z] = Total(c, Z)
<1>1. IsFiniteSet(Z)
  BY FS_Subset
<1>2. SumsUp(c, TableOf(c), SUBSET S)
  BY TableIs
<1>3. SumsUp(c, TableOf(c), SUBSET Z)
  BY <1>2 DEF SumsUp
<1>4. f[Z] = TableOf(c)[Z]
  BY <1>1, <1>3, SumsUnique
<1> QED BY <1>4 DEF Total

\* The restriction of a table of sums to the subsets of a set.
LEMMA FoldTable ==
  ASSUME NEW S, IsFiniteSet(S), NEW c \in [S -> Nat], NEW Z \in SUBSET S
  PROVE  \E h \in [SUBSET Z -> Nat] : SumsUp(c, h, SUBSET Z)
<1> DEFINE b == [i \in Z |-> c[i]]
<1>1. IsFiniteSet(Z) /\ b \in [Z -> Nat]
  BY FS_Subset
<1>2. PICK h \in [SUBSET Z -> Nat] : SumsUp(b, h, SUBSET Z)
  BY <1>1, SumsExist
<1>3. \A s \in SUBSET Z : s # {} => b[Pick(s)] = c[Pick(s)]
  BY Picked
<1> HIDE DEF b
<1>4. SumsUp(c, h, SUBSET Z)
  BY <1>2, <1>3 DEF SumsUp
<1> QED BY <1>4

\* An element counts once, whichever one the fold takes first.
LEMMA TotalRemove ==
  ASSUME NEW S, IsFiniteSet(S), NEW c \in [S -> Nat]
  PROVE  \A U \in SUBSET S : \A o \in U : Total(c, U) = c[o] + Total(c, U \ {o})
<1>1. PICK F \in [SUBSET S -> Nat] : SumsUp(c, F, SUBSET S) /\ \A U : Total(c, U) = F[U]
  BY TableIs DEF Total
<1> DEFINE T == {U \in SUBSET S : \A o \in U : F[U] = c[o] + F[U \ {o}]}
<1>2. ASSUME NEW U \in SUBSET S, \A V \in SUBSET U : V # U => V \in T
      PROVE  U \in T
  <2> SUFFICES ASSUME NEW o \in U
               PROVE  F[U] = c[o] + F[U \ {o}]
    OBVIOUS
  <2>1. PICK y \in U : y = Pick(U)
    BY Picked
  <2>2. F[U] = c[y] + F[U \ {y}]
    BY <1>1, <2>1 DEF SumsUp
  <2>3. CASE o = y
    BY <2>2, <2>3
  <2>4. CASE o # y
    <3>1. U \ {y} \in T /\ U \ {o} \in T
      <4>1. U \ {y} # U /\ U \ {o} # U /\ U \ {y} \in SUBSET U /\ U \ {o} \in SUBSET U
        OBVIOUS
      <4> HIDE DEF T
      <4> QED BY <1>2, <4>1
    <3>2. F[U \ {y}] = c[o] + F[(U \ {y}) \ {o}]
      BY <2>4, <3>1
    <3>3. F[U \ {o}] = c[y] + F[(U \ {o}) \ {y}]
      BY <2>4, <3>1
    <3>4. (U \ {y}) \ {o} = (U \ {o}) \ {y} /\ (U \ {o}) \ {y} \in SUBSET S
      OBVIOUS
    <3>5. PICK a \in Nat : a = F[(U \ {o}) \ {y}]
      BY <3>4
    <3>6. PICK b \in Nat, d \in Nat : b = c[o] /\ d = c[y]
      OBVIOUS
    <3>7. F[U \ {y}] = b + a /\ F[U \ {o}] = d + a
      BY <3>2, <3>3, <3>4, <3>5, <3>6
    <3>8. F[U] = d + (b + a)
      BY <2>2, <3>6, <3>7
    <3>9. d + (b + a) = b + (d + a)
      OBVIOUS
    <3> QED BY <3>6, <3>7, <3>8, <3>9
  <2> QED BY <2>3, <2>4
<1>3. \A U \in SUBSET S : U \in T
  <2>1. \A U \in SUBSET S : (\A V \in SUBSET U : V # U => V \in T) => U \in T
    BY <1>2
  <2> HIDE DEF T
  <2> QED BY <2>1, SubsetInduction
<1> QED BY <1>1, <1>3

\* More elements and higher charges make a higher sum.
LEMMA TotalMonotone ==
  ASSUME NEW S, IsFiniteSet(S), NEW c \in [S -> Nat], NEW b \in [S -> Nat],
         NEW B \in SUBSET S, NEW A \in SUBSET B, \A i \in A : b[i] <= c[i]
  PROVE  Total(b, A) <= Total(c, B)
<1> DEFINE T == {U \in SUBSET B : Total(b, A \cap U) <= Total(c, U)}
<1>1. IsFiniteSet(B)
  BY FS_Subset
<1>2. {} \in T
  <2>1. A \cap {} = {}
    OBVIOUS
  <2> QED BY <2>1, TotalType
<1>3. ASSUME NEW U \in SUBSET B, U \in T, NEW x \in B \ U
      PROVE  U \cup {x} \in T
  <2>1. U \cup {x} \in SUBSET S /\ x \in U \cup {x} /\ (U \cup {x}) \ {x} = U
        /\ U \in SUBSET S /\ A \cap U \in SUBSET S /\ A \cap (U \cup {x}) \in SUBSET S
    BY <1>3
  <2>2. Total(c, U \cup {x}) = c[x] + Total(c, U)
    BY <2>1, TotalRemove
  <2>3. Total(c, U) \in Nat /\ Total(b, A \cap U) \in Nat /\ c[x] \in Nat /\ b[x] \in Nat
    BY <2>1, TotalType
  <2>4. CASE x \in A
    <3>1. (A \cap (U \cup {x})) \ {x} = A \cap U /\ x \in A \cap (U \cup {x})
      BY <1>3, <2>4
    <3>2. Total(b, A \cap (U \cup {x})) = b[x] + Total(b, A \cap U)
      BY <2>1, <3>1, TotalRemove
    <3> QED BY <1>3, <2>1, <2>2, <2>3, <2>4, <3>2
  <2>5. CASE x \notin A
    <3>1. A \cap (U \cup {x}) = A \cap U
      BY <2>5
    <3>2. Total(b, A \cap (U \cup {x})) <= Total(c, U)
      BY <1>3, <3>1
    <3>3. Total(b, A \cap (U \cup {x})) \in Nat
      BY <2>3, <3>1
    <3>4. Total(b, A \cap (U \cup {x})) <= Total(c, U \cup {x})
      BY <2>2, <2>3, <3>2, <3>3
    <3> QED BY <3>4
  <2> QED BY <2>4, <2>5
<1>4. B \in T
  <2>1. \A U \in SUBSET B : U \in T => \A x \in B \ U : U \cup {x} \in T
    BY <1>3
  <2> HIDE DEF T
  <2>2. \A U \in SUBSET B : U \in T
    BY <1>1, <1>2, <2>1, SetInduction
  <2> QED BY <2>2
<1>5. A \cap B = A
  OBVIOUS
<1> QED BY <1>4, <1>5

\* Charges of at most 1 sum up to at most the number of elements.
LEMMA TotalOnes ==
  ASSUME NEW S, IsFiniteSet(S), NEW c \in [S -> Nat], \A i \in S : c[i] <= 1
  PROVE  \A U \in SUBSET S : Total(c, U) <= Cardinality(U)
<1> DEFINE T == {U \in SUBSET S : Total(c, U) <= Cardinality(U)}
<1>1. {} \in T
  BY TotalType, FS_EmptySet
<1>2. ASSUME NEW U \in SUBSET S, U \in T, NEW x \in S \ U
      PROVE  U \cup {x} \in T
  <2>1. U \cup {x} \in SUBSET S /\ x \in U \cup {x} /\ (U \cup {x}) \ {x} = U
    BY <1>2
  <2>2. Total(c, U \cup {x}) = c[x] + Total(c, U)
    BY <2>1, TotalRemove
  <2>3. IsFiniteSet(U) /\ Cardinality(U) \in Nat
    BY FS_Subset, FS_CardinalityType
  <2>4. Cardinality(U \cup {x}) = Cardinality(U) + 1
    BY <1>2, <2>3, FS_AddElement
  <2>5. Total(c, U) \in Nat /\ c[x] \in Nat /\ c[x] <= 1 /\ Total(c, U) <= Cardinality(U)
    BY <1>2, TotalType
  <2>6. Total(c, U \cup {x}) <= Cardinality(U \cup {x})
    BY <2>2, <2>3, <2>4, <2>5
  <2> QED BY <2>1, <2>6
<1>3. \A U \in SUBSET S : U \in T
  <2>1. \A U \in SUBSET S : U \in T => \A x \in S \ U : U \cup {x} \in T
    BY <1>2
  <2> HIDE DEF T
  <2> QED BY <1>1, <2>1, SetInduction
<1> QED BY <1>3

-----------------------------------------------------------------------------
(* The sums of the model.                                                  *)

LEMMA SlotsTotal ==
  ASSUME mode \in Modes, NEW c \in [Slots -> Nat], NEW Z \in SUBSET Slots,
         NEW f, SumsUp(c, f, SUBSET Z)
  PROVE  f[Z] = Total(c, Z)
<1>1. IsFiniteSet(Slots)
  BY SlotType
<1> QED BY <1>1, FoldTotal

LEMMA ExposureIs ==
  ASSUME mode \in Modes, V2, NEW D, NEW H \in SUBSET Slots, NEW c \in [Slots -> Nat],
         \A j \in H : D.row[j].usage = c[j]
  PROVE  Exposure(D, H) = Total(c, H)
<1> DEFINE Eq(f) == f = [s \in SUBSET H |->
                          IF s = {} THEN 0 ELSE D.row[Pick(s)].usage + f[s \ {Pick(s)}]]
<1>1. Exposure(D, H) = (CHOOSE f : Eq(f))[H]
  BY Zenon DEF Exposure, MapThenSumSet, MapThenFoldSet, Pick
<1>2. IsFiniteSet(Slots)
  BY SlotType
<1>3. PICK h \in [SUBSET H -> Nat] : SumsUp(c, h, SUBSET H)
  BY <1>2, FoldTable
<1>4. \A s \in SUBSET H : s # {} => D.row[Pick(s)].usage = c[Pick(s)]
  BY Picked
<1>5. Eq(h)
  BY <1>3, <1>4 DEF SumsUp
<1>6. PICK f : f = CHOOSE k : Eq(k)
  OBVIOUS
<1>7. Eq(f)
  BY <1>5, <1>6
<1>8. SumsUp(c, f, SUBSET H)
  BY <1>4, <1>7 DEF SumsUp
<1>9. f[H] = Total(c, H)
  BY <1>8, SlotsTotal
<1>10. Exposure(D, H) = f[H]
  BY <1>1, <1>6, Zenon
<1> QED BY <1>9, <1>10

\* What a prefix s holds of a table of settlements.
Listed(settled, s) == [i \in Slots |-> IF i \in s.settled THEN settled[i] ELSE 1]

LEMMA PrefixExposureIs ==
  ASSUME mode \in Modes, NEW s, 1..s.reserved \in SUBSET Slots,
         Listed(be.settled, s) \in [Slots -> Nat]
  PROVE  PrefixExposure(s) = Total(Listed(be.settled, s), 1..s.reserved)
<1> DEFINE Eq(f) == f = [u \in SUBSET (1..s.reserved) |->
                          IF u = {} THEN 0
                          ELSE (IF Pick(u) \in s.settled THEN be.settled[Pick(u)] ELSE 1)
                                 + f[u \ {Pick(u)}]]
<1>1. PrefixExposure(s) = (CHOOSE f : Eq(f))[1..s.reserved]
  BY Zenon DEF PrefixExposure, MapThenSumSet, MapThenFoldSet, Pick
<1>2. IsFiniteSet(Slots)
  BY SlotType
<1>3. PICK c \in [Slots -> Nat] : c = Listed(be.settled, s)
  OBVIOUS
<1>4. PICK Z \in SUBSET Slots : Z = 1..s.reserved
  OBVIOUS
<1>5. PICK h \in [SUBSET Z -> Nat] : SumsUp(c, h, SUBSET Z)
  BY <1>2, FoldTable
<1>6. \A u \in SUBSET Z : u # {} =>
        (IF Pick(u) \in s.settled THEN be.settled[Pick(u)] ELSE 1) = c[Pick(u)]
  BY <1>3, Picked DEF Listed
<1>7. Eq(h)
  BY <1>4, <1>5, <1>6 DEF SumsUp
<1>8. PICK f : f = CHOOSE k : Eq(k)
  OBVIOUS
<1>9. Eq(f)
  BY <1>7, <1>8
<1>10. SumsUp(c, f, SUBSET Z)
  BY <1>4, <1>6, <1>9 DEF SumsUp
<1>11. f[Z] = Total(c, Z)
  BY <1>2, <1>10, FoldTotal
<1> QED BY <1>1, <1>3, <1>4, <1>8, <1>11

\* What the provider may charge for a request.
Charge == [i \in Slots |-> IF resp[i] = None THEN 1 ELSE resp[i]]

LEMMA SpendIs ==
  ASSUME mode \in Modes, Charge \in [Slots -> Nat], NEW Z \in SUBSET Slots
  PROVE  MapThenSumSet(LAMBDA i : IF resp[i] = None THEN 1 ELSE resp[i], Z) = Total(Charge, Z)
<1> DEFINE Eq(f) == f = [u \in SUBSET Z |->
                          IF u = {} THEN 0
                          ELSE (IF resp[Pick(u)] = None THEN 1 ELSE resp[Pick(u)])
                                 + f[u \ {Pick(u)}]]
<1>1. MapThenSumSet(LAMBDA i : IF resp[i] = None THEN 1 ELSE resp[i], Z) = (CHOOSE f : Eq(f))[Z]
  BY Zenon DEF MapThenSumSet, MapThenFoldSet, Pick
<1>2. IsFiniteSet(Slots)
  BY SlotType
<1>3. PICK c \in [Slots -> Nat] : c = Charge
  OBVIOUS
<1>4. PICK h \in [SUBSET Z -> Nat] : SumsUp(c, h, SUBSET Z)
  BY <1>2, FoldTable
<1>5. \A u \in SUBSET Z : u # {} =>
        (IF resp[Pick(u)] = None THEN 1 ELSE resp[Pick(u)]) = c[Pick(u)]
  BY <1>3, Picked DEF Charge
<1>6. Eq(h)
  BY <1>4, <1>5 DEF SumsUp
<1>7. PICK f : f = CHOOSE k : Eq(k)
  OBVIOUS
<1>8. Eq(f)
  BY <1>6, <1>7
<1>9. SumsUp(c, f, SUBSET Z)
  BY <1>5, <1>8 DEF SumsUp
<1>10. f[Z] = Total(c, Z)
  BY <1>2, <1>9, FoldTotal
<1> QED BY <1>1, <1>3, <1>7, <1>10

-----------------------------------------------------------------------------
(* The case: what the provider may charge for the rows a ledger has, or    *)
(* for the prefix it mirrors.                                              *)

CaseHolds(D) ==
  /\ V2 => Rows(D) \subseteq Open
  /\ mode = "domain" =>
       \A d \in Domains : Cardinality(PaidDomainHistory(D, d)) <= Usd[d]
  /\ mode = "single" => Total(Charge, Rows(D)) <= Usd[Slot(1).dom]
  /\ mode = "participant" =>
       /\ Total(Charge, 1..D.reservations) <= Usd[Slot(1).dom]
       /\ Rows(D) \subseteq 1..D.reservations
CaseInv == \A r \in Runtimes : CaseHolds(db[r])

\* An answer, once journalled, stays.
AnswersStay == \A i \in Slots : resp[i] # None => resp'[i] = resp[i]

LEMMA ChargeType ==
  ASSUME TypeOK
  PROVE  /\ Charge \in [Slots -> Nat] /\ \A i \in Slots : Charge[i] <= 1
         /\ IsFiniteSet(Slots)
         /\ \A D \in Stores : 1..D.reservations \in SUBSET Slots
<1>1. resp \in [Slots -> Optional(Usages)] /\ mode \in Modes
  BY DEF TypeOK
<1>2. Charge \in [Slots -> Nat] /\ \A i \in Slots : Charge[i] <= 1
  BY <1>1 DEF Charge, Optional, Usages
<1>3. IsFiniteSet(Slots) /\ Slots = 1..Len(Plan[mode]) /\ Len(Plan[mode]) \in Nat
  BY <1>1, SlotType
<1>4. Cardinality(Slots) = Len(Plan[mode])
  BY <1>3, FS_Interval
<1>5. ASSUME NEW D \in Stores
      PROVE  1..D.reservations \in SUBSET Slots
  <2>1. D.reservations \in 0..Len(Plan[mode])
    BY <1>4 DEF Stores
  <2> QED BY <1>3, <2>1
<1> QED BY <1>2, <1>3, <1>5

\* A case has an exposure, that of each of its requests in version 2.
LEMMA CaseExposure ==
  ASSUME mode \in Modes
  PROVE  /\ \A i \in Slots : Usd[Slot(i).dom] \in Nat
         /\ V2 => \A i \in Slots : Slot(i).dom = Slot(1).dom
<1>1. 1 \in Slots /\ Slots = DOMAIN Plan[mode]
  BY SlotType DEF Slots
<1>2. Plan[mode] \in Seq(Requests(mode))
  BY PlanAssumption
<1>3. ASSUME NEW i \in Slots
      PROVE  Plan[mode][i].dom \in DOMAIN Usd
  <2>1. Plan[mode][i] \in Requests(mode)
    BY <1>1, <1>2
  <2> QED BY <2>1 DEF Requests
<1>4. V2 => \A i \in Slots : Plan[mode][i].dom = Plan[mode][1].dom
  BY <1>1, ExposureAssumption DEF V2
<1> QED BY <1>3, <1>4, ExposureAssumption DEF Slot

\* An answer costs no more than the reservation it settles.
LEMMA ChargesFall ==
  ASSUME TypeOK, TypeOK', mode' = mode, AnswersStay, NEW A \in SUBSET Slots,
         NEW B \in SUBSET Slots, B \subseteq A
  PROVE  /\ Total(Charge', B) <= Total(Charge, A)
         /\ Total(Charge', B) \in Nat /\ Total(Charge, A) \in Nat
<1>1. Slots' = Slots /\ resp \in [Slots -> Optional(Usages)]
      /\ resp' \in [Slots -> Optional(Usages)]
  BY SameMode DEF TypeOK, Optional
<1>2. PICK c \in [Slots -> Nat] : c = Charge
  BY ChargeType
<1>3. PICK b : b = Charge'
  OBVIOUS
<1>4. b = [i \in Slots |-> IF resp'[i] = None THEN 1 ELSE resp'[i]]
  BY <1>1, <1>3 DEF Charge
<1>5. b \in [Slots -> Nat]
  BY <1>1, <1>4 DEF Optional, Usages
<1>6. \A i \in Slots : b[i] <= c[i]
  BY <1>1, <1>2, <1>4 DEF Charge, Optional, Usages, AnswersStay
<1>7. Total(b, B) <= Total(c, A)
  BY <1>2, <1>5, <1>6, ChargeType, TotalMonotone
<1>8. Total(b, B) \in Nat /\ Total(c, A) \in Nat
  BY <1>2, <1>5, ChargeType, TotalType
<1> QED BY <1>2, <1>3, <1>7, <1>8

\* A store with the same rows, over a prefix that is not longer.
LEMMA CaseKept ==
  ASSUME IInv, IInv', mode' = mode, AnswersStay, NEW r \in Runtimes,
         CaseHolds(db[r]), Rows(db[r])' = Rows(db[r]),
         db'[r].reservations = db[r].reservations
  PROVE  CaseHolds(db[r])'
<1>1. TypeOK /\ TypeOK' /\ db[r] \in Stores
  BY DEF IInv, TypeOK
<1>2. /\ Slots' = Slots /\ Open' = Open /\ V2' = V2 /\ Domains' = Domains
      /\ \A i : Slot(i)' = Slot(i)
  BY SameMode
<1>3. PICK R : R = Rows(db[r])
  OBVIOUS
<1>4. R \in SUBSET Slots /\ 1..db[r].reservations \in SUBSET Slots
  BY <1>1, <1>3, ChargeType DEF Rows
<1>5. Total(Charge', R) <= Total(Charge, R)
      /\ Total(Charge', 1..db[r].reservations) <= Total(Charge, 1..db[r].reservations)
  BY <1>1, <1>4, ChargesFall
<1>6. /\ Total(Charge', R) \in Nat /\ Total(Charge, R) \in Nat
      /\ Total(Charge', 1..db[r].reservations) \in Nat
      /\ Total(Charge, 1..db[r].reservations) \in Nat
      /\ Usd[Slot(1).dom] \in Nat
  <2>1. Usd[Slot(1).dom] \in Nat
    BY <1>1, CaseExposure, SlotType DEF TypeOK
  <2> QED BY <1>1, <1>4, <2>1, ChargesFall
<1>7. (V2 => Rows(db[r]) \subseteq Open)'
  BY <1>2 DEF CaseHolds
<1>8. (mode = "domain" =>
        \A d \in Domains : Cardinality(PaidDomainHistory(db[r], d)) <= Usd[d])'
  <2>1. \A d : PaidDomainHistory(db[r], d)' = PaidDomainHistory(db[r], d)
    BY <1>2 DEF PaidDomainHistory, Own
  <2> QED BY <1>2, <2>1 DEF CaseHolds
<1>9. (mode = "single" => Total(Charge, Rows(db[r])) <= Usd[Slot(1).dom])'
  <2>1. mode = "single" => Total(Charge', R) <= Usd[Slot(1).dom]
    BY <1>3, <1>5, <1>6 DEF CaseHolds
  <2> QED BY <1>2, <1>3, <2>1
<1>10. (mode = "participant" =>
         /\ Total(Charge, 1..db[r].reservations) <= Usd[Slot(1).dom]
         /\ Rows(db[r]) \subseteq 1..db[r].reservations)'
  <2>1. mode = "participant" =>
          Total(Charge', 1..db[r].reservations) <= Usd[Slot(1).dom]
    BY <1>5, <1>6 DEF CaseHolds
  <2> QED BY <1>2, <2>1 DEF CaseHolds
<1> QED BY <1>7, <1>8, <1>9, <1>10 DEF CaseHolds

LEMMA CaseStays ==
  ASSUME IInv, IInv', CaseInv, mode' = mode, AnswersStay,
         \A r \in Runtimes : Rows(db[r])' = Rows(db[r])
                             /\ db'[r].reservations = db[r].reservations
  PROVE  CaseInv'
BY CaseKept DEF CaseInv

\* A step that writes one store, and neither a row nor the mirrored prefix.
LEMMA OneCaseStays ==
  ASSUME IInv, IInv', CaseInv, mode' = mode, resp' = resp, NEW r \in Runtimes,
         NEW E, db' = [db EXCEPT ![r] = E],
         E.row = db[r].row, E.reservations = db[r].reservations
  PROVE  CaseInv'
<1>1. db \in [Runtimes -> Stores] /\ Slots' = Slots
  BY SameMode DEF IInv, TypeOK
<1>2. \A q \in Runtimes : db'[q].row = db[q].row
                          /\ db'[q].reservations = db[q].reservations
  BY <1>1
<1>3. \A q \in Runtimes : Rows(db[q])' = Rows(db[q])
  BY <1>1, <1>2 DEF Rows
<1>4. AnswersStay
  BY DEF AnswersStay
<1> QED BY <1>2, <1>3, <1>4, CaseStays

LEMMA SameCaseStays ==
  ASSUME IInv, IInv', CaseInv, mode' = mode, AnswersStay, db' = db
  PROVE  CaseInv'
<1>1. Slots' = Slots
  BY SameMode
<1>2. \A q \in Runtimes : Rows(db[q])' = Rows(db[q])
  BY <1>1 DEF Rows
<1> QED BY <1>2, CaseStays

\* The clients: an answer is journalled once.
LEMMA ClientCase ==
  ASSUME IInv, IInv', CaseInv, NEW p \in Preps,
         \/ \E i \in Slots : Ask(p, i)
         \/ Send(p) \/ Answered(p) \/ Unanswered(p) \/ AskSettle(p) \/ NativeRestart(p)
         \/ RegisterNative(p) \/ RetireEntry(p)
  PROVE  CaseInv'
<1>1. PICK r \in Runtimes : r = RuntimeOf(p)
  BY IdentityType, SlotType DEF IInv, TypeOK, Preps, PrepsOf, Slots, Slot
<1>2. PICK D \in Stores : D = db[r]
  BY DEF IInv, TypeOK
<1>3. CASE \/ Send(p) \/ Unanswered(p) \/ AskSettle(p) \/ NativeRestart(p) \/ RetireEntry(p)
  <2>1. mode' = mode /\ db' = db /\ resp' = resp
    BY <1>3 DEF Send, Unanswered, AskSettle, NativeRestart, RetireEntry
  <2> QED BY <2>1, SameCaseStays DEF AnswersStay
<1>4. CASE Answered(p)
  <2>1. /\ mode' = mode /\ db' = db /\ clients[p].pc = "sent"
        /\ \E u \in {0, 1} : resp' = [resp EXCEPT ![clients[p].slot] = u]
    BY <1>4 DEF Answered
  <2>2. resp[clients[p].slot] = None
    BY <2>1 DEF IInv, ClientInv, Waits
  <2>3. AnswersStay
    BY <2>1, <2>2 DEF AnswersStay, IInv, TypeOK
  <2> QED BY <2>1, <2>3, SameCaseStays
<1>5. CASE RegisterNative(p)
  <2>1. /\ mode' = mode /\ resp' = resp
        /\ db' = [db EXCEPT ![r] = RetainPhysicalProcess(D, p, ObserveNativeProcess(p))]
    BY <1>1, <1>2, <1>5 DEF RegisterNative
  <2>2. PICK E : E = RetainPhysicalProcess(D, p, ObserveNativeProcess(p))
    OBVIOUS
  <2>3. E.row = D.row /\ E.reservations = D.reservations
    BY <2>2 DEF RetainPhysicalProcess, Stores
  <2> QED BY <1>2, <2>1, <2>2, <2>3, OneCaseStays
<1>6. CASE \E i \in Slots : Ask(p, i)
  <2>1. PICK E : E = IF IsAccess(p) THEN Enroll(D, p) ELSE D
    OBVIOUS
  <2>2. mode' = mode /\ resp' = resp /\ db' = [db EXCEPT ![r] = E]
    BY <1>1, <1>2, <1>6, <2>1 DEF Ask
  <2>3. E.row = D.row /\ E.reservations = D.reservations
    BY <2>1 DEF Enroll, Stores
  <2> QED BY <1>2, <2>2, <2>3, OneCaseStays
<1> QED BY <1>3, <1>4, <1>5, <1>6

\* The handlers that write no row, and the settlement of one.
LEMMA HandlerCase ==
  ASSUME IInv, IInv', CaseInv, NEW h \in conns,
         \/ GiveUp(h) \/ Authorise(h) \/ Verify(h) \/ Sign(h) \/ Post(h) \/ Reply(h)
  PROVE  CaseInv'
<1>1. PICK r \in Runtimes : r = RuntimeOf(h.prep)
  BY HandlerSlot
<1>2. PICK D \in Stores : D = db[r]
  BY DEF IInv, TypeOK
<1>3. CASE GiveUp(h) \/ Authorise(h) \/ Reply(h)
  <2>1. mode' = mode /\ db' = db /\ resp' = resp
    BY <1>3 DEF GiveUp, Authorise, Reply, rest
  <2> QED BY <2>1, SameCaseStays DEF AnswersStay
<1>4. CASE Verify(h) \/ Sign(h) \/ Post(h)
  <2>1. mode' = mode /\ resp' = resp
    BY <1>4 DEF Verify, Sign, Post, rest
  <2>2. CASE db' = db
    BY <2>1, <2>2, SameCaseStays DEF AnswersStay
  <2>3. CASE db' # db
    <3>1. PICK E : /\ db' = [db EXCEPT ![r] = E]
                   /\ \/ E = RetainOriginals(D, h.slot, h.claim)
                      \/ E = [D EXCEPT !.envelope[h.slot] = D.archive[h.slot]]
                      \/ E = [D EXCEPT !.ack = @ \cup {h.slot}]
      BY <1>1, <1>2, <1>4, <2>3 DEF Verify, Sign, Post
    <3>2. E.row = D.row /\ E.reservations = D.reservations
      BY <3>1 DEF RetainOriginals, Stores
    <3> QED BY <1>2, <2>1, <3>1, <3>2, OneCaseStays
  <2> QED BY <2>2, <2>3
<1> QED BY <1>3, <1>4

LEMMA CloseCase ==
  ASSUME IInv, IInv', CaseInv, NEW h \in conns, Close(h)
  PROVE  CaseInv'
<1>1. PICK r \in Runtimes : r = RuntimeOf(h.prep)
  BY HandlerSlot
<1>2. PICK D \in Stores : D = db[r]
  BY DEF IInv, TypeOK
<1>3. mode' = mode /\ resp' = resp /\ h.pc = "close"
  BY DEF Close, rest
<1>4. CASE db' = db
  BY <1>3, <1>4, SameCaseStays DEF AnswersStay
<1>5. CASE db' # db
  <2>1. h.slot \in Slots /\ D.row[h.slot] # None /\ h.claim \in Usages
    <3>1. h.slot \in Slots /\ Verified(h) /\ Serves(h) /\ Mine(h.slot) = D
      BY <1>1, <1>2, HandlerSlot
    <3>2. h.claim = resp[h.slot] /\ resp[h.slot] # None /\ D.row[h.slot] # None
      BY <1>3, <3>1 DEF Verified, Serves
    <3>3. resp \in [Slots -> Optional(Usages)]
      BY DEF IInv, TypeOK
    <3> QED BY <3>1, <3>2, <3>3 DEF Optional
  <2>2. PICK E \in Stores : E = SettlePhysical(D, h.slot, h.claim)
    BY <2>1, SettlePhysicalType
  <2>3. /\ E.reservations = D.reservations
        /\ E.row[h.slot] # None
        /\ \A j \in Slots \ {h.slot} : E.row[j] = D.row[j]
    <3>1. None \notin Operations
      BY NoneAssumption
    <3> QED BY <2>1, <2>2, <3>1, SettlePhysicalType
  <2>4. db' = [db EXCEPT ![r] = E]
    BY <1>1, <1>2, <1>5, <2>2 DEF Close
  <2>5. db \in [Runtimes -> Stores] /\ Slots' = Slots
    BY <1>3, SameMode DEF IInv, TypeOK
  <2>6. \A q \in Runtimes : \A j \in Slots : db'[q].row[j] = None <=> db[q].row[j] = None
    BY <1>2, <2>1, <2>3, <2>4, <2>5
  <2>7. \A q \in Runtimes : db'[q].reservations = db[q].reservations
    BY <1>2, <2>3, <2>4, <2>5
  <2>8. \A q \in Runtimes : Rows(db[q])' = Rows(db[q])
    BY <2>5, <2>6 DEF Rows
  <2> QED BY <1>3, <2>7, <2>8, CaseStays DEF AnswersStay
<1> QED BY <1>4, <1>5

\* The opening, the backend and the steps of ensurePaidCaseDomain that write no row.
LEMMA PassCase ==
  ASSUME IInv, IInv', CaseInv, NEW r \in Runtimes,
         PassOpening(r) \/ PostOpening(r) \/ GetOpening(r) \/ DaemonRestart(r)
  PROVE  CaseInv'
<1>1. PICK D \in Stores : D = db[r]
  BY DEF IInv, TypeOK
<1>2. mode' = mode /\ resp' = resp
  BY DEF PassOpening, PostOpening, GetOpening, DaemonRestart, opening
<1>3. CASE db' = db
  BY <1>2, <1>3, SameCaseStays DEF AnswersStay
<1>4. CASE db' # db
  <2>1. PICK E \in {AcceptOpening(D), ObserveProviderOpening(D)} : db' = [db EXCEPT ![r] = E]
    BY <1>1, <1>4 DEF PassOpening, PostOpening, GetOpening, DaemonRestart
  <2>2. E.row = D.row /\ E.reservations = D.reservations
    BY <2>1 DEF AcceptOpening, ObserveProviderOpening, Stores
  <2> QED BY <1>1, <1>2, <2>1, <2>2, OneCaseStays
<1> QED BY <1>3, <1>4

LEMMA DriverCase ==
  ASSUME IInv, IInv', CaseInv,
         \/ BackendReserves \/ \E d \in Domains : SelectDemand(d) \/ Expire(d)
         \/ ObserveDomain \/ AdoptDomain \/ StoreBasis \/ SignAcceptance
         \/ RetainAcceptance \/ ConfirmDomain \/ ScopeChanged
  PROVE  CaseInv'
<1>1. PICK r \in Runtimes : r = Host
  BY SlotType DEF Host, IInv, TypeOK
<1>2. PICK D \in Stores : D = db[r]
  BY DEF IInv, TypeOK
<1>3. mode' = mode /\ resp' = resp
  BY DEF BackendReserves, SelectDemand, Expire, ObserveDomain, AdoptDomain, StoreBasis,
         SignAcceptance, RetainAcceptance, ConfirmDomain, ScopeChanged, opening, steady
<1>4. CASE db' = db
  BY <1>3, <1>4, SameCaseStays DEF AnswersStay
<1>5. CASE db' # db
  <2>1. PICK E \in {[D EXCEPT !.basis = @ \cup {drv.dom}], [D EXCEPT !.signed = @ \cup {drv.dom}],
                    [D EXCEPT !.accepted = @ \cup {drv.dom}],
                    [D EXCEPT !.confirmed = @ \cup {drv.dom}]} : db' = [db EXCEPT ![r] = E]
    BY <1>1, <1>2, <1>5
       DEF BackendReserves, SelectDemand, Expire, ObserveDomain, AdoptDomain, StoreBasis,
           SignAcceptance, RetainAcceptance, ConfirmDomain, ScopeChanged
  <2>2. E.row = D.row /\ E.reservations = D.reservations
    BY <2>1 DEF Stores
  <2> QED BY <1>2, <1>3, <2>1, <2>2, OneCaseStays
<1> QED BY <1>4, <1>5

\* A step that writes one store, within the case.
LEMMA OneCaseHolds ==
  ASSUME IInv, IInv', CaseInv, mode' = mode, resp' = resp, NEW r \in Runtimes,
         NEW E, db' = [db EXCEPT ![r] = E], CaseHolds(E)
  PROVE  CaseInv'
<1>1. db \in [Runtimes -> Stores] /\ AnswersStay
  BY DEF IInv, TypeOK, AnswersStay
<1>2. /\ Slots' = Slots /\ Open' = Open /\ V2' = V2 /\ Domains' = Domains
      /\ \A i : Slot(i)' = Slot(i)
  BY SameMode
<1>3. db'[r] = E /\ \A q \in Runtimes \ {r} : db'[q] = db[q]
  BY <1>1
<1>4. ASSUME NEW q \in Runtimes, q # r
      PROVE  CaseHolds(db[q])'
  <2>1. Rows(db[q])' = Rows(db[q]) /\ db'[q].reservations = db[q].reservations
    BY <1>2, <1>3, <1>4 DEF Rows
  <2> QED BY <1>1, <2>1, CaseKept DEF CaseInv
<1>5. CaseHolds(db[r])'
  <2>1. Charge' = Charge
    BY <1>2 DEF Charge
  <2>2. Rows(db[r])' = Rows(E) /\ db'[r].reservations = E.reservations
    BY <1>2, <1>3 DEF Rows
  <2>3. \A d : PaidDomainHistory(db[r], d)' = PaidDomainHistory(E, d)
    BY <1>2, <2>2 DEF PaidDomainHistory, Own
  <2> QED BY <1>2, <2>1, <2>2, <2>3 DEF CaseHolds
<1> QED BY <1>4, <1>5 DEF CaseInv

\* The exposure the gate computes for a version 2 ledger is what its settled
\* rows may be charged.
LEMMA SettledExposure ==
  ASSUME IInv, V2, NEW r \in Runtimes, CaseHolds(db[r]),
         \A j \in Rows(db[r]) : db[r].row[j].phase = "settled"
  PROVE  Exposure(db[r], Rows(db[r])) = Total(Charge, Rows(db[r]))
<1>1. PICK D : D = db[r]
  OBVIOUS
<1>2. RowsInv(r, D) /\ mode \in Modes /\ Charge \in [Slots -> Nat]
  BY <1>1, ChargeType DEF IInv, LedgerInv, Sound, TypeOK
<1>3. Rows(D) \in SUBSET Slots /\ Rows(D) \subseteq Open
  BY <1>1 DEF Rows, CaseHolds
<1>4. ASSUME NEW j \in Rows(D)
      PROVE  D.row[j].usage = Charge[j]
  <2>1. j \in Slots /\ j \in Open /\ D.row[j] # None /\ D.row[j].phase = "settled"
    BY <1>1, <1>3 DEF Rows
  <2>2. resp[j] # None /\ D.row[j].usage = resp[j]
    BY <1>2, <2>1 DEF RowsInv
  <2> QED BY <2>1, <2>2 DEF Charge
<1> QED BY <1>1, <1>2, <1>3, <1>4, ExposureIs

LEMMA AdmitCase ==
  ASSUME IInv, IInv', CaseInv, NEW h \in conns, Admit(h)
  PROVE  CaseInv'
<1>1. PICK r \in Runtimes : r = RuntimeOf(h.prep)
  BY HandlerSlot
<1>2. PICK D \in Stores : D = db[r]
  BY DEF IInv, TypeOK
<1>3. mode' = mode /\ resp' = resp
  BY DEF Admit, rest
<1>4. CASE db' = db
  BY <1>3, <1>4, SameCaseStays DEF AnswersStay
<1>5. CASE db' # db
  <2>1. PICK i \in Slots : i = h.slot /\ i \in Open /\ h.who \in Nat
    BY HandlerSlot
  <2>2. PICK E \in Stores : E = AdmitPhysical(D, i, h.who)
    BY <2>1, AdmitPhysicalType
  <2>3. AdmitAllowed(D, i, h.who) /\ db' = [db EXCEPT ![r] = E]
    BY <1>1, <1>2, <1>5, <2>1, <2>2 DEF Admit
  <2>4. /\ E.row = [D.row EXCEPT ![i] =
                      [phase |-> "unknown", who |-> h.who, usage |-> None]]
        /\ E.reservations = D.reservations
    BY <2>1, <2>2, AdmitPhysicalType
  <2>5. Rows(E) = Rows(D) \cup {i}
    <3> DEFINE op == [phase |-> "unknown", who |-> h.who, usage |-> None]
    <3>1. op \in Operations
      BY <2>1 DEF Operations
    <3>2. op # None /\ D.row \in [Slots -> Optional(Operations)]
      BY <3>1, NoneAssumption DEF Stores
    <3> HIDE DEF op
    <3>3. E.row = [D.row EXCEPT ![i] = op]
      BY <2>4 DEF op
    <3> QED BY <2>1, <3>2, <3>3 DEF Rows
  <2>6. /\ Charge \in [Slots -> Nat] /\ Charge[i] <= 1 /\ IsFiniteSet(Slots)
        /\ mode \in Modes /\ Usd[Slot(i).dom] \in Nat
        /\ V2 => Usd[Slot(1).dom] = Usd[Slot(i).dom]
    BY ChargeType, CaseExposure DEF IInv, TypeOK
  <2>7. CaseHolds(D) /\ Rows(D) \in SUBSET Slots /\ Rows(E) \in SUBSET Slots
    BY <1>2 DEF CaseInv, Rows
  <2>8. V2 => Rows(E) \subseteq Open
    BY <2>1, <2>5, <2>7 DEF CaseHolds
  <2>9. ASSUME mode = "domain", NEW d \in Domains
        PROVE  Cardinality(PaidDomainHistory(E, d)) <= Usd[d]
    <3>1. CASE d # Slot(i).dom
      <4>1. PaidDomainHistory(E, d) = PaidDomainHistory(D, d)
        BY <2>5, <3>1 DEF PaidDomainHistory, Own
      <4> QED BY <2>7, <2>9, <4>1 DEF CaseHolds
    <3>2. CASE d = Slot(i).dom
      <4>1. PICK H \in SUBSET Slots : H = PaidDomainHistory(D, d)
        BY <2>7 DEF PaidDomainHistory
      <4>2. Cardinality(H) <= Usd[d] - 1 /\ i \notin H
        BY <2>3, <2>9, <3>2, <4>1
           DEF AdmitAllowed, AdmitPaidDomain, ValidatePhysicalAppend, Exposure, V2
      <4>3. PaidDomainHistory(E, d) = H \cup {i}
        BY <2>1, <2>5, <3>2, <4>1 DEF PaidDomainHistory, Own
      <4>4. IsFiniteSet(H) /\ Cardinality(H) \in Nat
        BY <2>6, FS_Subset, FS_CardinalityType
      <4>5. Cardinality(H \cup {i}) = Cardinality(H) + 1
        BY <4>2, <4>4, FS_AddElement
      <4> QED BY <2>6, <3>2, <4>2, <4>3, <4>4, <4>5
    <3> QED BY <3>1, <3>2
  <2>10. ASSUME mode = "single"
         PROVE  Total(Charge, Rows(E)) <= Usd[Slot(1).dom]
    <3>1. ValidatePhysicalAppend(D, Rows(D), i, h.who) /\ V2
      BY <2>3, <2>10 DEF AdmitAllowed, V2
    <3>2. /\ i \notin Rows(D) /\ \A j \in Rows(D) : D.row[j].phase = "settled"
          /\ Exposure(D, Rows(D)) <= Usd[Slot(i).dom] - 1
      BY <3>1 DEF ValidatePhysicalAppend
    <3>3. Exposure(D, Rows(D)) = Total(Charge, Rows(D))
      BY <1>2, <2>7, <3>1, <3>2, SettledExposure
    <3>4. Total(Charge, Rows(E)) = Charge[i] + Total(Charge, Rows(E) \ {i})
      BY <2>5, <2>6, <2>7, TotalRemove
    <3>5. Rows(E) \ {i} = Rows(D)
      BY <2>5, <3>2
    <3>6. Total(Charge, Rows(D)) \in Nat /\ Charge[i] \in Nat
      BY <2>6, <2>7, TotalType
    <3>7. PICK n \in Nat : n = Total(Charge, Rows(D))
      BY <3>6
    <3>8. Total(Charge, Rows(E)) = Charge[i] + n
      BY <3>4, <3>5, <3>7
    <3>9. n <= Usd[Slot(i).dom] - 1
      BY <3>2, <3>3, <3>7
    <3>10. Charge[i] + n <= Usd[Slot(i).dom]
      BY <2>6, <3>6, <3>9
    <3> QED BY <2>6, <3>1, <3>8, <3>10
  <2>11. mode = "participant" =>
           /\ Total(Charge, 1..E.reservations) <= Usd[Slot(1).dom]
           /\ Rows(E) \subseteq 1..E.reservations
    <3>1. mode = "participant" => i <= D.reservations
      BY <2>3 DEF AdmitAllowed, ValidateParticipantAppend
    <3>2. i \in Nat /\ i >= 1 /\ D.reservations \in Nat
      <4>1. Slots = 1..Len(Plan[mode]) /\ Len(Plan[mode]) \in Nat
            /\ Cardinality(Slots) \in Nat
        BY <2>6, SlotType
      <4> QED BY <4>1 DEF Stores
    <3> QED BY <2>4, <2>5, <2>7, <3>1, <3>2 DEF CaseHolds
  <2>12. CaseHolds(E)
    BY <2>8, <2>9, <2>10, <2>11 DEF CaseHolds
  <2> QED BY <1>3, <2>3, <2>12, OneCaseHolds
<1> QED BY <1>4, <1>5

\* A prefix that is retained is within the case.
LEMMA PrefixHolds ==
  ASSUME IInv, mode = "participant", NEW r \in Runtimes, CaseHolds(db[r]),
         NEW s \in Snapshots, PrefixRetainable(r, db[r], s),
         \A i \in s.settled : be.settled[i] # None,
         NEW E, E.row = db[r].row, E.reservations = s.reserved
  PROVE  CaseHolds(E)
<1>1. /\ mode \in Modes /\ V2 /\ TypeOK /\ db[r] \in Stores /\ be \in Backends
      /\ resp \in [Slots -> Optional(Usages)]
  BY DEF IInv, TypeOK, V2
<1>2. s.settled \subseteq Slots /\ s.reserved \in 0..Cardinality(Slots)
      /\ db[r].reservations \in 0..Cardinality(Slots)
  BY <1>1 DEF Snapshots, Stores
<1>3. IsFiniteSet(Slots) /\ Slots = 1..Len(Plan[mode]) /\ Len(Plan[mode]) \in Nat
      /\ Cardinality(Slots) = Len(Plan[mode])
  BY <1>1, SlotType, FS_Interval
<1>4. 1..s.reserved \in SUBSET Slots
  BY <1>2, <1>3
<1>5. be.settled \in [Slots -> Optional(Usages)]
  BY <1>1 DEF Backends
<1>6. PICK c \in [Slots -> Nat] : c = Listed(be.settled, s)
  <2>1. \A i \in Slots : i \in s.settled => be.settled[i] \in Nat
    BY <1>5 DEF Optional, Usages
  <2>2. Listed(be.settled, s) \in [Slots -> Nat]
    BY <2>1 DEF Listed
  <2> QED BY <2>2
<1>7. \A i \in Slots : Charge[i] <= c[i]
  <2>1. ASSUME NEW i \in Slots, i \in s.settled
        PROVE  be.settled[i] = resp[i] /\ resp[i] # None
    BY <2>1 DEF IInv, LedgerInv, Fact
  <2>2. ASSUME NEW i \in Slots
        PROVE  Charge[i] <= c[i]
    <3>1. CASE i \in s.settled
      <4>1. Charge[i] = c[i] /\ Charge[i] \in Nat
        BY <1>1, <1>6, <2>1, <3>1, ChargeType DEF Charge, Listed
      <4> QED BY <4>1
    <3>2. CASE i \notin s.settled
      BY <1>1, <1>6, <3>2, ChargeType DEF Listed
    <3> QED BY <3>1, <3>2
  <2> QED BY <2>2
<1>8. PrefixExposure(s) = Total(c, 1..s.reserved)
  BY <1>1, <1>4, <1>6, PrefixExposureIs
<1>9. Total(Charge, 1..s.reserved) <= Total(c, 1..s.reserved)
  BY <1>1, <1>3, <1>4, <1>7, ChargeType, TotalMonotone
<1>10. /\ Total(Charge, 1..s.reserved) \in Nat /\ Total(c, 1..s.reserved) \in Nat
       /\ Usd[Slot(1).dom] \in Nat
  BY <1>1, <1>3, <1>4, ChargeType, TotalType, CaseExposure, SlotType
<1>11. PrefixExposure(s) <= Usd[Slot(1).dom] /\ db[r].reservations <= s.reserved
  BY DEF PrefixRetainable, VerifyPrefix
<1>12. Total(Charge, 1..E.reservations) <= Usd[Slot(1).dom]
  BY <1>8, <1>9, <1>10, <1>11
<1>13. Rows(E) = Rows(db[r])
  BY DEF Rows
<1>14. 1..db[r].reservations \subseteq 1..E.reservations
  BY <1>2, <1>3, <1>11
<1> QED BY <1>12, <1>13, <1>14 DEF CaseHolds

LEMMA CollectCase ==
  ASSUME IInv, IInv', CaseInv, NEW r \in Runtimes, CollectReadback(r)
  PROVE  CaseInv'
<1>1. TypeOK /\ be \in Backends /\ mode = "participant"
  BY DEF IInv, TypeOK, CollectReadback
<1>2. PICK D \in Stores : D = db[r]
  BY <1>1 DEF TypeOK
<1>3. Current \in Snapshots /\ \A i \in Current.settled : be.settled[i] # None
  BY <1>1 DEF Current, Snapshots, Backends
<1>4. PICK s \in Snapshots : s = Current /\ \A i \in s.settled : be.settled[i] # None
  BY <1>3
<1>5. /\ PrefixRetainable(r, D, s) /\ db' = [db EXCEPT ![r] = RetainProviderPrefix(D, s)]
      /\ mode' = mode /\ resp' = resp
  BY <1>2, <1>4 DEF CollectReadback, opening
<1>6. PICK E : E = RetainProviderPrefix(D, s)
  OBVIOUS
<1>7. E.row = D.row /\ E.reservations = s.reserved
  BY <1>6 DEF RetainProviderPrefix, Stores
<1>8. CaseHolds(E)
  BY <1>1, <1>2, <1>4, <1>5, <1>7, PrefixHolds DEF CaseInv
<1> QED BY <1>5, <1>6, <1>8, OneCaseHolds

LEMMA BindCase ==
  ASSUME IInv, IInv', CaseInv, NEW h \in conns, Bind(h)
  PROVE  CaseInv'
<1>1. PICK r \in Runtimes : r = RuntimeOf(h.prep)
  BY HandlerSlot
<1>2. PICK D \in Stores : D = db[r]
  BY DEF IInv, TypeOK
<1>3. mode' = mode /\ resp' = resp /\ h.pc = "bind"
  BY DEF Bind, rest
<1>4. CASE db' = db
  BY <1>3, <1>4, SameCaseStays DEF AnswersStay
<1>5. CASE db' # db
  <2>1. PICK s : s = h.snap
    OBVIOUS
  <2>2. BindAllowed(r, D, h.slot, s)
        /\ db' = [db EXCEPT ![r] = BindReservation(D, h.slot, s)]
    BY <1>1, <1>2, <1>5, <2>1 DEF Bind
  <2>3. s \in Snapshots /\ \A i \in s.settled : be.settled[i] # None
    BY <1>3, <2>1, HandlerSlot DEF Verified
  <2>4. CASE mode # "participant"
    <3>1. PICK E : E = BindReservation(D, h.slot, s)
      OBVIOUS
    <3>2. E.row = D.row /\ E.reservations = D.reservations
      BY <2>4, <3>1 DEF BindReservation, Stores
    <3> QED BY <1>2, <1>3, <2>2, <3>1, <3>2, OneCaseStays
  <2>5. CASE mode = "participant"
    <3>1. PrefixRetainable(r, D, s)
      BY <2>2, <2>5 DEF BindAllowed, BindParticipantReservation
    <3>2. PICK F : F = RetainProviderPrefix(D, s)
      OBVIOUS
    <3>3. F.row = D.row /\ F.reservations = s.reserved
          /\ F = [[D EXCEPT !.reservations = s.reserved]
                     EXCEPT !.settlements = Cardinality(s.settled)]
      BY <3>2 DEF RetainProviderPrefix, Stores
    <3>4. PICK E : E = [F EXCEPT !.bound = F.bound \cup {h.slot}]
      OBVIOUS
    <3>5. E = BindReservation(D, h.slot, s)
      BY <2>5, <3>2, <3>4 DEF BindReservation
    <3>6. E.row = D.row /\ E.reservations = s.reserved
      BY <3>3, <3>4 DEF Stores
    <3>7. CaseHolds(E)
      BY <1>2, <2>3, <2>5, <3>1, <3>6, PrefixHolds DEF CaseInv
    <3> QED BY <1>3, <2>2, <3>5, <3>7, OneCaseHolds
  <2> QED BY <2>4, <2>5
<1> QED BY <1>4, <1>5

\* The rows of an imported history are of no domain of the case.
LEMMA PrepareCase ==
  ASSUME IInv, IInv', CaseInv, NEW d \in Domains, PrepareDomain(d)
  PROVE  CaseInv'
<1>1. TypeOK /\ db \in [Runtimes -> Stores] /\ mode \in Modes
  BY DEF IInv, TypeOK
<1>2. PICK r \in Runtimes : r = Host
  BY <1>1, SlotType DEF Host
<1>3. PICK L \in Stores : L = db[r]
  BY <1>1
<1>4. mode = "domain" /\ ~V2 /\ mode' = mode /\ resp' = resp
  BY DEF Domains, V2, PrepareDomain, steady
<1>5. PICK u \in (IF L.anchor THEN {None} ELSE ImportedUnknown) :
        LET D == IF L.anchor THEN L ELSE AdoptPhysicalLedger(L, u)
            ready == IF D.bootstrap[d] # None THEN BootstrapOriginals(D, D.bootstrap[d])
                     ELSE LedgerReadback(D)
            kept == IF D.bootstrap[d] # None \/ ~ready THEN D
                    ELSE [D EXCEPT !.bootstrap[d] = Cardinality(Rows(D))]
        IN db' = [db EXCEPT ![r] = kept]
  BY <1>2, <1>3 DEF PrepareDomain, Ledger
<1>6. PICK D \in Stores :
        /\ D = IF L.anchor THEN L ELSE AdoptPhysicalLedger(L, u)
        /\ Rows(D) \subseteq Rows(L) \cup Own(Legacy)
        /\ L.anchor => D = L
  <2>1. CASE L.anchor
    BY <2>1
  <2>2. CASE ~L.anchor
    <3>1. u \in ImportedUnknown
      BY <1>5, <2>2
    <3>2. PICK F \in Stores : F = AdoptPhysicalLedger(L, u)
      BY <1>3, <1>4, <2>2, <3>1, AdoptedLedger
    <3>3. \A i \in Slots : i \notin Own(Legacy) => F.row[i] = None
      BY <3>2 DEF AdoptPhysicalLedger, Stores
    <3> QED BY <2>2, <3>2, <3>3 DEF Rows
  <2> QED BY <2>1, <2>2
<1>7. PICK E : db' = [db EXCEPT ![r] = E] /\ Rows(E) = Rows(D)
  <2> DEFINE n == Cardinality(Rows(D))
  <2>1. PICK E \in {D, [D EXCEPT !.bootstrap[d] = n]} : db' = [db EXCEPT ![r] = E]
    BY <1>5, <1>6
  <2> HIDE DEF n
  <2>2. E.row = D.row
    BY <2>1 DEF Stores
  <2> QED BY <2>1, <2>2 DEF Rows
<1>8. ASSUME NEW e \in Domains
      PROVE  PaidDomainHistory(E, e) \subseteq PaidDomainHistory(L, e)
  <2>1. e # Legacy
    BY DEF Domains
  <2> QED BY <1>6, <1>7, <2>1 DEF PaidDomainHistory, Own
<1>9. ASSUME NEW e \in Domains
      PROVE  Cardinality(PaidDomainHistory(E, e)) <= Usd[e]
  <2>1. Cardinality(PaidDomainHistory(L, e)) <= Usd[e]
    BY <1>3, <1>4 DEF CaseInv, CaseHolds
  <2>2. IsFiniteSet(Slots)
    BY <1>1, SlotType
  <2>3. IsFiniteSet(PaidDomainHistory(L, e))
    BY <2>2, FS_Subset DEF PaidDomainHistory, Own
  <2>4. PICK A, B : /\ A = PaidDomainHistory(E, e) /\ B = PaidDomainHistory(L, e)
                    /\ A \subseteq B /\ IsFiniteSet(B) /\ Cardinality(B) <= Usd[e]
    BY <1>8, <2>1, <2>3
  <2>5. Cardinality(A) <= Cardinality(B) /\ Cardinality(A) \in Nat /\ Cardinality(B) \in Nat
    BY <2>4, FS_Subset, FS_CardinalityType
  <2>6. Usd[e] \in Nat
    BY <1>1, CaseExposure DEF Domains
  <2> QED BY <2>4, <2>5, <2>6
<1>10. CaseHolds(E)
  BY <1>4, <1>9 DEF CaseHolds
<1> QED BY <1>4, <1>7, <1>10, OneCaseHolds

LEMMA CaseStarts == ASSUME Init PROVE CaseInv
<1>1. IInv /\ mode \in Modes
  BY InitHolds DEF Init
<1>2. SUFFICES ASSUME NEW r \in Runtimes
               PROVE  CaseHolds(EmptyStore)
  BY DEF Init, CaseInv
<1>3. Rows(EmptyStore) = {} /\ 1..EmptyStore.reservations = {}
  BY DEF EmptyStore, Rows
<1>4. Total(Charge, {}) = 0
  BY <1>1, ChargeType, TotalType DEF IInv
<1>5. Cardinality({}) = 0
  BY FS_EmptySet
<1>6. \A i \in Slots : Usd[Slot(i).dom] \in Nat
  BY <1>1, CaseExposure
<1>7. Usd[Slot(1).dom] \in Nat
  BY <1>1, <1>6, SlotType
<1>8. \A d \in Domains : PaidDomainHistory(EmptyStore, d) = {} /\ Usd[d] \in Nat
  BY <1>3, <1>6 DEF PaidDomainHistory, Domains
<1>9. \A d \in Domains : Cardinality(PaidDomainHistory(EmptyStore, d)) <= Usd[d]
  BY <1>5, <1>8
<1>10. Total(Charge, Rows(EmptyStore)) <= Usd[Slot(1).dom]
       /\ Total(Charge, 1..EmptyStore.reservations) <= Usd[Slot(1).dom]
  <2>1. Total(Charge, Rows(EmptyStore)) = 0 /\ Total(Charge, 1..EmptyStore.reservations) = 0
    BY <1>3, <1>4, Zenon
  <2>2. PICK a, b : /\ a = Total(Charge, Rows(EmptyStore)) /\ a = 0
                    /\ b = Total(Charge, 1..EmptyStore.reservations) /\ b = 0
    BY <2>1, Zenon
  <2>3. a <= Usd[Slot(1).dom] /\ b <= Usd[Slot(1).dom]
    BY <1>7, <2>2
  <2> QED BY <2>2, <2>3, Zenon
<1> QED BY <1>3, <1>9, <1>10 DEF CaseHolds

LEMMA CaseStep == ASSUME IInv, IInv', CaseInv, [Next]_vars PROVE CaseInv'
<1>1. CASE \E p \in Preps : \E i \in Slots : Ask(p, i)
  BY <1>1, ClientCase
<1>2. CASE \E p \in Preps : \/ Send(p) \/ Answered(p) \/ Unanswered(p)
                            \/ AskSettle(p) \/ NativeRestart(p)
                            \/ RegisterNative(p) \/ RetireEntry(p)
  BY <1>2, ClientCase
<1>3. CASE \E h \in conns : \/ GiveUp(h) \/ Authorise(h) \/ Bind(h) \/ Admit(h)
                            \/ Verify(h) \/ Sign(h) \/ Post(h) \/ Close(h) \/ Reply(h)
  BY <1>3, HandlerCase, BindCase, AdmitCase, CloseCase
<1>4. CASE \E r \in Runtimes : \/ PassOpening(r) \/ PostOpening(r) \/ GetOpening(r)
                               \/ CollectReadback(r) \/ DaemonRestart(r)
  BY <1>4, PassCase, CollectCase
<1>5. CASE \E d \in Domains : PrepareDomain(d) \/ SelectDemand(d) \/ Expire(d)
  BY <1>5, PrepareCase, DriverCase
<1>6. CASE \/ BackendReserves \/ ObserveDomain \/ AdoptDomain \/ StoreBasis
           \/ SignAcceptance \/ RetainAcceptance \/ ConfirmDomain \/ ScopeChanged
  BY <1>6, DriverCase
<1>7. CASE UNCHANGED vars
  BY <1>7, SameCaseStays DEF vars, AnswersStay
<1> QED BY <1>1, <1>2, <1>3, <1>4, <1>5, <1>6, <1>7 DEF Next

\* The requests of a set that reached the provider of a participant case are
\* within the prefix mirrored by the runtime that sent the last of them.
LEMMA LastSent ==
  ASSUME mode \in Modes
  PROVE  \A Z \in SUBSET Slots : Z # {} => \E m \in Z : \A i \in Z : i <= m
<1> DEFINE T == {Z \in SUBSET Slots : Z # {} => \E m \in Z : \A i \in Z : i <= m}
<1>1. IsFiniteSet(Slots) /\ Slots \subseteq Nat
  BY SlotType
<1>2. {} \in T
  OBVIOUS
<1>3. ASSUME NEW U \in SUBSET Slots, U \in T, NEW x \in Slots \ U
      PROVE  U \cup {x} \in T
  <2>1. CASE U = {}
    BY <1>1, <2>1
  <2>2. CASE U # {}
    <3>1. PICK m \in U : \A i \in U : i <= m
      BY <1>3, <2>2
    <3>2. CASE x <= m
      BY <1>3, <3>1, <3>2
    <3>3. CASE ~(x <= m)
      <4>1. \A i \in U \cup {x} : i <= x
        BY <1>1, <1>3, <3>1, <3>3
      <4> QED BY <1>3, <4>1
    <3> QED BY <3>2, <3>3
  <2> QED BY <2>1, <2>2
<1>4. \A U \in SUBSET Slots : U \in T
  <2>1. \A U \in SUBSET Slots : U \in T => \A x \in Slots \ U : U \cup {x} \in T
    BY <1>3
  <2> HIDE DEF T
  <2> QED BY <1>1, <1>2, <2>1, SetInduction
<1> QED BY <1>4

LEMMA CaseBoundsSpend ==
  ASSUME IInv, CaseInv
  PROVE  SpendWithinCase
<1>1. TypeOK /\ mode \in Modes /\ db \in [Runtimes -> Stores]
  BY DEF IInv, TypeOK
<1>2. SUFFICES ASSUME NEW k \in Slots
               PROVE  MapThenSumSet(LAMBDA i : IF resp[i] = None THEN 1 ELSE resp[i],
                        {i \in Own(Slot(k).dom) : sent[i] > 0}) <= Usd[Slot(k).dom]
  BY DEF SpendWithinCase
<1>3. PICK d : d = Slot(k).dom
  OBVIOUS
<1>4. PICK Z \in SUBSET Slots : Z = {i \in Own(d) : sent[i] > 0}
  BY DEF Own
<1>5. Charge \in [Slots -> Nat] /\ IsFiniteSet(Slots) /\ \A i \in Slots : Charge[i] <= 1
  BY <1>1, ChargeType
<1>6. MapThenSumSet(LAMBDA i : IF resp[i] = None THEN 1 ELSE resp[i], Z) = Total(Charge, Z)
  BY <1>1, <1>5, SpendIs
<1>7. \A i \in Z : i \in Own(d) /\ i \in Open /\ Mine(i).row[i] # None
  BY <1>1, <1>4 DEF IInv, SentInv, TypeOK, Own
<1>8. /\ \A U \in SUBSET Slots : Total(Charge, U) \in Nat
      /\ Usd[d] \in Nat /\ (V2 => Usd[Slot(1).dom] = Usd[d])
      /\ \A i \in Slots : Slot(i).rt \in Runtimes
  BY <1>1, <1>3, <1>5, TotalType, CaseExposure, SlotType
<1>9. Total(Charge, Z) <= Usd[d]
  <2>1. CASE Z = {}
    <3>1. Total(Charge, Z) = 0
      BY <1>5, <2>1, TotalType
    <3> QED BY <1>8, <3>1
  <2>2. CASE Z # {} /\ mode = "domain"
    <3>1. d \in Domains
      BY <1>3, <1>7, <2>2 DEF Domains, V2, Open, Own
    <3>2. PICK r \in Runtimes : \A i \in Z : Slot(i).rt = r
      BY <1>1, <1>8, <2>2, OneRuntime
    <3>3. PICK H \in SUBSET Slots : H = PaidDomainHistory(db[r], d)
      BY DEF PaidDomainHistory, Own
    <3>4. Z \subseteq H
      BY <1>7, <3>2, <3>3 DEF PaidDomainHistory, Rows, Mine
    <3>5. Cardinality(H) <= Usd[d]
      BY <2>2, <3>1, <3>3 DEF CaseInv, CaseHolds
    <3>6. Total(Charge, Z) <= Cardinality(Z)
      BY <1>5, TotalOnes
    <3>7. /\ Cardinality(Z) <= Cardinality(H)
          /\ Cardinality(Z) \in Nat /\ Cardinality(H) \in Nat
      BY <1>5, <3>4, FS_Subset, FS_CardinalityType
    <3> QED BY <1>8, <3>5, <3>6, <3>7
  <2>3. CASE Z # {} /\ mode = "single"
    <3>1. PICK r \in Runtimes : \A i \in Z : Slot(i).rt = r
      BY <1>1, <1>8, <2>3, OneRuntime
    <3>2. PICK R \in SUBSET Slots : R = Rows(db[r])
      BY DEF Rows
    <3>3. Z \subseteq R
      BY <1>7, <3>1, <3>2 DEF Rows, Mine
    <3>4. Total(Charge, Z) <= Total(Charge, R)
      BY <1>5, <3>3, TotalMonotone
    <3>5. Total(Charge, R) <= Usd[d]
      BY <1>8, <2>3, <3>2 DEF CaseInv, CaseHolds, V2
    <3> QED BY <1>8, <3>4, <3>5
  <2>4. CASE Z # {} /\ mode = "participant"
    <3>1. PICK m \in Z : \A i \in Z : i <= m
      BY <1>1, <2>4, LastSent
    <3>2. PICK r \in Runtimes : r = Slot(m).rt
      BY <1>8
    <3>3. CaseHolds(db[r]) /\ m \in Rows(db[r])
      BY <1>7, <3>1, <3>2 DEF CaseInv, Rows, Mine
    <3>4. PICK n \in Nat : n = db[r].reservations
      <4>1. Cardinality(Slots) \in Nat
        BY <1>1, SlotType
      <4> QED BY <1>1, <4>1 DEF Stores
    <3>5. m \in 1..n /\ Total(Charge, 1..n) <= Usd[d]
      BY <1>8, <2>4, <3>3, <3>4 DEF CaseHolds, V2
    <3>6. PICK B \in SUBSET Slots : B = 1..n
      BY <1>1, <3>4, ChargeType
    <3>7. Z \subseteq B
      <4>1. Slots = 1..Len(Plan[mode]) /\ Len(Plan[mode]) \in Nat
        BY <1>1, SlotType
      <4> QED BY <3>1, <3>5, <3>6, <4>1
    <3>8. Total(Charge, Z) <= Total(Charge, B)
      BY <1>5, <3>7, TotalMonotone
    <3> QED BY <1>8, <3>5, <3>6, <3>8
  <2> QED BY <1>1, <2>1, <2>2, <2>3, <2>4, PlanAssumption
<1> QED BY <1>3, <1>4, <1>6, <1>9

\* What the provider may charge for the requests that reached it, the open one
\* at its full reservation, stays within the exposure of their case, in each of
\* the three accountings, whatever the backend reserves.
THEOREM SpendStays == Spec => []SpendWithinCase
<1>1. Init => IInv /\ CaseInv
  BY InitHolds, CaseStarts
<1>2. IInv /\ CaseInv /\ [Next]_vars => (IInv /\ CaseInv)'
  BY StepHolds, CaseStep
<1>3. IInv /\ CaseInv => SpendWithinCase
  BY CaseBoundsSpend
<1> QED BY <1>1, <1>2, <1>3, PTL DEF Spec
=============================================================================
