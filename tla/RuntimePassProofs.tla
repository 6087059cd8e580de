-------------------------- MODULE RuntimePassProofs --------------------------
(***************************************************************************)
(* What the daemon's pass guarantees for every choice of its limits, of    *)
(* the manifests it is served and of the faults it meets: first the        *)
(* delivery of a report (ReportSync), then the parents and the workspace   *)
(* applications (ControllerParents) inside the whole pass, and last how    *)
(* the registrations of a manifest are read (ManifestRules).               *)
(***************************************************************************)
EXTENDS RuntimePass, FiniteSetTheorems, TLAPS

(* The smallest of a few numbers.                                          *)
LEMMA MinOfTwo ==
    ASSUME NEW a \in Nat, NEW b \in Nat
    PROVE  Min({a, b}) \in Nat /\ Min({a, b}) <= a /\ Min({a, b}) <= b
<1>1. \E x \in {a, b} : \A y \in {a, b} : x <= y
  OBVIOUS
<1>2. QED
  BY <1>1 DEF Min

LEMMA MinOfThree ==
    ASSUME NEW a \in Nat, NEW b \in Nat, NEW c \in Nat
    PROVE  Min({a, b, c}) \in Nat /\ Min({a, b, c}) <= c
<1>1. \E x \in {a, b, c} : \A y \in {a, b, c} : x <= y
  OBVIOUS
<1>2. QED
  BY <1>1 DEF Min

\* The number of faults stays a number.
LEMMA FaultType == ASSUME faults \in Nat, Fault PROVE faults' \in Nat
  BY DEF Fault

\* A backoff delay is a number that does not overrun the window.
LEMMA DelayBound ==
    ASSUME TypeOK
    PROVE  Delay \in Nat /\ (Delay = 0 \/ elapsed + Delay <= MaxWindow)
<1> DEFINE k == IF attempt < 1 THEN 0 ELSE attempt - 1
           remaining == IF elapsed < MaxWindow THEN MaxWindow - elapsed ELSE 0
<1>1. k \in 0..MaxAttempts /\ remaining \in Nat
  BY LimitsAssumption DEF TypeOK
<1>2. 2 ^ k \in Nat
  BY <1>1, DelayAssumption
<1>3. Min({2 ^ k, MaxDelay, remaining}) \in Nat /\ Min({2 ^ k, MaxDelay, remaining}) <= remaining
  <2> HIDE DEF k, remaining
  <2> QED BY <1>1, <1>2, MinOfThree, LimitsAssumption
<1>4. Delay = Min({2 ^ k, MaxDelay, remaining})
  BY DEF Delay
<1>5. QED
  <2>1. remaining = 0 \/ elapsed + remaining = MaxWindow
    BY LimitsAssumption DEF TypeOK
  <2> HIDE DEF k, remaining
  <2>2. elapsed \in Nat
    BY DEF TypeOK
  <2>3. QED BY <1>1, <1>3, <1>4, <2>1, <2>2, LimitsAssumption

-----------------------------------------------------------------------------
\* The revision a Send remembers, like that of a block, is one the control plane
\* has reached.
ObservedNotAhead == observed <= desired

IInv == TypeOK /\ BlockNotAhead /\ ObservedNotAhead

LEMMA InitInv == Init => IInv
  BY LimitsAssumption DEF Init, IInv, TypeOK, BlockNotAhead, ObservedNotAhead, Codes

LEMMA TypeStep == IInv /\ [Next]_vars => TypeOK'
<1> SUFFICES ASSUME TypeOK, [Next]_vars PROVE TypeOK'
  BY DEF IInv
<1> USE LimitsAssumption, BoundsAssumption
<1>1. CASE Send
  <2>1. faults' \in Nat
    <3>1. faults' = faults \/ Fault BY <1>1 DEF Send
    <3>2. QED BY <3>1, FaultType DEF TypeOK
  <2>2. stored' \in [seq : Nat, code : Codes, rev : Nat, gen : Nat]
    BY <1>1 DEF Send, StillBlocked, TypeOK, Codes
  <2>3. UNCHANGED locals \/ (Started /\ gen' \in Nat)
    BY <1>1 DEF Send, StillBlocked, TypeOK
  <2>4. seq' \in Nat /\ attempt' \in 0..MaxAttempts /\ rebuilds' \in 0..MaxRebuilds
        /\ code' \in {"none", "conflict"} /\ observed' \in Nat /\ gen' \in Nat
        /\ elapsed' \in Nat /\ deadline' \in Nat
    <3>1. deadline' \in Nat
      <4>1. CASE UNCHANGED locals
        BY <4>1 DEF TypeOK, locals
      <4>2. CASE Started
        <5>1. deadline' \in Deadlines \/ deadline' = 0
          BY <4>2 DEF Started
        <5>2. \A d \in Deadlines : d \in Nat
          BY LimitsAssumption
        <5>3. CASE deadline' = 0
          BY <5>3
        <5>4. CASE deadline' \in Deadlines
          BY <5>2, <5>4, Zenon
        <5> QED
          BY <5>1, <5>3, <5>4, Zenon
      <4> QED
        BY <2>3, <4>1, <4>2
    <3>2. UNCHANGED locals \/ (seq' = stored.seq /\ attempt' = 0 /\ rebuilds' = 0 /\ code' = "none"
                               /\ observed' = 0 /\ elapsed' = 0 /\ gen' \in Nat)
      BY <2>3 DEF Started
    <3> QED
      BY <3>1, <3>2 DEF TypeOK, locals
  <2>5. pc' = "loop" \/ pc' = "idle"
    BY <1>1 DEF Send, Started
  <2>6. QED BY <1>1, <2>1, <2>2, <2>4, <2>5 DEF Send, TypeOK, cpVars
<1>2. CASE Post
  <2>1. PICK d \in PostTimes : elapsed' = Min({elapsed + d, deadline})
    BY <1>2 DEF Post
  <2>2. elapsed + d \in Nat /\ deadline \in Nat
    BY DEF TypeOK
  <2>3. elapsed' \in Nat
    BY <2>1, <2>2, MinOfTwo
  <2> QED
    BY <1>2, <2>3 DEF Post, MayPost, TypeOK, Codes, cpVars
<1>3. CASE Ack
  <2>1. faults' \in Nat
    <3>1. faults' = faults \/ Fault BY <1>3 DEF Ack
    <3>2. QED BY <3>1, FaultType DEF TypeOK
  <2>2. QED BY <1>3, <2>1 DEF Ack, Forgotten, TypeOK, Codes, cpVars
<1>4. CASE Conflict
  <2>1. faults' \in Nat
    <3>1. faults' = faults \/ Fault BY <1>4 DEF Conflict
    <3>2. QED BY <3>1, FaultType DEF TypeOK
  <2>2. rebuilds' \in 0..MaxRebuilds
    <3>1. rebuilds \in 0..MaxRebuilds /\ rebuilds + 1 \in Nat BY DEF TypeOK
    <3>2. Min({rebuilds + 1, MaxRebuilds}) \in 0..MaxRebuilds BY <3>1, MinOfTwo
    <3>3. rebuilds' = rebuilds \/ rebuilds' = Min({rebuilds + 1, MaxRebuilds})
      BY <1>4 DEF Conflict
    <3>4. QED BY <3>1, <3>2, <3>3
  <2>3. observed' \in Nat /\ gen' \in Nat /\ attempt' \in 0..MaxAttempts
    BY <1>4 DEF Conflict, TypeOK
  <2>4. QED BY <1>4, <2>1, <2>2, <2>3 DEF Conflict, TypeOK, Codes, cpVars
<1>5. CASE Backoff
  BY <1>5, DelayBound DEF Backoff, Forgotten, TypeOK, Codes, cpVars
<1>6. CASE Exhausted
  <2>1. faults' \in Nat
    <3>1. faults' = faults \/ Fault BY <1>6 DEF Exhausted
    <3>2. QED BY <3>1, FaultType DEF TypeOK
  <2>2. QED BY <1>6, <2>1 DEF Exhausted, Forgotten, TypeOK, Codes, cpVars
<1>7. CASE Restart
  BY <1>7 DEF Restart, TypeOK, Codes, cpVars, locals
<1>8. CASE Crash
  <2>1. faults' \in Nat BY <1>8, FaultType DEF Crash, TypeOK
  <2>2. QED BY <1>8, <2>1 DEF Crash, Forgotten, TypeOK, Codes, cpVars
<1>9. CASE Advance \/ Resync
  BY <1>9 DEF Advance, Resync, TypeOK, Codes, locals
<1>10. CASE UNCHANGED vars
  BY <1>10 DEF TypeOK, Codes, vars, cpVars, locals
<1>11. QED
  BY <1>1, <1>2, <1>3, <1>4, <1>5, <1>6, <1>7, <1>8, <1>9, <1>10 DEF Next, Daemon

LEMMA BlockStep == IInv /\ [Next]_vars => (BlockNotAhead /\ ObservedNotAhead)'
<1> SUFFICES ASSUME TypeOK, BlockNotAhead, ObservedNotAhead, [Next]_vars
             PROVE  (BlockNotAhead /\ ObservedNotAhead)'
  BY DEF IInv
<1> USE DEF TypeOK, BlockNotAhead, ObservedNotAhead
<1>1. CASE Send
  BY <1>1 DEF Send, StillBlocked, Started, cpVars, locals
<1>2. CASE Post
  BY <1>2 DEF Post, cpVars
<1>3. CASE Ack
  BY <1>3 DEF Ack, Forgotten, cpVars
<1>4. CASE Conflict
  BY <1>4 DEF Conflict, cpVars
<1>5. CASE Backoff
  BY <1>5 DEF Backoff, Forgotten, cpVars
<1>6. CASE Exhausted
  BY <1>6 DEF Exhausted, Forgotten, cpVars
<1>7. CASE Restart \/ Crash
  BY <1>7 DEF Restart, Crash, Forgotten, cpVars, locals
<1>8. CASE Advance \/ Resync
  BY <1>8 DEF Advance, Resync, locals
<1>9. CASE UNCHANGED vars
  BY <1>9 DEF vars, cpVars, locals
<1>10. QED
  BY <1>1, <1>2, <1>3, <1>4, <1>5, <1>6, <1>7, <1>8, <1>9 DEF Next, Daemon

THEOREM Invariance == Spec => []IInv
<1>1. IInv /\ [Next]_vars => IInv'
  BY TypeStep, BlockStep DEF IInv
<1>2. QED
  BY <1>1, InitInv, PTL DEF Spec

\* Type correctness of Send and its persisted state.
THEOREM TypeCorrect == Spec => []TypeOK
  BY Invariance, PTL DEF IInv

\* Whatever the limits, a persisted block (report_sync.go:262-272) names a desired
\* revision the control plane has reached: the next change of it lifts the block.
THEOREM BlockIsLiftable == Spec => []BlockNotAhead
  BY Invariance, PTL DEF IInv

-----------------------------------------------------------------------------
(* A context that ends before the delays of all attempts are slept. The      *)
(* daemon's does: twelve attempts sleep 255 units (63.75 s), its context has  *)
(* 180 (45 s), the window 1200 (5 min).                                       *)

\* Slept bounds from below what the backoffs of so many attempts sleep.
SleptBelow(Slept) ==
    /\ Slept \in [0..MaxAttempts -> Nat] /\ Slept[0] = 0
    /\ \A k \in 1..MaxAttempts : Slept[k] <= Slept[k - 1] + 2 ^ (k - 1)
    /\ \A k \in 1..MaxAttempts : Slept[k] <= Slept[k - 1] + MaxDelay

\* Every context ends within them, and before the window.
ContextIsShort(Slept) == \A d \in Deadlines : 0 < d /\ d <= Slept[MaxAttempts] /\ d < MaxWindow

\* A Send at its n-th attempt has slept n - 1 delays, and its context is alive when
\* it starts the next one.
InTime(Slept) ==
    /\ stored.code = "none"
    /\ pc \in {"loop", "conflict", "backoff"} => deadline \in Deadlines /\ elapsed <= deadline
    /\ pc = "loop" => elapsed < deadline /\ Slept[attempt] <= elapsed
    /\ pc \in {"conflict", "backoff"} => attempt = 0 \/ Slept[attempt - 1] <= elapsed

\* A sleep that the context survives is one whole delay.
LEMMA WholeDelay ==
    ASSUME NEW Slept, SleptBelow(Slept), ContextIsShort(Slept), TypeOK, InTime(Slept), pc = "backoff", Awakes
    PROVE  Slept[attempt] <= elapsed + Delay /\ elapsed + Delay < deadline
<1> DEFINE k == IF attempt < 1 THEN 0 ELSE attempt - 1
           remaining == IF elapsed < MaxWindow THEN MaxWindow - elapsed ELSE 0
<1>1. /\ elapsed \in Nat /\ deadline \in Nat /\ attempt \in 0..MaxAttempts
      /\ elapsed <= deadline /\ deadline < MaxWindow /\ MaxWindow \in Nat /\ MaxDelay \in Nat
  BY LimitsAssumption DEF TypeOK, InTime, ContextIsShort
<1>2. elapsed + Delay < deadline
  BY <1>1 DEF Awakes
<1>3. k \in 0..MaxAttempts /\ remaining \in Nat /\ elapsed + remaining = MaxWindow
  <2>1. elapsed < MaxWindow
    BY <1>1
  <2>2. k \in 0..MaxAttempts
    BY <1>1, LimitsAssumption
  <2>3. remaining = MaxWindow - elapsed
    BY <2>1
  <2> HIDE DEF k, remaining
  <2> QED
    BY <1>1, <2>1, <2>2, <2>3
<1>4. 2 ^ k \in Nat
  BY <1>3, DelayAssumption
<1>5. Delay = 2 ^ k \/ Delay = MaxDelay \/ Delay = remaining
  <2>1. Delay = Min({2 ^ k, MaxDelay, remaining})
    BY DEF Delay
  <2> HIDE DEF k, remaining
  <2>2. \E x \in {2 ^ k, MaxDelay, remaining} : \A y \in {2 ^ k, MaxDelay, remaining} : x <= y
    BY <1>1, <1>3, <1>4
  <2> QED
    BY <2>1, <2>2 DEF Min
<1>6. Delay = 2 ^ k \/ Delay = MaxDelay
  <2> HIDE DEF k, remaining
  <2> QED
    BY <1>1, <1>2, <1>3, <1>5
<1>7. CASE attempt = 0
  <2>1. Slept[attempt] = 0 /\ Delay \in Nat
    BY <1>1, <1>4, <1>6, <1>7 DEF SleptBelow
  <2> QED
    BY <1>1, <1>2, <2>1
<1>8. CASE attempt # 0
  <2>1. k = attempt - 1 /\ attempt \in 1..MaxAttempts
    BY <1>1, <1>8
  <2>2. Slept[attempt] \in Nat /\ Slept[attempt - 1] \in Nat
    BY <2>1, LimitsAssumption DEF SleptBelow
  <2>3. Slept[attempt - 1] <= elapsed
    BY <1>8 DEF InTime
  <2>4. Slept[attempt] <= Slept[attempt - 1] + 2 ^ k /\ Slept[attempt] <= Slept[attempt - 1] + MaxDelay
    BY <2>1 DEF SleptBelow
  <2> HIDE DEF k
  <2>5. Slept[attempt] <= Slept[attempt - 1] + Delay
    BY <1>6, <2>4
  <2>6. Delay \in Nat
    BY <1>1, <1>4, <1>6
  <2> QED
    BY <1>1, <1>2, <2>2, <2>3, <2>5, <2>6
<1> QED
  BY <1>7, <1>8

LEMMA InTimeStep ==
    ASSUME NEW Slept, SleptBelow(Slept), ContextIsShort(Slept), TypeOK, InTime(Slept), [Next]_vars
    PROVE  InTime(Slept)'
<1>1. /\ elapsed \in Nat /\ deadline \in Nat /\ attempt \in 0..MaxAttempts /\ MaxAttempts \in Nat
  BY LimitsAssumption DEF TypeOK
<1>2. CASE Send
  <2>1. stored'.code = "none" /\ (UNCHANGED <<pc, locals>> \/ Started)
    BY <1>2 DEF Send, InTime
  <2>2. CASE Started
    <3>1. elapsed' = 0 /\ attempt' = 0 /\ pc' \in {"loop", "idle"} /\ (pc' = "loop" => deadline' \in Deadlines)
      BY <2>2 DEF Started
    <3>2. pc' = "loop" => 0 < deadline' /\ deadline' \in Nat
      BY <3>1, LimitsAssumption DEF ContextIsShort
    <3>3. Slept[0] = 0
      BY DEF SleptBelow
    <3> QED
      BY <2>1, <3>1, <3>2, <3>3 DEF InTime
  <2>3. CASE UNCHANGED <<pc, locals>>
    BY <2>1, <2>3 DEF InTime, locals
  <2> QED
    BY <2>1, <2>2, <2>3
<1>3. CASE Post
  <2>1. PICK d \in PostTimes : elapsed' = Min({elapsed + d, deadline})
    BY <1>3 DEF Post
  <2>2. elapsed + d \in Nat /\ elapsed <= elapsed + d
    BY <1>1, LimitsAssumption
  <2>3. elapsed' \in {elapsed + d, deadline} /\ elapsed' <= deadline
    <3>1. \E x \in {elapsed + d, deadline} : \A y \in {elapsed + d, deadline} : x <= y
      BY <1>1, <2>2
    <3> QED
      BY <2>1, <3>1 DEF Min
  <2>4. elapsed <= elapsed' /\ elapsed' \in Nat
    BY <1>1, <1>3, <2>2, <2>3 DEF Post, InTime
  <2>5. attempt' = attempt + 1 /\ attempt' - 1 = attempt /\ Slept[attempt] <= elapsed
    BY <1>1, <1>3 DEF Post, InTime
  <2>6. Slept[attempt] \in Nat
    BY <1>1 DEF SleptBelow
  <2>7. Slept[attempt' - 1] <= elapsed'
    BY <1>1, <2>4, <2>5, <2>6
  <2> QED
    BY <1>3, <2>3, <2>7 DEF Post, InTime
<1>4. CASE Conflict
  BY <1>4 DEF Conflict, InTime
<1>5. CASE Backoff
  <2>1. CASE Awakes /\ pc' = "loop"
    <3>1. elapsed' = elapsed + Delay /\ attempt' = attempt /\ deadline' = deadline /\ stored' = stored
      BY <1>5, <2>1 DEF Backoff
    <3>2. Slept[attempt] <= elapsed + Delay /\ elapsed + Delay < deadline
      BY <1>5, <2>1, WholeDelay DEF Backoff
    <3>3. Delay \in Nat
      BY DelayBound
    <3>4. deadline' \in Deadlines /\ elapsed' < deadline' /\ elapsed' <= deadline'
      BY <1>1, <1>5, <3>1, <3>2, <3>3 DEF InTime, Backoff
    <3> QED
      BY <2>1, <3>1, <3>2, <3>4 DEF InTime
  <2>2. CASE pc' = "idle"
    BY <1>5, <2>2 DEF Backoff, InTime
  <2> QED
    BY <1>5, <2>1, <2>2 DEF Backoff
<1>6. CASE Exhausted
  <2>1. elapsed < deadline /\ deadline <= Slept[MaxAttempts] /\ deadline < MaxWindow /\ Slept[attempt] <= elapsed
    BY <1>6 DEF Exhausted, InTime, ContextIsShort
  <2>2. attempt = MaxAttempts
    BY <1>1, <1>6, <2>1, LimitsAssumption DEF Exhausted, MayPost
  <2>3. Slept[MaxAttempts] \in Nat
    BY <1>1 DEF SleptBelow
  <2> QED
    BY <1>1, <2>1, <2>2, <2>3
<1>7. CASE Ack \/ Crash
  BY <1>7 DEF Ack, Crash, InTime
<1>8. CASE Restart
  BY <1>8 DEF Restart, InTime
<1>9. CASE Advance \/ Resync
  BY <1>9 DEF Advance, Resync, InTime, locals
<1>10. CASE UNCHANGED vars
  BY <1>10 DEF vars, locals, InTime
<1> QED
  BY <1>2, <1>3, <1>4, <1>5, <1>6, <1>7, <1>8, <1>9, <1>10 DEF Next, Daemon

\* A Send whose context ends within the delays of its attempts never records a
\* block, whatever the answers and however long a POST takes: it returns the error
\* of its context instead. So it is in the daemon (main.go:40, report_sync.go:64-70).
THEOREM ShortContextNeverBlocks ==
    ASSUME NEW CONSTANT Slept, SleptBelow(Slept), ContextIsShort(Slept)
    PROVE  Spec => [](stored.code = "none")
<1>1. Init => InTime(Slept)
  BY DEF Init, InTime
<1>2. IInv /\ InTime(Slept) /\ [Next]_vars => InTime(Slept)'
  BY InTimeStep DEF IInv
<1>3. InTime(Slept) => stored.code = "none"
  BY DEF InTime
<1> QED
  BY <1>1, <1>2, <1>3, Invariance, PTL DEF Spec

-----------------------------------------------------------------------------
(* The parents: what one call leaves behind.                               *)

\* A session is made only by a creation that was recorded as sent, and a row is
\* acknowledged only with a report.
ParentOK(r, n) ==
    /\ n.made <= 1
    /\ r = None \/ ~r.dispatched => n.made = 0
    /\ r # None /\ r.accepted => r.report # None

NextApp(a) == IF a = None THEN NewApp ELSE a
Ends(a) == [row : ParentRows \cup {None}, native : ParentNatives, app : {a, NextApp(a)},
            end : {"ok", "failed", "blocked"}, odd : BOOLEAN]
GoodEnd(a, res) == res \in Ends(a) /\ ParentOK(res.row, res.native)

LEMMA ResultGood ==
    ASSUME NEW a, NEW b \in {a, NextApp(a)}, NEW r \in ParentRows \cup {None}, NEW n \in ParentNatives,
           ParentOK(r, n), NEW end \in {"ok", "failed", "blocked"}, NEW odd \in BOOLEAN
    PROVE  GoodEnd(a, Result(r, n, b, end, odd))
BY DEF GoodEnd, Ends, Result

LEMMA SessionType == ASSUME NEW r \in ParentRows PROVE Session(r) \in Nat
<1>1. r.report = None \/ r.report \in ParentReports
  BY DEF ParentRows
<1> QED
  BY <1>1 DEF Session, ParentReports

LEMMA ReportType ==
    ASSUME NEW r \in ParentRows, NEW st \in {"pending", "ready", "failed"} \cup ParentWants, NEW k \in Nat
    PROVE  ReportOf(r, st, k) \in ParentReports
BY DEF ReportOf, ParentReports, ParentRows

\* Recording a report keeps what the row says of the creation.
LEMMA PutReport ==
    ASSUME NEW r \in ParentRows, NEW rep \in ParentReports, NEW n, ParentOK(r, n)
    PROVE  /\ PutControllerParentReport(r, rep) \in ParentRows
           /\ ParentOK(PutControllerParentReport(r, rep), n)
<1> DEFINE p == PutControllerParentReport(r, rep)
<1>1. p \in ParentRows /\ p.dispatched = r.dispatched /\ p.report = rep
  BY DEF PutControllerParentReport, ParentRows
<1>2. rep # None /\ r # None /\ p # None
  BY <1>1, NoneAssumption
<1> HIDE DEF p
<1>3. ParentOK(p, n)
  BY <1>1, <1>2 DEF ParentOK
<1> QED
  BY <1>1, <1>3 DEF p

LEMMA FailParent ==
    ASSUME NEW r \in ParentRows, NEW n, ParentOK(r, n)
    PROVE  failControllerParent(r) \in ParentRows /\ ParentOK(failControllerParent(r), n)
<1>1. ReportOf(r, "failed", Session(r)) \in ParentReports
  BY SessionType, ReportType
<1> QED
  BY <1>1, PutReport DEF failControllerParent

LEMMA Down ==
    ASSUME NEW n \in ParentNatives, NEW u \in BOOLEAN
    PROVE  [n EXCEPT !.up = u] \in ParentNatives /\ [n EXCEPT !.up = u].made = n.made
BY DEF ParentNatives

LEMMA SameMade ==
    ASSUME NEW r, NEW n, NEW k, ParentOK(r, n), k.made = n.made
    PROVE  ParentOK(r, k)
BY DEF ParentOK

LEMMA StopGood ==
    ASSUME NEW r \in ParentRows, NEW n \in ParentNatives, NEW a, ParentOK(r, n), r.want \in ParentWants
    PROVE  \A res \in StopParent(r, n, a) : GoodEnd(a, res)
<1> DEFINE down == [n EXCEPT !.up = FALSE]
           rep == PutControllerParentReport(r, ReportOf(r, r.want, Session(r)))
<1>1. down \in ParentNatives /\ ParentOK(r, down)
  BY Down, SameMade
<1>2. ReportOf(r, r.want, Session(r)) \in ParentReports
  BY SessionType, ReportType
<1>3. rep \in ParentRows /\ ParentOK(rep, n) /\ ParentOK(rep, down)
  BY <1>1, <1>2, PutReport
<1>4. failControllerParent(r) \in ParentRows /\ ParentOK(failControllerParent(r), n)
      /\ ParentOK(failControllerParent(r), down)
  BY <1>1, FailParent
<1>5. StopParent(r, n, a) \subseteq
        {Result(rep, n, a, "ok", FALSE), Result(rep, down, a, "ok", FALSE)}
        \cup {Result(failControllerParent(r), k, a, "failed", TRUE) : k \in {n, down}}
  BY DEF StopParent
<1> HIDE DEF down, rep
<1>6. GoodEnd(a, Result(rep, n, a, "ok", FALSE)) /\ GoodEnd(a, Result(rep, down, a, "ok", FALSE))
  BY <1>1, <1>3, ResultGood
<1>7. \A k \in {n, down} : GoodEnd(a, Result(failControllerParent(r), k, a, "failed", TRUE))
  BY <1>1, <1>4, ResultGood
<1> QED
  BY <1>5, <1>6, <1>7

LEMMA FinalizeGood ==
    ASSUME NEW r \in ParentRows, NEW n \in ParentNatives, NEW a, NEW b \in {a, NextApp(a)}, ParentOK(r, n)
    PROVE  \A res \in finalizeControllerParent(r, n, b) : GoodEnd(a, res)
<1> DEFINE rep == PutControllerParentReport(r, ReportOf(r, "ready", n.session))
<1>1. ReportOf(r, "ready", n.session) \in ParentReports
  BY ReportType DEF ParentNatives
<1>2. rep \in ParentRows /\ ParentOK(rep, n)
  BY <1>1, PutReport
<1>3. failControllerParent(r) \in ParentRows /\ ParentOK(failControllerParent(r), n)
  BY FailParent
<1>4. finalizeControllerParent(r, n, b) \subseteq
        {Result(rep, n, b, "ok", FALSE)}
        \cup {Result(failControllerParent(r), n, b, "failed", odd) : odd \in BOOLEAN}
  BY DEF finalizeControllerParent
<1> HIDE DEF rep
<1>5. GoodEnd(a, Result(rep, n, b, "ok", FALSE))
  BY <1>2, ResultGood
<1>6. \A odd \in BOOLEAN : GoodEnd(a, Result(failControllerParent(r), n, b, "failed", odd))
  BY <1>3, ResultGood
<1> QED
  BY <1>4, <1>5, <1>6

\* A launch makes a session only if none was sent before.
LEMMA StartGood ==
    ASSUME NEW r \in ParentRows, NEW n \in ParentNatives, NEW a, NEW b \in {a, NextApp(a)}, ParentOK(r, n)
    PROVE  \A res \in startControllerParent(r, n, b) : GoodEnd(a, res)
<1> DEFINE mode == IF r.dispatched THEN "lookup_only" ELSE "create_initial"
           sent == [r EXCEPT !.dispatched = TRUE]
           up == Supervise(n, mode)
<1>1. sent \in ParentRows /\ sent.dispatched /\ sent.accepted = r.accepted /\ sent.report = r.report
  BY DEF ParentRows
<1>2. sent # None /\ r # None
  BY <1>1, NoneAssumption
<1>3. up \in ParentNatives /\ (up.made = n.made \/ (~r.dispatched /\ up.made = n.made + 1))
  <2>1. CASE r.dispatched
    <3>1. up = [n EXCEPT !.up = n.session # 0]
      BY <2>1 DEF Supervise
    <3> QED
      BY <3>1, Down
  <2>2. CASE ~r.dispatched
    <3>1. up = [session |-> n.made + 1, up |-> TRUE, made |-> n.made + 1]
      BY <2>2 DEF Supervise
    <3>2. n.made \in Nat
      BY DEF ParentNatives
    <3> HIDE DEF up
    <3> QED
      BY <2>2, <3>1, <3>2 DEF ParentNatives
  <2> QED
    BY <2>1, <2>2
<1>4. n.made \in Nat
  BY DEF ParentNatives
<1>5. startControllerParent(r, n, b) =
        finalizeControllerParent(sent, up, b)
        \cup {Result(failControllerParent(sent), k, b, "failed", TRUE) : k \in {n, up}}
        \cup {Result(sent, k, b, "failed", TRUE) : k \in {n, up}}
  BY DEF startControllerParent
<1> HIDE DEF mode, sent, up
<1>6. ParentOK(sent, n) /\ ParentOK(sent, up)
  BY <1>1, <1>2, <1>3, <1>4 DEF ParentOK
<1>7. \A left \in {failControllerParent(sent), sent}, k \in {n, up} : left \in ParentRows /\ ParentOK(left, k)
  BY <1>1, <1>6, FailParent
<1>8. \A left \in {failControllerParent(sent), sent}, k \in {n, up} :
         GoodEnd(a, Result(left, k, b, "failed", TRUE))
  BY <1>3, <1>7, ResultGood
<1>9. \A res \in finalizeControllerParent(sent, up, b) : GoodEnd(a, res)
  BY <1>1, <1>3, <1>6, FinalizeGood
<1> QED
  BY <1>5, <1>8, <1>9

LEMMA OddGood == ASSUME NEW a, NEW res, GoodEnd(a, res) PROVE GoodEnd(a, [res EXCEPT !.odd = TRUE])
<1>1. res \in Ends(a)
  BY DEF GoodEnd
<1>2. [res EXCEPT !.odd = TRUE] \in Ends(a) /\ [res EXCEPT !.odd = TRUE].row = res.row
      /\ [res EXCEPT !.odd = TRUE].native = res.native
  BY <1>1 DEF Ends
<1> QED
  BY <1>2 DEF GoodEnd

LEMMA UpgradeGood ==
    ASSUME NEW r \in ParentRows, NEW n \in ParentNatives, NEW a, NEW b \in {a, NextApp(a)}, ParentOK(r, n)
    PROVE  \A res \in upgradeControllerParentFromCurrent(r, n, b) : GoodEnd(a, res)
<1>1. \A res \in finalizeControllerParent(r, n, b) : GoodEnd(a, res)
  BY FinalizeGood
<1>2. \A res \in startControllerParent(r, n, b) : GoodEnd(a, res) /\ GoodEnd(a, [res EXCEPT !.odd = TRUE])
  BY StartGood, OddGood
<1> QED
  BY <1>1, <1>2 DEF upgradeControllerParentFromCurrent

LEMMA UnreadGood ==
    ASSUME NEW r \in ParentRows, NEW n \in ParentNatives, NEW a, NEW b \in {a, NextApp(a)}, ParentOK(r, n)
    PROVE  \A res \in Unread(r, n, b) : GoodEnd(a, res)
<1>1. failControllerParent(r) \in ParentRows /\ ParentOK(failControllerParent(r), n)
  BY FailParent
<1>2. GoodEnd(a, Result(r, n, b, "blocked", TRUE))
  BY ResultGood
<1>3. GoodEnd(a, Result(failControllerParent(r), n, b, "failed", TRUE))
  BY <1>1, ResultGood
<1> QED
  BY <1>2, <1>3 DEF Unread

LEMMA ActiveGood ==
    ASSUME NEW r \in ParentRows, NEW n \in ParentNatives, NEW a, NEW svc, NEW d, ParentOK(r, n)
    PROVE  \A res \in ActiveParent(r, n, a, svc, d) : GoodEnd(a, res)
<1> DEFINE put == IF a = None THEN NewApp ELSE a
<1>1. put \in {a, NextApp(a)}
  BY DEF NextApp
<1>2. GoodEnd(a, Result(failControllerParent(r), n, a, "failed", FALSE))
  BY FailParent, ResultGood
<1>3. ActiveParent(r, n, a, svc, d) \subseteq
        Unread(r, n, a) \cup {Result(failControllerParent(r), n, a, "failed", FALSE)}
        \cup Unread(r, n, put) \cup upgradeControllerParentFromCurrent(r, n, put)
        \cup startControllerParent(r, n, put)
  BY DEF ActiveParent, stageControllerApplicationProfiles
<1> HIDE DEF put
<1> QED
  BY <1>1, <1>2, <1>3, UnreadGood, UpgradeGood, StartGood

LEMMA PutIntent ==
    ASSUME NEW r \in ParentRows \cup {None}, NEW n, NEW intent, ParentOK(r, n),
           intent.act \in Nat, intent.want \in ParentWants,
           PutControllerParentIntent(r, intent) # None
    PROVE  /\ PutControllerParentIntent(r, intent) \in ParentRows
           /\ PutControllerParentIntent(r, intent).want = intent.want
           /\ ParentOK(PutControllerParentIntent(r, intent), n)
<1> DEFINE p == PutControllerParentIntent(r, intent)
           fresh == [act |-> intent.act, want |-> intent.want, dispatched |-> FALSE,
                     report |-> None, accepted |-> FALSE]
           raised == [r EXCEPT !.act = intent.act, !.want = intent.want, !.accepted = FALSE]
<1>1. CASE r = None
  <2>1. p = fresh
    BY <1>1 DEF PutControllerParentIntent
  <2>2. fresh \in ParentRows
    BY DEF ParentRows
  <2> QED
    BY <1>1, <2>1, <2>2 DEF ParentOK
<1>2. CASE r # None /\ r.act = intent.act /\ r.want = intent.want
  <2>1. p = r
    BY <1>2 DEF PutControllerParentIntent, ParentRows
  <2> QED
    BY <1>2, <2>1
<1>3. CASE r # None /\ ~(r.act = intent.act /\ r.want = intent.want)
  <2>1. r \in ParentRows /\ intent.act > r.act /\ p = raised
    BY <1>3 DEF PutControllerParentIntent
  <2>2. raised \in ParentRows /\ raised.want = intent.want /\ raised.dispatched = r.dispatched
        /\ raised.accepted = FALSE
    BY <2>1 DEF ParentRows
  <2>3. raised # None
    BY <2>2, NoneAssumption
  <2> HIDE DEF p, raised
  <2>4. ParentOK(raised, n)
    BY <1>3, <2>2, <2>3 DEF ParentOK
  <2> QED
    BY <2>1, <2>2, <2>4 DEF p
<1> QED
  BY <1>1, <1>2, <1>3

\* Whatever a reconciliation of a parent does, fails to do or loses the answer of,
\* a session has been made at most once and only after it was recorded as sent.
LEMMA ReconcileGood ==
    ASSUME NEW r \in ParentRows \cup {None}, NEW n \in ParentNatives, NEW a, NEW intent, NEW d, ParentOK(r, n),
           intent.act \in Nat, intent.want \in ParentWants
    PROVE  \A res \in reconcileControllerParent(r, n, a, intent, d) : GoodEnd(a, res)
<1> DEFINE put == PutControllerParentIntent(r, intent)
<1>1. GoodEnd(a, Result(r, n, a, "failed", FALSE))
  BY ResultGood
<1>2. put # None => put \in ParentRows /\ put.want \in ParentWants /\ ParentOK(put, n)
  BY PutIntent
<1>3. reconcileControllerParent(r, n, a, intent, d) \subseteq
        IF put = None THEN {Result(r, n, a, "failed", FALSE)}
        ELSE StopParent(put, n, a) \cup ActiveParent(put, n, a, intent.svc, d)
  BY DEF reconcileControllerParent
<1> HIDE DEF put
<1> QED
  BY <1>1, <1>2, <1>3, StopGood, ActiveGood

-----------------------------------------------------------------------------
(* The applications: one envelope is pinned, and only that one is sent.    *)

AppOK(a, sent) ==
    /\ a = None => sent = {}
    /\ a # None => sent \subseteq {a.envelope} \ {None} /\ (a.applied => sent = {a.envelope})

LEMMA NewAppOK == NewApp \in Applications /\ AppOK(NewApp, {})
BY DEF NewApp, Applications, AppOK

Submitted == [app : Applications \cup {None}, sent : SUBSET Envelopes, end : {"ok", "failed"}, odd : BOOLEAN]

LEMMA SubmitGood ==
    ASSUME NEW a \in Applications, NEW sent \in SUBSET Envelopes, AppOK(a, sent), ~a.applied,
           NEW env \in Envelopes, a.envelope = None \/ a.envelope = env
    PROVE  \A c \in SubmitApplication(a, env) : c \in Submitted /\ AppOK(c.app, sent \cup c.sent)
<1> DEFINE pinned == [a EXCEPT !.envelope = env]
           done == [pinned EXCEPT !.applied = TRUE]
<1>1. pinned \in Applications /\ pinned.envelope = env /\ pinned.applied = FALSE
  BY DEF Applications
<1>2. done \in Applications /\ done.envelope = env /\ done.applied = TRUE
  BY <1>1 DEF Applications
<1>3. a # None /\ pinned # None /\ done # None /\ env # None
  BY <1>1, <1>2, NoneAssumption
<1>4. sent \subseteq {env}
  BY <1>3 DEF AppOK
<1>5. SubmitApplication(a, env) =
        {[app |-> a, sent |-> {}, end |-> "failed", odd |-> TRUE],
         [app |-> pinned, sent |-> {}, end |-> "failed", odd |-> TRUE],
         [app |-> pinned, sent |-> {env}, end |-> "failed", odd |-> TRUE],
         [app |-> done, sent |-> {env}, end |-> "ok", odd |-> FALSE]}
  BY DEF SubmitApplication
<1> HIDE DEF pinned, done
<1>6. AppOK(a, sent \cup {}) /\ AppOK(pinned, sent \cup {}) /\ AppOK(pinned, sent \cup {env})
      /\ AppOK(done, sent \cup {env})
  BY <1>1, <1>2, <1>3, <1>4 DEF AppOK
<1>7. \A b \in {a, pinned, done}, t \in {{}, {env}}, x \in {"ok", "failed"}, odd \in BOOLEAN :
         [app |-> b, sent |-> t, end |-> x, odd |-> odd] \in Submitted
  BY <1>1, <1>2 DEF Submitted
<1>8. ASSUME NEW b \in {a, pinned, done}, NEW t \in {{}, {env}}, NEW x \in {"ok", "failed"},
             NEW odd \in BOOLEAN, AppOK(b, sent \cup t),
             NEW c, c = [app |-> b, sent |-> t, end |-> x, odd |-> odd]
      PROVE  c \in Submitted /\ AppOK(c.app, sent \cup c.sent)
  BY <1>7, <1>8
<1> QED
  BY <1>5, <1>6, <1>8

LEMMA CompleteGood ==
    ASSUME NEW r \in ParentRows \cup {None}, NEW n, NEW a \in Applications \cup {None}, NEW intent, NEW d,
           NEW reported \in SUBSET ParentReports, NEW applied, NEW i \in Nat,
           NEW sent \in SUBSET Envelopes, AppOK(a, sent)
    PROVE  \A c \in CompleteWorkspaceApplication(r, n, a, intent, d, reported, applied,
                                                 [id |-> i, report |-> r.report]) :
              c \in Submitted /\ AppOK(c.app, sent \cup c.sent)
<1> DEFINE fresh == [id |-> i, report |-> r.report]
           kept(x) == [app |-> a, sent |-> {}, end |-> x, odd |-> FALSE]
           env == IF a.envelope = None THEN fresh ELSE a.envelope
           all == CompleteWorkspaceApplication(r, n, a, intent, d, reported, applied, fresh)
<1>1. \A x \in {"ok", "failed"} : kept(x) \in Submitted /\ AppOK(kept(x).app, sent \cup kept(x).sent)
  BY DEF Submitted, AppOK
<1>3. CASE a = None \/ a.applied \/ ~(/\ applicationRevisionCurrent(intent.svc, d, a)
                                      /\ applied = intent.svc
                                      /\ Attestable(r, n, intent, reported)
                                      /\ env.report = r.report)
  <2>1. all \subseteq {kept("ok"), kept("failed")}
    BY <1>3 DEF CompleteWorkspaceApplication
  <2> QED
    BY <1>1, <2>1
<1>4. CASE a # None /\ ~a.applied /\ Attestable(r, n, intent, reported)
           /\ all = SubmitApplication(a, env)
  <2>1. r.report \in ParentReports
    BY <1>4 DEF Attestable
  <2>2. fresh \in Envelopes
    BY <2>1 DEF Envelopes
  <2>3. a \in Applications /\ a.envelope \in Envelopes \cup {None}
    BY <1>4 DEF Applications
  <2>4. env \in Envelopes /\ (a.envelope = None \/ a.envelope = env)
    BY <2>2, <2>3
  <2> HIDE DEF env, fresh, kept, all
  <2>5. \A c \in all : c \in Submitted /\ AppOK(c.app, sent \cup c.sent)
    BY <1>4, <2>3, <2>4, SubmitGood
  <2> QED
    BY <2>5 DEF all, fresh
<1>5. \/ a = None \/ a.applied \/ ~(/\ applicationRevisionCurrent(intent.svc, d, a)
                                    /\ applied = intent.svc
                                    /\ Attestable(r, n, intent, reported)
                                    /\ env.report = r.report)
      \/ a # None /\ ~a.applied /\ Attestable(r, n, intent, reported)
         /\ all = SubmitApplication(a, env)
  BY DEF CompleteWorkspaceApplication
<1> QED
  BY <1>3, <1>4, <1>5

-----------------------------------------------------------------------------
(* The pass.                                                               *)

Where ==
    /\ at = "reconcile" => fetched > 0
    /\ at \in {"complete", "redrive"} => authority > 0
    /\ at = "send" /\ ok => authority > 0
Parents == \A s \in Services : ParentOK(row[s], native[s])
Apps == \A s \in Services : AppOK(app[s], submitted[s])
NodeInv == PassTypeOK /\ Where /\ Parents /\ Apps
PassInv == IInv /\ desired \in 1..MaxRev /\ NodeInv

LEMMA PassInitHolds == PassInit => PassInv
<1> SUFFICES ASSUME PassInit PROVE PassInv
  OBVIOUS
<1>1. IInv /\ desired \in 1..MaxRev
  BY InitInv, BoundsAssumption DEF PassInit, Init
<1>2. 1 \in Services
  BY BoundsAssumption DEF Services
<1>3. NoNative \in ParentNatives /\ ParentOK(None, NoNative) /\ AppOK(None, {})
  BY DEF NoNative, ParentNatives, ParentOK, AppOK
<1>4. history \in Seq(Served) /\ Now = 1
  <2>1. [rev |-> 1, plan |-> "ordinary", lease |-> 1, svc |-> 1, act |-> 1, want |-> "active"] \in Served
    BY <1>2, PlansAssumption, LeaseBoundAssumption, BoundsAssumption DEF Served, ParentWants
  <2> QED
    BY <2>1 DEF PassInit, Now
<1>5. NoReport \in Bodies
  BY DEF NoReport, Bodies
<1>6. PassTypeOK
  <2>1. /\ submitted \in [Services -> SUBSET Envelopes]
        /\ row \in [Services -> ParentRows \cup {None}]
        /\ app \in [Services -> Applications \cup {None}]
        /\ native \in [Services -> ParentNatives]
    BY <1>3 DEF PassInit
  <2>2. /\ revision \in 0..MaxRev /\ lease \in 0..MaxLeases + 1 /\ attested \in Nat
        /\ fetched \in 0..Now /\ authority \in 0..Now
    BY <1>4, LeaseBoundAssumption, BoundsAssumption DEF PassInit
  <2>3. at = "tick" /\ ok \in BOOLEAN /\ broken \in BOOLEAN
    BY DEF PassInit
  <2>4. body \in Bodies /\ mine \in Bodies
    BY <1>5 DEF PassInit
  <2> QED
    BY <1>4, <2>1, <2>2, <2>3, <2>4 DEF PassTypeOK
<1>7. Where /\ Parents /\ Apps
  BY <1>3 DEF PassInit, Where, Parents, Apps
<1> QED
  BY <1>1, <1>6, <1>7 DEF PassInv, NodeInv

LEMMA StageNumber ==
    ASSUME NEW s, NEW k \in 1..14, Stages[k] = s
    PROVE  StageNo(s) \in 1..14 /\ Stages[StageNo(s)] = s
<1>1. DOMAIN Stages = 1..14
  BY DEF Stages
<1> QED
  BY <1>1 DEF StageNo

LEMMA StageNumbers ==
    /\ Len(Stages) = 14
    /\ \A s \in {"acknowledge", "safety", "services", "parents", "late", "cells"} : StageNo(s) \in 1..14
    /\ StageNo("setup") \in 2..14
<1>1. Len(Stages) = 14
  BY DEF Stages
<1>2. /\ Stages[9] = "acknowledge" /\ Stages[2] = "safety" /\ Stages[10] = "services"
      /\ Stages[12] = "parents" /\ Stages[13] = "late" /\ Stages[11] = "cells"
      /\ Stages[6] = "setup" /\ Stages[1] = "validate"
  BY DEF Stages
<1>3. \A s \in {"acknowledge", "safety", "services", "parents", "late", "cells"} : StageNo(s) \in 1..14
  BY <1>2, StageNumber
<1>4. StageNo("setup") \in 1..14 /\ Stages[StageNo("setup")] = "setup"
  BY <1>2, StageNumber
<1>5. StageNo("setup") # 1
  BY <1>2, <1>4
<1> QED
  BY <1>1, <1>3, <1>4, <1>5

LEMMA Entry == ASSUME PassTypeOK, NEW i \in 1..Now PROVE history[i] \in Served
BY DEF PassTypeOK, Now

\* However Reconcile ends, the parent stage left the parent sound.
LEMMA EndsGood ==
    ASSUME NodeInv, NEW i \in 1..Now, NEW e \in ReconcileEnds(i)
    PROVE  GoodEnd(app[history[i].svc], e.res) /\ e.stop \in Nat
<1> DEFINE m == history[i]
           r == row[m.svc]
           n == native[m.svc]
           a == app[m.svc]
           untouched == Result(r, n, a, "ok", FALSE)
           R == reconcileControllerParent(r, n, a, Intent(m), m.rev)
<1>1. m \in Served
  BY Entry DEF NodeInv
<1>2. m.svc \in Services /\ m.act \in Nat /\ m.want \in ParentWants
  BY <1>1 DEF Served
<1>3. r \in ParentRows \cup {None} /\ n \in ParentNatives /\ ParentOK(r, n)
  BY <1>2 DEF NodeInv, PassTypeOK, Parents
<1>4. GoodEnd(a, untouched)
  BY <1>3, ResultGood
<1>5. Intent(m).act \in Nat /\ Intent(m).want \in ParentWants
  BY <1>2 DEF Intent
<1>6. \A res \in R : GoodEnd(a, res)
  <2> HIDE DEF m
  <2> QED
    BY <1>3, <1>5, ReconcileGood
<1>7. ASSUME NEW res, NEW x \in AfterParents(res)
      PROVE  x.res = res /\ x.stop \in Nat
  BY StageNumbers DEF AfterParents, End
<1>8. \/ e.res = untouched /\ e.stop \in Nat
      \/ \E res \in R : e \in AfterParents(res)
  <2>1. CASE ~(ValidPlan[m.plan] /\ m.rev >= revision)
    <3>1. e = End(1, untouched, FALSE)
      BY <2>1 DEF ReconcileEnds
    <3> QED
      BY <3>1 DEF End
  <2>2. CASE ValidPlan[m.plan] /\ m.rev >= revision /\ ~Acknowledged[m.plan]
    <3>1. e = End(StageNo("acknowledge"), untouched, FALSE)
      BY <2>2 DEF ReconcileEnds
    <3> QED
      BY <3>1, StageNumbers DEF End
  <2>3. CASE ValidPlan[m.plan] /\ m.rev >= revision /\ Acknowledged[m.plan]
    <3>1. ReconcileEnds(i) = {End(s, untouched, TRUE) : s \in StageNo("safety")..StageNo("services")}
                             \cup UNION {AfterParents(res) : res \in R}
      BY <2>3 DEF ReconcileEnds
    <3> HIDE DEF m, r, n, a, R, untouched
    <3>2. CASE \E s \in StageNo("safety")..StageNo("services") : e = End(s, untouched, TRUE)
      BY <3>2, StageNumbers DEF End
    <3>3. CASE \E res \in R : e \in AfterParents(res)
      BY <3>3
    <3> QED
      BY <3>1, <3>2, <3>3
  <2> QED
    BY <2>1, <2>2, <2>3
<1> HIDE DEF m, r, n, a, R, untouched
<1>9. GoodEnd(a, e.res) /\ e.stop \in Nat
  BY <1>4, <1>6, <1>7, <1>8
<1> QED
  BY <1>9 DEF a, m

LEMMA SucceedsPastValidation ==
    ASSUME NEW e, e.stop \in Nat, Succeeded(e)
    PROVE  e.stop > 1
BY StageNumbers DEF Succeeded, EarlyReturn

LEMMA ReportedType ==
    ASSUME NEW r \in ParentRows \cup {None}, NEW intent, intent.act \in Nat
    PROVE  ReportedParent(r, intent) \in ParentReports
<1>1. [act |-> intent.act, state |-> "pending", session |-> 0] \in ParentReports
  BY DEF ParentReports
<1>2. r # None /\ r.report # None => r.report \in ParentReports
  BY DEF ParentRows
<1> QED
  BY <1>1, <1>2 DEF ReportedParent

LEMMA ReportBody ==
    ASSUME PassTypeOK, NEW i \in 0..Now, NEW k \in Nat, NEW rows \in [Services -> ParentRows \cup {None}]
    PROVE  Report(i, k, rows) \in Bodies
<1> DEFINE m == history[i]
           p == {[svc |-> m.svc, report |-> ReportedParent(rows[m.svc], Intent(m))]}
<1>1. CASE i = 0
  BY <1>1 DEF Report, Bodies
<1>2. CASE i # 0
  <2>1. m \in Served
    BY <1>2, Entry DEF PassTypeOK, Now
  <2>2. m.svc \in Services /\ Intent(m).act \in Nat
    BY <2>1 DEF Served, Intent
  <2>3. ReportedParent(rows[m.svc], Intent(m)) \in ParentReports
    BY <2>2, ReportedType
  <2>4. p \in SUBSET [svc : Services, report : ParentReports]
    BY <2>2, <2>3
  <2>5. Report(i, k, rows) = [rev |-> k, parents |-> p]
    BY <1>2 DEF Report
  <2> QED
    BY <2>4, <2>5 DEF Bodies
<1> QED
  BY <1>1, <1>2

\* What one Reconcile leaves on the node.
LEMMA ReconciledGood ==
    ASSUME NodeInv, NEW i \in 1..Now, NEW e \in ReconcileEnds(i), Reconciled(i, e)
    PROVE  /\ authority' \in 0..Now /\ (e.stop > 1 => authority' = i) /\ (e.stop <= 1 => authority' = authority)
           /\ (authority > 0 => authority' > 0)
           /\ lease' \in 0..MaxLeases + 1 /\ revision' \in 0..MaxRev
           /\ row' \in [Services -> ParentRows \cup {None}]
           /\ app' \in [Services -> Applications \cup {None}]
           /\ native' \in [Services -> ParentNatives]
           /\ Parents' /\ \A s \in Services : AppOK(app'[s], submitted[s])
<1> DEFINE m == history[i]
<1>1. m \in Served
  BY Entry DEF NodeInv
<1>2. m.svc \in Services /\ m.lease \in 1..MaxLeases + 1 /\ m.rev \in 1..MaxRev
  BY <1>1 DEF Served
<1>3. GoodEnd(app[m.svc], e.res) /\ e.stop \in Nat
  BY EndsGood
<1>4. Now \in Nat
  BY DEF NodeInv, PassTypeOK, Now
<1>5. /\ authority' = IF e.stop > 1 THEN i ELSE authority
      /\ lease' = IF e.stop > PolicyStage THEN m.lease ELSE lease
      /\ row' = [row EXCEPT ![m.svc] = e.res.row]
      /\ app' = [app EXCEPT ![m.svc] = e.res.app]
      /\ native' = [native EXCEPT ![m.svc] = e.res.native]
      /\ revision' = IF e.stop > Len(Stages) THEN m.rev ELSE revision
  BY DEF Reconciled
<1> HIDE DEF m
<1>6. /\ e.res.row \in ParentRows \cup {None} /\ e.res.native \in ParentNatives
      /\ ParentOK(e.res.row, e.res.native) /\ e.res.app \in {app[m.svc], NextApp(app[m.svc])}
  BY <1>3 DEF GoodEnd, Ends
<1>7. /\ app[m.svc] \in Applications \cup {None} /\ AppOK(app[m.svc], submitted[m.svc])
  BY <1>2 DEF NodeInv, PassTypeOK, Apps
<1>8. e.res.app \in Applications \cup {None} /\ AppOK(e.res.app, submitted[m.svc])
  <2>1. CASE app[m.svc] = None
    <3>1. submitted[m.svc] = {}
      BY <1>7, <2>1 DEF AppOK
    <3> QED
      BY <1>6, <1>7, <2>1, <3>1, NewAppOK DEF NextApp
  <2>2. CASE app[m.svc] # None
    BY <1>6, <1>7, <2>2 DEF NextApp
  <2> QED
    BY <2>1, <2>2
<1>9. /\ authority \in 0..Now /\ lease \in 0..MaxLeases + 1 /\ revision \in 0..MaxRev
  BY DEF NodeInv, PassTypeOK
<1>10. /\ row \in [Services -> ParentRows \cup {None}] /\ app \in [Services -> Applications \cup {None}]
       /\ native \in [Services -> ParentNatives]
  BY DEF NodeInv, PassTypeOK
<1>11. authority' \in 0..Now /\ (e.stop > 1 => authority' = i) /\ (e.stop <= 1 => authority' = authority)
       /\ (authority > 0 => authority' > 0)
  BY <1>3, <1>4, <1>5, <1>9
<1>12. lease' \in 0..MaxLeases + 1 /\ revision' \in 0..MaxRev
  BY <1>2, <1>5, <1>9, LeaseBoundAssumption, BoundsAssumption
<1>13. /\ row' \in [Services -> ParentRows \cup {None}] /\ app' \in [Services -> Applications \cup {None}]
       /\ native' \in [Services -> ParentNatives]
  BY <1>2, <1>5, <1>6, <1>8, <1>10
<1>14. \A s \in Services : row'[s] = (IF s = m.svc THEN e.res.row ELSE row[s])
                           /\ native'[s] = (IF s = m.svc THEN e.res.native ELSE native[s])
                           /\ app'[s] = (IF s = m.svc THEN e.res.app ELSE app[s])
  BY <1>2, <1>5, <1>10
<1>15. Parents'
  BY <1>6, <1>14 DEF NodeInv, Parents
<1>16. \A s \in Services : AppOK(app'[s], submitted[s])
  BY <1>8, <1>14 DEF NodeInv, Apps
<1> QED
  BY <1>11, <1>12, <1>13, <1>15, <1>16

-----------------------------------------------------------------------------
(* The steps of the pass.                                                  *)

\* A step of the pass is a step of ReportSync, leaves it alone, or only counts a
\* fault for it.
OutsideFault == Fault /\ UNCHANGED <<cpVars, stored, pc, locals>>

LEMMA SyncSteps == [PassNext]_allVars => [Next]_vars \/ OutsideFault
<1> SUFFICES ASSUME [PassNext]_allVars PROVE [Next]_vars \/ OutsideFault
  OBVIOUS
<1>1. CASE Fetch
  BY <1>1 DEF Fetch, OutsideFault, vars
<1>2. CASE ReconcileStep
  <2>1. Fault \/ UNCHANGED faults
    BY <1>2 DEF ReconcileStep
  <2> QED
    BY <1>2, <2>1 DEF ReconcileStep, OutsideFault, vars
<1>3. CASE SendStep \/ PostStep \/ ConflictStep \/ BackoffStep \/ AckStep \/ RestartStep
  BY <1>3 DEF SendStep, PostStep, ConflictStep, BackoffStep, AckStep, RestartStep, Next, Daemon
<1>4. CASE CompleteStep
  <2>1. Fault \/ UNCHANGED faults
    BY <1>4 DEF CompleteStep
  <2> QED
    BY <1>4, <2>1 DEF CompleteStep, OutsideFault, vars
<1>5. CASE FeedbackStep
  BY <1>5 DEF FeedbackStep
<1>6. CASE CrashStep \/ AdvanceStep \/ ResyncStep
  BY <1>6 DEF CrashStep, AdvanceStep, ResyncStep, Next
<1>7. CASE RenewLease
  BY <1>7 DEF RenewLease
<1>8. CASE NativeStops
  BY <1>8 DEF NativeStops, OutsideFault
<1>9. CASE UNCHANGED allVars
  BY <1>9 DEF allVars
<1> QED
  BY <1>1, <1>2, <1>3, <1>4, <1>5, <1>6, <1>7, <1>8, <1>9 DEF PassNext, Pass

LEMMA SyncKept ==
    ASSUME IInv, desired \in 1..MaxRev, [Next]_vars \/ OutsideFault
    PROVE  IInv' /\ desired' \in 1..MaxRev
<1>1. CASE OutsideFault
  <2>1. faults' \in Nat
    BY <1>1, FaultType DEF OutsideFault, IInv, TypeOK
  <2> QED
    BY <1>1, <2>1 DEF OutsideFault, IInv, TypeOK, BlockNotAhead, ObservedNotAhead, cpVars, locals
<1>2. CASE [Next]_vars
  <2>1. IInv'
    BY <1>2, TypeStep, BlockStep DEF IInv
  <2>2. desired' = desired \/ (desired < MaxRev /\ desired' = desired + 1)
    BY <1>2 DEF Next, Daemon, Send, Post, Ack, Conflict, Backoff, Exhausted, Restart, Crash, Advance, Resync,
                vars, cpVars
  <2> QED
    BY <2>1, <2>2, BoundsAssumption
<1> QED
  BY <1>1, <1>2

\* A step that moves the pass on and leaves the node as it is.
LEMMA Moved ==
    ASSUME NodeInv, UNCHANGED <<history, submitted, nodeVars, broken>>,
           at' \in {"tick", "reconcile", "send", "complete", "redrive", "feedback", "final"},
           fetched' \in 0..Now, authority' \in 0..Now, ok' \in BOOLEAN, body' \in Bodies, mine' \in Bodies,
           Where'
    PROVE  NodeInv'
<1>1. Now' = Now
  BY DEF Now
<1> QED
  BY <1>1 DEF NodeInv, PassTypeOK, Parents, Apps, nodeVars

LEMMA PostingKeeps ==
    ASSUME NodeInv, UNCHANGED <<history, submitted, nodeVars, broken>>, Posting
    PROVE  NodeInv'
BY Moved DEF Posting, passVars, NodeInv, PassTypeOK, Where

LEMMA ReturnKeeps ==
    ASSUME NodeInv, UNCHANGED <<history, submitted, nodeVars, broken>>, NEW nil \in BOOLEAN, Return(nil)
    PROVE  NodeInv'
<1>1. NoReport \in Bodies
  BY DEF NoReport, Bodies
<1>2. 0 \in 0..Now
  BY DEF Now, NodeInv, PassTypeOK
<1> QED
  BY <1>1, <1>2, Moved DEF Return, NodeInv, PassTypeOK, Where

LEMMA FetchKeeps == NodeInv /\ Fetch => NodeInv'
<1> SUFFICES ASSUME NodeInv, Fetch PROVE NodeInv'
  OBVIOUS
<1>1. Now \in Nat /\ Now > 0
  BY DEF Now, NodeInv, PassTypeOK
<1>2. Report(authority, revision, row) \in Bodies
  BY ReportBody DEF NodeInv, PassTypeOK
<1>3. /\ UNCHANGED <<history, submitted, nodeVars, broken>> /\ authority' = authority
      /\ \/ at' = "reconcile" /\ fetched' = Now /\ UNCHANGED <<ok, body, mine>>
         \/ at' = "send" /\ fetched' = 0 /\ ok' = FALSE
            /\ body' = Report(authority, revision, row) /\ mine' = body'
  BY DEF Fetch
<1>4. /\ at' \in {"reconcile", "send"} /\ fetched' \in 0..Now /\ authority' \in 0..Now
      /\ body' \in Bodies /\ mine' \in Bodies
  BY <1>1, <1>2, <1>3 DEF NodeInv, PassTypeOK
<1>5. ok' \in BOOLEAN
  BY <1>3 DEF NodeInv, PassTypeOK
<1>6. Where'
  BY <1>1, <1>3 DEF NodeInv, Where
<1> QED
  BY <1>3, <1>4, <1>5, <1>6, Moved

\* After a Reconcile and the report built from it.
LEMMA Applied ==
    ASSUME NodeInv, NEW i \in 1..Now, NEW e \in ReconcileEnds(i), Reconciled(i, e),
           UNCHANGED <<history, submitted, attested, broken>>
    PROVE  /\ Report(authority', revision', row') \in Bodies
           /\ /\ at' \in {"tick", "reconcile", "send", "complete", "redrive", "feedback", "final"}
              /\ fetched' \in 0..Now /\ ok' \in BOOLEAN /\ body' \in Bodies /\ mine' \in Bodies
              /\ Where'
              => NodeInv'
<1>1. /\ authority' \in 0..Now
      /\ lease' \in 0..MaxLeases + 1 /\ revision' \in 0..MaxRev
      /\ row' \in [Services -> ParentRows \cup {None}]
      /\ app' \in [Services -> Applications \cup {None}]
      /\ native' \in [Services -> ParentNatives]
      /\ Parents' /\ \A s \in Services : AppOK(app'[s], submitted[s])
  BY ReconciledGood
<1>2. Now' = Now
  BY DEF Now
<1>3. revision' \in Nat
  BY <1>1, BoundsAssumption
<1>4. Report(authority', revision', row') \in Bodies
  BY <1>1, <1>3, ReportBody DEF NodeInv
<1>5. Apps'
  BY <1>1 DEF Apps
<1> QED
  BY <1>1, <1>2, <1>4, <1>5 DEF NodeInv, PassTypeOK

LEMMA ReconcileKeeps == NodeInv /\ ReconcileStep => NodeInv'
<1> SUFFICES ASSUME NodeInv, ReconcileStep PROVE NodeInv'
  OBVIOUS
<1>1. fetched \in 1..Now
  BY DEF ReconcileStep, NodeInv, PassTypeOK, Where
<1>2. PICK e \in ReconcileEnds(fetched) :
         /\ Reconciled(fetched, e) /\ ok' = Succeeded(e)
         /\ body' = Report(authority', revision', row') /\ mine' = body'
  BY DEF ReconcileStep
<1>3. UNCHANGED <<history, submitted, attested, broken>> /\ fetched' = fetched /\ at' = "send"
  BY DEF ReconcileStep
<1>4. Report(authority', revision', row') \in Bodies
  BY <1>1, <1>2, <1>3, Applied
<1>5. ok' \in BOOLEAN /\ (ok' => authority' = fetched)
  BY <1>1, <1>2, EndsGood, ReconciledGood, SucceedsPastValidation DEF Succeeded
<1>6. Where'
  BY <1>1, <1>3, <1>5 DEF Where
<1> QED
  BY <1>1, <1>2, <1>3, <1>4, <1>5, <1>6, Applied DEF NodeInv, PassTypeOK

LEMMA SendKeeps == NodeInv /\ SendStep => NodeInv'
BY PostingKeeps, ReturnKeeps DEF SendStep

LEMMA PostKeeps == NodeInv /\ PostStep => NodeInv'
BY PostingKeeps DEF PostStep

LEMMA ConflictKeeps == NodeInv /\ ConflictStep => NodeInv'
<1> SUFFICES ASSUME NodeInv, ConflictStep PROVE NodeInv'
  OBVIOUS
<1>1. UNCHANGED <<history, submitted, broken>>
  BY DEF ConflictStep
<1>2. CASE UNCHANGED <<passVars, nodeVars>>
  BY <1>1, <1>2, PostingKeeps DEF Posting
<1>3. CASE \E e \in ReconcileEnds(Now) :
               /\ Reconciled(Now, e)
               /\ body' = IF Succeeded(e) THEN Report(authority', revision', row') ELSE body
               /\ UNCHANGED <<at, fetched, ok, mine, attested>>
  <2>1. Now \in 1..Now
    BY DEF Now, NodeInv, PassTypeOK
  <2>2. PICK e \in ReconcileEnds(Now) :
           /\ Reconciled(Now, e)
           /\ body' = IF Succeeded(e) THEN Report(authority', revision', row') ELSE body
           /\ UNCHANGED <<at, fetched, ok, mine, attested>>
    BY <1>3
  <2>3. body' \in Bodies
    BY <1>1, <2>1, <2>2, Applied DEF NodeInv, PassTypeOK
  <2>4. authority > 0 => authority' > 0
    BY <2>1, <2>2, ReconciledGood
  <2>5. Where'
    BY <2>2, <2>4 DEF NodeInv, Where
  <2> QED
    BY <1>1, <2>1, <2>2, <2>3, <2>5, Applied DEF NodeInv, PassTypeOK
<1> QED
  BY <1>2, <1>3 DEF ConflictStep

LEMMA BackoffKeeps == NodeInv /\ BackoffStep => NodeInv'
BY PostingKeeps, ReturnKeeps DEF BackoffStep

LEMMA AckKeeps == NodeInv /\ AckStep => NodeInv'
BY ReturnKeeps DEF AckStep

LEMMA CrashKeeps == NodeInv /\ CrashStep => NodeInv'
<1> SUFFICES ASSUME NodeInv, CrashStep PROVE NodeInv'
  OBVIOUS
<1>1. NoReport \in Bodies
  BY DEF NoReport, Bodies
<1>2. 0 \in 0..Now
  BY DEF Now, NodeInv, PassTypeOK
<1> QED
  BY <1>1, <1>2, Moved DEF CrashStep, Where

LEMMA RestartKeeps == NodeInv /\ (RestartStep \/ ResyncStep) => NodeInv'
BY PostingKeeps DEF RestartStep, ResyncStep, Posting

LEMMA FeedbackKeeps == NodeInv /\ FeedbackStep => NodeInv'
<1> SUFFICES ASSUME NodeInv, FeedbackStep PROVE NodeInv'
  OBVIOUS
<1>1. Now \in 1..Now /\ Now' = Now
  BY DEF Now, NodeInv, PassTypeOK, FeedbackStep
<1>2. Fresh.lease \in 0..MaxLeases + 1
  BY <1>1, Entry, LeaseBoundAssumption DEF Fresh, Served, NodeInv
<1>3. lease' \in 0..MaxLeases + 1
  BY <1>2 DEF FeedbackStep, NodeInv, PassTypeOK
<1>4. Report(authority, revision, row) \in Bodies
  BY ReportBody, BoundsAssumption DEF NodeInv, PassTypeOK
<1>5. /\ at' = "final" /\ body' \in Bodies
      /\ UNCHANGED <<history, submitted, revision, row, app, native, attested,
                     fetched, authority, ok, mine, broken>>
  BY <1>4 DEF FeedbackStep
<1> QED
  BY <1>1, <1>3, <1>5 DEF NodeInv, PassTypeOK, Where, Parents, Apps

\* A manifest that is served joins the history.
LEMMA ServeKeeps ==
    ASSUME NodeInv, NEW m \in Served, Serve(m)
    PROVE  NodeInv'
<1>1. /\ history' = Append(history, m) /\ history \in Seq(Served)
      /\ UNCHANGED <<submitted, passVars, nodeVars, broken>>
  BY DEF Serve, NodeInv, PassTypeOK
<1>2. history' \in Seq(Served) /\ Len(history') = Len(history) + 1 /\ Len(history) \in Nat
  BY <1>1
<1>3. Now \in Nat /\ Now' = Now + 1
  BY <1>2 DEF Now
<1> QED
  BY <1>1, <1>2, <1>3 DEF NodeInv, PassTypeOK, Where, Parents, Apps, passVars, nodeVars

LEMMA FreshType == ASSUME NodeInv PROVE Fresh \in Served
<1>1. Now \in 1..Now
  BY DEF Now, NodeInv, PassTypeOK
<1> QED
  BY <1>1, Entry DEF Fresh, NodeInv

LEMMA AdvanceKeeps == NodeInv /\ desired \in 1..MaxRev /\ AdvanceStep => NodeInv'
<1> SUFFICES ASSUME NodeInv, desired \in 1..MaxRev, AdvanceStep PROVE NodeInv'
  OBVIOUS
<1> DEFINE same == [Fresh EXCEPT !.rev = desired']
           other == [same EXCEPT !.svc = desired', !.act = desired', !.want = "active"]
           stop == [same EXCEPT !.act = desired', !.want = "stopped"]
<1>1. desired' \in 1..MaxRev /\ desired' \in Nat /\ desired' \in Services
  BY BoundsAssumption DEF AdvanceStep, Advance, Services
<1>2. same \in Served
  BY <1>1, FreshType DEF Served
<1>3. PICK p \in DOMAIN Plans : \E m \in {same, other, stop} : Serve([m EXCEPT !.plan = p])
  BY DEF AdvanceStep
<1>4. PICK m \in {same, other, stop} : Serve([m EXCEPT !.plan = p])
  BY <1>3
<1> HIDE DEF same
<1>5. other \in Served /\ stop \in Served
  BY <1>1, <1>2 DEF Served, ParentWants
<1> HIDE DEF other, stop
<1>6. m \in Served
  BY <1>2, <1>4, <1>5
<1>7. [m EXCEPT !.plan = p] \in Served
  BY <1>6 DEF Served
<1> QED
  BY <1>4, <1>7, ServeKeeps

LEMMA RenewKeeps == NodeInv /\ RenewLease => NodeInv'
<1> SUFFICES ASSUME NodeInv, RenewLease PROVE NodeInv'
  OBVIOUS
<1>1. Fresh.lease <= MaxLeases /\ Serve([Fresh EXCEPT !.lease = Fresh.lease + 1])
  BY DEF RenewLease
<1>2. Fresh \in Served /\ Fresh.lease \in 1..MaxLeases + 1
  BY FreshType DEF Served
<1>3. Fresh.lease + 1 \in 1..MaxLeases + 1
  BY <1>1, <1>2, LeaseBoundAssumption
<1>4. [Fresh EXCEPT !.lease = Fresh.lease + 1] \in Served
  BY <1>2, <1>3 DEF Served
<1> QED
  BY <1>1, <1>4, ServeKeeps

LEMMA NativeStopsKeeps == NodeInv /\ NativeStops => NodeInv'
<1> SUFFICES ASSUME NodeInv, NativeStops PROVE NodeInv'
  OBVIOUS
<1>1. PICK s \in Services : native' = [native EXCEPT ![s].up = FALSE]
  BY DEF NativeStops
<1>2. UNCHANGED <<history, submitted, passVars, revision, lease, row, app, attested, broken>>
  BY DEF NativeStops
<1>3. native \in [Services -> ParentNatives]
  BY DEF NodeInv, PassTypeOK
<1>4. \A t \in Services : native'[t] \in ParentNatives /\ native'[t].made = native[t].made
  <2>1. native' = [native EXCEPT ![s] = [native[s] EXCEPT !.up = FALSE]]
    BY <1>1
  <2>2. [native[s] EXCEPT !.up = FALSE] \in ParentNatives
        /\ [native[s] EXCEPT !.up = FALSE].made = native[s].made
    BY <1>3, Down
  <2> QED
    BY <1>3, <2>1, <2>2
<1>5. native' \in [Services -> ParentNatives]
  BY <1>1, <1>3, <1>4
<1>6. Parents'
  BY <1>2, <1>4, SameMade DEF NodeInv, Parents
<1> QED
  BY <1>2, <1>5, <1>6 DEF NodeInv, PassTypeOK, Where, Apps, passVars, Now

\* The report that is completed names parents by their services.
LEMMA GivenType ==
    ASSUME NodeInv, authority > 0
    PROVE  GivenReport.parents \in SUBSET [svc : Services, report : ParentReports]
<1> DEFINE m == history[authority]
           r == row[m.svc]
<1>1. m \in Served
  BY Entry DEF NodeInv, PassTypeOK, Now
<1>2. m.svc \in Services
  BY <1>1 DEF Served
<1>3. r \in ParentRows \cup {None} /\ ParentOK(r, native[m.svc])
  BY <1>2 DEF NodeInv, PassTypeOK, Parents
<1>4. r # None /\ r.accepted => r.report \in ParentReports
  BY <1>3 DEF ParentOK, ParentRows
<1>5. mine.parents \in SUBSET [svc : Services, report : ParentReports]
  BY DEF NodeInv, PassTypeOK, Bodies
<1>6. GivenReport.parents \in {mine.parents, {}, {[svc |-> m.svc, report |-> r.report]}}
      /\ (GivenReport.parents = {[svc |-> m.svc, report |-> r.report]} =>
            GivenReport.parents = mine.parents \/ (r # None /\ r.accepted))
  BY DEF GivenReport
<1> HIDE DEF m, r
<1> QED
  BY <1>2, <1>4, <1>5, <1>6

\* Acknowledging a report that is stored keeps what the row says of the creation.
LEMMA MarkGood ==
    ASSUME NEW r \in ParentRows \cup {None}, NEW n, NEW rep \in ParentReports, ParentOK(r, n),
           AcknowledgeControllerParents(r, rep) # None
    PROVE  /\ AcknowledgeControllerParents(r, rep) \in ParentRows
           /\ ParentOK(AcknowledgeControllerParents(r, rep), n)
<1> DEFINE marked == [r EXCEPT !.accepted = TRUE]
<1>1. CASE rep.state # "ready"
  <2>1. AcknowledgeControllerParents(r, rep) = r
    BY <1>1 DEF AcknowledgeControllerParents
  <2> QED
    BY <2>1
<1>2. CASE rep.state = "ready" /\ r # None /\ r.report = rep
  <2>1. AcknowledgeControllerParents(r, rep) = marked
    BY <1>2 DEF AcknowledgeControllerParents
  <2>2. r \in ParentRows /\ marked \in ParentRows /\ marked.dispatched = r.dispatched /\ marked.report = rep
    BY <1>2 DEF ParentRows
  <2>3. marked # None /\ rep # None
    BY <2>2, NoneAssumption
  <2> HIDE DEF marked
  <2>4. ParentOK(marked, n)
    BY <1>2, <2>2, <2>3 DEF ParentOK
  <2> QED
    BY <2>1, <2>2, <2>4
<1>3. CASE rep.state = "ready" /\ ~(r # None /\ r.report = rep)
  BY <1>3 DEF AcknowledgeControllerParents
<1> QED
  BY <1>1, <1>2, <1>3

LEMMA CompleteKeeps == NodeInv /\ CompleteStep => NodeInv'
<1> SUFFICES ASSUME NodeInv, CompleteStep PROVE NodeInv'
  OBVIOUS
<1> DEFINE m == history[authority]
           given == GivenReport
           marked == [s \in Services |->
                        IF \E p \in given.parents : p.svc = s
                        THEN AcknowledgeControllerParents(row[s], (CHOOSE p \in given.parents : p.svc = s).report)
                        ELSE row[s]]
           conflict == \E p \in given.parents : marked[p.svc] = None
           reported == {p.report : p \in {q \in given.parents : q.svc = m.svc}}
           fresh == [id |-> attested + 1, report |-> marked[m.svc].report]
           calls == CompleteWorkspaceApplication(marked[m.svc], native[m.svc], app[m.svc], Intent(m),
                                                 m.rev, reported, given.rev, fresh)
<1>1. at \in {"complete", "redrive"} /\ authority > 0 /\ authority \in 1..Now
  <2>1. at \in {"complete", "redrive"}
    BY DEF CompleteStep
  <2>2. authority > 0 /\ authority \in 0..Now /\ Now \in Nat
    BY <2>1 DEF NodeInv, PassTypeOK, Where, Now
  <2> QED
    BY <2>1, <2>2
<1>2. m \in Served /\ m.svc \in Services
  BY <1>1, Entry DEF NodeInv, Served
<1>3. given.parents \in SUBSET [svc : Services, report : ParentReports]
  BY <1>1, GivenType
<1>4. /\ at' \in {"feedback", "redrive", "tick"} /\ mine' = NoReport
      /\ UNCHANGED <<history, revision, lease, native, fetched, authority, ok, body, broken>>
  BY DEF CompleteStep
<1>5. \/ UNCHANGED <<row, app, submitted, attested>>
      \/ ~conflict /\ row' = marked /\ UNCHANGED <<app, submitted, attested>>
      \/ /\ ~conflict /\ row' = marked
         /\ \E c \in calls :
               /\ app' = [app EXCEPT ![m.svc] = c.app]
               /\ submitted' = [submitted EXCEPT ![m.svc] = submitted[m.svc] \cup c.sent]
               /\ attested' \in {attested, attested + 1}
  BY DEF CompleteStep
<1>6. /\ row \in [Services -> ParentRows \cup {None}] /\ app \in [Services -> Applications \cup {None}]
      /\ native \in [Services -> ParentNatives] /\ submitted \in [Services -> SUBSET Envelopes]
      /\ attested \in Nat /\ attested + 1 \in Nat
  BY DEF NodeInv, PassTypeOK
<1>7. NoReport \in Bodies
  BY DEF NoReport, Bodies
<1>8. ~conflict => \A s \in Services : marked[s] \in ParentRows \cup {None} /\ ParentOK(marked[s], native[s])
  <2> SUFFICES ASSUME ~conflict, NEW s \in Services
               PROVE  marked[s] \in ParentRows \cup {None} /\ ParentOK(marked[s], native[s])
    OBVIOUS
  <2> HIDE DEF given
  <2>1. row[s] \in ParentRows \cup {None} /\ ParentOK(row[s], native[s])
    BY <1>6 DEF NodeInv, Parents
  <2>2. CASE \E p \in given.parents : p.svc = s
    <3> DEFINE q == CHOOSE p \in given.parents : p.svc = s
    <3>1. q \in given.parents /\ q.svc = s
      BY <2>2
    <3>2. q.report \in ParentReports
      BY <1>3, <3>1
    <3>3. marked[s] = AcknowledgeControllerParents(row[s], q.report)
      BY <2>2
    <3>4. marked[q.svc] # None
      BY <3>1
    <3> HIDE DEF q, marked
    <3> QED
      BY <2>1, <3>1, <3>2, <3>3, <3>4, MarkGood
  <2>3. CASE ~\E p \in given.parents : p.svc = s
    BY <2>1, <2>3
  <2> QED
    BY <2>2, <2>3
<1>9. marked = [s \in Services |-> marked[s]]
  OBVIOUS
<1>10. ~conflict => \A c \in calls : c \in Submitted /\ AppOK(c.app, submitted[m.svc] \cup c.sent)
  <2>1. reported \in SUBSET ParentReports
    <3> HIDE DEF given, m
    <3> QED
      BY <1>3
  <2>2. /\ app[m.svc] \in Applications \cup {None} /\ submitted[m.svc] \in SUBSET Envelopes
        /\ AppOK(app[m.svc], submitted[m.svc])
    BY <1>2, <1>6 DEF NodeInv, Apps
  <2>3. ~conflict => marked[m.svc] \in ParentRows \cup {None}
    BY <1>2, <1>8
  <2> HIDE DEF marked, given, reported, m, conflict
  <2> QED
    BY <1>6, <2>1, <2>2, <2>3, CompleteGood
<1> HIDE DEF marked, given, reported, m, conflict, calls, fresh
<1>11. row' \in [Services -> ParentRows \cup {None}] /\ Parents'
  <2>1. CASE row' = row
    BY <1>4, <1>6, <2>1 DEF NodeInv, Parents
  <2>2. CASE ~conflict /\ row' = marked
    BY <1>4, <1>8, <1>9, <2>2 DEF Parents
  <2> QED
    BY <1>5, <2>1, <2>2
<1>12. /\ app' \in [Services -> Applications \cup {None}] /\ submitted' \in [Services -> SUBSET Envelopes]
       /\ attested' \in Nat /\ Apps'
  <2>1. CASE UNCHANGED <<app, submitted, attested>>
    BY <1>6, <2>1 DEF NodeInv, Apps
  <2>2. ASSUME ~conflict, NEW c \in calls,
               app' = [app EXCEPT ![m.svc] = c.app],
               submitted' = [submitted EXCEPT ![m.svc] = submitted[m.svc] \cup c.sent],
               attested' \in {attested, attested + 1}
        PROVE  /\ app' \in [Services -> Applications \cup {None}] /\ submitted' \in [Services -> SUBSET Envelopes]
               /\ attested' \in Nat /\ Apps'
    <3>1. c.app \in Applications \cup {None} /\ c.sent \in SUBSET Envelopes
          /\ AppOK(c.app, submitted[m.svc] \cup c.sent)
      BY <1>10, <2>2 DEF Submitted
    <3>2. submitted[m.svc] \cup c.sent \in SUBSET Envelopes
      BY <1>2, <1>6, <3>1
    <3>3. app' \in [Services -> Applications \cup {None}] /\ submitted' \in [Services -> SUBSET Envelopes]
      BY <1>2, <1>6, <2>2, <3>1, <3>2
    <3>4. \A s \in Services : /\ app'[s] = (IF s = m.svc THEN c.app ELSE app[s])
                              /\ submitted'[s] = (IF s = m.svc THEN submitted[m.svc] \cup c.sent ELSE submitted[s])
      BY <1>2, <1>6, <2>2
    <3>5. Apps'
      BY <3>1, <3>4 DEF NodeInv, Apps
    <3> QED
      BY <1>6, <2>2, <3>3, <3>5
  <2> QED
    BY <1>5, <2>1, <2>2
<1>13. Now' = Now
  BY <1>4 DEF Now
<1>14. Where'
  BY <1>1, <1>4 DEF Where
<1> QED
  BY <1>4, <1>7, <1>11, <1>12, <1>13, <1>14 DEF NodeInv, PassTypeOK

-----------------------------------------------------------------------------

THEOREM PassInductive == PassSpec => []PassInv
<1>1. PassInv /\ [PassNext]_allVars => PassInv'
  <2> SUFFICES ASSUME PassInv, [PassNext]_allVars PROVE PassInv'
    OBVIOUS
  <2>1. IInv' /\ desired' \in 1..MaxRev
    BY SyncSteps, SyncKept DEF PassInv
  <2>2. UNCHANGED allVars => NodeInv'
    BY PostingKeeps DEF allVars, Posting, PassInv
  <2>3. NodeInv'
    BY <2>2, FetchKeeps, ReconcileKeeps, SendKeeps, PostKeeps, ConflictKeeps, BackoffKeeps, AckKeeps,
       CompleteKeeps, FeedbackKeeps, RestartKeeps, CrashKeeps, AdvanceKeeps, RenewKeeps, NativeStopsKeeps
       DEF PassNext, Pass, PassInv
  <2> QED
    BY <2>1, <2>3 DEF PassInv
<1> QED
  BY <1>1, PassInitHolds, PTL DEF PassSpec

\* Type correctness of the whole pass, its report delivery included.
THEOREM PassTypeCorrect == PassSpec => [](TypeOK /\ PassTypeOK)
<1>1. PassInv => TypeOK /\ PassTypeOK
  BY DEF PassInv, IInv, NodeInv
<1> QED
  BY <1>1, PassInductive, PTL

\* The block a whole pass persists can always be lifted by the next revision.
THEOREM PassBlockIsLiftable == PassSpec => []BlockNotAhead
<1>1. PassInv => BlockNotAhead
  BY DEF PassInv, IInv
<1> QED
  BY <1>1, PassInductive, PTL

\* Whatever answers are lost, however often the daemon restarts and whichever stage
\* of a pass fails, no application gets a second envelope and no parent a second
\* session.
THEOREM PassCreatesOnce == PassSpec => []CreatedOnce
<1>1. PassInv => CreatedOnce
  <2> SUFFICES ASSUME PassInv PROVE CreatedOnce
    OBVIOUS
  <2>1. OneParentSession
    BY DEF PassInv, NodeInv, Parents, ParentOK, OneParentSession
  <2>2. ASSUME NEW s \in Services
        PROVE  /\ Cardinality(submitted[s]) <= 1
               /\ app[s] # None /\ app[s].applied => submitted[s] = {app[s].envelope}
    <3>1. AppOK(app[s], submitted[s])
      BY DEF PassInv, NodeInv, Apps
    <3>2. submitted[s] = {} \/ \E x : submitted[s] = {x}
      BY <3>1 DEF AppOK
    <3>3. Cardinality(submitted[s]) \in {0, 1}
      <4>1. CASE submitted[s] = {}
        BY <4>1, FS_EmptySet
      <4>2. ASSUME NEW x, submitted[s] = {x} PROVE Cardinality(submitted[s]) = 1
        BY <4>2, FS_Singleton
      <4> QED
        BY <3>2, <4>1, <4>2
    <3> QED
      BY <3>1, <3>3 DEF AppOK
  <2> QED
    BY <2>1, <2>2 DEF CreatedOnce, OneEnvelope
<1> QED
  BY <1>1, PassInductive, PTL

\* Nor does a whole pass record a block: the reports it rebuilds after a 409 take no
\* attempt of theirs. A pass of the daemon goes on to its workspace applications
\* only after an acceptance then (main.go:427-441).
THEOREM PassNeverBlocks ==
    ASSUME NEW CONSTANT Slept, SleptBelow(Slept), ContextIsShort(Slept)
    PROVE  PassSpec => [](stored.code = "none")
<1>1. PassInit => InTime(Slept)
  BY DEF PassInit, Init, InTime
<1>2. PassInv /\ InTime(Slept) /\ [PassNext]_allVars => InTime(Slept)'
  <2> SUFFICES ASSUME PassInv, InTime(Slept), [PassNext]_allVars PROVE InTime(Slept)'
    OBVIOUS
  <2>1. CASE [Next]_vars
    BY <2>1, InTimeStep DEF PassInv, IInv
  <2>2. CASE OutsideFault
    BY <2>2 DEF OutsideFault, InTime, locals
  <2> QED
    BY <2>1, <2>2, SyncSteps
<1>3. InTime(Slept) => stored.code = "none"
  BY DEF InTime
<1> QED
  BY <1>1, <1>2, <1>3, PassInductive, PTL DEF PassSpec

-----------------------------------------------------------------------------
(***************************************************************************)
(* The registrations of one binding.                                       *)
(***************************************************************************)
(* A group in which one registration succeeds the other cannot be read the  *)
(* other way round.                                                         *)
LEMMA SuccessionIsOneWay ==
    ASSUME NEW r \in ContinuityRegistrationV1, NEW s \in ContinuityRegistrationV1,
           continuityRegistrationRevisionSuccession(r, s)
    PROVE  ~continuityRegistrationRevisionSuccession(s, r)
  BY DEF continuityRegistrationRevisionSuccession

(* The entries of a sequence are of its type.                               *)
LEMMA Member ==
    ASSUME NEW T, NEW s \in Seq(T)
    PROVE  \A i \in DOMAIN s : s[i] \in T
  OBVIOUS

(* What a group stands for is one of its registrations.                     *)
LEMMA ResolvedIsOne ==
    ASSUME NEW group \in Seq(ContinuityRegistrationV1), Resolved(group) # {}
    PROVE  \E i \in DOMAIN group : Resolved(group) = {group[i]}
<1>1. CASE Len(group) = 1
  BY <1>1 DEF Resolved
<1>2. CASE Len(group) = 2
  BY <1>2 DEF Resolved
<1>3. CASE Len(group) \notin {1, 2}
  BY <1>3 DEF Resolved
<1> QED
  BY <1>1, <1>2, <1>3

(* model.go, reconcile.go: the three readings of the registrations of one   *)
(* binding agree for every list the control plane may serve: a group the    *)
(* manifest check admits stands for one registration, and a handoff is      *)
(* confirmed against that registration or none.  The hypothesis is what     *)
(* SelectSeq makes of a list of registrations.                              *)
THEOREM ReadingsAgree ==
    ASSUME NEW registrations, NEW b,
           Group(registrations, b) \in Seq(ContinuityRegistrationV1),
           Resolved(Group(registrations, b)) # {}
    PROVE  \E r \in Elements(Group(registrations, b)) :
              /\ Resolved(Group(registrations, b)) = {r}
              /\ effectiveHandoffSuccessionRegistration(registrations, b) \subseteq {r}
<1> DEFINE group == Group(registrations, b)
           Live(r) == r.want = "active" /\ r.enabled
           Succession(old, new) ==
               /\ old.want = "revoked" /\ ~old.enabled /\ Live(new)
               /\ new.binding = [old.binding EXCEPT !.rev = @ + 1] /\ new.scope = old.scope + 1
               /\ SameContinuityWorkFence(old.identity, new.identity)
           later == {j \in 1..2 : Succession(group[3 - j], group[j])}
           confirmed ==
               IF Len(group) = 1 THEN {r \in Elements(group) : Live(r)}
               ELSE IF Len(group) # 2 THEN {}
               ELSE {group[i] : i \in later}
<1>1. effectiveHandoffSuccessionRegistration(registrations, b) = confirmed
  BY DEF effectiveHandoffSuccessionRegistration
<1> HIDE DEF group
<1>2. group \in Seq(ContinuityRegistrationV1) /\ Resolved(group) # {}
  BY DEF group
<1>3. PICK i \in DOMAIN group : Resolved(group) = {group[i]}
  BY <1>2, ResolvedIsOne
<1>4. confirmed \subseteq {group[i]}
  <2>1. CASE Len(group) = 1
    BY <1>2, <1>3, <2>1 DEF Elements
  <2>2. CASE Len(group) = 2
    <3>1. \A old, new \in ContinuityRegistrationV1 :
             Succession(old, new) => continuityRegistrationRevisionSuccession(old, new)
      BY DEF continuityRegistrationRevisionSuccession, ContinuityRegistrationV1
    <3>2. group[1] \in ContinuityRegistrationV1 /\ group[2] \in ContinuityRegistrationV1
      <4>1. DOMAIN group = 1..2
        BY <1>2, <2>2
      <4> QED
        BY <1>2, <4>1, Member
    <3>6. /\ 1 \in later <=> Succession(group[2], group[1])
          /\ 2 \in later <=> Succession(group[1], group[2])
      BY 3 - 1 = 2, 3 - 2 = 1
    <3>7. later \subseteq {1, 2}
      OBVIOUS
    <3>8. confirmed = {group[n] : n \in later}
      BY <2>2
    <3> HIDE DEF later, confirmed
    <3>3. CASE Succession(group[1], group[2])
      <4>1. continuityRegistrationRevisionSuccession(group[1], group[2])
        BY <3>1, <3>2, <3>3
      <4>2. Resolved(group) = {group[2]}
        BY <2>2, <4>1 DEF Resolved
      <4>3. ~Succession(group[2], group[1])
        BY <3>3
      <4>4. later = {2}
        BY <3>3, <3>6, <3>7, <4>3
      <4> QED
        BY <1>3, <3>8, <4>2, <4>4
    <3>4. CASE Succession(group[2], group[1])
      <4>1. continuityRegistrationRevisionSuccession(group[2], group[1])
        BY <3>1, <3>2, <3>4
      <4>2. ~continuityRegistrationRevisionSuccession(group[1], group[2])
        BY <3>2, <4>1, SuccessionIsOneWay
      <4>5. ~Succession(group[1], group[2])
        BY <3>1, <3>2, <4>2
      <4>3. Resolved(group) = {group[1]}
        BY <2>2, <4>1, <4>2 DEF Resolved
      <4>4. later = {1}
        BY <3>4, <3>6, <3>7, <4>5
      <4> QED
        BY <1>3, <3>8, <4>3, <4>4
    <3>5. CASE ~Succession(group[1], group[2]) /\ ~Succession(group[2], group[1])
      BY <3>5, <3>6, <3>7, <3>8
    <3> QED
      BY <3>3, <3>4, <3>5
  <2>3. CASE Len(group) \notin {1, 2}
    BY <2>3
  <2> QED
    BY <2>1, <2>2, <2>3
<1> QED
  BY <1>1, <1>3, <1>4 DEF Elements, group
=============================================================================
