------------------------- MODULE ContinuationsProofs ------------------------
(***************************************************************************)
(* The producers of one-shot work.  The S2 controller implements           *)
(* OneShotOperation for any operations and any number of faults and moves: *)
(* every step of its rows and of the helper is a step of the abstract      *)
(* operation or leaves it alone.  And the cell producers tell the Manager  *)
(* only what the child did, and take back nothing they stored, for any     *)
(* number of revisions, grants, receipts, modes and faults.                *)
(***************************************************************************)
EXTENDS Continuations, CellServices, TLAPS

(* The position p of a pass is at a step of stage s for operation o.        *)
OnAt(p, s, o, step) == p.i \in 1..Len(Plan) /\ Plan[p.i] = [stage |-> s, op |-> o] /\ p.at = step

(* The steps of a handoff before its one prepare_handoff was sent.          *)
BeforeDispatch == {"realize", "select", "materialize", "registered", "register", "prepare"}
Releasing == {"apply_release", "recover_release"}

(* What the rows say of the helper's session, for a continuation: no        *)
(* session without an intent, none when it failed, one when it is ready,    *)
(* and between the intent and the call still none.                          *)
ContOK(pr, re, na, p, c) ==
    /\ pr \in {"none", "failed"} => na = "none"
    /\ pr = "ready" => na # "none"
    /\ re # "none" => pr \in {"ready", "failed"}
    /\ \A step \in {"prepare", "fail"} : OnAt(p, "apply_prep", c, step) => pr = "preparing" /\ na = "none"
    /\ \A s \in Releasing : OnAt(p, s, c, "dispatch") => re = "releasing"

(* And for a handoff: a phase before workspace_registered proves that the   *)
(* preparation was never sent.                                              *)
HandOK(ha, re, na, p, h) ==
    /\ ha \in {"none", "allocating", "materializing"} => na = "none"
    /\ ha = "ready" => na # "none"
    /\ re # "none" => ha = "ready"
    /\ \A s \in Handling, step \in BeforeDispatch : OnAt(p, s, h, step) => na = "none"
    /\ \A s \in Handling, step \in {"register", "prepare"} : OnAt(p, s, h, step) => ha = "workspace_registered"
    /\ OnAt(p, "apply_hrelease", h, "dispatch") => re = "releasing"

ContInv == \A c \in Conts : ContOK(prep[c], rel[c], native[c], pc, c)
HandInv == \A h \in Hands : HandOK(hand[h], rel[h], native[h], pc, h)
MadeInv == \A o \in Ops : made[o] = IF native[o] = "none" THEN 0 ELSE 1
PcInv == pc = [i |-> pc.i, at |-> pc.at]

IInv == TypeOK /\ PcInv /\ ContInv /\ HandInv /\ MadeInv
-----------------------------------------------------------------------------
(***************************************************************************)
(* Positions of the pass                                                   *)
(***************************************************************************)
LEMMA AtOn == \A s, o, step : At(s, o, step) <=> OnAt(pc, s, o, step)
BY DEF At, OnAt, Running

LEMMA InOn == \A S, o, step : In(S, o, step) <=> \E s \in S : OnAt(pc, s, o, step)
BY AtOn DEF In

(* A step leads to another step of the same operation,                      *)
LEMMA GotoOn ==
  ASSUME PcInv, NEW s, NEW o, NEW step, OnAt(pc, s, o, step), NEW to, Goto(to)
  PROVE  /\ PcInv' /\ pc'.at = to
         /\ \A s2, o2, step2 : OnAt(pc', s2, o2, step2) => s2 = s /\ o2 = o /\ step2 = to
<1>1. pc' = [i |-> pc.i, at |-> to]
  BY DEF PcInv, Goto
<1> QED BY <1>1 DEF OnAt, PcInv

(* or to the entry of another one.                                          *)
LEMMA EnterOn ==
  ASSUME Advance \/ Abort \/ Deferred \/ pc' = Idle \/ pc' = [i |-> 1, at |-> "enter"]
  PROVE  /\ PcInv'
         /\ \A s, o, step : OnAt(pc', s, o, step) => step = "enter"
BY DEF Advance, Abort, Deferred, Idle, OnAt, PcInv

(* The pass is at operation o or enters one.                                *)
MovesAt(o) == PcInv' /\ \A s2, o2, step2 : OnAt(pc', s2, o2, step2) => step2 = "enter" \/ o2 = o

(* A step of the pass touches the rows and the session of its operation.    *)
RowsOf(o) ==
    /\ \A x \in Conts : x # o => prep'[x] = prep[x]
    /\ \A x \in Hands : x # o => hand'[x] = hand[x]
    /\ \A x \in Ops : x # o => rel'[x] = rel[x] /\ native'[x] = native[x] /\ made'[x] = made[x]

LEMMA Elsewhere ==
  ASSUME IInv, NEW o, RowsOf(o), MovesAt(o)
  PROVE  /\ \A c \in Conts : c # o => ContOK(prep'[c], rel'[c], native'[c], pc', c)
         /\ \A h \in Hands : h # o => HandOK(hand'[h], rel'[h], native'[h], pc', h)
         /\ \A x \in Ops : x # o => made'[x] = IF native'[x] = "none" THEN 0 ELSE 1
<1>1. ASSUME NEW c \in Conts, c # o PROVE ContOK(prep'[c], rel'[c], native'[c], pc', c)
  <2>1. prep'[c] = prep[c] /\ rel'[c] = rel[c] /\ native'[c] = native[c]
    BY <1>1 DEF RowsOf, Ops
  <2>2. \A s, step : OnAt(pc', s, c, step) => step = "enter"
    BY <1>1 DEF MovesAt
  <2>3. ContOK(prep[c], rel[c], native[c], pc, c)
    BY DEF IInv, ContInv
  <2> QED BY <2>1, <2>2, <2>3 DEF ContOK
<1>2. ASSUME NEW h \in Hands, h # o PROVE HandOK(hand'[h], rel'[h], native'[h], pc', h)
  <2>1. hand'[h] = hand[h] /\ rel'[h] = rel[h] /\ native'[h] = native[h]
    BY <1>2 DEF RowsOf, Ops
  <2>2. \A s, step : OnAt(pc', s, h, step) => step = "enter"
    BY <1>2 DEF MovesAt
  <2>3. HandOK(hand[h], rel[h], native[h], pc, h)
    BY DEF IInv, HandInv
  <2> QED BY <2>1, <2>2, <2>3 DEF HandOK, BeforeDispatch
<1>3. ASSUME NEW x \in Ops, x # o PROVE made'[x] = IF native'[x] = "none" THEN 0 ELSE 1
  BY <1>3 DEF RowsOf, IInv, MadeInv
<1> QED BY <1>1, <1>2, <1>3

(* What is left to show of a step for its own operation.                    *)
CoreInv == PcInv /\ ContInv /\ HandInv /\ MadeInv

LEMMA ContHere ==
  ASSUME IInv, NEW c \in Conts, RowsOf(c), MovesAt(c),
         ContOK(prep'[c], rel'[c], native'[c], pc', c),
         made'[c] = IF native'[c] = "none" THEN 0 ELSE 1
  PROVE  CoreInv'
<1>1. \A h \in Hands : h # c
  BY OpsAssumption
<1> QED BY <1>1, Elsewhere DEF CoreInv, ContInv, HandInv, MadeInv, MovesAt

LEMMA HandHere ==
  ASSUME IInv, NEW h \in Hands, RowsOf(h), MovesAt(h),
         HandOK(hand'[h], rel'[h], native'[h], pc', h),
         made'[h] = IF native'[h] = "none" THEN 0 ELSE 1
  PROVE  CoreInv'
<1>1. \A c \in Conts : c # h
  BY OpsAssumption
<1> QED BY <1>1, Elsewhere DEF CoreInv, ContInv, HandInv, MadeInv, MovesAt

(* A step that leaves every row and session alone.                          *)
Still == prep' = prep /\ hand' = hand /\ rel' = rel /\ native' = native /\ made' = made

-----------------------------------------------------------------------------
(***************************************************************************)
(* The refinement mapping under one update                                 *)
(***************************************************************************)
LEMMA PreparedCont ==
  ASSUME TypeOK, NEW c \in Conts, NEW x, prep' = [prep EXCEPT ![c] = x], hand' = hand
  PROVE  Prepared' = [Prepared EXCEPT ![c] = Outcome(x)]
BY OpsAssumption DEF Prepared, TypeOK, Ops

LEMMA PreparedHand ==
  ASSUME TypeOK, NEW h \in Hands, NEW x, hand' = [hand EXCEPT ![h] = x], prep' = prep
  PROVE  Prepared' = [Prepared EXCEPT ![h] = Outcome(x)]
BY OpsAssumption DEF Prepared, TypeOK, Ops

LEMMA ReleasedOp ==
  ASSUME TypeOK, NEW o \in Ops, NEW x, rel' = [rel EXCEPT ![o] = x]
  PROVE  Released' = [Released EXCEPT ![o] = Outcome(x)]
BY DEF Released, TypeOK, Ops

LEMMA PreparedSame ==
  ASSUME prep' = prep, hand' = hand
  PROVE  Prepared' = Prepared
BY DEF Prepared

LEMMA ReleasedSame ==
  ASSUME rel' = rel
  PROVE  Released' = Released
BY DEF Released
(* A step of the abstract operation, or none.                               *)
AbsNext == [Abstract!Next]_(Abstract!vars)

LEMMA StillRefines ==
  ASSUME Still
  PROVE  AbsNext
BY PreparedSame, ReleasedSame DEF Still, AbsNext, Abstract!vars

LEMMA AbsPrepare ==
  ASSUME NEW o \in Ops, native[o] = "none", Prepared[o] = "none", HelperPrepares(o), made[o] = 0,
         Released' = Released, Prepared' = Prepared \/ Prepared' = [Prepared EXCEPT ![o] = "ready"]
  PROVE  AbsNext
<1>1. made' = [made EXCEPT ![o] = 1]
  BY DEF HelperPrepares
<1>2. Abstract!Prepare(o)
  BY <1>1 DEF Abstract!Prepare, HelperPrepares
<1> QED BY <1>2 DEF AbsNext, Abstract!Next

LEMMA AbsReportPrepared ==
  ASSUME NEW o \in Ops, Prepared[o] = "none", UNCHANGED <<native, made>>, Released' = Released,
         \/ native[o] # "none" /\ Prepared' = [Prepared EXCEPT ![o] = "ready"]
         \/ native[o] = "none" /\ Prepared' = [Prepared EXCEPT ![o] = "failed"]
  PROVE  AbsNext
<1>1. Abstract!ReportPrepared(o)
  BY DEF Abstract!ReportPrepared
<1> QED BY <1>1 DEF AbsNext, Abstract!Next

LEMMA AbsRelease ==
  ASSUME NEW o \in Ops, native[o] = "prepared", Prepared[o] = "ready", Released[o] = "none", HelperReleases(o),
         made' = made, Prepared' = Prepared, Released' = Released \/ Released' = [Released EXCEPT ![o] = "released"]
  PROVE  AbsNext
<1>1. Abstract!Release(o)
  BY DEF Abstract!Release, HelperReleases
<1> QED BY <1>1 DEF AbsNext, Abstract!Next

LEMMA AbsReportReleased ==
  ASSUME NEW o \in Ops, Released[o] = "none", UNCHANGED <<native, made>>, Prepared' = Prepared,
         \/ (native[o] = "released" \/ Prepared[o] = "failed") /\ Released' = [Released EXCEPT ![o] = "released"]
         \/ native[o] = "consumed" /\ Released' = [Released EXCEPT ![o] = "failed"]
         \/ Prepared[o] = "ready" /\ Released' = [Released EXCEPT ![o] = "refused"]
  PROVE  AbsNext
<1>1. Abstract!ReportReleased(o)
  BY DEF Abstract!ReportReleased
<1> QED BY <1>1 DEF AbsNext, Abstract!Next

(* The reported outcomes of one operation.                                  *)
LEMMA Reported ==
  /\ \A c \in Conts : Prepared[c] = Outcome(prep[c])
  /\ \A h \in Hands : Prepared[h] = Outcome(hand[h])
  /\ \A o \in Ops : Released[o] = Outcome(rel[o])
BY OpsAssumption DEF Prepared, Released, Ops

-----------------------------------------------------------------------------
(***************************************************************************)
(* Continuations and their releases                                        *)
(***************************************************************************)
LEMMA ContFacts ==
  ASSUME IInv, NEW c \in Conts
  PROVE  /\ c \in Ops /\ TypeOK /\ PcInv
         /\ prep[c] \in {"none", "preparing", "ready", "failed"} /\ rel[c] \in {"none", "releasing", "released", "failed", "refused"}
         /\ native[c] \in {"none", "prepared", "consumed", "released"}
         /\ ContOK(prep[c], rel[c], native[c], pc, c) /\ made[c] = IF native[c] = "none" THEN 0 ELSE 1
<1>1. c \in Ops
  BY DEF Ops
<1> QED BY <1>1 DEF IInv, TypeOK, ContInv, MadeInv

(* Where a step leaves the pass: nowhere but at its operation.              *)
LEMMA Placed ==
  ASSUME PcInv, NEW o, NEW s, NEW step, OnAt(pc, s, o, step),
         Advance \/ Abort \/ Deferred \/ \E to : Goto(to)
  PROVE  MovesAt(o)
<1>1. CASE Advance \/ Abort \/ Deferred
  BY <1>1, EnterOn DEF MovesAt
<1>2. ASSUME NEW to, Goto(to) PROVE MovesAt(o)
  BY <1>2, GotoOn DEF MovesAt
<1> QED BY <1>1, <1>2

LEMMA ApplyContinuationStep ==
  ASSUME IInv, NEW c \in Conts, ApplyContinuation(c)
  PROVE  CoreInv' /\ AbsNext
<1>1. OnAt(pc, "apply_prep", c, "enter") /\ prep[c] = "none"
  BY AtOn DEF ApplyContinuation, Enter
<1>2. UNCHANGED <<rel, hand, native, made>>
  BY DEF ApplyContinuation, helper
<1>3. \/ prep' = prep /\ Abort
      \/ prep' = [prep EXCEPT ![c] = "preparing"] /\ \E to \in {"prepare", "fail"} : Goto(to)
  BY DEF ApplyContinuation, PutContinuationPreparation
<1>4. MovesAt(c)
  BY <1>1, <1>3, Placed, ContFacts
<1>5. RowsOf(c)
  BY <1>2, <1>3 DEF RowsOf, IInv, TypeOK
<1>6. ContOK(prep'[c], rel'[c], native'[c], pc', c)
  <2>1. CASE prep' = prep /\ Abort
    BY <1>2, <2>1, EnterOn, ContFacts DEF ContOK
  <2>2. ASSUME NEW to \in {"prepare", "fail"}, prep' = [prep EXCEPT ![c] = "preparing"], Goto(to)
        PROVE  ContOK(prep'[c], rel'[c], native'[c], pc', c)
    <3>1. prep'[c] = "preparing" /\ native'[c] = "none" /\ rel'[c] = "none"
      BY <1>1, <1>2, <2>2, ContFacts DEF ContOK, TypeOK
    <3>2. \A s2, step2 : OnAt(pc', s2, c, step2) => s2 = "apply_prep" /\ step2 = to
      BY <1>1, <2>2, GotoOn, ContFacts
    <3> QED BY <3>1, <3>2 DEF ContOK
  <2> QED BY <1>3, <2>1, <2>2
<1>7. AbsNext
  <2>1. Prepared' = Prepared
    <3>1. CASE prep' = [prep EXCEPT ![c] = "preparing"]
      <4>1. Prepared' = [Prepared EXCEPT ![c] = "none"]
        BY <1>2, <3>1, PreparedCont, ContFacts DEF Outcome
      <4>2. Prepared[c] = "none"
        BY <1>1, Reported DEF Outcome
      <4> QED BY <4>1, <4>2 DEF Prepared
    <3> QED BY <1>2, <1>3, <3>1, PreparedSame
  <2> QED BY <1>2, <2>1, ReleasedSame DEF AbsNext, Abstract!vars
<1> QED BY <1>2, <1>4, <1>5, <1>6, <1>7, ContHere, ContFacts

LEMMA FailContinuationStep ==
  ASSUME IInv, NEW c \in Conts, FailContinuation(c)
  PROVE  CoreInv' /\ AbsNext
<1>1. OnAt(pc, "apply_prep", c, "fail")
  BY AtOn DEF FailContinuation
<1>2. UNCHANGED <<rel, hand, native, made>> /\ prep' = [prep EXCEPT ![c] = "failed"] /\ Advance
  BY DEF FailContinuation, helper, CompleteContinuationPreparation
<1>3. prep[c] = "preparing" /\ native[c] = "none"
  BY <1>1, ContFacts DEF ContOK
<1>4. MovesAt(c) /\ RowsOf(c)
  BY <1>1, <1>2, Placed, ContFacts DEF RowsOf, TypeOK
<1>5. ContOK(prep'[c], rel'[c], native'[c], pc', c)
  <2>1. prep'[c] = "failed" /\ native'[c] = "none" /\ rel'[c] = rel[c]
    BY <1>2, <1>3, ContFacts DEF TypeOK
  <2> QED BY <1>2, <1>3, <2>1, EnterOn, ContFacts DEF ContOK
<1>6. AbsNext
  <2>1. Prepared' = [Prepared EXCEPT ![c] = "failed"] /\ Prepared[c] = "none"
    BY <1>2, <1>3, PreparedCont, ContFacts, Reported DEF Outcome
  <2> QED BY <1>2, <1>3, <2>1, AbsReportPrepared, ReleasedSame, ContFacts
<1> QED BY <1>2, <1>4, <1>5, <1>6, ContHere, ContFacts

LEMMA PrepareContinuationStep ==
  ASSUME IInv, NEW c \in Conts, PrepareContinuation(c)
  PROVE  CoreInv' /\ AbsNext
<1>1. OnAt(pc, "apply_prep", c, "prepare")
  BY AtOn DEF PrepareContinuation
<1>2. UNCHANGED <<rel, hand>> /\ (Advance \/ Abort)
  BY DEF PrepareContinuation
<1>3. prep[c] = "preparing" /\ native[c] = "none" /\ rel[c] = "none" /\ made[c] = 0 /\ Prepared[c] = "none"
  BY <1>1, ContFacts, Reported DEF ContOK, Outcome
<1>4. \/ HelperPrepares(c) /\ prep' = [prep EXCEPT ![c] = "ready"]
      \/ HelperPrepares(c) /\ prep' = prep
      \/ UNCHANGED <<native, made>> /\ prep' = prep
  BY DEF PrepareContinuation, CompleteContinuationPreparation, helper
<1>5. MovesAt(c)
  BY <1>1, <1>2, Placed, ContFacts
<1>6. RowsOf(c)
  BY <1>2, <1>4, ContFacts DEF RowsOf, TypeOK, HelperPrepares
<1>7. /\ prep'[c] \in {"preparing", "ready"} /\ rel'[c] = "none"
      /\ \/ native'[c] = "prepared" /\ made'[c] = 1
         \/ native'[c] = "none" /\ made'[c] = 0 /\ prep'[c] = "preparing"
  BY <1>2, <1>3, <1>4, ContFacts DEF TypeOK, HelperPrepares
<1>8. ContOK(prep'[c], rel'[c], native'[c], pc', c)
  BY <1>2, <1>7, EnterOn DEF ContOK
<1>9. AbsNext
  <2>1. CASE HelperPrepares(c) /\ prep' = [prep EXCEPT ![c] = "ready"]
    <3>1. Prepared' = [Prepared EXCEPT ![c] = "ready"]
      BY <1>2, <2>1, PreparedCont, ContFacts DEF Outcome
    <3> QED BY <1>2, <1>3, <2>1, <3>1, AbsPrepare, ReleasedSame, ContFacts
  <2>2. CASE HelperPrepares(c) /\ prep' = prep
    BY <1>2, <1>3, <2>2, AbsPrepare, PreparedSame, ReleasedSame, ContFacts
  <2>3. CASE UNCHANGED <<native, made>> /\ prep' = prep
    BY <1>2, <2>3, StillRefines DEF Still
  <2> QED BY <1>4, <2>1, <2>2, <2>3
<1> QED BY <1>5, <1>6, <1>7, <1>8, <1>9, ContHere

LEMMA RecoverContinuationStep ==
  ASSUME IInv, NEW c \in Conts, RecoverContinuation(c)
  PROVE  CoreInv' /\ AbsNext
<1>1. \E s \in {"recover_prep", "apply_prep"} : OnAt(pc, s, c, "enter")
  BY AtOn DEF RecoverContinuation, Enter
<1>2. UNCHANGED <<rel, hand, native, made>> /\ (Advance \/ Abort)
  BY DEF RecoverContinuation, helper
<1>3. prep[c] = "preparing"
  BY DEF RecoverContinuation, Enter, Work, Recoverable, RecoverableHandoff, Applicable, ApplicableHandoff
<1>4. prep' = prep \/ (native[c] \in {"prepared", "consumed"} /\ prep' = [prep EXCEPT ![c] = "ready"])
  BY DEF RecoverContinuation, CompleteContinuationPreparation
<1>5. MovesAt(c) /\ RowsOf(c)
  BY <1>1, <1>2, <1>4, Placed, ContFacts DEF RowsOf, TypeOK
<1>6. ContOK(prep'[c], rel'[c], native'[c], pc', c)
  <2>1. \/ prep'[c] = "preparing" \/ (prep'[c] = "ready" /\ native[c] # "none")
    BY <1>3, <1>4, ContFacts DEF TypeOK
  <2>2. rel'[c] = "none" /\ native'[c] = native[c]
    BY <1>2, <1>3, ContFacts DEF ContOK
  <2> QED BY <1>2, <2>1, <2>2, EnterOn DEF ContOK
<1>7. AbsNext
  <2>1. CASE prep' = prep
    BY <1>2, <2>1, StillRefines DEF Still
  <2>2. CASE native[c] \in {"prepared", "consumed"} /\ prep' = [prep EXCEPT ![c] = "ready"]
    <3>1. Prepared' = [Prepared EXCEPT ![c] = "ready"] /\ Prepared[c] = "none"
      BY <1>2, <1>3, <2>2, PreparedCont, ContFacts, Reported DEF Outcome
    <3> QED BY <1>2, <2>2, <3>1, AbsReportPrepared, ReleasedSame, ContFacts
  <2> QED BY <1>4, <2>1, <2>2
<1> QED BY <1>2, <1>5, <1>6, <1>7, ContHere, ContFacts
LEMMA ApplyReleaseStep ==
  ASSUME IInv, NEW c \in Conts, ApplyRelease(c)
  PROVE  CoreInv' /\ AbsNext
<1>1. OnAt(pc, "apply_release", c, "enter") /\ rel[c] = "none"
  BY AtOn DEF ApplyRelease, Enter
<1>2. UNCHANGED <<prep, hand, native, made>>
  BY DEF ApplyRelease, helper
<1>3. \/ rel' = rel /\ Abort
      \/ prep[c] \in {"ready", "failed"} /\ rel' = [rel EXCEPT ![c] = "releasing"] /\ Goto("dispatch")
  BY DEF ApplyRelease, PutContinuationRelease, ReleasePreparation
<1>4. MovesAt(c)
  BY <1>1, <1>3, Placed, ContFacts
<1>5. RowsOf(c)
  BY <1>2, <1>3, ContFacts DEF RowsOf, TypeOK
<1>6. ContOK(prep'[c], rel'[c], native'[c], pc', c)
  <2>1. CASE rel' = rel /\ Abort
    BY <1>2, <2>1, EnterOn, ContFacts DEF ContOK
  <2>2. CASE prep[c] \in {"ready", "failed"} /\ rel' = [rel EXCEPT ![c] = "releasing"] /\ Goto("dispatch")
    <3>1. prep'[c] = prep[c] /\ native'[c] = native[c] /\ rel'[c] = "releasing"
      BY <1>2, <2>2, ContFacts DEF TypeOK
    <3>2. \A s2, step2 : OnAt(pc', s2, c, step2) => s2 = "apply_release" /\ step2 = "dispatch"
      BY <1>1, <2>2, GotoOn, ContFacts
    <3> QED BY <2>2, <3>1, <3>2, ContFacts DEF ContOK
  <2> QED BY <1>3, <2>1, <2>2
<1>7. AbsNext
  <2>1. Released' = Released
    <3>1. CASE rel' = [rel EXCEPT ![c] = "releasing"]
      <4>1. Released' = [Released EXCEPT ![c] = Outcome("releasing")]
        BY <3>1, ReleasedOp, ContFacts
      <4>2. Released[c] = Outcome("none") /\ Outcome("none") = Outcome("releasing")
        BY <1>1, ContFacts, Reported DEF Outcome
      <4> QED BY <4>1, <4>2 DEF Released
    <3> QED BY <1>3, <3>1, ReleasedSame
  <2> QED BY <1>2, <2>1, PreparedSame DEF AbsNext, Abstract!vars
<1> QED BY <1>2, <1>4, <1>5, <1>6, <1>7, ContHere, ContFacts

(* A release row that is completed, for a step that releases nothing.       *)
LEMMA ReleaseReported ==
  ASSUME IInv, NEW c \in Conts, rel[c] = "releasing", UNCHANGED <<prep, hand, native, made>>, Advance \/ Abort, MovesAt(c),
         \/ rel' = rel
         \/ (prep[c] = "failed" \/ native[c] = "released") /\ rel' = [rel EXCEPT ![c] = "released"]
         \/ native[c] = "consumed" /\ rel' = [rel EXCEPT ![c] = "failed"]
         \/ prep[c] # "failed" /\ rel' = [rel EXCEPT ![c] = "refused"]
  PROVE  CoreInv' /\ AbsNext
<1>1. RowsOf(c)
  BY ContFacts DEF RowsOf, TypeOK
<1>2. rel'[c] \in {"releasing", "released", "failed", "refused"} /\ prep[c] \in {"ready", "failed"}
  BY ContFacts DEF TypeOK, ContOK
<1>3. ContOK(prep'[c], rel'[c], native'[c], pc', c)
  BY <1>2, EnterOn, ContFacts DEF ContOK
<1>4. AbsNext
  <2>1. CASE rel' = rel
    BY <2>1, StillRefines DEF Still
  <2>2. CASE (prep[c] = "failed" \/ native[c] = "released") /\ rel' = [rel EXCEPT ![c] = "released"]
    <3>1. Released' = [Released EXCEPT ![c] = "released"] /\ Released[c] = "none" /\ Prepared[c] = Outcome(prep[c])
      BY <2>2, ReleasedOp, ContFacts, Reported DEF Outcome
    <3>2. native[c] = "released" \/ Prepared[c] = "failed"
      BY <2>2, <3>1 DEF Outcome
    <3> QED BY <3>1, <3>2, AbsReportReleased, PreparedSame, ContFacts
  <2>3. CASE native[c] = "consumed" /\ rel' = [rel EXCEPT ![c] = "failed"]
    <3>1. Released' = [Released EXCEPT ![c] = "failed"] /\ Released[c] = "none"
      BY <2>3, ReleasedOp, ContFacts, Reported DEF Outcome
    <3> QED BY <2>3, <3>1, AbsReportReleased, PreparedSame, ContFacts
  <2>4. CASE prep[c] # "failed" /\ rel' = [rel EXCEPT ![c] = "refused"]
    <3>1. Released' = [Released EXCEPT ![c] = "refused"] /\ Released[c] = "none" /\ Prepared[c] = "ready"
      BY <1>2, <2>4, ReleasedOp, ContFacts, Reported DEF Outcome
    <3> QED BY <3>1, AbsReportReleased, PreparedSame, ContFacts
  <2> QED BY <2>1, <2>2, <2>3, <2>4
<1> QED BY <1>1, <1>3, <1>4, ContHere, ContFacts

LEMMA DispatchReleaseStep ==
  ASSUME IInv, NEW c \in Conts, DispatchRelease(c)
  PROVE  CoreInv' /\ AbsNext
<1>1. PICK s \in Releasing : OnAt(pc, s, c, "dispatch")
  BY AtOn DEF DispatchRelease, Releasing
<1>2. rel[c] = "releasing" /\ prep[c] \in {"ready", "failed"}
  BY <1>1, ContFacts DEF ContOK
<1>3. UNCHANGED <<prep, hand, made>> /\ (Advance \/ Abort)
  BY DEF DispatchRelease
<1>4. MovesAt(c)
  BY <1>1, <1>3, Placed, ContFacts
<1>5. CASE native' = native
  <2>1. \/ rel' = rel
        \/ (prep[c] = "failed" \/ native[c] = "released") /\ rel' = [rel EXCEPT ![c] = "released"]
        \/ prep[c] # "failed" /\ rel' = [rel EXCEPT ![c] = "refused"]
        \/ native[c] = "prepared" /\ HelperReleases(c)
    BY DEF DispatchRelease, CompleteContinuationRelease
  <2>2. ~(native[c] = "prepared" /\ HelperReleases(c))
    BY <1>5, ContFacts DEF HelperReleases, TypeOK
  <2> QED BY <1>2, <1>3, <1>4, <1>5, <2>1, <2>2, ReleaseReported
<1>6. CASE /\ prep[c] = "ready" /\ native[c] = "prepared" /\ HelperReleases(c)
           /\ rel' = rel \/ rel' = [rel EXCEPT ![c] = "released"]
  <2>1. RowsOf(c)
    BY <1>3, <1>6, ContFacts DEF RowsOf, TypeOK, HelperReleases
  <2>2. native'[c] = "released" /\ rel'[c] \in {"releasing", "released"} /\ prep'[c] = "ready" /\ made'[c] = 1
    BY <1>2, <1>3, <1>6, ContFacts DEF TypeOK, HelperReleases
  <2>3. ContOK(prep'[c], rel'[c], native'[c], pc', c)
    BY <1>3, <2>2, EnterOn DEF ContOK
  <2>4. Prepared[c] = "ready" /\ Released[c] = "none" /\ Prepared' = Prepared
    BY <1>2, <1>3, <1>6, Reported, PreparedSame, ContFacts DEF Outcome
  <2>5. Released' = Released \/ Released' = [Released EXCEPT ![c] = "released"]
    BY <1>6, ReleasedSame, ReleasedOp, ContFacts DEF Outcome
  <2> QED BY <1>3, <1>4, <1>6, <2>1, <2>2, <2>3, <2>4, <2>5, AbsRelease, ContHere, ContFacts
<1> QED BY <1>2, <1>5, <1>6 DEF DispatchRelease, CompleteContinuationRelease

LEMMA RecoverReleaseStep ==
  ASSUME IInv, NEW c \in Conts, RecoverRelease(c)
  PROVE  CoreInv' /\ AbsNext
<1>1. PICK s \in Releasing : OnAt(pc, s, c, "enter")
  BY AtOn DEF RecoverRelease, Enter, Releasing
<1>2. rel[c] = "releasing"
  BY DEF RecoverRelease, Enter, Work, Recoverable, RecoverableHandoff, Applicable, ApplicableHandoff
<1>3. UNCHANGED <<prep, hand, native, made>>
  BY DEF RecoverRelease, helper
<1>4. CASE Advance \/ Abort
  <2>1. MovesAt(c)
    BY <1>1, <1>4, Placed, ContFacts
  <2>2. \/ rel' = rel
        \/ (prep[c] = "failed" \/ native[c] = "released") /\ rel' = [rel EXCEPT ![c] = "released"]
        \/ native[c] = "consumed" /\ rel' = [rel EXCEPT ![c] = "failed"]
    BY DEF RecoverRelease, CompleteContinuationRelease
  <2> QED BY <1>2, <1>3, <1>4, <2>1, <2>2, ReleaseReported
<1>5. CASE Goto("dispatch") /\ rel' = rel
  <2>1. MovesAt(c) /\ RowsOf(c)
    BY <1>1, <1>3, <1>5, Placed, ContFacts DEF RowsOf
  <2>2. \A s2, step2 : OnAt(pc', s2, c, step2) => step2 = "dispatch"
    BY <1>1, <1>5, GotoOn, ContFacts
  <2>3. ContOK(prep'[c], rel'[c], native'[c], pc', c)
    BY <1>2, <1>3, <1>5, <2>2, ContFacts DEF ContOK
  <2> QED BY <1>3, <1>5, <2>1, <2>3, StillRefines, ContHere, ContFacts DEF Still
<1> QED BY <1>4, <1>5 DEF RecoverRelease
-----------------------------------------------------------------------------
(***************************************************************************)
(* Handoffs and their releases                                             *)
(***************************************************************************)
LEMMA HandFacts ==
  ASSUME IInv, NEW h \in Hands
  PROVE  /\ h \in Ops /\ TypeOK /\ PcInv
         /\ hand[h] \in {"none", "allocating", "materializing", "workspace_registered", "recovery_required", "ready"}
         /\ rel[h] \in {"none", "releasing", "released", "failed", "refused"}
         /\ native[h] \in {"none", "prepared", "consumed", "released"}
         /\ HandOK(hand[h], rel[h], native[h], pc, h) /\ made[h] = IF native[h] = "none" THEN 0 ELSE 1
<1>1. h \in Ops
  BY DEF Ops
<1> QED BY <1>1 DEF IInv, TypeOK, HandInv, MadeInv

(* A step before the dispatch, whatever unfinished phase it writes.         *)
LEMMA HandWaits ==
  ASSUME IInv, NEW h \in Hands, NEW s \in {"recover_handoff", "apply_handoff"}, NEW step, OnAt(pc, s, h, step),
         native[h] = "none", UNCHANGED <<prep, rel, native, made>>,
         \/ hand' = hand
         \/ \E phase \in {"allocating", "materializing", "workspace_registered", "recovery_required"} :
                hand' = [hand EXCEPT ![h] = phase],
         \/ Abort
         \/ \E to \in BeforeDispatch : Goto(to) /\ (to \in {"register", "prepare"} => hand'[h] = "workspace_registered")
  PROVE  CoreInv' /\ AbsNext
<1>1. MovesAt(h)
  BY Placed, HandFacts
<1>2. RowsOf(h)
  BY HandFacts DEF RowsOf, TypeOK
<1>3. hand[h] # "ready" /\ rel[h] = "none"
  BY HandFacts DEF HandOK
<1>4. hand'[h] # "ready" /\ rel'[h] = "none" /\ native'[h] = "none"
  BY <1>3, HandFacts DEF TypeOK
<1>5. ASSUME OnAt(pc', "apply_hrelease", h, "dispatch") PROVE FALSE
  BY <1>5, EnterOn, GotoOn, HandFacts
<1>10. ASSUME NEW s2, NEW step2 \in {"register", "prepare"}, OnAt(pc', s2, h, step2)
      PROVE  hand'[h] = "workspace_registered"
  BY <1>10, EnterOn, GotoOn, HandFacts
<1>6. HandOK(hand'[h], rel'[h], native'[h], pc', h)
  BY <1>4, <1>5, <1>10 DEF HandOK
<1>7. Prepared' = Prepared
  <2>1. ASSUME NEW phase \in {"allocating", "materializing", "workspace_registered", "recovery_required"},
               hand' = [hand EXCEPT ![h] = phase]
        PROVE  Prepared' = Prepared
    <3>1. Prepared' = [Prepared EXCEPT ![h] = Outcome(phase)]
      BY <2>1, PreparedHand, HandFacts
    <3>2. Prepared[h] = Outcome(hand[h]) /\ Outcome(hand[h]) = Outcome(phase)
      BY <1>3, <2>1, Reported, HandFacts DEF Outcome
    <3> QED BY <3>1, <3>2 DEF Prepared
  <2> QED BY <2>1, PreparedSame
<1>8. AbsNext
  BY <1>7, ReleasedSame DEF AbsNext, Abstract!vars
<1> QED BY <1>1, <1>2, <1>6, <1>8, HandHere, HandFacts

(* A step that writes no row of the handoff.                                *)
LEMMA HandStill ==
  ASSUME IInv, NEW h \in Hands, NEW s, NEW step, OnAt(pc, s, h, step), Still,
         Advance \/ Abort \/ Deferred \/ Goto("map")
  PROVE  CoreInv' /\ AbsNext
<1>1. MovesAt(h) /\ RowsOf(h)
  BY Placed, HandFacts DEF RowsOf, Still
<1>2. \A s2, step2 : OnAt(pc', s2, h, step2) => step2 \in {"enter", "map"}
  BY EnterOn, GotoOn, HandFacts
<1>3. HandOK(hand'[h], rel'[h], native'[h], pc', h)
  BY <1>2, HandFacts DEF HandOK, Still, BeforeDispatch
<1> QED BY <1>1, <1>3, StillRefines, HandHere, HandFacts DEF Still

(* A session the helper reports as prepared completes the record.           *)
LEMMA Published ==
  ASSUME IInv, NEW h \in Hands, NEW s, NEW step, OnAt(pc, s, h, step), hand[h] # "ready", PublishPrepared(h),
         UNCHANGED <<prep, rel, native, made>>
  PROVE  CoreInv' /\ AbsNext
<1>1. native[h] = "prepared" /\ hand' = [hand EXCEPT ![h] = "ready"] /\ Goto("map")
  BY DEF PublishPrepared, CompleteContinuationHandoffPreparation
<1>2. MovesAt(h) /\ RowsOf(h)
  BY <1>1, Placed, HandFacts DEF RowsOf, TypeOK
<1>3. \A s2, step2 : OnAt(pc', s2, h, step2) => step2 = "map"
  BY <1>1, GotoOn, HandFacts
<1>4. hand'[h] = "ready" /\ rel[h] = "none"
  BY <1>1, HandFacts DEF TypeOK, HandOK
<1>5. HandOK(hand'[h], rel'[h], native'[h], pc', h)
  BY <1>1, <1>3, <1>4 DEF HandOK, BeforeDispatch
<1>6. Prepared' = [Prepared EXCEPT ![h] = "ready"] /\ Prepared[h] = "none"
  BY <1>1, PreparedHand, Reported, HandFacts DEF Outcome
<1>7. AbsNext
  BY <1>1, <1>6, AbsReportPrepared, ReleasedSame, HandFacts
<1> QED BY <1>2, <1>5, <1>7, HandHere, HandFacts

LEMMA BeforeDispatchSteps ==
  ASSUME IInv, NEW h \in Hands,
         ApplyHandoff(h) \/ RealizeWorkspace(h) \/ CompleteWorkspace(h) \/ RegisterHandoffWorkspace(h)
  PROVE  CoreInv' /\ AbsNext
<1>1. CASE ApplyHandoff(h)
  <2>1. OnAt(pc, "apply_handoff", h, "enter") /\ native[h] = "none"
    BY <1>1, AtOn, HandFacts DEF ApplyHandoff, Enter, HandOK
  <2>2. UNCHANGED <<prep, rel, native, made>>
    BY <1>1 DEF ApplyHandoff, helper
  <2>3. (hand' = hand /\ Abort) \/ (hand' = [hand EXCEPT ![h] = "allocating"] /\ Goto("realize"))
    BY <1>1 DEF ApplyHandoff, PutContinuationHandoffPreparation
  <2> QED BY <2>1, <2>2, <2>3, HandWaits DEF BeforeDispatch
<1>2. CASE RealizeWorkspace(h)
  <2>1. PICK s \in Handling, step \in BeforeDispatch : OnAt(pc, s, h, step)
    BY <1>2, InOn DEF RealizeWorkspace, BeforeDispatch
  <2>2. UNCHANGED <<prep, rel, native, made>>
    BY <1>2 DEF RealizeWorkspace, helper
  <2>3. /\ hand' = hand \/ hand' = [hand EXCEPT ![h] = "materializing"]
        /\ Abort \/ \E to \in BeforeDispatch \ {"register", "prepare"} : Goto(to)
    BY <1>2 DEF RealizeWorkspace, SetContinuationHandoffPhase, BeforeDispatch
  <2>4. native[h] = "none"
    BY <2>1, HandFacts DEF HandOK
  <2> QED BY <2>1, <2>2, <2>3, <2>4, HandWaits DEF Handling
<1>3. CASE CompleteWorkspace(h)
  <2>1. PICK s \in Handling : OnAt(pc, s, h, "registered")
    BY <1>3, InOn DEF CompleteWorkspace
  <2>2. UNCHANGED <<prep, rel, native, made>> /\ hand' = [hand EXCEPT ![h] = "workspace_registered"] /\ Goto("register")
    BY <1>3 DEF CompleteWorkspace, SetContinuationHandoffPhase, helper
  <2>3. native[h] = "none" /\ hand'[h] = "workspace_registered"
    BY <2>1, <2>2, HandFacts DEF HandOK, BeforeDispatch, TypeOK
  <2> QED BY <2>1, <2>2, <2>3, HandWaits DEF Handling, BeforeDispatch
<1>4. CASE RegisterHandoffWorkspace(h)
  <2>1. PICK s \in Handling : OnAt(pc, s, h, "register")
    BY <1>4, InOn DEF RegisterHandoffWorkspace
  <2>2. UNCHANGED <<prep, rel, native, made, hand>> /\ (Goto("prepare") \/ Abort)
    BY <1>4 DEF RegisterHandoffWorkspace, rows, helper
  <2>3. native[h] = "none" /\ hand'[h] = "workspace_registered"
    BY <2>1, <2>2, HandFacts DEF HandOK, BeforeDispatch
  <2> QED BY <2>1, <2>2, <2>3, HandWaits DEF Handling, BeforeDispatch
<1> QED BY <1>1, <1>2, <1>3, <1>4

LEMMA PrepareHandoffStep ==
  ASSUME IInv, NEW h \in Hands, PrepareHandoff(h)
  PROVE  CoreInv' /\ AbsNext
<1>1. PICK s \in Handling : OnAt(pc, s, h, "prepare")
  BY InOn DEF PrepareHandoff
<1>2. native[h] = "none" /\ UNCHANGED <<prep, rel>>
  BY <1>1, HandFacts DEF HandOK, BeforeDispatch, PrepareHandoff
<1>3. hand[h] = "workspace_registered" /\ rel[h] = "none" /\ made[h] = 0 /\ Prepared[h] = "none"
  BY <1>1, <1>2, Reported, HandFacts DEF HandOK, Outcome
<1>4. CASE UNCHANGED helper /\ Abort /\ (hand' = hand \/ hand' = [hand EXCEPT ![h] = "recovery_required"])
  BY <1>1, <1>2, <1>4, HandWaits DEF helper, Handling
<1>5. CASE /\ HelperPrepares(h)
           /\ \/ hand' = [hand EXCEPT ![h] = "ready"] /\ Goto("map")
              \/ (hand' = hand \/ hand' = [hand EXCEPT ![h] = "recovery_required"]) /\ Abort
  <2>1. MovesAt(h) /\ RowsOf(h)
    BY <1>1, <1>2, <1>5, Placed, HandFacts DEF RowsOf, TypeOK, HelperPrepares
  <2>2. hand'[h] \in {"workspace_registered", "recovery_required", "ready"} /\ native'[h] = "prepared" /\ made'[h] = 1
    BY <1>3, <1>5, HandFacts DEF TypeOK, HelperPrepares
  <2>3. \A s2, step2 : OnAt(pc', s2, h, step2) => step2 \in {"enter", "map"}
    BY <1>1, <1>5, EnterOn, GotoOn, HandFacts
  <2>4. HandOK(hand'[h], rel'[h], native'[h], pc', h)
    BY <1>2, <1>3, <2>2, <2>3 DEF HandOK, BeforeDispatch
  <2>5. Prepared' = Prepared \/ Prepared' = [Prepared EXCEPT ![h] = "ready"]
    <3>1. CASE hand' = hand
      BY <1>2, <3>1, PreparedSame
    <3>2. CASE hand' = [hand EXCEPT ![h] = "recovery_required"]
      <4>1. Prepared' = [Prepared EXCEPT ![h] = Outcome("recovery_required")]
        BY <1>2, <3>2, PreparedHand, HandFacts
      <4>2. Outcome("recovery_required") = "none"
        BY DEF Outcome
      <4> QED BY <1>3, <4>1, <4>2 DEF Prepared
    <3>3. CASE hand' = [hand EXCEPT ![h] = "ready"]
      <4>1. Prepared' = [Prepared EXCEPT ![h] = Outcome("ready")]
        BY <1>2, <3>3, PreparedHand, HandFacts
      <4> QED BY <4>1 DEF Outcome
    <3> QED BY <1>5, <3>1, <3>2, <3>3
  <2>6. AbsNext
    BY <1>2, <1>3, <1>5, <2>5, AbsPrepare, ReleasedSame, HandFacts
  <2> QED BY <2>1, <2>2, <2>4, <2>6, HandHere
<1>6. /\ HelperPrepares(h) \/ UNCHANGED helper
      /\ \/ HelperPrepares(h) /\ hand' = [hand EXCEPT ![h] = "ready"] /\ Goto("map")
         \/ Abort /\ (hand' = hand \/ hand' = [hand EXCEPT ![h] = "recovery_required"])
  BY DEF PrepareHandoff, CompleteContinuationHandoffPreparation, SetContinuationHandoffPhase
<1> QED BY <1>4, <1>5, <1>6

LEMMA RecoverHandoffStep ==
  ASSUME IInv, NEW h \in Hands, RecoverHandoff(h)
  PROVE  CoreInv' /\ AbsNext
<1>1. PICK s \in {"recover_handoff", "apply_handoff"} : OnAt(pc, s, h, "enter")
  BY AtOn DEF RecoverHandoff, Enter
<1>2. hand[h] # "ready" /\ UNCHANGED <<prep, rel, native, made>>
  BY DEF RecoverHandoff, helper
<1>3. CASE PublishPrepared(h)
  BY <1>1, <1>2, <1>3, Published
<1>4. CASE hand' = hand /\ Abort
  BY <1>1, <1>2, <1>4, HandStill DEF Still
<1>5. CASE native[h] = "none" /\ hand' = hand /\ (Goto("realize") \/ Goto("registered"))
  BY <1>1, <1>2, <1>5, HandWaits DEF BeforeDispatch
<1>6. CASE hand[h] = "materializing" /\ RecoverMaterializedHandoff(h)
  <2>1. native[h] = "none"
    BY <1>6, HandFacts DEF HandOK
  <2> QED BY <1>4, <1>5, <1>6, <2>1 DEF RecoverMaterializedHandoff
<1>7. CASE RecoverRegisteredHandoff(h)
  BY <1>3, <1>4, <1>5, <1>7 DEF RecoverRegisteredHandoff
<1>8. CASE RecoverOtherHandoff(h)
  BY <1>3, <1>4, <1>8 DEF RecoverOtherHandoff
<1> QED BY <1>6, <1>7, <1>8 DEF RecoverHandoff

LEMMA ObservationSteps ==
  ASSUME IInv, NEW h \in Hands, MapSource(h) \/ ReobserveHandoff(h) \/ ApplyTarget(h)
  PROVE  CoreInv' /\ AbsNext
<1>1. CASE MapSource(h)
  <2>1. \E s \in Handling : OnAt(pc, s, h, "map")
    BY <1>1, InOn DEF MapSource
  <2>2. Still /\ Advance
    BY <1>1 DEF MapSource, Still, helper
  <2> QED BY <2>1, <2>2, HandStill
<1>2. CASE ReobserveHandoff(h)
  <2>1. OnAt(pc, "recover_handoff", h, "enter")
    BY <1>2, AtOn DEF ReobserveHandoff, Enter
  <2>2. Still /\ (Advance \/ Abort \/ Deferred \/ Goto("map"))
    BY <1>2 DEF ReobserveHandoff, Still, helper, rows
  <2> QED BY <2>1, <2>2, HandStill
<1>3. CASE ApplyTarget(h)
  <2>1. OnAt(pc, "apply_target", h, "enter")
    BY <1>3, AtOn DEF ApplyTarget, Enter
  <2>2. Still /\ (Advance \/ Abort)
    BY <1>3 DEF ApplyTarget, Still, helper
  <2> QED BY <2>1, <2>2, HandStill
<1> QED BY <1>1, <1>2, <1>3

LEMMA HandoffReleaseSteps ==
  ASSUME IInv, NEW h \in Hands,
         ApplyHandoffRelease(h) \/ DispatchHandoffRelease(h) \/ RecoverHandoffRelease(h)
  PROVE  CoreInv' /\ AbsNext
<1>1. CASE ApplyHandoffRelease(h)
  <2>1. OnAt(pc, "apply_hrelease", h, "enter") /\ rel[h] = "none"
    BY <1>1, AtOn DEF ApplyHandoffRelease, Enter
  <2>2. UNCHANGED <<prep, hand, native, made>>
    BY <1>1 DEF ApplyHandoffRelease, helper
  <2>3. CASE rel' = rel /\ Abort
    BY <2>1, <2>2, <2>3, HandStill DEF Still
  <2>4. CASE hand[h] = "ready" /\ rel' = [rel EXCEPT ![h] = "releasing"] /\ Goto("dispatch")
    <3>1. MovesAt(h) /\ RowsOf(h)
      BY <2>1, <2>2, <2>4, Placed, HandFacts DEF RowsOf, TypeOK
    <3>2. rel'[h] = "releasing" /\ hand'[h] = "ready" /\ native'[h] # "none"
      BY <2>2, <2>4, HandFacts DEF TypeOK, HandOK
    <3>3. \A s2, step2 : OnAt(pc', s2, h, step2) => step2 = "dispatch"
      BY <2>1, <2>4, GotoOn, HandFacts
    <3>4. HandOK(hand'[h], rel'[h], native'[h], pc', h)
      BY <3>2, <3>3 DEF HandOK, BeforeDispatch
    <3>5. Released' = [Released EXCEPT ![h] = Outcome("releasing")]
      BY <2>4, ReleasedOp, HandFacts
    <3>6. Released[h] = Outcome("none") /\ Outcome("none") = Outcome("releasing")
      BY <2>1, Reported, HandFacts DEF Outcome
    <3>7. Released' = Released
      BY <3>5, <3>6 DEF Released
    <3>8. AbsNext
      BY <2>2, <3>7, PreparedSame DEF AbsNext, Abstract!vars
    <3> QED BY <2>2, <3>1, <3>4, <3>8, HandHere, HandFacts
  <2> QED BY <1>1, <2>3, <2>4 DEF ApplyHandoffRelease, PutContinuationHandoffRelease
<1>2. CASE DispatchHandoffRelease(h)
  <2>1. OnAt(pc, "apply_hrelease", h, "dispatch") /\ UNCHANGED <<prep, hand, made>> /\ (Advance \/ Abort)
    BY <1>2, AtOn DEF DispatchHandoffRelease
  <2>2. rel[h] = "releasing" /\ hand[h] = "ready"
    BY <2>1, HandFacts DEF HandOK
  <2>3. CASE native' = native /\ rel' = rel
    BY <2>1, <2>3, HandStill DEF Still
  <2>4. CASE native[h] = "prepared" /\ HelperReleases(h) /\ (rel' = rel \/ rel' = [rel EXCEPT ![h] = "released"])
    <3>1. MovesAt(h) /\ RowsOf(h)
      BY <2>1, <2>4, Placed, HandFacts DEF RowsOf, TypeOK, HelperReleases
    <3>2. native'[h] = "released" /\ hand'[h] = "ready" /\ made'[h] = 1
      BY <2>1, <2>2, <2>4, HandFacts DEF TypeOK, HelperReleases
    <3>3. HandOK(hand'[h], rel'[h], native'[h], pc', h)
      BY <2>1, <3>2, EnterOn DEF HandOK, BeforeDispatch
    <3>4. Prepared[h] = "ready" /\ Released[h] = "none" /\ Prepared' = Prepared
      BY <2>1, <2>2, Reported, PreparedSame, HandFacts DEF Outcome
    <3>5. Released' = Released \/ Released' = [Released EXCEPT ![h] = "released"]
      BY <2>4, ReleasedSame, ReleasedOp, HandFacts DEF Outcome
    <3>6. AbsNext
      BY <2>1, <2>4, <3>4, <3>5, AbsRelease, HandFacts
    <3> QED BY <3>1, <3>2, <3>3, <3>6, HandHere
  <2> QED BY <1>2, <2>3, <2>4 DEF DispatchHandoffRelease, CompleteContinuationHandoffRelease
<1>3. CASE RecoverHandoffRelease(h)
  <2>1. PICK s \in {"recover_hrelease", "apply_hrelease"} : OnAt(pc, s, h, "enter")
    BY <1>3, AtOn DEF RecoverHandoffRelease, Enter
  <2>2. rel[h] = "releasing" /\ hand[h] = "ready"
    BY <1>3, HandFacts DEF RecoverHandoffRelease, Enter, Work, Recoverable, RecoverableHandoff, Applicable,
                           ApplicableHandoff, HandOK
  <2>3. UNCHANGED <<prep, hand, native, made>> /\ (Advance \/ Abort)
    BY <1>3 DEF RecoverHandoffRelease, helper
  <2>4. CASE rel' = rel
    BY <2>1, <2>3, <2>4, HandStill DEF Still
  <2>5. CASE native[h] = "released" /\ rel' = [rel EXCEPT ![h] = "released"]
    <3>1. MovesAt(h) /\ RowsOf(h)
      BY <2>1, <2>3, <2>5, Placed, HandFacts DEF RowsOf, TypeOK
    <3>2. HandOK(hand'[h], rel'[h], native'[h], pc', h)
      BY <2>2, <2>3, <2>5, EnterOn DEF HandOK, BeforeDispatch
    <3>3. Released' = [Released EXCEPT ![h] = "released"] /\ Released[h] = "none"
      BY <2>2, <2>5, ReleasedOp, Reported, HandFacts DEF Outcome
    <3>4. AbsNext
      BY <2>3, <2>5, <3>3, AbsReportReleased, PreparedSame, HandFacts
    <3> QED BY <2>3, <3>1, <3>2, <3>4, HandHere, HandFacts
  <2> QED BY <1>3, <2>4, <2>5 DEF RecoverHandoffRelease, CompleteContinuationHandoffRelease
<1> QED BY <1>1, <1>2, <1>3
-----------------------------------------------------------------------------
(***************************************************************************)
(* Everything else: the ends of a pass, restores, the control plane, the   *)
(* first message                                                           *)
(***************************************************************************)
LEMMA EntryKeeps ==
  ASSUME IInv, Still, Advance \/ Abort \/ Deferred \/ pc' = Idle \/ pc' = [i |-> 1, at |-> "enter"]
  PROVE  CoreInv' /\ AbsNext
<1>1. PcInv' /\ \A s, o, step : OnAt(pc', s, o, step) => step = "enter"
  BY EnterOn
<1>2. ASSUME NEW c \in Conts PROVE ContOK(prep'[c], rel'[c], native'[c], pc', c)
  BY <1>1, <1>2, ContFacts DEF ContOK, Still
<1>3. ASSUME NEW h \in Hands PROVE HandOK(hand'[h], rel'[h], native'[h], pc', h)
  BY <1>1, <1>3, HandFacts DEF HandOK, BeforeDispatch, Still
<1> QED BY <1>1, <1>2, <1>3, StillRefines DEF CoreInv, ContInv, HandInv, MadeInv, Still, IInv

LEMMA RestoreSteps ==
  ASSUME IInv, NEW r \in Rests, ApplyRestore(r) \/ RestoreStep(r)
  PROVE  CoreInv' /\ AbsNext
<1>1. Still
  BY DEF ApplyRestore, RestoreStep, Still, helper
<1>2. \E s \in {"recover_restore", "apply_restore"} : \E step : OnAt(pc, s, r, step)
  BY AtOn, InOn DEF ApplyRestore, RestoreStep, Enter
<1>3. Advance \/ Abort \/ \E to : Goto(to)
  BY DEF ApplyRestore, RestoreStep
<1>4. ASSUME NEW to, Goto(to) PROVE CoreInv' /\ AbsNext
  <2>1. PcInv' /\ \A s2, o2, step2 : OnAt(pc', s2, o2, step2) => s2 \in {"recover_restore", "apply_restore"}
    BY <1>2, <1>4, GotoOn DEF IInv
  <2>2. ASSUME NEW c \in Conts PROVE ContOK(prep'[c], rel'[c], native'[c], pc', c)
    BY <1>1, <2>1, <2>2, ContFacts DEF ContOK, Still, Releasing
  <2>3. ASSUME NEW h \in Hands PROVE HandOK(hand'[h], rel'[h], native'[h], pc', h)
    BY <1>1, <2>1, <2>3, HandFacts DEF HandOK, Handling, Still
  <2> QED BY <1>1, <2>1, <2>2, <2>3, StillRefines DEF CoreInv, ContInv, HandInv, MadeInv, Still, IInv
<1> QED BY <1>1, <1>3, <1>4, EntryKeeps

LEMMA ConsumeStep ==
  ASSUME IInv, NEW o \in Ops, Consume(o)
  PROVE  CoreInv' /\ AbsNext
<1>1. native[o] = "prepared" /\ native' = [native EXCEPT ![o] = "consumed"] /\ UNCHANGED <<prep, rel, hand, made, pc>>
  BY DEF Consume, rows
<1>2. TypeOK /\ PcInv /\ MadeInv
  BY DEF IInv
<1>3. \A x \in Ops : native'[x] = "none" <=> native[x] = "none"
  BY <1>1, <1>2 DEF TypeOK
<1>4. ASSUME NEW c \in Conts PROVE ContOK(prep'[c], rel'[c], native'[c], pc', c)
  BY <1>1, <1>3, <1>4, ContFacts DEF ContOK
<1>5. ASSUME NEW h \in Hands PROVE HandOK(hand'[h], rel'[h], native'[h], pc', h)
  BY <1>1, <1>3, <1>5, HandFacts DEF HandOK
<1>6. Abstract!Consume(o)
  BY <1>1, PreparedSame, ReleasedSame DEF Abstract!Consume
<1>7. AbsNext
  BY <1>6 DEF AbsNext, Abstract!Next
<1>8. MadeInv' /\ PcInv'
  BY <1>1, <1>2, <1>3 DEF MadeInv, PcInv
<1> QED BY <1>4, <1>5, <1>7, <1>8 DEF CoreInv, ContInv, HandInv

LEMMA OutsideSteps ==
  ASSUME IInv, MoveManifest \/ MoveAuthority \/ UNCHANGED vars
  PROVE  CoreInv' /\ AbsNext
<1>1. Still /\ pc' = pc
  BY DEF MoveManifest, MoveAuthority, vars, rows, helper, Still
<1> QED BY <1>1, StillRefines DEF CoreInv, PcInv, ContInv, HandInv, MadeInv, Still, IInv

LEMMA CoreStep ==
  ASSUME IInv, [Next]_vars
  PROVE  CoreInv' /\ AbsNext
<1>1. CASE Pass \/ SkipOperation \/ EndPass \/ Crash
  <2>1. Still /\ (Advance \/ pc' = Idle \/ pc' = [i |-> 1, at |-> "enter"])
    BY <1>1 DEF Pass, SkipOperation, EndPass, Crash, Still, rows, helper
  <2> QED BY <2>1, EntryKeeps
<1>2. ASSUME NEW c \in Conts, ContinuationStep(c) PROVE CoreInv' /\ AbsNext
  BY <1>2, ApplyContinuationStep, FailContinuationStep, PrepareContinuationStep, RecoverContinuationStep,
     ApplyReleaseStep, DispatchReleaseStep, RecoverReleaseStep DEF ContinuationStep
<1>3. ASSUME NEW h \in Hands, HandoffStep(h) PROVE CoreInv' /\ AbsNext
  BY <1>3, BeforeDispatchSteps, PrepareHandoffStep, RecoverHandoffStep, ObservationSteps, HandoffReleaseSteps
     DEF HandoffStep
<1>4. ASSUME NEW r \in Rests, ApplyRestore(r) \/ RestoreStep(r) PROVE CoreInv' /\ AbsNext
  BY <1>4, RestoreSteps
<1>5. ASSUME NEW o \in Ops, Consume(o) PROVE CoreInv' /\ AbsNext
  BY <1>5, ConsumeStep
<1> QED BY <1>1, <1>2, <1>3, <1>4, <1>5, OutsideSteps DEF Next, Step

-----------------------------------------------------------------------------
(***************************************************************************)
(* Types                                                                   *)
(***************************************************************************)
LEMMA ContTypes ==
  ASSUME IInv, NEW c \in Conts, ContinuationStep(c)
  PROVE  TypeOK'
<1> USE DEF IInv, TypeOK
<1>1. c \in Ops
  BY DEF Ops
<1>2. CASE ApplyContinuation(c)
  BY <1>1, <1>2 DEF ApplyContinuation, helper, PutContinuationPreparation
<1>3. CASE FailContinuation(c)
  BY <1>1, <1>3 DEF FailContinuation, helper, CompleteContinuationPreparation
<1>4. CASE RecoverContinuation(c)
  BY <1>1, <1>4 DEF RecoverContinuation, helper, CompleteContinuationPreparation
<1>5. CASE ApplyRelease(c)
  BY <1>1, <1>5 DEF ApplyRelease, helper, PutContinuationRelease
<1>6. CASE DispatchRelease(c)
  BY <1>1, <1>6 DEF DispatchRelease, HelperReleases, CompleteContinuationRelease
<1>7. CASE RecoverRelease(c)
  BY <1>1, <1>7 DEF RecoverRelease, helper, CompleteContinuationRelease
<1>8. CASE PrepareContinuation(c)
  <2>1. made[c] + 1 \in 0..2
    BY <1>1 DEF MadeInv
  <2> QED BY <1>1, <1>8, <2>1 DEF PrepareContinuation, HelperPrepares, CompleteContinuationPreparation, helper
<1> QED BY <1>2, <1>3, <1>4, <1>5, <1>6, <1>7, <1>8 DEF ContinuationStep

LEMMA HandTypes ==
  ASSUME IInv, NEW h \in Hands, HandoffStep(h)
  PROVE  TypeOK'
<1> USE DEF IInv, TypeOK
<1>1. h \in Ops /\ h \in Projects
  BY DEF Ops, Projects
<1>2. CASE ApplyHandoff(h)
  BY <1>1, <1>2 DEF ApplyHandoff, helper, PutContinuationHandoffPreparation
<1>3. CASE RealizeWorkspace(h)
  BY <1>1, <1>3 DEF RealizeWorkspace, helper, SetContinuationHandoffPhase
<1>4. CASE CompleteWorkspace(h)
  BY <1>1, <1>4 DEF CompleteWorkspace, helper, SetContinuationHandoffPhase
<1>5. CASE RegisterHandoffWorkspace(h)
  BY <1>1, <1>5 DEF RegisterHandoffWorkspace, rows, helper
<1>6. CASE MapSource(h)
  BY <1>1, <1>6 DEF MapSource, helper
<1>7. CASE ReobserveHandoff(h)
  BY <1>1, <1>7 DEF ReobserveHandoff, rows, helper
<1>8. CASE ApplyTarget(h)
  BY <1>1, <1>8 DEF ApplyTarget, helper
<1>9. CASE ApplyHandoffRelease(h)
  BY <1>1, <1>9 DEF ApplyHandoffRelease, helper, PutContinuationHandoffRelease
<1>10. CASE DispatchHandoffRelease(h)
  BY <1>1, <1>10 DEF DispatchHandoffRelease, HelperReleases, CompleteContinuationHandoffRelease
<1>11. CASE RecoverHandoffRelease(h)
  BY <1>1, <1>11 DEF RecoverHandoffRelease, helper, CompleteContinuationHandoffRelease
<1>12. CASE PrepareHandoff(h)
  <2>1. made[h] + 1 \in 0..2
    BY <1>1 DEF MadeInv
  <2> QED BY <1>1, <1>12, <2>1 DEF PrepareHandoff, HelperPrepares, CompleteContinuationHandoffPreparation,
                                  SetContinuationHandoffPhase, helper
<1>13. CASE RecoverHandoff(h)
  <2>1. hand' = hand \/ hand' = [hand EXCEPT ![h] = "ready"]
    BY <1>13 DEF RecoverHandoff, RecoverMaterializedHandoff, RecoverRegisteredHandoff, RecoverOtherHandoff, PublishPrepared,
                 CompleteContinuationHandoffPreparation
  <2> QED BY <1>13, <2>1 DEF RecoverHandoff, helper
<1> QED BY <1>2, <1>3, <1>4, <1>5, <1>6, <1>7, <1>8, <1>9, <1>10, <1>11, <1>12, <1>13 DEF HandoffStep

LEMMA RestTypes ==
  ASSUME IInv, NEW r \in Rests, ApplyRestore(r) \/ RestoreStep(r)
  PROVE  TypeOK'
<1> USE DEF IInv, TypeOK
<1>1. r \in Projects
  BY DEF Projects
<1>2. CASE ApplyRestore(r)
  BY <1>2 DEF ApplyRestore, PutRestoreOperation, helper
<1>3. CASE RestoreStep(r)
  BY <1>1, <1>3 DEF RestoreStep, CompleteRestoreOperation, helper
<1> QED BY <1>2, <1>3

LEMMA TypeStep ==
  ASSUME IInv, [Next]_vars
  PROVE  TypeOK'
<1> USE DEF IInv, TypeOK
<1>1. CASE Pass \/ SkipOperation \/ EndPass \/ Crash \/ UNCHANGED vars
  BY <1>1 DEF Pass, SkipOperation, EndPass, Crash, vars, rows, helper
<1>2. CASE MoveManifest
  <2>1. listed' \subseteq Kinds \X (Ops \union Rests)
    BY <1>2 DEF MoveManifest
  <2> QED BY <1>2, <2>1 DEF MoveManifest, rows, helper
<1>3. CASE MoveAuthority
  BY <1>3 DEF MoveAuthority, rows, helper
<1>4. ASSUME NEW o \in Ops, Consume(o) PROVE TypeOK'
  BY <1>4 DEF Consume, rows
<1> QED BY <1>1, <1>2, <1>3, <1>4, ContTypes, HandTypes, RestTypes DEF Next, Step

-----------------------------------------------------------------------------
(***************************************************************************)
(* The theorems                                                            *)
(***************************************************************************)
LEMMA InitInv == Init => IInv
<1> SUFFICES ASSUME Init PROVE IInv
  OBVIOUS
<1>1. TypeOK
  BY DEF Init, TypeOK, Kinds, Situations
<1>2. PcInv /\ \A s, o, step : OnAt(pc, s, o, step) => step = "enter"
  BY DEF Init, Idle, PcInv, OnAt
<1>3. ASSUME NEW c \in Conts PROVE ContOK(prep[c], rel[c], native[c], pc, c)
  <2>1. prep[c] = "none" /\ rel[c] = "none" /\ native[c] = "none"
    BY DEF Init, Ops
  <2> QED BY <1>2, <2>1 DEF ContOK
<1>4. ASSUME NEW h \in Hands PROVE HandOK(hand[h], rel[h], native[h], pc, h)
  <2>1. hand[h] = "none" /\ rel[h] = "none" /\ native[h] = "none"
    BY DEF Init, Ops
  <2> QED BY <1>2, <2>1 DEF HandOK, BeforeDispatch
<1> QED BY <1>1, <1>2, <1>3, <1>4 DEF IInv, ContInv, HandInv, MadeInv, Init

LEMMA StepInv == IInv /\ [Next]_vars => IInv'
BY CoreStep, TypeStep DEF IInv, CoreInv

(* The rows, the helper's sessions and the pass stay consistent: a phase    *)
(* that proves no preparation was sent is true, a reported session exists.  *)
THEOREM Inductive == Spec => []IInv
BY InitInv, StepInv, PTL DEF Spec

(* Type correctness of the controller's rows and of the helper.             *)
THEOREM TypeCorrect == Spec => []TypeOK
<1>1. IInv => TypeOK
  BY DEF IInv
<1> QED BY Inductive, <1>1, PTL

(* The controller implements the one-shot operation: whatever crashes, lost *)
(* answers and changes of the manifest there are, a continuation or handoff *)
(* makes one session, which is consumed or released and never both, and its *)
(* rows only ever report what has happened for good.                        *)
THEOREM Refinement == Spec => ImplementsOneShot
<1>1. Init => Abstract!Init
  <2> SUFFICES ASSUME Init PROVE Abstract!Init
    OBVIOUS
  <2>1. Outcome("none") = "none"
    BY DEF Outcome
  <2>2. Prepared = [o \in Ops |-> "none"] /\ Released = [o \in Ops |-> "none"]
    BY <2>1 DEF Init, Prepared, Released, Ops
  <2> QED BY <2>2 DEF Init, Abstract!Init
<1>2. IInv /\ [Next]_vars => [Abstract!Next]_(Abstract!vars)
  BY CoreStep DEF AbsNext
<1> QED BY Inductive, <1>1, <1>2, PTL DEF Spec, ImplementsOneShot, Abstract!Spec

(* The helper is asked for one session of an operation at most.             *)
THEOREM OneSession == Spec => [](\A o \in Ops : made[o] <= 1)
<1>1. IInv => \A o \in Ops : made[o] <= 1
  BY DEF IInv, MadeInv
<1> QED BY Inductive, <1>1, PTL

(***************************************************************************)
(* Cells                                                                   *)
(***************************************************************************)

(* The durable receipt: once a preparation is more than pending, the row    *)
(* has the receipt of the child, and only such a receipt is accepted.       *)
ReceiptInv ==
    /\ op # None /\ op.phase # "pending" => op.receipt # 0 /\ op.receipt = child.receipt
    /\ op # None /\ op.phase = "pending" => op.receipt = 0
    /\ heard.receipt # 0 => op # None /\ op.phase # "pending" /\ heard.receipt = op.receipt

(* A write the pass gave up on is one the journal would still take.         *)
LateInv ==
    late # None =>
        /\ fmt = 3 /\ pos \in {"idle", "send", "journal"}
        /\ op = None => late.phase = "pending" /\ late.receipt = 0 /\ late.ctl = NoReport
        /\ op # None =>
             /\ late.phase = op.phase /\ late.receipt = op.receipt /\ late.ctl = op.ctl
             /\ late.e.rev >= op.e.rev /\ late.e.grant >= op.e.grant
             /\ op.e.ph = "execute" => late.e.ph = "execute"

Over == {"terminal", "exhausted"}
CancelledInv == Cancelled => child.st \in Over
AnswerInv == job.ans # None /\ job.ans.st = "terminal" => child.st \in Over

Ready(x) == x.phase = "terminal" /\ x.rep.obs = "ready"
OutcomeInv ==
    /\ exe # None /\ exe.phase = "exhausted" => exe.rep.obs = "exhausted"
    /\ row # None /\ row.exh => row.rep.obs = "exhausted"

(* What a position of the pass has established.                             *)
PlaceInv ==
    /\ pos # "idle" => job.e # None
    /\ pos \notin {"idle", "send"} /\ fmt = 3 => ValidateManagedServiceV3(job.e)
    /\ pos = "journal" => fmt = 3
    /\ pos \in {"prepare", "lease", "received", "report", "acked", "execute", "effect",
                "answered", "quiesce", "cancel", "stopped"} => fmt = 3 /\ op # None
    /\ pos \in {"lease", "received"} => op.phase = "pending"
    /\ pos = "received" => job.r # 0 /\ job.r = child.receipt
    /\ pos \in {"report", "acked"} => op.phase # "pending"
    /\ pos \in {"execute", "effect", "answered"} => job.e.ph = "execute"
    /\ pos \in {"effect", "answered"} => exe # None /\ ~Settled
    /\ pos \in {"cancel", "stopped"} /\ exe # None => ~Ready(exe)
    /\ pos \in {"answered", "stopped", "launched", "revoked"} => job.ans # None
    /\ pos \in {"server", "launched", "revoke", "revoked"} => row # None

CellInv == CellTypeOK /\ ReceiptInv /\ LateInv /\ CancelledInv /\ AnswerInv /\ OutcomeInv /\ PlaceInv

USE DEF control, store

(* The bounds, one by one.                                                  *)
LEMMA Bounded ==
  /\ MaxRev \in Nat \ {0} /\ MaxGrants \in Nat /\ MaxReceipts \in Nat
  /\ MaxModes \in Nat /\ RefreshMax \in Nat /\ MaxCellFaults \in Nat
BY CellBounds

(* What the journal and the rows are given is of their types.               *)
LEMMA ReportTyped ==
  ASSUME NEW e \in Entries, NEW obs \in Observations
  PROVE  Report(obs, e) \in CellReports
BY DEF Report, CellReports, Entries

LEMMA JournaledTyped ==
  ASSUME op \in Optional(Preparations), NEW e \in Entries
  PROVE  Journaled(e) \in Preparations
<1>1. CASE op = None
  <2>1. NewOperation(e) \in Preparations
    BY Bounded DEF NewOperation, Preparations, Receipts, CellReports
  <2> QED BY <1>1, <2>1 DEF Journaled
<1>2. CASE op # None
  <2>1. op \in Preparations
    BY <1>2 DEF Optional
  <2> DEFINE n == IF op.refreshes < RefreshMax /\ op.e.mode # e.mode THEN op.refreshes + 1 ELSE op.refreshes
  <2>2. n \in 0..RefreshMax
    BY <2>1, Bounded DEF Preparations
  <2>3. Journaled(e) = [op EXCEPT !.e = e, !.refreshes = n]
    BY <1>2 DEF Journaled
  <2> HIDE DEF n
  <2> QED BY <2>1, <2>2, <2>3 DEF Preparations
<1> QED BY <1>1, <1>2

LEMMA ExecutionTyped ==
  ASSUME exe \in Executions, job.e \in Entries, NEW o,
         o.phase \in {"pending", "admitted", "terminal", "exhausted", "unknown"}, o.obs \in Observations
  PROVE  PutCellV3Execution(o) => exe' \in Executions
<1>1. Report(o.obs, job.e) \in CellReports
  BY ReportTyped
<1>2. [exe EXCEPT !.phase = o.phase, !.rep = Report(o.obs, job.e)] \in Executions
  <2> DEFINE rep == Report(o.obs, job.e)
  <2>1. rep \in CellReports
    BY <1>1
  <2> HIDE DEF rep
  <2>2. [exe EXCEPT !.phase = o.phase, !.rep = rep] \in Executions
    BY <2>1 DEF Executions
  <2> QED BY <2>2 DEF rep
<1> QED BY <1>2 DEF PutCellV3Execution

LEMMA RowTyped ==
  ASSUME row \in CellRows, job.e \in Entries,
         NEW phase \in {"pending", "terminal", "failed", "exhausted", "unknown"},
         NEW exh \in BOOLEAN, NEW obs \in Observations
  PROVE  UpdateCellOperation(phase, exh, obs) => row' \in CellRows
<1>1. Report(obs, job.e) \in CellReports
  BY ReportTyped
<1>2. [e |-> job.e, phase |-> phase, exh |-> exh, rep |-> Report(obs, job.e)] \in CellRows
  BY <1>1 DEF CellRows
<1> QED BY <1>2 DEF UpdateCellOperation

LEMMA UnknownTyped ==
  ASSUME row \in CellRows, job.e \in Entries, StoreCellUnknown
  PROVE  row' \in CellRows
<1>1. CASE row.exh
  BY <1>1, RowTyped DEF StoreCellUnknown, Observations
<1>2. CASE ~row.exh
  BY <1>2, RowTyped DEF StoreCellUnknown, Observations
<1> QED BY <1>1, <1>2

LEMMA Member == ASSUME NEW b, NEW x, NEW S, b = (x \in S) PROVE b \in BOOLEAN
BY SMT

(* What becomes of a child: it keeps its credential and, once over, its end. *)
ChildMoves ==
  /\ child' \in Children /\ child'.receipt = child.receipt
  /\ child.st \in Over => child'.st \in Over

LEMMA ChildEffect ==
  ASSUME child \in Children, NEW c,
         \/ c = child
         \/ c = Stopping(child)
         \/ \E g \in 0..MaxGrants : child.st = "prepared" /\ c = Admitted(g)
         \/ child.st = "absent" /\ c = [child EXCEPT !.st = "running"]
         \/ child.st \in {"prepared", "running"} /\ \E out \in Outcomes :
              c = [child EXCEPT !.st = "terminal", !.out = out]
         \/ c = [child EXCEPT !.st = "exhausted"]
  PROVE  /\ c \in Children /\ c.receipt = child.receipt
         /\ child.st \in Over => c.st \in Over
<1>1. CASE c = child
  BY <1>1
<1>2. CASE c = Stopping(child)
  <2>1. \E b : b = (child.st \in {"prepared", "running"}) /\ c = [child EXCEPT !.stop = b]
    BY <1>2 DEF Stopping
  <2>2. PICK b : b = (child.st \in {"prepared", "running"}) /\ c = [child EXCEPT !.stop = b]
    BY <2>1
  <2>3. b = (child.st \in {"prepared", "running"})
    BY <2>2
  <2>4. b \in BOOLEAN
    BY <2>3, Member
  <2> QED BY <2>2, <2>4 DEF Children
<1>3. CASE \E g \in 0..MaxGrants : child.st = "prepared" /\ c = Admitted(g)
  BY <1>3 DEF Admitted, Children, ChildStates, Over
<1>4. CASE child.st = "absent" /\ c = [child EXCEPT !.st = "running"]
  BY <1>4 DEF Children, ChildStates, Over
<1>5. CASE child.st \in {"prepared", "running"} /\ \E out \in Outcomes :
              c = [child EXCEPT !.st = "terminal", !.out = out]
  BY <1>5 DEF Children, ChildStates, Over, Optional
<1>6. CASE c = [child EXCEPT !.st = "exhausted"]
  BY <1>6 DEF Children, ChildStates, Over
<1> QED BY <1>1, <1>2, <1>3, <1>4, <1>5, <1>6

(* The control plane's steps.                                               *)
LEMMA ControlStep ==
  ASSUME CellInv,
         \/ \E des \in States : ControlsDesired(des)
         \/ IssueGrant \/ RenewGrant \/ RepairMode \/ GrantExpires
  PROVE  CellInv'
<1>1. UNCHANGED <<fmt, heard, store, child, late, pos, job, cellFaults>>
  BY DEF ControlsDesired, IssueGrant, RenewGrant, RepairMode, GrantExpires
<1>2. want \in Entries /\ expired \subseteq Grants /\ modes \in 0..MaxModes
  BY DEF CellInv, CellTypeOK
<1>3. want' \in Entries
  <2>1. CASE \E des \in States : ControlsDesired(des)
    <3>1. PICK des \in States : ControlsDesired(des)
      BY <2>1
    <3>2. want.rev \in 1..MaxRev /\ want.rev < MaxRev
      BY <1>2, <3>1 DEF Entries, ControlsDesired
    <3>3. want.rev + 1 \in 1..MaxRev
      BY <3>2, Bounded
    <3> QED BY <1>2, <3>1, <3>3 DEF ControlsDesired, Entries
  <2>2. CASE IssueGrant
    <3>1. 1 \in 0..MaxGrants
      BY <2>2, Bounded DEF IssueGrant
    <3> QED BY <1>2, <2>2, <3>1 DEF IssueGrant, Entries, Phases
  <2>3. CASE RenewGrant
    <3>1. want.grant \in 0..MaxGrants /\ want.grant < MaxGrants
      BY <1>2, <2>3 DEF RenewGrant, Entries
    <3>2. want.grant + 1 \in 0..MaxGrants
      BY <3>1, Bounded
    <3> QED BY <1>2, <2>3, <3>2 DEF RenewGrant, Entries
  <2>4. CASE RepairMode
    BY <1>2, <2>4 DEF RepairMode, Entries
  <2>5. CASE GrantExpires
    BY <1>2, <2>5 DEF GrantExpires
  <2> QED BY <2>1, <2>2, <2>3, <2>4, <2>5
<1>4. expired' \subseteq Grants
  <2>1. want.grant \in 0..MaxGrants
    BY <1>2 DEF Entries
  <2>2. want.grant # 0 => want.grant \in Grants
    BY <2>1, Bounded DEF Grants
  <2>3. CASE GrantExpires
    BY <1>2, <2>2, <2>3 DEF GrantExpires
  <2>4. CASE ~GrantExpires
    BY <1>2, <2>4 DEF ControlsDesired, IssueGrant, RenewGrant, RepairMode
  <2> QED BY <2>3, <2>4
<1>5. modes' \in 0..MaxModes
  <2>1. CASE RepairMode
    BY <1>2, <2>1, Bounded DEF RepairMode
  <2>2. CASE ~RepairMode
    BY <1>2, <2>2 DEF ControlsDesired, IssueGrant, RenewGrant, GrantExpires
  <2> QED BY <2>1, <2>2
<1>6. CellTypeOK'
  BY <1>1, <1>3, <1>4, <1>5 DEF CellInv, CellTypeOK
<1>7. ReceiptInv' /\ CancelledInv' /\ OutcomeInv'
  BY <1>1 DEF CellInv, ReceiptInv, CancelledInv, Cancelled, OutcomeInv
<1>8. LateInv' /\ AnswerInv'
  BY <1>1 DEF CellInv, LateInv, AnswerInv
<1>9. PlaceInv'
  BY <1>1 DEF CellInv, PlaceInv, Settled, Ready, ValidateManagedServiceV3
<1> QED BY <1>6, <1>7, <1>8, <1>9 DEF CellInv

(* A step of the child over rows and reports that stay.                     *)
LEMMA ChildRows ==
  ASSUME CellInv, UNCHANGED <<fmt, heard, store>>, ChildMoves
  PROVE  ReceiptInv' /\ CancelledInv' /\ OutcomeInv'
<1>1. ReceiptInv'
  BY DEF CellInv, ReceiptInv, ChildMoves
<1>2. CancelledInv'
  BY DEF CellInv, CancelledInv, Cancelled, ChildMoves
<1>3. OutcomeInv'
  BY DEF CellInv, OutcomeInv
<1> QED BY <1>1, <1>2, <1>3

LEMMA ChildStep ==
  ASSUME CellInv, Child
  PROVE  CellInv'
<1>1. UNCHANGED <<fmt, control, store, late, pos, job, modes, cellFaults>>
  BY DEF Child, ChildEnds, ChildInterrupted
<1>2. child \in Children
  BY DEF CellInv, CellTypeOK
<1>3. ChildMoves
  <2>1. \/ child.st \in {"prepared", "running"} /\ \E out \in Outcomes :
              child' = [child EXCEPT !.st = "terminal", !.out = out]
        \/ child' = [child EXCEPT !.st = "exhausted"]
    BY DEF Child, ChildEnds, ChildInterrupted, Outcomes
  <2> QED BY <1>2, <2>1, ChildEffect DEF ChildMoves
<1>4. CellTypeOK'
  BY <1>1, <1>3 DEF CellInv, CellTypeOK, ChildMoves
<1>5. LateInv' /\ AnswerInv'
  BY <1>1, <1>3 DEF CellInv, LateInv, AnswerInv, ChildMoves
<1>6. PlaceInv'
  BY <1>1, <1>3 DEF CellInv, PlaceInv, Settled, Ready, ValidateManagedServiceV3, ChildMoves
<1> QED BY <1>1, <1>3, <1>4, <1>5, <1>6, ChildRows DEF CellInv

(* No row, entry or answer is None.                                         *)
LEMMA Absent ==
  /\ None \notin Entries /\ None \notin Preparations /\ None \notin Executions
  /\ None \notin CellRows /\ None \notin Answers
  /\ None \notin Observations /\ None \notin ChildStates /\ None \notin Outcomes
BY NoRow

LEMMA Typed ==
  ASSUME CellTypeOK
  PROVE  /\ op # None => op \in Preparations
         /\ exe # None => exe \in Executions
         /\ row # None => row \in CellRows
         /\ late # None => late \in Preparations
         /\ job.e # None => job.e \in Entries
         /\ job.ans # None => job.ans \in Answers
         /\ child \in Children /\ job \in Jobs /\ want \in Entries
BY DEF CellTypeOK, Optional, Jobs

(* What the journal would write.                                            *)
LEMMA JournalStep ==
  ASSUME op \in Optional(Preparations), NEW e \in Entries, JournalAccepts(e)
  PROVE  /\ Journaled(e) \in Preparations /\ Journaled(e).e = e
         /\ op = None => /\ Journaled(e).phase = "pending" /\ Journaled(e).receipt = 0
                         /\ Journaled(e).ctl = NoReport
         /\ op # None =>
              /\ Journaled(e).phase = op.phase /\ Journaled(e).receipt = op.receipt
              /\ Journaled(e).ctl = op.ctl
              /\ e.rev >= op.e.rev /\ e.grant >= op.e.grant
              /\ op.e.ph = "execute" => e.ph = "execute"
<1>1. Journaled(e) \in Preparations
  BY JournaledTyped
<1>2. CASE op = None
  BY <1>1, <1>2 DEF Journaled, NewOperation
<1>3. CASE op # None
  <2>1. op \in Preparations
    BY <1>3 DEF Optional
  <2>2. /\ e.rev >= op.e.rev /\ (op.e.ph = "execute" => e.ph = "execute")
        /\ (op.e.grant # 0 /\ op.e.grant # e.grant) => e.grant > op.e.grant
    BY <1>3 DEF JournalAccepts, ValidTransition, Renews
  <2>3. op.e.grant \in Nat /\ e.grant \in Nat
    BY <2>1, Bounded DEF Preparations, Entries
  <2>4. e.grant >= op.e.grant
    BY <2>2, <2>3
  <2>5. /\ Journaled(e).phase = op.phase /\ Journaled(e).receipt = op.receipt
        /\ Journaled(e).ctl = op.ctl /\ Journaled(e).e = e
    BY <1>3, <2>1 DEF Journaled, Preparations
  <2> QED BY <1>1, <1>3, <2>2, <2>4, <2>5
<1> QED BY <1>2, <1>3

LEMMA PutCellV3OperationKeeps ==
  ASSUME CellInv, PutCellV3Operation
  PROVE  CellInv'
<1> DEFINE new == Journaled(job.e)
<1>1. fmt = 3 /\ job.e \in Entries /\ ValidateManagedServiceV3(job.e) /\ late = None
      /\ op \in Optional(Preparations) /\ fmt' = fmt /\ heard' = heard /\ exe' = exe
      /\ row' = row /\ child' = child
  BY Typed DEF CellInv, PlaceInv, PutCellV3Operation, JournalFree, CellTypeOK
<1>2. \/ op' = op /\ late' = None
      \/ JournalAccepts(job.e) /\ op' = new /\ late' = None
      \/ JournalAccepts(job.e) /\ op' = op /\ late' = new /\ pos' = "send"
  BY <1>1 DEF PutCellV3Operation, EndCellPass, Go
<1>3. JournalAccepts(job.e) =>
        /\ new \in Preparations /\ new.e = job.e /\ new # None
        /\ op = None => new.phase = "pending" /\ new.receipt = 0 /\ new.ctl = NoReport
        /\ op # None =>
             /\ new.phase = op.phase /\ new.receipt = op.receipt /\ new.ctl = op.ctl
             /\ new.e.rev >= op.e.rev /\ new.e.grant >= op.e.grant
             /\ op.e.ph = "execute" => new.e.ph = "execute"
  BY <1>1, JournalStep, Absent
<1>4. \/ pos' = "send" /\ job' = [NoJob EXCEPT !.e = job.e]
      \/ /\ JournalAccepts(job.e) /\ op' = new /\ late' = None /\ job' = job
         /\ pos' = Next3(job.e)
  BY <1>1 DEF PutCellV3Operation, EndCellPass, Go
<1>5. Next3(job.e) \in {"quiesce", "prepare", "execute"}
      /\ (Next3(job.e) = "execute" => job.e.ph = "execute")
  BY <1>1 DEF Next3, ValidateManagedServiceV3
<1> HIDE DEF new
<1>6. CellTypeOK'
  <2>1. op' \in Optional(Preparations) /\ late' \in Optional(Preparations)
    BY <1>1, <1>2, <1>3 DEF Optional
  <2>2. pos' \in Positions /\ job' \in Jobs
    BY <1>1, <1>4, <1>5, Bounded DEF CellInv, CellTypeOK, Positions, Jobs, NoJob, Optional, Receipts
  <2>3. cellFaults' \in 0..MaxCellFaults
    BY Bounded DEF CellInv, CellTypeOK, PutCellV3Operation, CellFault
  <2> QED BY <1>1, <2>1, <2>2, <2>3 DEF CellInv, CellTypeOK, PutCellV3Operation
<1>7. ReceiptInv'
  BY <1>1, <1>2, <1>3 DEF CellInv, ReceiptInv
<1>8. LateInv'
  BY <1>1, <1>2, <1>3 DEF LateInv
<1>9. CancelledInv'
  BY <1>1, <1>2, <1>3, Absent DEF CellInv, CancelledInv, Cancelled, NoReport, Observations
<1>10. AnswerInv'
  BY <1>1, <1>4 DEF CellInv, AnswerInv, NoJob
<1>11. OutcomeInv'
  BY <1>1 DEF CellInv, OutcomeInv
<1>12. PlaceInv'
  BY <1>1, <1>3, <1>4, <1>5, Absent
     DEF CellInv, PlaceInv, Settled, Ready, ValidateManagedServiceV3, NoJob
<1> QED BY <1>6, <1>7, <1>8, <1>9, <1>10, <1>11, <1>12 DEF CellInv

(* A pass that goes no further.                                             *)
LEMMA PassEnds ==
  ASSUME CellInv, pos # "idle", EndCellPass, cellFaults' \in 0..MaxCellFaults,
         UNCHANGED <<fmt, control, store, child, late, modes>>
  PROVE  CellInv'
<1>1. pos' = "send" /\ job' = [NoJob EXCEPT !.e = job.e]
  BY DEF EndCellPass, Go
<1>2. job.e \in Optional(Entries) /\ job.e # None
  BY DEF CellInv, CellTypeOK, PlaceInv, Jobs
<1>3. CellTypeOK'
  <2>1. job' \in Jobs
    BY <1>1, <1>2, Bounded DEF Jobs, NoJob, Optional, Receipts
  <2> QED BY <1>1, <2>1 DEF CellInv, CellTypeOK, Positions
<1>4. ReceiptInv' /\ CancelledInv' /\ OutcomeInv'
  BY DEF CellInv, ReceiptInv, CancelledInv, Cancelled, OutcomeInv
<1>5. LateInv' /\ AnswerInv'
  BY <1>1 DEF CellInv, LateInv, AnswerInv, NoJob
<1>6. PlaceInv'
  BY <1>1, <1>2 DEF PlaceInv, NoJob
<1> QED BY <1>3, <1>4, <1>5, <1>6 DEF CellInv

LEMMA WaitKeeps ==
  ASSUME CellInv,
         \/ JournalBusy \/ PrepareRefused \/ LeaseRefused \/ PrepareEffectRefused
         \/ ExecuteRefused \/ ExecuteWaits \/ LaunchRefused
  PROVE  CellInv'
<1>1. pos # "idle" /\ EndCellPass /\ UNCHANGED <<fmt, control, store, child, late, modes>>
      /\ (cellFaults' = cellFaults \/ CellFault)
  BY DEF JournalBusy, PrepareRefused, LeaseRefused, PrepareEffectRefused,
         ExecuteRefused, ExecuteWaits, LaunchRefused, RefusedAt
<1>2. cellFaults' \in 0..MaxCellFaults
  BY <1>1, Bounded DEF CellInv, CellTypeOK, CellFault
<1> QED BY <1>1, <1>2, PassEnds

LEMMA CellCrashKeeps ==
  ASSUME CellInv, CellCrash
  PROVE  CellInv'
<1>1. CellTypeOK'
  <2>1. pos' \in Positions /\ job' \in Jobs /\ cellFaults' \in 0..MaxCellFaults
    BY Bounded DEF CellInv, CellCrash, CellFault, CellTypeOK, Positions, Jobs, NoJob,
       Optional, Receipts
  <2>2. op' \in Optional(Preparations) /\ late' \in Optional(Preparations)
    BY DEF CellInv, CellCrash, CellFault, CellTypeOK, Optional
  <2> QED BY <2>1, <2>2 DEF CellInv, CellTypeOK, CellCrash
<1>2. ReceiptInv'
  BY DEF CellInv, CellCrash, ReceiptInv
<1>3. LateInv'
  BY DEF CellInv, CellCrash, LateInv
<1>4. CancelledInv'
  BY DEF CellInv, CellCrash, CancelledInv, Cancelled
<1>5. AnswerInv'
  BY DEF CellInv, CellCrash, AnswerInv, NoJob
<1>6. OutcomeInv'
  BY DEF CellInv, CellCrash, OutcomeInv
<1>7. PlaceInv'
  BY DEF CellInv, CellCrash, PlaceInv
<1> QED BY <1>1, <1>2, <1>3, <1>4, <1>5, <1>6, <1>7 DEF CellInv

LEMMA LateWriteEndsKeeps ==
  ASSUME CellInv, LateWriteEnds
  PROVE  CellInv'
<1>1. CellTypeOK'
  <2>1. pos' \in Positions /\ job' \in Jobs /\ cellFaults' \in 0..MaxCellFaults
    BY CellBounds DEF CellInv, LateWriteEnds, CellTypeOK, Positions, Jobs, NoJob, Optional
  <2>2. op' \in Optional(Preparations) /\ late' \in Optional(Preparations)
    BY DEF CellInv, LateWriteEnds, CellTypeOK, Optional
  <2> QED BY <2>1, <2>2 DEF CellInv, CellTypeOK, LateWriteEnds
<1>2. ReceiptInv'
  BY DEF CellInv, LateWriteEnds, ReceiptInv, LateInv
<1>3. LateInv'
  BY DEF CellInv, LateWriteEnds, LateInv
<1>4. CancelledInv'
  BY NoRow DEF CellInv, LateWriteEnds, CancelledInv, Cancelled, LateInv, Observations,
     CellReports, NoReport, Report
<1>5. AnswerInv'
  BY DEF CellInv, LateWriteEnds, AnswerInv
<1>6. OutcomeInv'
  BY DEF CellInv, LateWriteEnds, OutcomeInv
<1>7. PlaceInv'
  BY DEF CellInv, LateWriteEnds, PlaceInv, LateInv
<1> QED BY <1>1, <1>2, <1>3, <1>4, <1>5, <1>6, <1>7 DEF CellInv

LEMMA BeginPassKeeps ==
  ASSUME CellInv, BeginPass
  PROVE  CellInv'
<1>1. CellTypeOK'
  <2>1. pos' \in Positions /\ job' \in Jobs /\ cellFaults' \in 0..MaxCellFaults
    BY Bounded DEF CellInv, BeginPass, Go, ValidateManagedServiceV2, CellTypeOK,
       Positions, Jobs, NoJob, Optional, Receipts
  <2> QED BY <2>1 DEF CellInv, CellTypeOK, BeginPass
<1>2. ReceiptInv'
  BY DEF CellInv, BeginPass, ReceiptInv
<1>3. LateInv'
  <2>1. late # None => fmt = 3
    BY DEF CellInv, LateInv
  <2>2. fmt = 3 => pos' = "journal"
    BY DEF BeginPass, Go
  <2> QED BY <2>1, <2>2 DEF CellInv, LateInv, BeginPass
<1>4. CancelledInv'
  BY DEF CellInv, BeginPass, CancelledInv, Cancelled
<1>5. AnswerInv'
  BY DEF CellInv, BeginPass, Go, ValidateManagedServiceV2, AnswerInv, NoJob
<1>6. OutcomeInv'
  BY DEF CellInv, BeginPass, OutcomeInv
<1>7. PlaceInv'
  BY NoRow DEF CellInv, BeginPass, Go, ValidateManagedServiceV2, PlaceInv, CellTypeOK
<1> QED BY <1>1, <1>2, <1>3, <1>4, <1>5, <1>6, <1>7 DEF CellInv

LEMMA ReplayPreparationKeeps ==
  ASSUME CellInv, ReplayPreparation
  PROVE  CellInv'
<1>1. CellTypeOK'
  <2>1. pos' \in Positions /\ job' \in Jobs /\ cellFaults' \in 0..MaxCellFaults
    BY CellBounds DEF CellInv, ReplayPreparation, Go, CellTypeOK, Positions, Jobs, NoJob,
       Optional
  <2> QED BY <2>1 DEF CellInv, CellTypeOK, ReplayPreparation
<1>2. ReceiptInv'
  BY DEF CellInv, ReplayPreparation, ReceiptInv
<1>3. LateInv'
  BY DEF CellInv, ReplayPreparation, LateInv
<1>4. CancelledInv'
  BY DEF CellInv, ReplayPreparation, CancelledInv, Cancelled
<1>5. AnswerInv'
  BY DEF CellInv, ReplayPreparation, Go, AnswerInv
<1>6. OutcomeInv'
  BY DEF CellInv, ReplayPreparation, OutcomeInv
<1>7. PlaceInv'
  BY DEF CellInv, ReplayPreparation, Go, PlaceInv
<1> QED BY <1>1, <1>2, <1>3, <1>4, <1>5, <1>6, <1>7 DEF CellInv

LEMMA PutCellV3NativeContextKeeps ==
  ASSUME CellInv, PutCellV3NativeContext
  PROVE  CellInv'
<1>1. CellTypeOK'
  <2>1. pos' \in Positions /\ job' \in Jobs /\ cellFaults' \in 0..MaxCellFaults
    BY CellBounds DEF CellInv, PutCellV3NativeContext, Go, CellTypeOK, Positions, Jobs,
       NoJob, Optional
  <2>2. op' \in Optional(Preparations) /\ late' \in Optional(Preparations)
    <3>1. op \in Preparations
      BY Typed DEF CellInv, PlaceInv, PutCellV3NativeContext
    <3>2. [op EXCEPT !.parent = TRUE] \in Preparations
      BY <3>1 DEF Preparations
    <3> QED BY <3>2 DEF CellInv, CellTypeOK, PutCellV3NativeContext, Optional
  <2> QED BY <2>1, <2>2 DEF CellInv, CellTypeOK, PutCellV3NativeContext
<1>2. ReceiptInv'
  BY DEF CellInv, PutCellV3NativeContext, ReceiptInv, PlaceInv
<1>3. LateInv'
  BY DEF CellInv, PutCellV3NativeContext, LateInv
<1>4. CancelledInv'
  BY DEF CellInv, PutCellV3NativeContext, CancelledInv, Cancelled, PlaceInv
<1>5. AnswerInv'
  BY DEF CellInv, PutCellV3NativeContext, Go, AnswerInv
<1>6. OutcomeInv'
  BY DEF CellInv, PutCellV3NativeContext, OutcomeInv
<1>7. PlaceInv'
  <2>1. op \in Preparations /\ op.phase = "pending"
    BY Typed DEF CellInv, PlaceInv, PutCellV3NativeContext
  <2>2. op' \in Preparations /\ op'.phase = "pending"
    BY <2>1 DEF Preparations, PutCellV3NativeContext
  <2> QED BY <2>2, Absent DEF CellInv, PlaceInv, PutCellV3NativeContext, Go, ValidateManagedServiceV3
<1> QED BY <1>1, <1>2, <1>3, <1>4, <1>5, <1>6, <1>7 DEF CellInv

LEMMA PrepareEffectKeeps ==
  ASSUME CellInv, PrepareEffect
  PROVE  CellInv'
<1>1. CellTypeOK'
  <2>1. pos' \in Positions /\ job' \in Jobs /\ cellFaults' \in 0..MaxCellFaults
    BY Bounded DEF CellInv, PrepareEffect, Go, CellFault, EndCellPass, CellTypeOK,
       Positions, Jobs, NoJob, Optional, Receipts
  <2>2. child' \in Children
    <3>1. child \in Children
      BY Typed DEF CellInv
    <3>2. PICK r \in 1..MaxReceipts : child' = [child EXCEPT !.st = "prepared", !.receipt = r]
      BY DEF PrepareEffect
    <3>3. r \in Receipts
      BY Bounded DEF Receipts
    <3> QED BY <3>1, <3>2, <3>3 DEF Children, ChildStates
  <2> QED BY <2>1, <2>2 DEF CellInv, CellTypeOK, PrepareEffect
<1>2. ReceiptInv'
  BY DEF CellInv, PrepareEffect, ReceiptInv, PlaceInv
<1>3. LateInv'
  BY DEF CellInv, PrepareEffect, LateInv
<1>4. CancelledInv'
  BY DEF CellInv, PrepareEffect, CancelledInv, Cancelled, Over
<1>5. AnswerInv'
  BY DEF CellInv, PrepareEffect, Go, EndCellPass, AnswerInv, Over, NoJob, CellTypeOK, Jobs
<1>6. OutcomeInv'
  BY DEF CellInv, PrepareEffect, OutcomeInv
<1>7. PlaceInv'
  BY DEF CellInv, PrepareEffect, Go, EndCellPass, PlaceInv, CellTypeOK, Jobs, NoJob
<1> QED BY <1>1, <1>2, <1>3, <1>4, <1>5, <1>6, <1>7 DEF CellInv

LEMMA PersistReceiptKeeps ==
  ASSUME CellInv, PersistReceipt
  PROVE  CellInv'
<1>1. CellTypeOK'
  <2>1. pos' \in Positions /\ job' \in Jobs /\ cellFaults' \in 0..MaxCellFaults
    BY DEF CellInv, PersistReceipt, Go, CellTypeOK, Positions, Jobs, PlaceInv, ReceiptInv
  <2>2. op' \in Optional(Preparations) /\ late' \in Optional(Preparations)
    <3>1. op \in Preparations /\ job.r \in Receipts
      BY Typed DEF CellInv, PlaceInv, PersistReceipt, Jobs
    <3>2. [op EXCEPT !.phase = "prepared", !.receipt = job.r] \in Preparations
      BY <3>1 DEF Preparations
    <3> QED BY <3>2 DEF CellInv, CellTypeOK, PersistReceipt, Optional
  <2> QED BY <2>1, <2>2 DEF CellInv, CellTypeOK, PersistReceipt
<1>2. ReceiptInv'
  BY DEF CellInv, PersistReceipt, ReceiptInv, PlaceInv
<1>3. LateInv'
  BY DEF CellInv, PersistReceipt, LateInv
<1>4. CancelledInv'
  BY DEF CellInv, PersistReceipt, CancelledInv, Cancelled, PlaceInv
<1>5. AnswerInv'
  BY DEF CellInv, PersistReceipt, Go, AnswerInv
<1>6. OutcomeInv'
  BY DEF CellInv, PersistReceipt, OutcomeInv
<1>7. PlaceInv'
  <2>1. op \in Preparations /\ job.r \in Receipts
    BY Typed DEF CellInv, PlaceInv, PersistReceipt, Jobs
  <2>2. op' \in Preparations /\ op'.phase = "prepared"
    BY <2>1 DEF Preparations, PersistReceipt
  <2>3. job'.e = job.e /\ pos' = "report"
    BY Typed DEF CellInv, PersistReceipt, Go, Jobs
  <2> QED BY <2>2, <2>3, Absent DEF CellInv, PlaceInv, PersistReceipt, ValidateManagedServiceV3
<1> QED BY <1>1, <1>2, <1>3, <1>4, <1>5, <1>6, <1>7 DEF CellInv

LEMMA ReportCellPreparationKeeps ==
  ASSUME CellInv, ReportCellPreparation
  PROVE  CellInv'
<1>1. CellTypeOK'
  <2>1. pos' \in Positions /\ job' \in Jobs /\ cellFaults' \in 0..MaxCellFaults
    BY Bounded DEF CellInv, ReportCellPreparation, Go, CellFault, EndCellPass, CellTypeOK,
       Positions, Jobs, NoJob, Optional, Receipts
  <2>2. want' \in Entries /\ heard' \in [receipt : Receipts, obs : Optional(Observations)]
    BY DEF CellInv, ReportCellPreparation, CellTypeOK, PlaceInv, ReceiptInv, Children
  <2> QED BY <2>1, <2>2 DEF CellInv, CellTypeOK, ReportCellPreparation
<1>2. ReceiptInv'
  BY DEF CellInv, ReportCellPreparation, ReceiptInv, PlaceInv, CellTypeOK
<1>3. LateInv'
  BY DEF CellInv, ReportCellPreparation, LateInv
<1>4. CancelledInv'
  BY DEF CellInv, ReportCellPreparation, CancelledInv, Cancelled, CellTypeOK
<1>5. AnswerInv'
  BY DEF CellInv, ReportCellPreparation, Go, EndCellPass, AnswerInv, NoJob
<1>6. OutcomeInv'
  BY DEF CellInv, ReportCellPreparation, OutcomeInv
<1>7. PlaceInv'
  BY DEF CellInv, ReportCellPreparation, Go, EndCellPass, PlaceInv, NoJob
<1> QED BY <1>1, <1>2, <1>3, <1>4, <1>5, <1>6, <1>7 DEF CellInv

LEMMA MarkReportedKeeps ==
  ASSUME CellInv, MarkReported
  PROVE  CellInv'
<1>1. CellTypeOK'
  <2>1. pos' \in Positions /\ job' \in Jobs /\ cellFaults' \in 0..MaxCellFaults
    BY Bounded DEF CellInv, MarkReported, EndCellPass, Go, CellTypeOK, Positions, Jobs,
       NoJob, Optional, Receipts
  <2>2. op' \in Optional(Preparations) /\ late' \in Optional(Preparations)
    BY DEF CellInv, MarkReported, CellTypeOK, Optional, PlaceInv, Preparations
  <2> QED BY <2>1, <2>2 DEF CellInv, CellTypeOK, MarkReported
<1>2. ReceiptInv'
  BY NoRow DEF CellInv, MarkReported, ReceiptInv, PlaceInv, CellTypeOK, Optional,
     Preparations
<1>3. LateInv'
  BY DEF CellInv, MarkReported, LateInv
<1>4. CancelledInv'
  BY DEF CellInv, MarkReported, CancelledInv, Cancelled, PlaceInv
<1>5. AnswerInv'
  BY DEF CellInv, MarkReported, EndCellPass, Go, AnswerInv, NoJob
<1>6. OutcomeInv'
  BY DEF CellInv, MarkReported, OutcomeInv
<1>7. PlaceInv'
  BY DEF CellInv, MarkReported, EndCellPass, Go, PlaceInv
<1> QED BY <1>1, <1>2, <1>3, <1>4, <1>5, <1>6, <1>7 DEF CellInv

LEMMA BeginExecutionKeeps ==
  ASSUME CellInv, BeginExecution
  PROVE  CellInv'
<1>1. CellTypeOK'
  <2>1. pos' \in Positions /\ job' \in Jobs /\ cellFaults' \in 0..MaxCellFaults
    BY CellBounds DEF CellInv, BeginExecution, NewExecution, Go, Settled, CellTypeOK,
       Positions, Jobs, NoJob, Optional
  <2>2. exe' \in Optional(Executions)
    <3>1. job.e \in Entries /\ (exe # None => exe \in Executions)
      BY Typed DEF CellInv, PlaceInv, BeginExecution
    <3>2. job.e.grant \in Grants
      BY <3>1, Bounded DEF CellInv, PlaceInv, BeginExecution, ValidateManagedServiceV3, Entries, Grants
    <3>3. NewExecution(job.e, "pending") \in Executions
      BY <3>2 DEF NewExecution, Executions, CellReports
    <3> QED BY <3>3 DEF CellInv, CellTypeOK, BeginExecution, Optional
  <2> QED BY <2>1, <2>2 DEF CellInv, CellTypeOK, BeginExecution
<1>2. ReceiptInv'
  BY DEF CellInv, BeginExecution, ReceiptInv
<1>3. LateInv'
  BY DEF CellInv, BeginExecution, LateInv
<1>4. CancelledInv'
  BY NoRow DEF CellInv, BeginExecution, NewExecution, CancelledInv, Cancelled,
     Observations, CellReports, NoReport, Report
<1>5. AnswerInv'
  BY DEF CellInv, BeginExecution, NewExecution, Go, AnswerInv
<1>6. OutcomeInv'
  BY DEF CellInv, BeginExecution, NewExecution, OutcomeInv
<1>7. PlaceInv'
  BY NoRow DEF CellInv, BeginExecution, NewExecution, Go, Settled, PlaceInv,
     ValidateManagedServiceV3, CellTypeOK, Optional, Executions, Jobs, Entries,
     Observations, ChildStates, Phases, States, CellReports, Grants
<1> QED BY <1>1, <1>2, <1>3, <1>4, <1>5, <1>6, <1>7 DEF CellInv

LEMMA ExecuteEffectKeeps ==
  ASSUME CellInv, ExecuteEffect
  PROVE  CellInv'
<1>1. ChildMoves
  <2>1. child \in Children /\ job.e \in Entries
    BY Typed DEF CellInv, PlaceInv, ExecuteEffect
  <2>2. job.e.grant \in 0..MaxGrants
    BY <2>1 DEF Entries
  <2>3. \/ child' = child
        \/ child.st = "prepared" /\ child' = Admitted(job.e.grant)
    BY DEF ExecuteEffect, Admit, Admissible
  <2> QED BY <2>1, <2>2, <2>3, ChildEffect DEF ChildMoves
<1>2. CellTypeOK'
  <2>1. pos' \in Positions /\ job' \in Jobs /\ cellFaults' \in 0..MaxCellFaults
    BY Bounded DEF CellInv, ExecuteEffect, Admit, Admitted, Admissible, Answered, Unknown,
       Refusal, CellFault, CellTypeOK, Positions, Jobs, Optional, Children, Answers,
       Entries, ChildStates, Phases, States
  <2>2. child' \in Children
    BY <1>1 DEF ChildMoves
  <2> QED BY <2>1, <2>2 DEF CellInv, CellTypeOK, ExecuteEffect
<1>3. ReceiptInv'
  BY <1>1, ChildRows DEF ExecuteEffect
<1>4. LateInv'
  BY DEF CellInv, ExecuteEffect, LateInv
<1>5. CancelledInv'
  BY <1>1, ChildRows DEF ExecuteEffect
<1>6. AnswerInv'
  BY NoRow DEF CellInv, ExecuteEffect, Admit, Admitted, Admissible, Answered, Unknown,
     Refusal, AnswerInv, Over, CellTypeOK, Jobs, Entries, ChildStates, Phases, States
<1>7. OutcomeInv'
  BY <1>1, ChildRows DEF ExecuteEffect
<1>8. PlaceInv'
  BY NoRow DEF CellInv, ExecuteEffect, Admit, Admitted, Admissible, Answered, Unknown,
     Refusal, PlaceInv, Settled, CellTypeOK, Optional, Children, Answers, Jobs, Entries,
     ChildStates, Phases, States
<1> QED BY <1>2, <1>3, <1>4, <1>5, <1>6, <1>7, <1>8 DEF CellInv

LEMMA StoreExecutionKeeps ==
  ASSUME CellInv, StoreExecution
  PROVE  CellInv'
<1>1. CellTypeOK'
  <2>1. pos' \in Positions /\ job' \in Jobs /\ cellFaults' \in 0..MaxCellFaults
    BY Bounded DEF CellInv, StoreExecution, PutCellV3Execution, ExecuteOutcome, Exhausts,
       Proved, RefusedBeforeAdmission, EndCellPass, Go, CellTypeOK, Positions, Jobs,
       NoJob, Optional, Receipts
  <2>2. exe' \in Optional(Executions)
    <3>1. exe \in Executions /\ job.e \in Entries
      BY Typed DEF CellInv, PlaceInv, StoreExecution
    <3> DEFINE o == ExecuteOutcome(job.ans)
    <3>2. /\ o.phase \in {"pending", "admitted", "terminal", "exhausted", "unknown"}
          /\ o.obs \in Observations
      BY DEF ExecuteOutcome, Observations
    <3>3. PutCellV3Execution(o)
      BY DEF StoreExecution
    <3> HIDE DEF o
    <3>4. exe' \in Executions
      BY <3>1, <3>2, <3>3, ExecutionTyped
    <3> QED BY <3>4 DEF Optional
  <2> QED BY <2>1, <2>2 DEF CellInv, CellTypeOK, StoreExecution
<1>2. ReceiptInv'
  BY DEF CellInv, StoreExecution, ReceiptInv
<1>3. LateInv'
  BY DEF CellInv, StoreExecution, LateInv
<1>4. CancelledInv'
  BY DEF CellInv, StoreExecution, PutCellV3Execution, ExecuteOutcome, Exhausts, Proved,
     RefusedBeforeAdmission, CancelledInv, Cancelled, NoReport, Report
<1>5. AnswerInv'
  BY DEF CellInv, StoreExecution, PutCellV3Execution, ExecuteOutcome, Exhausts, Proved,
     RefusedBeforeAdmission, EndCellPass, Go, AnswerInv, NoJob
<1>6. OutcomeInv'
  BY DEF CellInv, StoreExecution, PutCellV3Execution, ExecuteOutcome, Exhausts, Proved,
     RefusedBeforeAdmission, OutcomeInv, NoReport, Report
<1>7. PlaceInv'
  BY DEF CellInv, StoreExecution, PutCellV3Execution, ExecuteOutcome, Exhausts, Proved,
     RefusedBeforeAdmission, EndCellPass, Go, PlaceInv
<1> QED BY <1>1, <1>2, <1>3, <1>4, <1>5, <1>6, <1>7 DEF CellInv

LEMMA QuiesceKeeps ==
  ASSUME CellInv, Quiesce
  PROVE  CellInv'
<1>1. CellTypeOK'
  <2>1. pos' \in Positions /\ job' \in Jobs /\ cellFaults' \in 0..MaxCellFaults
    BY Bounded DEF CellInv, Quiesce, Quiet, EndCellPass, Go, NewExecution, CellTypeOK,
       Positions, Jobs, NoJob, Optional, Receipts
  <2>2. exe' \in Optional(Executions)
    <3>1. job.e \in Entries /\ ValidateManagedServiceV3(job.e)
      BY Typed DEF CellInv, PlaceInv, Quiesce
    <3>2. job.e.ph = "execute" => job.e.grant \in Grants
      BY <3>1, Bounded DEF ValidateManagedServiceV3, Entries, Grants
    <3>3. job.e.ph = "execute" => NewExecution(job.e, "unknown") \in Executions
      BY <3>2 DEF NewExecution, Executions, CellReports
    <3> QED BY <3>3 DEF CellInv, CellTypeOK, Quiesce, Optional
  <2> QED BY <2>1, <2>2 DEF CellInv, CellTypeOK, Quiesce
<1>2. ReceiptInv'
  BY DEF CellInv, Quiesce, ReceiptInv
<1>3. LateInv'
  BY DEF CellInv, Quiesce, LateInv
<1>4. CancelledInv'
  BY NoRow DEF CellInv, Quiesce, Quiet, NewExecution, CancelledInv, Cancelled,
     Observations, CellReports, NoReport, Report
<1>5. AnswerInv'
  BY DEF CellInv, Quiesce, Quiet, EndCellPass, Go, NewExecution, AnswerInv, NoJob
<1>6. OutcomeInv'
  BY DEF CellInv, Quiesce, Quiet, NewExecution, OutcomeInv
<1>7. PlaceInv'
  BY DEF CellInv, Quiesce, Quiet, EndCellPass, Go, NewExecution, PlaceInv, Ready, NoJob
<1> QED BY <1>1, <1>2, <1>3, <1>4, <1>5, <1>6, <1>7 DEF CellInv

LEMMA CancelEffectKeeps ==
  ASSUME CellInv, CancelEffect
  PROVE  CellInv'
<1>1. ChildMoves
  <2>1. child \in Children
    BY Typed DEF CellInv
  <2>2. child' \in {child, Stopping(child)}
    BY DEF CancelEffect, Interrupt
  <2> QED BY <2>1, <2>2, ChildEffect DEF ChildMoves
<1>2. CellTypeOK'
  <2>1. pos' \in Positions /\ job' \in Jobs /\ cellFaults' \in 0..MaxCellFaults
    BY Bounded DEF CellInv, CancelEffect, Interrupt, Stopping, Answered, Unknown,
       CellFault, CellTypeOK, Positions, Jobs, Optional, Children, Answers, Entries,
       ChildStates, Phases, States
  <2>2. child' \in Children
    BY <1>1 DEF ChildMoves
  <2> QED BY <2>1, <2>2 DEF CellInv, CellTypeOK, CancelEffect
<1>3. ReceiptInv'
  BY <1>1, ChildRows DEF CancelEffect
<1>4. LateInv'
  BY DEF CellInv, CancelEffect, LateInv
<1>5. CancelledInv'
  BY <1>1, ChildRows DEF CancelEffect
<1>6. AnswerInv'
  BY NoRow DEF CellInv, CancelEffect, Interrupt, Stopping, Answered, Unknown, AnswerInv,
     Over, CellTypeOK, Children, Jobs, Entries, ChildStates, Phases, States
<1>7. OutcomeInv'
  BY <1>1, ChildRows DEF CancelEffect
<1>8. PlaceInv'
  BY NoRow DEF CellInv, CancelEffect, Interrupt, Stopping, Answered, Unknown, PlaceInv,
     CellTypeOK, Optional, Children, Answers, Jobs
<1> QED BY <1>2, <1>3, <1>4, <1>5, <1>6, <1>7, <1>8 DEF CellInv

LEMMA CancelPreparationKeeps ==
  ASSUME CellInv, CancelPreparation
  PROVE  CellInv'
<1>1. CellTypeOK'
  <2>1. pos' \in Positions /\ job' \in Jobs /\ cellFaults' \in 0..MaxCellFaults
    BY Bounded DEF CellInv, CancelPreparation, Interrupted, EndCellPass, Go, CellTypeOK,
       Positions, Jobs, NoJob, Optional, Receipts
  <2>2. op' \in Optional(Preparations) /\ late' \in Optional(Preparations)
    BY DEF CellInv, CancelPreparation, CellTypeOK, Optional, PlaceInv, Preparations, Jobs,
       Entries, Observations, ChildStates, Phases, States, CellReports, NoReport, Report
  <2> QED BY <2>1, <2>2 DEF CellInv, CellTypeOK, CancelPreparation
<1>2. ReceiptInv'
  BY NoRow DEF CellInv, CancelPreparation, ReceiptInv, PlaceInv, CellTypeOK, Optional,
     Preparations, Jobs, Entries, Observations, ChildStates, Phases, States, CellReports,
     NoReport, Report
<1>3. LateInv'
  BY DEF CellInv, CancelPreparation, LateInv
<1>4. CancelledInv'
  <2>1. op \in Preparations /\ job.ans \in Answers
    BY Typed DEF CellInv, PlaceInv, CancelPreparation
  <2>2. op'.ctl.obs = "cancelled" => job.ans.st = "terminal"
    BY <2>1 DEF CancelPreparation, Interrupted, Report, Preparations
  <2>3. job.ans.st = "terminal" => child.st \in Over
    BY <2>1, Absent DEF CellInv, AnswerInv
  <2> QED BY <2>2, <2>3 DEF CellInv, CancelledInv, Cancelled, CancelPreparation
<1>5. AnswerInv'
  BY DEF CellInv, CancelPreparation, Interrupted, EndCellPass, Go, AnswerInv, NoJob
<1>6. OutcomeInv'
  BY DEF CellInv, CancelPreparation, OutcomeInv
<1>7. PlaceInv'
  BY DEF CellInv, CancelPreparation, Interrupted, EndCellPass, Go, PlaceInv
<1> QED BY <1>1, <1>2, <1>3, <1>4, <1>5, <1>6, <1>7 DEF CellInv

LEMMA StoreCancellationKeeps ==
  ASSUME CellInv, StoreCancellation
  PROVE  CellInv'
<1>1. CellTypeOK'
  <2>1. pos' \in Positions /\ job' \in Jobs /\ cellFaults' \in 0..MaxCellFaults
    BY Bounded DEF CellInv, StoreCancellation, PutCellV3Execution, CancelOutcome,
       Exhausts, Proved, Interrupted, EndCellPass, Go, CellTypeOK, Positions, Jobs, NoJob,
       Optional, Receipts
  <2>2. exe' \in Optional(Executions)
    <3>1. exe \in Executions /\ job.e \in Entries
      BY Typed DEF CellInv, PlaceInv, StoreCancellation
    <3> DEFINE o == CancelOutcome(job.ans)
    <3>2. /\ o.phase \in {"pending", "admitted", "terminal", "exhausted", "unknown"}
          /\ o.obs \in Observations
      BY DEF CancelOutcome, Observations
    <3>3. PutCellV3Execution(o)
      BY DEF StoreCancellation
    <3> HIDE DEF o
    <3>4. exe' \in Executions
      BY <3>1, <3>2, <3>3, ExecutionTyped
    <3> QED BY <3>4 DEF Optional
  <2> QED BY <2>1, <2>2 DEF CellInv, CellTypeOK, StoreCancellation
<1>2. ReceiptInv'
  BY DEF CellInv, StoreCancellation, ReceiptInv
<1>3. LateInv'
  BY DEF CellInv, StoreCancellation, LateInv
<1>4. CancelledInv'
  <2>1. exe \in Executions /\ job.ans \in Answers
    BY Typed DEF CellInv, PlaceInv, StoreCancellation
  <2>2. exe' = exe \/ (exe'.rep.obs = "cancelled" => job.ans.st = "terminal")
    <3> DEFINE o == CancelOutcome(job.ans)
    <3>1. o.obs = "cancelled" => job.ans.st = "terminal"
      BY DEF CancelOutcome, Interrupted
    <3>2. PutCellV3Execution(o)
      BY DEF StoreCancellation
    <3> HIDE DEF o
    <3> QED BY <2>1, <3>1, <3>2 DEF PutCellV3Execution, Executions, Report
  <2>3. job.ans.st = "terminal" => child.st \in Over
    BY <2>1, Absent DEF CellInv, AnswerInv
  <2>4. exe # None
    BY DEF StoreCancellation
  <2> QED BY <2>2, <2>3, <2>4 DEF CellInv, CancelledInv, Cancelled, StoreCancellation
<1>5. AnswerInv'
  BY DEF CellInv, StoreCancellation, PutCellV3Execution, CancelOutcome, Exhausts, Proved,
     Interrupted, EndCellPass, Go, AnswerInv, NoJob
<1>6. OutcomeInv'
  BY DEF CellInv, StoreCancellation, PutCellV3Execution, CancelOutcome, Exhausts, Proved,
     Interrupted, OutcomeInv, NoReport, Report
<1>7. PlaceInv'
  BY DEF CellInv, StoreCancellation, PutCellV3Execution, CancelOutcome, Exhausts, Proved,
     Interrupted, EndCellPass, Go, PlaceInv
<1> QED BY <1>1, <1>2, <1>3, <1>4, <1>5, <1>6, <1>7 DEF CellInv

LEMMA PutCellOperationKeeps ==
  ASSUME CellInv, PutCellOperation
  PROVE  CellInv'
<1>1. CellTypeOK'
  <2>1. pos' \in Positions /\ job' \in Jobs /\ cellFaults' \in 0..MaxCellFaults
    BY Bounded DEF CellInv, PutCellOperation, NewCellOperation, Go, EndCellPass,
       CellTypeOK, Positions, Jobs, NoJob, Optional, Receipts
  <2>2. row' \in Optional(CellRows)
    <3>1. job.e \in Entries /\ (row # None => row \in CellRows)
      BY Typed DEF CellInv, PlaceInv, PutCellOperation
    <3>2. NewCellOperation(job.e) \in CellRows
      BY <3>1 DEF NewCellOperation, CellRows, CellReports
    <3>3. row # None => [row EXCEPT !.e = job.e] \in CellRows
      BY <3>1 DEF CellRows
    <3> QED BY <3>2, <3>3 DEF CellInv, CellTypeOK, PutCellOperation, Optional
  <2> QED BY <2>1, <2>2 DEF CellInv, CellTypeOK, PutCellOperation
<1>2. ReceiptInv'
  BY DEF CellInv, PutCellOperation, ReceiptInv
<1>3. LateInv'
  BY DEF CellInv, PutCellOperation, LateInv
<1>4. CancelledInv'
  BY NoRow DEF CellInv, PutCellOperation, NewCellOperation, CancelledInv, Cancelled,
     CellTypeOK, Optional, CellRows, Observations, CellReports, NoReport, Report
<1>5. AnswerInv'
  BY DEF CellInv, PutCellOperation, NewCellOperation, Go, EndCellPass, AnswerInv, NoJob
<1>6. OutcomeInv'
  BY DEF CellInv, PutCellOperation, NewCellOperation, OutcomeInv, CellTypeOK, Optional,
     CellRows
<1>7. PlaceInv'
  <2>1. job.e \in Entries /\ (row # None => row \in CellRows)
    BY Typed DEF CellInv, PlaceInv, PutCellOperation
  <2>2. NewCellOperation(job.e) \in CellRows
    BY <2>1 DEF NewCellOperation, CellRows, CellReports
  <2>3. row # None => [row EXCEPT !.e = job.e] # None
    BY <2>1, Absent DEF CellRows
  <2>4. \/ pos' = "send" /\ job' = [NoJob EXCEPT !.e = job.e]
        \/ pos' = "server" /\ row' # None /\ job' = job
    BY <2>2, <2>3, Absent DEF PutCellOperation, Go, EndCellPass
  <2> QED BY <2>4 DEF CellInv, PlaceInv, PutCellOperation, NoJob, Settled, Ready, ValidateManagedServiceV3
<1> QED BY <1>1, <1>2, <1>3, <1>4, <1>5, <1>6, <1>7 DEF CellInv

LEMMA LaunchHeldKeeps ==
  ASSUME CellInv, LaunchHeld
  PROVE  CellInv'
<1>1. CellTypeOK'
  <2>1. pos' \in Positions /\ job' \in Jobs /\ cellFaults' \in 0..MaxCellFaults
    BY Bounded DEF CellInv, LaunchHeld, CellFault, StoreCellUnknown, UpdateCellOperation,
       EndCellPass, Go, CellTypeOK, Positions, Jobs, NoJob, Optional, Receipts
  <2>2. row' \in Optional(CellRows)
    <3>1. row \in CellRows /\ job.e \in Entries
      BY Typed DEF CellInv, PlaceInv, LaunchHeld
    <3>2. row' \in CellRows
      BY <3>1, UnknownTyped DEF LaunchHeld
    <3> QED BY <3>2 DEF Optional
  <2> QED BY <2>1, <2>2 DEF CellInv, CellTypeOK, LaunchHeld
<1>2. ReceiptInv'
  BY DEF CellInv, LaunchHeld, ReceiptInv
<1>3. LateInv'
  BY DEF CellInv, LaunchHeld, LateInv
<1>4. CancelledInv'
  BY DEF CellInv, LaunchHeld, StoreCellUnknown, UpdateCellOperation, CancelledInv,
     Cancelled, NoReport, Report
<1>5. AnswerInv'
  BY DEF CellInv, LaunchHeld, StoreCellUnknown, UpdateCellOperation, EndCellPass, Go,
     AnswerInv, NoJob
<1>6. OutcomeInv'
  BY DEF CellInv, LaunchHeld, StoreCellUnknown, UpdateCellOperation, OutcomeInv, NoReport,
     Report
<1>7. PlaceInv'
  BY DEF CellInv, LaunchHeld, StoreCellUnknown, UpdateCellOperation, EndCellPass, Go,
     PlaceInv
<1> QED BY <1>1, <1>2, <1>3, <1>4, <1>5, <1>6, <1>7 DEF CellInv

LEMMA LaunchEffectKeeps ==
  ASSUME CellInv, LaunchEffect
  PROVE  CellInv'
<1>1. ChildMoves
  <2>1. child \in Children
    BY Typed DEF CellInv
  <2>2. child' = child \/ (child.st = "absent" /\ child' = [child EXCEPT !.st = "running"])
    BY DEF LaunchEffect
  <2> QED BY <2>1, <2>2, ChildEffect DEF ChildMoves
<1>2. CellTypeOK'
  <2>1. pos' \in Positions /\ job' \in Jobs /\ cellFaults' \in 0..MaxCellFaults
    BY Bounded DEF CellInv, LaunchEffect, Answered, Unknown, Failure, CellFault, CellTypeOK,
       Positions, Jobs, Optional, Children, Answers, Entries, ChildStates, Phases, States
  <2>2. child' \in Children
    BY <1>1 DEF ChildMoves
  <2> QED BY <2>1, <2>2 DEF CellInv, CellTypeOK, LaunchEffect
<1>3. ReceiptInv'
  BY <1>1, ChildRows DEF LaunchEffect
<1>4. LateInv'
  BY DEF CellInv, LaunchEffect, LateInv
<1>5. CancelledInv'
  BY <1>1, ChildRows DEF LaunchEffect
<1>6. AnswerInv'
  BY NoRow DEF CellInv, LaunchEffect, Answered, Unknown, Failure, AnswerInv, Over, CellTypeOK,
     Jobs, Entries, ChildStates, Phases, States
<1>7. OutcomeInv'
  BY <1>1, ChildRows DEF LaunchEffect
<1>8. PlaceInv'
  BY NoRow DEF CellInv, LaunchEffect, Answered, Unknown, Failure, PlaceInv, CellTypeOK, Optional,
     Children, Answers, Jobs, Entries, ChildStates, Phases, States
<1> QED BY <1>2, <1>3, <1>4, <1>5, <1>6, <1>7, <1>8 DEF CellInv

LEMMA LaunchNotMadeKeeps ==
  ASSUME CellInv, LaunchNotMade
  PROVE  CellInv'
<1>1. CellTypeOK'
  <2>1. pos' \in Positions /\ job' \in Jobs /\ cellFaults' \in 0..MaxCellFaults
    BY Bounded DEF CellInv, LaunchNotMade, CellFault, Go, Unknown, Failure, CellTypeOK,
       Positions, Jobs, Optional, Children, Answers, Entries, ChildStates, Phases, States
  <2> QED BY <2>1 DEF CellInv, CellTypeOK, LaunchNotMade
<1>2. ReceiptInv'
  BY DEF CellInv, LaunchNotMade, ReceiptInv
<1>3. LateInv'
  BY DEF CellInv, LaunchNotMade, LateInv
<1>4. CancelledInv'
  BY DEF CellInv, LaunchNotMade, CancelledInv, Cancelled
<1>5. AnswerInv'
  <2>1. PICK ans \in {Unknown, Failure(child)} : job' = [job EXCEPT !.ans = ans] /\ child' = child
    BY DEF LaunchNotMade, Go
  <2>2. job \in Jobs
    BY DEF CellInv, CellTypeOK
  <2>3. job'.ans = ans
    BY <2>1, <2>2 DEF Jobs
  <2>4. Unknown.st # "terminal" /\ Failure(child).st = child.st
    BY NoRow DEF Unknown, Failure, ChildStates
  <2> QED BY <2>1, <2>3, <2>4 DEF AnswerInv, Over
<1>6. OutcomeInv'
  BY DEF CellInv, LaunchNotMade, OutcomeInv
<1>7. PlaceInv'
  BY NoRow DEF CellInv, LaunchNotMade, Go, Unknown, Failure, PlaceInv, CellTypeOK,
     Optional, Children, Answers
<1> QED BY <1>1, <1>2, <1>3, <1>4, <1>5, <1>6, <1>7 DEF CellInv

LEMMA StoreLaunchKeeps ==
  ASSUME CellInv, StoreLaunch
  PROVE  CellInv'
<1>1. CellTypeOK'
  <2>1. pos' \in Positions /\ job' \in Jobs /\ cellFaults' \in 0..MaxCellFaults
    BY Bounded DEF CellInv, StoreLaunch, EndCellPass, Go, StoreCellUnknown,
       UpdateCellOperation, CellTypeOK, Positions, Jobs, NoJob, Optional, Receipts
  <2>2. row' \in Optional(CellRows)
    <3>1. row \in CellRows /\ job.e \in Entries
      BY Typed DEF CellInv, PlaceInv, StoreLaunch
    <3>2. \/ StoreCellUnknown
          \/ UpdateCellOperation("exhausted", TRUE, "exhausted")
          \/ UpdateCellOperation("terminal", FALSE, "ready")
          \/ UpdateCellOperation("failed", FALSE, "failed")
          \/ UpdateCellOperation("unknown", FALSE, "unknown")
      BY DEF StoreLaunch
    <3>3. row' \in CellRows
      BY <3>1, <3>2, UnknownTyped, RowTyped DEF Observations
    <3> QED BY <3>3 DEF Optional
  <2> QED BY <2>1, <2>2 DEF CellInv, CellTypeOK, StoreLaunch
<1>2. ReceiptInv'
  BY DEF CellInv, StoreLaunch, ReceiptInv
<1>3. LateInv'
  BY DEF CellInv, StoreLaunch, LateInv
<1>4. CancelledInv'
  BY DEF CellInv, StoreLaunch, StoreCellUnknown, UpdateCellOperation, CancelledInv,
     Cancelled, NoReport, Report
<1>5. AnswerInv'
  BY DEF CellInv, StoreLaunch, EndCellPass, Go, StoreCellUnknown, UpdateCellOperation,
     AnswerInv, NoJob
<1>6. OutcomeInv'
  BY DEF CellInv, StoreLaunch, StoreCellUnknown, UpdateCellOperation, OutcomeInv,
     NoReport, Report
<1>7. PlaceInv'
  BY DEF CellInv, StoreLaunch, EndCellPass, Go, StoreCellUnknown, UpdateCellOperation,
     PlaceInv
<1> QED BY <1>1, <1>2, <1>3, <1>4, <1>5, <1>6, <1>7 DEF CellInv

LEMMA HoldCellOperationKeeps ==
  ASSUME CellInv, HoldCellOperation
  PROVE  CellInv'
<1>1. CellTypeOK'
  <2>1. pos' \in Positions /\ job' \in Jobs /\ cellFaults' \in 0..MaxCellFaults
    BY CellBounds DEF CellInv, HoldCellOperation, Go, NewCellOperation, CellTypeOK,
       Positions, Jobs, NoJob, Optional
  <2>2. row' \in Optional(CellRows)
    BY DEF CellInv, HoldCellOperation, NewCellOperation, CellTypeOK, Optional, PlaceInv,
       CellRows, Jobs, Observations, CellReports
  <2> QED BY <2>1, <2>2 DEF CellInv, CellTypeOK, HoldCellOperation
<1>2. ReceiptInv'
  BY DEF CellInv, HoldCellOperation, ReceiptInv
<1>3. LateInv'
  BY DEF CellInv, HoldCellOperation, LateInv
<1>4. CancelledInv'
  BY NoRow DEF CellInv, HoldCellOperation, NewCellOperation, CancelledInv, Cancelled,
     Observations, CellReports, NoReport, Report
<1>5. AnswerInv'
  BY DEF CellInv, HoldCellOperation, Go, NewCellOperation, AnswerInv
<1>6. OutcomeInv'
  BY DEF CellInv, HoldCellOperation, NewCellOperation, OutcomeInv
<1>7. PlaceInv'
  <2>1. job.e \in Entries
    BY Typed DEF CellInv, PlaceInv, HoldCellOperation
  <2>2. NewCellOperation(job.e) \in CellRows
    BY <2>1 DEF NewCellOperation, CellRows, CellReports
  <2>3. row' # None
    BY <2>2, Absent DEF HoldCellOperation
  <2> QED BY <2>3 DEF CellInv, PlaceInv, HoldCellOperation, Go, Settled, Ready, ValidateManagedServiceV3
<1> QED BY <1>1, <1>2, <1>3, <1>4, <1>5, <1>6, <1>7 DEF CellInv

LEMMA RevokeHeldKeeps ==
  ASSUME CellInv, RevokeHeld
  PROVE  CellInv'
<1>1. CellTypeOK'
  <2>1. pos' \in Positions /\ job' \in Jobs /\ cellFaults' \in 0..MaxCellFaults
    BY Bounded DEF CellInv, RevokeHeld, CellFault, StoreCellUnknown, UpdateCellOperation,
       EndCellPass, Go, CellTypeOK, Positions, Jobs, NoJob, Optional, Receipts
  <2>2. row' \in Optional(CellRows)
    <3>1. row \in CellRows /\ job.e \in Entries
      BY Typed DEF CellInv, PlaceInv, RevokeHeld
    <3>2. row' \in CellRows
      BY <3>1, UnknownTyped DEF RevokeHeld
    <3> QED BY <3>2 DEF Optional
  <2> QED BY <2>1, <2>2 DEF CellInv, CellTypeOK, RevokeHeld
<1>2. ReceiptInv'
  BY DEF CellInv, RevokeHeld, ReceiptInv
<1>3. LateInv'
  BY DEF CellInv, RevokeHeld, LateInv
<1>4. CancelledInv'
  BY DEF CellInv, RevokeHeld, StoreCellUnknown, UpdateCellOperation, CancelledInv,
     Cancelled, NoReport, Report
<1>5. AnswerInv'
  BY DEF CellInv, RevokeHeld, StoreCellUnknown, UpdateCellOperation, EndCellPass, Go,
     AnswerInv, NoJob
<1>6. OutcomeInv'
  BY DEF CellInv, RevokeHeld, StoreCellUnknown, UpdateCellOperation, OutcomeInv, NoReport,
     Report
<1>7. PlaceInv'
  BY DEF CellInv, RevokeHeld, StoreCellUnknown, UpdateCellOperation, EndCellPass, Go,
     PlaceInv
<1> QED BY <1>1, <1>2, <1>3, <1>4, <1>5, <1>6, <1>7 DEF CellInv

LEMMA RevokeEffectKeeps ==
  ASSUME CellInv, RevokeEffect
  PROVE  CellInv'
<1>1. ChildMoves
  <2>1. child \in Children
    BY Typed DEF CellInv
  <2>2. child' \in {child, Stopping(child)}
    BY DEF RevokeEffect, Interrupt
  <2> QED BY <2>1, <2>2, ChildEffect DEF ChildMoves
<1>2. CellTypeOK'
  <2>1. pos' \in Positions /\ job' \in Jobs /\ cellFaults' \in 0..MaxCellFaults
    BY Bounded DEF CellInv, RevokeEffect, Interrupt, Stopping, Answered, Unknown,
       CellFault, CellTypeOK, Positions, Jobs, Optional, Children, Answers, Entries,
       ChildStates, Phases, States
  <2>2. child' \in Children
    BY <1>1 DEF ChildMoves
  <2> QED BY <2>1, <2>2 DEF CellInv, CellTypeOK, RevokeEffect
<1>3. ReceiptInv'
  BY <1>1, ChildRows DEF RevokeEffect
<1>4. LateInv'
  BY DEF CellInv, RevokeEffect, LateInv
<1>5. CancelledInv'
  BY <1>1, ChildRows DEF RevokeEffect
<1>6. AnswerInv'
  BY NoRow DEF CellInv, RevokeEffect, Interrupt, Stopping, Answered, Unknown, AnswerInv,
     Over, CellTypeOK, Children, Jobs, Entries, ChildStates, Phases, States
<1>7. OutcomeInv'
  BY <1>1, ChildRows DEF RevokeEffect
<1>8. PlaceInv'
  BY NoRow DEF CellInv, RevokeEffect, Interrupt, Stopping, Answered, Unknown, PlaceInv,
     CellTypeOK, Optional, Children, Answers, Jobs
<1> QED BY <1>2, <1>3, <1>4, <1>5, <1>6, <1>7, <1>8 DEF CellInv

LEMMA StoreRevocationKeeps ==
  ASSUME CellInv, StoreRevocation
  PROVE  CellInv'
<1>1. CellTypeOK'
  <2>1. pos' \in Positions /\ job' \in Jobs /\ cellFaults' \in 0..MaxCellFaults
    BY Bounded DEF CellInv, StoreRevocation, EndCellPass, Go, StoreCellUnknown,
       UpdateCellOperation, CellTypeOK, Positions, Jobs, NoJob, Optional, Receipts
  <2>2. row' \in Optional(CellRows)
    <3>1. row \in CellRows /\ job.e \in Entries
      BY Typed DEF CellInv, PlaceInv, StoreRevocation
    <3>2. \/ StoreCellUnknown
          \/ UpdateCellOperation("exhausted", TRUE, "exhausted")
          \/ UpdateCellOperation("terminal", FALSE, "cancelled")
          \/ UpdateCellOperation("unknown", FALSE, "unknown")
      BY DEF StoreRevocation
    <3>3. row' \in CellRows
      BY <3>1, <3>2, UnknownTyped, RowTyped DEF Observations
    <3> QED BY <3>3 DEF Optional
  <2> QED BY <2>1, <2>2 DEF CellInv, CellTypeOK, StoreRevocation
<1>2. ReceiptInv'
  BY DEF CellInv, StoreRevocation, ReceiptInv
<1>3. LateInv'
  BY DEF CellInv, StoreRevocation, LateInv
<1>4. CancelledInv'
  <2>1. row \in CellRows /\ job.ans \in Answers
    BY Typed DEF CellInv, PlaceInv, StoreRevocation
  <2>2. \/ row' = row \/ row'.rep.obs # "cancelled"
        \/ job.ans.st = "terminal"
    BY DEF StoreRevocation, StoreCellUnknown, UpdateCellOperation, Report
  <2>3. job.ans.st = "terminal" => child.st \in Over
    BY <2>1, Absent DEF CellInv, AnswerInv
  <2>4. row # None
    BY DEF CellInv, PlaceInv, StoreRevocation
  <2> QED BY <2>2, <2>3, <2>4 DEF CellInv, CancelledInv, Cancelled, StoreRevocation
<1>5. AnswerInv'
  BY DEF CellInv, StoreRevocation, EndCellPass, Go, StoreCellUnknown, UpdateCellOperation,
     AnswerInv, NoJob
<1>6. OutcomeInv'
  BY DEF CellInv, StoreRevocation, StoreCellUnknown, UpdateCellOperation, OutcomeInv,
     NoReport, Report
<1>7. PlaceInv'
  BY DEF CellInv, StoreRevocation, EndCellPass, Go, StoreCellUnknown, UpdateCellOperation,
     PlaceInv
<1> QED BY <1>1, <1>2, <1>3, <1>4, <1>5, <1>6, <1>7 DEF CellInv

LEMMA SendReportKeeps ==
  ASSUME CellInv, SendReport
  PROVE  CellInv'
<1>1. CellTypeOK'
  <2>1. pos' \in Positions /\ job' \in Jobs /\ cellFaults' \in 0..MaxCellFaults
    BY Bounded DEF CellInv, SendReport, CellReport, CurrentCellServiceTuple, CellFault,
       CellTypeOK, Positions, Jobs, NoJob, Optional, Receipts
  <2>2. want' \in Entries /\ heard' \in [receipt : Receipts, obs : Optional(Observations)]
    BY DEF CellInv, SendReport, CellReport, CurrentCellServiceTuple, CellTypeOK, Optional,
       Preparations, Executions, CellRows, Observations, CellReports
  <2> QED BY <2>1, <2>2 DEF CellInv, CellTypeOK, SendReport
<1>2. ReceiptInv'
  BY DEF CellInv, SendReport, ReceiptInv, CellTypeOK
<1>3. LateInv'
  BY DEF CellInv, SendReport, LateInv
<1>4. CancelledInv'
  BY DEF CellInv, SendReport, CellReport, CurrentCellServiceTuple, CancelledInv,
     Cancelled, CellTypeOK
<1>5. AnswerInv'
  BY DEF CellInv, SendReport, AnswerInv, NoJob
<1>6. OutcomeInv'
  BY DEF CellInv, SendReport, OutcomeInv
<1>7. PlaceInv'
  BY DEF CellInv, SendReport, PlaceInv
<1> QED BY <1>1, <1>2, <1>3, <1>4, <1>5, <1>6, <1>7 DEF CellInv

(***************************************************************************)
(* The invariant holds                                                     *)
(***************************************************************************)
LEMMA CellStarts ==
  ASSUME CellInit
  PROVE  CellInv
<1>1. want \in Entries
  BY Bounded DEF CellInit, Entries, Phases, States
<1>2. child \in Children /\ job \in Jobs
  BY Bounded DEF CellInit, Children, ChildStates, Optional, Receipts, Jobs, NoJob
<1>3. CellTypeOK
  BY <1>1, <1>2, Bounded DEF CellInit, CellTypeOK, Optional, Receipts, Positions
<1>4. ReceiptInv /\ LateInv /\ CancelledInv /\ AnswerInv /\ OutcomeInv
  BY Absent DEF CellInit, ReceiptInv, LateInv, CancelledInv, Cancelled, AnswerInv, OutcomeInv,
                NoJob, Observations
<1>5. PlaceInv
  BY DEF CellInit, PlaceInv
<1> QED BY <1>3, <1>4, <1>5 DEF CellInv

LEMMA CellStutters ==
  ASSUME CellInv, UNCHANGED cellVars
  PROVE  CellInv'
<1> USE DEF cellVars
<1>1. CellTypeOK'
  BY DEF CellInv, CellTypeOK
<1>2. ReceiptInv' /\ LateInv'
  BY DEF CellInv, ReceiptInv, LateInv
<1>3. CancelledInv' /\ AnswerInv' /\ OutcomeInv'
  BY DEF CellInv, CancelledInv, Cancelled, AnswerInv, OutcomeInv
<1>4. PlaceInv'
  BY DEF CellInv, PlaceInv, Settled, Ready, ValidateManagedServiceV3
<1> QED BY <1>1, <1>2, <1>3, <1>4 DEF CellInv

LEMMA CellPassKeeps ==
  ASSUME CellInv, CellPass
  PROVE  CellInv'
BY WaitKeeps, BeginPassKeeps, PutCellV3OperationKeeps, ReplayPreparationKeeps,
   PutCellV3NativeContextKeeps, PrepareEffectKeeps, PersistReceiptKeeps,
   ReportCellPreparationKeeps, MarkReportedKeeps, BeginExecutionKeeps, ExecuteEffectKeeps,
   StoreExecutionKeeps, QuiesceKeeps, CancelEffectKeeps, CancelPreparationKeeps,
   StoreCancellationKeeps, PutCellOperationKeeps, LaunchHeldKeeps, LaunchEffectKeeps,
   LaunchNotMadeKeeps, StoreLaunchKeeps, HoldCellOperationKeeps, RevokeHeldKeeps,
   RevokeEffectKeeps, StoreRevocationKeeps, SendReportKeeps
   DEF CellPass

(* The rows, the child, the late write and the pass agree in every state.   *)
THEOREM CellInvariance == CellSpec => []CellInv
<1>1. CellInit => CellInv
  BY CellStarts
<1>2. CellInv /\ [CellNext]_cellVars => CellInv'
  <2> SUFFICES ASSUME CellInv, CellNext \/ UNCHANGED cellVars
               PROVE  CellInv'
    BY DEF cellVars
  <2> QED BY ControlStep, ChildStep, LateWriteEndsKeeps, CellCrashKeeps, CellPassKeeps,
             CellStutters DEF CellNext
<1> QED BY <1>1, <1>2, PTL DEF CellSpec

(* The entry, the rows of internal/state, the child and the pass have their *)
(* types.                                                                   *)
THEOREM CellTypeCorrect == CellSpec => []CellTypeOK
<1>1. CellInv => CellTypeOK
  BY DEF CellInv
<1> QED BY <1>1, CellInvariance, PTL

(* What the control plane is told holds (ToldIsTrue): the receipt it        *)
(* accepted is the journal's and the child's (cell_v3_prepare.go), and what *)
(* is reported cancelled cannot act (cell_v3_execute.go).                   *)
THEOREM ToldStays == CellSpec => []ToldIsTrue
<1>1. CellInv => ToldIsTrue
  <2> SUFFICES ASSUME CellInv
               PROVE  ToldIsTrue
    OBVIOUS
  <2>1. AcceptedIsDurable
    BY DEF CellInv, ReceiptInv, AcceptedIsDurable
  <2>2. CancelledIsStopped
    BY DEF CellInv, CancelledInv, CancelledIsStopped, Over
  <2> QED BY <2>1, <2>2 DEF ToldIsTrue
<1> QED BY <1>1, CellInvariance, PTL

(***************************************************************************)
(* What was decided is not taken back                                      *)
(***************************************************************************)
(* The execution's outcome over a step.                                     *)
LEMMA ExecutionIsFinal ==
  ASSUME CellInv, CellNext, exe # None, exe.phase = "exhausted" \/ Ready(exe)
  PROVE  exe'.phase = exe.phase /\ exe'.rep.obs = exe.rep.obs
<1>1. \/ exe' = exe
      \/ StoreCancellation
  <2>1. ~StoreExecution
    BY DEF CellInv, PlaceInv, Settled, Ready, StoreExecution
  <2>2. CASE CellPass
    BY <2>1, <2>2
       DEF CellPass, BeginPass, PutCellV3Operation, JournalBusy, PrepareRefused,
           ReplayPreparation, PutCellV3NativeContext, LeaseRefused, PrepareEffect,
           PrepareEffectRefused, PersistReceipt, ReportCellPreparation, MarkReported,
           ExecuteRefused, ExecuteWaits, BeginExecution, ExecuteEffect, Quiesce, CancelEffect,
           CancelPreparation, LaunchRefused, PutCellOperation, LaunchHeld, LaunchEffect,
           LaunchNotMade, StoreLaunch, HoldCellOperation, RevokeHeld, RevokeEffect,
           StoreRevocation, SendReport, RefusedAt
  <2>3. CASE ~CellPass
    BY <2>3 DEF CellNext, ControlsDesired, IssueGrant, RenewGrant, RepairMode, GrantExpires,
                Child, ChildEnds, ChildInterrupted, LateWriteEnds, CellCrash
  <2> QED BY <2>2, <2>3
<1>2. ASSUME StoreCancellation
      PROVE  exe'.phase = exe.phase /\ exe'.rep.obs = exe.rep.obs
  <2>1. exe \in Executions
    BY Typed DEF CellInv
  <2>2. exe.phase = "exhausted" /\ exe.rep.obs = "exhausted"
    BY <1>2 DEF CellInv, PlaceInv, OutcomeInv, StoreCancellation
  <2> DEFINE o == CancelOutcome(job.ans)
  <2>3. o.phase = "exhausted" => o.obs = "exhausted"
    BY DEF CancelOutcome
  <2>4. PutCellV3Execution(o)
    BY <1>2 DEF StoreCancellation
  <2> HIDE DEF o
  <2> QED BY <2>1, <2>2, <2>3, <2>4 DEF PutCellV3Execution, Executions, Report
<1> QED BY <1>1, <1>2

(* An exhausted row over a step.                                            *)
LEMMA RowIsFinal ==
  ASSUME CellInv, CellNext, row # None, row.exh
  PROVE  row'.exh /\ row'.rep.obs = "exhausted"
<1>1. row \in CellRows /\ row.rep.obs = "exhausted"
  BY Typed DEF CellInv, OutcomeInv
<1>2. \/ row' = row
      \/ \E e \in Entries : row' = [row EXCEPT !.e = e]
      \/ \E phase, obs : UpdateCellOperation(phase, FALSE, obs)
      \/ UpdateCellOperation("exhausted", TRUE, "exhausted")
  <2>1. StoreCellUnknown => UpdateCellOperation("exhausted", TRUE, "exhausted")
    BY DEF StoreCellUnknown
  <2>2. CASE PutCellOperation
    <3>1. job.e \in Entries
      BY <2>2, Typed DEF CellInv, PlaceInv, PutCellOperation
    <3> QED BY <2>2, <3>1 DEF PutCellOperation
  <2>3. CASE LaunchHeld \/ StoreLaunch \/ RevokeHeld \/ StoreRevocation
    BY <2>1, <2>3 DEF LaunchHeld, StoreLaunch, RevokeHeld, StoreRevocation
  <2>4. CASE CellPass /\ ~PutCellOperation
             /\ ~(LaunchHeld \/ StoreLaunch \/ RevokeHeld \/ StoreRevocation)
    BY <2>4
       DEF CellPass, BeginPass, PutCellV3Operation, JournalBusy, PrepareRefused,
           ReplayPreparation, PutCellV3NativeContext, LeaseRefused, PrepareEffect,
           PrepareEffectRefused, PersistReceipt, ReportCellPreparation, MarkReported,
           ExecuteRefused, ExecuteWaits, BeginExecution, ExecuteEffect, StoreExecution, Quiesce,
           CancelEffect, CancelPreparation, StoreCancellation, LaunchRefused, LaunchEffect,
           LaunchNotMade, HoldCellOperation, RevokeEffect, SendReport, RefusedAt
  <2>5. CASE ~CellPass
    BY <2>5 DEF CellNext, ControlsDesired, IssueGrant, RenewGrant, RepairMode, GrantExpires,
                Child, ChildEnds, ChildInterrupted, LateWriteEnds, CellCrash
  <2> QED BY <2>2, <2>3, <2>4, <2>5
<1> QED BY <1>1, <1>2 DEF UpdateCellOperation, CellRows, Report

(* The journal over a step.                                                 *)
LEMMA JournalForward ==
  ASSUME CellInv, CellNext, op # None, op' # op
  PROVE  /\ op'.e.rev >= op.e.rev /\ op'.e.grant >= op.e.grant
         /\ op.e.ph = "execute" => op'.e.ph = "execute"
         /\ op.receipt # 0 => op'.receipt = op.receipt
<1>1. op \in Preparations
  BY Typed DEF CellInv
<1>2. op.e.rev \in Nat /\ op.e.grant \in Nat
  BY <1>1, Bounded DEF Preparations, Entries
<1>3. \/ PutCellV3Operation \/ LateWriteEnds
      \/ PutCellV3NativeContext \/ PersistReceipt \/ MarkReported \/ CancelPreparation
  <2>1. CASE CellPass
    BY <2>1
       DEF CellPass, BeginPass, JournalBusy, PrepareRefused, ReplayPreparation, LeaseRefused,
           PrepareEffect, PrepareEffectRefused, ReportCellPreparation, ExecuteRefused,
           ExecuteWaits, BeginExecution, ExecuteEffect, StoreExecution, Quiesce, CancelEffect,
           StoreCancellation, LaunchRefused, PutCellOperation, LaunchHeld, LaunchEffect,
           LaunchNotMade, StoreLaunch, HoldCellOperation, RevokeHeld, RevokeEffect,
           StoreRevocation, SendReport, RefusedAt
  <2>2. CASE ~CellPass
    BY <2>2 DEF CellNext, ControlsDesired, IssueGrant, RenewGrant, RepairMode, GrantExpires,
                Child, ChildEnds, ChildInterrupted, LateWriteEnds, CellCrash
  <2> QED BY <2>1, <2>2
<1>4. CASE PutCellV3Operation
  <2>1. JournalAccepts(job.e) /\ op' = Journaled(job.e)
    BY <1>4 DEF PutCellV3Operation
  <2>2. job.e \in Entries /\ op \in Optional(Preparations)
    BY <1>4, Typed DEF CellInv, CellTypeOK, PlaceInv, PutCellV3Operation
  <2> QED BY <2>1, <2>2, JournalStep
<1>5. CASE LateWriteEnds
  <2>1. op' = late /\ late # None
    BY <1>5 DEF LateWriteEnds
  <2> QED BY <2>1 DEF CellInv, LateInv
<1>6. CASE PersistReceipt
  <2>1. op.receipt = 0
    BY <1>6 DEF CellInv, PlaceInv, ReceiptInv, PersistReceipt
  <2> QED BY <1>1, <1>2, <1>6, <2>1 DEF PersistReceipt, Preparations
<1>7. CASE PutCellV3NativeContext \/ MarkReported \/ CancelPreparation
  BY <1>1, <1>2, <1>7
     DEF PutCellV3NativeContext, MarkReported, CancelPreparation, Preparations
<1> QED BY <1>3, <1>4, <1>5, <1>6, <1>7

(* No step takes back a stored completion or exhaustion, and the journal    *)
(* only moves to newer authority, a late write included                     *)
(* (NothingIsTakenBack; cell_v3_store.go, cell_v3_execution_store.go,       *)
(* cell_store.go).                                                          *)
THEOREM NothingTakenBack == CellSpec => NothingIsTakenBack
<1>1. CellInv /\ [CellNext]_cellVars =>
        [/\ (exe # None /\ (exe.phase = "exhausted" \/ (exe.phase = "terminal" /\ exe.rep.obs = "ready"))) =>
              (exe'.phase = exe.phase /\ exe'.rep.obs = exe.rep.obs)
         /\ (row # None /\ row.exh) => (row'.exh /\ row'.rep.obs = "exhausted")]_cellVars
  BY ExecutionIsFinal, RowIsFinal DEF Ready
<1>2. CellInv /\ [CellNext]_cellVars =>
        [(op # None /\ op' # op) =>
           /\ op'.e.rev >= op.e.rev /\ op'.e.grant >= op.e.grant
           /\ op.e.ph = "execute" => op'.e.ph = "execute"
           /\ op.receipt # 0 => op'.receipt = op.receipt]_cellVars
  BY JournalForward
<1>3. CellSpec => OutcomeIsFinal
  BY <1>1, CellInvariance, PTL DEF CellSpec, OutcomeIsFinal
<1>4. CellSpec => JournalMovesForward
  BY <1>2, CellInvariance, PTL DEF CellSpec, JournalMovesForward
<1> QED BY <1>3, <1>4 DEF NothingIsTakenBack
=============================================================================
