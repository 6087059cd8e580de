-------------------------- MODULE OneShotOperation --------------------------
(***************************************************************************)
(* What the continuity controller promises the control plane about one     *)
(* continuation or one handoff: it makes at most one native session, the   *)
(* session is consumed or released and never both, and a report says only  *)
(* what has happened for good: a failed preparation has no session, a      *)
(* released session is released, one reported as consumed was consumed.    *)
(* A release the native helper refused is over too, and says nothing of    *)
(* the session, which may be left to be consumed.  The detailed protocol,  *)
(* with its rows, crashes and lost answers, is Continuations.              *)
(***************************************************************************)
EXTENDS Naturals

CONSTANT Ops

VARIABLES session,     \* the native session of an operation
          sessions,    \* how many native sessions the operation has made
          prepared,    \* the outcome reported for the preparation
          released     \* the outcome reported for the release

vars == <<session, sessions, prepared, released>>

Init == /\ session = [o \in Ops |-> "none"]
        /\ sessions = [o \in Ops |-> 0]
        /\ prepared = [o \in Ops |-> "none"]
        /\ released = [o \in Ops |-> "none"]

Prepare(o) == /\ session[o] = "none" /\ prepared[o] = "none"
              /\ session' = [session EXCEPT ![o] = "prepared"]
              /\ sessions' = [sessions EXCEPT ![o] = 1]
              /\ UNCHANGED released
              /\ prepared' \in {prepared, [prepared EXCEPT ![o] = "ready"]}

ReportPrepared(o) == /\ prepared[o] = "none"
                     /\ \/ session[o] # "none" /\ prepared' = [prepared EXCEPT ![o] = "ready"]
                        \/ session[o] = "none" /\ prepared' = [prepared EXCEPT ![o] = "failed"]
                     /\ UNCHANGED <<session, sessions, released>>

Consume(o) == /\ session[o] = "prepared"
              /\ session' = [session EXCEPT ![o] = "consumed"]
              /\ UNCHANGED <<sessions, prepared, released>>

(* A release is asked for only after the preparation was reported.          *)
Release(o) == /\ session[o] = "prepared" /\ prepared[o] = "ready" /\ released[o] = "none"
              /\ session' = [session EXCEPT ![o] = "released"]
              /\ released' \in {released, [released EXCEPT ![o] = "released"]}
              /\ UNCHANGED <<sessions, prepared>>

ReportReleased(o) ==
    /\ released[o] = "none"
    /\ \/ /\ session[o] = "released" \/ prepared[o] = "failed"
          /\ released' = [released EXCEPT ![o] = "released"]
       \/ session[o] = "consumed" /\ released' = [released EXCEPT ![o] = "failed"]
       \/ prepared[o] = "ready" /\ released' = [released EXCEPT ![o] = "refused"]
    /\ UNCHANGED <<session, sessions, prepared>>

Next == \E o \in Ops : \/ Prepare(o) \/ ReportPrepared(o) \/ Consume(o)
                       \/ Release(o) \/ ReportReleased(o)

Spec == Init /\ [][Next]_vars
=============================================================================
