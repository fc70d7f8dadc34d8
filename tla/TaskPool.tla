------------------------------ MODULE TaskPool ------------------------------
(***************************************************************************)
(* What a thread pool promises its owner, with no threads, mutex or        *)
(* condition variable: submitted tasks start in the order of submission,   *)
(* at most Capacity run at a time, each runs once, and a closed pool lets  *)
(* go of its owner when, and only when, all of them have run.              *)
(***************************************************************************)
EXTENDS Naturals, Sequences, FiniteSets

CONSTANTS Tasks, Capacity

VARIABLES pending, active, finished, phase

vars == <<pending, active, finished, phase>>

Init ==
    /\ pending = <<>>
    /\ active = {}
    /\ finished = {}
    /\ phase = "building"

Open ==
    /\ phase = "building"
    /\ phase' = "open"
    /\ UNCHANGED <<pending, active, finished>>

(* The pool could not be built.                                            *)
Abandon ==
    /\ phase = "building"
    /\ phase' = "gone"
    /\ UNCHANGED <<pending, active, finished>>

Submit(t) ==
    /\ phase = "open"
    /\ pending' = Append(pending, t)
    /\ UNCHANGED <<active, finished, phase>>

Start ==
    /\ pending # <<>>
    /\ Cardinality(active) < Capacity
    /\ pending' = Tail(pending)
    /\ active' = active \cup {Head(pending)}
    /\ UNCHANGED <<finished, phase>>

Complete(t) ==
    /\ t \in active
    /\ active' = active \ {t}
    /\ finished' = finished \cup {t}
    /\ UNCHANGED <<pending, phase>>

Close ==
    /\ phase = "open"
    /\ phase' = "closed"
    /\ UNCHANGED <<pending, active, finished>>

Return ==
    /\ phase = "closed"
    /\ pending = <<>> /\ active = {}
    /\ phase' = "gone"
    /\ UNCHANGED <<pending, active, finished>>

Next ==
    \/ Open \/ Abandon \/ Start \/ Close \/ Return
    \/ \E t \in Tasks : Submit(t) \/ Complete(t)

Spec == Init /\ [][Next]_vars

(* Submitted work is started and finished, and a closed pool returns.      *)
FairSpec ==
    /\ Spec
    /\ WF_vars(Start) /\ WF_vars(Return)
    /\ \A t \in Tasks : WF_vars(Complete(t))
=============================================================================
