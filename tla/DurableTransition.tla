------------------------- MODULE DurableTransition -------------------------
(***************************************************************************)
(* What the transition outbox promises to a workflow, without leases,      *)
(* runners, receipts or time: the effects of a transition happen once, in  *)
(* order and one after the other has been proven; at most one transition   *)
(* of the workflow is live; the recorded revision moves only between       *)
(* transitions or by completing one; a transition is rejected only if it   *)
(* has had no effect.                                                      *)
(***************************************************************************)
EXTENDS Integers

CONSTANTS
    Transitions,    \* transitions of one workflow
    LastEffect      \* their effects are 1..LastEffect, in this order

VARIABLES
    phase,      \* where each transition is in its life
    made,       \* effects that have happened outside
    proven,     \* effects recorded as having happened
    revision    \* revision recorded for the workflow

vars == <<phase, made, proven, revision>>

Steps == 1..LastEffect

\* Nothing holds the workflow.
Free == \A t \in Transitions : phase[t] \notin {"open", "held"}

Init ==
    /\ phase = [t \in Transitions |-> "none"]
    /\ made = [t \in Transitions |-> {}]
    /\ proven = [t \in Transitions |-> {}]
    /\ revision = 0

Observe ==
    /\ Free
    /\ revision' \in Nat
    /\ revision' > revision
    /\ UNCHANGED <<phase, made, proven>>

Open(t) ==
    /\ Free
    /\ phase[t] = "none"
    /\ phase' = [phase EXCEPT ![t] = "open"]
    /\ UNCHANGED <<made, proven, revision>>

\* The effect happens.  It may still do so after the transition was put on
\* hold: the runner that lost its claim is not interrupted.
Make(t, e) ==
    /\ phase[t] \in {"open", "held"}
    /\ e \notin made[t]
    /\ made[t] = 1..(e - 1)
    /\ proven[t] = 1..(e - 1)
    /\ made' = [made EXCEPT ![t] = made[t] \cup {e}]
    /\ UNCHANGED <<phase, proven, revision>>

Prove(t, e) ==
    /\ phase[t] = "open"
    /\ e \in made[t]
    /\ proven[t] = 1..(e - 1)
    /\ proven' = [proven EXCEPT ![t] = proven[t] \cup {e}]
    /\ UNCHANGED <<phase, made, revision>>

Hold(t) ==
    /\ phase[t] = "open"
    /\ phase' = [phase EXCEPT ![t] = "held"]
    /\ UNCHANGED <<made, proven, revision>>

Complete(t) ==
    /\ phase[t] = "open"
    /\ proven[t] = Steps
    /\ phase' = [phase EXCEPT ![t] = "completed"]
    /\ revision' \in Nat
    /\ revision' > revision
    /\ UNCHANGED <<made, proven>>

Reject(t) ==
    /\ phase[t] = "open"
    /\ made[t] = {}
    /\ phase' = [phase EXCEPT ![t] = "rejected"]
    /\ UNCHANGED <<made, proven, revision>>

Next ==
    \/ Observe
    \/ \E t \in Transitions :
          \/ Open(t) \/ Hold(t) \/ Complete(t) \/ Reject(t)
          \/ \E e \in Steps : Make(t, e) \/ Prove(t, e)

Spec == Init /\ [][Next]_vars
=============================================================================
