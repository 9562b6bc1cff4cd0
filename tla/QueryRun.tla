------------------------------ MODULE QueryRun ------------------------------
(***************************************************************************)
(* What a caller of GeoTrace is promised of a run, by the in-process       *)
(* Orchestrator and by the durable GeoTraceWorkflow alike, whatever plan   *)
(* the LLM wrote and whatever fails on the way:                            *)
(*   - a run ends at most once, with an answer or without one;             *)
(*   - once the validator has seen a kinematic violation, no answer;       *)
(*   - an answer says "reviewed by a human" (hitl_required) exactly when a *)
(*     review of it was queued, and the review is queued no later than the *)
(*     answer is given.                                                    *)
(***************************************************************************)
CONSTANT Run

VARIABLES
    phase,      \* "new", "running", "answered" or "stopped"
    violated,   \* runs whose validator raised KinematicViolation
    reviews,    \* runs a review was queued for
    flagged     \* answered runs whose answer says hitl_required

vars == <<phase, violated, reviews, flagged>>

Init ==
    /\ phase = [r \in Run |-> "new"]
    /\ violated = {}
    /\ reviews = {}
    /\ flagged = {}

Begin(r) ==
    /\ phase[r] = "new"
    /\ phase' = [phase EXCEPT ![r] = "running"]
    /\ UNCHANGED <<violated, reviews, flagged>>

Violate(r) ==
    /\ phase[r] = "running"
    /\ violated' = violated \cup {r}
    /\ UNCHANGED <<phase, reviews, flagged>>

(* The row of a run that was stopped may still arrive. *)
QueueReview(r) ==
    /\ phase[r] \in {"running", "stopped"}
    /\ r \notin violated
    /\ reviews' = reviews \cup {r}
    /\ UNCHANGED <<phase, violated, flagged>>

(* The review may be queued in the very step that answers. *)
Answer(r, review) ==
    /\ phase[r] = "running"
    /\ r \notin violated
    /\ phase' = [phase EXCEPT ![r] = "answered"]
    /\ r \in reviews => review
    /\ reviews' = IF review THEN reviews \cup {r} ELSE reviews
    /\ flagged' = IF review THEN flagged \cup {r} ELSE flagged
    /\ UNCHANGED violated

(* A run may queue its review and yet be stopped. *)
Stop(r, review) ==
    /\ phase[r] \in {"new", "running"}
    /\ phase' = [phase EXCEPT ![r] = "stopped"]
    /\ review => phase[r] = "running" /\ r \notin violated
    /\ reviews' = IF review THEN reviews \cup {r} ELSE reviews
    /\ UNCHANGED <<violated, flagged>>

Next ==
    \E r \in Run :
        \/ Begin(r) \/ Violate(r) \/ QueueReview(r)
        \/ \E review \in BOOLEAN : Answer(r, review) \/ Stop(r, review)

Spec == Init /\ [][Next]_vars
=============================================================================
