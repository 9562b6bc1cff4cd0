------------------------------ MODULE DemoPage ------------------------------
(***************************************************************************)
(* The Space's page (spaces/hf-demo/streamlit_app.py): every session reruns *)
(* the script on every interaction, in a thread of its own, and all of them *)
(* share one event loop, one planner and one cache (st.cache_resource).     *)
(*                                                                         *)
(* A rerun that arrives while a script runs replaces it: the old script is  *)
(* stopped at its next Streamlit call, which an st.session_state access is, *)
(* but a script inside run_until_complete first runs to the end of it.      *)
(***************************************************************************)
EXTENDS Integers, Sequences, FiniteSets

CONSTANTS
    Session,      \* the open pages
    Query,        \* what the sidebar may hold when Run is clicked
    QuestionOf,   \* QuestionOf[q]: its question and domain, the planner's key
    Plans,        \* the plans the planner may return: sequences of nodes
    None,
    MaxClicks,    \* bound: MaxClicks[s] clicks on Run in session s
    MaxTouches    \* bound: MaxTouches[s] other interactions

Question == {QuestionOf[k] : k \in Query}

Kind == {"PRISM", "GAPS", "TGARD", "DC_TGARD", "VALIDATE", "RETRIEVE", "SUMMARIZE"}
Node == [kind : Kind, deps : SUBSET Nat]

(* A plan lists its nodes as topo_layers() does: dependencies first.       *)
PageAssumption ==
    /\ None \notin Plans
    /\ \A p \in Plans : p \in Seq(Node) /\ \A k \in 1..Len(p) : p[k].deps \subseteq 1..(k - 1)
    /\ QuestionOf \in [Query -> Question]
    /\ MaxClicks \in [Session -> Nat] /\ MaxTouches \in [Session -> Nat]

VARIABLES
    pc,       \* pc[s]: where the newest script of session s is
    asked,    \* asked[s]: the run that script was clicked for, or None
    out,      \* out[s], q[s]: its local variables
    q,
    lastOut,  \* st.session_state["last_out"]
    lastQ,    \* st.session_state["last_q"]
    torn,     \* the sessions where a rerun came between the two assignments
    shown,    \* shown[s]: what the page shows
    loop,     \* the run inside run_until_complete, or None
    cost,     \* planner.last_*: the run they are of
    cache,    \* cache[k]: the plan stored for a question
    clicks,   \* counters of each session: clicks on Run,
    touches,  \* other interactions,
    runs,     \* and runs begun
    returned  \* returned[s]: the newest result _run returned to session s

locals == <<out, q>>
stored == <<lastOut, lastQ, torn>>
shared == <<loop, cost, cache>>
counts == <<clicks, touches, runs, returned>>
vars == <<pc, asked, locals, stored, shown, shared, counts>>

(* A run: whose, for which query, and for which of its clicks. *)
Run == [of : Session, query : Query, click : Nat]

Settled == {"new", "intro", "bad input", "error", "drawn"}

-----------------------------------------------------------------------------
(***************************************************************************)
(* _run over the plan in topological order.  A region is named by the node *)
(* that found it; met says whether the prisms meet.  The finder wants two  *)
(* prisms among the node's dependencies; a VALIDATE node passes on the     *)
(* regions of its dependencies, for this copy of the validator looks at    *)
(* the windows of the regions only, which the finder never reverses.       *)
(***************************************************************************)
Lists(plan, met) ==
    LET L[i \in 1..Len(plan)] ==
          LET deps == plan[i].deps
          IN  IF plan[i].kind \in {"TGARD", "DC_TGARD"}
                THEN IF met /\ Cardinality({d \in deps : plan[d].kind = "PRISM"}) > 1
                       THEN {i} ELSE {}
                ELSE IF plan[i].kind = "VALIDATE" THEN UNION {L[d] : d \in deps}
                ELSE {}
    IN  L

Validators(plan) == {i \in 1..Len(plan) : plan[i].kind = "VALIDATE"}

(* A slip: the lists of all nodes, validated or not. *)
RegionsOfAll(plan, met) == UNION {Lists(plan, met)[i] : i \in 1..Len(plan)}

(* The regions shown: those of the validators, where the plan has one. *)
Regions(plan, met) ==
    LET nodes == IF Validators(plan) = {} THEN 1..Len(plan) ELSE Validators(plan)
    IN  UNION {Lists(plan, met)[i] : i \in nodes}

Result == [run : Run, plan : Plans, regions : SUBSET Nat]

-----------------------------------------------------------------------------
Init ==
    /\ pc = [s \in Session |-> "new"]
    /\ asked = [s \in Session |-> None]
    /\ out = [s \in Session |-> None]
    /\ q = [s \in Session |-> None]
    /\ lastOut = [s \in Session |-> None]
    /\ lastQ = [s \in Session |-> None]
    /\ torn = {}
    /\ shown = [s \in Session |-> None]
    /\ loop = None
    /\ cost = None
    /\ cache = [k \in Question |-> None]
    /\ clicks = [s \in Session |-> 0]
    /\ touches = [s \in Session |-> 0]
    /\ runs = [s \in Session |-> 0]
    /\ returned = [s \in Session |-> None]

(* A new script of session s, clicked for run r (or None), from the top;   *)
(* what the old one has in the loop will not come back to the page.        *)
Rerun(s, r) ==
    /\ pc' = [pc EXCEPT ![s] = "started"]
    /\ asked' = [asked EXCEPT ![s] = r]
    /\ shown' = [shown EXCEPT ![s] = None]
    /\ torn' = torn \cup {x \in {s} : pc[x] = "naming"}
    /\ loop' = IF loop # None /\ loop.run.of = s
                 THEN [loop EXCEPT !.awaited = FALSE] ELSE loop
    /\ UNCHANGED <<locals, lastOut, lastQ, cost, cache, runs, returned>>

Click(s) ==
    /\ clicks[s] < MaxClicks[s]
    /\ clicks' = [clicks EXCEPT ![s] = @ + 1]
    /\ \E k \in Query : Rerun(s, [of |-> s, query |-> k, click |-> clicks'[s]])
    /\ UNCHANGED touches

(* Another widget changes, or the map component reports back. *)
Touch(s) ==
    /\ touches[s] < MaxTouches[s]
    /\ touches' = [touches EXCEPT ![s] = @ + 1]
    /\ Rerun(s, None)
    /\ UNCHANGED clicks

Goto(s, where) == pc' = [pc EXCEPT ![s] = where]

(* Not clicked: the intro, or what the session kept. *)
Resume(s) ==
    /\ pc[s] = "started"
    /\ asked[s] = None
    /\ out' = [out EXCEPT ![s] = lastOut[s]]
    /\ q' = [q EXCEPT ![s] = lastQ[s]]
    /\ IF lastOut[s] = None THEN Goto(s, "intro")
       ELSE IF lastQ[s] = None THEN Goto(s, "error")
       ELSE Goto(s, "drawing")
    /\ UNCHANGED <<asked, stored, shown, shared, counts>>

(* An anchor, a time or the question does not parse. *)
BadInput(s) ==
    /\ pc[s] = "started"
    /\ asked[s] # None
    /\ Goto(s, "bad input")
    /\ UNCHANGED <<asked, locals, stored, shown, shared, counts>>

(* run_until_complete raises when the loop already runs. *)
LoopBusy(s) ==
    /\ pc[s] = "started"
    /\ asked[s] # None
    /\ loop # None
    /\ Goto(s, "error")
    /\ UNCHANGED <<asked, locals, stored, shown, shared, counts>>

(* A slip: the page computes again on every rerun. *)
WantsAlways(s) ==
    IF asked[s] # None THEN asked[s]
    ELSE IF lastQ[s] # None
      THEN [of |-> s, query |-> lastQ[s], click |-> clicks[s]] ELSE None

Wants(s) == asked[s]

Begin(s) ==
    /\ pc[s] = "started"
    /\ Wants(s) # None
    /\ loop = None
    /\ loop' = [run |-> Wants(s), awaited |-> TRUE, plan |-> None]
    /\ runs' = [runs EXCEPT ![s] = @ + 1]
    /\ Goto(s, "running")
    /\ UNCHANGED <<asked, locals, stored, shown, cost, cache, clicks, touches, returned>>

(* The run raised: the page shows the exception, if it still waits. *)
Raise ==
    /\ loop' = None
    /\ pc' = IF loop.awaited THEN [pc EXCEPT ![loop.run.of] = "error"] ELSE pc

(* A slip: only a run whose page still waits goes on. *)
GoesOnWhileAwaited(r) == r.plan = None /\ r.awaited

GoesOn(r) == r.plan = None

(* planner.plan: a stored plan, or the LLM's, stored before it is checked. *)
Plan ==
    /\ loop # None
    /\ GoesOn(loop)
    /\ LET key == QuestionOf[loop.run.query]
       IN  \E p \in Plans :
              /\ cache[key] # None => p = cache[key]
              /\ cost' = [run |-> loop.run, hit |-> cache[key] # None]
              /\ cache' = [cache EXCEPT ![key] = p]
              /\ \/ loop' = [loop EXCEPT !.plan = p] /\ UNCHANGED pc
                 \/ Raise
    /\ UNCHANGED <<asked, locals, stored, shown, counts>>

(* A slip: planner.last_* are reset when a call begins. *)
CostReset == None

CostKept == cost

(* The LLM does not answer, or no JSON: planner.last_* stay another run's. *)
PlanFails ==
    /\ loop # None
    /\ loop.plan = None
    /\ cache[QuestionOf[loop.run.query]] = None
    /\ Raise
    /\ cost' = CostKept
    /\ UNCHANGED <<asked, locals, stored, shown, cache, counts>>

(* The nodes of the plan; the result goes to the page that still waits. *)
Finish ==
    /\ loop # None
    /\ loop.plan # None
    /\ \E met \in BOOLEAN :
          LET s == loop.run.of
              r == [run |-> loop.run, plan |-> loop.plan, regions |-> Regions(loop.plan, met)]
          IN  /\ returned' = [returned EXCEPT ![s] = r]
              /\ IF loop.awaited
                   THEN /\ out' = [out EXCEPT ![s] = r]
                        /\ q' = [q EXCEPT ![s] = loop.run.query]
                        /\ Goto(s, "storing")
                   ELSE UNCHANGED <<pc, locals>>
    /\ loop' = None
    /\ UNCHANGED <<asked, stored, shown, cost, cache, clicks, touches, runs>>

NodeFails ==
    /\ loop # None
    /\ loop.plan # None
    /\ Raise
    /\ UNCHANGED <<asked, locals, stored, shown, cost, cache, counts>>

(* A slip: the result is kept for the process, not for the session. *)
StoredForAll(s) == [t \in Session |-> out[s]]

StoredFor(s) == [lastOut EXCEPT ![s] = out[s]]

StoreOut(s) ==
    /\ pc[s] = "storing"
    /\ lastOut' = StoredFor(s)
    /\ Goto(s, "naming")
    /\ UNCHANGED <<asked, locals, lastQ, torn, shown, shared, counts>>

StoreQ(s) ==
    /\ pc[s] = "naming"
    /\ lastQ' = [lastQ EXCEPT ![s] = q[s]]
    /\ torn' = torn \ {s}
    /\ Goto(s, "drawing")
    /\ UNCHANGED <<asked, locals, lastOut, shown, shared, counts>>

(* The plan, the map and the validator's box, then the cost box: it reads  *)
(* the planner, not the result.                                            *)
Draw(s) ==
    /\ pc[s] = "drawing"
    /\ shown' = [shown EXCEPT ![s] =
                   [out |-> out[s], q |-> q[s], cost |-> cost]]
    /\ Goto(s, "drawn")
    /\ UNCHANGED <<asked, locals, stored, shared, counts>>

ScriptStep(s) ==
    Resume(s) \/ BadInput(s) \/ LoopBusy(s) \/ Begin(s) \/ StoreOut(s) \/ StoreQ(s) \/ Draw(s)

LoopStep == Plan \/ PlanFails \/ Finish \/ NodeFails

Next ==
    \/ LoopStep
    \/ \E s \in Session : Click(s) \/ Touch(s) \/ ScriptStep(s)

(* A script that can go on does, and so does the loop: its posts time out. *)
Spec == Init /\ [][Next]_vars /\ WF_vars(LoopStep) /\ \A s \in Session : WF_vars(ScriptStep(s))

-----------------------------------------------------------------------------
(* Every variable has its type. *)
TypeOK ==
    /\ pc \in [Session -> Settled \cup {"started", "running", "storing", "naming", "drawing"}]
    /\ asked \in [Session -> Run \cup {None}]
    /\ out \in [Session -> Result \cup {None}] /\ lastOut \in [Session -> Result \cup {None}]
    /\ q \in [Session -> Query \cup {None}] /\ lastQ \in [Session -> Query \cup {None}]
    /\ torn \subseteq Session
    /\ returned \in [Session -> Result \cup {None}]
    /\ shown \in [Session -> [out : Result, q : Query,
                              cost : [run : Run, hit : BOOLEAN]] \cup {None}]
    /\ loop \in [run : Run, awaited : BOOLEAN, plan : Plans \cup {None}] \cup {None}
    /\ cost \in [run : Run, hit : BOOLEAN] \cup {None}
    /\ cache \in [Question -> Plans \cup {None}]

(***************************************************************************)
(* However the scripts of the sessions interleave over the shared loop,    *)
(* planner and cache, a page shows a result of its own session, whose plan *)
(* is the one stored for the question of the run, under the question and   *)
(* the anchors of that run.  The two are stored one after the other: only  *)
(* a rerun in between leaves a result under what was asked before it,      *)
(* until another run is stored.                                            *)
(***************************************************************************)
OwnResults ==
    \A s \in Session : shown[s] # None =>
        /\ shown[s].out.run.of = s
        /\ cache[QuestionOf[shown[s].out.run.query]] = shown[s].out.plan
        /\ shown[s].q = shown[s].out.run.query \/ s \in torn

(***************************************************************************)
(* A region is shown of a plan with a validator only if a validator had it *)
(* from one of its dependencies.                                           *)
(***************************************************************************)
GateHolds ==
    \A s \in Session : shown[s] # None =>
        LET plan == shown[s].out.plan
        IN  Validators(plan) # {} =>
                \A r \in shown[s].out.regions : \E v \in Validators(plan) : r \in plan[v].deps

(* Reruns for other reasons than a click compute nothing. *)
RunsAreClicked == \A s \in Session : runs[s] <= clicks[s]

(* The loop comes free again, even of a run whose page was left or rerun,  *)
(* and every script comes to an end.                                       *)
RunsEnd ==
    /\ loop # None ~> loop = None
    /\ \A s \in Session : pc[s] = "started" ~> pc[s] \in Settled

=============================================================================
