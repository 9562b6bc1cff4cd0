---------------------------- MODULE Orchestrator ----------------------------
(***************************************************************************)
(* Orchestrator.run (app/services/orchestrator.py): the runs a server      *)
(* process answers concurrently on one event loop.                         *)
(*                                                                         *)
(* A step is what a run does between two suspensions.  Only the calls that *)
(* leave the process suspend: the planner's and the summarizer's LLM call  *)
(* and the Redis reads of RETRIEVE.  The other agents are coroutines that  *)
(* never wait, so such a node starts and ends in one step.  Runs share the *)
(* review queue; the planner's last_* fields, which they share too, are    *)
(* read in the step that set them.                                         *)
(***************************************************************************)
EXTENDS NodeResults, HitlQueue

CONSTANTS
    Run,            \* requests in flight; a run is its own trace id
    PlanSet,        \* the plans _coerce_plan may return
    RequestSet,     \* the requests clients may send
    PlanTokens,     \* what a planner call may cost; 0 is a cache hit
    PromptTokens,   \* what the summarizer's prompt may cost
    AnswerFloor,    \* 400: the least max_tokens summarize() asks for
    AnswerCap,      \* 1200: the most
    Threshold       \* settings.hitl_confidence_threshold, in percent

ASSUME PlansAreExecutable == \A p \in PlanSet : IsPlan(p)

ASSUME RequestsAreTyped == \A q \in RequestSet : IsRequest(q)

ASSUME CostsAreNat ==
    /\ PlanTokens \subseteq Nat
    /\ PromptTokens \subseteq Nat /\ PromptTokens # {}
    /\ AnswerFloor \in Nat
    /\ AnswerCap \in Nat
    /\ Threshold \in Nat

VARIABLES
    req,          \* the QueryIn of each run
    pc,           \* where each run is
    plan,         \* the plan of each run, once planned
    layer,        \* the nodes gather() is waiting for
    fetching,     \* RETRIEVE nodes of the layer that wait for Redis
    outs,         \* results of the nodes of the layer
    results,      \* results of the layers before
    tokens,       \* _RunCtx.tokens
    tools,        \* _RunCtx.tools
    late,         \* max_seconds have passed since started_at
    answer,       \* the QueryOut of an answered run
    queue         \* the HITL queue of the process

vars == <<req, pc, plan, layer, fetching, outs, results, tokens, tools, late,
          answer, queue>>

Stage == {"new", "planning", "executing", "summarizing",
          "answered", "rejected", "violation", "over_budget", "failed"}

Ended(r) == pc[r] \in {"answered", "rejected", "violation", "over_budget", "failed"}

Tag == {"absent", "prism", "gaps", "regions", "retrieved", "none", "error", "violation"}

Result == [tag : Tag, regions : SUBSET Region]

Plain(tag) == [tag |-> tag, regions |-> {}]

Regions(rs) == [tag |-> "regions", regions |-> rs]

NoResults == [n \in Node |-> Plain("absent")]

NoPlan == [ids |-> {}, kind |-> <<>>, deps |-> <<>>, priors |-> <<>>]

NoAnswer == [regions |-> {}, confidence |-> 0, flagged |-> FALSE]

Init ==
    /\ req \in [Run -> RequestSet]
    /\ pc = [r \in Run |-> "new"]
    /\ plan = [r \in Run |-> NoPlan]
    /\ layer = [r \in Run |-> {}]
    /\ fetching = [r \in Run |-> {}]
    /\ outs = [r \in Run |-> NoResults]
    /\ results = [r \in Run |-> NoResults]
    /\ tokens = [r \in Run |-> 0]
    /\ tools = [r \in Run |-> 0]
    /\ late = [r \in Run |-> FALSE]
    /\ answer = [r \in Run |-> NoAnswer]
    /\ queue = EmptyQueue

-----------------------------------------------------------------------------
(***************************************************************************)
(* What one node may do.                                                   *)
(***************************************************************************)

(* A slip: a failed PRISM dependency counts as a prism. *)
PrismsUnchecked(p, prior, n) == {d \in DepSet(p, n) : p.kind[d] = "PRISM"}

Prisms(p, prior, n) == {d \in DepSet(p, n) : prior[d].tag = "prism"}

(* for r in prior.get(deps[0], []): a prism or None cannot be iterated,    *)
(* and the TypeError is a soft error before the anchors are looked at.     *)
Iterable(result) == result.tag \notin {"prism", "none"}

Candidates(p, prior, n) ==
    IF p.deps[n] = <<>> THEN {} ELSE prior[Head(p.deps[n])].regions

ReachesValidator(p, prior, n) ==
    p.deps[n] = <<>> \/ Iterable(prior[Head(p.deps[n])])

ValidateOutcome(p, q, prior, n) ==
    IF ~ReachesValidator(p, prior, n) THEN Plain("error")
    ELSE IF ~q.reachable THEN Plain("violation")
    ELSE Regions(Candidates(p, prior, n))

Outcomes(p, q, prior, n) ==
    CASE p.kind[n] = "PRISM"     -> {Plain("prism"), Plain("error")}
      [] p.kind[n] = "GAPS"      -> {Plain("gaps"), Plain("error")}
      [] p.kind[n] \in {"TGARD", "DC_TGARD"} ->
            {Regions(RegionsFound(p, q, n, Prisms(p, prior, n))), Plain("error")}
      [] p.kind[n] = "VALIDATE"  -> {ValidateOutcome(p, q, prior, n)}
      [] p.kind[n] = "RETRIEVE"  -> {Plain("retrieved"), Plain("error")}
      [] p.kind[n] = "SUMMARIZE" -> {Plain("none")}

(* A slip: the tool limit is left out. *)
OverBudgetTokens(r) == tokens[r] > req[r].maxTokens \/ late[r]

OverBudget(r) ==
    \/ tokens[r] > req[r].maxTokens
    \/ tools[r] > req[r].maxTools
    \/ late[r]

Finished(r) == {n \in Node : results[r][n].tag # "absent"}

-----------------------------------------------------------------------------
(***************************************************************************)
(* Guard and planning.                                                     *)
(***************************************************************************)

Accept(r) ==
    /\ pc[r] = "new"
    /\ pc' = [pc EXCEPT ![r] = "planning"]
    /\ UNCHANGED <<req, plan, layer, fetching, outs, results, tokens, tools, late,
                   answer, queue>>

(* InputGuard raises GuardrailTripped: 400. *)
Reject(r) ==
    /\ pc[r] = "new"
    /\ pc' = [pc EXCEPT ![r] = "rejected"]
    /\ UNCHANGED <<req, plan, layer, fetching, outs, results, tokens, tools, late,
                   answer, queue>>

(* The provider's call fails or its JSON is bad twice (500); or a plan is  *)
(* parsed but infeasible.  The run has recorded nothing.                   *)
PlanningFails(r) ==
    /\ pc[r] = "planning"
    /\ pc' = [pc EXCEPT ![r] = "failed"]
    /\ UNCHANGED <<req, plan, layer, fetching, outs, results, tokens, tools, late,
                   answer, queue>>

(* _planning_stage, then the first layer's tasks are created. *)
PlanArrives(r, p, t) ==
    /\ pc[r] = "planning"
    /\ tokens' = [tokens EXCEPT ![r] = @ + t]
    /\ IF tokens'[r] > req[r].maxTokens \/ late[r]
       THEN /\ pc' = [pc EXCEPT ![r] = "over_budget"]
            /\ UNCHANGED <<plan, layer>>
       ELSE /\ plan' = [plan EXCEPT ![r] = p]
            /\ layer' = [layer EXCEPT ![r] = NextLayer(p, {})]
            /\ pc' = [pc EXCEPT ![r] = IF NextLayer(p, {}) = {} THEN "summarizing"
                                       ELSE "executing"]
    /\ UNCHANGED <<req, fetching, outs, results, tools, late, answer, queue>>

-----------------------------------------------------------------------------
(***************************************************************************)
(* The nodes of a layer.                                                   *)
(***************************************************************************)

Unstarted(r) == {n \in layer[r] \ fetching[r] : outs[r][n].tag = "absent"}

(* A node of a kind that never suspends. *)
RunNode(r, n) ==
    /\ pc[r] = "executing"
    /\ n \in Unstarted(r)
    /\ plan[r].kind[n] # "RETRIEVE"
    /\ tools' = [tools EXCEPT ![r] = @ + 1]
    /\ \E out \in Outcomes(plan[r], req[r], results[r], n) :
          outs' = [outs EXCEPT ![r][n] = out]
    /\ UNCHANGED <<req, pc, plan, layer, fetching, results, tokens, late, answer, queue>>

StartRetrieve(r, n) ==
    /\ pc[r] = "executing"
    /\ n \in Unstarted(r)
    /\ plan[r].kind[n] = "RETRIEVE"
    /\ tools' = [tools EXCEPT ![r] = @ + 1]
    /\ fetching' = [fetching EXCEPT ![r] = @ \cup {n}]
    /\ UNCHANGED <<req, pc, plan, layer, outs, results, tokens, late, answer, queue>>

FinishRetrieve(r, n) ==
    /\ n \in fetching[r]
    /\ fetching' = [fetching EXCEPT ![r] = @ \ {n}]
    /\ \E out \in Outcomes(plan[r], req[r], results[r], n) :
          outs' = [outs EXCEPT ![r][n] = out]
    /\ UNCHANGED <<req, pc, plan, layer, results, tokens, tools, late, answer, queue>>

(* A slip: a failed node keeps its layer waiting. *)
LayerSucceeded(r) ==
    /\ pc[r] = "executing"
    /\ \A n \in layer[r] : outs[r][n].tag \notin {"absent", "error"}

(* gather() returns only when every node of the layer has an outcome. *)
LayerDone(r) ==
    /\ pc[r] = "executing"
    /\ \A n \in layer[r] : outs[r][n].tag # "absent"

(* A slip: isinstance(out, Exception) is asked first, which a violation is. *)
ViolationAsSoftError(r) == FALSE

Violated(r) == \E n \in layer[r] : outs[r][n].tag = "violation"

(* A violation is raised whatever else the layer returned: 422. *)
RaiseViolation(r) ==
    /\ LayerDone(r)
    /\ Violated(r)
    /\ pc' = [pc EXCEPT ![r] = "violation"]
    /\ UNCHANGED <<req, plan, layer, fetching, outs, results, tokens, tools, late,
                   answer, queue>>

(* results[node.id] = out, a soft error included. *)
Keep(r) ==
    /\ results' = [results EXCEPT ![r] =
                     [n \in Node |-> IF n \in layer[r] THEN outs[r][n] ELSE @[n]]]
    /\ outs' = [outs EXCEPT ![r] = NoResults]

(* _enforce_budget raises BudgetExceeded: 402, and no answer. *)
StopOverBudget(r) ==
    /\ LayerDone(r)
    /\ ~Violated(r)
    /\ OverBudget(r)
    /\ Keep(r)
    /\ pc' = [pc EXCEPT ![r] = "over_budget"]
    /\ layer' = [layer EXCEPT ![r] = {}]
    /\ UNCHANGED <<req, plan, fetching, tokens, tools, late, answer, queue>>

(* The next layer, or the summarizer when no layer is left. *)
Advance(r) ==
    /\ LayerDone(r)
    /\ ~Violated(r)
    /\ ~OverBudget(r)
    /\ Keep(r)
    /\ LET next == NextLayer(plan[r], Finished(r) \cup layer[r])
       IN  /\ layer' = [layer EXCEPT ![r] = next]
           /\ pc' = [pc EXCEPT ![r] = IF next = {} THEN "summarizing" ELSE "executing"]
    /\ UNCHANGED <<req, plan, fetching, tokens, tools, late, answer, queue>>

-----------------------------------------------------------------------------
(***************************************************************************)
(* The answer.                                                             *)
(***************************************************************************)

(* The clamp of summarize(): never below the floor, whatever is left. *)
AnswerTokens(left) == Max({AnswerFloor, Min({left, AnswerCap})})

(* A cache hit costs nothing; a call costs its prompt and up to the clamp. *)
SummaryCost(left) == {0} \cup {i + o : i \in PromptTokens, o \in 0..AnswerTokens(left)}

SummaryFails(r) ==
    /\ pc[r] = "summarizing"
    /\ pc' = [pc EXCEPT ![r] = "failed"]
    /\ UNCHANGED <<req, plan, layer, fetching, outs, results, tokens, tools, late,
                   answer, queue>>

RegionsOf(r) == [n \in plan[r].ids |-> results[r][n].regions]

(* _collect_regions: from every list in the results, validated or not. *)
CollectRegions(r) == UNION {RegionsOf(r)[n] : n \in plan[r].ids}

(* A slip at the boundary. *)
NeedsReviewAtThreshold(confidence) == confidence <= Threshold

NeedsReview(confidence) == confidence < Threshold

EnqueueIf(flagged, r) ==
    queue' = IF flagged THEN Enqueued(queue, r) ELSE queue

Built(confidence) == WellFormed(confidence)

(* _summarize: what the call cost is counted, and no budget is enforced.   *)
Summarize(r, t) == tokens' = [tokens EXCEPT ![r] = @ + t]

(* The rest of run(): nothing in it suspends.  The review is queued before *)
(* QueryOut is built, which may refuse.                                    *)
SummaryArrives(r, t) ==
    /\ pc[r] = "summarizing"
    /\ Summarize(r, t)
    /\ \E conf \in Confidences(plan[r], RegionsOf(r)) :
          /\ EnqueueIf(NeedsReview(conf), r)
          /\ IF Built(conf)
             THEN /\ answer' = [answer EXCEPT ![r] = [regions |-> CollectRegions(r),
                                                     confidence |-> conf,
                                                     flagged |-> NeedsReview(conf)]]
                  /\ pc' = [pc EXCEPT ![r] = "answered"]
             ELSE pc' = [pc EXCEPT ![r] = "failed"] /\ UNCHANGED answer
    /\ UNCHANGED <<req, plan, layer, fetching, outs, results, tools, late>>

(* The wallclock budget of a run runs out. *)
TimePasses(r) ==
    /\ pc[r] \in {"planning", "executing", "summarizing"}
    /\ ~late[r]
    /\ late' = [late EXCEPT ![r] = TRUE]
    /\ UNCHANGED <<req, pc, plan, layer, fetching, outs, results, tokens, tools,
                   answer, queue>>

-----------------------------------------------------------------------------
Planning(r) ==
    \/ PlanningFails(r)
    \/ \E p \in PlanSet, t \in PlanTokens : PlanArrives(r, p, t)

Executing(r) ==
    \/ \E n \in Node : RunNode(r, n) \/ StartRetrieve(r, n)
    \/ RaiseViolation(r)
    \/ StopOverBudget(r)
    \/ Advance(r)

Summarizing(r) ==
    \/ SummaryFails(r)
    \/ \E t \in SummaryCost(req[r].maxTokens - tokens[r]) : SummaryArrives(r, t)

Next ==
    \E r \in Run :
        \/ Accept(r)
        \/ Reject(r)
        \/ Planning(r)
        \/ Executing(r)
        \/ \E n \in Node : FinishRetrieve(r, n)
        \/ Summarizing(r)
        \/ TimePasses(r)

(* The event loop runs whatever is ready.  Nothing is said of the world    *)
(* outside: planning, RETRIEVE and the summary each begin with a Redis     *)
(* read, and no timeout bounds those.                                      *)
Fairness == \A r \in Run : WF_vars(Executing(r))

Spec == Init /\ [][Next]_vars /\ Fairness

-----------------------------------------------------------------------------
(***************************************************************************)
(* Properties.                                                             *)
(***************************************************************************)

TypeOK ==
    /\ req \in [Run -> RequestSet]
    /\ pc \in [Run -> Stage]
    /\ plan \in [Run -> PlanSet \cup {NoPlan}]
    /\ layer \in [Run -> SUBSET Node]
    /\ fetching \in [Run -> SUBSET Node]
    /\ outs \in [Run -> [Node -> Result]]
    /\ results \in [Run -> [Node -> Result]]
    /\ tokens \in [Run -> Nat]
    /\ tools \in [Run -> Nat]
    /\ late \in [Run -> BOOLEAN]
    /\ answer \in [Run -> [regions : SUBSET Region, confidence : Percent, flagged : BOOLEAN]]
    /\ queue.mem \in Seq(Run) /\ queue.seen \subseteq Run

(* The nodes of the layer that were started. *)
Started(r) == fetching[r] \cup {n \in Node : outs[r][n].tag # "absent"}

(* No node starts before each of its dependencies has left a result, a     *)
(* soft error included: a node that reads prior[d] finds it there, and     *)
(* nodes that run side by side never depend on one another.                *)
DepsBeforeNode ==
    \A r \in Run : \A n \in Started(r) \cup Finished(r) :
        n \in plan[r].ids /\ DepSet(plan[r], n) \subseteq Finished(r)

(* Each node is executed once: the tool count of a run is the number of    *)
(* its nodes that were started, whichever of them suspended or failed.     *)
NodesRunOnce ==
    \A r \in Run :
        /\ Started(r) \cap Finished(r) = {}
        /\ tools[r] = Cardinality(Started(r)) + Cardinality(Finished(r))

(* The budget holds wherever a run goes on: no layer and no summary is     *)
(* begun by a run that is past a limit, so a run exceeds max_tools by less *)
(* than one layer, and max_tokens by no more than the planner's call (no   *)
(* answer then) or the summarizer's prompt and the floor of its answer.    *)
BudgetGate ==
    \A r \in Run :
        /\ pc[r] \in {"executing", "summarizing"} => tokens[r] <= req[r].maxTokens
        /\ pc[r] \in {"executing", "summarizing", "answered"} =>
              Cardinality(Finished(r)) <= req[r].maxTools
        /\ pc[r] = "answered" =>
              \E i \in PromptTokens :
                  tokens[r] <= req[r].maxTokens + i + AnswerFloor

(* A violation outranks every other outcome of its layer and of the run:   *)
(* if the anchors cannot be reached, an answer is given only when no       *)
(* VALIDATE node of the plan got as far as looking at them.                *)
ViolationDominates ==
    \A r \in Run :
        pc[r] = "answered" /\ ~req[r].reachable =>
            \A n \in plan[r].ids :
                plan[r].kind[n] = "VALIDATE" =>
                    ~ReachesValidator(plan[r], results[r], n)

(* An answer rests on the whole plan: every node has left a result, and    *)
(* each region was found by a rendezvous node of this run between two of   *)
(* the prisms it depends on.                                               *)
AnswerHasProvenance ==
    \A r \in Run :
        pc[r] = "answered" =>
            /\ Finished(r) = plan[r].ids
            /\ \A g \in answer[r].regions :
                  /\ plan[r].kind[g.by] \in {"TGARD", "DC_TGARD"}
                  /\ \A x \in g.of : x \in DepSet(plan[r], g.by) /\ results[r][x].tag = "prism"

(* What the mean of a run says, without rounding.  No answer is surer than *)
(* 99 percent.                                                             *)
Unsure(mean) == mean.num < Threshold * mean.den \/ Threshold > 99

Sure(mean) == mean.num > Threshold * mean.den /\ Threshold <= 99

(* An answer is queued for review, in one row, if the exact mean of its    *)
(* priors and its regions is under the threshold, and not if it is above;  *)
(* rounding decides only where the two are equal.  The row is there when   *)
(* the caller reads hitl_required, and only then.  No other run has a row, *)
(* save one whose QueryOut was refused after its review was queued.        *)
ReviewedIffUnsure ==
    \A r \in Run :
        LET rows == Cardinality(Rows(queue, r))
            mean == Mean(plan[r], RegionsOf(r))
        IN  /\ rows <= 1
            /\ pc[r] = "answered" =>
                  /\ Unsure(mean) => answer[r].flagged
                  /\ Sure(mean) => ~answer[r].flagged
                  /\ answer[r].flagged = (rows = 1)
            /\ rows = 1 => pc[r] \in {"answered", "failed"}

(* The process never stalls a run: it ends, or waits for ever for one call *)
(* that leaves the process.  (The wallclock budget does not end the wait.) *)
AwaitsTheWorld(r) == pc[r] \in {"planning", "summarizing"} \/ fetching[r] # {}

RunEnds ==
    \A r \in Run : [](pc[r] = "new") \/ <>Ended(r) \/ <>[]AwaitsTheWorld(r)

(* The runs of a process keep the promises of QueryRun. *)
Phase(r) ==
    IF pc[r] \in {"new", "answered"} THEN pc[r]
    ELSE IF pc[r] \in {"planning", "executing", "summarizing"} THEN "running"
    ELSE "stopped"

Promise == INSTANCE QueryRun WITH
    phase    <- [r \in Run |-> Phase(r)],
    violated <- {r \in Run : \E n \in Node : outs[r][n].tag = "violation"},
    reviews  <- queue.seen,
    flagged  <- {r \in Run : answer[r].flagged}

KeepsPromise == Promise!Spec

-----------------------------------------------------------------------------
(***************************************************************************)
(* What the documentation says, and the code does not.                     *)
(***************************************************************************)

(* "so the orchestrator never overshoots" (token_optimizer.py): an answer  *)
(* costs no more than the caller's max_tokens.                             *)
NeverOvershoots ==
    \A r \in Run : pc[r] = "answered" => tokens[r] <= req[r].maxTokens

(* "Every region returned to the user must pass through this agent"        *)
(* (validator.py): each region of an answer is in the list a VALIDATE node *)
(* returned.                                                               *)
EveryRegionValidated ==
    \A r \in Run : pc[r] = "answered" =>
        \A g \in answer[r].regions : \E n \in plan[r].ids :
            plan[r].kind[n] = "VALIDATE" /\ g \in results[r][n].regions
=============================================================================
