-------------------------- MODULE GeoTraceWorkflow --------------------------
(***************************************************************************)
(* GeoTraceWorkflow.run (app/temporal/workflows.py) and its activities     *)
(* (app/temporal/activities.py): the durable port of Orchestrator.run.     *)
(*                                                                         *)
(* The workflow's own state survives every crash: Temporal replays it from *)
(* the history, so a crash of the workflow worker is a stuttering step.    *)
(* An activity runs at least once: an attempt may be lost (a timeout, a    *)
(* crash, a worker that cannot be reached) and at most MaxAttempts are     *)
(* made.  Only hitl_enqueue leaves a trace outside the history, in the     *)
(* queue of the worker process that runs the attempt; a lost attempt may   *)
(* still write its row later.  The other activities are one step.          *)
(***************************************************************************)
EXTENDS NodeResults, HitlQueue

CONSTANTS
    Workflow,       \* workflow executions; each is its own trace id
    Worker,         \* processes of app/temporal/worker.py
    PlanSet, RequestSet, PlanTokens, PromptTokens, AnswerFloor, AnswerCap,
    Threshold,      \* HITL_CONFIDENCE_THRESHOLD, in percent
    DecisionSet,    \* the decisions a reviewer may signal
    MaxAttempts,    \* RetryPolicy(maximum_attempts=3)
    MaxCrashes,     \* bound on worker crashes
    EnqueueArgs     \* what hitl_enqueue may hand to the queue; see PlanArg

ASSUME PlansAreExecutable == \A p \in PlanSet : IsPlan(p)

(* The lists a VALIDATE node concatenates share no region, so that sets    *)
(* stand for them exactly.                                                 *)
ASSUME ListsShareNoRegion ==
    \A p \in PlanSet : \A n \in p.ids :
        p.kind[n] = "VALIDATE" /\ (\E d \in DepSet(p, n) : p.kind[d] = "VALIDATE") =>
            Len(p.deps[n]) = 1

ASSUME RequestsAreTyped == \A q \in RequestSet : IsRequest(q)

ASSUME CostsAreNat ==
    /\ PlanTokens \subseteq Nat
    /\ PromptTokens \subseteq Nat /\ PromptTokens # {}
    /\ AnswerFloor \in Nat
    /\ AnswerCap \in Nat
    /\ Threshold \in Nat

ASSUME AttemptsArePositive == MaxAttempts \in Nat \ {0} /\ MaxCrashes \in Nat

(* The activity hands None to HitlQueue.enqueue in the place of the plan.  *)
(* "plan" is the value that enqueue() declares and that its tests and the  *)
(* in-process Orchestrator pass: the port once that argument is right.     *)
PlanArg == {"None", "plan"}

ASSUME ArgsAreKnown == EnqueueArgs \subseteq PlanArg

VARIABLES
    req,          \* the QueryIn
    pc,           \* _stage, with "new", "failed" and "stalled"
    plan,         \* the plan once recorded
    layer,        \* the nodes whose activities gather() waits for
    outs,         \* NodeResults of the layer
    results,      \* NodeResults of the layers before
    tokens,       \* _tokens
    tools,        \* _tools
    late,         \* max_seconds have passed by workflow.now()
    tries,        \* attempts used up by each activity that is waited for
    review,       \* _review: the last decision signalled, or NoReview
    answer,       \* regions, confidence and whose text the answer is
    live,         \* the hitl_enqueue attempt the server waits for
    pending,      \* hitl_enqueue attempts whose code has not run yet
    returned,     \* hitl_enqueue attempts whose code has returned
    queue,        \* the HitlQueue of each worker process
    planArg,      \* what the workers' hitl_enqueue passes as the plan
    crashes,      \* worker crashes so far
    queued,       \* history: runs some row was ever written for
    cause         \* history: why a run failed

(* What surrounds the attempts at hitl_enqueue. *)
enqueueing == <<live, pending, returned, queue, planArg, crashes, queued>>

vars == <<req, pc, plan, layer, outs, results, tokens, tools, late, tries, review,
          answer, cause, enqueueing>>

Stage == {"new", "guard", "plan", "execute", "summarize", "output_filter",
          "hitl_enqueue", "awaiting_human_review", "done", "failed", "stalled"}

Activity == {"guard", "plan", "summarize", "output_filter", "hitl_enqueue"} \cup Node

Ended(w) == pc[w] \in {"done", "failed"}

NodeResult == [tag : {"absent", "prism", "ok", "error", "violation"},
               regions : SUBSET Region]

Plain(tag) == [tag |-> tag, regions |-> {}]

Regions(rs) == [tag |-> "ok", regions |-> rs]

NoResults == [n \in Node |-> Plain("absent")]

(* What the planner's activity returns. *)
PlanResult == [plan : PlanSet, tokens : PlanTokens]

NoPlan == [ids |-> {}, kind |-> <<>>, deps |-> <<>>, priors |-> <<>>]

(* A ReviewDecision: approved or not, with or without a new answer. *)
Decision == [verdict : {"approve", "reject"}, corrected : BOOLEAN]

ASSUME DecisionsAreTyped == DecisionSet \subseteq Decision

NoReview == [verdict |-> "none", corrected |-> FALSE]

NoTries == [a \in Activity |-> 0]

NoAnswer == [regions |-> {}, confidence |-> 0, flagged |-> FALSE, text |-> "none"]

(* An attempt at hitl_enqueue: the run, its number and the worker that     *)
(* polled it.  The server waits for one attempt of a run at a time.        *)
Attempt == [run : Workflow, number : 1..MaxAttempts, worker : Worker]

NoAttempt == [run |-> "none", number |-> 0, worker |-> "none"]

Init ==
    /\ req \in [Workflow -> RequestSet]
    /\ pc = [w \in Workflow |-> "new"]
    /\ plan = [w \in Workflow |-> NoPlan]
    /\ layer = [w \in Workflow |-> {}]
    /\ outs = [w \in Workflow |-> NoResults]
    /\ results = [w \in Workflow |-> NoResults]
    /\ tokens = [w \in Workflow |-> 0]
    /\ tools = [w \in Workflow |-> 0]
    /\ late = [w \in Workflow |-> FALSE]
    /\ tries = [w \in Workflow |-> NoTries]
    /\ review = [w \in Workflow |-> NoReview]
    /\ answer = [w \in Workflow |-> NoAnswer]
    /\ live = [w \in Workflow |-> NoAttempt]
    /\ pending = {}
    /\ returned = {}
    /\ queue = [k \in Worker |-> EmptyQueue]
    /\ planArg \in EnqueueArgs
    /\ crashes = 0
    /\ queued = {}
    /\ cause = [w \in Workflow |-> "none"]

-----------------------------------------------------------------------------
(***************************************************************************)
(* execute_node: what a node's activity may return.  Exceptions are caught *)
(* in the activity and become data.                                        *)
(***************************************************************************)

Prisms(p, prior, n) == {d \in DepSet(p, n) : prior[d].tag = "prism"}

(* The port validates the regions of all dependencies, and always looks at *)
(* the anchors.                                                            *)
ValidateOutcome(p, q, prior, n) ==
    IF ~q.reachable THEN Plain("violation")
    ELSE Regions(UNION {prior[d].regions : d \in DepSet(p, n)})

Outcomes(p, q, prior, n) ==
    CASE p.kind[n] = "PRISM"     -> {Plain("prism"), Plain("error")}
      [] p.kind[n] \in {"TGARD", "DC_TGARD"} ->
            {Regions(RegionsFound(p, q, n, Prisms(p, prior, n))), Plain("error")}
      [] p.kind[n] = "VALIDATE"  -> {ValidateOutcome(p, q, prior, n)}
      [] p.kind[n] \in {"GAPS", "RETRIEVE"} -> {Plain("ok"), Plain("error")}
      [] p.kind[n] = "SUMMARIZE" -> {Plain("ok")}

-----------------------------------------------------------------------------
(***************************************************************************)
(* Activities as the server sees them.                                     *)
(***************************************************************************)

(* The activities a workflow waits for, other than hitl_enqueue. *)
Pending(w) ==
    CASE pc[w] \in {"guard", "plan", "summarize", "output_filter"} -> {pc[w]}
      [] pc[w] = "execute" -> {n \in layer[w] : outs[w][n].tag = "absent"}
      [] OTHER -> {}

Fail(w, why) ==
    /\ pc' = [pc EXCEPT ![w] = "failed"]
    /\ cause' = [cause EXCEPT ![w] = why]

(* An attempt raises, times out or is lost with its worker: another one,   *)
(* or ActivityError in the workflow, which nothing catches.                *)
AttemptFails(w, a) ==
    /\ a \in Pending(w)
    /\ tries' = [tries EXCEPT ![w][a] = @ + 1]
    /\ IF tries'[w][a] = MaxAttempts THEN Fail(w, "attempts") ELSE UNCHANGED <<pc, cause>>
    /\ UNCHANGED <<req, plan, layer, outs, results, tokens, tools, late,
                   review, answer>>
    /\ UNCHANGED enqueueing

Begin(w) ==
    /\ pc[w] = "new"
    /\ pc' = [pc EXCEPT ![w] = "guard"]
    /\ UNCHANGED <<req, plan, layer, outs, results, tokens, tools, late,
                   tries, review, answer, cause>>
    /\ UNCHANGED enqueueing

GuardPasses(w) ==
    /\ pc[w] = "guard"
    /\ pc' = [pc EXCEPT ![w] = "plan"]
    /\ tries' = [tries EXCEPT ![w] = NoTries]
    /\ UNCHANGED <<req, plan, layer, outs, results, tokens, tools, late, review, answer, cause>>
    /\ UNCHANGED enqueueing

Account(w, t) == tokens' = [tokens EXCEPT ![w] = @ + t]

(* The result is recorded, accounted for and checked against the budget.   *)
PlanArrives(w, p, t) ==
    /\ pc[w] = "plan"
    /\ Account(w, t)
    /\ IF tokens'[w] > req[w].maxTokens \/ late[w]
       THEN Fail(w, "budget") /\ UNCHANGED <<plan, layer>>
       ELSE /\ plan' = [plan EXCEPT ![w] = p]
            /\ layer' = [layer EXCEPT ![w] = NextLayer(p, {})]
            /\ pc' = [pc EXCEPT ![w] = IF NextLayer(p, {}) = {} THEN "summarize"
                                       ELSE "execute"]
            /\ UNCHANGED cause
    /\ tries' = [tries EXCEPT ![w] = NoTries]
    /\ UNCHANGED <<req, outs, results, tools, late, review, answer>>
    /\ UNCHANGED enqueueing

NodeCompletes(w, n) ==
    /\ pc[w] = "execute"
    /\ n \in Pending(w)
    /\ \E out \in Outcomes(plan[w], req[w], results[w], n) :
          outs' = [outs EXCEPT ![w][n] = out]
    /\ tries' = [tries EXCEPT ![w][n] = 0]
    /\ UNCHANGED <<req, pc, plan, layer, results, tokens, tools, late, review, answer, cause>>
    /\ UNCHANGED enqueueing

(* A slip: the tools of the layer are counted after the check. *)
OverBudgetBeforeLayer(w) ==
    \/ tokens[w] > req[w].maxTokens
    \/ tools[w] > req[w].maxTools
    \/ late[w]

OverBudget(w) ==
    \/ tokens[w] > req[w].maxTokens
    \/ tools[w] + Cardinality(layer[w]) > req[w].maxTools
    \/ late[w]

(* A slip: a node with an error keeps its layer waiting. *)
LayerSucceeded(w) ==
    pc[w] = "execute" /\ \A n \in layer[w] : outs[w][n].tag \notin {"absent", "error"}

LayerDone(w) == pc[w] = "execute" /\ Pending(w) = {}

(* A slip: res.error is looked at before res.violation, and kept. *)
ViolationAsError(w) == FALSE

Violated(w) == \E n \in layer[w] : outs[w][n].tag = "violation"

Finished(w) == {n \in Node : results[w][n].tag # "absent"}

(* zip(layer, outs): a violation raises before any budget is looked at (and *)
(* the counts of a failed run are seen by nobody).                         *)
RaiseViolation(w) ==
    /\ LayerDone(w)
    /\ Violated(w)
    /\ Fail(w, "violation")
    /\ UNCHANGED <<req, plan, layer, outs, results, tokens, tools, late,
                   tries, review, answer>>
    /\ UNCHANGED enqueueing

StopOverBudget(w) ==
    /\ LayerDone(w)
    /\ ~Violated(w)
    /\ OverBudget(w)
    /\ tools' = [tools EXCEPT ![w] = @ + Cardinality(layer[w])]
    /\ Fail(w, "budget")
    /\ UNCHANGED <<req, plan, layer, outs, results, tokens, late, tries,
                   review, answer>>
    /\ UNCHANGED enqueueing

Advance(w) ==
    /\ LayerDone(w)
    /\ ~Violated(w)
    /\ ~OverBudget(w)
    /\ tools' = [tools EXCEPT ![w] = @ + Cardinality(layer[w])]
    /\ results' = [results EXCEPT ![w] =
                     [n \in Node |-> IF n \in layer[w] THEN outs[w][n] ELSE @[n]]]
    /\ outs' = [outs EXCEPT ![w] = NoResults]
    /\ LET next == NextLayer(plan[w], Finished(w) \cup layer[w])
       IN  /\ layer' = [layer EXCEPT ![w] = next]
           /\ pc' = [pc EXCEPT ![w] = IF next = {} THEN "summarize" ELSE "execute"]
    /\ tries' = [tries EXCEPT ![w] = NoTries]
    /\ UNCHANGED <<req, plan, tokens, late, review, answer, cause>>
    /\ UNCHANGED enqueueing

(* token_opt.summarize with max(0, tokens_left). *)
AnswerTokens(left) == Max({AnswerFloor, Min({left, AnswerCap})})

SummaryCost(left) == {0} \cup {i + o : i \in PromptTokens, o \in 0..AnswerTokens(left)}

RegionsOf(w) == [n \in plan[w].ids |-> results[w][n].regions]

CollectRegions(w) == UNION {RegionsOf(w)[n] : n \in plan[w].ids}

(* _aggregate_confidence, as in the orchestrator. *)
ConfidencesOf(w) == Confidences(plan[w], RegionsOf(w))

(* The summary is recorded; regions and confidence are computed from the   *)
(* results without leaving the workflow.                                   *)
SummaryArrives(w, t) ==
    /\ pc[w] = "summarize"
    /\ Account(w, t)
    /\ \E conf \in ConfidencesOf(w) :
          answer' = [answer EXCEPT ![w] = [regions |-> CollectRegions(w),
                                           confidence |-> conf,
                                           flagged |-> conf < Threshold,
                                           text |-> "draft"]]
    /\ pc' = [pc EXCEPT ![w] = "output_filter"]
    /\ tries' = [tries EXCEPT ![w] = NoTries]
    /\ UNCHANGED <<req, plan, layer, outs, results, tools, late, review, cause>>
    /\ UNCHANGED enqueueing

(* A slip: the workflow waits for a review that nobody was asked for. *)
AfterFilterUnqueued(w) == IF answer[w].flagged THEN "awaiting_human_review" ELSE "done"

(* Where the filter's activity leads: the review, or the end. *)
AfterFilter(w) == IF answer[w].flagged THEN "hitl_enqueue" ELSE "done"

(* output_filter: the text comes back as it was; what scrub() makes of it  *)
(* is dropped.                                                             *)
Filtered(text) == text

FilterReturns(w) ==
    /\ pc[w] = "output_filter"
    /\ answer' = [answer EXCEPT ![w].text = Filtered(@)]
    /\ pc' = [pc EXCEPT ![w] = AfterFilter(w)]
    /\ tries' = [tries EXCEPT ![w] = NoTries]
    /\ UNCHANGED <<req, plan, layer, outs, results, tokens, tools, late, review, cause>>
    /\ UNCHANGED enqueueing

TimePasses(w) ==
    /\ pc[w] \in {"guard", "plan", "execute"}
    /\ ~late[w]
    /\ late' = [late EXCEPT ![w] = TRUE]
    /\ UNCHANGED <<req, pc, plan, layer, outs, results, tokens, tools, tries,
                   review, answer, cause>>
    /\ UNCHANGED enqueueing
-----------------------------------------------------------------------------
(***************************************************************************)
(* hitl_enqueue: attempts, and the queues they write to.                   *)
(***************************************************************************)

(* The server hands the activity to a worker that polls. *)
StartEnqueue(w, k) ==
    /\ pc[w] = "hitl_enqueue"
    /\ live[w] = NoAttempt
    /\ tries' = [tries EXCEPT ![w]["hitl_enqueue"] = @ + 1]
    /\ LET attempt == [run |-> w, number |-> tries'[w]["hitl_enqueue"], worker |-> k]
       IN  /\ live' = [live EXCEPT ![w] = attempt]
           /\ pending' = pending \cup {attempt}
    /\ UNCHANGED <<req, pc, plan, layer, outs, results, tokens, tools, late,
                   review, answer, cause, returned, queue, planArg, crashes, queued>>

(* The attempt the server waits for is over without a result: another one, *)
(* or the run fails when there have been MaxAttempts.                      *)
GiveUp(w, why) ==
    /\ live' = [live EXCEPT ![w] = NoAttempt]
    /\ IF tries[w]["hitl_enqueue"] = MaxAttempts THEN Fail(w, why)
       ELSE UNCHANGED <<pc, cause>>

(* plan.rationale, read unless the trace id has been seen. *)
Raises(attempt) ==
    planArg = "None" /\ attempt.run \notin queue[attempt.worker].seen

(* HitlQueue.enqueue in the worker; nothing in it suspends.  The server may*)
(* have given the attempt up.                                              *)
RunEnqueue(attempt) ==
    /\ attempt \in pending
    /\ pending' = pending \ {attempt}
    /\ IF Raises(attempt)
       THEN /\ IF live[attempt.run] = attempt THEN GiveUp(attempt.run, "AttributeError")
               ELSE UNCHANGED <<pc, cause, live>>
            /\ UNCHANGED <<queue, returned, queued>>
       ELSE /\ queue' = [queue EXCEPT ![attempt.worker] = Enqueued(@, attempt.run)]
            /\ queued' = queued \cup {attempt.run}
            /\ returned' = returned \cup {attempt}
            /\ UNCHANGED <<pc, cause, live>>
    /\ UNCHANGED <<req, plan, layer, outs, results, tokens, tools, late, tries,
                   review, answer, planArg, crashes>>

(* The completion of the live attempt reaches the server. *)
AckEnqueue(w) ==
    /\ live[w] \in returned
    /\ live' = [live EXCEPT ![w] = NoAttempt]
    /\ pc' = [pc EXCEPT ![w] = "awaiting_human_review"]
    /\ UNCHANGED <<req, plan, layer, outs, results, tokens, tools, late, tries,
                   review, answer, cause, pending, returned, queue, planArg,
                   crashes, queued>>

(* start_to_close_timeout: the server gives the live attempt up, which may *)
(* be queued in a slow worker, or have returned without an answer arriving.*)
LoseEnqueue(w) ==
    /\ live[w] # NoAttempt
    /\ GiveUp(w, "attempts")
    /\ UNCHANGED <<req, plan, layer, outs, results, tokens, tools, late, tries,
                   review, answer, pending, returned, queue, planArg, crashes, queued>>

(* A worker process dies and another takes its place: its queue was in     *)
(* memory, and so was the code of its attempts.  (With neither, a crash is *)
(* a stuttering step.)                                                     *)
WorkerCrash(k) ==
    /\ crashes < MaxCrashes
    /\ queue[k] # EmptyQueue \/ \E attempt \in pending : attempt.worker = k
    /\ crashes' = crashes + 1
    /\ queue' = [queue EXCEPT ![k] = EmptyQueue]
    /\ pending' = {attempt \in pending : attempt.worker # k}
    /\ UNCHANGED <<req, pc, plan, layer, outs, results, tokens, tools, late, tries,
                   review, answer, cause, live, returned, planArg, queued>>

-----------------------------------------------------------------------------
(***************************************************************************)
(* The review.                                                             *)
(***************************************************************************)

(* A slip: the verdict is kept in the place of the decision. *)
RecordedVerdict(decision) == [verdict |-> decision.verdict]

Recorded(decision) == decision

(* The signal handler: at any time of an open run, the last one counts. *)
Signal(w, decision) ==
    /\ pc[w] # "new" /\ ~Ended(w)
    /\ review' = [review EXCEPT ![w] = Recorded(decision)]
    /\ UNCHANGED <<req, pc, plan, layer, outs, results, tokens, tools, late, tries,
                   answer, cause>>
    /\ UNCHANGED enqueueing

(* A slip: the wait is over whether or not a decision has come. *)
ReviewNotAwaited(w) == TRUE

ReviewArrived(w) == review[w] # NoReview

(* wait_condition, then the end: a new answer replaces the draft; whether  *)
(* the reviewer approved is not looked at.                                 *)
Release(w) ==
    /\ pc[w] = "awaiting_human_review"
    /\ ReviewArrived(w)
    /\ WellFormed(answer[w].confidence)
    /\ answer' = [answer EXCEPT ![w].text =
                     IF review[w].corrected THEN "corrected" ELSE @]
    /\ pc' = [pc EXCEPT ![w] = "done"]
    /\ UNCHANGED <<req, plan, layer, outs, results, tokens, tools, late, tries,
                   review, cause>>
    /\ UNCHANGED enqueueing

(* QueryOut refuses the confidence.  That is no ApplicationError: Temporal *)
(* fails the workflow task, not the workflow, and retries it for ever.     *)
Stall(w) ==
    /\ pc[w] = "awaiting_human_review"
    /\ ReviewArrived(w)
    /\ ~WellFormed(answer[w].confidence)
    /\ pc' = [pc EXCEPT ![w] = "stalled"]
    /\ UNCHANGED <<req, plan, layer, outs, results, tokens, tools, late, tries,
                   review, answer, cause>>
    /\ UNCHANGED enqueueing

-----------------------------------------------------------------------------
(* The planner's activity: any plan it may decide on, at any cost.         *)
Planning(w) == \E result \in PlanResult : PlanArrives(w, result.plan, result.tokens)

Executing(w) ==
    \/ \E n \in Node : NodeCompletes(w, n)
    \/ RaiseViolation(w)
    \/ StopOverBudget(w)
    \/ Advance(w)

Answering(w) ==
    \/ \E t \in SummaryCost(req[w].maxTokens - tokens[w]) : SummaryArrives(w, t)
    \/ FilterReturns(w)

Attempting(w) ==
    \/ \E k \in Worker : StartEnqueue(w, k)
    \/ AckEnqueue(w)
    \/ LoseEnqueue(w)

(* What happens to a run without anybody's doing. *)
Proceed(w) ==
    \/ GuardPasses(w)
    \/ Planning(w)
    \/ Executing(w)
    \/ Answering(w)
    \/ \E a \in Activity : AttemptFails(w, a)
    \/ Attempting(w)
    \/ Release(w)
    \/ Stall(w)

Next ==
    \/ \E w \in Workflow : Begin(w) \/ Proceed(w) \/ TimePasses(w)
    \/ \E attempt \in pending : RunEnqueue(attempt)
    \/ \E k \in Worker : WorkerCrash(k)
    \/ \E w \in Workflow, decision \in DecisionSet : Signal(w, decision)

(* Some worker polls the task queue, and start_to_close_timeout ends every *)
(* attempt: a run proceeds unless it waits for its reviewer.               *)
Fairness == \A w \in Workflow : WF_vars(Proceed(w))

Spec == Init /\ [][Next]_vars /\ Fairness

-----------------------------------------------------------------------------
(***************************************************************************)
(* Properties.                                                             *)
(***************************************************************************)

TypeOK ==
    /\ req \in [Workflow -> RequestSet]
    /\ pc \in [Workflow -> Stage]
    /\ plan \in [Workflow -> PlanSet \cup {NoPlan}]
    /\ layer \in [Workflow -> SUBSET Node]
    /\ outs \in [Workflow -> [Node -> NodeResult]]
    /\ results \in [Workflow -> [Node -> NodeResult]]
    /\ tokens \in [Workflow -> Nat]
    /\ tools \in [Workflow -> Nat]
    /\ late \in [Workflow -> BOOLEAN]
    /\ tries \in [Workflow -> [Activity -> 0..MaxAttempts]]
    /\ review \in [Workflow -> Decision \cup {NoReview}]
    /\ answer \in [Workflow -> [regions : SUBSET Region, confidence : Int,
                                flagged : BOOLEAN, text : {"none", "draft", "corrected"}]]
    /\ live \in [Workflow -> Attempt \cup {NoAttempt}]
    /\ pending \subseteq Attempt
    /\ returned \subseteq Attempt
    /\ queue \in [Worker -> [mem : Seq(Workflow), seen : SUBSET Workflow]]
    /\ planArg \in EnqueueArgs
    /\ crashes \in 0..MaxCrashes
    /\ queued \subseteq Workflow
    /\ cause \in [Workflow -> {"none", "attempts", "budget", "violation",
                               "AttributeError"}]

(* Whatever attempts are lost, repeated, late or cut short by a crash, the *)
(* queue of a worker process never holds two rows for a run: the trace id  *)
(* is the same in every attempt.  (Two processes may hold one row each.)   *)
OneRowPerProcess ==
    \A k \in Worker, w \in Workflow : Cardinality(Rows(queue[k], w)) <= 1

(* An answer of low confidence was queued and then decided on by a human,  *)
(* and its text is what the last decision made of it, however early the    *)
(* decision came.  An answer of high confidence is the draft, unqueued,    *)
(* even when somebody signalled a decision meanwhile.                      *)
AnswerIsReviewed ==
    \A w \in Workflow :
        pc[w] = "done" =>
            IF answer[w].confidence < Threshold
            THEN /\ w \in queued
                 /\ review[w] # NoReview
                 /\ answer[w].text = IF review[w].corrected THEN "corrected" ELSE "draft"
            ELSE w \notin queued /\ answer[w].text = "draft"

(* The port validates whenever the plan asks for it: a run whose anchors   *)
(* cannot be reached is never answered if its plan has a VALIDATE node,    *)
(* and never reaches a reviewer.  (The in-process Orchestrator may answer, *)
(* see its ViolationDominates.)                                            *)
ViolationDominates ==
    \A w \in Workflow :
        ~req[w].reachable /\ (\E n \in plan[w].ids : plan[w].kind[n] = "VALIDATE") =>
            pc[w] # "done" /\ w \notin queued

(* Retries are not charged: wherever a run goes on past a layer, its tool  *)
(* count is the number of nodes with a result, within max_tools, and its   *)
(* tokens are within max_tokens until the summary.                         *)
BudgetGate ==
    \A w \in Workflow :
        pc[w] \notin {"new", "failed"} =>
            /\ tools[w] = Cardinality(Finished(w))
            /\ tools[w] <= req[w].maxTools
            /\ answer[w] = NoAnswer => tokens[w] <= req[w].maxTokens

(* A run that was started ends, or waits for a decision that never comes;  *)
(* it stalls only on a confidence that is no probability.                  *)
RunSettles ==
    \A w \in Workflow :
        \/ [](pc[w] = "new")
        \/ <>Ended(w)
        \/ <>[](pc[w] = "awaiting_human_review" /\ review[w] = NoReview)
        \/ <>(pc[w] = "stalled" /\ answer[w].confidence < 0)

(* The durable runs keep the promises of QueryRun. *)
Phase(w) ==
    CASE pc[w] = "new" -> "new"
      [] pc[w] = "done" -> "answered"
      [] pc[w] = "failed" -> "stopped"
      [] OTHER -> "running"

Promise == INSTANCE QueryRun WITH
    Run      <- Workflow,
    phase    <- [w \in Workflow |-> Phase(w)],
    violated <- {w \in Workflow : \E n \in Node : outs[w][n].tag = "violation"},
    reviews  <- queued,
    flagged  <- {w \in Workflow : pc[w] = "done" /\ answer[w].flagged}

KeepsPromise == Promise!Spec

-----------------------------------------------------------------------------
(***************************************************************************)
(* What the documentation says, and the code does not.                     *)
(***************************************************************************)

(* "the workflow enqueues for review and then DURABLY WAITS on a           *)
(* human-approval signal" (workflows.py): a run with an unsure draft fails *)
(* only if the infrastructure lost the last of its attempts to enqueue.    *)
UnsureRunParks ==
    \A w \in Workflow :
        pc[w] = "failed" /\ tries[w]["hitl_enqueue"] > 0 => cause[w] = "attempts"
=============================================================================
