----------------------- MODULE GeoTraceWorkflowProofs -----------------------
(***************************************************************************)
(* The durable port for every set of executions and workers, every plan    *)
(* and request, any number of attempts and of worker crashes.              *)
(*                                                                         *)
(* As in OrchestratorProofs, the inductive invariant is what each run keeps*)
(* by itself, and what the shared queues keep.  The part that has no       *)
(* counterpart there is Attempted: what may still come of an attempt at    *)
(* hitl_enqueue that the server has long given up.                         *)
(***************************************************************************)
EXTENDS GeoTraceWorkflow, NodeResultsProofs

-----------------------------------------------------------------------------
(***************************************************************************)
(* The inductive invariant.                                                *)
(***************************************************************************)

(* The summary has been written. *)
Drafted(w) == answer[w].text # "none"

(* The layer is what topo_layers yields for the results so far, and only   *)
(* its nodes have outcomes.  A run has a draft only when no node is left.  *)
Scheduled(w) ==
    /\ \A n \in Node : outs[w][n].tag # "absent" => n \in layer[w]
    /\ Finished(w) \subseteq plan[w].ids
    /\ pc[w] \in {"new", "guard", "plan"} => plan[w] = NoPlan /\ layer[w] = {}
    /\ pc[w] \in {"execute", "summarize"} \/ Drafted(w) =>
          plan[w] \in PlanSet /\ layer[w] = NextLayer(plan[w], Finished(w))
    /\ pc[w] = "summarize" \/ Drafted(w) => layer[w] = {}

(* Where the anchors cannot be reached, a VALIDATE node leaves a violation,*)
(* and no result.                                                          *)
Computed(w) ==
    /\ \A n \in Node : IsFiniteSet(outs[w][n].regions) /\ IsFiniteSet(results[w][n].regions)
    /\ \A n \in layer[w] :
          plan[w].kind[n] = "VALIDATE" /\ ~req[w].reachable /\ outs[w][n].tag # "absent" =>
             outs[w][n].tag = "violation"
    /\ \A n \in Finished(w) : plan[w].kind[n] = "VALIDATE" => req[w].reachable

(* The ledger of a run: retries do not appear in it. *)
Charged(w) ==
    pc[w] # "failed" =>
        /\ tools[w] = Cardinality(Finished(w))
        /\ tools[w] <= req[w].maxTools
        /\ ~Drafted(w) => tokens[w] <= req[w].maxTokens

(* The answer of a run, and who has seen it. *)
Concluded(w) ==
    /\ ~Drafted(w) => answer[w] = NoAnswer
    /\ Drafted(w) => /\ answer[w].confidence \in ConfidencesOf(w)
                     /\ answer[w].flagged = (answer[w].confidence < Threshold)
    /\ pc[w] \in {"new", "guard", "plan", "execute", "summarize"} => ~Drafted(w)
    /\ pc[w] \in {"output_filter", "hitl_enqueue", "awaiting_human_review", "stalled"} =>
          answer[w].text = "draft"
    /\ pc[w] \in {"hitl_enqueue", "awaiting_human_review", "stalled"} => answer[w].flagged
    /\ pc[w] \in {"awaiting_human_review", "stalled"} => w \in queued
    /\ pc[w] = "stalled" => ~WellFormed(answer[w].confidence)
    /\ pc[w] = "done" =>
          IF answer[w].flagged
          THEN /\ w \in queued
               /\ review[w] # NoReview
               /\ answer[w].text = IF review[w].corrected THEN "corrected" ELSE "draft"
          ELSE answer[w].text = "draft"

(* The stages in which some attempt at hitl_enqueue may be under way. *)
Reviewing == {"hitl_enqueue", "awaiting_human_review", "stalled", "done", "failed"}

(* Whatever attempts are still to run or to be acknowledged, they are of a *)
(* run that is unsure of its draft; and what has returned has left a row.  *)
Attempted(w) ==
    /\ w \in queued => answer[w].flagged /\ pc[w] \in Reviewing
    /\ \A a \in pending \cup returned :
          a.run = w => answer[w].flagged /\ pc[w] \in Reviewing
    /\ \A a \in returned : a.run = w => w \in queued
    /\ live[w] # NoAttempt => live[w].run = w /\ pc[w] = "hitl_enqueue"
    /\ pc[w] \notin Reviewing => \A a \in Activity : tries[w][a] < MaxAttempts
    /\ pc[w] = "hitl_enqueue" /\ live[w] = NoAttempt =>
          tries[w]["hitl_enqueue"] < MaxAttempts

QueuesKeepRows == \A k \in Worker : KeepsRows(queue[k], Workflow)

RunInv(w) == Scheduled(w) /\ Computed(w) /\ Charged(w) /\ Concluded(w) /\ Attempted(w)

IInv == TypeOK /\ QueuesKeepRows /\ \A w \in Workflow : RunInv(w)

-----------------------------------------------------------------------------
(***************************************************************************)
(* Lemmas on the operators of a step.                                      *)
(***************************************************************************)

LEMMA NoResultsType ==
    /\ NoResults \in [Node -> NodeResult]
    /\ \A n \in Node : NoResults[n].tag = "absent" /\ NoResults[n].regions = {}
BY DEF NoResults, Plain, NodeResult

(* No attempt is the absence of one: attempts are numbered from 1. *)
LEMMA NoAttemptIsNone == NoAttempt \notin Attempt
BY DEF NoAttempt, Attempt

(* The node ids of a plan, and so the nodes with a result, are finite. *)
LEMMA PlanFinite ==
    ASSUME TypeOK, NEW w \in Workflow
    PROVE  IsFiniteSet(plan[w].ids) /\ plan[w].ids \in SUBSET Node
<1>1. CASE plan[w] = NoPlan
    <2>1. plan[w].ids = {}
        BY <1>1 DEF NoPlan
    <2> QED BY <2>1, FS_EmptySet
<1>2. CASE plan[w] \in PlanSet
    BY <1>2, PlansAreExecutable DEF IsPlan
<1> QED BY <1>1, <1>2 DEF TypeOK

(* What a node leaves: a typed outcome with finitely many regions, and a   *)
(* violation where a validator finds anchors that cannot be reached.       *)
LEMMA OutcomeOf ==
    ASSUME NEW p \in PlanSet, NEW q \in RequestSet, NEW prior \in [Node -> NodeResult],
           \A d \in Node : IsFiniteSet(prior[d].regions),
           NEW n \in p.ids, NEW out \in Outcomes(p, q, prior, n)
    PROVE  /\ out \in NodeResult /\ out.tag # "absent" /\ IsFiniteSet(out.regions)
           /\ p.kind[n] = "VALIDATE" /\ ~q.reachable => out.tag = "violation"
<1>1. /\ IsPlan(p) /\ IsRequest(q) /\ n \in Node /\ p.kind[n] \in Kind
      /\ DepSet(p, n) \subseteq Node /\ IsFiniteSet(DepSet(p, n))
    <2>1. IsPlan(p) /\ IsRequest(q) /\ DepSet(p, n) \in SUBSET p.ids /\ IsFiniteSet(p.ids)
        BY PlansAreExecutable, RequestsAreTyped DEF IsPlan
    <2> QED BY <2>1, FS_Subset DEF IsPlan
<1>2. CASE p.kind[n] \in {"PRISM", "GAPS", "RETRIEVE", "SUMMARIZE"}
    <2>1. out \in {Plain("prism"), Plain("ok"), Plain("error")}
        BY <1>2 DEF Outcomes
    <2>2. out.regions = {} /\ out \in NodeResult /\ out.tag # "absent"
        BY <2>1 DEF Plain, NodeResult
    <2> QED BY <1>2, <2>2, FS_EmptySet
<1>3. CASE p.kind[n] \in {"TGARD", "DC_TGARD"}
    <2> DEFINE prisms == Prisms(p, prior, n)
               found == RegionsFound(p, q, n, prisms)
    <2>1. out \in {Regions(found), Plain("error")}
        BY <1>3 DEF Outcomes
    <2>2. prisms \in SUBSET DepSet(p, n)
        BY DEF Prisms
    <2>3. prisms \in SUBSET Node /\ IsFiniteSet(prisms)
        BY <1>1, <2>2, FS_Subset
    <2> HIDE DEF prisms
    <2>4. found \in SUBSET Region /\ IsFiniteSet(found)
        BY <1>1, <2>3, FoundType, FoundFinite
    <2> HIDE DEF found
    <2>5. CASE out = Regions(found)
        <3>1. out.regions = found /\ out \in NodeResult /\ out.tag # "absent"
            BY <2>4, <2>5 DEF Regions, NodeResult
        <3> QED BY <1>3, <2>4, <3>1
    <2>6. CASE out = Plain("error")
        <3>1. out.regions = {} /\ out \in NodeResult /\ out.tag # "absent"
            BY <2>6 DEF Plain, NodeResult
        <3> QED BY <1>3, <3>1, FS_EmptySet
    <2> QED BY <2>1, <2>5, <2>6
<1>4. CASE p.kind[n] = "VALIDATE"
    <2> DEFINE lists == {prior[d].regions : d \in DepSet(p, n)}
               f == [d \in DepSet(p, n) |-> prior[d].regions]
    <2>1. out = ValidateOutcome(p, q, prior, n)
        BY <1>4 DEF Outcomes
    <2>2. CASE ~q.reachable
        <3>1. out = Plain("violation")
            BY <2>1, <2>2 DEF ValidateOutcome
        <3>2. out.regions = {} /\ out \in NodeResult /\ out.tag = "violation"
            BY <3>1 DEF Plain, NodeResult
        <3> QED BY <3>2, FS_EmptySet
    <2>3. CASE q.reachable
        <3>1. out = Regions(UNION lists)
            BY <2>1, <2>3 DEF ValidateOutcome
        <3>2. UNION lists \in SUBSET Region
            BY <1>1 DEF NodeResult
        <3>3. IsFiniteSet(lists)
            <4>1. f \in Surjection(DepSet(p, n), lists)
                BY DEF Surjection
            <4> HIDE DEF f, lists
            <4> QED BY <1>1, <4>1, FS_Surjection
        <3>4. \A x \in lists : IsFiniteSet(x)
            BY <1>1
        <3> HIDE DEF lists
        <3>5. IsFiniteSet(UNION lists)
            BY <3>3, <3>4, FS_UNION
        <3>6. /\ out.regions = UNION lists /\ out \in NodeResult /\ out.tag # "absent"
            BY <3>1, <3>2 DEF Regions, NodeResult
        <3> QED BY <2>3, <3>5, <3>6
    <2> QED BY <2>2, <2>3
<1> QED BY <1>1, <1>2, <1>3, <1>4 DEF Kind

(* What the summarizer may cost is a number of tokens. *)
LEMMA SummaryCostType ==
    ASSUME NEW left \in Int, NEW t \in SummaryCost(left)
    PROVE  t \in Nat
<1> USE CostsAreNat
<1>1. CASE t = 0
    BY <1>1
<1>2. CASE t # 0
    <2>1. PICK i \in PromptTokens, o \in 0..AnswerTokens(left) : t = i + o
        BY <1>2 DEF SummaryCost
    <2>2. o \in Nat
        <3>1. o \in Int /\ o >= 0
            BY <2>1
        <3> QED BY <3>1
    <2> QED BY <2>1, <2>2
<1> QED BY <1>1, <1>2

-----------------------------------------------------------------------------
(***************************************************************************)
(* A step of one run leaves the others as they are.                        *)
(***************************************************************************)
SameWork(w) ==
    /\ req'[w] = req[w]
    /\ plan'[w] = plan[w]
    /\ layer'[w] = layer[w]
    /\ outs'[w] = outs[w]
    /\ results'[w] = results[w]

SameEnd(w) ==
    /\ pc'[w] = pc[w]
    /\ tokens'[w] = tokens[w]
    /\ tools'[w] = tools[w]
    /\ answer'[w] = answer[w]
    /\ review'[w] = review[w]

(* An attempt of the run may have been lost. *)
SameAttempts(w) ==
    /\ tries'[w] = tries[w]
    /\ live'[w] = live[w]
    /\ (w \in queued') = (w \in queued)
    /\ \A a \in pending' : a.run = w => a \in pending
    /\ \A a \in returned' : a.run = w => a \in returned

LEMMA FrameWork ==
    ASSUME NEW w, SameWork(w)
    PROVE  /\ Finished(w)' = Finished(w)
           /\ Computed(w) => Computed(w)'
           /\ ConfidencesOf(w)' = ConfidencesOf(w)
<1>1. Finished(w)' = Finished(w)
    BY DEF SameWork, Finished
<1>2. Computed(w) => Computed(w)'
    BY <1>1 DEF SameWork, Computed
<1>3. RegionsOf(w)' = RegionsOf(w)
    BY DEF SameWork, RegionsOf
<1>4. ConfidencesOf(w)' = ConfidencesOf(w)
    BY <1>3 DEF SameWork, ConfidencesOf
<1> QED BY <1>1, <1>2, <1>4

LEMMA Frame ==
    ASSUME NEW w, RunInv(w), SameWork(w), SameEnd(w), SameAttempts(w)
    PROVE  RunInv(w)'
<1>1. /\ Finished(w)' = Finished(w)
      /\ Computed(w)'
      /\ ConfidencesOf(w)' = ConfidencesOf(w)
      /\ Drafted(w)' = Drafted(w)
    BY FrameWork DEF RunInv, SameEnd, Drafted
<1>2. Scheduled(w)'
    BY <1>1 DEF RunInv, Scheduled, SameWork, SameEnd
<1>3. Charged(w)'
    BY <1>1 DEF RunInv, Charged, SameWork, SameEnd
<1>4. Concluded(w)'
    BY <1>1 DEF RunInv, Concluded, SameEnd, SameAttempts
<1>5. Attempted(w)'
    BY <1>1 DEF RunInv, Attempted, SameEnd, SameAttempts
<1> QED BY <1>1, <1>2, <1>3, <1>4, <1>5 DEF RunInv

LEMMA StepOfOneRun ==
    ASSUME IInv, NEW w \in Workflow, TypeOK', QueuesKeepRows', RunInv(w)',
           \A x \in Workflow \ {w} : SameWork(x) /\ SameEnd(x) /\ SameAttempts(x)
    PROVE  IInv'
<1>1. ASSUME NEW x \in Workflow \ {w} PROVE RunInv(x)'
    BY Frame DEF IInv
<1> QED BY <1>1 DEF IInv

(* An action that does not touch the attempts. *)
LEMMA AttemptsStay ==
    ASSUME IInv, UNCHANGED enqueueing
    PROVE  /\ QueuesKeepRows'
           /\ \A x \in Workflow : tries'[x] = tries[x] => SameAttempts(x)
BY DEF IInv, QueuesKeepRows, SameAttempts, enqueueing

-----------------------------------------------------------------------------
(***************************************************************************)
(* Every step keeps the invariant.                                         *)
(***************************************************************************)

LEMMA InitIInv == Init => IInv
<1> SUFFICES ASSUME Init PROVE IInv
    OBVIOUS
<1>1. /\ MaxAttempts \in Nat \ {0} /\ MaxCrashes \in Nat
      /\ NoTries \in [Activity -> 0..MaxAttempts]
      /\ \A a \in Activity : NoTries[a] < MaxAttempts
    BY AttemptsArePositive DEF NoTries
<1>2. NoAnswer \in [regions : SUBSET Region, confidence : Int,
                    flagged : BOOLEAN, text : {"none", "draft", "corrected"}]
    BY DEF NoAnswer
<1>3. EmptyQueue \in [mem : Seq(Workflow), seen : SUBSET Workflow]
    BY DEF EmptyQueue
<1>4. TypeOK
    BY <1>1, <1>2, <1>3, NoResultsType DEF Init, TypeOK, Stage
<1>5. QueuesKeepRows
    <2>1. KeepsRows(EmptyQueue, Workflow)
        BY EmptyKeepsRows
    <2> QED BY <2>1 DEF Init, QueuesKeepRows
<1>6. ASSUME NEW w \in Workflow PROVE RunInv(w)
    <2>1. /\ pc[w] = "new" /\ plan[w] = NoPlan /\ layer[w] = {}
          /\ outs[w] = NoResults /\ results[w] = NoResults
          /\ tokens[w] = 0 /\ tools[w] = 0 /\ answer[w] = NoAnswer
          /\ tries[w] = NoTries /\ live[w] = NoAttempt
          /\ pending = {} /\ returned = {} /\ queued = {}
          /\ req[w] \in RequestSet
        BY <1>6 DEF Init
    <2>2. Finished(w) = {}
        BY <2>1, NoResultsType DEF Finished
    <2>3. ~Drafted(w) /\ NoPlan.ids = {}
        BY <2>1 DEF Drafted, NoAnswer, NoPlan
    <2>4. Scheduled(w)
        BY <2>1, <2>2, <2>3, NoResultsType DEF Scheduled
    <2>5. Computed(w)
        BY <2>1, <2>2, NoResultsType, FS_EmptySet DEF Computed
    <2>6. Charged(w)
        <3>1. Cardinality({}) = 0 /\ req[w].maxTools \in Nat /\ req[w].maxTokens \in Nat
            BY <2>1, FS_EmptySet, RequestsAreTyped DEF IsRequest
        <3> QED BY <2>1, <2>2, <3>1 DEF Charged
    <2>7. Concluded(w)
        BY <2>1, <2>3 DEF Concluded
    <2>8. Attempted(w)
        BY <1>1, <2>1 DEF Attempted, Reviewing
    <2> QED BY <2>4, <2>5, <2>6, <2>7, <2>8 DEF RunInv
<1> QED BY <1>4, <1>5, <1>6 DEF IInv

(* A run that has no draft yet passes a stage without a result, uses up an *)
(* attempt, gets late or fails.                                            *)
LEMMA StageStep ==
    ASSUME IInv, NEW w \in Workflow, NEW stage,
           \/ stage = pc[w]
           \/ pc[w] = "new" /\ stage = "guard"
           \/ pc[w] = "guard" /\ stage = "plan"
           \/ stage = "failed",
           pc[w] \in {"new", "guard", "plan", "execute", "summarize", "output_filter"},
           pc' = [pc EXCEPT ![w] = stage],
           NEW used \in [Activity -> 0..MaxAttempts], tries' = [tries EXCEPT ![w] = used],
           stage # "failed" => \A a \in Activity : used[a] < MaxAttempts,
           late' \in [Workflow -> BOOLEAN],
           cause' \in [Workflow -> {"none", "attempts", "budget", "violation",
                                    "AttributeError"}],
           UNCHANGED <<req, plan, layer, outs, results, tokens, tools, review, answer>>,
           UNCHANGED enqueueing
    PROVE  IInv'
<1>1. /\ pc'[w] = stage /\ stage \in Stage
      /\ tries'[w] = used
      /\ \A x \in Workflow \ {w} : pc'[x] = pc[x] /\ tries'[x] = tries[x]
    BY DEF IInv, TypeOK, Stage
<1>2. TypeOK'
    BY <1>1 DEF IInv, TypeOK, enqueueing
<1>3. /\ QueuesKeepRows'
      /\ \A x \in Workflow \ {w} : SameAttempts(x)
    BY <1>1, AttemptsStay
<1>4. /\ \A x \in Workflow : SameWork(x)
      /\ \A x \in Workflow \ {w} : SameEnd(x)
    BY <1>1 DEF SameWork, SameEnd
<1>5. RunInv(w)'
    <2>1. Scheduled(w) /\ Computed(w) /\ Charged(w) /\ Concluded(w) /\ Attempted(w)
        BY DEF IInv, RunInv
    <2>2. /\ Finished(w)' = Finished(w) /\ ConfidencesOf(w)' = ConfidencesOf(w)
          /\ Computed(w)' /\ Drafted(w)' = Drafted(w)
        BY <1>4, <2>1, FrameWork DEF Drafted
    <2>3. Scheduled(w)'
        BY <1>1, <2>1, <2>2 DEF Scheduled
    <2>4. Charged(w)'
        BY <1>1, <2>1, <2>2 DEF Charged
    <2>5. Concluded(w)'
        BY <1>1, <2>1, <2>2 DEF Concluded, enqueueing
    <2>6. Attempted(w)'
        BY <1>1, <2>1 DEF Attempted, enqueueing, Reviewing
    <2> QED BY <2>2, <2>3, <2>4, <2>5, <2>6 DEF RunInv
<1> QED BY <1>2, <1>3, <1>4, <1>5, StepOfOneRun

LEMMA BeginStep ==
    ASSUME IInv, NEW w \in Workflow, Begin(w)
    PROVE  IInv'
<1>1. /\ tries[w] \in [Activity -> 0..MaxAttempts]
      /\ \A a \in Activity : tries[w][a] < MaxAttempts
    BY DEF IInv, TypeOK, RunInv, Attempted, Reviewing, Begin
<1>2. tries' = [tries EXCEPT ![w] = tries[w]]
    BY DEF Begin, IInv, TypeOK
<1>3. late' \in [Workflow -> BOOLEAN]
      /\ cause' \in [Workflow -> {"none", "attempts", "budget", "violation",
                                  "AttributeError"}]
    BY DEF Begin, IInv, TypeOK
<1> QED BY <1>1, <1>2, <1>3, StageStep DEF Begin

LEMMA NoTriesType ==
    /\ NoTries \in [Activity -> 0..MaxAttempts]
    /\ \A a \in Activity : NoTries[a] < MaxAttempts
BY AttemptsArePositive DEF NoTries

LEMMA GuardPassesStep ==
    ASSUME IInv, NEW w \in Workflow, GuardPasses(w)
    PROVE  IInv'
<1>1. late' \in [Workflow -> BOOLEAN]
      /\ cause' \in [Workflow -> {"none", "attempts", "budget", "violation",
                                  "AttributeError"}]
    BY DEF GuardPasses, IInv, TypeOK
<1> QED BY <1>1, NoTriesType, StageStep DEF GuardPasses

LEMMA TimePassesStep ==
    ASSUME IInv, NEW w \in Workflow, TimePasses(w)
    PROVE  IInv'
<1>1. /\ tries[w] \in [Activity -> 0..MaxAttempts]
      /\ \A a \in Activity : tries[w][a] < MaxAttempts
    BY DEF IInv, TypeOK, RunInv, Attempted, Reviewing, TimePasses
<1>2. tries' = [tries EXCEPT ![w] = tries[w]] /\ pc' = [pc EXCEPT ![w] = pc[w]]
    BY DEF TimePasses, IInv, TypeOK
<1>3. late' \in [Workflow -> BOOLEAN]
      /\ cause' \in [Workflow -> {"none", "attempts", "budget", "violation",
                                  "AttributeError"}]
    BY DEF TimePasses, IInv, TypeOK
<1> QED BY <1>1, <1>2, <1>3, StageStep DEF TimePasses

(* The attempts of every activity but hitl_enqueue are counted here. *)
LEMMA AttemptFailsStep ==
    ASSUME IInv, NEW w \in Workflow, NEW a \in Activity, AttemptFails(w, a)
    PROVE  IInv'
<1>1. pc[w] \in {"guard", "plan", "execute", "summarize", "output_filter"}
    BY DEF AttemptFails, Pending
<1>2. /\ MaxAttempts \in Nat
      /\ tries[w] \in [Activity -> 0..MaxAttempts]
      /\ \A b \in Activity : tries[w][b] < MaxAttempts
    BY <1>1, AttemptsArePositive DEF IInv, TypeOK, RunInv, Attempted, Reviewing
<1> DEFINE used == [tries[w] EXCEPT ![a] = @ + 1]
<1>3. /\ used \in [Activity -> 0..MaxAttempts]
      /\ used[a] # MaxAttempts => \A b \in Activity : used[b] < MaxAttempts
    BY <1>2
<1>4. tries' = [tries EXCEPT ![w] = used] /\ tries'[w][a] = used[a]
    BY DEF AttemptFails, IInv, TypeOK
<1> HIDE DEF used
<1>5. late' \in [Workflow -> BOOLEAN]
    BY DEF AttemptFails, IInv, TypeOK
<1>6. CASE used[a] = MaxAttempts
    <2>1. /\ pc' = [pc EXCEPT ![w] = "failed"]
          /\ cause' = [cause EXCEPT ![w] = "attempts"]
        BY <1>4, <1>6 DEF AttemptFails, Fail
    <2>2. cause' \in [Workflow -> {"none", "attempts", "budget", "violation",
                                   "AttributeError"}]
        BY <2>1 DEF IInv, TypeOK
    <2> QED BY <1>1, <1>3, <1>4, <1>5, <2>1, <2>2, StageStep DEF AttemptFails
<1>7. CASE used[a] # MaxAttempts
    <2>1. pc' = [pc EXCEPT ![w] = pc[w]] /\ cause' = cause
        BY <1>4, <1>7 DEF AttemptFails, IInv, TypeOK
    <2>2. cause' \in [Workflow -> {"none", "attempts", "budget", "violation",
                                   "AttributeError"}]
        BY <2>1 DEF IInv, TypeOK
    <2> QED BY <1>1, <1>3, <1>4, <1>5, <1>7, <2>1, <2>2, StageStep DEF AttemptFails
<1> QED BY <1>6, <1>7

LEMMA RaiseViolationStep ==
    ASSUME IInv, NEW w \in Workflow, RaiseViolation(w)
    PROVE  IInv'
<1>1. /\ tries[w] \in [Activity -> 0..MaxAttempts]
      /\ tries' = [tries EXCEPT ![w] = tries[w]]
      /\ pc[w] = "execute"
    BY DEF IInv, TypeOK, RaiseViolation, LayerDone
<1>2. /\ pc' = [pc EXCEPT ![w] = "failed"]
      /\ cause' = [cause EXCEPT ![w] = "violation"]
    BY DEF RaiseViolation, Fail
<1>3. late' \in [Workflow -> BOOLEAN]
      /\ cause' \in [Workflow -> {"none", "attempts", "budget", "violation",
                                  "AttributeError"}]
    BY <1>2 DEF RaiseViolation, IInv, TypeOK
<1> QED BY <1>1, <1>2, <1>3, StageStep DEF RaiseViolation

(* The plan is scheduled, or the run is over budget and has none. *)
LEMMA PlanArrivesStep ==
    ASSUME IInv, NEW w \in Workflow, NEW p \in PlanSet, NEW t \in PlanTokens,
           PlanArrives(w, p, t)
    PROVE  IInv'
<1>1. /\ pc[w] = "plan"
      /\ tokens' = [tokens EXCEPT ![w] = @ + t]
      /\ tries' = [tries EXCEPT ![w] = NoTries]
      /\ UNCHANGED <<req, outs, results, tools, late, review, answer>>
      /\ UNCHANGED enqueueing
    BY DEF PlanArrives, Account
<1>2. \/ /\ pc' = [pc EXCEPT ![w] = "failed"]
         /\ cause' = [cause EXCEPT ![w] = "budget"]
         /\ UNCHANGED <<plan, layer>>
      \/ /\ pc' = [pc EXCEPT ![w] = IF NextLayer(p, {}) = {} THEN "summarize" ELSE "execute"]
         /\ plan' = [plan EXCEPT ![w] = p]
         /\ layer' = [layer EXCEPT ![w] = NextLayer(p, {})]
         /\ UNCHANGED cause
         /\ ~(tokens'[w] > req[w].maxTokens)
    BY DEF PlanArrives, Fail
<1>3. IsPlan(p) /\ NextLayer(p, {}) \in SUBSET Node /\ t \in Nat
    BY PlansAreExecutable, CostsAreNat DEF IsPlan, NextLayer
<1>4. /\ tokens' \in [Workflow -> Nat] /\ tries' \in [Workflow -> [Activity -> 0..MaxAttempts]]
      /\ tokens'[w] = tokens[w] + t
      /\ tries'[w] = NoTries
      /\ \A x \in Workflow \ {w} : tokens'[x] = tokens[x] /\ tries'[x] = tries[x]
    BY <1>1, <1>3, NoTriesType DEF IInv, TypeOK
<1>5. /\ pc' \in [Workflow -> Stage]
      /\ cause' \in [Workflow -> {"none", "attempts", "budget", "violation",
                                  "AttributeError"}]
      /\ \A x \in Workflow \ {w} : pc'[x] = pc[x]
    <2>1. PICK stage \in {"failed", "summarize", "execute"} : pc' = [pc EXCEPT ![w] = stage]
        BY <1>2
    <2>2. pc' \in [Workflow -> Stage] /\ \A x \in Workflow \ {w} : pc'[x] = pc[x]
        BY <2>1 DEF IInv, TypeOK, Stage
    <2>3. cause' = cause \/ cause' = [cause EXCEPT ![w] = "budget"]
        BY <1>2
    <2>4. cause' \in [Workflow -> {"none", "attempts", "budget", "violation",
                                   "AttributeError"}]
        BY <2>3 DEF IInv, TypeOK
    <2> QED BY <2>2, <2>4
<1>6. /\ plan' \in [Workflow -> PlanSet \cup {NoPlan}] /\ layer' \in [Workflow -> SUBSET Node]
      /\ \A x \in Workflow \ {w} : plan'[x] = plan[x] /\ layer'[x] = layer[x]
    <2>1. CASE UNCHANGED <<plan, layer>>
        BY <2>1 DEF IInv, TypeOK
    <2>2. CASE plan' = [plan EXCEPT ![w] = p] /\ layer' = [layer EXCEPT ![w] = NextLayer(p, {})]
        BY <1>3, <2>2 DEF IInv, TypeOK
    <2> QED BY <1>2, <2>1, <2>2
<1>7. \/ pc'[w] = "failed" /\ plan'[w] = plan[w] /\ layer'[w] = layer[w]
      \/ /\ pc'[w] \in {"summarize", "execute"}
         /\ plan'[w] = p /\ layer'[w] = NextLayer(p, {})
         /\ pc'[w] = "summarize" => layer'[w] = {}
         /\ tokens'[w] <= req[w].maxTokens
    <2>1. req[w].maxTokens \in Nat /\ tokens'[w] \in Nat
        BY <1>4, RequestsAreTyped DEF IInv, TypeOK, IsRequest
    <2> QED BY <1>2, <2>1 DEF IInv, TypeOK
<1>8. TypeOK'
    BY <1>1, <1>4, <1>5, <1>6 DEF IInv, TypeOK, enqueueing
<1>9. /\ QueuesKeepRows'
      /\ \A x \in Workflow \ {w} : SameWork(x) /\ SameEnd(x) /\ SameAttempts(x)
    BY <1>1, <1>4, <1>5, <1>6, AttemptsStay DEF SameWork, SameEnd
<1>10. RunInv(w)'
    <2>1. Scheduled(w) /\ Computed(w) /\ Charged(w) /\ Concluded(w) /\ Attempted(w)
        BY DEF IInv, RunInv
    <2>2. /\ plan[w] = NoPlan /\ layer[w] = {}
          /\ ~Drafted(w) /\ ~Drafted(w)' /\ answer'[w] = NoAnswer
        BY <1>1, <2>1 DEF Scheduled, Concluded, Drafted
    <2>3. Finished(w) = {} /\ Finished(w)' = {} /\ \A n \in Node : outs'[w][n].tag = "absent"
        BY <1>1, <2>1, <2>2 DEF Scheduled, Finished, NoPlan
    <2>4. Scheduled(w)'
        BY <1>7, <2>2, <2>3 DEF Scheduled
    <2>5. Computed(w)'
        <3>1. layer'[w] \in SUBSET Node
            BY <1>6
        <3>2. \A n \in Node : IsFiniteSet(outs'[w][n].regions) /\ IsFiniteSet(results'[w][n].regions)
            BY <1>1, <2>1 DEF Computed
        <3>3. \A n \in layer'[w] : outs'[w][n].tag = "absent"
            BY <2>3, <3>1
        <3> QED BY <2>3, <3>2, <3>3 DEF Computed
    <2>6. Charged(w)'
        BY <1>1, <1>7, <2>1, <2>3 DEF Charged
    <2>7. Concluded(w)'
        BY <1>7, <2>2 DEF Concluded
    <2>8. Attempted(w)'
        BY <1>1, <1>4, <1>7, <2>1, NoTriesType DEF Attempted, enqueueing, Reviewing
    <2> QED BY <2>4, <2>5, <2>6, <2>7, <2>8 DEF RunInv
<1> QED BY <1>8, <1>9, <1>10, StepOfOneRun

(* A node's activity returns. *)
LEMMA NodeCompletesStep ==
    ASSUME IInv, NEW w \in Workflow, NEW n \in Node, NodeCompletes(w, n)
    PROVE  IInv'
<1>1. /\ pc[w] = "execute" /\ n \in layer[w]
      /\ tries' = [tries EXCEPT ![w][n] = 0]
      /\ UNCHANGED <<req, pc, plan, layer, results, tokens, tools, late, review, answer, cause>>
      /\ UNCHANGED enqueueing
    BY DEF NodeCompletes, Pending
<1>2. PICK out \in Outcomes(plan[w], req[w], results[w], n) :
         outs' = [outs EXCEPT ![w][n] = out]
    BY DEF NodeCompletes
<1>3. Scheduled(w) /\ Computed(w) /\ Charged(w) /\ Concluded(w) /\ Attempted(w)
    BY DEF IInv, RunInv
<1>4. /\ plan[w] \in PlanSet /\ req[w] \in RequestSet /\ n \in plan[w].ids
      /\ results[w] \in [Node -> NodeResult]
      /\ \A d \in Node : IsFiniteSet(results[w][d].regions)
    BY <1>1, <1>3 DEF Scheduled, NextLayer, Computed, IInv, TypeOK
<1>5. /\ out \in NodeResult /\ out.tag # "absent" /\ IsFiniteSet(out.regions)
      /\ plan[w].kind[n] = "VALIDATE" /\ ~req[w].reachable => out.tag = "violation"
    BY <1>4, OutcomeOf
<1>6. /\ outs' \in [Workflow -> [Node -> NodeResult]]
      /\ outs'[w][n] = out
      /\ \A m \in Node \ {n} : outs'[w][m] = outs[w][m]
      /\ \A x \in Workflow \ {w} : outs'[x] = outs[x]
    BY <1>2, <1>5 DEF IInv, TypeOK
<1>7. /\ tries' \in [Workflow -> [Activity -> 0..MaxAttempts]]
      /\ \A x \in Workflow \ {w} : tries'[x] = tries[x]
      /\ \A a \in Activity : tries'[w][a] < MaxAttempts
    <2>1. n \in Activity /\ MaxAttempts \in Nat \ {0}
        BY AttemptsArePositive DEF Activity
    <2>2. \A a \in Activity : tries[w][a] < MaxAttempts
        BY <1>1, <1>3 DEF Attempted, Reviewing
    <2> QED BY <1>1, <2>1, <2>2 DEF IInv, TypeOK
<1>8. TypeOK'
    BY <1>1, <1>6, <1>7 DEF IInv, TypeOK, enqueueing
<1>9. /\ QueuesKeepRows'
      /\ \A x \in Workflow \ {w} : SameWork(x) /\ SameEnd(x) /\ SameAttempts(x)
    BY <1>1, <1>6, <1>7, AttemptsStay DEF SameWork, SameEnd
<1>10. RunInv(w)'
    <2>1. Finished(w)' = Finished(w) /\ Drafted(w)' = Drafted(w) /\ ~Drafted(w)
        BY <1>1, <1>3 DEF Finished, Drafted, Concluded
    <2>2. Scheduled(w)'
        BY <1>1, <1>3, <1>6, <2>1 DEF Scheduled
    <2>3. Computed(w)'
        <3>1. layer[w] \in SUBSET Node
            BY DEF IInv, TypeOK
        <3> QED BY <1>1, <1>3, <1>5, <1>6, <2>1, <3>1 DEF Computed
    <2>4. Charged(w)'
        BY <1>1, <1>3, <2>1 DEF Charged
    <2>5. Concluded(w)'
        BY <1>1, <1>3, <2>1 DEF Concluded
    <2>6. Attempted(w)'
        BY <1>1, <1>3, <1>7 DEF Attempted, enqueueing, Reviewing
    <2> QED BY <2>2, <2>3, <2>4, <2>5, <2>6 DEF RunInv
<1> QED BY <1>8, <1>9, <1>10, StepOfOneRun

LEMMA StopOverBudgetStep ==
    ASSUME IInv, NEW w \in Workflow, StopOverBudget(w)
    PROVE  IInv'
<1>1. /\ pc[w] = "execute"
      /\ tools' = [tools EXCEPT ![w] = @ + Cardinality(layer[w])]
      /\ pc' = [pc EXCEPT ![w] = "failed"]
      /\ cause' = [cause EXCEPT ![w] = "budget"]
      /\ UNCHANGED <<req, plan, layer, outs, results, tokens, late, tries, review, answer>>
      /\ UNCHANGED enqueueing
    BY DEF StopOverBudget, LayerDone, Fail
<1>2. Scheduled(w) /\ Computed(w) /\ Charged(w) /\ Concluded(w) /\ Attempted(w)
    BY DEF IInv, RunInv
<1>3. /\ pc'[w] = "failed" /\ pc' \in [Workflow -> Stage]
      /\ \A x \in Workflow \ {w} : pc'[x] = pc[x] /\ tools'[x] = tools[x]
    BY <1>1 DEF IInv, TypeOK, Stage
<1>4. Cardinality(layer[w]) \in Nat
    <2>1. layer[w] \in SUBSET plan[w].ids /\ IsFiniteSet(plan[w].ids)
        BY <1>1, <1>2, PlanFinite DEF Scheduled, NextLayer, IInv
    <2> QED BY <2>1, FS_Subset, FS_CardinalityType
<1>5. TypeOK'
    <2>1. tools' \in [Workflow -> Nat]
        BY <1>1, <1>4 DEF IInv, TypeOK
    <2>2. cause' \in [Workflow -> {"none", "attempts", "budget", "violation",
                                   "AttributeError"}]
        BY <1>1 DEF IInv, TypeOK
    <2> QED BY <1>1, <1>3, <2>1, <2>2 DEF IInv, TypeOK, enqueueing
<1>6. /\ QueuesKeepRows'
      /\ \A x \in Workflow \ {w} : SameWork(x) /\ SameEnd(x) /\ SameAttempts(x)
    BY <1>1, <1>3, AttemptsStay DEF SameWork, SameEnd
<1>7. RunInv(w)'
    <2>1. /\ Finished(w)' = Finished(w) /\ Computed(w)' /\ Drafted(w)' = Drafted(w)
          /\ ~Drafted(w)
        BY <1>1, <1>2, FrameWork DEF SameWork, Drafted, Concluded
    <2>2. Scheduled(w)' /\ Charged(w)' /\ Concluded(w)'
        BY <1>1, <1>2, <1>3, <2>1 DEF Scheduled, Charged, Concluded
    <2>3. Attempted(w)'
        BY <1>1, <1>2, <1>3 DEF Attempted, Reviewing, enqueueing
    <2> QED BY <2>1, <2>2, <2>3 DEF RunInv
<1> QED BY <1>5, <1>6, <1>7, StepOfOneRun

(* The layer's outcomes become results; the tools counted are the nodes    *)
(* that have one now.                                                      *)
LEMMA AdvanceStep ==
    ASSUME IInv, NEW w \in Workflow, Advance(w)
    PROVE  IInv'
<1> DEFINE F == Finished(w)
           L == layer[w]
           next == NextLayer(plan[w], F \cup L)
           stage == IF next = {} THEN "summarize" ELSE "execute"
           res == [n \in Node |-> IF n \in L THEN outs[w][n] ELSE results[w][n]]
<1>1. /\ pc[w] = "execute" /\ \A n \in L : outs[w][n].tag # "absent"
      /\ \A n \in L : outs[w][n].tag # "violation"
      /\ tools' = [tools EXCEPT ![w] = @ + Cardinality(L)]
      /\ results' = [results EXCEPT ![w] = res]
      /\ outs' = [outs EXCEPT ![w] = NoResults]
      /\ layer' = [layer EXCEPT ![w] = next]
      /\ pc' = [pc EXCEPT ![w] = stage]
      /\ tries' = [tries EXCEPT ![w] = NoTries]
      /\ UNCHANGED <<req, plan, tokens, late, review, answer, cause>>
      /\ UNCHANGED enqueueing
    BY DEF Advance, LayerDone, Pending, Violated
<1>2. Scheduled(w) /\ Computed(w) /\ Charged(w) /\ Concluded(w) /\ Attempted(w)
    BY DEF IInv, RunInv
<1>3. /\ plan[w] \in PlanSet /\ L = NextLayer(plan[w], F)
      /\ F \in SUBSET plan[w].ids /\ L \in SUBSET plan[w].ids /\ F \cap L = {}
      /\ plan[w].ids \in SUBSET Node /\ IsFiniteSet(plan[w].ids)
      /\ next \in SUBSET Node
    BY <1>1, <1>2, PlanFinite DEF Scheduled, NextLayer, IInv
<1>4. /\ res \in [Node -> NodeResult]
      /\ \A n \in L : res[n] = outs[w][n]
      /\ \A n \in Node \ L : res[n] = results[w][n]
    BY <1>3 DEF IInv, TypeOK
<1> HIDE DEF res, next
<1>5. /\ results' \in [Workflow -> [Node -> NodeResult]]
      /\ outs' \in [Workflow -> [Node -> NodeResult]]
      /\ results'[w] = res /\ outs'[w] = NoResults
      /\ \A x \in Workflow \ {w} : results'[x] = results[x] /\ outs'[x] = outs[x]
    BY <1>1, <1>4, NoResultsType DEF IInv, TypeOK
<1>6. /\ layer' \in [Workflow -> SUBSET Node] /\ pc' \in [Workflow -> Stage]
      /\ tries' \in [Workflow -> [Activity -> 0..MaxAttempts]]
      /\ layer'[w] = next /\ pc'[w] = stage /\ tries'[w] = NoTries
      /\ \A x \in Workflow \ {w} : layer'[x] = layer[x] /\ pc'[x] = pc[x] /\ tries'[x] = tries[x]
    BY <1>1, <1>3, NoTriesType DEF IInv, TypeOK, Stage
<1>7. /\ IsFiniteSet(F) /\ IsFiniteSet(L)
      /\ Cardinality(F) \in Nat /\ Cardinality(L) \in Nat
      /\ Cardinality(F \cup L) = Cardinality(F) + Cardinality(L)
    <2>1. IsFiniteSet(F) /\ IsFiniteSet(L)
        BY <1>3, FS_Subset
    <2>2. Cardinality(F) \in Nat /\ Cardinality(L) \in Nat
        BY <2>1, FS_CardinalityType
    <2>3. Cardinality(F \cup L) = Cardinality(F) + Cardinality(L) - Cardinality(F \cap L)
        BY <2>1, FS_Union
    <2>4. Cardinality(F \cap L) = 0
        BY <1>3, FS_EmptySet
    <2> QED BY <2>1, <2>2, <2>3, <2>4
<1>8. /\ tools' \in [Workflow -> Nat]
      /\ tools'[w] = tools[w] + Cardinality(L)
      /\ \A x \in Workflow \ {w} : tools'[x] = tools[x]
    BY <1>1, <1>7 DEF IInv, TypeOK
<1>9. TypeOK'
    BY <1>1, <1>5, <1>6, <1>8 DEF IInv, TypeOK, enqueueing
<1>10. /\ QueuesKeepRows'
       /\ \A x \in Workflow \ {w} : SameWork(x) /\ SameEnd(x) /\ SameAttempts(x)
    BY <1>1, <1>5, <1>6, <1>8, AttemptsStay DEF SameWork, SameEnd
<1>11. RunInv(w)'
    <2>1. ~Drafted(w) /\ Drafted(w)' = Drafted(w)
        BY <1>1, <1>2 DEF Concluded, Drafted
    <2>2. Finished(w)' = F \cup L
        <3>1. /\ \A n \in Node : n \in F <=> results[w][n].tag # "absent"
              /\ F \subseteq Node /\ L \subseteq Node
            BY <1>3 DEF Finished
        <3>2. \A n \in Node : res[n].tag # "absent" <=> n \in F \cup L
            <4> HIDE DEF F, L
            <4> QED BY <1>1, <1>4, <3>1
        <3>3. Finished(w)' = {n \in Node : res[n].tag # "absent"}
            BY <1>5 DEF Finished
        <3> HIDE DEF F, L
        <3> QED BY <3>1, <3>2, <3>3
    <2>3. Scheduled(w)'
        <3>1. \A n \in Node : outs'[w][n].tag = "absent"
            BY <1>5, NoResultsType
        <3>2. layer'[w] = NextLayer(plan'[w], Finished(w)')
            BY <1>1, <1>6, <2>2 DEF next
        <3>3. /\ pc'[w] \in {"execute", "summarize"}
              /\ pc'[w] = "summarize" => layer'[w] = {}
            BY <1>6
        <3> QED BY <1>1, <1>3, <2>1, <2>2, <3>1, <3>2, <3>3 DEF Scheduled
    <2>4. Computed(w)'
        <3>1. \A n \in Node : IsFiniteSet(outs'[w][n].regions) /\ IsFiniteSet(results'[w][n].regions)
            BY <1>2, <1>4, <1>5, NoResultsType, FS_EmptySet DEF Computed
        <3>2. \A n \in layer'[w] : outs'[w][n].tag = "absent"
            BY <1>3, <1>5, <1>6, NoResultsType
        <3>3. \A n \in F \cup L : plan[w].kind[n] = "VALIDATE" => req[w].reachable
            BY <1>1, <1>2 DEF Computed
        <3> QED BY <1>1, <2>2, <3>1, <3>2, <3>3 DEF Computed
    <2>5. Charged(w)'
        <3>1. tools[w] + Cardinality(L) <= req[w].maxTools
            <4>1. req[w].maxTools \in Nat /\ tools[w] \in Nat
                BY RequestsAreTyped DEF IInv, TypeOK, IsRequest
            <4> QED BY <1>7, <4>1 DEF Advance, OverBudget
        <3> QED BY <1>1, <1>2, <1>7, <1>8, <2>1, <2>2, <3>1 DEF Charged
    <2>6. Concluded(w)'
        BY <1>1, <1>2, <1>6, <2>1 DEF Concluded
    <2>7. Attempted(w)'
        BY <1>1, <1>2, <1>6, NoTriesType DEF Attempted, Reviewing, enqueueing
    <2> QED BY <2>3, <2>4, <2>5, <2>6, <2>7 DEF RunInv
<1> QED BY <1>9, <1>10, <1>11, StepOfOneRun

(* The draft is made of the results of every node of the plan. *)
LEMMA SummaryArrivesStep ==
    ASSUME IInv, NEW w \in Workflow,
           NEW t \in SummaryCost(req[w].maxTokens - tokens[w]), SummaryArrives(w, t)
    PROVE  IInv'
<1> PICK conf \in ConfidencesOf(w) :
       answer' = [answer EXCEPT ![w] = [regions |-> CollectRegions(w), confidence |-> conf,
                                        flagged |-> conf < Threshold, text |-> "draft"]]
    BY DEF SummaryArrives
<1> DEFINE draft == [regions |-> CollectRegions(w), confidence |-> conf,
                     flagged |-> conf < Threshold, text |-> "draft"]
<1>1. /\ pc[w] = "summarize"
      /\ tokens' = [tokens EXCEPT ![w] = @ + t]
      /\ answer' = [answer EXCEPT ![w] = draft]
      /\ pc' = [pc EXCEPT ![w] = "output_filter"]
      /\ tries' = [tries EXCEPT ![w] = NoTries]
      /\ UNCHANGED <<req, plan, layer, outs, results, tools, late, review, cause>>
      /\ UNCHANGED enqueueing
    BY DEF SummaryArrives, Account
<1>2. Scheduled(w) /\ Computed(w) /\ Charged(w) /\ Concluded(w) /\ Attempted(w)
    BY DEF IInv, RunInv
<1>3. plan[w] \in PlanSet /\ IsPlan(plan[w])
    BY <1>1, <1>2, PlansAreExecutable DEF Scheduled
<1>4. RegionsOf(w) \in [plan[w].ids -> SUBSET Region]
      /\ \A n \in plan[w].ids : IsFiniteSet(RegionsOf(w)[n])
    <2>1. \A n \in plan[w].ids : n \in Node
        BY <1>3 DEF IsPlan
    <2> QED BY <1>2, <2>1 DEF RegionsOf, Computed, IInv, TypeOK, NodeResult
<1>5. conf \in Int
    BY <1>3, <1>4, ConfidenceType DEF ConfidencesOf
<1>6. CollectRegions(w) \in SUBSET Region
    BY <1>4 DEF CollectRegions
<1>7. /\ draft \in [regions : SUBSET Region, confidence : Int, flagged : BOOLEAN,
                    text : {"none", "draft", "corrected"}]
      /\ draft.text = "draft" /\ draft.confidence = conf /\ draft.flagged = (conf < Threshold)
    BY <1>5, <1>6, CostsAreNat
<1> HIDE DEF draft
<1>8. /\ answer' \in [Workflow -> [regions : SUBSET Region, confidence : Int, flagged : BOOLEAN,
                                   text : {"none", "draft", "corrected"}]]
      /\ answer'[w] = draft
      /\ \A x \in Workflow \ {w} : answer'[x] = answer[x]
    BY <1>1, <1>7 DEF IInv, TypeOK
<1>9. /\ pc' \in [Workflow -> Stage]
      /\ tries' \in [Workflow -> [Activity -> 0..MaxAttempts]]
      /\ pc'[w] = "output_filter" /\ tries'[w] = NoTries
      /\ \A x \in Workflow \ {w} : pc'[x] = pc[x] /\ tries'[x] = tries[x]
    BY <1>1, NoTriesType DEF IInv, TypeOK, Stage
<1>10. /\ tokens' \in [Workflow -> Nat]
       /\ \A x \in Workflow \ {w} : tokens'[x] = tokens[x]
    <2>1. req[w].maxTokens - tokens[w] \in Int
        BY RequestsAreTyped DEF IInv, TypeOK, IsRequest
    <2>2. t \in Nat
        BY <2>1, SummaryCostType
    <2> QED BY <1>1, <2>2 DEF IInv, TypeOK
<1>11. TypeOK'
    BY <1>1, <1>8, <1>9, <1>10 DEF IInv, TypeOK, enqueueing
<1>12. /\ QueuesKeepRows'
       /\ \A x \in Workflow \ {w} : SameWork(x) /\ SameEnd(x) /\ SameAttempts(x)
    BY <1>1, <1>8, <1>9, <1>10, AttemptsStay DEF SameWork, SameEnd
<1>13. RunInv(w)'
    <2>1. /\ Finished(w)' = Finished(w) /\ Computed(w)' /\ conf \in ConfidencesOf(w)'
          /\ Drafted(w)'
        BY <1>1, <1>2, <1>7, <1>8, FrameWork DEF SameWork, Drafted
    <2>2. Scheduled(w)'
        BY <1>1, <1>2, <1>9, <2>1 DEF Scheduled
    <2>3. Charged(w)'
        BY <1>1, <1>2, <2>1 DEF Charged
    <2>4. Concluded(w)'
        BY <1>1, <1>7, <1>8, <1>9, <2>1 DEF Concluded
    <2>5. Attempted(w)'
        BY <1>1, <1>2, <1>9, NoTriesType DEF Attempted, Reviewing, enqueueing
    <2> QED BY <2>1, <2>2, <2>3, <2>4, <2>5 DEF RunInv
<1> QED BY <1>11, <1>12, <1>13, StepOfOneRun

LEMMA StepOfNoRun ==
    ASSUME IInv, TypeOK', QueuesKeepRows',
           \A x \in Workflow : SameWork(x) /\ SameEnd(x) /\ SameAttempts(x)
    PROVE  IInv'
<1>1. ASSUME NEW x \in Workflow PROVE RunInv(x)'
    BY Frame DEF IInv
<1> QED BY <1>1 DEF IInv

(* Nothing that happens to a draft disturbs what it was made of. *)
LEMMA PastDraft ==
    ASSUME IInv, NEW w \in Workflow, SameWork(w), Drafted(w), Drafted(w)',
           tokens'[w] = tokens[w], tools'[w] = tools[w],
           pc'[w] \in Reviewing, pc[w] = "failed" => pc'[w] = "failed",
           answer'[w].confidence = answer[w].confidence,
           answer'[w].flagged = answer[w].flagged
    PROVE  /\ Scheduled(w)' /\ Computed(w)' /\ Charged(w)'
           /\ answer'[w].confidence \in ConfidencesOf(w)'
           /\ answer'[w].flagged = (answer'[w].confidence < Threshold)
<1>1. Scheduled(w) /\ Computed(w) /\ Charged(w) /\ Concluded(w)
    BY DEF IInv, RunInv
<1>2. /\ Finished(w)' = Finished(w) /\ Computed(w)'
      /\ ConfidencesOf(w)' = ConfidencesOf(w)
    BY <1>1, FrameWork
<1>3. Scheduled(w)'
    BY <1>1, <1>2 DEF Scheduled, SameWork, Reviewing
<1>4. Charged(w)'
    BY <1>1, <1>2 DEF Charged, SameWork
<1> QED BY <1>1, <1>2, <1>3, <1>4 DEF Concluded

LEMMA FilterReturnsStep ==
    ASSUME IInv, NEW w \in Workflow, FilterReturns(w)
    PROVE  IInv'
<1>1. /\ pc[w] = "output_filter"
      /\ answer' = answer
      /\ pc' = [pc EXCEPT ![w] = AfterFilter(w)]
      /\ tries' = [tries EXCEPT ![w] = NoTries]
      /\ UNCHANGED <<req, plan, layer, outs, results, tokens, tools, late, review, cause>>
      /\ UNCHANGED enqueueing
    BY DEF FilterReturns, Filtered, IInv, TypeOK
<1>2. Scheduled(w) /\ Computed(w) /\ Charged(w) /\ Concluded(w) /\ Attempted(w)
    BY DEF IInv, RunInv
<1>3. /\ pc' \in [Workflow -> Stage]
      /\ tries' \in [Workflow -> [Activity -> 0..MaxAttempts]]
      /\ pc'[w] = (IF answer[w].flagged THEN "hitl_enqueue" ELSE "done")
      /\ tries'[w] = NoTries
      /\ \A x \in Workflow \ {w} : pc'[x] = pc[x] /\ tries'[x] = tries[x]
    BY <1>1, NoTriesType DEF AfterFilter, IInv, TypeOK, Stage
<1>4. TypeOK'
    BY <1>1, <1>3 DEF IInv, TypeOK, enqueueing
<1>5. /\ QueuesKeepRows'
      /\ \A x \in Workflow \ {w} : SameWork(x) /\ SameEnd(x) /\ SameAttempts(x)
    BY <1>1, <1>3, AttemptsStay DEF SameWork, SameEnd
<1>6. RunInv(w)'
    <2>1. answer[w].text = "draft" /\ Drafted(w) /\ Drafted(w)' /\ w \notin queued
        BY <1>1, <1>2 DEF Concluded, Drafted, Attempted, Reviewing
    <2>2. pc'[w] \in {"hitl_enqueue", "done"} /\ pc'[w] \in Reviewing
        BY <1>3 DEF Reviewing
    <2>3. SameWork(w) /\ tokens'[w] = tokens[w] /\ tools'[w] = tools[w]
          /\ answer'[w] = answer[w]
        BY <1>1 DEF SameWork
    <2>4. /\ Scheduled(w)' /\ Computed(w)' /\ Charged(w)'
          /\ answer'[w].confidence \in ConfidencesOf(w)'
          /\ answer'[w].flagged = (answer'[w].confidence < Threshold)
        BY <1>1, <2>1, <2>2, <2>3, PastDraft
    <2>5. Concluded(w)'
        BY <1>1, <1>3, <2>1, <2>2, <2>3, <2>4 DEF Concluded, enqueueing
    <2>6. Attempted(w)'
        <3>1. "hitl_enqueue" \in Activity
            BY DEF Activity
        <3>2. live[w] = NoAttempt
            BY <1>1, <1>2 DEF Attempted
        <3>3. \A a \in pending \cup returned : a.run # w
            BY <1>1, <1>2 DEF Attempted, Reviewing
        <3> QED BY <1>1, <1>3, <2>1, <2>2, <3>1, <3>2, <3>3, NoTriesType
                DEF Attempted, enqueueing
    <2> QED BY <2>4, <2>5, <2>6 DEF RunInv
<1> QED BY <1>4, <1>5, <1>6, StepOfOneRun

(* An attempt starts: it is one of a run that is unsure of its draft. *)
LEMMA StartEnqueueStep ==
    ASSUME IInv, NEW w \in Workflow, NEW k \in Worker, StartEnqueue(w, k)
    PROVE  IInv'
<1> DEFINE count == tries[w]["hitl_enqueue"] + 1
           attempt == [run |-> w, number |-> count, worker |-> k]
<1>1. Scheduled(w) /\ Computed(w) /\ Charged(w) /\ Concluded(w) /\ Attempted(w)
    BY DEF IInv, RunInv
<1>2. "hitl_enqueue" \in Activity /\ MaxAttempts \in Nat
    BY AttemptsArePositive DEF Activity
<1>3. /\ pc[w] = "hitl_enqueue" /\ live[w] = NoAttempt
      /\ tries' = [tries EXCEPT ![w]["hitl_enqueue"] = count]
      /\ tries'[w]["hitl_enqueue"] = count
      /\ live' = [live EXCEPT ![w] = attempt]
      /\ pending' = pending \cup {attempt}
      /\ UNCHANGED <<req, pc, plan, layer, outs, results, tokens, tools, late,
                     review, answer, cause, returned, queue, planArg, crashes, queued>>
    BY <1>2 DEF StartEnqueue, IInv, TypeOK
<1>4. count \in 1..MaxAttempts /\ attempt \in Attempt
    <2>1. tries[w]["hitl_enqueue"] \in 0..MaxAttempts /\ tries[w]["hitl_enqueue"] < MaxAttempts
        BY <1>1, <1>2, <1>3 DEF Attempted, IInv, TypeOK
    <2>2. count \in 1..MaxAttempts
        BY <1>2, <2>1
    <2> QED BY <2>2 DEF Attempt
<1>5. attempt.run = w
    OBVIOUS
<1> HIDE DEF count, attempt
<1>6. /\ tries' \in [Workflow -> [Activity -> 0..MaxAttempts]]
      /\ \A x \in Workflow \ {w} : tries'[x] = tries[x]
    BY <1>2, <1>3, <1>4 DEF IInv, TypeOK
<1>7. /\ live' \in [Workflow -> Attempt \cup {NoAttempt}]
      /\ live'[w] = attempt /\ attempt # NoAttempt
      /\ \A x \in Workflow \ {w} : live'[x] = live[x]
    BY <1>3, <1>4, NoAttemptIsNone DEF IInv, TypeOK
<1>8. TypeOK'
    BY <1>3, <1>4, <1>6, <1>7 DEF IInv, TypeOK
<1>9. QueuesKeepRows'
    BY <1>3 DEF IInv, QueuesKeepRows
<1>10. \A x \in Workflow \ {w} : SameWork(x) /\ SameEnd(x) /\ SameAttempts(x)
    BY <1>3, <1>5, <1>6, <1>7 DEF SameWork, SameEnd, SameAttempts
<1>11. RunInv(w)'
    <2>1. Finished(w)' = Finished(w) /\ Computed(w)' /\ ConfidencesOf(w)' = ConfidencesOf(w)
          /\ Drafted(w)' = Drafted(w)
        BY <1>1, <1>3, FrameWork DEF SameWork, Drafted
    <2>2. Scheduled(w)' /\ Charged(w)' /\ Concluded(w)'
        BY <1>1, <1>3, <2>1 DEF Scheduled, Charged, Concluded
    <2>3. answer[w].flagged
        BY <1>1, <1>3 DEF Concluded
    <2>4. Attempted(w)'
        BY <1>1, <1>3, <1>5, <1>7, <2>3 DEF Attempted, Reviewing
    <2> QED BY <2>1, <2>2, <2>4 DEF RunInv
<1> QED BY <1>8, <1>9, <1>10, <1>11, StepOfOneRun

(* The server gives the live attempt up; its code may still run. *)
LEMMA GiveUpStep ==
    ASSUME IInv, NEW w \in Workflow, live[w] # NoAttempt,
           NEW why \in {"attempts", "AttributeError"}, GiveUp(w, why),
           pending' \subseteq pending,
           UNCHANGED <<req, plan, layer, outs, results, tokens, tools, late, tries,
                       review, answer, returned, queue, planArg, crashes, queued>>
    PROVE  IInv'
<1>1. Scheduled(w) /\ Computed(w) /\ Charged(w) /\ Concluded(w) /\ Attempted(w)
    BY DEF IInv, RunInv
<1>2. /\ pc[w] = "hitl_enqueue" /\ answer[w].text = "draft" /\ answer[w].flagged
      /\ Drafted(w) /\ Drafted(w)'
    BY <1>1 DEF Attempted, Concluded, Drafted
<1>3. live' = [live EXCEPT ![w] = NoAttempt]
    BY DEF GiveUp
<1>4. /\ live' \in [Workflow -> Attempt \cup {NoAttempt}] /\ live'[w] = NoAttempt
      /\ \A x \in Workflow \ {w} : live'[x] = live[x]
    BY <1>3 DEF IInv, TypeOK
<1>5. /\ pc' \in [Workflow -> Stage]
      /\ cause' \in [Workflow -> {"none", "attempts", "budget", "violation",
                                  "AttributeError"}]
      /\ \A x \in Workflow \ {w} : pc'[x] = pc[x]
      /\ \/ pc'[w] = "failed"
         \/ pc'[w] = "hitl_enqueue" /\ tries[w]["hitl_enqueue"] # MaxAttempts
    <2>1. CASE tries[w]["hitl_enqueue"] = MaxAttempts
        <3>1. pc' = [pc EXCEPT ![w] = "failed"] /\ cause' = [cause EXCEPT ![w] = why]
            BY <2>1 DEF GiveUp, Fail
        <3>2. pc' \in [Workflow -> Stage] /\ pc'[w] = "failed"
              /\ \A x \in Workflow \ {w} : pc'[x] = pc[x]
            BY <3>1 DEF IInv, TypeOK, Stage
        <3>3. cause' \in [Workflow -> {"none", "attempts", "budget", "violation",
                                       "AttributeError"}]
            BY <3>1 DEF IInv, TypeOK
        <3> QED BY <3>2, <3>3
    <2>2. CASE tries[w]["hitl_enqueue"] # MaxAttempts
        BY <1>2, <2>2 DEF GiveUp, IInv, TypeOK
    <2> QED BY <2>1, <2>2
<1>6. TypeOK'
    BY <1>4, <1>5 DEF IInv, TypeOK
<1>7. QueuesKeepRows'
    BY DEF IInv, QueuesKeepRows
<1>8. \A x \in Workflow \ {w} : SameWork(x) /\ SameEnd(x) /\ SameAttempts(x)
    BY <1>4, <1>5 DEF SameWork, SameEnd, SameAttempts
<1>9. RunInv(w)'
    <2>1. SameWork(w) /\ answer'[w] = answer[w] /\ pc'[w] \in Reviewing
          /\ pc'[w] \in {"failed", "hitl_enqueue"}
        BY <1>5 DEF SameWork, Reviewing
    <2>2. /\ Scheduled(w)' /\ Computed(w)' /\ Charged(w)'
          /\ answer'[w].confidence \in ConfidencesOf(w)'
          /\ answer'[w].flagged = (answer'[w].confidence < Threshold)
        BY <1>2, <2>1, PastDraft
    <2>3. Concluded(w)'
        BY <1>2, <2>1, <2>2 DEF Concluded
    <2>4. Attempted(w)'
        <3>1. "hitl_enqueue" \in Activity /\ MaxAttempts \in Nat
            BY AttemptsArePositive DEF Activity
        <3>2. tries[w]["hitl_enqueue"] \in 0..MaxAttempts
            BY <3>1 DEF IInv, TypeOK
        <3>3. tries[w]["hitl_enqueue"] # MaxAttempts => tries[w]["hitl_enqueue"] < MaxAttempts
            BY <3>1, <3>2
        <3> QED BY <1>1, <1>2, <1>4, <1>5, <2>1, <3>3 DEF Attempted
    <2> QED BY <2>2, <2>3, <2>4 DEF RunInv
<1> QED BY <1>6, <1>7, <1>8, <1>9, StepOfOneRun

LEMMA LoseEnqueueStep ==
    ASSUME IInv, NEW w \in Workflow, LoseEnqueue(w)
    PROVE  IInv'
BY GiveUpStep DEF LoseEnqueue

(* An attempt runs, live or long given up: its run has a draft, no node of *)
(* it is left, and if it is done its row is there already.                 *)
LEMMA RunEnqueueStep ==
    ASSUME IInv, NEW attempt \in pending, RunEnqueue(attempt)
    PROVE  IInv'
<1> DEFINE w == attempt.run
           k == attempt.worker
<1>1. attempt \in Attempt /\ w \in Workflow /\ k \in Worker /\ pending' \subseteq pending
      /\ pending' = pending \ {attempt}
    BY DEF IInv, TypeOK, Attempt, RunEnqueue
<1> HIDE DEF w, k
<1>2. Scheduled(w) /\ Computed(w) /\ Charged(w) /\ Concluded(w) /\ Attempted(w)
    BY <1>1 DEF IInv, RunInv
<1>3. CASE Raises(attempt) /\ live[w] = attempt
    <2>1. live[w] # NoAttempt
        BY <1>1, <1>3, NoAttemptIsNone
    <2>2. /\ GiveUp(w, "AttributeError")
          /\ UNCHANGED <<req, plan, layer, outs, results, tokens, tools, late, tries,
                         review, answer, returned, queue, planArg, crashes, queued>>
        BY <1>3 DEF RunEnqueue, w
    <2> QED BY <1>1, <2>1, <2>2, GiveUpStep
<1>4. CASE Raises(attempt) /\ live[w] # attempt
    <2>1. UNCHANGED <<req, pc, plan, layer, outs, results, tokens, tools, late, tries,
                      review, answer, cause, live, returned, queue, planArg, crashes, queued>>
        BY <1>4 DEF RunEnqueue, w
    <2>2. TypeOK'
        BY <1>1, <2>1 DEF IInv, TypeOK
    <2>3. QueuesKeepRows'
        BY <2>1 DEF IInv, QueuesKeepRows
    <2>4. \A x \in Workflow : SameWork(x) /\ SameEnd(x) /\ SameAttempts(x)
        BY <1>1, <2>1 DEF SameWork, SameEnd, SameAttempts
    <2> QED BY <2>2, <2>3, <2>4, StepOfNoRun
<1>5. CASE ~Raises(attempt)
    <2>1. /\ queue' = [queue EXCEPT ![k] = Enqueued(queue[k], w)]
          /\ queued' = queued \cup {w}
          /\ returned' = returned \cup {attempt}
          /\ UNCHANGED <<req, pc, plan, layer, outs, results, tokens, tools, late, tries,
                         review, answer, cause, live, planArg, crashes>>
        BY <1>1, <1>5 DEF RunEnqueue, w, k, IInv, TypeOK
    <2>2. KeepsRows(queue[k], Workflow)
        BY <1>1 DEF IInv, QueuesKeepRows
    <2>3. KeepsRows(Enqueued(queue[k], w), Workflow)
        BY <1>1, <2>2, EnqueuedKeepsRows
    <2>4. Enqueued(queue[k], w) \in [mem : Seq(Workflow), seen : SUBSET Workflow]
        <3>1. queue[k] \in [mem : Seq(Workflow), seen : SUBSET Workflow]
            BY <1>1 DEF IInv, TypeOK
        <3> QED BY <1>1, <3>1 DEF Enqueued
    <2>5. /\ queue' \in [Worker -> [mem : Seq(Workflow), seen : SUBSET Workflow]]
          /\ \A j \in Worker : queue'[j] = IF j = k THEN Enqueued(queue[k], w) ELSE queue[j]
        BY <2>1, <2>4 DEF IInv, TypeOK
    <2>6. QueuesKeepRows'
        BY <2>3, <2>5 DEF IInv, QueuesKeepRows
    <2>7. TypeOK'
        BY <1>1, <2>1, <2>5 DEF IInv, TypeOK
    <2>8. \A x \in Workflow \ {w} : SameWork(x) /\ SameEnd(x) /\ SameAttempts(x)
        BY <1>1, <2>1 DEF SameWork, SameEnd, SameAttempts, w
    <2>9. RunInv(w)'
        <3>1. answer[w].flagged /\ pc[w] \in Reviewing
            BY <1>2 DEF Attempted, w
        <3>2. /\ Finished(w)' = Finished(w) /\ Computed(w)' /\ ConfidencesOf(w)' = ConfidencesOf(w)
              /\ Drafted(w)' = Drafted(w)
            BY <1>2, <2>1, FrameWork DEF SameWork, Drafted
        <3>3. Scheduled(w)' /\ Charged(w)' /\ Concluded(w)'
            BY <1>2, <2>1, <3>1, <3>2 DEF Scheduled, Charged, Concluded
        <3>4. Attempted(w)'
            <4>1. \A a \in pending' \cup returned' : a \in pending \cup returned
                BY <1>1, <2>1
            <4> QED BY <1>2, <2>1, <3>1, <4>1 DEF Attempted
        <3> QED BY <3>2, <3>3, <3>4 DEF RunInv
    <2> QED BY <1>1, <2>6, <2>7, <2>8, <2>9, StepOfOneRun
<1> QED BY <1>3, <1>4, <1>5

(* Only what has returned is acknowledged, and that has left a row. *)
LEMMA AckEnqueueStep ==
    ASSUME IInv, NEW w \in Workflow, AckEnqueue(w)
    PROVE  IInv'
<1>1. Scheduled(w) /\ Computed(w) /\ Charged(w) /\ Concluded(w) /\ Attempted(w)
    BY DEF IInv, RunInv
<1>2. /\ live[w] \in returned /\ live[w] # NoAttempt
      /\ live[w].run = w /\ pc[w] = "hitl_enqueue" /\ w \in queued
      /\ Drafted(w) /\ answer[w].text = "draft" /\ answer[w].flagged
    <2>1. live[w] \in returned /\ live[w] # NoAttempt
        BY NoAttemptIsNone DEF AckEnqueue, IInv, TypeOK
    <2> QED BY <1>1, <2>1 DEF Attempted, Concluded, Drafted
<1>3. /\ live' = [live EXCEPT ![w] = NoAttempt]
      /\ pc' = [pc EXCEPT ![w] = "awaiting_human_review"]
      /\ UNCHANGED <<req, plan, layer, outs, results, tokens, tools, late, tries,
                     review, answer, cause, pending, returned, queue, planArg,
                     crashes, queued>>
    BY DEF AckEnqueue
<1>4. /\ live' \in [Workflow -> Attempt \cup {NoAttempt}] /\ live'[w] = NoAttempt
      /\ pc' \in [Workflow -> Stage] /\ pc'[w] = "awaiting_human_review"
      /\ \A x \in Workflow \ {w} : live'[x] = live[x] /\ pc'[x] = pc[x]
    BY <1>3 DEF IInv, TypeOK, Stage
<1>5. TypeOK'
    BY <1>3, <1>4 DEF IInv, TypeOK
<1>6. QueuesKeepRows'
    BY <1>3 DEF IInv, QueuesKeepRows
<1>7. \A x \in Workflow \ {w} : SameWork(x) /\ SameEnd(x) /\ SameAttempts(x)
    BY <1>3, <1>4 DEF SameWork, SameEnd, SameAttempts
<1>8. RunInv(w)'
    <2>1. SameWork(w) /\ answer'[w] = answer[w] /\ pc'[w] \in Reviewing /\ Drafted(w)'
        BY <1>2, <1>3, <1>4 DEF SameWork, Reviewing, Drafted
    <2>2. /\ Scheduled(w)' /\ Computed(w)' /\ Charged(w)'
          /\ answer'[w].confidence \in ConfidencesOf(w)'
          /\ answer'[w].flagged = (answer'[w].confidence < Threshold)
        BY <1>2, <1>3, <2>1, PastDraft
    <2>3. Concluded(w)'
        BY <1>2, <1>3, <1>4, <2>1, <2>2 DEF Concluded
    <2>4. Attempted(w)'
        BY <1>1, <1>2, <1>3, <1>4, <2>1 DEF Attempted
    <2> QED BY <2>2, <2>3, <2>4 DEF RunInv
<1> QED BY <1>5, <1>6, <1>7, <1>8, StepOfOneRun

(* A crash takes rows and attempts away; the history of what was queued    *)
(* stays.                                                                  *)
LEMMA WorkerCrashStep ==
    ASSUME IInv, NEW k \in Worker, WorkerCrash(k)
    PROVE  IInv'
<1>1. /\ crashes < MaxCrashes /\ crashes' = crashes + 1
      /\ queue' = [queue EXCEPT ![k] = EmptyQueue]
      /\ pending' \subseteq pending
      /\ UNCHANGED <<req, pc, plan, layer, outs, results, tokens, tools, late, tries,
                     review, answer, cause, live, returned, planArg, queued>>
    BY DEF WorkerCrash
<1>2. /\ queue' \in [Worker -> [mem : Seq(Workflow), seen : SUBSET Workflow]]
      /\ \A j \in Worker : queue'[j] \in {EmptyQueue, queue[j]}
    <2>1. EmptyQueue \in [mem : Seq(Workflow), seen : SUBSET Workflow]
        BY DEF EmptyQueue
    <2> QED BY <1>1, <2>1 DEF IInv, TypeOK
<1>3. TypeOK'
    <2>1. crashes' \in 0..MaxCrashes
        BY <1>1, AttemptsArePositive DEF IInv, TypeOK
    <2> QED BY <1>1, <1>2, <2>1 DEF IInv, TypeOK
<1>4. QueuesKeepRows'
    BY <1>2, EmptyKeepsRows DEF IInv, QueuesKeepRows
<1>5. \A x \in Workflow : SameWork(x) /\ SameEnd(x) /\ SameAttempts(x)
    BY <1>1 DEF SameWork, SameEnd, SameAttempts
<1> QED BY <1>3, <1>4, <1>5, StepOfNoRun

(* A decision is recorded, early or late. *)
LEMMA SignalStep ==
    ASSUME IInv, NEW w \in Workflow, NEW decision \in DecisionSet, Signal(w, decision)
    PROVE  IInv'
<1>1. /\ pc[w] \notin {"done", "failed"}
      /\ review' = [review EXCEPT ![w] = decision]
      /\ UNCHANGED <<req, pc, plan, layer, outs, results, tokens, tools, late, tries,
                     answer, cause>>
      /\ UNCHANGED enqueueing
    BY DEF Signal, Ended, Recorded
<1>2. TypeOK'
    <2>1. decision \in Decision
        BY DecisionsAreTyped
    <2> QED BY <1>1, <2>1 DEF IInv, TypeOK, enqueueing
<1>3. /\ QueuesKeepRows'
      /\ \A x \in Workflow : SameWork(x) /\ SameAttempts(x)
      /\ \A x \in Workflow \ {w} : SameEnd(x)
    BY <1>1, AttemptsStay DEF SameWork, SameEnd, IInv, TypeOK
<1>4. RunInv(w)'
    <2>1. Scheduled(w) /\ Computed(w) /\ Charged(w) /\ Concluded(w) /\ Attempted(w)
        BY DEF IInv, RunInv
    <2>2. Finished(w)' = Finished(w) /\ Computed(w)' /\ ConfidencesOf(w)' = ConfidencesOf(w)
          /\ Drafted(w)' = Drafted(w)
        BY <1>1, <1>3, <2>1, FrameWork DEF Drafted
    <2>3. Scheduled(w)' /\ Charged(w)' /\ Concluded(w)'
        BY <1>1, <2>1, <2>2 DEF Scheduled, Charged, Concluded, enqueueing
    <2>4. Attempted(w)'
        BY <1>1, <2>1 DEF Attempted, enqueueing
    <2> QED BY <2>2, <2>3, <2>4 DEF RunInv
<1> QED BY <1>2, <1>3, <1>4, StepOfOneRun

(* The wait is over: the answer is given, or its confidence refused. *)
LEMMA ReleaseStep ==
    ASSUME IInv, NEW w \in Workflow, Release(w) \/ Stall(w)
    PROVE  IInv'
<1> DEFINE text == IF review[w].corrected THEN "corrected" ELSE answer[w].text
<1>1. Scheduled(w) /\ Computed(w) /\ Charged(w) /\ Concluded(w) /\ Attempted(w)
    BY DEF IInv, RunInv
<1>2. /\ pc[w] = "awaiting_human_review" /\ review[w] # NoReview
      /\ answer[w].text = "draft" /\ answer[w].flagged /\ w \in queued
      /\ UNCHANGED <<req, plan, layer, outs, results, tokens, tools, late, tries,
                     review, cause>>
      /\ UNCHANGED enqueueing
    BY <1>1 DEF Release, Stall, ReviewArrived, Concluded
<1>3. \/ /\ pc' = [pc EXCEPT ![w] = "done"]
         /\ answer' = [answer EXCEPT ![w].text = text]
      \/ /\ pc' = [pc EXCEPT ![w] = "stalled"]
         /\ UNCHANGED answer
         /\ ~WellFormed(answer[w].confidence)
    BY DEF Release, Stall, IInv, TypeOK
<1>4. text \in {"draft", "corrected"}
    BY <1>2
<1>5. /\ pc' \in [Workflow -> Stage]
      /\ \A x \in Workflow \ {w} : pc'[x] = pc[x]
      /\ pc'[w] \in {"done", "stalled"}
      /\ pc'[w] = "stalled" => ~WellFormed(answer[w].confidence)
    BY <1>3 DEF IInv, TypeOK, Stage
<1>6. /\ answer' \in [Workflow -> [regions : SUBSET Region, confidence : Int, flagged : BOOLEAN,
                                   text : {"none", "draft", "corrected"}]]
      /\ \A x \in Workflow \ {w} : answer'[x] = answer[x]
      /\ answer'[w].confidence = answer[w].confidence
      /\ answer'[w].flagged = answer[w].flagged
      /\ answer'[w].text = IF pc'[w] = "done" THEN text ELSE "draft"
    <2> HIDE DEF text
    <2>1. CASE pc' = [pc EXCEPT ![w] = "done"] /\ answer' = [answer EXCEPT ![w].text = text]
        <3> DEFINE full == [answer[w] EXCEPT !.text = text]
        <3>1. /\ full \in [regions : SUBSET Region, confidence : Int, flagged : BOOLEAN,
                           text : {"none", "draft", "corrected"}]
              /\ full.confidence = answer[w].confidence /\ full.flagged = answer[w].flagged
              /\ full.text = text
            <4>1. answer[w] \in [regions : SUBSET Region, confidence : Int, flagged : BOOLEAN,
                                 text : {"none", "draft", "corrected"}]
                BY DEF IInv, TypeOK
            <4> QED BY <1>4, <4>1
        <3>2. answer' = [answer EXCEPT ![w] = full] /\ pc'[w] = "done"
            BY <2>1 DEF IInv, TypeOK
        <3> HIDE DEF full
        <3> QED BY <3>1, <3>2 DEF IInv, TypeOK
    <2>2. CASE pc' = [pc EXCEPT ![w] = "stalled"] /\ UNCHANGED answer
        BY <1>2, <2>2 DEF IInv, TypeOK
    <2> QED BY <1>3, <2>1, <2>2
<1>7. TypeOK'
    BY <1>2, <1>5, <1>6 DEF IInv, TypeOK, enqueueing
<1>8. /\ QueuesKeepRows'
      /\ \A x \in Workflow \ {w} : SameWork(x) /\ SameEnd(x) /\ SameAttempts(x)
    BY <1>2, <1>5, <1>6, AttemptsStay DEF SameWork, SameEnd
<1>9. RunInv(w)'
    <2>1. SameWork(w) /\ pc'[w] \in Reviewing /\ Drafted(w) /\ Drafted(w)'
        BY <1>2, <1>4, <1>5, <1>6 DEF SameWork, Reviewing, Drafted
    <2>2. /\ Scheduled(w)' /\ Computed(w)' /\ Charged(w)'
          /\ answer'[w].confidence \in ConfidencesOf(w)'
          /\ answer'[w].flagged = (answer'[w].confidence < Threshold)
        BY <1>2, <1>6, <2>1, PastDraft
    <2>3. Concluded(w)'
        BY <1>2, <1>5, <1>6, <2>1, <2>2 DEF Concluded, enqueueing
    <2>4. Attempted(w)'
        BY <1>1, <1>2, <1>5, <1>6, <2>1 DEF Attempted, enqueueing
    <2> QED BY <2>2, <2>3, <2>4 DEF RunInv
<1> QED BY <1>7, <1>8, <1>9, StepOfOneRun

LEMMA StutterStep ==
    ASSUME IInv, UNCHANGED vars
    PROVE  IInv'
<1> USE DEF vars
<1>1. TypeOK'
    BY DEF IInv, TypeOK, enqueueing
<1>2. QueuesKeepRows' /\ \A x \in Workflow : SameAttempts(x)
    BY AttemptsStay
<1>3. \A x \in Workflow : SameWork(x) /\ SameEnd(x)
    BY DEF SameWork, SameEnd
<1> QED BY <1>1, <1>2, <1>3, StepOfNoRun

LEMMA NextIInv == IInv /\ [Next]_vars => IInv'
<1> SUFFICES ASSUME IInv, [Next]_vars PROVE IInv'
    OBVIOUS
<1>1. CASE UNCHANGED vars
    BY <1>1, StutterStep
<1>2. ASSUME NEW w \in Workflow, Begin(w) \/ Proceed(w) \/ TimePasses(w) PROVE IInv'
    <2>1. CASE Begin(w) \/ TimePasses(w)
        BY <2>1, BeginStep, TimePassesStep
    <2>2. CASE GuardPasses(w)
        BY <2>2, GuardPassesStep
    <2>3. CASE Planning(w)
        <3> PICK result \in PlanResult : PlanArrives(w, result.plan, result.tokens)
            BY <2>3 DEF Planning
        <3>1. result.plan \in PlanSet /\ result.tokens \in PlanTokens
            BY DEF PlanResult
        <3> QED BY <3>1, PlanArrivesStep
    <2>4. CASE Executing(w)
        BY <2>4, NodeCompletesStep, RaiseViolationStep, StopOverBudgetStep, AdvanceStep
        DEF Executing
    <2>5. CASE Answering(w)
        BY <2>5, SummaryArrivesStep, FilterReturnsStep DEF Answering
    <2>6. CASE \E a \in Activity : AttemptFails(w, a)
        BY <2>6, AttemptFailsStep
    <2>7. CASE Attempting(w)
        BY <2>7, StartEnqueueStep, AckEnqueueStep, LoseEnqueueStep DEF Attempting
    <2>8. CASE Release(w) \/ Stall(w)
        BY <2>8, ReleaseStep
    <2> QED BY <1>2, <2>1, <2>2, <2>3, <2>4, <2>5, <2>6, <2>7, <2>8 DEF Proceed
<1>3. ASSUME NEW attempt \in pending, RunEnqueue(attempt) PROVE IInv'
    BY <1>3, RunEnqueueStep
<1>4. ASSUME NEW k \in Worker, WorkerCrash(k) PROVE IInv'
    BY <1>4, WorkerCrashStep
<1>5. ASSUME NEW w \in Workflow, NEW decision \in DecisionSet, Signal(w, decision) PROVE IInv'
    BY <1>5, SignalStep
<1> QED BY <1>1, <1>2, <1>3, <1>4, <1>5 DEF Next

(* The invariant holds of every run, in every interleaving. *)
THEOREM Invariance == Spec => []IInv
BY InitIInv, NextIInv, PTL DEF Spec

-----------------------------------------------------------------------------
(***************************************************************************)
(* What the reader should know.                                            *)
(***************************************************************************)

(* Every state of every execution is well typed; above all the number of   *)
(* attempts, and the confidence, which comes from numbers an LLM chose.    *)
THEOREM TypeCorrect == Spec => []TypeOK
<1>1. IInv => TypeOK
    BY DEF IInv
<1> QED BY <1>1, Invariance, PTL

(* However many attempts of a run a worker process executes, early or long *)
(* after the server has given them up, its queue shows the run once.       *)
THEOREM OneRowEach == Spec => []OneRowPerProcess
<1>1. IInv => OneRowPerProcess
    <2> SUFFICES ASSUME IInv, NEW k \in Worker, NEW w \in Workflow
                 PROVE  Cardinality(Rows(queue[k], w)) <= 1
        BY DEF OneRowPerProcess
    <2>1. KeepsRows(queue[k], Workflow)
        BY DEF IInv, QueuesKeepRows
    <2> QED BY <2>1, AtMostOneRow
<1> QED BY <1>1, Invariance, PTL

(* An unsure answer was queued and decided on, and bears the text of the   *)
(* last decision; a sure one is the draft and nobody was asked.            *)
THEOREM ReviewIsFinal == Spec => []AnswerIsReviewed
<1>1. IInv => AnswerIsReviewed
    <2> SUFFICES ASSUME IInv, NEW w \in Workflow, pc[w] = "done"
                 PROVE  IF answer[w].confidence < Threshold
                        THEN /\ w \in queued
                             /\ review[w] # NoReview
                             /\ answer[w].text = IF review[w].corrected THEN "corrected"
                                                 ELSE "draft"
                        ELSE w \notin queued /\ answer[w].text = "draft"
        BY DEF AnswerIsReviewed
    <2>1. Concluded(w) /\ (w \in queued => answer[w].flagged)
        BY DEF IInv, RunInv, Attempted
    <2>2. Drafted(w) /\ answer[w].flagged = (answer[w].confidence < Threshold)
        BY <2>1 DEF Concluded, Drafted
    <2> QED BY <2>1, <2>2 DEF Concluded
<1> QED BY <1>1, Invariance, PTL

(* A draft is made when every node of the plan has left a result. *)
LEMMA DraftIsComplete ==
    ASSUME IInv, NEW w \in Workflow, Drafted(w)
    PROVE  Finished(w) = plan[w].ids
<1>1. Scheduled(w)
    BY DEF IInv, RunInv
<1>2. /\ IsPlan(plan[w])
      /\ NextLayer(plan[w], Finished(w)) = {}
      /\ Finished(w) \in SUBSET plan[w].ids
    BY <1>1, PlansAreExecutable DEF Scheduled
<1> QED BY <1>2, AllPlaced

(* Unreachable anchors are never answered over, and never put before a     *)
(* reviewer, by a plan that validates.                                     *)
THEOREM ViolationWins == Spec => []ViolationDominates
<1>1. IInv => ViolationDominates
    <2> SUFFICES ASSUME IInv, NEW w \in Workflow, ~req[w].reachable,
                        NEW n \in plan[w].ids, plan[w].kind[n] = "VALIDATE"
                 PROVE  pc[w] # "done" /\ w \notin queued
        BY DEF ViolationDominates
    <2>1. Computed(w) /\ Concluded(w) /\ Attempted(w)
        BY DEF IInv, RunInv
    <2>2. ~Drafted(w)
        <3>1. Drafted(w) => n \in Finished(w)
            BY DraftIsComplete
        <3> QED BY <2>1, <3>1 DEF Computed
    <2>3. pc[w] # "done"
        BY <2>1, <2>2 DEF Concluded, NoAnswer, Drafted
    <2>4. w \notin queued
        BY <2>1, <2>2 DEF Attempted, Concluded, NoAnswer
    <2> QED BY <2>3, <2>4
<1> QED BY <1>1, Invariance, PTL

(* Retries cost nothing, and no run goes on past a limit. *)
THEOREM BudgetHolds == Spec => []BudgetGate
<1>1. IInv => BudgetGate
    <2> SUFFICES ASSUME IInv, NEW w \in Workflow, pc[w] # "failed"
                 PROVE  /\ tools[w] = Cardinality(Finished(w))
                        /\ tools[w] <= req[w].maxTools
                        /\ answer[w] = NoAnswer => tokens[w] <= req[w].maxTokens
        BY DEF BudgetGate
    <2>1. Charged(w)
        BY DEF IInv, RunInv
    <2>2. answer[w] = NoAnswer => ~Drafted(w)
        BY DEF NoAnswer, Drafted
    <2> QED BY <2>1, <2>2 DEF Charged
<1> QED BY <1>1, Invariance, PTL

(* The one way in which a decided run may wait for ever is a negative      *)
(* prior: models.py puts no bound on confidence_prior.  With priors of 0   *)
(* and more, QueryOut takes every confidence.                              *)
THEOREM ProbabilitiesDoNotStall ==
    ASSUME \A p \in PlanSet : \A k \in DOMAIN p.priors : p.priors[k] >= 0
    PROVE  Spec => [](\A w \in Workflow : pc[w] # "stalled")
<1>1. IInv => \A w \in Workflow : pc[w] # "stalled"
    <2> SUFFICES ASSUME IInv, NEW w \in Workflow, pc[w] = "stalled" PROVE FALSE
        OBVIOUS
    <2>1. Scheduled(w) /\ Computed(w) /\ Concluded(w)
        BY DEF IInv, RunInv
    <2>2. /\ Drafted(w) /\ answer[w].confidence \in ConfidencesOf(w)
          /\ ~WellFormed(answer[w].confidence)
        BY <2>1 DEF Concluded, Drafted
    <2>3. plan[w] \in PlanSet /\ IsPlan(plan[w])
        BY <2>1, <2>2, PlansAreExecutable DEF Scheduled
    <2>4. RegionsOf(w) \in [plan[w].ids -> SUBSET Region]
          /\ \A n \in plan[w].ids : IsFiniteSet(RegionsOf(w)[n])
        <3>1. \A n \in plan[w].ids : n \in Node
            BY <2>3 DEF IsPlan
        <3> QED BY <2>1, <3>1 DEF RegionsOf, Computed, IInv, TypeOK, NodeResult
    <2>5. WellFormed(answer[w].confidence)
        BY <2>2, <2>3, <2>4, ConfidenceType DEF ConfidencesOf
    <2> QED BY <2>2, <2>5
<1> QED BY <1>1, Invariance, PTL

-----------------------------------------------------------------------------
(***************************************************************************)
(* The executions implement QueryRun.  What it sees of a step is the phase *)
(* of the run that takes it, whether a validator raised, whether a row was *)
(* ever written, and whether an answer that was given is flagged.          *)
(***************************************************************************)
Raised(w) == \E n \in Node : outs[w][n].tag = "violation"

AnsweredFlagged(w) == pc[w] = "done" /\ answer[w].flagged

Shows(w, phase, raised, flagged) ==
    Phase(w) = phase /\ Raised(w) = raised /\ AnsweredFlagged(w) = flagged

OthersStay(w) ==
    \A x \in Workflow \ {w} : pc'[x] = pc[x] /\ outs'[x] = outs[x] /\ answer'[x] = answer[x]

LEMMA PhaseChanges ==
    ASSUME NEW w \in Workflow, OthersStay(w), NEW p, Phase(w)' = p
    PROVE  [x \in Workflow |-> Phase(x)]' = [[x \in Workflow |-> Phase(x)] EXCEPT ![w] = p]
<1>1. \A x \in Workflow \ {w} : Phase(x)' = Phase(x)
    BY DEF OthersStay, Phase
<1> QED BY <1>1

LEMMA RaisedChanges ==
    ASSUME NEW w \in Workflow, OthersStay(w), NEW v, Raised(w)' = v
    PROVE  /\ v = TRUE => {x \in Workflow : Raised(x)}' = {x \in Workflow : Raised(x)} \cup {w}
           /\ v = Raised(w) => {x \in Workflow : Raised(x)}' = {x \in Workflow : Raised(x)}
<1>1. \A x \in Workflow \ {w} : Raised(x)' = Raised(x)
    BY DEF OthersStay, Raised
<1> QED BY <1>1

LEMMA FlaggedChanges ==
    ASSUME NEW w \in Workflow, OthersStay(w), NEW f, AnsweredFlagged(w)' = f
    PROVE  /\ f = TRUE => {x \in Workflow : AnsweredFlagged(x)}'
                           = {x \in Workflow : AnsweredFlagged(x)} \cup {w}
           /\ f = AnsweredFlagged(w) => {x \in Workflow : AnsweredFlagged(x)}'
                                         = {x \in Workflow : AnsweredFlagged(x)}
<1>1. \A x \in Workflow \ {w} : AnsweredFlagged(x)' = AnsweredFlagged(x)
    BY DEF OthersStay, AnsweredFlagged
<1> QED BY <1>1

(* A step QueryRun does not see. *)
LEMMA Silent ==
    ASSUME NEW w \in Workflow, OthersStay(w), queued' = queued,
           Phase(w)' = Phase(w), Raised(w)' = Raised(w),
           AnsweredFlagged(w)' = AnsweredFlagged(w)
    PROVE  UNCHANGED Promise!vars
<1>1. \A x \in Workflow : /\ Phase(x)' = Phase(x) /\ Raised(x)' = Raised(x)
                          /\ AnsweredFlagged(x)' = AnsweredFlagged(x)
    BY DEF OthersStay, Phase, Raised, AnsweredFlagged
<1> QED BY <1>1 DEF Promise!vars, Raised, AnsweredFlagged

(* A run that fails. *)
LEMMA AbstractStop ==
    ASSUME IInv, NEW w \in Workflow, OthersStay(w), queued' = queued,
           pc[w] \notin {"done", "failed"}, pc'[w] = "failed", Raised(w)' = Raised(w)
    PROVE  Promise!Next
<1>1. /\ Phase(w) \in {"new", "running"} /\ Phase(w)' = "stopped"
      /\ AnsweredFlagged(w)' = AnsweredFlagged(w)
    BY DEF Phase, AnsweredFlagged
<1>2. /\ [x \in Workflow |-> Phase(x)]' = [[x \in Workflow |-> Phase(x)] EXCEPT ![w] = "stopped"]
      /\ {x \in Workflow : Raised(x)}' = {x \in Workflow : Raised(x)}
      /\ {x \in Workflow : AnsweredFlagged(x)}' = {x \in Workflow : AnsweredFlagged(x)}
    BY <1>1, PhaseChanges, RaisedChanges, FlaggedChanges
<1>3. Promise!Stop(w, FALSE)
    BY <1>1, <1>2 DEF Promise!Stop, Raised, AnsweredFlagged
<1> QED BY <1>3 DEF Promise!Next

(* A run that goes on, or fails, in the step of an activity. *)
LEMMA PromiseStageStep ==
    ASSUME IInv, NEW w \in Workflow,
           pc[w] \notin {"new", "done", "failed"},
           pc' = pc \/ \E stage \in Stage \ {"new", "done"} : pc' = [pc EXCEPT ![w] = stage],
           outs' = outs, queued' = queued,
           \A x \in Workflow \ {w} : answer'[x] = answer[x]
    PROVE  [Promise!Next]_(Promise!vars)
<1>1. OthersStay(w) /\ Raised(w)' = Raised(w) /\ pc'[w] \in Stage \ {"new", "done"}
    BY DEF OthersStay, Raised, IInv, TypeOK
<1>2. CASE pc'[w] = "failed"
    BY <1>1, <1>2, AbstractStop
<1>3. CASE pc'[w] # "failed"
    <2>1. Phase(w)' = Phase(w) /\ AnsweredFlagged(w)' = AnsweredFlagged(w)
        BY <1>1, <1>3 DEF Phase, AnsweredFlagged, Stage
    <2> QED BY <1>1, <2>1, Silent
<1> QED BY <1>2, <1>3

LEMMA PromiseBegin ==
    ASSUME IInv, NEW w \in Workflow, Begin(w)
    PROVE  Promise!Next
<1>1. /\ pc[w] = "new" /\ pc' = [pc EXCEPT ![w] = "guard"]
      /\ outs' = outs /\ answer' = answer /\ queued' = queued
    BY DEF Begin, enqueueing
<1>2. /\ pc'[w] = "guard" /\ OthersStay(w)
      /\ Raised(w)' = Raised(w) /\ AnsweredFlagged(w)' = AnsweredFlagged(w)
    BY <1>1 DEF OthersStay, Raised, AnsweredFlagged, IInv, TypeOK
<1>3. Phase(w) = "new" /\ Phase(w)' = "running"
    BY <1>1, <1>2 DEF Phase
<1>4. /\ [x \in Workflow |-> Phase(x)]' = [[x \in Workflow |-> Phase(x)] EXCEPT ![w] = "running"]
      /\ {x \in Workflow : Raised(x)}' = {x \in Workflow : Raised(x)}
      /\ {x \in Workflow : AnsweredFlagged(x)}' = {x \in Workflow : AnsweredFlagged(x)}
    BY <1>2, <1>3, PhaseChanges, RaisedChanges, FlaggedChanges
<1>5. Promise!Begin(w)
    BY <1>1, <1>3, <1>4 DEF Promise!Begin, Raised, AnsweredFlagged
<1> QED BY <1>5 DEF Promise!Next

(* A validator may raise in the step that ends its node. *)
LEMMA PromiseNodeStep ==
    ASSUME IInv, NEW w \in Workflow, NEW n \in Node, NodeCompletes(w, n)
    PROVE  [Promise!Next]_(Promise!vars)
<1>1. /\ pc[w] = "execute" /\ outs[w][n].tag = "absent"
      /\ pc' = pc /\ answer' = answer /\ queued' = queued
      /\ \E out : outs' = [outs EXCEPT ![w][n] = out]
    BY DEF NodeCompletes, Pending, enqueueing
<1>2. /\ \A x \in Workflow \ {w} : outs'[x] = outs[x]
      /\ \A m \in Node \ {n} : outs'[w][m] = outs[w][m]
    BY <1>1 DEF IInv, TypeOK
<1>3. /\ OthersStay(w) /\ Phase(w) = "running" /\ Phase(w)' = "running"
      /\ AnsweredFlagged(w)' = AnsweredFlagged(w)
      /\ Raised(w) => Raised(w)'
    BY <1>1, <1>2 DEF OthersStay, Phase, AnsweredFlagged, Raised
<1>4. Raised(w) \in BOOLEAN /\ Raised(w)' \in BOOLEAN
    BY DEF Raised
<1>5. CASE Raised(w)' = Raised(w)
    BY <1>1, <1>3, <1>5, Silent
<1>6. CASE Raised(w)' = TRUE
    <2>1. /\ [x \in Workflow |-> Phase(x)]' = [x \in Workflow |-> Phase(x)]
          /\ {x \in Workflow : Raised(x)}' = {x \in Workflow : Raised(x)} \cup {w}
          /\ {x \in Workflow : AnsweredFlagged(x)}' = {x \in Workflow : AnsweredFlagged(x)}
        <3>1. [x \in Workflow |-> Phase(x)]' = [x \in Workflow |-> Phase(x)]
            BY <1>1 DEF Phase
        <3> QED BY <1>3, <1>6, <3>1, RaisedChanges, FlaggedChanges
    <2>2. Promise!Violate(w)
        BY <1>1, <1>3, <2>1 DEF Promise!Violate, Raised, AnsweredFlagged
    <2> QED BY <2>2 DEF Promise!Next
<1> QED BY <1>3, <1>4, <1>5, <1>6

(* The end of a layer shows no violation, before and after. *)
LEMMA PromiseAdvance ==
    ASSUME IInv, NEW w \in Workflow, Advance(w)
    PROVE  UNCHANGED Promise!vars
<1>1. /\ pc[w] = "execute" /\ ~Violated(w)
      /\ outs' = [outs EXCEPT ![w] = NoResults]
      /\ \E stage \in {"summarize", "execute"} : pc' = [pc EXCEPT ![w] = stage]
      /\ answer' = answer /\ queued' = queued
    BY DEF Advance, LayerDone, enqueueing
<1>2. /\ outs'[w] = NoResults /\ \A x \in Workflow \ {w} : outs'[x] = outs[x]
      /\ pc'[w] \in {"summarize", "execute"} /\ \A x \in Workflow \ {w} : pc'[x] = pc[x]
    BY <1>1 DEF IInv, TypeOK
<1>3. ~Raised(w)
    BY <1>1 DEF Raised, Violated, IInv, RunInv, Scheduled
<1>4. ~Raised(w)'
    BY <1>2, NoResultsType DEF Raised
<1>5. /\ OthersStay(w) /\ Phase(w)' = Phase(w) /\ AnsweredFlagged(w)' = AnsweredFlagged(w)
      /\ Raised(w)' = Raised(w)
    BY <1>1, <1>2, <1>3, <1>4 DEF OthersStay, Phase, AnsweredFlagged, Raised
<1> QED BY <1>1, <1>5, Silent

(* No validator of a run with a draft has raised. *)
LEMMA DraftIsClean ==
    ASSUME IInv, NEW w \in Workflow, Drafted(w)
    PROVE  Raised(w) = FALSE
BY DEF IInv, RunInv, Scheduled, Raised

(* An answer, with a review of it queued before or without any. *)
LEMMA AbstractAnswer ==
    ASSUME IInv, NEW w \in Workflow, OthersStay(w), queued' = queued,
           Drafted(w), outs' = outs, pc[w] \in {"output_filter", "awaiting_human_review"},
           pc'[w] = "done", answer'[w].flagged = answer[w].flagged,
           answer[w].flagged = (w \in queued)
    PROVE  Promise!Next
<1>1. /\ Phase(w) = "running" /\ Phase(w)' = "answered"
      /\ Raised(w) = FALSE /\ Raised(w)' = Raised(w)
    BY DraftIsClean DEF Phase, Raised
<1>2. /\ [x \in Workflow |-> Phase(x)]' = [[x \in Workflow |-> Phase(x)] EXCEPT ![w] = "answered"]
      /\ {x \in Workflow : Raised(x)}' = {x \in Workflow : Raised(x)}
    BY <1>1, PhaseChanges, RaisedChanges
<1>3. CASE w \in queued
    <2>1. AnsweredFlagged(w)' = TRUE
        BY <1>3 DEF AnsweredFlagged, IInv, TypeOK
    <2>2. {x \in Workflow : AnsweredFlagged(x)}' = {x \in Workflow : AnsweredFlagged(x)} \cup {w}
        BY <2>1, FlaggedChanges
    <2>3. Promise!Answer(w, TRUE)
        BY <1>1, <1>2, <1>3, <2>2 DEF Promise!Answer, Raised, AnsweredFlagged
    <2> QED BY <2>3 DEF Promise!Next
<1>4. CASE w \notin queued
    <2>1. AnsweredFlagged(w)' = AnsweredFlagged(w)
        BY <1>4 DEF AnsweredFlagged
    <2>2. {x \in Workflow : AnsweredFlagged(x)}' = {x \in Workflow : AnsweredFlagged(x)}
        BY <2>1, FlaggedChanges
    <2>3. Promise!Answer(w, FALSE)
        BY <1>1, <1>2, <1>4, <2>2 DEF Promise!Answer, Raised, AnsweredFlagged
    <2> QED BY <2>3 DEF Promise!Next
<1> QED BY <1>3, <1>4

LEMMA PromiseFilterReturns ==
    ASSUME IInv, NEW w \in Workflow, FilterReturns(w)
    PROVE  [Promise!Next]_(Promise!vars)
<1>1. /\ pc[w] = "output_filter" /\ pc' = [pc EXCEPT ![w] = AfterFilter(w)]
      /\ outs' = outs /\ answer' = answer /\ queued' = queued
    BY DEF FilterReturns, Filtered, IInv, TypeOK, enqueueing
<1>2. /\ Drafted(w) /\ w \notin queued /\ answer[w].flagged \in BOOLEAN
    BY <1>1 DEF IInv, TypeOK, RunInv, Concluded, Attempted, Reviewing, Drafted
<1>3. CASE answer[w].flagged
    BY <1>1, <1>3, PromiseStageStep DEF AfterFilter, Stage
<1>4. CASE ~answer[w].flagged
    <2>1. pc'[w] = "done" /\ OthersStay(w)
        BY <1>1, <1>4 DEF AfterFilter, OthersStay, IInv, TypeOK
    <2>2. answer[w].flagged = (w \in queued)
        BY <1>2, <1>4
    <2> QED BY <1>1, <1>2, <2>1, <2>2, AbstractAnswer
<1> QED BY <1>3, <1>4

LEMMA PromiseRelease ==
    ASSUME IInv, NEW w \in Workflow, Release(w)
    PROVE  Promise!Next
<1>1. /\ pc[w] = "awaiting_human_review" /\ pc' = [pc EXCEPT ![w] = "done"]
      /\ outs' = outs /\ queued' = queued
      /\ \E text : answer' = [answer EXCEPT ![w].text = text]
    BY DEF Release, enqueueing
<1>2. /\ Drafted(w) /\ answer[w].flagged /\ w \in queued /\ answer[w].flagged \in BOOLEAN
    BY <1>1 DEF IInv, TypeOK, RunInv, Concluded, Drafted
<1>3. /\ pc'[w] = "done" /\ OthersStay(w)
      /\ answer'[w].flagged = answer[w].flagged
    BY <1>1 DEF OthersStay, IInv, TypeOK
<1>4. answer[w].flagged = (w \in queued)
    BY <1>2
<1> QED BY <1>1, <1>2, <1>3, <1>4, AbstractAnswer

(* A late attempt writes the row of a run that goes on, that has failed,   *)
(* or that is done and has a row elsewhere.                                *)
LEMMA PromiseRunEnqueue ==
    ASSUME IInv, NEW attempt \in pending, RunEnqueue(attempt)
    PROVE  [Promise!Next]_(Promise!vars)
<1> DEFINE w == attempt.run
<1>1. attempt \in Attempt /\ w \in Workflow
    BY DEF IInv, TypeOK, Attempt
<1> HIDE DEF w
<1>2. /\ answer[w].flagged /\ pc[w] \in Reviewing /\ Drafted(w)
      /\ live[w] # NoAttempt => pc[w] = "hitl_enqueue"
    <2>1. Attempted(w) /\ Concluded(w)
        BY <1>1 DEF IInv, RunInv
    <2>2. answer[w].flagged /\ pc[w] \in Reviewing
        BY <2>1 DEF Attempted, w
    <2> QED BY <2>1, <2>2 DEF Attempted, Concluded, NoAnswer
<1>3. outs' = outs /\ answer' = answer
    BY DEF RunEnqueue
<1>4. CASE Raises(attempt) /\ live[w] = attempt
    <2>1. live[w] # NoAttempt /\ GiveUp(w, "AttributeError") /\ queued' = queued
        BY <1>1, <1>4, NoAttemptIsNone DEF RunEnqueue, w
    <2>2. pc[w] = "hitl_enqueue"
          /\ (pc' = pc \/ pc' = [pc EXCEPT ![w] = "failed"])
        BY <1>2, <2>1 DEF GiveUp, Fail
    <2> QED BY <1>1, <1>3, <2>1, <2>2, PromiseStageStep DEF Stage
<1>5. CASE Raises(attempt) /\ live[w] # attempt
    <2>1. pc' = pc /\ queued' = queued
        BY <1>5 DEF RunEnqueue, w
    <2> QED BY <1>3, <2>1 DEF Promise!vars, Phase
<1>6. CASE ~Raises(attempt)
    <2>1. pc' = pc /\ queued' = queued \cup {w}
        BY <1>6 DEF RunEnqueue, w
    <2>2. CASE pc[w] = "done"
        <3>1. w \in queued
            BY <1>1, <1>2, <2>2 DEF IInv, RunInv, Concluded
        <3>2. queued' = queued
            BY <2>1, <3>1
        <3> QED BY <1>3, <2>1, <3>2 DEF Promise!vars, Phase
    <2>3. CASE pc[w] # "done"
        <3>1. Phase(w) \in {"running", "stopped"} /\ Raised(w) = FALSE
            BY <1>1, <1>2, <2>3, DraftIsClean DEF Phase, Reviewing
        <3>2. /\ [x \in Workflow |-> Phase(x)]' = [x \in Workflow |-> Phase(x)]
              /\ {x \in Workflow : Raised(x)}' = {x \in Workflow : Raised(x)}
              /\ {x \in Workflow : AnsweredFlagged(x)}' = {x \in Workflow : AnsweredFlagged(x)}
            BY <1>3, <2>1 DEF Phase, Raised, AnsweredFlagged
        <3>3. Promise!QueueReview(w)
            BY <1>1, <2>1, <3>1, <3>2 DEF Promise!QueueReview, Raised, AnsweredFlagged
        <3> QED BY <1>1, <3>3 DEF Promise!Next
    <2> QED BY <2>2, <2>3
<1> QED BY <1>4, <1>5, <1>6

(* The steps of an activity or of a review that end in no answer. *)
LEMMA PromiseQuietStep ==
    ASSUME IInv, NEW w \in Workflow,
           \/ GuardPasses(w) \/ Planning(w) \/ RaiseViolation(w) \/ StopOverBudget(w)
           \/ \E t \in SummaryCost(req[w].maxTokens - tokens[w]) : SummaryArrives(w, t)
           \/ \E a \in Activity : AttemptFails(w, a)
           \/ Attempting(w) \/ Stall(w)
    PROVE  [Promise!Next]_(Promise!vars)
<1>1. /\ pc[w] \notin {"new", "done", "failed"}
      /\ outs' = outs /\ queued' = queued
      /\ \A x \in Workflow \ {w} : answer'[x] = answer[x]
      /\ pc' = pc \/ \E stage \in Stage \ {"new", "done"} : pc' = [pc EXCEPT ![w] = stage]
    <2> USE DEF enqueueing, Fail, Stage
    <2>1. CASE GuardPasses(w) \/ RaiseViolation(w) \/ StopOverBudget(w) \/ Stall(w)
        BY <2>1 DEF GuardPasses, RaiseViolation, StopOverBudget, LayerDone, Stall
    <2>2. CASE Planning(w)
        BY <2>2 DEF Planning, PlanArrives
    <2>3. CASE \E t \in SummaryCost(req[w].maxTokens - tokens[w]) : SummaryArrives(w, t)
        BY <2>3 DEF SummaryArrives, IInv, TypeOK
    <2>4. CASE \E a \in Activity : AttemptFails(w, a)
        BY <2>4 DEF AttemptFails, Pending
    <2>5. CASE Attempting(w)
        <3>1. CASE \E k \in Worker : StartEnqueue(w, k)
            BY <3>1 DEF StartEnqueue
        <3>2. CASE AckEnqueue(w) \/ LoseEnqueue(w)
            <4>1. live[w] # NoAttempt
                BY <3>2, NoAttemptIsNone DEF AckEnqueue, LoseEnqueue, IInv, TypeOK
            <4>2. pc[w] = "hitl_enqueue"
                BY <4>1 DEF IInv, RunInv, Attempted
            <4> QED BY <3>2, <4>2 DEF AckEnqueue, LoseEnqueue, GiveUp
        <3> QED BY <2>5, <3>1, <3>2 DEF Attempting
    <2> QED BY <2>1, <2>2, <2>3, <2>4, <2>5
<1> QED BY <1>1, PromiseStageStep

(* What a caller is promised, whatever is retried, lost or cut short. *)
THEOREM ImplementsQueryRun == Spec => KeepsPromise
<1>1. Init => Promise!Init
    <2> SUFFICES ASSUME Init PROVE Promise!Init
        OBVIOUS
    <2>1. \A w \in Workflow : Phase(w) = "new" /\ ~Raised(w) /\ ~AnsweredFlagged(w)
        BY NoResultsType DEF Init, Phase, Raised, AnsweredFlagged
    <2>2. queued = {}
        BY DEF Init
    <2> QED BY <2>1, <2>2 DEF Promise!Init, Raised, AnsweredFlagged
<1>2. IInv /\ [Next]_vars => [Promise!Next]_(Promise!vars)
    <2> SUFFICES ASSUME IInv, [Next]_vars PROVE [Promise!Next]_(Promise!vars)
        OBVIOUS
    <2>1. CASE UNCHANGED vars
        BY <2>1 DEF vars, enqueueing, Promise!vars, Phase
    <2>2. ASSUME NEW w \in Workflow, Begin(w) \/ Proceed(w) \/ TimePasses(w)
          PROVE  [Promise!Next]_(Promise!vars)
        <3>1. CASE Begin(w)
            BY <3>1, PromiseBegin
        <3>2. CASE TimePasses(w)
            BY <3>2 DEF TimePasses, enqueueing, Promise!vars, Phase
        <3>3. CASE Executing(w)
            BY <3>3, PromiseNodeStep, PromiseQuietStep, PromiseAdvance DEF Executing
        <3>4. CASE Answering(w)
            BY <3>4, PromiseQuietStep, PromiseFilterReturns DEF Answering
        <3>5. CASE Release(w)
            BY <3>5, PromiseRelease
        <3>6. CASE \/ GuardPasses(w) \/ Planning(w) \/ Attempting(w) \/ Stall(w)
                   \/ \E a \in Activity : AttemptFails(w, a)
            BY <3>6, PromiseQuietStep
        <3> QED BY <2>2, <3>1, <3>2, <3>3, <3>4, <3>5, <3>6 DEF Proceed
    <2>3. ASSUME NEW attempt \in pending, RunEnqueue(attempt)
          PROVE  [Promise!Next]_(Promise!vars)
        BY <2>3, PromiseRunEnqueue
    <2>4. ASSUME NEW k \in Worker, WorkerCrash(k)
          PROVE  [Promise!Next]_(Promise!vars)
        BY <2>4 DEF WorkerCrash, Promise!vars, Phase
    <2>5. ASSUME NEW w \in Workflow, NEW decision \in DecisionSet, Signal(w, decision)
          PROVE  [Promise!Next]_(Promise!vars)
        BY <2>5 DEF Signal, enqueueing, Promise!vars, Phase
    <2> QED BY <2>1, <2>2, <2>3, <2>4, <2>5 DEF Next
<1> QED BY <1>1, <1>2, Invariance, PTL DEF Spec, KeepsPromise, Promise!Spec
=============================================================================
