------------------------- MODULE OrchestratorProofs -------------------------
(***************************************************************************)
(* Orchestrator for every set of runs, of plans the planner may return, of *)
(* requests and of costs.                                                  *)
(*                                                                         *)
(* The inductive invariant is a conjunction of what each run keeps by      *)
(* itself (Scheduled, Computed, Charged, Concluded) and of the review      *)
(* queue the runs share.  A step changes one run: the lemma Frame carries  *)
(* every other run over it.                                                *)
(***************************************************************************)
EXTENDS Orchestrator, NodeResultsProofs

-----------------------------------------------------------------------------
(***************************************************************************)
(* The inductive invariant.                                                *)
(***************************************************************************)

(* The layer is what topo_layers yields for the results so far, and only   *)
(* its nodes are under way.                                                *)
Scheduled(r) ==
    /\ fetching[r] \subseteq layer[r]
    /\ \A n \in fetching[r] : outs[r][n].tag = "absent"
    /\ \A n \in Node : outs[r][n].tag # "absent" => n \in layer[r]
    /\ layer[r] \subseteq NextLayer(plan[r], Finished(r))
    /\ Finished(r) \subseteq plan[r].ids
    /\ \A n \in Finished(r) : DepSet(plan[r], n) \subseteq Finished(r)
    /\ pc[r] \in {"new", "planning"} => layer[r] = {} /\ Finished(r) = {}
    /\ pc[r] \in {"executing", "summarizing", "answered"} =>
          plan[r] \in PlanSet /\ layer[r] = NextLayer(plan[r], Finished(r))
    /\ pc[r] \in {"summarizing", "answered"} => layer[r] = {}
    /\ fetching[r] # {} => pc[r] = "executing"

(* A region rests on prisms that have been computed. *)
Grounded(r, g) ==
    /\ plan[r].kind[g.by] \in {"TGARD", "DC_TGARD"}
    /\ \A x \in g.of : x \in DepSet(plan[r], g.by) /\ results[r][x].tag = "prism"

(* What a VALIDATE node left is still what it would leave: the results it  *)
(* read do not change.  A violation never becomes a result.                *)
Computed(r) ==
    /\ \A n \in Node :
          /\ outs[r][n].tag = "absent" => outs[r][n].regions = {}
          /\ results[r][n].tag = "absent" => results[r][n].regions = {}
          /\ IsFiniteSet(outs[r][n].regions) /\ IsFiniteSet(results[r][n].regions)
    /\ \A n \in Node : \A g \in outs[r][n].regions \cup results[r][n].regions : Grounded(r, g)
    /\ \A n \in Finished(r) :
          /\ results[r][n].tag # "violation"
          /\ plan[r].kind[n] = "VALIDATE" =>
                results[r][n] = ValidateOutcome(plan[r], req[r], results[r], n)
    /\ \A n \in layer[r] :
          plan[r].kind[n] = "VALIDATE" /\ outs[r][n].tag # "absent" =>
                outs[r][n] = ValidateOutcome(plan[r], req[r], results[r], n)

(* The ledger of a run. *)
Charged(r) ==
    /\ tools[r] = Cardinality(Started(r)) + Cardinality(Finished(r))
    /\ IsFiniteSet(plan[r].ids)
    /\ pc[r] \in {"executing", "summarizing"} => tokens[r] <= req[r].maxTokens
    /\ pc[r] \in {"executing", "summarizing", "answered"} =>
          Cardinality(Finished(r)) <= req[r].maxTools
    /\ pc[r] = "answered" =>
          \E i \in PromptTokens : tokens[r] <= req[r].maxTokens + i + AnswerFloor

(* The answer and its review are made in one step. *)
Concluded(r) ==
    /\ r \in queue.seen => pc[r] \in {"answered", "failed"}
    /\ pc[r] # "answered" => answer[r] = NoAnswer
    /\ pc[r] = "answered" =>
          /\ answer[r].regions = CollectRegions(r)
          /\ answer[r].confidence \in Confidences(plan[r], RegionsOf(r))
          /\ answer[r].flagged = NeedsReview(answer[r].confidence)
          /\ answer[r].flagged = (r \in queue.seen)

(* The queue the runs share: see KeepsRows. *)
OneRowEach == KeepsRows(queue, Run)

RunInv(r) == Scheduled(r) /\ Computed(r) /\ Charged(r) /\ Concluded(r)

IInv == TypeOK /\ OneRowEach /\ \A r \in Run : RunInv(r)

-----------------------------------------------------------------------------
(***************************************************************************)
(* Lemmas on the operators of a step.                                      *)
(***************************************************************************)

(* The queue after the end of a run, whether its answer is flagged or not. *)
LEMMA EnqueueKeepsRows ==
    ASSUME OneRowEach, NEW r \in Run,
           NEW flag \in BOOLEAN, queue' = IF flag THEN Enqueued(queue, r) ELSE queue
    PROVE  /\ OneRowEach'
           /\ queue'.seen = IF flag THEN queue.seen \cup {r} ELSE queue.seen
<1>1. CASE flag
    BY <1>1, EnqueuedKeepsRows DEF OneRowEach
<1>2. CASE ~flag
    BY <1>2 DEF OneRowEach
<1> QED BY <1>1, <1>2

(* The run whose budget is checked: what the summarizer may cost. *)
LEMMA SummaryBound ==
    ASSUME NEW left \in Nat, NEW t \in SummaryCost(left)
    PROVE  /\ t \in Nat
           /\ \E i \in PromptTokens : t <= i + left \/ t <= i + AnswerFloor
<1> USE CostsAreNat
<1>1. CASE t = 0
    <2>1. PICK i \in PromptTokens : TRUE
        OBVIOUS
    <2> QED BY <1>1, <2>1
<1>2. CASE t # 0
    <2>1. PICK i \in PromptTokens, o \in 0..AnswerTokens(left) : t = i + o
        BY <1>2 DEF SummaryCost
    <2> DEFINE m == Min({left, AnswerCap})
    <2>2. m \in Nat /\ m <= left
        <3>1. \E x \in {left, AnswerCap} : \A y \in {left, AnswerCap} : x <= y
            OBVIOUS
        <3> QED BY <3>1 DEF Min
    <2> HIDE DEF m
    <2>3. AnswerTokens(left) \in {AnswerFloor, m}
        <3>1. \E x \in {AnswerFloor, m} : \A y \in {AnswerFloor, m} : x >= y
            BY <2>2
        <3> QED BY <3>1 DEF AnswerTokens, Max, m
    <2> QED BY <2>1, <2>2, <2>3
<1> QED BY <1>1, <1>2

(* What a node leaves: a typed outcome, whose finitely many regions were   *)
(* found by this node between prisms it was given, or come from a result   *)
(* it was given.                                                           *)
LEMMA OutcomeOf ==
    ASSUME NEW p \in PlanSet, NEW q \in RequestSet, NEW prior \in [Node -> Result],
           \A d \in Node : IsFiniteSet(prior[d].regions),
           NEW n \in p.ids, NEW out \in Outcomes(p, q, prior, n)
    PROVE  /\ out \in Result /\ out.tag # "absent" /\ IsFiniteSet(out.regions)
           /\ p.kind[n] = "VALIDATE" => out = ValidateOutcome(p, q, prior, n)
           /\ \A g \in out.regions :
                 \/ \E d \in Node : g \in prior[d].regions
                 \/ /\ p.kind[g.by] \in {"TGARD", "DC_TGARD"}
                    /\ \A x \in g.of : x \in DepSet(p, g.by) /\ prior[x].tag = "prism"
<1>1. /\ IsPlan(p) /\ IsRequest(q) /\ n \in Node /\ p.kind[n] \in Kind
      /\ DepSet(p, n) \subseteq Node /\ IsFiniteSet(DepSet(p, n))
    <2>1. IsPlan(p) /\ IsRequest(q) /\ DepSet(p, n) \in SUBSET p.ids /\ IsFiniteSet(p.ids)
        BY PlansAreExecutable, RequestsAreTyped DEF IsPlan
    <2> QED BY <2>1, FS_Subset DEF IsPlan
<1>2. CASE p.kind[n] \in {"PRISM", "GAPS", "RETRIEVE", "SUMMARIZE"}
    <2>1. out \in {Plain("prism"), Plain("gaps"), Plain("retrieved"), Plain("none"),
                   Plain("error")}
        BY <1>2 DEF Outcomes
    <2>2. out.regions = {} /\ out \in Result /\ out.tag # "absent"
        BY <2>1 DEF Plain, Result, Tag
    <2> QED BY <1>2, <2>2, FS_EmptySet
<1>3. CASE p.kind[n] \in {"TGARD", "DC_TGARD"}
    <2>1. out \in {Regions(RegionsFound(p, q, n, Prisms(p, prior, n))), Plain("error")}
        BY <1>3 DEF Outcomes
    <2>2. CASE out = Plain("error")
        BY <1>3, <2>2, FS_EmptySet DEF Plain, Result, Tag
    <2>3. CASE out = Regions(RegionsFound(p, q, n, Prisms(p, prior, n)))
        <3>1. Prisms(p, prior, n) \in SUBSET Node /\ IsFiniteSet(Prisms(p, prior, n))
            <4>1. Prisms(p, prior, n) \in SUBSET DepSet(p, n)
                BY DEF Prisms
            <4> QED BY <1>1, <4>1, FS_Subset
        <3>2. /\ RegionsFound(p, q, n, Prisms(p, prior, n)) \in SUBSET Region
              /\ IsFiniteSet(RegionsFound(p, q, n, Prisms(p, prior, n)))
            BY <1>1, <3>1, FoundType, FoundFinite
        <3>3. out.regions = RegionsFound(p, q, n, Prisms(p, prior, n))
              /\ out \in Result /\ out.tag # "absent"
            BY <2>3, <3>2 DEF Regions, Result, Tag
        <3>4. ASSUME NEW g \in out.regions
              PROVE  g.by = n /\ g.of \subseteq Prisms(p, prior, n)
            BY <3>3, FoundWhere
        <3> QED BY <1>3, <3>2, <3>3, <3>4 DEF Prisms
    <2> QED BY <2>1, <2>2, <2>3
<1>4. CASE p.kind[n] = "VALIDATE"
    <2>1. out = ValidateOutcome(p, q, prior, n)
        BY <1>4 DEF Outcomes
    <2>2. \/ out \in {Plain("error"), Plain("violation"), Regions({})}
          \/ p.deps[n] # <<>> /\ out = Regions(prior[Head(p.deps[n])].regions)
        BY <2>1 DEF ValidateOutcome, Candidates
    <2>3. CASE out \in {Plain("error"), Plain("violation"), Regions({})}
        <3>1. out.regions = {} /\ out \in Result /\ out.tag # "absent"
            BY <2>3 DEF Plain, Regions, Result, Tag
        <3>2. IsFiniteSet(out.regions)
            BY <3>1, FS_EmptySet
        <3> QED BY <1>4, <2>1, <3>1, <3>2
    <2>4. CASE p.deps[n] # <<>> /\ out = Regions(prior[Head(p.deps[n])].regions)
        <3>1. Head(p.deps[n]) \in Node
            BY <1>1, <2>4, HeadIsDep
        <3>2. prior[Head(p.deps[n])].regions \in SUBSET Region
            BY <3>1 DEF Result
        <3>3. out.regions = prior[Head(p.deps[n])].regions
              /\ out \in Result /\ out.tag # "absent"
            BY <2>4, <3>2 DEF Regions, Result, Tag
        <3> QED BY <2>1, <3>1, <3>3
    <2> QED BY <2>2, <2>3, <2>4
<1> QED BY <1>1, <1>2, <1>3, <1>4 DEF Kind

(* A validator looks at its dependencies only. *)
LEMMA ValidateIsLocal ==
    ASSUME NEW p \in PlanSet, NEW q, NEW n \in p.ids, NEW prior, NEW later,
           \A d \in DepSet(p, n) : later[d] = prior[d]
    PROVE  ValidateOutcome(p, q, later, n) = ValidateOutcome(p, q, prior, n)
<1>1. p.deps[n] # <<>> => Head(p.deps[n]) \in DepSet(p, n)
    BY PlansAreExecutable, HeadIsDep
<1>2. p.deps[n] # <<>> => later[Head(p.deps[n])] = prior[Head(p.deps[n])]
    BY <1>1
<1> QED BY <1>2 DEF ValidateOutcome, ReachesValidator, Candidates

-----------------------------------------------------------------------------
(***************************************************************************)
(* A step of one run leaves the others as they are.                        *)
(***************************************************************************)
SameWork(r) ==
    /\ req'[r] = req[r]
    /\ plan'[r] = plan[r]
    /\ layer'[r] = layer[r]
    /\ fetching'[r] = fetching[r]
    /\ outs'[r] = outs[r]
    /\ results'[r] = results[r]
    /\ tools'[r] = tools[r]

SameEnd(r) ==
    /\ pc'[r] = pc[r]
    /\ tokens'[r] = tokens[r]
    /\ answer'[r] = answer[r]
    /\ (r \in queue'.seen) = (r \in queue.seen)

LEMMA FrameWork ==
    ASSUME NEW r, SameWork(r)
    PROVE  /\ Finished(r)' = Finished(r)
           /\ Started(r)' = Started(r)
           /\ Computed(r) => Computed(r)'
           /\ CollectRegions(r)' = CollectRegions(r)
           /\ RegionsOf(r)' = RegionsOf(r)
<1>1. Finished(r)' = Finished(r) /\ Started(r)' = Started(r)
    BY DEF SameWork, Finished, Started
<1>2. Computed(r) => Computed(r)'
    BY <1>1 DEF SameWork, Computed, Grounded
<1>3. CollectRegions(r)' = CollectRegions(r) /\ RegionsOf(r)' = RegionsOf(r)
    BY DEF SameWork, CollectRegions, RegionsOf
<1> QED BY <1>1, <1>2, <1>3

LEMMA Frame ==
    ASSUME NEW r, RunInv(r), SameWork(r), SameEnd(r)
    PROVE  RunInv(r)'
<1>1. /\ Finished(r)' = Finished(r)
      /\ Started(r)' = Started(r)
      /\ Computed(r)'
      /\ CollectRegions(r)' = CollectRegions(r)
      /\ RegionsOf(r)' = RegionsOf(r)
    BY FrameWork DEF RunInv
<1>2. Scheduled(r)'
    BY <1>1 DEF RunInv, Scheduled, SameWork, SameEnd
<1>3. Charged(r)'
    BY <1>1 DEF RunInv, Charged, SameWork, SameEnd
<1>4. Concluded(r)'
    BY <1>1 DEF RunInv, Concluded, SameWork, SameEnd
<1> QED BY <1>1, <1>2, <1>3, <1>4 DEF RunInv

LEMMA StepOfOneRun ==
    ASSUME IInv, NEW r \in Run, TypeOK', OneRowEach', RunInv(r)',
           \A x \in Run \ {r} : SameWork(x) /\ SameEnd(x)
    PROVE  IInv'
<1>1. ASSUME NEW x \in Run \ {r} PROVE RunInv(x)'
    BY Frame DEF IInv
<1> QED BY <1>1 DEF IInv

-----------------------------------------------------------------------------
(***************************************************************************)
(* Every step keeps the invariant.                                         *)
(***************************************************************************)

LEMMA InitIInv == Init => IInv
<1> SUFFICES ASSUME Init PROVE IInv
    OBVIOUS
<1>1. NoResults \in [Node -> Result] /\ \A n \in Node : NoResults[n] = Plain("absent")
    BY DEF NoResults, Plain, Result, Tag
<1>2. /\ queue.mem = <<>> /\ queue.mem \in Seq(Run) /\ DOMAIN queue.mem = {}
      /\ queue.seen = {}
    BY DEF Init, EmptyQueue
<1>3. TypeOK
    BY <1>1, <1>2 DEF Init, TypeOK, Stage, NoAnswer, Percent
<1>4. OneRowEach
    BY EmptyKeepsRows DEF Init, OneRowEach
<1>5. ASSUME NEW r \in Run PROVE RunInv(r)
    <2>1. /\ pc[r] = "new" /\ plan[r] = NoPlan /\ layer[r] = {} /\ fetching[r] = {}
          /\ outs[r] = NoResults /\ results[r] = NoResults
          /\ tokens[r] = 0 /\ tools[r] = 0 /\ answer[r] = NoAnswer
        BY <1>5 DEF Init
    <2>2. \A n \in Node : /\ outs[r][n].tag = "absent" /\ results[r][n].tag = "absent"
                          /\ outs[r][n].regions = {} /\ results[r][n].regions = {}
        BY <1>1, <2>1 DEF Plain
    <2>3. Finished(r) = {} /\ Started(r) = {}
        BY <2>1, <2>2 DEF Finished, Started
    <2>4. Scheduled(r)
        BY <2>1, <2>2, <2>3 DEF Scheduled
    <2>5. Computed(r)
        BY <2>1, <2>2, <2>3, FS_EmptySet DEF Computed
    <2>6. Charged(r)
        <3>1. IsFiniteSet({}) /\ Cardinality({}) = 0
            BY FS_EmptySet
        <3>2. NoPlan.ids = {}
            BY DEF NoPlan
        <3> QED BY <2>1, <2>3, <3>1, <3>2 DEF Charged
    <2>7. Concluded(r)
        BY <1>2, <2>1 DEF Concluded
    <2> QED BY <2>4, <2>5, <2>6, <2>7 DEF RunInv
<1> QED BY <1>3, <1>4, <1>5 DEF IInv

(* A run leaves the path of nodes, or is admitted: only its stage changes. *)
LEMMA StageStep ==
    ASSUME IInv, NEW r \in Run, NEW stage,
           stage \in {"planning", "rejected", "failed", "violation"},
           pc[r] \notin {"answered", "failed"}, fetching[r] = {},
           stage = "planning" => pc[r] = "new",
           pc' = [pc EXCEPT ![r] = stage],
           UNCHANGED <<req, plan, layer, fetching, outs, results, tokens, tools, late,
                       answer, queue>>
    PROVE  IInv'
<1>1. TypeOK'
    BY DEF IInv, TypeOK, Stage
<1>2. OneRowEach'
    BY DEF IInv, OneRowEach
<1>3. \A x \in Run : SameWork(x)
    BY DEF SameWork
<1>4. \A x \in Run \ {r} : SameEnd(x)
    BY DEF SameEnd, IInv, TypeOK
<1>5. RunInv(r)'
    <2>1. /\ Finished(r)' = Finished(r)
          /\ Started(r)' = Started(r)
          /\ Computed(r)'
        BY <1>3, FrameWork DEF IInv, RunInv
    <2>2. pc'[r] = stage
        BY DEF IInv, TypeOK
    <2>3. Scheduled(r)'
        BY <2>1, <2>2 DEF IInv, RunInv, Scheduled
    <2>4. Charged(r)'
        BY <2>1, <2>2 DEF IInv, RunInv, Charged
    <2>5. Concluded(r)'
        BY <2>2 DEF IInv, RunInv, Concluded
    <2> QED BY <2>1, <2>3, <2>4, <2>5 DEF RunInv
<1> QED BY <1>1, <1>2, <1>3, <1>4, <1>5, StepOfOneRun

(* gather() returns: no node of the layer is under way. *)
LEMMA LayerDoneFacts ==
    ASSUME IInv, NEW r \in Run, LayerDone(r)
    PROVE  /\ fetching[r] = {}
           /\ Started(r) = layer[r]
           /\ plan[r] \in PlanSet
           /\ layer[r] = NextLayer(plan[r], Finished(r))
           /\ Finished(r) \subseteq plan[r].ids
           /\ layer[r] \subseteq plan[r].ids /\ layer[r] \cap Finished(r) = {}
<1>1. pc[r] = "executing" /\ \A n \in layer[r] : outs[r][n].tag # "absent"
    BY DEF LayerDone
<1>2. Scheduled(r) /\ layer[r] \in SUBSET Node
    BY DEF IInv, RunInv, TypeOK
<1>3. fetching[r] = {}
    BY <1>1, <1>2 DEF Scheduled
<1>4. Started(r) = layer[r]
    BY <1>1, <1>2, <1>3 DEF Started, Scheduled
<1> QED BY <1>1, <1>2, <1>3, <1>4 DEF Scheduled, NextLayer

LEMMA GuardSteps ==
    ASSUME IInv, NEW r \in Run, Accept(r) \/ Reject(r)
    PROVE  IInv'
<1>1. fetching[r] = {}
    BY DEF IInv, RunInv, Scheduled, Accept, Reject
<1>2. CASE Accept(r)
    BY <1>1, <1>2, StageStep DEF Accept
<1>3. CASE Reject(r)
    BY <1>1, <1>3, StageStep DEF Reject
<1> QED BY <1>2, <1>3

LEMMA PlanningFailsStep ==
    ASSUME IInv, NEW r \in Run, PlanningFails(r)
    PROVE  IInv'
<1>1. fetching[r] = {}
    BY DEF IInv, RunInv, Scheduled, PlanningFails
<1> QED BY <1>1, StageStep DEF PlanningFails

LEMMA RaiseViolationStep ==
    ASSUME IInv, NEW r \in Run, RaiseViolation(r)
    PROVE  IInv'
<1>1. fetching[r] = {} /\ pc[r] = "executing"
    BY LayerDoneFacts DEF RaiseViolation, LayerDone
<1> QED BY <1>1, StageStep DEF RaiseViolation

LEMMA SummaryFailsStep ==
    ASSUME IInv, NEW r \in Run, SummaryFails(r)
    PROVE  IInv'
<1>1. fetching[r] = {} /\ pc[r] = "summarizing"
    BY DEF IInv, RunInv, Scheduled, SummaryFails
<1> QED BY <1>1, StageStep DEF SummaryFails

LEMMA TimePassesStep ==
    ASSUME IInv, NEW r \in Run, TimePasses(r)
    PROVE  IInv'
<1>1. TypeOK'
    BY DEF IInv, TypeOK, TimePasses
<1>2. OneRowEach'
    BY DEF IInv, OneRowEach, TimePasses
<1>3. \A x \in Run : SameWork(x) /\ SameEnd(x)
    BY DEF TimePasses, SameWork, SameEnd
<1> QED BY <1>1, <1>2, <1>3, Frame, StepOfOneRun DEF IInv

LEMMA PlanArrivesStep ==
    ASSUME IInv, NEW r \in Run, NEW p \in PlanSet, NEW t \in PlanTokens,
           PlanArrives(r, p, t)
    PROVE  IInv'
<1> USE DEF PlanArrives
<1>1. IsPlan(p) /\ NextLayer(p, {}) \in SUBSET Node /\ IsFiniteSet(p.ids)
    BY PlansAreExecutable DEF IsPlan, NextLayer
<1>2. t \in Nat /\ tokens' = [tokens EXCEPT ![r] = @ + t]
    BY CostsAreNat
<1>3. /\ pc' = [pc EXCEPT ![r] = pc'[r]]
      /\ pc'[r] \in {"over_budget", "summarizing", "executing"}
      /\ plan' = [plan EXCEPT ![r] = plan'[r]]
      /\ plan'[r] \in {plan[r], p}
      /\ layer' = [layer EXCEPT ![r] = layer'[r]]
      /\ layer'[r] \in {layer[r], NextLayer(p, {})}
    BY DEF IInv, TypeOK
<1>4. TypeOK'
    <2>1. tokens' \in [Run -> Nat]
        BY <1>2 DEF IInv, TypeOK
    <2>2. pc' \in [Run -> Stage]
        BY <1>3 DEF IInv, TypeOK, Stage
    <2>3. plan' \in [Run -> PlanSet \cup {NoPlan}] /\ layer' \in [Run -> SUBSET Node]
        <3>1. CASE UNCHANGED <<plan, layer>>
            BY <3>1 DEF IInv, TypeOK
        <3>2. CASE plan' = [plan EXCEPT ![r] = p] /\ layer' = [layer EXCEPT ![r] = NextLayer(p, {})]
            BY <1>1, <3>2 DEF IInv, TypeOK
        <3> QED BY <3>1, <3>2
    <2> QED BY <2>1, <2>2, <2>3 DEF IInv, TypeOK
<1>5. OneRowEach'
    BY DEF IInv, OneRowEach
<1>6. \A x \in Run \ {r} : SameWork(x) /\ SameEnd(x)
    BY <1>2, <1>3 DEF SameWork, SameEnd, IInv, TypeOK
<1>7. RunInv(r)'
    <2>1. /\ Scheduled(r) /\ Computed(r) /\ Charged(r) /\ Concluded(r)
          /\ pc[r] = "planning" /\ layer[r] = {} /\ Finished(r) = {} /\ fetching[r] = {}
        BY DEF IInv, RunInv, Scheduled
    <2>2. \A n \in Node : outs[r][n].tag = "absent" /\ results[r][n].tag = "absent"
        BY <2>1 DEF Scheduled, Finished
    <2>3. Finished(r)' = {} /\ Started(r)' = {} /\ Finished(r) = {} /\ Started(r) = {}
        BY <2>1, <2>2 DEF Finished, Started
    <2>4. pc'[r] # "over_budget" =>
             plan'[r] = p /\ layer'[r] = NextLayer(p, {}) /\ tokens'[r] <= req[r].maxTokens
        <3>1. tokens'[r] \in Nat /\ req[r].maxTokens \in Nat
            BY <1>4, RequestsAreTyped DEF IInv, TypeOK, IsRequest
        <3> QED BY <3>1 DEF IInv, TypeOK
    <2>5. pc'[r] = "over_budget" => plan'[r] = plan[r] /\ layer'[r] = layer[r]
        BY <1>3 DEF IInv, TypeOK
    <2>6. pc'[r] = "summarizing" => layer'[r] = {}
        BY DEF IInv, TypeOK
    <2>7. Scheduled(r)'
        BY <1>3, <2>1, <2>2, <2>3, <2>4, <2>5, <2>6 DEF Scheduled
    <2>8. Computed(r)'
        <3>1. \A n \in Node : outs'[r][n].regions = {} /\ results'[r][n].regions = {}
            BY <2>1, <2>2 DEF Computed
        <3>4. IsFiniteSet({})
            BY FS_EmptySet
        <3>2. layer'[r] \in SUBSET Node
            BY <1>4 DEF TypeOK
        <3>3. \A n \in Node : outs'[r][n].tag = "absent"
            BY <2>2
        <3> QED BY <2>3, <3>1, <3>2, <3>3, <3>4 DEF Computed
    <2>9. Charged(r)'
        <3>1. IsFiniteSet(plan'[r].ids)
            BY <1>1, <1>3, <2>1 DEF Charged
        <3>2. Cardinality({}) = 0 /\ req[r].maxTools \in Nat
            BY FS_EmptySet, RequestsAreTyped DEF IInv, TypeOK, IsRequest
        <3> QED BY <1>3, <2>1, <2>3, <2>4, <3>1, <3>2 DEF Charged
    <2>10. Concluded(r)'
        BY <1>3, <2>1 DEF Concluded
    <2> QED BY <2>7, <2>8, <2>9, <2>10 DEF RunInv
<1> QED BY <1>4, <1>5, <1>6, <1>7, StepOfOneRun

(* A node that was not started, and what the run has counted so far. *)
LEMMA UnstartedFacts ==
    ASSUME IInv, NEW r \in Run, NEW n \in Node, pc[r] = "executing", n \in layer[r]
    PROVE  /\ plan[r] \in PlanSet /\ req[r] \in RequestSet
           /\ n \in plan[r].ids /\ n \notin Finished(r)
           /\ DepSet(plan[r], n) \subseteq Finished(r)
           /\ IsFiniteSet(Started(r)) /\ IsFiniteSet(Finished(r))
           /\ Cardinality(Started(r)) \in Nat /\ Cardinality(Finished(r)) \in Nat
<1>1. Scheduled(r) /\ Charged(r) /\ req[r] \in RequestSet
    BY DEF IInv, RunInv, TypeOK
<1>2. /\ plan[r] \in PlanSet
      /\ layer[r] = NextLayer(plan[r], Finished(r))
    BY <1>1 DEF Scheduled
<1>3. /\ Started(r) \in SUBSET plan[r].ids
      /\ Finished(r) \in SUBSET plan[r].ids
      /\ IsFiniteSet(plan[r].ids)
    BY <1>1, <1>2 DEF Scheduled, Started, NextLayer, Charged
<1>4. IsFiniteSet(Started(r)) /\ IsFiniteSet(Finished(r))
    BY <1>3, FS_Subset
<1>5. Cardinality(Started(r)) \in Nat /\ Cardinality(Finished(r)) \in Nat
    BY <1>4, FS_CardinalityType
<1> QED BY <1>1, <1>2, <1>4, <1>5 DEF NextLayer

(* The result of a node, whether the node suspended or not. *)
LEMMA NodeEnds ==
    ASSUME IInv, NEW r \in Run, NEW n \in Node, pc[r] = "executing", n \in layer[r],
           NEW out \in Outcomes(plan[r], req[r], results[r], n),
           outs' = [outs EXCEPT ![r][n] = out],
           UNCHANGED <<req, plan, layer, results>>
    PROVE  /\ outs' \in [Run -> [Node -> Result]]
           /\ outs'[r][n] = out /\ out.tag # "absent"
           /\ \A m \in Node \ {n} : outs'[r][m] = outs[r][m]
           /\ \A x \in Run \ {r} : outs'[x] = outs[x]
           /\ Finished(r)' = Finished(r)
           /\ Computed(r)'
<1>1. /\ plan[r] \in PlanSet /\ req[r] \in RequestSet
      /\ n \in plan[r].ids
    BY UnstartedFacts
<1>2. results[r] \in [Node -> Result] /\ outs \in [Run -> [Node -> Result]]
    BY DEF IInv, TypeOK
<1>3. /\ out \in Result /\ out.tag # "absent" /\ IsFiniteSet(out.regions)
      /\ plan[r].kind[n] = "VALIDATE" =>
             out = ValidateOutcome(plan[r], req[r], results[r], n)
      /\ \A g \in out.regions :
            (\E d \in Node : g \in results[r][d].regions) \/ Grounded(r, g)
    <2>1. \A d \in Node : IsFiniteSet(results[r][d].regions)
        BY DEF IInv, RunInv, Computed
    <2> QED BY <1>1, <1>2, <2>1, OutcomeOf DEF Grounded
<1>4. /\ outs' \in [Run -> [Node -> Result]]
      /\ outs'[r][n] = out
      /\ \A m \in Node \ {n} : outs'[r][m] = outs[r][m]
      /\ \A x \in Run \ {r} : outs'[x] = outs[x]
    BY <1>2, <1>3
<1>5. Finished(r)' = Finished(r)
    BY DEF Finished
<1>6. Computed(r)'
    <2>1. Computed(r)
        BY DEF IInv, RunInv
    <2>2. \A g : Grounded(r, g) => Grounded(r, g)'
        BY DEF Grounded
    <2>3. \A g \in out.regions : Grounded(r, g)
        BY <1>3, <2>1 DEF Computed
    <2>4. ASSUME NEW m \in Node
          PROVE  /\ outs'[r][m].tag = "absent" => outs'[r][m].regions = {}
                 /\ results'[r][m].tag = "absent" => results'[r][m].regions = {}
                 /\ IsFiniteSet(outs'[r][m].regions) /\ IsFiniteSet(results'[r][m].regions)
                 /\ \A g \in outs'[r][m].regions \cup results'[r][m].regions :
                       Grounded(r, g)'
        BY <1>3, <1>4, <2>1, <2>2, <2>3 DEF Computed
    <2>5. ASSUME NEW m \in layer[r], plan[r].kind[m] = "VALIDATE",
                 outs'[r][m].tag # "absent"
          PROVE  outs'[r][m] = ValidateOutcome(plan[r], req[r], results[r], m)
        <3>1. m \in Node
            BY DEF IInv, TypeOK
        <3> QED BY <1>3, <1>4, <2>1, <2>5, <3>1 DEF Computed
    <2>6. \A m \in Finished(r) :
             /\ results[r][m].tag # "violation"
             /\ plan[r].kind[m] = "VALIDATE" =>
                   results[r][m] = ValidateOutcome(plan[r], req[r], results[r], m)
        BY <2>1 DEF Computed
    <2> QED BY <1>5, <2>4, <2>5, <2>6 DEF Computed
<1> QED BY <1>3, <1>4, <1>5, <1>6

LEMMA RunNodeStep ==
    ASSUME IInv, NEW r \in Run, NEW n \in Node, RunNode(r, n)
    PROVE  IInv'
<1>1. /\ pc[r] = "executing" /\ n \in layer[r] /\ n \notin fetching[r]
      /\ outs[r][n].tag = "absent"
      /\ tools' = [tools EXCEPT ![r] = @ + 1]
      /\ UNCHANGED <<req, pc, plan, layer, fetching, results, tokens, late, answer, queue>>
    BY DEF RunNode, Unstarted
<1>2. PICK out \in Outcomes(plan[r], req[r], results[r], n) :
         outs' = [outs EXCEPT ![r][n] = out]
    BY DEF RunNode
<1>3. /\ outs' \in [Run -> [Node -> Result]]
      /\ outs'[r][n].tag # "absent"
      /\ \A m \in Node \ {n} : outs'[r][m] = outs[r][m]
      /\ \A x \in Run \ {r} : outs'[x] = outs[x]
      /\ Finished(r)' = Finished(r)
      /\ Computed(r)'
    BY <1>1, <1>2, NodeEnds
<1>4. TypeOK'
    <2>1. tools' \in [Run -> Nat]
        BY <1>1 DEF IInv, TypeOK
    <2> QED BY <1>1, <1>3, <2>1 DEF IInv, TypeOK
<1>5. OneRowEach'
    BY <1>1 DEF IInv, OneRowEach
<1>6. \A x \in Run \ {r} : SameWork(x) /\ SameEnd(x)
    BY <1>1, <1>3 DEF SameWork, SameEnd, IInv, TypeOK
<1>7. Scheduled(r)'
    <2>1. Scheduled(r) /\ layer[r] \in SUBSET Node
        BY DEF IInv, RunInv, TypeOK
    <2> QED BY <1>1, <1>3, <2>1 DEF Scheduled
<1>8. Charged(r)'
    <2>1. n \notin Started(r) /\ Started(r)' = Started(r) \cup {n}
        BY <1>1, <1>3 DEF Started
    <2>2. Cardinality(Started(r)') = Cardinality(Started(r)) + 1
        BY <1>1, <2>1, UnstartedFacts, FS_AddElement
    <2>3. Charged(r) /\ tools'[r] = tools[r] + 1
        BY <1>1 DEF IInv, RunInv, TypeOK
    <2>4. Cardinality(Started(r)) \in Nat /\ Cardinality(Finished(r)) \in Nat
        BY <1>1, UnstartedFacts
    <2> QED BY <1>1, <1>3, <2>2, <2>3, <2>4 DEF Charged
<1>9. Concluded(r)'
    BY <1>1 DEF IInv, RunInv, Concluded
<1> QED BY <1>3, <1>4, <1>5, <1>6, <1>7, <1>8, <1>9, StepOfOneRun DEF RunInv

LEMMA StartRetrieveStep ==
    ASSUME IInv, NEW r \in Run, NEW n \in Node, StartRetrieve(r, n)
    PROVE  IInv'
<1>1. /\ pc[r] = "executing" /\ n \in layer[r] /\ n \notin fetching[r]
      /\ outs[r][n].tag = "absent"
      /\ tools' = [tools EXCEPT ![r] = @ + 1]
      /\ fetching' = [fetching EXCEPT ![r] = @ \cup {n}]
      /\ UNCHANGED <<req, pc, plan, layer, outs, results, tokens, late, answer, queue>>
    BY DEF StartRetrieve, Unstarted
<1>2. fetching'[r] = fetching[r] \cup {n}
    BY <1>1 DEF IInv, TypeOK
<1>3. TypeOK'
    BY <1>1 DEF IInv, TypeOK
<1>4. OneRowEach'
    BY <1>1 DEF IInv, OneRowEach
<1>5. \A x \in Run \ {r} : SameWork(x) /\ SameEnd(x)
    BY <1>1 DEF SameWork, SameEnd, IInv, TypeOK
<1>6. Finished(r)' = Finished(r)
    BY <1>1 DEF Finished
<1>7. Scheduled(r)'
    BY <1>1, <1>2, <1>6 DEF IInv, RunInv, Scheduled
<1>8. Computed(r)'
    BY <1>1, <1>6 DEF IInv, RunInv, Computed, Grounded
<1>9. Charged(r)'
    <2>1. n \notin Started(r) /\ Started(r)' = Started(r) \cup {n}
        BY <1>1, <1>2 DEF Started
    <2>2. Cardinality(Started(r)') = Cardinality(Started(r)) + 1
        BY <1>1, <2>1, UnstartedFacts, FS_AddElement
    <2>3. Charged(r) /\ tools'[r] = tools[r] + 1
        BY <1>1 DEF IInv, RunInv, TypeOK
    <2>4. Cardinality(Started(r)) \in Nat /\ Cardinality(Finished(r)) \in Nat
        BY <1>1, UnstartedFacts
    <2> QED BY <1>1, <1>6, <2>2, <2>3, <2>4 DEF Charged
<1>10. Concluded(r)'
    BY <1>1 DEF IInv, RunInv, Concluded
<1> QED BY <1>3, <1>4, <1>5, <1>7, <1>8, <1>9, <1>10, StepOfOneRun DEF RunInv

LEMMA FinishRetrieveStep ==
    ASSUME IInv, NEW r \in Run, NEW n \in Node, FinishRetrieve(r, n)
    PROVE  IInv'
<1>1. /\ n \in fetching[r]
      /\ fetching' = [fetching EXCEPT ![r] = @ \ {n}]
      /\ UNCHANGED <<req, pc, plan, layer, results, tokens, tools, late, answer, queue>>
    BY DEF FinishRetrieve
<1>2. PICK out \in Outcomes(plan[r], req[r], results[r], n) :
         outs' = [outs EXCEPT ![r][n] = out]
    BY DEF FinishRetrieve
<1>3. /\ pc[r] = "executing" /\ n \in layer[r] /\ outs[r][n].tag = "absent"
      /\ fetching'[r] = fetching[r] \ {n}
    BY <1>1 DEF IInv, RunInv, Scheduled, TypeOK
<1>4. /\ outs' \in [Run -> [Node -> Result]]
      /\ outs'[r][n].tag # "absent"
      /\ \A m \in Node \ {n} : outs'[r][m] = outs[r][m]
      /\ \A x \in Run \ {r} : outs'[x] = outs[x]
      /\ Finished(r)' = Finished(r)
      /\ Computed(r)'
    BY <1>1, <1>2, <1>3, NodeEnds
<1>5. TypeOK'
    BY <1>1, <1>4 DEF IInv, TypeOK
<1>6. OneRowEach'
    BY <1>1 DEF IInv, OneRowEach
<1>7. \A x \in Run \ {r} : SameWork(x) /\ SameEnd(x)
    BY <1>1, <1>4 DEF SameWork, SameEnd, IInv, TypeOK
<1>8. Scheduled(r)'
    <2>1. layer[r] \in SUBSET Node
        BY DEF IInv, TypeOK
    <2> QED BY <1>1, <1>3, <1>4, <2>1 DEF IInv, RunInv, Scheduled
<1>9. Charged(r)'
    <2>1. Started(r)' = Started(r)
        BY <1>1, <1>3, <1>4 DEF Started
    <2> QED BY <1>1, <1>4, <2>1 DEF IInv, RunInv, Charged
<1>10. Concluded(r)'
    BY <1>1, <1>3 DEF IInv, RunInv, Concluded
<1> QED BY <1>4, <1>5, <1>6, <1>7, <1>8, <1>9, <1>10, StepOfOneRun DEF RunInv

(* What the end of a layer does to a run: its nodes are finished, every    *)
(* earlier result is as it was, and the tools that were counted are the    *)
(* nodes that are finished now.                                            *)
LEMMA KeepFacts ==
    ASSUME IInv, NEW r \in Run, LayerDone(r), ~Violated(r), Keep(r),
           UNCHANGED <<req, plan, fetching>>, layer'[r] \in SUBSET Node
    PROVE  /\ outs' \in [Run -> [Node -> Result]] /\ results' \in [Run -> [Node -> Result]]
           /\ \A x \in Run \ {r} : outs'[x] = outs[x] /\ results'[x] = results[x]
           /\ \A n \in Node : outs'[r][n] = Plain("absent")
           /\ Finished(r)' = Finished(r) \cup layer[r]
           /\ Started(r)' = {}
           /\ Computed(r)'
           /\ \A n \in Finished(r)' : DepSet(plan[r], n) \subseteq Finished(r)'
           /\ Finished(r)' \subseteq plan[r].ids
           /\ tools[r] = Cardinality(Finished(r)')
<1> DEFINE F == Finished(r)
           L == layer[r]
<1>1. /\ pc[r] = "executing"
      /\ \A n \in L : outs[r][n].tag # "absent" /\ outs[r][n].tag # "violation"
    BY DEF LayerDone, Violated
<1>2. /\ fetching[r] = {} /\ Started(r) = L
      /\ plan[r] \in PlanSet
      /\ L = NextLayer(plan[r], F)
      /\ F \subseteq plan[r].ids
      /\ L \subseteq plan[r].ids /\ L \cap F = {}
    BY LayerDoneFacts
<1>3. /\ Scheduled(r) /\ Computed(r) /\ Charged(r)
      /\ L \in SUBSET Node
      /\ outs \in [Run -> [Node -> Result]] /\ results \in [Run -> [Node -> Result]]
    BY DEF IInv, RunInv, TypeOK
<1>4. NoResults \in [Node -> Result] /\ \A n \in Node : NoResults[n] = Plain("absent")
    BY DEF NoResults, Plain, Result, Tag
<1>5. /\ outs' \in [Run -> [Node -> Result]]
      /\ outs'[r] = NoResults
      /\ \A x \in Run \ {r} : outs'[x] = outs[x]
    BY <1>3, <1>4 DEF Keep
<1>6. /\ results' \in [Run -> [Node -> Result]]
      /\ \A x \in Run \ {r} : results'[x] = results[x]
      /\ \A n \in L : results'[r][n] = outs[r][n]
      /\ \A n \in Node \ L : results'[r][n] = results[r][n]
    <2> DEFINE res == [n \in Node |-> IF n \in L THEN outs[r][n] ELSE results[r][n]]
    <2>1. results' = [results EXCEPT ![r] = res]
        BY DEF Keep
    <2>2. res \in [Node -> Result]
        BY <1>3
    <2>3. /\ \A n \in L : res[n] = outs[r][n]
          /\ \A n \in Node \ L : res[n] = results[r][n]
        BY <1>3
    <2> HIDE DEF res
    <2> QED BY <1>3, <2>1, <2>2, <2>3
<1> HIDE DEF L
<1>7. Finished(r)' = F \cup L
    BY <1>1, <1>3, <1>6 DEF Finished
<1>8. Started(r)' = {}
    BY <1>2, <1>4, <1>5 DEF Started, Plain
<1>9. \A n \in F \cup L : DepSet(plan[r], n) \subseteq F
    BY <1>2, <1>3 DEF Scheduled, NextLayer
<1>10. Computed(r)'
    <2>1. \A g \in Region : Grounded(r, g) => Grounded(r, g)'
        <3> SUFFICES ASSUME NEW g \in Region, Grounded(r, g),
                            NEW x \in g.of
                     PROVE  results'[r][x].tag = "prism"
            BY DEF Grounded
        <3>1. x \in Node /\ results[r][x].tag = "prism"
            BY DEF Grounded, Region
        <3>2. x \in Node \ L
            BY <1>2, <3>1 DEF Finished
        <3> QED BY <1>6, <3>1, <3>2
    <2>2. ASSUME NEW n \in Node
          PROVE  /\ outs'[r][n].tag = "absent" /\ outs'[r][n].regions = {}
                 /\ results'[r][n].tag = "absent" => results'[r][n].regions = {}
                 /\ IsFiniteSet(outs'[r][n].regions) /\ IsFiniteSet(results'[r][n].regions)
                 /\ \A g \in results'[r][n].regions : g \in Region /\ Grounded(r, g)
        <3>1. outs'[r][n].tag = "absent" /\ outs'[r][n].regions = {}
            BY <1>4, <1>5 DEF Plain
        <3>2. results'[r][n] \in {outs[r][n], results[r][n]} /\ results'[r][n] \in Result
            BY <1>6
        <3>3. results'[r][n].tag = "absent" => results'[r][n].regions = {}
            BY <1>3, <3>2 DEF Computed
        <3>4. \A g \in results'[r][n].regions : g \in Region /\ Grounded(r, g)
            BY <1>3, <3>2 DEF Computed, Result
        <3>5. IsFiniteSet(outs'[r][n].regions) /\ IsFiniteSet(results'[r][n].regions)
            BY <1>3, <3>1, <3>2, FS_EmptySet DEF Computed
        <3> QED BY <3>1, <3>3, <3>4, <3>5
    <2>3. ASSUME NEW n \in F \cup L
          PROVE  /\ results'[r][n].tag # "violation"
                 /\ plan[r].kind[n] = "VALIDATE" =>
                       results'[r][n] = ValidateOutcome(plan[r], req[r], results'[r], n)
        <3>1. \A d \in DepSet(plan[r], n) : results'[r][d] = results[r][d]
            BY <1>2, <1>6, <1>9 DEF Finished
        <3>2. ValidateOutcome(plan[r], req[r], results'[r], n)
                = ValidateOutcome(plan[r], req[r], results[r], n)
            BY <1>2, <3>1, ValidateIsLocal
        <3>3. CASE n \in L
            BY <1>1, <1>3, <1>6, <3>2, <3>3 DEF Computed, L
        <3>4. CASE n \in F
            <4>1. n \in Node \ L
                BY <1>2, <3>4 DEF Finished
            <4> QED BY <1>3, <1>6, <3>2, <3>4, <4>1 DEF Computed
        <3> QED BY <3>3, <3>4
    <2>4. \A n \in layer'[r] : outs'[r][n].tag = "absent"
        BY <2>2
    <2>5. \A n \in Node : \A g \in outs'[r][n].regions \cup results'[r][n].regions :
             Grounded(r, g)'
        BY <2>1, <2>2
    <2> QED BY <1>7, <2>2, <2>3, <2>4, <2>5 DEF Computed
<1>11. tools[r] = Cardinality(F \cup L)
    <2>1. IsFiniteSet(F) /\ IsFiniteSet(L)
        BY <1>2, <1>3, FS_Subset DEF Charged
    <2>2. Cardinality(F) \in Nat /\ Cardinality(L) \in Nat
        BY <2>1, FS_CardinalityType
    <2>3. Cardinality(F \cup L) = Cardinality(F) + Cardinality(L) - Cardinality(F \cap L)
        BY <2>1, FS_Union
    <2>4. Cardinality(F \cap L) = 0
        <3>1. F \cap L = {}
            BY <1>2
        <3> QED BY <3>1, FS_EmptySet
    <2> QED BY <1>2, <1>3, <2>2, <2>3, <2>4 DEF Charged
<1>12. \A n \in Node : outs'[r][n] = Plain("absent")
    BY <1>4, <1>5
<1>13. /\ \A n \in F \cup L : DepSet(plan[r], n) \subseteq F \cup L
       /\ F \cup L \subseteq plan[r].ids
    BY <1>2, <1>9
<1>14. /\ Finished(r)' = Finished(r) \cup layer[r]
       /\ \A n \in Finished(r)' : DepSet(plan[r], n) \subseteq Finished(r)'
       /\ Finished(r)' \subseteq plan[r].ids
       /\ tools[r] = Cardinality(Finished(r)')
    BY <1>7, <1>11, <1>13 DEF L
<1> QED BY <1>5, <1>6, <1>8, <1>10, <1>12, <1>14

LEMMA StopOverBudgetStep ==
    ASSUME IInv, NEW r \in Run, StopOverBudget(r)
    PROVE  IInv'
<1>1. /\ LayerDone(r) /\ ~Violated(r) /\ Keep(r) /\ pc[r] = "executing"
      /\ pc' = [pc EXCEPT ![r] = "over_budget"]
      /\ layer' = [layer EXCEPT ![r] = {}]
      /\ UNCHANGED <<req, plan, fetching, tokens, tools, late, answer, queue>>
    BY DEF StopOverBudget, LayerDone
<1>2. pc'[r] = "over_budget" /\ layer'[r] = {}
    BY <1>1 DEF IInv, TypeOK
<1>3. /\ outs' \in [Run -> [Node -> Result]] /\ results' \in [Run -> [Node -> Result]]
      /\ \A x \in Run \ {r} : outs'[x] = outs[x] /\ results'[x] = results[x]
      /\ \A n \in Node : outs'[r][n] = Plain("absent")
      /\ Started(r)' = {}
      /\ Computed(r)'
      /\ \A n \in Finished(r)' : DepSet(plan[r], n) \subseteq Finished(r)'
      /\ Finished(r)' \subseteq plan[r].ids
      /\ tools[r] = Cardinality(Finished(r)')
    BY <1>1, <1>2, KeepFacts
<1>4. TypeOK'
    BY <1>1, <1>3 DEF IInv, TypeOK, Stage
<1>5. OneRowEach'
    BY <1>1 DEF IInv, OneRowEach
<1>6. \A x \in Run \ {r} : SameWork(x) /\ SameEnd(x)
    BY <1>1, <1>3 DEF SameWork, SameEnd, IInv, TypeOK
<1>7. Scheduled(r)'
    <2>1. fetching[r] = {}
        BY <1>1, LayerDoneFacts
    <2> QED BY <1>1, <1>2, <1>3, <2>1 DEF Scheduled, Plain
<1>8. Charged(r)'
    <2>1. Charged(r) /\ tools[r] \in Nat /\ Cardinality({}) = 0
        BY FS_EmptySet DEF IInv, RunInv, TypeOK
    <2> QED BY <1>1, <1>2, <1>3, <2>1 DEF Charged
<1>9. Concluded(r)'
    BY <1>1, <1>2 DEF IInv, RunInv, Concluded
<1> QED BY <1>3, <1>4, <1>5, <1>6, <1>7, <1>8, <1>9, StepOfOneRun DEF RunInv

LEMMA AdvanceStep ==
    ASSUME IInv, NEW r \in Run, Advance(r)
    PROVE  IInv'
<1> DEFINE next == NextLayer(plan[r], Finished(r) \cup layer[r])
           stage == IF next = {} THEN "summarizing" ELSE "executing"
<1>1. /\ LayerDone(r) /\ ~Violated(r) /\ ~OverBudget(r) /\ Keep(r) /\ pc[r] = "executing"
      /\ pc' = [pc EXCEPT ![r] = stage]
      /\ layer' = [layer EXCEPT ![r] = next]
      /\ UNCHANGED <<req, plan, fetching, tokens, tools, late, answer, queue>>
    BY DEF Advance, LayerDone
<1>2. /\ fetching[r] = {}
      /\ plan[r] \in PlanSet
    BY <1>1, LayerDoneFacts
<1>3. next \in SUBSET Node
    BY <1>2, PlansAreExecutable DEF IsPlan, NextLayer
<1>4. pc'[r] = stage /\ layer'[r] = next
    BY <1>1 DEF IInv, TypeOK
<1> HIDE DEF next
<1>5. /\ outs' \in [Run -> [Node -> Result]] /\ results' \in [Run -> [Node -> Result]]
      /\ \A x \in Run \ {r} : outs'[x] = outs[x] /\ results'[x] = results[x]
      /\ \A n \in Node : outs'[r][n] = Plain("absent")
      /\ Finished(r)' = Finished(r) \cup layer[r]
      /\ Started(r)' = {}
      /\ Computed(r)'
      /\ \A n \in Finished(r)' : DepSet(plan[r], n) \subseteq Finished(r)'
      /\ Finished(r)' \subseteq plan[r].ids
      /\ tools[r] = Cardinality(Finished(r)')
    BY <1>1, <1>3, <1>4, KeepFacts
<1>6. TypeOK'
    BY <1>1, <1>3, <1>5 DEF IInv, TypeOK, Stage
<1>7. OneRowEach'
    BY <1>1 DEF IInv, OneRowEach
<1>8. \A x \in Run \ {r} : SameWork(x) /\ SameEnd(x)
    BY <1>1, <1>5 DEF SameWork, SameEnd, IInv, TypeOK
<1>9. Scheduled(r)'
    <2>1. next = NextLayer(plan[r], Finished(r)')
        BY <1>5 DEF next
    <2>2. plan'[r] = plan[r] /\ fetching'[r] = {}
        BY <1>1, <1>2
    <2>3. \A n \in Node : outs'[r][n].tag = "absent"
        BY <1>5 DEF Plain
    <2>4. /\ pc'[r] \in {"summarizing", "executing"}
          /\ pc'[r] = "summarizing" => layer'[r] = {}
        BY <1>4
    <2> QED BY <1>2, <1>4, <1>5, <2>1, <2>2, <2>3, <2>4 DEF Scheduled
<1>10. Charged(r)'
    <2>1. Charged(r) /\ tools[r] \in Nat /\ Cardinality({}) = 0
        BY FS_EmptySet DEF IInv, RunInv, TypeOK
    <2>2. tools[r] <= req[r].maxTools /\ tokens[r] <= req[r].maxTokens
        <3>1. /\ tools[r] \in Nat /\ tokens[r] \in Nat
              /\ req[r].maxTools \in Nat /\ req[r].maxTokens \in Nat
            BY RequestsAreTyped DEF IInv, TypeOK, IsRequest
        <3> QED BY <1>1, <3>1 DEF OverBudget
    <2> QED BY <1>1, <1>4, <1>5, <2>1, <2>2 DEF Charged
<1>11. Concluded(r)'
    BY <1>1, <1>4 DEF IInv, RunInv, Concluded
<1> QED BY <1>5, <1>6, <1>7, <1>8, <1>9, <1>10, <1>11, StepOfOneRun DEF RunInv

LEMMA SummaryArrivesStep ==
    ASSUME IInv, NEW r \in Run,
           NEW t \in SummaryCost(req[r].maxTokens - tokens[r]), SummaryArrives(r, t)
    PROVE  IInv'
<1> PICK conf \in Confidences(plan[r], RegionsOf(r)) :
       /\ EnqueueIf(NeedsReview(conf), r)
       /\ IF Built(conf)
          THEN /\ answer' = [answer EXCEPT ![r] = [regions |-> CollectRegions(r),
                                                  confidence |-> conf,
                                                  flagged |-> NeedsReview(conf)]]
               /\ pc' = [pc EXCEPT ![r] = "answered"]
          ELSE pc' = [pc EXCEPT ![r] = "failed"] /\ UNCHANGED answer
    BY DEF SummaryArrives
<1> DEFINE full == [regions |-> CollectRegions(r), confidence |-> conf,
                    flagged |-> NeedsReview(conf)]
<1>1. /\ pc[r] = "summarizing"
      /\ tokens' = [tokens EXCEPT ![r] = @ + t]
      /\ queue' = IF NeedsReview(conf) THEN Enqueued(queue, r) ELSE queue
      /\ \/ /\ Built(conf)
            /\ answer' = [answer EXCEPT ![r] = full]
            /\ pc' = [pc EXCEPT ![r] = "answered"]
         \/ /\ pc' = [pc EXCEPT ![r] = "failed"]
            /\ UNCHANGED answer
      /\ UNCHANGED <<req, plan, layer, fetching, outs, results, tools, late>>
    BY DEF SummaryArrives, Summarize, EnqueueIf
<1>2. /\ Scheduled(r) /\ Computed(r) /\ Charged(r) /\ Concluded(r)
      /\ tokens[r] \in Nat /\ req[r].maxTokens \in Nat
      /\ plan[r] \in PlanSet /\ IsPlan(plan[r]) /\ tokens[r] <= req[r].maxTokens
    <2>1. Scheduled(r) /\ Computed(r) /\ Charged(r) /\ Concluded(r)
        BY DEF IInv, RunInv
    <2> QED BY <1>1, <2>1, RequestsAreTyped, PlansAreExecutable
            DEF IInv, TypeOK, IsRequest, Scheduled, Charged
<1>3. /\ t \in Nat
      /\ \E i \in PromptTokens : t <= i + (req[r].maxTokens - tokens[r]) \/ t <= i + AnswerFloor
    <2>1. req[r].maxTokens - tokens[r] \in Nat
        BY <1>2
    <2> QED BY <2>1, SummaryBound
<1>4. NeedsReview(conf) \in BOOLEAN
    BY DEF NeedsReview
<1>5. CollectRegions(r) \in SUBSET Region
    <2>1. \A n \in plan[r].ids : results[r][n].regions \in SUBSET Region
        BY <1>2 DEF IInv, TypeOK, IsPlan, Result
    <2> QED BY <2>1 DEF CollectRegions, RegionsOf
<1>6. OneRowEach' /\ queue'.seen = IF NeedsReview(conf) THEN queue.seen \cup {r} ELSE queue.seen
    <2>1. OneRowEach
        BY DEF IInv
    <2> QED BY <1>1, <1>4, <2>1, EnqueueKeepsRows
<1>7. tokens' \in [Run -> Nat] /\ tokens'[r] = tokens[r] + t
    BY <1>1, <1>3 DEF IInv, TypeOK
<1>8. \/ /\ Built(conf)
         /\ answer' = [answer EXCEPT ![r] = full]
         /\ answer'[r] = full
         /\ answer' \in [Run -> [regions : SUBSET Region, confidence : Percent,
                                 flagged : BOOLEAN]]
         /\ pc'[r] = "answered"
      \/ UNCHANGED answer /\ pc'[r] = "failed"
    <2>1. Built(conf) => full \in [regions : SUBSET Region, confidence : Percent,
                                   flagged : BOOLEAN]
        BY <1>4, <1>5 DEF Built, WellFormed
    <2> HIDE DEF full
    <2> QED BY <1>1, <2>1 DEF IInv, TypeOK
<1>9. TypeOK'
    <2>1. pc' \in [Run -> Stage]
        BY <1>1 DEF IInv, TypeOK, Stage
    <2>2. answer' \in [Run -> [regions : SUBSET Region, confidence : Percent,
                              flagged : BOOLEAN]]
        BY <1>8 DEF IInv, TypeOK
    <2>3. queue'.mem \in Seq(Run) /\ queue'.seen \subseteq Run
        BY <1>6 DEF OneRowEach, KeepsRows
    <2> QED BY <1>1, <1>7, <2>1, <2>2, <2>3 DEF IInv, TypeOK
<1>10. \A x \in Run \ {r} : SameWork(x) /\ SameEnd(x)
    <2>1. \A x \in Run \ {r} : SameWork(x)
        BY <1>1 DEF SameWork
    <2>2. \A x \in Run \ {r} : answer'[x] = answer[x] /\ pc'[x] = pc[x]
        BY <1>1 DEF IInv, TypeOK
    <2>3. \A x \in Run \ {r} : tokens'[x] = tokens[x]
        BY <1>1 DEF IInv, TypeOK
    <2>4. \A x \in Run \ {r} : (x \in queue'.seen) = (x \in queue.seen)
        BY <1>6
    <2> QED BY <2>1, <2>2, <2>3, <2>4 DEF SameEnd
<1>11. SameWork(r)
    BY <1>1 DEF SameWork
<1>12. /\ Finished(r)' = Finished(r) /\ Started(r)' = Started(r) /\ Computed(r)'
       /\ CollectRegions(r)' = CollectRegions(r)
       /\ RegionsOf(r)' = RegionsOf(r)
    BY <1>2, <1>11, FrameWork
<1>13. Scheduled(r)'
    BY <1>1, <1>2, <1>8, <1>12 DEF Scheduled
<1>14. Charged(r)'
    <2>1. PICK i \in PromptTokens :
             t <= i + (req[r].maxTokens - tokens[r]) \/ t <= i + AnswerFloor
        BY <1>3
    <2>2. i \in Nat /\ AnswerFloor \in Nat
        BY CostsAreNat
    <2>3. tokens[r] + t <= req[r].maxTokens + i + AnswerFloor
        BY <1>2, <1>3, <2>1, <2>2
    <2> QED BY <1>1, <1>2, <1>7, <1>8, <1>12, <2>3 DEF Charged
<1>15. Concluded(r)'
    <2>1. r \notin queue.seen /\ answer[r] = NoAnswer
        BY <1>1, <1>2 DEF Concluded
    <2>2. plan'[r] = plan[r]
        BY <1>1
    <2> QED BY <1>4, <1>6, <1>8, <1>12, <2>1, <2>2 DEF Concluded
<1> QED BY <1>6, <1>9, <1>10, <1>12, <1>13, <1>14, <1>15, StepOfOneRun DEF RunInv

LEMMA StutterStep ==
    ASSUME IInv, UNCHANGED vars
    PROVE  IInv'
<1> USE DEF vars
<1>1. TypeOK'
    BY DEF IInv, TypeOK
<1>2. OneRowEach'
    BY DEF IInv, OneRowEach
<1>3. \A x \in Run : SameWork(x) /\ SameEnd(x)
    BY DEF SameWork, SameEnd
<1>4. ASSUME NEW x \in Run PROVE RunInv(x)'
    BY <1>3, Frame DEF IInv
<1> QED BY <1>1, <1>2, <1>4 DEF IInv

LEMMA NextIInv == IInv /\ [Next]_vars => IInv'
<1> SUFFICES ASSUME IInv, [Next]_vars PROVE IInv'
    OBVIOUS
<1>1. CASE UNCHANGED vars
    BY <1>1, StutterStep
<1>2. CASE Next
    <2> PICK r \in Run :
            \/ Accept(r) \/ Reject(r) \/ Planning(r) \/ Executing(r)
            \/ \E n \in Node : FinishRetrieve(r, n)
            \/ Summarizing(r) \/ TimePasses(r)
        BY <1>2 DEF Next
    <2>1. CASE Accept(r) \/ Reject(r)
        BY <2>1, GuardSteps
    <2>2. CASE Planning(r)
        <3>1. CASE PlanningFails(r)
            BY <3>1, PlanningFailsStep
        <3>2. CASE \E p \in PlanSet, t \in PlanTokens : PlanArrives(r, p, t)
            BY <3>2, PlanArrivesStep
        <3> QED BY <2>2, <3>1, <3>2 DEF Planning
    <2>3. CASE Executing(r)
        <3>1. CASE \E n \in Node : RunNode(r, n) \/ StartRetrieve(r, n)
            BY <3>1, RunNodeStep, StartRetrieveStep
        <3>2. CASE RaiseViolation(r)
            BY <3>2, RaiseViolationStep
        <3>3. CASE StopOverBudget(r)
            BY <3>3, StopOverBudgetStep
        <3>4. CASE Advance(r)
            BY <3>4, AdvanceStep
        <3> QED BY <2>3, <3>1, <3>2, <3>3, <3>4 DEF Executing
    <2>4. CASE \E n \in Node : FinishRetrieve(r, n)
        BY <2>4, FinishRetrieveStep
    <2>5. CASE Summarizing(r)
        <3>1. CASE SummaryFails(r)
            BY <3>1, SummaryFailsStep
        <3>2. CASE \E t \in SummaryCost(req[r].maxTokens - tokens[r]) : SummaryArrives(r, t)
            BY <3>2, SummaryArrivesStep
        <3> QED BY <2>5, <3>1, <3>2 DEF Summarizing
    <2>6. CASE TimePasses(r)
        BY <2>6, TimePassesStep
    <2> QED BY <2>1, <2>2, <2>3, <2>4, <2>5, <2>6
<1> QED BY <1>1, <1>2

THEOREM Invariance == Spec => []IInv
BY InitIInv, NextIInv, PTL DEF Spec

-----------------------------------------------------------------------------
(***************************************************************************)
(* What the reader should know.                                            *)
(***************************************************************************)

(* Every state of every run is well typed; above all the answer, whose     *)
(* confidence comes from numbers an LLM chose.                             *)
THEOREM TypeCorrect == Spec => []TypeOK
<1>1. IInv => TypeOK
    BY DEF IInv
<1> QED BY <1>1, Invariance, PTL

(* However many runs interleave, gather() starts a node only when every    *)
(* result it may read is there.                                            *)
THEOREM DependenciesFirst == Spec => []DepsBeforeNode
<1>1. IInv => DepsBeforeNode
    <2> SUFFICES ASSUME IInv, NEW r \in Run, NEW n \in Started(r) \cup Finished(r)
                 PROVE  n \in plan[r].ids /\ DepSet(plan[r], n) \subseteq Finished(r)
        BY DEF DepsBeforeNode
    <2>1. Scheduled(r)
        BY DEF IInv, RunInv
    <2>2. CASE n \in Started(r)
        <3>1. n \in NextLayer(plan[r], Finished(r))
            BY <2>1, <2>2 DEF Started, Scheduled
        <3> QED BY <3>1 DEF NextLayer
    <2>3. CASE n \in Finished(r)
        BY <2>1, <2>3 DEF Scheduled
    <2> QED BY <2>2, <2>3
<1> QED BY <1>1, Invariance, PTL

(* The tool count is the number of nodes started, each of them once. *)
THEOREM EachNodeOnce == Spec => []NodesRunOnce
<1>1. IInv => NodesRunOnce
    <2> SUFFICES ASSUME IInv, NEW r \in Run
                 PROVE  /\ Started(r) \cap Finished(r) = {}
                        /\ tools[r] = Cardinality(Started(r)) + Cardinality(Finished(r))
        BY DEF NodesRunOnce
    <2>1. Scheduled(r) /\ Charged(r)
        BY DEF IInv, RunInv
    <2>2. Started(r) \subseteq NextLayer(plan[r], Finished(r))
        BY <2>1 DEF Started, Scheduled
    <2> QED BY <2>1, <2>2 DEF NextLayer, Charged
<1> QED BY <1>1, Invariance, PTL

(* No run goes on past a limit, and an answer exceeds max_tokens by less   *)
(* than one call of the summarizer, at any prices.                         *)
THEOREM BudgetHolds == Spec => []BudgetGate
<1>1. IInv => BudgetGate
    BY DEF IInv, RunInv, Charged, BudgetGate
<1> QED BY <1>1, Invariance, PTL

(* Every node of the plan of an answered run has left a result. *)
LEMMA AnsweredIsComplete ==
    ASSUME IInv, NEW r \in Run, pc[r] \in {"summarizing", "answered"}
    PROVE  Finished(r) = plan[r].ids
<1>1. Scheduled(r)
    BY DEF IInv, RunInv
<1>2. /\ IsPlan(plan[r])
      /\ NextLayer(plan[r], Finished(r)) = {}
      /\ Finished(r) \in SUBSET plan[r].ids
    BY <1>1, PlansAreExecutable DEF Scheduled
<1> QED BY <1>2, AllPlaced

(* A violation the validator saw is never answered over: a node cannot     *)
(* have been skipped, and a result it read cannot have changed since.      *)
THEOREM ViolationWins == Spec => []ViolationDominates
<1>1. IInv => ViolationDominates
    <2> SUFFICES ASSUME IInv, NEW r \in Run, pc[r] = "answered", ~req[r].reachable,
                        NEW n \in plan[r].ids, plan[r].kind[n] = "VALIDATE"
                 PROVE  ~ReachesValidator(plan[r], results[r], n)
        BY DEF ViolationDominates
    <2>1. n \in Finished(r)
        BY AnsweredIsComplete
    <2>2. /\ results[r][n].tag # "violation"
          /\ results[r][n] = ValidateOutcome(plan[r], req[r], results[r], n)
        BY <2>1 DEF IInv, RunInv, Computed
    <2> QED BY <2>2 DEF ValidateOutcome, Plain
<1> QED BY <1>1, Invariance, PTL

(* Every region of an answer comes from prisms of the same run. *)
THEOREM Provenance == Spec => []AnswerHasProvenance
<1>1. IInv => AnswerHasProvenance
    <2> SUFFICES ASSUME IInv, NEW r \in Run, pc[r] = "answered"
                 PROVE  /\ Finished(r) = plan[r].ids
                        /\ \A g \in answer[r].regions : Grounded(r, g)
        BY DEF AnswerHasProvenance, Grounded
    <2>1. Finished(r) = plan[r].ids
        BY AnsweredIsComplete
    <2>2. ASSUME NEW g \in answer[r].regions PROVE Grounded(r, g)
        <3>1. g \in CollectRegions(r)
            BY DEF IInv, RunInv, Concluded
        <3>2. PICK n \in plan[r].ids : g \in results[r][n].regions
            BY <3>1 DEF CollectRegions, RegionsOf
        <3>3. n \in Node
            BY <2>1, <3>2 DEF Finished
        <3> QED BY <3>2, <3>3 DEF IInv, RunInv, Computed
    <2> QED BY <2>1, <2>2
<1> QED BY <1>1, Invariance, PTL

(* The results of an answered run are what its mean is made of. *)
LEMMA AnswerIsFinite ==
    ASSUME IInv, NEW r \in Run, pc[r] = "answered"
    PROVE  /\ IsPlan(plan[r])
           /\ RegionsOf(r) \in [plan[r].ids -> SUBSET Region]
           /\ \A n \in plan[r].ids : IsFiniteSet(RegionsOf(r)[n])
<1>1. plan[r] \in PlanSet /\ results[r] \in [Node -> Result]
    BY DEF IInv, RunInv, Scheduled, TypeOK
<1>2. IsPlan(plan[r]) /\ plan[r].ids \subseteq Node
    BY <1>1, PlansAreExecutable DEF IsPlan
<1>3. RegionsOf(r) \in [plan[r].ids -> SUBSET Region]
    BY <1>1, <1>2 DEF RegionsOf, Result
<1>4. \A n \in plan[r].ids : IsFiniteSet(RegionsOf(r)[n])
    BY <1>2 DEF IInv, RunInv, Computed, RegionsOf
<1> QED BY <1>2, <1>3, <1>4

(* hitl_required never lies: the row exists for every unsure answer and    *)
(* for no sure one, up to the rounding of a mean at the threshold.         *)
THEOREM ReviewIsExact == Spec => []ReviewedIffUnsure
<1>1. IInv => ReviewedIffUnsure
    <2> SUFFICES ASSUME IInv, NEW r \in Run
                 PROVE  /\ Cardinality(Rows(queue, r)) <= 1
                        /\ pc[r] = "answered" =>
                              /\ Unsure(Mean(plan[r], RegionsOf(r))) => answer[r].flagged
                              /\ Sure(Mean(plan[r], RegionsOf(r))) => ~answer[r].flagged
                              /\ answer[r].flagged = (Cardinality(Rows(queue, r)) = 1)
                        /\ Cardinality(Rows(queue, r)) = 1 => pc[r] \in {"answered", "failed"}
        BY DEF ReviewedIffUnsure
    <2>1. Concluded(r)
        BY DEF IInv, RunInv
    <2>2. /\ r \in queue.seen => Cardinality(Rows(queue, r)) = 1
          /\ r \notin queue.seen => Cardinality(Rows(queue, r)) = 0
        BY AtMostOneRow DEF IInv, OneRowEach
    <2>3. ASSUME pc[r] = "answered"
          PROVE  /\ Unsure(Mean(plan[r], RegionsOf(r))) => answer[r].flagged
                 /\ Sure(Mean(plan[r], RegionsOf(r))) => ~answer[r].flagged
        <3>1. /\ answer[r].confidence \in Confidences(plan[r], RegionsOf(r))
              /\ answer[r].flagged = (answer[r].confidence < Threshold)
            BY <2>1, <2>3 DEF Concluded, NeedsReview
        <3>2. /\ IsPlan(plan[r])
              /\ RegionsOf(r) \in [plan[r].ids -> SUBSET Region]
              /\ \A n \in plan[r].ids : IsFiniteSet(RegionsOf(r)[n])
            BY <2>3, AnswerIsFinite
        <3>3. PICK m, d, c : /\ m = Mean(plan[r], RegionsOf(r)).num
                             /\ d = Mean(plan[r], RegionsOf(r)).den
                             /\ c = answer[r].confidence
            OBVIOUS
        <3>4. m \in Int /\ d \in Nat \ {0} /\ Threshold \in Nat /\ Threshold * d \in Int
            BY <3>2, <3>3, MeanType, CostsAreNat
        <3>5. c \in Int
            BY <3>1, <3>2, <3>3, ConfidenceType
        <3>6. /\ c < Threshold => m <= Threshold * d \/ Threshold > 99
              /\ c >= Threshold => m >= Threshold * d /\ Threshold <= 99
            BY <3>1, <3>2, <3>3, <3>4, ConfidenceSides
        <3>7. /\ Unsure(Mean(plan[r], RegionsOf(r))) => c < Threshold
              /\ Sure(Mean(plan[r], RegionsOf(r))) => ~(c < Threshold)
            BY <3>3, <3>4, <3>5, <3>6 DEF Unsure, Sure
        <3> QED BY <3>1, <3>3, <3>7
    <2> QED BY <2>1, <2>2, <2>3 DEF Concluded
<1> QED BY <1>1, Invariance, PTL

-----------------------------------------------------------------------------
(***************************************************************************)
(* The runs of a process implement QueryRun.  What QueryRun sees of a step *)
(* is what the run that takes it shows: its phase, whether its validator   *)
(* raised, whether its answer is flagged, and the review queue.            *)
(***************************************************************************)
Raised(r) == \E n \in Node : outs[r][n].tag = "violation"

Shows(r, phase, raised, flagged) ==
    Phase(r) = phase /\ Raised(r) = raised /\ answer[r].flagged = flagged

OthersStay(r) ==
    \A x \in Run \ {r} : pc'[x] = pc[x] /\ outs'[x] = outs[x] /\ answer'[x] = answer[x]

LEMMA PhaseChanges ==
    ASSUME NEW r \in Run, OthersStay(r), NEW p, Phase(r)' = p
    PROVE  [x \in Run |-> Phase(x)]' = [[x \in Run |-> Phase(x)] EXCEPT ![r] = p]
<1>1. \A x \in Run \ {r} : Phase(x)' = Phase(x)
    BY DEF OthersStay, Phase
<1> QED BY <1>1

LEMMA RaisedGrows ==
    ASSUME NEW r \in Run, OthersStay(r), Raised(r)'
    PROVE  {x \in Run : Raised(x)}' = {x \in Run : Raised(x)} \cup {r}
<1>1. \A x \in Run \ {r} : Raised(x)' = Raised(x)
    BY DEF OthersStay, Raised
<1> QED BY <1>1

LEMMA FlaggedGrows ==
    ASSUME NEW r \in Run, OthersStay(r), answer'[r].flagged
    PROVE  {x \in Run : answer[x].flagged}' = {x \in Run : answer[x].flagged} \cup {r}
BY DEF OthersStay

(* A step QueryRun does not see. *)
LEMMA Silent ==
    ASSUME NEW r \in Run, OthersStay(r), queue'.seen = queue.seen,
           NEW p, NEW v \in BOOLEAN, NEW f \in BOOLEAN,
           Shows(r, p, v, f), Shows(r, p, v, f)'
    PROVE  UNCHANGED Promise!vars
<1>1. \A x \in Run : /\ Phase(x)' = Phase(x) /\ Raised(x)' = Raised(x)
                     /\ answer'[x].flagged = answer[x].flagged
    BY DEF OthersStay, Shows, Phase, Raised
<1> QED BY <1>1 DEF Promise!vars, Raised

(* A run that is stopped without a review. *)
LEMMA AbstractStop ==
    ASSUME NEW r \in Run, OthersStay(r), queue'.seen = queue.seen,
           NEW p \in {"new", "running"}, NEW v \in BOOLEAN, NEW f \in BOOLEAN,
           Shows(r, p, v, f), Shows(r, "stopped", v, f)'
    PROVE  Promise!Next
<1>1. /\ Phase(r) = p
      /\ [x \in Run |-> Phase(x)]' = [[x \in Run |-> Phase(x)] EXCEPT ![r] = "stopped"]
    BY PhaseChanges DEF Shows
<1>2. \A x \in Run : Raised(x)' = Raised(x) /\ answer'[x].flagged = answer[x].flagged
    BY DEF OthersStay, Shows, Raised
<1>3. Promise!Stop(r, FALSE)
    BY <1>1, <1>2 DEF Promise!Stop, Raised
<1> QED BY <1>3 DEF Promise!Next

(* A step that changes neither the outcomes nor the answer of its run      *)
(* shows at most a new phase.                                              *)
LEMMA ShowsPhase ==
    ASSUME IInv, NEW r \in Run, outs'[r] = outs[r], answer'[r] = answer[r]
    PROVE  \E p, q : \E v, f \in BOOLEAN :
              /\ p = Phase(r) /\ q = Phase(r)'
              /\ Shows(r, p, v, f) /\ Shows(r, q, v, f)'
<1>1. PICK p, q, v, f : p = Phase(r) /\ q = Phase(r)' /\ v = Raised(r) /\ f = answer[r].flagged
    OBVIOUS
<1>2. v \in BOOLEAN /\ f \in BOOLEAN
    BY <1>1 DEF Raised, IInv, TypeOK
<1>3. Shows(r, p, v, f)
    BY <1>1 DEF Shows
<1>4. Shows(r, q, v, f)'
    BY <1>1 DEF Shows, Raised
<1> QED BY <1>1, <1>2, <1>3, <1>4

LEMMA PromiseStageStep ==
    ASSUME IInv, NEW r \in Run,
           \/ Accept(r) \/ Reject(r) \/ TimePasses(r) \/ SummaryFails(r) \/ RaiseViolation(r)
           \/ PlanningFails(r)
           \/ \E p \in PlanSet, t \in PlanTokens : PlanArrives(r, p, t)
    PROVE  [Promise!Next]_(Promise!vars)
<1>1. /\ outs' = outs /\ answer' = answer /\ queue' = queue
      /\ \A x \in Run \ {r} : pc'[x] = pc[x]
    <2> USE DEF Accept, Reject, TimePasses, SummaryFails, RaiseViolation, PlanningFails,
                PlanArrives
    <2>1. outs' = outs /\ answer' = answer /\ queue' = queue
        OBVIOUS
    <2>2. pc' = pc \/ \E s : pc' = [pc EXCEPT ![r] = s]
        OBVIOUS
    <2>3. \A x \in Run \ {r} : pc'[x] = pc[x]
        BY <2>2 DEF IInv, TypeOK
    <2> QED BY <2>1, <2>3
<1>2. OthersStay(r)
    BY <1>1 DEF OthersStay
<1>3. PICK p, q, v, f :
         /\ v \in BOOLEAN /\ f \in BOOLEAN /\ p = Phase(r) /\ q = Phase(r)'
         /\ Shows(r, p, v, f) /\ Shows(r, q, v, f)'
    BY <1>1, ShowsPhase
<1>4. \/ q = p
      \/ p = "new" /\ q = "running"
      \/ p \in {"new", "running"} /\ q = "stopped"
    <2>1. \/ pc'[r] = pc[r]
          \/ pc[r] = "new" /\ pc'[r] \in {"planning", "rejected"}
          \/ pc[r] \in {"planning", "executing", "summarizing"} /\ pc'[r] \in Stage \ {"new", "answered"}
        BY DEF IInv, TypeOK, Accept, Reject, TimePasses, SummaryFails, RaiseViolation,
               LayerDone, PlanningFails, PlanArrives, Stage
    <2> QED BY <1>3, <2>1 DEF Phase, Stage
<1>5. CASE q = p
    BY <1>1, <1>2, <1>3, <1>5, Silent
<1>6. CASE p = "new" /\ q = "running"
    <2>1. [x \in Run |-> Phase(x)]' = [[x \in Run |-> Phase(x)] EXCEPT ![r] = "running"]
        BY <1>2, <1>3, <1>6, PhaseChanges
    <2>2. \A x \in Run : Raised(x)' = Raised(x)
        BY <1>1 DEF Raised
    <2>3. Promise!Begin(r)
        BY <1>1, <1>3, <1>6, <2>1, <2>2 DEF Promise!Begin, Raised
    <2> QED BY <2>3 DEF Promise!Next
<1>7. CASE p \in {"new", "running"} /\ q = "stopped"
    BY <1>1, <1>2, <1>3, <1>7, AbstractStop
<1> QED BY <1>4, <1>5, <1>6, <1>7

(* A validator may raise in the step that ends its node. *)
LEMMA PromiseNodeStep ==
    ASSUME IInv, NEW r \in Run, NEW n \in Node,
           RunNode(r, n) \/ StartRetrieve(r, n) \/ FinishRetrieve(r, n)
    PROVE  [Promise!Next]_(Promise!vars)
<1>1. pc' = pc /\ answer' = answer /\ queue' = queue /\ pc[r] = "executing"
    BY DEF RunNode, StartRetrieve, FinishRetrieve, IInv, RunInv, Scheduled
<1>2. outs' = outs \/ \E out : outs' = [outs EXCEPT ![r][n] = out]
    BY DEF RunNode, StartRetrieve, FinishRetrieve
<1>3. outs[r][n].tag = "absent"
    BY DEF RunNode, StartRetrieve, FinishRetrieve, Unstarted, IInv, RunInv, Scheduled
<1>4. /\ \A x \in Run \ {r} : outs'[x] = outs[x]
      /\ \A m \in Node \ {n} : outs'[r][m] = outs[r][m]
    BY <1>2 DEF IInv, TypeOK
<1>5. OthersStay(r)
    BY <1>1, <1>4 DEF OthersStay
<1>6. PICK v, w, f : /\ v = Raised(r) /\ w = Raised(r)' /\ f = answer[r].flagged
    OBVIOUS
<1>7. /\ v \in BOOLEAN /\ w \in BOOLEAN /\ f \in BOOLEAN
      /\ Shows(r, "running", v, f) /\ Shows(r, "running", w, f)'
    BY <1>1, <1>6 DEF Shows, Phase, Raised, IInv, TypeOK
<1>8. v => w
    BY <1>3, <1>4, <1>6 DEF Raised
<1>9. CASE w = v
    BY <1>1, <1>5, <1>7, <1>9, Silent
<1>10. CASE ~v /\ w
    <2>1. /\ [x \in Run |-> Phase(x)]' = [x \in Run |-> Phase(x)]
          /\ {x \in Run : Raised(x)}' = {x \in Run : Raised(x)} \cup {r}
          /\ {x \in Run : answer[x].flagged}' = {x \in Run : answer[x].flagged}
        <3>1. {x \in Run : Raised(x)}' = {x \in Run : Raised(x)} \cup {r}
            BY <1>5, <1>6, <1>10, RaisedGrows
        <3> QED BY <1>1, <3>1 DEF Phase
    <2>2. Promise!Violate(r)
        BY <1>1, <2>1 DEF Promise!Violate, Raised, Phase
    <2> QED BY <2>2 DEF Promise!Next
<1> QED BY <1>7, <1>8, <1>9, <1>10

(* A layer that ends without a violation shows none, before and after. *)
LEMMA PromiseLayerStep ==
    ASSUME IInv, NEW r \in Run, StopOverBudget(r) \/ Advance(r)
    PROVE  [Promise!Next]_(Promise!vars)
<1>1. /\ LayerDone(r) /\ ~Violated(r) /\ Keep(r)
      /\ answer' = answer /\ queue' = queue /\ pc[r] = "executing"
      /\ \E s \in {"over_budget", "summarizing", "executing"} : pc' = [pc EXCEPT ![r] = s]
    BY DEF StopOverBudget, Advance, LayerDone
<1>2. /\ \A x \in Run \ {r} : pc'[x] = pc[x]
      /\ pc'[r] \in {"over_budget", "summarizing", "executing"}
    BY <1>1 DEF IInv, TypeOK
<1>3. outs' = [outs EXCEPT ![r] = NoResults]
    BY <1>1 DEF Keep
<1>4. outs'[r] = NoResults /\ \A x \in Run \ {r} : outs'[x] = outs[x]
    BY <1>3 DEF IInv, TypeOK
<1>5. Raised(r) = FALSE /\ Raised(r)' = FALSE
    <2>1. \A n \in Node : outs[r][n].tag # "violation"
        BY <1>1 DEF Violated, IInv, RunInv, Scheduled
    <2>2. \A n \in Node : outs'[r][n].tag # "violation"
        BY <1>4 DEF NoResults, Plain
    <2> QED BY <2>1, <2>2 DEF Raised
<1>6. OthersStay(r)
    BY <1>1, <1>2, <1>4 DEF OthersStay
<1>7. PICK f : f = answer[r].flagged
    OBVIOUS
<1>8. /\ f \in BOOLEAN
      /\ Shows(r, "running", FALSE, f)
    BY <1>1, <1>5, <1>7 DEF Shows, Phase, IInv, TypeOK
<1>9. CASE pc'[r] = "over_budget"
    <2>1. Shows(r, "stopped", FALSE, f)'
        BY <1>1, <1>5, <1>7, <1>9 DEF Shows, Phase
    <2> QED BY <1>1, <1>6, <1>8, <2>1, AbstractStop
<1>10. CASE pc'[r] # "over_budget"
    <2>1. Shows(r, "running", FALSE, f)'
        BY <1>1, <1>2, <1>5, <1>7, <1>10 DEF Shows, Phase
    <2> QED BY <1>1, <1>6, <1>8, <2>1, Silent
<1> QED BY <1>9, <1>10

(* The review and the answer: the run had neither before. *)
LEMMA PromiseAnswerStep ==
    ASSUME IInv, NEW r \in Run,
           NEW t \in SummaryCost(req[r].maxTokens - tokens[r]), SummaryArrives(r, t)
    PROVE  Promise!Next
<1>1. PICK review \in BOOLEAN :
         /\ queue' = IF review THEN Enqueued(queue, r) ELSE queue
         /\ \/ /\ pc' = [pc EXCEPT ![r] = "failed"]
               /\ UNCHANGED answer
            \/ /\ pc' = [pc EXCEPT ![r] = "answered"]
               /\ \E rs, c : answer' = [answer EXCEPT ![r] =
                        [regions |-> rs, confidence |-> c, flagged |-> review]]
    <2> PICK conf \in Confidences(plan[r], RegionsOf(r)) :
           /\ EnqueueIf(NeedsReview(conf), r)
           /\ IF Built(conf)
              THEN /\ answer' = [answer EXCEPT ![r] = [regions |-> CollectRegions(r),
                                                      confidence |-> conf,
                                                      flagged |-> NeedsReview(conf)]]
                   /\ pc' = [pc EXCEPT ![r] = "answered"]
              ELSE pc' = [pc EXCEPT ![r] = "failed"] /\ UNCHANGED answer
        BY DEF SummaryArrives
    <2>1. NeedsReview(conf) \in BOOLEAN
        BY DEF NeedsReview
    <2> QED BY <2>1 DEF EnqueueIf
<1>2. /\ pc[r] = "summarizing" /\ outs' = outs
      /\ r \notin queue.seen /\ answer[r].flagged = FALSE
      /\ Raised(r) = FALSE /\ Raised(r)' = FALSE
    <2>1. pc[r] = "summarizing" /\ outs' = outs
        BY DEF SummaryArrives
    <2>2. r \notin queue.seen /\ answer[r].flagged = FALSE
        BY <2>1 DEF IInv, RunInv, Concluded, NoAnswer
    <2>3. \A n \in Node : outs[r][n].tag = "absent"
        BY <2>1 DEF IInv, RunInv, Scheduled
    <2> QED BY <2>1, <2>2, <2>3 DEF Raised
<1>3. queue'.seen = IF review THEN queue.seen \cup {r} ELSE queue.seen
    BY <1>1, <1>2, EnqueueKeepsRows DEF IInv
<1>4. OthersStay(r)
    <2>1. \A x \in Run \ {r} : pc'[x] = pc[x]
        BY <1>1 DEF IInv, TypeOK
    <2>2. \A x \in Run \ {r} : answer'[x] = answer[x]
        BY <1>1 DEF IInv, TypeOK
    <2> QED BY <1>2, <2>1, <2>2 DEF OthersStay
<1>5. Shows(r, "running", FALSE, FALSE)
    BY <1>2 DEF Shows, Phase
<1>6. {x \in Run : Raised(x)}' = {x \in Run : Raised(x)} /\ Phase(r) = "running"
    BY <1>2, <1>5 DEF Raised, Shows
<1>7. CASE pc' = [pc EXCEPT ![r] = "failed"] /\ UNCHANGED answer
    <2>1. pc'[r] = "failed"
        BY <1>7 DEF IInv, TypeOK
    <2>2. Shows(r, "stopped", FALSE, FALSE)'
        BY <1>2, <1>7, <2>1 DEF Shows, Phase
    <2>3. [x \in Run |-> Phase(x)]' = [[x \in Run |-> Phase(x)] EXCEPT ![r] = "stopped"]
        BY <1>4, <2>2, PhaseChanges DEF Shows
    <2>4. Promise!Stop(r, review)
        BY <1>2, <1>3, <1>6, <1>7, <2>3 DEF Promise!Stop, Raised
    <2> QED BY <2>4 DEF Promise!Next
<1>8. CASE /\ pc' = [pc EXCEPT ![r] = "answered"]
           /\ \E rs, c : answer' = [answer EXCEPT ![r] =
                    [regions |-> rs, confidence |-> c, flagged |-> review]]
    <2>1. pc'[r] = "answered" /\ answer'[r].flagged = review
        BY <1>8 DEF IInv, TypeOK
    <2>2. Shows(r, "answered", FALSE, review)'
        BY <1>2, <2>1 DEF Shows, Phase
    <2>3. [x \in Run |-> Phase(x)]' = [[x \in Run |-> Phase(x)] EXCEPT ![r] = "answered"]
        BY <1>4, <2>2, PhaseChanges DEF Shows
    <2>4. review =>
             {x \in Run : answer[x].flagged}' = {x \in Run : answer[x].flagged} \cup {r}
        BY <1>4, <2>1, FlaggedGrows
    <2>5. ~review =>
             {x \in Run : answer[x].flagged}' = {x \in Run : answer[x].flagged}
        BY <1>2, <1>4, <2>1 DEF OthersStay
    <2>6. Promise!Answer(r, review)
        BY <1>2, <1>3, <1>6, <2>3, <2>4, <2>5 DEF Promise!Answer, Raised
    <2> QED BY <2>6 DEF Promise!Next
<1> QED BY <1>1, <1>7, <1>8

(* What a caller is promised, whatever runs beside the run. *)
THEOREM ImplementsQueryRun == Spec => KeepsPromise
<1>1. Init => Promise!Init
    <2> SUFFICES ASSUME Init PROVE Promise!Init
        OBVIOUS
    <2>1. \A n \in Node : NoResults[n].tag # "violation"
        BY DEF NoResults, Plain
    <2>2. \A r \in Run : Phase(r) = "new" /\ ~Raised(r) /\ answer[r].flagged = FALSE
        BY <2>1 DEF Init, Phase, Raised, NoAnswer
    <2>3. queue.seen = {}
        BY DEF Init, EmptyQueue
    <2> QED BY <2>2, <2>3 DEF Promise!Init, Raised
<1>2. IInv /\ [Next]_vars => [Promise!Next]_(Promise!vars)
    <2> SUFFICES ASSUME IInv, [Next]_vars PROVE [Promise!Next]_(Promise!vars)
        OBVIOUS
    <2>1. CASE UNCHANGED vars
        BY <2>1 DEF vars, Promise!vars, Phase
    <2>2. CASE Next
        <3> PICK r \in Run :
                \/ Accept(r) \/ Reject(r) \/ Planning(r) \/ Executing(r)
                \/ \E n \in Node : FinishRetrieve(r, n)
                \/ Summarizing(r) \/ TimePasses(r)
            BY <2>2 DEF Next
        <3>1. CASE Accept(r) \/ Reject(r) \/ TimePasses(r) \/ Planning(r)
            BY <3>1, PromiseStageStep DEF Planning
        <3>2. CASE Executing(r)
            BY <3>2, PromiseStageStep, PromiseNodeStep, PromiseLayerStep DEF Executing
        <3>3. CASE \E n \in Node : FinishRetrieve(r, n)
            BY <3>3, PromiseNodeStep
        <3>4. CASE Summarizing(r)
            BY <3>4, PromiseStageStep, PromiseAnswerStep DEF Summarizing
        <3> QED BY <3>1, <3>2, <3>3, <3>4
    <2> QED BY <2>1, <2>2
<1> QED BY <1>1, <1>2, Invariance, PTL DEF Spec, KeepsPromise, Promise!Spec
=============================================================================
