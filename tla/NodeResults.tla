---------------------------- MODULE NodeResults ----------------------------
(***************************************************************************)
(* The data that Orchestrator.run and its durable port GeoTraceWorkflow    *)
(* share: an executable plan (app/models.py, after _coerce_plan), what a   *)
(* node leaves behind, the regions, and the confidence of a run.           *)
(*                                                                         *)
(* A polygon is abstracted to where it came from: the node that found it   *)
(* and the pair of prisms it is the intersection of.  Confidences are in   *)
(* percent.  The code averages floating point numbers, and the gate asks   *)
(* for a whole percentage: what is kept of a mean is its whole part, and   *)
(* that a mean of a whole number of percent may come out just below it.    *)
(***************************************************************************)
EXTENDS Integers, FiniteSets, FiniteSetsExt, Functions, Sequences

CONSTANT Node   \* the ids of plan nodes

Kind == {"PRISM", "GAPS", "TGARD", "DC_TGARD", "VALIDATE", "RETRIEVE", "SUMMARIZE"}

Percent == 0..100

DepSet(p, n) == {p.deps[n][k] : k \in DOMAIN p.deps[n]}

(* topo_layers has an order for the nodes exactly if one exists: see       *)
(* PlanGraph, VerdictExact.                                                *)
Orderable(p) ==
    \E rank \in [p.ids -> 0..Cardinality(p.ids)] :
        \A n \in p.ids : \A d \in DepSet(p, n) : rank[d] < rank[n]

(* A plan as _coerce_plan lets it through, as the dict of topo_layers      *)
(* reads it.  That call raises for a cycle and for a dependency no node    *)
(* has, and nothing else is looked at: a confidence_prior may be any       *)
(* number, and of nodes with one id the last is executed, while the prior  *)
(* of each counts.  Dependencies are in the LLM's order; a list that names *)
(* one node twice is left out.                                             *)
IsPlan(p) ==
    /\ p.ids \in SUBSET Node
    /\ IsFiniteSet(p.ids)
    /\ p.kind \in [p.ids -> Kind]
    /\ p.deps \in [p.ids -> Seq(Node)]
    /\ p.priors \in Seq(Int)
    /\ Cardinality(p.ids) <= Len(p.priors) /\ (p.ids = {} => p.priors = <<>>)
    /\ \A n \in p.ids :
          /\ DepSet(p, n) \subseteq p.ids
          /\ \A j, k \in DOMAIN p.deps[n] : p.deps[n][j] = p.deps[n][k] => j = k
    /\ Orderable(p)

(* Slips in the layering: a node waits for one dependency only, or placed  *)
(* nodes are offered again.                                                *)
NextLayerAnyDep(p, finished) ==
    {n \in p.ids \ finished : DepSet(p, n) = {} \/ DepSet(p, n) \cap finished # {}}

NextLayerAgain(p, finished) == {n \in p.ids : DepSet(p, n) \subseteq finished}

(* The layer topo_layers yields once the nodes in finished are placed.     *)
NextLayer(p, finished) == {n \in p.ids \ finished : DepSet(p, n) \subseteq finished}

Region == [by : Node, of : SUBSET Node, conf : Percent]

(* What a request fixes about the world: whether consecutive anchors can   *)
(* be reached at the permitted speed, which pairs of prisms meet, and how  *)
(* sure a TGARD region is; and the caller's budget.                        *)
IsRequest(q) ==
    /\ q.reachable \in BOOLEAN
    /\ q.meets \subseteq {{a, b} : a, b \in Node} \ {{a} : a \in Node}
    /\ q.conf \in Percent
    /\ q.maxTokens \in Nat
    /\ q.maxTools \in Nat

(***************************************************************************)
(* RendezvousFinderAgent.find: a region for each pair of prisms that       *)
(* meets, none for fewer than two prisms; DC-TGARD adds 5 points.          *)
(***************************************************************************)
RegionConfidence(kind, q) ==
    IF kind = "DC_TGARD" /\ q.conf <= 95 THEN q.conf + 5 ELSE q.conf

RegionsFound(p, q, n, prisms) ==
    {[by |-> n, of |-> pair, conf |-> RegionConfidence(p.kind[n], q)] :
        pair \in q.meets \cap SUBSET prisms}

(***************************************************************************)
(* _aggregate_confidence: the mean prior of the plan, averaged with the    *)
(* mean confidence of every region in the results, each list that repeats  *)
(* a region counting it again.                                             *)
(***************************************************************************)
Mean(p, regionsOf) ==
    LET listed    == UNION {{n} \X regionsOf[n] : n \in p.ids}
        regionSum == SumFunction([x \in listed |-> x[2].conf])
        priorSum  == SumFunction(p.priors)
        nr        == Cardinality(listed)
        np        == Len(p.priors)
    IN  CASE np = 0 -> [num |-> 0, den |-> 1]
          [] np # 0 /\ nr = 0 -> [num |-> priorSum, den |-> np]
          [] np # 0 /\ nr # 0 -> [num |-> regionSum * np + priorSum * nr, den |-> 2 * nr * np]

(* A sum of several numbers may be rounded down, so that a mean which is a *)
(* whole percentage ends up under it: sum([0.7] * 3) / 3 < 0.7.  A sum of  *)
(* noughts is exact.                                                       *)
Lossy(p, mean) ==
    /\ mean.den > 1
    /\ mean.num % mean.den = 0
    /\ mean.num # 0 \/ \E k \in DOMAIN p.priors : p.priors[k] < 0

(* Never above 99, but below 0 if the LLM says so. *)
Capped(confidence) == IF confidence > 99 THEN 99 ELSE confidence

Confidences(p, regionsOf) ==
    LET mean  == Mean(p, regionsOf)
        whole == mean.num \div mean.den
    IN  {Capped(whole)} \cup (IF Lossy(p, mean) THEN {Capped(whole - 1)} ELSE {})

(* QueryOut.confidence is a Field(ge=0, le=1). *)
WellFormed(confidence) == confidence \in Percent
=============================================================================
