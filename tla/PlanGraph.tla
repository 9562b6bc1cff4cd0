----------------------------- MODULE PlanGraph -----------------------------
(***************************************************************************)
(* PlanGraph.topo_layers (app/models.py): the loop that cuts the plan the  *)
(* planner LLM wrote into layers whose nodes may run in parallel, or       *)
(* rejects it ("plan graph has a cycle").                                  *)
(*                                                                         *)
(* Nothing is known of the plan: ids may repeat, a dependency may name the *)
(* node itself or an id that no node has.  One step is one iteration of    *)
(* the while loop.                                                         *)
(***************************************************************************)
EXTENDS Naturals, Sequences

CONSTANTS Id,        \* what the LLM may write as a node id or a dependency
          MaxNodes   \* bound on the length of a plan (16 in _PLAN_JSON_SCHEMA)

ASSUME MaxNodesIsNat == MaxNodes \in Nat

PlanNode == [id : Id, deps : SUBSET Id]

Plans == UNION {[1..k -> PlanNode] : k \in 0..MaxNodes}

VARIABLES
    nodes,      \* PlanGraph.nodes, never modified (the model is frozen)
    remaining,  \* the dict id -> node, as id -> dependencies
    done,       \* the ids already put in a layer
    layers,     \* the layers built so far
    verdict     \* "looping", "layered" (returned) or "cycle" (raised)

vars == <<nodes, remaining, done, layers, verdict>>

Ids(ns) == {ns[k].id : k \in DOMAIN ns}

(***************************************************************************)
(* {n.id: n for n in self.nodes}: of two nodes with one id the later wins. *)
(***************************************************************************)
Deps(ns) ==
    [i \in Ids(ns) |->
        ns[CHOOSE k \in DOMAIN ns :
              ns[k].id = i /\ \A l \in DOMAIN ns : ns[l].id = i => l <= k].deps]

(* Slips a rewrite of the loop could make; the properties must notice them. *)
ReadyIfAny ==
    {i \in DOMAIN remaining : remaining[i] = {} \/ remaining[i] \cap done # {}}

ReadyOneAtATime ==
    LET all == {i \in DOMAIN remaining : remaining[i] \subseteq done}
    IN  IF all = {} THEN {} ELSE {CHOOSE i \in all : TRUE}

ReadyDespiteSelfLoop ==
    {i \in DOMAIN remaining : remaining[i] \ {i} \subseteq done}

Ready == {i \in DOMAIN remaining : remaining[i] \subseteq done}

Init ==
    /\ nodes \in Plans
    /\ remaining = Deps(nodes)
    /\ done = {}
    /\ layers = <<>>
    /\ verdict = "looping"

(* The nodes of the layer are not deleted from the dict. *)
AddLayerWithoutDel ==
    /\ verdict = "looping"
    /\ DOMAIN remaining # {}
    /\ Ready # {}
    /\ layers' = Append(layers, Ready)
    /\ done' = done \cup Ready
    /\ UNCHANGED <<nodes, remaining, verdict>>

(* One iteration of the loop: a new layer of every node that is ready. *)
AddLayer ==
    /\ verdict = "looping"
    /\ DOMAIN remaining # {}
    /\ Ready # {}
    /\ layers' = Append(layers, Ready)
    /\ done' = done \cup Ready
    /\ remaining' = [i \in DOMAIN remaining \ Ready |-> remaining[i]]
    /\ UNCHANGED <<nodes, verdict>>

(* The test for an empty layer is missing: the loop spins. *)
SpinOnCycle ==
    /\ verdict = "looping"
    /\ DOMAIN remaining # {}
    /\ Ready = {}
    /\ UNCHANGED vars

(* Nodes are left and none is ready: ValueError. *)
RaiseCycle ==
    /\ verdict = "looping"
    /\ DOMAIN remaining # {}
    /\ Ready = {}
    /\ verdict' = "cycle"
    /\ UNCHANGED <<nodes, remaining, done, layers>>

(* Nothing is left: the layers are returned. *)
Return ==
    /\ verdict = "looping"
    /\ DOMAIN remaining = {}
    /\ verdict' = "layered"
    /\ UNCHANGED <<nodes, remaining, done, layers>>

Next == AddLayer \/ RaiseCycle \/ Return

Spec == Init /\ [][Next]_vars /\ WF_vars(Next)

-----------------------------------------------------------------------------
(***************************************************************************)
(* What a layering must be, without reference to the loop.                 *)
(***************************************************************************)

(* rank orders the plan if it puts every dependency of a node, each of     *)
(* them a node of the plan, strictly below the node.                       *)
Orders(rank, deps) ==
    \A i \in DOMAIN deps : \A d \in deps[i] : d \in DOMAIN deps /\ rank[d] < rank[i]

Placed(ls) == UNION {ls[k] : k \in DOMAIN ls}

(* The layers before layer k. *)
Before(ls, k) == UNION {ls[j] : j \in 1..(k - 1)}

TypeOK ==
    /\ nodes \in Seq(PlanNode)
    /\ remaining \in UNION {[S -> SUBSET Id] : S \in SUBSET Ids(nodes)}
    /\ done \subseteq Ids(nodes)
    /\ layers \in Seq(SUBSET Ids(nodes))
    /\ verdict \in {"looping", "layered", "cycle"}

(* A node is put in a layer only after all its dependencies were put in    *)
(* earlier ones, whatever the LLM wrote: the orchestrator runs a layer     *)
(* with gather and hands each node the results of the layers before it.    *)
LayersRespectDeps ==
    \A k \in DOMAIN layers : \A i \in layers[k] :
        Deps(nodes)[i] \subseteq Before(layers, k)

(* No id is scheduled twice and none is lost: the ids still waiting and    *)
(* those in the layers make up the plan, and no two layers share an id,    *)
(* duplicates in the plan included.                                        *)
EachIdOnce ==
    /\ DOMAIN remaining \cup Placed(layers) = Ids(nodes)
    /\ DOMAIN remaining \cap Placed(layers) = {}
    /\ \A j, k \in DOMAIN layers : j # k => layers[j] \cap layers[k] = {}

(* No node waits longer than it must: past the first layer each node       *)
(* depends on a node of the layer just before its own, so the number of    *)
(* layers, each a barrier in the orchestrator, is the least possible.      *)
NoNeedlessBarrier ==
    \A k \in DOMAIN layers : k > 1 =>
        \A i \in layers[k] : Deps(nodes)[i] \cap layers[k - 1] # {}

(* The plan is rejected exactly when no order of its nodes exists: a       *)
(* cycle, a node that depends on itself or on an id the plan lacks.  A     *)
(* layered plan is ordered by as many ranks as it has layers; MaxNodes     *)
(* ranks would be enough to order any plan that can be ordered.            *)
VerdictExact ==
    /\ verdict = "layered" =>
          \E rank \in [Ids(nodes) -> DOMAIN layers] : Orders(rank, Deps(nodes))
    /\ verdict = "cycle" =>
          ~ \E rank \in [Ids(nodes) -> 0..MaxNodes] : Orders(rank, Deps(nodes))

(* The loop ends on every plan, cyclic ones included: a plan comes from an *)
(* LLM and topo_layers runs on the server's only event loop.               *)
Terminates == <>(verdict # "looping")

=============================================================================
