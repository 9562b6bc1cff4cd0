-------------------------- MODULE PlanGraphProofs --------------------------
(***************************************************************************)
(* PlanGraph for every set of ids and every length of plan.                *)
(***************************************************************************)
EXTENDS PlanGraph, SequenceTheorems, WellFoundedInduction, TLAPS

(* A set of natural numbers that is not empty has a least element.         *)
LEMMA LeastNat ==
    ASSUME NEW T, T \subseteq Nat, T # {}
    PROVE  \E x \in T : \A y \in T : x <= y
<1> DEFINE R == {ss \in Nat \X Nat : ss[1] < ss[2]}
<1>1. R = OpToRel(<, Nat)
    BY Zenon DEF OpToRel
<1>2. PICK x \in T : \A y \in T : ~ (<<y, x>> \in R)
    <2> HIDE DEF R
    <2> QED BY <1>1, NatLessThanWellFounded, WFMin
<1>3. \A y \in T : ~ (y < x)
    BY <1>2
<1> QED BY <1>3

(* The later of two nodes with one id wins, so every id of a plan has      *)
(* exactly one set of dependencies.                                        *)
LEMMA DepsType ==
    ASSUME NEW ns \in Seq(PlanNode)
    PROVE  Deps(ns) \in [Ids(ns) -> SUBSET Id]
<1> SUFFICES ASSUME NEW i \in Ids(ns)
             PROVE  Deps(ns)[i] \in SUBSET Id
    BY DEF Deps
<1> DEFINE Last(k) == ns[k].id = i /\ \A l \in DOMAIN ns : ns[l].id = i => l <= k
<1> DEFINE T == {Len(ns) - k : k \in {l \in 1..Len(ns) : ns[l].id = i}}
<1>1. DOMAIN ns = 1..Len(ns) /\ Len(ns) \in Nat
    OBVIOUS
<1>2. T \subseteq Nat /\ T # {}
    BY <1>1 DEF Ids
<1>3. PICK t \in T : \A u \in T : t <= u
    <2> HIDE DEF T
    <2> QED BY <1>2, LeastNat
<1>4. PICK k \in 1..Len(ns) : t = Len(ns) - k /\ ns[k].id = i
    BY <1>3
<1>5. ASSUME NEW l \in DOMAIN ns, ns[l].id = i
      PROVE  l <= k
    <2>1. Len(ns) - l \in T
        BY <1>1, <1>5
    <2>2. t <= Len(ns) - l
        BY <1>3, <2>1
    <2> QED BY <1>1, <1>4, <2>2
<1>6. \E m \in DOMAIN ns : Last(m)
    BY <1>1, <1>4, <1>5
<1>7. (CHOOSE m \in DOMAIN ns : Last(m)) \in DOMAIN ns
    <2> HIDE DEF Last
    <2> QED BY <1>6
<1>8. Deps(ns)[i] = ns[CHOOSE m \in DOMAIN ns : Last(m)].deps
    BY DEF Deps
<1>9. \A m \in DOMAIN ns : ns[m].deps \in SUBSET Id
    <2>1. \A m \in 1..Len(ns) : ns[m] \in PlanNode
        OBVIOUS
    <2> QED BY <1>1, <2>1 DEF PlanNode
<1> QED
    <2> HIDE DEF Last
    <2> QED BY <1>7, <1>8, <1>9

-----------------------------------------------------------------------------
(***************************************************************************)
(* The inductive invariant.  The four properties are not inductive alone:  *)
(* a node lands in the earliest layer only because every node still        *)
(* waiting misses a dependency that is not in a layer before the last one  *)
(* (Waiting), and the verdicts rest on what the loop saw when it stopped.  *)
(***************************************************************************)
Shape ==
    /\ nodes \in Seq(PlanNode)
    /\ done \subseteq Ids(nodes)
    /\ remaining = [i \in Ids(nodes) \ done |-> Deps(nodes)[i]]
    /\ layers \in Seq(SUBSET Ids(nodes))
    /\ done = Placed(layers)
    /\ verdict \in {"looping", "layered", "cycle"}

Disjoint == \A j, k \in DOMAIN layers : j # k => layers[j] \cap layers[k] = {}

Waiting ==
    Len(layers) > 0 =>
        \A i \in DOMAIN remaining :
            ~ (Deps(nodes)[i] \subseteq Before(layers, Len(layers)))

Stopped ==
    /\ verdict = "layered" => DOMAIN remaining = {}
    /\ verdict = "cycle" => DOMAIN remaining # {} /\ Ready = {}

IInv == Shape /\ LayersRespectDeps /\ Disjoint /\ NoNeedlessBarrier /\ Waiting /\ Stopped

(* What Append does to the layers below it. *)
LEMMA AppendLayer ==
    ASSUME NEW S, NEW ls \in Seq(S), NEW x \in S
    PROVE  /\ Append(ls, x) \in Seq(S)
           /\ Len(ls) \in Nat
           /\ DOMAIN ls = 1..Len(ls)
           /\ DOMAIN Append(ls, x) = 1..(Len(ls) + 1)
           /\ Len(Append(ls, x)) = Len(ls) + 1
           /\ \A k \in 1..Len(ls) : Append(ls, x)[k] = ls[k]
           /\ Append(ls, x)[Len(ls) + 1] = x
           /\ \A k \in 1..(Len(ls) + 1) : Before(Append(ls, x), k) = Before(ls, k)
           /\ Placed(Append(ls, x)) = Placed(ls) \cup x
           /\ Before(ls, Len(ls) + 1) = Placed(ls)
<1> DEFINE as == Append(ls, x)
<1>1. /\ as \in Seq(S)
      /\ Len(ls) \in Nat
      /\ DOMAIN ls = 1..Len(ls)
      /\ DOMAIN as = 1..(Len(ls) + 1)
      /\ Len(as) = Len(ls) + 1
      /\ \A k \in 1..Len(ls) : as[k] = ls[k]
      /\ as[Len(ls) + 1] = x
    OBVIOUS
<1> HIDE DEF as
<1>2. ASSUME NEW k \in 1..(Len(ls) + 1)
      PROVE  Before(as, k) = Before(ls, k)
    <2>1. ASSUME NEW j \in 1..(k - 1) PROVE as[j] = ls[j]
        <3>1. j \in 1..Len(ls)
            BY <1>1
        <3> QED BY <1>1, <3>1
    <2> QED BY <2>1 DEF Before
<1>3. Placed(as) = Placed(ls) \cup x
    <2>1. DOMAIN as = DOMAIN ls \cup {Len(ls) + 1}
        BY <1>1
    <2>2. \A k \in DOMAIN ls : as[k] = ls[k]
        BY <1>1
    <2> QED BY <1>1, <2>1, <2>2 DEF Placed
<1>4. Before(ls, Len(ls) + 1) = Placed(ls)
    <2>1. 1..((Len(ls) + 1) - 1) = DOMAIN ls
        BY <1>1
    <2> QED BY <2>1 DEF Before, Placed
<1> QED BY <1>1, <1>2, <1>3, <1>4 DEF as

-----------------------------------------------------------------------------

LEMMA InitIInv == Init => IInv
<1> SUFFICES ASSUME Init PROVE IInv
    OBVIOUS
<1>1. nodes \in Seq(PlanNode)
    BY MaxNodesIsNat DEF Init, Plans
<1>2. layers = <<>> /\ DOMAIN layers = {} /\ Len(layers) = 0
    BY DEF Init
<1>3. Shape
    <2>1. Deps(nodes) = [i \in Ids(nodes) |-> Deps(nodes)[i]]
        BY DEF Deps
    <2>2. Placed(layers) = {}
        BY <1>2 DEF Placed
    <2>3. layers \in Seq(SUBSET Ids(nodes))
        BY <1>2
    <2> QED BY <1>1, <2>1, <2>2, <2>3 DEF Init, Shape
<1> QED BY <1>2, <1>3 DEF Init, IInv, LayersRespectDeps, Disjoint, NoNeedlessBarrier, Waiting, Stopped

(* Stopping changes nothing but the verdict. *)
LEMMA StopIInv ==
    ASSUME IInv, RaiseCycle \/ Return
    PROVE  IInv'
<1> USE DEF IInv, RaiseCycle, Return, LayersRespectDeps, Disjoint, NoNeedlessBarrier,
        Waiting
<1>1. Shape'
    BY DEF Shape
<1>2. LayersRespectDeps' /\ Disjoint' /\ NoNeedlessBarrier' /\ Waiting'
    BY DEF Before
<1>3. Stopped'
    BY DEF Stopped, Ready
<1> QED BY <1>1, <1>2, <1>3

LEMMA AddLayerIInv ==
    ASSUME IInv, AddLayer
    PROVE  IInv'
<1> DEFINE n == Len(layers)
<1>1. /\ nodes' = nodes /\ verdict' = verdict /\ verdict = "looping"
      /\ Ready # {}
      /\ layers' = Append(layers, Ready)
      /\ done' = done \cup Ready
      /\ remaining' = [i \in DOMAIN remaining \ Ready |-> remaining[i]]
    BY DEF AddLayer
<1>2. Shape /\ LayersRespectDeps /\ Disjoint /\ NoNeedlessBarrier /\ Waiting
    BY DEF IInv
<1>3. /\ DOMAIN remaining = Ids(nodes) \ done
      /\ \A i \in DOMAIN remaining : remaining[i] = Deps(nodes)[i]
    BY <1>2 DEF Shape
<1>4. /\ Ready \subseteq Ids(nodes) \ done
      /\ \A i \in Ids(nodes) \ done : i \in Ready <=> Deps(nodes)[i] \subseteq done
    BY <1>3 DEF Ready
<1>5. /\ layers' \in Seq(SUBSET Ids(nodes))
      /\ n \in Nat
      /\ DOMAIN layers = 1..n
      /\ DOMAIN layers' = 1..(n + 1)
      /\ Len(layers') = n + 1
      /\ \A k \in 1..n : layers'[k] = layers[k]
      /\ layers'[n + 1] = Ready
      /\ \A k \in 1..(n + 1) : Before(layers', k) = Before(layers, k)
      /\ Placed(layers') = Placed(layers) \cup Ready
      /\ Before(layers, n + 1) = done
    <2>1. layers \in Seq(SUBSET Ids(nodes)) /\ Placed(layers) = done
        BY <1>2 DEF Shape
    <2>2. Ready \in SUBSET Ids(nodes)
        BY <1>4
    <2> QED BY <1>1, <2>1, <2>2, AppendLayer
<1> HIDE DEF n
<1>6. Shape'
    <2>1. remaining' = [i \in Ids(nodes) \ done' |-> Deps(nodes)[i]]
        <3>1. DOMAIN remaining \ Ready = Ids(nodes) \ done'
            BY <1>1, <1>3
        <3> QED BY <1>1, <1>3, <3>1
    <2> QED BY <1>1, <1>2, <1>4, <1>5, <2>1 DEF Shape
<1>7. LayersRespectDeps'
    <2> SUFFICES ASSUME NEW k \in 1..(n + 1), NEW i \in layers'[k]
                 PROVE  Deps(nodes)[i] \subseteq Before(layers, k)
        BY <1>1, <1>5 DEF LayersRespectDeps
    <2>1. CASE k \in 1..n
        BY <1>2, <1>5, <2>1 DEF LayersRespectDeps
    <2>2. CASE k = n + 1
        BY <1>4, <1>5, <2>2
    <2> QED BY <1>5, <2>1, <2>2
<1>8. Disjoint'
    <2>1. ASSUME NEW j \in 1..n PROVE layers[j] \cap Ready = {}
        <3>1. layers[j] \subseteq done
            BY <1>2, <1>5 DEF Shape, Placed
        <3> QED BY <1>4, <3>1
    <2> SUFFICES ASSUME NEW j \in 1..(n + 1), NEW k \in 1..(n + 1), j # k
                 PROVE  layers'[j] \cap layers'[k] = {}
        BY <1>5 DEF Disjoint
    <2>2. CASE j \in 1..n /\ k \in 1..n
        BY <1>2, <1>5, <2>2 DEF Disjoint
    <2>3. CASE j \in 1..n /\ k = n + 1
        BY <1>5, <2>1, <2>3
    <2>4. CASE j = n + 1 /\ k \in 1..n
        BY <1>5, <2>1, <2>4
    <2> QED BY <1>5, <2>2, <2>3, <2>4
<1>9. NoNeedlessBarrier'
    <2> SUFFICES ASSUME NEW k \in 1..(n + 1), k > 1, NEW i \in layers'[k]
                 PROVE  Deps(nodes)[i] \cap layers'[k - 1] # {}
        BY <1>1, <1>5 DEF NoNeedlessBarrier
    <2>1. CASE k \in 1..n
        <3>1. k - 1 \in 1..n
            BY <1>5, <2>1
        <3> QED BY <1>2, <1>5, <2>1, <3>1 DEF NoNeedlessBarrier
    <2>2. CASE k = n + 1
        (* i was left out of the last layer, so a dependency was missing then *)
        <3>1. n > 0 /\ n \in 1..n /\ k - 1 = n
            BY <1>5, <2>2
        <3>2. i \in DOMAIN remaining /\ Deps(nodes)[i] \subseteq done
            BY <1>3, <1>4, <1>5, <2>2
        <3>3. PICK d \in Deps(nodes)[i] : d \notin Before(layers, n)
            BY <1>2, <3>1, <3>2 DEF Waiting, n
        <3>4. PICK j \in 1..n : d \in layers[j]
            BY <1>2, <1>5, <3>2, <3>3 DEF Shape, Placed
        <3>5. ~ (j \in 1..(n - 1))
            BY <3>3, <3>4 DEF Before
        <3>6. j = n
            BY <1>5, <3>4, <3>5
        <3> QED BY <1>5, <3>1, <3>3, <3>4, <3>6
    <2> QED BY <1>5, <2>1, <2>2
<1>10. Waiting'
    <2> SUFFICES ASSUME NEW i \in DOMAIN remaining'
                 PROVE  ~ (Deps(nodes)[i] \subseteq done)
        BY <1>1, <1>5 DEF Waiting
    <2>1. i \in Ids(nodes) \ done /\ i \notin Ready
        BY <1>1, <1>3
    <2> QED BY <1>4, <2>1
<1>11. Stopped'
    BY <1>1 DEF Stopped
<1> QED BY <1>6, <1>7, <1>8, <1>9, <1>10, <1>11 DEF IInv

LEMMA StutterIInv ==
    ASSUME IInv, UNCHANGED vars
    PROVE  IInv'
<1>1. nodes' = nodes /\ remaining' = remaining /\ done' = done /\ layers' = layers
      /\ verdict' = verdict
    BY DEF vars
<1>2. Shape'
    BY <1>1 DEF IInv, Shape
<1>3. LayersRespectDeps' /\ Disjoint' /\ NoNeedlessBarrier' /\ Waiting'
    BY <1>1 DEF IInv, LayersRespectDeps, Disjoint, NoNeedlessBarrier, Waiting, Before
<1>4. Stopped'
    BY <1>1 DEF IInv, Stopped, Ready
<1> QED BY <1>2, <1>3, <1>4 DEF IInv

THEOREM Invariance == Spec => []IInv
<1>1. IInv /\ [Next]_vars => IInv'
    BY AddLayerIInv, StopIInv, StutterIInv DEF Next
<1> QED BY <1>1, InitIInv, PTL DEF Spec

-----------------------------------------------------------------------------
(***************************************************************************)
(* What the reader should know.                                            *)
(***************************************************************************)

(* Every state of the loop is well typed, for every plan an LLM can write. *)
THEOREM TypeCorrect == Spec => []TypeOK
<1>1. IInv => TypeOK
    <2> SUFFICES ASSUME IInv PROVE TypeOK
        OBVIOUS
    <2>1. Deps(nodes) \in [Ids(nodes) -> SUBSET Id]
        BY DepsType DEF IInv, Shape
    <2>2. remaining \in [Ids(nodes) \ done -> SUBSET Id]
        BY <2>1 DEF IInv, Shape
    <2>3. Ids(nodes) \ done \in SUBSET Ids(nodes)
        OBVIOUS
    <2> QED BY <2>2, <2>3 DEF IInv, Shape, TypeOK
<1> QED BY <1>1, Invariance, PTL

(* The orchestrator never finds a node in a layer that needs a result of   *)
(* the same or of a later layer.                                           *)
THEOREM LayersAreSound == Spec => []LayersRespectDeps
<1>1. IInv => LayersRespectDeps
    BY DEF IInv
<1> QED BY <1>1, Invariance, PTL

(* Every id of the plan is scheduled in one layer or still waiting, never  *)
(* both and never twice.                                                   *)
THEOREM EveryIdOnce == Spec => []EachIdOnce
<1>1. IInv => EachIdOnce
    BY DEF IInv, Shape, Disjoint, EachIdOnce
<1> QED BY <1>1, Invariance, PTL

(* The number of barriers is the least the dependencies allow. *)
THEOREM LayersAreEarliest == Spec => []NoNeedlessBarrier
<1>1. IInv => NoNeedlessBarrier
    BY DEF IInv
<1> QED BY <1>1, Invariance, PTL

(* A plan the loop layers is ordered by the numbers of its layers. *)
LEMMA LayeredIsOrderable ==
    ASSUME IInv, verdict = "layered"
    PROVE  \E rank \in [Ids(nodes) -> DOMAIN layers] : Orders(rank, Deps(nodes))
<1>1. /\ Placed(layers) = Ids(nodes)
      /\ DOMAIN Deps(nodes) = Ids(nodes)
      /\ DOMAIN layers = 1..Len(layers)
      /\ Len(layers) \in Nat
    <2>1. DOMAIN remaining = Ids(nodes) \ done /\ done \subseteq Ids(nodes)
        BY DEF IInv, Shape
    <2>2. DOMAIN remaining = {}
        BY DEF IInv, Stopped
    <2>3. done = Ids(nodes)
        BY <2>1, <2>2
    <2>4. DOMAIN Deps(nodes) = Ids(nodes)
        BY DEF Deps
    <2>5. layers \in Seq(SUBSET Ids(nodes))
        BY DEF IInv, Shape
    <2>6. DOMAIN layers = 1..Len(layers) /\ Len(layers) \in Nat
        BY <2>5
    <2> QED BY <2>3, <2>4, <2>6 DEF IInv, Shape
<1> DEFINE rank == [i \in Ids(nodes) |-> CHOOSE k \in DOMAIN layers : i \in layers[k]]
<1>2. ASSUME NEW i \in Ids(nodes)
      PROVE  rank[i] \in DOMAIN layers /\ i \in layers[rank[i]]
    <2>1. \E k \in DOMAIN layers : i \in layers[k]
        BY <1>1 DEF Placed
    <2> QED BY <2>1
<1>3. ASSUME NEW i \in Ids(nodes), NEW d \in Deps(nodes)[i]
      PROVE  d \in Ids(nodes) /\ rank[d] < rank[i]
    <2>1. PICK j \in 1..(rank[i] - 1) : d \in layers[j]
        <3>1. rank[i] \in DOMAIN layers /\ i \in layers[rank[i]]
            BY <1>2
        <3> HIDE DEF rank
        <3>2. d \in Before(layers, rank[i])
            BY <3>1 DEF IInv, LayersRespectDeps
        <3> QED BY <3>2 DEF Before
    <2>2. j \in DOMAIN layers /\ j < rank[i]
        <3>1. rank[i] \in 1..Len(layers)
            BY <1>1, <1>2
        <3> HIDE DEF rank
        <3> QED BY <1>1, <2>1, <3>1
    <2>3. d \in Ids(nodes)
        BY <1>1, <2>1, <2>2 DEF Placed
    <2>4. rank[d] = j
        <3>1. rank[d] \in DOMAIN layers /\ d \in layers[rank[d]]
            BY <1>2, <2>3
        <3> HIDE DEF rank
        <3> QED BY <2>1, <2>2, <3>1 DEF IInv, Disjoint
    <2> HIDE DEF rank
    <2> QED BY <2>2, <2>3, <2>4
<1>4. rank \in [Ids(nodes) -> DOMAIN layers]
    BY <1>2
<1> HIDE DEF rank
<1> QED BY <1>1, <1>3, <1>4 DEF Orders

(* A plan the loop rejects has no order, by ranks of any size: a waiting   *)
(* node of least rank would have all its dependencies done, and be ready.  *)
LEMMA CycleIsUnorderable ==
    ASSUME IInv, verdict = "cycle",
           NEW rank \in [Ids(nodes) -> Nat]
    PROVE  ~ Orders(rank, Deps(nodes))
<1> SUFFICES ASSUME Orders(rank, Deps(nodes)) PROVE FALSE
    OBVIOUS
<1>1. /\ DOMAIN remaining = Ids(nodes) \ done
      /\ \A i \in DOMAIN remaining : remaining[i] = Deps(nodes)[i]
      /\ DOMAIN remaining # {}
      /\ Ready = {}
      /\ DOMAIN Deps(nodes) = Ids(nodes)
    BY DEF IInv, Shape, Stopped, Deps
<1> DEFINE T == {rank[i] : i \in DOMAIN remaining}
<1>2. T \subseteq Nat /\ T # {}
    BY <1>1
<1>3. PICK m \in T : \A t \in T : m <= t
    <2> HIDE DEF T
    <2> QED BY <1>2, LeastNat
<1>4. PICK i \in DOMAIN remaining : \A j \in DOMAIN remaining : rank[i] <= rank[j]
    BY <1>3
<1>5. ASSUME NEW d \in remaining[i]
      PROVE  d \in done
    <2>1. d \in Ids(nodes) /\ rank[d] < rank[i]
        BY <1>1 DEF Orders
    <2>2. d \notin DOMAIN remaining
        BY <1>1, <1>4, <2>1
    <2> QED BY <1>1, <2>1, <2>2
<1> QED BY <1>1, <1>5 DEF Ready

(* topo_layers decides exactly whether a plan can be ordered. *)
THEOREM VerdictIsExact == Spec => []VerdictExact
<1>1. IInv => VerdictExact
    <2> SUFFICES ASSUME IInv PROVE VerdictExact
        OBVIOUS
    <2>1. ASSUME verdict = "cycle", NEW rank \in [Ids(nodes) -> 0..MaxNodes]
          PROVE  ~ Orders(rank, Deps(nodes))
        <3>1. rank \in [Ids(nodes) -> Nat]
            BY MaxNodesIsNat
        <3> QED BY <2>1, <3>1, CycleIsUnorderable
    <2> QED BY <2>1, LayeredIsOrderable DEF VerdictExact
<1> QED BY <1>1, Invariance, PTL
=============================================================================
