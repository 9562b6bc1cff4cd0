----------------------------- MODULE DemoProofs -----------------------------
(***************************************************************************)
(* The demo, for every value of the constants: the geometry of an answer,  *)
(* for any places with a distance and any number of anchors, prisms and    *)
(* slices; the check that drives the page, for any deadline; and the page, *)
(* for any number of sessions, questions, plans and clicks.                *)
(***************************************************************************)
EXTENDS MCDemo, FiniteSetTheorems, WellFoundedInduction, TLAPS

PrismType == [a : Anchors, b : Anchors, v : Nat, feasible : BOOLEAN, rim : SUBSET Place]

(* A prism as Prism.compute makes it: B after A, and feasible if B can be  *)
(* reached.                                                                *)
Proper(p) ==
    /\ p \in PrismType /\ p.a.t < p.b.t
    /\ p.feasible => Dist[p.a.at, p.b.at] <= p.v * (p.b.t - p.a.t)

(* Its polygon, at any time. *)
Polygon(p) == EllipsePolygon(p, EllipseAt(p, 0))

LEMMA SpeedIsNat == ASSUME domain \in Domain PROVE VMax[domain] \in Nat \ {0}
BY SpeedAssumption

LEMMA DistIsNat == \A x, y \in Place : Dist[x, y] \in Nat
BY MetricAssumption

LEMMA ProperTypes ==
    ASSUME NEW p, Proper(p)
    PROVE  /\ p.a \in Anchors /\ p.b \in Anchors /\ p.v \in Nat
           /\ p.a.t \in Int /\ p.b.t \in Int /\ p.a.t < p.b.t
           /\ p.a.at \in Place /\ p.b.at \in Place
BY AnchorAssumption DEF Proper, PrismType

(* The radii add up to the same sum at every time. *)
LEMMA ReachIsConstant ==
    ASSUME NEW p, Proper(p), NEW t \in Int
    PROVE  Reach(p, t) = p.v * (p.b.t - p.a.t)
<1>1. p.v \in Nat /\ p.a.t \in Int /\ p.b.t \in Int
    BY ProperTypes
<1>2. \A w \in Nat, a, b \in Int : w * (t - a) + w * (b - t) = w * (b - a)
    BY SMT
<1> QED BY <1>1, <1>2 DEF Reach

(* So the ellipse does not depend on the time. *)
LEMMA EllipseIsConstant ==
    ASSUME NEW p, Proper(p), NEW t \in Int, NEW u \in Int
    PROVE  EllipseAt(p, t) = EllipseAt(p, u)
<1>1. Reach(p, t) = Reach(p, u)
    BY ReachIsConstant
<1> QED BY <1>1 DEF EllipseAt

LEMMA ExactQuotient == \A n \in Nat \ {0}, d \in Int : (n * d) \div n = d
BY SMT

LEMMA SliceTimes ==
    ASSUME NEW p, NEW r, Proper(p), Proper(r)
    PROVE  /\ Start(p, r) \in Int /\ End(p, r) \in Int
           /\ \A k \in Int : SliceTime(p, r, k) \in Int
           /\ SliceTime(p, r, 0) = Start(p, r)
           /\ SliceTime(p, r, NSlices) = End(p, r)
<1>1. Start(p, r) \in Int /\ End(p, r) \in Int
    BY ProperTypes DEF Start, End, MaxOf, MinOf
<1> DEFINE d == End(p, r) - Start(p, r)
<1>2. d \in Int
    BY <1>1
<1>3. \A n \in Nat \ {0}, x \in Int : x \div n \in Int
    BY SMT
<1>4. NSlices \in Nat \ {0}
    BY BoundAssumption
<1>5. \A k \in Int : (k * d) \div NSlices \in Int
    <2> HIDE DEF d
    <2> TAKE k \in Int
    <2>1. k * d \in Int
        BY <1>2
    <2> QED BY <2>1, <1>3, <1>4
<1>6. (0 * d) \div NSlices = 0
    <2> HIDE DEF d
    <2>1. 0 * d = 0 /\ NSlices * 0 = 0
        BY <1>2, <1>4
    <2>2. (NSlices * 0) \div NSlices = 0
        BY <1>4, ExactQuotient
    <2> QED BY <2>1, <2>2
<1>7. (NSlices * d) \div NSlices = d
    <2> HIDE DEF d
    <2> QED BY <1>2, <1>4, ExactQuotient
<1> QED BY <1>1, <1>2, <1>5, <1>6, <1>7 DEF SliceTime

LEMMA SliceIsConstant ==
    ASSUME NEW p, NEW r, Proper(p), Proper(r), NEW k \in 0..NSlices
    PROVE  Slice(p, r, k) = Polygon(p) \cap Polygon(r)
<1>1. SliceTime(p, r, k) \in Int
    <2>1. k \in Int
        BY BoundAssumption
    <2> QED BY <2>1, SliceTimes
<1>2. EllipseAt(p, SliceTime(p, r, k)) = EllipseAt(p, 0)
    BY <1>1, EllipseIsConstant
<1>3. EllipseAt(r, SliceTime(p, r, k)) = EllipseAt(r, 0)
    BY <1>1, EllipseIsConstant
<1> QED BY <1>2, <1>3 DEF Slice, Polygon

LEMMA TgardPlaces ==
    ASSUME NEW p, NEW r, Proper(p), Proper(r)
    PROVE  Tgard(p, r).places = Polygon(p) \cap Polygon(r)
<1>1. \A k \in 0..NSlices : Slice(p, r, k) = Polygon(p) \cap Polygon(r)
    BY SliceIsConstant
<1>2. 0 \in 0..NSlices
    BY BoundAssumption
<1>3. UNION {Slice(p, r, k) : k \in 0..NSlices} = Polygon(p) \cap Polygon(r)
    BY <1>1, <1>2
<1> QED BY <1>3 DEF Tgard

(* The walk of DC-TGARD stops at the first slice from either end. *)
LEMMA DcIsTgard ==
    ASSUME NEW p, NEW r, Proper(p), Proper(r)
    PROVE  /\ DcTgard(p, r).places = Tgard(p, r).places
           /\ DcTgard(p, r).places # {} => DcTgard(p, r) = Tgard(p, r)
<1> DEFINE S == Polygon(p) \cap Polygon(r)
           Full == {k \in 0..NSlices : Slice(p, r, k) # {}}
           first == CHOOSE k \in Full : \A l \in Full : k <= l
           last == CHOOSE k \in Full : \A l \in Full : l <= k
<1>1. \A k \in 0..NSlices : Slice(p, r, k) = S
    BY SliceIsConstant
<1>2. Tgard(p, r).places = S
    BY TgardPlaces
<1>3. CASE S = {}
    <2>1. Full = {}
        BY <1>1, <1>3
    <2> QED BY <2>1, <1>2, <1>3 DEF DcTgard
<1>4. CASE S # {}
    <2>1. Full = 0..NSlices
        BY <1>1, <1>4
    <2>2. 0 \in Full /\ NSlices \in Full /\ \A l \in Full : l \in Int /\ 0 <= l /\ l <= NSlices
        BY <2>1, BoundAssumption
    <2>3. first = 0
        <3> HIDE DEF Full
        <3>1. \A k \in Full : (\A l \in Full : k <= l) => k = 0
            BY <2>2
        <3> QED BY <2>2, <3>1
    <2>4. last = NSlices
        <3> HIDE DEF Full
        <3>1. \A k \in Full : (\A l \in Full : l <= k) => k = NSlices
            BY <2>2, BoundAssumption
        <3> QED BY <2>2, <3>1
    <2>5. DcTgard(p, r) = [places |-> Slice(p, r, first) \cup Slice(p, r, last),
                           lo |-> MaxOf(0, first - 1), hi |-> MinOf(NSlices, last + 1)]
        BY <2>2 DEF DcTgard
    <2>6. MaxOf(0, 0 - 1) = 0 /\ MinOf(NSlices, NSlices + 1) = NSlices
        BY BoundAssumption DEF MaxOf, MinOf
    <2>7. Slice(p, r, first) \cup Slice(p, r, last) = S
        <3>1. Slice(p, r, 0) = S /\ Slice(p, r, NSlices) = S
            <4> HIDE DEF S
            <4>1. 0 \in 0..NSlices /\ NSlices \in 0..NSlices
                BY BoundAssumption
            <4> QED BY <4>1, <1>1
        <3> HIDE DEF first, last, S
        <3> QED BY <2>3, <2>4, <3>1
    <2>8. DcTgard(p, r) = [places |-> S, lo |-> 0, hi |-> NSlices]
        BY <2>3, <2>4, <2>5, <2>6, <2>7
    <2>9. Tgard(p, r) = [places |-> S, lo |-> 0, hi |-> NSlices]
        BY <1>2 DEF Tgard
    <2> QED BY <2>8, <2>9
<1> QED BY <1>3, <1>4

LEMMA FoundIsTgard ==
    ASSUME NEW p, NEW r, Proper(p), Proper(r)
    PROVE  /\ Found(method, p, r).places = Tgard(p, r).places
           /\ Found(method, p, r).places # {} => Found(method, p, r) = Tgard(p, r)
BY DcIsTgard DEF Found

-----------------------------------------------------------------------------
(* Every region is that of a pair of prisms, and no meeting pair with some *)
(* slack is without one.                                                   *)
RegionsInv ==
    /\ \A g \in regions : /\ g.pair \in Pairs
                          /\ g.region.places # {}
                          /\ g.region = Tgard(prisms[g.pair[1]], prisms[g.pair[2]])
    /\ stage \in {"validating", "answered"} =>
          \A mn \in Pairs :
              /\ ~ Degenerate(prisms[mn[1]]) /\ ~ Degenerate(prisms[mn[2]])
              /\ Meet(mn[1], mn[2])
              => \E g \in regions : g.pair = mn

GateInv == stage = "answered" => ~ TooFast

AlarmInv == stage = "KinematicViolation" => TooFast

PrismsInv == \A k \in DOMAIN prisms : Proper(prisms[k])

Stages == {"planning", "GuardrailTripped", "finding", "validating",
           "KinematicViolation", "answered"}

Shape ==
    /\ q \in Requests /\ domain \in Domain /\ method \in {"TGARD", "DC-TGARD"}
    /\ DOMAIN prisms \subseteq 1..NrPrisms /\ stage \in Stages
    /\ stage = "planning" => regions = {}

IInv == Shape /\ PrismsInv /\ RegionsInv /\ GateInv /\ AlarmInv

LEMMA RequestTypes ==
    ASSUME q \in Requests
    PROVE  /\ \E n \in Nat : DOMAIN q = 1..n
           /\ \A k \in DOMAIN q : q[k] \in Anchors /\ q[k].t \in Int /\ q[k].at \in Place
           /\ DOMAIN q \subseteq Nat
<1>1. PICK n \in 0..MaxAnchors : q \in [1..n -> Anchors]
    BY DEF Requests
<1>2. n \in Nat
    BY BoundAssumption
<1> QED BY <1>1, <1>2, AnchorAssumption

LEMMA InitIInv == Init => IInv
<1> SUFFICES ASSUME Init PROVE IInv OBVIOUS
<1>1. prisms = <<>> /\ DOMAIN prisms = {}
    BY DEF Init
<1> QED BY <1>1 DEF Init, IInv, Shape, PrismsInv, RegionsInv, GateInv, AlarmInv, Stages

LEMMA ComputeIInv == ASSUME IInv, ComputePrisms PROVE IInv'
<1>1. UNCHANGED <<q, domain, method, regions>> /\ stage = "planning" /\ regions = {}
    BY DEF ComputePrisms, IInv, Shape
<1>2. PICK pair \in [1..NrPrisms -> LlmPairs \cup {<<>>}] :
        LET Pair(k) == IF pair[k] = <<>> THEN AnchorPair(k) ELSE pair[k]
            needs   == \E k \in 1..NrPrisms : pair[k] = <<>>
        IN  IF needs /\ Len(q) < 2
              THEN stage' = "GuardrailTripped" /\ UNCHANGED prisms
              ELSE /\ stage' = "finding"
                   /\ \E rim \in SUBSET {kx \in (1..NrPrisms) \X Place : ByTheRim(Pair(kx[1]), kx[2])} :
                        prisms' = [k \in {j \in 1..NrPrisms : Computes(Pair(j))} |->
                                      Compute(Pair(k), {x \in Place : <<k, x>> \in rim})]
    BY DEF ComputePrisms
<1> DEFINE Pair(k) == IF pair[k] = <<>> THEN AnchorPair(k) ELSE pair[k]
           needs == \E k \in 1..NrPrisms : pair[k] = <<>>
<1>3. CASE needs /\ Len(q) < 2
    BY <1>1, <1>2, <1>3 DEF IInv, Shape, Stages, PrismsInv, Proper, RegionsInv, GateInv, AlarmInv
<1>4. CASE ~ (needs /\ Len(q) < 2)
    <2>0. /\ stage' = "finding"
          /\ \E rim \in SUBSET {kx \in (1..NrPrisms) \X Place : ByTheRim(Pair(kx[1]), kx[2])} :
                prisms' = [k \in {j \in 1..NrPrisms : Computes(Pair(j))} |->
                              Compute(Pair(k), {x \in Place : <<k, x>> \in rim})]
        BY <1>2, <1>4
    <2> DEFINE Rim(rim, k) == {x \in Place : <<k, x>> \in rim}
    <2>1. PICK rim : prisms' = [k \in {j \in 1..NrPrisms : Computes(Pair(j))} |->
                                   Compute(Pair(k), Rim(rim, k))]
        BY <2>0
    <2> HIDE DEF Rim
    <2>r. \A k : Rim(rim, k) \in SUBSET Place
        BY DEF Rim
    <2>2. ASSUME NEW k \in 1..NrPrisms
          PROVE  Pair(k)[1] \in Anchors /\ Pair(k)[2] \in Anchors
        <3>1. CASE pair[k] = <<>>
            <4>1. needs
                BY <3>1
            <4>2. PICK n \in 0..MaxAnchors : q \in [1..n -> Anchors]
                BY DEF IInv, Shape, Requests
            <4>3. n \in Nat /\ k \in Nat /\ Len(q) = n
                BY <4>2, <2>2, BoundAssumption
            <4>4. Len(q) >= 2
                BY <4>1, <1>4, <4>3
            <4>5. q[1] \in Anchors /\ q[2] \in Anchors
                BY <4>2, <4>3, <4>4
            <4>6. Len(q) >= 2 * k => q[2 * k - 1] \in Anchors /\ q[2 * k] \in Anchors
                BY <4>2, <4>3, <2>2
            <4> QED BY <3>1, <4>5, <4>6 DEF AnchorPair
        <3>2. CASE pair[k] # <<>>
            <4>1. pair[k] \in LlmPairs
                BY <3>2, <2>2
            <4> QED BY <3>2, <4>1, AnchorAssumption
        <3> QED BY <3>1, <3>2
    <2>3. ASSUME NEW k \in DOMAIN prisms' PROVE Proper(prisms'[k])
        <3>1. k \in 1..NrPrisms /\ Computes(Pair(k)) /\ prisms'[k] = Compute(Pair(k), Rim(rim, k))
            BY <2>1
        <3>2. Pair(k)[1] \in Anchors /\ Pair(k)[2] \in Anchors
            BY <2>2, <3>1
        <3> HIDE DEF Pair
        <3>3. Compute(Pair(k), Rim(rim, k)) \in PrismType
            BY <3>2, <2>r, SpeedIsNat DEF Compute, PrismType, IInv, Shape
        <3>4. Compute(Pair(k), Rim(rim, k)).a.t < Compute(Pair(k), Rim(rim, k)).b.t
            BY <3>1 DEF Compute, Computes
        <3>5. LET p == Compute(Pair(k), Rim(rim, k))
              IN  p.feasible => Dist[p.a.at, p.b.at] <= p.v * (p.b.t - p.a.t)
            BY DEF Compute
        <3> QED BY <3>1, <3>3, <3>4, <3>5 DEF Proper
    <2>4. DOMAIN prisms' \subseteq 1..NrPrisms
        BY <2>1
    <2>5. PrismsInv'
        BY <2>3 DEF PrismsInv, Proper
    <2> QED BY <1>1, <2>0, <2>4, <2>5 DEF IInv, Shape, Stages, RegionsInv, GateInv, AlarmInv
<1> QED BY <1>3, <1>4

LEMMA FindIInv == ASSUME IInv, FindRegions PROVE IInv'
<1>1. UNCHANGED <<q, domain, method, prisms>> /\ stage' = "validating"
    BY DEF FindRegions
<1>2. PICK lost \in SUBSET {mn \in Pairs : Degenerate(prisms[mn[1]]) \/ Degenerate(prisms[mn[2]])} :
        regions' = {[pair |-> mn, region |-> Found(method, prisms[mn[1]], prisms[mn[2]])] :
                       mn \in {x \in Pairs \ lost : Meet(x[1], x[2])}}
    BY DEF FindRegions
<1>3. ASSUME NEW g \in regions'
      PROVE  /\ g.pair \in Pairs
             /\ g.region.places # {}
             /\ g.region = Tgard(prisms[g.pair[1]], prisms[g.pair[2]])
    <2>1. PICK mn \in Pairs : /\ Meet(mn[1], mn[2])
                              /\ g = [pair |-> mn, region |-> Found(method, prisms[mn[1]], prisms[mn[2]])]
        BY <1>2, <1>3
    <2>2. mn[1] \in DOMAIN prisms /\ mn[2] \in DOMAIN prisms
        BY DEF Pairs
    <2>3. Proper(prisms[mn[1]]) /\ Proper(prisms[mn[2]]) /\ domain \in Domain
        BY <2>2 DEF IInv, PrismsInv, Shape
    <2>4. Found(method, prisms[mn[1]], prisms[mn[2]]).places # {}
        BY <2>1 DEF Meet
    <2>5. Found(method, prisms[mn[1]], prisms[mn[2]]) = Tgard(prisms[mn[1]], prisms[mn[2]])
        BY <2>3, <2>4, FoundIsTgard
    <2> QED BY <2>1, <2>4, <2>5
<1>4. ASSUME NEW mn \in Pairs, ~ Degenerate(prisms[mn[1]]), ~ Degenerate(prisms[mn[2]]),
             Meet(mn[1], mn[2])
      PROVE  \E g \in regions' : g.pair = mn
    <2>1. mn \notin lost
        BY <1>4, <1>2
    <2> DEFINE g == [pair |-> mn, region |-> Found(method, prisms[mn[1]], prisms[mn[2]])]
    <2>2. mn \in {x \in Pairs \ lost : Meet(x[1], x[2])}
        BY <2>1, <1>4
    <2>3. g \in regions'
        BY <2>2, <1>2
    <2>4. g.pair = mn
        OBVIOUS
    <2> QED BY <2>3, <2>4
<1>5. RegionsInv'
    BY <1>1, <1>3, <1>4 DEF RegionsInv, Pairs, Meet
<1> QED BY <1>1, <1>5 DEF IInv, Shape, Stages, PrismsInv, Proper, GateInv, AlarmInv

LEMMA ValidateIInv == ASSUME IInv, Validate PROVE IInv'
<1>1. UNCHANGED <<q, domain, method, prisms, regions>> /\ stage = "validating"
    BY DEF Validate
<1>2. ASSUME NEW r \in regions PROVE ~ (r.region.lo > r.region.hi)
    <2>1. r.region = Tgard(prisms[r.pair[1]], prisms[r.pair[2]])
        BY DEF IInv, RegionsInv
    <2>2. r.region.lo = 0 /\ r.region.hi = NSlices
        BY <2>1 DEF Tgard
    <2> QED BY <2>2, BoundAssumption
<1>3. stage' = IF TooFast THEN "KinematicViolation" ELSE "answered"
    BY <1>2 DEF Validate
<1>4. TooFast' = TooFast
    BY <1>1 DEF TooFast, Adjacent, Precedes, Reachable
<1>5. RegionsInv'
    BY <1>1, <1>3 DEF IInv, RegionsInv, Pairs, Meet
<1> QED BY <1>1, <1>3, <1>4, <1>5 DEF IInv, Shape, Stages, PrismsInv, Proper, GateInv, AlarmInv

LEMMA Inductive == Spec => []IInv
<1>1. ASSUME IInv, UNCHANGED vars PROVE IInv'
    <2>1. UNCHANGED <<q, domain, method, prisms, regions, stage>>
        BY <1>1 DEF vars
    <2>2. RegionsInv'
        BY <1>1, <2>1 DEF IInv, RegionsInv, Pairs, Meet
    <2>3. TooFast' = TooFast
        BY <2>1 DEF TooFast, Adjacent, Precedes, Reachable
    <2> QED BY <1>1, <2>1, <2>2, <2>3 DEF IInv, Shape, PrismsInv, Proper, GateInv, AlarmInv
<1>2. IInv /\ [Next]_vars => IInv'
    BY <1>1, ComputeIInv, FindIInv, ValidateIInv DEF Next
<1> QED BY InitIInv, <1>2, PTL DEF Spec

(* Every variable has its type. *)
THEOREM TypeCorrect == Spec => []TypeOK
<1>1. ASSUME IInv PROVE TypeOK
    <2>1. ASSUME NEW g \in regions PROVE g.pair \in Pairs /\ g.region.places \subseteq Place
        <3>1. g.pair \in Pairs /\ g.region = Tgard(prisms[g.pair[1]], prisms[g.pair[2]])
            BY <1>1 DEF IInv, RegionsInv
        <3>2. ASSUME NEW p1, NEW p2 PROVE Tgard(p1, p2).places \subseteq Place
            <4>1. \A k \in 0..NSlices : Slice(p1, p2, k) \subseteq Place
                BY DEF Slice, EllipsePolygon
            <4> QED BY <4>1 DEF Tgard
        <3> QED BY <3>1, <3>2
    <2> QED BY <1>1, <2>1 DEF IInv, Shape, Stages, PrismsInv, Proper, PrismType, TypeOK
<1> QED BY <1>1, Inductive, PTL

(* DC-TGARD returns what TGARD returns, place for place and time for time. *)
THEOREM DualConvergenceIsIdle == Spec => []ConvergenceIsIdle
<1>1. IInv => ConvergenceIsIdle
    BY DEF IInv, RegionsInv, ConvergenceIsIdle
<1> QED BY <1>1, Inductive, PTL

LEMMA SumIsNat ==
    ASSUME NEW p, Proper(p), NEW x \in Place
    PROVE  Sum(p, x) \in Nat
<1>1. Dist[p.a.at, x] \in Nat /\ Dist[x, p.b.at] \in Nat
    BY ProperTypes, DistIsNat
<1>2. \A m, n \in Nat : m + n \in Nat
    OBVIOUS
<1> QED BY <1>1, <1>2 DEF Sum

(* The lens is inside the ellipse, and with some slack inside its polygon. *)
LEMMA LensInPolygon ==
    ASSUME NEW p, Proper(p), NEW t \in Int, NEW x \in LensAt(p, t), HasSlack(p, x)
    PROVE  x \in Polygon(p)
<1>1. /\ p.v \in Nat /\ p.a.t \in Int /\ p.b.t \in Int
      /\ p.a.at \in Place /\ p.b.at \in Place /\ x \in Place
    BY ProperTypes DEF LensAt
<1>2. Reach(p, 0) = p.v * (p.b.t - p.a.t) /\ Reach(p, 0) \in Int
    <2>1. \A w \in Nat, a, b \in Int : w * (b - a) \in Int
        BY SMT
    <2> QED BY <1>1, <2>1, ReachIsConstant
<1>3. Sum(p, x) + Slack <= Reach(p, 0)
    BY <1>2 DEF HasSlack
<1>4. Sum(p, x) \in Nat /\ Slack \in Nat /\ Dist[p.a.at, p.b.at] \in Nat
    BY <1>1, SumIsNat, DistIsNat, BoundAssumption
<1>5. Sum(p, x) + Slack <= EllipseAt(p, 0)
    <2>1. \A m, n, d \in Nat, y \in Int : m + n <= y => m + n <= MaxOf(y, d)
        BY DEF MaxOf
    <2> QED BY <1>2, <1>3, <1>4, <2>1 DEF EllipseAt
<1> QED BY <1>1, <1>5 DEF Polygon, EllipsePolygon

(* A place that leaves some slack makes an ellipse with a width.           *)
LEMMA SlackIsWidth ==
    ASSUME NEW p, Proper(p), NEW x \in Place, HasSlack(p, x)
    PROVE  ~ Degenerate(p)
<1>1. p.a.at \in Place /\ p.b.at \in Place /\ Slack \in Nat \ {0}
    BY ProperTypes, BoundAssumption
<1>2. /\ Dist[p.a.at, x] \in Nat /\ Dist[x, p.b.at] \in Nat /\ Dist[p.a.at, p.b.at] \in Nat
      /\ Dist[p.a.at, p.b.at] <= Dist[p.a.at, x] + Dist[x, p.b.at]
    BY <1>1, MetricAssumption
<1>3. p.v * (p.b.t - p.a.t) \in Int
    <2>1. \A w \in Nat, a, b \in Int : w * (b - a) \in Int
        BY SMT
    <2> QED BY <2>1, ProperTypes
<1>4. \A m, n, d \in Nat, l \in Nat \ {0}, y \in Int : d <= m + n /\ m + n + l <= y => ~ (y <= d)
    OBVIOUS
<1> QED BY <1>1, <1>2, <1>3, <1>4 DEF Degenerate, HasSlack, Sum

(***************************************************************************)
(* No possible meeting of movers with some slack is missed, however the    *)
(* corners of a polygon fall within that slack of the ellipse.             *)
(***************************************************************************)
THEOREM NoMeetingMissed == Spec => []MeetingIsFound
<1>1. ASSUME IInv PROVE MeetingIsFound
    <2> SUFFICES ASSUME stage \in {"validating", "answered"}, NEW mn \in Pairs,
                        Start(prisms[mn[1]], prisms[mn[2]]) < End(prisms[mn[1]], prisms[mn[2]]),
                        NEW t \in Start(prisms[mn[1]], prisms[mn[2]])..End(prisms[mn[1]], prisms[mn[2]]),
                        NEW x \in Place,
                        CanMeet(prisms[mn[1]], prisms[mn[2]], x, t),
                        HasSlack(prisms[mn[1]], x), HasSlack(prisms[mn[2]], x)
                 PROVE  \E g \in regions :
                            /\ g.pair = mn
                            /\ x \in g.region.places
                            /\ SliceTime(prisms[mn[1]], prisms[mn[2]], g.region.lo) <= t
                            /\ t <= SliceTime(prisms[mn[1]], prisms[mn[2]], g.region.hi)
        BY DEF MeetingIsFound
    <2> DEFINE p == prisms[mn[1]]
               r == prisms[mn[2]]
    <2>1. Proper(p) /\ Proper(r) /\ domain \in Domain
        BY <1>1 DEF IInv, PrismsInv, Shape, Pairs
    <2> HIDE DEF p, r
    <2>2. t \in Int
        BY <2>1, SliceTimes DEF p, r
    <2>3. x \in Polygon(p) /\ x \in Polygon(r)
        BY <2>1, <2>2, LensInPolygon DEF CanMeet, p, r
    <2>4. x \in Tgard(p, r).places
        BY <2>1, <2>3, TgardPlaces
    <2>5. Found(method, p, r).places # {}
        BY <2>1, <2>4, FoundIsTgard
    <2>6. Meet(mn[1], mn[2]) /\ ~ Degenerate(p) /\ ~ Degenerate(r)
        BY <2>1, <2>5, SlackIsWidth DEF Meet, p, r
    <2>7. PICK g \in regions : g.pair = mn
        BY <1>1, <2>6 DEF IInv, RegionsInv, p, r
    <2>8. g.region = Tgard(p, r)
        BY <1>1, <2>7 DEF IInv, RegionsInv, p, r
    <2>9. g.region.lo = 0 /\ g.region.hi = NSlices
        BY <2>8 DEF Tgard
    <2>10. /\ SliceTime(p, r, g.region.lo) = Start(p, r)
           /\ SliceTime(p, r, g.region.hi) = End(p, r)
           /\ Start(p, r) \in Int /\ End(p, r) \in Int
        BY <2>1, <2>9, SliceTimes
    <2>11. SliceTime(p, r, g.region.lo) <= t /\ t <= SliceTime(p, r, g.region.hi)
        BY <2>10 DEF p, r
    <2> QED BY <2>4, <2>7, <2>8, <2>11 DEF p, r
<1> QED BY <1>1, Inductive, PTL

(* A polygon of a mover that can reach its end holds no place further out  *)
(* of its reach than the slack.                                            *)
LEMMA PolygonIsNear ==
    ASSUME NEW p, Proper(p), p.feasible, NEW x \in Polygon(p)
    PROVE  Sum(p, x) <= p.v * (p.b.t - p.a.t) + Slack
<1>1. /\ p.v \in Nat /\ p.a.t \in Int /\ p.b.t \in Int
      /\ p.a.at \in Place /\ p.b.at \in Place /\ x \in Place
    BY ProperTypes DEF Polygon, EllipsePolygon
<1>2. Reach(p, 0) = p.v * (p.b.t - p.a.t) /\ Reach(p, 0) \in Int
    <2>1. \A w \in Nat, a, b \in Int : w * (b - a) \in Int
        BY SMT
    <2> QED BY <1>1, <2>1, ReachIsConstant
<1>3. Sum(p, x) \in Nat /\ Slack \in Nat /\ Dist[p.a.at, p.b.at] \in Nat
    BY <1>1, SumIsNat, DistIsNat, BoundAssumption
<1>4. Dist[p.a.at, p.b.at] <= Reach(p, 0)
    BY <1>2 DEF Proper
<1>5. EllipseAt(p, 0) = Reach(p, 0)
    <2>1. \A d \in Nat, y \in Int : d <= y => MaxOf(y, d) = y
        BY DEF MaxOf
    <2> QED BY <1>2, <1>3, <1>4, <2>1 DEF EllipseAt
<1>6. Sum(p, x) + Slack <= Reach(p, 0) \/ Sum(p, x) <= Reach(p, 0) + Slack
    BY <1>5 DEF Polygon, EllipsePolygon
<1>7. Sum(p, x) <= Reach(p, 0) + Slack
    <2>1. \A m, n \in Nat, y \in Int : m + n <= y \/ m <= y + n => m <= y + n
        OBVIOUS
    <2> QED BY <1>2, <1>3, <1>6, <2>1
<1> QED BY <1>2, <1>7

(* No region shows a place out of reach of one of its movers, up to the    *)
(* slack.                                                                  *)
THEOREM RegionsAreInReach == Spec => []NothingOutOfReach
<1>1. ASSUME IInv PROVE NothingOutOfReach
    <2> SUFFICES ASSUME NEW g \in regions, NEW x \in g.region.places,
                        NEW k \in {g.pair[1], g.pair[2]}, prisms[k].feasible
                 PROVE  Sum(prisms[k], x) <= prisms[k].v * (prisms[k].b.t - prisms[k].a.t) + Slack
        BY DEF NothingOutOfReach
    <2> DEFINE p == prisms[g.pair[1]]
               r == prisms[g.pair[2]]
    <2>1. g.pair \in Pairs /\ g.region = Tgard(p, r)
        BY <1>1 DEF IInv, RegionsInv
    <2>2. Proper(p) /\ Proper(r)
        BY <1>1, <2>1 DEF IInv, PrismsInv, Pairs
    <2>3. prisms[k] = p \/ prisms[k] = r
        OBVIOUS
    <2> HIDE DEF p, r
    <2>4. x \in Polygon(p) /\ x \in Polygon(r)
        BY <2>1, <2>2, TgardPlaces
    <2> QED BY <2>2, <2>3, <2>4, PolygonIsNear
<1> QED BY <1>1, Inductive, PTL

-----------------------------------------------------------------------------
Between(k, l) == {m \in DOMAIN q : Precedes(k, m) /\ Precedes(m, l)}

Bad(k, l) == q[k].t < q[l].t /\ ~ Reachable(q[k], q[l])

(* Two legs within the tolerance make a way within the tolerance. *)
LEMMA TwoLegs ==
    ASSUME domain \in Domain, q \in Requests,
           NEW k \in DOMAIN q, NEW m \in DOMAIN q, NEW l \in DOMAIN q,
           Reachable(q[k], q[m]), Reachable(q[m], q[l])
    PROVE  Reachable(q[k], q[l])
<1> DEFINE v == VMax[domain]
           K == q[k].at
           M == q[m].at
           L == q[l].at
<1>1. v \in Nat /\ q[k].t \in Int /\ q[m].t \in Int /\ q[l].t \in Int
    BY SpeedIsNat, RequestTypes
<1>2. K \in Place /\ M \in Place /\ L \in Place
    BY RequestTypes
<1>3. /\ Dist[K, M] \in Nat /\ Dist[M, L] \in Nat /\ Dist[K, L] \in Nat
      /\ Dist[K, L] <= Dist[K, M] + Dist[M, L]
    BY <1>2, MetricAssumption
<1>4. /\ 20 * Dist[K, M] <= 21 * v * (q[m].t - q[k].t)
      /\ 20 * Dist[M, L] <= 21 * v * (q[l].t - q[m].t)
    BY DEF Reachable
<1>5. \A w \in Nat, a, b, c \in Int :
        21 * w * (b - a) + 21 * w * (c - b) = 21 * w * (c - a)
    BY SMT
<1>6. 21 * v * (q[m].t - q[k].t) + 21 * v * (q[l].t - q[m].t) = 21 * v * (q[l].t - q[k].t)
    <2> HIDE DEF v
    <2> QED BY <1>1, <1>5
<1>7. \A w \in Nat, a, b \in Int : 21 * w * (b - a) \in Int
    BY SMT
<1>8. /\ 21 * v * (q[m].t - q[k].t) \in Int /\ 21 * v * (q[l].t - q[m].t) \in Int
      /\ 21 * v * (q[l].t - q[k].t) \in Int
    <2> HIDE DEF v
    <2> QED BY <1>1, <1>7
<1>9. \A d, e, f \in Nat, x, y, z \in Int :
        d <= e + f /\ 20 * e <= x /\ 20 * f <= y /\ x + y = z => 20 * d <= z
    BY SMT
<1>10. 20 * Dist[K, L] <= 21 * v * (q[l].t - q[k].t)
    <2> HIDE DEF v, K, M, L
    <2> QED BY <1>3, <1>4, <1>6, <1>8, <1>9
<1> QED BY <1>10 DEF Reachable

(* A set of natural numbers that is not empty has a least element.         *)
LEMMA LeastNat ==
    ASSUME NEW T, T \subseteq Nat, T # {}
    PROVE  \E x \in T : \A y \in T : x <= y
<1> DEFINE R == {ss \in Nat \X Nat : ss[1] < ss[2]}
<1>1. R = OpToRel(<, Nat)
    BY Zenon DEF OpToRel
<1>2. PICK x \in T : \A y \in T : ~ (<<y, x>> \in R)
    <2> HIDE DEF R
    <2> QED BY <1>1, NatLessThanWellFounded, WFMin
<1>3. \A y \in T : ~ (y < x)
    BY <1>2
<1> QED BY <1>3

(* A pair that is too far apart has neighbours that are. *)
LEMMA NeighboursSuffice ==
    ASSUME domain \in Domain, q \in Requests, DistinctTimes, ~ TooFast,
           NEW a \in DOMAIN q, NEW b \in DOMAIN q, Bad(a, b)
    PROVE  FALSE
<1> DEFINE Size(kl) == Cardinality(Between(kl[1], kl[2]))
           Pairs2 == {kl \in (DOMAIN q) \X (DOMAIN q) : Bad(kl[1], kl[2])}
           T == {Size(kl) : kl \in Pairs2}
<1>1. IsFiniteSet(DOMAIN q)
    BY RequestTypes, FS_Interval
<1>2. \A k, l \in DOMAIN q : IsFiniteSet(Between(k, l)) /\ Cardinality(Between(k, l)) \in Nat
    BY <1>1, FS_Subset, FS_CardinalityType DEF Between
<1>3. T \subseteq Nat
    BY <1>2
<1>4. <<a, b>> \in Pairs2
    OBVIOUS
<1>5. T # {}
    BY <1>4
<1>6. PICK s \in T : \A y \in T : s <= y
    BY <1>3, <1>5, LeastNat
<1>7. PICK k \in DOMAIN q, l \in DOMAIN q : Bad(k, l) /\ s = Cardinality(Between(k, l))
    BY <1>6
<1>8. \A c, d \in DOMAIN q : Bad(c, d) => Cardinality(Between(c, d)) \in T
    <2> TAKE c, d \in DOMAIN q
    <2> HAVE Bad(c, d)
    <2>1. <<c, d>> \in Pairs2
        OBVIOUS
    <2> QED BY <2>1
<1> HIDE DEF T
<1>9. \A c \in DOMAIN q : q[c].t \in Int
    BY RequestTypes
<1>10. Precedes(k, l)
    BY <1>7 DEF Bad, Precedes
<1>11. ~ Adjacent(k, l)
    BY <1>7 DEF TooFast, Bad
<1>12. PICK m \in DOMAIN q : Precedes(k, m) /\ Precedes(m, l)
    BY <1>10, <1>11 DEF Adjacent
<1>13. q[k].t < q[m].t /\ q[m].t < q[l].t
    BY <1>12, <1>9, RequestTypes DEF Precedes, DistinctTimes
<1>a. \A x, y, z \in DOMAIN q : Precedes(x, y) /\ Precedes(y, z) => Precedes(x, z)
    <2>1. DOMAIN q \subseteq Nat
        BY RequestTypes
    <2> QED BY <1>9, <2>1 DEF Precedes
<1>b. ~ Precedes(m, m)
    <2>1. m \in Nat
        BY RequestTypes
    <2> QED BY <1>9, <2>1 DEF Precedes
<1>14. Between(k, m) \subseteq Between(k, l) /\ m \notin Between(k, m)
    BY <1>12, <1>a, <1>b DEF Between
<1>15. Between(m, l) \subseteq Between(k, l) /\ m \notin Between(m, l)
    BY <1>12, <1>a, <1>b DEF Between
<1>16. m \in Between(k, l)
    BY <1>12 DEF Between
<1>17. Cardinality(Between(k, m)) < Cardinality(Between(k, l))
    BY <1>2, <1>14, <1>16, FS_Subset
<1>18. Cardinality(Between(m, l)) < Cardinality(Between(k, l))
    BY <1>2, <1>15, <1>16, FS_Subset
<1>19. ~ Bad(k, m) /\ ~ Bad(m, l)
    BY <1>2, <1>6, <1>7, <1>8, <1>17, <1>18
<1>20. Reachable(q[k], q[m]) /\ Reachable(q[m], q[l])
    BY <1>13, <1>19 DEF Bad
<1>21. Reachable(q[k], q[l])
    BY <1>20, TwoLegs
<1> QED BY <1>7, <1>21 DEF Bad

(* Passing the gate at distinct times makes all anchors reachable. *)
THEOREM GateIsTransitive == Spec => []PassMeansReachable
<1>1. ASSUME IInv PROVE PassMeansReachable
    BY <1>1, NeighboursSuffice DEF IInv, Shape, GateInv, PassMeansReachable, Bad
<1> QED BY <1>1, Inductive, PTL

(* Reachable anchors are never refused. *)
THEOREM NoRefusalOfReachable == Spec => []NoFalseAlarm
<1>1. IInv => NoFalseAlarm
    BY DEF IInv, AlarmInv, NoFalseAlarm, TooFast
<1> QED BY <1>1, Inductive, PTL

(* Up to the slack of a polygon, no meeting is missed by either method and *)
(* no place out of reach is shown.                                         *)
THEOREM FindIsComplete == Spec => []RegionsAreComplete
<1>1. MeetingIsFound /\ NothingOutOfReach /\ ConvergenceIsIdle => RegionsAreComplete
    BY DEF RegionsAreComplete
<1> QED BY <1>1, NoMeetingMissed, RegionsAreInReach, DualConvergenceIsIdle, PTL

(* The gate accepts what is reachable and, at distinct times, nothing else. *)
THEOREM GateDecides == Spec => []GateIsExact
<1>1. PassMeansReachable /\ NoFalseAlarm => GateIsExact
    BY DEF GateIsExact
<1> QED BY <1>1, GateIsTransitive, NoRefusalOfReachable, PTL

-----------------------------------------------------------------------------
(***************************************************************************)
(* LiveCheck: for any number of polls.                                     *)
(***************************************************************************)
Places == {"launch", "goto", "button", "typing", "typed", "click", "poll", "panels", "frame",
           "verdict", "judged", "over"}

CheckTypes ==
    /\ page \in {"down", "loading", "idle", "running", "again",
                "map", "validator", "cost", "result", "error"}
    /\ at \in Places /\ map \in {"none", "loading", "drawn", "fitted"}
    /\ now \in 0..Deadline /\ drawnAt \in 0..(Deadline + 1)
    /\ code \in {Check!None, 0, 1, 2, 3, 4, 125}
    /\ saw \subseteq Check!Required
    /\ code # Check!None <=> at \in {"over", "judged"}
    /\ saw # {} => page \notin {"down", "loading", "idle", "running", "error"}
    /\ gone \subseteq {"gaps_detected"}

(* When the result came, and what the script makes of it.                  *)
Clocked ==
    /\ at \in {"launch", "goto", "button", "typing", "typed", "click"} =>
           page \in {"down", "loading", "idle"} /\ saw = {}
    /\ at \in {"panels", "frame", "verdict", "judged"} =>
           page \notin {"down", "loading", "idle", "running", "error"}
    /\ page # "result" => drawnAt = Deadline + 1
    /\ at = "poll" => saw = {} /\ (page = "result" => drawnAt = now)
    /\ at \in {"launch", "goto", "button", "typing", "typed", "click", "poll"} => gone = {}
    /\ at = "panels" /\ gone = {} => page = "result"
    /\ code = 4 => at = "over" /\ now = Deadline /\ drawnAt >= Deadline

(* What has been read is there, and what is there has been read, panel by  *)
(* panel; the frame was read at one moment.                                *)
ReadOff ==
    /\ map # "none" => "map" \in facts
    /\ at \in {"panels", "frame", "verdict", "judged"} =>
           \A x \in {"n_gaps", "agm"} : x \in saw <=> x \in facts
    /\ at = "panels" => saw \subseteq {"n_gaps", "agm"}
    /\ at = "frame" => saw \subseteq {"n_gaps", "agm", "gaps_detected"}
    /\ at \in {"frame", "verdict", "judged"} =>
           /\ "gaps_detected" \in saw => "n_gaps" \in facts
           /\ "n_gaps" \in facts => "gaps_detected" \in saw \cup gone
    /\ at \in {"verdict", "judged"} =>
           /\ "zoom" \in saw => "map" \in facts
           /\ "zoom" \in saw => "frame" \in saw /\ "circle" \in saw
           /\ "zoom" \in saw => ("polyline" \in saw <=> "track" \in facts)
    /\ at = "judged" => /\ code \in {0, 1}
                        /\ code = 0 <=> Check!Required \subseteq saw

CheckInv == CheckTypes /\ Clocked /\ ReadOff

LEMMA PollsAreNat == Deadline \in Nat \ {0}
BY CheckIsKnown DEF Check!LiveCheckAssumption

LEMMA CheckBegins == Check!Init => CheckInv
BY PollsAreNat DEF Check!Init, CheckInv, CheckTypes, Clocked, ReadOff, Places, Check!None

(* What the script has seen, once it has looked at the validator's panel,  *)
(* which stands or does not                                                *)
LEMMA PanelsAdd ==
    \A old, new, stands : old \subseteq {"n_gaps", "agm"}
                      /\ new = old \cup {x \in {"gaps_detected"} : stands} =>
        /\ new \subseteq {"n_gaps", "agm", "gaps_detected"}
        /\ "gaps_detected" \in new <=> stands
        /\ \A x \in {"n_gaps", "agm"} : x \in new <=> x \in old
<1> TAKE old, new, stands
<1> HAVE old \subseteq {"n_gaps", "agm"}
         /\ new = old \cup {x \in {"gaps_detected"} : stands}
<1>1. "gaps_detected" \notin old
    OBVIOUS
<1>2. "gaps_detected" \in new <=> stands
    BY <1>1
<1>3. \A x \in {"n_gaps", "agm"} : x \in new <=> x \in old
    OBVIOUS
<1>4. new \subseteq {"n_gaps", "agm", "gaps_detected"}
    OBVIOUS
<1> QED BY <1>2, <1>3, <1>4

Stands == "n_gaps" \in facts /\ page \in {"validator", "cost", "result"}

LEMMA PanelsAdded ==
    ASSUME saw \subseteq {"n_gaps", "agm"},
           saw' = saw \cup {x \in {"gaps_detected"} : Stands}
    PROVE  /\ saw' \subseteq {"n_gaps", "agm", "gaps_detected"}
           /\ "gaps_detected" \in saw' <=> Stands
           /\ \A x \in {"n_gaps", "agm"} : x \in saw' <=> x \in saw
BY PanelsAdd

LEMMA CheckStep == CheckInv /\ [Check!Next]_checkVars => CheckInv'
<1> SUFFICES ASSUME CheckInv, [Check!Next]_checkVars PROVE CheckInv'
    OBVIOUS
<1> USE PollsAreNat DEF CheckInv, CheckTypes, Clocked, ReadOff, Places, Check!None, Check!Required,
        Check!demo, Check!script, Check!Goto, Check!Exit
<1>1. CASE UNCHANGED checkVars
    BY <1>1 DEF checkVars
<1>2. CASE Check!Load
    BY <1>2 DEF Check!Load
<1>3. CASE Check!PresetTakes
    BY <1>3 DEF Check!PresetTakes
<1>4. CASE Check!DrawPanel
    BY <1>4 DEF Check!DrawPanel
<1>5. CASE Check!DrawMap
    BY <1>5 DEF Check!DrawMap
<1>18. CASE Check!Rerun
    <2>1. /\ page \in {"map", "validator", "cost", "result"} /\ page' = "again"
          /\ map' \in {"none", map} /\ drawnAt' = Deadline + 1
          /\ UNCHANGED <<facts, at, now, saw, code>>
        BY <1>18 DEF Check!Rerun
    <2>2. gone' = gone \cup {x \in {"gaps_detected"} : at = "panels"} /\ gone \subseteq {"gaps_detected"}
        BY <1>18 DEF Check!Rerun
    <2>3. /\ gone' \subseteq {"gaps_detected"} /\ gone \subseteq gone'
          /\ at = "panels" => gone' # {}
          /\ at # "panels" => gone' = gone
        <3>1. CASE at = "panels"
            <4>1. gone' = gone \cup {"gaps_detected"}
                BY <2>2, <3>1
            <4> QED BY <2>2, <3>1, <4>1
        <3>2. CASE at # "panels"
            <4>1. gone' = gone
                BY <2>2, <3>2
            <4> QED BY <2>2, <3>2, <4>1
        <3> QED BY <3>1, <3>2
    <2>4. CheckTypes'
        <3>1. map' \in {"none", "loading", "drawn", "fitted"}
            BY <2>1
        <3>2. drawnAt' \in 0..(Deadline + 1) /\ now' \in 0..Deadline
            BY <2>1
        <3>3. saw' \subseteq Check!Required /\ (code' # Check!None <=> at' \in {"over", "judged"})
            BY <2>1
        <3>4. code' \in {Check!None, 0, 1, 2, 3, 4, 125} /\ at' \in Places
            BY <2>1
        <3> QED BY <2>1, <2>3, <3>1, <3>2, <3>3, <3>4
    <2>5. Clocked'
        <3>1. at' \notin {"launch", "goto", "button", "typing", "typed", "click"}
            BY <2>1
        <3>2. page' \notin {"down", "loading", "idle", "running", "error"} /\ page' # "result"
            BY <2>1
        <3>3. at' = "poll" => saw' = {} /\ gone' = {}
            BY <2>1, <2>3
        <3>4. ~ (at' = "panels" /\ gone' = {})
            BY <2>1, <2>3
        <3>5. drawnAt' = Deadline + 1 /\ (code' = 4 => at' = "over" /\ now' = Deadline)
            BY <2>1
        <3>6. drawnAt' >= Deadline
            BY <3>5
        <3> QED BY <3>1, <3>2, <3>3, <3>4, <3>5, <3>6
    <2>6. ReadOff'
        BY <2>1, <2>3
    <2> QED BY <2>4, <2>5, <2>6
<1>6. CASE Check!Launch
    BY <1>6 DEF Check!Launch
<1>7. CASE Check!Navigate
    BY <1>7 DEF Check!Navigate
<1>8. CASE Check!WaitForButton
    BY <1>8 DEF Check!WaitForButton
<1>9. CASE Check!TypePreset
    BY <1>9 DEF Check!TypePreset
<1>10. CASE Check!ReadPreset
    BY <1>10 DEF Check!ReadPreset
<1>11. CASE Check!ClickRun
    BY <1>11 DEF Check!ClickRun
<1>12. CASE Check!Poll
    <2>1. CASE Check!Found
        BY <1>12, <2>1 DEF Check!Poll, Check!Found
    <2>2. CASE ~Check!Found
        <3>1. now' = now + 1 /\ now < Deadline
            <4>1. \A k \in 0..(Deadline - 1) : (k + 1) % (Deadline + 1) = k + 1
                OBVIOUS
            <4> QED BY <1>12, <2>2, <4>1 DEF Check!Poll, Check!InTime
        <3>2. /\ at = "poll" /\ at' = "poll" /\ saw' = saw /\ code' = code /\ page # "result"
              /\ UNCHANGED <<page, facts, map, drawnAt, gone>>
            BY <1>12, <2>2 DEF Check!Poll, Check!Found
        <3>3. now' \in 0..Deadline
            BY <3>1
        <3>4. CheckTypes'
            BY <3>2, <3>3
        <3>5. Clocked'
            BY <3>2
        <3>6. ReadOff'
            BY <3>2
        <3> QED BY <3>4, <3>5, <3>6
    <2> QED BY <2>1, <2>2
<1>13. CASE Check!PollsEnd
    BY <1>13 DEF Check!PollsEnd, Check!InTime
<1>14. CASE Check!ReadPanels
    <2>1. /\ at = "panels" /\ at' = "frame" /\ code' = code
          /\ page \notin {"down", "loading", "idle", "running", "error"}
          /\ gone # {} \/ page = "result"
          /\ gone \subseteq {"gaps_detected"}
          /\ UNCHANGED <<page, facts, map, now, drawnAt, gone>>
          /\ saw \subseteq {"n_gaps", "agm"}
          /\ saw' = saw \cup {x \in {"gaps_detected"} : Stands}
        BY <1>14 DEF Check!ReadPanels, Stands
    <2>2. /\ saw' \subseteq {"n_gaps", "agm", "gaps_detected"}
          /\ "gaps_detected" \in saw' => "n_gaps" \in facts
          /\ "n_gaps" \in facts => "gaps_detected" \in saw' \cup gone
          /\ \A x \in {"n_gaps", "agm"} : x \in saw' <=> x \in saw
        BY <2>1, PanelsAdded DEF Stands
    <2>3. CheckTypes' /\ Clocked'
        BY <2>1, <2>2
    <2>4. ReadOff'
        BY <2>1, <2>2
    <2> QED BY <2>3, <2>4
<1>15. CASE Check!InspectMap
    <2>1. /\ at = "frame" /\ at' = "verdict" /\ code' = code
          /\ page \notin {"down", "loading", "idle", "running", "error"}
          /\ UNCHANGED <<page, facts, map, now, drawnAt, gone>>
          /\ saw \subseteq {"n_gaps", "agm", "gaps_detected"}
          /\ saw' = saw \cup {x \in {"frame", "circle"} : map \in {"drawn", "fitted"}}
                        \cup {x \in {"polyline"} : map \in {"drawn", "fitted"} /\ "track" \in facts}
                        \cup {x \in {"zoom"} : map = "fitted"}
        BY <1>15 DEF Check!InspectMap
    <2>2. /\ saw' \subseteq Check!Required
          /\ \A x \in {"n_gaps", "agm", "gaps_detected"} : x \in saw' <=> x \in saw
        BY <2>1
    <2>3. /\ "zoom" \in saw' <=> map = "fitted"
          /\ "polyline" \in saw' <=> map \in {"drawn", "fitted"} /\ "track" \in facts
          /\ map \in {"drawn", "fitted"} => "frame" \in saw' /\ "circle" \in saw'
        BY <2>1
    <2>4. CheckTypes' /\ Clocked'
        BY <2>1, <2>2
    <2>5. ReadOff'
        BY <2>1, <2>2, <2>3
    <2> QED BY <2>4, <2>5
<1>16. CASE Check!Verdict
    BY <1>16 DEF Check!Verdict
<1>17. CASE Check!ElementGone
    BY <1>17 DEF Check!ElementGone
<1> QED BY <1>1, <1>2, <1>3, <1>4, <1>5, <1>6, <1>7, <1>8, <1>9, <1>10, <1>11, <1>12, <1>13,
            <1>14, <1>15, <1>16, <1>17, <1>18 DEF Check!Next, Check!PageStep, Check!ScriptStep

(* For any deadline, and however often the page draws its result again:    *)
(* PASS is deserved, FAIL is but for panels taken away between two reads,  *)
(* and a result that stands before the last poll is not called missing     *)
(* (verify_live_space.py).                                                 *)
THEOREM VerdictsAreDeserved ==
    Check!Spec => [](Check!TypeOK /\ Check!VerdictIsExact /\ Check!ResultInTimeIsSeen)
<1>1. CheckInv => Check!TypeOK
    BY DEF CheckInv, CheckTypes, Check!TypeOK
<1>2. CheckInv => Check!VerdictIsExact
    BY DEF CheckInv, CheckTypes, ReadOff, Check!VerdictIsExact, Check!Required
<1>3. CheckInv => Check!ResultInTimeIsSeen
    BY DEF CheckInv, Clocked, Check!ResultInTimeIsSeen
<1>4. [Check!Next]_Check!vars => [Check!Next]_checkVars
    BY DEF Check!vars, Check!demo, Check!script, checkVars
<1> QED BY <1>1, <1>2, <1>3, <1>4, CheckBegins, CheckStep, PTL DEF Check!Spec

-----------------------------------------------------------------------------
(***************************************************************************)
(* DemoPage: for any number of sessions, questions, plans and clicks.      *)
(***************************************************************************)
(* What Lists says of one node, given its answers for the others           *)
ListOf(p, met, f, k) ==
    IF p[k].kind \in {"TGARD", "DC_TGARD"}
      THEN IF met /\ Page!Cardinality({d \in p[k].deps : p[d].kind = "PRISM"}) > 1
             THEN {k} ELSE {}
      ELSE IF p[k].kind = "VALIDATE" THEN UNION {f[d] : d \in p[k].deps}
      ELSE {}

LEMMA PlansAreOrdered ==
    ASSUME NEW p \in Plans
    PROVE  Len(p) \in Nat /\ \A k \in 1..Len(p) : p[k].deps \subseteq 1..(k - 1)
BY PageIsKnown DEF Page!PageAssumption

(* The recursion over a plan has a solution, and Lists is one.             *)
LEMMA ListsUnfold ==
    ASSUME NEW p \in Plans, NEW met \in BOOLEAN
    PROVE  \A k \in 1..Len(p) : Page!Lists(p, met)[k] = ListOf(p, met, Page!Lists(p, met), k)
<1> DEFINE n == Len(p)
           Has(m) == \E f : f = [k \in 1..m |-> ListOf(p, met, f, k)]
           T == {m \in 0..n : ~Has(m)}
<1>1. n \in Nat /\ \A k \in 1..n : p[k].deps \subseteq 1..(k - 1)
    BY PlansAreOrdered
<1>2. ASSUME NEW k \in 1..n, NEW f, NEW g, \A d \in 1..(k - 1) : f[d] = g[d]
      PROVE  ListOf(p, met, f, k) = ListOf(p, met, g, k)
    <2>1. \A d \in p[k].deps : f[d] = g[d]
        BY <1>1, <1>2
    <2>2. {f[d] : d \in p[k].deps} = {g[d] : d \in p[k].deps}
        BY <2>1
    <2> QED BY <2>2 DEF ListOf
<1> HIDE DEF n
<1>3. Has(0)
    <2>1. [k \in 1..0 |-> {}] = [k \in 1..0 |-> ListOf(p, met, [j \in 1..0 |-> {}], k)]
        BY \A k \in 1..0 : FALSE
    <2> QED BY <2>1
<1>4. ASSUME NEW m \in 1..n, Has(m - 1) PROVE Has(m)
    <2>1. PICK f : f = [k \in 1..(m - 1) |-> ListOf(p, met, f, k)]
        BY <1>4
    <2> DEFINE h == [k \in 1..m |-> ListOf(p, met, f, k)]
    <2>2. \A k \in 1..(m - 1) : k \in 1..m /\ h[k] = f[k]
        <3>1. \A k \in 1..(m - 1) : k \in 1..m /\ f[k] = ListOf(p, met, f, k)
            BY <1>1, <2>1
        <3> QED BY <3>1
    <2>3. ASSUME NEW k \in 1..m PROVE ListOf(p, met, h, k) = ListOf(p, met, f, k)
        <3>1. k \in 1..n /\ \A d \in 1..(k - 1) : d \in 1..(m - 1)
            BY <1>1
        <3> HIDE DEF h
        <3> QED BY <1>2, <2>2, <3>1
    <2>4. h = [k \in 1..m |-> ListOf(p, met, h, k)]
        <3> DEFINE e == [k \in 1..m |-> ListOf(p, met, h, k)]
        <3>1. \A k \in 1..m : e[k] = h[k]
            BY <2>3
        <3> QED BY <2>3
    <2> HIDE DEF h
    <2> QED BY <2>4
<1>5. Has(n)
    <2> SUFFICES ASSUME ~Has(n) PROVE FALSE
        OBVIOUS
    <2> HIDE DEF Has
    <2>1. T \subseteq Nat /\ T # {}
        BY <1>1
    <2>2. PICK m \in T : \A x \in T : m <= x
        BY <2>1, LeastNat
    <2>3. m # 0
        BY <1>3, <2>2
    <2>4. m \in 1..n /\ m - 1 \in 0..n /\ m - 1 \notin T
        BY <1>1, <2>2, <2>3
    <2> QED BY <1>4, <2>2, <2>4
<1> DEFINE F == CHOOSE f : f = [k \in 1..n |-> ListOf(p, met, f, k)]
<1>6. F = [k \in 1..n |-> ListOf(p, met, F, k)]
    <2>1. \E f : f = [k \in 1..n |-> ListOf(p, met, f, k)]
        BY <1>5
    <2> QED BY <2>1
<1>7. Page!Lists(p, met) = F
    BY DEF Page!Lists, ListOf, n
<1> HIDE DEF F
<1> QED BY <1>6, <1>7 DEF n

(* A region that a plan with a validator shows, one of its validators had  *)
(* from a node it depends on: through a chain of validators, the first.    *)
LEMMA RegionsAreGated ==
    ASSUME NEW p \in Plans, NEW met \in BOOLEAN, Page!Validators(p) # {},
           NEW r \in Page!Regions(p, met)
    PROVE  \E w \in Page!Validators(p) : r \in p[w].deps
<1> DEFINE L == Page!Lists(p, met)
           T == {k \in Page!Validators(p) : r \in L[k]}
<1>1. Len(p) \in Nat /\ \A k \in 1..Len(p) : p[k].deps \subseteq 1..(k - 1)
    BY PlansAreOrdered
<1>2. \A k \in 1..Len(p) : L[k] = ListOf(p, met, L, k)
    BY ListsUnfold
<1> HIDE DEF L
<1>3. T \subseteq Nat /\ T # {}
    BY <1>1 DEF Page!Regions, Page!Validators, L
<1>4. PICK k \in T : \A x \in T : k <= x
    BY <1>3, LeastNat
<1>5. k \in 1..Len(p) /\ p[k].kind = "VALIDATE" /\ r \in L[k]
    BY <1>4 DEF Page!Validators
<1>6. PICK d \in p[k].deps : r \in L[d]
    <2>1. L[k] = UNION {L[d] : d \in p[k].deps}
        BY <1>2, <1>5 DEF ListOf
    <2> QED BY <1>5, <2>1
<1>7. d \in 1..Len(p) /\ d < k
    BY <1>1, <1>5, <1>6
<1>8. p[d].kind # "VALIDATE"
    BY <1>1, <1>4, <1>5, <1>6, <1>7 DEF Page!Validators
<1>9. r = d
    BY <1>2, <1>6, <1>7, <1>8 DEF ListOf
<1> QED BY <1>5, <1>6, <1>9 DEF Page!Validators

LEMMA RegionsAreNodes ==
    ASSUME NEW p \in Plans, NEW met \in BOOLEAN
    PROVE  Page!Regions(p, met) \subseteq Nat
<1> DEFINE L == Page!Lists(p, met)
           T == {k \in 1..Len(p) : ~(L[k] \subseteq Nat)}
<1>1. Len(p) \in Nat /\ \A k \in 1..Len(p) : p[k].deps \subseteq 1..(k - 1)
    BY PlansAreOrdered
<1>2. \A k \in 1..Len(p) : L[k] = ListOf(p, met, L, k)
    BY ListsUnfold
<1> HIDE DEF L
<1>3. T = {}
    <2> SUFFICES ASSUME T # {} PROVE FALSE
        OBVIOUS
    <2>1. PICK k \in T : \A x \in T : k <= x
        <3>1. T \subseteq Nat
            BY <1>1
        <3> QED BY <3>1, LeastNat
    <2>2. \A d \in p[k].deps : L[d] \subseteq Nat
        <3>1. ASSUME NEW d \in p[k].deps PROVE d \in 1..Len(p) /\ d < k /\ k \in Int
            BY <1>1, <2>1
        <3> QED BY <2>1, <3>1
    <2>3. ListOf(p, met, L, k) \subseteq Nat
        BY <1>1, <2>1, <2>2 DEF ListOf
    <2> QED BY <1>2, <2>1, <2>3
<1>4. \A k \in 1..Len(p) : L[k] \subseteq Nat
    BY <1>3
<1> QED BY <1>4 DEF Page!Regions, Page!Validators, L

Costs == [run : Page!Run, hit : BOOLEAN]
Loops == [run : Page!Run, awaited : BOOLEAN, plan : Plans \cup {Nobody}]
HasResult == {"storing", "naming", "drawing"}

PageTypes ==
    /\ Page!TypeOK
    /\ clicks \in [Session -> Nat] /\ touches \in [Session -> Nat] /\ runs \in [Session -> Nat]

(* A result of session s, of the plan that cache c has for its question.   *)
Good(c, s, r) ==
    /\ r.run.of = s /\ c[QuestionOf[r.run.query]] = r.plan
    /\ Page!Validators(r.plan) # {} =>
           \A g \in r.regions : \E w \in Page!Validators(r.plan) : g \in r.plan[w].deps

IsOwn(s) ==
    /\ pc[s] \in HasResult =>
           out[s] \in Page!Result /\ Good(cache, s, out[s]) /\ pageQ[s] \in Query /\ cost \in Costs
    /\ lastOut[s] # Nobody => Good(cache, s, lastOut[s]) /\ cost \in Costs
    /\ shown[s] # Nobody => Good(cache, s, shown[s].out)
    /\ runs[s] <= clicks[s]
    /\ pc[s] = "started" /\ asked[s] # Nobody => runs[s] < clicks[s]

PageInv ==
    /\ PageTypes /\ \A s \in Session : IsOwn(s)
    /\ loop # Nobody /\ loop.plan # Nobody =>
           cache[QuestionOf[loop.run.query]] = loop.plan /\ cost \in Costs

LEMMA PageConstants ==
    /\ Nobody \notin Plans /\ QuestionOf \in [Query -> Page!Question]
    /\ MaxClicks \in [Session -> Nat] /\ MaxTouches \in [Session -> Nat]
BY PageIsKnown DEF Page!PageAssumption

LEMMA TypesUnfold ==
    ASSUME PageTypes
    PROVE  /\ pc \in [Session -> Page!Settled \cup {"started", "running", "storing", "naming", "drawing"}]
           /\ asked \in [Session -> Page!Run \cup {Nobody}]
           /\ out \in [Session -> Page!Result \cup {Nobody}]
           /\ lastOut \in [Session -> Page!Result \cup {Nobody}]
           /\ pageQ \in [Session -> Query \cup {Nobody}] /\ lastQ \in [Session -> Query \cup {Nobody}]
           /\ torn \in SUBSET Session
           /\ returned \in [Session -> Page!Result \cup {Nobody}]
           /\ shown \in [Session -> [out : Page!Result, q : Query, cost : Costs] \cup {Nobody}]
           /\ loop \in Loops \cup {Nobody} /\ cost \in Costs \cup {Nobody}
           /\ cache \in [Page!Question -> Plans \cup {Nobody}]
           /\ clicks \in [Session -> Nat] /\ touches \in [Session -> Nat] /\ runs \in [Session -> Nat]
BY DEF PageTypes, Page!TypeOK, Costs, Loops

LEMMA PageBegins == Page!Init => PageInv
<1> SUFFICES ASSUME Page!Init PROVE PageInv
    OBVIOUS
<1>1. PageTypes
    BY DEF Page!Init, PageTypes, Page!TypeOK, Page!Settled
<1>2. \A s \in Session : IsOwn(s)
    BY DEF Page!Init, IsOwn, HasResult
<1> QED BY <1>1, <1>2 DEF PageInv, Page!Init

(* The plan of a question is stored once and for all.                      *)
LEMMA GoodStays ==
    ASSUME PageTypes, NEW s \in Session, NEW r \in Page!Result, Good(cache, s, r), NEW c,
           \A k \in Page!Question : cache[k] # Nobody => c[k] = cache[k]
    PROVE  Good(c, s, r)
<1>1. r.plan \in Plans /\ r.run \in Page!Run /\ r.run.query \in Query
    BY DEF Page!Result, Page!Run
<1>2. QuestionOf[r.run.query] \in Page!Question /\ r.plan # Nobody
    BY <1>1, PageConstants
<1> QED BY <1>2 DEF Good

(* A session keeps what it has when a step gives it no new result.         *)
LEMMA OwnStays ==
    ASSUME PageInv, NEW s \in Session,
           \A k \in Page!Question : cache[k] # Nobody => cache'[k] = cache[k],
           cost \in Costs => cost' \in Costs,
           pc'[s] \in HasResult => pc[s] \in HasResult,
           out'[s] = out[s], pageQ'[s] = pageQ[s],
           lastOut'[s] = lastOut[s] \/ (pc[s] \in HasResult /\ lastOut'[s] = out[s]),
           shown'[s] = shown[s] \/ shown'[s] = Nobody,
           runs'[s] <= clicks'[s],
           pc'[s] = "started" /\ asked'[s] # Nobody => runs'[s] < clicks'[s]
    PROVE  IsOwn(s)'
<1>1. IsOwn(s) /\ PageTypes
    BY DEF PageInv
<1>2. pc'[s] \in HasResult => out[s] \in Page!Result /\ Good(cache', s, out[s])
    BY <1>1, GoodStays DEF IsOwn
<1>3. lastOut'[s] # Nobody => Good(cache', s, lastOut'[s]) /\ cost' \in Costs
    <2>1. CASE lastOut'[s] = lastOut[s]
        <3>1. lastOut[s] # Nobody => lastOut[s] \in Page!Result
            BY <1>1, TypesUnfold
        <3> QED BY <1>1, <2>1, <3>1, GoodStays DEF IsOwn
    <2>2. CASE pc[s] \in HasResult /\ lastOut'[s] = out[s]
        BY <1>1, <2>2, GoodStays DEF IsOwn
    <2> QED BY <2>1, <2>2
<1>4. shown'[s] # Nobody => Good(cache', s, shown'[s].out)
    <2>1. shown[s] # Nobody => shown[s].out \in Page!Result
        BY <1>1, TypesUnfold
    <2> QED BY <1>1, <2>1, GoodStays DEF IsOwn
<1> QED BY <1>1, <1>2, <1>3, <1>4 DEF IsOwn

(* A click or another interaction                                          *)
LEMMA RerunStep ==
    ASSUME PageInv, NEW s \in Session, NEW r \in Page!Run \cup {Nobody}, Page!Rerun(s, r),
           clicks' \in [Session -> Nat], touches' \in [Session -> Nat],
           \A t \in Session : clicks'[t] >= clicks[t],
           r # Nobody => clicks'[s] > clicks[s]
    PROVE  PageInv'
<1>1. /\ PageTypes /\ \A t \in Session : IsOwn(t)
      /\ pc' = [pc EXCEPT ![s] = "started"] /\ asked' = [asked EXCEPT ![s] = r]
      /\ shown' = [shown EXCEPT ![s] = Nobody]
      /\ UNCHANGED <<out, pageQ, lastOut, lastQ, cost, cache, runs, returned>>
      /\ torn' = torn \cup {x \in {s} : pc[x] = "naming"}
      /\ loop' = loop \/ (loop # Nobody /\ loop' = [loop EXCEPT !.awaited = FALSE])
    BY DEF PageInv, Page!Rerun, Page!locals, Page!stored
<1>2. PageTypes'
    <2>1. /\ pc' \in [Session -> Page!Settled \cup {"started", "running", "storing", "naming", "drawing"}]
          /\ asked' \in [Session -> Page!Run \cup {Nobody}]
          /\ shown' \in [Session -> [out : Page!Result, q : Query, cost : Costs] \cup {Nobody}]
        BY <1>1, TypesUnfold
    <2>2. loop' \in Loops \cup {Nobody} /\ torn' \in SUBSET Session
        BY <1>1, TypesUnfold DEF Loops
    <2> QED BY <1>1, <2>1, <2>2, TypesUnfold DEF PageTypes, Page!TypeOK, Costs, Loops
<1>3. ASSUME NEW t \in Session PROVE IsOwn(t)'
    <2>1. runs[t] \in Nat /\ clicks[t] \in Nat /\ clicks'[t] \in Nat /\ runs[t] <= clicks[t]
        BY <1>1, TypesUnfold DEF IsOwn
    <2>2. /\ pc'[t] = IF t = s THEN "started" ELSE pc[t]
          /\ asked'[t] = IF t = s THEN r ELSE asked[t]
          /\ shown'[t] = IF t = s THEN Nobody ELSE shown[t]
        BY <1>1, TypesUnfold
    <2>3. pc'[t] = "started" /\ asked'[t] # Nobody => runs'[t] < clicks'[t]
        BY <1>1, <2>1, <2>2 DEF IsOwn
    <2>4. pc'[t] \in HasResult => pc[t] \in HasResult
        BY <2>2 DEF HasResult
    <2> QED BY <1>1, <2>1, <2>2, <2>3, <2>4, OwnStays
<1>4. loop' # Nobody /\ loop'.plan # Nobody =>
          cache'[QuestionOf[loop'.run.query]] = loop'.plan /\ cost' \in Costs
    <2>1. loop' # Nobody => loop # Nobody /\ loop'.plan = loop.plan /\ loop'.run = loop.run
        BY <1>1, TypesUnfold DEF Loops
    <2> QED BY <1>1, <2>1 DEF PageInv
<1> QED BY <1>2, <1>3, <1>4 DEF PageInv

(* A script's own steps: each changes its session only.                    *)
LEMMA ClickStep == ASSUME PageInv, NEW s \in Session, Page!Click(s) PROVE PageInv'
<1>1. PageTypes
    BY DEF PageInv
<1>2. PICK k \in Query : Page!Rerun(s, [of |-> s, query |-> k, click |-> clicks'[s]])
    BY DEF Page!Click
<1>3. clicks' = [clicks EXCEPT ![s] = @ + 1] /\ touches' = touches
    BY DEF Page!Click
<1>4. /\ clicks' \in [Session -> Nat] /\ touches' \in [Session -> Nat]
      /\ \A t \in Session : clicks'[t] >= clicks[t]
      /\ clicks'[s] > clicks[s]
    BY <1>1, <1>3, TypesUnfold
<1>5. [of |-> s, query |-> k, click |-> clicks'[s]] \in Page!Run
    BY <1>2, <1>4 DEF Page!Run
<1> QED BY <1>2, <1>4, <1>5, RerunStep

LEMMA TouchStep == ASSUME PageInv, NEW s \in Session, Page!Touch(s) PROVE PageInv'
<1>1. PageTypes
    BY DEF PageInv
<1>2. /\ Page!Rerun(s, Nobody)
      /\ touches' = [touches EXCEPT ![s] = @ + 1] /\ clicks' = clicks
    BY DEF Page!Touch
<1>3. /\ clicks' \in [Session -> Nat] /\ touches' \in [Session -> Nat]
      /\ \A t \in Session : clicks'[t] >= clicks[t]
    BY <1>1, <1>2, TypesUnfold
<1> QED BY <1>2, <1>3, RerunStep

LEMMA ResumeStep == ASSUME PageInv, NEW s \in Session, Page!Resume(s) PROVE PageInv'
<1>1. /\ PageTypes /\ \A t \in Session : IsOwn(t)
      /\ pc[s] = "started" /\ asked[s] = Nobody
      /\ out' = [out EXCEPT ![s] = lastOut[s]] /\ pageQ' = [pageQ EXCEPT ![s] = lastQ[s]]
      /\ UNCHANGED <<asked, lastOut, lastQ, torn, shown, loop, cost, cache,
                     clicks, touches, runs, returned>>
    BY DEF PageInv, Page!Resume, Page!stored, Page!shared, Page!counts
<1>2. PICK where \in {"intro", "error", "drawing"} :
          /\ pc' = [pc EXCEPT ![s] = where]
          /\ where = "drawing" => lastOut[s] # Nobody /\ lastQ[s] # Nobody
    BY DEF Page!Resume, Page!Goto
<1>3. PageTypes'
    <2>1. /\ pc' \in [Session -> Page!Settled \cup {"started", "running", "storing", "naming", "drawing"}]
          /\ out' \in [Session -> Page!Result \cup {Nobody}]
          /\ pageQ' \in [Session -> Query \cup {Nobody}]
        BY <1>1, <1>2, TypesUnfold DEF Page!Settled
    <2> QED BY <1>1, <2>1, TypesUnfold DEF PageTypes, Page!TypeOK, Costs, Loops
<1>4. ASSUME NEW t \in Session PROVE IsOwn(t)'
    <2>1. /\ pc'[t] = IF t = s THEN where ELSE pc[t]
          /\ out'[t] = IF t = s THEN lastOut[t] ELSE out[t]
          /\ pageQ'[t] = IF t = s THEN lastQ[t] ELSE pageQ[t]
        BY <1>1, <1>2, TypesUnfold
    <2>2. CASE t # s
        <3>1. runs'[t] <= clicks'[t] /\ (pc'[t] = "started" /\ asked'[t] # Nobody => runs'[t] < clicks'[t])
            BY <1>1, <2>1, <2>2 DEF IsOwn
        <3> QED BY <1>1, <2>1, <2>2, <3>1, OwnStays
    <2>3. CASE t = s
        <3>1. lastOut[s] \in Page!Result \cup {Nobody} /\ lastQ[s] \in Query \cup {Nobody}
            BY <1>1, TypesUnfold
        <3>2. IsOwn(s) /\ cache' = cache /\ cost' = cost /\ lastOut' = lastOut /\ shown' = shown
            BY <1>1
        <3>3. pc'[s] \in HasResult =>
                  /\ out'[s] \in Page!Result /\ Good(cache', s, out'[s])
                  /\ pageQ'[s] \in Query /\ cost' \in Costs
            <4>1. pc'[s] \in HasResult => where = "drawing"
                BY <1>2, <2>1, <2>3 DEF HasResult
            <4> QED BY <1>2, <2>1, <2>3, <3>1, <3>2, <4>1 DEF IsOwn
        <3>4. runs'[s] <= clicks'[s] /\ (pc'[s] = "started" /\ asked'[s] # Nobody => runs'[s] < clicks'[s])
            BY <1>1, <3>2 DEF IsOwn
        <3> QED BY <2>3, <3>2, <3>3, <3>4 DEF IsOwn
    <2> QED BY <2>2, <2>3
<1> QED BY <1>1, <1>3, <1>4 DEF PageInv

(* A step of session s that gives its script nothing new to show           *)
LEMMA QuietStep ==
    ASSUME PageInv, NEW s \in Session, NEW where \in Page!Settled \cup {"running", "naming", "drawing"},
           pc' = [pc EXCEPT ![s] = where],
           where \in HasResult => pc[s] \in HasResult,
           UNCHANGED <<asked, out, pageQ, shown, cost, cache, clicks, touches, returned>>,
           lastOut' = lastOut \/ (pc[s] \in HasResult /\ lastOut' = [lastOut EXCEPT ![s] = out[s]]),
           lastQ' = lastQ \/ (pc[s] \in HasResult /\ lastQ' = [lastQ EXCEPT ![s] = pageQ[s]]),
           torn' \in SUBSET Session, loop' \in Loops \cup {Nobody},
           loop' = loop \/ loop'.plan = Nobody,
           runs' = runs \/ (pc[s] = "started" /\ asked[s] # Nobody /\ runs' = [runs EXCEPT ![s] = @ + 1])
    PROVE  PageInv'
<1>1. PageTypes /\ \A t \in Session : IsOwn(t)
    BY DEF PageInv
<1>2. PageTypes'
    <2>1. pc' \in [Session -> Page!Settled \cup {"started", "running", "storing", "naming", "drawing"}]
        BY <1>1, TypesUnfold
    <2>2. lastOut' \in [Session -> Page!Result \cup {Nobody}]
        BY <1>1, TypesUnfold
    <2>3. lastQ' \in [Session -> Query \cup {Nobody}]
        BY <1>1, TypesUnfold
    <2>4. runs' \in [Session -> Nat]
        BY <1>1, TypesUnfold
    <2> QED BY <1>1, <2>1, <2>2, <2>3, <2>4, TypesUnfold DEF PageTypes, Page!TypeOK, Costs, Loops
<1>3. ASSUME NEW t \in Session PROVE IsOwn(t)'
    <2>1. pc'[t] = IF t = s THEN where ELSE pc[t]
        BY <1>1, TypesUnfold
    <2>2. lastOut'[t] = lastOut[t] \/ (pc[t] \in HasResult /\ lastOut'[t] = out[t])
        BY <1>1, TypesUnfold
    <2>3. runs[t] \in Nat /\ clicks[t] \in Nat /\ IsOwn(t)
        BY <1>1, TypesUnfold
    <2>4. runs'[t] = runs[t] \/ (t = s /\ pc[t] = "started" /\ asked[t] # Nobody /\ runs'[t] = runs[t] + 1)
        BY <1>1, TypesUnfold
    <2>5. runs'[t] <= clicks'[t]
        BY <2>3, <2>4 DEF IsOwn
    <2>6. pc'[t] = "started" /\ asked'[t] # Nobody => runs'[t] < clicks'[t]
        BY <2>1, <2>3, <2>4 DEF IsOwn, Page!Settled
    <2>7. pc'[t] \in HasResult => pc[t] \in HasResult
        BY <2>1 DEF HasResult
    <2> QED BY <2>2, <2>5, <2>6, <2>7, OwnStays
<1>4. loop' # Nobody /\ loop'.plan # Nobody =>
          cache'[QuestionOf[loop'.run.query]] = loop'.plan /\ cost' \in Costs
    BY DEF PageInv
<1> QED BY <1>2, <1>3, <1>4 DEF PageInv

(* The page shows the result the script holds.                             *)
LEMMA DrawStep == ASSUME PageInv, NEW s \in Session, Page!Draw(s) PROVE PageInv'
<1>1. /\ PageTypes /\ \A t \in Session : IsOwn(t)
      /\ pc[s] = "drawing" /\ pc' = [pc EXCEPT ![s] = "drawn"]
      /\ shown' = [shown EXCEPT ![s] = [out |-> out[s], q |-> pageQ[s], cost |-> cost]]
      /\ UNCHANGED <<asked, out, pageQ, lastOut, lastQ, torn, loop, cost, cache,
                     clicks, touches, runs, returned>>
    BY DEF PageInv, Page!Draw, Page!Goto, Page!locals, Page!stored, Page!shared, Page!counts
<1>2. out[s] \in Page!Result /\ Good(cache, s, out[s]) /\ pageQ[s] \in Query /\ cost \in Costs
    BY <1>1 DEF IsOwn, HasResult
<1>3. PageTypes'
    <2>1. /\ pc' \in [Session -> Page!Settled \cup {"started", "running", "storing", "naming", "drawing"}]
          /\ shown' \in [Session -> [out : Page!Result, q : Query, cost : Costs] \cup {Nobody}]
        BY <1>1, <1>2, TypesUnfold DEF Page!Settled
    <2> QED BY <1>1, <2>1, TypesUnfold DEF PageTypes, Page!TypeOK, Costs, Loops
<1>4. ASSUME NEW t \in Session PROVE IsOwn(t)'
    <2>1. pc'[t] = IF t = s THEN "drawn" ELSE pc[t]
        BY <1>1, TypesUnfold
    <2>2. shown'[t] # Nobody => Good(cache', t, shown'[t].out)
        <3>1. shown'[t] = IF t = s THEN [out |-> out[s], q |-> pageQ[s], cost |-> cost] ELSE shown[t]
            BY <1>1, TypesUnfold
        <3> QED BY <1>1, <1>2, <3>1 DEF IsOwn
    <2> QED BY <1>1, <2>1, <2>2 DEF IsOwn, HasResult
<1> QED BY <1>1, <1>3, <1>4 DEF PageInv

LEMMA ScriptKeeps == ASSUME PageInv, NEW s \in Session, Page!ScriptStep(s) PROVE PageInv'
<1>1. /\ PageTypes /\ loop \in Loops \cup {Nobody} /\ asked \in [Session -> Page!Run \cup {Nobody}]
      /\ torn \in SUBSET Session /\ torn \ {s} \in SUBSET Session
    BY TypesUnfold DEF PageInv
<1>2. CASE Page!Resume(s)
    BY <1>2, ResumeStep
<1>3. CASE Page!BadInput(s)
    <2>1. /\ pc' = [pc EXCEPT ![s] = "bad input"]
          /\ UNCHANGED <<asked, out, pageQ, shown, cost, cache, clicks, touches, returned,
                         lastOut, lastQ, torn, loop, runs>>
        BY <1>3 DEF Page!BadInput, Page!Goto, Page!locals, Page!stored, Page!shared, Page!counts
    <2> QED BY <1>1, <2>1, QuietStep DEF Page!Settled, HasResult
<1>4. CASE Page!LoopBusy(s)
    <2>1. /\ pc' = [pc EXCEPT ![s] = "error"]
          /\ UNCHANGED <<asked, out, pageQ, shown, cost, cache, clicks, touches, returned,
                         lastOut, lastQ, torn, loop, runs>>
        BY <1>4 DEF Page!LoopBusy, Page!Goto, Page!locals, Page!stored, Page!shared, Page!counts
    <2> QED BY <1>1, <2>1, QuietStep DEF Page!Settled, HasResult
<1>5. CASE Page!Begin(s)
    <2>1. /\ pc[s] = "started" /\ asked[s] # Nobody
          /\ loop' = [run |-> asked[s], awaited |-> TRUE, plan |-> Nobody]
          /\ runs' = [runs EXCEPT ![s] = @ + 1]
          /\ pc' = [pc EXCEPT ![s] = "running"]
          /\ UNCHANGED <<asked, out, pageQ, shown, cost, cache, clicks, touches, returned,
                         lastOut, lastQ, torn>>
        BY <1>5 DEF Page!Begin, Page!Wants, Page!Goto, Page!locals, Page!stored
    <2>2. loop' \in Loops /\ loop'.plan = Nobody
        BY <1>1, <2>1 DEF Loops
    <2> QED BY <1>1, <2>1, <2>2, QuietStep DEF HasResult
<1>6. CASE Page!StoreOut(s)
    <2>1. /\ pc[s] = "storing" /\ pc' = [pc EXCEPT ![s] = "naming"]
          /\ lastOut' = [lastOut EXCEPT ![s] = out[s]]
          /\ UNCHANGED <<asked, out, pageQ, shown, cost, cache, clicks, touches, returned,
                         lastQ, torn, loop, runs>>
        BY <1>6 DEF Page!StoreOut, Page!StoredFor, Page!Goto, Page!locals, Page!shared, Page!counts
    <2> QED BY <1>1, <2>1, QuietStep DEF HasResult
<1>7. CASE Page!StoreQ(s)
    <2>1. /\ pc[s] = "naming" /\ pc' = [pc EXCEPT ![s] = "drawing"]
          /\ lastQ' = [lastQ EXCEPT ![s] = pageQ[s]]
          /\ UNCHANGED <<asked, out, pageQ, shown, cost, cache, clicks, touches, returned,
                         lastOut, loop, runs>>
          /\ torn' = torn \ {s}
        BY <1>7 DEF Page!StoreQ, Page!Goto, Page!locals, Page!shared, Page!counts
    <2> QED BY <1>1, <2>1, QuietStep DEF HasResult
<1>8. CASE Page!Draw(s)
    BY <1>8, DrawStep
<1> QED BY <1>2, <1>3, <1>4, <1>5, <1>6, <1>7, <1>8 DEF Page!ScriptStep

(* A step of the loop that returns no result                               *)
LEMMA LoopQuiet ==
    ASSUME PageInv, NEW cs \in Page!Question, NEW p \in Plans \cup {Nobody},
           cache' = [cache EXCEPT ![cs] = p],
           cache[cs] # Nobody => p = cache[cs],
           UNCHANGED <<asked, out, pageQ, lastOut, lastQ, torn, shown,
                       clicks, touches, runs, returned>>,
           cost' \in Costs \cup {Nobody}, cost \in Costs => cost' \in Costs,
           pc' = pc \/ \E s \in Session : pc' = [pc EXCEPT ![s] = "error"],
           \/ loop' = Nobody
           \/ /\ loop' \in Loops /\ loop'.plan = p /\ cs = QuestionOf[loop'.run.query]
              /\ cost' \in Costs
    PROVE  PageInv'
<1>1. PageTypes /\ \A t \in Session : IsOwn(t)
    BY DEF PageInv
<1>2. PageTypes'
    <2>1. pc' \in [Session -> Page!Settled \cup {"started", "running", "storing", "naming", "drawing"}]
        BY <1>1, TypesUnfold DEF Page!Settled
    <2>2. cache' \in [Page!Question -> Plans \cup {Nobody}]
        BY <1>1, TypesUnfold
    <2> QED BY <1>1, <2>1, <2>2, TypesUnfold DEF PageTypes, Page!TypeOK, Costs, Loops
<1>3. cache'[cs] = p /\ \A k \in Page!Question : cache[k] # Nobody => cache'[k] = cache[k]
    BY <1>1, TypesUnfold
<1>4. ASSUME NEW t \in Session PROVE IsOwn(t)'
    <2>1. pc'[t] = pc[t] \/ pc'[t] = "error"
        BY <1>1, TypesUnfold
    <2>2. (pc'[t] \in HasResult => pc[t] \in HasResult) /\ (pc'[t] = "started" => pc[t] = "started")
        BY <2>1 DEF HasResult
    <2>3. runs'[t] <= clicks'[t] /\ (pc'[t] = "started" /\ asked'[t] # Nobody => runs'[t] < clicks'[t])
        BY <1>1, <2>2 DEF IsOwn
    <2> QED BY <1>3, <2>2, <2>3, OwnStays
<1>5. loop' # Nobody /\ loop'.plan # Nobody =>
          cache'[QuestionOf[loop'.run.query]] = loop'.plan /\ cost' \in Costs
    BY <1>3
<1> QED BY <1>2, <1>4, <1>5 DEF PageInv

LEMMA LoopTypes ==
    ASSUME PageInv, loop # Nobody
    PROVE  /\ loop \in Loops /\ loop.run \in Page!Run /\ loop.run.of \in Session
           /\ loop.run.query \in Query /\ QuestionOf[loop.run.query] \in Page!Question
           /\ cost \in Costs \cup {Nobody} /\ cache \in [Page!Question -> Plans \cup {Nobody}]
<1>1. loop \in Loops /\ cost \in Costs \cup {Nobody} /\ cache \in [Page!Question -> Plans \cup {Nobody}]
    BY TypesUnfold DEF PageInv
<1>2. loop.run \in Page!Run
    BY <1>1 DEF Loops
<1>3. loop.run.of \in Session /\ loop.run.query \in Query
    BY <1>2 DEF Page!Run
<1> QED BY <1>1, <1>2, <1>3 DEF Page!Question

LEMMA RaiseStep ==
    ASSUME PageInv, loop # Nobody, Page!Raise
    PROVE  /\ loop' = Nobody
           /\ pc' = pc \/ \E s \in Session : pc' = [pc EXCEPT ![s] = "error"]
BY LoopTypes DEF Page!Raise

LEMMA PlanStep == ASSUME PageInv, Page!Plan PROVE PageInv'
<1>1. /\ loop # Nobody /\ loop.plan = Nobody
      /\ UNCHANGED <<asked, out, pageQ, lastOut, lastQ, torn, shown, clicks, touches, runs, returned>>
    BY DEF Page!Plan, Page!GoesOn, Page!locals, Page!stored, Page!counts
<1> DEFINE key == QuestionOf[loop.run.query]
<1>2. /\ loop \in Loops /\ loop.run \in Page!Run /\ key \in Page!Question
    BY <1>1, LoopTypes
<1>3. PICK p \in Plans :
          /\ cache[key] # Nobody => p = cache[key]
          /\ cost' = [run |-> loop.run, hit |-> cache[key] # Nobody]
          /\ cache' = [cache EXCEPT ![key] = p]
          /\ (loop' = [loop EXCEPT !.plan = p] /\ UNCHANGED pc) \/ Page!Raise
    BY DEF Page!Plan
<1>4. cost' \in Costs
    <2>1. (cache[key] # Nobody) \in BOOLEAN
        OBVIOUS
    <2> HIDE DEF key
    <2> QED BY <1>2, <1>3, <2>1 DEF Costs
<1>5. PICK c \in Page!Question : c = key
    BY <1>2
<1>6. CASE loop' = [loop EXCEPT !.plan = p] /\ UNCHANGED pc
    <2>1. loop' \in Loops /\ loop'.plan = p /\ loop'.run = loop.run
        BY <1>2, <1>6 DEF Loops
    <2> QED BY <1>1, <1>3, <1>4, <1>5, <1>6, <2>1, LoopQuiet
<1>7. CASE Page!Raise
    BY <1>1, <1>3, <1>4, <1>5, <1>7, RaiseStep, LoopQuiet
<1> QED BY <1>3, <1>6, <1>7

(* A failure, of the planner or of a node                                  *)
LEMMA FailStep == ASSUME PageInv, Page!PlanFails \/ Page!NodeFails PROVE PageInv'
<1>1. /\ loop # Nobody /\ Page!Raise /\ cost' = cost /\ cache' = cache
      /\ UNCHANGED <<asked, out, pageQ, lastOut, lastQ, torn, shown, clicks, touches, runs, returned>>
    BY DEF Page!PlanFails, Page!NodeFails, Page!CostKept, Page!locals, Page!stored, Page!counts
<1>2. PICK k \in Page!Question : k = QuestionOf[loop.run.query]
    BY <1>1, LoopTypes
<1>3. /\ cost \in Costs \cup {Nobody} /\ cache[k] \in Plans \cup {Nobody}
      /\ cache' = [cache EXCEPT ![k] = cache[k]]
    BY <1>1, LoopTypes
<1>4. PICK p \in Plans \cup {Nobody} : p = cache[k]
    BY <1>3
<1> QED BY <1>1, <1>3, <1>4, RaiseStep, LoopQuiet

(* The result handed to the page is of the page's own run, and gated.      *)
LEMMA FinishStep == ASSUME PageInv, Page!Finish PROVE PageInv'
<1> DEFINE s == loop.run.of
           Res(met) == [run |-> loop.run, plan |-> loop.plan, regions |-> Page!Regions(loop.plan, met)]
<1>1. /\ PageTypes /\ \A t \in Session : IsOwn(t)
      /\ loop # Nobody /\ loop.plan # Nobody /\ loop' = Nobody
      /\ UNCHANGED <<asked, lastOut, lastQ, torn, shown, cost, cache, clicks, touches, runs>>
    BY DEF PageInv, Page!Finish, Page!stored
<1>2. /\ loop.run \in Page!Run /\ loop.plan \in Plans /\ loop.awaited \in BOOLEAN
      /\ s \in Session /\ loop.run.query \in Query
      /\ cache[QuestionOf[loop.run.query]] = loop.plan /\ cost \in Costs
    BY <1>1, LoopTypes DEF Loops, PageInv
<1>3. PICK met \in BOOLEAN :
          /\ returned' = [returned EXCEPT ![s] = Res(met)]
          /\ IF loop.awaited
               THEN /\ out' = [out EXCEPT ![s] = Res(met)]
                    /\ pageQ' = [pageQ EXCEPT ![s] = loop.run.query]
                    /\ pc' = [pc EXCEPT ![s] = "storing"]
               ELSE UNCHANGED <<pc, out, pageQ>>
    BY DEF Page!Finish, Page!Goto, Page!locals
<1>4. PICK r \in Page!Result : r = Res(met) /\ Good(cache, s, r)
    <2>1. Res(met) \in Page!Result
        BY <1>2, RegionsAreNodes DEF Page!Result
    <2>2. Page!Validators(loop.plan) # {} =>
              \A g \in Page!Regions(loop.plan, met) :
                  \E w \in Page!Validators(loop.plan) : g \in loop.plan[w].deps
        BY <1>2, RegionsAreGated
    <2>3. Good(cache, s, Res(met))
        BY <1>2, <2>2 DEF Good
    <2> QED BY <2>1, <2>3
<1>5. PICK o \in Session : o = s
    BY <1>2
<1>6. PICK k \in Query : k = loop.run.query
    BY <1>2
<1>7. /\ returned' = [returned EXCEPT ![o] = r] /\ Good(cache, o, r)
      /\ \/ out' = [out EXCEPT ![o] = r] /\ pageQ' = [pageQ EXCEPT ![o] = k] /\ pc' = [pc EXCEPT ![o] = "storing"]
         \/ UNCHANGED <<pc, out, pageQ>>
    BY <1>2, <1>3, <1>4, <1>5, <1>6
<1> HIDE DEF s, Res
<1>8. PageTypes'
    <2>1. /\ pc' \in [Session -> Page!Settled \cup {"started", "running", "storing", "naming", "drawing"}]
          /\ out' \in [Session -> Page!Result \cup {Nobody}]
          /\ pageQ' \in [Session -> Query \cup {Nobody}]
          /\ returned' \in [Session -> Page!Result \cup {Nobody}]
        BY <1>1, <1>7, TypesUnfold
    <2> QED BY <1>1, <2>1, TypesUnfold DEF PageTypes, Page!TypeOK, Costs, Loops
<1>9. ASSUME NEW t \in Session PROVE IsOwn(t)'
    <2>1. CASE t # o \/ UNCHANGED <<pc, out, pageQ>>
        <3>1. pc'[t] = pc[t] /\ out'[t] = out[t] /\ pageQ'[t] = pageQ[t]
            BY <1>1, <1>7, <2>1, TypesUnfold
        <3>2. runs'[t] <= clicks'[t] /\ (pc'[t] = "started" /\ asked'[t] # Nobody => runs'[t] < clicks'[t])
            BY <1>1, <3>1 DEF IsOwn
        <3> QED BY <1>1, <3>1, <3>2, OwnStays
    <2>2. CASE t = o /\ out' = [out EXCEPT ![o] = r] /\ pageQ' = [pageQ EXCEPT ![o] = k]
                     /\ pc' = [pc EXCEPT ![o] = "storing"]
        <3>1. pc'[t] = "storing" /\ out'[t] = r /\ pageQ'[t] = k
            BY <1>1, <2>2, TypesUnfold
        <3>2. /\ lastOut'[t] # Nobody => Good(cache', t, lastOut'[t]) /\ cost' \in Costs
              /\ shown'[t] # Nobody => Good(cache', t, shown'[t].out)
              /\ runs'[t] <= clicks'[t]
            BY <1>1 DEF IsOwn
        <3> QED BY <1>1, <1>2, <1>7, <2>2, <3>1, <3>2 DEF IsOwn
    <2> QED BY <1>7, <2>1, <2>2
<1> QED BY <1>1, <1>8, <1>9 DEF PageInv

LEMMA PageStep == PageInv /\ [Page!Next]_pageVars => PageInv'
<1> SUFFICES ASSUME PageInv, [Page!Next]_pageVars PROVE PageInv'
    OBVIOUS
<1>1. CASE Page!LoopStep
    BY <1>1, PlanStep, FailStep, FinishStep DEF Page!LoopStep
<1>2. ASSUME NEW s \in Session, Page!Click(s) \/ Page!Touch(s) \/ Page!ScriptStep(s) PROVE PageInv'
    BY <1>2, ClickStep, TouchStep, ScriptKeeps
<1>3. CASE UNCHANGED pageVars
    <2>1. UNCHANGED <<pc, asked, out, pageQ, lastOut, lastQ, torn, shown, loop, cost, cache,
                      clicks, touches, runs, returned>>
        BY <1>3 DEF pageVars
    <2>2. PageTypes'
        BY <2>1 DEF PageInv, PageTypes, Page!TypeOK
    <2>3. ASSUME NEW s \in Session PROVE IsOwn(s)'
        BY <2>1 DEF PageInv, IsOwn
    <2> QED BY <2>1, <2>2, <2>3 DEF PageInv
<1> QED BY <1>1, <1>2, <1>3 DEF Page!Next

-----------------------------------------------------------------------------
(* The query of a page is that of its result, from the moment the run      *)
(* returns to the moment both are stored, unless a rerun comes in between. *)
Named(s) ==
    /\ pc[s] \in {"storing", "naming"} => pageQ[s] = out[s].run.query
    /\ pc[s] = "naming" => lastOut[s] = out[s]
    /\ pc[s] # "naming" /\ s \notin torn /\ lastOut[s] # Nobody => lastQ[s] = lastOut[s].run.query
    /\ pc[s] = "drawing" => pageQ[s] = out[s].run.query \/ s \in torn
    /\ shown[s] # Nobody => shown[s].q = shown[s].out.run.query \/ s \in torn
    /\ pc[s] \in {"started", "running", "storing", "naming", "drawing"} => shown[s] = Nobody
    /\ asked[s] # Nobody => asked[s].of = s

(* A run that is waited for is waited for by the script of its page.       *)
Waits == loop # Nobody /\ loop.awaited => pc[loop.run.of] = "running"

NamedInv == Waits /\ \A s \in Session : Named(s)

LEMMA NamedBegins == Page!Init => NamedInv
BY DEF Page!Init, NamedInv, Waits, Named

(* A session that a step leaves alone                                      *)
LEMMA NamedStays ==
    ASSUME NEW t \in Session, Named(t),
           pc'[t] = pc[t], out'[t] = out[t], pageQ'[t] = pageQ[t], lastOut'[t] = lastOut[t],
           lastQ'[t] = lastQ[t], shown'[t] = shown[t], t \in torn' <=> t \in torn,
           asked'[t] = asked[t]
    PROVE  Named(t)'
BY DEF Named

LEMMA NamedRerun ==
    ASSUME PageTypes, NamedInv, NEW s \in Session, NEW r, Page!Rerun(s, r),
           r # Nobody => r.of = s
    PROVE  NamedInv'
<1>1. /\ pc' = [pc EXCEPT ![s] = "started"] /\ shown' = [shown EXCEPT ![s] = Nobody]
      /\ torn' = torn \cup {x \in {s} : pc[x] = "naming"}
      /\ asked' = [asked EXCEPT ![s] = r]
      /\ UNCHANGED <<out, pageQ, lastOut, lastQ>>
    BY DEF Page!Rerun, Page!locals
<1>2. loop' = IF loop # Nobody /\ loop.run.of = s THEN [loop EXCEPT !.awaited = FALSE] ELSE loop
    BY DEF Page!Rerun
<1>3. ASSUME NEW t \in Session PROVE Named(t)'
    <2>1. /\ pc'[t] = IF t = s THEN "started" ELSE pc[t]
          /\ shown'[t] = IF t = s THEN Nobody ELSE shown[t]
          /\ asked'[t] = IF t = s THEN r ELSE asked[t]
        BY <1>1, TypesUnfold
    <2>2. CASE t # s
        BY <1>1, <2>1, <2>2, NamedStays DEF NamedInv
    <2>3. CASE t = s
        <3>1. s \notin torn' => pc[s] # "naming" /\ s \notin torn
            BY <1>1
        <3> QED BY <1>1, <2>1, <2>3, <3>1 DEF NamedInv, Named
    <2> QED BY <2>2, <2>3
<1>4. Waits'
    <2>1. loop # Nobody => loop \in Loops /\ loop.run.of \in Session
        BY TypesUnfold DEF Loops, Page!Run
    <2>2. CASE loop # Nobody /\ loop.run.of = s
        <3>1. loop' = [loop EXCEPT !.awaited = FALSE] /\ loop \in Loops
            BY <1>2, <2>1, <2>2
        <3>2. loop'.awaited = FALSE
            BY <3>1 DEF Loops
        <3> QED BY <3>2 DEF Waits
    <2>3. CASE ~ (loop # Nobody /\ loop.run.of = s)
        <3>1. loop' = loop
            BY <1>2, <2>3
        <3>2. loop # Nobody => pc'[loop.run.of] = pc[loop.run.of]
            BY <1>1, <2>1, <2>3, TypesUnfold
        <3> QED BY <3>1, <3>2 DEF Waits, NamedInv
    <2> QED BY <2>2, <2>3
<1> QED BY <1>3, <1>4 DEF NamedInv

(* A step of a script, from one place to another                           *)
LEMMA NamedScript ==
    ASSUME PageTypes, NamedInv, NEW s \in Session, Page!ScriptStep(s)
    PROVE  NamedInv'
<1> DEFINE Moves(where) == pc' = [pc EXCEPT ![s] = where]
<1>t. /\ pc \in [Session -> Page!Settled \cup {"started", "running", "storing", "naming", "drawing"}]
      /\ out \in [Session -> Page!Result \cup {Nobody}] /\ pageQ \in [Session -> Query \cup {Nobody}]
      /\ lastOut \in [Session -> Page!Result \cup {Nobody}] /\ lastQ \in [Session -> Query \cup {Nobody}]
      /\ shown \in [Session -> [out : Page!Result, q : Query, cost : Costs] \cup {Nobody}]
      /\ loop # Nobody => loop.run.of \in Session
    <2>1. loop # Nobody => loop.run.of \in Session
        BY TypesUnfold DEF Loops, Page!Run
    <2> QED BY <2>1, TypesUnfold
<1>a. /\ pc[s] \in {"started", "storing", "naming", "drawing"} /\ pc[s] # "running"
      /\ \A t \in Session : t # s =>
            /\ pc'[t] = pc[t] /\ out'[t] = out[t] /\ pageQ'[t] = pageQ[t] /\ lastOut'[t] = lastOut[t]
            /\ lastQ'[t] = lastQ[t] /\ shown'[t] = shown[t] /\ (t \in torn' <=> t \in torn)
      /\ asked' = asked
    BY <1>t DEF Page!ScriptStep, Page!Resume, Page!BadInput, Page!LoopBusy, Page!Begin, Page!StoreOut,
         Page!StoreQ, Page!Draw, Page!Goto, Page!StoredFor, Page!locals, Page!stored
<1>b. Named(s)
    BY DEF NamedInv
<1>c. Named(s)'
    <2>1. CASE Page!Resume(s)
        <3>1. /\ pc[s] = "started" /\ out'[s] = lastOut[s] /\ pageQ'[s] = lastQ[s]
              /\ UNCHANGED <<lastOut, lastQ, torn, shown>>
            BY <1>t, <2>1 DEF Page!Resume, Page!stored
        <3>2. /\ pc'[s] \in {"intro", "error", "drawing"}
              /\ pc'[s] = "drawing" => lastOut[s] # Nobody
            BY <1>t, <2>1 DEF Page!Resume, Page!Goto
        <3> QED BY <1>a, <1>b, <3>1, <3>2 DEF Named
    <2>2. CASE Page!BadInput(s) \/ Page!LoopBusy(s) \/ Page!Begin(s)
        <3>1. pc[s] = "started" /\ UNCHANGED <<out, pageQ, lastOut, lastQ, torn, shown>>
            BY <2>2 DEF Page!BadInput, Page!LoopBusy, Page!Begin, Page!locals, Page!stored
        <3>2. pc'[s] \in {"bad input", "error", "running"}
            BY <1>t, <2>2 DEF Page!BadInput, Page!LoopBusy, Page!Begin, Page!Goto
        <3> QED BY <1>a, <1>b, <3>1, <3>2 DEF Named
    <2>3. CASE Page!StoreOut(s)
        <3>1. /\ pc[s] = "storing" /\ pc'[s] = "naming" /\ lastOut'[s] = out[s]
              /\ UNCHANGED <<out, pageQ, lastQ, torn, shown>>
            BY <1>t, <2>3 DEF Page!StoreOut, Page!StoredFor, Page!Goto, Page!locals
        <3> QED BY <1>a, <1>b, <3>1 DEF Named
    <2>4. CASE Page!StoreQ(s)
        <3>1. /\ pc[s] = "naming" /\ pc'[s] = "drawing" /\ lastQ'[s] = pageQ[s]
              /\ UNCHANGED <<out, pageQ, lastOut, shown>> /\ s \notin torn'
            BY <1>t, <2>4 DEF Page!StoreQ, Page!Goto, Page!locals
        <3> QED BY <1>a, <1>b, <3>1 DEF Named
    <2>5. CASE Page!Draw(s)
        <3>1. /\ pc[s] = "drawing" /\ pc'[s] = "drawn"
              /\ shown'[s] = [out |-> out[s], q |-> pageQ[s], cost |-> cost]
              /\ UNCHANGED <<out, pageQ, lastOut, lastQ, torn>>
            BY <1>t, <2>5 DEF Page!Draw, Page!Goto, Page!locals, Page!stored
        <3> QED BY <1>a, <1>b, <3>1 DEF Named
    <2> QED BY <2>1, <2>2, <2>3, <2>4, <2>5 DEF Page!ScriptStep
<1>d. ASSUME NEW t \in Session PROVE Named(t)'
    BY <1>a, <1>c, NamedStays DEF NamedInv
<1>e. Waits'
    <2>1. CASE Page!Begin(s)
        <3>1. asked[s] # Nobody /\ loop' = [run |-> asked[s], awaited |-> TRUE, plan |-> Nobody]
            BY <2>1 DEF Page!Begin, Page!Wants
        <3>2. loop'.run.of = s
            BY <1>b, <3>1 DEF Named
        <3>3. pc'[s] = "running"
            BY <1>t, <2>1 DEF Page!Begin, Page!Goto
        <3> QED BY <3>2, <3>3 DEF Waits
    <2>2. CASE ~ Page!Begin(s)
        <3>1. loop' = loop
            BY <2>2 DEF Page!ScriptStep, Page!Resume, Page!BadInput, Page!LoopBusy, Page!StoreOut,
                 Page!StoreQ, Page!Draw, Page!shared
        <3>2. loop # Nobody /\ loop.awaited => loop.run.of # s
            BY <1>a DEF NamedInv, Waits
        <3> QED BY <1>t, <1>a, <3>1, <3>2 DEF NamedInv, Waits
    <2> QED BY <2>1, <2>2
<1> QED BY <1>d, <1>e DEF NamedInv

(* A step of the loop: a plan, a failure or a result                       *)
LEMMA NamedLoop ==
    ASSUME PageTypes, NamedInv, Page!LoopStep
    PROVE  NamedInv'
<1>1. loop # Nobody /\ loop \in Loops /\ loop.run.of \in Session
    <2>1. loop # Nobody
        BY DEF Page!LoopStep, Page!Plan, Page!PlanFails, Page!Finish, Page!NodeFails
    <2> QED BY <2>1, TypesUnfold DEF Loops, Page!Run
<1>2. PICK o \in Session : o = loop.run.of
    BY <1>1
<1>t. /\ pc \in [Session -> Page!Settled \cup {"started", "running", "storing", "naming", "drawing"}]
      /\ out \in [Session -> Page!Result \cup {Nobody}] /\ pageQ \in [Session -> Query \cup {Nobody}]
    BY TypesUnfold
<1>3. UNCHANGED <<asked, lastOut, lastQ, torn, shown>>
    BY DEF Page!LoopStep, Page!Plan, Page!PlanFails, Page!Finish, Page!NodeFails, Page!stored
<1>4. CASE /\ UNCHANGED <<out, pageQ>>
           /\ \/ loop' = Nobody /\ (pc' = pc \/ (loop.awaited /\ pc' = [pc EXCEPT ![o] = "error"]))
              \/ loop'.awaited = loop.awaited /\ loop'.run = loop.run /\ pc' = pc
    <2>1. ASSUME NEW t \in Session PROVE Named(t)'
        <3>1. CASE pc'[t] = pc[t]
            BY <1>3, <1>4, <3>1, NamedStays DEF NamedInv
        <3>2. CASE pc'[t] # pc[t]
            <4>1. t = o /\ pc'[t] = "error" /\ loop.awaited
                BY <1>t, <1>4, <3>2
            <4>2. pc[t] = "running"
                BY <1>1, <1>2, <4>1 DEF NamedInv, Waits
            <4> QED BY <1>3, <1>4, <4>1, <4>2 DEF NamedInv, Named
        <3> QED BY <3>1, <3>2
    <2>2. Waits'
        BY <1>1, <1>4 DEF NamedInv, Waits
    <2> QED BY <2>1, <2>2 DEF NamedInv
<1>5. CASE Page!Plan
    <2>1. UNCHANGED <<out, pageQ>>
        BY <1>5 DEF Page!Plan, Page!locals
    <2>2. \/ \E p \in Plans : loop' = [loop EXCEPT !.plan = p] /\ UNCHANGED pc
          \/ Page!Raise
        BY <1>5 DEF Page!Plan
    <2>3. CASE \E p \in Plans : loop' = [loop EXCEPT !.plan = p] /\ UNCHANGED pc
        <3>1. loop'.awaited = loop.awaited /\ loop'.run = loop.run /\ pc' = pc
            BY <1>1, <2>3 DEF Loops
        <3> QED BY <1>4, <2>1, <3>1
    <2>4. CASE Page!Raise
        BY <1>2, <1>4, <2>1, <2>4 DEF Page!Raise
    <2> QED BY <2>2, <2>3, <2>4
<1>6. CASE Page!PlanFails \/ Page!NodeFails
    BY <1>2, <1>4, <1>6 DEF Page!PlanFails, Page!NodeFails, Page!Raise, Page!locals
<1>7. CASE Page!Finish
    <2>1. /\ loop' = Nobody
          /\ \/ UNCHANGED <<pc, out, pageQ>>
             \/ /\ loop.awaited /\ pc' = [pc EXCEPT ![o] = "storing"]
                /\ \E x : x.run = loop.run /\ out' = [out EXCEPT ![o] = x]
                /\ pageQ' = [pageQ EXCEPT ![o] = loop.run.query]
        BY <1>2, <1>7 DEF Page!Finish, Page!Goto, Page!locals
    <2>2. CASE UNCHANGED <<pc, out, pageQ>>
        BY <1>4, <2>1, <2>2
    <2>3. CASE /\ loop.awaited /\ pc' = [pc EXCEPT ![o] = "storing"]
               /\ \E x : x.run = loop.run /\ out' = [out EXCEPT ![o] = x]
               /\ pageQ' = [pageQ EXCEPT ![o] = loop.run.query]
        <3>1. pc[o] = "running"
            BY <1>1, <1>2, <2>3 DEF NamedInv, Waits
        <3>2. ASSUME NEW t \in Session PROVE Named(t)'
            <4>1. CASE t # o
                <5>1. pc'[t] = pc[t] /\ out'[t] = out[t] /\ pageQ'[t] = pageQ[t]
                    BY <1>t, <2>3, <4>1
                <5> QED BY <1>3, <5>1, NamedStays DEF NamedInv
            <4>2. CASE t = o
                <5>1. pc'[o] = "storing" /\ out'[o].run = loop.run /\ pageQ'[o] = loop.run.query
                    BY <1>t, <2>3
                <5> QED BY <1>3, <3>1, <4>2, <5>1 DEF NamedInv, Named
            <4> QED BY <4>1, <4>2
        <3>3. Waits'
            BY <2>1 DEF Waits
        <3> QED BY <3>2, <3>3 DEF NamedInv
    <2> QED BY <2>1, <2>2, <2>3
<1> QED BY <1>5, <1>6, <1>7 DEF Page!LoopStep

LEMMA NamedStep == PageInv /\ NamedInv /\ [Page!Next]_pageVars => NamedInv'
<1> SUFFICES ASSUME PageInv, NamedInv, [Page!Next]_pageVars PROVE NamedInv'
    OBVIOUS
<1>1. PageTypes
    BY DEF PageInv
<1>2. ASSUME NEW s \in Session, Page!Click(s) \/ Page!Touch(s) PROVE NamedInv'
    <2>1. \E r : Page!Rerun(s, r) /\ (r # Nobody => r.of = s)
        <3>1. CASE Page!Click(s)
            <4>1. PICK k \in Query : Page!Rerun(s, [of |-> s, query |-> k, click |-> clicks'[s]])
                BY <3>1 DEF Page!Click
            <4>2. [of |-> s, query |-> k, click |-> clicks'[s]].of = s
                OBVIOUS
            <4> QED BY <4>1, <4>2
        <3>2. CASE Page!Touch(s)
            BY <3>2 DEF Page!Touch
        <3> QED BY <1>2, <3>1, <3>2
    <2> QED BY <1>1, <2>1, NamedRerun
<1>3. ASSUME NEW s \in Session, Page!ScriptStep(s) PROVE NamedInv'
    BY <1>1, <1>3, NamedScript
<1>4. CASE Page!LoopStep
    BY <1>1, <1>4, NamedLoop
<1>5. CASE UNCHANGED pageVars
    <2>1. UNCHANGED <<pc, asked, out, pageQ, lastOut, lastQ, torn, shown, loop>>
        BY <1>5 DEF pageVars
    <2>2. ASSUME NEW s \in Session PROVE Named(s)'
        BY <2>1, NamedStays DEF NamedInv
    <2> QED BY <2>1, <2>2 DEF NamedInv, Waits
<1> QED BY <1>2, <1>3, <1>4, <1>5 DEF Page!Next

LEMMA PageSays == PageInv /\ NamedInv =>
    Page!TypeOK /\ Page!OwnResults /\ Page!GateHolds /\ Page!RunsAreClicked
BY DEF PageInv, PageTypes, IsOwn, Good, NamedInv, Named, Page!OwnResults, Page!GateHolds,
       Page!RunsAreClicked

(***************************************************************************)
(* DemoIsHonest, for any number of sessions, questions, plans and clicks   *)
(* and any deadline.  However the scripts of the sessions interleave over  *)
(* the shared loop, planner and cache, a page shows a result of its own    *)
(* session, of the plan stored for its question and gated by its           *)
(* validators, under the question of its run unless a rerun came between   *)
(* the two stores, and runs are never more than clicks (streamlit_app.py); *)
(* and the check of a page gives the verdict that the page deserves but    *)
(* for panels taken away between two reads (verify_live_space.py).         *)
(***************************************************************************)
THEOREM DemoIsHonestAlways == Page!Spec /\ Check!Spec => []DemoIsHonest
<1>1. Page!Init => PageInv /\ NamedInv
    BY PageBegins, NamedBegins
<1>2. PageInv /\ NamedInv /\ [Page!Next]_pageVars => PageInv' /\ NamedInv'
    BY PageStep, NamedStep
<1>3. [Page!Next]_Page!vars => [Page!Next]_pageVars
    BY DEF Page!vars, Page!locals, Page!stored, Page!shared, Page!counts, pageVars
<1>4. PageInv /\ NamedInv /\ (Check!TypeOK /\ Check!VerdictIsExact /\ Check!ResultInTimeIsSeen)
          => DemoIsHonest
    BY PageSays DEF DemoIsHonest
<1> QED BY <1>1, <1>2, <1>3, <1>4, VerdictsAreDeserved, PTL DEF Page!Spec
=============================================================================
