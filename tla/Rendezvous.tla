----------------------------- MODULE Rendezvous -----------------------------
(***************************************************************************)
(* The geometry of an answer, from the anchors of a request to the regions *)
(* it returns: _coerce_plan pairs the anchors (app/agents/planner.py), a   *)
(* PRISM node computes each pair's space-time prism (space_time_prism.py), *)
(* a TGARD or DC-TGARD node intersects the prisms, and a VALIDATE node     *)
(* gates the anchors and the regions (validator.py).                       *)
(*                                                                         *)
(* The plane is any set of places with a distance; an ellipse is given by  *)
(* its foci and the sum of distances to them, its polygon is the set of    *)
(* places it holds.                                                        *)
(***************************************************************************)
EXTENDS Integers, FiniteSets, Sequences

CONSTANTS
    Place, Dist,    \* the places, and Dist[x, y] in metres
    Slack,          \* how far from its rim a polygon may misjudge a place
    Domain, VMax,   \* the domains and their speed limits, in metres per unit
    Anchors,        \* the anchors a request may carry
    MaxAnchors,     \* bound on their number
    LlmPairs,       \* the pairs the LLM may write into a PRISM node itself
    NrPrisms,       \* PRISM nodes of the plan
    NSlices         \* slices of the common time window (24)

ASSUME MetricAssumption ==
    /\ Dist \in [Place \X Place -> Nat]
    /\ \A x, y \in Place : Dist[x, y] = Dist[y, x]
    /\ \A x, y, z \in Place : Dist[x, z] <= Dist[x, y] + Dist[y, z]
ASSUME SpeedAssumption == VMax \in [Domain -> Nat \ {0}]
ASSUME AnchorAssumption ==
    /\ Anchors \subseteq [at : Place, t : Int]
    /\ LlmPairs \subseteq Anchors \X Anchors
ASSUME BoundAssumption ==
    /\ MaxAnchors \in Nat /\ NrPrisms \in Nat
    /\ NSlices \in Nat \ {0} /\ Slack \in Nat \ {0}

VARIABLES
    q,        \* q.anchors, as they came
    domain,   \* q.domain
    method,   \* of the rendezvous node
    prisms,   \* the prisms of the PRISM nodes that did not fail
    regions,  \* the regions the rendezvous node found, or the validator kept
    stage     \* "planning", "finding", "validating" or the end of the run

vars == <<q, domain, method, prisms, regions, stage>>

MaxOf(a, b) == IF a >= b THEN a ELSE b
MinOf(a, b) == IF a <= b THEN a ELSE b

Requests == UNION {[1..n -> Anchors] : n \in 0..MaxAnchors}

Init ==
    /\ q \in Requests
    /\ domain \in Domain
    /\ method \in {"TGARD", "DC-TGARD"}
    /\ prisms = <<>>
    /\ regions = {}
    /\ stage = "planning"

-----------------------------------------------------------------------------
(* Prism.compute raises ValueError unless B is after A. *)
Computes(pair) == pair[1].t < pair[2].t

(* rim: the places by the rim of its ellipse that its polygon holds.       *)
Compute(pair, rim) ==
    LET L == VMax[domain] * (pair[2].t - pair[1].t)
    IN  [a |-> pair[1], b |-> pair[2], v |-> VMax[domain],
         feasible |-> Dist[pair[1].at, pair[2].at] <= L, rim |-> rim]

(* The sum of the two radii at time t, which ellipse_at adds up. *)
Reach(p, t) == p.v * (t - p.a.t) + p.v * (p.b.t - t)

(* The lens of the two disks: the places that can be visited at time t.    *)
LensAt(p, t) ==
    {x \in Place : /\ Dist[p.a.at, x] <= p.v * (t - p.a.t)
                   /\ Dist[x, p.b.at] <= p.v * (p.b.t - t)}

(* A slip: a sum that forgets the second radius. *)
EllipseInFirstDisk(p, t) == p.v * (t - p.a.t)

(* A slip: the sum is taken for half of itself, the semi-major axis. *)
EllipseOfDoubleAxis(p, t) == 2 * MaxOf(Reach(p, t), Dist[p.a.at, p.b.at])

(* Prism.ellipse_at: foci A and B, and this sum of the distances to them.  *)
EllipseAt(p, t) == MaxOf(Reach(p, t), Dist[p.a.at, p.b.at])

Sum(p, x) == Dist[p.a.at, x] + Dist[x, p.b.at]

(* Prism.ellipse_polygon: 64 corners in a projection of its own.  What is  *)
(* well inside it holds, what is well outside it does not; its corners and *)
(* its projection are the same at any time.                                *)
EllipsePolygon(p, L) ==
    {x \in Place : \/ Sum(p, x) + Slack <= L
                   \/ x \in p.rim /\ Sum(p, x) <= L + Slack}

(* An ellipse without width: shapely may find any intersection with it empty. *)
Degenerate(p) ==
    p.v * (p.b.t - p.a.t) <= Dist[p.a.at, p.b.at]

(* _time_overlap, and the k-th slice of it. *)
Start(p, r) == MaxOf(p.a.t, r.a.t)
End(p, r) == MinOf(p.b.t, r.b.t)
SliceTime(p, r, k) == Start(p, r) + (k * (End(p, r) - Start(p, r))) \div NSlices

Slice(p, r, k) ==
    LET t == SliceTime(p, r, k)
    IN  EllipsePolygon(p, EllipseAt(p, t)) \cap EllipsePolygon(r, EllipseAt(r, t))

(***************************************************************************)
(* _tgard: the union of the slices, and the whole window.                  *)
(***************************************************************************)
Tgard(p, r) ==
    [places |-> UNION {Slice(p, r, k) : k \in 0..NSlices},
     lo |-> 0, hi |-> NSlices]

(* A slip: the pass for the end starts at the front as well. *)
DcTgardForward(p, r) ==
    LET Full  == {k \in 0..NSlices : Slice(p, r, k) # {}}
        first == CHOOSE k \in Full : \A l \in Full : k <= l
    IN  IF Full = {}
          THEN [places |-> {}, lo |-> NSlices, hi |-> 0]
          ELSE [places |-> Slice(p, r, first),
                lo |-> MaxOf(0, first - 1), hi |-> MinOf(NSlices, first + 1)]

(***************************************************************************)
(* _dc_tgard: walk from both ends to the first slice that is not empty;    *)
(* the last empty one on the way is the bound.                             *)
(***************************************************************************)
DcTgard(p, r) ==
    LET Full  == {k \in 0..NSlices : Slice(p, r, k) # {}}
        first == CHOOSE k \in Full : \A l \in Full : k <= l
        last  == CHOOSE k \in Full : \A l \in Full : l <= k
    IN  IF Full = {}
          THEN [places |-> {}, lo |-> NSlices, hi |-> 0]
          ELSE [places |-> Slice(p, r, first) \cup Slice(p, r, last),
                lo |-> MaxOf(0, first - 1), hi |-> MinOf(NSlices, last + 1)]

Found(mtd, p, r) == IF mtd = "TGARD" THEN Tgard(p, r) ELSE DcTgard(p, r)

-----------------------------------------------------------------------------
(* The anchors of PRISM node k that the LLM gave no pair: two by two, and  *)
(* the first two again once they are used up.                              *)
AnchorPair(k) ==
    IF Len(q) >= 2 * k THEN <<q[2 * k - 1], q[2 * k]>> ELSE <<q[1], q[2]>>

(* Of these places the corners decide. *)
ByTheRim(pair, x) ==
    LET p == Compute(pair, {})
    IN  Sum(p, x) - EllipseAt(p, p.a.t) \in (1 - Slack)..Slack

(* _coerce_plan and the PRISM nodes; a failed one is a soft error. *)
ComputePrisms ==
    /\ stage = "planning"
    /\ \E pair \in [1..NrPrisms -> LlmPairs \cup {<<>>}] :
          LET Pair(k) == IF pair[k] = <<>> THEN AnchorPair(k) ELSE pair[k]
              needs   == \E k \in 1..NrPrisms : pair[k] = <<>>
          IN  IF needs /\ Len(q) < 2
                THEN /\ stage' = "GuardrailTripped"
                     /\ UNCHANGED prisms
                ELSE /\ stage' = "finding"
                     /\ \E rim \in SUBSET {kx \in (1..NrPrisms) \X Place : ByTheRim(Pair(kx[1]), kx[2])} :
                           prisms' = [k \in {j \in 1..NrPrisms : Computes(Pair(j))} |->
                                         Compute(Pair(k), {x \in Place : <<k, x>> \in rim})]
    /\ UNCHANGED <<q, domain, method, regions>>

(* The pairs the rendezvous node looks at: prisms that exist, each once. *)
Pairs ==
    {mn \in (DOMAIN prisms) \X (DOMAIN prisms) : mn[1] < mn[2]}

(* A pair gives a region if the windows and some slice overlap. *)
Meet(m, n) ==
    /\ Start(prisms[m], prisms[n]) < End(prisms[m], prisms[n])
    /\ Found(method, prisms[m], prisms[n]).places # {}

FindRegions ==
    /\ stage = "finding"
    /\ \E lost \in SUBSET {mn \in Pairs : Degenerate(prisms[mn[1]]) \/ Degenerate(prisms[mn[2]])} :
          regions' = {[pair |-> mn, region |-> Found(method, prisms[mn[1]], prisms[mn[2]])] :
                         mn \in {x \in Pairs \ lost : Meet(x[1], x[2])}}
    /\ stage' = "validating"
    /\ UNCHANGED <<q, domain, method, prisms>>

-----------------------------------------------------------------------------
(* The order of sorted(anchors, key=t), which is stable. *)
Precedes(k, l) == q[k].t < q[l].t \/ (q[k].t = q[l].t /\ k < l)

(* A slip: neighbours as the request lists them. *)
AdjacentAsListed(k, l) == l = k + 1

Adjacent(k, l) ==
    /\ Precedes(k, l)
    /\ ~ \E m \in DOMAIN q : Precedes(k, m) /\ Precedes(m, l)

(* dist <= 1.05 * v_max * dt, in twentieths. *)
Reachable(a, b) == 20 * Dist[a.at, b.at] <= 21 * VMax[domain] * (b.t - a.t)

(* A slip: of two anchors at one time, one is always too far. *)
TooFastAtOnce ==
    \E k, l \in DOMAIN q : Adjacent(k, l) /\ ~ Reachable(q[k], q[l])

TooFast ==
    \E k, l \in DOMAIN q :
        /\ Adjacent(k, l)
        /\ q[k].t < q[l].t
        /\ ~ Reachable(q[k], q[l])

(* The gate on the anchors; no window that was found is reversed. *)
Validate ==
    /\ stage = "validating"
    /\ stage' = IF TooFast \/ \E r \in regions : r.region.lo > r.region.hi
                  THEN "KinematicViolation" ELSE "answered"
    /\ UNCHANGED <<q, domain, method, prisms, regions>>

Next == ComputePrisms \/ FindRegions \/ Validate

Spec == Init /\ [][Next]_vars

-----------------------------------------------------------------------------
(* Every variable has its type. *)
TypeOK ==
    /\ q \in Requests
    /\ domain \in Domain
    /\ method \in {"TGARD", "DC-TGARD"}
    /\ DOMAIN prisms \subseteq 1..NrPrisms
    /\ \A k \in DOMAIN prisms :
          prisms[k] \in [a : Anchors, b : Anchors, v : Nat, feasible : BOOLEAN, rim : SUBSET Place]
    /\ \A r \in regions : r.pair \in Pairs /\ r.region.places \subseteq Place
    /\ stage \in {"planning", "GuardrailTripped", "finding", "validating",
                  "KinematicViolation", "answered"}

(* Both movers can be at x at time t: what the prism stands for. *)
CanMeet(p, r, x, t) == x \in LensAt(p, t) /\ x \in LensAt(r, t)

(* On its way over x a mover has some way to spare. *)
HasSlack(p, x) == Sum(p, x) + Slack <= p.v * (p.b.t - p.a.t)

(***************************************************************************)
(* No possible meeting is missed: if two movers with some slack can be at  *)
(* one place at one time of a common window, a region holds the place and  *)
(* its window the time.                                                    *)
(***************************************************************************)
MeetingIsFound ==
    stage \in {"validating", "answered"} =>
        \A mn \in Pairs :
            LET p == prisms[mn[1]]
                r == prisms[mn[2]]
            IN  Start(p, r) < End(p, r) =>
                    \A t \in Start(p, r)..End(p, r) : \A x \in Place :
                        CanMeet(p, r, x, t) /\ HasSlack(p, x) /\ HasSlack(r, x) =>
                            \E g \in regions :
                                /\ g.pair = mn
                                /\ x \in g.region.places
                                /\ SliceTime(p, r, g.region.lo) <= t
                                /\ t <= SliceTime(p, r, g.region.hi)

(***************************************************************************)
(* And no region holds a place that is further out of reach of one of its  *)
(* movers than the slack, if the mover can reach its own end.              *)
(***************************************************************************)
NothingOutOfReach ==
    \A g \in regions : \A x \in g.region.places : \A k \in {g.pair[1], g.pair[2]} :
        LET p == prisms[k]
        IN  p.feasible => Sum(p, x) <= p.v * (p.b.t - p.a.t) + Slack

(***************************************************************************)
(* The dual convergence changes nothing: all slices of a pair are equal,   *)
(* for the two radii of ellipse_at always add up to the same sum.          *)
(***************************************************************************)
ConvergenceIsIdle ==
    stage # "planning" =>
        \A g \in regions :
            g.region = Tgard(prisms[g.pair[1]], prisms[g.pair[2]])

(* No two anchors of the request are of one instant.                       *)
DistinctTimes == \A k, l \in DOMAIN q : k # l => q[k].t # q[l].t

(***************************************************************************)
(* Anchors that pass the gate at distinct times are reachable two by two,  *)
(* not only the neighbours it looks at.                                    *)
(***************************************************************************)
PassMeansReachable ==
    stage = "answered" /\ DistinctTimes =>
        \A k, l \in DOMAIN q : q[k].t < q[l].t => Reachable(q[k], q[l])

(* A request whose anchors are reachable two by two is never refused. *)
NoFalseAlarm ==
    (\A k, l \in DOMAIN q : q[k].t < q[l].t => Reachable(q[k], q[l]))
        => stage # "KinematicViolation"

(* Up to the slack find() misses no possible meeting and shows none out of *)
(* reach, and its two methods differ in name and confidence only           *)
(* (rendezvous_finder.py, space_time_prism.py).                            *)
RegionsAreComplete == MeetingIsFound /\ NothingOutOfReach /\ ConvergenceIsIdle

(* The gate on neighbours refuses no reachable request, and of what passes *)
(* at distinct times any two anchors are reachable (validator.py).         *)
GateIsExact == PassMeansReachable /\ NoFalseAlarm
=============================================================================
