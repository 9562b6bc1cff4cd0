---------------------------- MODULE GapClusters ----------------------------
(***************************************************************************)
(* GapDetectorAgent.detect (app/agents/gap_detector.py) from its candidate *)
(* gaps on: the prisms, the R*-tree over their bounding boxes, the loop    *)
(* that merges overlapping gaps into clusters, and the report of one gap   *)
(* for each cluster, scored by the Pi-DPM model or by its surrogate.       *)
(*                                                                         *)
(* Candidate number c is numbered from 1.  The geometry is the relation    *)
(* near: the boxes of two prisms intersect.                                *)
(***************************************************************************)
EXTENDS Integers, FiniteSets, Sequences

CONSTANTS N,                 \* number of candidate gaps
          NegativeThreshold  \* may the plan ask for a negative threshold?

ASSUME NIsNat == N \in Nat
ASSUME NegativeIsBool == NegativeThreshold \in BOOLEAN

Gap == 1..N

VARIABLES
    near,    \* near[c]: the candidates whose box intersects that of c
    ok,      \* the candidates whose prism could be computed
    i,       \* the loop variable of the merging loop, a prism's number
    seen,    \* the ids that some cluster has
    merged,  \* the clusters, in the order they were opened
    gaps,    \* the gaps reported so far
    pidpm,   \* _pidpm: "None", "model" or "False" (unavailable)
    status   \* "merging", "reporting", "returned" or "IndexError"

vars == <<near, ok, i, seen, merged, gaps, pidpm, status>>

Symmetric(f) == \A c, d \in Gap : d \in f[c] <=> c \in f[d]
Reflexive(f) == \A c \in Gap : c \in f[c]
Transitive(f) == \A c, d, e \in Gap : d \in f[c] /\ e \in f[d] => e \in f[c]

(***************************************************************************)
(* prisms[k]: a candidate without a prism (B not after A, which takes a    *)
(* negative threshold) is skipped, so the list index falls behind the id   *)
(* under which the R*-tree knows the prism.                                *)
(***************************************************************************)
NrPrisms == Cardinality(ok)
Prism(k) == CHOOSE c \in ok : Cardinality({d \in ok : d <= c}) = k

Init ==
    /\ near \in {f \in [Gap -> SUBSET Gap] : Symmetric(f) /\ Reflexive(f)}
    /\ ok \in IF NegativeThreshold THEN SUBSET Gap ELSE {Gap}
    /\ i = 1
    /\ seen = {}
    /\ merged = <<>>
    /\ gaps = <<>>
    /\ pidpm \in {"None", "model", "False"}
    /\ status = "merging"

(* A slip: the tree is filled as it is searched. *)
ClusterOfEarlier(k) == {c \in near[Prism(k)] \cap ok : c <= k}

(* idx.intersection(box of prism number k), and k itself. *)
Cluster(k) == (near[Prism(k)] \cap ok) \cup {k}

(* A slip: a neighbourhood that touches an older cluster is dropped. *)
SkipsOverlapping(k) == k \in seen \/ Cluster(k) \cap seen # {}

Skips(k) == k \in seen

(* One iteration of the merging loop. *)
Merge ==
    /\ status = "merging"
    /\ i <= NrPrisms
    /\ IF Skips(i)
         THEN UNCHANGED <<seen, merged>>
         ELSE /\ seen' = seen \cup Cluster(i)
              /\ merged' = Append(merged, Cluster(i))
    /\ i' = i + 1
    /\ UNCHANGED <<near, ok, gaps, pidpm, status>>

EndMerge ==
    /\ status = "merging"
    /\ i > NrPrisms
    /\ status' = "reporting"
    /\ UNCHANGED <<near, ok, i, seen, merged, gaps, pidpm>>

(* A slip: a failed import is not remembered. *)
BuiltEveryTime(p) == IF p = "model" THEN {"model"} ELSE {"model", "None"}

(* _ensure_pidpm: the import and the build are tried once and for all. *)
Built(p) == IF p = "None" THEN {"model", "False"} ELSE {p}

(***************************************************************************)
(* merge_dynamic(ellipses, members[0].pair) draws every ellipse of the     *)
(* cluster with the head's pair and projection: <<e, c>> is the ellipse of *)
(* e around the middle of the anchors of c.                                *)
(***************************************************************************)
MergeDynamic(members, head) == {<<e, head>> : e \in members}

(***************************************************************************)
(* The gap of a cluster: its first member, the least, for CPython iterates *)
(* a set of fewer than eight small numbers in their order.  by is what     *)
(* gave p_data: the model, the surrogate for want of one, or the surrogate *)
(* because the model raised.                                               *)
(***************************************************************************)
HeadIndex(cluster) == CHOOSE k \in cluster : \A l \in cluster : k <= l

Report ==
    /\ status = "reporting"
    /\ Len(gaps) < Len(merged)
    /\ LET cluster == merged[Len(gaps) + 1]
           members == {Prism(k) : k \in cluster}
           head    == Prism(HeadIndex(cluster))
       IN  /\ cluster \subseteq 1..NrPrisms
           /\ \E p \in Built(pidpm) :
                 /\ pidpm' = p
                 /\ \E by \in IF p = "model" THEN {"model", "raised"}
                                            ELSE {"surrogate"} :
                       gaps' = Append(gaps,
                           [head |-> head, members |-> members, by |-> by,
                            polygon |-> MergeDynamic(members, head)])
    /\ UNCHANGED <<near, ok, i, seen, merged, status>>

(* prisms[i] for an id past the end of the list. *)
Raise ==
    /\ status = "reporting"
    /\ Len(gaps) < Len(merged)
    /\ ~ (merged[Len(gaps) + 1] \subseteq 1..NrPrisms)
    /\ status' = "IndexError"
    /\ UNCHANGED <<near, ok, i, seen, merged, gaps, pidpm>>

(* The list sorted by the abnormal gap measure, which may be any order. *)
Return ==
    /\ status = "reporting"
    /\ Len(gaps) = Len(merged)
    /\ \E p \in {q \in [DOMAIN gaps -> DOMAIN gaps] :
                    \A k, l \in DOMAIN gaps : k # l => q[k] # q[l]} :
          gaps' = [k \in DOMAIN gaps |-> gaps[p[k]]]
    /\ status' = "returned"
    /\ UNCHANGED <<near, ok, i, seen, merged, pidpm>>

Next == Merge \/ EndMerge \/ Report \/ Raise \/ Return

Spec == Init /\ [][Next]_vars

-----------------------------------------------------------------------------
(* Every variable has its type. *)
TypeOK ==
    /\ near \in [Gap -> SUBSET Gap]
    /\ ok \in SUBSET Gap
    /\ i \in 1..N + 1
    /\ seen \in SUBSET Gap
    /\ merged \in Seq(SUBSET Gap)
    /\ pidpm \in {"None", "model", "False"}
    /\ status \in {"merging", "reporting", "returned", "IndexError"}

Clusters == {merged[k] : k \in DOMAIN merged}

(***************************************************************************)
(* With every prism computed, no gap is lost: each one that the merging    *)
(* loop skipped is in a cluster, and detect() does not raise.              *)
(***************************************************************************)
EveryGapCovered ==
    ok = Gap =>
        /\ \A c \in Gap : c < i => c \in UNION Clusters
        /\ status # "IndexError"

(***************************************************************************)
(* The neighbourhoods of one pass are the connected components whenever    *)
(* the boxes overlap transitively: no gap is then reported twice, and none *)
(* is hidden behind another that it does not overlap.                      *)
(***************************************************************************)
ExactIfTransitive ==
    ok = Gap /\ Transitive(near) =>
        /\ \A k, l \in DOMAIN merged : k # l => merged[k] \cap merged[l] = {}
        /\ \A k \in DOMAIN merged : \A c \in merged[k] : merged[k] = near[c]

(***************************************************************************)
(* The gaps of one report are ranked on one scale: none is scored by the   *)
(* model and another by the surrogate, but for a model that raised.        *)
(***************************************************************************)
OneScale ==
    \A k, l \in DOMAIN gaps : ~ (gaps[k].by = "model" /\ gaps[l].by = "surrogate")

(* What detect() returns: no gap lost, none hidden or repeated where       *)
(* overlap is transitive, and all ranked on one scale (gap_detector.py).   *)
ReportIsSound == EveryGapCovered /\ ExactIfTransitive /\ OneScale
=============================================================================
