-------------------------- MODULE DetectionProofs --------------------------
(***************************************************************************)
(* The merging of gaps, for every number of candidates and every relation  *)
(* of overlap: no gap is lost, clusters are the connected components when  *)
(* overlap is transitive, and one report has one scale.  Then the jobs     *)
(* beside the service, for any number of actors and any sizes: the         *)
(* training of Pi-DPM (PiDpmTrain), the migrations (Migrations), the local *)
(* gate (CiGate) and the cache ablation (Ablation).  Last the scores of    *)
(* Pi-DPM: synthetic tracks (PiDpmTrack), the schedule of the denoiser     *)
(* (DdimSchedule) and the evaluation (PiDpmEval).                          *)
(***************************************************************************)
EXTENDS MCDetection, FiniteSetTheorems, SequenceTheorems, WellFoundedInduction, TLAPS

(* A set of natural numbers that is not empty has a least element.         *)
LEMMA LeastNat ==
    ASSUME NEW T, T \subseteq Nat, T # {}
    PROVE  \E x \in T : \A y \in T : x <= y
<1> DEFINE R == {ss \in Nat \X Nat : ss[1] < ss[2]}
<1>1. R = OpToRel(<, Nat)
    BY Zenon DEF OpToRel
<1>2. PICK x \in T : \A y \in T : ~ (<<y, x>> \in R)
    <2> HIDE DEF R
    <2> QED BY <1>1, NatLessThanWellFounded, WFMin
<1>3. \A y \in T : ~ (y < x)
    BY <1>2
<1> QED BY <1>3

(* With every prism computed, the list index is the candidate's number. *)
LEMMA PrismIsId ==
    ASSUME ok = Gap
    PROVE  NrPrisms = N /\ \A k \in Gap : Prism(k) = k
<1> USE NIsNat
<1>1. \A c \in 0..N : {d \in Gap : d <= c} = 1..c
    BY DEF Gap
<1>2. \A c \in 0..N : Cardinality(1..c) = c
    BY FS_Interval
<1>3. NrPrisms = N
    BY <1>2 DEF NrPrisms, Gap
<1>4. ASSUME NEW k \in Gap PROVE Prism(k) = k
    <2>1. ASSUME NEW c \in Gap PROVE Cardinality({d \in ok : d <= c}) = c
        <3>1. c \in 0..N
            BY DEF Gap
        <3>2. {d \in ok : d <= c} = 1..c
            BY <1>1, <3>1
        <3> QED BY <1>2, <3>1, <3>2
    <2> QED BY <2>1, <1>4 DEF Prism
<1> QED BY <1>3, <1>4

(* What links the clusters to the ids that were seen and to the loop. *)
Bookkeeping ==
    /\ seen = UNION Clusters
    /\ \A k \in DOMAIN merged : merged[k] \subseteq Gap
    /\ ok = Gap => \A c \in Gap : c < i => c \in seen

Shape ==
    /\ near \in [Gap -> SUBSET Gap]
    /\ Symmetric(near) /\ Reflexive(near)
    /\ Len(merged) \in Nat /\ DOMAIN merged = 1..Len(merged)
    /\ \E S : gaps \in Seq(S)

(* A report by the model needs it, one by the surrogate its absence. *)
Source ==
    \A k \in DOMAIN gaps :
        /\ gaps[k].by = "model" => pidpm = "model"
        /\ gaps[k].by = "surrogate" => pidpm = "False"

NotRaised == ok = Gap => status # "IndexError"

IInv ==
    TypeOK /\ Shape /\ Bookkeeping /\ ExactIfTransitive /\ Source /\ NotRaised

LEMMA InitIInv == Init => IInv
<1> SUFFICES ASSUME Init PROVE IInv OBVIOUS
<1>1. ok \in SUBSET Gap
    BY DEF Init
<1>2. i \in 1..N + 1
    BY NIsNat DEF Init
<1>3. Clusters = {}
    BY DEF Init, Clusters
<1>4. merged = <<>> /\ gaps = <<>> /\ merged \in Seq(SUBSET Gap)
    BY DEF Init
<1>5. Bookkeeping
    BY <1>3, <1>4 DEF Init, Bookkeeping, Gap
<1>6. gaps \in Seq({})
    BY <1>4
<1> QED BY <1>1, <1>2, <1>4, <1>5, <1>6 DEF Init, IInv, TypeOK, Shape, ExactIfTransitive, Source, NotRaised

(* Appending a cluster adds its ids and nothing else. *)
LEMMA AppendedCluster ==
    ASSUME NEW C \in SUBSET Gap, merged \in Seq(SUBSET Gap),
           merged' = Append(merged, C)
    PROVE  /\ DOMAIN merged' = 1..Len(merged) + 1
           /\ Len(merged') = Len(merged) + 1
           /\ \A k \in DOMAIN merged : merged'[k] = merged[k]
           /\ merged'[Len(merged) + 1] = C
           /\ merged' \in Seq(SUBSET Gap)
           /\ Clusters' = Clusters \cup {C}
<1>1. /\ DOMAIN merged = 1..Len(merged) /\ Len(merged) \in Nat
      /\ DOMAIN merged' = 1..Len(merged) + 1
      /\ Len(merged') = Len(merged) + 1
      /\ \A k \in DOMAIN merged : merged'[k] = merged[k]
      /\ merged'[Len(merged) + 1] = C
      /\ merged' \in Seq(SUBSET Gap)
    OBVIOUS
<1>2. Clusters' = Clusters \cup {C}
    BY <1>1 DEF Clusters
<1> QED BY <1>1, <1>2

(* The merging loop keeps clusters exact while overlap is transitive. *)
LEMMA MergeExact ==
    ASSUME IInv, Merge, i \notin seen PROVE ExactIfTransitive'
<1> SUFFICES ASSUME ok = Gap, Transitive(near), near' = near, ok' = ok
             PROVE  /\ \A k, l \in DOMAIN merged' : k # l => merged'[k] \cap merged'[l] = {}
                    /\ \A k \in DOMAIN merged' : \A c \in merged'[k] : merged'[k] = near[c]
    BY DEF ExactIfTransitive, Merge, Transitive
<1>1. NrPrisms = N /\ Prism(i) = i /\ i \in Gap
    BY PrismIsId, NIsNat DEF Merge, IInv, TypeOK, Gap
<1>2. Cluster(i) = near[i]
    BY <1>1 DEF Cluster, IInv, Shape, Reflexive
<1>3. near[i] \in SUBSET Gap
    BY <1>1 DEF IInv, Shape
<1>4. merged' = Append(merged, near[i])
    BY <1>2 DEF Merge, Skips
<1>5. /\ DOMAIN merged' = 1..Len(merged) + 1
      /\ \A k \in DOMAIN merged : merged'[k] = merged[k]
      /\ merged'[Len(merged) + 1] = near[i]
      /\ DOMAIN merged = 1..Len(merged) /\ Len(merged) \in Nat
    BY <1>3, <1>4, AppendedCluster DEF IInv, TypeOK, Shape
<1>6. /\ \A k, l \in DOMAIN merged : k # l => merged[k] \cap merged[l] = {}
      /\ \A k \in DOMAIN merged : \A c \in merged[k] : merged[k] = near[c]
    BY DEF IInv, ExactIfTransitive
<1>7. \A c \in near[i] : near[c] = near[i]
    BY <1>1, <1>3 DEF IInv, Shape, Symmetric, Transitive
<1>8. ASSUME NEW k \in DOMAIN merged PROVE merged[k] \cap near[i] = {}
    <2> SUFFICES ASSUME NEW c \in merged[k], c \in near[i] PROVE FALSE
        BY <1>8
    <2>1. merged[k] = near[i]
        BY <1>6, <1>7
    <2>2. i \in merged[k]
        BY <2>1, <1>1 DEF IInv, Shape, Reflexive
    <2>3. i \in seen
        BY <2>2 DEF IInv, Bookkeeping, Clusters
    <2> QED BY <2>3
<1>9. ASSUME NEW k \in DOMAIN merged', NEW l \in DOMAIN merged', k # l
      PROVE  merged'[k] \cap merged'[l] = {}
    <2>1. CASE k \in DOMAIN merged /\ l \in DOMAIN merged
        BY <2>1, <1>5, <1>6, <1>9
    <2>2. CASE k \in DOMAIN merged /\ l = Len(merged) + 1
        BY <2>2, <1>5, <1>8
    <2>3. CASE k = Len(merged) + 1 /\ l \in DOMAIN merged
        BY <2>3, <1>5, <1>8
    <2> QED BY <2>1, <2>2, <2>3, <1>5, <1>9
<1>10. ASSUME NEW k \in DOMAIN merged', NEW c \in merged'[k]
       PROVE  merged'[k] = near[c]
    <2>1. CASE k \in DOMAIN merged
        BY <2>1, <1>5, <1>6, <1>10
    <2>2. CASE k = Len(merged) + 1
        BY <2>2, <1>5, <1>7, <1>10
    <2> QED BY <2>1, <2>2, <1>5, <1>10
<1> QED BY <1>9, <1>10

LEMMA MergeIInv == ASSUME IInv, Merge PROVE IInv'
<1> USE NIsNat
<1>a. NrPrisms \in Nat /\ NrPrisms <= N
    <2>1. IsFiniteSet(Gap) /\ Cardinality(Gap) = N
        BY FS_Interval DEF Gap
    <2> QED BY <2>1, FS_Subset, FS_CardinalityType DEF IInv, TypeOK, NrPrisms
<1>b. i \in Gap /\ i' = i + 1 /\ i' \in 1..N + 1
    BY <1>a DEF Merge, IInv, TypeOK, Gap
<1>c. (ok = Gap)' = (ok = Gap)
    BY DEF Merge
<1>1. CASE i \in seen
    <2>1. UNCHANGED <<near, ok, seen, merged, gaps, pidpm, status>>
        BY <1>1 DEF Merge, Skips
    <2>2. Bookkeeping'
        BY <2>1, <1>1, <1>b DEF IInv, Bookkeeping, Clusters, Gap
    <2> QED BY <2>1, <2>2, <1>b DEF IInv, TypeOK, Shape, Symmetric, Reflexive,
               ExactIfTransitive, Transitive, Source, NotRaised
<1>2. CASE i \notin seen
    <2>1. Cluster(i) \in SUBSET Gap /\ i \in Cluster(i)
        BY <1>b DEF Cluster, IInv, TypeOK
    <2>2. /\ merged' = Append(merged, Cluster(i)) /\ seen' = seen \cup Cluster(i)
          /\ UNCHANGED <<near, ok, gaps, pidpm, status>>
        BY <1>2 DEF Merge, Skips
    <2>3. /\ DOMAIN merged' = 1..Len(merged) + 1
          /\ Len(merged') = Len(merged) + 1
          /\ \A k \in DOMAIN merged : merged'[k] = merged[k]
          /\ merged'[Len(merged) + 1] = Cluster(i)
          /\ merged' \in Seq(SUBSET Gap)
          /\ Clusters' = Clusters \cup {Cluster(i)}
        BY <2>1, <2>2, AppendedCluster DEF IInv, TypeOK
    <2>4. seen' = UNION Clusters'
        BY <2>2, <2>3 DEF IInv, Bookkeeping
    <2>5. \A k \in DOMAIN merged' : merged'[k] \subseteq Gap
        BY <2>3
    <2>6. ok' = Gap => \A c \in Gap : c < i' => c \in seen'
        BY <2>1, <2>2, <1>b DEF IInv, Bookkeeping, Gap
    <2>7. Bookkeeping'
        BY <2>4, <2>5, <2>6 DEF Bookkeeping, Gap
    <2>8. Shape'
        BY <2>2, <2>3 DEF IInv, Shape, Symmetric, Reflexive
    <2>9. TypeOK'
        BY <2>1, <2>2, <2>3, <1>b DEF IInv, TypeOK
    <2>10. ExactIfTransitive'
        BY <1>2, MergeExact
    <2> QED BY <2>2, <2>7, <2>8, <2>9, <2>10 DEF IInv, Source, NotRaised
<1> QED BY <1>1, <1>2

(* No report changes a cluster. *)
LEMMA OthersIInv ==
    ASSUME IInv, EndMerge \/ Report \/ Raise \/ Return PROVE IInv'
<1>1. UNCHANGED <<near, ok, i, seen, merged>>
    BY DEF EndMerge, Report, Raise, Return
<1>2. Bookkeeping' /\ ExactIfTransitive'
    BY <1>1 DEF IInv, Bookkeeping, Clusters, ExactIfTransitive, Transitive
<1>3. CASE EndMerge
    BY <1>1, <1>2, <1>3 DEF EndMerge, IInv, TypeOK, Shape, Symmetric, Reflexive, Source, NotRaised
<1>4. CASE Report
    <2>1. PICK p \in Built(pidpm) :
              /\ pidpm' = p
              /\ \E g : /\ gaps' = Append(gaps, g)
                        /\ g.by = "model" => p = "model"
                        /\ g.by = "surrogate" => p # "model"
        <3>1. PICK p \in Built(pidpm), by \in {"model", "raised", "surrogate"} :
                  /\ pidpm' = p
                  /\ by = "model" => p = "model"
                  /\ by = "surrogate" => p # "model"
                  /\ \E h, ms, poly : gaps' = Append(gaps,
                        [head |-> h, members |-> ms, by |-> by, polygon |-> poly])
            BY <1>4 DEF Report
        <3> QED BY <3>1
    <2>2. PICK g : /\ gaps' = Append(gaps, g)
                   /\ g.by = "model" => pidpm' = "model"
                   /\ g.by = "surrogate" => pidpm' # "model"
        BY <2>1
    <2>3. /\ pidpm' \in {"None", "model", "False"}
          /\ pidpm' \in {"model", "False"}
          /\ pidpm # "None" => pidpm' = pidpm
        BY <2>1 DEF Built, IInv, TypeOK
    <2>4. /\ DOMAIN gaps' = 1..Len(gaps) + 1 /\ Len(gaps') = Len(gaps) + 1
          /\ \A k \in DOMAIN gaps : gaps'[k] = gaps[k]
          /\ gaps'[Len(gaps) + 1] = g
          /\ Len(gaps) \in Nat /\ DOMAIN gaps = 1..Len(gaps)
          /\ \E S : gaps' \in Seq(S)
        <3>1. PICK S : gaps \in Seq(S)
            BY DEF IInv, Shape
        <3>2. gaps \in Seq(S \cup {g})
            BY <3>1
        <3>3. gaps' \in Seq(S \cup {g})
            BY <2>2, <3>2
        <3> QED BY <2>2, <3>2, <3>3
    <2>5. Source'
        BY <2>2, <2>3, <2>4 DEF IInv, Source
    <2>6. Shape'
        BY <1>1, <2>4 DEF IInv, Shape, Symmetric, Reflexive
    <2>7. status' = status
        BY <1>4 DEF Report
    <2> QED BY <1>1, <1>2, <2>3, <2>5, <2>6, <2>7 DEF IInv, TypeOK, NotRaised
<1>5. CASE Raise
    <2>1. ok # Gap
        <3>1. PICK k \in DOMAIN merged : ~ (merged[k] \subseteq 1..NrPrisms)
            BY <1>5 DEF Raise, IInv, Shape
        <3>2. merged[k] \subseteq Gap
            BY <3>1 DEF IInv, Bookkeeping
        <3> QED BY <3>1, <3>2, PrismIsId DEF Gap
    <2> QED BY <1>1, <1>2, <1>5, <2>1 DEF Raise, IInv, TypeOK, Shape, Symmetric, Reflexive, Source, NotRaised
<1>6. CASE Return
    <2>1. PICK p \in [DOMAIN gaps -> DOMAIN gaps] :
              gaps' = [k \in DOMAIN gaps |-> gaps[p[k]]]
        BY <1>6 DEF Return
    <2>2. DOMAIN gaps' = DOMAIN gaps /\ \A k \in DOMAIN gaps : gaps'[k] = gaps[p[k]]
        BY <2>1
    <2>3. \E S : gaps' \in Seq(S)
        <3>1. PICK S : gaps \in Seq(S)
            BY DEF IInv, Shape
        <3> QED BY <2>1, <3>1
    <2>4. Source'
        <3>1. \A k \in DOMAIN gaps' : p[k] \in DOMAIN gaps /\ gaps'[k] = gaps[p[k]]
            BY <2>2
        <3>2. pidpm' = pidpm
            BY <1>6 DEF Return
        <3> QED BY <3>1, <3>2 DEF IInv, Source
    <2> QED BY <1>1, <1>2, <1>6, <2>2, <2>3, <2>4 DEF Return, IInv, TypeOK, Shape, Symmetric, Reflexive, NotRaised
<1> QED BY <1>3, <1>4, <1>5, <1>6

LEMMA Inductive == Spec => []IInv
<1>1. IInv /\ [Next]_vars => IInv'
    <2> SUFFICES ASSUME IInv, [Next]_vars PROVE IInv' OBVIOUS
    <2>1. CASE UNCHANGED vars
        BY <2>1 DEF vars, IInv, TypeOK, Shape, Symmetric, Reflexive, Bookkeeping, Clusters,
           ExactIfTransitive, Transitive, Source, NotRaised
    <2> QED BY <2>1, MergeIInv, OthersIInv DEF Next
<1> QED BY InitIInv, <1>1, PTL DEF Spec

(* Every variable of the merging keeps its type. *)
THEOREM TypeCorrect == Spec => []TypeOK
<1>1. IInv => TypeOK
    BY DEF IInv
<1> QED BY <1>1, Inductive, PTL

(* No gap is lost and detect() does not raise, with every prism computed. *)
THEOREM NoGapLost == Spec => []EveryGapCovered
<1>1. IInv => EveryGapCovered
    BY DEF IInv, Bookkeeping, NotRaised, EveryGapCovered
<1> QED BY <1>1, Inductive, PTL

(* Where overlap is transitive, the clusters are its classes. *)
THEOREM ExactClusters == Spec => []ExactIfTransitive
<1>1. IInv => ExactIfTransitive
    BY DEF IInv
<1> QED BY <1>1, Inductive, PTL

(* One report is ranked on one scale. *)
THEOREM RankedOnOneScale == Spec => []OneScale
<1>1. IInv => OneScale
    BY DEF IInv, Source, OneScale
<1> QED BY <1>1, Inductive, PTL

(* All that a reader takes a report for. *)
THEOREM SoundReport == Spec => []ReportIsSound
<1>1. EveryGapCovered /\ ExactIfTransitive /\ OneScale => ReportIsSound
    BY DEF ReportIsSound
<1> QED BY <1>1, NoGapLost, ExactClusters, RankedOnOneScale, PTL

-----------------------------------------------------------------------------
(***************************************************************************)
(* PiDpmTrain: for any processes, sizes, batches and epochs.                *)
(***************************************************************************)
PerEpoch == n \div BatchSize

(* The batches a process has made of its epoch, and before it.             *)
Trained(p) ==
    \E done \in Nat :
        /\ IsFiniteSet(left[p])
        /\ Cardinality(left[p]) + done * BatchSize = n
        /\ ema[p] = (epoch[p] - 1) * PerEpoch + done

Process(p) ==
    /\ left[p] \subseteq 1..n
    /\ epoch[p] \in 1..Epochs /\ ema[p] \in 0..Trainer!Full
    /\ trainerAt[p] = "training" => Trained(p)
    /\ trainerAt[p] \in {"trained", "saving", "saved"} => ema[p] = Trainer!Full

(* A partial file is of the one who has it open, or of a kill.             *)
OnDisk ==
    /\ checkpoint.is \in {"none", "partial", "mixed", "whole"}
    /\ checkpoint.is = "whole" => checkpoint.of = Trainer!Full
    /\ checkpoint.is = "partial" /\ opened = {} => kills > 0
    /\ loaded.is = "whole" => loaded.of = Trainer!Full
    /\ \A p \in Procs : p \in opened <=> trainerAt[p] = "saving"

TrainInv ==
    /\ n \in Sizes /\ kills \in Nat
    /\ trainerAt \in [Procs -> {"training", "trained", "saving", "saved", "raised"}]
    /\ DOMAIN left = Procs /\ DOMAIN ema = Procs /\ DOMAIN epoch = Procs
    /\ opened \subseteq Procs
    /\ OnDisk
    /\ \A p \in Procs : Process(p)

LEMMA TrainersCount == \A S : Trainer!Cardinality(S) = Cardinality(S)
BY DEF Trainer!Cardinality, Cardinality

LEMMA QuotientFacts ==
    ASSUME NEW a \in Nat, NEW b \in Nat \ {0}
    PROVE  /\ a \div b \in Nat
           /\ b * (a \div b) <= a /\ a < b * (a \div b) + b
OBVIOUS

LEMMA BatchFacts ==
    ASSUME NEW a \in Nat, NEW b \in Nat \ {0}, NEW d \in Nat, NEW r \in Nat, r + d * b = a
    PROVE  /\ d <= a \div b
           /\ r < b => d = a \div b
           /\ r >= b => d + 1 <= a \div b
<1> DEFINE k == a \div b
<1>1. k \in Nat /\ b * k <= a /\ a < b * k + b
    BY QuotientFacts
<1> HIDE DEF k
<1>2. ASSUME NEW x \in Nat, NEW y \in Nat, x > y PROVE x * b >= y * b + b
    <2>1. PICK z \in Nat : x = y + 1 + z
        BY <1>2
    <2>2. x * b = y * b + b + z * b /\ z * b \in Nat
        BY <2>1
    <2> QED BY <2>2
<1>3. d * b \in Nat /\ k * b \in Nat /\ b * k = k * b
    BY <1>1
<1>4. ~(d > k)
    BY <1>1, <1>2, <1>3
<1>5. ASSUME r < b PROVE d = k
    <2>1. ~(k > d)
        BY <1>1, <1>2, <1>3, <1>5
    <2> QED BY <1>1, <1>4, <2>1
<1>6. ASSUME r >= b PROVE d + 1 <= k
    <2>1. d # k
        BY <1>1, <1>3, <1>6
    <2> QED BY <1>1, <1>4, <2>1
<1> QED BY <1>4, <1>5, <1>6 DEF k

LEMMA SizesAreNat ==
    /\ BatchSize \in Nat \ {0} /\ Epochs \in Nat \ {0}
    /\ \A m \in Sizes : m \in Nat \ {0}
BY TrainingIsKnown DEF Trainer!TrainAssumption

(* A training at its beginning                                             *)
LEMMA FreshProcess ==
    ASSUME NEW m \in Sizes
    PROVE  /\ IsFiniteSet(1..m) /\ Cardinality(1..m) = m
           /\ m + 0 * BatchSize = m /\ (1 - 1) * (m \div BatchSize) + 0 = 0
           /\ 1 \in 1..Epochs /\ 0 \in 0..(Epochs * (m \div BatchSize))
<1>1. m \in Nat \ {0} /\ BatchSize \in Nat \ {0} /\ Epochs \in Nat \ {0}
    BY SizesAreNat
<1>2. m \div BatchSize \in Nat
    BY <1>1, QuotientFacts
<1>3. IsFiniteSet(1..m) /\ Cardinality(1..m) = m
    BY <1>1, FS_Interval
<1>4. Epochs * (m \div BatchSize) \in Nat
    BY <1>1, <1>2
<1> QED BY <1>1, <1>2, <1>3, <1>4

LEMMA TrainBegins == Trainer!Init => TrainInv
<1> SUFFICES ASSUME Trainer!Init PROVE TrainInv
    OBVIOUS
<1>1. ASSUME NEW p \in Procs PROVE Process(p)
    <2>1. /\ left[p] = 1..n /\ n \in Sizes /\ epoch[p] = 1 /\ ema[p] = 0
          /\ trainerAt[p] = "training"
        BY <1>1 DEF Trainer!Init, Trainer!Track
    <2>2. Trained(p)
        BY <2>1, FreshProcess DEF Trained, PerEpoch
    <2> QED BY <2>1, <2>2, FreshProcess DEF Process, Trainer!Full
<1>2. OnDisk
    BY DEF Trainer!Init, Trainer!None, OnDisk
<1> QED BY <1>1, <1>2 DEF Trainer!Init, Trainer!None, TrainInv

(* A process that begins again from nothing                                *)
LEMMA RestartStep ==
    ASSUME TrainInv, NEW p \in Procs, Trainer!Kill(p) \/ Trainer!Retrain(p)
    PROVE  TrainInv'
<1>1. /\ trainerAt' = [trainerAt EXCEPT ![p] = "training"]
      /\ epoch' = [epoch EXCEPT ![p] = 1] /\ left' = [left EXCEPT ![p] = 1..n]
      /\ ema' = [ema EXCEPT ![p] = 0] /\ opened' = opened \ {p} /\ kills' = kills + 1
      /\ UNCHANGED <<n, checkpoint, loaded>>
    BY DEF Trainer!Kill, Trainer!Retrain, Trainer!Track, TrainInv, OnDisk
<1>2. Process(p)'
    <2>1. /\ left'[p] = 1..n /\ epoch'[p] = 1 /\ ema'[p] = 0 /\ n' = n /\ n \in Sizes
          /\ trainerAt'[p] = "training"
        BY <1>1 DEF TrainInv
    <2>2. Trained(p)'
        BY <2>1, FreshProcess DEF Trained, PerEpoch
    <2> QED BY <2>1, <2>2, FreshProcess DEF Process, Trainer!Full
<1>3. ASSUME NEW q \in Procs \ {p} PROVE Process(q)'
    BY <1>1, <1>3 DEF TrainInv, Process, Trained, PerEpoch, Trainer!Full
<1>4. OnDisk'
    BY <1>1 DEF TrainInv, OnDisk, Trainer!Full
<1> QED BY <1>1, <1>2, <1>3, <1>4 DEF TrainInv

LEMMA BatchStep ==
    ASSUME TrainInv, NEW p \in Procs, Trainer!TrainBatch(p)
    PROVE  TrainInv'
<1>1. PICK b \in SUBSET left[p] :
          /\ Trainer!Cardinality(b) = BatchSize /\ left' = [left EXCEPT ![p] = @ \ b]
    BY DEF Trainer!TrainBatch, Trainer!BatchLen
<1>2. /\ trainerAt[p] = "training" /\ Cardinality(left[p]) >= BatchSize
      /\ ema' = [ema EXCEPT ![p] = IF @ > Trainer!Full THEN @ ELSE @ + 1]
      /\ UNCHANGED <<n, trainerAt, epoch, checkpoint, opened, loaded, kills>>
    BY TrainersCount DEF Trainer!TrainBatch, Trainer!BatchLen
<1>3. Process(p)'
    <2> DEFINE k == PerEpoch
    <2>1. PICK done \in Nat :
              /\ IsFiniteSet(left[p]) /\ Cardinality(left[p]) + done * BatchSize = n
              /\ ema[p] = (epoch[p] - 1) * k + done
        BY <1>2 DEF TrainInv, Process, Trained
    <2>2. /\ n \in Nat \ {0} /\ BatchSize \in Nat \ {0} /\ Epochs \in Nat \ {0}
          /\ epoch[p] \in 1..Epochs /\ k \in Nat /\ ema[p] \in 0..Trainer!Full
          /\ Trainer!Full = Epochs * k
        BY SizesAreNat, QuotientFacts DEF TrainInv, Process, PerEpoch, Trainer!Full
    <2>3. /\ left'[p] = left[p] \ b /\ IsFiniteSet(left[p] \ b)
          /\ Cardinality(left[p] \ b) = Cardinality(left[p]) - BatchSize
        <3>1. IsFiniteSet(b) /\ Cardinality(b) = BatchSize /\ left[p] \cap b = b
            BY <1>1, <2>1, FS_Subset, TrainersCount
        <3>2. left'[p] = left[p] \ b
            BY <1>1 DEF TrainInv
        <3>3. /\ IsFiniteSet(left[p] \ b)
              /\ Cardinality(left[p] \ b) = Cardinality(left[p]) - Cardinality(left[p] \cap b)
            BY <2>1, FS_Difference
        <3> QED BY <3>1, <3>2, <3>3
    <2>4. Cardinality(left[p]) \in Nat
        BY <2>1, FS_CardinalityType
    <2>5. done + 1 <= k
        BY <1>2, <2>1, <2>2, <2>4, BatchFacts DEF PerEpoch
    <2> HIDE DEF k
    <2>6. (epoch[p] - 1) * k + k <= Epochs * k
        <3>1. PICK z \in Nat : Epochs = epoch[p] + z
            <4>1. Epochs - epoch[p] \in Nat /\ Epochs = epoch[p] + (Epochs - epoch[p])
                BY <2>2
            <4> QED BY <4>1
        <3>2. Epochs * k = (epoch[p] - 1) * k + k + z * k /\ z * k \in Nat
            BY <2>2, <3>1
        <3>3. (epoch[p] - 1) * k \in Nat
            BY <2>2
        <3> QED BY <2>2, <3>2, <3>3
    <2>7. (epoch[p] - 1) * k \in Nat /\ Epochs * k \in Nat
        BY <2>2
    <2>8. ema'[p] = (epoch[p] - 1) * k + (done + 1) /\ ema'[p] \in 0..Trainer!Full
        BY <1>2, <2>1, <2>2, <2>5, <2>6, <2>7 DEF TrainInv
    <2>9. Cardinality(left[p]) - BatchSize + (done + 1) * BatchSize = n
        <3>1. (done + 1) * BatchSize = done * BatchSize + BatchSize /\ done * BatchSize \in Nat
            BY <2>2
        <3> QED BY <2>1, <2>2, <2>4, <3>1
    <2>10. Trained(p)'
        <3>1. done + 1 \in Nat /\ PerEpoch' = k
            BY <1>2 DEF PerEpoch, k
        <3> QED BY <1>2, <2>3, <2>8, <2>9, <3>1 DEF Trained
    <2>11. left'[p] \subseteq 1..n /\ trainerAt'[p] = "training" /\ Trainer!Full' = Trainer!Full
        BY <1>2, <2>3 DEF TrainInv, Process, Trainer!Full
    <2> QED BY <1>2, <2>2, <2>8, <2>10, <2>11 DEF Process
<1>4. ASSUME NEW q \in Procs \ {p} PROVE Process(q)'
    BY <1>1, <1>2, <1>4 DEF TrainInv, Process, Trained, PerEpoch, Trainer!Full
<1>5. OnDisk'
    BY <1>2 DEF TrainInv, OnDisk, Trainer!Full
<1> QED BY <1>1, <1>2, <1>3, <1>4, <1>5 DEF TrainInv

LEMMA EpochStep ==
    ASSUME TrainInv, NEW p \in Procs, Trainer!EndEpoch(p)
    PROVE  TrainInv'
<1> DEFINE k == PerEpoch
<1>1. /\ trainerAt[p] = "training"
      /\ left[p] = {} \/ ~(Cardinality(left[p]) >= BatchSize)
      /\ left' = [left EXCEPT ![p] = 1..n]
      /\ \/ /\ k = 0 /\ trainerAt' = [trainerAt EXCEPT ![p] = "raised"] /\ epoch' = epoch
         \/ /\ k # 0 /\ epoch[p] = Epochs /\ epoch' = [epoch EXCEPT ![p] = epoch[p]]
            /\ trainerAt' = [trainerAt EXCEPT ![p] = "trained"]
         \/ /\ k # 0 /\ epoch[p] # Epochs /\ epoch' = [epoch EXCEPT ![p] = epoch[p] + 1]
            /\ trainerAt' = [trainerAt EXCEPT ![p] = trainerAt[p]]
      /\ UNCHANGED <<n, ema, checkpoint, opened, loaded, kills>>
    BY TrainersCount
    DEF Trainer!EndEpoch, Trainer!BatchLen, Trainer!EpochAfter, Trainer!Track, PerEpoch
<1>2. /\ n \in Sizes /\ n \in Nat \ {0} /\ BatchSize \in Nat \ {0} /\ Epochs \in Nat \ {0}
      /\ epoch[p] \in 1..Epochs /\ k \in Nat /\ ema[p] \in 0..Trainer!Full
      /\ Trainer!Full = Epochs * k /\ PerEpoch' = k /\ Trainer!Full' = Trainer!Full
    BY <1>1, SizesAreNat, QuotientFacts DEF TrainInv, Process, PerEpoch, Trainer!Full
<1>3. ema[p] = (epoch[p] - 1) * k + k
    <2>1. PICK done \in Nat :
              /\ IsFiniteSet(left[p]) /\ Cardinality(left[p]) + done * BatchSize = n
              /\ ema[p] = (epoch[p] - 1) * k + done
        BY <1>1 DEF TrainInv, Process, Trained
    <2>2. Cardinality(left[p]) \in Nat
        BY <2>1, FS_CardinalityType
    <2>3. Cardinality(left[p]) < BatchSize
        <3>1. left[p] = {} => Cardinality(left[p]) = 0
            BY FS_EmptySet
        <3>2. Cardinality(left[p]) = 0 \/ ~(Cardinality(left[p]) >= BatchSize)
            BY <1>1, <3>1
        <3>3. BatchSize \in Nat \ {0}
            BY <1>2
        <3> QED BY <2>2, <3>2, <3>3
    <2> QED BY <1>2, <2>1, <2>2, <2>3, BatchFacts DEF PerEpoch
<1>4. ema[p] = epoch[p] * k
    <2> HIDE DEF k
    <2>1. (epoch[p] - 1) * k + k = epoch[p] * k
        BY <1>2
    <2> QED BY <1>3, <2>1
<1> HIDE DEF k
<1>5. Process(p)'
    <2>0. /\ left'[p] = 1..n /\ ema' = ema /\ n' = n
          /\ epoch'[p] \in 1..Epochs
        BY <1>1, <1>2 DEF TrainInv
    <2>1. CASE trainerAt' = [trainerAt EXCEPT ![p] = "raised"]
        <3>1. trainerAt'[p] = "raised"
            BY <2>1 DEF TrainInv
        <3> QED BY <1>2, <2>0, <3>1 DEF Process
    <2>2. CASE epoch[p] = Epochs /\ trainerAt' = [trainerAt EXCEPT ![p] = "trained"]
        <3>1. trainerAt'[p] = "trained" /\ ema[p] = Trainer!Full
            BY <1>2, <1>4, <2>2 DEF TrainInv
        <3> QED BY <1>2, <2>0, <3>1 DEF Process
    <2>3. CASE epoch' = [epoch EXCEPT ![p] = epoch[p] + 1]
               /\ trainerAt' = [trainerAt EXCEPT ![p] = trainerAt[p]]
        <3>1. trainerAt'[p] = "training" /\ epoch'[p] = epoch[p] + 1
            BY <1>1, <2>3 DEF TrainInv
        <3>2. ema[p] = (epoch'[p] - 1) * k + 0
            <4>1. (epoch[p] + 1) - 1 = epoch[p] /\ epoch[p] * k \in Nat
                BY <1>2
            <4> QED BY <1>4, <3>1, <4>1
        <3>3. Trained(p)'
            BY <1>2, <2>0, <3>2, FreshProcess DEF Trained
        <3> QED BY <1>2, <2>0, <3>1, <3>3 DEF Process
    <2> QED BY <1>1, <2>1, <2>2, <2>3
<1>6. ASSUME NEW q \in Procs \ {p} PROVE Process(q)'
    <2>1. /\ left'[q] = left[q] /\ trainerAt'[q] = trainerAt[q] /\ epoch'[q] = epoch[q]
          /\ ema' = ema /\ n' = n
        BY <1>1, <1>6 DEF TrainInv
    <2> QED BY <1>2, <1>6, <2>1 DEF TrainInv, Process, Trained, PerEpoch
<1>7. OnDisk' /\ DOMAIN left' = Procs /\ DOMAIN epoch' = Procs
      /\ trainerAt' \in [Procs -> {"training", "trained", "saving", "saved", "raised"}]
    BY <1>1, <1>2 DEF TrainInv, OnDisk
<1> QED BY <1>1, <1>5, <1>6, <1>7 DEF TrainInv

LEMMA SaveStep ==
    ASSUME TrainInv, NEW p \in Procs, Trainer!OpenFile(p) \/ Trainer!Save(p)
    PROVE  TrainInv'
<1>1. /\ trainerAt' \in [Procs -> {"training", "trained", "saving", "saved", "raised"}]
      /\ trainerAt[p] \in {"trained", "saving"} /\ trainerAt'[p] \in {"saving", "saved"}
      /\ \A q \in Procs \ {p} : trainerAt'[q] = trainerAt[q]
      /\ UNCHANGED <<n, epoch, left, ema, loaded, kills>>
    BY DEF Trainer!OpenFile, Trainer!Save, TrainInv
<1>2. \A q \in Procs : Process(q)'
    BY <1>1 DEF TrainInv, Process, Trained, PerEpoch, Trainer!Full
<1>3. ema[p] = Trainer!Full /\ Trainer!Full' = Trainer!Full
    BY <1>1 DEF TrainInv, Process, Trainer!Full
<1>4. OnDisk' /\ opened' \subseteq Procs
    <2>1. CASE Trainer!OpenFile(p)
        BY <1>1, <1>3, <2>1 DEF Trainer!OpenFile, TrainInv, OnDisk
    <2>2. CASE Trainer!Save(p)
        BY <1>1, <1>3, <2>2 DEF Trainer!Save, Trainer!Written, TrainInv, OnDisk
    <2> QED BY <2>1, <2>2
<1> QED BY <1>1, <1>2, <1>4 DEF TrainInv

LEMMA TrainStep == TrainInv /\ [Trainer!Next]_trainVars => TrainInv'
<1> SUFFICES ASSUME TrainInv, [Trainer!Next]_trainVars PROVE TrainInv'
    OBVIOUS
<1>1. CASE UNCHANGED trainVars
    BY <1>1 DEF trainVars, TrainInv, Process, Trained, PerEpoch, OnDisk, Trainer!Full
<1>2. CASE Trainer!FromCheckpoint
    <2>1. /\ loaded'.is = "whole" => loaded' = checkpoint
          /\ UNCHANGED <<n, trainerAt, epoch, left, ema, checkpoint, opened, kills>>
        BY <1>2 DEF Trainer!FromCheckpoint, Trainer!Loaded
    <2> QED BY <2>1 DEF TrainInv, Process, Trained, PerEpoch, OnDisk, Trainer!Full
<1>3. ASSUME NEW p \in Procs, Trainer!Train(p) \/ Trainer!Kill(p) \/ Trainer!Retrain(p)
      PROVE  TrainInv'
    BY <1>3, BatchStep, EpochStep, SaveStep, RestartStep DEF Trainer!Train
<1> QED BY <1>1, <1>2, <1>3 DEF Trainer!Next

(* For any number of processes and kills and any sizes of data, batch and  *)
(* training: what loads from a file of one writer is the average of a      *)
(* whole training, and a partial file that nobody has open is the work of  *)
(* a kill (train.py, scoring.py).                                          *)
THEOREM CheckpointsAreWhole == Trainer!Spec => []CheckpointsAreTrained
<1>1. TrainInv => CheckpointsAreTrained
    BY DEF TrainInv, Process, OnDisk, CheckpointsAreTrained, Trainer!TypeOK,
           Trainer!LoadedIsTrained, Trainer!PartialIsKilled
<1>2. [Trainer!Next]_Trainer!vars => [Trainer!Next]_trainVars
    BY DEF Trainer!vars, trainVars
<1> QED BY <1>1, <1>2, TrainBegins, TrainStep, PTL DEF Trainer!Spec

-----------------------------------------------------------------------------
(***************************************************************************)
(* Migrations: for any runners, and any number of files and of starts.     *)
(***************************************************************************)
Place == {"ended", "reading", "executing", "recording", "killed"}

MigTypes ==
    /\ recorded \subseteq Runner!File /\ times \in [Runner!File -> 0..MaxTimes]
    /\ runnerAt \in [Runners -> Place] /\ disturbed \in BOOLEAN
    /\ applied \in [Runners -> SUBSET Runner!File] /\ file \in [Runners -> Runner!File]
    /\ \A f \in Runner!File : times[f] = 0 => f \notin recorded

(* What lies behind a runner is recorded.                                  *)
Behind(r) ==
    /\ applied[r] \subseteq recorded
    /\ runnerAt[r] \in {"executing", "recording"} =>
           \A f \in Runner!File : f < file[r] => f \in recorded
    /\ runnerAt[r] = "recording" => times[file[r]] > 0

(* Without a kill and an overlap, one runner at a time knows all the rows  *)
(* ahead of it, and all that was executed and is not recorded is its own.  *)
Alone ==
    /\ \A q, r \in Runners :
           runnerAt[q] \in Runner!Active /\ runnerAt[r] \in Runner!Active => q = r
    /\ \A f \in Runner!File : times[f] <= 1
    /\ \A f \in Runner!File : times[f] > 0 /\ f \notin recorded =>
           \E r \in Runners : runnerAt[r] = "recording" /\ file[r] = f
    /\ \A r \in Runners :
           /\ runnerAt[r] = "recording" => file[r] \notin recorded
           /\ runnerAt[r] \in {"executing", "recording"} =>
                  \A f \in recorded : f \in applied[r] \/ f < file[r]

MigInv ==
    /\ MigTypes /\ Runner!InOrder /\ (\A r \in Runners : Behind(r))
    /\ ~disturbed => Alone

LEMMA FilesAreNat ==
    /\ NrMigrations \in Nat \ {0} /\ MaxTimes \in Nat /\ MaxTimes >= 2
    /\ Runner!File = 1..NrMigrations
BY RunnersAreKnown DEF Runner!MigrationsAssumption, Runner!File

LEMMA MigBegins == Runner!Init => MigInv
<1> SUFFICES ASSUME Runner!Init PROVE MigInv
    OBVIOUS
<1>1. MigTypes
    <2>1. 1 \in Runner!File /\ 0 \in 0..MaxTimes
        BY FilesAreNat
    <2> QED BY <2>1 DEF Runner!Init, MigTypes, Place
<1>2. Runner!InOrder /\ (\A r \in Runners : Behind(r)) /\ Alone
    BY FilesAreNat DEF Runner!Init, Runner!InOrder, Behind, Alone, Runner!Active
<1> QED BY <1>1, <1>2 DEF MigInv

(* The next file of a run, once the one it is at is recorded.              *)
LEMMA FollowingStep ==
    ASSUME MigInv, NEW r \in Runners, Runner!Following(r),
           runnerAt[r] \in {"executing", "recording"},
           recorded' = recorded \cup {file[r]}, UNCHANGED <<times, applied, runs, disturbed>>,
           times[file[r]] > 0
    PROVE  MigInv'
<1>0. /\ NrMigrations \in Nat \ {0} /\ Runner!File = 1..NrMigrations /\ file[r] \in 1..NrMigrations
      /\ MigTypes /\ Runner!InOrder /\ (~disturbed => Alone)
      /\ \A q \in Runners : Behind(q)
    BY FilesAreNat DEF MigInv, MigTypes
<1>1. /\ runnerAt' \in [Runners -> Place] /\ file' \in [Runners -> Runner!File]
      /\ \A q \in Runners \ {r} : runnerAt'[q] = runnerAt[q] /\ file'[q] = file[q]
      /\ \/ runnerAt'[r] = "ended" /\ file'[r] = file[r]
         \/ runnerAt'[r] = "executing" /\ file'[r] = file[r] + 1
    <2>1. CASE file[r] = NrMigrations
        <3>1. runnerAt' = [runnerAt EXCEPT ![r] = "ended"] /\ file' = file
            BY <2>1 DEF Runner!Following, Runner!Goto
        <3>2. runnerAt \in [Runners -> Place] /\ file \in [Runners -> Runner!File]
            BY <1>0 DEF MigTypes
        <3>3. "ended" \in Place
            BY DEF Place
        <3> QED BY <3>1, <3>2, <3>3
    <2>2. CASE file[r] # NrMigrations
        <3>1. /\ runnerAt' = [runnerAt EXCEPT ![r] = "executing"]
              /\ file' = [file EXCEPT ![r] = file[r] + 1]
            BY <2>2 DEF Runner!Following, Runner!Goto
        <3>2. file[r] + 1 \in Runner!File
            BY <1>0, <2>2
        <3>3. runnerAt \in [Runners -> Place] /\ file \in [Runners -> Runner!File]
            BY <1>0 DEF MigTypes
        <3>4. "executing" \in Place
            BY DEF Place
        <3> QED BY <3>1, <3>2, <3>3, <3>4
    <2> QED BY <2>1, <2>2
<1>2. MigTypes'
    <2>1. recorded' \subseteq Runner!File
        BY <1>0 DEF MigTypes
    <2>2. \A f \in Runner!File : times'[f] = 0 => f \notin recorded'
        BY <1>0 DEF MigTypes
    <2> QED BY <1>0, <1>1, <2>1, <2>2 DEF MigTypes
<1>3. Runner!InOrder'
    BY <1>0 DEF Runner!InOrder
<1>4. \A q \in Runners : Behind(q)'
    BY <1>0, <1>1 DEF Behind
<1>5. ~disturbed => Alone'
    <2> SUFFICES ASSUME Alone, ~disturbed PROVE Alone'
        BY <1>0
    <2>1. \A q \in Runners \ {r} : runnerAt'[q] \notin {"executing", "recording"}
        BY <1>1 DEF Alone, Runner!Active
    <2>2. \A q, s \in Runners :
              runnerAt'[q] \in Runner!Active /\ runnerAt'[s] \in Runner!Active => q = s
        BY <1>1 DEF Alone, Runner!Active
    <2>3. \A f \in Runner!File : times'[f] > 0 /\ f \notin recorded' =>
              \E q \in Runners : runnerAt'[q] = "recording" /\ file'[q] = f
        BY <1>0, <1>1 DEF Alone
    <2>4. runnerAt'[r] = "executing" =>
              \A f \in recorded' : f \in applied'[r] \/ f < file'[r]
        <3> SUFFICES ASSUME runnerAt'[r] = "executing", NEW f \in recorded',
                            f # file[r]
                     PROVE  f \in applied[r] \/ f < file'[r]
            BY <1>0, <1>1
        <3>1. f \in recorded /\ f \in Nat /\ file'[r] = file[r] + 1
            BY <1>0, <1>1 DEF MigTypes
        <3>2. CASE runnerAt[r] = "executing"
            BY <1>0, <3>1, <3>2 DEF Alone
        <3>3. CASE runnerAt[r] = "recording"
            BY <1>0, <3>1, <3>3 DEF Alone
        <3> QED BY <3>2, <3>3
    <2> QED BY <1>1, <2>1, <2>2, <2>3, <2>4 DEF Alone
<1> QED BY <1>2, <1>3, <1>4, <1>5 DEF MigInv

(* A step of one runner that executes and records nothing.                 *)
LEMMA IdleStep ==
    ASSUME MigInv, NEW r \in Runners,
           UNCHANGED <<recorded, times>>,
           runnerAt' \in [Runners -> Place], file' \in [Runners -> Runner!File],
           applied' \in [Runners -> SUBSET Runner!File], disturbed' \in BOOLEAN,
           \A q \in Runners \ {r} :
               runnerAt'[q] = runnerAt[q] /\ file'[q] = file[q] /\ applied'[q] = applied[q],
           Behind(r)', runnerAt'[r] # "recording",
           ~disturbed' => ~disturbed /\ runnerAt[r] # "recording",
           ~disturbed' /\ runnerAt'[r] \in Runner!Active =>
               \A q \in Runners \ {r} : runnerAt[q] \notin Runner!Active,
           runnerAt'[r] = "executing" => \A f \in recorded : f \in applied'[r] \/ f < file'[r]
    PROVE  MigInv'
<1>1. MigTypes'
    BY DEF MigInv, MigTypes
<1>2. Runner!InOrder' /\ \A q \in Runners : Behind(q)'
    BY DEF MigInv, Runner!InOrder, Behind
<1>3. ASSUME ~disturbed' PROVE Alone'
    <2>1. Alone /\ runnerAt[r] # "recording"
        BY <1>3 DEF MigInv
    <2>2. \A q, s \in Runners :
              runnerAt'[q] \in Runner!Active /\ runnerAt'[s] \in Runner!Active => q = s
        BY <1>3, <2>1 DEF Alone
    <2>3. \A f \in Runner!File : times'[f] > 0 /\ f \notin recorded' =>
              \E q \in Runners : runnerAt'[q] = "recording" /\ file'[q] = f
        <3> SUFFICES ASSUME NEW f \in Runner!File, times[f] > 0, f \notin recorded
                     PROVE  \E q \in Runners : runnerAt'[q] = "recording" /\ file'[q] = f
            OBVIOUS
        <3>1. PICK q \in Runners : runnerAt[q] = "recording" /\ file[q] = f
            BY <2>1 DEF Alone
        <3> QED BY <2>1, <3>1
    <2>4. \A f \in Runner!File : times'[f] <= 1
        BY <2>1 DEF Alone
    <2>5. \A q \in Runners :
              /\ runnerAt'[q] = "recording" => file'[q] \notin recorded'
              /\ runnerAt'[q] \in {"executing", "recording"} =>
                     \A f \in recorded' : f \in applied'[q] \/ f < file'[q]
        BY <2>1 DEF Alone
    <2> QED BY <2>2, <2>3, <2>4, <2>5 DEF Alone
<1> QED BY <1>1, <1>2, <1>3 DEF MigInv

LEMMA ExecuteStep ==
    ASSUME MigInv, NEW r \in Runners, Runner!Execute(r)
    PROVE  MigInv'
<1> DEFINE f == file[r]
<1>0. /\ NrMigrations \in Nat \ {0} /\ Runner!File = 1..NrMigrations /\ f \in 1..NrMigrations
      /\ MigTypes /\ Runner!InOrder /\ (~disturbed => Alone)
      /\ \A q \in Runners : Behind(q)
      /\ times \in [Runner!File -> 0..MaxTimes] /\ MaxTimes \in Nat /\ MaxTimes >= 2
      /\ runnerAt \in [Runners -> Place]
    BY FilesAreNat DEF MigInv, MigTypes
<1>1. /\ runnerAt[r] = "executing" /\ f \notin applied[r]
      /\ times' = [times EXCEPT ![f] = IF @ < MaxTimes THEN @ + 1 ELSE @]
      /\ runnerAt' = [runnerAt EXCEPT ![r] = "recording"]
      /\ UNCHANGED <<recorded, applied, file, runs, disturbed>>
    BY DEF Runner!Execute, Runner!Skips, Runner!Goto
<1>2. /\ times' \in [Runner!File -> 0..MaxTimes] /\ times'[f] > 0
      /\ times[f] = 0 => times'[f] = 1
      /\ \A g \in Runner!File \ {f} : times'[g] = times[g]
    BY <1>0, <1>1
<1>3. /\ runnerAt' \in [Runners -> Place] /\ runnerAt'[r] = "recording"
      /\ \A q \in Runners \ {r} : runnerAt'[q] = runnerAt[q]
    BY <1>0, <1>1 DEF Place
<1>4. MigTypes'
    BY <1>0, <1>1, <1>2, <1>3 DEF MigTypes
<1>5. Runner!InOrder'
    <2>1. f - 1 \in Runner!File => f - 1 \in recorded
        BY <1>0, <1>1 DEF Behind
    <2> QED BY <1>0, <1>1, <1>2, <2>1 DEF Runner!InOrder
<1>6. ASSUME NEW q \in Runners PROVE Behind(q)'
    <2>1. \A g \in Runner!File : times[g] > 0 => times'[g] > 0
        BY <1>2
    <2>2. file[q] \in Runner!File
        BY <1>0 DEF MigTypes
    <2> QED BY <1>0, <1>1, <1>2, <1>3, <2>1, <2>2 DEF Behind
<1>7. ASSUME ~disturbed PROVE Alone'
    <2>1. Alone
        BY <1>0, <1>7
    <2>2. f \notin recorded
        BY <1>0, <1>1, <2>1 DEF Alone
    <2>3. times[f] = 0
        <3> SUFFICES ASSUME times[f] > 0 PROVE FALSE
            BY <1>0
        <3>1. PICK q \in Runners : runnerAt[q] = "recording"
            BY <1>0, <2>1, <2>2 DEF Alone
        <3>2. q = r
            BY <1>1, <2>1, <3>1 DEF Alone, Runner!Active
        <3> QED BY <1>1, <3>1, <3>2
    <2>4. \A g \in Runner!File : times'[g] <= 1
        BY <1>2, <2>1, <2>3 DEF Alone
    <2>5. \A q, s \in Runners :
              runnerAt'[q] \in Runner!Active /\ runnerAt'[s] \in Runner!Active => q = s
        BY <1>1, <1>3, <2>1 DEF Alone, Runner!Active
    <2>6. \A g \in Runner!File : times'[g] > 0 /\ g \notin recorded' =>
              \E q \in Runners : runnerAt'[q] = "recording" /\ file'[q] = g
        <3> SUFFICES ASSUME NEW g \in Runner!File, times'[g] > 0, g \notin recorded
                     PROVE  \E q \in Runners : runnerAt'[q] = "recording" /\ file[q] = g
            BY <1>1
        <3>1. CASE g = f
            BY <1>3, <3>1
        <3>2. CASE g # f
            <4>1. PICK q \in Runners : runnerAt[q] = "recording" /\ file[q] = g
                BY <1>2, <2>1, <3>2 DEF Alone
            <4> QED BY <1>1, <1>3, <4>1
        <3> QED BY <3>1, <3>2
    <2>7. \A q \in Runners :
              /\ runnerAt'[q] = "recording" => file'[q] \notin recorded'
              /\ runnerAt'[q] \in {"executing", "recording"} =>
                     \A g \in recorded' : g \in applied'[q] \/ g < file'[q]
        BY <1>1, <1>3, <2>1, <2>2 DEF Alone
    <2> QED BY <2>4, <2>5, <2>6, <2>7 DEF Alone
<1> QED BY <1>1, <1>4, <1>5, <1>6, <1>7 DEF MigInv

LEMMA RunnerStep ==
    ASSUME MigInv, NEW r \in Runners, Runner!Start(r) \/ Runner!Run(r) \/ Runner!Kill(r)
    PROVE  MigInv'
<1>0. /\ NrMigrations \in Nat \ {0} /\ Runner!File = 1..NrMigrations
      /\ file[r] \in Runner!File /\ recorded \subseteq Runner!File
      /\ runnerAt \in [Runners -> Place] /\ file \in [Runners -> Runner!File]
      /\ applied \in [Runners -> SUBSET Runner!File] /\ disturbed \in BOOLEAN
      /\ \A f \in Runner!File : times[f] \in Nat /\ (times[f] = 0 => f \notin recorded)
      /\ Behind(r) /\ (~disturbed => Alone)
    BY FilesAreNat DEF MigInv, MigTypes
<1>1. CASE Runner!Start(r)
    <2>1. /\ runnerAt' = [runnerAt EXCEPT ![r] = "reading"] /\ runnerAt[r] \in {"ended", "killed"}
          /\ disturbed' = (disturbed \/ \E q \in Runners \ {r} : runnerAt[q] \in Runner!Active)
          /\ UNCHANGED <<recorded, times, applied, file>>
        BY <1>1 DEF Runner!Start
    <2>2. /\ runnerAt' \in [Runners -> Place] /\ runnerAt'[r] = "reading"
          /\ \A q \in Runners \ {r} : runnerAt'[q] = runnerAt[q]
        BY <1>0, <2>1 DEF Place
    <2>3. Behind(r)'
        BY <1>0, <2>1, <2>2 DEF Behind
    <2>4. disturbed' \in BOOLEAN
        BY <2>1
    <2> QED BY <1>0, <2>1, <2>2, <2>3, <2>4, IdleStep
<1>2. CASE Runner!ReadApplied(r)
    <2>1. /\ runnerAt' = [runnerAt EXCEPT ![r] = "executing"] /\ runnerAt[r] = "reading"
          /\ applied' = [applied EXCEPT ![r] = recorded] /\ file' = [file EXCEPT ![r] = 1]
          /\ UNCHANGED <<recorded, times, disturbed>>
        BY <1>2 DEF Runner!ReadApplied
    <2>2. /\ runnerAt' \in [Runners -> Place] /\ runnerAt'[r] = "executing"
          /\ \A q \in Runners \ {r} : runnerAt'[q] = runnerAt[q]
        BY <1>0, <2>1 DEF Place
    <2>3. /\ file' \in [Runners -> Runner!File] /\ file'[r] = 1
          /\ \A q \in Runners \ {r} : file'[q] = file[q]
        <3>1. 1 \in Runner!File
            BY <1>0
        <3> QED BY <1>0, <2>1, <3>1
    <2>4. /\ applied' \in [Runners -> SUBSET Runner!File] /\ applied'[r] = recorded
          /\ \A q \in Runners \ {r} : applied'[q] = applied[q]
        BY <1>0, <2>1
    <2>5. Behind(r)'
        BY <1>0, <2>1, <2>2, <2>3, <2>4 DEF Behind
    <2>6. ~disturbed' => \A q \in Runners \ {r} : runnerAt[q] \notin Runner!Active
        BY <1>0, <2>1 DEF Alone, Runner!Active
    <2> QED BY <1>0, <2>1, <2>2, <2>3, <2>4, <2>5, <2>6, IdleStep
<1>3. CASE Runner!Skip(r)
    <2>1. file[r] \in recorded /\ runnerAt[r] = "executing"
        BY <1>0, <1>3 DEF Runner!Skip, Runner!Skips, Behind
    <2>2. recorded' = recorded \cup {file[r]} /\ times[file[r]] > 0
        BY <1>0, <1>3, <2>1 DEF Runner!Skip
    <2> QED BY <1>3, <2>1, <2>2, FollowingStep DEF Runner!Skip
<1>4. CASE Runner!Execute(r)
    BY <1>4, ExecuteStep
<1>5. ASSUME UNCHANGED <<recorded, times, applied, file>>,
             \/ runnerAt' = [runnerAt EXCEPT ![r] = "ended"] /\ disturbed' = disturbed
                /\ (runnerAt[r] = "recording" => file[r] \in recorded)
             \/ runnerAt' = [runnerAt EXCEPT ![r] = "killed"] /\ disturbed' = TRUE
             \/ runnerAt' = [runnerAt EXCEPT ![r] = "ended"] /\ disturbed' = TRUE
      PROVE  MigInv'
    <2>1. /\ runnerAt' \in [Runners -> Place] /\ runnerAt'[r] \in {"ended", "killed"}
          /\ \A q \in Runners \ {r} : runnerAt'[q] = runnerAt[q]
        BY <1>0, <1>5 DEF Place
    <2>2. Behind(r)'
        BY <1>0, <1>5, <2>1 DEF Behind
    <2>3. ~disturbed' => ~disturbed /\ runnerAt[r] # "recording"
        BY <1>0, <1>5 DEF Alone
    <2>4. runnerAt'[r] \notin Runner!Active /\ disturbed' \in BOOLEAN
        BY <1>0, <1>5, <2>1 DEF Runner!Active
    <2> QED BY <1>0, <1>5, <2>1, <2>2, <2>3, <2>4, IdleStep
<1>6. CASE Runner!ExecuteFails(r)
    BY <1>5, <1>6 DEF Runner!ExecuteFails, Runner!Raises, Runner!Goto
<1>7. CASE Runner!Record(r)
    <2>1. CASE file[r] \in recorded
        <3>1. recorded' = recorded
            BY <1>7, <2>1 DEF Runner!Record
        <3> QED BY <1>5, <1>7, <2>1, <3>1 DEF Runner!Record, Runner!Raises, Runner!Goto
    <2>2. CASE file[r] \notin recorded
        <3>1. runnerAt[r] = "recording" /\ times[file[r]] > 0
            BY <1>0, <1>7 DEF Runner!Record, Behind
        <3> QED BY <1>7, <2>2, <3>1, FollowingStep DEF Runner!Record
    <2> QED BY <2>1, <2>2
<1>8. CASE Runner!Kill(r)
    BY <1>5, <1>8 DEF Runner!Kill, Runner!Goto
<1>9. CASE Runner!RecordFails(r)
    BY <1>5, <1>9 DEF Runner!RecordFails, Runner!Raises, Runner!Goto
<1> QED BY <1>1, <1>2, <1>3, <1>4, <1>6, <1>7, <1>8, <1>9 DEF Runner!Run

LEMMA MigStep == MigInv /\ [Runner!Next]_migrationVars => MigInv'
<1> SUFFICES ASSUME MigInv, [Runner!Next]_migrationVars PROVE MigInv'
    OBVIOUS
<1>1. CASE UNCHANGED migrationVars
    BY <1>1 DEF migrationVars, MigInv, MigTypes, Behind, Alone, Runner!InOrder, Runner!Active
<1>2. CASE Runner!Next
    BY <1>2, RunnerStep DEF Runner!Next
<1> QED BY <1>1, <1>2

(* For any number of files, runners and starts: what a runner skips is     *)
(* recorded, a file takes effect after all before it, and a second time    *)
(* only after a kill, an overlap or a row that could not be written        *)
(* (migrate.py).                                                           *)
THEOREM MigrationsTakeEffectInOrder ==
    Runner!Spec => [](Runner!TypeOK /\ Runner!InOrder /\ Runner!OnceUnlessDisturbed)
<1>1. MigInv => Runner!TypeOK
    BY DEF MigInv, MigTypes, Behind, Runner!TypeOK
<1>2. MigInv => Runner!OnceUnlessDisturbed
    <2> SUFFICES ASSUME MigInv, ~disturbed PROVE Runner!OnceUnlessDisturbed
        BY DEF Runner!OnceUnlessDisturbed
    <2>1. Alone /\ MigTypes
        BY DEF MigInv
    <2>2. ASSUME \A r \in Runners : runnerAt[r] \notin Runner!Active
          PROVE  recorded = {f \in Runner!File : times[f] > 0}
        <3>1. \A f \in Runner!File : times[f] > 0 => f \in recorded
            BY <2>1, <2>2 DEF Alone, Runner!Active
        <3>2. \A f \in recorded : f \in Runner!File /\ times[f] > 0
            BY <2>1, FilesAreNat DEF MigTypes
        <3> QED BY <3>1, <3>2
    <2> QED BY <2>1, <2>2 DEF Runner!OnceUnlessDisturbed, Alone
<1>3. [Runner!Next]_Runner!vars => [Runner!Next]_migrationVars
    BY DEF Runner!vars, migrationVars
<1>4. MigInv => Runner!InOrder
    BY DEF MigInv
<1> QED BY <1>1, <1>2, <1>3, <1>4, MigBegins, MigStep, PTL DEF Runner!Spec

-----------------------------------------------------------------------------
(***************************************************************************)
(* CiGate: for any number of test files and of edits.                      *)
(***************************************************************************)
Stage == {"idle", "ruff", "collect", "probe", "pytest", "verdict", "pushed", "blocked"}

GateTypes ==
    /\ installed \in BOOLEAN /\ failed \in BOOLEAN /\ clean \in BOOLEAN
    /\ tree \in Gate!Tree /\ commit \in Gate!Tree /\ pushing \in Gate!Tree
    /\ origin \subseteq Gate!Tree /\ edits \in 0..MaxEdits
    /\ probe \in Gate!File /\ excluded \subseteq Gate!File /\ gateAt \in Stage
    /\ gateAt \in {"ruff", "collect"} => excluded = {} /\ probe = 1

(* What is left out, and what is a failure, among the files before b.      *)
LeftOutBefore(b) == excluded = {f \in Gate!File : f < b /\ ~Gate!Collects(f) /\ Gate!Excused(f)}
UnexplainedBefore(b) == \E f \in Gate!File : f < b /\ Gate!Unexplained(f)
FailsInPytest == \E f \in Gate!File \ excluded : ~Gate!Collects(f) \/ tree.test[f] = "fails"

(* What the gate has found out, stage by stage, of a tree that has not     *)
(* changed since the push.                                                 *)
FoundOut ==
    /\ tree = pushing
    /\ gateAt = "collect" => failed = ~tree.lint
    /\ gateAt = "probe" =>
           LeftOutBefore(probe) /\ failed = (~tree.lint \/ UnexplainedBefore(probe))
    /\ gateAt \in {"pytest", "verdict", "pushed", "blocked"} => LeftOutBefore(NrTests + 1)
    /\ gateAt = "pytest" => failed = (~tree.lint \/ UnexplainedBefore(NrTests + 1))
    /\ gateAt \in {"verdict", "pushed", "blocked"} =>
           failed = (~tree.lint \/ UnexplainedBefore(NrTests + 1) \/ FailsInPytest)
    /\ gateAt = "pushed" => ~failed
    /\ gateAt = "blocked" => failed

GateInv == GateTypes /\ (gateAt # "idle" /\ clean => FoundOut)

LEMMA TestsAreNat == NrTests \in Nat \ {0} /\ MaxEdits \in Nat /\ Gate!File = 1..NrTests
BY GateIsKnown DEF Gate!CiGateAssumption, Gate!File

(* The excuse is for what imports of an optional dependency.               *)
LEMMA ExcusedAre ==
    ASSUME NEW f \in Gate!File
    PROVE  Gate!Excused(f) <=>
               \/ tree.test[f] \in {"optional", "typo"}
               \/ tree.test[f] = "both" /\ ~installed
<1>1. CASE tree.test[f] \in {"optional", "typo"}
    BY <1>1 DEF Gate!Excused, Gate!Mods, Gate!OptionalDeps
<1>2. CASE tree.test[f] = "both"
    <2>1. Gate!Mods(f) = IF installed THEN {} ELSE {"redis"}
        BY <1>2 DEF Gate!Mods
    <2> QED BY <1>2, <2>1 DEF Gate!Excused, Gate!OptionalDeps
<1>3. CASE tree.test[f] = "unknown"
    <2>1. Gate!Mods(f) = {"numpi"}
        BY <1>3 DEF Gate!Mods
    <2> QED BY <1>3, <2>1 DEF Gate!Excused, Gate!OptionalDeps
<1>4. CASE tree.test[f] \notin {"optional", "typo", "both", "unknown"}
    <2>1. Gate!Mods(f) = {}
        BY <1>4 DEF Gate!Mods
    <2> QED BY <1>4, <2>1 DEF Gate!Excused
<1> QED BY <1>1, <1>3, <1>4, <1>2

LEMMA GateBegins == Gate!Init => GateInv
<1> SUFFICES ASSUME Gate!Init PROVE GateInv
    OBVIOUS
<1>1. PICK t \in [Gate!File -> Gate!Content] : tree = [lint |-> TRUE, test |-> t]
    BY DEF Gate!Init
<1>2. tree \in Gate!Tree
    BY <1>1 DEF Gate!Tree
<1>3. 1 \in Gate!File /\ 0 \in 0..MaxEdits
    BY TestsAreNat
<1>4. /\ installed \in BOOLEAN /\ commit = tree /\ pushing = tree /\ edits = 0
      /\ gateAt = "idle" /\ probe = 1 /\ excluded = {} /\ failed = FALSE /\ clean = TRUE
      /\ origin = {}
    BY DEF Gate!Init
<1>5. GateTypes
    BY <1>2, <1>3, <1>4 DEF GateTypes, Stage
<1> QED BY <1>4, <1>5 DEF GateInv

LEMMA EditStep == ASSUME GateInv, Gate!Edit PROVE GateInv'
<1>1. PICK t : Gate!Changed(t) /\ t \in Gate!Tree
    <2>1. CASE Gate!Changed([tree EXCEPT !.lint = ~@])
        <3>1. [tree EXCEPT !.lint = ~@] \in Gate!Tree
            BY DEF GateInv, GateTypes, Gate!Tree
        <3> QED BY <2>1, <3>1
    <2>2. ASSUME NEW f \in Gate!File, NEW c \in {"good", "fails"},
                 Gate!Changed([tree EXCEPT !.test[f] = c])
          PROVE  \E t : Gate!Changed(t) /\ t \in Gate!Tree
        <3>1. [tree EXCEPT !.test[f] = c] \in Gate!Tree
            BY DEF GateInv, GateTypes, Gate!Tree, Gate!Content
        <3> QED BY <2>2, <3>1
    <2> QED BY <2>1, <2>2 DEF Gate!Edit
<1>2. /\ tree' = t /\ edits' \in 0..MaxEdits
      /\ clean' = (clean /\ (gateAt = "idle" \/ t = pushing))
      /\ UNCHANGED <<installed, commit, pushing, gateAt, probe, excluded, failed, origin>>
    BY <1>1, TestsAreNat DEF Gate!Changed, Gate!gate, GateInv, GateTypes
<1>3. GateTypes'
    BY <1>1, <1>2 DEF GateInv, GateTypes
<1>4. ASSUME gateAt' # "idle", clean' PROVE FoundOut'
    <2>1. FoundOut /\ tree' = tree
        BY <1>2, <1>4 DEF GateInv, FoundOut
    <2>2. UNCHANGED <<tree, installed, pushing, gateAt, probe, excluded, failed>>
        BY <1>2, <2>1
    <2>3. LeftOutBefore(probe)' = LeftOutBefore(probe)
          /\ LeftOutBefore(NrTests + 1)' = LeftOutBefore(NrTests + 1)
        BY <2>2 DEF LeftOutBefore, Gate!Collects, Gate!Excused, Gate!Mods
    <2>4. UnexplainedBefore(probe)' = UnexplainedBefore(probe)
          /\ UnexplainedBefore(NrTests + 1)' = UnexplainedBefore(NrTests + 1)
        BY <2>2 DEF UnexplainedBefore, Gate!Unexplained, Gate!Collects, Gate!Excused, Gate!Mods
    <2>5. FailsInPytest' = FailsInPytest
        BY <2>2 DEF FailsInPytest, Gate!Collects
    <2> QED BY <2>1, <2>2, <2>3, <2>4, <2>5 DEF FoundOut
<1> QED BY <1>3, <1>4 DEF GateInv

(* Steps that leave the developer's side and the pushed commit alone.      *)
LEMMA StageStep ==
    ASSUME GateInv, UNCHANGED <<installed, tree, commit, edits, pushing, clean>>,
           GateTypes',
           gateAt # "idle",
           FoundOut => FoundOut'
    PROVE  GateInv'
BY DEF GateInv

LEMMA ProbeStep == ASSUME GateInv, Gate!Probe PROVE GateInv'
<1>0. /\ NrTests \in Nat \ {0} /\ Gate!File = 1..NrTests /\ probe \in 1..NrTests
      /\ GateTypes
    BY TestsAreNat DEF GateInv, GateTypes
<1>1. /\ gateAt = "probe" /\ failed' = (failed \/ Gate!Unexplained(probe))
      /\ excluded' = excluded \cup (IF Gate!Collects(probe) THEN {} ELSE Gate!ExcludedOf(probe))
      /\ probe' = (probe % NrTests) + 1
      /\ gateAt' = IF probe = NrTests THEN "pytest" ELSE "probe"
      /\ UNCHANGED <<installed, tree, commit, edits, pushing, clean, origin>>
    BY DEF Gate!Probe, Gate!dev
<1>2. /\ probe = NrTests => probe' = 1
      /\ probe # NrTests => probe' = probe + 1
    BY <1>0, <1>1
<1>3. GateTypes'
    <2>1. Gate!ExcludedOf(probe) \subseteq Gate!File
        BY <1>0 DEF Gate!ExcludedOf
    <2>2. probe' \in Gate!File /\ failed' \in BOOLEAN /\ gateAt' \in {"pytest", "probe"}
        BY <1>0, <1>1, <1>2
    <2> QED BY <1>0, <1>1, <2>1, <2>2 DEF GateTypes, Stage
<1>4. ASSUME FoundOut PROVE FoundOut'
    <2> DEFINE b == probe + 1
    <2>1. LeftOutBefore(probe) /\ failed = (~tree.lint \/ UnexplainedBefore(probe))
        BY <1>1, <1>4 DEF FoundOut
    <2>2. \A f \in Gate!File : f < b <=> f < probe \/ f = probe
        BY <1>0
    <2>3. \A f \in Gate!File : /\ Gate!Collects(f)' = Gate!Collects(f)
                               /\ Gate!Excused(f)' = Gate!Excused(f)
                               /\ Gate!Unexplained(f)' = Gate!Unexplained(f)
        BY <1>1 DEF Gate!Collects, Gate!Excused, Gate!Mods, Gate!Unexplained
    <2>4. excluded' = {f \in Gate!File : f < b /\ ~Gate!Collects(f) /\ Gate!Excused(f)}
        BY <1>0, <1>1, <2>1, <2>2 DEF LeftOutBefore, Gate!ExcludedOf
    <2>5. failed' = (~tree.lint \/ \E f \in Gate!File : f < b /\ Gate!Unexplained(f))
        BY <1>0, <1>1, <2>1, <2>2 DEF UnexplainedBefore
    <2>6. tree' = pushing' /\ tree' = tree
        BY <1>1, <1>4 DEF FoundOut
    <2>7. CASE probe = NrTests
        <3>1. b = NrTests + 1 /\ gateAt' = "pytest"
            BY <1>1, <2>7
        <3> HIDE DEF b
        <3> QED BY <2>3, <2>4, <2>5, <2>6, <3>1
                DEF FoundOut, LeftOutBefore, UnexplainedBefore
    <2>8. CASE probe # NrTests
        <3>1. b = probe' /\ gateAt' = "probe"
            BY <1>1, <1>2, <2>8
        <3> HIDE DEF b
        <3> QED BY <2>3, <2>4, <2>5, <2>6, <3>1
                DEF FoundOut, LeftOutBefore, UnexplainedBefore
    <2> QED BY <2>7, <2>8
<1> QED BY <1>1, <1>3, <1>4, StageStep

LEMMA GateStep == GateInv /\ [Gate!Next]_gateVars => GateInv'
<1> SUFFICES ASSUME GateInv, [Gate!Next]_gateVars PROVE GateInv'
    OBVIOUS
<1>0. /\ NrTests \in Nat \ {0} /\ Gate!File = 1..NrTests /\ GateTypes
      /\ 1 \in Gate!File
    BY TestsAreNat DEF GateInv
<1>u. ASSUME UNCHANGED <<installed, tree, excluded>>
      PROVE  /\ \A f \in Gate!File : /\ Gate!Collects(f)' = Gate!Collects(f)
                                     /\ Gate!Excused(f)' = Gate!Excused(f)
                                     /\ Gate!Unexplained(f)' = Gate!Unexplained(f)
             /\ LeftOutBefore(NrTests + 1)' = LeftOutBefore(NrTests + 1)
             /\ UnexplainedBefore(NrTests + 1)' = UnexplainedBefore(NrTests + 1)
             /\ FailsInPytest' = FailsInPytest
    BY <1>u DEF Gate!Collects, Gate!Excused, Gate!Mods, Gate!Unexplained, LeftOutBefore,
           UnexplainedBefore, FailsInPytest
<1>1. CASE UNCHANGED gateVars
    BY <1>1 DEF gateVars, GateInv, GateTypes, FoundOut, LeftOutBefore, UnexplainedBefore,
           FailsInPytest, Gate!Collects, Gate!Excused, Gate!Mods, Gate!Unexplained
<1>2. CASE Gate!Edit
    BY <1>2, EditStep
<1>3. CASE Gate!Commit
    <2>1. /\ commit' = tree
          /\ UNCHANGED <<installed, tree, edits, pushing, gateAt, probe, excluded, failed, clean, origin>>
        BY <1>3 DEF Gate!Commit, Gate!gate
    <2>2. GateTypes'
        BY <1>0, <2>1 DEF GateTypes, Stage
    <2>3. /\ LeftOutBefore(probe)' = LeftOutBefore(probe)
          /\ UnexplainedBefore(probe)' = UnexplainedBefore(probe)
        BY <2>1, <1>u DEF LeftOutBefore, UnexplainedBefore
    <2> QED BY <1>u, <2>1, <2>2, <2>3 DEF GateInv, FoundOut
<1>4. CASE Gate!Push
    <2>1. /\ pushing' = commit /\ clean' = (tree = commit) /\ gateAt' = "ruff"
          /\ probe' = 1 /\ excluded' = {} /\ failed' = FALSE
          /\ UNCHANGED <<installed, tree, commit, edits, origin>>
        BY <1>4 DEF Gate!Push, Gate!dev
    <2>2. GateTypes'
        BY <1>0, <2>1 DEF GateTypes, Stage
    <2> QED BY <2>1, <2>2 DEF GateInv, FoundOut
<1>5. CASE Gate!Ruff
    <2>1. /\ gateAt = "ruff" /\ gateAt' = "collect" /\ failed' = ~tree.lint
          /\ UNCHANGED <<installed, tree, commit, edits, pushing, probe, excluded, clean, origin>>
        BY <1>5 DEF Gate!Ruff, Gate!dev
    <2>2. GateTypes'
        BY <1>0, <2>1 DEF GateTypes, Stage
    <2> QED BY <2>1, <2>2, StageStep DEF FoundOut
<1>6. CASE Gate!CollectAll
    <2>1. /\ gateAt = "collect"
          /\ gateAt' = IF \A f \in Gate!File : Gate!Collects(f) THEN "pytest" ELSE "probe"
          /\ UNCHANGED <<installed, tree, commit, edits, pushing, probe, excluded, failed, clean,
                         origin>>
        BY <1>6 DEF Gate!CollectAll, Gate!dev, Gate!gate
    <2>2. GateTypes'
        BY <1>0, <2>1 DEF GateTypes, Stage
    <2>3. ASSUME FoundOut PROVE FoundOut'
        <3>1. failed = ~tree.lint /\ excluded = {} /\ probe = 1 /\ tree = pushing
            BY <1>0, <2>1, <2>3 DEF FoundOut, GateTypes
        <3>2. \A f \in Gate!File : ~(f < 1)
            BY <1>0
        <3>3. CASE \A f \in Gate!File : Gate!Collects(f)
            <4>1. LeftOutBefore(NrTests + 1) /\ ~UnexplainedBefore(NrTests + 1)
                BY <3>1, <3>3 DEF LeftOutBefore, UnexplainedBefore, Gate!Unexplained
            <4> QED BY <1>u, <2>1, <3>1, <3>3, <4>1 DEF FoundOut
        <3>4. CASE ~ \A f \in Gate!File : Gate!Collects(f)
            <4>1. LeftOutBefore(probe)'
                BY <2>1, <3>1, <3>2 DEF LeftOutBefore
            <4>2. ~UnexplainedBefore(probe)'
                BY <2>1, <3>1, <3>2 DEF UnexplainedBefore
            <4> QED BY <2>1, <3>1, <3>4, <4>1, <4>2 DEF FoundOut
        <3> QED BY <3>3, <3>4
    <2> QED BY <2>1, <2>2, <2>3, StageStep
<1>7. CASE Gate!Probe
    BY <1>7, ProbeStep
<1>8. CASE Gate!Pytest
    <2>1. /\ gateAt = "pytest" /\ gateAt' = "verdict" /\ failed' = (failed \/ FailsInPytest)
          /\ UNCHANGED <<installed, tree, commit, edits, pushing, probe, excluded, clean, origin>>
        BY <1>8 DEF Gate!Pytest, Gate!dev, FailsInPytest
    <2>2. GateTypes'
        BY <1>0, <2>1 DEF GateTypes, Stage
    <2>3. ASSUME FoundOut PROVE FoundOut'
        <3>1. /\ tree' = pushing' /\ LeftOutBefore(NrTests + 1)
              /\ failed = (~tree.lint \/ UnexplainedBefore(NrTests + 1))
            BY <2>1, <2>3 DEF FoundOut
        <3>2. failed' = (~tree.lint \/ UnexplainedBefore(NrTests + 1) \/ FailsInPytest)
            BY <2>1, <3>1
        <3>3. failed' = (~tree'.lint \/ UnexplainedBefore(NrTests + 1)' \/ FailsInPytest')
            BY <1>u, <2>1, <3>2
        <3>4. LeftOutBefore(NrTests + 1)'
            BY <1>u, <2>1, <3>1
        <3> QED BY <2>1, <3>1, <3>3, <3>4 DEF FoundOut
    <2> QED BY <2>1, <2>2, <2>3, StageStep
<1>9. CASE Gate!Verdict
    <2>1. /\ gateAt = "verdict" /\ gateAt' = IF failed THEN "blocked" ELSE "pushed"
          /\ origin' = IF failed THEN origin ELSE origin \cup {pushing}
          /\ UNCHANGED <<installed, tree, commit, edits, pushing, probe, excluded, failed, clean>>
        BY <1>9 DEF Gate!Verdict, Gate!dev, Gate!gate
    <2>2. GateTypes'
        BY <1>0, <2>1 DEF GateTypes, Stage
    <2>3. FoundOut => FoundOut'
        BY <1>u, <2>1 DEF FoundOut
    <2> QED BY <2>1, <2>2, <2>3, StageStep
<1>10. CASE Gate!Again
    <2>1. /\ gateAt' = "idle"
          /\ UNCHANGED <<installed, tree, commit, edits, pushing, probe, excluded, failed, clean,
                         origin>>
        BY <1>10 DEF Gate!Again, Gate!dev, Gate!gate
    <2>2. GateTypes'
        BY <1>0, <2>1 DEF GateTypes, Stage
    <2> QED BY <2>1, <2>2 DEF GateInv
<1> QED BY <1>1, <1>2, <1>3, <1>4, <1>5, <1>6, <1>7, <1>8, <1>9, <1>10 DEF Gate!Next

(* For any number of test files and of edits: what passes the gate from    *)
(* the pushed tree fails CI only in files that were left out, with the     *)
(* optional dependencies at hand only for what they import of one, and     *)
(* what CI would accept is not blocked (ci_local.sh).                      *)
THEOREM GateKeepsCi ==
    Gate!Spec => [](Gate!TypeOK /\ Gate!OnlyExcludedMayFail /\ Gate!NoFalseBlock)
<1>1. GateInv => Gate!TypeOK
    BY DEF GateInv, GateTypes, Gate!TypeOK
<1>2. ASSUME GateInv, NEW f \in Gate!File
      PROVE  tree.test[f] \in Gate!Content /\ f < NrTests + 1
    BY <1>2, TestsAreNat DEF GateInv, GateTypes, Gate!Tree
<1>3. GateInv => Gate!OnlyExcludedMayFail
    <2> SUFFICES ASSUME GateInv, gateAt = "pushed", clean
                 PROVE  /\ pushing.lint
                        /\ \A f \in Gate!File :
                               \/ Gate!CiPasses(pushing, f)
                               \/ /\ f \in excluded
                                  /\ \/ pushing.test[f] = "typo"
                                     \/ pushing.test[f] = "both" /\ ~installed
        BY DEF Gate!OnlyExcludedMayFail
    <2>1. /\ tree = pushing /\ tree.lint /\ LeftOutBefore(NrTests + 1) /\ ~FailsInPytest
        BY DEF GateInv, FoundOut
    <2>2. ASSUME NEW f \in Gate!File
          PROVE  \/ Gate!CiPasses(tree, f)
                 \/ /\ f \in excluded
                    /\ tree.test[f] = "typo" \/ (tree.test[f] = "both" /\ ~installed)
        <3>1. CASE f \in excluded
            BY <2>1, <3>1, ExcusedAre DEF LeftOutBefore, Gate!CiPasses
        <3>2. CASE f \notin excluded
            <4>1. Gate!Collects(f) /\ tree.test[f] # "fails"
                BY <2>1, <3>2 DEF FailsInPytest
            <4>2. tree.test[f] \in {"good", "optional"}
                BY <4>1 DEF Gate!Collects
            <4> QED BY <4>2 DEF Gate!CiPasses
        <3> QED BY <3>1, <3>2
    <2> QED BY <2>1, <2>2
<1>4. GateInv => Gate!NoFalseBlock
    <2> SUFFICES ASSUME GateInv, gateAt = "blocked", clean, Gate!CiGreen(pushing)
                 PROVE  FALSE
        BY DEF Gate!NoFalseBlock
    <2>1. /\ tree = pushing /\ LeftOutBefore(NrTests + 1)
          /\ ~tree.lint \/ UnexplainedBefore(NrTests + 1) \/ FailsInPytest
        BY DEF GateInv, FoundOut
    <2>2. tree.lint /\ \A f \in Gate!File : tree.test[f] \in {"good", "optional"}
        BY <2>1 DEF Gate!CiGreen, Gate!CiPasses
    <2>3. \A f \in Gate!File : Gate!Collects(f) \/ Gate!Excused(f)
        BY <2>2, ExcusedAre DEF Gate!Collects
    <2>4. \A f \in Gate!File : ~Gate!Collects(f) => f \in excluded
        BY <1>2, <2>1, <2>3 DEF LeftOutBefore
    <2> QED BY <2>1, <2>2, <2>3, <2>4 DEF UnexplainedBefore, FailsInPytest, Gate!Unexplained
<1>5. [Gate!Next]_Gate!vars => [Gate!Next]_gateVars
    BY DEF Gate!vars, Gate!dev, Gate!gate, gateVars
<1> QED BY <1>1, <1>3, <1>4, <1>5, GateBegins, GateStep, PTL DEF Gate!Spec

-----------------------------------------------------------------------------
(***************************************************************************)
(* Ablation: for any number of queries.                                    *)
(***************************************************************************)
Row == [ok : BOOLEAN, spent : Nat]
Known(call, k) == Harness!EntriesOf(call, k) # {}

HarnessTypes ==
    /\ redis \in BOOLEAN /\ config \in {"on", "off", "reported"} /\ pass \in Harness!Pass
    /\ cache \subseteq Harness!Entry
    /\ rows \in [{"on", "off"} -> [Harness!Pass -> Seq(Row)]]

(* Row k of a pass, seen from the row alone                                *)
RowIsPriced(c, p, k) ==
    /\ rows[c][p][k].spent \in {0, k, 2 * k}
    /\ c = "off" /\ rows[c][p][k].ok => rows[c][p][k].spent = 2 * k

(* What a row of the cold pass has left in the dictionary                  *)
IsRemembered(k) ==
    /\ rows["on"]["cold"][k].ok => Known("plan", k) /\ Known("summary", k)
    /\ rows["on"]["cold"][k].spent > 0 => Known("plan", k)

(* The repeat of query k, seen from its first run                          *)
IsCheaper(k) ==
    /\ rows["on"]["cold"][k].ok => rows["on"]["warm"][k].spent = 0
    /\ rows["on"]["cold"][k].spent > 0 => rows["on"]["warm"][k].spent <= k

HarnessInv ==
    /\ HarnessTypes
    /\ \A c \in {"on", "off"}, p \in Harness!Pass :
           /\ Len(rows[c][p]) <= NrQueries
           /\ \A k \in 1..Len(rows[c][p]) : RowIsPriced(c, p, k)
    /\ config # "on" /\ ~redis => cache = {}
    /\ config = "on" /\ pass = "cold" => Len(rows["on"]["warm"]) = 0
    /\ config # "on" \/ pass = "warm" => Len(rows["on"]["cold"]) = NrQueries
    /\ ~redis /\ config = "on" => \A k \in 1..Len(rows["on"]["cold"]) : IsRemembered(k)
    /\ ~redis => \A k \in 1..Len(rows["on"]["warm"]) : IsCheaper(k)

LEMMA QueriesAreNat == NrQueries \in Nat \ {0} /\ Harness!Item = 1..NrQueries
BY HarnessIsKnown DEF Harness!AblationAssumption, Harness!Item

LEMMA HarnessBegins == Harness!Init => HarnessInv
<1> SUFFICES ASSUME Harness!Init PROVE HarnessInv
    OBVIOUS
<1>1. /\ rows = [c \in {"on", "off"} |-> [p \in Harness!Pass |-> <<>>]]
      /\ redis \in BOOLEAN /\ config = "on" /\ pass = "cold"
    BY DEF Harness!Init
<1>2. cache \subseteq Harness!Entry
    <2>1. CASE redis
        <3>1. PICK S \in SUBSET Harness!Item :
                  cache = [call : {"plan"}, item : S, is : {"good"}]
            BY <2>1 DEF Harness!Init
        <3> QED BY <3>1 DEF Harness!Entry, Harness!Call
    <2>2. CASE ~redis
        BY <2>2 DEF Harness!Init
    <2> QED BY <1>1, <2>1, <2>2
<1>3. /\ \A c \in {"on", "off"}, p \in Harness!Pass : rows[c][p] = <<>>
      /\ rows \in [{"on", "off"} -> [Harness!Pass -> Seq(Row)]]
    <2>1. <<>> \in Seq(Row)
        OBVIOUS
    <2> QED BY <1>1, <2>1
<1>4. /\ \A c \in {"on", "off"}, p \in Harness!Pass : Len(rows[c][p]) = 0
      /\ "warm" \in Harness!Pass /\ "cold" \in Harness!Pass
    BY <1>3 DEF Harness!Pass
<1> HIDE DEF Row
<1> QED BY <1>1, <1>2, <1>3, <1>4, QueriesAreNat DEF HarnessInv, HarnessTypes

(* An answer of a call: it costs the query's price or nothing, nothing     *)
(* when it was cached; without the cache it is good only when paid for.    *)
LEMMA AnswerIs ==
    ASSUME NEW call \in Harness!Call, NEW k \in Harness!Item, NEW a \in Harness!Answers(call, k)
    PROVE  /\ a.price \in {0, k} /\ (Harness!Enabled /\ Known(call, k) => a.price = 0)
           /\ \A e \in a.new : e \in Harness!Entry /\ e.call = call /\ e.item = k
           /\ Harness!Enabled /\ (a.price > 0 \/ a.is = "good") =>
                  Known(call, k) \/ \E e \in a.new : e.call = call /\ e.item = k
           /\ ~Harness!Enabled => a.new = {} /\ (a.is = "good" => a.price = k)
<1>0. k \in Nat \ {0}
    BY QueriesAreNat
<1>1. CASE Harness!Enabled /\ Known(call, k)
    <2>1. PICK e \in Harness!EntriesOf(call, k) : a = [is |-> e.is, price |-> 0, new |-> {}]
        BY <1>1 DEF Harness!Answers, Known
    <2> QED BY <1>0, <1>1, <2>1
<1>2. CASE ~(Harness!Enabled /\ Known(call, k))
    <2>1. \/ a = [is |-> "none", price |-> 0, new |-> {}]
          \/ \E x \in {"good", "bad"} :
                 a = [is |-> x, price |-> k,
                      new |-> Harness!Stored([call |-> call, item |-> k, is |-> x])]
        BY <1>2 DEF Harness!Answers, Known, Harness!Price
    <2>2. CASE a = [is |-> "none", price |-> 0, new |-> {}]
        BY <1>0, <1>2, <2>2
    <2>3. ASSUME NEW x \in {"good", "bad"},
                 a = [is |-> x, price |-> k,
                      new |-> Harness!Stored([call |-> call, item |-> k, is |-> x])]
          PROVE  /\ a.price = k /\ (~Harness!Enabled => a.new = {})
                 /\ \A e \in a.new : e \in Harness!Entry /\ e.call = call /\ e.item = k
                 /\ Harness!Enabled => \E e \in a.new : e.call = call /\ e.item = k
        <3> DEFINE e0 == [call |-> call, item |-> k, is |-> x]
        <3>1. e0 \in Harness!Entry /\ e0.call = call /\ e0.item = k
            BY DEF Harness!Entry
        <3>2. a.price = k /\ a.new = IF Harness!Enabled THEN {e0} ELSE {}
            BY <2>3 DEF Harness!Stored
        <3> HIDE DEF e0
        <3> QED BY <3>1, <3>2
    <2> QED BY <1>0, <1>2, <2>1, <2>2, <2>3
<1> QED BY <1>1, <1>2

(* A row more: what was paid for is the price of the query, once or twice, *)
(* and is remembered; a repeat of what is remembered is cheaper.           *)
LEMMA ItemStep == ASSUME HarnessInv, Harness!RunItem PROVE HarnessInv'
<1> DEFINE old == rows[config][pass]
<1>a. /\ config \in {"on", "off"} /\ pass \in Harness!Pass /\ old \in Seq(Row)
      /\ HarnessTypes /\ NrQueries \in Nat /\ Len(old) < NrQueries
    BY QueriesAreNat DEF HarnessInv, HarnessTypes, Harness!RunItem
<1>b. PICK k \in Nat : k = Len(old) + 1
    BY <1>a
<1>0. /\ config \in {"on", "off"} /\ pass \in Harness!Pass /\ old \in Seq(Row)
      /\ HarnessTypes /\ NrQueries \in Nat
      /\ k \in Harness!Item /\ k \in Nat \ {0} /\ k <= NrQueries /\ k = Len(old) + 1
    BY <1>a, <1>b, QueriesAreNat
<1>1. PICK plan \in Harness!Answers("plan", k), stops \in BOOLEAN :
          \E answer \in IF plan.is = "good" /\ ~stops
                        THEN Harness!Answers("summary", k)
                        ELSE {[is |-> "none", price |-> 0, new |-> {}]} :
              /\ cache' = cache \cup plan.new \cup answer.new
              /\ rows' = [rows EXCEPT ![config][pass] = Append(@,
                    [ok |-> answer.is = "good", spent |-> plan.price + answer.price])]
    BY <1>b DEF Harness!RunItem
<1>2. PICK answer \in IF plan.is = "good" /\ ~stops
                      THEN Harness!Answers("summary", k)
                      ELSE {[is |-> "none", price |-> 0, new |-> {}]} :
          /\ cache' = cache \cup plan.new \cup answer.new
          /\ rows' = [rows EXCEPT ![config][pass] = Append(@,
                [ok |-> answer.is = "good", spent |-> plan.price + answer.price])]
    BY <1>1
<1> DEFINE row == [ok |-> answer.is = "good", spent |-> plan.price + answer.price]
<1>3. UNCHANGED <<redis, config, pass>>
    BY DEF Harness!RunItem
<1>4. /\ plan.price \in {0, k} /\ (Harness!Enabled /\ Known("plan", k) => plan.price = 0)
      /\ \A e \in plan.new : e \in Harness!Entry /\ e.call = "plan" /\ e.item = k
      /\ Harness!Enabled /\ (plan.price > 0 \/ plan.is = "good") =>
             Known("plan", k) \/ \E e \in plan.new : e.call = "plan" /\ e.item = k
      /\ ~Harness!Enabled => plan.new = {} /\ (plan.is = "good" => plan.price = k)
    <2>1. "plan" \in Harness!Call
        BY DEF Harness!Call
    <2> QED BY <1>0, <1>1, <2>1, AnswerIs
<1>5. /\ answer.price \in {0, k}
      /\ Harness!Enabled /\ Known("summary", k) => answer.price = 0
      /\ \A e \in answer.new : e \in Harness!Entry /\ e.call = "summary" /\ e.item = k
      /\ Harness!Enabled /\ (answer.price > 0 \/ answer.is = "good") =>
             Known("summary", k) \/ \E e \in answer.new : e.call = "summary" /\ e.item = k
      /\ ~Harness!Enabled => answer.new = {} /\ (answer.is = "good" => answer.price = k)
      /\ answer.price > 0 \/ answer.is = "good" => plan.is = "good"
    <2>1. "summary" \in Harness!Call
        BY DEF Harness!Call
    <2>2. CASE plan.is = "good" /\ ~stops
        <3>1. answer \in Harness!Answers("summary", k)
            BY <1>2, <2>2
        <3> QED BY <1>0, <2>1, <2>2, <3>1, AnswerIs
    <2>3. CASE ~(plan.is = "good" /\ ~stops)
        <3>1. answer = [is |-> "none", price |-> 0, new |-> {}]
            BY <1>2, <2>3
        <3> QED BY <1>0, <3>1
    <2> QED BY <2>2, <2>3
<1>6. /\ cache \subseteq cache' /\ cache' \subseteq Harness!Entry
      /\ config # "on" => cache' = cache
    <2>1. cache \subseteq Harness!Entry
        BY <1>0 DEF HarnessTypes
    <2> QED BY <1>2, <1>4, <1>5, <2>1 DEF Harness!Enabled
<1>7. \A call, j : Known(call, j) => Known(call, j)'
    BY <1>6 DEF Known, Harness!EntriesOf
<1>8. config = "on" =>
          /\ row.spent > 0 => Known("plan", k)'
          /\ row.ok => Known("plan", k)' /\ Known("summary", k)'
    <2>1. ASSUME NEW call, NEW e \in cache', e.call = call, e.item = k
          PROVE  Known(call, k)'
        BY <2>1 DEF Known, Harness!EntriesOf
    <2>2. \A e \in plan.new \cup answer.new : e \in cache'
        BY <1>2
    <2>3. config = "on" /\ (plan.price > 0 \/ plan.is = "good") => Known("plan", k)'
        BY <1>4, <1>7, <2>1, <2>2 DEF Harness!Enabled
    <2>4. config = "on" /\ (answer.price > 0 \/ answer.is = "good") => Known("summary", k)'
        BY <1>5, <1>7, <2>1, <2>2 DEF Harness!Enabled
    <2>5. row.spent > 0 => plan.price > 0 \/ answer.price > 0
        BY <1>0, <1>4, <1>5
    <2> QED BY <1>5, <2>3, <2>4, <2>5
<1>9. /\ row \in Row /\ row.spent \in {0, k, 2 * k}
      /\ config = "off" /\ row.ok => row.spent = 2 * k
      /\ config = "on" /\ Known("plan", k) => row.spent <= k
      /\ config = "on" /\ Known("plan", k) /\ Known("summary", k) => row.spent = 0
    <2>1. row.spent = plan.price + answer.price /\ row.ok = (answer.is = "good")
        OBVIOUS
    <2>2. plan.price = 0 \/ plan.price = k
        BY <1>4
    <2>3. answer.price = 0 \/ answer.price = k
        BY <1>5
    <2>4. row.spent \in {0, k, 2 * k} /\ row.spent \in Nat
        BY <1>0, <2>1, <2>2, <2>3
    <2>5. row \in Row
        BY <2>4 DEF Row
    <2> HIDE DEF row
    <2>6. config = "off" /\ row.ok => plan.price = k /\ answer.price = k
        BY <1>4, <1>5, <2>1 DEF Harness!Enabled
    <2>7. config = "on" /\ Known("plan", k) => plan.price = 0
        BY <1>4 DEF Harness!Enabled
    <2>8. config = "on" /\ Known("summary", k) => answer.price = 0
        BY <1>5 DEF Harness!Enabled
    <2> QED BY <1>0, <2>1, <2>3, <2>4, <2>5, <2>6, <2>7, <2>8
<1> HIDE DEF row
<1>10. /\ rows' \in [{"on", "off"} -> [Harness!Pass -> Seq(Row)]]
       /\ rows'[config][pass] = Append(old, row)
       /\ \A c \in {"on", "off"}, p \in Harness!Pass :
              c # config \/ p # pass => rows'[c][p] = rows[c][p]
    <2>1. rows' = [rows EXCEPT ![config][pass] = Append(old, row)]
        BY <1>2 DEF row
    <2>2. Append(old, row) \in Seq(Row)
        BY <1>0, <1>9
    <2>3. rows \in [{"on", "off"} -> [Harness!Pass -> Seq(Row)]]
        BY <1>0 DEF HarnessTypes
    <2> HIDE DEF old, Row
    <2> QED BY <1>0, <2>1, <2>2, <2>3
<1>11. /\ Len(rows'[config][pass]) = k /\ rows'[config][pass][k] = row
       /\ \A j \in 1..(k - 1) : rows'[config][pass][j] = old[j]
    BY <1>0, <1>9, <1>10
<1>12. HarnessTypes'
    BY <1>0, <1>3, <1>6, <1>10 DEF HarnessTypes
<1>13. ASSUME NEW c \in {"on", "off"}, NEW p \in Harness!Pass
       PROVE  /\ Len(rows'[c][p]) <= NrQueries
              /\ \A j \in 1..Len(rows'[c][p]) : RowIsPriced(c, p, j)'
    <2>1. CASE c = config /\ p = pass
        <3>1. \A j \in 1..Len(old) : RowIsPriced(config, pass, j)
            BY <1>0 DEF HarnessInv
        <3>2. ASSUME NEW j \in 1..k PROVE RowIsPriced(c, p, j)'
            <4>1. CASE j = k
                BY <1>9, <1>11, <2>1, <4>1 DEF RowIsPriced
            <4>2. CASE j # k
                <5>1. j \in 1..(k - 1) /\ j \in 1..Len(old)
                    BY <1>0, <4>2
                <5> QED BY <1>11, <2>1, <3>1, <5>1 DEF RowIsPriced
            <4> QED BY <4>1, <4>2
        <3> QED BY <1>0, <1>11, <2>1, <3>2
    <2>2. CASE c # config \/ p # pass
        <3>1. rows'[c][p] = rows[c][p]
            BY <1>10, <1>13, <2>2
        <3>2. /\ Len(rows[c][p]) <= NrQueries
              /\ \A j \in 1..Len(rows[c][p]) : RowIsPriced(c, p, j)
            BY <1>13 DEF HarnessInv
        <3> QED BY <3>1, <3>2 DEF RowIsPriced
    <2> QED BY <2>1, <2>2
<1>14. \A c, p : c \in {"on", "off"} /\ p \in Harness!Pass /\ (c # config \/ p # pass) =>
              rows'[c][p] = rows[c][p]
    BY <1>10
<1>15. CASE config = "on" /\ pass = "cold"
    <2>1. rows'["on"]["warm"] = rows["on"]["warm"] /\ Len(rows["on"]["warm"]) = 0
        BY <1>14, <1>15 DEF HarnessInv, Harness!Pass
    <2>2. ASSUME ~redis, NEW j \in 1..k PROVE IsRemembered(j)'
        <3>1. CASE j = k
            <4>1. rows'["on"]["cold"][k] = row
                BY <1>11, <1>15
            <4> QED BY <1>8, <1>15, <3>1, <4>1 DEF IsRemembered
        <3>2. CASE j # k
            <4>1. j \in 1..(k - 1) /\ j \in 1..Len(old)
                BY <1>0, <3>2
            <4>2. IsRemembered(j)
                BY <1>15, <2>2, <4>1 DEF HarnessInv
            <4> QED BY <1>7, <1>11, <1>15, <4>1, <4>2 DEF IsRemembered
        <3> QED BY <3>1, <3>2
    <2> QED BY <1>3, <1>11, <1>12, <1>13, <1>15, <2>1, <2>2 DEF HarnessInv
<1>16. CASE config = "on" /\ pass = "warm"
    <2>1. rows'["on"]["cold"] = rows["on"]["cold"] /\ Len(rows["on"]["cold"]) = NrQueries
        BY <1>14, <1>16 DEF HarnessInv, Harness!Pass
    <2>2. ASSUME ~redis
          PROVE  /\ \A j \in 1..NrQueries : IsRemembered(j)
                 /\ \A j \in 1..Len(old) : IsCheaper(j)
        BY <1>16, <2>1, <2>2 DEF HarnessInv
    <2>3. ASSUME ~redis, NEW j \in 1..NrQueries PROVE IsRemembered(j)'
        BY <1>7, <2>1, <2>2, <2>3 DEF IsRemembered
    <2>4. ASSUME ~redis, NEW j \in 1..k PROVE IsCheaper(j)'
        <3>1. CASE j = k
            <4>1. IsRemembered(k)
                BY <1>0, <2>2, <2>4
            <4> QED BY <1>9, <1>11, <1>16, <2>1, <3>1, <4>1 DEF IsRemembered, IsCheaper
        <3>2. CASE j # k
            <4>1. j \in 1..(k - 1) /\ j \in 1..Len(old)
                BY <1>0, <3>2
            <4> QED BY <1>11, <1>16, <2>1, <2>2, <2>4, <4>1 DEF IsCheaper
        <3> QED BY <3>1, <3>2
    <2> QED BY <1>3, <1>11, <1>12, <1>13, <1>16, <2>1, <2>3, <2>4 DEF HarnessInv
<1>17. CASE config = "off"
    <2>1. /\ rows'["on"]["cold"] = rows["on"]["cold"] /\ rows'["on"]["warm"] = rows["on"]["warm"]
          /\ cache' = cache
        BY <1>6, <1>14, <1>17 DEF Harness!Pass
    <2>2. \A j : IsCheaper(j)' <=> IsCheaper(j)
        BY <2>1 DEF IsCheaper
    <2> QED BY <1>3, <1>12, <1>13, <1>17, <2>1, <2>2 DEF HarnessInv
<1> QED BY <1>0, <1>15, <1>16, <1>17 DEF Harness!Pass

LEMMA HarnessStep == HarnessInv /\ [Harness!Next]_ablationVars => HarnessInv'
<1> SUFFICES ASSUME HarnessInv, [Harness!Next]_ablationVars PROVE HarnessInv'
    OBVIOUS
<1> HIDE DEF Row
<1>0. HarnessTypes /\ NrQueries \in Nat
    BY QueriesAreNat DEF HarnessInv
<1>1. ASSUME UNCHANGED <<redis, cache, rows>>
      PROVE  \A k : /\ IsRemembered(k)' <=> IsRemembered(k)
                    /\ IsCheaper(k)' <=> IsCheaper(k)
                    /\ \A c, p : RowIsPriced(c, p, k)' <=> RowIsPriced(c, p, k)
    BY <1>1 DEF IsRemembered, IsCheaper, RowIsPriced, Known, Harness!EntriesOf
<1>2. CASE UNCHANGED ablationVars
    BY <1>1, <1>2 DEF ablationVars, HarnessInv, HarnessTypes
<1>3. CASE Harness!RunItem
    BY <1>3, ItemStep
<1>4. CASE Harness!Repeat
    <2>1. /\ config = "on" \/ config = "off"
          /\ Len(rows[config]["cold"]) = NrQueries /\ pass' = "warm"
          /\ UNCHANGED <<redis, cache, config, rows>>
        BY <1>0, <1>4 DEF Harness!Repeat, HarnessTypes
    <2>2. HarnessTypes'
        BY <1>0, <2>1 DEF HarnessTypes, Harness!Pass
    <2> QED BY <1>1, <2>1, <2>2 DEF HarnessInv
<1>5. CASE Harness!NextConfig
    <2>1. /\ config = "on" /\ pass = "warm" /\ config' = "off" /\ pass' = "cold"
          /\ cache' = IF redis THEN cache ELSE {}
          /\ UNCHANGED <<redis, rows>>
        BY <1>5 DEF Harness!NextConfig, Harness!NewCache
    <2>2. HarnessTypes'
        BY <1>0, <2>1 DEF HarnessTypes, Harness!Pass
    <2>3. \A k : /\ IsCheaper(k)' <=> IsCheaper(k)
                 /\ \A c, p : RowIsPriced(c, p, k)' <=> RowIsPriced(c, p, k)
        BY <2>1 DEF IsCheaper, RowIsPriced
    <2> QED BY <2>1, <2>2, <2>3 DEF HarnessInv
<1>6. CASE Harness!Report
    <2>1. /\ config = "off" /\ config' = "reported" /\ UNCHANGED <<redis, cache, pass, rows>>
        BY <1>6 DEF Harness!Report
    <2>2. HarnessTypes'
        BY <1>0, <2>1 DEF HarnessTypes
    <2> QED BY <1>1, <2>1, <2>2 DEF HarnessInv
<1>7. CASE Harness!Expire
    <2>1. redis /\ cache' \subseteq cache /\ UNCHANGED <<redis, config, pass, rows>>
        BY <1>7 DEF Harness!Expire
    <2>2. HarnessTypes'
        BY <1>0, <2>1 DEF HarnessTypes
    <2>3. \A k, c, p : RowIsPriced(c, p, k)' <=> RowIsPriced(c, p, k)
        BY <2>1 DEF RowIsPriced
    <2>4. \A k : IsCheaper(k)' <=> IsCheaper(k)
        BY <2>1 DEF IsCheaper
    <2> QED BY <2>1, <2>2, <2>3, <2>4 DEF HarnessInv
<1> QED BY <1>2, <1>3, <1>4, <1>5, <1>6, <1>7 DEF Harness!Next

(* For any number of queries: with the dictionary a repeat of an answered  *)
(* query is free and of a planned one does not pay for the plan; without   *)
(* the cache every answer is paid for, whatever Redis holds (ablation.py). *)
THEOREM CacheIsWhatSaves ==
    Harness!Spec => [](Harness!TypeOK /\ Harness!WarmRepeatIsFree /\ Harness!ControlPays)
<1>0. ASSUME HarnessInv, NEW c \in {"on", "off"}, NEW p \in Harness!Pass,
             NEW k \in DOMAIN rows[c][p]
      PROVE  k \in Harness!Item /\ RowIsPriced(c, p, k) /\ k \in 1..Len(rows[c][p])
    <2>1. rows[c][p] \in Seq(Row) /\ Len(rows[c][p]) <= NrQueries
        BY <1>0 DEF HarnessInv, HarnessTypes
    <2>2. k \in 1..Len(rows[c][p]) /\ Len(rows[c][p]) \in Nat
        BY <1>0, <2>1
    <2> QED BY <1>0, <2>1, <2>2, QueriesAreNat DEF HarnessInv
<1>1. HarnessInv => Harness!TypeOK
    <2> SUFFICES ASSUME HarnessInv PROVE Harness!TypeOK
        OBVIOUS
    <2>1. DOMAIN rows = {"on", "off"} /\ cache \subseteq Harness!Entry
        BY DEF HarnessInv, HarnessTypes
    <2>2. config # "on" /\ ~redis => cache = {}
        BY DEF HarnessInv
    <2> QED BY <1>0, <2>1, <2>2 DEF Harness!TypeOK, RowIsPriced, Harness!Price
<1>2. HarnessInv => Harness!WarmRepeatIsFree
    <2> SUFFICES ASSUME HarnessInv, ~redis, NEW k \in DOMAIN rows["on"]["warm"]
                 PROVE  /\ rows["on"]["cold"][k].ok => rows["on"]["warm"][k].spent = 0
                        /\ rows["on"]["cold"][k].spent > 0 => rows["on"]["warm"][k].spent <= k
        BY DEF Harness!WarmRepeatIsFree, Harness!Price
    <2>1. k \in 1..Len(rows["on"]["warm"])
        BY <1>0 DEF Harness!Pass
    <2> QED BY <2>1 DEF HarnessInv, IsCheaper
<1>3. HarnessInv => Harness!ControlPays
    BY <1>0 DEF Harness!ControlPays, Harness!Price, RowIsPriced
<1>4. [Harness!Next]_Harness!vars => [Harness!Next]_ablationVars
    BY DEF Harness!vars, ablationVars
<1> QED BY <1>1, <1>2, <1>3, <1>4, HarnessBegins, HarnessStep, PTL DEF Harness!Spec

-----------------------------------------------------------------------------
(* The three scripts run apart from each other; together they keep what    *)
(* the runs of MCDetection check of them.                                  *)
THEOREM ScriptsDoWhatTheyAreFor ==
    Harness!Spec /\ Gate!Spec /\ Runner!Spec => []ScriptsAreSound
<1>1. (Harness!TypeOK /\ Harness!WarmRepeatIsFree /\ Harness!ControlPays)
      /\ (Gate!TypeOK /\ Gate!OnlyExcludedMayFail /\ Gate!NoFalseBlock)
      /\ (Runner!TypeOK /\ Runner!InOrder /\ Runner!OnceUnlessDisturbed)
      => ScriptsAreSound
    BY DEF ScriptsAreSound
<1> QED BY <1>1, CacheIsWhatSaves, GateKeepsCi, MigrationsTakeEffectInOrder, PTL

-----------------------------------------------------------------------------
(***************************************************************************)
(* PiDpmTrack: for any lengths, envelopes, noise, speeds, jumps and        *)
(* strides.                                                                *)
(***************************************************************************)
(* Every step is one of length w but for the noise of its two ends.        *)
Near(a, w) ==
    /\ a \in Seq(Int)
    /\ \A k \in 1..(Len(a) - 1) :
          w - 2 * Wobble <= a[k + 1] - a[k] /\ a[k + 1] - a[k] <= w + 2 * Wobble

LeavesFar(x) == Track!Leaves(x, AMax) /\ Track!Leaves(x, 4 * Wobble)

TrackInv ==
    /\ v \in Speeds /\ Near(base, v) /\ Len(base) \in Lengths
    /\ track \in Seq(Int) /\ Len(track) = Len(base)
    /\ kind \in Track!Kinds \cup {"normal"} /\ trackLabel \in {0, 1}
    /\ trackLabel = 0 <=> kind = "normal"
    /\ stage \in {"generated", "scored"}
    /\ scored = IF stage = "scored" THEN Track!FitLen(track) ELSE <<>>
    /\ kind = "normal" => track = base
    /\ kind = "freeze" => track[Len(track)] = base[Len(base)]
    /\ kind = "excess_speed" =>
           \A k \in (Len(track) \div 2)..(Len(track) - 1) : Track!Speed(track)[k] > VMax
    /\ trackLabel = 1 /\ track # base => LeavesFar(track)

LEMMA Envelope ==
    /\ SeqLen \in Nat /\ SeqLen >= 4 /\ VMax \in Nat /\ AMax \in Nat /\ VTurn \in Nat /\ Wobble \in Nat
    /\ \A t \in Lengths : t \in Nat /\ t >= 4
    /\ \A w \in Speeds : /\ w \in Nat /\ w + 2 * Wobble <= VMax
                         /\ w - 2 * Wobble > AMax /\ w - 2 * Wobble > 4 * Wobble
    /\ \A d \in Strides : d \in Nat /\ d > VMax
    /\ \A w \in Speeds, d \in Jumps : d \in Nat /\ d > w + 2 * Wobble
<1>1. Lengths \cup {SeqLen, VMax, AMax, VTurn, Wobble} \cup Speeds \cup Jumps \cup Strides
          \subseteq Nat
    BY TracksAreKnown DEF Track!TrackAssumption
<1> QED BY <1>1, TracksAreKnown DEF Track!TrackAssumption

(* A step of a normal track is one to be seen, within the envelope.        *)
LEMMA StepIs ==
    ASSUME NEW w \in Speeds, NEW a, Near(a, w), NEW k \in 1..(Len(a) - 1)
    PROVE  /\ a[k] \in Int /\ a[k + 1] \in Int /\ a[k + 1] > a[k]
           /\ a[k + 1] - a[k] > AMax /\ a[k + 1] - a[k] > 4 * Wobble
           /\ a[k + 1] - a[k] <= VMax
           /\ w - 2 * Wobble <= a[k + 1] - a[k] /\ a[k + 1] - a[k] <= w + 2 * Wobble
           /\ \A d \in Jumps : d \in Nat /\ d > a[k + 1] - a[k]
<1>1. a \in Seq(Int) /\ k \in 1..Len(a) /\ k + 1 \in 1..Len(a)
    BY LenProperties DEF Near
<1>2. PICK p \in Int, q \in Int : p = a[k] /\ q = a[k + 1]
    BY <1>1, ElementOfSeq
<1>3. w - 2 * Wobble <= q - p /\ q - p <= w + 2 * Wobble
    BY <1>2 DEF Near
<1>4. /\ w \in Nat /\ w + 2 * Wobble <= VMax /\ w - 2 * Wobble > AMax /\ w - 2 * Wobble > 4 * Wobble
      /\ VMax \in Nat /\ AMax \in Nat /\ Wobble \in Nat
      /\ \A d \in Jumps : d \in Nat /\ d > w + 2 * Wobble
    BY Envelope
<1>5. q > p /\ q - p > AMax /\ q - p > 4 * Wobble /\ q - p <= VMax
    BY <1>3, <1>4
<1>6. \A d \in Jumps : d \in Nat /\ d > q - p
    BY <1>3, <1>4
<1> QED BY <1>2, <1>3, <1>5, <1>6

LEMMA ArcIs ==
    ASSUME NEW t \in Nat, NEW w \in Nat
    PROVE  /\ Track!Arc(t, w) \in Seq(Int) /\ Len(Track!Arc(t, w)) = t
           /\ \A k \in 1..t : Track!Arc(t, w)[k] = w * (k - 1)
<1>1. Track!Arc(t, w) = [k \in 1..t |-> w * (k - 1)]
    BY DEF Track!Arc
<1>2. [k \in 1..t |-> w * (k - 1)] \in [1..t -> Int]
    OBVIOUS
<1>3. Track!Arc(t, w) \in Seq(Int)
    BY <1>1, <1>2, SeqDef
<1>4. Len(Track!Arc(t, w)) = t
    BY <1>1, <1>2, <1>3, LenProperties
<1> QED BY <1>1, <1>3, <1>4

(* The step lengths of a track and their differences                       *)
LEMMA SpeedIs ==
    ASSUME NEW x \in Seq(Int), Len(x) >= 4
    PROVE  /\ \A k \in 1..(Len(x) - 1) :
                  /\ x[k + 1] >= x[k] => Track!Speed(x)[k] = x[k + 1] - x[k]
                  /\ x[k + 1] <= x[k] => Track!Speed(x)[k] = x[k] - x[k + 1]
           /\ \A k \in 1..(Len(x) - 2) :
                  Track!Diff(Track!Speed(x))[k] = Track!Speed(x)[k + 1] - Track!Speed(x)[k]
<1> DEFINE len == Len(x)
           s == [k \in 1..(len - 1) |-> IF x[k + 1] >= x[k] THEN x[k + 1] - x[k] ELSE x[k] - x[k + 1]]
<1>1. len \in Nat /\ len >= 4 /\ \A k \in 1..len : x[k] \in Int
    BY LenProperties, ElementOfSeq
<1>2. Track!Speed(x) = s
    BY DEF Track!Speed
<1>3. \A k \in 1..(len - 1) : k \in 1..len /\ k + 1 \in 1..len
    BY <1>1
<1>4. \A k \in 1..(len - 1) : s[k] \in Int
    BY <1>1, <1>3
<1>5. Len(s) = len - 1
    <2>1. s \in [1..(len - 1) -> Int] /\ len - 1 \in Nat
        BY <1>1, <1>4
    <2> HIDE DEF s
    <2>2. s \in Seq(Int)
        BY <2>1, SeqDef
    <2> QED BY <2>1, <2>2, LenProperties
<1>6. \A k \in 1..(len - 1) :
          /\ x[k + 1] >= x[k] => s[k] = x[k + 1] - x[k]
          /\ x[k + 1] <= x[k] => s[k] = x[k] - x[k + 1]
    BY <1>1, <1>3
<1>7. \A k \in 1..(len - 2) : Track!Diff(s)[k] = s[k + 1] - s[k]
    <2>1. Track!Diff(s) = [k \in 1..(Len(s) - 1) |-> s[k + 1] - s[k]]
        BY DEF Track!Diff
    <2>2. Len(s) - 1 = len - 2
        BY <1>1, <1>5
    <2> HIDE DEF s
    <2> QED BY <2>1, <2>2
<1> HIDE DEF s
<1> QED BY <1>2, <1>6, <1>7

LEMMA LeavesByAcceleration ==
    ASSUME NEW x \in Seq(Int), Len(x) >= 4, NEW k \in 1..(Len(x) - 2), NEW am \in Nat,
           \/ Track!Speed(x)[k + 1] - Track!Speed(x)[k] > am
           \/ Track!Speed(x)[k + 1] - Track!Speed(x)[k] < -am
    PROVE  Track!Leaves(x, am)
<1>1. Track!Diff(Track!Speed(x))[k] \notin -am..am
    BY SpeedIs
<1> QED BY <1>1 DEF Track!Leaves

(* The track a with a jump of e at m, with steps of e from the middle on,  *)
(* and frozen after ab[1] up to ab[2].                                     *)
Jumped(a, m, e) == [a EXCEPT ![m] = @ + e]

Outrun(a, e) ==
    [k \in 1..Len(a) |-> IF k <= Len(a) \div 2 THEN a[k]
                         ELSE a[Len(a) \div 2] + (k - Len(a) \div 2) * e]

Frozen(a, ab) ==
    [k \in 1..Len(a) |-> IF k \in (ab[1] + 1)..ab[2] THEN a[ab[1] + 1] ELSE a[k]]

(* One sample of a normal track moved by more than a step                  *)
LEMMA JumpLeaves ==
    ASSUME NEW t \in Nat, t >= 4, NEW w \in Speeds, NEW a, Near(a, w), Len(a) = t,
           NEW d \in Jumps, NEW e \in Int, e = d \/ e = -d, NEW m \in 2..(t - 1),
           NEW x, x = Jumped(a, m, e)
    PROVE  x \in Seq(Int) /\ Len(x) = t /\ LeavesFar(x)
<1>1. a \in Seq(Int) /\ AMax \in Nat /\ Wobble \in Nat /\ d \in Nat
    BY Envelope DEF Near
<1>2. /\ m \in 1..t /\ m - 1 \in 1..t /\ m + 1 \in 1..t /\ m - 1 \in 1..(t - 2)
      /\ m - 1 \in 1..(t - 1) /\ m \in 1..(t - 1) /\ (m - 1) + 1 = m
    OBVIOUS
<1>3. PICK o \in Int, p \in Int, q \in Int : o = a[m - 1] /\ p = a[m] /\ q = a[m + 1]
    BY <1>1, <1>2, ElementOfSeq
<1>4. p > o /\ p - o > AMax /\ p - o > 4 * Wobble /\ d > p - o
    BY <1>2, <1>3, StepIs
<1>5. q > p /\ q - p > AMax /\ q - p > 4 * Wobble /\ d > q - p
    BY <1>2, <1>3, StepIs
<1>6. x = [a EXCEPT ![m] = p + e]
    BY <1>3 DEF Jumped
<1>7. x \in Seq(Int) /\ Len(x) = t /\ \A k \in 1..t : x[k] = IF k = m THEN p + e ELSE a[k]
    BY <1>1, <1>2, <1>6, ExceptSeq
<1>8. x[m - 1] = o /\ x[m] = p + e /\ x[m + 1] = q
    <2>1. m - 1 # m /\ m + 1 # m
        OBVIOUS
    <2> QED BY <1>2, <1>3, <1>7, <2>1
<1>9. \/ Track!Speed(x)[m] - Track!Speed(x)[m - 1] = -((p - o) + (q - p))
      \/ Track!Speed(x)[m] - Track!Speed(x)[m - 1] = (p - o) + (q - p)
    <2>1. CASE e = d
        <3>1. x[(m - 1) + 1] >= x[m - 1] /\ x[(m - 1) + 1] - x[m - 1] = p - o + d
            BY <1>1, <1>2, <1>3, <1>4, <1>8, <2>1
        <3>2. x[m + 1] <= x[m] /\ x[m] - x[m + 1] = d - (q - p)
            BY <1>1, <1>3, <1>5, <1>8, <2>1
        <3>3. Track!Speed(x)[m - 1] = p - o + d /\ Track!Speed(x)[m] = d - (q - p)
            BY <1>2, <1>7, <3>1, <3>2, SpeedIs
        <3> QED BY <1>1, <1>3, <3>3
    <2>2. CASE e = -d
        <3>1. x[(m - 1) + 1] <= x[m - 1] /\ x[m - 1] - x[(m - 1) + 1] = d - (p - o)
            BY <1>1, <1>2, <1>3, <1>4, <1>8, <2>2
        <3>2. x[m + 1] >= x[m] /\ x[m + 1] - x[m] = d + (q - p)
            BY <1>1, <1>3, <1>5, <1>8, <2>2
        <3>3. Track!Speed(x)[m - 1] = d - (p - o) /\ Track!Speed(x)[m] = d + (q - p)
            BY <1>2, <1>7, <3>1, <3>2, SpeedIs
        <3> QED BY <1>1, <1>3, <3>3
    <2> QED BY <2>1, <2>2
<1>10. ASSUME NEW am \in Nat, p - o > am, q - p > am PROVE Track!Leaves(x, am)
    <2>1. PICK y \in Int : y = (p - o) + (q - p) /\ y > am
        BY <1>3, <1>10
    <2>2. Track!Speed(x)[m] - Track!Speed(x)[m - 1] \in {y, -y}
        BY <1>9, <2>1
    <2>3. \/ Track!Speed(x)[m] - Track!Speed(x)[m - 1] > am
          \/ Track!Speed(x)[m] - Track!Speed(x)[m - 1] < -am
        BY <2>1, <2>2
    <2>4. \/ Track!Speed(x)[(m - 1) + 1] - Track!Speed(x)[m - 1] > am
          \/ Track!Speed(x)[(m - 1) + 1] - Track!Speed(x)[m - 1] < -am
        BY <1>2, <2>3
    <2> QED BY <1>2, <1>7, <2>4, LeavesByAcceleration
<1> QED BY <1>1, <1>4, <1>5, <1>7, <1>10 DEF LeavesFar

(* Half a track at an implausible speed                                    *)
LEMMA ExcessLeaves ==
    ASSUME NEW t \in Nat, t >= 4, NEW a \in Seq(Int), Len(a) = t, NEW d \in Nat, d > VMax,
           NEW e \in Int, e = d \/ e = -d, NEW x, x = Outrun(a, e)
    PROVE  /\ x \in Seq(Int) /\ Len(x) = t /\ LeavesFar(x)
           /\ \A k \in (t \div 2)..(t - 1) : Track!Speed(x)[k] > VMax
<1> DEFINE h == t \div 2
           p == a[h]
<1>1. a \in Seq(Int) /\ Len(a) = t
    OBVIOUS
<1>2. h \in 1..(t - 1)
    <2>1. \A k \in Nat : k >= 4 => k \div 2 \in 1..(k - 1)
        OBVIOUS
    <2> QED BY <2>1
<1>3. VMax \in Nat /\ e \in Int /\ \A k \in 1..t : a[k] \in Int
    BY <1>1, Envelope, ElementOfSeq
<1>4. p \in Int
    BY <1>2, <1>3
<1>5. x = [k \in 1..t |-> IF k <= h THEN a[k] ELSE p + (k - h) * e]
    BY DEF Outrun
<1>6. h = t \div 2 /\ p = a[h]
    OBVIOUS
<1> HIDE DEF h, p
<1> USE <1>2
<1>7. x \in Seq(Int) /\ Len(x) = t
    <2>1. \A k \in 1..t : p + (k - h) * e \in Int
        BY <1>3, <1>4
    <2>2. x \in [1..t -> Int]
        <3> DEFINE f(k) == p + (k - h) * e
        <3>1. x = [k \in 1..t |-> IF k <= h THEN a[k] ELSE f(k)] /\ \A k \in 1..t : f(k) \in Int
            BY <1>5, <2>1
        <3> HIDE DEF f
        <3> QED BY <1>3, <3>1
    <2>3. x \in Seq(Int)
        BY <2>2, SeqDef
    <2> QED BY <2>2, <2>3, LenProperties
<1>8. ASSUME NEW k \in h..(t - 1) PROVE Track!Speed(x)[k] > VMax
    <2>1. k \in 1..(t - 1) /\ k \in 1..t /\ k + 1 \in 1..t
        BY <1>2
    <2>2. PICK q \in Int : q = (k - h) * e
        BY <1>2, <1>3
    <2>3. (k + 1 - h) * e = q + e
        <3>1. \A y, z \in Int : (y + 1) * z = y * z + z
            OBVIOUS
        <3>2. k - h \in Int /\ k + 1 - h = (k - h) + 1
            BY <1>2
        <3> QED BY <1>3, <2>2, <3>1, <3>2
    <2>4. x[k] = p + q
        <3>1. CASE k = h
            <4>1. q = 0
                BY <1>3, <2>2, <3>1
            <4> QED BY <1>6, <1>4, <1>5, <2>1, <3>1, <4>1
        <3>2. CASE k # h
            <4>1. ~(k <= h)
                BY <3>2
            <4> QED BY <1>5, <2>1, <2>2, <4>1
        <3> QED BY <3>1, <3>2
    <2>5. x[k + 1] = p + q + e
        <3>1. ~(k + 1 <= h)
            OBVIOUS
        <3>2. x[k + 1] = p + (k + 1 - h) * e
            <4>1. PICK l \in 1..t : l = k + 1
                BY <2>1
            <4>2. x[l] = p + (l - h) * e
                BY <1>5, <3>1, <4>1
            <4> QED BY <4>1, <4>2
        <3> QED BY <1>3, <1>4, <2>2, <2>3, <3>2
    <2>6. CASE e = d
        <3>1. x[k + 1] >= x[k] /\ x[k + 1] - x[k] = d
            BY <1>3, <1>4, <2>2, <2>4, <2>5, <2>6
        <3> QED BY <1>7, <2>1, <3>1, SpeedIs
    <2>7. CASE e = -d
        <3>1. x[k + 1] <= x[k] /\ x[k] - x[k + 1] = d
            BY <1>3, <1>4, <2>2, <2>4, <2>5, <2>7
        <3> QED BY <1>7, <2>1, <3>1, SpeedIs
    <2> QED BY <2>6, <2>7
<1>9. LeavesFar(x)
    <2>1. h \in h..(t - 1) /\ h \in 1..(Len(x) - 1)
        BY <1>2, <1>7
    <2>2. Track!Speed(x)[h] > VMax
        BY <1>8, <2>1
    <2> QED BY <1>7, <2>1, <2>2 DEF LeavesFar, Track!Leaves
<1> QED BY <1>6, <1>7, <1>8, <1>9

(* A freeze of more than one sample begins with a dead stop                *)
LEMMA FreezeLeaves ==
    ASSUME NEW t \in Nat, t >= 4, NEW w \in Speeds, NEW a, Near(a, w), Len(a) = t,
           NEW ab \in (1..(t - 1)) \X (1..(t - 1)), ab[1] < ab[2], NEW x, x = Frozen(a, ab)
    PROVE  /\ x \in Seq(Int) /\ Len(x) = t /\ x[t] = a[t]
           /\ x # a => LeavesFar(x)
<1> DEFINE b == ab[1]
           c == ab[2]
<1>1. a \in Seq(Int) /\ \A k \in 1..t : a[k] \in Int
    BY ElementOfSeq DEF Near
<1>2. b \in 1..(t - 1) /\ c \in 1..(t - 1) /\ b < c /\ AMax \in Nat /\ Wobble \in Nat
    BY Envelope
<1>3. x = [k \in 1..t |-> IF k \in (b + 1)..c THEN a[b + 1] ELSE a[k]]
    BY DEF Frozen
<1> HIDE DEF b, c
<1>4. x \in Seq(Int) /\ Len(x) = t
    <2>1. x \in [1..t -> Int]
        BY <1>1, <1>2, <1>3
    <2>2. x \in Seq(Int)
        BY <2>1, SeqDef
    <2> QED BY <2>1, <2>2, LenProperties
<1>5. x[t] = a[t]
    <2>1. t \in 1..t /\ t \notin (b + 1)..c
        BY <1>2
    <2> QED BY <1>3, <2>1
<1>6. CASE c = b + 1
    <2>1. \A k \in 1..t : x[k] = a[k]
        BY <1>2, <1>3, <1>6
    <2>2. x = a
        BY <1>1, <1>4, <2>1, SeqEqual
    <2> QED BY <1>4, <1>5, <2>2
<1>7. CASE c > b + 1
    <2>1. /\ b \in 1..t /\ b + 1 \in 1..t /\ (b + 1) + 1 \in 1..t /\ b \in 1..(t - 1)
          /\ b + 1 \in 1..(t - 1) /\ b \in 1..(t - 2)
          /\ b \notin (b + 1)..c /\ b + 1 \in (b + 1)..c /\ (b + 1) + 1 \in (b + 1)..c
        BY <1>2, <1>7
    <2>2. PICK p \in Int, q \in Int : p = a[b] /\ q = a[b + 1]
        BY <1>1, <2>1
    <2>3. q > p /\ q - p > AMax /\ q - p > 4 * Wobble
        BY <2>1, <2>2, StepIs
    <2>4. x[b] = p /\ x[b + 1] = q /\ x[(b + 1) + 1] = q
        BY <1>3, <2>1, <2>2
    <2>5. Track!Speed(x)[b] = q - p
        <3>1. x[b + 1] >= x[b] /\ x[b + 1] - x[b] = q - p
            BY <2>2, <2>3, <2>4
        <3> QED BY <1>4, <2>1, <3>1, SpeedIs
    <2>6. Track!Speed(x)[b + 1] = 0
        <3>1. x[(b + 1) + 1] >= x[b + 1] /\ x[(b + 1) + 1] - x[b + 1] = 0
            BY <2>2, <2>4
        <3> QED BY <1>4, <2>1, <3>1, SpeedIs
    <2>7. ASSUME NEW am \in Nat, q - p > am PROVE Track!Leaves(x, am)
        <3>1. Track!Speed(x)[b + 1] - Track!Speed(x)[b] < -am
            BY <2>2, <2>5, <2>6, <2>7
        <3> QED BY <1>4, <2>1, <3>1, LeavesByAcceleration
    <2> QED BY <1>2, <1>4, <1>5, <2>3, <2>7 DEF LeavesFar
<1> QED BY <1>2, <1>6, <1>7

(* Neither padding nor cropping makes a step longer or turns it round, and *)
(* only the stop where padding begins changes the speed by more than the   *)
(* noise.                                                                  *)
Fitted(x, a, t) ==
    /\ x \in Seq(Int) /\ Len(x) = SeqLen
    /\ \A k \in 1..(SeqLen - 1) :
          /\ x[k] \in Int /\ x[k + 1] \in Int /\ x[k + 1] >= x[k]
          /\ Track!Speed(x)[k] = x[k + 1] - x[k]
          /\ k < t => a[k + 1] - a[k] \in Int /\ x[k + 1] - x[k] = a[k + 1] - a[k]
          /\ k >= t => x[k + 1] - x[k] = 0

LEMMA FitSteps ==
    ASSUME NEW t \in Nat, t >= 4, NEW w \in Speeds, NEW a, Near(a, w), Len(a) = t,
           NEW x, x = Track!FitLen(a)
    PROVE  Fitted(x, a, t)
<1>1. a \in Seq(Int) /\ \A l \in 1..t : a[l] \in Int
    BY ElementOfSeq DEF Near
<1>2. SeqLen \in Nat /\ SeqLen >= 4 /\ VMax \in Nat
    BY Envelope
<1>3. x = [l \in 1..SeqLen |-> IF l <= t THEN a[l] ELSE a[t]]
    BY DEF Track!FitLen, Track!Pad
<1>4. x \in Seq(Int) /\ Len(x) = SeqLen
    <2>1. x \in [1..SeqLen -> Int]
        BY <1>1, <1>3
    <2>2. x \in Seq(Int)
        BY <1>2, <2>1, SeqDef
    <2> QED BY <1>2, <2>1, <2>2, LenProperties
<1>5. ASSUME NEW k \in 1..(SeqLen - 1)
      PROVE  /\ x[k] \in Int /\ x[k + 1] \in Int /\ x[k + 1] >= x[k]
             /\ Track!Speed(x)[k] = x[k + 1] - x[k]
             /\ k < t => /\ a[k + 1] - a[k] \in Int
                         /\ x[k + 1] - x[k] = a[k + 1] - a[k]
             /\ k >= t => x[k + 1] - x[k] = 0
    <2>1. k \in 1..SeqLen /\ k + 1 \in 1..SeqLen /\ k \in 1..(Len(x) - 1)
        BY <1>2, <1>4
    <2>2. CASE k < t
        <3>1. k \in 1..(Len(a) - 1) /\ k \in 1..t /\ k + 1 \in 1..t
            BY <2>2
        <3>2. x[k] = a[k] /\ x[k + 1] = a[k + 1]
            BY <1>3, <2>1, <3>1
        <3>3. a[k] \in Int /\ a[k + 1] \in Int /\ a[k + 1] > a[k]
            BY <3>1, StepIs
        <3>4. x[k] \in Int /\ x[k + 1] \in Int /\ x[k + 1] >= x[k]
            BY <3>2, <3>3
        <3>5. Track!Speed(x)[k] = x[k + 1] - x[k]
            BY <1>2, <1>4, <2>1, <3>4, SpeedIs
        <3> QED BY <2>2, <3>2, <3>3, <3>4, <3>5
    <2>3. CASE k >= t
        <3>1. a[t] \in Int /\ x[k] = a[t]
            BY <1>1, <1>3, <2>1, <2>3
        <3>2. x[k + 1] = a[t]
            <4>1. PICK l \in 1..SeqLen : l = k + 1
                BY <2>1
            <4>2. ~(l <= t)
                BY <2>3, <4>1
            <4> QED BY <1>3, <4>1, <4>2
        <3>3. x[k] \in Int /\ x[k + 1] \in Int /\ x[k + 1] >= x[k] /\ x[k + 1] - x[k] = 0
            BY <3>1, <3>2
        <3>4. Track!Speed(x)[k] = x[k + 1] - x[k]
            BY <1>2, <1>4, <2>1, <3>3, SpeedIs
        <3> QED BY <2>3, <3>3, <3>4
    <2> QED BY <2>2, <2>3
<1> QED BY <1>4, <1>5 DEF Fitted

LEMMA TrackFacts ==
    ASSUME TrackInv
    PROVE  Len(track) \in Nat /\ Len(track) >= 4
BY Envelope DEF TrackInv

LEMMA NormalIsSeenInside ==
    ASSUME TrackInv, stage = "scored", kind = "normal"
    PROVE  /\ \A k \in 1..(SeqLen - 1) : Track!Speed(scored)[k] <= VMax
           /\ \A k \in 1..(SeqLen - 2) :
                 /\ ~Track!TurnsRound(scored, k)
                 /\ k + 1 = Len(track) => Track!Diff(Track!Speed(scored))[k] < -AMax
                 /\ k + 1 # Len(track) =>
                       Track!Diff(Track!Speed(scored))[k] \in -(4 * Wobble)..(4 * Wobble)
<1>1. PICK t \in Nat : t = Len(base) /\ t = Len(track) /\ t >= 4
    BY TrackFacts DEF TrackInv
<1>2. v \in Speeds /\ Near(base, v) /\ Len(base) = t /\ scored = Track!FitLen(base)
    BY <1>1 DEF TrackInv
<1>3. /\ scored \in Seq(Int) /\ Len(scored) = SeqLen
      /\ \A k \in 1..(SeqLen - 1) :
            /\ scored[k] \in Int /\ scored[k + 1] \in Int /\ scored[k + 1] >= scored[k]
            /\ Track!Speed(scored)[k] = scored[k + 1] - scored[k]
            /\ k < t => /\ base[k + 1] - base[k] \in Int
                        /\ scored[k + 1] - scored[k] = base[k + 1] - base[k]
            /\ k >= t => scored[k + 1] - scored[k] = 0
    <2>1. Fitted(scored, base, t)
        BY <1>1, <1>2, FitSteps
    <2> QED BY <2>1 DEF Fitted
<1>4. /\ SeqLen \in Nat /\ SeqLen >= 4 /\ VMax \in Nat /\ AMax \in Nat /\ Wobble \in Nat
      /\ v \in Nat
    BY <1>2, Envelope
<1>5. ASSUME NEW k \in 1..(SeqLen - 1)
      PROVE  /\ Track!Speed(scored)[k] \in Nat
             /\ k < t => /\ v - 2 * Wobble <= Track!Speed(scored)[k]
                         /\ Track!Speed(scored)[k] <= v + 2 * Wobble
                         /\ Track!Speed(scored)[k] > AMax /\ Track!Speed(scored)[k] <= VMax
             /\ k >= t => Track!Speed(scored)[k] = 0
    <2>1. CASE k < t
        <3>1. k \in 1..(Len(base) - 1)
            BY <1>2, <2>1
        <3>2. PICK s \in Int : s = base[k + 1] - base[k]
            BY <1>3, <2>1
        <3>3. s > AMax /\ s <= VMax /\ v - 2 * Wobble <= s /\ s <= v + 2 * Wobble
            BY <1>2, <3>1, <3>2, StepIs
        <3>4. Track!Speed(scored)[k] = s
            BY <1>3, <2>1, <3>2
        <3> QED BY <1>4, <2>1, <3>3, <3>4
    <2>2. CASE k >= t
        BY <1>3, <2>2
    <2> QED BY <2>1, <2>2
<1>6. \A k \in 1..(SeqLen - 1) : Track!Speed(scored)[k] <= VMax
    BY <1>4, <1>5
<1>7. ASSUME NEW k \in 1..(SeqLen - 2)
      PROVE  /\ ~Track!TurnsRound(scored, k)
             /\ k + 1 = t => Track!Diff(Track!Speed(scored))[k] < -AMax
             /\ k + 1 # t => Track!Diff(Track!Speed(scored))[k] \in -(4 * Wobble)..(4 * Wobble)
    <2>1. k \in 1..(SeqLen - 1) /\ k + 1 \in 1..(SeqLen - 1)
        BY <1>4
    <2>2. PICK l \in 1..(SeqLen - 1) : l = k + 1
        BY <2>1
    <2>3. ~Track!TurnsRound(scored, k)
        <3>1. ~(scored[k + 1] < scored[k]) /\ ~(scored[l + 1] < scored[l])
            BY <1>3, <2>1
        <3> QED BY <2>2, <3>1 DEF Track!TurnsRound, Track!Back
    <2>4. Track!Diff(Track!Speed(scored))[k] = Track!Speed(scored)[l] - Track!Speed(scored)[k]
        BY <1>3, <1>4, <2>2, SpeedIs
    <2>5. PICK y \in Nat, z \in Nat : y = Track!Speed(scored)[k] /\ z = Track!Speed(scored)[l]
        BY <1>5, <2>1
    <2>6. /\ k < t => v - 2 * Wobble <= y /\ y <= v + 2 * Wobble /\ y > AMax
          /\ k >= t => y = 0
        BY <1>5, <2>1, <2>5
    <2>7. /\ l < t => v - 2 * Wobble <= z /\ z <= v + 2 * Wobble /\ z > AMax
          /\ l >= t => z = 0
        BY <1>5, <2>5
    <2>8. k + 1 = t => z - y < -AMax
        BY <1>4, <2>2, <2>6, <2>7
    <2>9. k + 1 # t => z - y \in -(4 * Wobble)..(4 * Wobble)
        BY <1>4, <2>2, <2>6, <2>7
    <2> QED BY <2>3, <2>4, <2>5, <2>8, <2>9
<1> QED BY <1>1, <1>6, <1>7

LEMMA TeleportLeaves ==
    ASSUME TrackInv, kind = "normal", NEW x \in Track!Teleports
    PROVE  x \in Seq(Int) /\ Len(x) = Len(base) /\ LeavesFar(x)
<1>1. PICK t \in Nat : t = Len(base) /\ t >= 4 /\ Len(track) = t
    BY TrackFacts DEF TrackInv
<1>2. PICK j \in (t \div 4)..((3 * t) \div 4 - 1), s \in {-1, 1}, d \in Jumps :
          x = [track EXCEPT ![j + 1] = @ + s * d]
    BY <1>1 DEF Track!Teleports, Track!T
<1>3. v \in Speeds /\ Near(base, v) /\ d \in Nat /\ track = base
    BY <1>2, Envelope DEF TrackInv
<1>4. PICK m \in 2..(t - 1) : m = j + 1
    <2>1. \A k \in Nat : k >= 4 => k \div 4 >= 1 /\ k \div 4 \in Int /\ (3 * k) \div 4 <= k - 1 /\ (3 * k) \div 4 \in Int
        OBVIOUS
    <2>2. j \in Int /\ j >= 1 /\ j <= t - 2
        BY <1>1, <1>2, <2>1
    <2> QED BY <1>1, <2>2
<1>5. PICK e \in Int : e = s * d /\ (e = d \/ e = -d)
    <2>1. s * d = d \/ s * d = -d
        <3>1. \A y \in Nat : 1 * y = y /\ -1 * y = -y
            OBVIOUS
        <3> QED BY <1>2, <1>3, <3>1
    <2> QED BY <1>3, <2>1
<1>6. x = Jumped(base, m, e)
    BY <1>2, <1>3, <1>4, <1>5 DEF Jumped
<1> QED BY <1>1, <1>3, <1>4, <1>5, <1>6, JumpLeaves

Outrunning(t, s, d) ==
    [k \in 1..t |-> IF k <= t \div 2 THEN track[k]
                    ELSE track[t \div 2] + s * (k - t \div 2) * d]

LEMMA ExcessSpeedsAre ==
    Track!ExcessSpeeds = {Outrunning(Len(track), s, d) : s \in {-1, 1}, d \in Strides}
BY DEF Track!ExcessSpeeds, Track!T, Outrunning

LEMMA ExcessSpeedLeaves ==
    ASSUME TrackInv, kind = "normal", NEW x \in Track!ExcessSpeeds
    PROVE  /\ x \in Seq(Int) /\ Len(x) = Len(track) /\ LeavesFar(x)
           /\ \A k \in (Len(track) \div 2)..(Len(track) - 1) : Track!Speed(x)[k] > VMax
<1> DEFINE t == Len(track)
<1>1. track = base /\ base \in Seq(Int)
    BY DEF TrackInv, Near
<1>2. PICK s \in {-1, 1}, d \in Strides :
          x = [k \in 1..t |-> IF k <= t \div 2 THEN track[k]
                              ELSE track[t \div 2] + s * (k - t \div 2) * d]
    <2>1. x \in {Outrunning(t, s, d) : s \in {-1, 1}, d \in Strides}
        BY ExcessSpeedsAre
    <2>2. \E s \in {-1, 1}, d \in Strides : x = Outrunning(t, s, d)
        BY <2>1
    <2> QED BY <2>2, Zenon DEF Outrunning
<1>3. t \in Nat /\ t >= 4 /\ d \in Nat /\ d > VMax /\ Len(base) = t
    BY TrackFacts, Envelope DEF TrackInv
<1> HIDE DEF t
<1>4. PICK e \in Int : (e = d \/ e = -d) /\ \A y \in Int : s * y * d = y * e
    <2>1. \A y, z \in Int : 1 * y * z = y * z /\ -1 * y * z = y * (-z) /\ 1 * z = z /\ -1 * z = -z
        OBVIOUS
    <2>2. CASE s = 1
        BY <1>3, <2>1, <2>2
    <2>3. CASE s = -1
        <3>1. d \in Int /\ -d \in Int
            BY <1>3
        <3>2. \A y \in Int : s * y * d = y * (-d)
            BY <2>1, <2>3, <3>1
        <3> QED BY <3>1, <3>2
    <2> QED BY <1>2, <2>2, <2>3
<1>5. x = Outrun(base, e)
    <2> DEFINE f(k) == IF k <= t \div 2 THEN track[k] ELSE track[t \div 2] + s * (k - t \div 2) * d
               g(k) == IF k <= t \div 2 THEN base[k]
                       ELSE base[t \div 2] + (k - t \div 2) * e
    <2>1. ASSUME NEW k \in 1..t PROVE f(k) = g(k)
        <3>1. k - t \div 2 \in Int
            <4>1. \A l \in Nat : l \div 2 \in Int
                OBVIOUS
            <4> QED BY <1>3, <4>1
        <3>2. s * (k - t \div 2) * d = (k - t \div 2) * e
            BY <1>4, <3>1
        <3> QED BY <1>1, <3>2
    <2>2. x = [k \in 1..t |-> f(k)]
        BY <1>2
    <2> HIDE DEF f, g
    <2>3. [k \in 1..t |-> f(k)] = [k \in 1..t |-> g(k)]
        BY <2>1
    <2>4. x = [k \in 1..t |-> g(k)]
        BY <2>2, <2>3
    <2> QED BY <1>3, <2>4 DEF g, Outrun
<1>6. /\ x \in Seq(Int) /\ Len(x) = t /\ LeavesFar(x)
      /\ \A k \in (t \div 2)..(t - 1) : Track!Speed(x)[k] > VMax
    BY <1>1, <1>3, <1>4, <1>5, ExcessLeaves
<1> QED BY <1>6 DEF t

LEMMA FreezeIsReal ==
    ASSUME TrackInv, kind = "normal", NEW x \in Track!Freezes
    PROVE  /\ x \in Seq(Int) /\ Len(x) = Len(base) /\ x[Len(base)] = base[Len(base)]
           /\ x # base => LeavesFar(x)
<1>1. PICK t \in Nat : t = Len(base) /\ t >= 4 /\ Len(track) = t
    BY TrackFacts DEF TrackInv
<1>2. v \in Speeds /\ Near(base, v) /\ track = base
    BY DEF TrackInv
<1>3. PICK ab \in {y \in (1..(t - 1)) \X (1..(t - 1)) : y[1] < y[2]} :
          x = [k \in 1..t |-> IF k \in (ab[1] + 1)..ab[2] THEN track[ab[1] + 1] ELSE track[k]]
    BY <1>1 DEF Track!Freezes, Track!T
<1>4. x = Frozen(base, ab)
    BY <1>1, <1>2, <1>3 DEF Frozen
<1>5. ab \in (1..(t - 1)) \X (1..(t - 1)) /\ ab[1] < ab[2]
    BY <1>3
<1> QED BY <1>1, <1>2, <1>4, <1>5, FreezeLeaves

LEMMA FitLenLen == ASSUME NEW x PROVE Len(Track!FitLen(x)) = SeqLen
<1> DEFINE f == [k \in 1..SeqLen |-> IF k <= Len(x) THEN x[k] ELSE Track!Pad(x, k)]
<1>1. SeqLen \in Nat
    BY Envelope
<1>2. f \in Seq({f[k] : k \in 1..SeqLen}) /\ DOMAIN f = 1..SeqLen
    <2>1. f \in [1..SeqLen -> {f[k] : k \in 1..SeqLen}]
        OBVIOUS
    <2> HIDE DEF f
    <2> QED BY <1>1, <2>1, SeqDef
<1>3. Track!FitLen(x) = f
    BY DEF Track!FitLen
<1> HIDE DEF f
<1>4. Len(f) = SeqLen
    BY <1>1, <1>2, LenProperties
<1> QED BY <1>3, <1>4

(* The noise of its two ends is all that a step differs by.                *)
LEMMA NoisyIsNear ==
    ASSUME NEW t \in Nat, t >= 4, NEW w \in Speeds, NEW e \in [1..t -> -Wobble..Wobble],
           NEW a, a = Track!Noisy(Track!Arc(t, w), e)
    PROVE  Near(a, w) /\ Len(a) = t
<1>1. w \in Nat /\ Wobble \in Nat
    BY Envelope
<1>2. PICK x \in Seq(Int) : x = Track!Arc(t, w) /\ Len(x) = t /\ \A k \in 1..t : x[k] = w * (k - 1)
    BY <1>1, ArcIs
<1>3. a = [k \in 1..t |-> x[k] + e[k] - e[1]]
    BY <1>2 DEF Track!Noisy
<1>4. \A k \in 1..t : x[k] \in Int /\ e[k] \in Int /\ -Wobble <= e[k] /\ e[k] <= Wobble
    BY <1>1, <1>2, ElementOfSeq
<1>5. PICK o \in Int : o = e[1]
    BY <1>4
<1>6. a \in Seq(Int) /\ Len(a) = t
    <2>1. a \in [1..t -> Int]
        BY <1>3, <1>4, <1>5
    <2>2. a \in Seq(Int)
        BY <2>1, SeqDef
    <2> QED BY <2>1, <2>2, LenProperties
<1>7. ASSUME NEW k \in 1..(t - 1)
      PROVE  w - 2 * Wobble <= a[k + 1] - a[k] /\ a[k + 1] - a[k] <= w + 2 * Wobble
    <2>1. k \in 1..t /\ k + 1 \in 1..t
        OBVIOUS
    <2>2. PICK y \in Int, z \in Int, c \in Int, d \in Int :
              y = x[k] /\ z = x[k + 1] /\ c = e[k] /\ d = e[k + 1]
        BY <1>4, <2>1
    <2>3. z = y + w
        <3>1. \A n1, m1 \in Nat : m1 * ((n1 + 1) - 1) = m1 * (n1 - 1) + m1
            OBVIOUS
        <3> QED BY <1>1, <1>2, <2>1, <2>2, <3>1
    <2>4. a[k] = y + c - o /\ a[k + 1] = z + d - o
        BY <1>3, <1>5, <2>1, <2>2
    <2>5. -Wobble <= c /\ c <= Wobble /\ -Wobble <= d /\ d <= Wobble
        <3>1. -Wobble <= e[k] /\ e[k] <= Wobble
            BY <1>4, <2>1
        <3>2. -Wobble <= e[k + 1] /\ e[k + 1] <= Wobble
            BY <1>4, <2>1
        <3>3. -Wobble <= c /\ c <= Wobble
            BY <2>2, <3>1
        <3>4. -Wobble <= d /\ d <= Wobble
            BY <2>2, <3>2
        <3> QED BY <3>3, <3>4
    <2>6. a[k + 1] - a[k] = w + d - c
        <3>1. \A n1, y1, o1, c1, d1 \in Int : (y1 + n1 + d1 - o1) - (y1 + c1 - o1) = n1 + d1 - c1
            OBVIOUS
        <3>2. a[k + 1] - a[k] = (y + w + d - o) - (y + c - o)
            BY <2>3, <2>4
        <3>3. w \in Int /\ y \in Int /\ o \in Int /\ c \in Int /\ d \in Int
            BY <1>1, <1>5, <2>2
        <3> QED BY <3>1, <3>2, <3>3
    <2>7. w - 2 * Wobble <= w + d - c /\ w + d - c <= w + 2 * Wobble
        BY <1>1, <2>2, <2>5
    <2> QED BY <2>6, <2>7
<1> QED BY <1>6, <1>7 DEF Near

LEMMA TrackBegins == Track!Init => TrackInv
<1> SUFFICES ASSUME Track!Init PROVE TrackInv
    OBVIOUS
<1>1. PICK t \in Lengths : \E e \in [1..t -> -Wobble..Wobble] : base = Track!Noisy(Track!Arc(t, v), e)
    BY DEF Track!Init
<1>2. t \in Nat /\ t >= 4 /\ v \in Speeds
    BY Envelope DEF Track!Init
<1>3. Near(base, v) /\ Len(base) = t
    BY <1>1, <1>2, NoisyIsNear
<1>4. base \in Seq(Int)
    BY <1>3 DEF Near
<1> QED BY <1>1, <1>2, <1>3, <1>4 DEF TrackInv, Track!Init

LEMMA TrackStep == TrackInv /\ [Track!Next]_trackVars => TrackInv'
<1> SUFFICES ASSUME TrackInv, [Track!Next]_trackVars PROVE TrackInv'
    OBVIOUS
<1>1. CASE Track!Inject
    <2>1. /\ stage = "generated" /\ kind = "normal" /\ trackLabel' = 1
          /\ UNCHANGED <<v, base, scored, stage>>
        BY <1>1 DEF Track!Inject, TrackInv
    <2>2. PICK k \in Track!Kinds : \E x \in Track!Variants(k) : kind' = k /\ track' = x
        BY <1>1 DEF Track!Inject
    <2>3. k \in {"teleport", "excess_speed", "freeze"}
        BY <2>2 DEF Track!Kinds
    <2>4. kind' = k /\ track' \in Track!Variants(k)
        BY <2>2
    <2>5. /\ track' \in Seq(Int) /\ Len(track') = Len(base)
          /\ kind' = "freeze" => track'[Len(base)] = base[Len(base)]
          /\ kind' = "excess_speed" =>
                 \A l \in (Len(track') \div 2)..(Len(track') - 1) : Track!Speed(track')[l] > VMax
          /\ track' # base => LeavesFar(track')
        <3>1. CASE k = "teleport"
            <4>1. track' \in Track!Teleports
                BY <2>4, <3>1 DEF Track!Variants
            <4> QED BY <2>1, <2>4, <3>1, <4>1, TeleportLeaves
        <3>2. CASE k = "excess_speed"
            <4>1. track' \in Track!ExcessSpeeds
                BY <2>4, <3>2 DEF Track!Variants
            <4>2. /\ track' \in Seq(Int) /\ Len(track') = Len(track) /\ LeavesFar(track')
                  /\ \A l \in (Len(track) \div 2)..(Len(track) - 1) : Track!Speed(track')[l] > VMax
                BY <2>1, <4>1, ExcessSpeedLeaves
            <4>3. Len(track) = Len(base)
                BY DEF TrackInv
            <4> QED BY <2>4, <3>2, <4>2, <4>3
        <3>3. CASE k = "freeze"
            <4>1. track' \in Track!Freezes
                BY <2>4, <3>3 DEF Track!Variants
            <4> QED BY <2>1, <2>4, <3>3, <4>1, FreezeIsReal
        <3> QED BY <2>3, <3>1, <3>2, <3>3
    <2>6. /\ v' \in Speeds /\ Near(base, v)' /\ Len(base') \in Lengths /\ kind' \in Track!Kinds /\ kind' # "normal"
          /\ stage' \in {"generated", "scored"} /\ stage' = "generated" /\ scored' = <<>>
        BY <2>1, <2>3, <2>4, <2>5 DEF TrackInv, Track!Kinds, Near
    <2> QED BY <2>1, <2>5, <2>6 DEF TrackInv, LeavesFar
<1>2. CASE Track!Score
    BY <1>2 DEF Track!Score, TrackInv, Near, LeavesFar
<1>3. CASE UNCHANGED trackVars
    BY <1>3 DEF trackVars, TrackInv, Near, LeavesFar
<1> QED BY <1>1, <1>2, <1>3 DEF Track!Next

LEMMA TracksAreSound ==
    TrackInv => Track!TypeOK /\ Track!NormalStaysInside /\ Track!AnomaliesAreReal
<1> SUFFICES ASSUME TrackInv PROVE Track!TypeOK /\ Track!NormalStaysInside /\ Track!AnomaliesAreReal
    OBVIOUS
<1>1. Track!TypeOK
    <2>1. Len(scored) \in {0, SeqLen}
        <3>1. CASE stage = "scored"
            BY <3>1, FitLenLen DEF TrackInv
        <3>2. CASE stage # "scored"
            BY <3>2 DEF TrackInv
        <3> QED BY <3>1, <3>2
    <2> QED BY <2>1 DEF TrackInv, Track!TypeOK, Track!T
<1>2. Track!NormalStaysInside
    BY NormalIsSeenInside DEF Track!NormalStaysInside, Track!T
<1>3. Track!AnomaliesAreReal
    BY DEF TrackInv, LeavesFar, Track!AnomaliesAreReal, Track!T
<1> QED BY <1>1, <1>2, <1>3

(* A normal track, with any noise, padded or cropped, leaves the envelope   *)
(* by the noise of its acceleration and by the stop where padding begins    *)
(* only; an injection that changes the track takes it out of the envelope,  *)
(* further than noise does (data.py, scoring.py, physics.py).               *)
THEOREM TracksAreWhatTheyAreLabelled ==
    Track!Spec => [](Track!TypeOK /\ Track!NormalStaysInside /\ Track!AnomaliesAreReal)
<1>1. [Track!Next]_Track!vars => [Track!Next]_trackVars
    BY DEF Track!vars, trackVars
<1> QED BY <1>1, TrackBegins, TrackStep, TracksAreSound, PTL DEF Track!Spec

-----------------------------------------------------------------------------
(***************************************************************************)
(* DdimSchedule: for any schedule, level and number of steps.              *)
(***************************************************************************)
LEMMA RoundedIs ==
    ASSUME NEW y \in Nat, NEW d \in Nat \ {0}
    PROVE  /\ Ddim!Rounded(y, d) # {}
           /\ \A r \in Ddim!Rounded(y, d) :
                  r \in Nat /\ 2 * y - d <= 2 * (r * d) /\ 2 * (r * d) <= 2 * y + d
           /\ \E z \in Nat : Ddim!Rounded(y, d) \subseteq {z, z + 1}
<1>1. PICK q \in Nat, m \in 0..(d - 1) : y = q * d + m /\ q = y \div d
    <2>1. /\ y \div d \in Nat
          /\ d * (y \div d) <= y /\ y < d * (y \div d) + d
        BY QuotientFacts
    <2>2. PICK q \in Nat : q = y \div d
        BY <2>1
    <2>3. q * d = d * q /\ q * d \in Nat
        BY <2>2
    <2>4. y - q * d \in 0..(d - 1) /\ y = q * d + (y - q * d)
        BY <2>1, <2>2, <2>3
    <2> QED BY <2>2, <2>4
<1>2. \A r \in Nat : 2 * r * d = 2 * (r * d) /\ r * d \in Nat
    OBVIOUS
<1>3. Ddim!Rounded(y, d) = {r \in {q, q + 1} : 2 * r * d \in (2 * y - d)..(2 * y + d)}
    BY <1>1 DEF Ddim!Rounded
<1>4. /\ \A r \in Ddim!Rounded(y, d) :
             r \in Nat /\ 2 * y - d <= 2 * (r * d) /\ 2 * (r * d) <= 2 * y + d
      /\ Ddim!Rounded(y, d) \subseteq {q, q + 1}
    <2> SUFFICES ASSUME NEW r \in Ddim!Rounded(y, d)
                 PROVE  /\ r \in {q, q + 1} /\ r \in Nat
                        /\ 2 * y - d <= 2 * (r * d) /\ 2 * (r * d) <= 2 * y + d
        OBVIOUS
    <2>1. r \in {q, q + 1} /\ 2 * r * d \in (2 * y - d)..(2 * y + d)
        BY <1>3
    <2>2. r \in Nat
        BY <2>1
    <2> QED BY <1>2, <2>1, <2>2
<1>5. PICK p \in Nat : p = q * d /\ (q + 1) * d = p + d
    <2>1. q * d \in Nat /\ (q + 1) * d = q * d + d
        OBVIOUS
    <2> QED BY <2>1
<1>6. CASE 2 * m <= d
    <2>1. 2 * q * d = 2 * p /\ 2 * p >= 2 * y - d /\ 2 * p <= 2 * y + d /\ p \in Nat
        BY <1>1, <1>2, <1>5, <1>6
    <2>2. 2 * q * d \in (2 * y - d)..(2 * y + d)
        BY <2>1
    <2>3. q \in Ddim!Rounded(y, d)
        BY <1>3, <2>2
    <2> QED BY <1>4, <2>3
<1>7. CASE ~(2 * m <= d)
    <2>1. 2 * (q + 1) * d = 2 * (p + d) /\ 2 * (p + d) >= 2 * y - d /\ 2 * (p + d) <= 2 * y + d
        BY <1>1, <1>2, <1>5, <1>7
    <2>2. q + 1 \in Ddim!Rounded(y, d)
        BY <1>3, <1>5, <2>1
    <2> QED BY <1>4, <2>2
<1> QED BY <1>6, <1>7

(* Of one or two levels there is a highest and a lowest.                   *)
LEMMA ExtremesAreIn ==
    ASSUME NEW S, S # {}, NEW z \in Nat, S \subseteq {z, z + 1}
    PROVE  Ddim!Max(S) \in S /\ Ddim!Min(S) \in S
<1>1. S = {z} \/ S = {z + 1} \/ S = {z, z + 1}
    OBVIOUS
<1>2. z >= z /\ z + 1 >= z /\ z + 1 >= z + 1
    OBVIOUS
<1>3. \E y \in S : \A x \in S : y >= x
    BY <1>1, <1>2
<1>4. \E y \in S : \A x \in S : y <= x
    BY <1>1, <1>2
<1> QED BY <1>3, <1>4 DEF Ddim!Max, Ddim!Min

(* A level of the schedule from y down to 0 in d steps, after z of them    *)
IsLevel(b, y, d, z) ==
    /\ b \in Nat
    /\ 2 * (y * (d - z)) - d <= 2 * (b * d) /\ 2 * (b * d) <= 2 * (y * (d - z)) + d

LEMMA LevelFacts ==
    ASSUME NEW y \in Nat, NEW d \in Nat \ {0}, NEW z \in 0..d, NEW b, IsLevel(b, y, d, z)
    PROVE  /\ b \in Nat /\ b <= y
           /\ z = 0 => b = y
           /\ z = d => b = 0
<1>1. PICK g \in Nat : g = y * (d - z)
    <2>1. d - z \in Nat
        OBVIOUS
    <2> QED BY <2>1
<1>2. b \in Nat /\ 2 * g - d <= 2 * (b * d) /\ 2 * (b * d) <= 2 * g + d
    BY <1>1 DEF IsLevel
<1>3. \A w, x \in Nat : x > w => x * d >= w * d + d
    <2> SUFFICES ASSUME NEW w \in Nat, NEW x \in Nat, x > w PROVE x * d >= w * d + d
        OBVIOUS
    <2>1. PICK u \in Nat : x = w + 1 + u
        <3>1. x - (w + 1) \in Nat
            OBVIOUS
        <3> QED BY <3>1
    <2>2. x * d = w * d + d + u * d /\ u * d \in Nat /\ w * d \in Nat
        BY <2>1
    <2> QED BY <2>2
<1>4. g <= y * d
    <2>1. PICK u \in Nat : d = (d - z) + u /\ d - z \in Nat
        BY z \in Nat /\ d - z \in Nat /\ d = (d - z) + z
    <2>2. y * d = y * (d - z) + y * u /\ y * u \in Nat
        <3>1. \A j, k, l \in Nat : l * (j + k) = l * j + l * k /\ l * k \in Nat
            OBVIOUS
        <3> QED BY <2>1, <3>1
    <2> QED BY <1>1, <2>2
<1>5. b * d \in Nat /\ y * d \in Nat
    BY <1>2
<1>6. b <= y
    BY <1>2, <1>3, <1>4, <1>5
<1>7. ASSUME z = 0 PROVE b = y
    <2>1. g = y * d
        BY <1>1, <1>7
    <2> QED BY <1>2, <1>3, <1>5, <1>6, <2>1
<1>8. ASSUME z = d PROVE b = 0
    <2>1. g = 0 /\ 0 * d = 0
        BY <1>1, <1>8
    <2> QED BY <1>2, <1>3, <1>5, <2>1
<1> QED BY <1>2, <1>6, <1>7, <1>8

LEMMA LevelsFall ==
    ASSUME NEW y \in Nat, y >= 1, NEW d \in Nat \ {0}, NEW z \in 1..d,
           NEW a, IsLevel(a, y, d, z - 1), NEW b, IsLevel(b, y, d, z)
    PROVE  b <= a /\ (d <= y => b < a)
<1>1. PICK g \in Nat : g = y * (d - z) /\ y * (d - (z - 1)) = g + y
    <2>1. PICK u \in Nat : u = d - z /\ d - (z - 1) = u + 1
        <3>1. d - z \in Nat /\ d - (z - 1) = (d - z) + 1
            OBVIOUS
        <3> QED BY <3>1
    <2>2. y * u \in Nat /\ y * (u + 1) = y * u + y
        OBVIOUS
    <2> QED BY <2>1, <2>2
<1>2. /\ a \in Nat /\ b \in Nat
      /\ 2 * (g + y) - d <= 2 * (a * d) /\ 2 * (a * d) <= 2 * (g + y) + d
      /\ 2 * g - d <= 2 * (b * d) /\ 2 * (b * d) <= 2 * g + d
    BY <1>1 DEF IsLevel
<1>3. PICK p \in Nat, q \in Nat : p = a * d /\ q = b * d
    <2>1. a * d \in Nat /\ b * d \in Nat
        BY <1>2
    <2> QED BY <2>1
<1>4. \A w, x \in Nat : x > w => x * d >= w * d + d
    <2> SUFFICES ASSUME NEW w \in Nat, NEW x \in Nat, x > w PROVE x * d >= w * d + d
        OBVIOUS
    <2>1. PICK u \in Nat : x = w + 1 + u
        <3>1. x - (w + 1) \in Nat
            OBVIOUS
        <3> QED BY <3>1
    <2>2. x * d = w * d + d + u * d /\ u * d \in Nat /\ w * d \in Nat
        BY <2>1
    <2> QED BY <2>2
<1>5. b <= a
    <2> SUFFICES ASSUME b > a PROVE FALSE
        BY <1>2
    <2>1. q >= p + d
        BY <1>2, <1>3, <1>4
    <2> QED BY <1>2, <1>3, <2>1
<1>6. ASSUME d <= y PROVE b # a
    <2> SUFFICES ASSUME b = a PROVE FALSE
        OBVIOUS
    <2>1. p = q
        BY <1>3
    <2>2. y = d /\ 2 * p = 2 * g + d
        BY <1>2, <1>3, <1>6, <2>1
    <2>3. PICK u \in Nat : g = u * d
        <3>1. d - z \in Nat
            OBVIOUS
        <3>2. g = (d - z) * d
            <4>1. \A j, k \in Nat : j * k = k * j
                OBVIOUS
            <4> QED BY <1>1, <2>2, <3>1, <4>1
        <3> QED BY <3>1, <3>2
    <2>4. a > u
        <3> SUFFICES ASSUME ~(a > u) PROVE FALSE
            OBVIOUS
        <3>1. u = a \/ u > a
            BY <1>2
        <3>2. g >= p
            BY <1>2, <1>3, <1>4, <2>3, <3>1
        <3> QED BY <2>2, <3>2
    <2>5. p >= g + d
        BY <1>2, <1>3, <1>4, <2>3, <2>4
    <2> QED BY <2>2, <2>5
<1> QED BY <1>2, <1>5, <1>6

Levels == 0..(NumT - 1)

Scheduled ==
    /\ DOMAIN ts = 0..steps
    /\ \A z \in 0..steps : IsLevel(ts[z], start, steps, z)

DdimInv ==
    /\ asked.t \in {Ddim!None} \cup Levels /\ asked.steps \in {Ddim!None} \cup 0..MaxSteps
    /\ stepsMade \in Nat /\ steps \in Nat
    /\ start = Ddim!None =>
           ts = <<>> /\ steps = 0 /\ stepsMade = 0 /\ noise = Ddim!None
    /\ start # Ddim!None =>
           /\ start \in Levels /\ start >= 1 /\ steps \in Nat \ {0} /\ stepsMade <= steps
           /\ ts = <<>> => stepsMade = 0
           /\ stepsMade = 0 => noise = start \/ (noise = NumT /\ start = NumT - 1)
           /\ ts # <<>> => Scheduled
           /\ stepsMade > 0 => noise = ts[stepsMade]
    /\ \A z \in 0..(stepsMade - 1) : told[z] \in Levels

LEMMA DdimConstants ==
    /\ NumT \in Nat /\ EvalLevel \in Levels /\ EvalLevel >= 1 /\ NumT - 1 \in Levels /\ NumT >= 2
    /\ DdimSteps \in Nat \ {0} /\ MaxSteps \in Nat /\ Ddim!None = -1 /\ Ddim!None \notin Levels
BY LevelsAreKnown DEF Ddim!DdimAssumption, Ddim!None, Levels

LEMMA OrIs ==
    /\ \A x \in {Ddim!None} \cup Levels : Ddim!Or(x, EvalLevel) \in Levels /\ Ddim!Or(x, EvalLevel) >= 1
    /\ \A x \in {Ddim!None} \cup 0..MaxSteps : Ddim!Or(x, DdimSteps) \in Nat \ {0}
BY DdimConstants DEF Ddim!Or, Levels

LEMMA DdimBegins == Ddim!Init => DdimInv
<1> SUFFICES ASSUME Ddim!Init PROVE DdimInv
    OBVIOUS
<1>1. asked.t \in {Ddim!None} \cup Levels /\ asked.steps \in {Ddim!None} \cup 0..MaxSteps
    BY DEF Ddim!Init, Levels
<1> QED BY <1>1 DEF Ddim!Init, DdimInv

LEMMA PointIsLevel ==
    ASSUME start \in Nat, steps \in Nat \ {0}, NEW z \in 0..steps
    PROVE  /\ \A b \in Ddim!Point(z) : IsLevel(b, start, steps, z)
           /\ Ddim!Max(Ddim!Point(z)) \in Ddim!Point(z) /\ Ddim!Min(Ddim!Point(z)) \in Ddim!Point(z)
<1>1. PICK y \in Nat : y = start * (steps - z)
    <2>1. steps - z \in Nat
        OBVIOUS
    <2> QED BY <2>1
<1>2. Ddim!Point(z) = Ddim!Rounded(y, steps)
    BY <1>1 DEF Ddim!Point
<1>3. \A b \in Ddim!Point(z) : b \in Nat /\ 2 * y - steps <= 2 * (b * steps) /\ 2 * (b * steps) <= 2 * y + steps
    BY <1>2, RoundedIs
<1>4. \A b \in Ddim!Point(z) : IsLevel(b, start, steps, z)
    BY <1>1, <1>3 DEF IsLevel
<1>5. Ddim!Point(z) # {}
    BY <1>2, RoundedIs
<1>6. \E x \in Nat : Ddim!Rounded(y, steps) \subseteq {x, x + 1}
    BY RoundedIs
<1>7. PICK x \in Nat : Ddim!Point(z) \subseteq {x, x + 1}
    BY <1>2, <1>6, Zenon
<1> QED BY <1>4, <1>5, <1>7, ExtremesAreIn

LEMMA LevelIsKnown ==
    ASSUME DdimInv, ts # <<>>
    PROVE  /\ start \in Levels /\ start \in Nat /\ start >= 1 /\ steps \in Nat \ {0}
           /\ DOMAIN ts = 0..steps /\ stepsMade \in 0..steps
           /\ \A z \in 0..steps : IsLevel(ts[z], start, steps, z) /\ ts[z] \in Levels
           /\ ts[0] = start /\ ts[steps] = 0
<1>1. start # Ddim!None
    BY DEF DdimInv
<1>2. start \in Levels /\ start >= 1 /\ steps \in Nat \ {0} /\ stepsMade <= steps /\ stepsMade \in Nat /\ Scheduled
    BY <1>1 DEF DdimInv
<1>3. start \in Nat
    BY <1>2, DdimConstants DEF Levels
<1>4. \A z \in 0..steps :
          /\ IsLevel(ts[z], start, steps, z) /\ ts[z] \in Nat /\ ts[z] <= start
          /\ z = 0 => ts[z] = start
          /\ z = steps => ts[z] = 0
    BY <1>2, <1>3, LevelFacts DEF Scheduled
<1>5. \A z \in 0..steps : ts[z] \in Levels
    BY <1>2, <1>3, <1>4, DdimConstants DEF Levels
<1> QED BY <1>2, <1>3, <1>4, <1>5 DEF Scheduled

LEMMA DdimStep == DdimInv /\ [Ddim!Next]_ddimVars => DdimInv'
<1> SUFFICES ASSUME DdimInv, [Ddim!Next]_ddimVars PROVE DdimInv'
    OBVIOUS
<1>1. CASE Ddim!Noise
    <2>1. start = Ddim!None /\ UNCHANGED <<asked, ts, stepsMade, told>>
        BY <1>1 DEF Ddim!Noise
    <2>2. start' \in Levels /\ start' >= 1 /\ (noise' = start' \/ (noise' = NumT /\ start' = NumT - 1))
        <3>1. CASE asked.mode = "reconstruct"
            <4>1. start' = Ddim!Or(asked.t, EvalLevel) /\ noise' = start'
                BY <1>1, <3>1 DEF Ddim!Noise, Ddim!QSample
            <4> QED BY <4>1, OrIs DEF DdimInv
        <3>2. CASE asked.mode # "reconstruct"
            <4>1. start' = NumT - 1 /\ noise' = NumT
                BY <1>1, <3>2 DEF Ddim!Noise, Ddim!Highest
            <4> QED BY <4>1, DdimConstants
        <3> QED BY <3>1, <3>2
    <2>3. steps' \in Nat \ {0}
        <3>1. steps' = Ddim!Or(asked.steps, DdimSteps)
            BY <1>1 DEF Ddim!Noise
        <3> QED BY <3>1, OrIs DEF DdimInv
    <2>4. start' # Ddim!None
        BY <2>2, DdimConstants
    <2>5. stepsMade = 0 /\ ts = <<>>
        BY <2>1 DEF DdimInv
    <2> QED BY <2>1, <2>2, <2>3, <2>4, <2>5 DEF DdimInv
<1>2. CASE Ddim!Schedule
    <2>1. start # Ddim!None /\ ts = <<>> /\ UNCHANGED <<asked, start, steps, stepsMade, noise, told>>
        BY <1>2 DEF Ddim!Schedule
    <2>2. PICK up : ts' = [z \in 0..steps |-> IF z \in up THEN Ddim!Max(Ddim!Point(z)) ELSE Ddim!Min(Ddim!Point(z))]
        BY <1>2 DEF Ddim!Schedule
    <2>3. start \in Nat /\ steps \in Nat \ {0} /\ stepsMade = 0
        BY <2>1, DdimConstants DEF DdimInv, Levels
    <2>4. \A z \in 0..steps : ts'[z] \in Ddim!Point(z)
        BY <2>2, <2>3, PointIsLevel
    <2>5. \A z \in 0..steps : IsLevel(ts'[z], start, steps, z)
        BY <2>3, <2>4, PointIsLevel
    <2>6. DOMAIN ts' = 0..steps
        BY <2>2
    <2>7. Scheduled'
        BY <2>1, <2>5, <2>6 DEF Scheduled
    <2> QED BY <2>1, <2>3, <2>7 DEF DdimInv
<1>3. CASE Ddim!Denoise
    <2>1. ts # <<>> /\ stepsMade < steps /\ stepsMade' = stepsMade + 1 /\ noise' = ts[stepsMade + 1]
          /\ told' = [z \in 0..stepsMade |-> IF z = stepsMade THEN ts[stepsMade] ELSE told[z]]
          /\ UNCHANGED <<asked, start, steps, ts>>
        BY <1>3 DEF Ddim!Denoise
    <2>2. stepsMade \in 0..steps /\ ts[stepsMade] \in Levels /\ steps \in Nat \ {0}
        BY <2>1, LevelIsKnown
    <2>3. \A z \in 0..(stepsMade' - 1) : told'[z] \in Levels
        <3> SUFFICES ASSUME NEW z \in 0..(stepsMade' - 1) PROVE told'[z] \in Levels
            OBVIOUS
        <3>1. z \in 0..stepsMade
            BY <2>1, <2>2
        <3>2. CASE z = stepsMade
            BY <2>1, <2>2, <3>1, <3>2
        <3>3. CASE z # stepsMade
            <4>1. told'[z] = told[z] /\ z \in 0..(stepsMade - 1)
                BY <2>1, <2>2, <3>1, <3>3
            <4> QED BY <4>1 DEF DdimInv
        <3> QED BY <3>2, <3>3
    <2>4. stepsMade' \in Nat /\ stepsMade' > 0 /\ stepsMade' <= steps /\ noise' = ts'[stepsMade']
        BY <2>1, <2>2
    <2>5. start # Ddim!None
        BY <2>1 DEF DdimInv
    <2>6. Scheduled'
        BY <2>1, <2>5 DEF DdimInv, Scheduled
    <2>7. /\ asked'.t \in {Ddim!None} \cup Levels /\ asked'.steps \in {Ddim!None} \cup 0..MaxSteps
          /\ start' \in Levels /\ start' >= 1 /\ steps' \in Nat \ {0} /\ start' # Ddim!None
        BY <2>1, <2>5 DEF DdimInv
    <2> QED BY <2>1, <2>3, <2>4, <2>6, <2>7 DEF DdimInv
<1>4. CASE UNCHANGED ddimVars
    BY <1>4 DEF ddimVars, DdimInv, Scheduled
<1> QED BY <1>1, <1>2, <1>3, <1>4 DEF Ddim!Next

LEMMA ScheduleIsSound == DdimInv => Ddim!TypeOK /\ Ddim!NoiseIsTold /\ Ddim!NoiseIsRemoved
<1> SUFFICES ASSUME DdimInv PROVE Ddim!TypeOK /\ Ddim!NoiseIsTold /\ Ddim!NoiseIsRemoved
    OBVIOUS
<1>1. Ddim!TypeOK
    <2>1. noise \in Ddim!None..NumT
        <3>1. CASE start = Ddim!None
            BY <3>1, DdimConstants DEF DdimInv
        <3>2. CASE start # Ddim!None /\ stepsMade = 0
            BY <3>2, DdimConstants DEF DdimInv, Levels
        <3>3. CASE start # Ddim!None /\ stepsMade # 0
            <4>1. ts # <<>> /\ noise = ts[stepsMade]
                BY <3>3 DEF DdimInv
            <4>2. noise \in Levels
                BY <4>1, LevelIsKnown
            <4> QED BY <4>2, DdimConstants DEF Levels
        <3> QED BY <3>1, <3>2, <3>3
    <2>2. stepsMade \in 0..steps
        BY DEF DdimInv
    <2> QED BY <2>1, <2>2 DEF DdimInv, Ddim!TypeOK, Levels
<1>2. Ddim!NoiseIsTold
    <2> SUFFICES ASSUME ts # <<>>, stepsMade < steps
                 PROVE  noise = ts[stepsMade] \/ (noise = NumT /\ stepsMade = 0 /\ ts[stepsMade] = NumT - 1)
        BY DEF Ddim!NoiseIsTold
    <2>1. start # Ddim!None /\ stepsMade \in Nat /\ ts[0] = start
        BY LevelIsKnown DEF DdimInv
    <2> QED BY <2>1 DEF DdimInv
<1>3. Ddim!NoiseIsRemoved
    <2>1. ASSUME ts # <<>>, NEW z \in 1..steps
          PROVE  ts[z] <= ts[z - 1] /\ (steps <= start => ts[z] < ts[z - 1])
        <3>1. start \in Nat /\ start >= 1 /\ steps \in Nat \ {0}
            BY <2>1, LevelIsKnown
        <3>2. z \in 0..steps /\ z - 1 \in 0..steps
            BY <2>1, <3>1
        <3>3. IsLevel(ts[z], start, steps, z) /\ IsLevel(ts[z - 1], start, steps, z - 1)
            BY <2>1, <3>2, LevelIsKnown
        <3> QED BY <2>1, <3>1, <3>3, LevelsFall
    <2>2. ASSUME ts # <<>>, stepsMade = steps PROVE noise = 0
        <3>1. ts[steps] = 0 /\ steps \in Nat \ {0} /\ start # Ddim!None
            BY <2>2, LevelIsKnown, DdimConstants
        <3> QED BY <2>2, <3>1 DEF DdimInv
    <2> QED BY <2>1, <2>2 DEF Ddim!NoiseIsRemoved
<1> QED BY <1>1, <1>2, <1>3

(* The denoiser is told the noise that x has, but for the first step of a   *)
(* generation, and every step lowers the level, to 0 at the last            *)
(* (diffusion.py).                                                          *)
THEOREM NoiseIsToldAndRemoved ==
    Ddim!Spec => [](Ddim!TypeOK /\ Ddim!NoiseIsTold /\ Ddim!NoiseIsRemoved)
<1>1. [Ddim!Next]_Ddim!vars => [Ddim!Next]_ddimVars
    BY DEF Ddim!vars, ddimVars
<1> QED BY <1>1, DdimBegins, DdimStep, ScheduleIsSound, PTL DEF Ddim!Spec

-----------------------------------------------------------------------------
(***************************************************************************)
(* PiDpmEval: for any splits, any size of the batches, and a calibration   *)
(* of up to 20 tracks.                                                     *)
(***************************************************************************)
Scores(m) == [1..m -> 0..MaxScore]
Least(x, y) == IF x <= y THEN x ELSE y

(* What has been collected of the scores t                                 *)
IsStartOf(o, t, m) == o \in Seq(0..MaxScore) /\ Len(o) = m /\ \A k \in 1..m : o[k] = t[k]

EvalInv ==
    /\ truth.cal \in Scores(NrCal) /\ truth.test \in Scores(NrTest)
    /\ label \in [1..NrTest -> 0..1] /\ split \in {"cal", "test", "done"}
    /\ \E m \in Nat : evalAt = m * Batch
    /\ DOMAIN out = {"cal", "test"}
    /\ IsStartOf(out.cal, truth.cal, IF split = "cal" THEN Least(evalAt, NrCal) ELSE NrCal)
    /\ IsStartOf(out.test, truth.test,
                 IF split = "cal" THEN 0 ELSE IF split = "test" THEN Least(evalAt, NrTest) ELSE NrTest)
    /\ lam = IF split = "cal" THEN -1 ELSE Eval!Quantile(truth.cal)

LEMMA SplitSizes ==
    /\ NrTest \in Nat \ {0} /\ NrCal \in Nat \ {0} /\ Batch \in Nat \ {0} /\ MaxScore \in Nat \ {0}
BY SplitsAreKnown DEF Eval!EvalAssumption

LEMMA ScoresAreSeq ==
    ASSUME NEW m \in Nat, NEW t \in Scores(m)
    PROVE  t \in Seq(0..MaxScore) /\ Len(t) = m /\ DOMAIN t = 1..m /\ \A k \in 1..m : t[k] \in 0..MaxScore
<1>1. t \in [1..m -> 0..MaxScore]
    BY DEF Scores
<1>2. t \in Seq(0..MaxScore)
    BY <1>1, SeqDef
<1> QED BY <1>1, <1>2, LenProperties

LEMMA LesserOfTwo ==
    ASSUME NEW x \in Int, NEW y \in Int
    PROVE  Eval!Min({x, y}) = Least(x, y)
<1>1. \E z \in {x, y} : \A w \in {x, y} : z <= w
    OBVIOUS
<1>2. Eval!Min({x, y}) \in {x, y} /\ \A w \in {x, y} : Eval!Min({x, y}) <= w
    BY <1>1 DEF Eval!Min
<1> QED BY <1>2 DEF Least

(* The next batch, the last of them short                                  *)
LEMMA BatchExtends ==
    ASSUME NEW m \in Nat, NEW t \in Scores(m), NEW a \in Nat, a < m, NEW o, IsStartOf(o, t, a)
    PROVE  IsStartOf(o \o SubSeq(t, a + 1, Eval!Min({a + Batch, m})), t, Least(a + Batch, m))
<1>1. Batch \in Nat \ {0} /\ MaxScore \in Nat
    BY SplitSizes
<1>2. PICK l \in Nat : l = Least(a + Batch, m) /\ a < l /\ l <= m
    BY <1>1 DEF Least
<1>3. Eval!Min({a + Batch, m}) = l
    BY <1>1, <1>2, LesserOfTwo
<1>4. t \in Seq(0..MaxScore) /\ Len(t) = m
    BY ScoresAreSeq
<1> DEFINE s == SubSeq(t, a + 1, l)
<1>5. s \in Seq(0..MaxScore) /\ Len(s) = l - a /\ \A k \in 1..(l - a) : s[k] = t[a + k]
    <2>1. a + 1 \in Int /\ l \in Int /\ a + 1 <= l /\ \A k \in (a + 1)..l : t[k] \in 0..MaxScore
        BY <1>2, ScoresAreSeq
    <2>2. s \in Seq(0..MaxScore) /\ Len(s) = l - (a + 1) + 1
        BY <2>1, SubSeqProperties
    <2>3. l - (a + 1) + 1 = l - a
        BY <1>2
    <2>4. ASSUME NEW k \in 1..(l - a) PROVE s[k] = t[a + k]
        <3>1. a + 1 + k - 1 = a + k /\ k \in 1..(l - (a + 1) + 1)
            BY <1>2
        <3>2. s[k] = t[a + 1 + k - 1]
            BY <2>1, <3>1, SubSeqProperties
        <3> HIDE DEF s
        <3> QED BY <3>1, <3>2
    <2> HIDE DEF s
    <2> QED BY <2>2, <2>3, <2>4
<1> HIDE DEF s
<1>6. /\ o \o s \in Seq(0..MaxScore) /\ Len(o \o s) = a + (l - a)
      /\ \A k \in 1..(a + (l - a)) : (o \o s)[k] = IF k <= a THEN o[k] ELSE s[k - a]
    <2>1. o \in Seq(0..MaxScore) /\ Len(o) = a
        BY DEF IsStartOf
    <2>2. PICK u : u = l - a
        OBVIOUS
    <2>3. Len(s) = u
        BY <1>5, <2>2
    <2>4. o \o s \in Seq(0..MaxScore) /\ Len(o \o s) = Len(o) + Len(s)
        BY <1>5, <2>1, ConcatProperties
    <2>5. \A k \in 1..(Len(o) + Len(s)) : (o \o s)[k] = IF k <= Len(o) THEN o[k] ELSE s[k - Len(o)]
        BY <1>5, <2>1, ConcatProperties
    <2> QED BY <2>1, <2>2, <2>3, <2>4, <2>5, Zenon
<1>7. ASSUME NEW k \in 1..l PROVE (o \o s)[k] = t[k]
    <2>1. k \in 1..(a + (l - a))
        BY <1>2
    <2>2. CASE k <= a
        BY <1>6, <2>1, <2>2 DEF IsStartOf
    <2>3. CASE ~(k <= a)
        <3>1. k - a \in 1..(l - a) /\ a + (k - a) = k
            BY <1>2, <2>3
        <3> QED BY <1>5, <1>6, <2>1, <2>3, <3>1
    <2> QED BY <2>2, <2>3
<1>8. a + (l - a) = l
    BY <1>2
<1> QED BY <1>2, <1>3, <1>6, <1>7, <1>8 DEF IsStartOf, s

LEMMA StartIsWhole ==
    ASSUME NEW m \in Nat, NEW t \in Scores(m), NEW o, IsStartOf(o, t, m)
    PROVE  o = t
<1>1. t \in Seq(0..MaxScore) /\ Len(t) = m
    BY ScoresAreSeq
<1> QED BY <1>1, SeqEqual DEF IsStartOf

LEMMA EvalBegins == Eval!Init => EvalInv
<1> SUFFICES ASSUME Eval!Init PROVE EvalInv
    OBVIOUS
<1>1. truth.cal \in Scores(NrCal) /\ truth.test \in Scores(NrTest)
    BY DEF Eval!Init, Scores, Eval!Score
<1>2. DOMAIN out = {"cal", "test"} /\ out.cal = <<>> /\ out.test = <<>> /\ split = "cal" /\ evalAt = 0 /\ lam = -1
    BY DEF Eval!Init, Eval!Split
<1>3. 0 = 0 * Batch /\ Least(0, NrCal) = 0
    BY SplitSizes DEF Least
<1>4. \A t : IsStartOf(<<>>, t, 0)
    BY DEF IsStartOf
<1>5. label \in [1..NrTest -> 0..1]
    BY DEF Eval!Init
<1>6. \E m \in Nat : evalAt = m * Batch
    BY <1>2, <1>3
<1> QED BY <1>1, <1>2, <1>3, <1>4, <1>5, <1>6 DEF EvalInv

LEMMA EvalStep == EvalInv /\ [Eval!Next]_evalVars => EvalInv'
<1> SUFFICES ASSUME EvalInv, [Eval!Next]_evalVars PROVE EvalInv'
    OBVIOUS
<1>1. NrTest \in Nat \ {0} /\ NrCal \in Nat \ {0} /\ Batch \in Nat \ {0}
    BY SplitSizes
<1>2. evalAt \in Nat
    <2>1. PICK m \in Nat : evalAt = m * Batch
        BY DEF EvalInv
    <2> QED BY <1>1, <2>1
<1>3. CASE Eval!ScoreBatch
    <2>1. /\ split \in {"cal", "test"} /\ evalAt < Len(truth[split])
          /\ out' = [out EXCEPT ![split] = @ \o SubSeq(truth[split], evalAt + 1,
                                  Eval!Min({evalAt + Batch, Len(truth[split])}))]
          /\ evalAt' = evalAt + Batch
          /\ UNCHANGED <<truth, label, split, lam>>
        BY <1>3 DEF Eval!ScoreBatch, Eval!Split, Eval!BatchScores
    <2>2. \E m \in Nat : evalAt' = m * Batch
        <3>1. PICK m \in Nat : evalAt = m * Batch
            BY DEF EvalInv
        <3>2. m + 1 \in Nat /\ (m + 1) * Batch = m * Batch + Batch
            BY <1>1
        <3> QED BY <2>1, <3>1, <3>2
    <2>3. DOMAIN out' = {"cal", "test"}
        BY <2>1 DEF EvalInv
    <2>4. CASE split = "cal"
        <3>1. Len(truth.cal) = NrCal /\ truth.cal \in Scores(NrCal)
            BY <1>1, ScoresAreSeq DEF EvalInv
        <3>2. evalAt < NrCal /\ Least(evalAt, NrCal) = evalAt
            BY <1>1, <1>2, <2>1, <2>4, <3>1 DEF Least
        <3>3. IsStartOf(out.cal, truth.cal, evalAt)
            BY <2>4, <3>2 DEF EvalInv
        <3>4. out'.cal = out.cal \o SubSeq(truth.cal, evalAt + 1, Eval!Min({evalAt + Batch, NrCal}))
              /\ out'.test = out.test
            BY <2>1, <2>4, <3>1 DEF EvalInv
        <3>5. IsStartOf(out'.cal, truth.cal, Least(evalAt + Batch, NrCal))
            BY <1>1, <1>2, <3>1, <3>2, <3>3, <3>4, BatchExtends
        <3> QED BY <2>1, <2>2, <2>3, <2>4, <3>4, <3>5 DEF EvalInv
    <2>5. CASE split = "test"
        <3>1. Len(truth.test) = NrTest /\ truth.test \in Scores(NrTest)
            BY <1>1, ScoresAreSeq DEF EvalInv
        <3>2. evalAt < NrTest /\ Least(evalAt, NrTest) = evalAt
            BY <1>1, <1>2, <2>1, <2>5, <3>1 DEF Least
        <3>3. IsStartOf(out.test, truth.test, evalAt)
            BY <2>5, <3>2 DEF EvalInv
        <3>4. out'.test = out.test \o SubSeq(truth.test, evalAt + 1, Eval!Min({evalAt + Batch, NrTest}))
              /\ out'.cal = out.cal
            BY <2>1, <2>5, <3>1 DEF EvalInv
        <3>5. IsStartOf(out'.test, truth.test, Least(evalAt + Batch, NrTest))
            BY <1>1, <1>2, <3>1, <3>2, <3>3, <3>4, BatchExtends
        <3> QED BY <2>1, <2>2, <2>3, <2>5, <3>4, <3>5 DEF EvalInv
    <2> QED BY <2>1, <2>4, <2>5
<1>4. CASE Eval!Calibrate
    <2>1. /\ split = "cal" /\ evalAt >= NrCal /\ lam' = Eval!Quantile(out.cal) /\ split' = "test" /\ evalAt' = 0
          /\ UNCHANGED <<truth, label, out>>
        BY <1>4 DEF Eval!Calibrate
    <2>2. Least(evalAt, NrCal) = NrCal /\ Least(0, NrTest) = 0 /\ 0 = 0 * Batch
        BY <1>1, <1>2, <2>1 DEF Least
    <2>3. out.cal = truth.cal
        <3>1. IsStartOf(out.cal, truth.cal, NrCal) /\ truth.cal \in Scores(NrCal)
            BY <2>1, <2>2 DEF EvalInv
        <3> QED BY <1>1, <3>1, StartIsWhole
    <2>4. \E m \in Nat : evalAt' = m * Batch
        BY <2>1, <2>2
    <2> QED BY <2>1, <2>2, <2>3, <2>4 DEF EvalInv
<1>5. CASE Eval!Measure
    <2>1. /\ split = "test" /\ evalAt >= NrTest /\ split' = "done"
          /\ UNCHANGED <<truth, label, evalAt, out, lam>>
        BY <1>5 DEF Eval!Measure
    <2>2. Least(evalAt, NrTest) = NrTest
        BY <1>1, <1>2, <2>1 DEF Least
    <2> QED BY <2>1, <2>2 DEF EvalInv
<1>6. CASE UNCHANGED evalVars
    BY <1>6 DEF evalVars, EvalInv
<1> QED BY <1>3, <1>4, <1>5, <1>6 DEF Eval!Next

-----------------------------------------------------------------------------
(* The threshold                                                           *)
LEMMA EvalCount == \A S : Eval!Cardinality(S) = Cardinality(S)
BY DEF Eval!Cardinality, Cardinality

(* Among the tracks T one has the highest score. *)
LEMMA HighestOf ==
    ASSUME NEW m \in Nat, NEW s \in Scores(m), NEW T \in SUBSET (1..m), T # {}
    PROVE  \E p \in T : \A j \in T : s[j] <= s[p]
<1>1. MaxScore \in Nat /\ \A j \in T : s[j] \in 0..MaxScore
    BY SplitSizes, ScoresAreSeq
<1> DEFINE D == {MaxScore - s[j] : j \in T}
<1>2. D \subseteq Nat /\ D # {}
    <2>1. ASSUME NEW j \in T PROVE MaxScore - s[j] \in Nat
        <3>1. s[j] \in 0..MaxScore
            BY <1>1
        <3> QED BY <1>1, <3>1
    <2>2. PICK j \in T : TRUE
        OBVIOUS
    <2>3. MaxScore - s[j] \in D
        OBVIOUS
    <2> QED BY <2>1, <2>3
<1>3. PICK d \in D : \A e \in D : d <= e
    <2> HIDE DEF D
    <2> QED BY <1>2, LeastNat
<1>4. PICK p \in T : d = MaxScore - s[p]
    BY <1>3
<1>5. ASSUME NEW j \in T PROVE s[j] <= s[p]
    <2>1. MaxScore - s[p] <= MaxScore - s[j]
        BY <1>3, <1>4
    <2> QED BY <1>1, <2>1
<1> QED BY <1>5

(* All of m tracks, and all but some *)
LEMMA TracksCount ==
    ASSUME NEW m \in Nat, NEW T \in SUBSET (1..m)
    PROVE  /\ IsFiniteSet(T) /\ Cardinality(T) \in Nat /\ Cardinality(T) <= m
           /\ Cardinality(T) = m => T = 1..m
           /\ \A p \in 1..m : p \notin T => Cardinality(T) <= m - 1
           /\ \A p, q \in 1..m : p # q /\ p \notin T /\ q \notin T => Cardinality(T) <= m - 2
<1>1. IsFiniteSet(1..m) /\ Cardinality(1..m) = m
    BY FS_Interval
<1>2. IsFiniteSet(T) /\ Cardinality(T) \in Nat /\ Cardinality(T) <= m /\ (Cardinality(T) = m => T = 1..m)
    BY <1>1, FS_Subset, FS_CardinalityType
<1>3. ASSUME NEW p \in 1..m, p \notin T PROVE Cardinality(T) <= m - 1
    BY <1>2, <1>3
<1>4. ASSUME NEW p \in 1..m, NEW q \in 1..m, p # q, p \notin T, q \notin T PROVE Cardinality(T) <= m - 2
    <2> DEFINE R == (1..m) \ {p}
               Q == R \ {q}
    <2>1. IsFiniteSet(R) /\ Cardinality(R) = m - 1
        BY <1>1, FS_RemoveElement
    <2>2. q \in R /\ T \in SUBSET Q
        BY <1>4
    <2> HIDE DEF R
    <2>3. IsFiniteSet(Q) /\ Cardinality(Q) = Cardinality(R) - 1
        BY <2>1, <2>2, FS_RemoveElement
    <2> HIDE DEF Q
    <2>4. Cardinality(T) <= Cardinality(Q)
        BY <2>2, <2>3, FS_Subset
    <2> QED BY <2>1, <2>3, <2>4
<1> QED BY <1>2, <1>3, <1>4

Under(s, m, x) == {j \in 1..m : s[j] < x}
UpTo(s, m, x) == {j \in 1..m : s[j] <= x}

(* The k-th smallest score exists: fewer than k tracks are below it, and k  *)
(* at least are not above it.                                              *)
LEMMA NthIs ==
    ASSUME NEW m \in Nat, NEW s \in Scores(m), NEW k \in 1..m
    PROVE  \E p \in 1..m : /\ Eval!Nth(s, k) = s[p]
                           /\ Cardinality(Under(s, m, s[p])) < k
                           /\ k <= Cardinality(UpTo(s, m, s[p]))
<1>1. Len(s) = m /\ MaxScore \in Nat /\ \A j \in 1..m : s[j] \in 0..MaxScore
    BY SplitSizes, ScoresAreSeq
<1> DEFINE Many == {x \in {s[j] : j \in 1..m} : k <= Cardinality(UpTo(s, m, x))}
           D == {s[j] : j \in 1..m}
           Fits(x) == Cardinality(Under(s, m, x)) < k /\ k <= Cardinality(UpTo(s, m, x))
<1>2. \A x : Under(s, m, x) \in SUBSET (1..m) /\ UpTo(s, m, x) \in SUBSET (1..m)
    BY DEF Under, UpTo
<1>3. Many \subseteq Nat /\ Many # {}
    <2>1. PICK p \in 1..m : \A j \in 1..m : s[j] <= s[p]
        <3>1. 1..m \in SUBSET (1..m) /\ 1..m # {}
            OBVIOUS
        <3> QED BY <3>1, HighestOf
    <2>2. UpTo(s, m, s[p]) = 1..m
        BY <2>1 DEF UpTo
    <2>3. Cardinality(UpTo(s, m, s[p])) = m
        BY <2>2, FS_Interval
    <2> QED BY <1>1, <2>3
<1>4. PICK x \in Many : \A y \in Many : x <= y
    <2> HIDE DEF Many
    <2> QED BY <1>3, LeastNat
<1>5. Cardinality(Under(s, m, x)) < k
    <2> SUFFICES ASSUME ~(Cardinality(Under(s, m, x)) < k) PROVE FALSE
        OBVIOUS
    <2>1. Cardinality(Under(s, m, x)) \in Nat /\ k <= Cardinality(Under(s, m, x))
        BY <1>2, TracksCount
    <2>2. Under(s, m, x) # {}
        <3>1. Under(s, m, x) = {} => Cardinality(Under(s, m, x)) = 0
            BY FS_EmptySet
        <3> QED BY <2>1, <3>1
    <2>3. PICK p \in Under(s, m, x) : \A j \in Under(s, m, x) : s[j] <= s[p]
        BY <1>2, <2>2, HighestOf
    <2>4. p \in 1..m /\ s[p] < x /\ x \in Nat
        BY <1>3, <1>4, <2>3 DEF Under
    <2>5. Under(s, m, x) \subseteq UpTo(s, m, s[p])
        BY <2>3 DEF Under, UpTo
    <2>6. Cardinality(Under(s, m, x)) <= Cardinality(UpTo(s, m, s[p]))
        BY <1>2, <2>5, TracksCount, FS_Subset
    <2>7. k <= Cardinality(UpTo(s, m, s[p]))
        <3>1. Cardinality(UpTo(s, m, s[p])) \in Nat
            BY <1>2, TracksCount
        <3> QED BY <2>1, <2>6, <3>1
    <2>8. s[p] \in Many
        BY <2>4, <2>7
    <2>9. x <= s[p] /\ s[p] \in Nat
        BY <1>1, <1>4, <2>4, <2>8
    <2> QED BY <2>4, <2>9
<1>6. Eval!Nth(s, k) = CHOOSE y \in D : Fits(y)
    BY <1>1, EvalCount DEF Eval!Nth, Under, UpTo
<1>7. x \in D /\ Fits(x)
    BY <1>4, <1>5
<1>8. Eval!Nth(s, k) \in D /\ Fits(Eval!Nth(s, k))
    <2> HIDE DEF D, Fits
    <2> QED BY <1>6, <1>7
<1> QED BY <1>8

(* Ranks are in the order of the scores.                                   *)
LEMMA NthOrder ==
    ASSUME NEW m \in Nat, NEW s \in Scores(m), NEW k \in Nat, NEW l \in Nat, k <= l,
           NEW p \in 1..m, NEW q \in 1..m,
           Cardinality(Under(s, m, s[p])) < k, l <= Cardinality(UpTo(s, m, s[q]))
    PROVE  s[p] <= s[q]
<1>1. \A j \in 1..m : s[j] \in Nat
    BY SplitSizes, ScoresAreSeq
<1> SUFFICES ASSUME s[q] < s[p] PROVE FALSE
    BY <1>1
<1>2. UpTo(s, m, s[q]) \subseteq Under(s, m, s[p])
    BY <1>1 DEF UpTo, Under
<1>3. /\ Under(s, m, s[p]) \in SUBSET (1..m) /\ UpTo(s, m, s[q]) \in SUBSET (1..m)
      /\ IsFiniteSet(Under(s, m, s[p]))
      /\ Cardinality(Under(s, m, s[p])) \in Nat /\ Cardinality(UpTo(s, m, s[q])) \in Nat
    <2>1. Under(s, m, s[p]) \in SUBSET (1..m) /\ UpTo(s, m, s[q]) \in SUBSET (1..m)
        BY DEF Under, UpTo
    <2> QED BY <2>1, TracksCount
<1>4. Cardinality(UpTo(s, m, s[q])) <= Cardinality(Under(s, m, s[p]))
    BY <1>2, <1>3, FS_Subset
<1> QED BY <1>3, <1>4

(* The calibrated threshold lies between two neighbouring ranks: no more   *)
(* than the tail is above the lower, and the tail at least is not below    *)
(* the higher.                                                             *)
LEMMA QuantileIs ==
    ASSUME NEW s \in Scores(NrCal)
    PROVE  \E p \in 1..NrCal, q \in 1..NrCal :
               /\ Eval!Quantile(s) \in Nat
               /\ 20 * s[p] <= Eval!Quantile(s) /\ Eval!Quantile(s) <= 20 * s[q]
               /\ NrCal - Cardinality(UpTo(s, NrCal, s[p])) <= Eval!Twentieth
               /\ NrCal - Cardinality(Under(s, NrCal, s[q])) >= Eval!Twentieth
               /\ NrCal - Cardinality(Under(s, NrCal, s[q])) >= 1
<1>1. PICK m \in Nat \ {0} : m = NrCal /\ Len(s) = m
    <2>1. NrCal \in Nat \ {0}
        BY SplitSizes
    <2>2. Len(s) = NrCal
        BY <2>1, ScoresAreSeq
    <2> QED BY <2>1, <2>2
<1>2. s \in Scores(m) /\ \A j \in 1..m : s[j] \in Nat
    BY <1>1, SplitSizes, ScoresAreSeq
<1>3. PICK low \in Int, high \in Int, rest \in Int :
          /\ low = (19 * (m - 1)) \div 20 + 1
          /\ high = Least(low + 1, m)
          /\ rest = (19 * (m - 1)) % 20
    <2>1. \A k \in Nat : (19 * (k - 1)) \div 20 + 1 \in Int /\ (19 * (k - 1)) % 20 \in Int
        OBVIOUS
    <2>2. Least((19 * (m - 1)) \div 20 + 1 + 1, m) \in Int
        BY <2>1 DEF Least
    <2> QED BY <2>1, <2>2
<1>4. /\ low \in 1..m /\ rest \in 0..19
      /\ low = m \/ low + 1 <= m
      /\ m - low = (m + 18) \div 20
      /\ low = m => m = 1
    <2>1. \A k \in Nat \ {0} :
              /\ (19 * (k - 1)) \div 20 + 1 \in 1..k /\ (19 * (k - 1)) % 20 \in 0..19
              /\ k - ((19 * (k - 1)) \div 20 + 1) = (k + 18) \div 20
              /\ (19 * (k - 1)) \div 20 + 1 = k => k = 1
        OBVIOUS
    <2> QED BY <1>3, <2>1
<1>5. /\ high \in 1..m /\ low <= high
      /\ m - high + 1 >= m - low /\ m - high + 1 >= 1
    BY <1>3, <1>4 DEF Least
<1>6. PICK p \in 1..m : /\ Eval!Nth(s, low) = s[p]
                        /\ Cardinality(Under(s, m, s[p])) < low
                        /\ low <= Cardinality(UpTo(s, m, s[p]))
    BY <1>2, <1>4, NthIs
<1>7. PICK q \in 1..m : /\ Eval!Nth(s, high) = s[q]
                        /\ Cardinality(Under(s, m, s[q])) < high
                        /\ high <= Cardinality(UpTo(s, m, s[q]))
    BY <1>2, <1>5, NthIs
<1>8. s[p] <= s[q]
    BY <1>2, <1>4, <1>5, <1>6, <1>7, NthOrder
<1>9. Eval!Quantile(s) = 20 * s[p] + rest * (s[q] - s[p])
    <2>1. low + 1 \in Int /\ m \in Int
        BY <1>3
    <2>2. Eval!Min({low + 1, m}) = high
        BY <1>3, <2>1, LesserOfTwo
    <2>3. Eval!Quantile(s) = 20 * Eval!Nth(s, low) + rest * (Eval!Nth(s, high) - Eval!Nth(s, low))
        BY <1>1, <1>3, <2>2 DEF Eval!Quantile
    <2> QED BY <1>6, <1>7, <2>3
<1>10. PICK x \in Nat, y \in Nat : x = s[p] /\ y = s[q] /\ x <= y
    BY <1>2, <1>6, <1>7, <1>8
<1>11. PICK z \in Int : z = rest * (y - x) /\ 0 <= z /\ z <= 20 * (y - x)
    <2>1. \A a \in 0..19, b \in Nat : a * b \in Int /\ 0 <= a * b /\ a * b <= 20 * b
        OBVIOUS
    <2>2. y - x \in Nat
        BY <1>10
    <2> QED BY <1>4, <2>1, <2>2
<1>12. Eval!Quantile(s) = 20 * x + z
    BY <1>9, <1>10, <1>11
<1>13. Eval!Quantile(s) \in Nat /\ 20 * s[p] <= Eval!Quantile(s) /\ Eval!Quantile(s) <= 20 * s[q]
    BY <1>10, <1>11, <1>12
<1>14. Cardinality(UpTo(s, m, s[p])) \in Nat /\ Cardinality(Under(s, m, s[q])) \in Nat
    <2>1. UpTo(s, m, s[p]) \in SUBSET (1..m) /\ Under(s, m, s[q]) \in SUBSET (1..m)
        BY DEF UpTo, Under
    <2> QED BY <2>1, TracksCount
<1>15. /\ m - Cardinality(UpTo(s, m, s[p])) <= m - low
       /\ m - Cardinality(Under(s, m, s[q])) >= m - low
       /\ m - Cardinality(Under(s, m, s[q])) >= 1
    BY <1>3, <1>5, <1>6, <1>7, <1>14
<1>16. Eval!Twentieth = m - low
    BY <1>1, <1>4 DEF Eval!Twentieth
<1> QED BY <1>1, <1>13, <1>15, <1>16

(* Those above are the others of those up to, and those not below.         *)
LEMMA OthersCount ==
    ASSUME NEW m \in Nat, NEW T \in SUBSET (1..m)
    PROVE  Cardinality((1..m) \ T) = m - Cardinality(T) /\ IsFiniteSet((1..m) \ T)
<1>1. IsFiniteSet(1..m) /\ Cardinality(1..m) = IF 1 > m THEN 0 ELSE m - 1 + 1
    BY FS_Interval
<1>2. Cardinality(1..m) = m
    BY <1>1
<1>3. (1..m) \cap T = T
    OBVIOUS
<1>4. /\ IsFiniteSet((1..m) \ T)
      /\ Cardinality((1..m) \ T) = Cardinality(1..m) - Cardinality((1..m) \cap T)
    BY <1>1, FS_Difference, Zenon
<1> QED BY <1>2, <1>3, <1>4

-----------------------------------------------------------------------------
(* The metrics: places in a total order, and sums of places                *)
IsOrder(T, L) ==
    /\ \A a \in T : <<a, a>> \in L
    /\ \A a, b \in T : <<a, b>> \in L \/ <<b, a>> \in L
    /\ \A a, b \in T : <<a, b>> \in L /\ <<b, a>> \in L => a = b
    /\ \A a, b, c \in T : <<a, b>> \in L /\ <<b, c>> \in L => <<a, c>> \in L

NotAfter(T, L, k) == {j \in T : <<j, k>> \in L}
PlaceIn(T, L, k) == Cardinality(NotAfter(T, L, k))

(* Places are ordered as the tracks are, and no two share one. *)
LEMMA PlacesAreOrdered ==
    ASSUME NEW T, IsFiniteSet(T), NEW L, IsOrder(T, L)
    PROVE  /\ \A k \in T : PlaceIn(T, L, k) \in Nat
           /\ \A j, k \in T : <<j, k>> \in L <=> PlaceIn(T, L, j) <= PlaceIn(T, L, k)
           /\ \A j, k \in T : PlaceIn(T, L, j) = PlaceIn(T, L, k) => j = k
<1>1. \A k \in T : NotAfter(T, L, k) \in SUBSET T
    BY DEF NotAfter
<1>2. \A k \in T : IsFiniteSet(NotAfter(T, L, k)) /\ PlaceIn(T, L, k) \in Nat
    BY <1>1, FS_Subset, FS_CardinalityType DEF PlaceIn
<1>3. ASSUME NEW j \in T, NEW k \in T, <<j, k>> \in L
      PROVE  PlaceIn(T, L, j) <= PlaceIn(T, L, k)
    <2>1. NotAfter(T, L, j) \in SUBSET NotAfter(T, L, k)
        BY <1>3, Zenon DEF NotAfter, IsOrder
    <2> QED BY <1>2, <2>1, FS_Subset DEF PlaceIn
<1>4. ASSUME NEW j \in T, NEW k \in T, PlaceIn(T, L, j) = PlaceIn(T, L, k), <<j, k>> \in L
      PROVE  j = k
    <2>1. NotAfter(T, L, j) \in SUBSET NotAfter(T, L, k)
        BY <1>4, Zenon DEF NotAfter, IsOrder
    <2>2. NotAfter(T, L, j) = NotAfter(T, L, k)
        BY <1>2, <1>4, <2>1, FS_Subset DEF PlaceIn
    <2>3. <<k, j>> \in L
        BY <2>2, Zenon DEF NotAfter, IsOrder
    <2> QED BY <1>4, <2>3, Zenon DEF IsOrder
<1>5. ASSUME NEW j \in T, NEW k \in T, PlaceIn(T, L, j) = PlaceIn(T, L, k)
      PROVE  j = k
    <2>1. <<j, k>> \in L \/ <<k, j>> \in L
        BY DEF IsOrder
    <2> QED BY <1>4, <1>5, <2>1
<1>6. ASSUME NEW j \in T, NEW k \in T, PlaceIn(T, L, j) <= PlaceIn(T, L, k)
      PROVE  <<j, k>> \in L
    <2>1. CASE <<k, j>> \in L
        <3>1. PlaceIn(T, L, k) <= PlaceIn(T, L, j)
            BY <1>3, <2>1
        <3>2. j = k
            BY <1>2, <1>5, <1>6, <3>1
        <3> QED BY <2>1, <3>2
    <2>2. CASE <<j, k>> \in L
        BY <2>2
    <2> QED BY <2>1, <2>2 DEF IsOrder
<1> QED BY <1>2, <1>3, <1>5, <1>6

(* SumSet is defined by recursion on the set. *)
LEMMA SumSetUnfolds ==
    ASSUME NEW S, IsFiniteSet(S)
    PROVE  \E f : /\ f[{}] = 0
                  /\ \A s \in SUBSET S : s # {} => \E x \in s : f[s] = x + f[s \ {x}]
                  /\ f[S] = Eval!SumSet(S)
<1> DEFINE pick(s) == CHOOSE x \in s : TRUE
           Body(f, s) == IF s = {} THEN 0 ELSE pick(s) + f[s \ {pick(s)}]
           Small(m) == {s \in SUBSET S : Cardinality(s) <= m}
           Has(m) == \E f : f = [s \in Small(m) |-> Body(f, s)]
           T == {m \in Nat : ~Has(m)}
<1>1. \A s \in SUBSET S : s # {} => pick(s) \in s
    OBVIOUS
<1>2. \A s \in SUBSET S : IsFiniteSet(s) /\ Cardinality(s) \in Nat
    BY FS_Subset, FS_CardinalityType
<1>3. ASSUME NEW s \in SUBSET S, s # {}
      PROVE  s \ {pick(s)} \in SUBSET S /\ Cardinality(s \ {pick(s)}) = Cardinality(s) - 1
    <2>1. pick(s) \in s
        BY <1>1, <1>3
    <2> HIDE DEF pick
    <2> QED BY <1>2, <2>1, FS_RemoveElement
<1>4. \A m \in Nat : Has(m)
    <2> SUFFICES ASSUME T # {} PROVE FALSE
        OBVIOUS
    <2>1. PICK m \in T : \A k \in T : m <= k
        <3> HIDE DEF Has
        <3>1. T \subseteq Nat
            OBVIOUS
        <3> QED BY <3>1, LeastNat
    <2>2. CASE m = 0
        <3> DEFINE f0 == [s \in Small(0) |-> 0]
        <3>1. \A s \in Small(0) : s = {}
            BY <1>2, FS_EmptySet
        <3>2. f0 = [s \in Small(0) |-> Body(f0, s)]
            <4> HIDE DEF Small
            <4> QED BY <3>1
        <3>3. Has(0)
            <4> HIDE DEF f0, Body, Small
            <4> QED BY <3>2
        <3> QED BY <2>1, <2>2, <3>3
    <2>3. CASE m # 0
        <3>1. m \in Nat /\ m - 1 \in Nat /\ m - 1 \notin T
            <4> HIDE DEF Has
            <4> QED BY <2>1, <2>3
        <3>2. Has(m - 1)
            <4> HIDE DEF Has
            <4> QED BY <3>1
        <3>3. PICK f : f = [s \in Small(m - 1) |-> Body(f, s)]
            BY <3>2
        <3> DEFINE h == [s \in Small(m) |-> Body(f, s)]
        <3>4. ASSUME NEW s \in Small(m), s # {}
              PROVE  s \ {pick(s)} \in Small(m - 1) /\ s \ {pick(s)} \in Small(m)
            BY <1>2, <1>3, <3>1, <3>4
        <3>5. \A s \in Small(m - 1) : s \in Small(m) /\ h[s] = f[s]
            <4>1. \A s \in Small(m - 1) : s \in Small(m)
                BY <1>2, <3>1
            <4> HIDE DEF Small, Body
            <4> QED BY <3>3, <4>1
        <3>6. \A s \in Small(m) : Body(h, s) = Body(f, s)
            <4> HIDE DEF Small, h, pick
            <4> QED BY <3>4, <3>5
        <3>7. h = [s \in Small(m) |-> Body(h, s)]
            <4> HIDE DEF Small, Body
            <4> QED BY <3>6
        <3>8. Has(m)
            <4> HIDE DEF h, Small, Body
            <4> QED BY <3>7
        <3> QED BY <2>1, <3>8
    <2> QED BY <2>2, <2>3
<1>5. Small(Cardinality(S)) = SUBSET S
    BY <1>2, FS_Subset
<1>6. PICK f0 : f0 = [s \in SUBSET S |-> Body(f0, s)]
    <2>1. Has(Cardinality(S))
        <3> HIDE DEF Has
        <3> QED BY <1>2, <1>4
    <2> HIDE DEF Body, Small
    <2> QED BY <1>5, <2>1
<1> DEFINE f == CHOOSE f1 : f1 = [s \in SUBSET S |-> Body(f1, s)]
<1>7. f = [s \in SUBSET S |-> Body(f, s)]
    <2> HIDE DEF Body
    <2> QED BY <1>6
<1>8. Eval!SumSet(S) = f[S]
    BY DEF Eval!SumSet, Eval!FoldSet, Eval!MapThenFoldSet
<1>9. \A s \in SUBSET S : f[s] = Body(f, s)
    <2> HIDE DEF f, Body
    <2> QED BY <1>7
<1> HIDE DEF f
<1>10. f[{}] = 0 /\ \A s \in SUBSET S : s # {} => \E x \in s : f[s] = x + f[s \ {x}]
    BY <1>1, <1>9
<1> QED BY <1>8, <1>9, <1>10

LEMMA OneToOne ==
    ASSUME NEW A, IsFiniteSet(A), NEW B, NEW f \in [A -> B],
           \A y \in B : \E x \in A : f[x] = y, \A x, y \in A : f[x] = f[y] => x = y
    PROVE  IsFiniteSet(B) /\ Cardinality(B) = Cardinality(A)
<1>1. f \in Injection(A, B)
    <2>1. IsInjective(f)
        BY DEF IsInjective
    <2> QED BY <2>1, Zenon DEF Injection
<1>2. f \in Surjection(A, B)
    BY Zenon DEF Surjection
<1>3. ExistsBijection(A, B)
    BY <1>1, <1>2, Zenon DEF ExistsBijection, Bijection
<1> QED BY <1>3, FS_Bijection

(* Of a set of pairs, those that are swapped are as many. *)
LEMMA Swapped ==
    ASSUME NEW S, NEW T, IsFiniteSet(S), IsFiniteSet(T), NEW A \in SUBSET (S \X T), NEW B \in SUBSET (T \X S),
           \A x \in S, y \in T : <<x, y>> \in A <=> <<y, x>> \in B
    PROVE  Cardinality(A) = Cardinality(B)
<1>1. IsFiniteSet(A)
    BY FS_Product, FS_Subset
<1> DEFINE f == [p \in A |-> <<p[2], p[1]>>]
<1>2. Cardinality(B) = Cardinality(A)
    <2>1. ASSUME NEW p \in A PROVE f[p] \in B
        <3>1. PICK x \in S, y \in T : p = <<x, y>>
            OBVIOUS
        <3> QED BY <3>1
    <2>2. ASSUME NEW q \in B PROVE \E p \in A : f[p] = q
        <3>1. PICK y \in T, x \in S : q = <<y, x>>
            OBVIOUS
        <3>2. <<x, y>> \in A /\ f[<<x, y>>] = <<y, x>>
            BY <3>1
        <3> QED BY <3>1, <3>2
    <2>3. ASSUME NEW p \in A, NEW q \in A, f[p] = f[q] PROVE p = q
        <3>1. PICK x \in S, y \in T : p = <<x, y>>
            OBVIOUS
        <3>2. PICK z \in S, w \in T : q = <<z, w>>
            OBVIOUS
        <3>3. f[p] = <<y, x>> /\ f[q] = <<w, z>>
            BY <3>1, <3>2
        <3> QED BY <2>3, <3>1, <3>2, <3>3
    <2>4. f \in [A -> B]
        BY <2>1
    <2> HIDE DEF f
    <2> QED BY <1>1, <2>2, <2>3, <2>4, OneToOne
<1> QED BY <1>2

(* The pairs of a track of T and a track of P that is not before it *)
PairsTo(T, P, L) == {p \in T \X P : p \in L}

LEMMA PairsAreFinite ==
    ASSUME NEW T, NEW P, NEW L, IsFiniteSet(T), IsFiniteSet(P)
    PROVE  IsFiniteSet(PairsTo(T, P, L)) /\ Cardinality(PairsTo(T, P, L)) \in Nat
<1>1. PairsTo(T, P, L) \in SUBSET (T \X P)
    BY DEF PairsTo
<1> QED BY <1>1, FS_Product, FS_Subset, FS_CardinalityType

LEMMA DisjointCount ==
    ASSUME NEW A, NEW B, IsFiniteSet(A), IsFiniteSet(B), \A x \in A : x \notin B
    PROVE  IsFiniteSet(A \cup B) /\ Cardinality(A \cup B) = Cardinality(A) + Cardinality(B)
<1>1. A \cap B = {} /\ Cardinality({}) = 0
    BY FS_EmptySet
<1>2. Cardinality(A) \in Nat /\ Cardinality(B) \in Nat
    BY FS_CardinalityType
<1>3. IsFiniteSet(A \cup B) /\ Cardinality(A \cup B) = Cardinality(A) + Cardinality(B) - Cardinality(A \cap B)
    BY FS_Union
<1>4. PICK a \in Nat : a = Cardinality(A)
    BY <1>2
<1>5. PICK b \in Nat : b = Cardinality(B)
    BY <1>2
<1>6. a + b - 0 = a + b
    OBVIOUS
<1> QED BY <1>1, <1>3, <1>4, <1>5, <1>6, Zenon

(* One more element in P adds as many pairs as its place says. *)
LEMMA OneMorePlace ==
    ASSUME NEW T, IsFiniteSet(T), NEW L, NEW P \in SUBSET T, NEW q \in P
    PROVE  Cardinality(PairsTo(T, P, L)) = PlaceIn(T, L, q) + Cardinality(PairsTo(T, P \ {q}, L))
<1> DEFINE A == {p \in T \X P : p \in L /\ p[2] = q}
<1>1. IsFiniteSet(P) /\ IsFiniteSet(P \ {q})
    BY FS_Subset
<1>2. IsFiniteSet(A)
    <2>1. A \in SUBSET (T \X P)
        OBVIOUS
    <2> HIDE DEF A
    <2> QED BY <1>1, <2>1, FS_Product, FS_Subset
<1>3. Cardinality(A) = PlaceIn(T, L, q)
    <2> DEFINE f == [j \in NotAfter(T, L, q) |-> <<j, q>>]
    <2>1. \A j \in NotAfter(T, L, q) : j \in T /\ <<j, q>> \in L
        BY DEF NotAfter
    <2>2. \A j \in NotAfter(T, L, q) : f[j] \in A
        BY <2>1
    <2>3. ASSUME NEW p \in A PROVE \E j \in NotAfter(T, L, q) : f[j] = p
        <3>1. PICK j \in T, k \in P : p = <<j, k>>
            <4>1. p \in T \X P
                BY <2>3
            <4> HIDE DEF A, f
            <4> QED BY <4>1
        <3>2. k = q /\ <<j, k>> \in L
            BY <2>3, <3>1
        <3>3. j \in NotAfter(T, L, q)
            BY <3>2 DEF NotAfter
        <3> QED BY <3>1, <3>2, <3>3
    <2>4. \A j, k \in NotAfter(T, L, q) : f[j] = f[k] => j = k
        OBVIOUS
    <2>5. f \in [NotAfter(T, L, q) -> A]
        BY <2>2
    <2>7. NotAfter(T, L, q) \in SUBSET T
        BY DEF NotAfter
    <2>8. IsFiniteSet(NotAfter(T, L, q))
        BY <2>7, FS_Subset
    <2> HIDE DEF f, A
    <2>9. Cardinality(A) = Cardinality(NotAfter(T, L, q))
        BY <2>3, <2>4, <2>5, <2>8, OneToOne
    <2> QED BY <2>9 DEF PlaceIn
<1>4. PairsTo(T, P, L) = A \cup PairsTo(T, P \ {q}, L)
    BY DEF PairsTo
<1>5. \A p \in A : p \notin PairsTo(T, P \ {q}, L)
    BY DEF PairsTo
<1>6. IsFiniteSet(PairsTo(T, P \ {q}, L))
    BY <1>1, PairsAreFinite
<1> HIDE DEF A
<1> QED BY <1>2, <1>3, <1>4, <1>5, <1>6, DisjointCount

Places(T, L, P) == {PlaceIn(T, L, k) : k \in P}

(* A sum of places counts pairs. *)
LEMMA SumOfPlaces ==
    ASSUME NEW T, IsFiniteSet(T), NEW L, IsOrder(T, L), NEW P \in SUBSET T
    PROVE  Eval!SumSet(Places(T, L, P)) = Cardinality(PairsTo(T, P, L))
<1> DEFINE S == Places(T, L, P)
<1>1. IsFiniteSet(P) /\ \A Q \in SUBSET P : IsFiniteSet(Q) /\ Cardinality(Q) \in Nat
    BY FS_Subset, FS_CardinalityType
<1>2. IsFiniteSet(S)
    <2> DEFINE g == [k \in P |-> PlaceIn(T, L, k)]
    <2>1. g \in Surjection(P, S)
        BY DEF Surjection, Places
    <2> HIDE DEF g, S
    <2> QED BY <1>1, <2>1, FS_Surjection
<1> HIDE DEF S
<1>3. PICK f : /\ f[{}] = 0
               /\ \A s \in SUBSET S : s # {} => \E x \in s : f[s] = x + f[s \ {x}]
               /\ f[S] = Eval!SumSet(S)
    BY <1>2, SumSetUnfolds
<1> DEFINE Right(Q) == f[Places(T, L, Q)] = Cardinality(PairsTo(T, Q, L))
           Wrong == {m \in Nat : \E Q \in SUBSET P : Cardinality(Q) = m /\ ~Right(Q)}
<1>4. Wrong = {}
    <2> SUFFICES ASSUME Wrong # {} PROVE FALSE
        OBVIOUS
    <2>1. PICK m \in Wrong : \A k \in Wrong : m <= k
        <3> HIDE DEF Right
        <3>1. Wrong \subseteq Nat
            OBVIOUS
        <3> HIDE DEF Wrong
        <3> QED BY <3>1, LeastNat
    <2>2. PICK Q \in SUBSET P : Cardinality(Q) = m /\ ~Right(Q)
        BY <2>1
    <2>3. CASE Q = {}
        <3>1. Places(T, L, Q) = {} /\ PairsTo(T, Q, L) = {}
            BY <2>3 DEF Places, PairsTo
        <3>2. Cardinality({}) = 0
            BY FS_EmptySet
        <3> QED BY <1>3, <2>2, <3>1, <3>2
    <2>4. CASE Q # {}
        <3>1. Places(T, L, Q) \in SUBSET S /\ Places(T, L, Q) # {}
            BY <2>4 DEF Places, S
        <3>2. PICK x \in Places(T, L, Q) : f[Places(T, L, Q)] = x + f[Places(T, L, Q) \ {x}]
            BY <1>3, <3>1
        <3>3. PICK q \in Q : x = PlaceIn(T, L, q)
            BY <3>2 DEF Places
        <3>4. Places(T, L, Q) \ {x} = Places(T, L, Q \ {q})
            <4>1. \A k \in Q : PlaceIn(T, L, k) = x => k = q
                BY <3>3, PlacesAreOrdered
            <4> QED BY <3>3, <4>1 DEF Places
        <3>5. Q \ {q} \in SUBSET P /\ Cardinality(Q \ {q}) = m - 1 /\ m - 1 \in Nat
            <4>1. Cardinality(Q \ {q}) = m - 1
                BY <1>1, <2>2, <3>3, FS_RemoveElement
            <4>2. Cardinality(Q \ {q}) \in Nat
                BY <1>1
            <4> QED BY <4>1, <4>2
        <3>6. Right(Q \ {q})
            <4> HIDE DEF Right
            <4>1. m - 1 \notin Wrong
                <5>1. m \in Nat
                    BY <2>1
                <5> HIDE DEF Wrong
                <5>2. ~(m <= m - 1)
                    BY <5>1
                <5> QED BY <2>1, <5>2
            <4> QED BY <3>5, <4>1
        <3>7. Q \in SUBSET T /\ q \in Q
            BY <3>3
        <3>8. Cardinality(PairsTo(T, Q, L)) = PlaceIn(T, L, q) + Cardinality(PairsTo(T, Q \ {q}, L))
            BY <3>7, OneMorePlace
        <3> QED BY <2>2, <3>2, <3>3, <3>4, <3>6, <3>8
    <2> QED BY <2>3, <2>4
<1>5. Right(P)
    <2> HIDE DEF Right
    <2> QED BY <1>1, <1>4
<1> QED BY <1>3, <1>5 DEF S

(* Within a set of size c there are c(c+1)/2 pairs in order. *)
LEMMA PairsWithin ==
    ASSUME NEW T, IsFiniteSet(T), NEW L, IsOrder(T, L), NEW P \in SUBSET T
    PROVE  2 * Cardinality(PairsTo(P, P, L)) = Cardinality(P) * (Cardinality(P) + 1)
<1> DEFINE A == PairsTo(P, P, L)
           B == {p \in P \X P : <<p[2], p[1]>> \in L}
           D == {p \in P \X P : p[1] = p[2]}
<1>1. IsFiniteSet(P) /\ Cardinality(P) \in Nat
    BY FS_Subset, FS_CardinalityType
<1>2. IsFiniteSet(P \X P) /\ Cardinality(P \X P) = Cardinality(P) * Cardinality(P)
    BY <1>1, FS_Product
<1>3. A \in SUBSET (P \X P) /\ B \in SUBSET (P \X P) /\ D \in SUBSET (P \X P)
    BY DEF PairsTo
<1>4. IsFiniteSet(A) /\ IsFiniteSet(B) /\ Cardinality(A) \in Nat
    <2> HIDE DEF A, B, D
    <2> QED BY <1>2, <1>3, FS_Subset, FS_CardinalityType
<1>5. Cardinality(A) = Cardinality(B)
    <2>1. \A x \in P, y \in P : <<x, y>> \in A <=> <<y, x>> \in B
        BY DEF PairsTo
    <2> HIDE DEF A, B, D
    <2> QED BY <1>1, <1>3, <2>1, Swapped
<1>6. A \cup B = P \X P
    <2>1. \A x \in P, y \in P : <<x, y>> \in L \/ <<y, x>> \in L
        BY DEF IsOrder
    <2>2. ASSUME NEW p \in P \X P PROVE p \in A \cup B
        <3>1. PICK x \in P, y \in P : p = <<x, y>>
            OBVIOUS
        <3> QED BY <2>1, <3>1 DEF PairsTo
    <2> HIDE DEF A, B
    <2> QED BY <1>3, <2>2
<1>7. A \cap B = D
    <2>1. \A x \in P, y \in P : <<x, y>> \in L /\ <<y, x>> \in L <=> x = y
        BY DEF IsOrder
    <2>2. ASSUME NEW p \in P \X P PROVE p \in A \cap B <=> p \in D
        <3>1. PICK x \in P, y \in P : p = <<x, y>>
            OBVIOUS
        <3> QED BY <2>1, <3>1 DEF PairsTo
    <2> HIDE DEF A, B, D
    <2> QED BY <1>3, <2>2
<1>8. Cardinality(D) = Cardinality(P)
    <2> DEFINE f == [x \in P |-> <<x, x>>]
    <2>1. \A x \in P : <<x, x>> \in D
        OBVIOUS
    <2>2. ASSUME NEW p \in D PROVE \E x \in P : f[x] = p
        <3>1. PICK x \in P, y \in P : p = <<x, y>>
            OBVIOUS
        <3>2. x = y
            BY <3>1
        <3>3. f[x] = p
            BY <3>1, <3>2
        <3> QED BY <3>3
    <2>3. f \in [P -> D] /\ \A x, y \in P : f[x] = f[y] => x = y
        BY <2>1
    <2> HIDE DEF D, f
    <2> QED BY <1>1, <2>2, <2>3, OneToOne
<1> HIDE DEF A, B, D
<1>9. Cardinality(P \X P) = Cardinality(A) + Cardinality(B) - Cardinality(D)
    BY <1>4, <1>6, <1>7, FS_Union
<1>10. PICK c \in Nat : c = Cardinality(P)
    BY <1>1
<1>11. PICK a \in Nat : a = Cardinality(A)
    BY <1>4
<1>12. c * c = a + a - c /\ c * (c + 1) = c * c + c
    BY <1>2, <1>5, <1>8, <1>9, <1>10, <1>11
<1>13. 2 * a = c * (c + 1)
    BY <1>12
<1> QED BY <1>10, <1>11, <1>13 DEF A

(* The sum of the places of P less the least that it can be: the pairs of  *)
(* a track outside P and a later one of P.                                 *)
LEMMA PlacesAboveOthers ==
    ASSUME NEW T, IsFiniteSet(T), NEW L, IsOrder(T, L), NEW P \in SUBSET T
    PROVE  Eval!SumSet(Places(T, L, P)) - (Cardinality(P) * (Cardinality(P) + 1)) \div 2
             = Cardinality(PairsTo(T \ P, P, L))
<1>1. IsFiniteSet(P) /\ IsFiniteSet(T \ P)
    BY FS_Subset, FS_Difference
<1>2. PairsTo(T, P, L) = PairsTo(P, P, L) \cup PairsTo(T \ P, P, L)
    BY DEF PairsTo
<1>3. \A p \in PairsTo(P, P, L) : p \notin PairsTo(T \ P, P, L)
    BY DEF PairsTo
<1>4. PICK a \in Nat : a = Cardinality(PairsTo(P, P, L))
    BY <1>1, PairsAreFinite
<1>5. PICK b \in Nat : b = Cardinality(PairsTo(T \ P, P, L))
    BY <1>1, PairsAreFinite
<1>6. Cardinality(PairsTo(T, P, L)) = a + b
    BY <1>1, <1>2, <1>3, <1>4, <1>5, PairsAreFinite, DisjointCount
<1>7. Eval!SumSet(Places(T, L, P)) = a + b
    BY <1>6, SumOfPlaces
<1>8. Cardinality(P) * (Cardinality(P) + 1) = 2 * a
    BY <1>4, PairsWithin
<1>9. (2 * a) \div 2 = a
    OBVIOUS
<1> QED BY <1>5, <1>7, <1>8, <1>9

LEMMA MultipleHasNoRest ==
    ASSUME NEW b \in Nat \ {0}, NEW m \in Nat
    PROVE  m * b \in Nat /\ (m * b) % b = 0
<1>1. m * b \in Nat
    OBVIOUS
<1> DEFINE d == (m * b) \div b
           r == (m * b) % b
<1>2. d \in Nat /\ r \in 0..(b - 1) /\ m * b = b * d + r
    BY <1>1
<1> HIDE DEF d, r
<1>3. CASE d >= m
    <2>1. PICK e \in Nat : d = m + e
        BY <1>2, <1>3
    <2>2. b * d = m * b + b * e /\ b * e \in Nat
        BY <2>1
    <2> QED BY <1>1, <1>2, <2>2 DEF r
<1>4. CASE d < m
    <2>1. PICK e \in Nat : m = d + 1 + e
        BY <1>2, <1>4
    <2>2. m * b = b * d + b + b * e /\ b * e \in Nat /\ b * d \in Nat
        BY <1>2, <2>1
    <2> QED BY <1>2, <2>2
<1> QED BY <1>2, <1>3, <1>4

LEMMA StartIsPrefix ==
    ASSUME NEW m \in Nat, NEW t \in Scores(m), NEW l \in 0..m, NEW o, IsStartOf(o, t, l)
    PROVE  Eval!IsPrefix(o, t)
<1>1. Len(t) = m /\ \A k \in 1..l : t[k] \in 0..MaxScore
    BY ScoresAreSeq
<1>2. Len(o) = l /\ \A k \in 1..l : o[k] = t[k] /\ o[k] \in 0..MaxScore
    BY <1>1 DEF IsStartOf
<1>3. SubSeq(o, 1, l) \in Seq(0..MaxScore) /\ SubSeq(t, 1, l) \in Seq(0..MaxScore)
      /\ Len(SubSeq(o, 1, l)) = l /\ Len(SubSeq(t, 1, l)) = l
    BY <1>2, <1>1, SubSeqProperties
<1>4. ASSUME NEW k \in 1..l PROVE SubSeq(o, 1, l)[k] = SubSeq(t, 1, l)[k]
    <2>1. 1 + k - 1 = k /\ k \in 1..(l - 1 + 1)
        OBVIOUS
    <2>2. SubSeq(o, 1, l)[k] = o[1 + k - 1]
        BY <1>2, <2>1, SubSeqProperties
    <2>3. SubSeq(t, 1, l)[k] = t[1 + k - 1]
        BY <1>1, <2>1, SubSeqProperties
    <2> QED BY <1>2, <2>1, <2>2, <2>3
<1>5. SubSeq(o, 1, l) = SubSeq(t, 1, l)
    BY <1>3, <1>4, SeqEqual
<1> QED BY <1>2, <1>1, <1>5 DEF Eval!IsPrefix

(* The orders that argsort gives, of the scores and of the scores negated *)
Rising(m, s) == {p \in (1..m) \X (1..m) : s[p[1]] < s[p[2]] \/ (s[p[1]] = s[p[2]] /\ p[1] <= p[2])}
Falling(m, s) == {p \in (1..m) \X (1..m) : s[p[1]] > s[p[2]] \/ (s[p[1]] = s[p[2]] /\ p[1] <= p[2])}

LEMMA ScoresAreOrdered ==
    ASSUME NEW m \in Nat, NEW s \in Scores(m)
    PROVE  IsOrder(1..m, Rising(m, s)) /\ IsOrder(1..m, Falling(m, s))
<1>1. \A j \in 1..m : s[j] \in Int
    BY SplitSizes, ScoresAreSeq
<1>2. \A j, k \in 1..m : <<j, k>> \in Rising(m, s) <=> (s[j] < s[k] \/ (s[j] = s[k] /\ j <= k))
    BY DEF Rising
<1>3. \A j, k \in 1..m : <<j, k>> \in Falling(m, s) <=> (s[j] > s[k] \/ (s[j] = s[k] /\ j <= k))
    BY DEF Falling
<1>4. ASSUME NEW a \in 1..m, NEW b \in 1..m, NEW c \in 1..m
      PROVE  /\ <<a, a>> \in Rising(m, s) /\ (<<a, b>> \in Rising(m, s) \/ <<b, a>> \in Rising(m, s))
             /\ <<a, b>> \in Rising(m, s) /\ <<b, a>> \in Rising(m, s) => a = b
             /\ <<a, b>> \in Rising(m, s) /\ <<b, c>> \in Rising(m, s) => <<a, c>> \in Rising(m, s)
    BY <1>1, <1>2
<1>5. ASSUME NEW a \in 1..m, NEW b \in 1..m, NEW c \in 1..m
      PROVE  /\ <<a, a>> \in Falling(m, s) /\ (<<a, b>> \in Falling(m, s) \/ <<b, a>> \in Falling(m, s))
             /\ <<a, b>> \in Falling(m, s) /\ <<b, a>> \in Falling(m, s) => a = b
             /\ <<a, b>> \in Falling(m, s) /\ <<b, c>> \in Falling(m, s) => <<a, c>> \in Falling(m, s)
    BY <1>1, <1>3
<1> QED BY <1>4, <1>5, Zenon DEF IsOrder

LEMMA ClassesAre ==
    ASSUME EvalInv
    PROVE  /\ IsFiniteSet(1..NrTest) /\ Eval!Track = 1..NrTest
           /\ Eval!Pos \in SUBSET (1..NrTest) /\ Eval!Neg = (1..NrTest) \ Eval!Pos
           /\ IsFiniteSet(Eval!Pos) /\ IsFiniteSet(Eval!Neg)
<1>1. IsFiniteSet(1..NrTest)
    BY SplitSizes, FS_Interval
<1>2. Eval!Track = 1..NrTest /\ Eval!Pos \in SUBSET (1..NrTest) /\ Eval!Neg = (1..NrTest) \ Eval!Pos
    BY DEF Eval!Track, Eval!Pos, Eval!Neg
<1> QED BY <1>1, <1>2, FS_Subset, FS_Difference

LEMMA ScoresAtTheEnd ==
    ASSUME EvalInv, split = "done"
    PROVE  out.test = truth.test /\ truth.test \in Scores(NrTest)
<1>1. NrTest \in Nat
    BY SplitSizes
<1>2. truth.test \in Scores(NrTest) /\ IsStartOf(out.test, truth.test, NrTest)
    BY DEF EvalInv
<1> QED BY <1>1, <1>2, StartIsWhole

LEMMA PlacesAre ==
    ASSUME EvalInv, split = "done", NEW k \in 1..NrTest
    PROVE  /\ Eval!Rank(k) = PlaceIn(1..NrTest, Rising(NrTest, truth.test), k)
           /\ Eval!Place(k) = PlaceIn(1..NrTest, Falling(NrTest, truth.test), k)
<1>1. Eval!Track = 1..NrTest /\ out.test = truth.test
    BY ClassesAre, ScoresAtTheEnd
<1>2. {j \in Eval!Track : \/ out.test[j] < out.test[k]
                          \/ out.test[j] = out.test[k] /\ j <= k}
        = NotAfter(1..NrTest, Rising(NrTest, truth.test), k)
    <2>1. \A j \in 1..NrTest : <<j, k>> \in Rising(NrTest, truth.test) <=>
              truth.test[j] < truth.test[k] \/ (truth.test[j] = truth.test[k] /\ j <= k)
        BY DEF Rising
    <2> QED BY <1>1, <2>1 DEF NotAfter
<1>3. {j \in Eval!Track : \/ out.test[j] > out.test[k]
                          \/ out.test[j] = out.test[k] /\ j <= k}
        = NotAfter(1..NrTest, Falling(NrTest, truth.test), k)
    <2>1. \A j \in 1..NrTest : <<j, k>> \in Falling(NrTest, truth.test) <=>
              truth.test[j] > truth.test[k] \/ (truth.test[j] = truth.test[k] /\ j <= k)
        BY DEF Falling
    <2> QED BY <1>1, <2>1 DEF NotAfter
<1> QED BY <1>2, <1>3, EvalCount, Zenon DEF Eval!Rank, Eval!Place, PlaceIn

(* The rank formula counts a negative and a positive not before it. *)
LEMMA AurocIs ==
    ASSUME EvalInv, split = "done"
    PROVE  Eval!AurocPairs = Cardinality(PairsTo(Eval!Neg, Eval!Pos, Rising(NrTest, truth.test)))
<1> DEFINE T == 1..NrTest
           L == Rising(NrTest, truth.test)
           P == Eval!Pos
<1>1. IsFiniteSet(T) /\ P \in SUBSET T /\ Eval!Neg = T \ P
    BY ClassesAre
<1>2. IsOrder(T, L)
    BY SplitSizes, ScoresAtTheEnd, ScoresAreOrdered
<1>3. \A k \in P : Eval!Rank(k) = PlaceIn(T, L, k)
    BY <1>1, PlacesAre
<1>4. Eval!AurocPairs = Eval!SumSet({Eval!Rank(k) : k \in P})
                          - (Eval!Cardinality(P) * (Eval!Cardinality(P) + 1)) \div 2
    BY DEF Eval!AurocPairs
<1>5. {Eval!Rank(k) : k \in P} = Places(T, L, P)
    <2> HIDE DEF T, L, P
    <2> QED BY <1>3 DEF Places
<1> HIDE DEF T, L, P
<1>6. Eval!Cardinality(P) = Cardinality(P)
    BY EvalCount
<1>7. Eval!AurocPairs = Eval!SumSet(Places(T, L, P)) - (Cardinality(P) * (Cardinality(P) + 1)) \div 2
    BY <1>4, <1>5, <1>6, Zenon
<1>8. Eval!AurocPairs = Cardinality(PairsTo(T \ P, P, L))
    BY <1>1, <1>2, <1>7, PlacesAboveOthers, Zenon
<1> QED BY <1>1, <1>8 DEF L, P

(* If a negative and a positive never tie, these are the pairs that the *)
(* score orders rightly. *)
LEMMA RightPairs ==
    ASSUME EvalInv, split = "done",
           \A p \in Eval!Pos, q \in Eval!Neg : truth.test[p] # truth.test[q]
    PROVE  Eval!AurocPairs = Cardinality({pn \in Eval!Pos \X Eval!Neg : truth.test[pn[1]] > truth.test[pn[2]]})
<1> DEFINE L == Rising(NrTest, truth.test)
           A == PairsTo(Eval!Neg, Eval!Pos, L)
           B == {pn \in Eval!Pos \X Eval!Neg : truth.test[pn[1]] > truth.test[pn[2]]}
<1>1. Eval!Pos \in SUBSET (1..NrTest) /\ Eval!Neg \in SUBSET (1..NrTest)
      /\ IsFiniteSet(Eval!Pos) /\ IsFiniteSet(Eval!Neg)
    BY ClassesAre
<1>2. \A k \in 1..NrTest : truth.test[k] \in Int
    BY SplitSizes, ScoresAtTheEnd, ScoresAreSeq
<1>3. ASSUME NEW x \in Eval!Neg, NEW y \in Eval!Pos
      PROVE  <<x, y>> \in A <=> <<y, x>> \in B
    <2>1. x \in 1..NrTest /\ y \in 1..NrTest
        BY <1>1, <1>3
    <2>2. <<x, y>> \in A <=> <<x, y>> \in L
        BY <1>3 DEF PairsTo
    <2>3. <<y, x>> \in B <=> truth.test[y] > truth.test[x]
        BY <1>3
    <2>4. <<x, y>> \in L <=> (truth.test[x] < truth.test[y] \/ (truth.test[x] = truth.test[y] /\ x <= y))
        BY <2>1 DEF Rising
    <2>5. truth.test[y] # truth.test[x]
        BY <1>3
    <2>6. truth.test[x] \in Int /\ truth.test[y] \in Int
        BY <1>2, <2>1
    <2> HIDE DEF A, B, L
    <2> QED BY <2>2, <2>3, <2>4, <2>5, <2>6
<1>4. A \in SUBSET (Eval!Neg \X Eval!Pos) /\ B \in SUBSET (Eval!Pos \X Eval!Neg)
    BY DEF PairsTo
<1>5. Eval!AurocPairs = Cardinality(A)
    BY AurocIs
<1> HIDE DEF A, B
<1>6. Cardinality(A) = Cardinality(B)
    <2>1. \A x \in Eval!Neg, y \in Eval!Pos : <<x, y>> \in A <=> <<y, x>> \in B
        BY <1>3
    <2>2. PICK S : S = Eval!Neg
        OBVIOUS
    <2>3. PICK T : T = Eval!Pos
        OBVIOUS
    <2>4. /\ IsFiniteSet(S) /\ IsFiniteSet(T) /\ A \in SUBSET (S \X T) /\ B \in SUBSET (T \X S)
          /\ \A x \in S, y \in T : <<x, y>> \in A <=> <<y, x>> \in B
        BY <1>1, <1>4, <2>1, <2>2, <2>3
    <2> QED BY <2>4, Swapped
<1> QED BY <1>5, <1>6 DEF B

LEMMA EvalIsSound ==
    EvalInv => /\ Eval!TypeOK /\ Eval!BatchesKeepOrder /\ Eval!OnlyTheTailIsFlagged
               /\ Eval!AurocCountsPairs /\ Eval!PerfectIsPerfect
<1> SUFFICES ASSUME EvalInv
             PROVE  /\ Eval!TypeOK /\ Eval!BatchesKeepOrder /\ Eval!OnlyTheTailIsFlagged
                    /\ Eval!AurocCountsPairs /\ Eval!PerfectIsPerfect
    OBVIOUS
<1>0. NrTest \in Nat \ {0} /\ NrCal \in Nat \ {0} /\ Batch \in Nat \ {0} /\ MaxScore \in Nat \ {0}
    BY SplitSizes
<1>1. truth.cal \in Scores(NrCal) /\ truth.test \in Scores(NrTest)
    BY DEF EvalInv
<1>2. PICK a : IsStartOf(out.cal, truth.cal, a) /\ a \in 0..NrCal /\ (split # "cal" => a = NrCal)
    <2>1. PICK m \in Nat : evalAt = m * Batch
        BY DEF EvalInv
    <2>2. evalAt \in Nat
        BY <1>0, <2>1
    <2> QED BY <1>0, <2>2 DEF EvalInv, Least
<1>3. PICK b : IsStartOf(out.test, truth.test, b) /\ b \in 0..NrTest
    <2>1. PICK m \in Nat : evalAt = m * Batch
        BY DEF EvalInv
    <2>2. evalAt \in Nat
        BY <1>0, <2>1
    <2> QED BY <1>0, <2>2 DEF EvalInv, Least
<1>4. PICK p \in 1..NrCal, q \in 1..NrCal :
          /\ Eval!Quantile(truth.cal) \in Nat
          /\ 20 * truth.cal[p] <= Eval!Quantile(truth.cal)
          /\ Eval!Quantile(truth.cal) <= 20 * truth.cal[q]
          /\ NrCal - Cardinality(UpTo(truth.cal, NrCal, truth.cal[p])) <= Eval!Twentieth
          /\ NrCal - Cardinality(Under(truth.cal, NrCal, truth.cal[q])) >= Eval!Twentieth
          /\ NrCal - Cardinality(Under(truth.cal, NrCal, truth.cal[q])) >= 1
    BY <1>1, QuantileIs
<1>5. \A j \in 1..NrCal : truth.cal[j] \in 0..MaxScore
    BY <1>0, <1>1, ScoresAreSeq
<1>6. Eval!TypeOK
    <2>1. evalAt % Batch = 0
        <3>1. PICK m \in Nat : evalAt = m * Batch
            BY DEF EvalInv
        <3>2. m * Batch \in Nat /\ (m * Batch) % Batch = 0
            BY <1>0, MultipleHasNoRest
        <3> QED BY <3>1, <3>2
    <2>2. lam \in -1..(20 * MaxScore)
        <3>1. CASE split = "cal"
            BY <1>0, <3>1 DEF EvalInv
        <3>2. CASE split # "cal"
            <4>1. lam = Eval!Quantile(truth.cal)
                BY <3>2 DEF EvalInv
            <4>2. truth.cal[q] \in 0..MaxScore
                BY <1>5
            <4> QED BY <1>0, <1>4, <4>1, <4>2
        <3> QED BY <3>1, <3>2
    <2>3. \A k \in DOMAIN out.cal : out.cal[k] \in Eval!Score
        <3>1. DOMAIN out.cal = 1..a
            BY <1>2, LenProperties DEF IsStartOf
        <3>2. \A k \in 1..a : k \in 1..NrCal
            BY <1>0, <1>2
        <3>3. \A k \in 1..a : out.cal[k] = truth.cal[k]
            BY <1>2 DEF IsStartOf
        <3> QED BY <1>5, <3>1, <3>2, <3>3, Zenon DEF Eval!Score
    <2>4. \A k \in DOMAIN out.test : out.test[k] \in Eval!Score
        <3>1. DOMAIN out.test = 1..b
            BY <1>3, LenProperties DEF IsStartOf
        <3>2. \A j \in 1..NrTest : truth.test[j] \in 0..MaxScore
            BY <1>0, <1>1, ScoresAreSeq
        <3>3. \A k \in 1..b : k \in 1..NrTest
            BY <1>0, <1>3
        <3>4. \A k \in 1..b : out.test[k] = truth.test[k]
            BY <1>3 DEF IsStartOf
        <3> QED BY <3>1, <3>2, <3>3, <3>4, Zenon DEF Eval!Score
    <2> QED BY <2>1, <2>2, <2>3, <2>4 DEF Eval!TypeOK, Eval!Split
<1>7. Eval!BatchesKeepOrder
    <2>1. Eval!IsPrefix(out.cal, truth.cal)
        BY <1>0, <1>1, <1>2, StartIsPrefix
    <2>2. Eval!IsPrefix(out.test, truth.test)
        BY <1>0, <1>1, <1>3, StartIsPrefix
    <2> QED BY <2>1, <2>2 DEF Eval!BatchesKeepOrder, Eval!Split
<1>8. Eval!OnlyTheTailIsFlagged
    <2> SUFFICES ASSUME split # "cal"
                 PROVE  /\ Cardinality({k \in 1..NrCal : 20 * out.cal[k] > lam}) <= Eval!Twentieth
                        /\ Cardinality({k \in 1..NrCal : 20 * out.cal[k] >= lam}) >= Eval!Max({Eval!Twentieth, 1})
        BY EvalCount DEF Eval!OnlyTheTailIsFlagged
    <2>1. out.cal = truth.cal
        BY <1>0, <1>1, <1>2, StartIsWhole
    <2>2. lam = Eval!Quantile(truth.cal)
        BY DEF EvalInv
    <2> DEFINE above == {k \in 1..NrCal : 20 * out.cal[k] > lam}
               flagged == {k \in 1..NrCal : 20 * out.cal[k] >= lam}
               high == (1..NrCal) \ UpTo(truth.cal, NrCal, truth.cal[p])
               least == (1..NrCal) \ Under(truth.cal, NrCal, truth.cal[q])
    <2>3. above \subseteq high
        <3>1. ASSUME NEW k \in 1..NrCal, 20 * truth.cal[k] > lam PROVE ~(truth.cal[k] <= truth.cal[p])
            BY <1>4, <1>5, <2>2, <3>1
        <3> QED BY <2>1, <3>1 DEF UpTo
    <2>4. least \subseteq flagged
        <3>1. ASSUME NEW k \in 1..NrCal, ~(truth.cal[k] < truth.cal[q]) PROVE 20 * truth.cal[k] >= lam
            BY <1>4, <1>5, <2>2, <3>1
        <3> QED BY <2>1, <3>1 DEF Under
    <2>5. /\ IsFiniteSet(high) /\ Cardinality(high) <= Eval!Twentieth
          /\ Cardinality(least) >= Eval!Twentieth /\ Cardinality(least) >= 1
        <3>1. /\ UpTo(truth.cal, NrCal, truth.cal[p]) \in SUBSET (1..NrCal)
              /\ Under(truth.cal, NrCal, truth.cal[q]) \in SUBSET (1..NrCal)
            BY DEF UpTo, Under
        <3> QED BY <1>0, <1>4, <3>1, OthersCount
    <2>6. /\ above \in SUBSET (1..NrCal) /\ flagged \in SUBSET (1..NrCal)
          /\ high \in SUBSET (1..NrCal) /\ least \in SUBSET (1..NrCal)
        OBVIOUS
    <2> HIDE DEF above, flagged, high, least
    <2>7. Cardinality(above) <= Cardinality(high) /\ Cardinality(least) <= Cardinality(flagged)
        BY <1>0, <2>3, <2>4, <2>6, TracksCount, FS_Subset
    <2>8. /\ Cardinality(above) \in Nat /\ Cardinality(high) \in Nat
          /\ Cardinality(least) \in Nat /\ Cardinality(flagged) \in Nat
        BY <1>0, <2>6, TracksCount
    <2>9. Eval!Twentieth \in Int
        <3>1. \A k \in Nat : (k + 18) \div 20 \in Int
            OBVIOUS
        <3> QED BY <1>0, <3>1 DEF Eval!Twentieth
    <2>10. Eval!Max({Eval!Twentieth, 1}) \in {Eval!Twentieth, 1}
        <3>1. \A t \in Int : Eval!Max({t, 1}) \in {t, 1}
            <4> TAKE t \in Int
            <4>1. \E x \in {t, 1} : \A y \in {t, 1} : x >= y
                OBVIOUS
            <4> QED BY <4>1 DEF Eval!Max
        <3> QED BY <2>9, <3>1
    <2>11. Cardinality(above) <= Eval!Twentieth /\ Cardinality(flagged) >= Eval!Twentieth /\ Cardinality(flagged) >= 1
        BY <2>5, <2>7, <2>8, <2>9
    <2>12. Cardinality(flagged) >= Eval!Max({Eval!Twentieth, 1})
        BY <2>10, <2>11
    <2> QED BY <2>11, <2>12 DEF above, flagged
<1>9. Eval!AurocCountsPairs
    <2> SUFFICES ASSUME split = "done", \A x \in Eval!Pos, y \in Eval!Neg : out.test[x] # out.test[y]
                 PROVE  Eval!AurocPairs = Eval!Cardinality({pn \in Eval!Pos \X Eval!Neg : out.test[pn[1]] > out.test[pn[2]]})
        BY DEF Eval!AurocCountsPairs
    <2>1. out.test = truth.test /\ Eval!Track = 1..NrTest
        BY ScoresAtTheEnd, ClassesAre
    <2> QED BY <2>1, RightPairs, EvalCount
<1>10. Eval!PerfectIsPerfect
    <2> SUFFICES ASSUME split = "done", \A x \in Eval!Pos, y \in Eval!Neg : out.test[x] > out.test[y]
                 PROVE  /\ Eval!PerfectPrecision
                        /\ Eval!AurocPairs = Eval!Cardinality(Eval!Pos) * Eval!Cardinality(Eval!Neg)
        BY DEF Eval!PerfectIsPerfect
    <2>1. out.test = truth.test /\ Eval!Track = 1..NrTest
        BY ScoresAtTheEnd, ClassesAre
    <2>2. /\ Eval!Pos \in SUBSET (1..NrTest) /\ Eval!Neg = (1..NrTest) \ Eval!Pos
          /\ IsFiniteSet(Eval!Pos) /\ IsFiniteSet(Eval!Neg) /\ IsFiniteSet(1..NrTest)
        BY ClassesAre
    <2>3. \A k \in 1..NrTest : truth.test[k] \in Int
        BY <1>0, <1>1, ScoresAreSeq
    <2>4. Eval!AurocPairs = Eval!Cardinality(Eval!Pos) * Eval!Cardinality(Eval!Neg)
        <3>1. \A x \in Eval!Pos, y \in Eval!Neg : truth.test[x] # truth.test[y]
            BY <2>1, <2>2, <2>3
        <3> DEFINE B == {pn \in Eval!Pos \X Eval!Neg : truth.test[pn[1]] > truth.test[pn[2]]}
        <3>2. Eval!AurocPairs = Cardinality(B)
            BY <3>1, RightPairs
        <3>3. B = Eval!Pos \X Eval!Neg
            BY <2>1
        <3> HIDE DEF B
        <3> QED BY <2>2, <3>2, <3>3, FS_Product, EvalCount
    <2>5. ASSUME NEW k \in Eval!Pos
          PROVE  Eval!Cardinality({j \in Eval!Pos : Eval!Place(j) <= Eval!Place(k)}) = Eval!Place(k)
        <3> DEFINE T == 1..NrTest
                   L == Falling(NrTest, truth.test)
        <3>1. IsOrder(T, L) /\ k \in T /\ \A j \in Eval!Pos : j \in T
            BY <1>0, <1>1, <2>2, <2>5, ScoresAreOrdered
        <3>2. \A j \in T : Eval!Place(j) = PlaceIn(T, L, j)
            BY PlacesAre
        <3>3. ASSUME NEW j \in T, <<j, k>> \in L PROVE j \in Eval!Pos
            <4>1. truth.test[j] > truth.test[k] \/ (truth.test[j] = truth.test[k] /\ j <= k)
                BY <3>1, <3>3 DEF Falling
            <4>2. CASE j \in Eval!Neg
                <5>1. truth.test[k] > truth.test[j]
                    BY <2>1, <2>5, <4>2
                <5>2. truth.test[k] \in Int /\ truth.test[j] \in Int
                    BY <2>3, <3>1
                <5> QED BY <4>1, <5>1, <5>2
            <4> QED BY <2>2, <4>2
        <3> HIDE DEF T, L
        <3>4. \A j \in T : Eval!Place(j) <= Eval!Place(k) <=> <<j, k>> \in L
            <4>1. IsFiniteSet(T)
                BY <2>2 DEF T
            <4> QED BY <3>1, <3>2, <4>1, PlacesAreOrdered
        <3>5. {j \in Eval!Pos : Eval!Place(j) <= Eval!Place(k)} = NotAfter(T, L, k)
            BY <3>1, <3>3, <3>4 DEF NotAfter
        <3> QED BY <3>1, <3>2, <3>5, EvalCount DEF PlaceIn
    <2> QED BY <2>4, <2>5 DEF Eval!PerfectPrecision
<1> QED BY <1>6, <1>7, <1>8, <1>9, <1>10

(* Batches keep every score with its label, the calibrated threshold flags  *)
(* the tail, and the rank formula and the average precision mean what  *)
(* they say (eval.py).                                                      *)
THEOREM MetricsMeanWhatTheySay ==
    Eval!Spec => []( /\ Eval!TypeOK /\ Eval!BatchesKeepOrder /\ Eval!OnlyTheTailIsFlagged
                     /\ Eval!AurocCountsPairs /\ Eval!PerfectIsPerfect)
<1>1. [Eval!Next]_Eval!vars => [Eval!Next]_evalVars
    BY DEF Eval!vars, evalVars
<1> QED BY <1>1, EvalBegins, EvalStep, EvalIsSound, PTL DEF Eval!Spec

-----------------------------------------------------------------------------
(* The tracks, the denoising and the evaluation run apart from each other;  *)
(* together they keep what the run of MCDetection checks of the scores.     *)
THEOREM ScoresAreWorthComparing ==
    Track!Spec /\ Ddim!Spec /\ Eval!Spec => []ScoresAreSound
<1>1. (Track!TypeOK /\ Track!NormalStaysInside /\ Track!AnomaliesAreReal)
      /\ (Ddim!TypeOK /\ Ddim!NoiseIsTold /\ Ddim!NoiseIsRemoved)
      /\ (/\ Eval!TypeOK /\ Eval!BatchesKeepOrder /\ Eval!OnlyTheTailIsFlagged
          /\ Eval!AurocCountsPairs /\ Eval!PerfectIsPerfect)
      => ScoresAreSound
    BY DEF ScoresAreSound
<1> QED BY <1>1, TracksAreWhatTheyAreLabelled, NoiseIsToldAndRemoved, MetricsMeanWhatTheySay, PTL
=============================================================================
