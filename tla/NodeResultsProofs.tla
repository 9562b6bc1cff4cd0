-------------------------- MODULE NodeResultsProofs --------------------------
(***************************************************************************)
(* What holds of an executable plan and of the regions found in it, for    *)
(* the in-process orchestrator and for the durable port alike.             *)
(***************************************************************************)
EXTENDS NodeResults, HitlQueue, FiniteSetTheorems, WellFoundedInduction, TLAPS

(* A set of natural numbers that is not empty has a least element.         *)
LEMMA LeastNat ==
    ASSUME NEW T, T \subseteq Nat, T # {}
    PROVE  \E x \in T : \A y \in T : x <= y
<1> DEFINE R == {ss \in Nat \X Nat : ss[1] < ss[2]}
<1>1. R = OpToRel(<, Nat)
    BY Zenon DEF OpToRel
<1>2. PICK x \in T : \A y \in T : ~ (<<y, x>> \in R)
    <2> HIDE DEF R
    <2> QED BY <1>1, NatLessThanWellFounded, WFMin
<1>3. \A y \in T : ~ (y < x)
    BY <1>2
<1> QED BY <1>3

(* As long as nodes are left, a layer is: a waiting node of least rank has *)
(* no dependency that is still waiting.                                    *)
LEMMA AllPlaced ==
    ASSUME NEW p, IsPlan(p),
           NEW F \in SUBSET p.ids, NextLayer(p, F) = {}
    PROVE  F = p.ids
<1> SUFFICES ASSUME p.ids \ F # {} PROVE FALSE
    OBVIOUS
<1>1. PICK rank \in [p.ids -> 0..Cardinality(p.ids)] :
         \A n \in p.ids : \A d \in DepSet(p, n) : rank[d] < rank[n]
    BY DEF IsPlan, Orderable
<1> DEFINE T == {rank[n] : n \in p.ids \ F}
<1>2. T \subseteq Nat /\ T # {}
    BY <1>1
<1>3. PICK t \in T : \A u \in T : t <= u
    <2> HIDE DEF T
    <2> QED BY <1>2, LeastNat
<1>4. PICK n \in p.ids \ F : \A m \in p.ids \ F : rank[n] <= rank[m]
    BY <1>3
<1>5. ASSUME NEW d \in DepSet(p, n) PROVE d \in F
    <2>1. d \in p.ids /\ rank[d] < rank[n]
        BY <1>1 DEF IsPlan
    <2>2. rank[d] \in Int /\ rank[n] \in Int
        BY <1>1, <2>1
    <2> QED BY <1>4, <2>1, <2>2
<1> QED BY <1>4, <1>5 DEF NextLayer

(* The first dependency of a node is one of its dependencies. *)
LEMMA HeadIsDep ==
    ASSUME NEW p, IsPlan(p), NEW n \in p.ids, p.deps[n] # <<>>
    PROVE  Head(p.deps[n]) \in DepSet(p, n)
<1>1. p.deps[n] \in Seq(Node)
    BY DEF IsPlan
<1>2. 1 \in DOMAIN p.deps[n] /\ Head(p.deps[n]) = p.deps[n][1]
    BY <1>1
<1> QED BY <1>2 DEF DepSet

(* A region is found by the node that looks for it, between prisms it was  *)
(* given.                                                                  *)
LEMMA FoundWhere ==
    ASSUME NEW p, NEW q, NEW n, NEW prisms, NEW g \in RegionsFound(p, q, n, prisms)
    PROVE  g.by = n /\ g.of \subseteq prisms
BY DEF RegionsFound

(* Regions are well typed: DC-TGARD's bonus never takes a confidence past  *)
(* certainty.                                                              *)
LEMMA FoundType ==
    ASSUME NEW p, IsPlan(p), NEW q, IsRequest(q), NEW n \in p.ids,
           NEW prisms \in SUBSET Node
    PROVE  RegionsFound(p, q, n, prisms) \in SUBSET Region
<1>1. RegionConfidence(p.kind[n], q) \in Percent
    BY DEF RegionConfidence, IsRequest, Percent
<1>2. n \in Node
    BY DEF IsPlan
<1> QED BY <1>1, <1>2 DEF RegionsFound, Region

(* Only finitely many regions are found between finitely many prisms. *)
LEMMA FoundFinite ==
    ASSUME NEW p, NEW q, NEW n, NEW prisms, IsFiniteSet(prisms)
    PROVE  IsFiniteSet(RegionsFound(p, q, n, prisms))
<1> DEFINE pairs == q.meets \cap SUBSET prisms
           region(pair) == [by |-> n, of |-> pair, conf |-> RegionConfidence(p.kind[n], q)]
           found == {region(pair) : pair \in pairs}
           f == [pair \in pairs |-> region(pair)]
<1>1. IsFiniteSet(pairs)
    <2>1. pairs \in SUBSET (SUBSET prisms)
        OBVIOUS
    <2>2. IsFiniteSet(SUBSET prisms)
        BY FS_SUBSET
    <2> HIDE DEF pairs
    <2> QED BY <2>1, <2>2, FS_Subset
<1>2. f \in Surjection(pairs, found)
    <2> HIDE DEF pairs, region
    <2> QED BY DEF Surjection
<1>3. IsFiniteSet(found)
    <2> HIDE DEF pairs, found, f
    <2> QED BY <1>1, <1>2, FS_Surjection
<1> QED BY <1>3 DEF RegionsFound

-----------------------------------------------------------------------------
(***************************************************************************)
(* Sums over a finite set.  SumFunctionOnSet is defined by recursion on    *)
(* the set; induction is by the least cardinality that fails.              *)
(***************************************************************************)

(* The recursion has a solution, and SumFunctionOnSet is its value. *)
LEMMA SumUnfolds ==
    ASSUME NEW S, IsFiniteSet(S), NEW g
    PROVE  \E f : /\ DOMAIN f = SUBSET S
                  /\ f[{}] = 0
                  /\ \A s \in SUBSET S : s # {} =>
                        \E x \in s : f[s] = g[x] + f[s \ {x}]
                  /\ f[S] = SumFunctionOnSet(g, S)
<1> DEFINE pick(s) == CHOOSE x \in s : TRUE
           Body(f, s) == IF s = {} THEN 0 ELSE g[pick(s)] + f[s \ {pick(s)}]
           Small(n) == {s \in SUBSET S : Cardinality(s) <= n}
           Has(n) == \E f : f = [s \in Small(n) |-> Body(f, s)]
           T == {n \in Nat : ~Has(n)}
<1>1. \A s \in SUBSET S : s # {} => pick(s) \in s
    OBVIOUS
<1>2. \A s \in SUBSET S : IsFiniteSet(s) /\ Cardinality(s) \in Nat
    BY FS_Subset, FS_CardinalityType
<1>3. ASSUME NEW s \in SUBSET S, s # {}
      PROVE  s \ {pick(s)} \in SUBSET S /\ Cardinality(s \ {pick(s)}) = Cardinality(s) - 1
    <2>1. pick(s) \in s
        BY <1>1, <1>3
    <2> HIDE DEF pick
    <2> QED BY <1>2, <2>1, FS_RemoveElement
<1>4. \A n \in Nat : Has(n)
    <2> SUFFICES ASSUME T # {} PROVE FALSE
        OBVIOUS
    <2>1. PICK n \in T : \A m \in T : n <= m
        <3> HIDE DEF Has
        <3>1. T \subseteq Nat
            OBVIOUS
        <3> QED BY <3>1, LeastNat
    <2>2. CASE n = 0
        <3> DEFINE f0 == [s \in Small(0) |-> 0]
        <3>1. \A s \in Small(0) : s = {}
            BY <1>2, FS_EmptySet
        <3>2. f0 = [s \in Small(0) |-> Body(f0, s)]
            <4> HIDE DEF Small
            <4> QED BY <3>1
        <3>3. Has(0)
            <4> HIDE DEF f0, Body, Small
            <4> QED BY <3>2
        <3> QED BY <2>1, <2>2, <3>3
    <2>3. CASE n # 0
        <3>1. n \in Nat /\ n - 1 \in Nat /\ n - 1 \notin T
            <4> HIDE DEF Has
            <4> QED BY <2>1, <2>3
        <3>2. Has(n - 1)
            <4> HIDE DEF Has
            <4> QED BY <3>1
        <3>3. PICK f : f = [s \in Small(n - 1) |-> Body(f, s)]
            BY <3>2
        <3> DEFINE h == [s \in Small(n) |-> Body(f, s)]
        <3>4. ASSUME NEW s \in Small(n), s # {}
              PROVE  s \ {pick(s)} \in Small(n - 1) /\ s \ {pick(s)} \in Small(n)
            BY <1>2, <1>3, <3>1, <3>4
        <3>5. \A s \in Small(n - 1) : s \in Small(n) /\ h[s] = f[s]
            <4>1. \A s \in Small(n - 1) : s \in Small(n)
                BY <1>2, <3>1
            <4> HIDE DEF Small, Body
            <4> QED BY <3>3, <4>1
        <3>6. \A s \in Small(n) : Body(h, s) = Body(f, s)
            <4> HIDE DEF Small, h, pick
            <4> QED BY <3>4, <3>5
        <3>7. h = [s \in Small(n) |-> Body(h, s)]
            <4> HIDE DEF Small, Body
            <4> QED BY <3>6
        <3>8. Has(n)
            <4> HIDE DEF h, Small, Body
            <4> QED BY <3>7
        <3> QED BY <2>1, <3>8
    <2> QED BY <2>2, <2>3
<1>5. Small(Cardinality(S)) = SUBSET S
    BY <1>2, FS_Subset
<1>6. PICK f0 : f0 = [s \in SUBSET S |-> Body(f0, s)]
    <2>1. Has(Cardinality(S))
        <3> HIDE DEF Has
        <3> QED BY <1>2, <1>4
    <2> HIDE DEF Body, Small
    <2> QED BY <1>5, <2>1
<1> DEFINE f == CHOOSE f1 : f1 = [s \in SUBSET S |-> Body(f1, s)]
<1>7. f = [s \in SUBSET S |-> Body(f, s)]
    <2> HIDE DEF Body
    <2> QED BY <1>6
<1>8. SumFunctionOnSet(g, S) = f[S]
    BY DEF SumFunctionOnSet, FoldFunctionOnSet, MapThenFoldSet
<1>9. DOMAIN f = SUBSET S /\ \A s \in SUBSET S : f[s] = Body(f, s)
    <2> HIDE DEF f, Body
    <2> QED BY <1>7
<1> HIDE DEF f
<1>10. f[{}] = 0 /\ \A s \in SUBSET S : s # {} => \E x \in s : f[s] = g[x] + f[s \ {x}]
    BY <1>1, <1>9
<1> QED BY <1>8, <1>9, <1>10

(* A sum of integers is one, and a sum of naturals is no less than 0. *)
LEMMA SumFacts ==
    ASSUME NEW S, IsFiniteSet(S), NEW g, \A x \in S : g[x] \in Int
    PROVE  /\ SumFunctionOnSet(g, S) \in Int
           /\ (\A x \in S : g[x] >= 0) => SumFunctionOnSet(g, S) >= 0
<1> PICK f : /\ DOMAIN f = SUBSET S
             /\ f[{}] = 0
             /\ \A s \in SUBSET S : s # {} => \E x \in s : f[s] = g[x] + f[s \ {x}]
             /\ f[S] = SumFunctionOnSet(g, S)
    BY SumUnfolds
<1> DEFINE Sound(s) == f[s] \in Int /\ ((\A x \in S : g[x] >= 0) => f[s] >= 0)
           T == {n \in Nat : \E s \in SUBSET S : Cardinality(s) = n /\ ~Sound(s)}
<1>1. \A s \in SUBSET S : IsFiniteSet(s) /\ Cardinality(s) \in Nat
    BY FS_Subset, FS_CardinalityType
<1>2. SUFFICES ASSUME NEW s0 \in SUBSET S, ~Sound(s0) PROVE FALSE
    OBVIOUS
<1>3. Cardinality(s0) \in T
    <2> HIDE DEF Sound
    <2> QED BY <1>1, <1>2
<1>4. PICK n \in T : \A m \in T : n <= m
    <2>1. T \subseteq Nat /\ T # {}
        BY <1>3
    <2> HIDE DEF T
    <2> QED BY <2>1, LeastNat
<1>5. PICK s \in SUBSET S : Cardinality(s) = n /\ ~Sound(s)
    OBVIOUS
<1>6. s # {}
    <2>1. Sound({})
        OBVIOUS
    <2> HIDE DEF Sound
    <2> QED BY <1>5, <2>1
<1>7. PICK x \in s : f[s] = g[x] + f[s \ {x}]
    BY <1>6
<1>8. s \ {x} \in SUBSET S /\ Cardinality(s \ {x}) = n - 1 /\ n - 1 \in Nat
    <2>1. s \ {x} \in SUBSET S
        OBVIOUS
    <2>2. Cardinality(s \ {x}) \in Nat /\ IsFiniteSet(s)
        BY <1>1, <2>1
    <2>3. Cardinality(s \ {x}) = n - 1
        BY <1>5, <2>2, FS_RemoveElement
    <2> QED BY <2>1, <2>2, <2>3
<1>9. Sound(s \ {x})
    <2>1. n - 1 \notin T
        <3> HIDE DEF T
        <3>1. n \in Nat
            BY <1>1, <1>5
        <3> QED BY <1>4, <3>1
    <2> HIDE DEF Sound
    <2> QED BY <1>8, <2>1
<1> QED BY <1>5, <1>7, <1>9

-----------------------------------------------------------------------------
(***************************************************************************)
(* The confidence of a run.                                                *)
(***************************************************************************)

(* The regions Confidence averages are finitely many. *)
LEMMA ListedFinite ==
    ASSUME NEW ids, IsFiniteSet(ids), NEW regionsOf,
           \A n \in ids : IsFiniteSet(regionsOf[n])
    PROVE  IsFiniteSet(UNION {{n} \X regionsOf[n] : n \in ids})
<1> DEFINE part(n) == {n} \X regionsOf[n]
           parts == {part(n) : n \in ids}
           f == [n \in ids |-> part(n)]
<1>1. IsFiniteSet(parts)
    <2>1. f \in Surjection(ids, parts)
        <3> HIDE DEF part
        <3> QED BY DEF Surjection
    <2> HIDE DEF parts, f
    <2> QED BY <2>1, FS_Surjection
<1>2. ASSUME NEW x \in parts PROVE IsFiniteSet(x)
    <2>1. PICK n \in ids : x = {n} \X regionsOf[n]
        OBVIOUS
    <2>2. IsFiniteSet({n}) /\ IsFiniteSet(regionsOf[n])
        BY FS_Singleton
    <2> QED BY <2>1, <2>2, FS_Product
<1> HIDE DEF parts
<1>3. IsFiniteSet(UNION parts)
    BY <1>1, <1>2, FS_UNION
<1> QED BY <1>3 DEF parts

(* The whole part of a quotient, between its neighbours. *)
LEMMA Quotient ==
    ASSUME NEW m \in Int, NEW k \in Nat \ {0}
    PROVE  /\ m \div k \in Int /\ (m >= 0 => m \div k >= 0)
           /\ k * (m \div k) <= m /\ m < k * (m \div k) + k
           /\ m % k = 0 => m = k * (m \div k)
OBVIOUS

(* A product grows with its factor. *)
LEMMA Product ==
    ASSUME NEW k \in Nat \ {0}, NEW x \in Int, NEW y \in Int, x <= y
    PROVE  k * x \in Int /\ k * y \in Int /\ k * x <= k * y
<1>1. y - x \in Nat /\ k * (y - x) \in Nat
    OBVIOUS
<1>2. k * (y - x) = k * y - k * x
    OBVIOUS
<1> QED BY <1>1, <1>2

(* The mean of a run is a fraction, and positive if the priors are         *)
(* probabilities.                                                          *)
LEMMA MeanType ==
    ASSUME NEW p, IsPlan(p), NEW regionsOf \in [p.ids -> SUBSET Region],
           \A n \in p.ids : IsFiniteSet(regionsOf[n])
    PROVE  /\ Mean(p, regionsOf).num \in Int
           /\ Mean(p, regionsOf).den \in Nat \ {0}
           /\ (\A k \in DOMAIN p.priors : p.priors[k] >= 0) => Mean(p, regionsOf).num >= 0
<1> DEFINE listed == UNION {{n} \X regionsOf[n] : n \in p.ids}
           conf == [x \in listed |-> x[2].conf]
           rs == SumFunction(conf)
           ps == SumFunction(p.priors)
           nr == Cardinality(listed)
           np == Len(p.priors)
           probable == \A k \in DOMAIN p.priors : p.priors[k] >= 0
<1>1. /\ IsFiniteSet(p.ids)
      /\ np \in Nat /\ DOMAIN p.priors = 1..np
      /\ \A k \in 1..np : p.priors[k] \in Int
    BY DEF IsPlan
<1>2. IsFiniteSet(listed)
    BY <1>1, ListedFinite
<1>3. nr \in Nat
    BY <1>2, FS_CardinalityType
<1>4. rs \in Int /\ rs >= 0
    <2>1. \A x \in listed : conf[x] \in Int /\ conf[x] >= 0
        BY DEF Region, Percent
    <2>2. DOMAIN conf = listed
        OBVIOUS
    <2> HIDE DEF conf, listed
    <2> QED BY <1>2, <2>1, <2>2, SumFacts DEF SumFunction
<1>5. ps \in Int /\ (probable => ps >= 0)
    <2>1. IsFiniteSet(1..np)
        BY <1>1, FS_Interval
    <2> HIDE DEF np
    <2> QED BY <1>1, <2>1, SumFacts DEF SumFunction
<1>6. Mean(p, regionsOf) =
         CASE np = 0 -> [num |-> 0, den |-> 1]
           [] np # 0 /\ nr = 0 -> [num |-> ps, den |-> np]
           [] np # 0 /\ nr # 0 -> [num |-> rs * np + ps * nr, den |-> 2 * nr * np]
    BY DEF Mean
<1> HIDE DEF rs, ps, nr, np, probable
<1>7. CASE np = 0
    BY <1>6, <1>7
<1>8. CASE np # 0 /\ nr = 0
    BY <1>1, <1>5, <1>6, <1>8 DEF probable
<1>9. CASE np # 0 /\ nr # 0
    <2>1. /\ rs * np \in Int /\ rs * np >= 0
          /\ ps * nr \in Int /\ (ps >= 0 => ps * nr >= 0)
          /\ 2 * nr * np \in Nat \ {0}
        BY <1>1, <1>3, <1>4, <1>5, <1>9
    <2>2. /\ Mean(p, regionsOf).num = rs * np + ps * nr
          /\ Mean(p, regionsOf).den = 2 * nr * np
        BY <1>6, <1>9
    <2> QED BY <1>5, <2>1, <2>2 DEF probable
<1> QED BY <1>7, <1>8, <1>9

(* _aggregate_confidence yields a number, whatever priors the LLM wrote,   *)
(* and a percentage if they are probabilities: then no constructor refuses *)
(* it.                                                                     *)
LEMMA ConfidenceType ==
    ASSUME NEW p, IsPlan(p), NEW regionsOf \in [p.ids -> SUBSET Region],
           \A n \in p.ids : IsFiniteSet(regionsOf[n]),
           NEW c \in Confidences(p, regionsOf)
    PROVE  /\ c \in Int
           /\ (\A k \in DOMAIN p.priors : p.priors[k] >= 0) => WellFormed(c)
<1>1. PICK m, d : m = Mean(p, regionsOf).num /\ d = Mean(p, regionsOf).den
    OBVIOUS
<1>2. /\ m \in Int /\ d \in Nat \ {0}
      /\ (\A k \in DOMAIN p.priors : p.priors[k] >= 0) => m >= 0
    BY <1>1, MeanType
<1>3. PICK whole : whole = m \div d
    OBVIOUS
<1>4. \/ c = Capped(whole)
      \/ Lossy(p, Mean(p, regionsOf)) /\ c = Capped(whole - 1)
    BY <1>1, <1>3 DEF Confidences
<1>5. /\ whole \in Int /\ (m >= 0 => whole >= 0)
      /\ m % d = 0 => m = d * whole
    BY <1>2, <1>3, Quotient
<1>6. c \in Int
    BY <1>4, <1>5 DEF Capped
<1>7. ASSUME \A k \in DOMAIN p.priors : p.priors[k] >= 0 PROVE WellFormed(c)
    <2>1. m >= 0 /\ whole >= 0
        BY <1>2, <1>5, <1>7
    <2>2. CASE c = Capped(whole)
        BY <1>5, <2>1, <2>2 DEF Capped, WellFormed, Percent
    <2>3. CASE Lossy(p, Mean(p, regionsOf)) /\ c = Capped(whole - 1)
        <3>1. m % d = 0 /\ (m # 0 \/ \E k \in DOMAIN p.priors : p.priors[k] < 0)
            BY <1>1, <2>3 DEF Lossy
        <3>2. m # 0
            <4>1. \A k \in DOMAIN p.priors : p.priors[k] \in Int
                BY DEF IsPlan
            <4> QED BY <1>7, <3>1, <4>1
        <3>3. whole # 0
            BY <1>2, <1>5, <3>1, <3>2
        <3> QED BY <1>5, <2>1, <2>3, <3>3 DEF Capped, WellFormed, Percent
    <2> QED BY <1>4, <2>2, <2>3
<1> QED BY <1>6, <1>7

(* A confidence falls under a whole threshold only if the exact mean is    *)
(* not above it, and reaches it only if the mean does.                     *)
LEMMA ConfidenceSides ==
    ASSUME NEW p, IsPlan(p), NEW regionsOf \in [p.ids -> SUBSET Region],
           \A n \in p.ids : IsFiniteSet(regionsOf[n]),
           NEW c \in Confidences(p, regionsOf), NEW limit \in Nat
    PROVE  /\ c < limit =>
                 Mean(p, regionsOf).num <= limit * Mean(p, regionsOf).den \/ limit > 99
           /\ c >= limit =>
                 Mean(p, regionsOf).num >= limit * Mean(p, regionsOf).den /\ limit <= 99
<1>1. PICK m, d : m = Mean(p, regionsOf).num /\ d = Mean(p, regionsOf).den
    OBVIOUS
<1>2. m \in Int /\ d \in Nat \ {0}
    BY <1>1, MeanType
<1>3. PICK whole : whole = m \div d
    OBVIOUS
<1>4. \/ c = Capped(whole)
      \/ m % d = 0 /\ c = Capped(whole - 1)
    BY <1>1, <1>3 DEF Confidences, Lossy
<1>5. /\ whole \in Int
      /\ d * whole <= m /\ m < d * whole + d
      /\ m % d = 0 => m = d * whole
    BY <1>2, <1>3, Quotient
<1>6. limit * d = d * limit
    BY <1>2
<1>7. ASSUME c < limit, limit <= 99 PROVE m <= limit * d
    <2>1. CASE c = Capped(whole)
        <3>1. whole + 1 <= limit
            BY <1>5, <1>7, <2>1 DEF Capped
        <3>2. d * (whole + 1) <= d * limit /\ d * (whole + 1) \in Int /\ d * limit \in Int
            BY <1>2, <1>5, <3>1, Product
        <3>3. d * (whole + 1) = d * whole + d
            BY <1>2, <1>5
        <3> QED BY <1>2, <1>5, <1>6, <3>2, <3>3
    <2>2. CASE m % d = 0 /\ c = Capped(whole - 1)
        <3>1. whole <= limit
            BY <1>5, <1>7, <2>2 DEF Capped
        <3>2. d * whole <= d * limit
            BY <1>2, <1>5, <3>1, Product
        <3> QED BY <1>5, <1>6, <2>2, <3>2
    <2> QED BY <1>4, <2>1, <2>2
<1>8. ASSUME c >= limit PROVE m >= limit * d /\ limit <= 99
    <2>1. limit <= whole /\ limit <= 99
        BY <1>4, <1>5, <1>8 DEF Capped
    <2>2. d * limit <= d * whole /\ d * limit \in Int /\ d * whole \in Int
        BY <1>2, <1>5, <2>1, Product
    <2> QED BY <1>2, <1>5, <1>6, <2>1, <2>2
<1> QED BY <1>1, <1>7, <1>8

-----------------------------------------------------------------------------
(***************************************************************************)
(* A review queue.                                                         *)
(***************************************************************************)

(* A trace id is remembered exactly if it has a row, and has one row. *)
KeepsRows(q, traces) ==
    /\ q.mem \in Seq(traces)
    /\ q.seen \subseteq traces
    /\ \A k \in DOMAIN q.mem : q.mem[k] \in q.seen
    /\ \A t \in q.seen : \E k \in DOMAIN q.mem : Rows(q, t) = {k}

LEMMA EmptyKeepsRows ==
    ASSUME NEW traces
    PROVE  KeepsRows(EmptyQueue, traces)
BY DEF KeepsRows, EmptyQueue

(* Enqueued is idempotent, and keeps one row for each trace. *)
LEMMA EnqueuedKeepsRows ==
    ASSUME NEW traces, NEW q, KeepsRows(q, traces), NEW t \in traces
    PROVE  /\ KeepsRows(Enqueued(q, t), traces)
           /\ Enqueued(q, t).seen = q.seen \cup {t}
<1>1. CASE t \in q.seen
    <2>1. Enqueued(q, t) = q
        BY <1>1 DEF Enqueued
    <2> QED BY <1>1, <2>1
<1>2. CASE t \notin q.seen
    <2> DEFINE m == Len(q.mem)
               r == Enqueued(q, t)
    <2>1. r.mem = Append(q.mem, t) /\ r.seen = q.seen \cup {t}
        BY <1>2 DEF Enqueued
    <2>2. /\ r.mem \in Seq(traces)
          /\ DOMAIN q.mem = 1..m
          /\ DOMAIN r.mem = 1..(m + 1)
          /\ m \in Nat
          /\ \A k \in 1..m : r.mem[k] = q.mem[k]
          /\ r.mem[m + 1] = t
        <3>1. q.mem \in Seq(traces)
            BY DEF KeepsRows
        <3> HIDE DEF r
        <3> QED BY <2>1, <3>1
    <2> HIDE DEF m, r
    <2>3. ASSUME NEW s \in q.seen
          PROVE  \E k \in DOMAIN r.mem : Rows(r, s) = {k}
        <3>1. PICK k \in DOMAIN q.mem : Rows(q, s) = {k}
            BY DEF KeepsRows
        <3>2. Rows(r, s) = {k}
            BY <1>2, <2>2, <3>1 DEF Rows
        <3> QED BY <2>2, <3>1, <3>2
    <2>4. Rows(r, t) = {m + 1}
        BY <1>2, <2>2 DEF Rows, KeepsRows
    <2>5. \A k \in DOMAIN r.mem : r.mem[k] \in r.seen
        BY <2>1, <2>2 DEF KeepsRows
    <2>6. \A s \in r.seen : \E k \in DOMAIN r.mem : Rows(r, s) = {k}
        <3> TAKE s \in r.seen
        <3>1. CASE s \in q.seen
            BY <2>3, <3>1
        <3>2. CASE s = t
            <4>1. m + 1 \in DOMAIN r.mem
                BY <2>2
            <4> QED BY <2>4, <3>2, <4>1
        <3> QED BY <2>1, <3>1, <3>2
    <2>7. KeepsRows(r, traces)
        BY <2>1, <2>2, <2>5, <2>6 DEF KeepsRows
    <2> QED BY <2>1, <2>7 DEF r
<1> QED BY <1>1, <1>2

(* So no trace has two rows. *)
LEMMA AtMostOneRow ==
    ASSUME NEW traces, NEW q, KeepsRows(q, traces), NEW t
    PROVE  /\ t \in q.seen => Cardinality(Rows(q, t)) = 1
           /\ t \notin q.seen => Cardinality(Rows(q, t)) = 0
<1>1. CASE t \in q.seen
    <2>1. PICK k \in DOMAIN q.mem : Rows(q, t) = {k}
        BY <1>1 DEF KeepsRows
    <2> QED BY <1>1, <2>1, FS_Singleton
<1>2. CASE t \notin q.seen
    <2>1. Rows(q, t) = {}
        BY <1>2 DEF KeepsRows, Rows
    <2> QED BY <1>2, <2>1, FS_EmptySet
<1> QED BY <1>1, <1>2
=============================================================================
