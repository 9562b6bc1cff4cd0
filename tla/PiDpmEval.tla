----------------------------- MODULE PiDpmEval -----------------------------
(* The evaluation of the Pi-DPM anomaly score, components/pidpm/eval.py:   *)
(* a threshold is calibrated on normal tracks, a labelled split is scored  *)
(* in batches, and AUROC, average precision and the precision and recall   *)
(* at the threshold are computed from the two arrays.                      *)
EXTENDS Integers, Sequences, FiniteSets, FiniteSetsExt, SequencesExt

CONSTANTS NrTest,    \* tracks of the labelled split
          NrCal,     \* tracks of the calibration split
          Batch,     \* batch size
          MaxScore   \* scores run from 0 to this

EvalAssumption == {NrTest, NrCal, Batch, MaxScore} \subseteq Nat \ {0}

VARIABLES truth,   \* per split, the score that each track deserves
          label,   \* of the labelled split: 1 for an anomaly
          split,   \* "cal", "test" or "done"
          i,       \* the start of the next batch
          out,     \* per split, the scores so far
          lam      \* 20 times the threshold (-1: not computed)

vars == <<truth, label, split, i, out, lam>>

Split == {"cal", "test"}
Score == 0..MaxScore

Init ==
    /\ truth \in {[cal |-> c, test |-> t] : c \in [1..NrCal -> Score], t \in [1..NrTest -> Score]}
    /\ label \in [1..NrTest -> 0..1]
    /\ split = "cal" /\ i = 0
    /\ out = [s \in Split |-> <<>>]
    /\ lam = -1

(* A slip: the slice takes one track too many.                             *)
BatchWithNext == SubSeq(truth[split], i + 1, Min({i + Batch + 1, Len(truth[split])}))

(* score(): a score for each row of the batch, in their order; the rows i  *)
(* to i + Batch - 1, fewer in the last batch.                              *)
BatchScores == SubSeq(truth[split], i + 1, Min({i + Batch, Len(truth[split])}))

ScoreBatch ==
    /\ split \in Split /\ i < Len(truth[split])
    /\ out' = [out EXCEPT ![split] = @ \o BatchScores]
    /\ i' = i + Batch
    /\ UNCHANGED <<truth, label, split, lam>>

(* The k-th smallest score                                                 *)
Nth(s, k) ==
    CHOOSE x \in {s[j] : j \in 1..Len(s)} :
        /\ Cardinality({j \in 1..Len(s) : s[j] < x}) < k
        /\ k <= Cardinality({j \in 1..Len(s) : s[j] <= x})

(* A slip: the quantile of the other tail                                  *)
QuantileOfLowTail(s) ==
    LET h == Len(s) - 1
        low == h \div 20 + 1
        high == Min({low + 1, Len(s)})
    IN  20 * Nth(s, low) + (h % 20) * (Nth(s, high) - Nth(s, low))

(* np.quantile(s, 0.95) times 20: linear between the two nearest ranks     *)
Quantile(s) ==
    LET h == 19 * (Len(s) - 1)
        low == h \div 20 + 1
        high == Min({low + 1, Len(s)})
    IN  20 * Nth(s, low) + (h % 20) * (Nth(s, high) - Nth(s, low))

Calibrate ==
    /\ split = "cal" /\ i >= NrCal
    /\ lam' = Quantile(out.cal)
    /\ split' = "test" /\ i' = 0
    /\ UNCHANGED <<truth, label, out>>

Measure ==
    /\ split = "test" /\ i >= NrTest
    /\ split' = "done"
    /\ UNCHANGED <<truth, label, i, out, lam>>

Next == ScoreBatch \/ Calibrate \/ Measure

Spec == Init /\ [][Next]_vars

(* The metrics, of the scores that were collected                          *)
Track == 1..NrTest
Pos == {k \in Track : label[k] = 1}
Neg == Track \ Pos

(* A slip: ranks are counted from 0.                                       *)
RankFromZero(k) ==
    Cardinality({j \in Track : \/ out.test[j] < out.test[k]
                               \/ out.test[j] = out.test[k] /\ j < k})

(* argsort is stable: equal scores have ranks in the order of the array.   *)
Rank(k) ==
    Cardinality({j \in Track : \/ out.test[j] < out.test[k]
                               \/ out.test[j] = out.test[k] /\ j <= k})

(* _auroc times the number of pairs; with one class missing it is NaN.     *)
AurocPairs ==
    LET n == Cardinality(Pos)
    IN  SumSet({Rank(k) : k \in Pos}) - (n * (n + 1)) \div 2

(* A slip: the scores are not negated before they are sorted.              *)
PlaceAscending(k) == Rank(k)

(* The place of a track in the order of descending scores                  *)
Place(k) ==
    Cardinality({j \in Track : \/ out.test[j] > out.test[k]
                               \/ out.test[j] = out.test[k] /\ j <= k})

(* _average_precision is 1: every positive sees only positives before it.  *)
PerfectPrecision ==
    \A k \in Pos : Cardinality({j \in Pos : Place(j) <= Place(k)}) = Place(k)

(* Every batch start is a multiple of the batch size, and the threshold is *)
(* a number between two scores.                                            *)
TypeOK ==
    /\ i % Batch = 0
    /\ lam \in -1..(20 * MaxScore)
    /\ \A s \in Split : \A k \in DOMAIN out[s] : out[s][k] \in Score

(* Scoring in batches, the last of them short, loses no track, repeats     *)
(* none and keeps the order in which the labels are read.                  *)
BatchesKeepOrder ==
    \A s \in Split : IsPrefix(out[s], truth[s])

(* The tail is one in twenty of the other calibration tracks, rounded up.  *)
Twentieth == (NrCal + 18) \div 20

(* The calibrated threshold flags the tail: no more tracks score above it,  *)
(* and as many, one at least, score as high.  What is flagged beyond the    *)
(* tail has the threshold for its score.                                   *)
OnlyTheTailIsFlagged ==
    split # "cal" =>
        /\ Cardinality({k \in 1..NrCal : 20 * out.cal[k] > lam}) <= Twentieth
        /\ Cardinality({k \in 1..NrCal : 20 * out.cal[k] >= lam}) >= Max({Twentieth, 1})

(* Unless a positive and a negative have the same score, the rank formula   *)
(* counts the pairs of the two that the score orders rightly: what AUROC   *)
(* means.                                                                  *)
AurocCountsPairs ==
    split = "done" /\ (\A p \in Pos, n \in Neg : out.test[p] # out.test[n]) =>
        AurocPairs = Cardinality({pn \in Pos \X Neg : out.test[pn[1]] > out.test[pn[2]]})

(* The two metrics agree on a perfect separation, however the classes lie  *)
(* in the array.                                                           *)
PerfectIsPerfect ==
    split = "done" /\ Pos # {} /\ Neg # {}
      /\ (\A p \in Pos, n \in Neg : out.test[p] > out.test[n]) =>
        PerfectPrecision /\ AurocPairs = Cardinality(Pos) * Cardinality(Neg)

=============================================================================
