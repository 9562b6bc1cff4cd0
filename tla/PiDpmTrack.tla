----------------------------- MODULE PiDpmTrack -----------------------------
(* From a synthetic track to its score in Pi-DPM: components/pidpm/data.py *)
(* makes a normal track and may inject an anomaly, scoring.py fits it to   *)
(* the model's length, physics.py takes its residual.  Tracks lie on a     *)
(* line that starts eastwards, in whole units of length, and the noise of  *)
(* a point is bounded (that of the code is normal, with a deviation of 15  *)
(* centimetres).  The jerk is a smoothness term without an envelope.       *)
EXTENDS Integers, Sequences

CONSTANTS Lengths,  \* how many points a track may have
          SeqLen,   \* points the model looks at
          VMax,     \* the speed envelope, units a step
          AMax,     \* the acceleration envelope
          VTurn,    \* the speed below which turning round leaves that of curvature
          Speeds,   \* of normal tracks
          Wobble,   \* how far the noise moves a point
          Jumps,    \* how far a teleport goes
          Strides   \* steps of the excess-speed anomaly

TrackAssumption ==
    /\ Lengths \cup {SeqLen, VMax, AMax, VTurn, Wobble} \cup Speeds \cup Jumps \cup Strides
           \subseteq Nat
    /\ \A t \in Lengths \cup {SeqLen} : t >= 4
    /\ \A v \in Speeds : /\ v + 2 * Wobble <= VMax
                        /\ v - 2 * Wobble > AMax
                        /\ v - 2 * Wobble > 4 * Wobble
    /\ \A d \in Strides : d > VMax
    /\ \A v \in Speeds, j \in Jumps : j > v + 2 * Wobble

VARIABLES kind,   \* the family of the anomaly ("normal" without one)
          v,      \* the speed of the normal track
          base,   \* that track
          track,  \* the track so far
          label,  \* the label of the data set
          seen,   \* what the model scores
          stage

vars == <<kind, v, base, track, label, seen, stage>>

Kinds == {"teleport", "excess_speed", "freeze"}

T == Len(track)

(* _normal_arc: one step of the same length after another, every point of  *)
(* it moved by some noise, from the origin                                 *)
Arc(t, speed) == [k \in 1..t |-> speed * (k - 1)]
Noisy(x, e) == [k \in 1..Len(x) |-> x[k] + e[k] - e[1]]

Init ==
    /\ kind = "normal" /\ v \in Speeds
    /\ \E t \in Lengths : \E e \in [1..t -> -Wobble..Wobble] : base = Noisy(Arc(t, v), e)
    /\ track = base
    /\ label = 0 /\ seen = <<>> /\ stage = "generated"

(* One sample, in the middle half, jumps to one side.                      *)
Teleports ==
    {[track EXCEPT ![j + 1] = @ + s * d] :
        j \in (T \div 4)..((3 * T) \div 4 - 1), s \in {-1, 1}, d \in Jumps}

(* A slip: the first step is taken from the first sample of the half.      *)
ExcessSpeedLate ==
    LET h == T \div 2
    IN  {[k \in 1..T |-> IF k <= h THEN track[k] ELSE track[h] + s * (k - h - 1) * d] :
            s \in {-1, 1}, d \in Strides}

(* From the middle on, every step has the same implausible length.         *)
ExcessSpeeds ==
    LET h == T \div 2
    IN  {[k \in 1..T |-> IF k <= h THEN track[k] ELSE track[h] + s * (k - h) * d] :
            s \in {-1, 1}, d \in Strides}

(* The samples from a up to b stay where a is; a and b are any two of      *)
(* 1 .. T - 1 (counted from 0), in order.                                  *)
Freezes ==
    {[k \in 1..T |-> IF k \in (ab[1] + 1)..ab[2] THEN track[ab[1] + 1] ELSE track[k]] :
        ab \in {x \in (1..(T - 1)) \X (1..(T - 1)) : x[1] < x[2]}}

Variants(k) ==
    CASE k = "teleport" -> Teleports
      [] k = "excess_speed" -> ExcessSpeeds
      [] k = "freeze" -> Freezes

Inject ==
    /\ stage = "generated" /\ label = 0
    /\ \E k \in Kinds : \E x \in Variants(k) :
          kind' = k /\ track' = x
    /\ label' = 1
    /\ UNCHANGED <<v, base, seen, stage>>

(* A slip: a short track is padded with the origin.                        *)
PadZero(x, k) == 0

(* A short track stays at its last sample.                                 *)
Pad(x, k) == x[Len(x)]

(* _fit_len crops to the first SeqLen samples, or pads to as many.         *)
FitLen(x) == [k \in 1..SeqLen |-> IF k <= Len(x) THEN x[k] ELSE Pad(x, k)]

Score ==
    /\ stage = "generated"
    /\ seen' = FitLen(track)
    /\ stage' = "scored"
    /\ UNCHANGED <<kind, v, base, track, label>>

Next == Inject \/ Score

Spec == Init /\ [][Next]_vars

(* kinematics(): finite differences; the speed has no direction.           *)
Speed(x) == [k \in 1..(Len(x) - 1) |-> IF x[k + 1] >= x[k] THEN x[k + 1] - x[k] ELSE x[k] - x[k + 1]]
Diff(s) == [k \in 1..(Len(s) - 1) |-> s[k + 1] - s[k]]

(* The heading turns round; that of a stop is atan2(0, 0) = 0, which is     *)
(* east as well.                                                           *)
Back(x, k) == x[k + 1] < x[k]
TurnsRound(x, k) == Back(x, k) <=> ~Back(x, k + 1)

(* The residual counts a speed, an acceleration or a curvature above its    *)
(* envelope, with am as that of acceleration; a track of less than four    *)
(* points has none.                                                        *)
Leaves(x, am) ==
    /\ Len(x) >= 4
    /\ \/ \E k \in 1..(Len(x) - 1) : Speed(x)[k] > VMax
       \/ \E k \in 1..(Len(x) - 2) : Diff(Speed(x))[k] \notin -am..am
       \/ \E k \in 1..(Len(x) - 2) : TurnsRound(x, k) /\ Speed(x)[k] + Speed(x)[k + 1] < 2 * VTurn

(* The model always gets as many points as it has, only an injected track  *)
(* is labelled, and a frozen one has resumed by its end.                   *)
TypeOK ==
    /\ T \in Lengths /\ Len(base) = T /\ Len(seen) \in {0, SeqLen}
    /\ label = 0 <=> kind = "normal"
    /\ kind = "freeze" => track[T] = base[T]

(* Where the model sees a normal track leave the envelope: its speed and   *)
(* its heading never do, and its acceleration only by the noise, except    *)
(* where padding begins.  There the track stops dead, always outside.      *)
NormalStaysInside ==
    stage = "scored" /\ kind = "normal" =>
        /\ \A k \in 1..(SeqLen - 1) : Speed(seen)[k] <= VMax
        /\ \A k \in 1..(SeqLen - 2) :
              /\ ~TurnsRound(seen, k)
              /\ IF k + 1 = T THEN Diff(Speed(seen))[k] < -AMax
                 ELSE Diff(Speed(seen))[k] \in -(4 * Wobble)..(4 * Wobble)

(* An injection that changes the track takes it out of the envelope, even  *)
(* where the speed of a teleported sample alone would not, and further     *)
(* than noise takes a normal one; and an excess speed outruns the envelope *)
(* at every step of its half.                                              *)
AnomaliesAreReal ==
    /\ label = 1 /\ track # base => Leaves(track, AMax) /\ Leaves(track, 4 * Wobble)
    /\ kind = "excess_speed" => \A k \in (T \div 2)..(T - 1) : Speed(track)[k] > VMax

=============================================================================
