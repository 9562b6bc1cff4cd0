---------------------------- MODULE DdimSchedule ----------------------------
(* The reverse process of Pi-DPM, components/pidpm/diffusion.py: a track   *)
(* is noised to a level and denoised back in a number of steps, at each of *)
(* which the denoiser is told the level it works at.  reconstruct() starts *)
(* from a track, generation from pure noise.                               *)
EXTENDS Integers, FiniteSets, FiniteSetsExt

CONSTANTS NumT,        \* noise levels 0 .. NumT - 1 of the schedule
          EvalLevel,   \* cfg.eval_noise_t
          DdimSteps,   \* cfg.ddim_steps
          MaxSteps     \* a bound on the steps a caller asks for

DdimAssumption ==
    /\ NumT \in Nat \ {0} /\ EvalLevel \in 1..(NumT - 1)
    /\ DdimSteps \in 1..MaxSteps /\ MaxSteps \in Nat

None == -1

VARIABLES asked,   \* the t_eval and the steps of the caller (None: left out)
          start,   \* t_start
          steps,   \* how many there are
          ts,      \* the levels
          i,       \* steps made
          noise,   \* the noise that x has: a level, or NumT when it is pure
          told     \* the levels that the denoiser was told

vars == <<asked, start, steps, ts, i, noise, told>>

(* x or y: nothing and zero are replaced by the default.                   *)
Or(x, default) == IF x \in {None, 0} THEN default ELSE x

(* torch.round of n / d: a half goes to the even side, or to either one    *)
(* when the float is not exact.                                            *)
Rounded(n, d) == {r \in {n \div d, n \div d + 1} : 2 * r * d \in (2 * n - d)..(2 * n + d)}

Init ==
    /\ asked \in [mode : {"reconstruct"}, t : {None} \cup 0..(NumT - 1), steps : {None}]
              \cup [mode : {"generate"}, t : {None}, steps : {None} \cup 0..MaxSteps]
    /\ start = None /\ steps = 0 /\ ts = <<>> /\ i = 0 /\ noise = None /\ told = <<>>

(* A slip: noise of one level below the one that the reverse starts from.  *)
QSampleBelow(t) == t - 1

QSample(t) == t

(* num_t - 1, where generation starts                                      *)
Highest == NumT - 1

Noise ==
    /\ start = None
    /\ IF asked.mode = "reconstruct"
       THEN start' = Or(asked.t, EvalLevel) /\ noise' = QSample(start')
       ELSE start' = Highest /\ noise' = NumT
    /\ steps' = Or(asked.steps, DdimSteps)
    /\ UNCHANGED <<asked, ts, i, told>>

(* A slip: linspace() is given as many points as there are steps.          *)
PointLess(k) == Rounded(start * (steps + 1 - k), steps + 1)

(* linspace(start, 0, steps + 1), k from 0                                 *)
Point(k) == Rounded(start * (steps - k), steps)

Schedule ==
    /\ start # None /\ ts = <<>>
    /\ \E up \in SUBSET {k \in 0..steps : Cardinality(Point(k)) = 2} :
          ts' = [k \in 0..steps |-> IF k \in up THEN Max(Point(k)) ELSE Min(Point(k))]
    /\ UNCHANGED <<asked, start, steps, i, noise, told>>

Denoise ==
    /\ ts # <<>> /\ i < steps
    /\ told' = [k \in 0..i |-> IF k = i THEN ts[i] ELSE told[k]]
    /\ noise' = ts[i + 1]
    /\ i' = i + 1
    /\ UNCHANGED <<asked, start, steps, ts>>

Next == Noise \/ Schedule \/ Denoise

Spec == Init /\ [][Next]_vars

(* Every level that is looked up is one of the schedule.                   *)
TypeOK ==
    /\ i \in 0..steps
    /\ start # None => start \in 0..(NumT - 1)
    /\ noise \in None..NumT
    /\ \A k \in 0..(i - 1) : told[k] \in 0..(NumT - 1)

(* The denoiser is told the noise that x has; pure noise is announced as   *)
(* the highest level.                                                      *)
NoiseIsTold ==
    ts # <<>> /\ i < steps => noise = ts[i] \/ (noise = NumT /\ i = 0 /\ ts[i] = NumT - 1)

(* The noise never grows, every step takes some away as long as there are  *)
(* no more steps than levels, and the last one ends at the lowest level.   *)
NoiseIsRemoved ==
    /\ ts # <<>> => \A k \in 1..steps : ts[k] <= ts[k - 1]
    /\ ts # <<>> /\ steps <= start => \A k \in 1..steps : ts[k] < ts[k - 1]
    /\ ts # <<>> /\ i = steps => noise = 0

=============================================================================
