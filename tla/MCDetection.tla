---------------------------- MODULE MCDetection ----------------------------
(***************************************************************************)
(* The gap detector and the jobs beside the service, on small instances:   *)
(* clusters of gaps (GapClusters), the Pi-DPM model behind their scores    *)
(* (PiDpmTrack, PiDpmEval, PiDpmTrain, DdimSchedule), the cache ablation   *)
(* (Ablation), the local CI gate (CiGate) and the migrations (Migrations). *)
(* They share no state, so nothing is learnt from interleaving them: part  *)
(* says which of them a behaviour is of, and the others rest in one        *)
(* initial state of theirs.                                                *)
(***************************************************************************)
EXTENDS GapClusters

CONSTANTS
    Lengths, SeqLen, VMax, AMax, VTurn, Speeds, Wobble, Jumps, Strides,   \* PiDpmTrack
    NrTest, NrCal, Batch, MaxScore,              \* PiDpmEval
    NumT, EvalLevel, DdimSteps, MaxSteps,        \* DdimSchedule
    Procs, Sizes, BatchSize, Epochs, MaxKills,   \* PiDpmTrain
    NrQueries,                                   \* Ablation
    NrTests, MaxEdits,                           \* CiGate
    Runners, NrMigrations, MaxRuns, MaxTimes     \* Migrations

VARIABLES
    part,
    kind, v, base, track, trackLabel, scored, stage,
    truth, label, split, evalAt, out, lam,
    n, trainerAt, epoch, left, ema, checkpoint, opened, loaded, kills,
    asked, start, steps, ts, stepsMade, noise, told,
    redis, cache, config, pass, rows,
    installed, tree, commit, edits, pushing, gateAt, probe, excluded, failed, clean, origin,
    recorded, times, runnerAt, applied, file, runs, disturbed

trackVars == <<kind, v, base, track, trackLabel, scored, stage>>
evalVars == <<truth, label, split, evalAt, out, lam>>
trainVars == <<n, trainerAt, epoch, left, ema, checkpoint, opened, loaded, kills>>
ddimVars == <<asked, start, steps, ts, stepsMade, noise, told>>
ablationVars == <<redis, cache, config, pass, rows>>
gateVars ==
    <<installed, tree, commit, edits, pushing, gateAt, probe, excluded, failed, clean, origin>>
migrationVars == <<recorded, times, runnerAt, applied, file, runs, disturbed>>
mcVars ==
    <<part, vars, trackVars, evalVars, trainVars, ddimVars, ablationVars, gateVars, migrationVars>>

-----------------------------------------------------------------------------
(* Tracks shorter than the model's length, as long, and longer, in half    *)
(* metres; noise of three deviations; a jump within the speed envelope and *)
(* one beyond it.                                                          *)
Track == INSTANCE PiDpmTrack WITH label <- trackLabel, seen <- scored

(* A full batch and a short one, a calibration in one full batch.          *)
Eval == INSTANCE PiDpmEval WITH i <- evalAt

(* Sizes are chosen for data that fills no batch, one and a half, and two. *)
Trainer == INSTANCE PiDpmTrain WITH at <- trainerAt, file <- checkpoint

(* The eval level and the steps of PiDPMConfig, in a shorter schedule.     *)
Ddim == INSTANCE DdimSchedule WITH i <- stepsMade

Harness == INSTANCE Ablation WITH N <- NrQueries

Gate == INSTANCE CiGate WITH at <- gateAt, NrFiles <- NrTests

Runner == INSTANCE Migrations WITH at <- runnerAt, NrFiles <- NrMigrations

ASSUME TracksAreKnown == Track!TrackAssumption
ASSUME SplitsAreKnown == Eval!EvalAssumption
ASSUME TrainingIsKnown == Trainer!TrainAssumption
ASSUME LevelsAreKnown == Ddim!DdimAssumption
ASSUME HarnessIsKnown == Harness!AblationAssumption
ASSUME GateIsKnown == Gate!CiGateAssumption
ASSUME RunnersAreKnown == Runner!MigrationsAssumption

-----------------------------------------------------------------------------
GapsRest ==
    /\ near = [c \in Gap |-> {c}] /\ ok = Gap /\ i = 1 /\ seen = {}
    /\ merged = <<>> /\ gaps = <<>> /\ pidpm = "None" /\ status = "merging"

TrackRests ==
    /\ kind = "normal" /\ v = (CHOOSE s \in Speeds : TRUE)
    /\ base = Track!Arc(CHOOSE t \in Lengths : TRUE, v) /\ track = base
    /\ trackLabel = 0 /\ scored = <<>> /\ stage = "generated"

EvalRests ==
    /\ truth = [cal |-> [k \in 1..NrCal |-> 0], test |-> [k \in 1..NrTest |-> 0]]
    /\ label = truth.test
    /\ split = "cal" /\ evalAt = 0 /\ out = [cal |-> <<>>, test |-> <<>>] /\ lam = -1

DdimRests ==
    /\ asked = [mode |-> "reconstruct", t |-> Ddim!None, steps |-> Ddim!None]
    /\ start = Ddim!None /\ steps = 0 /\ ts = <<>> /\ stepsMade = 0
    /\ noise = Ddim!None /\ told = <<>>

HarnessRests ==
    /\ redis = FALSE /\ cache = {} /\ config = "on" /\ pass = "cold"
    /\ rows = [c \in {"on", "off"} |-> [p \in {"cold", "warm"} |-> <<>>]]

GateRests ==
    /\ installed = TRUE /\ tree = [lint |-> TRUE, test |-> [f \in 1..NrTests |-> "good"]]
    /\ commit = tree /\ pushing = tree /\ edits = 0 /\ gateAt = "idle" /\ probe = 1
    /\ excluded = {} /\ failed = FALSE /\ clean = TRUE /\ origin = {}

MCInit ==
    /\ part \in {"gaps", "track", "eval", "trainer", "ddim", "harness", "gate", "runner"}
    /\ IF part = "gaps" THEN Init ELSE GapsRest
    /\ IF part = "track" THEN Track!Init ELSE TrackRests
    /\ IF part = "eval" THEN Eval!Init ELSE EvalRests
    /\ part # "trainer" => n = 3
    /\ Trainer!Init
    /\ IF part = "ddim" THEN Ddim!Init ELSE DdimRests
    /\ IF part = "harness" THEN Harness!Init ELSE HarnessRests
    /\ IF part = "gate" THEN Gate!Init ELSE GateRests
    /\ Runner!Init

MCNext ==
    /\ UNCHANGED part
    /\ IF part = "gaps" THEN Next ELSE UNCHANGED vars
    /\ IF part = "track" THEN Track!Next ELSE UNCHANGED trackVars
    /\ IF part = "eval" THEN Eval!Next ELSE UNCHANGED evalVars
    /\ IF part = "trainer" THEN Trainer!Next ELSE UNCHANGED trainVars
    /\ IF part = "ddim" THEN Ddim!Next ELSE UNCHANGED ddimVars
    /\ IF part = "harness" THEN Harness!Next ELSE UNCHANGED ablationVars
    /\ IF part = "gate" THEN Gate!Next ELSE UNCHANGED gateVars
    /\ IF part = "runner" THEN Runner!Next ELSE UNCHANGED migrationVars

(* What Trainer!Spec and Runner!Spec are fair to.                          *)
JobsRest == UNCHANGED <<part, vars, trackVars, evalVars, ddimVars, ablationVars, gateVars>>
TrainerGoesOn(k) ==
    part = "trainer" /\ k \in Procs /\ Trainer!Train(k) /\ UNCHANGED migrationVars /\ JobsRest
RunnerGoesOn(k) ==
    part = "runner" /\ k \in Runners /\ Runner!Run(k) /\ UNCHANGED trainVars /\ JobsRest

(* One conjunct for process k of either kind, of which one is at rest.     *)
MCSpec ==
    /\ MCInit /\ [][MCNext]_mcVars
    /\ \A k \in Procs \cup Runners : WF_mcVars(TrainerGoesOn(k) \/ RunnerGoesOn(k))

-----------------------------------------------------------------------------
(* A score of Pi-DPM is worth comparing: normal tracks leave the envelope  *)
(* by noise and where padding begins only, and injections that change a    *)
(* track leave it further (data.py, physics.py, scoring.py); the denoiser  *)
(* is told the noise that x has, and every step takes some away to the     *)
(* lowest level (diffusion.py); batches keep scores with their labels, the *)
(* calibrated threshold flags the tail, and the metrics count pairs        *)
(* (eval.py).                                                              *)
ScoresAreSound ==
    /\ Track!TypeOK /\ Track!NormalStaysInside /\ Track!AnomaliesAreReal
    /\ Ddim!TypeOK /\ Ddim!NoiseIsTold /\ Ddim!NoiseIsRemoved
    /\ Eval!TypeOK /\ Eval!BatchesKeepOrder /\ Eval!OnlyTheTailIsFlagged
    /\ Eval!AurocCountsPairs /\ Eval!PerfectIsPerfect

(* A checkpoint that loads from a file of one writer is the average of a   *)
(* whole training, whoever was killed, and a partial one that nobody is    *)
(* writing is the work of a kill (train.py, scoring.py).                   *)
CheckpointsAreTrained ==
    Trainer!TypeOK /\ Trainer!LoadedIsTrained /\ Trainer!PartialIsKilled

(* The scripts do what they are run for: the cache makes repeats free and  *)
(* its absence none (ablation.py); what passes the gate from the pushed    *)
(* tree fails CI only in files the gate left out, and nothing is blocked   *)
(* for a missing optional dependency (ci_local.sh); migrations take effect *)
(* in order, again only after a kill, an overlap or a row that could not   *)
(* be written (migrate.py).                                                *)
ScriptsAreSound ==
    /\ Harness!TypeOK /\ Harness!WarmRepeatIsFree /\ Harness!ControlPays
    /\ Gate!TypeOK /\ Gate!OnlyExcludedMayFail /\ Gate!NoFalseBlock
    /\ Runner!TypeOK /\ Runner!InOrder /\ Runner!OnceUnlessDisturbed

(* Training ends with a saved checkpoint or with an error (train.py), and  *)
(* no run of the migrations hangs (migrate.py).                            *)
JobsEnd == (part = "trainer" => Trainer!TrainingEnds) /\ Runner!RunsEnd
=============================================================================
