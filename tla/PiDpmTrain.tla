----------------------------- MODULE PiDpmTrain -----------------------------
(* Training Pi-DPM, components/pidpm/train.py, by one process or by the    *)
(* several that `accelerate launch` starts, each of which runs train() and *)
(* saves to the same file; and a scorer that loads the checkpoint while    *)
(* they run (PiDPM.from_checkpoint).  Processes are killed and restarted.  *)
EXTENDS Naturals, FiniteSets

CONSTANTS Procs,      \* the training processes
          Sizes,      \* how many tracks the data set may have
          BatchSize,
          Epochs,
          MaxKills    \* kills in all

TrainAssumption ==
    /\ Sizes \cup {BatchSize, Epochs} \subseteq Nat \ {0}
    /\ MaxKills \in Nat /\ IsFiniteSet(Procs)

VARIABLES n,       \* tracks of the data set
          at,      \* where a process stands
          epoch,   \* its epoch
          left,    \* the tracks it has not drawn in this epoch
          ema,     \* the batches its average has seen (Full + 1: more)
          file,    \* what of the checkpoint is on the disk
          opened,  \* the processes that have the file open
          loaded,  \* what the scorer has loaded
          kills

vars == <<n, at, epoch, left, ema, file, opened, loaded, kills>>

Track == 1..n

(* The batches of a full training                                          *)
Full == Epochs * (n \div BatchSize)

None == [is |-> "none"]

Init ==
    /\ n \in Sizes
    /\ at = [p \in Procs |-> "training"] /\ epoch = [p \in Procs |-> 1]
    /\ left = [p \in Procs |-> Track] /\ ema = [p \in Procs |-> 0]
    /\ file = None /\ opened = {} /\ loaded = None /\ kills = 0

(* A slip: the short batch at the end of an epoch is not dropped.          *)
BatchOrRest(p) == IF Cardinality(left[p]) < BatchSize THEN Cardinality(left[p]) ELSE BatchSize

(* drop_last: a batch is full.                                             *)
BatchLen(p) == BatchSize

(* Shuffled tracks, BatchSize at a time; the loss, the step, the average   *)
TrainBatch(p) ==
    /\ at[p] = "training" /\ left[p] # {} /\ Cardinality(left[p]) >= BatchLen(p)
    /\ \E b \in {x \in SUBSET left[p] : Cardinality(x) = BatchLen(p)} :
          left' = [left EXCEPT ![p] = @ \ b]
    /\ ema' = [ema EXCEPT ![p] = IF @ > Full THEN @ ELSE @ + 1]
    /\ UNCHANGED <<n, at, epoch, file, opened, loaded, kills>>

(* A slip: the epoch starts over.                                          *)
EpochAgain(p) == epoch[p]

EpochAfter(p) == IF epoch[p] = Epochs THEN epoch[p] ELSE epoch[p] + 1

(* The loop over the loader ends; the mean over no batch at all raises.    *)
EndEpoch(p) ==
    /\ at[p] = "training" /\ ~(left[p] # {} /\ Cardinality(left[p]) >= BatchLen(p))
    /\ left' = [left EXCEPT ![p] = Track]
    /\ IF n \div BatchSize = 0
       THEN at' = [at EXCEPT ![p] = "raised"] /\ epoch' = epoch
       ELSE /\ at' = [at EXCEPT ![p] = IF epoch[p] = Epochs THEN "trained" ELSE @]
            /\ epoch' = [epoch EXCEPT ![p] = EpochAfter(p)]
    /\ UNCHANGED <<n, ema, file, opened, loaded, kills>>

(* torch.save opens the file, which empties it, and writes it.  What two   *)
(* write at once is a mixture of both.                                     *)
OpenFile(p) ==
    /\ at[p] = "trained"
    /\ at' = [at EXCEPT ![p] = "saving"]
    /\ file' = [is |-> IF opened = {} THEN "partial" ELSE "mixed"]
    /\ opened' = opened \cup {p}
    /\ UNCHANGED <<n, epoch, left, ema, loaded, kills>>

(* A slip: the file is closed before all of it is written.                 *)
WrittenLess(p) == file

Written(p) == IF file.is = "partial" THEN [is |-> "whole", of |-> ema[p]] ELSE file

Save(p) ==
    /\ at[p] = "saving"
    /\ at' = [at EXCEPT ![p] = "saved"]
    /\ file' = Written(p)
    /\ opened' = opened \ {p}
    /\ UNCHANGED <<n, epoch, left, ema, loaded, kills>>

(* A killed process leaves the file as it is, and is started again.        *)
Kill(p) ==
    /\ at[p] \in {"training", "trained", "saving"} /\ kills < MaxKills
    /\ at' = [at EXCEPT ![p] = "training"]
    /\ epoch' = [epoch EXCEPT ![p] = 1]
    /\ left' = [left EXCEPT ![p] = Track]
    /\ ema' = [ema EXCEPT ![p] = 0]
    /\ opened' = opened \ {p}
    /\ kills' = kills + 1
    /\ UNCHANGED <<n, file, loaded>>

(* Somebody trains again, to the same file.                                *)
Retrain(p) ==
    /\ at[p] = "saved" /\ kills < MaxKills
    /\ at' = [at EXCEPT ![p] = "training"]
    /\ epoch' = [epoch EXCEPT ![p] = 1]
    /\ left' = [left EXCEPT ![p] = Track]
    /\ ema' = [ema EXCEPT ![p] = 0]
    /\ kills' = kills + 1
    /\ UNCHANGED <<n, file, opened, loaded>>

(* A slip: what there is of a file is taken.                               *)
LoadedAnyway == IF file.is = "partial" THEN {[is |-> "whole", of |-> 0]} ELSE {file}

(* torch.load of a file that is missing or partial raises; of a mixture it *)
(* may.                                                                    *)
Loaded == IF file.is = "whole" THEN {file}
          ELSE {[is |-> "raised"]} \cup (IF file.is = "mixed" THEN {file} ELSE {})

FromCheckpoint ==
    /\ loaded = None
    /\ loaded' \in Loaded
    /\ UNCHANGED <<n, at, epoch, left, ema, file, opened, kills>>

Train(p) == TrainBatch(p) \/ EndEpoch(p) \/ OpenFile(p) \/ Save(p)

Next == (\E p \in Procs : Train(p) \/ Kill(p) \/ Retrain(p)) \/ FromCheckpoint

(* A process that is not killed runs on; kills are finite.                 *)
Spec == Init /\ [][Next]_vars /\ \A p \in Procs : WF_vars(Train(p))

(* A process never runs beyond its epochs, and whoever saves has finished. *)
TypeOK ==
    \A p \in Procs :
        /\ epoch[p] \in 1..Epochs /\ ema[p] \in 0..Full
        /\ at[p] \in {"trained", "saving", "saved"} => ema[p] = Full
        /\ p \in opened <=> at[p] = "saving"

(* A model that loads from a file of one writer is the average of a whole  *)
(* training, whoever was killed and whatever was written over what.        *)
LoadedIsTrained == loaded.is = "whole" => loaded.of = Full

(* A partial file that nobody is writing is the work of a kill, so a later *)
(* training repairs it.                                                    *)
PartialIsKilled == file.is = "partial" /\ opened = {} => kills > 0

(* Training ends with a saved checkpoint, or with an error.                *)
TrainingEnds == <>[](\A p \in Procs : at[p] \in {"saved", "raised"})

=============================================================================
