----------------------------- MODULE Migrations -----------------------------
(* The migration runner, scripts/migrate.py: SQL files are executed in the *)
(* order of their names, each followed by a row that records it.  Several  *)
(* runners may overlap (two containers that start), and a runner may be    *)
(* killed between any two statements and started again.                    *)
EXTENDS Naturals, FiniteSets

CONSTANTS Runners,
          NrFiles,  \* migration files
          MaxRuns,  \* how often a runner is started
          MaxTimes  \* an execution count is not followed beyond this

MigrationsAssumption ==
    {NrFiles, MaxRuns, MaxTimes} \subseteq Nat \ {0} /\ MaxTimes >= 2 /\ IsFiniteSet(Runners)

VARIABLES recorded,   \* the rows of schema_migrations
          times,      \* how often a file has been executed
          at,         \* where a runner stands
          applied,    \* what it read at its start
          file,       \* the file it is at
          runs,       \* how often it was started
          disturbed   \* a runner was killed, overlapped another, or lost a row (history)

vars == <<recorded, times, at, applied, file, runs, disturbed>>

File == 1..NrFiles
Active == {"reading", "executing", "recording"}

Init ==
    /\ recorded = {} /\ times = [f \in File |-> 0]
    /\ at = [r \in Runners |-> "ended"]
    /\ applied = [r \in Runners |-> {}]
    /\ file = [r \in Runners |-> 1]
    /\ runs = [r \in Runners |-> 0]
    /\ disturbed = FALSE

Start(r) ==
    /\ at[r] \in {"ended", "killed"} /\ runs[r] < MaxRuns
    /\ at' = [at EXCEPT ![r] = "reading"]
    /\ runs' = [runs EXCEPT ![r] = @ + 1]
    /\ disturbed' = (disturbed \/ \E q \in Runners \ {r} : at[q] \in Active)
    /\ UNCHANGED <<recorded, times, applied, file>>

(* CREATE TABLE IF NOT EXISTS, and SELECT                                  *)
ReadApplied(r) ==
    /\ at[r] = "reading"
    /\ at' = [at EXCEPT ![r] = "executing"]
    /\ applied' = [applied EXCEPT ![r] = recorded]
    /\ file' = [file EXCEPT ![r] = 1]
    /\ UNCHANGED <<recorded, times, runs, disturbed>>

Goto(r, where) == at' = [at EXCEPT ![r] = where]

(* A slip: after the last file the runner starts over.                     *)
FollowingWraps(r) == Goto(r, "executing") /\ file' = [file EXCEPT ![r] = (@ % NrFiles) + 1]

(* The next file, or the end of the run                                    *)
Following(r) ==
    IF file[r] = NrFiles THEN Goto(r, "ended") /\ file' = file
    ELSE Goto(r, "executing") /\ file' = [file EXCEPT ![r] = @ + 1]

(* A slip: only the last file that was recorded is skipped.                *)
SkipsLast(r) == file[r] \in applied[r] /\ \A f \in applied[r] : f <= file[r]

Skips(r) == file[r] \in applied[r]

Skip(r) ==
    /\ at[r] = "executing" /\ Skips(r)
    /\ Following(r)
    /\ UNCHANGED <<recorded, times, applied, runs, disturbed>>

(* A file's statements take effect together or not at all.                 *)
Execute(r) ==
    /\ at[r] = "executing" /\ ~Skips(r)
    /\ times' = [times EXCEPT ![file[r]] = IF @ < MaxTimes THEN @ + 1 ELSE @]
    /\ Goto(r, "recording")
    /\ UNCHANGED <<recorded, applied, file, runs, disturbed>>

(* A slip: an error is passed over, and the next file is taken.            *)
GoesOn(r) == Following(r)

(* The error ends the run.                                                 *)
Raises(r) == Goto(r, "ended") /\ file' = file

ExecuteFails(r) ==
    /\ at[r] = "executing" /\ ~Skips(r)
    /\ Raises(r)
    /\ UNCHANGED <<recorded, times, applied, runs, disturbed>>

(* INSERT; the key of a row that is there already is refused.              *)
Record(r) ==
    /\ at[r] = "recording"
    /\ IF file[r] \in recorded THEN Raises(r) ELSE Following(r)
    /\ recorded' = recorded \cup {file[r]}
    /\ UNCHANGED <<times, applied, runs, disturbed>>

(* The INSERT fails for another reason, of the connection or the database: *)
(* the run ends, and the file has been executed all the same.              *)
RecordFails(r) ==
    /\ at[r] = "recording"
    /\ Raises(r)
    /\ disturbed' = TRUE
    /\ UNCHANGED <<recorded, times, applied, runs>>

Kill(r) ==
    /\ at[r] \in Active
    /\ Goto(r, "killed")
    /\ disturbed' = TRUE
    /\ UNCHANGED <<recorded, times, applied, file, runs>>

Run(r) == ReadApplied(r) \/ Skip(r) \/ Execute(r) \/ ExecuteFails(r) \/ Record(r) \/ RecordFails(r)

Next == \E r \in Runners : Start(r) \/ Run(r) \/ Kill(r)

Spec == Init /\ [][Next]_vars /\ \A r \in Runners : WF_vars(Run(r))

(* What a runner skips is recorded, and it records what it is at.          *)
TypeOK ==
    /\ recorded \subseteq File
    /\ \A r \in Runners : file[r] \in File /\ applied[r] \subseteq recorded
    /\ \A f \in File : times[f] = 0 => f \notin recorded

(* Files take effect in order: none before the one it may depend on, even  *)
(* when runs fail, are killed or overlap.                                  *)
InOrder == \A f \in 2..NrFiles : times[f] > 0 => f - 1 \in recorded

(* A file is executed again only when a runner was killed, overlapped      *)
(* another one or failed to record what it had executed; without that the  *)
(* rows are what has been executed.                                        *)
OnceUnlessDisturbed ==
    /\ ~disturbed => \A f \in File : times[f] <= 1
    /\ ~disturbed /\ (\A r \in Runners : at[r] \notin Active) =>
            recorded = {f \in File : times[f] > 0}

(* No run hangs, whatever the others do.                                   *)
RunsEnd == \A r \in Runners : (at[r] \in Active) ~> (at[r] \notin Active)
=============================================================================
