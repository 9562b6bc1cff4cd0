------------------------------- MODULE CiGate -------------------------------
(* The local gate before a push: .githooks/pre-push runs                   *)
(* scripts/ci_local.sh, which lints, probes which test files can be        *)
(* collected where optional dependencies are missing, and runs the rest.   *)
(* All of it reads the working tree, while the developer may go on editing.*)
(*                                                                         *)
(* A test file is "good"; "fails"; "syntax": cannot be collected;          *)
(* "optional": imports an optional dependency; "typo": imports a module    *)
(* that dependency does not have; "both": imports an optional dependency   *)
(* and is broken besides; or "unknown": imports a module that is neither   *)
(* installed nor a known optional one.                                     *)
EXTENDS Naturals, FiniteSets

CONSTANTS NrFiles,   \* test files
          MaxEdits   \* edits the developer makes

CiGateAssumption == NrFiles \in Nat \ {0} /\ MaxEdits \in Nat

VARIABLES installed,  \* the optional dependency is there
          tree,       \* the working tree
          commit,     \* the last commit
          edits,      \* edits so far
          pushing,    \* the commit being pushed
          at,         \* where the gate stands
          probe,      \* the next file to be probed
          excluded,   \* files excused from the run
          failed,     \* FAIL_REASON is set
          clean,      \* the tree has been the pushed commit all along
          origin      \* the commits the gate has let through

dev == <<tree, commit, edits>>
gate == <<probe, excluded, failed>>
vars == <<installed, dev, pushing, at, gate, clean, origin>>

File == 1..NrFiles
Content == {"good", "fails", "syntax", "optional", "typo", "both", "unknown"}
Tree == [lint : BOOLEAN, test : [File -> Content]]

Init ==
    /\ installed \in BOOLEAN
    /\ tree \in {[lint |-> TRUE, test |-> t] : t \in [File -> Content]}
    /\ commit = tree /\ pushing = tree
    /\ edits = 0 /\ at = "idle" /\ probe = 1
    /\ excluded = {} /\ failed = FALSE /\ clean = TRUE /\ origin = {}

(* The developer                                                           *)
Changed(t) ==
    /\ edits < MaxEdits
    /\ edits' = edits + 1
    /\ tree' = t
    /\ clean' = (clean /\ (at = "idle" \/ t = pushing))
    /\ UNCHANGED <<installed, commit, pushing, at, gate, origin>>

Edit ==
    \/ \E f \in File, c \in {"good", "fails"} : Changed([tree EXCEPT !.test[f] = c])
    \/ Changed([tree EXCEPT !.lint = ~@])

Commit ==
    /\ commit # tree
    /\ commit' = tree
    /\ UNCHANGED <<installed, tree, edits, pushing, at, gate, clean, origin>>

(* git push runs the hook; what is pushed is the commit.                   *)
Push ==
    /\ at = "idle"
    /\ pushing' = commit /\ clean' = (tree = commit)
    /\ at' = "ruff"
    /\ probe' = 1 /\ excluded' = {} /\ failed' = FALSE
    /\ UNCHANGED <<installed, dev, origin>>

(* The gate; ruff goes on to pytest even when it has failed.               *)
Ruff ==
    /\ at = "ruff"
    /\ failed' = ~tree.lint
    /\ at' = "collect"
    /\ UNCHANGED <<installed, dev, pushing, probe, excluded, clean, origin>>

Collects(f) == tree.test[f] \in {"good", "fails"} \cup (IF installed THEN {"optional"} ELSE {})

(* The full collection; only when it fails are the files probed.           *)
CollectAll ==
    /\ at = "collect"
    /\ at' = IF \A f \in File : Collects(f) THEN "pytest" ELSE "probe"
    /\ UNCHANGED <<installed, dev, pushing, gate, clean, origin>>

(* The top-level names of the modules that the log misses: a submodule's   *)
(* is cut at the first dot, and what else is wrong is not looked at.       *)
Mods(f) ==
    CASE tree.test[f] \in {"optional", "typo"} -> {"redis"}
      [] tree.test[f] = "both" /\ ~installed -> {"redis"}
      [] tree.test[f] = "unknown" -> {"numpi"}
      [] OTHER -> {}

OptionalDeps == {"redis"}

(* A slip: an error that names no module is excused too.                   *)
ExcusedIfNone(f) == Mods(f) \subseteq OptionalDeps

Excused(f) == Mods(f) # {} /\ Mods(f) \subseteq OptionalDeps

ExcludedOf(f) == IF Excused(f) THEN {f} ELSE {}

(* A slip: an excused file is a failure too.                               *)
UnexplainedAll(f) == ~Collects(f)

Unexplained(f) == ~Collects(f) /\ ~Excused(f)

Probe ==
    /\ at = "probe"
    /\ failed' = (failed \/ Unexplained(probe))
    /\ excluded' = excluded \cup (IF Collects(probe) THEN {} ELSE ExcludedOf(probe))
    /\ probe' = (probe % NrFiles) + 1
    /\ at' = IF probe = NrFiles THEN "pytest" ELSE "probe"
    /\ UNCHANGED <<installed, dev, pushing, clean, origin>>

(* pytest without the excluded files; none left (exit 5) is no failure.    *)
Pytest ==
    /\ at = "pytest"
    /\ failed' = (failed \/ \E f \in File \ excluded : ~Collects(f) \/ tree.test[f] = "fails")
    /\ at' = "verdict"
    /\ UNCHANGED <<installed, dev, pushing, probe, excluded, clean, origin>>

Verdict ==
    /\ at = "verdict"
    /\ at' = IF failed THEN "blocked" ELSE "pushed"
    /\ origin' = IF failed THEN origin ELSE origin \cup {pushing}
    /\ UNCHANGED <<installed, dev, pushing, gate, clean>>

(* After a push, or a blocked one, the developer may push again.           *)
Again ==
    /\ at \in {"pushed", "blocked"}
    /\ at' = "idle"
    /\ UNCHANGED <<installed, dev, pushing, gate, clean, origin>>

Next ==
    \/ Edit \/ Commit \/ Push \/ Again
    \/ Ruff \/ CollectAll \/ Probe \/ Pytest \/ Verdict

Spec == Init /\ [][Next]_vars

(* What CI says of a file, with every dependency installed                 *)
CiPasses(t, f) == t.test[f] \in {"good", "optional"}

CiGreen(t) == t.lint /\ \A f \in File : CiPasses(t, f)

(* The gate's own variables; files are excluded by the probe alone.        *)
TypeOK ==
    /\ {tree, commit, pushing} \cup origin \subseteq Tree
    /\ edits \in 0..MaxEdits /\ probe \in File
    /\ excluded \subseteq File
    /\ at \in {"ruff", "collect"} => excluded = {}

(* As long as the tree is the commit that is pushed, what passes the gate  *)
(* fails CI only in files the gate said it left out.  With the optional    *)
(* dependencies installed, these can only fail in what they import of one; *)
(* without them, any error of such a file is hidden behind the import.     *)
OnlyExcludedMayFail ==
    at = "pushed" /\ clean =>
        /\ pushing.lint
        /\ \A f \in File :
               \/ CiPasses(pushing, f)
               \/ /\ f \in excluded
                  /\ pushing.test[f] = "typo" \/ (pushing.test[f] = "both" /\ ~installed)

(* A missing optional dependency blocks no push that CI would accept.      *)
NoFalseBlock == at = "blocked" /\ clean => ~CiGreen(pushing)

=============================================================================
