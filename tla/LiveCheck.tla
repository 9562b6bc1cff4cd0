----------------------------- MODULE LiveCheck -----------------------------
(* The end-to-end check of the hosted demo, verify_live_space.py: a script *)
(* drives a browser through the coverage-gap preset and reads what the     *)
(* page shows, while the page (streamlit_app.py) loads, runs the query,    *)
(* draws its panels at a pace of its own, and draws them again.            *)
EXTENDS Naturals

CONSTANT Deadline  \* polls, a second apart, until the script gives up

LiveCheckAssumption == Deadline \in Nat \ {0}

VARIABLES page,     \* how far the page has come
          preset,   \* the selectbox shows the coverage-gap preset
          facts,    \* what this run of the demo yields
          map,      \* the map's frame
          at,       \* where the script stands
          now,      \* polls so far
          drawnAt,  \* polls since when the result stands (Deadline + 1: it does not)
          gone,     \* the panels it took away between the read of the result
                    \* and their own
          saw,      \* what it has read off the page
          code      \* its exit code (none while it runs)

demo == <<page, preset, facts, map>>
script == <<at, now, saw, code>>
vars == <<demo, script, drawnAt, gone>>

(* What the page may show: the gaps and a positive measure of one; the     *)
(* validator's count is that of the same list.  Without a track there is   *)
(* no line, without track and prisms nothing to fit.                       *)
Facts == SUBSET {"n_gaps", "agm", "track", "prisms", "map"}

Demo(f) == "agm" \in f => "n_gaps" \in f

None == 999

Init ==
    /\ page = "down" /\ preset = FALSE /\ map = "none"
    /\ facts \in {f \in Facts : Demo(f)}
    /\ at = "launch" /\ now = 0 /\ drawnAt = Deadline + 1
    /\ saw = {} /\ code = None /\ gone = {}

(* The page                                                                *)
Load ==
    /\ \/ page = "down" /\ page' = "loading"
       \/ page = "loading" /\ page' = "idle"
    /\ UNCHANGED <<preset, facts, map, script, drawnAt, gone>>

PresetTakes ==
    /\ at = "typed" /\ ~preset /\ page = "idle"
    /\ preset' = TRUE
    /\ UNCHANGED <<page, facts, map, script, drawnAt, gone>>

(* The script of the page draws the map, the validator's and the cost      *)
(* panel and, last, the result; a run that fails draws an error instead.   *)
DrawPanel ==
    /\ \/ page = "running" /\ page' \in {"map", "error"}
       \/ page = "again" /\ page' = "map"
       \/ page = "map" /\ page' = "validator"
       \/ page = "validator" /\ page' = "cost"
       \/ page = "cost" /\ page' = "result"
    /\ map' = IF page' = "map" /\ "map" \in facts /\ map = "none" THEN "loading" ELSE map
    /\ drawnAt' = IF page' = "result" THEN now ELSE drawnAt
    /\ UNCHANGED <<preset, facts, script, gone>>

(* The map component reports back, when it loads or at any later moment:   *)
(* the script runs again and takes all panels away, the frame of the map   *)
(* too unless the next one comes at once, and draws the result it kept.    *)
Rerun ==
    /\ map # "none" /\ page \in {"map", "validator", "cost", "result"}
    /\ page' = "again"
    /\ map' \in {"none", map}
    /\ drawnAt' = Deadline + 1
    /\ gone' = gone \cup {x \in {"gaps_detected"} : at = "panels"}
    /\ UNCHANGED <<preset, facts, script>>

(* The frame of the map loads by itself, and then moves to fit.            *)
DrawMap ==
    /\ \/ map = "loading" /\ map' = "drawn"
       \/ map = "drawn" /\ facts \cap {"track", "prisms"} # {} /\ map' = "fitted"
    /\ UNCHANGED <<page, preset, facts, script, drawnAt, gone>>

(* The script                                                              *)
Goto(where) == at' = where /\ code' = code

Exit(c) == at' = "over" /\ code' = c

Launch ==
    /\ at = "launch"
    /\ Goto("goto") \/ Exit(125)
    /\ UNCHANGED <<demo, now, saw, drawnAt, gone>>

(* page.goto raises when the page does not come in time: nothing catches   *)
(* it, and an exception leaves with the code of a failed check.            *)
Navigate ==
    /\ at = "goto"
    /\ IF page = "down" THEN Exit(1) ELSE Goto("button")
    /\ UNCHANGED <<demo, now, saw, drawnAt, gone>>

WaitForButton ==
    /\ at = "button"
    /\ IF page = "loading" THEN Exit(2) ELSE Goto("typing")
    /\ UNCHANGED <<demo, now, saw, drawnAt, gone>>

TypePreset ==
    /\ at = "typing"
    /\ Goto("typed")
    /\ UNCHANGED <<demo, now, saw, drawnAt, gone>>

(* The value is read 1.2 s later, once.                                    *)
ReadPreset ==
    /\ at = "typed"
    /\ IF preset THEN Goto("click") ELSE Exit(3)
    /\ UNCHANGED <<demo, now, saw, drawnAt, gone>>

ClickRun ==
    /\ at = "click"
    /\ page' = "running"
    /\ Goto("poll")
    /\ UNCHANGED <<preset, facts, map, now, saw, drawnAt, gone>>

(* The wait is for a panel that holds n_gaps, which only the result does.  *)
Found == page = "result"

(* A slip: the deadline is not looked at.                                  *)
MorePolls == TRUE

(* A slip: it ends the wait a poll early.                                  *)
StopsEarly == now + 2 < Deadline

InTime == now < Deadline

Poll ==
    /\ at = "poll" /\ InTime
    /\ IF Found
       THEN /\ saw' = facts \cap {"n_gaps", "agm"}
            /\ now' = now
            /\ Goto("panels")
       ELSE now' = (now + 1) % (Deadline + 1) /\ saw' = saw /\ Goto("poll")
    /\ UNCHANGED <<demo, drawnAt, gone>>

PollsEnd ==
    /\ at = "poll" /\ ~InTime
    /\ Exit(4)
    /\ UNCHANGED <<demo, now, saw, drawnAt, gone>>

ReadPanels ==
    /\ at = "panels"
    /\ saw' = saw \cup {x \in {"gaps_detected"} :
                          /\ "n_gaps" \in facts
                          /\ page \in {"validator", "cost", "result"}}
    /\ Goto("frame")
    /\ UNCHANGED <<demo, now, drawnAt, gone>>

(* The layers are counted 4 s after the result, once: the line of the      *)
(* track, circles for the anchors or the track, and the zoom.              *)
InspectMap ==
    /\ at = "frame"
    /\ saw' = saw \cup {x \in {"frame", "circle"} : map \in {"drawn", "fitted"}}
                  \cup {x \in {"polyline"} : map \in {"drawn", "fitted"} /\ "track" \in facts}
                  \cup {x \in {"zoom"} : map = "fitted"}
    /\ Goto("verdict")
    /\ UNCHANGED <<demo, now, drawnAt, gone>>

(* A slip: the measure is not looked at.                                   *)
RequiredLess == {"n_gaps", "gaps_detected", "frame", "polyline", "circle", "zoom"}

Required == {"n_gaps", "agm", "gaps_detected", "frame", "polyline", "circle", "zoom"}

Verdict ==
    /\ at = "verdict"
    /\ at' = "judged"
    /\ code' = IF Required \subseteq saw THEN 0 ELSE 1
    /\ UNCHANGED <<demo, now, saw, drawnAt, gone>>

(* Elements are counted and then read one by one: one that a rerun of the  *)
(* page takes away in between makes the read raise.                        *)
ElementGone ==
    /\ at \in {"typing", "typed", "click", "poll", "panels"}
    /\ Exit(1)
    /\ UNCHANGED <<demo, now, saw, drawnAt, gone>>

PageStep == Load \/ PresetTakes \/ DrawPanel \/ Rerun \/ DrawMap

ScriptStep ==
    \/ Launch \/ Navigate \/ WaitForButton \/ TypePreset \/ ReadPreset
    \/ ClickRun \/ Poll \/ PollsEnd \/ ReadPanels \/ InspectMap \/ Verdict

Next == PageStep \/ ScriptStep \/ ElementGone

(* Every wait of the script has a timeout, so it goes on.  Of the page     *)
(* nothing is assumed.                                                     *)
Spec == Init /\ [][Next]_vars /\ WF_vars(ScriptStep)

(* The exit codes and the clock are those of the code, and nothing is read *)
(* of a run that was not started.                                          *)
TypeOK ==
    /\ now \in 0..Deadline /\ drawnAt \in 0..(Deadline + 1)
    /\ code \in {None, 0, 1, 2, 3, 4, 125}
    /\ saw \subseteq Required
    /\ code # None <=> at \in {"over", "judged"}
    /\ saw # {} => page \notin {"down", "loading", "idle", "running", "error"}
    /\ gone \subseteq {"gaps_detected"}

(* A verdict is what the page deserves, though each panel is read at       *)
(* another moment.  PASS: the gap, its measure, the track and the map were *)
(* all there.  FAIL: one of them was not, or the map was not fitted when   *)
(* it was read, or the page took its panels away between the read of the   *)
(* result and that of the validator's panel, which it draws again.         *)
VerdictIsExact ==
    at = "judged" =>
        /\ code = 0 => {"n_gaps", "agm", "track", "map"} \subseteq facts
        /\ code = 1 => \/ ~({"n_gaps", "agm", "track", "map"} \subseteq facts)
                       \/ "zoom" \notin saw
                       \/ "gaps_detected" \in gone

(* A result that stands on the page from before the last poll to the       *)
(* deadline is not called missing.                                         *)
ResultInTimeIsSeen == code = 4 => drawnAt >= Deadline

(* However slow or broken the page is, the script exits.                   *)
ScriptEnds == <>(code # None)
=============================================================================
