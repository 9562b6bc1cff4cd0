------------------------------ MODULE MCDemo ------------------------------
(***************************************************************************)
(* Three components around the demo, on small instances: the geometry of   *)
(* an answer (Rendezvous), the Space's page (DemoPage) and the check that  *)
(* drives it (LiveCheck).  They share no state, so nothing is learnt from  *)
(* interleaving them: part says which of them a behaviour is of, and the   *)
(* others rest in one initial state of theirs.                             *)
(***************************************************************************)
EXTENDS Rendezvous

CONSTANTS
    Session, Query, QuestionOf, Plans, MaxClicks, MaxTouches, Nobody,   \* DemoPage
    Deadline                                                            \* LiveCheck

VARIABLES
    part,
    pc, asked, out, pageQ, lastOut, lastQ, torn, shown, loop, cost, cache,
    clicks, touches, runs, returned,
    page, preset, facts, map, at, now, drawnAt, gone, saw, code

-----------------------------------------------------------------------------
(* Places on a line, 20 metres being what two units of time allow: 21 and  *)
(* 41 are within the tolerance of 5%.  Times are even, for two slices;     *)
(* movers begin at 0 or 20, are anywhere in the middle, end at 21 or 41.   *)
MCPlace == {0, 20, 21, 41}
MCDist == [xy \in MCPlace \X MCPlace |->
              IF xy[1] >= xy[2] THEN xy[1] - xy[2] ELSE xy[2] - xy[1]]
MCVMax == [d \in Domain |-> 10]
MCAnchors ==
    [at : {0, 20}, t : {0}] \cup [at : MCPlace, t : {2}] \cup [at : {21, 41}, t : {4}]
MCLlmPairs == {<<[at |-> 20, t |-> 0], [at |-> 41, t |-> 4]>>}

-----------------------------------------------------------------------------
(* Two sessions and two questions; session 1 clicks once more while its    *)
(* first run may still be going on, and touches another widget.            *)
MCQuestionOf == [k \in Query |-> k]
MCClicks == [s \in Session |-> IF s = 1 THEN 2 ELSE 1]
MCTouches == [s \in Session |-> IF s = 1 THEN 1 ELSE 0]

(* The shapes of plan of the stub, and of an LLM that forgets the          *)
(* validator or puts it beside the rendezvous.                             *)
N(kind, deps) == [kind |-> kind, deps |-> deps]

MCPlans ==
    {<<N("PRISM", {}), N("PRISM", {}), N("TGARD", {1, 2}), N("VALIDATE", {3})>>,
     <<N("PRISM", {}), N("PRISM", {}), N("DC_TGARD", {1, 2}), N("VALIDATE", {1})>>,
     <<N("PRISM", {}), N("GAPS", {1}), N("TGARD", {1}), N("SUMMARIZE", {2})>>}

Page == INSTANCE DemoPage WITH q <- pageQ, None <- Nobody

Check == INSTANCE LiveCheck

ASSUME PageIsKnown == Page!PageAssumption
ASSUME CheckIsKnown == Check!LiveCheckAssumption

-----------------------------------------------------------------------------
AnswerRests ==
    /\ q = <<>> /\ domain \in Domain /\ method = "TGARD"
    /\ prisms = <<>> /\ regions = {} /\ stage = "planning"

CheckRests ==
    /\ page = "down" /\ preset = FALSE /\ map = "none" /\ facts = {}
    /\ at = "launch" /\ now = 0 /\ drawnAt = Deadline + 1 /\ gone = {}
    /\ saw = {} /\ code = Check!None

pageVars ==
    <<pc, asked, out, pageQ, lastOut, lastQ, torn, shown, loop, cost, cache,
      clicks, touches, runs, returned>>
checkVars == <<page, preset, facts, map, at, now, drawnAt, gone, saw, code>>

(* The page has one initial state. *)
MCInit ==
    /\ part \in {"answer", "page", "check"}
    /\ Page!Init
    /\ IF part = "answer" THEN Init ELSE AnswerRests
    /\ IF part = "check" THEN Check!Init ELSE CheckRests

MCNext ==
    /\ UNCHANGED part
    /\ IF part = "answer" THEN Next ELSE UNCHANGED vars
    /\ IF part = "page" THEN Page!Next ELSE UNCHANGED pageVars
    /\ IF part = "check" THEN Check!Next ELSE UNCHANGED checkVars

mcVars == <<part, vars, pageVars, checkVars>>

(* What Page!Spec and Check!Spec are fair to.                              *)
ScriptGoesOn(s) ==
    part = "page" /\ Page!ScriptStep(s) /\ UNCHANGED <<part, vars, checkVars>>
LoopGoesOn ==
    part = "page" /\ Page!LoopStep /\ UNCHANGED <<part, vars, checkVars>>
CheckGoesOn ==
    part = "check" /\ Check!ScriptStep /\ UNCHANGED <<part, vars, pageVars>>

(* One conjunct for the loop and the check, of which one is at rest.       *)
MCSpec ==
    /\ MCInit /\ [][MCNext]_mcVars
    /\ \A s \in Session : WF_mcVars(ScriptGoesOn(s))
    /\ WF_mcVars(LoopGoesOn \/ CheckGoesOn)

-----------------------------------------------------------------------------
(* However the scripts of the sessions interleave over the shared loop,    *)
(* planner and cache, a page shows a result of its own session, whose plan *)
(* is the one stored for the question of the run, under that question      *)
(* unless a rerun came between the two stores; a region of a plan with     *)
(* a validator only if a validator had it; and nothing is computed without *)
(* a click (streamlit_app.py).  The verdict of the script that checks it   *)
(* is what the page deserves, though each panel is read at another moment, *)
(* unless the page was drawn again between two reads, and no result that   *)
(* stands in time is called missing (verify_live_space.py).                *)
DemoIsHonest ==
    /\ Page!TypeOK /\ Page!OwnResults /\ Page!GateHolds /\ Page!RunsAreClicked
    /\ Check!TypeOK /\ Check!VerdictIsExact /\ Check!ResultInTimeIsSeen

(* The loop comes free again, even of a run whose page was left or rerun,  *)
(* and every script comes to an end (streamlit_app.py); however slow or    *)
(* broken the page is, so does its check (verify_live_space.py).           *)
DemoEnds == Page!RunsEnd /\ (part = "check" => Check!ScriptEnds)
=============================================================================
