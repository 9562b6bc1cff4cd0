--------------------------- MODULE MCOrchestrator ---------------------------
(***************************************************************************)
(* Runs over the shapes of plan the planner emits.  Token counts are in    *)
(* units of 400, the floor of the summarizer's answer; max_tokens of a     *)
(* request is at least 500, so 1 is a budget the floor alone uses up.      *)
(***************************************************************************)
EXTENDS Orchestrator, TLC

CONSTANTS a, b, c, d

MCNode == {a, b, c, d}

MkPlan(kinds, deps, priors) ==
    [ids |-> DOMAIN kinds, kind |-> kinds, deps |-> deps, priors |-> priors]

(* prism, prism -> tgard -> validate: the stub planner's rendezvous plan. *)
Rendezvous ==
    MkPlan(a :> "PRISM" @@ b :> "PRISM" @@ c :> "TGARD" @@ d :> "VALIDATE",
           a :> <<>> @@ b :> <<>> @@ c :> <<a, b>> @@ d :> <<c>>, <<80, 80, 80, 80>>)

(* The same without a validator. *)
Unvalidated ==
    MkPlan(a :> "PRISM" @@ b :> "PRISM" @@ c :> "DC_TGARD" @@ d :> "SUMMARIZE",
           a :> <<>> @@ b :> <<>> @@ c :> <<a, b>> @@ d :> <<c>>, <<60, 60, 60, 60>>)

(* Three vessels: a pair of prisms may meet or not by itself. *)
Fleet ==
    MkPlan(a :> "PRISM" @@ b :> "PRISM" @@ c :> "PRISM" @@ d :> "TGARD",
           a :> <<>> @@ b :> <<>> @@ c :> <<>> @@ d :> <<a, b, c>>, <<80, 80, 80, 80>>)

(* prism -> validate, the plan of tests/test_temporal_workflow.py, beside  *)
(* a retrieval.  Three priors of 0.7: their mean may be under 0.7.         *)
PrismThenValidate ==
    MkPlan(a :> "PRISM" @@ b :> "VALIDATE" @@ c :> "RETRIEVE",
           a :> <<>> @@ b :> <<a>> @@ c :> <<>>, <<70, 70, 70>>)

(* gaps -> validate -> summarize beside a retrieval: a gap audit. *)
GapAudit ==
    MkPlan(a :> "GAPS" @@ b :> "RETRIEVE" @@ c :> "VALIDATE" @@ d :> "SUMMARIZE",
           a :> <<>> @@ b :> <<>> @@ c :> <<a>> @@ d :> <<c, a>>, <<75, 75, 75, 75>>)

(* The LLM may return no node at all. *)
Empty == MkPlan(<<>>, <<>>, <<>>)

MkRequest(reachable, meets, conf, maxTokens, maxTools) ==
    [reachable |-> reachable, meets |-> meets, conf |-> conf,
     maxTokens |-> maxTokens, maxTools |-> maxTools]

(* One run at a time: every shape of plan under every kind of request.     *)
AllPlans == {Rendezvous, Unvalidated, Fleet, PrismThenValidate, GapAudit, Empty}

AllRequests ==
    {MkRequest(reachable, meets, conf, maxTokens, maxTools) :
        reachable \in BOOLEAN, meets \in {{}, {{a, b}}, {{a, b}, {b, c}}}, conf \in {30, 90},
        maxTokens \in 1..4, maxTools \in {1, 3, 8}}

(* Requests that allow exactly what one planner call costs: 2 units.       *)
SpentRequests == {q \in AllRequests : q.maxTokens = 2}

(* Two runs at once, against a threshold of 70: a mean of 70, which may be *)
(* rounded down, a mean of 70.5, and one under it; some suspend.  A third  *)
(* plan has two nodes of one id, and a fourth a prior that is none.        *)
Lookup == MkPlan(a :> "RETRIEVE" @@ b :> "TGARD", a :> <<>> @@ b :> <<a>>, <<70, 71>>)

Twice == MkPlan(a :> "GAPS", a :> <<>>, <<80, 40>>)

Hopeless == MkPlan(a :> "SUMMARIZE", a :> <<>>, <<-50>>)

SmallPlans == {PrismThenValidate, Lookup, Twice, Hopeless}

SmallRequests ==
    {MkRequest(TRUE, {}, 30, 3, 8),
     MkRequest(FALSE, {}, 90, 1, 2)}    \* impossible anchors; a small budget
=============================================================================
