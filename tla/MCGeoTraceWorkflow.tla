------------------------- MODULE MCGeoTraceWorkflow -------------------------
(***************************************************************************)
(* Durable runs over the plans of the repository's own tests.  Executions  *)
(* share nothing but the workers' queues, whose rows are kept by trace id, *)
(* so one execution is enough.                                             *)
(***************************************************************************)
EXTENDS GeoTraceWorkflow, TLC

CONSTANTS a, b, c, d

MCNode == {a, b, c, d}

MkPlan(kinds, deps, priors) ==
    [ids |-> DOMAIN kinds, kind |-> kinds, deps |-> deps, priors |-> priors]

(* PRISM(p1) -> VALIDATE(v1), priors 0.4: tests/test_temporal_workflow.py. *)
PrismThenValidate ==
    MkPlan(a :> "PRISM" @@ b :> "VALIDATE", a :> <<>> @@ b :> <<a>>, <<40, 40>>)

(* prism, prism -> tgard -> validate. *)
Rendezvous ==
    MkPlan(a :> "PRISM" @@ b :> "PRISM" @@ c :> "TGARD" @@ d :> "VALIDATE",
           a :> <<>> @@ b :> <<>> @@ c :> <<a, b>> @@ d :> <<c>>, <<80, 80, 80, 80>>)

(* gaps beside a retrieval, then two validators at once. *)
GapAudit ==
    MkPlan(a :> "GAPS" @@ b :> "RETRIEVE" @@ c :> "VALIDATE" @@ d :> "VALIDATE",
           a :> <<>> @@ b :> <<>> @@ c :> <<a>> @@ d :> <<b>>, <<75, 75, 75, 75>>)

Empty == MkPlan(<<>>, <<>>, <<>>)

(* A prior that is no probability. *)
Hopeless == MkPlan(a :> "SUMMARIZE", a :> <<>>, <<-50>>)

MCPlanSet == {PrismThenValidate, Rendezvous, GapAudit, Empty, Hopeless}

MkRequest(reachable, conf, maxTokens, maxTools) ==
    [reachable |-> reachable, meets |-> {{a, b}}, conf |-> conf,
     maxTokens |-> maxTokens, maxTools |-> maxTools]

(* A sure and an unsure world, impossible anchors, and small budgets. *)
MCRequestSet ==
    {MkRequest(TRUE, 90, 3, 8), MkRequest(TRUE, 30, 3, 8),
     MkRequest(FALSE, 90, 3, 8), MkRequest(TRUE, 90, 1, 3)}

(* A rejection of the draft as it is, and an approval with a new text. *)
MCDecisionSet ==
    {[verdict |-> "reject", corrected |-> FALSE], [verdict |-> "approve", corrected |-> TRUE]}
=============================================================================
