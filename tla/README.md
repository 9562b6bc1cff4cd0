# GeoTrace-Agent in TLA+

GeoTrace answers a natural-language question about vessel or vehicle
trajectories. A planner LLM writes a plan, a graph of typed nodes; the nodes of
each topological layer run side by side; regions where objects may have met are
collected, checked and summarized; an answer of low confidence is queued for a
human. One code base runs this twice: in a web process (`Orchestrator`) and as
a durable Temporal workflow (`GeoTraceWorkflow`). Around that core are an LLM
cache, the geometry of prisms and gaps, an anomaly model, protocol adapters, a
hosted demo page and the scripts that check and release all of it. This
directory holds TLA+ models of these parts, TLC configurations that check them
on small instances, and TLAPS proofs for every value of the constants.

Paths are relative to the repository (`app/...` stands for `src/app/...`).

## 1. The system

### Components, their state and operations

| Component | State | Operations | What makes it correct |
|---|---|---|---|
| `PlanGraph` (`app/models.py:131-169`) | none; `topo_layers` is a loop over `remaining`, `done`, `layers` | `topo_layers` | dependencies in earlier layers; every id once; rejected exactly when no order exists; ends |
| `Orchestrator` (`app/services/orchestrator.py`) | per run: `_RunCtx` (tokens, tools, cost, stages), results | `run`: guard, plan, layers of nodes, budget, summary, confidence, review | a node reads complete results; a kinematic violation beats every other outcome; budget gates; review exactly if unsure |
| `HitlQueue` (`observability/feedback.py`) | rows and seen trace ids, in memory of a process | `enqueue` (idempotent by trace id), `label` (logs) | one row per run |
| `GeoTraceWorkflow` (`app/temporal/workflows.py`) | stage, counters, review: replayed from the history | `run`, signal `review`, query `progress` | the same, across retries and crashes; an unsure answer waits for a human decision |
| Activities and worker (`app/temporal/activities.py`, `worker.py`) | one queue, planner, optimizer per worker process | `guard`, `plan`, `execute_node`, `summarize`, `output_filter`, `hitl_enqueue` | at-least-once execution is harmless |
| `ToolBatcher` (`app/services/tool_batcher.py`) | `_lock`, `_inflight` futures | `call` | one execution per key at a time; shared, fresh results; every call returns |
| `PlannerAgent` (`app/agents/planner.py`) | `last_tokens_*`, `last_usd`, shared by all runs | `plan`, `_coerce_plan` | only executable plans leave it; the fields read belong to the caller's call |
| `TokenOptimizer`, `SemanticCache` (`app/services/`) | Redis entries with a TTL, or a dictionary | `call_llm_text`, `call_llm_json`, `summarize`; `get`, `set`, `retrieve` | a hit answers the question asked; costs are bounded; every call ends |
| `ValidatorAgent` (`app/agents/validator.py`) | none | `validate` | unreachable anchors raise, reachable ones never |
| `RendezvousFinderAgent` (`app/agents/rendezvous_finder.py`) | none | `find` (TGARD, DC-TGARD) | no possible meeting is missed |
| `GapDetectorAgent` (`app/agents/gap_detector.py`) | `_pidpm`, the model built on first use | `detect` | no gap lost or hidden; one scale per report |
| Prism kernel (`app/components/space_time_prism.py`) | none | `compute`, `ellipse_at`, `intersect`, `merge_dynamic` | a region holds the places that can be reached |
| Pi-DPM (`app/components/pidpm/`) | weights, a checkpoint file | data set, training, noise schedule, scoring, evaluation | a loaded model was trained; noise is told; metrics count pairs |
| `ConversationStore` (`app/services/conversation.py`) | turns and a rolling summary | `get`, `append_turn` | a turn is in the history or in the summary |
| HTTP API (`app/main.py`), security filters | singletons | `/v1/query`, ... | each end of a run has one status code |
| A2A (`app/a2a/protocol.py`) | a 60 s cache of capability cards | `card`, `call`, JSON-RPC dispatch | cards are as recent as the TTL and the slowest exchange allow; a caller knows what ran |
| MCP server (`app/mcp_servers/prism_mcp.py`) | two pipes and a transport's buffer | `serve` | each request answered in order while the server runs; bounded memory |
| Demo page (`spaces/hf-demo/streamlit_app.py`) | session states; one loop, planner and cache for all sessions | the script, `_run` | a page shows its own session's results under their question; the loop comes free |
| Live check (`spaces/hf-demo/verify_live_space.py`) | what it has read | the script | the verdict is what the page deserves |
| Cache ablation (`evaluation/ablation.py`) | rows, the cache it leaves | two configurations of two passes | the comparison measures the cache |
| CI gate (`.githooks/pre-push`, `scripts/ci_local.sh`) | excluded files | lint, probe, test | what is pushed was checked |
| Migrations (`scripts/migrate.py`) | applied ids in Postgres | one run | each file once, in order |
| Observability, router, rewriter, retriever, reranker, other scripts, front end | | | not part of the control flow |

`PROJECT.json` lists all of them with their status.

### How they interact

`v1_query` calls `Orchestrator.run`, one coroutine per request on one event
loop. It awaits the planner (LLM through `TokenOptimizer`, Redis through
`SemanticCache`), layers the plan, and `gather`s each layer with
`return_exceptions=True`. Nodes call the agents directly. All runs share one
planner object, one optimizer, one queue.

The workflow calls the same agents through activities that a worker process
executes. The Temporal server starts attempts, times them out, retries them up
to three times; the workflow's own state survives by replay. Only
`hitl_enqueue` writes something outside the history: a row in the queue of
whichever worker process ran the attempt.

### What is hard

- Interleaving: only LLM calls and Redis reads suspend, so most nodes are atomic
  and `RETRIEVE` is not; two runs meet in the review queue.
- Partial failure: a layer returns results, soft errors and violations at once,
  and the first exception is not the one that matters.
- Limits: tokens and tools are looked at after a layer, and the summary's cost
  never.
- At-least-once activities: lost acknowledgements, late writes, worker crashes.
- Signals that come early, twice or never.
- A lock held across an `await` (`tool_batcher.py:43`), and cancellation.
- An LLM that writes a cycle, repeats an id or invents a probability.
- A cache between the LLM and its callers: keys that leave out what the prompt
  was made of, answers stored before they are checked, charges nobody reports.
- A page whose script may be replaced at any Streamlit call while its run goes
  on in a loop that all sessions share, and which a script checks while it takes
  its panels away and draws them again.
- Two bounded pipes between a client and a server that each wait for the other.
- Partial files and half-applied migrations after a kill; two of a kind that
  overlap.
- Boundaries: equal timestamps, equal scores, a short last batch, noise level 0,
  a summary that is full.

`PROJECT.json` lists every hazard at the line where it bites, with the
properties that cover it or the reason why none does.

## 2. Modules

| Module | Models | Kind |
|---|---|---|
| `PlanGraph` | the loop of `topo_layers` on whatever the LLM wrote, one step per iteration | component |
| `NodeResults` | what both runners share: executable plans, layers, regions, confidence | data |
| `HitlQueue` | `HitlQueue.enqueue` | data |
| `QueryRun` | the promise to a caller: one end, no answer after a violation, `hitl_required` exactly with a queued review | abstract specification |
| `Orchestrator` | concurrent in-process runs | component, implements `QueryRun` |
| `GeoTraceWorkflow` | durable runs, their activities, workers and reviewers | component, implements `QueryRun` |
| `ToolBatcher` | concurrent calls, an `asyncio.Lock`, futures, cancellation | component |
| `LlmCache` | concurrent LLM calls over the response cache, the provider's bill | component |
| `Rendezvous` | anchors, prisms, slices, regions and the validator's gates, over any metric | component |
| `GapClusters` | the merging of gaps and the report | component |
| `A2A` | client tasks, the card cache, a peer | component |
| `McpServer` | a client, two pipes, `serve()`, the transport's flow control | component |
| `DemoPage` | sessions, reruns, the shared loop, planner and cache | component |
| `LiveCheck` | the checking script beside the page | component |
| `Ablation` | the harness and the caches it fills | component |
| `CiGate` | a developer, the hook, the gate | component |
| `Conversation` | bounded history and rolling summary | component |
| `PiDpmTrack` | injected anomalies, padding, the physical envelope | component |
| `PiDpmEval` | batches, calibration, AUROC and average precision | component |
| `PiDpmTrain` | training processes, the checkpoint, a scorer | component |
| `DdimSchedule` | noise levels of the diffusion's reverse process | component |
| `Migrations` | overlapping migration runners | component |
| `MCPlanGraph`, `MCOrchestrator`, `MCGeoTraceWorkflow` | plans, requests and decisions of the TLC instances | instances |
| `MCDemo` | `Rendezvous`, `DemoPage`, `LiveCheck` on small instances | instances |
| `MCDetection` | `GapClusters`, the four Pi-DPM modules, `Ablation`, `CiGate`, `Migrations` | instances |
| `MCServices` | `A2A`, `McpServer`, `LlmCache`, `Conversation` | instances |
| `NodeResultsProofs` | lemmas on plans, regions, mean confidences and the review queue | proofs |
| `PlanGraphProofs`, `OrchestratorProofs`, `GeoTraceWorkflowProofs`, `ToolBatcherProofs` | theorems of one component each | proofs |
| `DemoProofs`, `DetectionProofs`, `ServicesProofs` | theorems of the components that `MCDemo`, `MCDetection` and `MCServices` put together, each for its own specification | proofs |

The components of `MCDemo`, `MCDetection` and `MCServices` share no state, so
nothing is learnt from interleaving them. Each of these modules extends the
first component, has an `INSTANCE` of every other, and a variable `part` that
says which of them a behaviour is of; the others rest in one initial state of
theirs. So one run explores each component completely, one after the other. An
invariant of a component holds at rest or says nothing there; a liveness
property that does not hold at rest is stated for its own `part`.

Definitions described as "a slip" are plausible bugs. No specification uses
them; each is put in the place of the definition after it to see that a
property notices.

### PlanGraph

`remaining` is the dict of line 158 (of two nodes with one id the later wins,
as in a dict comprehension), `done` and `layers` are the locals. `AddLayer` is
an iteration that yields a layer, `RaiseCycle` the `ValueError`, `Return` the
end. Nothing is assumed of the plan.

### Orchestrator

A step is what a coroutine does between two suspensions.

| Code | Model |
|---|---|
| guard, `run:140-146` | `Accept`, `Reject` |
| `_planning_stage` | `PlanArrives` (the charge, the budget, the first layer), `PlanningFails`; nothing suspends between `plan()` setting the planner's `last_*` fields and the stage reading them, so the shared fields are no state |
| `_execute_node` of a kind that never suspends | `RunNode` |
| `_execute_node` of RETRIEVE | `StartRetrieve`, `FinishRetrieve` |
| the loop after `gather` (190-198) | `RaiseViolation`, `StopOverBudget`, `Advance` |
| summary, regions, confidence, review, `QueryOut` (148-168) | `SummaryArrives`, one step since nothing after the summary suspends; `SummaryFails` |
| wallclock | `TimePasses` sets `late` |

`Outcomes` is what each kind of node may return. It keeps a distinction of the
code that is easy to miss: VALIDATE takes the candidates of its first
dependency only, and iterating a prism or `None` raises a `TypeError`, a soft
error, before the anchors are looked at. Any node but VALIDATE may fail softly,
the rendezvous nodes included.

`IsPlan` is what leaves `_coerce_plan`. Its last call is `topo_layers`
(`planner.py:142`), which rejects a cycle and a dependency that no node has and
nothing else. Two nodes with one id therefore pass; of these the dict of
`topo_layers` keeps the last, and it alone is executed, but
`_aggregate_confidence` takes the priors of all. So `priors` is a sequence, one
for each node the LLM wrote, and may be longer than `ids` (the plan `Twice` of
`MCOrchestrator`). A list of dependencies that names one node twice is left out.

Abstractions: a polygon is where it came from (a node and a pair of prisms); a
confidence, a prior and the threshold are whole percentages; a request says
whether its anchors are reachable and which pairs of its prisms meet, instead of
coordinates; costs in USD, stage records, spans and text are left out. A mean of
floats is an exact fraction (`Mean`) of which its whole part is kept; where the
fraction is a whole percentage, the sum of several floats may come out just
under it, and both outcomes are possible (`Confidences`, `Lossy`): the code
reviews three nodes of prior 0.7 at the threshold 0.7, for `sum([0.7] * 3) / 3`
is less.

### GeoTraceWorkflow

`pc` is the workflow's `_stage`, with ends of its own. The workflow's state
survives every crash by replay, so a crash of the workflow worker is a
stuttering step. An activity other than `hitl_enqueue` has no effect outside the
history: its attempts are `AttemptFails` (one used up; at `MaxAttempts` the run
fails) and one completing action (`GuardPasses`, `PlanArrives`,
`NodeCompletes`, `SummaryArrives`, `FilterReturns`). `hitl_enqueue` is split
where the failures are: the server hands out an attempt (`StartEnqueue`), the
worker's code runs (`RunEnqueue`, perhaps after the server has given it up),
the completion arrives (`AckEnqueue`) or does not (`LoseEnqueue`), and a worker
may die with its queue (`WorkerCrash`). `Signal` is the review handler,
`Release` the end of `wait_condition`, `Stall` the case where building
`QueryOut` raises a validation error: not an `ApplicationError`, so Temporal
retries the workflow task for ever.

`EnqueueArgs` says what the activity passes to `HitlQueue.enqueue` as the plan.
The code passes `None`, and `enqueue` reads `plan.rationale`: with
`EnqueueArgs = {"None"}`, the code as it is, `Raises` is true of every first
enqueue in a process and no run ever waits for its review (`workflow_parks`).
`"plan"` is the value that `enqueue` declares and that the in-process runner and
the tests of the queue pass; with it the rest of the durable path, which the
exception hides, can be checked. The run `workflow` has both.

### ToolBatcher

A step is what a task does between two suspensions of `call`. The lock is fair,
as `asyncio.Lock` is: taken at once only if it is free and nobody waits, and
handed to the first in line. A future is named by the call that owns it.
`CancelInLine`, `CancelJoined` and `CancelRunning` are `CancelledError` at the
three kinds of suspension; cancelling a task that awaits a future cancels that
future, for everyone.

### LlmCache

A call suspends at the lookup, at every post and at the store. `Lookup` is the
read of the cache (a hit returns at once; a failing Redis raises), `PostFails`,
`PostMisread`, `PostUnparsable` and `PostAnswered` are the ways a post ends,
`Store` writes the entry and, for a plan, runs `_coerce_plan` on it after the
store as `PlannerAgent.plan` does, `Expire` is Redis's TTL. `Key` says what a
key is made of: the question, and not the anchors. `billed` counts what the
provider charged, `Stats` what the call reports. A payload is the request that
produced it and whether it is a plan.

### Rendezvous

`ComputePrisms` pairs the anchors as `_coerce_plan` does and computes each
prism, `FindRegions` is TGARD or DC-TGARD on every two prisms that share a
window, `Validate` the two gates. The plane is any set with a distance that is
symmetric and obeys the triangle inequality, times and speeds are integers, and
an ellipse is the set of places whose two distances add up to its axis: what
`ellipse_at` computes, without trigonometry. `EllipseAt` keeps the code's sum
of the two radii, which is where the model learns that all slices are equal.

`ellipse_polygon` inscribes 64 corners in that ellipse, in a projection around the
pair's own latitude. Which places by the rim it holds is left open: `EllipsePolygon`
holds whatever is inside by `Slack`, nothing that is outside by it, and of the
places in between any set that was chosen when the prism was computed (`rim`;
corners and projection do not depend on the time). A chord of 64 corners is
within a thousandth of the half-axes; the projection of a pair is true at its own
latitude and errs with the distance from it. `Slack` stands for both, any
positive number, and the properties say what is true up to it. A prism whose
ellipse has no width may lose any region (`Degenerate`).

### GapClusters

`near[c]` is what the R*-tree answers for the box of candidate c. `Merge` is an
iteration of lines 98-105, `EndMerge` the end of the loop, `Report` the body of
the loop over clusters with the choice of scorer, `Raise` the `IndexError` of
`prisms[i]` when ids run ahead of the list.

### A2A

A task calls `Card`, which answers from the cache or sends a GET; `Serve` is the
peer answering it, `Arrive` the entry being stamped and stored, `Upgrade` a peer
restarted with another card. `Post` sends the call, `Execute` and `Refuse` are
`register_a2a_routes`, `Answer` and `PostTimesOut` what the caller sees.
`httpx.Timeout` bounds each connect, each read and each write, so a body that
trickles in keeps an exchange alive: the clock ticks freely while exchanges are
under way, any of them may fail at any time, and `slowest` is the longest a GET
that brought a card has taken.

### McpServer

`Serve` is one turn of the loop, from `readline` to `drain`. `Write` puts an
answer into the pipe or the transport's buffer; `Drain` waits above the
high-water mark until `Resume`. A line is what `serve()` makes of it. `Ends` is
the end of the program, at the end of the input or by an exception: what the
transport still holds is lost with it, as nothing closes the writer.

### DemoPage

`Rerun` replaces a session's script; the old one is stopped at its next
`st.session_state` access, but a script in `run_until_complete` first runs to
the end of it, and `awaited` says whether its page still waits. `Begin`, `Plan`,
`NodeFails`, `Finish` are `_run` in the shared loop; `LoopBusy` the
`RuntimeError` of a second one. `StoreOut` and `StoreQ` are lines 348 and 349,
`Draw` the panels. `cost` is whose run the planner's `last_*` fields are of.
`torn` remembers the sessions in which a rerun came between lines 348 and 349: a
new result under the question of an older run, until the next run is stored.

### The scripts

`LiveCheck` has one action per wait of the Playwright script, beside a page that
loads, runs and draws at its own pace. `Rerun` is what `streamlit_app.py:313-316`
warns of: the map component reports back, the script runs again, and all panels
are taken away and drawn again, at any moment after the map is there and as often
as it likes; `gone` remembers that it took the validator's panel away between two
reads. `Ablation` runs an item, repeats a pass,
changes the configuration and reports; entries live in a dictionary that is
dropped with the orchestrator, or in Redis. `CiGate` has the steps of
`ci_local.sh` in their order, each reading the working tree as it is then, and
a developer who edits and commits in between; a file of content `both` imports an
optional dependency and is broken besides, which the probe cannot see where the
dependency is missing. `Migrations` has a runner's
statements one by one, since nothing makes a transaction of them, and each may
fail on its own.

### Pi-DPM

`PiDpmTrack` builds a normal track, moves each point by a bounded noise, injects
one anomaly (`Teleports`, `ExcessSpeeds`, `Freezes`) and fits it to the model's
length. Tracks lie on a line that starts eastwards; on it the envelopes are those
of speed, of acceleration and of curvature, which on a line is turning round (a
stop has the heading 0, that is east). The jerk is a smoothness term of the
residual and has no envelope. `PiDpmEval` scores two data sets in batches,
takes the 0.95 quantile of one as the threshold and ranks the other.
`PiDpmTrain` has the batches, epochs and the two halves of saving (open, which
empties the file, and write), processes that are killed and started again, and a
scorer that loads in between. `DdimSchedule` follows the level that x has and
the level the denoiser is told; a half may be rounded either way.
`Conversation` is `append_turn` with its two limits.

## 3. Runs

| Run | Instance | What it shows |
|---|---|---|
| `plan_graph` | every plan of at most 3 nodes over 3 ids | sound, minimal layers, or a rejection, exactly when no order exists; termination |
| `orchestrator_plans` | 1 run, 6 plans, every request of 144 | order, single execution, budget gates, dominance of a violation, provenance of regions |
| `orchestrator_runs` | 2 concurrent runs, 4 plans, 2 requests | review exactly if unsure (either way where rounding decides), no stalled run, refinement of `QueryRun` |
| `workflow` | 1 execution, 2 workers, 3 attempts, 1 crash, 5 plans, 4 requests, 2 decisions | reviewed answers, one row per process, gates, settlement, refinement of `QueryRun` |
| `tool_batcher` | 4 calls, 2 keys, one call may be cancelled | one execution per key; until a cancellation fresh and shared results, and every call returns |
| `demo`: `Rendezvous` | up to 4 anchors on a line, one pair of the LLM's, 2 prisms, 2 slices | up to a rim of 1 m no possible meeting missed and nothing out of reach shown; DC-TGARD = TGARD; the gate is exact for distinct times |
| `demo`: `DemoPage` | 2 sessions, 3 clicks, 1 other rerun, 3 plans | own results under their question, gated regions, no computation without a click, the loop comes free |
| `demo`: `LiveCheck` | 3 polls | exact verdicts though the page redraws itself, no result in time missed, the script exits |
| `detection`: `GapClusters` | every overlap relation of 4 gaps, negative threshold allowed | no gap lost; exact clusters where overlap is transitive; one scale |
| `detection`: `PiDpmTrack` | lengths 4 to 6 around the model's 5, 2 speeds, noise of 1, every index | normal tracks leave the envelope by noise and where padding begins only, real changes leave it further |
| `detection`: `PiDpmEval` | 4 tracks, 3 scores, 3 to calibrate, batches of 3 | order kept, the twentieth flagged, AUROC counts pairs |
| `detection`: `PiDpmTrain` | 2 processes, data of 1, 3 and 4 tracks, 2 kills | loaded models are trained, partial files are of kills, training ends |
| `detection`: `DdimSchedule` | 60 levels, up to 24 steps | noise is told, falls, and ends at 0 |
| `detection`: `Ablation` | 2 queries, Redis or dictionary | warm repeats free, the control pays |
| `detection`: `CiGate` | 2 files of 7 kinds, 2 edits | nothing red passes but in files the gate said it left out, and what that may hide; no false block |
| `detection`: `Migrations` | 2 runners, 3 files, 2 runs each | order, repetition only after a kill, an overlap or a lost row, runs end |
| `services`: `A2A` | 2 tasks, TTL 2, clock to 3, 2 cards | cards as recent as TTL and the slowest GET, at most one execution, callers know, calls end |
| `services`: `McpServer` | scripts of up to 4 lines of 6 kinds, pipes of 1, marks 1 and 0 | order, completeness while the server runs and what its end may lose, bounded buffer, answers arrive, the server ends |
| `services`: `LlmCache` | 2 calls, 2 questions, with and without anchors, Redis | entries belong to their keys, bounded cost, every call ends |
| `services`: `Conversation` | 2 conversations, 7 turns | history is the latest turns; nothing lost before the cap |
| `overshoot` | as `orchestrator_plans`; a budget of 2 units, a planner that costs 2 | violated: the run is answered with 3 |
| `unvalidated` | as `orchestrator_plans` | violated: regions returned that no validator saw |
| `workflow_parks` | as `workflow`, `EnqueueArgs = {"None"}` | violated: an unsure run fails instead of waiting |
| `tool_batcher_cancelled` | 3 calls, 2 keys | violated: after one cancellation nobody returns |

The properties of the last three passing runs are conjunctions of named parts,
one for each thing a user of the component relies on:

| Property | Its parts |
|---|---|
| `RegionsAreComplete`, `GateIsExact` | `MeetingIsFound`, `NothingOutOfReach`, `ConvergenceIsIdle`; `PassMeansReachable`, `NoFalseAlarm` of `Rendezvous` |
| `DemoIsHonest` | `OwnResults`, `GateHolds`, `RunsAreClicked` of `DemoPage`; `VerdictIsExact`, `ResultInTimeIsSeen` of `LiveCheck` |
| `ReportIsSound` | `EveryGapCovered`, `ExactIfTransitive`, `OneScale` of `GapClusters` |
| `ScoresAreSound` | `NormalStaysInside`, `AnomaliesAreReal` of `PiDpmTrack`; `NoiseIsTold`, `NoiseIsRemoved` of `DdimSchedule`; `BatchesKeepOrder`, `OnlyTheTailIsFlagged`, `AurocCountsPairs`, `PerfectIsPerfect` of `PiDpmEval` |
| `CheckpointsAreTrained` | `LoadedIsTrained`, `PartialIsKilled` of `PiDpmTrain` |
| `ScriptsAreSound` | `WarmRepeatIsFree`, `ControlPays` of `Ablation`; `OnlyExcludedMayFail`, `NoFalseBlock` of `CiGate`; `InOrder`, `OnceUnlessDisturbed` of `Migrations` |
| `ClientKnowsPeer` | `CardIsRecent`, `ExecutedOnce`, `CallerKnows` of `A2A` |
| `McpIsReliable`, `CallsAreSound`, `TurnsAreKept` | `AnswersInOrder`, `Backpressure` of `McpServer`; `EntriesMatchKeys`, `CostIsBounded` of `LlmCache`; `HistoryIsLatest`, `NothingLostBeforeCap` of `Conversation` |
| `DemoEnds`, `JobsEnd`, `ServicesEnd` | the liveness properties of their components |

They hold the components' type invariants too, as far as runs check them. Every
property of the table but the liveness properties is proved for every value of the
constants (section 4).

Why the bounds are enough:

- Three ids give cycles of length one to three, unknown ids, chains and joins;
  three nodes give repeated ids. The proofs lift the bound.
- The plans are the shapes the stub planner and the tests use, and those whose
  VALIDATE node comes first, last, twice or never, beside a node that suspends.
  Four nodes hold every dependency pattern `_execute_node` tells apart. The
  proofs lift this bound too.
- Token counts are in units of 400, the floor of a summary; budgets of 1 to 4
  units put the planner and the summary below, at and above the limit, and tools
  1, 3 and 8 put the limit inside, after and beyond a layer.
- Confidences of 30 and 90 and priors from -50 to 80 put a run below and above
  the thresholds, 70 in process and 60 in the workflow, half a point above 70 and
  exactly at it, with one number to sum (exact) and with several (perhaps rounded
  down); -50 is the prior no schema refuses. Of three prisms none, one pair or two
  pairs meet.
- Runs meet only in the queue; two make every conflict. Durable executions meet only in queues keyed by trace id; one is
  enough. Two workers and three attempts put two attempts of a run on different
  processes, and a late one beside the live one.
- Four calls of one or two keys are an owner, a duplicate that holds the lock, a
  later caller behind both, and a stranger.
- Two calls of the LLM cache make every race on one key and every mixture of a
  plan and a summary; two questions make a wrong key visible. Attempts have the
  code's own bound, so nothing of a call is cut off. Calls and questions may be
  swapped, so the first call is about the first question.
- Four gaps have every overlap graph in which a cluster can be split, repeated or
  hidden; a chain needs three. The theorems lift this bound and that of
  `rendezvous`, whose two prisms suffice because regions are of pairs, and whose
  four anchors give equal times, wrong order and a pair skipped in the middle.
- A TTL of two ticks and a clock that stops at 3 put an answer that arrives late on
  both sides of the expiry, and let an entry expire after an exchange that took a
  tick; two tasks and two cards make answers cross. The theorems lift this bound
  too.
- Four lines fill an output pipe of one, one place of the buffer and go past the
  high-water mark. Every order of the six kinds of line occurs in scripts of up
  to three; those of four leave out the unknown method and the failing call,
  which are answered as a request is.
- A place line with steps of 20 m, v = 10 m/s and times 0, 2, 4 puts an anchor at
  the edge of reach and just within the validator's 5%; movers begin at 0 or 20
  and end at 21 or 41. With a slack of 1 m there are places on the rim, inside and
  outside it, and every choice of those on it is explored.
- The page of the live check may draw itself again any number of times. Three polls
  put the result before, at and after the deadline.
- Sessions of the page meet in the loop, the planner and the cache: two are
  enough, one of which clicks while its own run goes on.
- Data of 1, 3 and 4 tracks with batches of 2 are less than a batch, a batch and
  a rest, and whole batches.
- Tracks of 4, 5 and 6 points are shorter than, as long as and longer than the
  model's 5, with every noise of -1, 0 and 1 at every point. A unit is half a
  metre: the envelopes of 25, 1 and 31 are 12.86 m/s, 0.5 m/s^2 and the speed of
  pi / 0.2 m/s below which turning round is too sharp; 7 and 15 are the slowest and
  the fastest normal speed (3.09 and 7.72 m/s), 18 and 34 the least and the
  greatest teleport along a diagonal (6 and 12 m, times the root of two; the least
  is half a metre more than the code's, so that it exceeds the fastest step with its
  noise, as `TracksAreKnown` asks), 57 and 99 the least and the greatest stride. The
  code's noise is normal with a deviation of 15 cm, so a bound of 1 is three
  deviations. The length of 24 is made small.
- 60 levels and up to 24 steps include 50 and 20, the code's defaults, in
  `EvalLevel` and `DdimSteps`, at full size.
- A history limit of 3 with a moved head of 2 and a summary of 3 keep the code's
  order 16 > 8 and fill everything with seven turns.
- The other bounds stop clocks, clicks, kills, edits and repeated runs
  (`MaxTime`, `MaxVersion`, `MaxClicks`, `MaxTouches`, `MaxKills`, `MaxEdits`,
  `MaxRuns`, `MaxTimes`, `MaxTurns`): each is at least two where a second one
  can meet the first.

`CHECK_DEADLOCK FALSE` stands in the configurations of instances whose runs end:
a state where all have ended is not a deadlock. Waiting for ever is what the
liveness properties exclude.

Every property of a passing run has a mutant, and a conjunction one for each of
its parts: the specification with one definition replaced by its slip violates
it (`PROJECT.json`, "mutants").

### Fairness

- `PlanGraph`: weak fairness of the loop. It is sequential code.
- `Orchestrator`: weak fairness of `Executing(r)` alone: the event loop runs
  what is ready. Nothing is assumed of planning, RETRIEVE and the summary: each
  begins with a Redis read and the client has no timeout. So `RunEnds` says that
  a run ends or waits for ever for one call outside the process; the wallclock
  budget does not end such a wait.
- `GeoTraceWorkflow`: weak fairness of `Proceed(w)`: a worker polls the queue,
  and `start_to_close_timeout` (30 s and 120 s) ends every attempt. Nothing is
  assumed of `RunEnqueue`, of crashes or of the reviewer, so `RunSettles` allows
  the wait for a decision that never comes.
- `ToolBatcher`: weak fairness of `Proceed(c)`: the event loop runs what is
  ready, and every execution of a tool ends.
- `LlmCache`: weak fairness of `Posts(c)`, for every post has a timeout of 60 s
  (of inactivity, so finite bodies are assumed here too),
  of lookups and stores only without Redis, whose client has no timeout. So
  `CallsEnd` says that a call ends or waits for Redis.
- `A2A`: weak fairness of `Exchange(t)`: an exchange ends by its answer, or by the
  client's timeout once nothing arrives for 20 s. This assumes finite bodies: a peer
  that sends a byte now and then for ever keeps a read alive, since the timeout is
  one of inactivity.
- `McpServer`: weak fairness of `ServerStep`, and of `Read`: the client reads
  what there is unless it hangs up. Nothing makes it write or close.
- `DemoPage`: weak fairness of `LoopStep`, since whoever is inside the loop runs
  it to its end, and of each session's script. Redis is not configured there.
- `LiveCheck`: weak fairness of the script, whose waits all have timeouts, and
  none of the page.
- `PiDpmTrain`, `Migrations`: weak fairness of each process; kills are finite. For
  `Migrations` this assumes that every statement ends, by the database's answer or
  by an error of the connection: no lock is waited for without end.
- The other modules state safety only and assume no fairness.
- In `MCDemo`, `MCDetection` and `MCServices` one fairness conjunct may serve two
  components, as `WF(TrainerGoesOn(k) \/ RunnerGoesOn(k))`: of the two only the
  one that `part` names has any step, so it is the fairness of that one.

### Where code and documentation disagree

`PROJECT.json` ("findings") quotes the lines. Each violated run above is one: the
budget may be overshot by the summary's floor and prompt; regions reach an answer
without a validator; `hitl_enqueue` raises on every first attempt; a cancelled
call of the batcher blocks it for good.

Seen while modelling, without a run: a plan is served for other anchors from the
cache, and a malformed one until its TTL (`Key`, `Store` of `LlmCache`); every
time slice of a prism is the whole prism (`EllipseAt`); the page can lose a
finished result, shows another session's cost, and keeps a new result under the
question of an older run when a rerun comes between `streamlit_app.py:348` and 349
(`DemoPage`); an MCP client that closes its input early may lose answers (`Ends`);
an equal time of two anchors hides a jump from the gate (`PassMeansReachable` asks for
distinct times); a file executed whose row could not be written is executed again
(`RecordFails`); the noise of a normal track leaves the envelope of acceleration by
itself (`NormalStaysInside`); `ci_local.sh` excuses a file that is broken behind an
import it lacks (`Excused`); a cold pass of the ablation may be
warm; the pre-push hook checks the working tree and not the commit; equal scores
are ranked by position; a freeze of one point changes nothing; processes of one
launch overwrite each other's checkpoint; a full summary never changes again; no
partial answer when the budget is exceeded; the durable threshold is fixed at 0.6 against 0.7 in process; the
port's VALIDATE is stricter than the orchestrator's; the review queue is in
memory, not in Postgres; `confidence_prior` has no range, so a negative one ends
a run in a 500 with its review queued, or stalls a workflow; the similarity scan
of the cache finds nothing, because nothing writes what it looks for; gaps are
scored by an untrained model; track points in degrees are treated as metres; and
others of less weight.

## 4. Theorems

All theorems are for every value of the constants under the assumptions the
modules declare:

- `MaxNodesIsNat`; `PlansAreExecutable` (what `_coerce_plan` lets through:
  finitely many nodes, known dependencies, an order exists);
  `RequestsAreTyped`; `CostsAreNat`; `ListsShareNoRegion`, `AttemptsArePositive`,
  `ArgsAreKnown` and `DecisionsAreTyped` of the durable port; `CallersAreKnown`
  (no caller is the absent value);
- `MetricAssumption` (distances are natural, symmetric and obey the triangle
  inequality), `SpeedAssumption`, `AnchorAssumption`, `BoundAssumption` (the slack is
  positive); `PageIsKnown` (a stored plan
  lists dependencies before the nodes that have them); `CheckIsKnown`;
- `NIsNat`; `TrainingIsKnown`, `HarnessIsKnown`, `GateIsKnown`, `RunnersAreKnown`
  (sizes, numbers of files, queries and epochs); `TracksAreKnown` (with its noise a
  normal speed is within the envelope, and to stop at once is not and is more than
  the noise makes of an acceleration; a jump is longer than a step and a stride than
  the envelope allows; tracks have four points at least), `SplitsAreKnown` (sizes),
  `LevelsAreKnown` (the eval level is one of the schedule's);
- `ClockAssumption`; `CallsAreKnown` (the absent values are not questions or payloads);
  `McpIsKnown` (the marks and the pipe have sizes, the low mark is not above the
  high one); `TalkIsKnown` (the head of a history is part of it).

They say nothing of the number of nodes, runs, plans, gaps, anchors, tasks,
callers, sessions, workers or prices. Where `MCDemo`, `MCDetection` or
`MCServices` gives an instance its constants, they are constants of that module in
turn, with their values in the `.cfg`; a theorem of the form `X!Spec => []P` is
about the component alone, for all of them.

Sums, flattened lists and lists of regions are recursive functions over data. The
library's induction theorems cannot be used (they take an operator), so what is
needed of such a function is proved by a least counterexample: the set of the
lengths at which it fails is a set of naturals and, were it not empty, would have a
least element (`LeastNat`, from the well-foundedness of `<`), which its
recursive equation refutes.

### PlanGraphProofs

`TypeCorrect`, `LayersAreSound`, `EveryIdOnce`, `LayersAreEarliest`,
`VerdictIsExact`. The inductive invariant adds to the properties the shape of
the variables (`remaining` is the plan without what is placed), `Disjoint`,
`Waiting` (a node that is left has a dependency outside the layers before the
last: without it `NoNeedlessBarrier` is not inductive) and `Stopped` (what each
verdict says of the rest). That a rejected plan has no order is shown with
`LeastNat`: of the nodes left, the one of least rank would have been ready. That
a layered plan has one is shown with the rank "number of my layer".

### OrchestratorProofs

`TypeCorrect`, `DependenciesFirst`, `EachNodeOnce`, `BudgetHolds`,
`ViolationWins`, `Provenance`, `ReviewIsExact`, and
`ImplementsQueryRun`, that the runs of a process implement the abstract
specification. The inductive invariant `IInv` is `TypeOK`, `OneRowEach` of the
queue, and for every run:

- `Scheduled`: the layer is what `topo_layers` yields for the results so far and
  only its nodes are under way. It gives the order of nodes and their single
  execution.
- `Computed`: a region rests on prisms already there, and what a VALIDATE node
  left is still what it would leave. The second half is why a violation cannot
  be lost: the results a node read never change, so a VALIDATE node that
  reached the anchors of an impossible request left a violation, and violations
  never become results.
- `Charged`: the ledger, with the limits at each stage.
- `Concluded`: answer and review row are made in one step.

The lemma `Frame` carries every other run over the step of one (runs share only
the queue, whose rows are per run), so each action has one lemma about one run. An answered
run has a result for every node by `AllPlaced`: while a node is left, one of
least rank is in the next layer. The refinement maps each step to a step of
`QueryRun` or a stutter; `Shows` is what the abstract state sees of a run.

`ReviewIsExact` speaks of the exact mean, a fraction: below the threshold an answer
is reviewed, above it not, and only at the threshold rounding decides
(`ConfidenceSides`).

`NodeResultsProofs` holds the facts on layers, regions, the sums behind
`Mean` and the review queue, which the durable port uses as well.

### GeoTraceWorkflowProofs

`TypeCorrect`, `OneRowEach`, `ReviewIsFinal`, `ViolationWins`, `BudgetHolds`,
`ProbabilitiesDoNotStall`, and `ImplementsQueryRun`. `IInv` has `Scheduled`,
`Computed`, `Charged` and `Concluded` of the in-process runs, in the form the
port's other ledger and its signal give them, and `Attempted`, which has no
counterpart there: whatever attempt at an activity is still under way or not yet
acknowledged is of a run that is unsure of its draft, and an attempt that has
returned has left a row. Without it `AnswerIsReviewed` is not inductive, for an
attempt the server gave up may write its row at any later time. `QueuesKeepRows`
says that a process's queue has at most one row of a run; it is the memory of one
process, and so is the property.

`ProbabilitiesDoNotStall` is the converse of the run that finds a stalled
workflow: if no prior of a plan is negative, none stalls.

### ToolBatcherProofs

`TypeCorrect`, `Deduplicated`, `ResultsAreOwn`, `NoEntryIsLeft`. `Shape` holds
whatever is cancelled: the lock is kept across a suspension only by a call that
waits for the future it found, the line for the lock has each waiting call once,
and the entry of a key belongs to its execution until that has left. `Clean` holds
until a call is cancelled: every entry is of an execution under way or about to
leave, an outcome is that of a settled future of the same key, and, since the lock
is fair, an execution that was over when a call came stands in line before it.
From the last comes that no call is answered by an execution that was over
when it came.

### DetectionProofs

`TypeCorrect`, `NoGapLost`, `ExactClusters`, `RankedOnOneScale`, and
`SoundReport`, that is all three. The inductive
invariant says that what the loop has passed is seen, that every seen id is in a
merged cluster and that each cluster is the neighbourhood of the prism that
opened it; a gap that was skipped is therefore in the cluster that hid it. Where
the boxes overlap transitively, a neighbourhood is closed and two of them are
equal or disjoint, so no prism that opens a cluster is in an earlier one.

`CheckpointsAreWhole` (`CheckpointsAreTrained`): a process has made, in its epoch,
exactly the batches its untrained items leave over (`Trained`), so what is saved
is the average of a whole training; a partial file is of the process that has it
open or of a kill (`OnDisk`).

`ScriptsDoWhatTheyAreFor` (`ScriptsAreSound`) puts together three:

- `MigrationsTakeEffectInOrder`: what lies behind a runner is recorded (`Behind`);
  without a kill, an overlap and a row that could not be written, one runner at a
  time knows all rows ahead of it (`Alone`).
- `GateKeepsCi`: what the gate has found out, stage by stage, of a tree that has
  not changed since the push (`FoundOut`).
- `CacheIsWhatSaves`: what a row of the cold pass leaves in the dictionary
  (`IsRemembered`) and what its repeat costs because of it (`IsCheaper`).

`ScoresAreWorthComparing` (`ScoresAreSound`) puts together three:

- `TracksAreWhatTheyAreLabelled`: the steps of a noisy arc are its speed up to twice
  the noise, so their differences are within four times the noise and none turns
  round, but for the stop where padding begins (`NormalIsSeenInside`); an injection changes
  the speed at the index it acts on by more than the envelope of acceleration and
  more than four times the noise (`JumpLeaves`, `ExcessLeaves`, `FreezeLeaves`).
- `NoiseIsToldAndRemoved`: entry z of the schedule is a rounding of
  start * (steps - z) / steps (`IsLevel`), either way at a half; with no more steps
  than levels two neighbours are too far apart to be rounded to the same level
  (`LevelsFall`).
- `MetricsMeanWhatTheySay`: the scores collected are a start of the split's
  (`IsStartOf`), so at the end they are the split's, label by label. The k-th
  smallest score has fewer than k tracks below it and k at least at or below
  (`NthIs`), so of the two ranks the quantile lies between, at most a twentieth of the
  tracks is above the lower, and a twentieth, one at least, is not below the higher
  (`QuantileIs`), for a calibration split of any size. Ranks are places in a total order; a
  sum of places counts pairs (`SumOfPlaces`), those within the positives are
  n(n+1)/2 (`PairsWithin`), and what is left are pairs of a negative and a
  positive above it. `SumSet` is defined by recursion on a set; that the recursion has a
  solution, and what it sums to, is shown by a least counterexample on the
  cardinality.

### DemoProofs

Of `Rendezvous`: `TypeCorrect`, `DualConvergenceIsIdle`, `NoMeetingMissed`,
`RegionsAreInReach`, `GateIsTransitive`, `NoRefusalOfReachable`; `FindIsComplete` and
`GateDecides` put them together. The geometry is two uses of the triangle inequality: a
place reached at a time has distances from the two anchors that add up to what the
speed allows; with the slack to spare it is in the polygon whatever the corners do
(`LensInPolygon`), it makes an ellipse with a width (`SlackIsWidth`), and so it is in
every slice of both movers, while no place of a polygon is out of reach by more than
the slack (`PolygonIsNear`). The theorems hold for every slack and every choice of the
places within it (`ByTheRim`), and say nothing of a meeting on the rim, which the
64-gon of the code may miss. And the speeds needed between neighbours bound the speed
needed across a chain, by induction along the anchors in the order of time. That
induction is a least counterexample on the number of anchors in between.

`VerdictsAreDeserved`: the invariant relates the time of the result to the
script's clock (`Clocked`) and what the script has read to what the page shows,
panel by panel, though each is read at another moment and the page may draw itself
again between two (`ReadOff`); a verdict against a page that had all its panels is
excused by what a redraw took away from the script (`gone`), and by nothing else.

`DemoIsHonestAlways` (`DemoIsHonest`) is of the page and the check together. For
the page, what a session holds is a result of its own run, of the plan that is
stored for its question, with regions that a VALIDATE node of that plan depends
on (`Good`, `IsOwn`). That last part is a fact about plans: `Regions` and
`Validators` are lists built by recursion along a plan. A second invariant
(`NamedInv`) follows the question: the result a script holds is of the question of
its page from the return of the run on (`Waits`), and stays so unless a rerun comes
between the two stores (`torn`).

### ServicesProofs

Of `A2A`: `TypeCorrect`, `CardsAreRecent`, `CallsRunOnce`, `CallersKnow`, together
`PeerIsKnown`. The invariant behind the first: a card that arrived was the peer's own when its GET
began or later, and no GET that brought one took longer than `slowest`, which nothing
in the code bounds. Behind the others: a POST is
at the peer until its handler has run or refused, never afterwards, and the reply
is what the handler made.

Of `LlmCache`: `AnswersAreFor` (`CallsAreSound`). An entry is of a call that is over
(`StoredIsOver`), so it is never the answer of a call still on its way; and what a
call has been charged is bounded by its round and attempt (`Spent`).

Of `McpServer`: `McpAnswersInOrder` (`McpIsReliable`). What was read, what is in the
pipe and what is in the transport are, in this order, the answers to the lines the
server has taken (`InOrder`), which a step of the server extends by one; the
transport is above its high-water mark only while `drain()` waits (`Held`). The end
of the program takes what is in the transport with it, so the bound on what may be
missing then, the latest `HighWater` answers, is the one `Held` gives (`BufferLost`,
`EndLosesTheLast`).

Of `Conversation`: `NoTurnIsLost` (`TurnsAreKept`). Nothing is dropped from a history
before it was full once, and a summary that is not full followed by the history
is the text of all turns (`Fits`). The text is a flattened sequence; that the text
of a concatenation is the concatenation of the texts is shown by a least
counterexample on the length.

### Only model-checked

- Liveness: `Terminates`, `RunEnds`, `RunSettles`, `CallsReturn`, `DemoEnds`,
  `JobsEnd`, `ServicesEnd`. Liveness under fairness is out of the prover's reach.

## 5. Not modelled

- Floating point: trigonometry, projections, the corners of polygons, embeddings, the network
  of Pi-DPM, the formulas of scores. The modules keep the structure they are
  used in: a metric, a relation of overlap, an order of scores.
- Of what is modelled: the read of a checkpoint is one step (`FromCheckpoint`); the
  jerk has no envelope, tracks lie on a line, and their noise is bounded where the
  code's is normal; a gap for which a built model raises is
  left open (`raised` of `GapClusters`), and ids that a negative threshold shifts are
  modelled but no property judges them; a list of dependencies names a node once.
- Text: prompts, patterns of the guards, router, rewriter, summaries, compression
  of prompts.
- Bookkeeping nothing reads back: stage records, spans, metrics.
- `GapDetectorAgent.last_tokens_*`: shared and read after an await, but never
  set, so GAPS nodes report zero.
- Code no path of the program calls and that has no state: the hybrid retriever,
  the reranker, the agent tools, the query router and rewriter.
- Straight-line scripts: `offline_eval`, `validator_audit`, `online_monitor`,
  `seed`, `bench`, `healthcheck`, the front end, and `ais_mcp`, whose calls are
  one SQL query each.
- The Space's copies of modules of `app/`: near copies. What the page does to its
  planner, cache and validator is in `DemoPage`.

## 6. Plan

Done, in this order: `PlanGraph` with its proofs; `NodeResults`, `HitlQueue`,
`QueryRun`, `Orchestrator`; `GeoTraceWorkflow`; `ToolBatcher`;
`OrchestratorProofs`; `GapClusters`, `Rendezvous` and `A2A` with their proofs;
`LlmCache`; `DemoPage`; `McpServer`; `Ablation`, `LiveCheck`, `CiGate`,
`Migrations`; the four Pi-DPM modules; `Conversation`.

Then the proofs of what came after `A2A`: the durable port, the batcher, the
services, the jobs of `DetectionProofs`, the page and its check, the scores of
Pi-DPM.

Left, in order of what is at stake:

1. `LlmCache` under `Orchestrator`: today the orchestrator takes any plan from
   its planner; composed, the anchors of a cached plan would reach the prisms.
