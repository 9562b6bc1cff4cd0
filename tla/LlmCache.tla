------------------------------ MODULE LlmCache ------------------------------
(***************************************************************************)
(* TokenOptimizer (app/services/token_optimizer.py) over SemanticCache     *)
(* (app/services/semantic_cache.py): concurrent LLM calls that look up a   *)
(* key, post to the provider with retries and one JSON correction, store   *)
(* what came back, and, for a plan, check it (PlannerAgent.plan).          *)
(*                                                                         *)
(* A call suspends at the lookup, at every post and at the store; between  *)
(* two suspension points it runs alone on the event loop.                  *)
(***************************************************************************)
EXTENDS Integers, FiniteSets

CONSTANTS
    Call,         \* the LLM calls of all runs of the process
    Question,     \* what the keys are made of
    AnchorSets,   \* the anchors requests carry
    NoAnchors,    \* the request without anchors
    Nothing,      \* no entry, no payload
    Redis         \* is there a Redis (entries expire), or the dict in memory?

MaxAttempts == 3  \* stop_after_attempt(3)
MaxCharged == 7   \* the count stops here, above what a call can be charged

VARIABLES
    req,      \* req[c]: what call c is for
    pc,       \* "lookup", "posting", "storing", or how the call ended
    attempt,  \* attempt[c]: number of the post within this invocation
    round,    \* round[c]: 1, or 2 once the JSON correction was sent
    payload,  \* payload[c]: what the call has to return
    cache,    \* cache[k]: the stored payload
    charged,  \* charged[c]: posts the provider worked on and charges for
    stats,    \* stats[c]: those whose usage came back
    reported  \* reported[c]: those the call returned to its caller

vars == <<req, pc, attempt, round, payload, cache, charged, stats, reported>>

(* thrifty: the max_tokens of the request is below the tokens of a big plan. *)
Request ==
    [kind : {"llm.json"}, question : Question,
     anchors : AnchorSets \cup {NoAnchors}, thrifty : BOOLEAN]
    \cup [kind : {"llm.text"}, question : Question,
          anchors : {NoAnchors}, thrifty : {FALSE}]

(***************************************************************************)
(* A payload that parsed, and who asked for it.  A plan does not fit the   *)
(* schema, or its PRISM node names a pair, or none; a big one (without a   *)
(* pair here) expects more tokens than a thrifty request allows.           *)
(***************************************************************************)
Payload == [by : Call, is : {"text", "malformed", "paired", "unpaired", "big"}]

NoneAssumption ==
    /\ NoAnchors \notin AnchorSets /\ Nothing \notin Payload /\ IsFiniteSet(Call)
    /\ Redis \in BOOLEAN

(* A slip: one key for both ways of asking. *)
KeyOfQuestion(r) == <<"llm.text", r.question>>

(* cache_key: the question (a plan's has the domain too), and nothing of    *)
(* the anchors, the budget, or the results to be summarized.               *)
Key(r) == <<r.kind, r.question>>

Keys == {"llm.json", "llm.text"} \X Question

Ends == {"returned", "planned", "GuardrailTripped", "PlanInfeasible",
         "rejected", "HTTPError", "JSONDecodeError", "KeyError", "RedisError"}

Init ==
    /\ req \in [Call -> Request]
    /\ pc = [c \in Call |-> "lookup"]
    /\ attempt = [c \in Call |-> 1]
    /\ round = [c \in Call |-> 1]
    /\ payload = [c \in Call |-> Nothing]
    /\ cache = [k \in Keys |-> Nothing]
    /\ charged = [c \in Call |-> 0]
    /\ stats = [c \in Call |-> 0]
    /\ reported = [c \in Call |-> 0]

(***************************************************************************)
(* _coerce_plan: an invalid plan is refused (a ValueError, or the KeyError *)
(* of a missing "nodes"), a PRISM node takes the pair it names or the      *)
(* anchors of the request, and the plan must fit the budget.               *)
(***************************************************************************)
Coerce(p, r) ==
    IF r.kind = "llm.text" THEN "returned"
    ELSE IF p.is = "malformed" THEN "rejected"
    ELSE IF p.is # "paired" /\ r.anchors = NoAnchors THEN "GuardrailTripped"
    ELSE IF p.is = "big" /\ r.thrifty THEN "PlanInfeasible"
    ELSE "planned"

Hit(c) == cache[Key(req[c])]

(* n more posts are charged to call c. *)
Charge(c, n) ==
    charged' = [charged EXCEPT ![c] = IF @ + n > MaxCharged THEN MaxCharged ELSE @ + n]

(* The lookup answers: a hit costs nothing and returns at once. *)
Lookup(c) ==
    /\ pc[c] = "lookup"
    /\ LET hit == Hit(c)
       IN  IF hit = Nothing
             THEN /\ pc' = [pc EXCEPT ![c] = "posting"]
                  /\ UNCHANGED payload
             ELSE /\ pc' = [pc EXCEPT ![c] = Coerce(hit, req[c])]
                  /\ payload' = [payload EXCEPT ![c] = hit]
    /\ UNCHANGED <<req, attempt, round, cache, charged, stats, reported>>

(* Redis answers with an error: nothing catches it, not even when the       *)
(* answer to be stored is already there and paid for.                       *)
CacheFails(c) ==
    /\ Redis
    /\ pc[c] \in {"lookup", "storing"}
    /\ pc' = [pc EXCEPT ![c] = "RedisError"]
    /\ UNCHANGED <<req, attempt, round, payload, cache, charged, stats, reported>>

(* A slip: the attempts are counted from one again after every second failure. *)
RetriedForEver(c) == IF attempt[c] = 2 THEN 1 ELSE 2

(* A slip: four attempts. *)
OneMoreAttempt(c) == attempt[c] <= MaxAttempts

Retried(c) == attempt[c] + 1

AttemptsLeft(c) == attempt[c] < MaxAttempts

(***************************************************************************)
(* The post fails (httpx.HTTPError): it may have been worked on.  tenacity *)
(* posts again, three times in all, and then raises.                       *)
(***************************************************************************)
PostFails(c) ==
    /\ pc[c] = "posting"
    /\ \E worked \in {0, 1} : Charge(c, worked)
    /\ IF AttemptsLeft(c)
         THEN /\ attempt' = [attempt EXCEPT ![c] = Retried(c)]
              /\ UNCHANGED pc
         ELSE /\ pc' = [pc EXCEPT ![c] = "HTTPError"]
              /\ UNCHANGED attempt
    /\ UNCHANGED <<req, round, payload, cache, stats, reported>>

(* The answer has another shape than expected: not retried. *)
PostMisread(c) ==
    /\ pc[c] = "posting"
    /\ Charge(c, 1)
    /\ pc' = [pc EXCEPT ![c] = "KeyError"]
    /\ UNCHANGED <<req, attempt, round, payload, cache, stats, reported>>

(* The text of a JSON call does not parse: one correction, then it raises. *)
PostUnparsable(c) ==
    /\ pc[c] = "posting"
    /\ req[c].kind = "llm.json"
    /\ Charge(c, 1)
    /\ stats' = [stats EXCEPT ![c] = @ + 1]
    /\ IF round[c] = 1
         THEN /\ round' = [round EXCEPT ![c] = 2]
              /\ attempt' = [attempt EXCEPT ![c] = 1]
              /\ UNCHANGED pc
         ELSE /\ pc' = [pc EXCEPT ![c] = "JSONDecodeError"]
              /\ UNCHANGED <<round, attempt>>
    /\ UNCHANGED <<req, payload, cache, reported>>

(* The pair a plan names is one of the anchors in its prompt. *)
PostAnswered(c) ==
    /\ pc[c] = "posting"
    /\ \E p \in Payload :
          /\ p.by = c
          /\ p.is = "paired" => req[c].anchors # NoAnchors
          /\ (p.is = "text") = (req[c].kind = "llm.text")
          /\ payload' = [payload EXCEPT ![c] = p]
    /\ Charge(c, 1)
    /\ stats' = [stats EXCEPT ![c] = @ + 1]
    /\ pc' = [pc EXCEPT ![c] = "storing"]
    /\ attempt' = [attempt EXCEPT ![c] = 1]
    /\ UNCHANGED <<req, round, cache, reported>>

(* A slip: after a correction only the last answer is counted. *)
LastStats(c) == IF stats[c] = 0 THEN 0 ELSE 1

Stats(c) == stats[c]

(* The payload is stored before anything looks at it; then the call returns. *)
Store(c) ==
    /\ pc[c] = "storing"
    /\ cache' = [cache EXCEPT ![Key(req[c])] = payload[c]]
    /\ reported' = [reported EXCEPT ![c] = Stats(c)]
    /\ pc' = [pc EXCEPT ![c] = Coerce(payload[c], req[c])]
    /\ UNCHANGED <<req, attempt, round, payload, charged, stats>>

(* ex=semantic_cache_ttl_s; the dict in memory ignores it. *)
Expire(k) ==
    /\ Redis
    /\ cache[k] # Nothing
    /\ cache' = [cache EXCEPT ![k] = Nothing]
    /\ UNCHANGED <<req, pc, attempt, round, payload, charged, stats, reported>>

Posts(c) == PostFails(c) \/ PostMisread(c) \/ PostUnparsable(c) \/ PostAnswered(c)

CallStep(c) == Lookup(c) \/ CacheFails(c) \/ Posts(c) \/ Store(c)

Next == (\E c \in Call : CallStep(c)) \/ (\E k \in Keys : Expire(k))

(* Posts time out after 60 s.  The Redis client has no timeout; the dict in *)
(* memory answers at once.                                                 *)
Spec ==
    /\ Init /\ [][Next]_vars
    /\ \A c \in Call : WF_vars(Posts(c)) /\ (Redis \/ WF_vars(CallStep(c)))

-----------------------------------------------------------------------------
(* Every variable has its type. *)
TypeOK ==
    /\ req \in [Call -> Request]
    /\ pc \in [Call -> {"lookup", "posting", "storing"} \cup Ends]
    /\ attempt \in [Call -> 1..MaxAttempts]
    /\ round \in [Call -> 1..2]
    /\ payload \in [Call -> Payload \cup {Nothing}]
    /\ cache \in [Keys -> Payload \cup {Nothing}]
    /\ charged \in [Call -> Nat] /\ stats \in [Call -> Nat] /\ reported \in [Call -> Nat]

(***************************************************************************)
(* An entry was produced for its key, and so was what a call returns,      *)
(* whichever of the concurrent misses stored last: no question is answered *)
(* with another's text, no plan is taken for a summary.                    *)
(***************************************************************************)
EntriesMatchKeys ==
    /\ \A k \in Keys : cache[k] # Nothing => Key(req[cache[k].by]) = k
    /\ \A c \in Call : payload[c] # Nothing =>
           /\ req[payload[c].by].kind = req[c].kind
           /\ req[payload[c].by].question = req[c].question

(***************************************************************************)
(* What a call may cost: at most three posts for each of two rounds, and   *)
(* all of it unreported unless it returns; a hit is free.                  *)
(***************************************************************************)
CostIsBounded ==
    \A c \in Call :
        /\ charged[c] <= 2 * MaxAttempts
        /\ stats[c] <= charged[c] /\ stats[c] <= 2
        /\ pc[c] \in {"returned", "planned"} =>
               reported[c] = IF payload[c].by = c THEN round[c] ELSE 0

(* Every call ends, however its posts and the cache fail; one that does not *)
(* waits for Redis.                                                        *)
CallsEnd ==
    <>[](\A c \in Call :
            pc[c] \in Ends \/ (Redis /\ pc[c] \in {"lookup", "storing"}))

=============================================================================
