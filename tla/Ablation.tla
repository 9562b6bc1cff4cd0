------------------------------ MODULE Ablation ------------------------------
(* The cache ablation, evaluation/ablation.py: the golden set is run twice *)
(* (cold, then warm) by an orchestrator with the response cache, and twice *)
(* by one without; means and totals of the four passes are reported.  The  *)
(* cache is a dictionary of the orchestrator's own, or a Redis server that *)
(* outlives the harness and forgets at the TTL.                            *)
EXTENDS Naturals, SequencesExt

CONSTANT N  \* queries of the golden set; their questions differ

AblationAssumption == N \in Nat \ {0}

VARIABLES redis,   \* a Redis server answers the ping of connect()
          cache,   \* its entries
          config,  \* "on", "off", or "reported"
          pass,    \* "cold" or "warm"
          rows     \* per configuration and pass, the rows so far

vars == <<redis, cache, config, pass, rows>>

Item == 1..N
Pass == {"cold", "warm"}
Call == {"plan", "summary"}

(* A payload is "good", or JSON that is no valid plan ("bad").             *)
Entry == [call : Call, item : Item, is : {"good", "bad"}]

EntriesOf(call, item) == {e \in cache : e.call = call /\ e.item = item}

(* What an LLM call for a query costs: they differ from query to query.    *)
Price(item) == item

Init ==
    /\ redis \in BOOLEAN
    /\ cache \in IF redis
                 THEN {[call : {"plan"}, item : S, is : {"good"}] : S \in SUBSET Item}
                 ELSE {{}}
    /\ config = "on" /\ pass = "cold"
    /\ rows = [c \in {"on", "off"} |-> [p \in Pass |-> <<>>]]

(* A slip: call_llm_json of the hosted copy, which asks the cache always.  *)
EnabledAlways == TRUE

(* semantic_cache_enabled, which the harness sets for each configuration   *)
Enabled == config = "on"

(* A slip: only a summary is stored.                                       *)
StoredIfText(e) == IF Enabled /\ e.call = "summary" THEN {e} ELSE {}

(* What a paid call leaves in the cache                                    *)
Stored(e) == IF Enabled THEN {e} ELSE {}

(* What a call may bring: a cached payload for nothing, or one that is     *)
(* paid for and stored; one that is not cached may also fail.  An entry is *)
(* found again because the key names the question.                         *)
Answers(call, item) ==
    IF Enabled /\ EntriesOf(call, item) # {}
    THEN {[is |-> e.is, price |-> 0, new |-> {}] : e \in EntriesOf(call, item)}
    ELSE {[is |-> "none", price |-> 0, new |-> {}]} \cup
         {[is |-> x, price |-> Price(item),
           new |-> Stored([call |-> call, item |-> item, is |-> x])] :
             x \in IF call = "plan" THEN {"good", "bad"} ELSE {"good"}}

(* One query of _run_pass.  A run ends with an answer, or raises: no plan, *)
(* an invalid one, a budget or a kinematic violation between the two calls *)
(* (stops), no summary.  A failed run's row has no cost.                   *)
RunItem ==
    /\ config # "reported" /\ Len(rows[config][pass]) < N
    /\ LET item == Len(rows[config][pass]) + 1
       IN  \E plan \in Answers("plan", item), stops \in BOOLEAN :
              \E answer \in IF plan.is = "good" /\ ~stops
                            THEN Answers("summary", item)
                            ELSE {[is |-> "none", price |-> 0, new |-> {}]} :
                  /\ cache' = cache \cup plan.new \cup answer.new
                  /\ rows' = [rows EXCEPT ![config][pass] = Append(@,
                        [ok |-> answer.is = "good", spent |-> plan.price + answer.price])]
    /\ UNCHANGED <<redis, config, pass>>

(* _config: the warm pass is an identical repeat by the same orchestrator. *)
Repeat ==
    /\ config # "reported" /\ pass = "cold" /\ Len(rows[config].cold) = N
    /\ pass' = "warm"
    /\ UNCHANGED <<redis, cache, config, rows>>

(* The next configuration bootstraps an orchestrator of its own.           *)
NewCache == IF redis THEN cache ELSE {}

NextConfig ==
    /\ config = "on" /\ pass = "warm" /\ Len(rows[config].warm) = N
    /\ config' = "off" /\ pass' = "cold"
    /\ cache' = NewCache
    /\ UNCHANGED <<redis, rows>>

Report ==
    /\ config = "off" /\ pass = "warm" /\ Len(rows[config].warm) = N
    /\ config' = "reported"
    /\ UNCHANGED <<redis, cache, pass, rows>>

(* Redis drops an entry at its TTL; the dictionary keeps it.               *)
Expire ==
    /\ redis /\ config = "on"
    /\ \E e \in cache : cache' = cache \ {e}
    /\ UNCHANGED <<redis, config, pass, rows>>

Next == RunItem \/ Repeat \/ NextConfig \/ Report \/ Expire

Spec == Init /\ [][Next]_vars

(* _agg: failed rows are in no mean.                                      *)
Ok(c, p) == SelectSeq(rows[c][p], LAMBDA r : r.ok)

(* The harness's own state, and a plain dictionary that holds nothing of   *)
(* a configuration without the cache.                                      *)
TypeOK ==
    /\ cache \subseteq Entry
    /\ \A c \in DOMAIN rows : \A p \in Pass : \A k \in DOMAIN rows[c][p] :
           k \in Item /\ rows[c][p][k].spent \in {0, Price(k), 2 * Price(k)}
    /\ config # "on" /\ ~redis => cache = {}

(* With the in-memory cache, what the harness is there to show: the repeat *)
(* of a query that was answered costs nothing, and one that was only       *)
(* planned does not pay for its plan again.                                *)
WarmRepeatIsFree ==
    ~redis => \A k \in DOMAIN rows.on.warm :
        /\ rows.on.cold[k].ok => rows.on.warm[k].spent = 0
        /\ rows.on.cold[k].spent > 0 => rows.on.warm[k].spent <= Price(k)

(* The control is one: without the cache no answer of either pass was      *)
(* free, also after a configuration that filled a cache, or with a Redis   *)
(* full of an earlier invocation's answers.                                *)
ControlPays ==
    \A p \in Pass : \A k \in DOMAIN rows.off[p] :
        rows.off[p][k].ok => rows.off[p][k].spent = 2 * Price(k)

=============================================================================
