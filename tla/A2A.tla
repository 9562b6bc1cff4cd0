-------------------------------- MODULE A2A --------------------------------
(***************************************************************************)
(* The A2A layer (app/a2a/protocol.py): tasks of one process ask one peer   *)
(* for its capability card through A2AClient's cache and then post a        *)
(* JSON-RPC call to it; the peer serves what register_a2a_routes installs.  *)
(* Each task suspends at its GET and its POST, so answers come in any order.*)
(***************************************************************************)
EXTENDS Integers

CONSTANTS
    Task,       \* the concurrent users of one A2AClient
    TTL,        \* 60.0 s: how long a card is taken from the cache
    MaxTime,    \* bound: the clock stops here
    MaxVersion  \* bound: versions of the peer's card

ASSUME ClockAssumption ==
    TTL \in Nat /\ MaxTime \in Nat /\ MaxVersion \in Nat \ {0}

VARIABLES
    now,       \* time.monotonic()
    version,   \* the card the peer serves now
    until,     \* until[v]: when the peer replaced version v, MaxTime + 1 before that
    cache,     \* _cards[base_url]: no entry or one, a time and a card
    pc,        \* where each task is
    sent,      \* sent[t]: when its GET began
    slowest,   \* the longest a GET that brought a card has taken (history)
    got,       \* got[t]: the card its GET brought, or card() returned; 0 before
    reply,     \* reply[t]: the peer's answer to its POST, "none" before there is one
    atPeer,    \* the tasks whose POST the peer has still to handle
    executed,  \* executed[t]: how often the peer's handler ran for it
    raised,    \* the tasks for which the handler raised
    outcome    \* outcome[t]: what call() did, "none" before it ended

card == <<version, until, cache, got>>
rpc == <<reply, atPeer, executed, raised, outcome>>
vars == <<now, pc, sent, slowest, card, rpc>>

(* A capability card, by its version. *)
Version == 1..MaxVersion

(* Bodies of the peer's answers (a result, or an error by its code), or the*)
(* status of a bad exchange.                                               *)
Reply == {"result", "e32601", "e32000", "http400", "http500"}

Init ==
    /\ now = 0
    /\ version = 1
    /\ until = [v \in Version |-> MaxTime + 1]
    /\ cache = {}
    /\ pc = [t \in Task |-> "idle"]
    /\ sent = [t \in Task |-> 0]
    /\ slowest = 0
    /\ got = [t \in Task |-> 0]
    /\ reply = [t \in Task |-> "none"]
    /\ atPeer = {}
    /\ executed = [t \in Task |-> 0]
    /\ raised = {}
    /\ outcome = [t \in Task |-> "none"]

Goto(t, where) == pc' = [pc EXCEPT ![t] = where]

(* Time passes.  httpx.Timeout bounds each connect, read and write, not    *)
(* the exchange: one may take any time, and may time out at any.           *)
Tick ==
    /\ now < MaxTime
    /\ now' = now + 1
    /\ UNCHANGED <<pc, sent, slowest, card, rpc>>

(* The peer is redeployed with another card. *)
Upgrade ==
    /\ version < MaxVersion
    /\ version' = version + 1
    /\ until' = [until EXCEPT ![version] = now]
    /\ UNCHANGED <<now, pc, sent, slowest, cache, got, rpc>>

(* A slip: a hit renews the entry. *)
Renewed == {[e EXCEPT !.at = now] : e \in cache}

Kept == cache

Fresh == {e \in cache : now - e.at < TTL}

(* card(): from the cache while it is fresh, else a GET. *)
Card(t) ==
    /\ pc[t] = "idle"
    /\ \/ \E e \in Fresh :
             /\ got' = [got EXCEPT ![t] = e.card]
             /\ cache' = Kept
             /\ Goto(t, "have")
             /\ UNCHANGED sent
       \/ /\ Fresh = {}
          /\ Goto(t, "getting")
          /\ sent' = [sent EXCEPT ![t] = now]
          /\ UNCHANGED <<got, cache>>
    /\ UNCHANGED <<now, slowest, version, until, rpc>>

Serve(t) ==
    /\ pc[t] = "getting"
    /\ got' = [got EXCEPT ![t] = version]
    /\ Goto(t, "got")
    /\ UNCHANGED <<now, sent, slowest, version, until, cache, rpc>>

(* The answer is stored when it arrives, over whatever arrived before. *)
Arrive(t) ==
    /\ pc[t] = "got"
    /\ cache' = {[at |-> now, card |-> got[t]]}
    /\ Goto(t, "have")
    /\ slowest' = IF now - sent[t] > slowest THEN now - sent[t] ELSE slowest
    /\ UNCHANGED <<now, sent, version, until, got, rpc>>

(* A timeout, a bad status, or no card in the answer: card() raises. *)
GetFails(t) ==
    /\ pc[t] \in {"getting", "got"}
    /\ Goto(t, "cardless")
    /\ got' = [got EXCEPT ![t] = 0]
    /\ UNCHANGED <<now, sent, slowest, version, until, cache, rpc>>

(* call(): one POST, whatever the card says. *)
Post(t) ==
    /\ pc[t] = "have"
    /\ Goto(t, "posted")
    /\ atPeer' = atPeer \cup {t}
    /\ UNCHANGED <<now, sent, slowest, card, reply, executed, raised, outcome>>

(* The peer does not take the body, or knows no such method. *)
Refuse(t) ==
    /\ t \in atPeer
    /\ atPeer' = atPeer \ {t}
    /\ \E r \in {"http400", "e32601"} : reply' = [reply EXCEPT ![t] = r]
    /\ UNCHANGED <<now, pc, sent, slowest, card, executed, raised, outcome>>

(* The handler returns, or raises, or returns what JSON cannot carry. *)
Execute(t) ==
    /\ t \in atPeer
    /\ atPeer' = atPeer \ {t}
    /\ executed' = [executed EXCEPT ![t] = IF @ < 2 THEN @ + 1 ELSE @]
    /\ \E r \in {"result", "e32000", "http500"} :
          /\ reply' = [reply EXCEPT ![t] = r]
          /\ raised' = IF r = "e32000" THEN raised \cup {t} ELSE raised
    /\ UNCHANGED <<now, pc, sent, slowest, card, outcome>>

(* A slip: the error member is not looked at. *)
OutcomeByStatus(r) == IF r \in {"http400", "http500"} THEN "HTTPError" ELSE "result"

Outcome(r) ==
    IF r \in {"http400", "http500"} THEN "HTTPError"
    ELSE IF r \in {"e32601", "e32000"} THEN "RuntimeError" ELSE "result"

Answer(t) ==
    /\ pc[t] = "posted"
    /\ reply[t] # "none"
    /\ outcome' = [outcome EXCEPT ![t] = Outcome(reply[t])]
    /\ Goto(t, "called")
    /\ UNCHANGED <<now, sent, slowest, card, reply, atPeer, executed, raised>>

(* A slip: a call that timed out is posted again. *)
PostAgain == "have"

GiveUp == "called"

(* The POST times out; the peer may handle it all the same, before or after.*)
PostTimesOut(t) ==
    /\ pc[t] = "posted"
    /\ outcome' = [outcome EXCEPT ![t] = "HTTPError"]
    /\ Goto(t, GiveUp)
    /\ UNCHANGED <<now, sent, slowest, card, reply, atPeer, executed, raised>>

Exchange(t) ==
    \/ Card(t) \/ Serve(t) \/ Arrive(t) \/ GetFails(t)
    \/ Post(t) \/ Answer(t) \/ PostTimesOut(t)

Next ==
    \/ Tick \/ Upgrade
    \/ \E t \in Task : Exchange(t) \/ Refuse(t) \/ Execute(t)

(* An exchange ends: by its answer, or by the client's timeout when nothing*)
(* arrives any more; bodies are finite.                                    *)
Spec == Init /\ [][Next]_vars /\ \A t \in Task : WF_vars(Exchange(t))

-----------------------------------------------------------------------------
(* Every variable has its type; an entry is of the past. *)
TypeOK ==
    /\ now \in 0..MaxTime /\ version \in Version
    /\ until \in [Version -> 0..MaxTime + 1]
    /\ cache \subseteq [at : 0..now, card : Version]
    /\ pc \in [Task -> {"idle", "getting", "got", "have", "cardless", "posted", "called"}]
    /\ sent \in [Task -> 0..MaxTime] /\ slowest \in 0..MaxTime /\ got \in [Task -> 0..MaxVersion]
    /\ reply \in [Task -> Reply \cup {"none"}]
    /\ atPeer \subseteq Task /\ raised \subseteq Task /\ executed \in [Task -> 0..2]
    /\ outcome \in [Task -> {"none", "result", "RuntimeError", "HTTPError"}]

(***************************************************************************)
(* A card that is taken from the cache, or would be now, was the peer's    *)
(* own at most TTL and the slowest GET so far ago: hits do not keep it     *)
(* alive, and answers that arrive in another order than they were served   *)
(* do not put back an older one than that.  TTL alone does not bound it.   *)
(***************************************************************************)
CardIsRecent ==
    \A e \in Fresh : now - until[e.card] < TTL + slowest

(* The handler of a call runs at most once, for whatever reason it failed. *)
ExecutedOnce == \A t \in Task : executed[t] <= 1

(***************************************************************************)
(* What call() does tells what the peer did: a result is of a handler that *)
(* ran and did not raise, a RuntimeError of one that raised or never ran.  *)
(* Only an HTTPError leaves both open.                                     *)
(***************************************************************************)
CallerKnows ==
    \A t \in Task :
        /\ outcome[t] = "result" => executed[t] > 0 /\ t \notin raised
        /\ outcome[t] = "RuntimeError" => executed[t] = 0 \/ t \in raised

(* Every call ends. *)
CallsEnd == <>(\A t \in Task : pc[t] \in {"cardless", "called"})

(* What a client believes of its peer is so: the card is recent, a call    *)
(* ran at most once, and its outcome tells whether it did (protocol.py).   *)
ClientKnowsPeer == CardIsRecent /\ ExecutedOnce /\ CallerKnows
=============================================================================
