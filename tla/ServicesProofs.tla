----------------------------- MODULE ServicesProofs ---------------------------
(***************************************************************************)
(* Invariants of the services an answer is made with, for every value of   *)
(* the constants: of the A2A layer, of cached LLM calls, of the MCP server *)
(* and of the conversation store.  Each theorem is about the component's   *)
(* own specification.                                                      *)
(***************************************************************************)
EXTENDS MCServices, SequenceTheorems, FiniteSetTheorems, WellFoundedInduction, TLAPS

-----------------------------------------------------------------------------
(***************************************************************************)
(* A2A: for any tasks, any lifetime of a card and GETs of any length.            *)
(***************************************************************************)

Current == \A v \in Version : v >= version => until[v] = MaxTime + 1

Exchanges == \A t \in Task : sent[t] <= now

(* A version was still served when the exchange that brought it began.      *)
GotCards == \A t \in Task :
    pc[t] = "got" => got[t] \in Version /\ until[got[t]] >= sent[t]

CachedCard == \A e \in cache : until[e.card] >= e.at - slowest

CardInv == Current /\ Exchanges /\ GotCards /\ CachedCard

(* The handler of a task has not been reached yet. *)
Untouched(t) == executed[t] = 0 /\ t \notin raised /\ reply[t] = "none"

Handled(t) ==
    /\ t \in atPeer => Untouched(t) /\ pc[t] \in {"posted", "called"}
    /\ pc[t] \notin {"posted", "called"} => Untouched(t) /\ outcome[t] = "none"
    /\ executed[t] \in {0, 1}
    /\ reply[t] = "result" => executed[t] = 1 /\ t \notin raised
    /\ reply[t] = "e32000" => t \in raised
    /\ reply[t] = "e32601" => executed[t] = 0
    /\ outcome[t] = "result" => reply[t] = "result"
    /\ outcome[t] = "RuntimeError" => reply[t] \in {"e32601", "e32000"}

CallInv == \A t \in Task : Handled(t)

-----------------------------------------------------------------------------
Types ==
    /\ now \in 0..MaxTime /\ version \in Version
    /\ until \in [Version -> 0..MaxTime + 1] /\ cache \subseteq [at : 0..now, card : Version]
    /\ sent \in [Task -> 0..MaxTime] /\ slowest \in 0..MaxTime /\ got \in [Task -> 0..MaxVersion]

(* Every step keeps the types. *)
LEMMA TypeStep == TypeOK /\ CardInv /\ [Next]_vars => TypeOK'
  <1> SUFFICES ASSUME TypeOK, CardInv, [Next]_vars PROVE TypeOK'
    OBVIOUS
  <1> USE ClockAssumption DEF TypeOK
  <1>1. CASE Tick
    BY <1>1 DEF Tick, card, rpc, Version
  <1>2. CASE Upgrade
    BY <1>2 DEF Upgrade, rpc, Version
  <1>3. ASSUME NEW t \in Task, Card(t) PROVE TypeOK'
    <2>1. \A e \in cache : e.card \in 0..MaxVersion
      BY DEF Version
    <2>2. /\ got' \in [Task -> 0..MaxVersion] /\ sent' \in [Task -> 0..MaxTime] /\ cache' = cache
          /\ pc' \in [Task -> {"idle", "getting", "got", "have", "cardless", "posted", "called"}]
      BY <1>3, <2>1 DEF Card, Fresh, Kept, Goto
    <2> QED
      BY <1>3, <2>2 DEF Card, rpc
  <1>4. ASSUME NEW t \in Task, Serve(t) PROVE TypeOK'
    BY <1>4 DEF Serve, Goto, rpc, Version
  <1>5. ASSUME NEW t \in Task, Arrive(t) PROVE TypeOK'
    <2>1. got[t] \in Version
      BY <1>5 DEF Arrive, CardInv, GotCards
    <2>2. [at |-> now, card |-> got[t]] \in [at : 0..now, card : Version]
      BY <2>1
    <2>3. slowest' \in 0..MaxTime
      BY <1>5 DEF Arrive, CardInv, Exchanges
    <2> QED
      BY <1>5, <2>2, <2>3 DEF Arrive, Goto, rpc
  <1>6. ASSUME NEW t \in Task, GetFails(t) PROVE TypeOK'
    BY <1>6 DEF GetFails, Goto, rpc
  <1>7. ASSUME NEW t \in Task, Post(t) PROVE TypeOK'
    BY <1>7 DEF Post, Goto, card
  <1>8. ASSUME NEW t \in Task, Refuse(t) PROVE TypeOK'
    BY <1>8 DEF Refuse, card, Reply
  <1>9. ASSUME NEW t \in Task, Execute(t) PROVE TypeOK'
    BY <1>9 DEF Execute, card, Reply
  <1>10. ASSUME NEW t \in Task, Answer(t) PROVE TypeOK'
    BY <1>10 DEF Answer, Outcome, Goto, card
  <1>11. ASSUME NEW t \in Task, PostTimesOut(t) PROVE TypeOK'
    BY <1>11 DEF PostTimesOut, GiveUp, Goto, card
  <1>12. CASE UNCHANGED vars
    BY <1>12 DEF vars, card, rpc
  <1> QED
    BY <1>1, <1>2, <1>3, <1>4, <1>5, <1>6, <1>7, <1>8, <1>9, <1>10, <1>11, <1>12
       DEF Next, Exchange

(* Every step keeps the clock's and the cards' invariant. *)
LEMMA CardStep == TypeOK /\ CardInv /\ [Next]_vars => CardInv'
  <1> SUFFICES ASSUME TypeOK, CardInv, [Next]_vars PROVE CardInv'
    OBVIOUS
  <1>0. Types
    BY DEF TypeOK, Types
  <1>p. pc \in [Task -> {"idle", "getting", "got", "have", "cardless", "posted", "called"}]
    BY DEF TypeOK
  <1> USE ClockAssumption, <1>0, <1>p DEF Types, CardInv, Version
  <1>1. CASE Tick
    BY <1>1 DEF Tick, card, Current, Exchanges, GotCards, CachedCard
  <1>2. CASE Upgrade
    BY <1>2 DEF Upgrade, Current, Exchanges, GotCards, CachedCard
  <1>3. ASSUME NEW t \in Task, Card(t) PROVE CardInv'
    <2>1. Current' /\ CachedCard'
      BY <1>3 DEF Card, Kept, Current, CachedCard
    <2>2. /\ \A u \in Task \ {t} : pc'[u] = pc[u] /\ sent'[u] = sent[u] /\ got'[u] = got[u]
          /\ pc'[t] = "have" \/ (pc'[t] = "getting" /\ sent'[t] = now)
          /\ sent'[t] \in {sent[t], now} /\ now' = now /\ until' = until
      BY <1>3 DEF Card, Goto
    <2>3. Exchanges'
      BY <2>2 DEF Exchanges
    <2>4. GotCards'
      <3> SUFFICES ASSUME NEW u \in Task, pc'[u] = "got"
                   PROVE  got'[u] \in Version /\ until[got'[u]] >= sent'[u]
        BY <2>2 DEF GotCards
      <3>1. u # t
        BY <2>2
      <3> QED
        BY <2>2, <3>1 DEF GotCards
    <2> QED
      BY <2>1, <2>3, <2>4
  <1>4. ASSUME NEW t \in Task, Serve(t) PROVE CardInv'
    <2>1. until[version] = MaxTime + 1
      BY DEF Current
    <2> QED
      BY <1>4, <2>1 DEF Serve, Goto, Current, Exchanges, GotCards, CachedCard
  <1>5. ASSUME NEW t \in Task, Arrive(t) PROVE CardInv'
    <2>1. got[t] \in Version /\ until[got[t]] >= sent[t] /\ sent[t] <= now
      BY <1>5 DEF Arrive, GotCards, Exchanges
    <2>2. slowest' >= now - sent[t] /\ slowest' \in Int
      BY <1>5, <2>1 DEF Arrive
    <2>3. until[got[t]] >= now - slowest'
      BY <2>1, <2>2
    <2>4. CachedCard'
      BY <1>5, <2>3 DEF Arrive, CachedCard
    <2>5. Current' /\ Exchanges' /\ GotCards'
      BY <1>5 DEF Arrive, Goto, Current, Exchanges, GotCards
    <2> QED
      BY <2>4, <2>5
  <1>6. ASSUME NEW t \in Task, GetFails(t) PROVE CardInv'
    BY <1>6 DEF GetFails, Goto, Current, Exchanges, GotCards, CachedCard
  <1>7. ASSUME NEW t \in Task, Post(t) PROVE CardInv'
    BY <1>7 DEF Post, Goto, card, Current, Exchanges, GotCards, CachedCard
  <1>8. ASSUME NEW t \in Task, Refuse(t) \/ Execute(t) PROVE CardInv'
    BY <1>8 DEF Refuse, Execute, card, Current, Exchanges, GotCards, CachedCard
  <1>9. ASSUME NEW t \in Task, Answer(t) \/ PostTimesOut(t) PROVE CardInv'
    BY <1>9 DEF Answer, PostTimesOut, GiveUp, Goto, card, Current, Exchanges, GotCards,
                CachedCard
  <1>10. CASE UNCHANGED vars
    BY <1>10 DEF vars, card, Current, Exchanges, GotCards, CachedCard
  <1> QED
    BY <1>1, <1>2, <1>3, <1>4, <1>5, <1>6, <1>7, <1>8, <1>9, <1>10 DEF Next, Exchange

(* A step of one task leaves the others' calls as they are. *)
Alone(t) == \A u \in Task \ {t} :
    /\ pc'[u] = pc[u] /\ reply'[u] = reply[u] /\ outcome'[u] = outcome[u]
    /\ executed'[u] = executed[u]
    /\ (u \in atPeer') = (u \in atPeer) /\ (u \in raised') = (u \in raised)

LEMMA OneCall ==
    ASSUME CallInv, NEW t \in Task, Alone(t), Handled(t)'
    PROVE  CallInv'
  BY DEF CallInv, Handled, Untouched, Alone

(* Every step keeps what is known of the calls. *)
LEMMA CallStep == TypeOK /\ CallInv /\ [Next]_vars => CallInv'
  <1> SUFFICES ASSUME TypeOK, CallInv, [Next]_vars PROVE CallInv'
    OBVIOUS
  <1>0. /\ pc \in [Task -> {"idle", "getting", "got", "have", "cardless", "posted", "called"}]
        /\ reply \in [Task -> Reply \cup {"none"}] /\ executed \in [Task -> 0..2]
        /\ outcome \in [Task -> {"none", "result", "RuntimeError", "HTTPError"}]
    BY DEF TypeOK
  <1>1. CASE Tick \/ Upgrade \/ UNCHANGED vars
    BY <1>1 DEF Tick, Upgrade, vars, rpc, CallInv, Handled, Untouched
  <1>2. ASSUME NEW t \in Task, Card(t) \/ Serve(t) \/ Arrive(t) \/ GetFails(t) PROVE CallInv'
    BY <1>0, <1>2 DEF Card, Serve, Arrive, GetFails, Goto, rpc, CallInv, Handled, Untouched
  <1>3. ASSUME NEW t \in Task, Post(t) PROVE CallInv'
    BY <1>0, <1>3 DEF Post, Goto, CallInv, Handled, Untouched
  <1>4. ASSUME NEW t \in Task, Refuse(t) PROVE CallInv'
    BY <1>0, <1>4 DEF Refuse, CallInv, Handled, Untouched
  <1>5. ASSUME NEW t \in Task, Execute(t) PROVE CallInv'
    <2>1. Handled(t) /\ t \in atPeer
      BY <1>5 DEF CallInv, Execute
    <2>2. executed'[t] = 1
      BY <1>0, <1>5, <2>1 DEF Execute, Handled, Untouched
    <2>3. Alone(t)
      BY <1>0, <1>5 DEF Execute, Alone
    <2>4. Handled(t)'
      BY <1>0, <1>5, <2>1, <2>2 DEF Execute, Handled, Untouched
    <2> QED
      BY <2>3, <2>4, OneCall
  <1>6. ASSUME NEW t \in Task, Answer(t) PROVE CallInv'
    <2>1. Handled(t) /\ pc[t] = "posted" /\ reply' = reply /\ executed' = executed
      BY <1>6 DEF CallInv, Answer
    <2>2. outcome'[t] = Outcome(reply[t]) /\ pc'[t] = "called" /\ Alone(t)
      BY <1>0, <1>6 DEF Answer, Goto, Alone
    <2>3. /\ outcome'[t] = "result" => reply[t] = "result"
          /\ outcome'[t] = "RuntimeError" => reply[t] \in {"e32601", "e32000"}
      <3>1. reply[t] \in Reply
        BY <1>0, <1>6 DEF Answer
      <3> QED
        BY <2>2, <3>1 DEF Outcome, Reply
    <2>4. Handled(t)'
      BY <1>6, <2>1, <2>2, <2>3 DEF Answer, Handled, Untouched
    <2> QED
      BY <2>2, <2>4, OneCall
  <1>7. ASSUME NEW t \in Task, PostTimesOut(t) PROVE CallInv'
    BY <1>0, <1>7 DEF PostTimesOut, GiveUp, Goto, CallInv, Handled, Untouched
  <1> QED
    BY <1>1, <1>2, <1>3, <1>4, <1>5, <1>6, <1>7 DEF Next, Exchange

LEMMA Initially == Init => TypeOK /\ CardInv /\ CallInv
  <1> SUFFICES ASSUME Init PROVE TypeOK /\ CardInv /\ CallInv
    OBVIOUS
  <1>1. TypeOK
    BY ClockAssumption DEF Init, TypeOK, Version
  <1>2. CardInv
    BY ClockAssumption DEF Init, CardInv, Current, Exchanges, GotCards, CachedCard, Version
  <1>3. CallInv
    BY DEF Init, CallInv, Handled, Untouched
  <1> QED
    BY <1>1, <1>2, <1>3

LEMMA Inductive == Spec => [](TypeOK /\ CardInv /\ CallInv)
  <1>1. TypeOK /\ CardInv /\ CallInv /\ [Next]_vars => (TypeOK /\ CardInv /\ CallInv)'
    BY TypeStep, CardStep, CallStep
  <1> QED
    BY <1>1, Initially, PTL DEF Spec

-----------------------------------------------------------------------------
(* Every variable keeps its type. *)
THEOREM TypeCorrect == Spec => []TypeOK
  BY Inductive, PTL

(* No card is taken from the cache that was replaced TTL and the longest   *)
(* GET so far ago.                                                         *)
THEOREM CardsAreRecent == Spec => []CardIsRecent
  <1>1. TypeOK /\ CardInv => CardIsRecent
    <2> SUFFICES ASSUME Types, CachedCard, NEW e \in cache, now - e.at < TTL
                 PROVE  now - until[e.card] < TTL + slowest
      BY DEF TypeOK, Types, CardInv, CardIsRecent, Fresh
    <2>1. e.at \in 0..now /\ e.card \in Version
      BY DEF Types
    <2>2. until[e.card] >= e.at - slowest
      BY DEF CachedCard
    <2> QED
      BY <2>1, <2>2, ClockAssumption DEF Types
  <1> QED
    BY <1>1, Inductive, PTL

(* No call makes the peer's handler run twice. *)
THEOREM CallsRunOnce == Spec => []ExecutedOnce
  <1>1. CallInv => ExecutedOnce
    <2> SUFFICES ASSUME CallInv, NEW t \in Task PROVE executed[t] <= 1
      BY DEF ExecutedOnce
    <2>1. executed[t] \in {0, 1}
      BY DEF CallInv, Handled
    <2> QED
      BY <2>1
  <1> QED
    BY <1>1, Inductive, PTL

(* A result and a RuntimeError tell whether the handler ran and returned. *)
THEOREM CallersKnow == Spec => []CallerKnows
  <1>1. CallInv => CallerKnows
    <2> SUFFICES ASSUME CallInv, NEW t \in Task
                 PROVE  /\ outcome[t] = "result" => executed[t] > 0 /\ t \notin raised
                        /\ outcome[t] = "RuntimeError" => executed[t] = 0 \/ t \in raised
      BY DEF CallerKnows
    <2>1. executed[t] = 1 => executed[t] > 0
      OBVIOUS
    <2>2. /\ outcome[t] = "result" => executed[t] = 1 /\ t \notin raised
          /\ outcome[t] = "RuntimeError" => executed[t] = 0 \/ t \in raised
      BY DEF CallInv, Handled
    <2> QED
      BY <2>1, <2>2
  <1> QED
    BY <1>1, Inductive, PTL

(* All that a client takes for granted. *)
THEOREM PeerIsKnown == Spec => []ClientKnowsPeer
  <1>1. CardIsRecent /\ ExecutedOnce /\ CallerKnows => ClientKnowsPeer
    BY DEF ClientKnowsPeer
  <1> QED
    BY <1>1, CardsAreRecent, CallsRunOnce, CallersKnow, PTL

-----------------------------------------------------------------------------
(***************************************************************************)
(* LlmCache: for any number of calls and questions, with Redis or without. *)
(***************************************************************************)

(* What a call has been charged, and knows of it, where it stands.         *)
Spent(c) ==
    /\ charged[c] \in 0..(2 * Calls!MaxAttempts) /\ stats[c] <= charged[c] /\ stats[c] <= 2
    /\ callAt[c] = "lookup" =>
           /\ charged[c] = 0 /\ attempt[c] = 1 /\ round[c] = 1
    /\ callAt[c] \in {"lookup", "posting"} =>
           /\ charged[c] <= Calls!MaxAttempts * (round[c] - 1) + (attempt[c] - 1)
           /\ stats[c] = round[c] - 1
    /\ callAt[c] \in {"lookup", "posting", "storing"} => reported[c] = 0
    /\ callAt[c] = "storing" =>
           payload[c] # Nothing /\ payload[c].by = c /\ stats[c] = round[c]
    /\ callAt[c] \in {"returned", "planned"} =>
           /\ payload[c] # Nothing
           /\ reported[c] = IF payload[c].by = c THEN round[c] ELSE 0

(* An entry is of a call that is over.                                     *)
StoredIsOver ==
    \A k \in Calls!Keys :
        llmCache[k] # Nothing => callAt[llmCache[k].by] \in Calls!Ends

CacheInv ==
    Calls!TypeOK /\ Calls!EntriesMatchKeys /\ StoredIsOver /\ \A c \in Call : Spent(c)

(* A step of one call leaves the others where they are.                    *)
LEMMA OtherCalls ==
    ASSUME Calls!TypeOK, NEW c \in Call, Calls!CallStep(c)
    PROVE  /\ req' = req
           /\ \A d \in Call \ {c} :
                  /\ callAt'[d] = callAt[d] /\ attempt'[d] = attempt[d] /\ round'[d] = round[d]
                  /\ payload'[d] = payload[d] /\ charged'[d] = charged[d]
                  /\ stats'[d] = stats[d] /\ reported'[d] = reported[d]
<1>1. CASE Calls!Lookup(c)
    BY <1>1 DEF Calls!Lookup, Calls!TypeOK
<1>2. CASE Calls!CacheFails(c)
    BY <1>2 DEF Calls!CacheFails, Calls!TypeOK
<1>3. CASE Calls!PostFails(c)
    BY <1>3 DEF Calls!PostFails, Calls!Charge, Calls!TypeOK
<1>4. CASE Calls!PostMisread(c)
    BY <1>4 DEF Calls!PostMisread, Calls!Charge, Calls!TypeOK
<1>5. CASE Calls!PostUnparsable(c)
    BY <1>5 DEF Calls!PostUnparsable, Calls!Charge, Calls!TypeOK
<1>6. CASE Calls!PostAnswered(c)
    BY <1>6 DEF Calls!PostAnswered, Calls!Charge, Calls!TypeOK
<1>7. CASE Calls!Store(c)
    BY <1>7 DEF Calls!Store, Calls!TypeOK
<1> QED BY <1>1, <1>2, <1>3, <1>4, <1>5, <1>6, <1>7 DEF Calls!CallStep, Calls!Posts

LEMMA KeyTypes ==
    ASSUME Calls!TypeOK, NEW c \in Call
    PROVE  /\ Calls!Key(req[c]) \in Calls!Keys
           /\ Calls!Key(req[c]) = <<req[c].kind, req[c].question>>
BY DEF Calls!TypeOK, Calls!Request, Calls!Key, Calls!Keys

LEMMA CoerceEnds == \A p, r : Calls!Coerce(p, r) \in Calls!Ends
BY DEF Calls!Coerce, Calls!Ends

(* A charge is counted in full while it stays below the count's bound.     *)
LEMMA Charged ==
    ASSUME Calls!TypeOK, NEW c \in Call, NEW k \in 0..1, Calls!Charge(c, k)
    PROVE  /\ charged' \in [Call -> Nat]
           /\ charged[c] < Calls!MaxCharged => charged'[c] = charged[c] + k
<1>1. charged[c] \in Nat /\ charged \in [Call -> Nat]
    BY DEF Calls!TypeOK
<1> QED BY <1>1 DEF Calls!Charge, Calls!MaxCharged

LEMMA CallTypes ==
    ASSUME Calls!TypeOK, NEW c \in Call, Calls!CallStep(c)
    PROVE  Calls!TypeOK'
<1>0. /\ req \in [Call -> Calls!Request] /\ attempt \in [Call -> 1..3]
      /\ callAt \in [Call -> {"lookup", "posting", "storing"} \cup Calls!Ends]
      /\ round \in [Call -> 1..2] /\ payload \in [Call -> Calls!Payload \cup {Nothing}]
      /\ llmCache \in [Calls!Keys -> Calls!Payload \cup {Nothing}]
      /\ charged \in [Call -> Nat] /\ stats \in [Call -> Nat] /\ reported \in [Call -> Nat]
    BY DEF Calls!TypeOK, Calls!MaxAttempts
<1>1. CASE Calls!Lookup(c)
    <2>1. Calls!Hit(c) \in Calls!Payload \cup {Nothing}
        BY <1>0, KeyTypes DEF Calls!Hit
    <2>2. /\ callAt' \in [Call -> {"lookup", "posting", "storing"} \cup Calls!Ends]
          /\ payload' \in [Call -> Calls!Payload \cup {Nothing}]
        BY <1>1, <2>1, <1>0, CoerceEnds DEF Calls!Lookup
    <2> QED BY <1>1, <2>2, <1>0 DEF Calls!Lookup, Calls!TypeOK, Calls!MaxAttempts
<1>2. CASE Calls!CacheFails(c)
    BY <1>2, <1>0 DEF Calls!CacheFails, Calls!TypeOK, Calls!Ends, Calls!MaxAttempts
<1>3. CASE Calls!PostFails(c)
    <2>1. charged' \in [Call -> Nat]
        BY <1>3, Charged DEF Calls!PostFails
    <2>2. attempt' \in [Call -> 1..3]
        BY <1>3, <1>0 DEF Calls!PostFails, Calls!AttemptsLeft, Calls!Retried, Calls!MaxAttempts
    <2>3. callAt' \in [Call -> {"lookup", "posting", "storing"} \cup Calls!Ends]
        BY <1>3, <1>0 DEF Calls!PostFails, Calls!Ends
    <2> QED BY <1>3, <2>1, <2>2, <2>3, <1>0 DEF Calls!PostFails, Calls!TypeOK, Calls!MaxAttempts
<1>4. CASE Calls!PostMisread(c)
    <2>1. charged' \in [Call -> Nat]
        BY <1>4, Charged DEF Calls!PostMisread
    <2> QED BY <1>4, <2>1, <1>0 DEF Calls!PostMisread, Calls!TypeOK, Calls!Ends, Calls!MaxAttempts
<1>5. CASE Calls!PostUnparsable(c)
    <2>1. charged' \in [Call -> Nat]
        BY <1>5, Charged DEF Calls!PostUnparsable
    <2>2. /\ attempt' \in [Call -> 1..3] /\ round' \in [Call -> 1..2]
          /\ stats' \in [Call -> Nat]
        BY <1>5, <1>0 DEF Calls!PostUnparsable
    <2>3. callAt' \in [Call -> {"lookup", "posting", "storing"} \cup Calls!Ends]
        BY <1>5, <1>0 DEF Calls!PostUnparsable, Calls!Ends
    <2> QED BY <1>5, <2>1, <2>2, <2>3, <1>0
            DEF Calls!PostUnparsable, Calls!TypeOK, Calls!MaxAttempts
<1>6. CASE Calls!PostAnswered(c)
    <2>1. charged' \in [Call -> Nat]
        BY <1>6, Charged DEF Calls!PostAnswered
    <2>2. /\ attempt' \in [Call -> 1..3] /\ stats' \in [Call -> Nat]
          /\ payload' \in [Call -> Calls!Payload \cup {Nothing}]
        BY <1>6, <1>0 DEF Calls!PostAnswered
    <2>3. callAt' \in [Call -> {"lookup", "posting", "storing"} \cup Calls!Ends]
        BY <1>6, <1>0 DEF Calls!PostAnswered
    <2> QED BY <1>6, <2>1, <2>2, <2>3, <1>0
            DEF Calls!PostAnswered, Calls!TypeOK, Calls!MaxAttempts
<1>7. CASE Calls!Store(c)
    <2>1. llmCache' \in [Calls!Keys -> Calls!Payload \cup {Nothing}]
        BY <1>7, <1>0 DEF Calls!Store
    <2>2. callAt' \in [Call -> {"lookup", "posting", "storing"} \cup Calls!Ends]
        BY <1>7, <1>0, CoerceEnds DEF Calls!Store
    <2> QED BY <1>7, <2>1, <2>2, <1>0
            DEF Calls!Store, Calls!Stats, Calls!TypeOK, Calls!MaxAttempts
<1> QED BY <1>1, <1>2, <1>3, <1>4, <1>5, <1>6, <1>7 DEF Calls!CallStep, Calls!Posts

LEMMA CallSpends ==
    ASSUME CacheInv, NEW c \in Call, Calls!CallStep(c)
    PROVE  Spent(c)'
<1>0. /\ Calls!TypeOK /\ Spent(c)
      /\ callAt \in [Call -> {"lookup", "posting", "storing"} \cup Calls!Ends]
      /\ attempt \in [Call -> 1..3] /\ round \in [Call -> 1..2]
      /\ payload \in [Call -> Calls!Payload \cup {Nothing}]
      /\ charged \in [Call -> Nat] /\ stats \in [Call -> Nat] /\ reported \in [Call -> Nat]
    BY DEF CacheInv, Calls!TypeOK, Calls!MaxAttempts
<1>1. CASE Calls!Lookup(c)
    <2> DEFINE hit == Calls!Hit(c)
    <2>1. /\ callAt[c] = "lookup" /\ attempt'[c] = attempt[c] /\ round'[c] = round[c]
          /\ charged'[c] = charged[c] /\ stats'[c] = stats[c] /\ reported'[c] = reported[c]
          /\ \/ hit = Nothing /\ callAt'[c] = "posting" /\ payload'[c] = payload[c]
             \/ hit # Nothing /\ callAt'[c] \in Calls!Ends /\ payload'[c] = hit
        BY <1>1, <1>0, CoerceEnds DEF Calls!Lookup
    <2>2. hit # Nothing => hit.by # c
        BY <2>1, <1>0, KeyTypes DEF CacheInv, StoredIsOver, Calls!Hit, Calls!Ends
    <2> HIDE DEF hit
    <2> QED BY <2>1, <2>2, <1>0 DEF Spent, Calls!Ends, Calls!MaxAttempts
<1>2. CASE Calls!CacheFails(c)
    <2>1. callAt'[c] = "RedisError" /\ charged'[c] = charged[c] /\ stats'[c] = stats[c]
        BY <1>2, <1>0 DEF Calls!CacheFails
    <2> QED BY <2>1, <1>0 DEF Spent, Calls!MaxAttempts
<1>3. CASE Calls!PostFails(c)
    <2>1. PICK k \in 0..1 : Calls!Charge(c, k)
        BY <1>3 DEF Calls!PostFails
    <2>2. callAt[c] = "posting" /\ charged[c] <= 3 * (round[c] - 1) + (attempt[c] - 1)
          /\ stats[c] = round[c] - 1 /\ reported[c] = 0
        BY <1>3, <1>0 DEF Calls!PostFails, Spent, Calls!MaxAttempts
    <2>3. charged'[c] = charged[c] + k
        <3>1. charged[c] \in Nat /\ round[c] \in 1..2 /\ attempt[c] \in 1..3
            BY <1>0
        <3>2. charged[c] < Calls!MaxCharged
            BY <2>2, <3>1 DEF Calls!MaxCharged
        <3> QED BY <2>1, <3>2, <1>0, Charged
    <2>4. /\ stats'[c] = stats[c] /\ round'[c] = round[c] /\ reported'[c] = reported[c]
          /\ \/ /\ attempt[c] < 3 /\ attempt'[c] = attempt[c] + 1
                /\ callAt'[c] = "posting"
             \/ callAt'[c] = "HTTPError"
        BY <1>3, <1>0 DEF Calls!PostFails, Calls!AttemptsLeft, Calls!Retried, Calls!MaxAttempts
    <2>5. charged[c] \in Nat /\ attempt[c] \in 1..3 /\ round[c] \in 1..2 /\ stats[c] <= charged[c]
        BY <1>0 DEF Spent
    <2>6. charged'[c] \in 0..6 /\ charged'[c] <= charged[c] + 1 /\ charged[c] <= charged'[c]
        <3>1. charged[c] <= 5 /\ charged[c] \in Nat
            BY <2>2, <2>5
        <3>2. k = 0 \/ k = 1
            BY <2>1
        <3>3. charged'[c] = charged[c] \/ charged'[c] = charged[c] + 1
            BY <2>3, <3>1, <3>2
        <3> QED BY <3>1, <3>3
    <2>7. CASE callAt'[c] = "HTTPError"
        BY <2>4, <2>5, <2>6, <2>7, <2>2 DEF Spent, Calls!MaxAttempts
    <2>8. CASE attempt[c] < 3 /\ attempt'[c] = attempt[c] + 1 /\ callAt'[c] = "posting"
        BY <2>4, <2>5, <2>6, <2>8, <2>2 DEF Spent, Calls!MaxAttempts
    <2> QED BY <2>4, <2>7, <2>8
<1>4. CASE Calls!PostMisread(c)
    <2>1. Calls!Charge(c, 1) /\ callAt'[c] = "KeyError" /\ stats'[c] = stats[c]
        BY <1>4, <1>0 DEF Calls!PostMisread
    <2>2. callAt[c] = "posting" /\ charged[c] <= 3 * (round[c] - 1) + (attempt[c] - 1)
          /\ stats[c] = round[c] - 1 /\ stats[c] <= charged[c]
        BY <1>4, <1>0 DEF Calls!PostMisread, Spent, Calls!MaxAttempts
    <2>3. charged'[c] = charged[c] + 1
        <3>1. charged[c] \in Nat /\ round[c] \in 1..2 /\ attempt[c] \in 1..3
            BY <1>0
        <3>2. charged[c] < Calls!MaxCharged
            BY <2>2, <3>1 DEF Calls!MaxCharged
        <3> QED BY <2>1, <3>2, <1>0, Charged
    <2> QED BY <2>1, <2>2, <2>3, <1>0 DEF Spent, Calls!MaxAttempts
<1>5. CASE Calls!PostUnparsable(c)
    <2>1. Calls!Charge(c, 1) /\ stats'[c] = stats[c] + 1 /\ reported'[c] = reported[c]
          /\ \/ /\ round[c] = 1 /\ round'[c] = 2 /\ attempt'[c] = 1
                /\ callAt'[c] = callAt[c]
             \/ callAt'[c] = "JSONDecodeError"
        BY <1>5, <1>0 DEF Calls!PostUnparsable
    <2>2. callAt[c] = "posting" /\ charged[c] <= 3 * (round[c] - 1) + (attempt[c] - 1)
          /\ stats[c] = round[c] - 1 /\ stats[c] <= charged[c] /\ reported[c] = 0
        <3>1. callAt[c] = "posting"
            BY <1>5 DEF Calls!PostUnparsable
        <3> QED BY <3>1, <1>0 DEF Spent, Calls!MaxAttempts
    <2>3. charged'[c] = charged[c] + 1
        <3>1. charged[c] \in Nat /\ round[c] \in 1..2 /\ attempt[c] \in 1..3
            BY <1>0
        <3>2. charged[c] < Calls!MaxCharged
            BY <2>2, <3>1 DEF Calls!MaxCharged
        <3> QED BY <2>1, <3>2, <1>0, Charged
    <2>4. charged[c] \in Nat /\ attempt[c] \in 1..3 /\ round[c] \in 1..2
        BY <1>0
    <2> QED BY <2>1, <2>2, <2>3, <2>4 DEF Spent, Calls!MaxAttempts
<1>6. CASE Calls!PostAnswered(c)
    <2>1. /\ Calls!Charge(c, 1) /\ stats'[c] = stats[c] + 1 /\ reported'[c] = reported[c]
          /\ round'[c] = round[c] /\ callAt'[c] = "storing"
        BY <1>6, <1>0 DEF Calls!PostAnswered
    <2>2. callAt[c] = "posting" /\ charged[c] <= 3 * (round[c] - 1) + (attempt[c] - 1)
          /\ stats[c] = round[c] - 1 /\ stats[c] <= charged[c] /\ reported[c] = 0
        <3>1. callAt[c] = "posting"
            BY <1>6 DEF Calls!PostAnswered
        <3> QED BY <3>1, <1>0 DEF Spent, Calls!MaxAttempts
    <2>3. charged'[c] = charged[c] + 1
        <3>1. charged[c] \in Nat /\ round[c] \in 1..2 /\ attempt[c] \in 1..3
            BY <1>0
        <3>2. charged[c] < Calls!MaxCharged
            BY <2>2, <3>1 DEF Calls!MaxCharged
        <3> QED BY <2>1, <3>2, <1>0, Charged
    <2>4. PICK p \in Calls!Payload : p.by = c /\ payload'[c] = p
        BY <1>6, <1>0 DEF Calls!PostAnswered
    <2>5. p # Nothing
        BY CallsAreKnown DEF Calls!NoneAssumption
    <2> QED BY <2>1, <2>2, <2>3, <2>4, <2>5, <1>0 DEF Spent, Calls!MaxAttempts
<1>7. CASE Calls!Store(c)
    <2>1. /\ callAt[c] = "storing" /\ reported'[c] = stats[c] /\ callAt'[c] \in Calls!Ends
          /\ payload'[c] = payload[c] /\ charged'[c] = charged[c] /\ stats'[c] = stats[c]
          /\ round'[c] = round[c]
        BY <1>7, <1>0, CoerceEnds DEF Calls!Store, Calls!Stats
    <2> QED BY <2>1, <1>0 DEF Spent, Calls!Ends, Calls!MaxAttempts
<1> QED BY <1>1, <1>2, <1>3, <1>4, <1>5, <1>6, <1>7 DEF Calls!CallStep, Calls!Posts

LEMMA CallStores ==
    ASSUME CacheInv, NEW c \in Call, Calls!CallStep(c)
    PROVE  Calls!EntriesMatchKeys' /\ StoredIsOver'
<1>0. /\ Calls!TypeOK /\ Calls!EntriesMatchKeys /\ StoredIsOver /\ Spent(c)
      /\ req' = req /\ \A d \in Call \ {c} : callAt'[d] = callAt[d] /\ payload'[d] = payload[d]
    BY OtherCalls DEF CacheInv
<1>1. /\ callAt[c] \notin Calls!Ends
      /\ callAt[c] = "storing" => payload[c].by = c /\ payload[c] # Nothing
    BY <1>0 DEF Spent, Calls!Ends, Calls!CallStep, Calls!Posts, Calls!Lookup, Calls!CacheFails,
                Calls!PostFails, Calls!PostMisread, Calls!PostUnparsable, Calls!PostAnswered,
                Calls!Store
<1>2. /\ payload[c] \in Calls!Payload \cup {Nothing}
      /\ \A k \in Calls!Keys : llmCache[k] \in Calls!Payload \cup {Nothing}
      /\ callAt \in [Call -> {"lookup", "posting", "storing"} \cup Calls!Ends]
      /\ Calls!Key(req[c]) \in Calls!Keys
      /\ Calls!Key(req[c]) = <<req[c].kind, req[c].question>>
    BY <1>0, KeyTypes DEF Calls!TypeOK
<1>3. ASSUME NEW k \in Calls!Keys, llmCache[k] # Nothing
      PROVE  /\ llmCache[k].by \in Call \ {c} /\ callAt'[llmCache[k].by] \in Calls!Ends
             /\ Calls!Key(req'[llmCache[k].by]) = k
    <2>1. llmCache[k].by \in Call
        BY <1>2, <1>3 DEF Calls!Payload
    <2> QED BY <2>1, <1>0, <1>1, <1>3 DEF StoredIsOver, Calls!EntriesMatchKeys
<1>4. CASE Calls!Store(c)
    <2>1. /\ llmCache' = [llmCache EXCEPT ![Calls!Key(req[c])] = payload[c]]
          /\ callAt[c] = "storing" /\ callAt'[c] \in Calls!Ends /\ payload' = payload
        BY <1>4, <1>2, CoerceEnds DEF Calls!Store
    <2>2. \A k \in Calls!Keys :
              llmCache'[k] = IF k = Calls!Key(req[c]) THEN payload[c] ELSE llmCache[k]
        BY <2>1, <1>0 DEF Calls!TypeOK
    <2>3. StoredIsOver'
        BY <2>1, <2>2, <1>1, <1>3 DEF StoredIsOver
    <2>4. \A k \in Calls!Keys : llmCache'[k] # Nothing => Calls!Key(req'[llmCache'[k].by]) = k
        BY <2>1, <2>2, <1>0, <1>1, <1>3
    <2> QED BY <2>1, <2>3, <2>4, <1>0 DEF Calls!EntriesMatchKeys
<1>5. CASE ~ Calls!Store(c)
    <2>1. llmCache' = llmCache
        BY <1>5 DEF Calls!CallStep, Calls!Posts, Calls!Lookup, Calls!CacheFails, Calls!PostFails,
                    Calls!PostMisread, Calls!PostUnparsable, Calls!PostAnswered
    <2>2. StoredIsOver'
        BY <2>1, <1>3 DEF StoredIsOver
    <2>3. \A k \in Calls!Keys : llmCache'[k] # Nothing => Calls!Key(req'[llmCache'[k].by]) = k
        BY <2>1, <1>3
    <2>4. \/ payload'[c] = payload[c]
          \/ payload'[c] = llmCache[Calls!Key(req[c])]
          \/ payload'[c].by = c
        BY <1>5, <1>0
        DEF Calls!TypeOK, Calls!CallStep, Calls!Posts, Calls!Lookup, Calls!Hit, Calls!CacheFails,
            Calls!PostFails, Calls!PostMisread, Calls!PostUnparsable, Calls!PostAnswered
    <2>5. payload'[c] # Nothing =>
              /\ req'[payload'[c].by].kind = req'[c].kind
              /\ req'[payload'[c].by].question = req'[c].question
        <3>1. CASE payload'[c] = payload[c] \/ payload'[c].by = c
            BY <3>1, <1>0 DEF Calls!EntriesMatchKeys
        <3>2. CASE payload'[c] = llmCache[Calls!Key(req[c])]
            BY <3>2, <1>0, <1>2 DEF Calls!EntriesMatchKeys, Calls!Key
        <3> QED BY <2>4, <3>1, <3>2
    <2> QED BY <2>2, <2>3, <2>5, <1>0 DEF Calls!EntriesMatchKeys
<1> QED BY <1>4, <1>5

LEMMA CacheBegins == Calls!Init => CacheInv
<1> SUFFICES ASSUME Calls!Init PROVE CacheInv
    OBVIOUS
<1>1. Calls!TypeOK
    BY DEF Calls!Init, Calls!TypeOK, Calls!MaxAttempts
<1> QED BY <1>1
    DEF Calls!Init, CacheInv, Calls!EntriesMatchKeys, StoredIsOver, Spent, Calls!MaxAttempts

LEMMA CacheStep == CacheInv /\ [Calls!Next]_callVars => CacheInv'
<1> SUFFICES ASSUME CacheInv, [Calls!Next]_callVars PROVE CacheInv'
    OBVIOUS
<1>1. CASE UNCHANGED callVars
    BY <1>1
    DEF callVars, CacheInv, Calls!TypeOK, Calls!EntriesMatchKeys, StoredIsOver, Spent, Calls!Key
<1>2. ASSUME NEW c \in Call, Calls!CallStep(c) PROVE CacheInv'
    <2>1. Calls!TypeOK' /\ Spent(c)' /\ Calls!EntriesMatchKeys' /\ StoredIsOver'
        BY <1>2, CallTypes, CallSpends, CallStores DEF CacheInv
    <2>2. ASSUME NEW d \in Call \ {c} PROVE Spent(d)'
        BY <1>2, OtherCalls DEF CacheInv, Spent
    <2> QED BY <2>1, <2>2 DEF CacheInv
<1>3. ASSUME NEW k \in Calls!Keys, Calls!Expire(k) PROVE CacheInv'
    <2>1. /\ llmCache' = [llmCache EXCEPT ![k] = Nothing]
          /\ UNCHANGED <<req, callAt, attempt, round, payload, charged, stats, reported>>
        BY <1>3 DEF Calls!Expire
    <2>2. /\ Calls!TypeOK'
          /\ \A j \in Calls!Keys : llmCache'[j] = llmCache[j] \/ llmCache'[j] = Nothing
        BY <2>1 DEF CacheInv, Calls!TypeOK
    <2>3. Calls!EntriesMatchKeys' /\ StoredIsOver'
        BY <2>1, <2>2 DEF CacheInv, Calls!EntriesMatchKeys, StoredIsOver, Calls!Key
    <2>4. \A c \in Call : Spent(c)'
        BY <2>1 DEF CacheInv, Spent
    <2> QED BY <2>2, <2>3, <2>4 DEF CacheInv
<1> QED BY <1>1, <1>2, <1>3 DEF Calls!Next

(* Whichever of the concurrent misses stored last: an answer is for the    *)
(* question asked and of the kind asked for; a call is charged for at most *)
(* six posts and reports what it was charged for, a hit nothing            *)
(* (token_optimizer.py, semantic_cache.py).                                *)
THEOREM AnswersAreFor == Calls!Spec => []CallsAreSound
<1>1. CacheInv => CallsAreSound
    BY DEF CacheInv, CallsAreSound, Calls!CostIsBounded, Spent
<1> QED BY <1>1, CacheBegins, CacheStep, PTL DEF Calls!Spec, Calls!vars, callVars

-----------------------------------------------------------------------------
(***************************************************************************)
(* McpServer: for scripts of any length, pipes and marks of any size.       *)
(***************************************************************************)
Replies(n) == [id : 0..n, is : {"result", "e32601", "e32000"}]

Delivered == read \o stdout \o buffer

McpShape ==
    /\ script \in Seq(Mcp!Line) /\ written \in 0..Len(script) /\ taken \in 0..written
    /\ server \in {"reading", "draining", "returned", "raised"}
    /\ hungUp \in BOOLEAN /\ lost \in BOOLEAN /\ (lost => hungUp)
    /\ read \in Seq(Replies(taken)) /\ stdout \in Seq(Replies(taken))
    /\ buffer \in Seq(Replies(taken))

(* The transport holds one answer more than the mark only while drain()    *)
(* waits, or after serve() has ended.                                      *)
Held ==
    /\ Len(stdout) <= PipeSize /\ Len(buffer) <= HighWater + 1
    /\ server = "reading" => Len(buffer) <= HighWater

IsStart(s, t) == Len(s) <= Len(t) /\ \A k \in 1..Len(s) : s[k] = t[k]

InOrder ==
    /\ IsStart(read, Mcp!AnswersTo(taken))
    /\ ~hungUp /\ Mcp!Alive => Delivered = Mcp!AnswersTo(taken)
    /\ ~hungUp /\ ~Mcp!Alive =>
           /\ IsStart(Delivered, Mcp!AnswersTo(taken))
           /\ Len(Mcp!AnswersTo(taken)) <= Len(Delivered) + HighWater

McpInv == McpShape /\ Held /\ InOrder

LEMMA MarksAreNat == HighWater \in Nat /\ LowWater \in Nat /\ PipeSize \in Nat /\ LowWater <= HighWater
BY McpIsKnown DEF Mcp!McpAssumption

(* The messages among the first lines, one line further.                   *)
LEMMA MessagesGrow ==
    ASSUME script \in Seq(Mcp!Line), NEW n \in 0..Len(script)
    PROVE  /\ IsFiniteSet(Mcp!Messages(n)) /\ Cardinality(Mcp!Messages(n)) \in Nat
           /\ script[n + 1] \notin Mcp!Message => Mcp!Messages(n + 1) = Mcp!Messages(n)
           /\ script[n + 1] \in Mcp!Message =>
                  Cardinality(Mcp!Messages(n + 1)) = Cardinality(Mcp!Messages(n)) + 1
<1>1. IsFiniteSet(1..n) /\ Mcp!Messages(n) \subseteq 1..n
    BY FS_Interval DEF Mcp!Messages
<1>2. IsFiniteSet(Mcp!Messages(n)) /\ Cardinality(Mcp!Messages(n)) \in Nat
    BY <1>1, FS_Subset, FS_CardinalityType
<1>3. ASSUME script[n + 1] \notin Mcp!Message
      PROVE  Mcp!Messages(n + 1) = Mcp!Messages(n)
    BY <1>3 DEF Mcp!Messages
<1>4. ASSUME script[n + 1] \in Mcp!Message
      PROVE  Cardinality(Mcp!Messages(n + 1)) = Cardinality(Mcp!Messages(n)) + 1
    <2>1. Mcp!Messages(n + 1) = Mcp!Messages(n) \cup {n + 1} /\ n + 1 \notin Mcp!Messages(n)
        BY <1>4 DEF Mcp!Messages
    <2> QED BY <2>1, <1>2, FS_AddElement
<1> QED BY <1>2, <1>3, <1>4

(* No two messages are the j-th.                                           *)
LEMMA OneLinePerNumber ==
    ASSUME script \in Seq(Mcp!Line), NEW i \in DOMAIN script, NEW k \in DOMAIN script,
           script[i] \in Mcp!Message, script[k] \in Mcp!Message,
           Cardinality(Mcp!Messages(i)) = Cardinality(Mcp!Messages(k))
    PROVE  i = k
<1>1. ASSUME NEW a \in DOMAIN script, NEW b \in DOMAIN script, a < b,
             script[b] \in Mcp!Message,
             Cardinality(Mcp!Messages(a)) = Cardinality(Mcp!Messages(b))
      PROVE  FALSE
    <2>1. IsFiniteSet(Mcp!Messages(b))
        BY MessagesGrow
    <2>2. Mcp!Messages(a) \in SUBSET Mcp!Messages(b)
        BY <1>1 DEF Mcp!Messages
    <2>3. b \in Mcp!Messages(b) /\ b \notin Mcp!Messages(a)
        BY <1>1 DEF Mcp!Messages
    <2> HIDE DEF Mcp!Messages
    <2> QED BY <1>1, <2>1, <2>2, <2>3, FS_Subset
<1>2. i \in Nat /\ k \in Nat
    BY LenProperties
<1> QED BY <1>1, <1>2

(* The instance's operator is the one of FiniteSets.                       *)
LEMMA SameCount == \A S : Mcp!Cardinality(S) = Cardinality(S)
BY DEF Mcp!Cardinality, Cardinality

LEMMA AnswersGrow ==
    ASSUME script \in Seq(Mcp!Line), NEW n \in 0..Len(script), n + 1 <= Len(script)
    PROVE  /\ script[n + 1] \notin Mcp!Message => Mcp!AnswersTo(n + 1) = Mcp!AnswersTo(n)
           /\ script[n + 1] \in Mcp!Message =>
                  Mcp!AnswersTo(n + 1) = Append(Mcp!AnswersTo(n), Mcp!Resp(n + 1))
<1> DEFINE c == Cardinality(Mcp!Messages(n))
           The(j) == CHOOSE k \in DOMAIN script :
                        script[k] \in Mcp!Message /\ Cardinality(Mcp!Messages(k)) = j
           Is(j) == [id |-> IF script[The(j)] = "notice" THEN 0 ELSE The(j),
                     is |-> Mcp!Code(script[The(j)])]
<1>1. c \in Nat /\ n + 1 \in DOMAIN script
    BY MessagesGrow, LenProperties
<1>2. Mcp!AnswersTo(n) = [j \in 1..c |-> Is(j)]
    BY SameCount DEF Mcp!AnswersTo
<1>3. Mcp!AnswersTo(n + 1) = [j \in 1..Cardinality(Mcp!Messages(n + 1)) |-> Is(j)]
    BY SameCount DEF Mcp!AnswersTo
<1>4. ASSUME script[n + 1] \notin Mcp!Message
      PROVE  Mcp!AnswersTo(n + 1) = Mcp!AnswersTo(n)
    <2>1. Mcp!Messages(n + 1) = Mcp!Messages(n)
        BY <1>4, MessagesGrow
    <2> QED BY <2>1, <1>2, <1>3
<1>5. ASSUME script[n + 1] \in Mcp!Message
      PROVE  Mcp!AnswersTo(n + 1) = Append(Mcp!AnswersTo(n), Mcp!Resp(n + 1))
    <2>1. Cardinality(Mcp!Messages(n + 1)) = c + 1
        BY <1>5, MessagesGrow
    <2>2. The(c + 1) = n + 1
        BY <1>1, <1>5, <2>1, OneLinePerNumber
    <2>3. Is(c + 1) = Mcp!Resp(n + 1)
        BY <2>2 DEF Mcp!Resp
    <2> HIDE DEF c, Is
    <2>4. Append([j \in 1..c |-> Is(j)], Is(c + 1)) = [j \in 1..(c + 1) |-> Is(j)]
        BY <1>1
    <2> QED BY <2>1, <2>3, <2>4, <1>2, <1>3
<1> QED BY <1>4, <1>5


LEMMA AnswersAreSeq ==
    ASSUME script \in Seq(Mcp!Line), NEW n \in 0..Len(script)
    PROVE  \E S : Mcp!AnswersTo(n) \in Seq(S)
<1> DEFINE c == Cardinality(Mcp!Messages(n))
           f == Mcp!AnswersTo(n)
<1>1. c \in Nat
    BY MessagesGrow
<1>2. DOMAIN f = 1..c /\ f = [j \in 1..c |-> f[j]]
    BY SameCount DEF Mcp!AnswersTo
<1> HIDE DEF c, f
<1>3. f \in [1..c -> {f[j] : j \in 1..c}]
    BY <1>2
<1>4. f \in Seq({f[j] : j \in 1..c})
    BY <1>1, <1>3, SeqDef
<1> QED BY <1>4 DEF f

LEMMA StartGrows ==
    ASSUME NEW S, NEW t \in Seq(S), NEW s, NEW e, Len(s) \in Nat, IsStart(s, t)
    PROVE  IsStart(s, Append(t, e))
BY DEF IsStart

(* What may be asked of the script is not changed by a step.               *)
LEMMA ScriptStays ==
    ASSUME [Mcp!Next]_mcpVars
    PROVE  script' = script /\ Mcp!AnswersTo(taken)' = Mcp!AnswersTo(taken')
<1>1. script' = script
    BY DEF mcpVars, Mcp!Next, Mcp!ServerStep, Mcp!client, Mcp!output, Mcp!Send, Mcp!CloseInput,
           Mcp!Read, Mcp!HangUp, Mcp!Serve, Mcp!EndOfInput, Mcp!Flush, Mcp!Resume,
           Mcp!ConnectionLost
<1> QED BY <1>1 DEF Mcp!AnswersTo, Mcp!Messages, Mcp!Message, Mcp!Code

LEMMA RespType ==
    ASSUME NEW n \in Nat, script[n] \in Mcp!Message
    PROVE  Mcp!Resp(n) \in Replies(n)
BY DEF Mcp!Resp, Mcp!Code, Mcp!Message, Replies

(* An answer more at the end of the buffer or, past an empty buffer, of    *)
(* the pipe is an answer more at the end of everything.                    *)
LEMMA DeliveredGrows ==
    ASSUME NEW S, NEW r \in Seq(S), NEW p \in Seq(S), NEW b \in Seq(S), NEW e \in S
    PROVE  /\ (r \o p) \o Append(b, e) = Append((r \o p) \o b, e)
           /\ b = <<>> => (r \o Append(p, e)) \o b = Append((r \o p) \o b, e)
<1>1. r \o p \in Seq(S) /\ (r \o p) \o b \in Seq(S) /\ Append(p, e) \in Seq(S)
    OBVIOUS
<1>2. (r \o p) \o Append(b, e) = Append((r \o p) \o b, e)
    BY <1>1
<1>3. r \o Append(p, e) = Append(r \o p, e)
    OBVIOUS
<1>4. ASSUME b = <<>>
      PROVE  (r \o Append(p, e)) \o b = Append((r \o p) \o b, e)
    <2>1. (r \o p) \o b = r \o p /\ (r \o Append(p, e)) \o b = r \o Append(p, e)
        BY <1>1, <1>4, ConcatEmptySeq
    <2> QED BY <2>1, <1>3
<1> QED BY <1>2, <1>4

(* What moves from the buffer to the pipe, or from there to the client,    *)
(* keeps its place.                                                        *)
LEMMA DeliveredMoves ==
    ASSUME NEW S, NEW r \in Seq(S), NEW p \in Seq(S)
    PROVE  p # <<>> => Append(r, Head(p)) \o Tail(p) = r \o p
<1> SUFFICES ASSUME p # <<>> PROVE Append(r, Head(p)) \o Tail(p) = r \o p
    OBVIOUS
<1>1. /\ Head(p) \in S /\ Tail(p) \in Seq(S) /\ Len(Tail(p)) = Len(p) - 1
      /\ \A i \in 1..Len(Tail(p)) : Tail(p)[i] = p[i + 1]
      /\ Head(p) = p[1] /\ Len(p) \in Nat \ {0}
    BY HeadTailProperties, EmptySeq
<1>2. /\ Append(r, Head(p)) \in Seq(S) /\ Len(Append(r, Head(p))) = Len(r) + 1
      /\ \A i \in 1..Len(r) + 1 :
             Append(r, Head(p))[i] = IF i <= Len(r) THEN r[i] ELSE Head(p)
    BY <1>1, AppendProperties
<1>3. Append(r, Head(p)) \o Tail(p) \in Seq(S) /\ r \o p \in Seq(S)
    BY <1>1, <1>2, ConcatProperties
<1>4. /\ Len(Append(r, Head(p)) \o Tail(p)) = Len(r) + Len(p)
      /\ Len(r \o p) = Len(r) + Len(p)
    BY <1>1, <1>2
<1>5. ASSUME NEW i \in 1..Len(r) + Len(p)
      PROVE  (Append(r, Head(p)) \o Tail(p))[i] = (r \o p)[i]
    BY <1>1, <1>2, <1>5
<1> QED BY <1>3, <1>4, <1>5, SeqEqual


LEMMA TypesGrow ==
    ASSUME NEW m \in Nat, NEW n \in Nat, m <= n, NEW s \in Seq(Replies(m))
    PROVE  s \in Seq(Replies(n))
<1>1. Replies(m) \subseteq Replies(n)
    BY DEF Replies
<1> QED BY <1>1, SeqMonotonic

LEMMA LengthsAreNat ==
    ASSUME McpShape PROVE Len(read) \in Nat /\ Len(stdout) \in Nat /\ Len(buffer) \in Nat
BY LenProperties DEF McpShape

(* What the client has read is a part of what has been delivered.          *)
LEMMA ReadIsStart ==
    ASSUME McpShape PROVE IsStart(read, Delivered)
<1> DEFINE A == Replies(taken)
<1>1. read \in Seq(A) /\ stdout \in Seq(A) /\ buffer \in Seq(A)
    BY DEF McpShape
<1> HIDE DEF A
<1>2. /\ Len((read \o stdout) \o buffer) = (Len(read) + Len(stdout)) + Len(buffer)
      /\ \A i \in 1..Len(read) : ((read \o stdout) \o buffer)[i] = read[i]
    BY <1>1
<1> QED BY <1>2, LengthsAreNat DEF IsStart, Delivered

LEMMA StartIsSubSeq ==
    ASSUME NEW R, NEW s \in Seq(R), NEW S, NEW t \in Seq(S), IsStart(s, t)
    PROVE  Len(s) <= Len(t) /\ s = SubSeq(t, 1, Len(s))
<1>1. /\ Len(s) <= Len(t) /\ \A k \in 1..Len(s) : s[k] = t[k]
      /\ Len(s) \in Nat /\ Len(t) \in Nat
    BY LenProperties DEF IsStart
<1>2. \A k \in 1..Len(s) : t[k] \in S
    BY <1>1, ElementOfSeq
<1>3. /\ SubSeq(t, 1, Len(s)) \in Seq(S) /\ Len(SubSeq(t, 1, Len(s))) = Len(s)
      /\ \A k \in 1..Len(s) : SubSeq(t, 1, Len(s))[k] = t[k]
    BY <1>1, <1>2, SubSeqProperties
<1>4. s \in Seq(S)
    BY <1>1, <1>2, LenProperties, SeqDef
<1> QED BY <1>1, <1>3, <1>4, SeqEqual

(* What is left without the buffer starts what was due with it.            *)
LEMMA BufferLost ==
    ASSUME NEW S, NEW d \in Seq(S), NEW b \in Seq(S)
    PROVE  IsStart(d \o <<>>, d \o b) /\ Len(d \o b) = Len(d \o <<>>) + Len(b)
<1>1. d \o <<>> = d
    BY ConcatEmptySeq
<1>2. Len(d \o b) = Len(d) + Len(b) /\ \A k \in 1..Len(d) : (d \o b)[k] = d[k]
    OBVIOUS
<1>3. Len(d) \in Nat /\ Len(b) \in Nat
    BY LenProperties
<1> QED BY <1>1, <1>2, <1>3 DEF IsStart

(* The end of the program leaves the last answers out.                     *)
LEMMA EndLosesTheLast ==
    ASSUME McpInv, ~hungUp, server = "reading", buffer' = <<>>, UNCHANGED <<read, stdout>>
    PROVE  /\ IsStart(Delivered', Mcp!AnswersTo(taken))
           /\ Len(Mcp!AnswersTo(taken)) <= Len(Delivered') + HighWater
<1> DEFINE A == Replies(taken)
           d == read \o stdout
<1>1. read \in Seq(A) /\ stdout \in Seq(A) /\ buffer \in Seq(A)
    BY DEF McpInv, McpShape
<1> HIDE DEF A
<1>2. d \in Seq(A)
    BY <1>1
<1>3. Delivered = d \o buffer /\ Delivered' = d \o <<>> /\ Delivered = Mcp!AnswersTo(taken)
    BY DEF Delivered, McpInv, InOrder, Mcp!Alive
<1> HIDE DEF d
<1>4. IsStart(d \o <<>>, d \o buffer) /\ Len(d \o buffer) = Len(d \o <<>>) + Len(buffer)
    BY <1>1, <1>2, BufferLost
<1>5. Len(buffer) <= HighWater /\ Len(buffer) \in Nat /\ HighWater \in Nat
    BY LengthsAreNat, MarksAreNat DEF McpInv, Held
<1>6. Len(d \o <<>>) \in Nat
    BY <1>2, ConcatEmptySeq, LenProperties
<1> QED BY <1>3, <1>4, <1>5, <1>6

LEMMA ServeStep ==
    ASSUME McpInv, Mcp!Serve PROVE McpInv'
<1> DEFINE n == taken + 1
<1>1. /\ server = "reading" /\ taken < written /\ taken' = n
      /\ UNCHANGED <<script, written, closed, hungUp, read>>
      /\ n \in 1..Len(script) /\ taken \in 0..Len(script) /\ script[n] \in Mcp!Line
      /\ n \in Nat /\ taken \in Nat /\ taken <= n /\ script \in Seq(Mcp!Line) /\ n <= Len(script)
      /\ n <= written /\ written \in 0..Len(script)
    BY DEF Mcp!Serve, Mcp!client, McpInv, McpShape
<1>2. /\ read \in Seq(Replies(n)) /\ stdout \in Seq(Replies(n)) /\ buffer \in Seq(Replies(n))
    BY <1>1, TypesGrow DEF McpInv, McpShape
<1>3. Mcp!AnswersTo(taken)' = Mcp!AnswersTo(n)
    <2>1. [Mcp!Next]_mcpVars
        BY DEF Mcp!Next, Mcp!ServerStep
    <2> QED BY <2>1, ScriptStays, <1>1
<1>4. ASSUME script[n] \notin Mcp!Message, UNCHANGED <<server, buffer, stdout, lost>>
      PROVE  McpInv'
    <2>1. Mcp!AnswersTo(taken)' = Mcp!AnswersTo(taken)
        BY <1>1, <1>3, <1>4, AnswersGrow
    <2>2. McpShape' /\ Held'
        BY <1>1, <1>2, <1>4 DEF McpInv, McpShape, Held
    <2>3. InOrder'
        BY <1>1, <1>4, <2>1 DEF McpInv, InOrder, IsStart, Delivered, Mcp!Alive
    <2> QED BY <2>2, <2>3 DEF McpInv
<1>5. ASSUME script[n] \notin Mcp!Message, Mcp!Ends("raised")
      PROVE  McpInv'
    <2>1. Mcp!AnswersTo(taken)' = Mcp!AnswersTo(taken)
        BY <1>1, <1>3, <1>5, AnswersGrow
    <2>2. buffer' = <<>> /\ server' = "raised" /\ UNCHANGED <<read, stdout, lost>>
        BY <1>1, <1>5 DEF Mcp!Ends
    <2>3. Len(buffer') = 0 /\ buffer' \in Seq(Replies(n))
        BY <2>2, EmptySeq
    <2>4. McpShape' /\ Held'
        BY <1>1, <1>2, <2>2, <2>3, MarksAreNat DEF McpInv, McpShape, Held
    <2>5. InOrder'
        BY <1>1, <2>1, <2>2, EndLosesTheLast DEF McpInv, InOrder, IsStart, Mcp!Alive
    <2> QED BY <2>4, <2>5 DEF McpInv
<1>6. ASSUME script[n] \in Mcp!Message, Mcp!Write(Mcp!Resp(n)), server' = Mcp!Drain
      PROVE  McpInv'
    <2> DEFINE r == Mcp!Resp(n)
    <2>1. r \in Replies(n)
        BY <1>1, <1>6, RespType
    <2>2. Mcp!AnswersTo(taken)' = Append(Mcp!AnswersTo(taken), r)
        BY <1>1, <1>3, <1>6, AnswersGrow
    <2>3. lost' = lost
        BY <1>6 DEF Mcp!Write
    <2>4. IsStart(read, Mcp!AnswersTo(taken))'
        <3>1. PICK S : Mcp!AnswersTo(taken) \in Seq(S)
            BY <1>1, AnswersAreSeq
        <3>2. IsStart(read, Append(Mcp!AnswersTo(taken), r))
            BY <3>1, StartGrows, LengthsAreNat DEF McpInv, InOrder
        <3> QED BY <3>2, <2>2, <1>1 DEF IsStart
    <2> HIDE DEF r, n
    <2>5. CASE lost
        <3>1. UNCHANGED <<buffer, stdout>> /\ server' = "raised" /\ hungUp
            BY <1>6, <2>5 DEF Mcp!Write, Mcp!Drain, McpInv, McpShape
        <3>2. McpShape' /\ Held'
            BY <1>1, <1>2, <2>3, <3>1 DEF McpInv, McpShape, Held
        <3> QED BY <1>1, <2>4, <3>1, <3>2 DEF McpInv, InOrder, Mcp!Alive
    <2>6. CASE ~lost /\ buffer = <<>> /\ Len(stdout) < PipeSize /\ ~hungUp
        <3>1. stdout' = Append(stdout, r) /\ buffer' = buffer
            BY <1>6, <2>6 DEF Mcp!Write, r
        <3>2. stdout' \in Seq(Replies(n)) /\ Len(stdout') = Len(stdout) + 1
            BY <1>2, <2>1, <3>1
        <3>3. server' = "reading" /\ Len(buffer) = 0
            BY <1>6, <2>6, <3>1, MarksAreNat DEF Mcp!Drain
        <3>4. McpShape'
            BY <1>1, <1>2, <2>3, <3>1, <3>2, <3>3 DEF McpInv, McpShape
        <3>5. Held'
            BY <2>6, <3>1, <3>2, <3>3, MarksAreNat, LengthsAreNat DEF McpInv, Held
        <3>6. Delivered' = Append(Delivered, r)
            BY <1>1, <1>2, <2>1, <2>6, <3>1, DeliveredGrows DEF Delivered
        <3> QED BY <1>1, <2>2, <2>4, <2>6, <3>3, <3>4, <3>5, <3>6 DEF McpInv, InOrder, Mcp!Alive
    <2>7. CASE ~lost /\ ~(buffer = <<>> /\ Len(stdout) < PipeSize /\ ~hungUp)
        <3>1. buffer' = Append(buffer, r) /\ stdout' = stdout
            BY <1>6, <2>7 DEF Mcp!Write, r
        <3>2. buffer' \in Seq(Replies(n)) /\ Len(buffer') = Len(buffer) + 1
            BY <1>2, <2>1, <3>1
        <3>3. server' = IF Len(buffer') > HighWater THEN "draining" ELSE "reading"
            BY <1>6, <2>7 DEF Mcp!Drain
        <3>4. McpShape'
            BY <1>1, <1>2, <2>3, <3>1, <3>2, <3>3 DEF McpInv, McpShape
        <3>5. Held'
            BY <1>1, <3>1, <3>2, <3>3, MarksAreNat, LengthsAreNat DEF McpInv, Held
        <3>6. Delivered' = Append(Delivered, r)
            BY <1>1, <1>2, <2>1, <3>1, DeliveredGrows DEF Delivered
        <3> QED BY <1>1, <2>2, <2>4, <3>3, <3>4, <3>5, <3>6 DEF McpInv, InOrder, Mcp!Alive
    <2> QED BY <2>5, <2>6, <2>7
<1> QED BY <1>1, <1>4, <1>6, <1>5 DEF Mcp!Serve, Mcp!output, Mcp!Line, Mcp!Message

LEMMA McpStep == McpInv /\ [Mcp!Next]_mcpVars => McpInv'
<1> SUFFICES ASSUME McpInv, [Mcp!Next]_mcpVars PROVE McpInv'
    OBVIOUS
<1>1. /\ taken' = taken => Mcp!AnswersTo(taken)' = Mcp!AnswersTo(taken)
      /\ LowWater <= HighWater /\ LowWater \in Nat /\ HighWater \in Nat /\ PipeSize \in Nat
      /\ Len(read) \in Nat /\ Len(stdout) \in Nat /\ Len(buffer) \in Nat
      /\ McpShape /\ Held /\ InOrder
      /\ read \in Seq(Replies(taken)) /\ stdout \in Seq(Replies(taken))
      /\ buffer \in Seq(Replies(taken))
    BY ScriptStays, MarksAreNat, LengthsAreNat DEF McpInv, McpShape
<1>2. CASE Mcp!EndOfInput
    <2>1. /\ UNCHANGED <<script, written, hungUp, read, taken, stdout, lost>>
          /\ server = "reading" /\ server' = "returned" /\ buffer' = <<>>
        BY <1>2 DEF Mcp!EndOfInput, Mcp!Ends, Mcp!client
    <2>2. Len(buffer') = 0 /\ buffer' \in Seq(Replies(taken))
        BY <2>1, EmptySeq
    <2>3. McpShape' /\ Held'
        BY <1>1, <2>1, <2>2 DEF McpShape, Held
    <2>4. InOrder'
        BY <1>1, <2>1, EndLosesTheLast DEF McpInv, InOrder, IsStart, Mcp!Alive
    <2> QED BY <2>3, <2>4 DEF McpInv
<1>3. CASE Mcp!Send \/ Mcp!CloseInput \/ Mcp!Resume \/ UNCHANGED mcpVars
    <2>1. /\ UNCHANGED <<script, hungUp, read, taken, buffer, stdout, lost>>
          /\ server' = "reading" => server = "reading" \/ Len(buffer) <= LowWater
          /\ server' \in {"reading", "draining", "returned", "raised"}
          /\ server' = server \/ (server = "draining" /\ (server' = "reading" \/ hungUp))
          /\ written' \in 0..Len(script) /\ taken \in 0..written'
        <3>0. /\ written \in 0..Len(script) /\ taken \in 0..written /\ (lost => hungUp)
              /\ server \in {"reading", "draining", "returned", "raised"} /\ Len(script) \in Nat
            BY <1>1, LenProperties DEF McpShape
        <3>1. CASE Mcp!Send
            BY <3>0, <3>1 DEF Mcp!Send, Mcp!output
        <3>2. CASE Mcp!CloseInput
            BY <3>0, <3>2 DEF Mcp!CloseInput, Mcp!output
        <3>3. CASE Mcp!Resume
            BY <3>0, <3>3 DEF Mcp!Resume, Mcp!client, Mcp!output
        <3>4. CASE UNCHANGED mcpVars
            BY <3>0, <3>4 DEF mcpVars
        <3> QED BY <1>3, <3>1, <3>2, <3>3, <3>4
    <2>2. McpShape' /\ Held'
        BY <1>1, <2>1 DEF McpShape, Held
    <2> QED BY <1>1, <2>1, <2>2 DEF McpInv, InOrder, IsStart, Delivered, Mcp!Alive
<1>4. CASE Mcp!Read
    <2>1. /\ stdout # <<>> /\ ~hungUp
          /\ read' = Append(read, Head(stdout)) /\ stdout' = Tail(stdout)
          /\ UNCHANGED <<script, written, closed, hungUp, taken, server, buffer, lost>>
        BY <1>4 DEF Mcp!Read
    <2>2. /\ read' \in Seq(Replies(taken)) /\ stdout' \in Seq(Replies(taken))
          /\ Len(stdout') = Len(stdout) - 1
        BY <1>1, <2>1, HeadTailProperties
    <2>3. McpShape' /\ Held'
        BY <1>1, <2>1, <2>2 DEF McpShape, Held
    <2>4. Delivered' = Delivered
        BY <1>1, <2>1, DeliveredMoves DEF Delivered
    <2>5. IsStart(read, Delivered)'
        <3>1. McpShape' => IsStart(read, Delivered)'
            BY ReadIsStart, PTL
        <3> QED BY <2>3, <3>1
    <2> QED BY <1>1, <2>1, <2>3, <2>4, <2>5 DEF McpInv, InOrder, IsStart, Mcp!Alive
<1>5. CASE Mcp!HangUp \/ Mcp!ConnectionLost
    <2>1. /\ UNCHANGED <<script, written, read, taken, server>> /\ hungUp' = TRUE
          /\ stdout' \in {stdout, <<>>} /\ buffer' \in {buffer, <<>>}
          /\ lost' \in BOOLEAN
        BY <1>1, <1>5 DEF Mcp!HangUp, Mcp!ConnectionLost, Mcp!client, McpShape
    <2>2. /\ stdout' \in Seq(Replies(taken)) /\ buffer' \in Seq(Replies(taken))
          /\ Len(stdout') <= Len(stdout) /\ Len(buffer') <= Len(buffer)
          /\ Len(stdout') \in Nat /\ Len(buffer') \in Nat
        <3> DEFINE A == Replies(taken)
        <3>1. <<>> \in Seq(A) /\ Len(<<>>) = 0 /\ stdout \in Seq(A) /\ buffer \in Seq(A)
            BY <1>1, EmptySeq
        <3> HIDE DEF A
        <3>2. stdout' \in Seq(A) /\ buffer' \in Seq(A)
            BY <3>1, <2>1
        <3>3. (stdout' = stdout \/ stdout' = <<>>) /\ (buffer' = buffer \/ buffer' = <<>>)
            BY <2>1
        <3> QED BY <1>1, <3>1, <3>2, <3>3 DEF A
    <2>3. McpShape' /\ Held'
        BY <1>1, <2>1, <2>2 DEF McpShape, Held
    <2> QED BY <1>1, <2>1, <2>3 DEF McpInv, InOrder, IsStart, Mcp!Alive
<1>6. CASE Mcp!Flush
    <2>1. /\ buffer # <<>> /\ Len(stdout) < PipeSize /\ ~hungUp
          /\ stdout' = Append(stdout, Head(buffer)) /\ buffer' = Tail(buffer)
          /\ UNCHANGED <<script, written, closed, hungUp, read, taken, server, lost>>
        BY <1>6 DEF Mcp!Flush, Mcp!client
    <2>2. /\ stdout' \in Seq(Replies(taken)) /\ buffer' \in Seq(Replies(taken))
          /\ Len(stdout') = Len(stdout) + 1 /\ Len(buffer') = Len(buffer) - 1
        BY <1>1, <2>1, HeadTailProperties
    <2>3. McpShape' /\ Held'
        BY <1>1, <2>1, <2>2 DEF McpShape, Held
    <2>4. Delivered' = Delivered
        <3> DEFINE A == Replies(taken)
        <3>0. read \in Seq(A) /\ stdout \in Seq(A) /\ buffer \in Seq(A)
            BY <1>1
        <3> HIDE DEF A
        <3>1. stdout' \o buffer' = stdout \o buffer
            BY <3>0, <2>1, DeliveredMoves
        <3>2. (read \o stdout) \o buffer = read \o (stdout \o buffer)
            BY <3>0, ConcatAssociative
        <3>3. stdout' \in Seq(A) /\ buffer' \in Seq(A)
            BY <2>2 DEF A
        <3>4. (read \o stdout') \o buffer' = read \o (stdout' \o buffer')
            BY <3>0, <3>3, ConcatAssociative
        <3> QED BY <2>1, <3>1, <3>2, <3>4 DEF Delivered
    <2> QED BY <1>1, <2>1, <2>3, <2>4 DEF McpInv, InOrder, IsStart, Mcp!Alive
<1> QED BY <1>3, <1>4, <1>5, <1>6, <1>2, ServeStep DEF Mcp!Next, Mcp!ServerStep

LEMMA McpBegins == Mcp!Init => McpInv
<1> SUFFICES ASSUME Mcp!Init PROVE McpInv
    OBVIOUS
<1>1. script \in Seq(Mcp!Line) /\ Len(script) \in Nat
    <2>1. PICK n \in 0..MaxLines : script \in [1..n -> Mcp!Line]
        BY DEF Mcp!Init
    <2>2. n \in Nat
        BY <2>1, McpIsKnown DEF Mcp!McpAssumption
    <2> QED BY <2>1, <2>2, SeqDef, LenProperties
<1>2. Mcp!AnswersTo(0) = <<>>
    <2>1. Mcp!Messages(0) = {}
        BY DEF Mcp!Messages
    <2>2. Cardinality(Mcp!Messages(0)) = 0
        BY <2>1, FS_EmptySet
    <2>3. DOMAIN Mcp!AnswersTo(0) = {}
        BY <2>2, SameCount DEF Mcp!AnswersTo
    <2> QED BY <2>2, SameCount DEF Mcp!AnswersTo
<1>3. read \o stdout \o buffer = <<>> /\ taken = 0 /\ read = <<>>
    BY DEF Mcp!Init
<1>4. McpShape /\ Held
    <2>1. /\ read \in Seq(Replies(taken)) /\ stdout \in Seq(Replies(taken))
          /\ buffer \in Seq(Replies(taken)) /\ Len(stdout) = 0 /\ Len(buffer) = 0
        BY EmptySeq DEF Mcp!Init
    <2>2. /\ script \in Seq(Mcp!Line) /\ written = 0 /\ taken = 0 /\ server = "reading"
          /\ hungUp = FALSE /\ lost = FALSE
        BY <1>1 DEF Mcp!Init
    <2>3. written \in 0..Len(script) /\ taken \in 0..written
        BY <1>1, <2>2
    <2>4. /\ server \in {"reading", "draining", "returned", "raised"}
          /\ hungUp \in BOOLEAN /\ lost \in BOOLEAN /\ (lost => hungUp)
        BY <2>2
    <2>5. McpShape
        BY <2>1, <2>2, <2>3, <2>4, Zenon DEF McpShape
    <2> QED BY <2>1, <2>2, <2>5, MarksAreNat DEF Held
<1>5. Mcp!Alive
    BY DEF Mcp!Init, Mcp!Alive
<1> QED BY <1>2, <1>3, <1>4, <1>5 DEF McpInv, InOrder, IsStart, Delivered

(* For scripts of any length and pipes and buffers of any size: answers    *)
(* come in the order of the messages, none is missing while the server     *)
(* runs and the client listens, at its end at most the last HighWater are, *)
(* and the transport never holds more than one answer above that mark      *)
(* (prism_mcp.py).                                                         *)
THEOREM McpAnswersInOrder == Mcp!Spec => []McpIsReliable
<1>1. McpInv => McpIsReliable
    <2> SUFFICES ASSUME McpInv PROVE McpIsReliable
        OBVIOUS
    <2>1. \A s \in {read, buffer, stdout} : \A k \in DOMAIN s :
              s[k].id \in 0..taken /\ s[k].is \in {"result", "e32601", "e32000"}
        <3> SUFFICES ASSUME NEW s \in Seq(Replies(taken)), NEW k \in DOMAIN s
                     PROVE  s[k].id \in 0..taken /\ s[k].is \in {"result", "e32601", "e32000"}
            BY DEF McpInv, McpShape
        <3>1. s[k] \in Replies(taken)
            BY ElementOfSeq, LenProperties
        <3> QED BY <3>1 DEF Replies
    <2>2. Mcp!TypeOK
        BY <2>1 DEF McpInv, McpShape, Held, Mcp!TypeOK
    <2>3. PICK S : Mcp!AnswersTo(taken) \in Seq(S)
        <3>1. script \in Seq(Mcp!Line) /\ taken \in 0..Len(script)
            BY LenProperties DEF McpInv, McpShape
        <3> QED BY <3>1, AnswersAreSeq
    <2> DEFINE t == Mcp!AnswersTo(taken)
               due == (read \o stdout) \o buffer
    <2>4. read \in Seq(Replies(taken)) /\ due \in Seq(Replies(taken)) /\ Delivered = due
        <3> DEFINE A == Replies(taken)
        <3>1. read \in Seq(A) /\ stdout \in Seq(A) /\ buffer \in Seq(A)
            BY DEF McpInv, McpShape
        <3> HIDE DEF A
        <3> QED BY <3>1 DEF Delivered, A
    <2>5. /\ IsStart(read, t)
          /\ ~hungUp /\ Mcp!Alive => due = t
          /\ ~hungUp /\ ~Mcp!Alive => IsStart(due, t) /\ Len(t) <= Len(due) + HighWater
        BY <2>4 DEF McpInv, InOrder
    <2>6. t \in Seq(S) /\ Len(t) \in Nat /\ Len(due) \in Nat
        BY <2>3, <2>4, LenProperties
    <2> HIDE DEF t, due
    <2>7. Len(read) <= Len(t) /\ read = SubSeq(t, 1, Len(read))
        BY <2>4, <2>5, <2>6, StartIsSubSeq
    <2>8. ASSUME ~hungUp
          PROVE  /\ Len(due) <= Len(t) /\ due = SubSeq(t, 1, Len(due))
                 /\ Len(t) <= Len(due) + (IF Mcp!Alive THEN 0 ELSE HighWater)
        <3>1. IsStart(due, t)
            BY <2>5, <2>6, <2>8 DEF IsStart
        <3>2. Len(due) <= Len(t) /\ due = SubSeq(t, 1, Len(due))
            BY <2>4, <2>6, <3>1, StartIsSubSeq
        <3> QED BY <2>5, <2>6, <2>8, <3>2
    <2>9. Mcp!AnswersInOrder
        BY <2>7, <2>8 DEF Mcp!AnswersInOrder, t, due
    <2> QED BY <2>2, <2>9 DEF McpIsReliable, Mcp!Backpressure, McpInv, Held
<1>2. [Mcp!Next]_Mcp!vars => [Mcp!Next]_mcpVars
    BY DEF Mcp!vars, mcpVars, Mcp!client, Mcp!output
<1> QED BY <1>1, <1>2, McpBegins, McpStep, PTL DEF Mcp!Spec

-----------------------------------------------------------------------------
(* A set of natural numbers that is not empty has a least element.         *)
LEMMA LeastNat ==
    ASSUME NEW T, T \subseteq Nat, T # {}
    PROVE  \E x \in T : \A y \in T : x <= y
<1> DEFINE R == {ss \in Nat \X Nat : ss[1] < ss[2]}
<1>1. R = OpToRel(<, Nat)
    BY Zenon DEF OpToRel
<1>2. PICK x \in T : \A y \in T : ~ (<<y, x>> \in R)
    <2> HIDE DEF R
    <2> QED BY <1>1, NatLessThanWellFounded, WFMin
<1>3. \A y \in T : ~ (y < x)
    BY <1>2
<1> QED BY <1>3

(***************************************************************************)
(* Conversation: for any conversations, turns, texts and limits.           *)
(***************************************************************************)
Texts == Seq(Nat)
TurnType == Nat \X Nat

(* f holds the texts that the flattening of s passes through.              *)
Flattens(f, s) ==
    /\ f = [k \in 1..Len(s) |-> f[k]]
    /\ \A k \in 1..Len(s) : f[k] = IF k = 1 THEN s[k] ELSE f[k - 1] \o s[k]

LEMMA FlatteningExists ==
    ASSUME NEW s \in Seq(Texts) PROVE \E f : Flattens(f, s)
<1> DEFINE n == Len(s)
           Has(m) == \E f : \A k \in 1..m : f[k] = IF k = 1 THEN s[k] ELSE f[k - 1] \o s[k]
           T == {m \in 0..n : ~Has(m)}
<1>0. n \in Nat
    BY LenProperties
<1>1. Has(0)
    OBVIOUS
<1>2. ASSUME NEW m \in 1..n, Has(m - 1) PROVE Has(m)
    <2>1. PICK f : \A k \in 1..(m - 1) : f[k] = IF k = 1 THEN s[k] ELSE f[k - 1] \o s[k]
        BY <1>2
    <2> DEFINE g == [k \in 0..m |-> IF k = m THEN IF k = 1 THEN s[k] ELSE f[k - 1] \o s[k] ELSE f[k]]
    <2>2. ASSUME NEW k \in 1..m PROVE g[k] = IF k = 1 THEN s[k] ELSE g[k - 1] \o s[k]
        <3>0. k \in Int /\ k - 1 \in 0..m /\ k - 1 # m /\ m \in Int
            BY <1>0
        <3>1. g[k] = (IF k = m THEN IF k = 1 THEN s[k] ELSE f[k - 1] \o s[k] ELSE f[k]) /\ g[k - 1] = f[k - 1]
            BY <3>0
        <3> HIDE DEF g
        <3>2. CASE k = m
            BY <3>1, <3>2
        <3>3. CASE k # m
            <4>1. k \in 1..(m - 1)
                BY <3>0, <3>3
            <4> QED BY <2>1, <3>1, <3>3, <4>1
        <3> QED BY <3>2, <3>3
    <2> HIDE DEF g
    <2> QED BY <2>2
<1>3. Has(n)
    <2> SUFFICES ASSUME ~Has(n) PROVE FALSE
        OBVIOUS
    <2> HIDE DEF Has
    <2>1. T \subseteq Nat /\ T # {}
        BY <1>0
    <2>2. PICK m \in T : \A x \in T : m <= x
        BY <2>1, LeastNat
    <2>3. m # 0
        BY <1>1, <2>2
    <2>4. m \in 1..n /\ m - 1 \in 0..n /\ m - 1 \notin T
        BY <1>0, <2>2, <2>3
    <2> QED BY <1>2, <2>2, <2>4
<1>4. PICK f : \A k \in 1..n : f[k] = IF k = 1 THEN s[k] ELSE f[k - 1] \o s[k]
    BY <1>3
<1> DEFINE h == [k \in 1..n |-> f[k]]
<1>5. ASSUME NEW k \in 1..n PROVE h[k] = IF k = 1 THEN s[k] ELSE h[k - 1] \o s[k]
    <2>1. k # 1 => k - 1 \in 1..n
        BY <1>0
    <2> QED BY <1>4, <2>1
<1>6. h = [k \in 1..n |-> h[k]]
    OBVIOUS
<1> HIDE DEF h
<1> QED BY <1>5, <1>6 DEF Flattens

LEMMA FlattenIs ==
    ASSUME NEW s \in Seq(Texts), Len(s) # 0
    PROVE  \E f : Flattens(f, s) /\ Talk!FlattenSeq(s) = f[Len(s)]
<1> DEFINE n == Len(s)
           F == CHOOSE f : f = [k \in 1..n |-> IF k = 1 THEN s[k] ELSE f[k - 1] \o s[k]]
<1>1. PICK g : Flattens(g, s)
    BY FlatteningExists
<1>2. g = [k \in 1..n |-> IF k = 1 THEN s[k] ELSE g[k - 1] \o s[k]]
    <2>1. [k \in 1..n |-> g[k]] = [k \in 1..n |-> IF k = 1 THEN s[k] ELSE g[k - 1] \o s[k]]
        BY <1>1 DEF Flattens
    <2> QED BY <1>1, <2>1 DEF Flattens
<1>3. F = [k \in 1..n |-> IF k = 1 THEN s[k] ELSE F[k - 1] \o s[k]]
    <2>1. \E f : f = [k \in 1..n |-> IF k = 1 THEN s[k] ELSE f[k - 1] \o s[k]]
        BY <1>2
    <2> QED BY <2>1
<1>4. Talk!FlattenSeq(s) = F[n]
    BY DEF Talk!FlattenSeq
<1> HIDE DEF F
<1>5. \A k \in 1..n : F[k] = IF k = 1 THEN s[k] ELSE F[k - 1] \o s[k]
    BY <1>3
<1>6. F = [k \in 1..n |-> F[k]]
    BY <1>3
<1> QED BY <1>4, <1>5, <1>6 DEF Flattens

(* The flattening of a longer sequence starts like that of the shorter.    *)
LEMMA FlattenedAgree ==
    ASSUME NEW s \in Seq(Texts), NEW x \in Texts, NEW f, NEW g,
           Flattens(f, Append(s, x)), Flattens(g, s)
    PROVE  \A k \in 1..Len(s) : f[k] = g[k] /\ g[k] \in Texts
<1> DEFINE n == Len(s)
           T == {k \in 1..n : ~(f[k] = g[k] /\ g[k] \in Texts)}
<1>0. n \in Nat /\ \A k \in 1..n : s[k] \in Texts /\ Append(s, x)[k] = s[k] /\ k \in 1..Len(Append(s, x))
    BY LenProperties, ElementOfSeq, AppendProperties
<1>1. T = {}
    <2> SUFFICES ASSUME T # {} PROVE FALSE
        OBVIOUS
    <2>1. PICK k \in T : \A y \in T : k <= y
        <3>1. T \subseteq Nat
            BY <1>0
        <3> QED BY <3>1, LeastNat
    <2>2. k \in 1..n /\ ~(f[k] = g[k] /\ g[k] \in Texts)
        BY <2>1
    <2>3. /\ f[k] = IF k = 1 THEN s[k] ELSE f[k - 1] \o s[k]
          /\ g[k] = IF k = 1 THEN s[k] ELSE g[k - 1] \o s[k]
        BY <1>0, <2>2 DEF Flattens
    <2>4. CASE k = 1
        BY <1>0, <2>2, <2>3, <2>4
    <2>5. CASE k # 1
        <3>1. k - 1 \in 1..n /\ k - 1 \notin T
            BY <1>0, <2>1, <2>2, <2>5
        <3>2. f[k - 1] = g[k - 1] /\ g[k - 1] \in Texts /\ s[k] \in Texts
            BY <1>0, <2>2, <3>1
        <3>3. g[k - 1] \o s[k] \in Texts
            BY <3>2, ConcatProperties DEF Texts
        <3> QED BY <2>2, <2>3, <2>5, <3>2, <3>3
    <2> QED BY <2>4, <2>5
<1> QED BY <1>1

LEMMA FlattenAppend ==
    ASSUME NEW s \in Seq(Texts), NEW x \in Texts
    PROVE  /\ Talk!FlattenSeq(Append(s, x)) = Talk!FlattenSeq(s) \o x
           /\ Talk!FlattenSeq(s) \in Texts
<1> DEFINE n == Len(s)
           a == Append(s, x)
<1>0. /\ n \in Nat /\ a \in Seq(Texts) /\ Len(a) = n + 1 /\ a[n + 1] = x
      /\ \A k \in 1..n : a[k] = s[k]
    BY LenProperties, AppendProperties
<1>1. PICK f : Flattens(f, a) /\ Talk!FlattenSeq(a) = f[n + 1]
    <2>1. Len(a) # 0
        BY <1>0
    <2> QED BY <1>0, <2>1, FlattenIs
<1> HIDE DEF a
<1>2. f[n + 1] = IF n = 0 THEN x ELSE f[n] \o x
    <2>1. n + 1 \in 1..Len(a) /\ (n + 1 = 1 <=> n = 0) /\ (n + 1) - 1 = n
        BY <1>0
    <2>2. f[n + 1] = IF n + 1 = 1 THEN a[n + 1] ELSE f[(n + 1) - 1] \o a[n + 1]
        BY <1>1, <2>1 DEF Flattens
    <2> QED BY <1>0, <2>1, <2>2
<1>3. CASE n = 0
    <2>1. s = <<>>
        BY <1>3, EmptySeq
    <2>2. Talk!FlattenSeq(s) = <<>>
        BY <1>3, <2>1 DEF Talk!FlattenSeq
    <2>3. <<>> \o x = x /\ <<>> \in Texts
        BY ConcatEmptySeq, EmptySeq DEF Texts
    <2> QED BY <1>1, <1>2, <1>3, <2>2, <2>3 DEF a
<1>4. CASE n # 0
    <2>1. PICK g : Flattens(g, s) /\ Talk!FlattenSeq(s) = g[n]
        BY <1>4, FlattenIs
    <2>2. f[n] = g[n] /\ g[n] \in Texts
        <3>1. n \in 1..Len(s)
            BY <1>0, <1>4
        <3> QED BY <1>1, <2>1, <3>1, FlattenedAgree DEF a
    <2> QED BY <1>1, <1>2, <1>4, <2>1, <2>2 DEF a
<1> QED BY <1>3, <1>4

LEMMA TextsAssociate == \A p, q, r \in Seq(Nat) : (p \o q) \o r = p \o (q \o r)
BY ConcatAssociative

LEMMA ClipIsText == \A t \in TurnType : Talk!Clip(t) \in Texts
<1> SUFFICES ASSUME NEW t \in TurnType PROVE Talk!Clip(t) \in Texts
    OBVIOUS
<1>1. t[1] \in Nat /\ t[2] \in Nat
    BY DEF TurnType
<1>2. [k \in 1..t[2] |-> t[1]] \in [1..t[2] -> Nat]
    BY <1>1
<1> QED BY <1>1, <1>2, SeqDef DEF Talk!Clip, Texts

(* The texts of some turns, before they are put together                   *)
Clips(ts) == [k \in DOMAIN ts |-> Talk!Clip(ts[k])]

LEMMA ClipsAppend ==
    ASSUME NEW ts \in Seq(TurnType), NEW t \in TurnType
    PROVE  Clips(ts) \in Seq(Texts) /\ Clips(Append(ts, t)) = Append(Clips(ts), Talk!Clip(t))
<1> DEFINE n == Len(ts)
           u == Append(ts, t)
           a == Append(Clips(ts), Talk!Clip(t))
<1>1. /\ n \in Nat /\ DOMAIN ts = 1..n /\ u \in Seq(TurnType) /\ Len(u) = n + 1 /\ DOMAIN u = 1..(n + 1)
      /\ u[n + 1] = t /\ \A k \in 1..n : u[k] = ts[k] /\ ts[k] \in TurnType
    BY LenProperties, AppendProperties, ElementOfSeq
<1>2. Clips(ts) \in [1..n -> Texts]
    BY <1>1, ClipIsText DEF Clips
<1>3. Clips(ts) \in Seq(Texts) /\ Len(Clips(ts)) = n
    <2>1. Clips(ts) \in Seq(Texts)
        BY <1>1, <1>2, SeqDef
    <2> QED BY <1>1, <1>2, <2>1, LenProperties
<1>4. /\ a \in Seq(Texts) /\ Len(a) = n + 1 /\ a[n + 1] = Talk!Clip(t)
      /\ \A k \in 1..n : a[k] = Clips(ts)[k]
    BY <1>1, <1>3, ClipIsText, AppendProperties
<1>5. Clips(u) \in Seq(Texts) /\ Len(Clips(u)) = n + 1
    <2>1. \A k \in 1..(n + 1) : u[k] \in TurnType
        BY <1>1, ElementOfSeq
    <2>2. Clips(u) \in [1..(n + 1) -> Texts]
        BY <1>1, <2>1, ClipIsText DEF Clips
    <2>3. Clips(u) \in Seq(Texts)
        BY <1>1, <2>2, SeqDef
    <2> QED BY <1>1, <2>2, <2>3, LenProperties
<1>6. ASSUME NEW k \in 1..(n + 1) PROVE Clips(u)[k] = a[k]
    <2>1. k \in 1..n \/ k = n + 1
        BY <1>1
    <2>2. Clips(u)[k] = Talk!Clip(u[k])
        BY <1>1 DEF Clips
    <2>3. k \in 1..n => Clips(ts)[k] = Talk!Clip(ts[k])
        BY <1>1 DEF Clips
    <2> HIDE DEF a, u
    <2> QED BY <1>1, <1>4, <2>1, <2>2, <2>3
<1> HIDE DEF a, u
<1>7. Clips(u) = a
    BY <1>4, <1>5, <1>6, SeqEqual
<1> QED BY <1>3, <1>7 DEF a, u

LEMMA TextAppend ==
    ASSUME NEW ts \in Seq(TurnType), NEW t \in TurnType
    PROVE  Talk!Text(Append(ts, t)) = Talk!Text(ts) \o Talk!Clip(t)
BY ClipsAppend, FlattenAppend, ClipIsText DEF Talk!Text, Clips

LEMMA TextIsText == ASSUME NEW ts \in Seq(TurnType) PROVE Talk!Text(ts) \in Texts
<1>1. <<0, 0>> \in TurnType /\ <<>> \in Texts
    BY EmptySeq DEF TurnType, Texts
<1> QED BY <1>1, ClipsAppend, FlattenAppend DEF Talk!Text, Clips

LEMMA TextConcat ==
    ASSUME NEW a \in Seq(TurnType), NEW b \in Seq(TurnType)
    PROVE  Talk!Text(a \o b) = Talk!Text(a) \o Talk!Text(b)
<1> DEFINE n == Len(b)
           P(m) == SubSeq(b, 1, m)
           Holds(m) == Talk!Text(a \o P(m)) = Talk!Text(a) \o Talk!Text(P(m))
           T == {m \in 0..n : ~Holds(m)}
<1>0. n \in Nat /\ \A k \in 1..n : b[k] \in TurnType
    BY LenProperties, ElementOfSeq
<1>1. \A m \in 0..n : P(m) \in Seq(TurnType) /\ Len(P(m)) = m
    BY <1>0, SubSeqProperties
<1>2. Holds(0)
    <2>1. P(0) = <<>>
        BY <1>0, <1>1, EmptySeq
    <2>2. Talk!Text(<<>>) = <<>>
        BY DEF Talk!Text, Talk!FlattenSeq
    <2>3. a \o <<>> = a /\ Talk!Text(a) \o <<>> = Talk!Text(a)
        BY TextIsText, ConcatEmptySeq DEF Texts
    <2> HIDE DEF P
    <2> QED BY <2>1, <2>2, <2>3
<1>3. ASSUME NEW m \in 1..n, Holds(m - 1) PROVE Holds(m)
    <2> DEFINE p == P(m - 1)
    <2>0. m - 1 \in 0..n /\ m \in 0..n /\ b[m] \in TurnType
        BY <1>0
    <2>1. p \in Seq(TurnType) /\ Len(p) = m - 1
        BY <1>1, <2>0
    <2>2. P(m) = Append(p, b[m])
        <3>1. Append(p, b[m]) \in Seq(TurnType) /\ Len(Append(p, b[m])) = m
            BY <2>0, <2>1, AppendProperties
        <3>2. ASSUME NEW k \in 1..m PROVE P(m)[k] = Append(p, b[m])[k]
            <4>1. P(m)[k] = b[k]
                BY <1>0, SubSeqProperties
            <4>2. k \in 1..(m - 1) => p[k] = b[k]
                BY <1>0, SubSeqProperties
            <4>3. Append(p, b[m])[k] = IF k = m THEN b[m] ELSE p[k]
                <5>1. k \in 1..Len(p) \/ k = Len(p) + 1
                    BY <1>0, <2>1
                <5> HIDE DEF p
                <5> QED BY <2>0, <2>1, <5>1, AppendProperties
            <4> HIDE DEF p, P
            <4> QED BY <1>0, <4>1, <4>2, <4>3
        <3>3. P(m) \in Seq(TurnType) /\ Len(P(m)) = m
            BY <1>1, <2>0
        <3> HIDE DEF p, P
        <3> QED BY <3>1, <3>2, <3>3, SeqEqual
    <2> HIDE DEF p, P
    <2>3. a \o Append(p, b[m]) = Append(a \o p, b[m]) /\ a \o p \in Seq(TurnType)
        <3>1. a \o p \in Seq(TurnType)
            BY <2>1, ConcatProperties
        <3>2. a \o Append(p, b[m]) = Append(a \o p, b[m])
            <4> DEFINE l == a \o Append(p, b[m])
                       r == Append(a \o p, b[m])
            <4>1. Append(p, b[m]) \in Seq(TurnType) /\ Len(Append(p, b[m])) = Len(p) + 1
                  /\ Append(p, b[m])[Len(p) + 1] = b[m]
                  /\ \A k \in 1..Len(p) : Append(p, b[m])[k] = p[k]
                BY <2>0, <2>1, AppendProperties
            <4>2. Len(a) \in Nat /\ Len(p) \in Nat
                BY <2>1, LenProperties
            <4>3. /\ l \in Seq(TurnType) /\ Len(l) = Len(a) + Len(p) + 1
                  /\ \A k \in 1..(Len(a) + Len(p) + 1) :
                         l[k] = IF k <= Len(a) THEN a[k] ELSE Append(p, b[m])[k - Len(a)]
                BY <4>1, <4>2, ConcatProperties
            <4>4. /\ Len(a \o p) = Len(a) + Len(p)
                  /\ \A k \in 1..(Len(a) + Len(p)) :
                         (a \o p)[k] = IF k <= Len(a) THEN a[k] ELSE p[k - Len(a)]
                BY <2>1, ConcatProperties
            <4>5. /\ r \in Seq(TurnType) /\ Len(r) = Len(a) + Len(p) + 1
                  /\ r[Len(a) + Len(p) + 1] = b[m]
                  /\ \A k \in 1..(Len(a) + Len(p)) : r[k] = (a \o p)[k]
                BY <2>0, <3>1, <4>4, AppendProperties
            <4>6. ASSUME NEW k \in 1..(Len(a) + Len(p) + 1) PROVE l[k] = r[k]
                <5> HIDE DEF l, r
                <5>1. CASE k <= Len(a)
                    <6>1. k \in 1..(Len(a) + Len(p))
                        BY <4>2, <5>1
                    <6> QED BY <4>3, <4>4, <4>5, <5>1, <6>1
                <5>2. CASE k > Len(a) /\ k <= Len(a) + Len(p)
                    <6>1. k - Len(a) \in 1..Len(p) /\ k \in 1..(Len(a) + Len(p))
                        BY <4>2, <5>2
                    <6> QED BY <4>1, <4>2, <4>3, <4>4, <4>5, <5>2, <6>1
                <5>3. CASE k = Len(a) + Len(p) + 1
                    <6>1. k - Len(a) = Len(p) + 1 /\ ~(k <= Len(a))
                        BY <4>2, <5>3
                    <6> QED BY <4>1, <4>3, <4>5, <5>3, <6>1
                <5> QED BY <4>2, <5>1, <5>2, <5>3
            <4> HIDE DEF l, r
            <4>7. l = r
                BY <4>3, <4>5, <4>6, SeqEqual
            <4> QED BY <4>7 DEF l, r
        <3> QED BY <3>1, <3>2
    <2>4. Talk!Text(a \o p) = Talk!Text(a) \o Talk!Text(p)
        BY <1>3 DEF p
    <2>5. /\ Talk!Text(a \o P(m)) = (Talk!Text(a) \o Talk!Text(p)) \o Talk!Clip(b[m])
          /\ Talk!Text(P(m)) = Talk!Text(p) \o Talk!Clip(b[m])
        BY <2>0, <2>1, <2>2, <2>3, <2>4, TextAppend
    <2>6. /\ Talk!Text(a) \in Seq(Nat) /\ Talk!Text(p) \in Seq(Nat) /\ Talk!Clip(b[m]) \in Seq(Nat)
        BY <2>0, <2>1, TextIsText, ClipIsText DEF Texts
    <2>7. (Talk!Text(a) \o Talk!Text(p)) \o Talk!Clip(b[m]) = Talk!Text(a) \o (Talk!Text(p) \o Talk!Clip(b[m]))
        BY <2>6, TextsAssociate, Zenon
    <2> QED BY <2>5, <2>7, Zenon
<1>4. T = {}
    <2> SUFFICES ASSUME T # {} PROVE FALSE
        OBVIOUS
    <2> HIDE DEF Holds
    <2>1. T \subseteq Nat
        BY <1>0
    <2>2. PICK m \in T : \A x \in T : m <= x
        BY <2>1, LeastNat
    <2>3. m # 0
        BY <1>2, <2>2
    <2>4. m \in 1..n /\ m - 1 \in 0..n /\ m - 1 \notin T
        BY <1>0, <2>2, <2>3
    <2> QED BY <1>3, <2>2, <2>4
<1>5. Holds(n)
    BY <1>0, <1>4
<1>6. P(n) = b
    BY SubSeqFull
<1> HIDE DEF P
<1> QED BY <1>5, <1>6

(* All turns of a conversation, of the lengths of their texts              *)
Numbered(texts) == [k \in DOMAIN texts |-> <<k, texts[k]>>]

(* h is the end of a.                                                      *)
Latest(h, a) == Len(h) <= Len(a) /\ \A k \in 1..Len(h) : h[k] = a[Len(a) - Len(h) + k]

(* What the store may hold of a conversation: nothing was dropped from the *)
(* history before it was full once.                                        *)
Fits(history, summary, texts) ==
    /\ history \in Seq(TurnType) /\ summary \in Texts
    /\ Len(history) <= Limit /\ Len(summary) <= Cap
    /\ Latest(history, Numbered(texts))
    /\ Len(texts) <= Limit => Len(history) = Len(texts)
    /\ Len(texts) > Limit => Len(history) > Limit - HeadLen
    /\ Len(summary) < Cap => summary \o Talk!Text(history) = Talk!Text(Numbered(texts))

Turn(texts, x) == <<Len(texts) + 1, x>>

TalkInv ==
    /\ said \in [Cids -> Seq(Nat)] /\ DOMAIN db \subseteq Cids
    /\ \A c \in Cids : Fits(Talk!Known(c).history, Talk!Known(c).summary, said[c])

LEMMA Limits == MaxText \in Nat /\ Limit \in Nat /\ Cap \in Nat /\ HeadLen \in 1..Limit
BY TalkIsKnown DEF Talk!ConversationAssumption

LEMMA NumberedIs ==
    ASSUME NEW ts \in Seq(Nat)
    PROVE  /\ Numbered(ts) \in Seq(TurnType) /\ Len(Numbered(ts)) = Len(ts)
           /\ \A k \in 1..Len(ts) : Numbered(ts)[k] = <<k, ts[k]>>
<1>1. Len(ts) \in Nat /\ DOMAIN ts = 1..Len(ts) /\ \A k \in 1..Len(ts) : ts[k] \in Nat /\ k \in Nat
    BY LenProperties, ElementOfSeq
<1>2. Numbered(ts) \in [1..Len(ts) -> TurnType]
    BY <1>1 DEF Numbered, TurnType
<1>3. Numbered(ts) \in Seq(TurnType)
    BY <1>1, <1>2, SeqDef
<1>4. DOMAIN Numbered(ts) = 1..Len(Numbered(ts)) /\ Len(Numbered(ts)) \in Nat
    BY <1>3, LenProperties
<1> QED BY <1>1, <1>2, <1>3, <1>4 DEF Numbered

LEMMA NumberedAppend ==
    ASSUME NEW ts \in Seq(Nat), NEW x \in Nat
    PROVE  Numbered(Append(ts, x)) = Append(Numbered(ts), <<Len(ts) + 1, x>>)
<1> DEFINE n == Len(ts)
           u == Append(ts, x)
           a == Append(Numbered(ts), <<n + 1, x>>)
<1>1. /\ n \in Nat /\ u \in Seq(Nat) /\ Len(u) = n + 1 /\ u[n + 1] = x
      /\ \A k \in 1..n : u[k] = ts[k]
    BY LenProperties, AppendProperties
<1>2. <<n + 1, x>> \in TurnType
    BY <1>1 DEF TurnType
<1>3. /\ a \in Seq(TurnType) /\ Len(a) = n + 1 /\ a[n + 1] = <<n + 1, x>>
      /\ \A k \in 1..n : a[k] = <<k, ts[k]>>
    BY <1>1, <1>2, NumberedIs, AppendProperties
<1> HIDE DEF u, a
<1>4. Numbered(u) \in Seq(TurnType) /\ Len(Numbered(u)) = n + 1
      /\ \A k \in 1..(n + 1) : Numbered(u)[k] = <<k, u[k]>>
    BY <1>1, NumberedIs
<1>5. ASSUME NEW k \in 1..(n + 1) PROVE Numbered(u)[k] = a[k]
    <2>1. k \in 1..n \/ k = n + 1
        BY <1>1
    <2> QED BY <1>1, <1>3, <1>4, <2>1
<1>6. Numbered(u) = a
    BY <1>3, <1>4, <1>5, SeqEqual
<1> QED BY <1>6 DEF u, a

(* Cut keeps a text that is short of the cap.                              *)
LEMMA CutIs ==
    ASSUME NEW w \in Texts
    PROVE  /\ Talk!Cut(w) \in Texts /\ Len(Talk!Cut(w)) <= Cap
           /\ Len(Talk!Cut(w)) < Cap => Talk!Cut(w) = w
<1> DEFINE m == Talk!Min({Cap, Len(w)})
<1>1. Len(w) \in Nat /\ Cap \in Nat /\ \A k \in 1..Len(w) : w[k] \in Nat
    BY Limits, LenProperties, ElementOfSeq DEF Texts
<1>2. m \in {Cap, Len(w)} /\ m <= Cap /\ m <= Len(w)
    <2>1. \E x \in {Cap, Len(w)} : \A y \in {Cap, Len(w)} : x <= y
        BY <1>1
    <2> QED BY <2>1 DEF Talk!Min
<1>3. Talk!Cut(w) = SubSeq(w, 1, m)
    BY DEF Talk!Cut
<1> HIDE DEF m
<1>4. SubSeq(w, 1, m) \in Seq(Nat) /\ Len(SubSeq(w, 1, m)) = m
    <2>1. m \in Int /\ 1 \in Int /\ m >= 0 /\ \A k \in 1..m : w[k] \in Nat
        BY <1>1, <1>2
    <2> QED BY <1>1, <2>1, SubSeqProperties
<1>5. m < Cap => SubSeq(w, 1, m) = w
    <2>1. m < Cap => m = Len(w)
        BY <1>1, <1>2
    <2> QED BY <2>1, SubSeqFull DEF Texts
<1> QED BY <1>2, <1>3, <1>4, <1>5 DEF Texts

(* A history with one turn more is the end of all turns with one more.     *)
LEMMA LatestAppend ==
    ASSUME NEW h \in Seq(TurnType), NEW a \in Seq(TurnType), NEW t \in TurnType, Latest(h, a)
    PROVE  Latest(Append(h, t), Append(a, t))
<1>1. Len(h) \in Nat /\ Len(a) \in Nat /\ Len(h) <= Len(a)
    BY LenProperties DEF Latest
<1>2. /\ Len(Append(h, t)) = Len(h) + 1 /\ Append(h, t)[Len(h) + 1] = t
      /\ \A k \in 1..Len(h) : Append(h, t)[k] = h[k]
      /\ Len(Append(a, t)) = Len(a) + 1 /\ Append(a, t)[Len(a) + 1] = t
      /\ \A k \in 1..Len(a) : Append(a, t)[k] = a[k]
    BY AppendProperties
<1>3. ASSUME NEW k \in 1..(Len(h) + 1)
      PROVE  Append(h, t)[k] = Append(a, t)[(Len(a) + 1) - (Len(h) + 1) + k]
    <2>1. CASE k = Len(h) + 1
        <3>1. (Len(a) + 1) - (Len(h) + 1) + k = Len(a) + 1
            BY <1>1, <2>1
        <3> QED BY <1>2, <2>1, <3>1
    <2>2. CASE k # Len(h) + 1
        <3>1. k \in 1..Len(h) /\ Len(a) - Len(h) + k \in 1..Len(a)
              /\ (Len(a) + 1) - (Len(h) + 1) + k = Len(a) - Len(h) + k
            BY <1>1, <2>2
        <3>2. h[k] = a[Len(a) - Len(h) + k]
            BY <3>1 DEF Latest
        <3> QED BY <1>2, <3>1, <3>2
    <2> QED BY <2>1, <2>2
<1>4. Len(Append(h, t)) <= Len(Append(a, t))
    BY <1>1, <1>2
<1> QED BY <1>2, <1>3, <1>4 DEF Latest

(* Without its head a full history is still the end of all turns.          *)
LEMMA KeptIs ==
    ASSUME NEW h \in Seq(TurnType), Len(h) = Limit + 1
    PROVE  /\ SubSeq(h, 1, HeadLen) \in Seq(TurnType) /\ Talk!Kept(h) \in Seq(TurnType)
           /\ Len(Talk!Kept(h)) = Limit + 1 - HeadLen
           /\ \A k \in 1..Len(Talk!Kept(h)) : Talk!Kept(h)[k] = h[HeadLen + k]
           /\ h = SubSeq(h, 1, HeadLen) \o Talk!Kept(h)
<1>1. /\ Limit \in Nat /\ HeadLen \in 1..Limit /\ \A k \in 1..(Limit + 1) : h[k] \in TurnType
    BY Limits, ElementOfSeq
<1>2. Talk!Kept(h) = SubSeq(h, HeadLen + 1, Limit + 1)
    BY DEF Talk!Kept
<1>3. /\ \A k \in 1..HeadLen : h[k] \in TurnType
      /\ \A k \in (HeadLen + 1)..(Limit + 1) : h[k] \in TurnType
      /\ HeadLen \in Int /\ HeadLen + 1 \in Int /\ Limit + 1 \in Int /\ HeadLen + 1 <= Limit + 1
      /\ (Limit + 1) - (HeadLen + 1) + 1 = Limit + 1 - HeadLen
    BY <1>1
<1>4. SubSeq(h, 1, HeadLen) \in Seq(TurnType)
    BY <1>3, SubSeqProperties
<1>5. /\ SubSeq(h, HeadLen + 1, Limit + 1) \in Seq(TurnType)
      /\ Len(SubSeq(h, HeadLen + 1, Limit + 1)) = Limit + 1 - HeadLen
      /\ \A k \in 1..(Limit + 1 - HeadLen) :
             SubSeq(h, HeadLen + 1, Limit + 1)[k] = h[HeadLen + 1 + k - 1]
    BY <1>3, SubSeqProperties
<1>6. \A k \in 1..(Limit + 1 - HeadLen) : HeadLen + 1 + k - 1 = HeadLen + k
    BY <1>1
<1>7. SubSeq(h, 1, HeadLen) \o SubSeq(h, HeadLen + 1, Limit + 1) = SubSeq(h, 1, Limit + 1)
    <2>1. 1 \in 1..(Len(h) + 1) /\ HeadLen \in (1 - 1)..Len(h) /\ Limit + 1 \in HeadLen..Len(h)
        BY <1>1
    <2> QED BY <2>1, ConcatAdjacentSubSeq
<1>8. SubSeq(h, 1, Limit + 1) = h
    BY SubSeqFull
<1> QED BY <1>2, <1>4, <1>5, <1>6, <1>7, <1>8

(* A turn that the history still has room for, and one that it has not     *)
LEMMA TurnFits ==
    ASSUME NEW H \in Seq(TurnType), NEW S \in Texts, NEW ts \in Seq(Nat), NEW x \in Nat,
           Fits(H, S, ts), NEW h, h = Append(H, Turn(ts, x))
    PROVE  /\ Len(h) <= Limit => Fits(h, S, Append(ts, x))
           /\ Len(h) > Limit =>
                  Fits(Talk!Kept(h), Talk!Rolled(S, SubSeq(h, 1, HeadLen)), Append(ts, x))
<1>1. /\ Len(H) \in Nat /\ Len(S) \in Nat /\ Len(ts) \in Nat
      /\ Limit \in Nat /\ Cap \in Nat /\ HeadLen \in 1..Limit
    BY Limits, LenProperties DEF Texts
<1>2. PICK a \in Seq(TurnType) : a = Numbered(ts) /\ Len(a) = Len(ts)
    BY NumberedIs
<1>3. PICK t \in TurnType : t = Turn(ts, x)
    <2>1. Turn(ts, x) \in TurnType
        BY <1>1 DEF TurnType, Turn
    <2> QED BY <2>1
<1>4. PICK a2 \in Seq(TurnType) :
          /\ a2 = Append(a, t) /\ Len(a2) = Len(ts) + 1
          /\ Numbered(Append(ts, x)) = a2
    <2>1. Append(a, t) \in Seq(TurnType) /\ Len(Append(a, t)) = Len(ts) + 1
        BY <1>2, AppendProperties
    <2>2. Numbered(Append(ts, x)) = Append(a, t)
        BY <1>2, <1>3, NumberedAppend DEF Turn
    <2> QED BY <2>1, <2>2
<1>5. PICK b \in Seq(Nat) : b = Append(ts, x) /\ Len(b) = Len(ts) + 1
    BY AppendProperties
<1>6. h = Append(H, t) /\ h \in Seq(TurnType)
    BY <1>3, AppendProperties
<1>7. Len(h) = Len(H) + 1 /\ Len(h) \in Nat
    BY <1>1, <1>3, AppendProperties
<1>8. /\ Len(H) <= Limit /\ Len(S) <= Cap
      /\ Len(ts) <= Limit => Len(H) = Len(ts)
      /\ Len(ts) > Limit => Len(H) > Limit - HeadLen
    BY DEF Fits
<1>9. Latest(H, a) /\ (Len(S) < Cap => S \o Talk!Text(H) = Talk!Text(a))
    BY <1>2 DEF Fits
<1>10. Latest(h, a2)
    BY <1>2, <1>4, <1>6, <1>9, LatestAppend
<1>11. Len(h) <= Len(ts) + 1
    BY <1>4, <1>10 DEF Latest
<1>12. Len(S) < Cap => S \o Talk!Text(h) = Talk!Text(a2)
    <2> SUFFICES ASSUME Len(S) < Cap PROVE S \o Talk!Text(h) = Talk!Text(a2)
        OBVIOUS
    <2>1. Talk!Text(h) = Talk!Text(H) \o Talk!Clip(t) /\ Talk!Text(a2) = Talk!Text(a) \o Talk!Clip(t)
        BY <1>4, <1>6, TextAppend
    <2>2. PICK v \in Seq(Nat), c \in Seq(Nat) : v = Talk!Text(H) /\ c = Talk!Clip(t)
        BY TextIsText, ClipIsText DEF Texts
    <2>3. S \o (v \o c) = (S \o v) \o c
        <3>1. S \in Seq(Nat)
            BY DEF Texts
        <3> QED BY <3>1, TextsAssociate
    <2> QED BY <1>9, <2>1, <2>2, <2>3
<1>13. ASSUME Len(h) <= Limit PROVE Fits(h, S, b)
    <2>1. /\ Len(b) <= Limit => Len(h) = Len(b)
          /\ Len(b) > Limit => Len(h) > Limit - HeadLen
        BY <1>7, <1>1, <1>5, <1>8, <1>13
    <2>2. Numbered(b) = a2
        BY <1>4, <1>5
    <2> QED BY <1>6, <1>8, <1>10, <1>12, <1>13, <2>1, <2>2 DEF Fits
<1>14. ASSUME Len(h) > Limit
       PROVE  Fits(Talk!Kept(h), Talk!Rolled(S, SubSeq(h, 1, HeadLen)), b)
    <2>1. Len(h) = Limit + 1
        <3>1. \A m, n, l \in Nat : m = n + 1 /\ n <= l /\ m > l => m = l + 1
            OBVIOUS
        <3> QED BY <1>7, <1>1, <1>8, <1>14, <3>1
    <2>2. PICK head \in Seq(TurnType), k \in Seq(TurnType) :
              /\ head = SubSeq(h, 1, HeadLen) /\ k = Talk!Kept(h)
              /\ Len(k) = Limit + 1 - HeadLen /\ h = head \o k
              /\ \A j \in 1..Len(k) : k[j] = h[HeadLen + j]
        BY <1>6, <2>1, KeptIs
    <2>3. PICK u \in Seq(Nat), v \in Seq(Nat) : u = Talk!Text(head) /\ v = Talk!Text(k)
        BY TextIsText DEF Texts
    <2>4. PICK w \in Seq(Nat) : w = S \o u /\ Len(w) = Len(S) + Len(u)
        BY ConcatProperties DEF Texts
    <2>5. Len(w) >= Len(S)
        <3>1. Len(u) \in Nat
            BY LenProperties
        <3> QED BY <1>1, <2>4, <3>1
    <2>6. w \o v = S \o Talk!Text(h)
        <3>1. Talk!Text(h) = u \o v
            BY <2>2, <2>3, TextConcat
        <3>2. (S \o u) \o v = S \o (u \o v)
            <4>1. S \in Seq(Nat)
                BY DEF Texts
            <4> QED BY <4>1, TextsAssociate
        <3> QED BY <2>4, <3>1, <3>2
    <2>7. PICK z \in Texts : /\ z = Talk!Rolled(S, head) /\ Len(z) <= Cap
                             /\ Len(z) < Cap => z = w
        BY <2>3, <2>4, CutIs DEF Talk!Rolled, Texts
    <2>8. Len(z) < Cap => z \o v = Talk!Text(a2)
        <3> SUFFICES ASSUME Len(z) < Cap PROVE z \o v = Talk!Text(a2)
            OBVIOUS
        <3>1. z = w
            BY <2>7
        <3>2. Len(S) < Cap
            BY <1>1, <2>5, <3>1
        <3> QED BY <1>12, <2>6, <3>1, <3>2
    <2>9. Latest(k, a2)
        <3>1. ASSUME NEW j \in 1..Len(k) PROVE k[j] = a2[Len(a2) - Len(k) + j]
            <4>1. HeadLen + j \in 1..Len(h)
                  /\ Len(a2) - Len(h) + (HeadLen + j) = Len(a2) - Len(k) + j
                BY <1>1, <1>4, <2>1, <2>2
            <4>2. h[HeadLen + j] = a2[Len(a2) - Len(h) + (HeadLen + j)]
                BY <1>10, <4>1 DEF Latest
            <4> QED BY <2>2, <4>1, <4>2
        <3>2. Len(k) <= Len(a2)
            BY <1>1, <1>4, <1>11, <2>1, <2>2
        <3> QED BY <3>1, <3>2 DEF Latest
    <2>10. /\ Len(k) <= Limit /\ Len(k) > Limit - HeadLen
           /\ ~(Len(b) <= Limit)
        BY <1>1, <1>5, <1>11, <2>1, <2>2
    <2>11. Numbered(b) = a2
        BY <1>4, <1>5
    <2>12. Fits(k, z, b)
        BY <2>3, <2>7, <2>8, <2>9, <2>10, <2>11 DEF Fits
    <2> QED BY <2>2, <2>7, <2>12
<1> QED BY <1>5, <1>13, <1>14

(* The store after a step about conversation c, of which it then has st    *)
LEMMA KnownAfter ==
    ASSUME NEW c \in Cids, NEW st, DOMAIN db \subseteq Cids,
           db' = [d \in DOMAIN db \cup {c} |-> IF d = c THEN st ELSE db[d]]
    PROVE  /\ DOMAIN db' \subseteq Cids
           /\ \A d \in Cids : Talk!Known(d)' = IF d = c THEN st ELSE Talk!Known(d)
BY DEF Talk!Known, Talk!ConversationState

LEMMA AppendStep == ASSUME TalkInv, NEW c \in Cids, Talk!AppendTurn(c) PROVE TalkInv'
<1>1. PICK x \in 0..MaxText :
          LET turn == <<Len(said[c]) + 1, x>>
              history == Append(Talk!Known(c).history, turn)
              full == Len(history) > Limit
              after == [history |-> IF full THEN Talk!Kept(history) ELSE history,
                        summary |-> IF full
                                    THEN Talk!Rolled(Talk!Known(c).summary, SubSeq(history, 1, HeadLen))
                                    ELSE Talk!Known(c).summary]
          IN  /\ db' = [d \in DOMAIN db \cup {c} |-> IF d = c THEN after ELSE db[d]]
              /\ said' = [said EXCEPT ![c] = Append(@, x)]
    BY DEF Talk!AppendTurn
<1>2. said \in [Cids -> Seq(Nat)] /\ DOMAIN db \subseteq Cids /\ x \in Nat /\ said[c] \in Seq(Nat)
    BY Limits DEF TalkInv
<1>3. PICK H \in Seq(TurnType), S \in Texts :
          H = Talk!Known(c).history /\ S = Talk!Known(c).summary /\ Fits(H, S, said[c])
    BY DEF TalkInv, Fits
<1>4. PICK h : h = Append(H, Turn(said[c], x))
    OBVIOUS
<1>5. PICK k, z :
          /\ k = IF Len(h) > Limit THEN Talk!Kept(h) ELSE h
          /\ z = IF Len(h) > Limit THEN Talk!Rolled(S, SubSeq(h, 1, HeadLen)) ELSE S
    OBVIOUS
<1>6. PICK st : /\ st = [history |-> k, summary |-> z]
                /\ db' = [d \in DOMAIN db \cup {c} |-> IF d = c THEN st ELSE db[d]]
    BY <1>1, <1>3, <1>4, <1>5 DEF Turn
<1>7. Fits(k, z, Append(said[c], x))
    <2>1. Len(h) <= Limit \/ Len(h) > Limit
        <3>1. Turn(said[c], x) \in TurnType
            BY <1>2, LenProperties DEF Turn, TurnType
        <3>2. Len(h) \in Nat
            BY <1>3, <1>4, <3>1, AppendProperties, LenProperties
        <3> QED BY <3>2, Limits
    <2>2. Len(h) <= Limit => ~(Len(h) > Limit)
        <3>1. Turn(said[c], x) \in TurnType
            BY <1>2, LenProperties DEF Turn, TurnType
        <3>2. Len(h) \in Nat
            BY <1>3, <1>4, <3>1, AppendProperties, LenProperties
        <3> QED BY <3>2, Limits
    <2>3. /\ Len(h) <= Limit => Fits(h, S, Append(said[c], x))
          /\ Len(h) > Limit => Fits(Talk!Kept(h), Talk!Rolled(S, SubSeq(h, 1, HeadLen)), Append(said[c], x))
        BY <1>2, <1>3, <1>4, TurnFits
    <2> QED BY <1>5, <2>1, <2>2, <2>3, Zenon
<1>8. /\ said' \in [Cids -> Seq(Nat)]
      /\ \A d \in Cids : said'[d] = IF d = c THEN Append(said[c], x) ELSE said[d]
    <2>1. Append(said[c], x) \in Seq(Nat)
        BY <1>2, AppendProperties
    <2>2. said' = [said EXCEPT ![c] = Append(said[c], x)]
        BY <1>1
    <2> QED BY <1>2, <2>1, <2>2
<1>9. ASSUME NEW d \in Cids PROVE Fits(Talk!Known(d)'.history, Talk!Known(d)'.summary, said'[d])
    <2>1. CASE d = c
        <3>1. Talk!Known(d)' = st /\ st.history = k /\ st.summary = z
            BY <1>2, <1>6, <2>1, KnownAfter
        <3> QED BY <1>7, <1>8, <2>1, <3>1
    <2>2. CASE d # c
        <3>1. Talk!Known(d)' = Talk!Known(d) /\ said'[d] = said[d]
            BY <1>2, <1>6, <1>8, <2>2, KnownAfter
        <3> QED BY <3>1 DEF TalkInv
    <2> QED BY <2>1, <2>2
<1>10. DOMAIN db' \subseteq Cids
    BY <1>2, <1>6, KnownAfter
<1> QED BY <1>8, <1>9, <1>10 DEF TalkInv

LEMMA GetStep == ASSUME TalkInv, NEW c \in Cids, Talk!Get(c) PROVE TalkInv'
<1>1. /\ DOMAIN db \subseteq Cids /\ said' = said
      /\ db' = [d \in DOMAIN db \cup {c} |-> IF d = c THEN Talk!Known(c) ELSE db[d]]
    BY DEF TalkInv, Talk!Get
<1>2. DOMAIN db' \subseteq Cids /\ \A d \in Cids : Talk!Known(d)' = Talk!Known(d)
    <2>1. PICK st : st = Talk!Known(c)
        OBVIOUS
    <2>2. db' = [d \in DOMAIN db \cup {c} |-> IF d = c THEN st ELSE db[d]]
        BY <1>1, <2>1
    <2> QED BY <1>1, <2>1, <2>2, KnownAfter
<1> QED BY <1>1, <1>2 DEF TalkInv

LEMMA LatestIsSuffix ==
    ASSUME NEW h \in Seq(TurnType), NEW a \in Seq(TurnType), Latest(h, a)
    PROVE  Talk!IsSuffix(h, a)
<1> DEFINE r == Talk!Reverse(h)
           q == Talk!Reverse(a)
<1>1. Len(h) \in Nat /\ Len(a) \in Nat /\ Len(h) <= Len(a)
      /\ \A k \in 1..Len(h) : h[k] = a[Len(a) - Len(h) + k]
    BY LenProperties DEF Latest
<1>2. /\ r = [k \in 1..Len(h) |-> h[Len(h) - k + 1]]
      /\ q = [k \in 1..Len(a) |-> a[Len(a) - k + 1]]
    BY DEF Talk!Reverse
<1>3. r \in Seq(TurnType) /\ q \in Seq(TurnType) /\ Len(r) = Len(h) /\ Len(q) = Len(a)
    <2>1. \A k \in 1..Len(h) : h[Len(h) - k + 1] \in TurnType
        BY <1>1, ElementOfSeq
    <2>2. \A k \in 1..Len(a) : a[Len(a) - k + 1] \in TurnType
        BY <1>1, ElementOfSeq
    <2> HIDE DEF r, q
    <2>3. r \in [1..Len(h) -> TurnType] /\ q \in [1..Len(a) -> TurnType]
        BY <1>2, <2>1, <2>2
    <2>4. r \in Seq(TurnType) /\ q \in Seq(TurnType)
        BY <1>1, <2>3, SeqDef
    <2> QED BY <1>1, <2>3, <2>4, LenProperties
<1> HIDE DEF r, q
<1>4. ASSUME NEW k \in 1..Len(h) PROVE r[k] = q[k]
    <2>1. Len(h) - k + 1 \in 1..Len(h) /\ k \in 1..Len(a)
          /\ Len(a) - Len(h) + (Len(h) - k + 1) = Len(a) - k + 1
        BY <1>1
    <2> QED BY <1>1, <1>2, <2>1
<1>5. SubSeq(r, 1, Len(h)) = r
    BY <1>3, SubSeqFull
<1>6. SubSeq(q, 1, Len(h)) = r
    <2>1. \A k \in 1..Len(h) : q[k] \in TurnType
        BY <1>1, <1>3, ElementOfSeq
    <2>2. /\ SubSeq(q, 1, Len(h)) \in Seq(TurnType) /\ Len(SubSeq(q, 1, Len(h))) = Len(h)
          /\ \A k \in 1..Len(h) : SubSeq(q, 1, Len(h))[k] = q[k]
        BY <1>1, <2>1, SubSeqProperties
    <2> QED BY <1>3, <1>4, <2>2, SeqEqual
<1> QED BY <1>1, <1>3, <1>5, <1>6 DEF Talk!IsSuffix, Talk!IsPrefix, r, q

(***************************************************************************)
(* For any conversations and any lengths of history, head, summary and     *)
(* text: what a prompt is charged for is bounded, a history is the latest  *)
(* turns of its own conversation, none missing in between, and until the   *)
(* summary is full no turn is lost between the two (conversation.py).      *)
(***************************************************************************)
THEOREM NoTurnIsLost == Talk!Spec => []TurnsAreKept
<1>1. Talk!Init => TalkInv
    <2> SUFFICES ASSUME Talk!Init PROVE TalkInv
        OBVIOUS
    <2>1. db = <<>> /\ said = [c \in Cids |-> <<>>] /\ DOMAIN db = {}
        BY DEF Talk!Init
    <2>2. ASSUME NEW c \in Cids PROVE Fits(Talk!Known(c).history, Talk!Known(c).summary, said[c])
        <3>1. Talk!Known(c).history = <<>> /\ Talk!Known(c).summary = <<>> /\ said[c] = <<>>
            BY <2>1 DEF Talk!Known, Talk!ConversationState
        <3>2. Numbered(<<>>) = <<>>
            <4>1. Len(Numbered(<<>>)) = 0 /\ Numbered(<<>>) \in Seq(TurnType)
                BY NumberedIs, EmptySeq
            <4> QED BY <4>1, EmptySeq
        <3>3. Latest(<<>>, <<>>) /\ <<>> \in Seq(TurnType) /\ <<>> \in Texts /\ Len(<<>>) = 0
            BY EmptySeq DEF Latest, Texts
        <3>4. <<>> \o Talk!Text(<<>>) = Talk!Text(<<>>)
            BY <3>3, TextIsText, ConcatEmptySeq DEF Texts
        <3> QED BY <3>1, <3>2, <3>3, <3>4, Limits DEF Fits
    <2>3. said \in [Cids -> Seq(Nat)]
        BY <2>1, EmptySeq
    <2> QED BY <2>1, <2>2, <2>3 DEF TalkInv
<1>2. TalkInv /\ [Talk!Next]_talkVars => TalkInv'
    <2> SUFFICES ASSUME TalkInv, [Talk!Next]_talkVars PROVE TalkInv'
        OBVIOUS
    <2>1. ASSUME NEW c \in Cids, Talk!AppendTurn(c) \/ Talk!Get(c) PROVE TalkInv'
        BY <2>1, AppendStep, GetStep
    <2>2. CASE UNCHANGED talkVars
        BY <2>2 DEF talkVars, TalkInv, Talk!Known
    <2> QED BY <2>1, <2>2 DEF Talk!Next
<1>3. TalkInv => TurnsAreKept
    <2> SUFFICES ASSUME TalkInv PROVE TurnsAreKept
        OBVIOUS
    <2>1. ASSUME NEW c \in DOMAIN db
          PROVE  /\ c \in Cids /\ Fits(db[c].history, db[c].summary, said[c])
                 /\ said[c] \in Seq(Nat) /\ Talk!AllTurns(c) = Numbered(said[c])
        BY DEF TalkInv, Talk!Known, Talk!AllTurns, Numbered
    <2>2. Talk!TypeOK /\ Talk!NothingLostBeforeCap
        BY <2>1 DEF Fits, Talk!TypeOK, Talk!NothingLostBeforeCap
    <2>3. Talk!HistoryIsLatest
        <3> SUFFICES ASSUME NEW c \in DOMAIN db
                     PROVE  /\ Talk!IsSuffix(db[c].history, Talk!AllTurns(c))
                            /\ Len(said[c]) > Limit => Len(db[c].history) > Limit - HeadLen
            BY DEF Talk!HistoryIsLatest
        <3>1. Numbered(said[c]) \in Seq(TurnType)
            BY <2>1, NumberedIs
        <3> QED BY <2>1, <3>1, LatestIsSuffix DEF Fits
    <2> QED BY <2>2, <2>3 DEF TurnsAreKept
<1>4. [Talk!Next]_Talk!vars => [Talk!Next]_talkVars
    BY DEF Talk!vars, talkVars
<1> QED BY <1>1, <1>2, <1>3, <1>4, PTL DEF Talk!Spec
=============================================================================
