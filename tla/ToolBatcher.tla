---------------------------- MODULE ToolBatcher ----------------------------
(***************************************************************************)
(* ToolBatcher.call (app/services/tool_batcher.py): concurrent calls of    *)
(* the same tool with the same arguments share one execution.              *)
(*                                                                         *)
(* A step is what a task does between two suspensions.  The future of an   *)
(* execution is named by the caller that owns it.  asyncio.Lock is fair:   *)
(* it is taken at once only when it is free and nobody waits, and release  *)
(* passes it to the first in line.  Task.cancel() of a task that awaits a  *)
(* future cancels that future.                                             *)
(***************************************************************************)
EXTENDS Naturals, Sequences, SequencesExt

CONSTANTS
    Caller,        \* tasks; each makes one call
    Key,           \* f"{tool}:{h}"
    Cancellable,   \* tasks that may be cancelled, by a timeout for example
    None           \* no caller

ASSUME CallersAreKnown == Cancellable \subseteq Caller /\ None \notin Caller

VARIABLES
    pc,        \* where each task is in call()
    key,       \* the key of each call
    lock,      \* the task that holds _lock
    waiters,   \* the tasks in line for _lock
    inflight,  \* _inflight: the owner of each key's future
    fut,       \* the future of each owner
    got,       \* what each call returned or raised, and whose execution it was
    landed     \* history: executions over before a call began

vars == <<pc, key, lock, waiters, inflight, fut, got, landed>>

Outcome == {"value", "exception"}

Stage == {"idle", "entering", "joined", "running", "leaving", "returned"}

NoGot == [outcome |-> "none", from |-> None]

Init ==
    /\ pc = [c \in Caller |-> "idle"]
    /\ key \in [Caller -> Key]
    /\ lock = None
    /\ waiters = <<>>
    /\ inflight = [k \in Key |-> None]
    /\ fut = [c \in Caller |-> "none"]
    /\ got = [c \in Caller |-> NoGot]
    /\ landed = [c \in Caller |-> {}]

LockIsFree == lock = None /\ waiters = <<>>

Settled(owner) == fut[owner] \in {"value", "exception", "cancelled"}

Lookup(c) == inflight[key[c]]

(* A slip: an exception of the shared execution is swallowed. *)
SharedValue(c) == [outcome |-> "value", from |-> Lookup(c)]

(* What `await existing` returns or raises. *)
SharedResult(c) == [outcome |-> fut[Lookup(c)], from |-> Lookup(c)]

(* The lock is c's: the first `async with`, up to the next suspension. *)
BecomeOwner(c) ==
    /\ Lookup(c) = None
    /\ fut' = [fut EXCEPT ![c] = "pending"]
    /\ inflight' = [inflight EXCEPT ![key[c]] = c]
    /\ pc' = [pc EXCEPT ![c] = "running"]
    /\ lock' = None
    /\ UNCHANGED got

(* `return await existing`: the lock is held until the future is settled. *)
Join(c) ==
    /\ Lookup(c) # None
    /\ ~Settled(Lookup(c))
    /\ pc' = [pc EXCEPT ![c] = "joined"]
    /\ lock' = c
    /\ UNCHANGED <<inflight, fut, got>>

JoinSettled(c) ==
    /\ Lookup(c) # None
    /\ Settled(Lookup(c))
    /\ got' = [got EXCEPT ![c] = SharedResult(c)]
    /\ pc' = [pc EXCEPT ![c] = "returned"]
    /\ lock' = None
    /\ UNCHANGED <<inflight, fut>>

Enter(c) == BecomeOwner(c) \/ Join(c) \/ JoinSettled(c)

(* A slip: the result is kept in the place of the future. *)
KeptResult(c) == [inflight EXCEPT ![key[c]] = got[c].outcome]

(* A slip: the key is not removed when the tool raised. *)
PoppedUnlessRaised(c) ==
    IF fut[c] = "exception" THEN inflight ELSE [inflight EXCEPT ![key[c]] = None]

Popped(c) == [inflight EXCEPT ![key[c]] = None]

(* The lock is c's: the second `async with`, in the finally clause. *)
Leave(c) ==
    /\ inflight' = Popped(c)
    /\ pc' = [pc EXCEPT ![c] = "returned"]
    /\ lock' = None
    /\ UNCHANGED <<fut, got>>

(* The executions that are over: their future is settled by the owner.     *)
Over == {o \in Caller : fut[o] \in Outcome}

Call(c) ==
    /\ pc[c] = "idle"
    /\ landed' = [landed EXCEPT ![c] = Over]
    /\ IF LockIsFree
       THEN Enter(c) /\ UNCHANGED waiters
       ELSE /\ pc' = [pc EXCEPT ![c] = "entering"]
            /\ waiters' = Append(waiters, c)
            /\ UNCHANGED <<lock, inflight, fut, got>>
    /\ UNCHANGED key

FirstInLine == Head(waiters)

Granted(c) ==
    /\ lock = None
    /\ waiters # <<>>
    /\ c = FirstInLine
    /\ waiters' = Tail(waiters)
    /\ IF pc[c] = "entering" THEN Enter(c) ELSE Leave(c)
    /\ UNCHANGED <<key, landed>>

(* A slip: no set_exception(). *)
SettleValueOnly(c, outcome) ==
    /\ fut' = IF outcome = "value" THEN [fut EXCEPT ![c] = outcome] ELSE fut
    /\ got' = [got EXCEPT ![c] = [outcome |-> outcome, from |-> c]]

(* fn() is over: the future is settled, or InvalidStateError is raised in  *)
(* both clauses when it was cancelled; then the finally clause.            *)
Settle(c, outcome) ==
    IF fut[c] = "pending"
    THEN /\ fut' = [fut EXCEPT ![c] = outcome]
         /\ got' = [got EXCEPT ![c] = [outcome |-> outcome, from |-> c]]
    ELSE /\ got' = [got EXCEPT ![c] = [outcome |-> "InvalidStateError", from |-> c]]
         /\ UNCHANGED fut

ToLeave(c) ==
    IF LockIsFree
    THEN /\ inflight' = Popped(c)
         /\ pc' = [pc EXCEPT ![c] = "returned"]
         /\ UNCHANGED waiters
    ELSE /\ waiters' = Append(waiters, c)
         /\ pc' = [pc EXCEPT ![c] = "leaving"]
         /\ UNCHANGED inflight

FnEnds(c, outcome) ==
    /\ pc[c] = "running"
    /\ Settle(c, outcome)
    /\ ToLeave(c)
    /\ UNCHANGED <<key, lock, landed>>

(* A slip: the finally clause is that of the whole function. *)
WakeAndPop(c) ==
    /\ pc[c] = "joined"
    /\ Settled(Lookup(c))
    /\ got' = [got EXCEPT ![c] = SharedResult(c)]
    /\ inflight' = Popped(c)
    /\ pc' = [pc EXCEPT ![c] = "returned"]
    /\ lock' = None
    /\ UNCHANGED <<key, waiters, fut, landed>>

(* The shared future is settled: the duplicate has its result. *)
Wake(c) ==
    /\ pc[c] = "joined"
    /\ Settled(Lookup(c))
    /\ got' = [got EXCEPT ![c] = SharedResult(c)]
    /\ pc' = [pc EXCEPT ![c] = "returned"]
    /\ lock' = None
    /\ UNCHANGED <<key, waiters, inflight, fut, landed>>

(***************************************************************************)
(* CancelledError in a call, wherever it is suspended.                     *)
(***************************************************************************)

(* In line for the lock, before or after its execution: nothing is popped. *)
CancelInLine(c) ==
    /\ pc[c] \in {"entering", "leaving"}
    /\ \E k \in DOMAIN waiters : waiters[k] = c /\ waiters' = RemoveAt(waiters, k)
    /\ pc' = [pc EXCEPT ![c] = "returned"]
    /\ got' = [got EXCEPT ![c] = [outcome |-> "cancelled", from |-> c]]
    /\ UNCHANGED <<lock, inflight, fut>>

(* Awaiting the shared future: it is cancelled for everyone. *)
CancelJoined(c) ==
    /\ pc[c] = "joined"
    /\ fut' = [fut EXCEPT ![Lookup(c)] = IF @ = "pending" THEN "cancelled" ELSE @]
    /\ pc' = [pc EXCEPT ![c] = "returned"]
    /\ got' = [got EXCEPT ![c] = [outcome |-> "cancelled", from |-> c]]
    /\ lock' = None
    /\ UNCHANGED <<waiters, inflight>>

(* In fn(): `except Exception` does not see it, and the future stays as it *)
(* is; the finally clause runs.                                            *)
CancelRunning(c) ==
    /\ pc[c] = "running"
    /\ got' = [got EXCEPT ![c] = [outcome |-> "cancelled", from |-> c]]
    /\ ToLeave(c)
    /\ UNCHANGED <<lock, fut>>

Cancel(c) ==
    /\ c \in Cancellable
    /\ CancelInLine(c) \/ CancelJoined(c) \/ CancelRunning(c)
    /\ UNCHANGED <<key, landed>>

-----------------------------------------------------------------------------
(* What the event loop and the tools do without anybody's doing. *)
Proceed(c) ==
    \/ Granted(c)
    \/ \E outcome \in Outcome : FnEnds(c, outcome)
    \/ Wake(c)

Next == \E c \in Caller : Call(c) \/ Proceed(c) \/ Cancel(c)

(* The loop runs what is ready, and every execution of a tool ends. *)
Fairness == \A c \in Caller : WF_vars(Proceed(c))

Spec == Init /\ [][Next]_vars /\ Fairness

-----------------------------------------------------------------------------
(***************************************************************************)
(* Properties.                                                             *)
(***************************************************************************)

TypeOK ==
    /\ pc \in [Caller -> Stage]
    /\ key \in [Caller -> Key]
    /\ lock \in Caller \cup {None}
    /\ waiters \in Seq(Caller)
    /\ inflight \in [Key -> Caller \cup {None}]
    /\ fut \in [Caller -> {"none", "pending", "cancelled"} \cup Outcome]
    /\ got \in [Caller -> [outcome : {"none", "cancelled", "InvalidStateError"} \cup Outcome,
                           from : Caller \cup {None}]]
    /\ landed \in [Caller -> SUBSET Caller]

(* In-flight deduplication: of the calls with one key at most one executes *)
(* the tool at a time, whoever waits for the lock or is cancelled.         *)
OneExecutionPerKey ==
    \A c, d \in Caller :
        pc[c] = "running" /\ pc[d] = "running" /\ key[c] = key[d] => c = d

(* What follows holds until a call is cancelled. *)
NoneCancelled == \A c \in Caller : got[c].outcome # "cancelled"

(* "in-flight": a call never gets the outcome of an execution that was     *)
(* over before the call was made, although a settled future stays in       *)
(* _inflight until its owner has had the lock again.  Fair locking is what *)
(* keeps later callers behind that owner.                                  *)
ResultIsFresh ==
    NoneCancelled => \A c \in Caller : got[c].from \notin landed[c]

(* A duplicate gets what the execution it joined gave its own caller: the  *)
(* same value or the same exception, for the same tool and arguments.      *)
ResultIsShared ==
    NoneCancelled =>
        \A c \in Caller :
            LET o == got[c].from
            IN  o # None => key[o] = key[c] /\ got[c].outcome = got[o].outcome

(* Until a call is cancelled, a call returns what one execution made for   *)
(* it and its duplicates, and none from before it began.                   *)
ResultsAreRight == ResultIsFresh /\ ResultIsShared

(* Every call comes back: nobody waits for ever for the lock or a future.  *)
CallsReturn ==
    \A c \in Caller : pc[c] # "idle" ~> pc[c] = "returned" \/ ~NoneCancelled

-----------------------------------------------------------------------------
(***************************************************************************)
(* What the documentation says, and the code does not.                     *)
(***************************************************************************)

(* "Parallel-safe tool batcher" (tool_batcher.py): every call comes back,  *)
(* as long as every execution of a tool ends.                              *)
AllReturn ==
    \A c \in Caller : pc[c] # "idle" ~> pc[c] = "returned"
=============================================================================
