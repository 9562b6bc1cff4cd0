----------------------------- MODULE HitlQueue -----------------------------
(***************************************************************************)
(* HitlQueue (observability/feedback.py): the reviews waiting for a human, *)
(* in memory of one process.  A row is the trace id of its run; the rest   *)
(* of the row is read by nobody but the reviewer.                          *)
(***************************************************************************)
EXTENDS Sequences, Naturals

EmptyQueue == [mem |-> <<>>, seen |-> {}]

(* A slip: the trace id is not remembered. *)
EnqueuedUnseen(queue, trace) ==
    IF trace \in queue.seen THEN queue ELSE [queue EXCEPT !.mem = Append(@, trace)]

(* Idempotent on the trace id. *)
Enqueued(queue, trace) ==
    IF trace \in queue.seen THEN queue
    ELSE [mem |-> Append(queue.mem, trace), seen |-> queue.seen \cup {trace}]

(* The number of rows a queue holds for a run. *)
Rows(queue, trace) == {k \in DOMAIN queue.mem : queue.mem[k] = trace}
=============================================================================
