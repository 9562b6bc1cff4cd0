----------------------------- MODULE McpServer -----------------------------
(* The MCP server of the prism kernel, app/mcp_servers/prism_mcp.py: one   *)
(* client writes lines to its standard input, serve() answers them one by  *)
(* one on its standard output.  Both pipes are bounded; what does not fit  *)
(* the output waits in the transport's buffer, and drain() holds the       *)
(* server back while that buffer is above its high-water mark.             *)
(*                                                                         *)
(* A line is what serve() makes of it: "result" (initialize, tools/list,   *)
(* tools/call, which answers an unknown tool too), "raises" (a handler     *)
(* that raises), "unknown" (no such method), "notice" (a notification: a   *)
(* message without an id, of a method that is not served), "garbage" (no   *)
(* JSON: skipped) and "fatal": JSON that is no object, bytes that are no   *)
(* UTF-8, a method that cannot be hashed, a line above the reader's limit. *)
EXTENDS Naturals, Sequences, FiniteSets

CONSTANTS MaxLines,   \* lines of a client
          PipeSize,   \* lines that fit a pipe
          HighWater,  \* answers above which drain() waits
          LowWater    \* answers at which it goes on

McpAssumption ==
    /\ {MaxLines, PipeSize, HighWater, LowWater} \subseteq Nat
    /\ PipeSize >= 1 /\ LowWater <= HighWater

VARIABLES script,   \* the lines the client has to send
          sent,     \* how many it has written
          closed,   \* it has closed its end of the input
          hungUp,   \* it has closed its end of the output
          got,      \* the answers it has read
          taken,    \* lines that readline() has returned
          server,   \* where serve() stands
          buffer,   \* answers in the transport
          stdout,   \* answers in the pipe
          lost      \* the transport knows that the client hung up

client == <<script, sent, closed, hungUp, got>>
output == <<buffer, stdout, lost>>
vars == <<client, taken, server, output>>

Line == {"result", "raises", "unknown", "notice", "garbage", "fatal"}

Init ==
    /\ script \in UNION {[1..n -> Line] : n \in 0..MaxLines}
    /\ sent = 0 /\ taken = 0
    /\ closed = FALSE /\ hungUp = FALSE /\ lost = FALSE
    /\ got = <<>> /\ buffer = <<>> /\ stdout = <<>>
    /\ server = "reading"

(* The client                                                              *)
Send ==
    /\ sent < Len(script) /\ ~closed /\ sent - taken < PipeSize
    /\ sent' = sent + 1
    /\ UNCHANGED <<script, closed, hungUp, got, taken, server, output>>

CloseInput ==
    /\ ~closed
    /\ closed' = TRUE
    /\ UNCHANGED <<script, sent, hungUp, got, taken, server, output>>

Read ==
    /\ stdout # <<>> /\ ~hungUp
    /\ got' = Append(got, Head(stdout))
    /\ stdout' = Tail(stdout)
    /\ UNCHANGED <<script, sent, closed, hungUp, taken, server, buffer, lost>>

HangUp ==
    /\ ~hungUp
    /\ hungUp' = TRUE
    /\ stdout' = <<>>
    /\ UNCHANGED <<script, sent, closed, got, taken, server, buffer, lost>>

(* What serve() makes of line k                                            *)
Code(line) ==
    CASE line \in {"unknown", "notice"} -> "e32601"
      [] line = "raises" -> "e32000"
      [] line = "result" -> "result"

(* A slip: an answer names the request by its place among the answers.     *)
RespByPlace(k) ==
    [id |-> IF script[k] # "notice" THEN Len(got) + Len(stdout) + Len(buffer) + 1 ELSE 0,
     is |-> Code(script[k])]

(* The id is the request's own, and null (0) when it has none.             *)
Resp(k) == [id |-> IF script[k] # "notice" THEN k ELSE 0, is |-> Code(script[k])]

(* A slip: an answer is dropped while another one waits.                   *)
WriteUnlessBusy(answer) ==
    /\ UNCHANGED <<buffer, lost>>
    /\ stdout' = IF ~lost /\ Len(stdout) < PipeSize THEN Append(stdout, answer) ELSE stdout

(* write() puts an answer in the pipe if it fits and nothing waits before  *)
(* it.  Once the client is known to be gone, it only warns.                *)
Write(answer) ==
    /\ lost' = lost
    /\ IF lost THEN UNCHANGED <<buffer, stdout>>
       ELSE IF buffer = <<>> /\ Len(stdout) < PipeSize /\ ~hungUp
            THEN stdout' = Append(stdout, answer) /\ buffer' = buffer
            ELSE buffer' = Append(buffer, answer) /\ stdout' = stdout

(* A slip: the server does not wait for the transport.                     *)
DrainAtOnce == IF lost THEN "raised" ELSE "reading"

(* drain() raises when the connection is lost, and waits above the mark.   *)
Drain ==
    IF lost THEN "raised"
    ELSE IF Len(buffer') > HighWater THEN "draining" ELSE "reading"

(* serve() ends and the program with it: what the transport still holds is *)
(* lost (what the loop's last turns can still write, Flush wrote before;   *)
(* of a line that is cut in two, the client gets no answer).               *)
Ends(how) == server' = how /\ buffer' = <<>> /\ UNCHANGED <<stdout, lost>>

(* One turn of the loop: readline() and everything up to drain(); nothing  *)
(* in between suspends, for no handler awaits anything.                    *)
Serve ==
    /\ server = "reading" /\ taken < sent
    /\ taken' = taken + 1
    /\ CASE script[taken'] = "garbage" -> UNCHANGED <<server, output>>
         [] script[taken'] = "fatal" -> Ends("raised")
         [] OTHER -> Write(Resp(taken')) /\ server' = Drain
    /\ UNCHANGED client

(* A slip: an empty line is skipped like one that is no JSON.              *)
EndOfInputSkipped ==
    /\ server = "reading" /\ taken = sent /\ closed
    /\ UNCHANGED vars

(* readline() returns no bytes at the end of the input: serve() returns.   *)
EndOfInput ==
    /\ server = "reading" /\ taken = sent /\ closed
    /\ Ends("returned")
    /\ UNCHANGED <<client, taken>>

(* The event loop, while the program runs                                  *)
Alive == server \in {"reading", "draining"}

Flush ==
    /\ Alive /\ ~hungUp
    /\ buffer # <<>> /\ Len(stdout) < PipeSize
    /\ stdout' = Append(stdout, Head(buffer))
    /\ buffer' = Tail(buffer)
    /\ UNCHANGED <<client, taken, server, lost>>

Resume ==
    /\ server = "draining" /\ Len(buffer) <= LowWater
    /\ server' = IF lost THEN "raised" ELSE "reading"
    /\ UNCHANGED <<client, taken, output>>

ConnectionLost ==
    /\ Alive /\ hungUp /\ ~lost
    /\ lost' = TRUE
    /\ buffer' = <<>>
    /\ UNCHANGED <<client, taken, server, stdout>>

ServerStep == Serve \/ EndOfInput \/ Flush \/ Resume \/ ConnectionLost

Next == Send \/ CloseInput \/ Read \/ HangUp \/ ServerStep

(* The loop runs what is ready.  A client that has not hung up goes on     *)
(* reading; it need not send anything, nor close anything.                 *)
Spec == Init /\ [][Next]_vars /\ WF_vars(ServerStep) /\ WF_vars(Read)

(* serve() and its transport hold what their code says they hold.          *)
TypeOK ==
    /\ sent \in 0..Len(script) /\ taken \in 0..sent
    /\ server \in {"reading", "draining", "returned", "raised"}
    /\ \A s \in {got, buffer, stdout} : \A k \in DOMAIN s :
           /\ s[k].id \in 0..taken
           /\ s[k].is \in {"result", "e32601", "e32000"}
    /\ Len(stdout) <= PipeSize
    /\ lost => hungUp

Message == {"result", "raises", "unknown", "notice"}

Messages(n) == {k \in 1..n : script[k] \in Message}

(* The j-th message is the one with j messages up to itself.               *)
AnswersTo(n) ==
    [j \in 1..Cardinality(Messages(n)) |->
        LET k == CHOOSE k \in DOMAIN script :
                    script[k] \in Message /\ Cardinality(Messages(k)) = j
        IN  [id |-> IF script[k] = "notice" THEN 0 ELSE k, is |-> Code(script[k])]]

(* Answers come in the order of the requests, one for each line that is a  *)
(* message, none for garbage, whatever the two pipes hold back.  While the *)
(* server runs and the client listens none is missing; a server that ended,*)
(* at the end of its input or by raising, has lost at most the HighWater   *)
(* latest, so drain() does not protect the last answers.                   *)
AnswersInOrder ==
    LET all == AnswersTo(taken)
        due == got \o stdout \o buffer
    IN  /\ Len(got) <= Len(all) /\ got = SubSeq(all, 1, Len(got))
        /\ ~hungUp =>
               /\ Len(due) <= Len(all) /\ due = SubSeq(all, 1, Len(due))
               /\ Len(all) <= Len(due) + (IF Alive THEN 0 ELSE HighWater)

(* Memory is bounded however fast the client writes and slowly it reads:   *)
(* serve() never runs more than one answer above the high-water mark.      *)
Backpressure == Len(buffer) <= HighWater + 1

(* What the client has sent is answered, unless the server has ended,      *)
(* the client has hung up, or a fatal line came before it.                 *)
RequestsAnswered ==
    (~hungUp /\ got # AnswersTo(sent)) ~> (hungUp \/ ~Alive \/ got = AnswersTo(sent))

(* Once its input is closed the server ends, also when the client is gone  *)
(* or has left answers unread.                                             *)
EndsWithInput == closed ~> ~Alive

=============================================================================
