----------------------------- MODULE MCServices -----------------------------
(***************************************************************************)
(* The services an answer is made with, on small instances: the A2A layer  *)
(* (A2A), the MCP server (McpServer), cached LLM calls (LlmCache) and the  *)
(* conversation store (Conversation).  They share no state, so nothing is  *)
(* learnt from interleaving them: part says which of them a behaviour is   *)
(* of, and the others rest in one initial state of theirs.                 *)
(***************************************************************************)
EXTENDS A2A, Sequences

CONSTANTS
    MaxLines, PipeSize, HighWater, LowWater,             \* McpServer
    Call, Question, AnchorSets, NoAnchors, Nothing, Redis,  \* LlmCache
    Cids, MaxTurns, MaxText, Limit, HeadLen, Cap         \* Conversation

VARIABLES
    part,
    script, written, closed, hungUp, read, taken, server, buffer, stdout, lost,
    req, callAt, attempt, round, payload, llmCache, charged, stats, reported,
    db, said

mcpVars == <<script, written, closed, hungUp, read, taken, server, buffer, stdout, lost>>
callVars == <<req, callAt, attempt, round, payload, llmCache, charged, stats, reported>>
talkVars == <<db, said>>
mcVars == <<part, vars, mcpVars, callVars, talkVars>>

-----------------------------------------------------------------------------
(* The values are chosen for more lines than the input pipe, and answers   *)
(* than the output pipe and the transport's buffer hold; the longest       *)
(* scripts leave out the two kinds of line that are answered like others.  *)
Mcp == INSTANCE McpServer WITH sent <- written, got <- read

Calls == INSTANCE LlmCache WITH pc <- callAt, cache <- llmCache

(* Enough turns to move the head twice and to fill the summary.            *)
Talk == INSTANCE Conversation

ASSUME McpIsKnown == Mcp!McpAssumption
ASSUME CallsAreKnown == Calls!NoneAssumption
ASSUME TalkIsKnown == Talk!ConversationAssumption

-----------------------------------------------------------------------------
(* Questions and calls may be swapped: the first call is about the first   *)
(* question, and of the two calls the second may be thrifty.               *)
CallsBegin == Calls!Init /\ req[1].question = "meet" /\ ~ req[1].thrifty

CallsRest ==
    /\ req = [c \in Call |-> [kind |-> "llm.text", question |-> "meet",
                              anchors |-> NoAnchors, thrifty |-> FALSE]]
    /\ Calls!Init

MCInit ==
    /\ part \in {"peer", "mcp", "calls", "talk"}
    /\ Init
    /\ part # "mcp" => script = <<>>
    /\ Mcp!Init
    /\ Len(script) = MaxLines =>
           \A k \in 1..MaxLines : script[k] \in {"result", "notice", "garbage", "fatal"}
    /\ IF part = "calls" THEN CallsBegin ELSE CallsRest
    /\ Talk!Init

MCNext ==
    /\ UNCHANGED part
    /\ IF part = "peer" THEN Next ELSE UNCHANGED vars
    /\ IF part = "mcp" THEN Mcp!Next ELSE UNCHANGED mcpVars
    /\ IF part = "calls" THEN Calls!Next ELSE UNCHANGED callVars
    /\ IF part = "talk" THEN Talk!Next ELSE UNCHANGED talkVars

(* What Spec, Mcp!Spec and Calls!Spec are fair to: two tasks, two actors   *)
(* and two calls.                                                          *)
PeerGoesOn(k) ==
    part = "peer" /\ Exchange(k) /\ UNCHANGED <<part, mcpVars, callVars, talkVars>>
McpGoesOn(k) ==
    /\ part = "mcp" /\ UNCHANGED <<part, vars, callVars, talkVars>>
    /\ IF k = 1 THEN Mcp!ServerStep ELSE Mcp!Read
CallGoesOn(k) ==
    part = "calls" /\ Calls!Posts(k) /\ UNCHANGED <<part, vars, mcpVars, talkVars>>

(* One conjunct for one of each, two of which are at rest.                 *)
MCSpec ==
    /\ MCInit /\ [][MCNext]_mcVars
    /\ \A k \in 1..2 : WF_mcVars(PeerGoesOn(k) \/ McpGoesOn(k) \/ CallGoesOn(k))

-----------------------------------------------------------------------------
(* Answers come in the order of the requests, one for each message; none   *)
(* is missing while the server runs and the client listens, and of a       *)
(* server that ended only the latest, no more than the high-water mark.    *)
(* However fast the client writes and slowly it reads, serve() holds no    *)
(* more than one answer above that mark (prism_mcp.py).                    *)
McpIsReliable == Mcp!TypeOK /\ Mcp!AnswersInOrder /\ Mcp!Backpressure

(* No question is answered with another's text and no plan is taken for a  *)
(* summary, whichever concurrent miss stored last; a call costs at most    *)
(* three posts in each of two rounds, and a hit is free                    *)
(* (token_optimizer.py).                                                   *)
CallsAreSound == Calls!TypeOK /\ Calls!EntriesMatchKeys /\ Calls!CostIsBounded

(* A history is the latest turns of its conversation, and until the        *)
(* summary is full every turn is in one of the two (conversation.py).      *)
TurnsAreKept == Talk!TypeOK /\ Talk!HistoryIsLatest /\ Talk!NothingLostBeforeCap

(* Every A2A call ends (protocol.py).  A message to the MCP server is      *)
(* answered, unless the server has ended, the client has hung up or a      *)
(* fatal line came before it, and the server ends once its input is closed *)
(* (prism_mcp.py).  Every LLM call ends, or waits for Redis                *)
(* (token_optimizer.py).                                                   *)
ServicesEnd ==
    /\ part = "peer" => CallsEnd
    /\ Mcp!RequestsAnswered /\ Mcp!EndsWithInput
    /\ part = "calls" => Calls!CallsEnd
=============================================================================
