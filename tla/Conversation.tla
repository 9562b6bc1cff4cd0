---------------------------- MODULE Conversation ----------------------------
(* The conversation store, services/conversation.py: per conversation a    *)
(* bounded history of turns, and a summary that the oldest turns are moved *)
(* to when the history is full.  A text is what is left of it at 80        *)
(* characters, in units; a summary is a sequence of units, each of them    *)
(* named by its turn.                                                      *)
EXTENDS Naturals, SequencesExt, FiniteSetsExt

CONSTANTS Cids,      \* conversations
          MaxTurns,  \* turns in all
          MaxText,   \* units of a text
          Limit,     \* turns that a history holds
          HeadLen,   \* turns that are moved at once
          Cap        \* units that a summary holds

ConversationAssumption ==
    /\ {MaxTurns, MaxText, Limit, HeadLen, Cap} \subseteq Nat
    /\ HeadLen \in 1..Limit

VARIABLES db,    \* the conversations that the store knows
          said   \* per conversation, all its turns: the lengths of their texts

vars == <<db, said>>

ConversationState == [history |-> <<>>, summary |-> <<>>]

Init ==
    /\ db = <<>>
    /\ said = [c \in Cids |-> <<>>]

(* get: a conversation that the store does not know is a new one.          *)
Known(c) == IF c \in DOMAIN db THEN db[c] ELSE ConversationState

(* A turn is <<its number, the length of its text>>.                       *)
Clip(turn) == [k \in 1..turn[2] |-> turn[1]]
Text(turns) == FlattenSeq([k \in DOMAIN turns |-> Clip(turns[k])])

Cut(text) == SubSeq(text, 1, Min({Cap, Len(text)}))

(* A slip: the head takes the summary's place.                             *)
HeadOnly(summary, head) == Cut(Text(head))

(* The first Cap units of the summary and the head                         *)
Rolled(summary, head) == Cut(summary \o Text(head))

(* A slip: one turn fewer is kept than was not summarised.                 *)
KeptLess(history) == SubSeq(history, HeadLen + 2, Len(history))

Kept(history) == SubSeq(history, HeadLen + 1, Len(history))

AppendTurn(c) ==
    \E text \in 0..MaxText :
        LET turn == <<Len(said[c]) + 1, text>>
            history == Append(Known(c).history, turn)
            full == Len(history) > Limit
            after == [history |-> IF full THEN Kept(history) ELSE history,
                      summary |-> IF full
                                  THEN Rolled(Known(c).summary, SubSeq(history, 1, HeadLen))
                                  ELSE Known(c).summary]
        IN  /\ db' = [d \in DOMAIN db \cup {c} |-> IF d = c THEN after ELSE db[d]]
            /\ said' = [said EXCEPT ![c] = Append(@, text)]

(* get without a turn leaves an empty conversation behind.                 *)
Get(c) ==
    /\ db' = [d \in DOMAIN db \cup {c} |-> IF d = c THEN Known(c) ELSE db[d]]
    /\ said' = said

Turns == FoldLeft(LAMBDA n, c : n + Len(said[c]), 0, SetToSeq(Cids))

Next == \E c \in Cids : (Turns < MaxTurns /\ AppendTurn(c)) \/ Get(c)

Spec == Init /\ [][Next]_vars

(* What a prompt would be charged for is bounded.                          *)
TypeOK ==
    \A c \in DOMAIN db : Len(db[c].history) <= Limit /\ Len(db[c].summary) <= Cap

AllTurns(c) == [k \in DOMAIN said[c] |-> <<k, said[c][k]>>]

(* The history of a conversation is its latest turns in their order, none  *)
(* missing in between and none of another conversation, and never fewer    *)
(* than a moved head leaves.                                               *)
HistoryIsLatest ==
    \A c \in DOMAIN db :
        /\ IsSuffix(db[c].history, AllTurns(c))
        /\ Len(said[c]) > Limit => Len(db[c].history) > Limit - HeadLen

(* Until the summary is full, every turn is in it or in the history.       *)
NothingLostBeforeCap ==
    \A c \in DOMAIN db :
        Len(db[c].summary) < Cap =>
            db[c].summary \o Text(db[c].history) = Text(AllTurns(c))

=============================================================================
