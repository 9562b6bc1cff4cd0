------------------------- MODULE ToolBatcherProofs -------------------------
(***************************************************************************)
(* What holds of ToolBatcher for any callers and keys: its types, one      *)
(* execution of a key at a time, and, until a call is cancelled, that a    *)
(* call returns what one execution made for it, a fresh one.               *)
(***************************************************************************)
EXTENDS ToolBatcher, SequenceTheorems, TLAPS

(* The lock is kept across a suspension only by a call that waits for the  *)
(* future it found.                                                        *)
LockIsJoined ==
    /\ \A c \in Caller : pc[c] = "joined" <=> lock = c
    /\ \A c \in Caller : pc[c] = "joined" => Lookup(c) # None

(* The line for the lock: who is in it is in it once.                      *)
IsLine(line, who) ==
    /\ line \in Seq(Caller)
    /\ \A c \in Caller : c \in who <=> \E k \in DOMAIN line : line[k] = c
    /\ \A k, l \in DOMAIN line : line[k] = line[l] => k = l

Queued == {c \in Caller : pc[c] \in {"entering", "leaving"}}

LineIsExact == IsLine(waiters, Queued)

(* The entry of a key is its execution's until that has left: nobody else  *)
(* pops it.                                                                *)
EntryIsOwn ==
    \A c \in Caller : pc[c] \in {"running", "leaving"} => Lookup(c) = c

(* What a call has before it executes or joins.                            *)
Unsettled ==
    \A c \in Caller :
        /\ pc[c] \in {"idle", "entering", "joined"} => fut[c] = "none"
        /\ pc[c] \in {"idle", "entering", "joined", "running"} => got[c] = NoGot

(* What was over before a call began is over, and was not this call.       *)
LandedIsOver ==
    \A c \in Caller :
        /\ landed[c] \subseteq Over
        /\ c \notin landed[c]

Shape ==
    TypeOK /\ LockIsJoined /\ LineIsExact /\ EntryIsOwn /\ Unsettled /\ LandedIsOver

(***************************************************************************)
(* Until a call is cancelled.                                              *)
(***************************************************************************)

(* Every entry is that of an execution under way or about to leave, and    *)
(* its future is settled in between.                                       *)
EntryIsLive ==
    /\ \A k \in Key : inflight[k] # None =>
           key[inflight[k]] = k /\ pc[inflight[k]] \in {"running", "leaving"}
    /\ \A c \in Caller :
           /\ pc[c] = "running" => fut[c] = "pending"
           /\ pc[c] = "leaving" => fut[c] \in Outcome

(* An outcome is that of a settled future, for the owner and for those who *)
(* joined it.                                                              *)
OutcomeIsShared ==
    \A c \in Caller :
        /\ fut[c] \in Outcome => got[c] = [outcome |-> fut[c], from |-> c]
        /\ got[c].from # None =>
               /\ fut[got[c].from] = got[c].outcome
               /\ fut[got[c].from] \in Outcome
               /\ key[got[c].from] = key[c]

(* Fair locking: an execution that was over when a call came has been in   *)
(* line before that call.                                                  *)
LineIsFair ==
    \A k, l \in DOMAIN waiters :
        /\ pc[waiters[k]] = "leaving"
        /\ pc[waiters[l]] = "entering"
        /\ waiters[k] \in landed[waiters[l]]
        => k < l

(* A call waits for an execution that was not over when the call came.     *)
JoinedIsFresh == \A c \in Caller : pc[c] = "joined" => Lookup(c) \notin landed[c]

Clean == EntryIsLive /\ OutcomeIsShared /\ LineIsFair /\ JoinedIsFresh /\ ResultIsFresh

IInv == Shape /\ (NoneCancelled => Clean)

-----------------------------------------------------------------------------
(***************************************************************************)
(* The line for the lock.                                                  *)
(***************************************************************************)

(* Who comes is the last in line.                                          *)
LEMMA LineGrows ==
    ASSUME NEW line, NEW who, IsLine(line, who), NEW c \in Caller, c \notin who
    PROVE  /\ IsLine(Append(line, c), who \cup {c})
           /\ DOMAIN line = 1..Len(line) /\ Len(line) \in Nat
           /\ DOMAIN Append(line, c) = 1..(Len(line) + 1)
           /\ \A k \in 1..Len(line) : Append(line, c)[k] = line[k] /\ line[k] \in who
           /\ Append(line, c)[Len(line) + 1] = c
<1> DEFINE longer == Append(line, c)
<1>1. /\ line \in Seq(Caller)
      /\ DOMAIN line = 1..Len(line) /\ Len(line) \in Nat
    BY DEF IsLine
<1>2. /\ longer \in Seq(Caller)
      /\ DOMAIN longer = 1..(Len(line) + 1)
      /\ \A k \in 1..Len(line) : longer[k] = line[k]
      /\ longer[Len(line) + 1] = c
    BY <1>1, AppendProperties, LenProperties
<1>3. \A k \in 1..Len(line) : line[k] \in who /\ line[k] \in Caller
    BY <1>1 DEF IsLine
<1> HIDE DEF longer
<1>4. IsLine(longer, who \cup {c})
    <2>1. ASSUME NEW d \in Caller
          PROVE  d \in who \cup {c} <=> \E k \in DOMAIN longer : longer[k] = d
        <3>1. CASE d = c
            BY <3>1, <1>1, <1>2
        <3>2. CASE d # c
            BY <3>2, <1>1, <1>2 DEF IsLine
        <3> QED BY <3>1, <3>2
    <2>2. ASSUME NEW k \in DOMAIN longer, NEW l \in DOMAIN longer, longer[k] = longer[l]
          PROVE  k = l
        BY <2>2, <1>1, <1>2, <1>3 DEF IsLine
    <2> QED BY <2>1, <2>2, <1>2 DEF IsLine
<1> QED BY <1>1, <1>2, <1>3, <1>4 DEF longer

(* The first in line goes, and all move up.                                *)
LEMMA LineMoves ==
    ASSUME NEW line, NEW who, IsLine(line, who), line # <<>>
    PROVE  /\ Head(line) \in who /\ Head(line) = line[1]
           /\ IsLine(Tail(line), who \ {Head(line)})
           /\ DOMAIN line = 1..Len(line) /\ Len(line) \in Nat \ {0}
           /\ DOMAIN Tail(line) = 1..(Len(line) - 1)
           /\ \A k \in 1..(Len(line) - 1) : Tail(line)[k] = line[k + 1]
<1> DEFINE rest == Tail(line)
<1>1. /\ line \in Seq(Caller)
      /\ DOMAIN line = 1..Len(line) /\ Len(line) \in Nat \ {0}
    BY EmptySeq DEF IsLine
<1>2. /\ rest \in Seq(Caller)
      /\ DOMAIN rest = 1..(Len(line) - 1)
      /\ \A k \in 1..(Len(line) - 1) : rest[k] = line[k + 1]
    BY <1>1, HeadTailProperties, LenProperties
<1>3. Head(line) = line[1]
    BY <1>1
<1>4. Head(line) \in who
    BY <1>1, <1>3 DEF IsLine
<1> HIDE DEF rest
<1>5. IsLine(rest, who \ {Head(line)})
    <2>1. ASSUME NEW d \in Caller, d \in who, d # Head(line)
          PROVE  \E k \in DOMAIN rest : rest[k] = d
        <3>1. PICK k \in DOMAIN line : line[k] = d
            BY <2>1 DEF IsLine
        <3>2. k - 1 \in DOMAIN rest /\ rest[k - 1] = d
            BY <3>1, <2>1, <1>1, <1>2, <1>3
        <3> QED BY <3>2
    <2>2. ASSUME NEW k \in DOMAIN rest
          PROVE  rest[k] \in who /\ rest[k] # Head(line)
        <3>1. k + 1 \in DOMAIN line /\ k + 1 # 1 /\ 1 \in DOMAIN line
            BY <1>1, <1>2
        <3>2. line[k + 1] # line[1]
            BY <3>1 DEF IsLine
        <3> QED BY <3>1, <3>2, <1>1, <1>2, <1>3 DEF IsLine
    <2>3. ASSUME NEW k \in DOMAIN rest, NEW l \in DOMAIN rest, rest[k] = rest[l]
          PROVE  k = l
        <3>1. k + 1 \in DOMAIN line /\ l + 1 \in DOMAIN line /\ line[k + 1] = line[l + 1]
            BY <2>3, <1>1, <1>2
        <3>2. k + 1 = l + 1
            BY <3>1 DEF IsLine
        <3> QED BY <3>2, <1>2
    <2> QED BY <2>1, <2>2, <2>3, <1>2 DEF IsLine
<1> QED BY <1>1, <1>2, <1>3, <1>4, <1>5 DEF rest

(* One in line gives up its place.                                         *)
LEMMA LineLoses ==
    ASSUME NEW line, NEW who, IsLine(line, who), NEW i \in DOMAIN line
    PROVE  IsLine(RemoveAt(line, i), who \ {line[i]})
<1> DEFINE rest == RemoveAt(line, i)
           before == SubSeq(line, 1, i - 1)
           after == SubSeq(line, i + 1, Len(line))
<1>1. /\ line \in Seq(Caller)
      /\ DOMAIN line = 1..Len(line) /\ Len(line) \in Nat /\ i \in 1..Len(line)
    BY DEF IsLine
<1>2. /\ before \in Seq(Caller) /\ Len(before) = i - 1
      /\ \A k \in 1..(i - 1) : before[k] = line[k]
    BY <1>1, SubSeqProperties
<1>3. /\ after \in Seq(Caller) /\ Len(after) = Len(line) - i
      /\ \A k \in 1..(Len(line) - i) : after[k] = line[k + i]
    BY <1>1, SubSeqProperties
<1>4. /\ rest \in Seq(Caller)
      /\ DOMAIN rest = 1..(Len(line) - 1)
      /\ \A k \in 1..(Len(line) - 1) : rest[k] = IF k < i THEN line[k] ELSE line[k + 1]
    <2> HIDE DEF before, after
    <2>1. rest = before \o after
        BY DEF RemoveAt, before, after
    <2>2. /\ before \o after \in Seq(Caller)
          /\ Len(before \o after) = Len(before) + Len(after)
          /\ \A k \in 1..(Len(before) + Len(after)) :
                 (before \o after)[k] = IF k <= Len(before) THEN before[k] ELSE after[k - Len(before)]
        BY <1>2, <1>3, ConcatProperties
    <2>3. Len(before) + Len(after) = Len(line) - 1
        BY <1>1, <1>2, <1>3
    <2>4. /\ rest \in Seq(Caller) /\ Len(rest) = Len(line) - 1
          /\ \A k \in 1..(Len(line) - 1) :
                 rest[k] = IF k <= i - 1 THEN before[k] ELSE after[k - (i - 1)]
        <3> HIDE DEF rest
        <3> QED BY <2>1, <2>2, <2>3, <1>2
    <2>5. ASSUME NEW k \in 1..(Len(line) - 1)
          PROVE  rest[k] = IF k < i THEN line[k] ELSE line[k + 1]
        <3>1. CASE k < i
            BY <3>1, <2>4, <1>1, <1>2
        <3>2. CASE ~ (k < i)
            <4>1. k - (i - 1) \in 1..(Len(line) - i) /\ (k - (i - 1)) + i = k + 1
                BY <3>2, <1>1
            <4> HIDE DEF rest, before, after
            <4>2. ~ (k <= i - 1)
                BY <3>2, <1>1
            <4>3. rest[k] = after[k - (i - 1)]
                BY <4>2, <2>4
            <4> QED BY <3>2, <4>1, <4>3, <1>3
        <3> QED BY <3>1, <3>2
    <2> QED BY <2>4, <2>5, LenProperties
<1> HIDE DEF rest, before, after
<1>5. ASSUME NEW d \in Caller, d \in who, d # line[i]
      PROVE  \E k \in DOMAIN rest : rest[k] = d
    <2>1. PICK k \in DOMAIN line : line[k] = d
        BY <1>5 DEF IsLine
    <2>2. CASE k < i
        BY <2>1, <2>2, <1>1, <1>4
    <2>3. CASE i < k
        <3>1. k - 1 \in DOMAIN rest /\ rest[k - 1] = line[(k - 1) + 1]
            BY <2>3, <1>1, <1>4
        <3> QED BY <3>1, <2>1, <1>1
    <2> QED BY <2>1, <2>2, <2>3, <1>1, <1>5
<1> DEFINE old(k) == IF k < i THEN k ELSE k + 1
<1>6. ASSUME NEW k \in DOMAIN rest
      PROVE  old(k) \in DOMAIN line /\ old(k) # i /\ rest[k] = line[old(k)]
    BY <1>1, <1>4
<1>7. ASSUME NEW k \in DOMAIN rest
      PROVE  rest[k] \in who /\ rest[k] # line[i]
    <2> HIDE DEF old
    <2> QED BY <1>1, <1>6 DEF IsLine
<1>8. ASSUME NEW k \in DOMAIN rest, NEW l \in DOMAIN rest, rest[k] = rest[l]
      PROVE  k = l
    <2>1. old(k) = old(l)
        <3> HIDE DEF old
        <3> QED BY <1>6, <1>8 DEF IsLine
    <2> QED BY <2>1, <1>1, <1>4
<1> QED BY <1>4, <1>5, <1>7, <1>8 DEF IsLine, rest

-----------------------------------------------------------------------------
(***************************************************************************)
(* The steps of one call.                                                  *)
(***************************************************************************)

LEMMA Initially == Init => IInv
<1> SUFFICES ASSUME Init PROVE IInv
    OBVIOUS
<1>1. TypeOK
    <2>1. waiters \in Seq(Caller)
        BY EmptySeq DEF Init
    <2> QED BY <2>1 DEF Init, TypeOK, Stage, NoGot, Outcome
<1>2. Queued = {} /\ Over = {}
    BY DEF Init, Queued, Over, Outcome
<1>3. LineIsExact
    BY <1>1, <1>2, EmptySeq DEF LineIsExact, IsLine, Init, TypeOK
<1>4. LockIsJoined /\ EntryIsOwn /\ Unsettled /\ LandedIsOver
    BY <1>2, CallersAreKnown DEF Init, LockIsJoined, EntryIsOwn, Unsettled, LandedIsOver, Lookup
<1>5. Clean
    BY <1>3, CallersAreKnown
    DEF Init, Clean, EntryIsLive, OutcomeIsShared, LineIsFair, JoinedIsFresh, ResultIsFresh,
        NoneCancelled,
        NoGot, Outcome
<1> QED BY <1>1, <1>3, <1>4, <1>5 DEF IInv, Shape

(* A call comes to the lock for its first turn: at once, or from the line. *)
Arrival(c) ==
    \/ /\ pc[c] = "idle" /\ waiters = <<>>
       /\ waiters' = waiters
       /\ landed' = [landed EXCEPT ![c] = Over]
    \/ /\ pc[c] = "entering" /\ waiters # <<>> /\ c = Head(waiters)
       /\ waiters' = Tail(waiters)
       /\ landed' = landed

LEMMA EnterShape ==
    ASSUME Shape, NEW c \in Caller, lock = None, Arrival(c), Enter(c), UNCHANGED key
    PROVE  Shape'
<1>0. /\ TypeOK /\ LockIsJoined /\ LineIsExact /\ EntryIsOwn /\ Unsettled /\ LandedIsOver
      /\ pc[c] \in {"idle", "entering"}
      /\ fut[c] = "none" /\ got[c] = NoGot
    BY DEF Shape, Unsettled, Arrival
<1>1. /\ pc' = [pc EXCEPT ![c] = pc'[c]]
      /\ pc'[c] \in {"running", "joined", "returned"}
    BY <1>0 DEF Enter, BecomeOwner, Join, JoinSettled, TypeOK
<1>2. \A d \in Caller \ {c} : pc'[d] = pc[d] /\ got'[d] = got[d] /\ fut'[d] = fut[d]
    BY <1>0 DEF Enter, BecomeOwner, Join, JoinSettled, TypeOK
<1>3. landed' \in [Caller -> SUBSET Caller]
    BY <1>0 DEF Arrival, TypeOK, Over
<1>4. LineIsExact'
    <2>1. Queued' = Queued \ {c}
        BY <1>0, <1>1, <1>2 DEF Queued
    <2>2. CASE pc[c] = "idle"
        <3>1. Queued' = Queued /\ waiters' = waiters
            BY <2>1, <2>2 DEF Queued, Arrival
        <3> QED BY <3>1, <1>0 DEF LineIsExact
    <2>3. CASE pc[c] = "entering"
        <3>1. waiters # <<>> /\ waiters' = Tail(waiters) /\ c = Head(waiters)
            BY <2>3 DEF Arrival
        <3>2. IsLine(waiters', Queued \ {c})
            BY <3>1, <1>0, LineMoves DEF LineIsExact
        <3> QED BY <3>2, <2>1 DEF LineIsExact
    <2> QED BY <1>0, <2>2, <2>3
<1>5. waiters' \in Seq(Caller)
    BY <1>4 DEF LineIsExact, IsLine
<1>6. \A d \in Caller : pc[d] # "joined"
    BY <1>0, CallersAreKnown DEF LockIsJoined
<1>7. TypeOK'
    <2>1. CASE BecomeOwner(c)
        BY <2>1, <1>0, <1>3, <1>5 DEF BecomeOwner, TypeOK, Stage
    <2>2. CASE Join(c)
        BY <2>2, <1>0, <1>3, <1>5 DEF Join, TypeOK, Stage
    <2>3. CASE JoinSettled(c)
        <3>1. SharedResult(c) \in [outcome : {"none", "cancelled", "InvalidStateError"} \cup Outcome,
                                   from : Caller \cup {None}]
            BY <2>3, <1>0 DEF JoinSettled, Settled, SharedResult, Lookup, TypeOK, Outcome
        <3> QED BY <2>3, <3>1, <1>0, <1>3, <1>5 DEF JoinSettled, TypeOK, Stage
    <2> QED BY <2>1, <2>2, <2>3 DEF Enter
<1>8. LockIsJoined'
    <2>1. CASE BecomeOwner(c)
        BY <2>1, <1>0, <1>2, <1>6, CallersAreKnown DEF BecomeOwner, LockIsJoined, Lookup, TypeOK
    <2>2. CASE Join(c)
        BY <2>2, <1>0, <1>2, <1>6 DEF Join, LockIsJoined, Lookup, TypeOK
    <2>3. CASE JoinSettled(c)
        BY <2>3, <1>0, <1>2, <1>6, CallersAreKnown DEF JoinSettled, LockIsJoined, Lookup, TypeOK
    <2> QED BY <2>1, <2>2, <2>3 DEF Enter
<1>9. EntryIsOwn'
    <2>1. CASE BecomeOwner(c)
        BY <2>1, <1>0, <1>2, CallersAreKnown DEF BecomeOwner, EntryIsOwn, Lookup, TypeOK
    <2>2. CASE Join(c) \/ JoinSettled(c)
        BY <2>2, <1>0, <1>2 DEF Join, JoinSettled, EntryIsOwn, Lookup, TypeOK
    <2> QED BY <2>1, <2>2 DEF Enter
<1>10. Unsettled'
    BY <1>0, <1>2 DEF Enter, BecomeOwner, Join, JoinSettled, Unsettled, TypeOK
<1>11. LandedIsOver'
    <2>1. Over \subseteq Over'
        BY <1>0, <1>2 DEF Over, Outcome
    <2>2. c \notin Over
        BY <1>0 DEF Over, Outcome
    <2> QED BY <2>1, <2>2, <1>0 DEF Arrival, LandedIsOver, TypeOK
<1> QED BY <1>4, <1>7, <1>8, <1>9, <1>10, <1>11 DEF Shape

(* The future a call finds is of an execution that was not over when the   *)
(* call came.                                                              *)
LEMMA EntryIsFresh ==
    ASSUME Shape, Clean, NEW c \in Caller, Arrival(c), Lookup(c) # None
    PROVE  /\ Lookup(c) \in Caller \ {c}
           /\ key[Lookup(c)] = key[c]
           /\ pc[Lookup(c)] \in {"running", "leaving"}
           /\ Lookup(c) \notin landed'[c]
<1> DEFINE o == Lookup(c)
<1>0. /\ TypeOK /\ LineIsExact /\ LandedIsOver /\ EntryIsLive /\ LineIsFair
      /\ pc[c] \in {"idle", "entering"}
    BY DEF Shape, Clean, Arrival
<1>1. key[c] \in Key /\ o \in Caller
    BY <1>0 DEF TypeOK, Lookup
<1>2. key[o] = key[c] /\ pc[o] \in {"running", "leaving"} /\ o # c
    BY <1>0, <1>1 DEF EntryIsLive, Lookup
<1>3. CASE pc[c] = "idle"
    <2>1. waiters = <<>> /\ landed'[c] = Over
        BY <1>3, <1>0 DEF Arrival, TypeOK
    <2>2. o \notin Queued
        BY <2>1, <1>0, <1>1 DEF LineIsExact, IsLine
    <2>3. fut[o] = "pending"
        BY <2>2, <1>0, <1>1, <1>2 DEF Queued, EntryIsLive
    <2> QED BY <2>1, <2>3, <1>1, <1>2 DEF Over, Outcome
<1>4. CASE pc[c] = "entering"
    <2>1. landed'[c] = landed[c] /\ waiters # <<>> /\ c = Head(waiters)
        BY <1>4 DEF Arrival
    <2>2. 1 \in DOMAIN waiters /\ waiters[1] = c
          /\ DOMAIN waiters = 1..Len(waiters) /\ Len(waiters) \in Nat
        BY <2>1, <1>0, LineMoves DEF LineIsExact
    <2>3. SUFFICES ASSUME o \in landed[c] PROVE FALSE
        BY <2>1, <1>1, <1>2
    <2>4. pc[o] = "leaving"
        BY <2>3, <1>0, <1>1, <1>2 DEF LandedIsOver, Over, Outcome, EntryIsLive
    <2>5. PICK k \in DOMAIN waiters : waiters[k] = o
        BY <2>4, <1>0, <1>1 DEF LineIsExact, IsLine, Queued
    <2>6. k < 1
        BY <2>2, <2>3, <2>4, <2>5, <1>4, <1>0 DEF LineIsFair
    <2> QED BY <2>2, <2>5, <2>6
<1> QED BY <1>0, <1>1, <1>2, <1>3, <1>4

(* Whoever stays in line stays in order when the first goes.               *)
LEMMA LineStaysFair ==
    ASSUME LineIsExact, LineIsFair, NEW c \in Caller, waiters # <<>>, c = Head(waiters),
           waiters' = Tail(waiters), landed' = landed, \A d \in Caller \ {c} : pc'[d] = pc[d]
    PROVE  LineIsFair'
<1>1. /\ IsLine(waiters', Queued \ {c})
      /\ DOMAIN waiters = 1..Len(waiters) /\ Len(waiters) \in Nat \ {0}
      /\ DOMAIN waiters' = 1..(Len(waiters) - 1)
      /\ \A k \in 1..(Len(waiters) - 1) : waiters'[k] = waiters[k + 1]
    BY LineMoves DEF LineIsExact
<1>2. ASSUME NEW k \in DOMAIN waiters', NEW l \in DOMAIN waiters',
             pc'[waiters'[k]] = "leaving", pc'[waiters'[l]] = "entering",
             waiters'[k] \in landed'[waiters'[l]]
      PROVE  k < l
    <2>1. k + 1 \in DOMAIN waiters /\ l + 1 \in DOMAIN waiters /\ k \in Int /\ l \in Int
        BY <1>1
    <2>2. waiters'[k] \in Caller \ {c} /\ waiters'[l] \in Caller \ {c}
        BY <1>1 DEF IsLine
    <2>3. /\ pc[waiters[k + 1]] = "leaving" /\ pc[waiters[l + 1]] = "entering"
          /\ waiters[k + 1] \in landed[waiters[l + 1]]
        BY <1>1, <1>2, <2>2
    <2>4. k + 1 < l + 1
        BY <2>1, <2>3 DEF LineIsFair
    <2> QED BY <2>1, <2>4
<1> QED BY <1>2 DEF LineIsFair

LEMMA EnterClean ==
    ASSUME Shape, Clean, NoneCancelled,
           NEW c \in Caller, lock = None, Arrival(c), Enter(c), UNCHANGED key
    PROVE  Clean'
<1>1. /\ TypeOK /\ LockIsJoined /\ LineIsExact /\ Unsettled /\ LandedIsOver
      /\ EntryIsLive /\ OutcomeIsShared /\ LineIsFair /\ ResultIsFresh
      /\ pc[c] \in {"idle", "entering"}
      /\ fut[c] = "none" /\ got[c] = NoGot
    BY DEF Shape, Clean, Unsettled, Arrival
<1>2. pc'[c] \in {"running", "joined", "returned"} /\ key' = key
    BY <1>1 DEF Enter, BecomeOwner, Join, JoinSettled, TypeOK
<1>3. \A d \in Caller \ {c} :
          /\ pc'[d] = pc[d] /\ got'[d] = got[d] /\ fut'[d] = fut[d]
          /\ landed'[d] = landed[d]
    BY <1>1 DEF Enter, BecomeOwner, Join, JoinSettled, TypeOK, Arrival
<1>4. \/ BecomeOwner(c) /\ fut'[c] = "pending" /\ pc'[c] = "running" /\ got'[c] = NoGot
      \/ Join(c) /\ fut'[c] = "none" /\ pc'[c] = "joined" /\ got'[c] = NoGot
      \/ /\ JoinSettled(c) /\ fut'[c] = "none" /\ pc'[c] = "returned"
         /\ got'[c] = SharedResult(c)
    BY <1>1 DEF Enter, BecomeOwner, Join, JoinSettled, TypeOK
<1>5. Lookup(c) # None =>
          /\ Lookup(c) \in Caller \ {c} /\ key[Lookup(c)] = key[c]
          /\ Lookup(c) \notin landed'[c]
    BY EntryIsFresh
<1>6. EntryIsLive'
    <2>1. CASE BecomeOwner(c)
        <3>1. inflight' = [inflight EXCEPT ![key[c]] = c] /\ key[c] \in Key
            BY <2>1, <1>1 DEF BecomeOwner, TypeOK
        <3>2. \A k \in Key : inflight[k] # None => inflight[k] \in Caller \ {c}
            BY <1>1 DEF EntryIsLive, TypeOK
        <3>3. \A k \in Key : inflight'[k] = IF k = key[c] THEN c ELSE inflight[k]
            BY <3>1, <1>1 DEF TypeOK
        <3>4. fut'[c] = "pending" /\ pc'[c] = "running"
            BY <2>1, <1>1 DEF BecomeOwner, TypeOK
        <3> QED BY <3>2, <3>3, <3>4, <1>1, <1>2, <1>3 DEF EntryIsLive
    <2>2. CASE Join(c) \/ JoinSettled(c)
        <3>1. inflight' = inflight /\ pc'[c] \in {"joined", "returned"}
            BY <2>2, <1>4, <1>1 DEF Join, JoinSettled, BecomeOwner
        <3>2. \A k \in Key : inflight[k] # None => inflight[k] \in Caller \ {c}
            BY <1>1 DEF EntryIsLive, TypeOK
        <3> QED BY <3>1, <3>2, <1>1, <1>2, <1>3 DEF EntryIsLive
    <2> QED BY <2>1, <2>2 DEF Enter
<1>7. \A d \in Caller : got[d].from \in Caller => got[d].from # c
    BY <1>1, CallersAreKnown DEF OutcomeIsShared, Outcome
<1>8. \A d \in Caller : got[d].from \in Caller \cup {None}
    BY <1>1 DEF TypeOK
<1>9. OutcomeIsShared'
    <2>1. ASSUME NEW d \in Caller \ {c}
          PROVE  /\ fut'[d] \in Outcome => got'[d] = [outcome |-> fut'[d], from |-> d]
                 /\ got'[d].from # None =>
                        /\ fut'[got'[d].from] = got'[d].outcome
                        /\ fut'[got'[d].from] \in Outcome
                        /\ key'[got'[d].from] = key'[d]
        BY <2>1, <1>1, <1>2, <1>3, <1>7, <1>8 DEF OutcomeIsShared
    <2>2. fut'[c] \notin Outcome
        BY <1>4 DEF Outcome
    <2>3. CASE got'[c] = NoGot
        <3>1. got'[c].from = None
            BY <2>3 DEF NoGot
        <3> QED BY <2>1, <2>2, <3>1 DEF OutcomeIsShared
    <2>4. CASE JoinSettled(c) /\ got'[c] = SharedResult(c)
        <3>1. /\ Lookup(c) # None /\ Settled(Lookup(c))
              /\ got'[c].from = Lookup(c) /\ got'[c].outcome = fut[Lookup(c)]
            BY <2>4 DEF JoinSettled, SharedResult
        <3>2. pc[Lookup(c)] \in {"running", "leaving"}
            BY <3>1, EntryIsFresh
        <3>3. fut[Lookup(c)] \in Outcome
            BY <3>1, <3>2, <1>1, <1>5 DEF EntryIsLive, Settled
        <3>4. fut'[Lookup(c)] = fut[Lookup(c)]
            BY <3>1, <1>3, <1>5
        <3> QED BY <2>1, <2>2, <3>1, <3>3, <3>4, <1>2, <1>5 DEF OutcomeIsShared
    <2> QED BY <1>4, <2>3, <2>4
<1>10. JoinedIsFresh'
    <2>1. ASSUME NEW d \in Caller, pc'[d] = "joined"
          PROVE  Lookup(d)' \notin landed'[d]
        <3>1. d = c
            BY <2>1, <1>1, <1>3, CallersAreKnown DEF LockIsJoined
        <3>2. Join(c)
            BY <3>1, <2>1, <1>4
        <3>3. Lookup(c) # None /\ Lookup(c)' = Lookup(c)
            BY <3>2, <1>2 DEF Join, Lookup
        <3> QED BY <3>1, <3>3, <1>5
    <2> QED BY <2>1 DEF JoinedIsFresh
<1>11. LineIsFair'
    <2>1. CASE pc[c] = "idle"
        BY <2>1 DEF Arrival, LineIsFair
    <2>2. CASE pc[c] = "entering"
        BY <2>2, <1>1, <1>3, LineStaysFair DEF Arrival
    <2> QED BY <1>1, <2>1, <2>2
<1>12. ResultIsFresh'
    <2>1. ASSUME NEW d \in Caller \ {c} PROVE got'[d].from \notin landed'[d]
        BY <1>1, <1>3 DEF ResultIsFresh
    <2>2. landed'[c] \subseteq Caller
        BY <1>1 DEF Arrival, TypeOK, Over
    <2>3. got'[c].from \notin landed'[c]
        <3>1. CASE got'[c] = NoGot
            BY <3>1, <2>2, CallersAreKnown DEF NoGot
        <3>2. CASE JoinSettled(c) /\ got'[c] = SharedResult(c)
            BY <3>2, <1>5 DEF JoinSettled, SharedResult
        <3> QED BY <1>4, <3>1, <3>2
    <2> QED BY <2>1, <2>3 DEF ResultIsFresh
<1> QED BY <1>6, <1>9, <1>10, <1>12, <1>11 DEF Clean

(* A call that is not admitted at once is the last in line.                *)
LEMMA QueueStep ==
    ASSUME IInv, NEW c \in Caller, Call(c), ~ LockIsFree
    PROVE  IInv'
<1>1. /\ Shape /\ TypeOK /\ LockIsJoined /\ LineIsExact /\ EntryIsOwn /\ Unsettled
      /\ LandedIsOver
      /\ pc[c] = "idle" /\ fut[c] = "none"
    BY DEF IInv, Shape, Call, Unsettled
<1>2. /\ landed' = [landed EXCEPT ![c] = Over]
      /\ pc' = [pc EXCEPT ![c] = "entering"]
      /\ waiters' = Append(waiters, c)
      /\ UNCHANGED <<key, lock, inflight, fut, got>>
    BY DEF Call
<1>3. /\ pc'[c] = "entering" /\ landed'[c] = Over
      /\ \A d \in Caller \ {c} : pc'[d] = pc[d] /\ landed'[d] = landed[d]
    BY <1>1, <1>2 DEF TypeOK
<1>4. /\ c \notin Queued
      /\ Queued' = Queued \cup {c}
      /\ Over' = Over
    BY <1>1, <1>2, <1>3 DEF Queued, Over
<1>5. /\ IsLine(waiters', Queued \cup {c})
      /\ DOMAIN waiters = 1..Len(waiters) /\ Len(waiters) \in Nat
      /\ DOMAIN waiters' = 1..(Len(waiters) + 1)
      /\ \A k \in 1..Len(waiters) : waiters'[k] = waiters[k] /\ waiters[k] \in Queued
      /\ waiters'[Len(waiters) + 1] = c
    <2>1. IsLine(waiters, Queued) /\ c \notin Queued
        BY <1>1, <1>4 DEF LineIsExact
    <2> HIDE DEF Queued
    <2> QED BY <2>1, <1>2, LineGrows
<1>6. LineIsExact'
    BY <1>4, <1>5 DEF LineIsExact
<1>7. TypeOK'
    <2>1. waiters' \in Seq(Caller)
        BY <1>5 DEF LineIsExact, IsLine
    <2>2. pc' \in [Caller -> Stage] /\ landed' \in [Caller -> SUBSET Caller]
        BY <1>1, <1>2 DEF TypeOK, Stage, Over
    <2> QED BY <2>1, <2>2, <1>1, <1>2 DEF TypeOK
<1>8. LockIsJoined' /\ EntryIsOwn' /\ Unsettled'
    BY <1>1, <1>2, <1>3 DEF LockIsJoined, EntryIsOwn, Unsettled, Lookup
<1>9. LandedIsOver'
    <2>1. c \notin Over
        BY <1>1 DEF Over, Outcome
    <2> QED BY <2>1, <1>1, <1>3, <1>4 DEF LandedIsOver
<1>10. ASSUME NoneCancelled' PROVE Clean'
    <2>1. /\ NoneCancelled /\ EntryIsLive /\ OutcomeIsShared /\ LineIsFair /\ JoinedIsFresh
          /\ ResultIsFresh
        BY <1>2, <1>10 DEF NoneCancelled, IInv, Clean
    <2>2. EntryIsLive'
        BY <2>1, <1>1, <1>2, <1>3 DEF EntryIsLive, TypeOK
    <2>3. OutcomeIsShared'
        BY <2>1, <1>2 DEF OutcomeIsShared
    <2>4. LineIsFair'
        <3>1. ASSUME NEW k \in DOMAIN waiters', NEW l \in DOMAIN waiters',
                     pc'[waiters'[k]] = "leaving", pc'[waiters'[l]] = "entering",
                     waiters'[k] \in landed'[waiters'[l]]
              PROVE  k < l
            <4>1. k \in 1..Len(waiters) /\ waiters'[k] = waiters[k] /\ waiters[k] \in Caller \ {c}
                BY <3>1, <1>3, <1>4, <1>5 DEF Queued
            <4>2. CASE l = Len(waiters) + 1
                BY <4>1, <4>2, <1>5
            <4>3. CASE l # Len(waiters) + 1
                <5>1. l \in 1..Len(waiters) /\ waiters'[l] = waiters[l]
                      /\ waiters[l] \in Caller \ {c}
                    BY <4>3, <1>4, <1>5 DEF Queued
                <5> QED BY <3>1, <4>1, <5>1, <2>1, <1>3, <1>5 DEF LineIsFair
            <4> QED BY <4>2, <4>3
        <3> QED BY <3>1 DEF LineIsFair
    <2>5. JoinedIsFresh'
        BY <2>1, <1>2, <1>3 DEF JoinedIsFresh, Lookup
    <2>6. ResultIsFresh'
        <3>1. got[c] = NoGot /\ None \notin Over
            BY <1>1, CallersAreKnown DEF Unsettled, Over
        <3>2. got[c].from \notin landed'[c]
            BY <3>1, <1>3 DEF NoGot
        <3> QED BY <3>2, <2>1, <1>2, <1>3 DEF ResultIsFresh
    <2> QED BY <2>2, <2>3, <2>4, <2>6, <2>5 DEF Clean
<1> QED BY <1>6, <1>7, <1>8, <1>9, <1>10 DEF IInv, Shape

(* A call is admitted when it comes, or when the line has come to it.      *)
LEMMA EnterStep ==
    ASSUME IInv, NEW c \in Caller, lock = None, Arrival(c), Enter(c), UNCHANGED key
    PROVE  IInv'
<1>1. Shape'
    BY EnterShape DEF IInv
<1>2. ASSUME NoneCancelled' PROVE Clean'
    <2>1. got[c] = NoGot
        BY DEF IInv, Shape, Unsettled, Arrival
    <2>2. \A d \in Caller \ {c} : got'[d] = got[d]
        BY DEF Enter, BecomeOwner, Join, JoinSettled, IInv, Shape, TypeOK
    <2>3. NoneCancelled
        BY <2>1, <2>2, <1>2 DEF NoneCancelled, NoGot
    <2> QED BY <2>3, EnterClean DEF IInv
<1> QED BY <1>1, <1>2 DEF IInv

(* The entry of an execution that leaves is the one that is popped.        *)
LEMMA PopShape ==
    ASSUME TypeOK, LockIsJoined, EntryIsOwn, NEW c \in Caller, lock = None,
           pc[c] \in {"running", "leaving"},
           pc' = [pc EXCEPT ![c] = "returned"], inflight' = Popped(c),
           UNCHANGED <<key, lock>>
    PROVE  /\ pc' \in [Caller -> Stage]
           /\ inflight' \in [Key -> Caller \cup {None}]
           /\ LockIsJoined' /\ EntryIsOwn'
           /\ EntryIsLive /\ fut' = fut => EntryIsLive'
<1>1. /\ key[c] \in Key /\ inflight[key[c]] = c
      /\ inflight' = [inflight EXCEPT ![key[c]] = None]
    BY DEF TypeOK, EntryIsOwn, Lookup, Popped
<1>2. \A k \in Key : inflight'[k] = IF k = key[c] THEN None ELSE inflight[k]
    BY <1>1 DEF TypeOK
<1>3. /\ pc'[c] = "returned"
      /\ \A d \in Caller \ {c} : pc'[d] = pc[d]
    BY DEF TypeOK
<1>4. pc' \in [Caller -> Stage] /\ inflight' \in [Key -> Caller \cup {None}]
    BY <1>1 DEF TypeOK, Stage
<1>5. LockIsJoined'
    BY <1>3, CallersAreKnown DEF LockIsJoined
<1>6. EntryIsOwn'
    <2>1. ASSUME NEW d \in Caller, pc'[d] \in {"running", "leaving"}
          PROVE  Lookup(d)' = d
        <3>1. d # c /\ inflight[key[d]] = d /\ key[d] \in Key
            BY <2>1, <1>3 DEF EntryIsOwn, Lookup, TypeOK
        <3> QED BY <3>1, <1>1, <1>2 DEF Lookup
    <2> QED BY <2>1 DEF EntryIsOwn
<1>7. ASSUME EntryIsLive, fut' = fut PROVE EntryIsLive'
    <2>1. \A k \in Key : inflight'[k] # None =>
              k # key[c] /\ inflight'[k] = inflight[k] /\ inflight[k] \in Caller \ {c}
        BY <1>1, <1>2, <1>7 DEF EntryIsLive, TypeOK
    <2> QED BY <2>1, <1>3, <1>7 DEF EntryIsLive
<1> QED BY <1>4, <1>5, <1>6, <1>7

LEMMA LeaveStep ==
    ASSUME IInv, NEW c \in Caller, Granted(c), pc[c] # "entering"
    PROVE  IInv'
<1>0. /\ Shape /\ TypeOK /\ LockIsJoined /\ LineIsExact /\ EntryIsOwn /\ Unsettled
      /\ LandedIsOver
      /\ lock = None /\ waiters # <<>> /\ c = Head(waiters) /\ waiters' = Tail(waiters)
      /\ pc' = [pc EXCEPT ![c] = "returned"] /\ inflight' = Popped(c)
      /\ UNCHANGED <<key, lock, fut, got, landed>>
    BY DEF IInv, Shape, Granted, Leave, FirstInLine
<1>1. c \in Queued /\ IsLine(waiters', Queued \ {c})
    BY <1>0, LineMoves DEF LineIsExact
<1>2. pc[c] = "leaving"
    BY <1>1 DEF Queued
<1>3. /\ pc'[c] = "returned" /\ \A d \in Caller \ {c} : pc'[d] = pc[d]
      /\ Queued' = Queued \ {c}
    BY <1>0 DEF TypeOK, Queued
<1>4. /\ pc' \in [Caller -> Stage] /\ inflight' \in [Key -> Caller \cup {None}]
      /\ LockIsJoined' /\ EntryIsOwn' /\ (EntryIsLive => EntryIsLive')
    BY <1>0, <1>2, PopShape
<1>5. LineIsExact' /\ TypeOK'
    BY <1>0, <1>1, <1>3, <1>4 DEF LineIsExact, IsLine, TypeOK
<1>6. Unsettled' /\ LandedIsOver'
    BY <1>0, <1>3 DEF Unsettled, LandedIsOver, Over
<1>7. ASSUME NoneCancelled' PROVE Clean'
    <2>1. /\ NoneCancelled /\ EntryIsLive /\ OutcomeIsShared /\ LineIsFair /\ JoinedIsFresh
          /\ ResultIsFresh
        BY <1>0, <1>7 DEF NoneCancelled, IInv, Clean
    <2>2. OutcomeIsShared' /\ ResultIsFresh'
        BY <2>1, <1>0 DEF OutcomeIsShared, ResultIsFresh
    <2>3. \A d \in Caller : pc'[d] # "joined"
        BY <1>0, <1>3, CallersAreKnown DEF LockIsJoined
    <2>4. LineIsFair' /\ JoinedIsFresh'
        BY <2>1, <2>3, <1>0, <1>3, LineStaysFair DEF JoinedIsFresh
    <2> QED BY <2>1, <2>2, <2>4, <1>4 DEF Clean
<1> QED BY <1>4, <1>5, <1>6, <1>7 DEF IInv, Shape

(* What the finally clause does with the line and the entry, whatever the  *)
(* execution came to.                                                      *)
LEMMA ToLeaveShape ==
    ASSUME TypeOK, LockIsJoined, LineIsExact, EntryIsOwn,
           NEW c \in Caller, pc[c] = "running", ToLeave(c), UNCHANGED <<key, lock>>
    PROVE  /\ pc' \in [Caller -> Stage] /\ waiters' \in Seq(Caller)
           /\ inflight' \in [Key -> Caller \cup {None}]
           /\ LockIsJoined' /\ LineIsExact' /\ EntryIsOwn'
           /\ pc'[c] \in {"returned", "leaving"}
           /\ \A d \in Caller \ {c} : pc'[d] = pc[d]
<1>1. c \notin Queued /\ IsLine(waiters, Queued) /\ waiters \in Seq(Caller)
    BY DEF Queued, LineIsExact, TypeOK
<1>2. CASE LockIsFree
    <2>1. /\ lock = None /\ pc' = [pc EXCEPT ![c] = "returned"]
          /\ inflight' = Popped(c) /\ waiters' = waiters
        BY <1>2 DEF ToLeave, LockIsFree
    <2>2. /\ pc' \in [Caller -> Stage] /\ inflight' \in [Key -> Caller \cup {None}]
          /\ LockIsJoined' /\ EntryIsOwn'
        BY <2>1, PopShape
    <2>3. Queued' = Queued /\ pc'[c] = "returned" /\ \A d \in Caller \ {c} : pc'[d] = pc[d]
        BY <2>1 DEF TypeOK, Queued
    <2> QED BY <2>1, <2>2, <2>3, <1>1 DEF LineIsExact
<1>3. CASE ~ LockIsFree
    <2>1. /\ pc' = [pc EXCEPT ![c] = "leaving"]
          /\ waiters' = Append(waiters, c) /\ inflight' = inflight
        BY <1>3 DEF ToLeave
    <2>2. /\ Queued' = Queued \cup {c} /\ pc'[c] = "leaving"
          /\ \A d \in Caller \ {c} : pc'[d] = pc[d]
        BY <2>1 DEF TypeOK, Queued
    <2>3. IsLine(waiters', Queued \cup {c})
        <3> HIDE DEF Queued
        <3> QED BY <2>1, <1>1, LineGrows
    <2>4. LineIsExact' /\ waiters' \in Seq(Caller)
        BY <2>2, <2>3 DEF LineIsExact, IsLine
    <2>5. pc' \in [Caller -> Stage] /\ inflight' \in [Key -> Caller \cup {None}]
        BY <2>1 DEF TypeOK, Stage
    <2>6. LockIsJoined' /\ EntryIsOwn'
        BY <2>1, <2>2 DEF LockIsJoined, EntryIsOwn, Lookup
    <2> QED BY <2>2, <2>4, <2>5, <2>6
<1> QED BY <1>2, <1>3

LEMMA FnEndsStep ==
    ASSUME IInv, NEW c \in Caller, NEW outcome \in Outcome, FnEnds(c, outcome)
    PROVE  IInv'
<1>0. /\ Shape /\ TypeOK /\ LockIsJoined /\ LineIsExact /\ EntryIsOwn /\ Unsettled
      /\ LandedIsOver /\ pc[c] = "running" /\ got[c] = NoGot
      /\ Settle(c, outcome) /\ ToLeave(c) /\ UNCHANGED <<key, lock, landed>>
    BY DEF IInv, Shape, FnEnds, Unsettled
<1>1. /\ pc' \in [Caller -> Stage] /\ waiters' \in Seq(Caller)
      /\ inflight' \in [Key -> Caller \cup {None}]
      /\ LockIsJoined' /\ LineIsExact' /\ EntryIsOwn'
      /\ pc'[c] \in {"returned", "leaving"}
      /\ \A d \in Caller \ {c} : pc'[d] = pc[d]
    BY <1>0, ToLeaveShape
<1>2. /\ \A d \in Caller \ {c} : fut'[d] = fut[d] /\ got'[d] = got[d]
      /\ fut[c] = "pending" => fut'[c] = outcome /\ got'[c] = [outcome |-> outcome, from |-> c]
      /\ fut[c] # "pending" => fut'[c] = fut[c]
    BY <1>0 DEF Settle, TypeOK
<1>3. TypeOK'
    <2>1. /\ fut' \in [Caller -> {"none", "pending", "cancelled"} \cup Outcome]
          /\ got' \in [Caller -> [outcome : {"none", "cancelled", "InvalidStateError"} \cup Outcome,
                                  from : Caller \cup {None}]]
        BY <1>0 DEF Settle, TypeOK
    <2> QED BY <2>1, <1>0, <1>1 DEF TypeOK
<1>4. Unsettled'
    BY <1>0, <1>1, <1>2 DEF Unsettled
<1>5. LandedIsOver'
    <2>1. Over \subseteq Over'
        BY <1>2 DEF Over, Outcome
    <2> QED BY <2>1, <1>0 DEF LandedIsOver
<1>6. ASSUME NoneCancelled' PROVE Clean'
    <2>1. NoneCancelled
        BY <1>0, <1>2, <1>6 DEF NoneCancelled, NoGot
    <2>2. EntryIsLive /\ OutcomeIsShared /\ LineIsFair /\ JoinedIsFresh /\ ResultIsFresh
        BY <2>1 DEF IInv, Clean
    <2>3. /\ fut[c] = "pending" /\ c \notin Over
          /\ fut'[c] = outcome /\ got'[c] = [outcome |-> outcome, from |-> c]
        BY <2>2, <1>0, <1>2 DEF EntryIsLive, Over, Outcome
    <2>4. ASSUME LockIsFree PROVE EntryIsLive' /\ LineIsFair' /\ JoinedIsFresh'
        <3>1. /\ lock = None /\ waiters' = <<>> /\ inflight' = Popped(c) /\ pc'[c] = "returned"
            BY <2>4, <1>0 DEF ToLeave, LockIsFree, TypeOK
        <3>2. key[c] \in Key /\ inflight' = [inflight EXCEPT ![key[c]] = None]
            BY <3>1, <1>0 DEF Popped, TypeOK
        <3>3. \A k \in Key : inflight'[k] # None =>
                  k # key[c] /\ inflight'[k] = inflight[k] /\ inflight[k] \in Caller \ {c}
            BY <3>2, <2>2, <1>0 DEF EntryIsLive, TypeOK
        <3>4. EntryIsLive'
            BY <3>1, <3>3, <2>2, <1>0, <1>1, <1>2 DEF EntryIsLive
        <3>5. LineIsFair'
            BY <3>1 DEF LineIsFair
        <3>6. JoinedIsFresh'
            BY <3>1, <1>0, <1>1, CallersAreKnown DEF JoinedIsFresh, LockIsJoined
        <3> QED BY <3>4, <3>5, <3>6
    <2>5. ASSUME ~ LockIsFree PROVE EntryIsLive' /\ LineIsFair' /\ JoinedIsFresh'
        <3>1. pc'[c] = "leaving" /\ inflight' = inflight /\ waiters' = Append(waiters, c)
            BY <2>5, <1>0 DEF ToLeave, TypeOK
        <3>2. \A k \in Key : inflight[k] # None => inflight[k] \in Caller
            BY <1>0 DEF TypeOK
        <3>3. EntryIsLive'
            BY <3>1, <3>2, <2>2, <2>3, <1>0, <1>1, <1>2 DEF EntryIsLive
        <3>4. JoinedIsFresh'
            BY <3>1, <2>2, <1>0, <1>1 DEF JoinedIsFresh, Lookup
        <3>5. /\ DOMAIN waiters = 1..Len(waiters) /\ Len(waiters) \in Nat
              /\ DOMAIN waiters' = 1..(Len(waiters) + 1)
              /\ \A k \in 1..Len(waiters) : waiters'[k] = waiters[k] /\ waiters[k] \in Queued
              /\ waiters'[Len(waiters) + 1] = c
            <4>1. IsLine(waiters, Queued) /\ c \notin Queued
                BY <1>0 DEF LineIsExact, Queued
            <4> HIDE DEF Queued
            <4>2. /\ DOMAIN waiters = 1..Len(waiters) /\ Len(waiters) \in Nat
                  /\ DOMAIN Append(waiters, c) = 1..(Len(waiters) + 1)
                  /\ \A k \in 1..Len(waiters) :
                         Append(waiters, c)[k] = waiters[k] /\ waiters[k] \in Queued
                  /\ Append(waiters, c)[Len(waiters) + 1] = c
                BY <4>1, LineGrows
            <4>3. waiters' = Append(waiters, c)
                BY <3>1
            <4> QED BY <4>2, <4>3
        <3>6. ASSUME NEW k \in DOMAIN waiters', NEW l \in DOMAIN waiters',
                     pc'[waiters'[k]] = "leaving", pc'[waiters'[l]] = "entering",
                     waiters'[k] \in landed'[waiters'[l]]
              PROVE  k < l
            <4>1. l \in 1..Len(waiters) /\ waiters'[l] = waiters[l] /\ waiters[l] \in Caller \ {c}
                BY <3>1, <3>5, <3>6, <1>0 DEF Queued
            <4>2. c \notin landed[waiters[l]]
                BY <4>1, <2>3, <1>0 DEF LandedIsOver
            <4>3. k \in 1..Len(waiters) /\ waiters'[k] = waiters[k] /\ waiters[k] \in Caller \ {c}
                BY <4>1, <4>2, <3>5, <3>6, <1>0 DEF Queued
            <4> QED BY <4>1, <4>3, <3>5, <3>6, <2>2, <1>0, <1>1 DEF LineIsFair
        <3>7. LineIsFair'
            BY <3>6 DEF LineIsFair
        <3> QED BY <3>3, <3>4, <3>7
    <2>6. OutcomeIsShared'
        <3>1. ASSUME NEW d \in Caller \ {c}
              PROVE  /\ fut'[d] \in Outcome => got'[d] = [outcome |-> fut'[d], from |-> d]
                     /\ got'[d].from # None =>
                            /\ fut'[got'[d].from] = got'[d].outcome
                            /\ fut'[got'[d].from] \in Outcome
                            /\ key'[got'[d].from] = key'[d]
            <4>1. got[d].from \in Caller \cup {None} /\ got[d].from # c
                BY <2>2, <2>3, <1>0, CallersAreKnown DEF OutcomeIsShared, TypeOK, Outcome
            <4> QED BY <4>1, <2>2, <1>0, <1>2 DEF OutcomeIsShared
        <3>2. /\ got'[c].from = c /\ got'[c].outcome = outcome
            BY <2>3
        <3>3. fut'[c] = outcome /\ key' = key
            BY <2>3, <1>0
        <3>4. /\ got'[c] = [outcome |-> fut'[c], from |-> c]
              /\ fut'[got'[c].from] = got'[c].outcome
              /\ fut'[got'[c].from] \in Outcome
              /\ key'[got'[c].from] = key'[c]
            BY <3>2, <3>3, <2>3
        <3> QED BY <3>1, <3>4 DEF OutcomeIsShared
    <2>7. ResultIsFresh'
        <3>1. got'[c].from \notin landed'[c]
            BY <2>3, <1>0 DEF LandedIsOver
        <3> QED BY <3>1, <2>1, <2>2, <1>0, <1>2 DEF ResultIsFresh
    <2> QED BY <2>4, <2>5, <2>6, <2>7 DEF Clean
<1> QED BY <1>1, <1>3, <1>4, <1>5, <1>6 DEF IInv, Shape

LEMMA WakeStep ==
    ASSUME IInv, NEW c \in Caller, Wake(c)
    PROVE  IInv'
<1>0. /\ Shape /\ TypeOK /\ LockIsJoined /\ LineIsExact /\ EntryIsOwn /\ Unsettled
      /\ LandedIsOver /\ pc[c] = "joined" /\ lock = c /\ fut[c] = "none" /\ got[c] = NoGot
      /\ Lookup(c) \in Caller /\ Settled(Lookup(c))
      /\ got' = [got EXCEPT ![c] = SharedResult(c)]
      /\ pc' = [pc EXCEPT ![c] = "returned"] /\ lock' = None
      /\ UNCHANGED <<key, waiters, inflight, fut, landed>>
    BY DEF IInv, Shape, Wake, Unsettled, LockIsJoined, Lookup, TypeOK
<1>1. /\ pc'[c] = "returned" /\ got'[c] = SharedResult(c)
      /\ \A d \in Caller \ {c} : pc'[d] = pc[d] /\ got'[d] = got[d]
      /\ Queued' = Queued
    BY <1>0 DEF TypeOK, Queued
<1>2. TypeOK'
    <2>1. SharedResult(c) \in [outcome : {"none", "cancelled", "InvalidStateError"} \cup Outcome,
                               from : Caller \cup {None}]
        BY <1>0 DEF Settled, SharedResult, TypeOK, Outcome
    <2> QED BY <2>1, <1>0 DEF TypeOK, Stage
<1>3. \A d \in Caller : pc'[d] # "joined"
    BY <1>0, <1>1 DEF LockIsJoined
<1>4. LockIsJoined'
    BY <1>0, <1>3, CallersAreKnown DEF LockIsJoined
<1>5. LineIsExact' /\ EntryIsOwn' /\ Unsettled' /\ LandedIsOver'
    BY <1>0, <1>1 DEF LineIsExact, EntryIsOwn, Lookup, Unsettled, LandedIsOver, Over
<1>6. ASSUME NoneCancelled' PROVE Clean'
    <2>1. NoneCancelled
        BY <1>0, <1>1, <1>6 DEF NoneCancelled, NoGot
    <2>2. EntryIsLive /\ OutcomeIsShared /\ LineIsFair /\ JoinedIsFresh /\ ResultIsFresh
        BY <2>1 DEF IInv, Clean
    <2>3. /\ key[c] \in Key /\ key[Lookup(c)] = key[c]
          /\ pc[Lookup(c)] \in {"running", "leaving"}
        BY <2>2, <1>0, CallersAreKnown DEF EntryIsLive, Lookup, TypeOK
    <2>4. fut[Lookup(c)] \in Outcome
        BY <2>2, <2>3, <1>0 DEF EntryIsLive, Settled
    <2>5. EntryIsLive'
        <3>1. \A k \in Key : inflight[k] # None => inflight[k] \in Caller \ {c}
            BY <2>2, <1>0 DEF EntryIsLive, TypeOK
        <3> QED BY <3>1, <2>2, <1>0, <1>1 DEF EntryIsLive
    <2>6. OutcomeIsShared'
        <3>1. ASSUME NEW d \in Caller \ {c}
              PROVE  /\ fut'[d] \in Outcome => got'[d] = [outcome |-> fut'[d], from |-> d]
                     /\ got'[d].from # None =>
                            /\ fut'[got'[d].from] = got'[d].outcome
                            /\ fut'[got'[d].from] \in Outcome
                            /\ key'[got'[d].from] = key'[d]
            BY <2>2, <1>0, <1>1 DEF OutcomeIsShared
        <3>2. got'[c].from = Lookup(c) /\ got'[c].outcome = fut[Lookup(c)]
            BY <1>1 DEF SharedResult
        <3>3. /\ fut'[c] \notin Outcome
              /\ fut'[got'[c].from] = got'[c].outcome
              /\ fut'[got'[c].from] \in Outcome
              /\ key'[got'[c].from] = key'[c]
            BY <3>2, <2>3, <2>4, <1>0 DEF Outcome
        <3> QED BY <3>1, <3>3 DEF OutcomeIsShared
    <2>7. LineIsFair'
        <3>1. \A k \in DOMAIN waiters : waiters[k] \in Caller \ {c}
            BY <1>0 DEF LineIsExact, IsLine, Queued
        <3> QED BY <3>1, <2>2, <1>0, <1>1 DEF LineIsFair
    <2>8. JoinedIsFresh'
        BY <1>3 DEF JoinedIsFresh
    <2>9. ResultIsFresh'
        <3>1. got'[c].from \notin landed'[c]
            BY <2>2, <1>0, <1>1 DEF JoinedIsFresh, SharedResult
        <3> QED BY <3>1, <2>1, <2>2, <1>0, <1>1 DEF ResultIsFresh
    <2> QED BY <2>5, <2>6, <2>7, <2>8, <2>9 DEF Clean
<1> QED BY <1>2, <1>4, <1>5, <1>6 DEF IInv, Shape

(* A cancelled call is told so, and nothing more is claimed than Shape.    *)
LEMMA CancelStep ==
    ASSUME IInv, NEW c \in Caller, Cancel(c)
    PROVE  IInv'
<1>0. /\ Shape /\ TypeOK /\ LockIsJoined /\ LineIsExact /\ EntryIsOwn /\ Unsettled
      /\ LandedIsOver
      /\ UNCHANGED <<key, landed>>
    BY DEF IInv, Shape, Cancel
<1> DEFINE told == [outcome |-> "cancelled", from |-> c]
<1>1. got' = [got EXCEPT ![c] = told]
    BY DEF Cancel, CancelInLine, CancelJoined, CancelRunning
<1>2. /\ got' \in [Caller -> [outcome : {"none", "cancelled", "InvalidStateError"} \cup Outcome,
                              from : Caller \cup {None}]]
      /\ got'[c].outcome = "cancelled"
      /\ \A d \in Caller \ {c} : got'[d] = got[d]
    BY <1>0, <1>1 DEF TypeOK
<1>3. ~ NoneCancelled'
    BY <1>2 DEF NoneCancelled
<1>4. CASE CancelInLine(c)
    <2>1. PICK k \in DOMAIN waiters : waiters[k] = c /\ waiters' = RemoveAt(waiters, k)
        BY <1>4 DEF CancelInLine
    <2>2. /\ pc' = [pc EXCEPT ![c] = "returned"] /\ pc[c] \in {"entering", "leaving"}
          /\ UNCHANGED <<lock, inflight, fut>>
        BY <1>4 DEF CancelInLine
    <2>3. /\ pc'[c] = "returned" /\ \A d \in Caller \ {c} : pc'[d] = pc[d]
          /\ Queued' = Queued \ {c}
        BY <2>2, <1>0 DEF TypeOK, Queued
    <2>4. LineIsExact'
        BY <2>1, <2>3, <1>0, LineLoses DEF LineIsExact
    <2>5. TypeOK'
        <3>1. waiters' \in Seq(Caller)
            BY <2>4 DEF LineIsExact, IsLine
        <3> QED BY <3>1, <2>2, <1>0, <1>2 DEF TypeOK, Stage
    <2>6. LockIsJoined' /\ EntryIsOwn' /\ Unsettled' /\ LandedIsOver'
        BY <2>2, <2>3, <1>0, <1>2
        DEF LockIsJoined, EntryIsOwn, Lookup, Unsettled, LandedIsOver, Over
    <2> QED BY <2>4, <2>5, <2>6, <1>3 DEF IInv, Shape
<1>5. CASE CancelJoined(c)
    <2>1. /\ pc[c] = "joined" /\ pc' = [pc EXCEPT ![c] = "returned"] /\ lock' = None
          /\ fut' = [fut EXCEPT ![Lookup(c)] = IF @ = "pending" THEN "cancelled" ELSE @]
          /\ UNCHANGED <<waiters, inflight>>
        BY <1>5 DEF CancelJoined
    <2>2. lock = c /\ Lookup(c) \in Caller
        BY <2>1, <1>0 DEF LockIsJoined, Lookup, TypeOK
    <2>3. /\ pc'[c] = "returned" /\ \A d \in Caller \ {c} : pc'[d] = pc[d]
          /\ Queued' = Queued
        BY <2>1, <1>0 DEF TypeOK, Queued
    <2>4. \A d \in Caller : fut'[d] = fut[d] \/ (fut[d] = "pending" /\ fut'[d] = "cancelled")
        BY <2>1, <1>0 DEF TypeOK
    <2>5. TypeOK'
        BY <2>1, <2>2, <1>0, <1>2 DEF TypeOK, Stage
    <2>6. LockIsJoined'
        BY <2>1, <2>2, <2>3, <1>0, CallersAreKnown DEF LockIsJoined
    <2>7. LineIsExact' /\ EntryIsOwn'
        BY <2>1, <2>3, <1>0 DEF LineIsExact, EntryIsOwn, Lookup
    <2>8. Unsettled' /\ LandedIsOver'
        <3>1. Over' = Over
            BY <2>4 DEF Over, Outcome
        <3> QED BY <3>1, <2>3, <2>4, <1>0, <1>2 DEF Unsettled, LandedIsOver
    <2> QED BY <2>5, <2>6, <2>7, <2>8, <1>3 DEF IInv, Shape
<1>6. CASE CancelRunning(c)
    <2>1. pc[c] = "running" /\ ToLeave(c) /\ UNCHANGED <<lock, fut>>
        BY <1>6 DEF CancelRunning
    <2>2. /\ pc' \in [Caller -> Stage] /\ waiters' \in Seq(Caller)
          /\ inflight' \in [Key -> Caller \cup {None}]
          /\ LockIsJoined' /\ LineIsExact' /\ EntryIsOwn'
          /\ pc'[c] \in {"returned", "leaving"}
          /\ \A d \in Caller \ {c} : pc'[d] = pc[d]
        BY <2>1, <1>0, ToLeaveShape
    <2>3. TypeOK'
        BY <2>1, <2>2, <1>0, <1>2 DEF TypeOK
    <2>4. Unsettled' /\ LandedIsOver'
        BY <2>1, <2>2, <1>0, <1>2 DEF Unsettled, LandedIsOver, Over
    <2> QED BY <2>2, <2>3, <2>4, <1>3 DEF IInv, Shape
<1> QED BY <1>4, <1>5, <1>6 DEF Cancel

LEMMA Stutters == ASSUME IInv, UNCHANGED vars PROVE IInv'
BY DEF IInv, vars, Shape, TypeOK, LockIsJoined, LineIsExact, IsLine, Queued, EntryIsOwn, Unsettled,
       LandedIsOver, Over, Lookup, NoneCancelled, Clean, EntryIsLive, OutcomeIsShared, LineIsFair,
       JoinedIsFresh, ResultIsFresh

LEMMA Inductive == IInv /\ [Next]_vars => IInv'
<1> SUFFICES ASSUME IInv, Next PROVE IInv'
    BY Stutters
<1>1. PICK c \in Caller : Call(c) \/ Proceed(c) \/ Cancel(c)
    BY DEF Next
<1>2. CASE Call(c)
    <2>1. CASE LockIsFree
        <3>1. lock = None /\ Enter(c) /\ Arrival(c) /\ UNCHANGED key
            BY <1>2, <2>1 DEF Call, LockIsFree, Arrival
        <3> QED BY <3>1, EnterStep
    <2>2. CASE ~ LockIsFree
        BY <1>2, <2>2, QueueStep
    <2> QED BY <2>1, <2>2
<1>3. CASE Granted(c)
    <2>1. CASE pc[c] = "entering"
        <3>1. lock = None /\ Enter(c) /\ Arrival(c) /\ UNCHANGED key
            BY <1>3, <2>1 DEF Granted, FirstInLine, Arrival
        <3> QED BY <3>1, EnterStep
    <2>2. CASE pc[c] # "entering"
        BY <1>3, <2>2, LeaveStep
    <2> QED BY <2>1, <2>2
<1>4. CASE \E outcome \in Outcome : FnEnds(c, outcome)
    BY <1>4, FnEndsStep
<1>5. CASE Wake(c)
    BY <1>5, WakeStep
<1>6. CASE Cancel(c)
    BY <1>6, CancelStep
<1> QED BY <1>1, <1>2, <1>3, <1>4, <1>5, <1>6 DEF Proceed

-----------------------------------------------------------------------------
(***************************************************************************)
(* The theorems.                                                           *)
(***************************************************************************)

(* ToolBatcher.call keeps the invariant, whoever calls and is cancelled.   *)
THEOREM Invariance == Spec => []IInv
<1> QED BY Initially, Inductive, PTL DEF Spec

(* The lock, its line, the entries and the futures are what call() takes   *)
(* them for: nobody awaits a future that is not there.                     *)
THEOREM TypeCorrect == Spec => []TypeOK
<1>1. IInv => TypeOK
    BY DEF IInv, Shape
<1> QED BY <1>1, Invariance, PTL

(* At most one execution of a tool with the same arguments is under way,   *)
(* whoever waits for the lock or is cancelled (tool_batcher.py).           *)
THEOREM Deduplicated == Spec => []OneExecutionPerKey
<1>1. IInv => OneExecutionPerKey
    BY DEF IInv, Shape, EntryIsOwn, Lookup, OneExecutionPerKey
<1> QED BY <1>1, Invariance, PTL

(* Until a call is cancelled, a call returns what one execution with its   *)
(* key made, to all who joined it, and none from before it began           *)
(* (tool_batcher.py).                                                      *)
THEOREM ResultsAreOwn == Spec => []ResultsAreRight
<1>1. ASSUME IInv PROVE ResultsAreRight
    <2>1. ResultIsFresh
        BY <1>1 DEF IInv, Clean, ResultIsFresh
    <2>2. ASSUME NoneCancelled, NEW c \in Caller, got[c].from # None
          PROVE  /\ key[got[c].from] = key[c]
                 /\ got[c].outcome = got[got[c].from].outcome
        <3>1. OutcomeIsShared /\ got[c].from \in Caller
            BY <1>1, <2>2 DEF IInv, Clean, Shape, TypeOK
        <3>2. fut[got[c].from] \in Outcome /\ got[got[c].from].outcome = fut[got[c].from]
            <4> DEFINE o == got[c].from
            <4>1. o \in Caller /\ fut[o] \in Outcome
                BY <3>1, <2>2 DEF OutcomeIsShared
            <4>2. got[o] = [outcome |-> fut[o], from |-> o]
                <5> HIDE DEF o
                <5> QED BY <4>1, <3>1 DEF OutcomeIsShared
            <4>3. got[o].outcome = fut[o]
                <5> HIDE DEF o
                <5> QED BY <4>2
            <4> QED BY <4>1, <4>3
        <3> QED BY <3>1, <3>2, <2>2 DEF OutcomeIsShared
    <2> QED BY <2>1, <2>2 DEF ResultsAreRight, ResultIsShared
<1> QED BY <1>1, Invariance, PTL

(* Until a call is cancelled no entry outlives its execution: _inflight    *)
(* does not grow, and a key is executed anew when asked for again.         *)
THEOREM NoEntryIsLeft == Spec => [](NoneCancelled => EntryIsLive)
<1>1. IInv => (NoneCancelled => EntryIsLive)
    BY DEF IInv, Clean
<1> QED BY <1>1, Invariance, PTL
=============================================================================
