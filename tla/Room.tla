-------------------------------- MODULE Room --------------------------------
(***************************************************************************)
(* The chat room of the agents (room/room.go): one file of JSON lines, a    *)
(* mutex, and clients that follow the feed by identifier. A message is the  *)
(* number of its Say, so the order of the numbers is the order in which     *)
(* the messages were said. Messages are never blank: Say refuses those      *)
(* before it touches anything. The file survives the daemon.                *)
(***************************************************************************)
EXTENDS Naturals, Sequences, SequencesExt, FiniteSets, Selection

CONSTANTS
    Followers,      \* clients that poll the feed
    Threshold,      \* CompactionThreshold
    Retain,         \* CompactionRetainMessages
    FeedLimit,      \* the limit of every poll, within FeedMaxLimit
    MaxSays,        \* bound: messages said
    MaxTears,       \* bound: writes cut short
    MaxClears       \* bound: calls of Clear

ASSUME RoomAssumption ==
    /\ Retain \in Nat \ {0} /\ Threshold \in Nat \ {0} /\ Retain <= Threshold
    /\ FeedLimit \in Nat \ {0}
    /\ MaxSays \in Nat /\ MaxTears \in Nat /\ MaxClears \in Nat

VARIABLES
    file,           \* the lines of room.jsonl
    saying,         \* where the Say that holds the mutex is, "idle" without one
    messages,       \* what that Say has read
    said,           \* messages said so far; the last one is in progress
    acked,          \* messages whose Say returned ok
    tears,          \* writes that were cut short
    clears,         \* calls of Clear that succeeded
    saidBefore,     \* messages said before the last Clear
    cursor,         \* the `since` of each follower's next poll
    got,            \* messages each follower received since it joined
    joined          \* the value of clears when the follower joined

roomVars == <<file, saying, messages, said, acked, tears, clears, saidBefore, cursor, got, joined>>
store == <<file, saying, messages, said, acked, tears, clears, saidBefore>>
follow == <<cursor, got, joined>>

(* A line is its identifier and message, 0 when it does not parse, and      *)
(* whether a newline ends it.                                               *)

RoomInit ==
    /\ file = <<>> /\ saying = "idle" /\ messages = <<>> /\ said = 0
    /\ acked = {} /\ tears = 0 /\ clears = 0 /\ saidBefore = 0
    /\ cursor = [f \in Followers |-> 0]
    /\ got = [f \in Followers |-> <<>>]
    /\ joined = [f \in Followers |-> 0]

(* readAllLocked: lines that do not parse are skipped.                      *)
Readable == Selected(file, {line \in ToSet(file): line.say # 0})

\* Mutant: the identifier is the count of the lines that were read.
NextByCount(read) == Len(read) + 1

NextID(read) ==
    1 + (IF read = <<>> THEN 0 ELSE Max({read[k].id: k \in DOMAIN read}))

(* What O_APPEND makes of the file: a line after one that has no newline is *)
(* glued to it, and the result parses as neither.                           *)
Appended(line) ==
    IF file # <<>> /\ ~Last(file).ended
    THEN Front(file) \o <<[id |-> 0, say |-> 0, ended |-> line.ended]>>
    ELSE Append(file, line)

(* Say takes the mutex and reads the file.                                  *)
SayReads ==
    /\ saying = "idle" /\ said < MaxSays
    /\ said' = said + 1
    /\ messages' = Readable
    /\ saying' = "compact"
    /\ UNCHANGED <<file, acked, tears, clears, saidBefore, follow>>

\* Mutant: a compaction keeps the oldest messages.
CompactedOldest ==
    IF Len(messages) < Threshold THEN file
    ELSE [k \in 1..Retain |-> [messages[k] EXCEPT !.ended = TRUE]]

(* compactLocked replaces the file, or leaves it when it is short.          *)
Compacted ==
    IF Len(messages) < Threshold THEN file
    ELSE [k \in 1..Retain |->
              [messages[Len(messages) - Retain + k] EXCEPT !.ended = TRUE]]

SayCompacts ==
    /\ saying = "compact"
    /\ file' = Compacted
    /\ saying' = "append"
    /\ UNCHANGED <<messages, said, acked, tears, clears, saidBefore, follow>>

SayAppends ==
    /\ saying = "append"
    /\ file' = Appended([id |-> NextID(messages), say |-> said, ended |-> TRUE])
    /\ saying' = "close"
    /\ UNCHANGED <<messages, said, acked, tears, clears, saidBefore, follow>>

(* The write is cut short by an error or by the end of the daemon: part of  *)
(* the line is there, or all of it but the newline.                         *)
Tears ==
    /\ saying = "append" /\ tears < MaxTears
    /\ tears' = tears + 1
    /\ \E whole \in BOOLEAN:
           file' = Appended(IF whole
                            THEN [id |-> NextID(messages), say |-> said, ended |-> FALSE]
                            ELSE [id |-> 0, say |-> 0, ended |-> FALSE])
    /\ saying' = "idle" /\ messages' = <<>>
    /\ UNCHANGED <<said, acked, clears, saidBefore, follow>>

(* The write and Close succeeded, and Say releases the mutex.               *)
SayReturns ==
    /\ saying = "close"
    /\ acked' = acked \union {said}
    /\ saying' = "idle" /\ messages' = <<>>
    /\ UNCHANGED <<file, said, tears, clears, saidBefore, follow>>

(* The read, the compaction, the open, the write or Close fails and Say     *)
(* returns the error, or the daemon dies there; the next daemon reads the   *)
(* same file.                                                               *)
SayFails ==
    /\ saying # "idle"
    /\ saying' = "idle" /\ messages' = <<>>
    /\ UNCHANGED <<file, said, acked, tears, clears, saidBefore, follow>>

Clear ==
    /\ saying = "idle" /\ clears < MaxClears
    /\ file' = <<>>
    /\ clears' = clears + 1 /\ saidBefore' = said
    /\ UNCHANGED <<saying, messages, said, acked, tears, follow>>

\* Mutants: `since` itself is sent again; a full feed is the oldest messages.
FeedFrom(since) ==
    LET above == Selected(Readable, {line \in ToSet(file): line.id >= since})
    IN  IF Len(above) > FeedLimit
        THEN SubSeq(above, Len(above) - FeedLimit + 1, Len(above)) ELSE above
FeedShort(since) ==
    LET above == Selected(Readable, {line \in ToSet(file): line.id > since})
    IN  IF Len(above) >= FeedLimit
        THEN SubSeq(above, Len(above) - FeedLimit + 2, Len(above)) ELSE above

(* Feed: the last FeedLimit of the messages above `since`.                  *)
Feed(since) ==
    LET above == Selected(Readable, {line \in ToSet(file): line.id > since})
    IN  IF Len(above) > FeedLimit
        THEN SubSeq(above, Len(above) - FeedLimit + 1, Len(above)) ELSE above

(* handleRoomFeed names the last message's identifier, or `since` itself.   *)
LastOf(feed, since) == IF feed = <<>> THEN since ELSE Last(feed).id

(* A follower polls and goes on from `last`.                                *)
Poll(f) ==
    /\ saying = "idle"
    /\ LET feed == Feed(cursor[f])
       IN  /\ cursor' = [cursor EXCEPT ![f] = LastOf(feed, @)]
           /\ got' = [got EXCEPT ![f] = @ \o [k \in DOMAIN feed |-> feed[k].say]]
    /\ UNCHANGED <<store, joined>>

(* A follower opens the room anew and knows nothing.                        *)
Join(f) ==
    /\ cursor' = [cursor EXCEPT ![f] = 0]
    /\ got' = [got EXCEPT ![f] = <<>>]
    /\ joined' = [joined EXCEPT ![f] = clears]
    /\ UNCHANGED store

RoomNext ==
    \/ SayReads \/ SayCompacts \/ SayAppends \/ Tears \/ SayReturns \/ SayFails
    \/ Clear
    \/ \E f \in Followers: Poll(f) \/ Join(f)

RoomSpec == RoomInit /\ [][RoomNext]_roomVars

-----------------------------------------------------------------------------
SaysInFile == {Readable[k].say: k \in DOMAIN Readable}

(* The newest messages that were acknowledged since the last Clear, as many *)
(* as a compaction must retain, are in the file: each write that was cut    *)
(* short costs at most one of them.                                         *)
Newest == {m \in acked: m > saidBefore /\ Cardinality({n \in m..said: n > m}) < Retain}

AckedKept == Cardinality(Newest \ SaysInFile) <= tears

(* The identifiers of the readable messages ascend, and a follower receives *)
(* messages in the order in which they were said and none twice, whatever   *)
(* is compacted, cleared or torn while it polls.                            *)
FollowersInOrder ==
    /\ \A j, k \in DOMAIN Readable: j < k =>
           Readable[j].id < Readable[k].id /\ Readable[j].say < Readable[k].say
    /\ \A f \in Followers: \A j, k \in DOMAIN got[f]:
           j < k => got[f][j] < got[f][k]

(* Without a torn write, a follower that joined after the last Clear misses *)
(* an acknowledged message only by falling behind: it went past that        *)
(* message with a full poll of newer ones, or with all that a compaction    *)
(* retains.                                                                 *)
MissedOnlyFarBehind ==
    tears = 0 =>
        \A f \in Followers: joined[f] = clears =>
            \A m \in acked \ ToSet(got[f]):
                /\ m > saidBefore
                /\ \E n \in ToSet(got[f]): n > m
                => Cardinality({n \in ToSet(got[f]): n > m}) >= Min({FeedLimit, Retain})
=============================================================================
