------------------------------ MODULE History ------------------------------
(***************************************************************************)
(* The update file of a session (updates.jsonl) and its three readers       *)
(* (provider/grok/historydata): the live tail, which a client follows by    *)
(* byte offset, and the chat and full pages, by which it goes back. The     *)
(* agent appends while they read. An offset counts half lines, so an odd    *)
(* one is inside a line; a line of which only a part is there parses as     *)
(* nothing.                                                                 *)
(***************************************************************************)
EXTENDS Naturals, Sequences, Selection, SequencesExt, FiniteSetsExt

CONSTANTS
    Kinds,          \* kinds of update the agent writes
    Limit,          \* the normalized limit of every query
    MaxBytes,       \* the normalized byte window, in half lines
    InitialScan,    \* backwardInitialScanBytes, in half lines
    MaxScan,        \* the backward scan's maximum, in half lines
    ScanGrowth,     \* backwardScanGrowthBytes, in half lines
    BufferFactor,   \* backwardEventBufferFactor
    Reserve,        \* chatBudgetReserve
    MaxLines        \* bound: lines of the file

(* Each window holds at least two lines.                                    *)
ASSUME HistoryAssumption ==
    /\ Limit \in Nat \ {0} /\ BufferFactor \in Nat \ {0} /\ Reserve \in Nat
    /\ InitialScan \in Nat \ {0} /\ ScanGrowth \in Nat \ {0}
    /\ MaxBytes \in Nat /\ MaxBytes >= 4 /\ MaxScan \in Nat /\ MaxScan >= 4
    /\ MaxLines \in Nat

VARIABLES
    lines,          \* the kind of each whole line
    torn,           \* whether a part of one more line follows
    role,           \* how the client reads: "live", "chat" or "full" pages
    position,       \* a live client's next `since`
    received,       \* lines it received
    excused,        \* lines it was too far behind for
    pager           \* how far back a paging client has come

hvars == <<lines, torn, role, position, received, excused, pager>>

Message == {"user", "agent"}
Chat == Message \union {"thought"}
(* historyKeep; of the kinds it leaves out one stands for all.              *)
Kept == Kinds \ {"other"}

Closed == [before |-> 0, older |-> 0, more |-> FALSE, top |-> 0, seen |-> <<>>]

(* A file that is missing or that cannot be opened reads as an empty one.   *)
HInit ==
    /\ lines = <<>> /\ torn = FALSE
    /\ role \in {"live", "chat", "full"}
    /\ position = 0 /\ received = <<>> /\ excused = {}
    /\ pager = Closed

Size == 2 * Len(lines) + (IF torn THEN 1 ELSE 0)
Maximum(a, b) == IF a > b THEN a ELSE b
Minimum(a, b) == IF a < b THEN a ELSE b
Offset(k) == 2 * (k - 1)

(* The last count of a sequence.                                            *)
LastOnes(seq, count) ==
    IF Len(seq) <= count THEN seq ELSE SubSeq(seq, Len(seq) - count + 1, Len(seq))

(* The wanted numbers up to n, in their order.                              *)
Numbers(n, wanted) == Selected([k \in 1..n |-> k], wanted)

\* Mutant: the line that begins at the end of the window is read as well.
LinesThrough(start, end, which) ==
    Numbers(Len(lines),
            {k \in DOMAIN lines: Offset(k) >= start /\ Offset(k) <= end /\ lines[k] \in which})

(* The whole lines from start up to end whose kind is in which.             *)
Window(start, end, which) ==
    {k \in DOMAIN lines: Offset(k) >= start /\ Offset(k) + 2 <= end /\ lines[k] \in which}
LinesIn(start, end, which) == Numbers(Len(lines), Window(start, end, which))

(* advanceAfterLine: to the end of the line that start is in, or at the     *)
(* start of; to end when no newline is found before it.                     *)
AdvanceAfterLine(start, end) ==
    IF start <= 0 \/ start >= end THEN start
    ELSE Minimum(2 * (start \div 2) + 2, end)

-----------------------------------------------------------------------------
(* readLive                                                                 *)

LiveStart(since) ==
    LET minimumStart == IF Size > MaxBytes THEN Size - MaxBytes ELSE 0
    IN  IF since = 0 \/ since < minimumStart
        THEN AdvanceAfterLine(minimumStart, Size) ELSE since

\* Mutant: an incomplete tail is taken for read.
LiveEndTorn(start) == Size

(* An incomplete tail is left for the next poll, unless it is all there is. *)
LiveEnd(start) ==
    IF 2 * Len(lines) > start THEN 2 * Len(lines) ELSE Size

(* A `since` beyond the file counts as none.                                *)
ReadLive(asked) ==
    LET since == IF asked > Size THEN 0 ELSE asked
        start == LiveStart(since)
    IN  IF since >= Size THEN [events |-> <<>>, end |-> Size]
        ELSE [events |-> LastOnes(LinesIn(start, LiveEnd(start), Kept), Limit),
              end |-> LiveEnd(start)]

-----------------------------------------------------------------------------
(* readChatOnly                                                             *)

ScanSize[n \in 0..MaxScan] ==
    IF n = 0 THEN Minimum(MaxScan, InitialScan)
    ELSE Minimum(MaxScan, Maximum(2 * ScanSize[n - 1], ScanSize[n - 1] + ScanGrowth))
Scans == {ScanSize[n]: n \in 0..MaxScan}

ScanFrom(endCap, scan) == IF endCap > scan THEN endCap - scan ELSE 0

\* Mutant: a full buffer keeps the oldest messages of the window.
CollectedOldest(endCap, scan) ==
    LET all == LinesIn(AdvanceAfterLine(ScanFrom(endCap, scan), endCap), endCap, Message)
    IN  SubSeq(all, 1, Minimum(Len(all), Limit * BufferFactor))

(* The messages a scan has collected, the newest ones of its window.        *)
Collected(endCap, scan) ==
    LastOnes(LinesIn(AdvanceAfterLine(ScanFrom(endCap, scan), endCap), endCap, Message),
             Limit * BufferFactor)

(* coalesceChat joins messages of one kind that follow each other; these    *)
(* are the positions where the joined ones begin.                           *)
Begins(messages) ==
    Numbers(Len(messages), {k \in DOMAIN messages:
                k = 1 \/ lines[messages[k]] # lines[messages[k - 1]]})

ScanEnds(endCap, scan) ==
    \/ Len(Begins(Collected(endCap, scan))) >= Limit
    \/ ScanFrom(endCap, scan) = 0
    \/ scan >= MaxScan
    \/ Len(Collected(endCap, scan)) >= Limit * BufferFactor

ChatPage(endCap) ==
    LET scan == Min({s \in Scans: ScanEnds(endCap, s)})
        start == ScanFrom(endCap, scan)
        messages == Collected(endCap, scan)
        begins == LastOnes(Begins(messages), Limit)
        shown == IF begins = <<>> THEN <<>>
                 ELSE SubSeq(messages, begins[1], Len(messages))
        older == IF shown = <<>> THEN AdvanceAfterLine(start, endCap) ELSE Offset(shown[1])
    IN  [events |-> shown, older |-> older,
         more |-> older > 0 /\ (start > 0 \/ Len(begins) >= Limit)]

-----------------------------------------------------------------------------
(* readFull. Without any event the page has no older_before and the client  *)
(* goes on from window_start.                                               *)

ChatBudget == Maximum((Limit * 3) \div 4, IF Limit > Reserve + 1 THEN Limit - Reserve ELSE 1)

FullPage(endCap) ==
    LET start == AdvanceAfterLine(IF endCap > MaxBytes THEN endCap - MaxBytes ELSE 0, endCap)
        scored == LinesIn(start, endCap, Kept)
        chat == ToSet(LastOnes(LinesIn(start, endCap, Kept \intersect Chat), ChatBudget))
        room == LastOnes(LinesIn(start, endCap, Kept \ Chat),
                         Limit - Cardinality(chat))
        kept == IF Len(scored) <= Limit THEN scored
                ELSE Selected(scored, chat \union ToSet(room))
    IN  [events |-> kept,
         older |-> IF kept = <<>> THEN start ELSE Offset(kept[1]),
         more |-> start > 0 \/ Len(scored) > Limit]

Page(endCap) ==
    IF endCap = 0 THEN [events |-> <<>>, older |-> 0, more |-> FALSE]
    ELSE IF role = "chat" THEN ChatPage(endCap) ELSE FullPage(endCap)

-----------------------------------------------------------------------------
(* The agent appends a line at once, or a part of it first.                 *)
AppendsLine(kind) ==
    /\ Len(lines) < MaxLines
    /\ lines' = Append(lines, kind)
    /\ torn' = FALSE
    /\ UNCHANGED <<role, position, received, excused, pager>>

AppendsPart ==
    /\ ~torn /\ Len(lines) < MaxLines
    /\ torn' = TRUE
    /\ UNCHANGED <<lines, role, position, received, excused, pager>>

(* What a poll may pass over: lines from before the first poll, all when    *)
(* the follower is more than the window or the limit behind, and a line of  *)
(* which a part is all that is new.                                         *)
TooFar ==
    IF \/ position = 0 \/ Size - position > MaxBytes
       \/ Len(LinesIn(position, Size, Kept)) > Limit
    THEN 1..(Len(lines) + 1)
    ELSE IF position = 2 * Len(lines) /\ torn THEN {Len(lines) + 1} ELSE {}

(* A live client polls and goes on from `end`.                              *)
Follows ==
    /\ role = "live"
    /\ LET reply == ReadLive(position)
       IN  /\ position' = reply.end
           /\ received' = received \o reply.events
    /\ excused' = excused \union TooFar
    /\ UNCHANGED <<lines, torn, role, pager>>

(* A paging client opens the history at its end, and goes back while there  *)
(* is more.                                                                 *)
OpensPages ==
    /\ role # "live"
    /\ LET page == Page(Size)
       IN  pager' = [before |-> Size, older |-> page.older, more |-> page.more,
                     top |-> Len(lines), seen |-> page.events]
    /\ UNCHANGED <<lines, torn, role, position, received, excused>>

GoesBack ==
    /\ pager.more
    /\ LET page == Page(pager.older)
       IN  pager' = [pager EXCEPT !.before = pager.older, !.older = page.older,
                                  !.more = page.more, !.seen = page.events \o @]
    /\ UNCHANGED <<lines, torn, role, position, received, excused>>

HNext ==
    \/ \E kind \in Kinds: AppendsLine(kind)
    \/ AppendsPart \/ Follows \/ OpensPages \/ GoesBack

HSpec == HInit /\ [][HNext]_hvars

-----------------------------------------------------------------------------
(* A live client receives the lines in their order, none twice, and misses one *)
(* only where it was further behind than a poll reaches, however its polls  *)
(* fall between the parts of the agent's writes.                            *)
FollowerMissesOnlyFar ==
    /\ \A i, j \in DOMAIN received: i < j => received[i] < received[j]
    /\ \A k \in DOMAIN lines:
           lines[k] \in Kept /\ Offset(k) + 2 <= position =>
               k \in Range(received) \/ k \in excused

(* Pages adjoin: while there is more, the next page is asked for at an      *)
(* earlier offset, so a client that goes back comes to an end, and no page  *)
(* repeats a line. Put together, the chat pages are every message from the  *)
(* oldest one shown to the end of the file as it was opened, although each  *)
(* page cuts a run of chunks where its limit falls.                         *)
PagesAdjoin ==
    /\ pager.more => pager.older < pager.before
    /\ \A i, j \in DOMAIN pager.seen: i < j => pager.seen[i] < pager.seen[j]
    /\ role = "chat" =>
           pager.seen = (IF pager.seen = <<>> THEN <<>>
                         ELSE LinesIn(Offset(pager.seen[1]), 2 * pager.top, Message))
=============================================================================
