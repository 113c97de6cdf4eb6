------------------------------ MODULE Redactor ------------------------------
(***************************************************************************)
(* The writer between the agent's output and the daemon's log               *)
(* (process/redacting_writer.go): it replaces known values, which may be    *)
(* split over any number of the writes the pipe happens to deliver.         *)
(***************************************************************************)
EXTENDS Integers, Sequences, FiniteSets, SequencesExt, FiniteSetsExt

CONSTANTS
    Alphabet,
    SensitiveValues,    \* sequences over Alphabet; empty ones are dropped
    MaxWritten,         \* bound: length of all that the agent writes
    MaxWrite            \* bound: length of one write

ASSUME RedactorAssumption ==
    /\ "#" \notin Alphabet /\ "!" \notin Alphabet
    /\ SensitiveValues \subseteq Seq(Alphabet) /\ IsFiniteSet(SensitiveValues)
    /\ MaxWritten \in Nat /\ MaxWrite \in Nat \ {0}

VARIABLES
    written,        \* all that the agent has written
    pending,        \* what the writer holds back
    log,            \* what is in the file
    writer          \* "open", "failed" after an error, "closed"

rvars == <<written, pending, log, writer>>

RInit == written = <<>> /\ pending = <<>> /\ log = <<>> /\ writer = "open"

Values == SensitiveValues \ {<<>>}
MaximumValueLength == Max({Len(value): value \in Values} \union {0})

Redacted == <<"#">>     \* "[REDACTED]"
Restart == <<"!">>      \* marks a failed write in log; nothing in the file

(* Where a value begins in text at or after a position, and how long it is. *)
Matches(text, from) ==
    {match \in (from..Len(text)) \X (1..MaximumValueLength):
        /\ match[1] + match[2] - 1 <= Len(text)
        /\ SubSeq(text, match[1], match[1] + match[2] - 1) \in Values}

(* nextMatch: the first one, the longest of those that begin there.         *)
NextMatch(text, from) ==
    CHOOSE match \in Matches(text, from):
        \A other \in Matches(text, from):
            \/ match[1] < other[1]
            \/ match[1] = other[1] /\ match[2] >= other[2]

\* Mutant: one character too few is held back.
FlushBoundaryShort(text, final) ==
    IF final \/ MaximumValueLength <= 2 THEN Len(text)
    ELSE Len(text) - (MaximumValueLength - 2)

FlushBoundary(text, final) ==
    IF final \/ MaximumValueLength <= 1 THEN Len(text)
    ELSE Len(text) - (MaximumValueLength - 1)

(* flushSafe: what is written, and from which position on text is kept. A   *)
(* match that begins before the boundary may end beyond it.                 *)
Flush(text, final) ==
    LET boundary == FlushBoundary(text, final)
        From[k \in 1..(Len(text) + 1)] ==
            IF k > boundary THEN [output |-> <<>>, kept |-> k]
            ELSE IF Matches(text, k) = {} \/ NextMatch(text, k)[1] > boundary
            THEN [output |-> SubSeq(text, k, boundary), kept |-> boundary + 1]
            ELSE LET match == NextMatch(text, k)
                     rest == From[match[1] + match[2]]
                 IN  [output |-> SubSeq(text, k, match[1] - 1) \o Redacted \o rest.output,
                      kept |-> rest.kept]
    IN  From[1]

Takes(flush, text) ==
    /\ log' = log \o flush.output
    /\ pending' = SubSeq(text, flush.kept, Len(text))

(* The file takes a part of what is written, and pending stays as it is.    *)
TakesPart(flush, text) ==
    /\ \E length \in 0..(Len(flush.output) - 1):
           log' = log \o SubSeq(flush.output, 1, length) \o Restart
    /\ pending' = text

(* os/exec copies the output of the agent until a write fails.              *)
Write(data) ==
    /\ writer = "open" /\ Len(written) + Len(data) <= MaxWritten
    /\ written' = written \o data
    /\ LET text == pending \o data
           flush == Flush(text, FALSE)
       IN  \/ Takes(flush, text) /\ UNCHANGED writer
           \/ TakesPart(flush, text) /\ writer' = "failed"

(* The agent has ended.                                                     *)
Close ==
    /\ writer # "closed"
    /\ writer' = "closed"
    /\ Takes(Flush(pending, TRUE), pending) \/ TakesPart(Flush(pending, TRUE), pending)
    /\ UNCHANGED written

Writes == UNION {[1..n -> Alphabet]: n \in 1..MaxWrite}

RNext == (\E data \in Writes: Write(data)) \/ Close

RSpec == RInit /\ [][RNext]_rvars

-----------------------------------------------------------------------------
(* redacting_writer.go:12-14: no sensitive value that the agent wrote        *)
(* reaches the log, however the writes split it; a write that fails repeats *)
(* text at the end but gives away none. Until one fails the log, with what  *)
(* is still held back, is what the whole output redacted at once would be,  *)
(* so no other output is lost or replaced.                                  *)
NoValueLogged ==
    /\ Matches(log, 1) = {}
    /\ "!" \notin ToSet(log) => log \o Flush(pending, TRUE).output = Flush(written, TRUE).output
=============================================================================
