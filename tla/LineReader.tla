----------------------------- MODULE LineReader -----------------------------
(***************************************************************************)
(* LineReader and writeLine (src/line_io.cc) at the two ends of one pipe,  *)
(* byte by byte, with the loop that calls them (src/coordinator.cc).       *)
(*                                                                         *)
(* A message is a positive length: the bytes of the i-th message are all   *)
(* i, and 0 is the newline, so what a line was made of can be told from    *)
(* it.  The pipe gives a read whatever it holds, up to the chunk; the peer *)
(* may die between any two bytes.                                          *)
(***************************************************************************)
EXTENDS Naturals, Sequences, FiniteSets, SequencesExt

CONSTANTS
    Scripts,      \* sequences of message lengths the peer may have to write
    Limit,        \* kMaxLineBytes
    Chunk,        \* the size of a read
    Capacity      \* of the pipe

ASSUME LineReaderAssumption ==
    /\ Scripts \subseteq Seq(Nat \ {0})
    /\ Limit \in Nat \ {0} /\ Chunk \in Nat \ {0} /\ Capacity \in Nat \ {0}
    /\ Chunk <= Limit

VARIABLES
    script,   \* the messages of this run
    faulty,   \* whether read may fail in this run with something but EINTR
    unsent,   \* bytes the peer has yet to write
    open,     \* whether the peer has the pipe open
    pipe,     \* bytes in the pipe
    buffer,   \* buffer_
    reading,  \* where the caller is: "poll", in "readLine", or finished with a
              \* stream that has "ended" or was "refused"
    returned  \* the lines readLine has returned

vars == <<script, faulty, unsent, open, pipe, buffer, reading, returned>>

Newline == 0
Byte == Nat

Body(i, length) == [n \in 1..length |-> i]
Wire(lengths) ==
    FlattenSeq([i \in DOMAIN lengths |-> Append(Body(i, lengths[i]), Newline)])

Newlines(bytes) == {i \in DOMAIN bytes : bytes[i] = Newline}
Drop(bytes, n) == SubSeq(bytes, n + 1, Len(bytes))

Init ==
    /\ script \in Scripts
    /\ faulty \in BOOLEAN
    /\ unsent = Wire(script)
    /\ open = TRUE
    /\ pipe = <<>>
    /\ buffer = <<>>
    /\ reading = "poll"
    /\ returned = <<>>

-----------------------------------------------------------------------------
(* The peer: writeLine, and its end *)

\* One write takes any part of what is left that the pipe has room for;
\* writeAll calls it until all is written.
Write ==
    /\ open
    /\ \E n \in 1..Len(unsent) :
          /\ Len(pipe) + n <= Capacity
          /\ pipe' = pipe \o SubSeq(unsent, 1, n)
          /\ unsent' = Drop(unsent, n)
    /\ UNCHANGED <<script, faulty, open, buffer, reading, returned>>

\* The peer exits or is killed, perhaps in the middle of a message.
HangUp ==
    /\ open
    /\ open' = FALSE
    /\ UNCHANGED <<script, faulty, unsent, pipe, buffer, reading, returned>>

-----------------------------------------------------------------------------
(* readLine, called when poll reports the pipe, and again while a complete
   line is buffered *)

Poll ==
    /\ reading = "poll"
    /\ pipe # <<>> \/ ~open
    /\ reading' = "readLine"
    /\ UNCHANGED <<script, faulty, unsent, open, pipe, buffer, returned>>

\* hasBufferedLine.
NeverBuffered(bytes) == FALSE
HasBufferedLine(bytes) == Newlines(bytes) # {}

\* An empty line is taken for the end; any other is handled, and the caller
\* stays while another is buffered.
AfterLine(line, rest) ==
    IF line = <<>> THEN "ended" ELSE IF HasBufferedLine(rest) THEN "readLine" ELSE "poll"

\* The first newline ends the line; what is behind it stays in the buffer.
LastLine(bytes) == CHOOSE i \in Newlines(bytes) : \A j \in Newlines(bytes) : j <= i
LineEnd(bytes) == CHOOSE i \in Newlines(bytes) : \A j \in Newlines(bytes) : i <= j

NothingBehind(bytes) == <<>>
Behind(bytes) == Drop(bytes, LineEnd(bytes))

TakeLine ==
    /\ reading = "readLine"
    /\ Newlines(buffer) # {}
    /\ LET line == SubSeq(buffer, 1, LineEnd(buffer) - 1)
       IN  /\ returned' = IF line = <<>> THEN returned ELSE Append(returned, line)
           /\ buffer' = Behind(buffer)
           /\ reading' = AfterLine(line, buffer')
    /\ UNCHANGED <<script, faulty, unsent, open, pipe>>

\* A read.  The limit is on what the buffer holds now, before anyone has
\* looked for a newline in it.
LimitReached(bytes) == Len(bytes) >= Limit
LineTooLong(bytes) == Len(bytes) > Limit + Chunk
TooLong(bytes) == Len(bytes) > Limit

ReadChunk ==
    /\ reading = "readLine"
    /\ Newlines(buffer) = {}
    /\ pipe # <<>>
    /\ LET got == IF Len(pipe) < Chunk THEN Len(pipe) ELSE Chunk
           filled == buffer \o SubSeq(pipe, 1, got)
       IN  /\ pipe' = Drop(pipe, got)
           /\ IF TooLong(filled)
              THEN buffer' = <<>> /\ reading' = "refused"
              ELSE buffer' = filled /\ UNCHANGED reading
    /\ UNCHANGED <<script, faulty, unsent, open, returned>>

\* A line that is not a message does not parse, and its sender is given up.
Whole(line) ==
    /\ Len(returned) < Len(script)
    /\ line = Body(Len(returned) + 1, script[Len(returned) + 1])

\* End of file, or a failing read taken for it: what is buffered is returned,
\* once; after that an empty line.
ReturnRest ==
    /\ reading = "readLine"
    /\ Newlines(buffer) = {}
    /\ faulty \/ (pipe = <<>> /\ ~open)
    /\ returned' = IF buffer = <<>> THEN returned ELSE Append(returned, buffer)
    /\ buffer' = <<>>
    /\ reading' = IF Whole(buffer) THEN "poll" ELSE "ended"
    /\ UNCHANGED <<script, faulty, unsent, open, pipe>>

ReadLine == TakeLine \/ ReadChunk \/ ReturnRest

\* The reader is closed, or has nothing to wait for.
Over ==
    /\ reading \in {"ended", "refused"}
    /\ UNCHANGED vars

Next == Write \/ HangUp \/ Poll \/ ReadLine \/ Over

Spec == Init /\ [][Next]_vars

\* A peer that lives writes what it has to, and the caller comes back; nothing
\* obliges the peer to die or to exit.
Fairness ==
    /\ WF_vars(Write)
    /\ WF_vars(Poll \/ ReadLine)

FairSpec == Spec /\ Fairness

-----------------------------------------------------------------------------
(* Properties *)

\* Type correctness, with the bound on the reader's memory (line_io.hh: "a peer
\* cannot spend the reader's memory").
TypeOK ==
    /\ script \in Scripts /\ faulty \in BOOLEAN
    /\ unsent \in Seq(Byte) /\ pipe \in Seq(Byte)
    /\ buffer \in Seq(Byte) /\ Len(buffer) <= Limit
    /\ open \in BOOLEAN
    /\ reading \in {"poll", "readLine", "ended", "refused"}
    /\ returned \in Seq(Seq(Byte))

\* No byte is lost, doubled or moved while the reader is in use: what has been
\* returned, is buffered, is in the pipe and is yet to be written is, in this
\* order, what the peer has to say; only a rest is returned without the newline
\* that the others had.
BytesConserved ==
    reading # "refused" =>
        LET consumed == FlattenSeq([i \in DOMAIN returned |-> Append(returned[i], Newline)])
            remaining == buffer \o pipe \o unsent
        IN  \/ consumed \o remaining = Wire(script)
            \/ returned # <<>> /\ Front(consumed) \o remaining = Wire(script)

\* poll is never waited on for a line that is already here, since nothing
\* would make it return (hasBufferedLine).
NoLineWaits == reading = "poll" => Newlines(buffer) = {}

\* What is refused is too long, give or take one read.
RefusesOnlyLong ==
    reading = "refused" => script[Len(returned) + 1] + Chunk > Limit

\* However writes and reads cut the stream (readLine, hasBufferedLine), nothing of
\* it is misplaced: not a byte, not a line left in the buffer, not a message
\* refused that is not long.
NothingMisplaced == TypeOK /\ BytesConserved /\ NoLineWaits /\ RefusesOnlyLong

\* The bytes and reads implement the stream of messages.  A message has been
\* sent when its body is in the pipe.
Written == Len(Wire(script)) - Len(unsent)
SentWhole ==
    Cardinality({i \in DOMAIN script :
        Len(Wire(SubSeq(script, 1, i))) - 1 <= Written})
LastIsTorn == returned # <<>> /\ Last(returned) # Body(Len(returned), script[Len(returned)])

Stream == INSTANCE MessageStream WITH
    count <- Len(script),
    sent <- SentWhole,
    received <- IF LastIsTorn THEN Len(returned) - 1 ELSE Len(returned),
    torn <- LastIsTorn,
    refused <- reading = "refused"

ImplementsStream == Stream!Spec

\* Every message that is sent whole, and that no long one precedes, arrives,
\* unless a read fails.
Short(i) == \A j \in 1..i : script[j] + Chunk <= Limit
ShortArrive ==
    \A i \in 1..3 :
        (~faulty /\ i \in DOMAIN script /\ Short(i) /\ SentWhole >= i) ~> Len(returned) >= i
=============================================================================
