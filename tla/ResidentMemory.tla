--------------------------- MODULE ResidentMemory ---------------------------
(***************************************************************************)
(* How much a worker holds: currentResidentMiB (src/worker.cc) and         *)
(* residentMiBFromStatm (src/pure.cc).  The text of /proc/self/statm is a  *)
(* sequence of characters, whatever it is; sizes are unsigned and wrap.    *)
(***************************************************************************)
EXTENDS Decimal, Integers, Sequences, FiniteSets, FiniteSetsExt, SequencesExt, TLC

CONSTANTS
    BufferSize,  \* characters read of the file at most
    MiB,         \* bytes of a mebibyte
    Word         \* how many numbers size_t and uint64_t hold

ASSUME ResidentMemoryAssumption ==
    BufferSize \in Nat /\ MiB \in Nat \ {0} /\ Word \in Nat \ {0}

Blank == {" ", "\t"}

-----------------------------------------------------------------------------
(* residentMiBFromStatm *)

NPos == 0
First(S) == IF S = {} THEN NPos ELSE Min(S)
FirstNotOf(text, from) == First({k \in from..Len(text) : text[k] \notin Blank})
FirstOf(text, from) == First({k \in from..Len(text) : text[k] \in Blank})

FirstField(text) == FirstNotOf(text, 1)
SecondStart(text) ==
    LET start == FirstNotOf(text, 1)
        end == FirstOf(text, start)
    IN  IF start = NPos \/ end = NPos THEN NPos ELSE FirstNotOf(text, end)

\* The digits that a field begins with, and what they are accumulated to.
LeadingDigits(text, from) ==
    SubSeq(text, from, Min({Len(text) + 1} \cup {k \in from..Len(text) : text[k] \notin Digit}) - 1)
Accumulate(digits) == FoldLeft(LAMBDA n, c : (10 * n + DigitValue[c]) % Word, 0, digits)

ResidentMiBFromStatm(text, pageSize) ==
    LET digits == LeadingDigits(text, SecondStart(text))
    IN  IF SecondStart(text) = NPos \/ digits = <<>>
        THEN 0
        ELSE ((Accumulate(digits) * pageSize) % Word) \div MiB

\* The file may not open, and sysconf may fail.
Statm(memory) == SubSeq(memory.text, 1, Min({BufferSize, Len(memory.text)}))
CurrentResidentMiB(memory) ==
    IF ~memory.readable \/ memory.pageSize <= 0
    THEN 0
    ELSE ResidentMiBFromStatm(Statm(memory), memory.pageSize)

-----------------------------------------------------------------------------
(* What the file says, without reading it from left to right. *)

\* A field is a longest run of characters that are not blank.  Its number is
\* that of the digits it begins with; a field that begins with none has none.
FieldStarts(text) ==
    {k \in DOMAIN text : text[k] \notin Blank /\ (k > 1 => text[k - 1] \in Blank)}
Digits(text, k) == {j \in k..Len(text) : \A m \in k..j : text[m] \in Digit}
Number(text, k) ==
    MapThenSumSet(LAMBDA j : DigitValue[text[j]] * TenTo[Max(Digits(text, k)) - j], Digits(text, k))

\* The pages in memory, as the second field has them.
PagesIn(text) ==
    {Number(text, k) : k \in {j \in FieldStarts(text) :
        Cardinality({m \in FieldStarts(text) : m <= j}) = 2 /\ Digits(text, j) # {}}}
=============================================================================
