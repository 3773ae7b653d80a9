\* Every path of up to four components, in flakes whose three values are of any
\* kind; three outputs, of which any may have no path, in a store that changes
\* twice; memory files of up to six characters of which five are read, pages of
\* four bytes, mebibytes of eight and words of six bits.
CONSTANTS
    packages = packages
    checks = checks
    sys = sys
    other = other
    top = top
    set = set
    leaf = leaf
    Type = {packages, checks}
    System = sys
    Name = {packages, checks, sys, other}
    Node = {top, set, leaf}
    Output = {"out", "dev", "doc"}
    Requests <- EveryRequest
    BufferSize = 5
    MiB = 8
    Word = 64
    MaxMemoryMiB = 3
SPECIFICATION Spec
INVARIANTS AnswersReadAsInFlake CacheAnswersHold RestartsWhenDue
