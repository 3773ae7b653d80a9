\* Up to three messages, from one byte to one more than the limit, and reads of up
\* to three bytes.
CONSTANTS
    Scripts <- EveryScript
    Limit = 5
    Chunk = 3
    Capacity = 5
SPECIFICATION FairSpec
INVARIANTS NothingMisplaced
PROPERTIES ImplementsStream ShortArrive
