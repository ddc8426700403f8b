\* Two workers of one pool over two iterations, the first of which becomes outdated, and at
\* most four writes that begin.
SPECIFICATION FairSpec
CONSTANTS
    Workers = {w1, w2}
    NoWorker = NoWorker
    LastIteration = 2
    MaxWrites = 4
    Retention = 1
INVARIANTS
    TypeOK
    AnswerIsCurrent
PROPERTIES
    EntryMovesForward
    EventuallyCurrent
