\* A client that sends any four messages.
CONSTANT MaxMessages = 4
SPECIFICATION FairSpec
INVARIANTS ReadsDoNotOverlap NeverStranded QueryFreedOnce
PROPERTIES LookupConcludes RefusedIsClosed
CHECK_DEADLOCK FALSE
