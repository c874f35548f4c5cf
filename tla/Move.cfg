SPECIFICATION FairSpec
CONSTANTS
    p = p
    q = q
    a = a
    b = b
    None = None
    Pipelines <- MCPipelines
    Labels <- MCLabels
    Identifiers <- MCIdentifiers
    MaxChanges = 2
CHECK_DEADLOCK FALSE
INVARIANTS
    UnambiguousGetsThere
PROPERTIES
    ImplementsAtomicMove
    OnlyTheOneMeant
    SlugGoesFirst
    EveryCommandEnds
