SPECIFICATION RepeatSpec
CONSTANTS
    r1 = r1
    r2 = r2
    c1 = c1
    c2 = c2
    Runs = {r1, r2}
    Clusters = {c1, c2}
    Destination = c1
INVARIANTS
    TypeOK
    RejectedWithoutChanges
    OneReportPerStart
    DryRunAgrees
PROPERTIES
    RepetitionGetsThere
