SPECIFICATION Spec
CONSTANTS
    r1 = r1
    r2 = r2
    r3 = r3
    c1 = c1
    c2 = c2
    q1 = q1
    Runs = {r1, r2}
    Clusters = {c1, c2}
    Queues = {q1}
    NoCluster = NoCluster
    Unmapped = Unmapped
    Unread = Unread
    StartPercents <- Routings
    Commands <- RoutingRaces
CHECK_DEADLOCK FALSE
INVARIANTS
    NoOpNeverClaimsChange
