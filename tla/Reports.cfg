SPECIFICATION ReportSpec
CONSTANTS
    Kinds = {"readiness", "move", "cutover"}
    Statuses = {"blocked", "no_known_blockers", "future"}
    Queues = {"q", "r", ""}
    NoName = ""
    Reasons = {"routing_incomplete", "active_source_jobs", "wrong_destination"}
    GroupReasons = {"migration_missing"}
    MaxBlockers = 2
    MaxGroups = 1
    MaxReasons = 2
CHECK_DEADLOCK FALSE
INVARIANTS
    ReportAgreesWithItself
    ExitTellsAssessment
