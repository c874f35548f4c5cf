SPECIFICATION Spec
CONSTANTS
    Items = {1, 2, 3, 4}
    Names = {2, 8}
    PageSize = 1
    Readings = {"cluster", "queue", "pipeline", "migrations"}
    MaxChanges = 2
CHECK_DEADLOCK FALSE
INVARIANTS
    ShiftsExplainErrors
    AnswersAsNamed
    OverlooksOnlyAfterRemoval
