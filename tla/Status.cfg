SPECIFICATION Spec
CONSTANTS
    Migrations = {1, 2}
    Clusters = {1, 2, 3}
    Names = {11, 12}
    None = 0
    PageSize = 1
    MaxChanges = 2
CHECK_DEADLOCK FALSE
INVARIANTS
    DestinationsUnderTheirNames
    IDsOnlyForCause
    EveryMigrationIsShown
