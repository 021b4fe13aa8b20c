SPECIFICATION FairSpec
CONSTANTS
    MaxHeight = 5
    Batch = 2
    MaxCrashes = 1
    MaxFailures = 2
INVARIANTS TypeOK CallsOnceInOrder NothingElseSkipped
PROPERTIES AllExecuted
CHECK_DEADLOCK FALSE
