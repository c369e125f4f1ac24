SPECIFICATION FairSpec
CONSTANTS
    MaxReports = 3
    Times <- MCTimes
    Rejected <- SecondReport
    MaxPending = 2
    Batch = 1
INVARIANTS NothingVanishes LatestIsNewest
PROPERTIES Implements EventuallySettled
