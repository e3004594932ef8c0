CONSTANTS
    j1 = j1
    j2 = j2
    None = None
    Jobs <- TwoJobs
    MaxLists = 2
    Selected <- TwoJobs
    MaxRevision = 2
    Allowed <- ThreeRevisions
    MaxFaults = 1

SPECIFICATION FairSpec

PROPERTIES
    SentAsConfirmed
    CancelledNotSent
    SentWithinCriteria
    CancellationAnswered

CHECK_DEADLOCK FALSE
