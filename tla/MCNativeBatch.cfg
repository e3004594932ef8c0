CONSTANTS
    j1 = j1
    j2 = j2
    j3 = j3
    Platform = "zhilian"
    Jobs <- TwoJobs
    Candidates <- OneListOfTwo
    MaxLists = 1
    Batch = 1
    MaxCrashes = 1
    PagesLag = FALSE

SPECIFICATION FairSpec

PROPERTIES
    PermittedInOrder
    SentMeansVisited
    EventuallyAnswered

CHECK_DEADLOCK FALSE
