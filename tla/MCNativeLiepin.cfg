CONSTANTS
    j1 = j1
    j2 = j2
    j3 = j3
    Platform = "liepin"
    Jobs <- OneJob
    Candidates <- OneList
    MaxLists = 2
    Batch = 1
    MaxCrashes = 0
    PagesLag = FALSE

SPECIFICATION Spec

PROPERTIES
    NothingTwice
    KeepsPromise

CHECK_DEADLOCK FALSE
