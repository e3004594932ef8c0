CONSTANTS
    Executors = {"native", "bulk"}
    Jobs = {j1, j2}
    Queries = {1}
    PageLimit = 2
    CandidateLimit = 2
    PageBudget = 2
    BlockSize = 1
    Intents = {i1}
    MaxRequests = 2
    MaxRounds = 2
    MaxSearches = 2
    MaxGeneration = 1
    MaxFaults = 2
SPECIFICATION FairSpec
INVARIANTS NativeBilledOnce DecidedAsCollected OnePoolPerRequest
PROPERTIES CancelHonoured EventuallyDecided
CHECK_DEADLOCK FALSE
