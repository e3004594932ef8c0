CONSTANTS
    Last = 2
    Revs = {1}
    Policies = {1}
    Executor = "bulk"
    MaxRounds = 1
    MaxLists = 1
    MaxDirections = 0
    MaxGone = 0
    MaxFaults = 1
SPECIFICATION FairSpec
PROPERTIES AskedAgain
CHECK_DEADLOCK FALSE
