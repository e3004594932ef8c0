CONSTANTS
    Last = 1
    Revs = {1, 2}
    Policies = {1, 2}
    Executor = "native"
    MaxRounds = 1
    MaxLists = 1
    MaxDirections = 1
    MaxGone = 1
    MaxFaults = 1
SPECIFICATION FairSpec
INVARIANTS DeliveredAsAttested HoldCanBeEnded
PROPERTIES SkippedOut
CHECK_DEADLOCK FALSE
