CONSTANTS
    p1 = p1
    p2 = p2
    Nobody = Nobody
    Procs <- TwoCommands
    Intervals = {1, 2}
    Window = 6
    MaxReads = 3
    Recovery = 3
    Setback = 3
    MaxSetbacks = 2
    MinInterval = 1

SPECIFICATION FairSpec

INVARIANTS
    StoppedByTrouble
    LoadBounded

PROPERTIES
    ReleasedInTheEnd
