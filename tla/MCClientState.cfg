CONSTANTS
    Accounts = {a, b}
    Nobody = nobody
    Owned <- SearchAndArchive
    Bound = "search"
    Cleared = {"search"}
    Shelved = {"search"}
    Archive = "archive"
    MaxDeaths = 1
SPECIFICATION Spec
SYMMETRY AccountSymmetry
INVARIANTS OwnStateOnly MigratedMeansAll
PROPERTIES NothingLost EffectKeepsState
