CONSTANTS
    Platforms = {"boss", "liepin", "zhilian", "51job"}
    LastJob = 2
    MaxTrouble = 2
SPECIFICATION FairSpec
INVARIANTS LogIsTrue SentIsTrue
PROPERTIES ClickEvidenceKept TwiceOnlyIfMisled EventuallySent
