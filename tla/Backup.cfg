SPECIFICATION FairSpec
CONSTANTS
    Backups = {b1, b2}
    Pages = 3
    PagesPerStep = 2
    MaxCommits = 1
    MaxFaults = 1
INVARIANTS PublishedIsOneVersion SuccessIsDurable NoTemporaryLeft
PROPERTIES NeverReplaces Terminates
