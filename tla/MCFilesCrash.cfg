CONSTANTS
    Node = {1, 2, 3, 4}
    Succ <- MCSucc
    Block = {"a", "b"}
    Original <- TwoVersions
    NoFile = NoFile
    NoRow = NoRow
    Killable = {1, 2}
    MaxCrash = 1
    MaxLoss = 1
SPECIFICATION Spec
INVARIANTS TypeOK SourceIsAnnounced RowIsOnDisk ListedIsWhole
PROPERTY ProgressKept
