CONSTANTS
    Node = {1, 2, 3}
    Succ <- MCSucc
    Block = {"a", "b"}
    Original <- TwoVersions
    NoFile = NoFile
    NoRow = NoRow
    Killable = {}
    MaxCrash = 0
    MaxLoss = 1
SPECIFICATION Spec
INVARIANT ResumeIsRight
