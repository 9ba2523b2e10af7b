CONSTANTS
    Node = {1, 2, 3}
    Succ <- MCSucc
    Block = {"a", "b"}
    Original <- OneVersion
    NoFile = NoFile
    NoRow = NoRow
    Killable = {1}
    MaxCrash = 1
    MaxLoss = 1
SPECIFICATION Spec
PROPERTIES Delivered ImplementsFileStore
