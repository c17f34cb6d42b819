SPECIFICATION FileSpec
CONSTANTS
    p1 = p1
    r1 = r1
    r2 = r2
    f1 = f1
    f2 = f2
    f3 = f3
    Pin <- OnePin
    RandomId <- TwoRandom
    File <- ThreeFiles
    FileFaults <- FileFaultKinds
    Board = Board
    None = None
    MaxBoots = 2
    MaxScripts = 1
    MaxRecords = 1
INVARIANTS FileTypeOK RecordsSurvive
PROPERTIES IdentityKept ScriptsAgree
SYMMETRY Alike
