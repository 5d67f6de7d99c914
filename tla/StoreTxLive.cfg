CONSTANTS
    p1 = p1
    p2 = p2
    u1 = u1
    u2 = u2
    b1 = b1
    b2 = b2
    plain = plain
    Proc <- MCProc
    Uuid <- OneUuid
    Blob <- OneBlob
    Setting <- MCSetting
    Fresh = plain
    NoProc = NoProc
    NoUuid = NoUuid
    NoRow = NoRow
    NoFile = NoFile
    MaxOps = 1
    MaxCrashes = 1
    MaxInterrupts = 1
SPECIFICATION FairSpec
PROPERTY CallsReturn
