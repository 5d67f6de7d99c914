CONSTANTS
    p1 = p1
    p2 = p2
    u1 = u1
    u2 = u2
    b1 = b1
    b2 = b2
    plain = plain
    Proc <- MCProc
    Uuid <- MCUuid
    Blob <- MCBlob
    Setting <- MCSetting
    Fresh = plain
    NoProc = NoProc
    NoUuid = NoUuid
    NoRow = NoRow
    NoFile = NoFile
    MaxOps = 2
    MaxCrashes = 1
    MaxInterrupts = 1
SPECIFICATION Spec
SYMMETRY Symmetry
INVARIANTS TypeOK RowsAndFilesAgree RefusedIsReversed InterruptsAreAnswered
PROPERTIES NoLostUpdate OrphansAreNobodys
