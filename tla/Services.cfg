CONSTANTS
    acct1 = acct1
    acct2 = acct2
    thread1 = thread1
    s1 = s1
    s2 = s2
    None = None
    Acct = {acct1, acct2}
    Thread = {thread1}
    Pins <- AnyPin
    Replay = TRUE
    MaxNow = 1
    MaxEvents = 2
    NoFile = NoFile
    Zeroed = Zeroed
    Profile = Profile
    Sess = {s1, s2}
    Modes = {"own", "profile"}
    MaxGrant = 2
    MaxMishaps = 1
    Absent = Absent
    Pcts = {0, 100}
    Sharing = {1, 2}
    Wakes = {TRUE}
    Billed = FALSE
    Phase = 0
    Length = 4
    Soon = 2
    Lag = 1
    Threshold = 80
    T <- CoarseTable
    Ladder <- CoarseLadder
    PollDelay = 0
    ConfirmAfter = 2
    WakeMargin = 0
    ProfileRetry = 6
    MaxTime = 9
    MaxUpsets = 1
SPECIFICATION ServicesSpec
SYMMETRY Symmetry
INVARIANTS ServicesTypeOK  PointerNamesAnAccount   SessionGrantKept
PROPERTIES  TurnsAreSpaced AdoptedIsAlive
