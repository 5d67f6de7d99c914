CONSTANTS
    s1 = s1
    s2 = s2
    Sess <- Two
    Profile = Profile
    Modes = {"own", "profile"}
    NoFile = NoFile
    Zeroed = Zeroed
    MaxGrant = 4
    MaxMishaps = 1
SPECIFICATION SessionsSpec
PROPERTY StartingLosesNothing
