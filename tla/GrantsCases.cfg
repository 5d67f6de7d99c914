CONSTANTS
    a = a
    b = b
    f = f
    poller = poller
    poller2 = poller2
    ticker = ticker
    cli = cli
    human = human
    Acct <- One
    Foreign <- Stranger
    Poller <- Nobody
    Ticker <- TheTicker
    Cli <- Nobody
    Human <- TheHuman
    NoAcct = NoAcct
    NoGrant = NoGrant
    NoLogin = NoLogin
    Blank = Blank
    Prompt = TRUE
    MaxGen = 2
    MaxLogins = 1
    MaxFaults = 1
    MaxMishaps = 2
SPECIFICATION Spec
INVARIANT GrantNeverLost
PROPERTY SnapshotsMoveForward
