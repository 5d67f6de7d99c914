CONSTANTS
    a = a
    b = b
    f = f
    poller = poller
    poller2 = poller2
    ticker = ticker
    cli = cli
    human = human
    Acct <- Two
    Foreign <- Nobody
    Poller <- ThePoller
    Ticker <- TheTicker
    Cli <- Nobody
    Human <- Nobody
    NoAcct = NoAcct
    NoGrant = NoGrant
    NoLogin = NoLogin
    Blank = Blank
    Prompt = TRUE
    MaxGen = 1
    MaxLogins = 0
    MaxFaults = 1
    MaxMishaps = 1
SPECIFICATION Spec
PROPERTY AdoptsForward
