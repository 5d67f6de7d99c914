CONSTANTS
    daemon = daemon
    command = command
    Daemon <- TheDaemon
    Command <- TheCommand
    Acct <- TwoAndOne
    Kind <- Kinds
    Binding <- Window
    None = None
    Threshold <- AtEighty
    CreditThreshold = 80
    Lead = 1
    Hysteresis = 10
    Ratio = 2
    RecoveryHysteresis = 5
    Horizon = 60
    Ceiling = 10
    Readings <- SpreadReadings
    MaxNews = 1
    MaxFaults = 1
SPECIFICATION Spec
INVARIANTS TypeOK EmptiedIsLeft NoMoveOntoEmpty 
 
