\* Every strategy, an access point that comes and goes, one panic.
CONSTANTS
    Strategies = {"baseline", "dtim", "listen", "espnow", "ble"}
    MaxRetry = 2
    MaxDrops = 2
    MaxResets = 1
SPECIFICATION FirmwareSpec
INVARIANT FirmwareConsistent
PROPERTY TriggersAnswered
