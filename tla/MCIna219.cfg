\* Chips that fail and come back, requests that fail half way, restarts.
CONSTANTS
    CliChannels <- TwoChannels
    CliHighspeed <- FirstTwo
    CliChannel = 1
    Shunts = {1, 2}
    CliShunt = 1
    CheckEvery = 2
    MaxRequests = 2
    MaxBoots = 2
    MaxLosses = 1
SPECIFICATION Spec
INVARIANTS Consistent ConfirmedInUse
PROPERTIES RestoredByBoot Recovers
