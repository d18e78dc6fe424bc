\* Requests that fail half way, chips that fail and lose their calibration, restarts.
CONSTANTS
    None = None
    Addresses = {1, 2}
    Kind <- OneOfEach
    TrueShunt <- Shunt3And2
    MaxShunt = 3
    Times226 = {140, 1100}
    Times228 = {50, 150, 1052}
    Cli <- Detecting
    Default <- Builtin
    OldFile <- Legacy
    UserShunts = {1}
    UserTimes = {50}
    MaxRequests = 2
    MaxBoots = 2
    MaxLosses = 1
SPECIFICATION Spec
INVARIANT Consistent
PROPERTIES RestoredByBoot CalibrationExact Recovers
