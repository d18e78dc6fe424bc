\* Requests at any time, a device that answers in time or does not.
CONSTANTS
    MaxBursts = 2
    Count = 2
    MaxWakes = 2
SPECIFICATION Spec
INVARIANTS Consistent ReportsOwnSends PacedByWakes
PROPERTIES StopHonoured BurstEnds
