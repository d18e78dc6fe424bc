\* One sender, a counter that is reset, reloaded and, once it has been stored near its
\* end, wraps.
CONSTANTS
    http = http
    burst = burst
    Senders <- OneSender
    MaxSends = 2
    MaxRtt = 1
    CountMod = 3
    StoreVals <- ResetOrLast
    MaxTime = 5
    Reloads = TRUE
    Debounce = 1
    MaxLatency = 0
    MinGap = 1
SPECIFICATION Spec
INVARIANTS Consistent WakeDetected
PROPERTY DashboardConverges
