\* Two sampling threads, a queue that holds more rows than there are threads.
CONSTANTS
    ina = ina
    ina226 = ina226
    Recorders <- MCRecorders
    MaxCaptures = 2
    MaxSamples = 4
    QueueSize = 3
    MaxFileRows = 2
    Timed = TRUE
    ThreadFails = TRUE
SPECIFICATION Spec
INVARIANTS OneWriter LossBounded ReportedRows
PROPERTIES FinalFrozen ImplementsLifecycle CaptureEnds
