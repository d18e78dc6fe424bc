\* Three lines of the ESP32, a log of two states, two starts of either program.
CONSTANTS
    Header = Header
    Power = Power
    Torn = Torn
    Garbled = Garbled
    MaxLog = 2
    MaxLines = 3
    MaxRuns = 2
SPECIFICATION LogSpec
INVARIANTS LogConsistent PublishedKept
PROPERTY RowsReachFile
