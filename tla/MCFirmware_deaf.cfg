\* DTIM: an access point that goes away for longer than the retries last.
CONSTANTS
    Strategies = {"dtim"}
    MaxRetry = 2
    MaxDrops = 1
    MaxResets = 0
SPECIFICATION FirmwareSpec
PROPERTY Reassociates
