\* Requests at any time, a device that comes and goes, scans that miss it.
CONSTANTS
    MaxStarts = 2
    MaxUnplugs = 1
SPECIFICATION Spec
INVARIANTS Consistent OneCapture Stoppable
PROPERTY CapturingSettles
