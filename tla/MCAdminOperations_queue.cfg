SPECIFICATION FairSpec
CONSTANTS
    Workers = {w1, w2}
    VMs = {v1}
    None = None
    MaxRequests = 3
    MaxSurprises = 2
INVARIANTS QueueInv
PROPERTIES ResumesOnlyWhatItStopped OperationsEnd
CHECK_DEADLOCK FALSE
