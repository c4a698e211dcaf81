SPECIFICATION MCSpec
CONSTANTS
    Nil = Nil
    Specs <- WorkloadSpecs
    Access = {}
    Time = {t1}
    MaxCreates = 2
    MaxEdits = 2
    MaxDeletes = 1
    MaxFaults = 1
    MaxLag = 1
    Resyncs = FALSE
INVARIANTS WorkloadSynced
PROPERTIES StatusFromCurrentSpec ImplementsRollout ImplementsRequestBox
CHECK_DEADLOCK FALSE
