SPECIFICATION Spec
CONSTANTS
    Nil = Nil
    Specs <- TwoSpecs
    Access = {}
    Time = {t1}
    MaxCreates = 1
    MaxEdits = 2
    MaxDeletes = 0
    MaxFaults = 0
    MaxLag = 2
    Resyncs = FALSE
INVARIANTS AllSynced
CHECK_DEADLOCK FALSE
