SPECIFICATION MCSpec
CONSTANTS
    Nil = Nil
    Specs <- PlainSpecs
    Access = {}
    Time = {t1}
    MaxCreates = 1
    MaxEdits = 1
    MaxDeletes = 0
    MaxFaults = 1
    MaxLag = 1
    Resyncs = FALSE
INVARIANTS WorkloadSyncedByAll FirstSpecSyncedByAll
CHECK_DEADLOCK FALSE
