SPECIFICATION FirstLifeSpec
CONSTANTS
    Nil = Nil
    Specs <- ThreeSpecs
    Access = {"rb"}
    Time = {t1, t2}
    MaxCreates = 1
    MaxEdits = 2
    MaxDeletes = 1
    MaxFaults = 1
    MaxLag = 2
    Resyncs = FALSE
INVARIANTS WorkloadInv SyncedUnlessReverted
PROPERTIES CreationTimeStable NoRollback
CHECK_DEADLOCK FALSE
