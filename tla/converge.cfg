SPECIFICATION MCSpec
CONSTANTS
    Nil = Nil
    Specs <- AllSpecs
    Access = {}
    Time = {t1}
    MaxCreates = 1
    MaxEdits = 2
    MaxDeletes = 0
    MaxFaults = 1
    MaxLag = 1
    Resyncs = TRUE
    Edited = {"kyuubiCm", "refsCm", "sts"}
    Removed = {"sts", "svc"}
PROPERTIES EventuallySynced
CHECK_DEADLOCK FALSE
