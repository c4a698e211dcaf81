SPECIFICATION MCSpec
CONSTANTS
    Nil = Nil
    Specs <- TwoSpecs
    Access = {}
    Time = {t1}
    MaxCreates = 1
    MaxEdits = 1
    MaxDeletes = 1
    MaxFaults = 1
    MaxLag = 1
    Resyncs = FALSE
INVARIANTS TypeOK
PROPERTIES SettlesUnlessDeleting EndsUnlessStatusFlaps Collected
CHECK_DEADLOCK FALSE
