SPECIFICATION Spec
CONSTANTS
    Nil = Nil
    Specs <- TwoSpecs
    Access = {}
    Time = {t1}
    MaxCreates = 2
    MaxEdits = 0
    MaxDeletes = 1
    MaxFaults = 0
    MaxLag = 1
    Resyncs = FALSE
INVARIANTS AdvertisedServiceExists
CHECK_DEADLOCK FALSE
