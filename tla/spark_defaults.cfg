SPECIFICATION FairSpec
CONSTANTS
    Nil = Nil
    Specs <- AllSpecs
    Access = {}
    Time = {t1}
    MaxCreates = 1
    MaxEdits = 0
    MaxDeletes = 0
    MaxFaults = 0
    MaxLag = 1
    Resyncs = TRUE
PROPERTIES OptionalFieldsAreOptional
CHECK_DEADLOCK FALSE
