SPECIFICATION Spec
CONSTANTS
    Nil = Nil
    MaxRefs = 3
INVARIANTS RefusedIffTwoOfAType MountsFitConfigMaps HiveAgreesWithHdfs
           HiveFindsNameNodes CompareFindsChanges
CHECK_DEADLOCK FALSE
