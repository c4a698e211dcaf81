SPECIFICATION FairSpec
CONSTANTS
    Nil = Nil
    a = a
    b = b
    c = c
    Names <- TwoNames
    Unrealisable <- NoNames
    MaxChanges = 2
PROPERTIES EveryNameServed
CHECK_DEADLOCK FALSE
