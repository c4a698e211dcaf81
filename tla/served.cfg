SPECIFICATION FairSpec
CONSTANTS
    Nil = Nil
    a = a
    b = b
    c = c
    Names <- ThreeNames
    Unrealisable <- Refused
    MaxChanges = 2
INVARIANTS QueueInv
PROPERTIES ImplementsBoxes ServedUnlessStuck
CHECK_DEADLOCK FALSE
