SPECIFICATION Spec
CONSTANTS
    Nil = Nil
    Maps <- AllMaps
    Documents <- AllDocuments
    Ids = {1, 2, 3, 4}
INVARIANTS NoSharing SpecAsFetched
