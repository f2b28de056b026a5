SPECIFICATION CachesSpec
CONSTANTS
    Readers = {r1, r2}
    Writers = {w1}
    MaxChanges = 1
    None = None
    MaxEmits = 4
    NoEmit = NoEmit
CHECK_DEADLOCK FALSE
INVARIANTS
    AllTypesOK
    FreshAnswer
    SentInOrder
PROPERTIES
    StaleValuesEnd
    EverythingSent
