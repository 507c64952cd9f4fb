SPECIFICATION Spec
PROPERTIES
    CallsReturn
    ReaderEnds
    CancelReachesAll
    
