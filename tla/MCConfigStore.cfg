SPECIFICATION ConfigSpec
CONSTANTS
    NoID = NoID
    Candidate <- MCCandidate
    Remote <- MCRemote
    Addr = {"r1"}
    Setting <- MCSetting
    Saver = {s1, s2}
    MaxEdits = 4
SYMMETRY Symmetry
CHECK_DEADLOCK FALSE
INVARIANTS
    
    
    KeyNeverChanges
PROPERTY EditsAreExact
