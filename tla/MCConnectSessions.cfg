SPECIFICATION Spec
CONSTANTS
    Request = {r1, r2}
    Call = {c1}
    Key <- MCKey
    Service <- MCService
    None = None
SYMMETRY Symmetry
CHECK_DEADLOCK FALSE
INVARIANTS
    AttemptsAreOwned
    NoStuckProgress
    SessionsAreSound
    
