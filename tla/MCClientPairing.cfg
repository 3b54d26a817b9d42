SPECIFICATION FairSpec
CONSTANTS
    Attempt <- TwoAttempts
    Addr = {"d1", "d2"}
    Public = {"d1"}
    Racer <- Racers
    Key = {"node", "own"}
    NodeKey = "node"
    None = None
    Identity <- Identities
    Records <- Lists
    Stored <- Left
INVARIANTS StreamIsClosed PeerIsVerified
PROPERTIES CachedIsClosed LosersSpareWinner  AttemptsEnd
CHECK_DEADLOCK FALSE
