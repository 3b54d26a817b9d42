SPECIFICATION Spec
CONSTANTS
    NoID = NoID
    Token = {t1}
    Peer = {"a", "b"}
    Port <- MCPort
    SessionTokenTTL = 1
    SessionTokenMaxUses = 1
    MaxTime = 2
    InviteID = {i1, i2}
    Conn = {c1}
    Call = {g1}
    Backend = {"iroh", "libp2p_dht"}
    Identity <- OneMachine
    RequestedPort = {65536}
    DefaultPort = 3389
    ConfiguredPort = 3389
    OneTimeTTL = 1
    TimeWindowTicks = 1
    MaxStoredInvites = 1
    InitialRemotes <- OneRemote
SYMMETRY Symmetry
INVARIANTS
    TypeOK
    IndexesAgree
PROPERTIES
    AcceptsOnlyLive
