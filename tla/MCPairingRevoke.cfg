SPECIFICATION Spec
CONSTANTS
    NoID = NoID
    Token = {t1}
    Peer = {"a", "b"}
    Port <- MCPort
    SessionTokenTTL = 1
    SessionTokenMaxUses = 1
    MaxTime = 0
    InviteID = {i1}
    Conn = {c1, c2}
    Call = {g1}
    Backend = {"iroh"}
    Identity <- TwoMachines
    RequestedPort = {22}
    DefaultPort = 3389
    ConfiguredPort = 3389
    OneTimeTTL = 1
    TimeWindowTicks = 1
    MaxStoredInvites = 1
    InitialRemotes <- OneRemote
SYMMETRY Symmetry
PROPERTIES
    RevokeRemovesTrust
