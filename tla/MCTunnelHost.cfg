SPECIFICATION FairTunnelSpec
CONSTANTS
    Token = {t1, t2}
    Peer = {alice, bob}
    Port = {22}
    SessionTokenTTL = 1
    SessionTokenMaxUses = 1
    MaxTime = 2
    Stream = {s1, s2}
    HelloPort = {0, 22, 80}
    TargetPort = 3389
    NoHello = NoHello
CHECK_DEADLOCK FALSE
INVARIANTS
    TableIsExact
    StreamsPerToken
    ChannelsWithinGrant
PROPERTIES
    ImplementsLedger
    HandshakeEnds
