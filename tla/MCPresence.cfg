SPECIFICATION FairSpec
CONSTANTS
    Peer = {p1}
    Remote = {p1}
    Addr = {a1, a2}
    None = None
    After = 2
INVARIANT PresenceTypeOK
PROPERTIES AnnouncedIsKept StoredIsKept GoneGoesOffline
CHECK_DEADLOCK FALSE
