\* Two accounts and one slot, so that two parked handlers race each other, OPENs
\* and the purge.
SPECIFICATION Spec
CONSTANTS
    t1 = t1  t2 = t2  alice = alice  bob = bob  h1 = h1  h2 = h2  p1 = p1
    Threads = {t1, t2}
    Users = {alice, bob}
    Hosts = {h1, h2}
    Ports = {p1}
    Encs = {1}
    FrameTypes = {"open", "data", "close", "echo"}
    NSlots = 1
    IpBase = 2
    IpEnd = 2
    SidSpace = 1
    Idle = 0
    Window = 1
    MisMax = 1
    BoundMax = 1
    Throttle = 1
    MaxTok = 2
    MaxTime = 2
SYMMETRY AllSymmetry
INVARIANT HandlersOwn
PROPERTIES EndsOnlyByOwner PeerNeverGated
