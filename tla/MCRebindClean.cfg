\* A frame received before a mismatch was charged rebinds after it.
CONSTANTS
    t1 = t1  t2 = t2  alice = alice  bob = bob  h1 = h1  h2 = h2  p1 = p1
    Threads = {t1, t2}
    Users = {alice}
    Hosts = {h1, h2}
    Ports = {p1}
    Encs = {1}
    FrameTypes = {"open", "data"}
    NSlots = 1
    IpBase = 2
    IpEnd = 2
    SidSpace = 1
    Idle = 1
    Window = 2
    MisMax = 1
    BoundMax = 1
    Throttle = 1
    MaxTok = 2
    MaxTime = 3
SPECIFICATION Spec
PROPERTIES RebindOnlyWhenClean
SYMMETRY ThreadSymmetry
