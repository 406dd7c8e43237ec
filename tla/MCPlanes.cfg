\* The sizes of each part, in the order of MCPlanes's EXTENDS.  Session table: two
\* accounts, slots and addresses and three OPENs, so that slots, addresses and sids
\* are reused.  Batches: two clients, three cells, four packets, five sizes.
SPECIFICATION MCSpec
CONSTANTS
    t1 = t1  t2 = t2  alice = alice  bob = bob  h1 = h1  h2 = h2  p1 = p1
    Threads = {t1}
    Users = {alice, bob}
    Hosts = {h1, h2}
    Ports = {p1}
    Encs = {1}
    FrameTypes = {"open", "close", "echo"}
    NSlots = 2
    IpBase = 2
    IpEnd = 3
    SidSpace = 2
    Idle = 0
    Window = 1
    MisMax = 1
    BoundMax = 1
    Throttle = 1
    MaxTok = 3
    MaxTime = 1
    DlPeers = {"p", "q"}
    SRV_DL_BATCH = 3
    MaxFrames = 4
    Sizes = {2, 3, 4, 5, 6}
    MssMin = 3
    CtrlLen = 1
    Hyst = 3
    ShortLens = {1, 2}
    TxConns = {"a", "b"}
    NS_TX_MAX = 3
    NS_TX_CONN_CAP = 2
    MaxTxSession = 1
    NS_MAX_CONN = 2
    MEMP_NUM_TCP_PCB = 2
    MAX_FLOWS = 2
    MaxRebuilds = 1
SYMMETRY ClientSymmetry
INVARIANTS SidMapExact IndInv FramesOnce TrainsWhole  SlotsOwned
PROPERTIES ImplementsRegistry LateTickFrees
