\* Three sources: two slots of the lockout table, one or two buckets and two
\* ways of a gate set; two threads.  Two mirrored connections and one entry.
SPECIFICATION MCSpec
CONSTANTS
  k1 = k1
  k2 = k2
  k3 = k3
  c1 = c1
  c2 = c2
  NoKey = NoKey
  Keys <- ThreeSources
  Conns <- TwoThreads
  N = 2
  MaxFails = 2
  Window = 2
  MaxTime = 3
  NoIp = NoIp
  Threads <- TwoThreads
  Ips <- ThreeSources
  Plain = {"open"}
  Gates <- OneGate
  NB = 1
  NW = 2
  Budget <- OneEach
  RateWindow = 2
  MaxMs = 3
  EchoThreads = {"t1"}
  Tuples = {"c", "d"}
  EchoSlots = {"s1"}
  EchoMod = 8
  ECHO_IDLE = 1
  MaxClock = 2
  EchoLen = 3
SYMMETRY Sym
INVARIANTS IndInv GatesStand 
PROPERTIES AdmitsUnbanned BanEndsOnlyBy
