\* A writer and a pool of two queues; the device may be deleted once.
SPECIFICATION FairSpec
CONSTANTS
  w1 = w1
  Writers = {w1}
  MaxQ = 2
  InitQ = 2
  Pre = 1
  IdleMin = 1
  NF = 3
  MaxGen = 2
  Congested = TRUE
INVARIANT TunAccounted
PROPERTIES SlotStartsEmpty DeadTunnelStops
