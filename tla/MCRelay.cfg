\* Two clients, room for both and for one lookup, one fault.
SPECIFICATION MCSpec
CONSTANTS
    RpConns = {"a", "b"}
    MaxFaults = 1
    RP_MAX_CONNS = 2
    RP_MAX_ESTABLISHED = 2
    RP_DNS_MAX_INFLIGHT = 1
    Token = FALSE
INVARIANT RelayAccounted
PROPERTY StopDrains
