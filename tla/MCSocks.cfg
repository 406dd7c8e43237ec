\* The sizes of each part, in the order of MCSocks's EXTENDS.
SPECIFICATION MCSpec
CONSTANTS
    Workers = {w1, w2}
    FlowSlots = {f1}
    DNS_WAIT_MAX = 3
    DNS_DRAIN_MAX = 2
    DNS_LOCAL_MAX_INFLIGHT = 1
    QTypes = 2
    MaxGen = 3
    MaxId = 2
    MaxDown = 1
    MaxReauth = 1
    SOCKS_KA_FAIL_MAX = 3
    Callback = {TRUE, FALSE}
    NS_RX_POOL = 3
    RX_VLEN = 2
    RxBudget = 3
    RxLen = 4
INVARIANTS LookupsOwned FlowStream PoolExact SessionOwned
PROPERTIES NothingDropped SocksGoesOn
