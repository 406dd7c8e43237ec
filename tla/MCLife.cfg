\* The four cases of the host; two sends of an OPEN and two ports; two sessions of
\* the loop; two addresses and one redirect.
SPECIFICATION MCSpec
CONSTANTS
    a = a
    b = b
    subnet = subnet
    Servers = {a, b}
    Subnets = {subnet}
    Subnet <- SameSubnet
    Cases <- FourCases
    AUTH_SEND_MAX = 2
    AuthPorts = {1, 2}
    MaxNet = 2
    MaxFaults = 1
    MaxLoops = 2
    MaxAddrs = 2
    HTTPS_MAX_REDIRECTS = 1
INVARIANTS HostAccounted  LoopOwns RoundTripSound
PROPERTY LifeGoesOn
