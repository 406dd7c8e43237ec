\* Two readers, one stop request, a device that may vanish once.
SPECIFICATION FairSpec
CONSTANTS
    r1 = r1
    r2 = r2
    Readers <- TwoReaders
    KaFailMax = 2
    ErrPollMax = 1
    StaleMax = 1
    RxBatch = 1
    LocalRoutes = {"local"}
INVARIANT PumpAccounted
PROPERTIES StopHonoured ForgottenNoticed
