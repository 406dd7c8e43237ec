SPECIFICATION FairSpec
CONSTANTS
    r1 = r1
    r2 = r2
    Readers <- OneReader
    KaFailMax = 2
    ErrPollMax = 1
    StaleMax = 1
    RxBatch = 1
    LocalRoutes = {"local"}
PROPERTIES
    WindowStopHonoured
