SPECIFICATION FairSpec
CONSTANTS
    MaxTime = 11
    MaxRotations = 1
    GracePeriod = 2
    CALifetime = 20
    RotateBefore = 7
    CertDuration = 4
    SyncInterval = 1
    MaxFaults = 1
INVARIANTS ServerTrustsClient ClientTrustsServer LabelIsHonest
PROPERTIES PodGetsCertificate
CHECK_DEADLOCK FALSE
