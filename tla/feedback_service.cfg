SPECIFICATION FairSpec
CONSTANTS
    Clients = {c1, c2, c3}
    Second = 2
    Minute = 1
    Hour = 3
    Day = 5
    PerMinute = 1
    PerHour = 2
    PerDay = 3
    GlobalPerHour = 3
    MaxIpKeys = 2
    CleanupInterval = 2
INVARIANTS
    TypeOK
    GlobalQuotaHolds
    ClientQuotaLostOnlyToACrowd
    RetryAfterIsHonest
PROPERTIES
    SubmissionsGetThrough
