SPECIFICATION FairSpec
CONSTANTS
    g1 = g1
    s1 = s1
    s2 = s2
    x1 = x1
    u1 = u1
    OtherKeys = {"sector"}
    Runs = {1, 2}
    KindOf <- MixedKindOf
    Workers = {g1, x1}
    LaneOf <- MixedLaneOf
    Users = {u1}
    LegacyCancels = {2}
    MaxCrashes = 1
PROPERTIES
    EveryRunSettles
    QueueSpec
