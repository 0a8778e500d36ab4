SPECIFICATION Spec
CONSTANTS
    g1 = g1
    s1 = s1
    s2 = s2
    x1 = x1
    u1 = u1
    OtherKeys = {"sector"}
    Runs = {1, 2}
    KindOf <- MinuteKindOf
    Workers = {g1, s1, s2}
    LaneOf <- MinuteLaneOf
    Users = {u1}
    LegacyCancels = {}
    MaxCrashes = 1
PROPERTIES
    CanceledBeforeStartIsNotExecuted
