SPECIFICATION PhotoSpec
CONSTANTS
    Client = {c1, c2}
    Limit = 2
    Window = 3
    MaxHits = 5
    NumKeys = 2
    Rpm = 1
    KeyWindow = 1
    MaxQueue = 1
    Post = {p1, p2}
    MaxId = 2
    MaxResends = 2
    Check = {h1}
    Toggle = {t1, t2}
    ApiKeys = 2
INVARIANTS
    PhotoTypeOK
    RateCap
    BurstOvershoot
    MarkerMeansOff
    DecideMatchesPolicy
PROPERTIES
    CheckAnswered
CHECK_DEADLOCK FALSE
