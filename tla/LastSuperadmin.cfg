SPECIFICATION AccSpec
CONSTANTS
    Admin = {a1, a2}
    Seed = a1
    SeedHash = TRUE
    Internal = internal
    None = none
    Worker = {w1, w2}
    Req = {r1, r2, r3}
    TTL = 1
    MaxTv = 0
INVARIANT SuperadminRemains
CHECK_DEADLOCK FALSE
