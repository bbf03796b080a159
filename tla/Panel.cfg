SPECIFICATION PanelSpec
CONSTANTS
    Admin = {a1, a2}
    Seed = a1
    SeedHash = TRUE
    Internal = internal
    None = none
    Worker = {w1, w2}
    Req = {r1, r2, r3}
    TTL = 2
    MaxTv = 2
    Op = {r1, r2, r3, r4}
    MaxVersion = 3
    Setting = {k1, k2}
    Val = {v0, v1}
    Default = v0
    Unset = unset
    Proc = {w1, w2}
    NoProc = noproc
    Call = {r1, r2, r3}
    CACHE_TTL = 2
    Entry = {e1, e2, e3}
    Object = {b1, b2}
    NoUrl = nourl
    Delete = {r1, r2, r3}
INVARIANTS
    PanelTypeOK
    AccountCacheBounded
    SuperadminRemainsSerially
    VersionsOneActive
    AuditIsChain
    PauseMatchesAudit
    SettingsConverge
    NoLostUpdate
    NoDanglingUrl
    NoOrphanObject
PROPERTIES
    RevokedWithinTtl
    ResetSignsOut
SYMMETRY Symmetry
CHECK_DEADLOCK FALSE
