CONSTANTS
    a = a
    b = b
    cn = cn
    cdn = cdn
    w1 = w1
    w2 = w2
    Domains = {cn, cdn}
    IPs = {a, b}
    Capacity = 2
    TTLs = {1}
    Workers = {w1, w2}
    Observations <- Shared
    TimePasses = TRUE
    NetlinkFails = TRUE
    Restarts = TRUE
SPECIFICATION Spec
INVARIANTS TableConsistent EveryEntryExpires KnownUntilRefused
SYMMETRY Alike
