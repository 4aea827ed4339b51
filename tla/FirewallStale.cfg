CONSTANTS
    a = a
    b = b
    cn = cn
    cdn = cdn
    w1 = w1
    w2 = w2
    Domains = {cn, cdn}
    IPs = {a, b}
    Capacity = 2
    TTLs = {1}
    Workers = {w1}
    Observations <- Shared
    TimePasses = TRUE
    NetlinkFails = FALSE
    Restarts = FALSE
SPECIFICATION FairSpec
PROPERTIES StaleDirectVanishes
