CONSTANTS
    Streams = {s1, s2}
    Packets = {p1}
    FailureThreshold = 2
    SuccessThreshold = 2
    Cooldown = 2
    ProbeInterval = 1
SPECIFICATION FailOpenFairSpec
INVARIANTS CountersMatchMode SingleProbe
PROPERTIES RestoreAfterQuietStreak RelayRegained
