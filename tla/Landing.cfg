CONSTANTS
    None = None
    Ops = {o1}
    Dials = {o1, d1}
    Targets = {t1, t2}
    Numeric = {t1}
    Budgets = {3, 5}
    Attempt = 2
    Cooldown = 3
    Handshake = 2
SPECIFICATION FairSpec
INVARIANTS
    CooldownBounded
    SetupBounded
    OneDestination
    KeptOpen
PROPERTIES
    BackupGetsHalf
    
