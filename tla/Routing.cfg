CONSTANTS
    Labels = {a, b}
    Depth = 2
    Width = 3
    MaxRules = 3
SYMMETRY Symmetry
CHECK_DEADLOCK FALSE
SPECIFICATION RoutingSpec
INVARIANTS
    TreesAsRules
    
PROPERTY
    ProxyRuleOnlyCloses
