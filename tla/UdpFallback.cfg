CONSTANTS
    Flows = {f1, f2}
    Ids = {i1, i2}
    None = None
    Capacity = 1
    Idle = 1
    Layer = "fallback"
    OverHY2 = TRUE
SPECIFICATION Spec
SYMMETRY Symmetry
INVARIANTS TableUsable NothingLeaks ClosingDoesNotFailPrimary
PROPERTIES ReplacementSurvives
