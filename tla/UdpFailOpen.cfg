CONSTANTS
    Flows = {f1}
    Ids = {i1, i2}
    None = None
    Capacity = 1
    Idle = 1
    Layer = "failopen"
    OverHY2 = FALSE
SPECIFICATION FairSpec
PROPERTIES BrokenSessionsRemoved
