CONSTANTS
    u = u
    f = f
    c = c
    Queries = {q1, q2}
    Kind <- ThreeNames
    Answers <- SomeAnswers
    Capacity = 1
    Timeout = 2
    NetTimeout = 1
    StreamTimeout = 2
    MinTTL = 1
    NegativeTTL = 1
    MaxTTL = 2
    FailOpen = TRUE
SPECIFICATION Spec
SYMMETRY Symmetry
INVARIANTS CacheConsistent RepliesLearned UnknownByAnswers AnsweredInTime
