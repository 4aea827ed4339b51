CONSTANTS
    Period = 3
    TTL = 10
    NftTime = 2
    RespawnDelay = 5
    Retries = 1
SPECIFICATION Spec
INVARIANT RefreshedWhileServing
