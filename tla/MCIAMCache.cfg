\* A JWT or an API key, tokens too short-lived to cache or living long enough,
\* two faults.
CONSTANTS
    Request = {r1, r2}
    Kind = {"jwt", "api_key"}
    Message = {"credential", "user"}
    Lifetime = {1, 3, 5}
    CacheTTL = 2
    Margin = 2
    MaxWait = 1
    MaxFaults = 2
SPECIFICATION FairSpec
INVARIANTS TypeOK StalenessBounded RevocationSticks CachedTokenAlive
PROPERTIES RevocationTakesEffect
