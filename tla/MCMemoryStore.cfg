\* Four keys in a store of three, of which a full store drops one.
CONSTANTS
    Key = {a, b, c, d}
    Text = {json}
    MaxNumber = 1
    TTL = {1, 2}
    Nil = Nil
    MaxKeys = 3
    Drop = 1
SYMMETRY KeySymmetry
SPECIFICATION Spec
INVARIANT TypeOK
PROPERTY StandsInForRedis
