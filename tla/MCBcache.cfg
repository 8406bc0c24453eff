SPECIFICATION Spec
CONSTANTS
    Client = {c1, c2, c3}
    Block = {k1, k2, k3, k4}
    Val = {v1, v2}
    NoBlock = NoBlock
    NBUF = 2
    PINS = 2
SYMMETRY Symmetry
INVARIANTS
    SleepersMustWait
    PanicOnlyWhenFull
PROPERTY CacheCoherent
