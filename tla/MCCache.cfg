CONSTANTS
    Threads = {t1, t2}
    Blocks = {0, 1}
    Capacities = {0, 3}
    Ks = {0, 1, 2}
    MaxBuilds = 3
SPECIFICATION CSpec
SYMMETRY ThreadSymmetry
INVARIANTS CacheConsistent CacheCoherent
PROPERTIES EvictsColdest
