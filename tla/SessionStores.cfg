SPECIFICATION Spec
CONSTANTS
    Tokens = {t1, t2, t3}
    Users = {u1, u2}
    Orgs = {o1, o2}
    Lifetimes = {1, 2}
    LastTick = 3
    NoSession = NoSession
SYMMETRY Symmetry
PROPERTIES
    RedisKeepsContract
    MemoryKeepsContract
