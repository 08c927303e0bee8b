SPECIFICATION FairSpec
CONSTANTS
    Gateways = {g1, g2, g3, g4}
    V6 = {g3}
    NoAddr = {g4}
    Keys = {k1, k2}
    NoKey = noKey
    MaxList = 3
INVARIANTS TypeOK ResultIsTheSessions GivesUpLast TriedInOrder
PROPERTIES CallEnds KeepsPromise
\* A call that ended has nothing left to do.
CHECK_DEADLOCK FALSE
