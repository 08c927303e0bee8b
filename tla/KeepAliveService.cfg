SPECIFICATION Spec
CONSTANTS
    Accounts = {a1, a2}
    Machines = {m1, m2}
    Clients = {c1, c2}
    Lifespan = lifespan
    Rts = {t1, t2}
    Runners = {r1, r2}
    MaxLate = 1
    None = none
SYMMETRY Symmetry
INVARIANTS TypeOK LiveTopIsRegistered ServedOnlyIfEnabled
    StoppedRunnersAreLetGo OrphansAreLate ShutdownIsComplete
