SPECIFICATION Spec
CONSTANTS
    Accounts = {a1}
    Machines = {m1, m2}
    Clients = {c1}
    Lifespan = lifespan
    Rts = {t1}
    Runners = {r1, r2, r3}
    MaxLate = 1
    None = none
INVARIANT OneRunnerPerMachine
