SPECIFICATION FairSpec
CONSTANTS
    Accounts = {a1}
    Machines = {m1}
    Clients = {c1, c2}
    Lifespan = lifespan
    Rts = {t1}
    Runners = {r1, r2, r3}
    MaxLate = 1
    None = none
PROPERTIES RequestsReturn LoginMachinesGetRunners
