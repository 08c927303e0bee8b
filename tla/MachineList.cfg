SPECIFICATION Spec
CONSTANTS
    Machines = {m1, m2}
    Requests = {r1, r2}
    Statuses = {"available", "inactive", "shutdown"}
    MaxChanges = 1
SYMMETRY Symmetry
INVARIANTS TypeOK RowsTellTheTruth RunnersFollowPower
