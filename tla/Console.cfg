SPECIFICATION Spec
CONSTANTS
    Tabs = {tab1, tab2}
    Passwords = {secret1, secret2}
    MaxId = 2
SYMMETRY Symmetry
INVARIANTS TypeOK RedirectsSettle ConsoleActsOnItsAccount
PROPERTY LogoutUndoneOnlyByOverlap
