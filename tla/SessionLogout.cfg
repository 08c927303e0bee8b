SPECIFICATION Spec
CONSTANTS
    Clients = {c1, c2}
    NoOne = NoOne
    MaxTickets = 3
    MaxIds = 2
INVARIANT LogoutIsFinal
