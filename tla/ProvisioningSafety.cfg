CONSTANTS
    Sessions = {s1, s2}
    user = user
    Users <- OneUser
    Names = {s1, s2}
    UserOf <- UserOfAll
    NameOf <- OwnNames
    Calls = {c1, c2, c3}
    LastTry = {}
    LastTask = 3
    MaxRetries = 1
    NoOrg = NoOrg
    NoSession = NoSession
SPECIFICATION Spec
SYMMETRY Symmetry
INVARIANTS
    TypeOK
    SessionsOwnTheirOrg
PROPERTIES
    ImplementsWorkspaces
