CONSTANTS
    Emails = {m1}
    Requests = {r1, r2}
    Idle = Idle
    Hosts = {h1, h2}
    Founded = {f1}
    Invites = {i1, i2}
    Tokens = {t1, t2}
    Nowhere = Nowhere
    Nobody = Nobody
SPECIFICATION Spec
SYMMETRY Symmetry
INVARIANTS
    TypeOK
    OneTokenPerSignIn
    OnlyProven
    AcceptedJoins
PROPERTIES
    ImplementsAccountLife
