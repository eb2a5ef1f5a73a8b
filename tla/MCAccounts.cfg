SPECIFICATION MCSpec
CONSTANTS
    r1 = r1  r2 = r2  r3 = r3  r4 = r4
    ana = ana  bia = bia
    id1 = id1  id2 = id2  id3 = id3
    a1 = a1  a2 = a2  u1 = u1  u2 = u2
    NoOne = NoOne
    Requests = {r1, r2, r3, r4}
    AuthOf <- MCAuthOf
    EmailOf <- MCEmailOf
    RoleOf <- MCRoleOf
    CodeOf <- MCCodeOf
    Accepting = {r1, r2, r4}
    Activations = {a1, a2}
    Addresses = {home, work, vague}
    Complete = {home, work}
    NoAddress = NoAddress
    Updates = {u1, u2}
SYMMETRY Symmetry
INVARIANTS TypeOK SignUpIsWhole PartnerHasCode CoordinatesMatchAddress
CHECK_DEADLOCK FALSE
