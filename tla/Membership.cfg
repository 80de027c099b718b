SPECIFICATION Spec
CONSTANTS
    Owner = owner  People = {p1}
    Studies = {s1}
    Workers = {w1, w2}
    MaxRequests = 4
INVARIANTS TypeOK  InvitationsAreLinked RolesAgree
PROPERTIES RemovalNeverGrants
CHECK_DEADLOCK FALSE
