\* Two users, two businesses, one number.
CONSTANTS
    Users = {u1, u2}
    NoUser = NoUser
    Orgs = {o1, o2}
    NoOrg = NoOrg
    Numbers = {n1}
    NoNumber = NoNumber
    Requests = {r1, r2}
    MaxCodes = 1
    MaxSessions = 2
    MaxInvites = 2
    MaxRows = 2
    MaxOps = 5
SPECIFICATION Spec
SYMMETRY Symmetry
INVARIANTS JoinedByInvite OneDefault Managed
PROPERTIES RoutingStays
CHECK_DEADLOCK FALSE
