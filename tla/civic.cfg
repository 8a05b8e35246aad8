SPECIFICATION CivicSpec
CONSTANTS
    seat = seat
    z1 = z1
    z2 = z2
    u1 = u1
    u2 = u2
    w1 = w1
    ward = ward
    chair = chair
    mp = mp
    a1 = a1
    far = far
    a2 = a2
    Area = {seat, z1, z2, u1, u2, w1}
    Level <- MCLevel
    Parent <- MCParent
    Admin = {a1, a2}
    AdminOffice <- MCAdminOffice
    None = None
    Directory <- MCDirectory
    Where = w1
    SuperAdmin = {s}
    Request = {r1, r2}
    rep = rep
    v1 = v1
    v2 = v2
    p1 = p1
    c1 = c1
    Suggestion = {1, 2}
    Voter = {v1, v2}
    Asking = {r1, r2}
    NoTop = None
    NoPlan = NoPlan
    Resident = {s1}
    Unblocking = {p1}
    Speaking = {r1, r2}
    MaxObstacles = 2
    Account = {"acc-1", "acc-2"}
    Office = {"off-1"}
    MaxMessages = 3
    MaxMoment = 2
    Limit = 2
    Viewer = {rep, a1, a2}
    Anonymous = None
    Reporter = rep
    UnionOf <- MCUnionOf
    Union <- MCUnion
    Nowhere = None
    Reader = {c1}
SYMMETRY Alike
INVARIANTS
    HandoverIsSound
    ListsAreTrue
    VoicesAreCounted
    
    
    
PROPERTIES
    OwnVoteOnly
    
    ReadStaysRead
CHECK_DEADLOCK FALSE
