SPECIFICATION Spec
CONSTANTS
    p1 = p1
    p2 = p2
    p3 = p3
    ward = ward
    seat = seat
    u1 = u1
    u2 = u2
    a1 = a1
    a2 = a2
    Phone = {p1, p2, p3}
    Seeded = {p3}
    Office = {ward, seat}
    SeedOffice <- MCSeedOffice
    UnionOffice = {ward}
    UnionOf <- MCUnionOf
    Union = {u1, u2}
    Admin = {a1, a2}
    AdminUnion <- MCAdminUnion
    SuperAdmin = {s}
    Request = {r1, r2}
    None = None
INVARIANTS
    Inv
    PowerHasRecord
    TrailIsEarned
PROPERTIES
    SeatIsKept
