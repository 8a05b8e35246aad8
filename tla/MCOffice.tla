-------------------------------- MODULE MCOffice --------------------------------
(* A ward office and one above the union, two unions, an admin of each, and a    *)
(* seeded official, for TLC.                                                     *)
EXTENDS Office, TLC

CONSTANTS p1, p2, p3, ward, seat, u1, u2, a1, a2

MCSeedOffice == (p3 :> seat)
MCUnionOf == (ward :> u1)
MCAdminUnion == (a1 :> u1 @@ a2 :> u2)
=============================================================================
