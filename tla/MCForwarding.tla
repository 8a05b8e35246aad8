------------------------------ MODULE MCForwarding ------------------------------
(* A ward of a union of one upazila and a union of another; an official of the    *)
(* ward, of each upazila's side and of the seat; an admin beside the reporter and   *)
(* one in the other upazila, for TLC.                                             *)
EXTENDS Forwarding, TLC

CONSTANTS seat, z1, z2, u1, u2, w1, ward, chair, mp, far, a1, a2

MCLevel == (seat :> "seat" @@ z1 :> "upazila" @@ z2 :> "upazila" @@ u1 :> "union"
            @@ u2 :> "union" @@ w1 :> "ward")
MCParent == (seat :> None @@ z1 :> seat @@ z2 :> seat @@ u1 :> z1 @@ u2 :> z2 @@ w1 :> u1)
MCDirectory == (ward :> [tier |-> "ward_member", area |-> w1]
                @@ chair :> [tier |-> "upazila_chairman", area |-> z1]
                @@ mp :> [tier |-> "mp", area |-> seat]
                @@ far :> [tier |-> "union_chairman", area |-> u2])
MCAdminOffice == (a1 :> ward @@ a2 :> far)

Requests == Permutations(Request)
=============================================================================
