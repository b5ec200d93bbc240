------------------------ MODULE MCReservationLedger ------------------------
(* Two destinations on one account: their account counter is shared. *)
EXTENDS ReservationLedger, TLC

CONSTANTS d1, d2, p1, p2, a1

MCKeysOf == d1 :> {p1, a1} @@ d2 :> {p2, a1}
MCCapacity == p1 :> 1 @@ p2 :> 1 @@ a1 :> 2

Symmetry == Permutations(Tokens) \cup Permutations(Playbacks) \cup Permutations(Viewers)
             \cup Permutations(Lives)
=============================================================================
