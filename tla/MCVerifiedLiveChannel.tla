----------------------- MODULE MCVerifiedLiveChannel -----------------------
(* One channel, two workers, one destination that could carry two streams. *)
EXTENDS VerifiedLiveChannel, TLC

CONSTANTS d, k

MCLeases == Workers \X (1..MaxLives)
MCGenerations == 1..MaxEpoch
MCKeysOf == d :> {k}
MCCapacity == k :> 2

Symmetry == Permutations(Tokens) \cup Permutations(Workers)

(* Nothing reads leaked but OrphansReserved. *)
Tracked == <<avars, lvars, loc, lives>>
=============================================================================
