------------------------ MODULE MCSportsResourcePool ------------------------
(* A small instance of SportsResourcePool for TLC.                         *)
EXTENDS SportsResourcePool, TLC

CONSTANTS u1, u2, t1, s1, s2, f1, l1, l2, l3, p1, p2

MCConfig(c1, c2, fp, limit) ==
    [capacity  |-> s1 :> c1 @@ s2 :> c2,
     bindings  |-> t1 :> (s1 :> fp @@ s2 :> None),
     userLimit |-> limit]

\* The shared canary on s1; the canary revoked and s2 withdrawn.
MCConfigs == {MCConfig(1, 1, f1, 2), MCConfig(1, 0, None, 1)}

MCCandidateLists == {<<s1, s2>>}

MCSymmetry ==
    Permutations({u1, u2}) \cup Permutations({l1, l2, l3}) \cup Permutations({p1, p2})
=============================================================================
