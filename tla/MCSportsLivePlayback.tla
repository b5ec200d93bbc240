------------------------ MODULE MCSportsLivePlayback ------------------------
(* A small instance of SportsLivePlayback for TLC.                         *)
EXTENDS SportsLivePlayback, TLC

CONSTANTS r1, r2, u1, t1, s1, f1

\* One viewer who opens the channel twice.
MCViewer == r1 :> u1 @@ r2 :> u1
MCChannel == r1 :> t1 @@ r2 :> t1

MCCandidates == <<s1>>

MCConfig(fp, limit) ==
    [capacity |-> s1 :> 1, bindings |-> t1 :> (s1 :> fp), userLimit |-> limit]

MCShared == {MCConfig(f1, 2)}
MCExclusive == {MCConfig(None, 1)}
MCConfigs == MCShared \cup MCExclusive

MCSymmetry == Permutations({r1, r2})
=============================================================================
