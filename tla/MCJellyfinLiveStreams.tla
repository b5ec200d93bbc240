----------------------- MODULE MCJellyfinLiveStreams -----------------------
(* A small instance of JellyfinLiveStreams for TLC.                        *)
EXTENDS JellyfinLiveStreams, TLC

CONSTANTS a, b, c, u1, u2

MCOwner == a :> u1 @@ b :> u1 @@ c :> u2
=============================================================================
