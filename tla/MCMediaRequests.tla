---- MODULE MCMediaRequests ----
(* r1 goes through receipt recovery, r2 takes the legacy path and covers the *)
(* season of r1 among others.                                                *)
EXTENDS MediaRequests, TLC
CONSTANTS r1, r2
MCCovers == r1 :> {"s1"} @@ r2 :> {"s1", "s2"}
MCEvents == Requests \X ({"SUBMITTED"} \cup ExtInitial \cup ExtLater)
====
