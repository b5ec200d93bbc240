------------------------ MODULE SportsSessionRegistry ------------------------
(***************************************************************************)
(* The cross-process registry of live sports sessions                      *)
(* (atlas/sports_session_registry.py).  A session row links the viewer to  *)
(* the resource lease that backs it.  The methods that look at other rows  *)
(* prune every expired one; the release methods prune nothing, so that an  *)
(* expired session can still be released with its lease.                   *)
(*                                                                         *)
(* The module states the methods as actions over one table; the programs   *)
(* that call them are modelled where they are composed.                    *)
(***************************************************************************)
EXTENDS Integers, FiniteSets

CONSTANTS Ttl   \* ttl_seconds

VARIABLES
    sessions,   \* the state file: session id -> row
    clock       \* time.time(), in ticks

IsExpired(s) == clock - sessions[s].seen >= Ttl

Pruned == [s \in {s \in DOMAIN sessions : ~IsExpired(s)} |-> sessions[s]]

OwnedBy(table, u) == {s \in DOMAIN table : table[s].user = u}

Owned(table, s, u) == s \in DOMAIN table /\ table[s].user = u

MayAdmit(u, limit) == Cardinality(OwnedBy(Pruned, u)) < limit

\* admit() when it succeeds; a refusal raises before anything is written.
Admit(s, u, limit, lease) ==
    /\ MayAdmit(u, limit)
    /\ s \notin DOMAIN Pruned
    /\ sessions' = [k \in DOMAIN Pruned \cup {s} |->
                       IF k = s THEN [user |-> u, lease |-> lease, created |-> clock, seen |-> clock]
                                ELSE Pruned[k]]

\* Mutant: a missing session is written again.
HeartbeatMutant(s, u) ==
    sessions' = [k \in DOMAIN Pruned \cup {s} |->
                    IF k = s THEN [user |-> u, lease |-> s, created |-> clock, seen |-> clock]
                             ELSE Pruned[k]]

Heartbeat(s, u) ==
    /\ Owned(Pruned, s, u)
    /\ sessions' = [Pruned EXCEPT ![s].seen = clock]

HeartbeatMissing(s, u) ==
    /\ ~Owned(Pruned, s, u)
    /\ sessions' = Pruned

\* release_record() and release(): no pruning.
ReleaseRecord(s, u) ==
    /\ Owned(sessions, s, u)
    /\ sessions' = [k \in DOMAIN sessions \ {s} |-> sessions[k]]

\* snapshot_active(), active_count_for_user() and list_active_for_user().
SnapshotActive == sessions' = Pruned
=============================================================================
