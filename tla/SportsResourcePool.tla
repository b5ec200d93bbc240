------------------------- MODULE SportsResourcePool -------------------------
(***************************************************************************)
(* The shared pool of upstream sports connections                          *)
(* (atlas/sports_resource_pool.py).  Several Atlas processes open the same *)
(* JSON file under an exclusive flock.  A lease is either exclusive (one   *)
(* upstream connection of its own) or shared: leases that carry the same   *)
(* sharing fingerprint for the same target ride on one connection.         *)
(*                                                                         *)
(* Every public method reads the clock BEFORE it waits for the lock, so a  *)
(* call has two steps here: Begin... (arguments, configuration and clock   *)
(* are captured) and the locked section, which is one atomic step because  *)
(* the file is replaced atomically while the lock is held.                 *)
(***************************************************************************)
EXTENDS Integers, Sequences, FiniteSets

CONSTANTS
    Users, Targets, Sources,
    Fingerprints,   \* SHA256 sharing identities
    LeaseIds,       \* what lease_id_factory can return
    Callers,        \* concurrent calls in flight, over all processes
    Configs,        \* configurations an admission may have loaded
    CandidateLists, \* ranked candidates a route may pass
    Ttl,            \* ttl_seconds
    MaxClock,       \* bound on the clock
    None

ASSUME TtlAssumption == Ttl \in Nat \ {0}
ASSUME CandidateAssumption == CandidateLists \subseteq Seq(Sources)
ASSUME NoneAssumption == None \notin Fingerprints
ASSUME ConfigAssumption ==
    Configs \subseteq
        [capacity  : [Sources -> Nat],
         bindings  : [Targets -> [Sources -> Fingerprints \cup {None}]],
         userLimit : Nat \ {0}]

VARIABLES
    leases,   \* the state file: lease id -> lease
    issued,   \* lease ids ever handed out (a UUID is never drawn twice)
    clock,    \* time.time(), in ticks
    config,   \* the configuration an admission would load now
    calls     \* caller -> the call it has begun, or Idle

vars == <<leases, issued, clock, config, calls>>

Lease == [user : Users, target : Targets, source : Sources,
          created : Nat, seen : Nat, fp : Fingerprints \cup {None}]

Idle == [op |-> "idle"]

Call == {Idle}
    \cup [op : {"acquire"}, now : Nat, user : Users, target : Targets,
          candidates : CandidateLists, config : Configs]
    \cup [op : {"heartbeat", "release"}, now : Nat, user : Users,
          lease : LeaseIds]
    \cup [op : {"snapshot"}, now : Nat]

TypeOK ==
    /\ DOMAIN leases \subseteq LeaseIds
    /\ leases \in [DOMAIN leases -> Lease]
    /\ issued \subseteq LeaseIds
    /\ clock \in Nat
    /\ config \in Configs
    /\ calls \in [Callers -> Call]

-----------------------------------------------------------------------------
(* Helpers of the locked sections.  ls is a lease table.                   *)

IsShared(row) == row.fp # None

Expired(row, now) == now - row.seen >= Ttl

\* Mutant: every stale lease is pruned, shared or not.
PruneStaleMutant(ls, now) ==
    [l \in {l \in DOMAIN ls : ~Expired(ls[l], now)} |-> ls[l]]

\* Time alone never frees a shared lease: its stream may still be open.
PruneStale(ls, now) ==
    [l \in {l \in DOMAIN ls : IsShared(ls[l]) \/ ~Expired(ls[l], now)} |-> ls[l]]

Identity(ls, l) ==
    IF IsShared(ls[l]) THEN <<"shared", ls[l].target, ls[l].fp>>
                       ELSE <<"exclusive", l, None>>

On(ls, s) == {l \in DOMAIN ls : ls[l].source = s}

\* The upstream connections in use on source s.
Allocations(ls, s) == {Identity(ls, l) : l \in On(ls, s)}

OwnedBy(ls, u) == {l \in DOMAIN ls : ls[l].user = u}

Joining(ls, c, s) ==
    /\ c.config.bindings[c.target][s] # None
    /\ \E l \in On(ls, s) : /\ ls[l].target = c.target
                            /\ ls[l].fp = c.config.bindings[c.target][s]

\* Mutant: only the caller's own expired leases are looked at.
NeedsReconciliationMutant(ls, c, s) ==
    /\ Joining(ls, c, s)
    /\ \E l \in On(ls, s) : ls[l].user = c.user /\ IsShared(ls[l]) /\ Expired(ls[l], c.now)

\* A shared lease on s has expired and nobody has confirmed its cleanup.
NeedsReconciliation(ls, c, s) ==
    /\ Joining(ls, c, s)
    /\ \E l \in On(ls, s) : IsShared(ls[l]) /\ Expired(ls[l], c.now)

\* Mutant: a new connection is admitted on the joining test's bound.
HasRoomMutant(ls, c, s) ==
    Cardinality(Allocations(ls, s)) <= c.config.capacity[s]

HasRoom(ls, c, s) ==
    LET used == Cardinality(Allocations(ls, s))
    IN  \/ Joining(ls, c, s) /\ used <= c.config.capacity[s]
        \/ used < c.config.capacity[s]

\* The scan of the candidates stops at the first one that is usable or that
\* raises; a candidate without capacity is skipped before either test.
Stops(ls, c, s) ==
    /\ c.config.capacity[s] > 0
    /\ NeedsReconciliation(ls, c, s) \/ HasRoom(ls, c, s)

SelectedSource(ls, c, s) ==
    \E i \in DOMAIN c.candidates :
        /\ c.candidates[i] = s
        /\ Stops(ls, c, s) /\ ~NeedsReconciliation(ls, c, s)
        /\ \A j \in 1..(i - 1) : ~Stops(ls, c, c.candidates[j])

\* Mutant: off by one.
UnderUserLimitMutant(ls, c) ==
    Cardinality(OwnedBy(ls, c.user)) <= c.config.userLimit

UnderUserLimit(ls, c) ==
    Cardinality(OwnedBy(ls, c.user)) < c.config.userLimit

\* What acquire answers: a lease on s is granted ...
Admits(ls, c, s) ==
    UnderUserLimit(ls, c) /\ SelectedSource(ls, c, s)

Granted(c, s) ==
    [user |-> c.user, target |-> c.target, source |-> s,
     created |-> c.now, seen |-> c.now, fp |-> c.config.bindings[c.target][s]]

WithLease(ls, l, row) == [k \in DOMAIN ls \cup {l} |-> IF k = l THEN row ELSE ls[k]]

WithoutLease(ls, l) == [k \in DOMAIN ls \ {l} |-> ls[k]]

Owns(ls, c) == c.lease \in DOMAIN ls /\ ls[c.lease].user = c.user

-----------------------------------------------------------------------------
(* The calls.                                                              *)

Init ==
    /\ leases = [l \in {} |-> Idle]
    /\ issued = {}
    /\ clock = 0
    /\ config \in Configs
    /\ calls = [p \in Callers |-> Idle]

Begin(p, c) ==
    /\ calls[p] = Idle
    /\ calls' = [calls EXCEPT ![p] = c]
    /\ UNCHANGED <<leases, issued, clock, config>>

BeginAcquire(p, u, t, cands) ==
    Begin(p, [op |-> "acquire", now |-> clock, user |-> u, target |-> t,
              candidates |-> cands, config |-> config])

\* Only an acquire hands out a lease id, so a caller names one that is in
\* the table or was there.
BeginOwned(p, op, u, l) ==
    /\ l \in issued
    /\ Begin(p, [op |-> op, now |-> clock, user |-> u, lease |-> l])

BeginSnapshot(p) == Begin(p, [op |-> "snapshot", now |-> clock])

Finish(p) ==
    /\ calls' = [calls EXCEPT ![p] = Idle]
    /\ UNCHANGED <<clock, config>>

Running(p, op) == calls[p].op = op

Acquire(p, l) ==
    LET ls == PruneStale(leases, calls[p].now)
    IN  /\ Running(p, "acquire")
        /\ l \notin issued
        /\ issued' = issued \cup {l}
        /\ \E s \in Sources :
              /\ Admits(ls, calls[p], s)
              /\ leases' = WithLease(ls, l, Granted(calls[p], s))
        /\ Finish(p)

\* User limit, exhaustion or reconciliation: raised before anything is
\* written, so not even the pruning is saved.
AcquireRefused(p) ==
    /\ Running(p, "acquire")
    /\ \A s \in Sources : ~Admits(PruneStale(leases, calls[p].now), calls[p], s)
    /\ leases' = leases
    /\ UNCHANGED issued
    /\ Finish(p)

Heartbeat(p) ==
    LET c == calls[p]
        ls == PruneStale(leases, c.now)
    IN  /\ Running(p, "heartbeat")
        /\ Owns(ls, c)
        /\ ~(IsShared(ls[c.lease]) /\ Expired(ls[c.lease], c.now))
        /\ leases' = [ls EXCEPT ![c.lease].seen = c.now]
        /\ UNCHANGED issued
        /\ Finish(p)

\* An expired shared consumer may not come back.
HeartbeatExpired(p) ==
    LET c == calls[p]
        ls == PruneStale(leases, c.now)
    IN  /\ Running(p, "heartbeat")
        /\ Owns(ls, c)
        /\ IsShared(ls[c.lease]) /\ Expired(ls[c.lease], c.now)
        /\ leases' = leases
        /\ UNCHANGED issued
        /\ Finish(p)

Release(p) ==
    LET ls == PruneStale(leases, calls[p].now)
    IN  /\ Running(p, "release")
        /\ Owns(ls, calls[p])
        /\ leases' = WithoutLease(ls, calls[p].lease)
        /\ UNCHANGED issued
        /\ Finish(p)

\* The pruned table is written back even when the lease is not there.
OwnedMissing(p) ==
    LET ls == PruneStale(leases, calls[p].now)
    IN  /\ Running(p, "heartbeat") \/ Running(p, "release")
        /\ ~Owns(ls, calls[p])
        /\ leases' = ls
        /\ UNCHANGED issued
        /\ Finish(p)

Snapshot(p) ==
    /\ Running(p, "snapshot")
    /\ leases' = PruneStale(leases, calls[p].now)
    /\ UNCHANGED issued
    /\ Finish(p)

\* The process dies while it waits for the lock, or before os.replace.
Crash(p) ==
    /\ calls[p] # Idle
    /\ leases' = leases
    /\ UNCHANGED issued
    /\ Finish(p)

\* Mutant: the wall clock may be stepped back.
TickMutant ==
    /\ clock < MaxClock
    /\ clock' \in {clock + 1} \cup 0..(clock - 1)
    /\ UNCHANGED <<leases, issued, config, calls>>

Tick ==
    /\ clock < MaxClock
    /\ clock' = clock + 1
    /\ UNCHANGED <<leases, issued, config, calls>>

Reconfigure ==
    /\ config' \in Configs \ {config}
    /\ UNCHANGED <<leases, issued, clock, calls>>

Locked(p) ==
    \/ \E l \in LeaseIds : Acquire(p, l)
    \/ AcquireRefused(p)
    \/ Heartbeat(p)
    \/ HeartbeatExpired(p)
    \/ Release(p)
    \/ OwnedMissing(p)
    \/ Snapshot(p)

BeginAny(p) ==
    \/ \E u \in Users, t \in Targets, cands \in CandidateLists :
          BeginAcquire(p, u, t, cands)
    \/ \E op \in {"heartbeat", "release"}, u \in Users, l \in LeaseIds :
          BeginOwned(p, op, u, l)
    \/ BeginSnapshot(p)

Next ==
    \/ \E p \in Callers : BeginAny(p) \/ Locked(p) \/ Crash(p)
    \/ Tick
    \/ Reconfigure

Spec == Init /\ [][Next]_vars

-----------------------------------------------------------------------------
(* Properties.                                                             *)

\* The connections in use on a source never exceed the capacity of every
\* configuration: concurrent acquires, shared joins, pruning with an old
\* clock reading and a revoked binding never oversubscribe an upstream.
AllocationsWithinCapacity ==
    \A s \in Sources : \E k \in Configs :
        Cardinality(Allocations(leases, s)) <= k.capacity[s]

\* No user holds more leases than the largest limit ever configured, the
\* expired ones nobody has pruned yet included.
UserWithinLimit ==
    \A u \in Users : \E k \in Configs :
        Cardinality(OwnedBy(leases, u)) <= k.userLimit

\* _read_state refuses the whole file when one lease was last seen before it
\* was created; no interleaving of late locked sections writes such a row.
TimestampsConsistent ==
    \A l \in DOMAIN leases : leases[l].created <= leases[l].seen

\* A lease leaves the table when its owner releases it, or when it is
\* exclusive and really expired; a shared one never leaves by time alone.
LeavesByOwnerOrExpiry ==
    [][\A l \in DOMAIN leases \ DOMAIN leases' :
          \/ ~IsShared(leases[l]) /\ Expired(leases[l], clock)
          \/ \E p \in Callers : /\ Running(p, "release") /\ calls'[p] = Idle
                               /\ calls[p].lease = l
                               /\ calls[p].user = leases[l].user]_vars

\* A call that starts after a shared consumer expired neither revives it nor
\* puts a new viewer on its connection: it waits for a confirmed cleanup.
ExpiredSharedIsFenced ==
    [][\A p \in Callers, l \in DOMAIN leases :
          ( /\ calls[p] # Idle /\ calls'[p] = Idle
            /\ IsShared(leases[l]) /\ Expired(leases[l], calls[p].now) )
          => /\ l \in DOMAIN leases' => leases'[l].seen = leases[l].seen
             /\ \A k \in DOMAIN leases' \ DOMAIN leases :
                   Identity(leases', k) = Identity(leases, l)
                      => leases'[k].source # leases[l].source]_vars

-----------------------------------------------------------------------------
(* The strengthening under which the invariants are inductive.             *)

\* A table holds finitely many leases, all of them issued; a call in flight
\* names an issued lease.
TableIssued ==
    /\ IsFiniteSet(DOMAIN leases)
    /\ DOMAIN leases \subseteq issued
    /\ \A p \in Callers : calls[p].op \in {"heartbeat", "release"} => calls[p].lease \in issued

\* Nothing was stamped in the future, and a heartbeat in flight read the
\* clock after its lease was created.
StampsBehindClock ==
    /\ \A l \in DOMAIN leases : leases[l].created <= clock
    /\ \A p \in Callers : calls[p].op # "idle" => calls[p].now <= clock
    /\ \A p \in Callers : Running(p, "heartbeat") /\ calls[p].lease \in DOMAIN leases
                            => leases[calls[p].lease].created <= calls[p].now

\* The inductive invariant of the pool: the three guarantees above with what
\* the next step of any caller needs to keep them.
PoolInv ==
    /\ TypeOK
    /\ TableIssued
    /\ StampsBehindClock
    /\ AllocationsWithinCapacity
    /\ UserWithinLimit
    /\ TimestampsConsistent
=============================================================================
