---------------------- MODULE SportsResourcePoolProofs ----------------------
(***************************************************************************)
(* Proofs about the sports resource pool, for every set of users, sources, *)
(* lease ids, callers and configurations.                                  *)
(***************************************************************************)
EXTENDS SportsResourcePool, FiniteSetTheorems, TLAPS

LeaseTable(ls) == DOMAIN ls \subseteq LeaseIds /\ ls \in [DOMAIN ls -> Lease]

-----------------------------------------------------------------------------
(* What the helpers return.                                                *)

\* A begun call is one of its four shapes (the captured arguments of
\* acquire, heartbeat, release and snapshot).
LEMMA CallShapes ==
    ASSUME NEW c \in Call
    PROVE  /\ c.op = "acquire" =>
                /\ c.now \in Nat /\ c.user \in Users /\ c.target \in Targets
                /\ c.candidates \in CandidateLists /\ c.config \in Configs
           /\ c.op \in {"heartbeat", "release"} =>
                c.now \in Nat /\ c.user \in Users /\ c.lease \in LeaseIds
           /\ c.op = "snapshot" => c.now \in Nat
  BY DEF Call, Idle

\* A configuration has a capacity per source, a limit and a binding per
\* target and source.
LEMMA ConfigFields ==
    ASSUME NEW k \in Configs
    PROVE  /\ \A s \in Sources : k.capacity[s] \in Nat
           /\ k.userLimit \in Nat
           /\ \A t \in Targets, s \in Sources :
                 k.bindings[t][s] \in Fingerprints \cup {None}
  BY ConfigAssumption

\* _prune_stale returns a sub-table.
LEMMA PruneFacts ==
    ASSUME NEW ls, LeaseTable(ls), NEW now
    PROVE  /\ LeaseTable(PruneStale(ls, now))
           /\ DOMAIN PruneStale(ls, now) \subseteq DOMAIN ls
           /\ \A l \in DOMAIN PruneStale(ls, now) : PruneStale(ls, now)[l] = ls[l]
  BY DEF LeaseTable, PruneStale

\* The row acquire writes is a lease.
LEMMA GrantedIsLease ==
    ASSUME NEW c \in Call, c.op = "acquire", NEW s \in Sources
    PROVE  Granted(c, s) \in Lease
  BY CallShapes, ConfigFields DEF Granted, Lease

\* Adding a row keeps a table.
LEMMA WithLeaseFacts ==
    ASSUME NEW ls, LeaseTable(ls), NEW l \in LeaseIds, NEW row \in Lease
    PROVE  LeaseTable(WithLease(ls, l, row))
  BY DEF LeaseTable, WithLease

\* Removing a row keeps a table and its other rows.
LEMMA WithoutLeaseFacts ==
    ASSUME NEW ls, LeaseTable(ls), NEW l
    PROVE  /\ LeaseTable(WithoutLease(ls, l))
           /\ DOMAIN WithoutLease(ls, l) \subseteq DOMAIN ls
           /\ \A k \in DOMAIN WithoutLease(ls, l) : WithoutLease(ls, l)[k] = ls[k]
  BY DEF LeaseTable, WithoutLease

\* Refreshing last_seen changes no other field of any row.
LEMMA RefreshFacts ==
    ASSUME NEW ls, LeaseTable(ls), NEW l \in DOMAIN ls, NEW now \in Nat
    PROVE  LET up == [ls EXCEPT ![l].seen = now]
           IN  /\ LeaseTable(up)
               /\ DOMAIN up = DOMAIN ls
               /\ \A k \in DOMAIN ls : /\ up[k].source = ls[k].source
                                       /\ up[k].target = ls[k].target
                                       /\ up[k].user = ls[k].user
                                       /\ up[k].fp = ls[k].fp
  BY DEF LeaseTable, Lease

-----------------------------------------------------------------------------
(* Type correctness.                                                       *)

\* An empty table and idle callers are well typed.
LEMMA TypeInit == Init => TypeOK
  BY DEF Init, TypeOK, Call, Idle, Lease

\* Every call and every locked section keeps the types.
LEMMA TypeStep == TypeOK /\ [Next]_vars => TypeOK'
<1> SUFFICES ASSUME TypeOK, [Next]_vars PROVE TypeOK'
  OBVIOUS
<1> USE DEF TypeOK
<1>0. LeaseTable(leases)
  BY DEF LeaseTable
<1>1. ASSUME NEW p \in Callers, NEW u \in Users, NEW t \in Targets,
             NEW cands \in CandidateLists, BeginAcquire(p, u, t, cands)
      PROVE  TypeOK'
  BY <1>1 DEF BeginAcquire, Begin, Call
<1>2. ASSUME NEW p \in Callers, NEW op \in {"heartbeat", "release"},
             NEW u \in Users, NEW l \in LeaseIds, BeginOwned(p, op, u, l)
      PROVE  TypeOK'
  BY <1>2 DEF BeginOwned, Begin, Call
<1>3. ASSUME NEW p \in Callers, BeginSnapshot(p) PROVE TypeOK'
  BY <1>3 DEF BeginSnapshot, Begin, Call
<1>4. ASSUME NEW p \in Callers, NEW l \in LeaseIds, Acquire(p, l) PROVE TypeOK'
  <2> DEFINE ls == PruneStale(leases, calls[p].now)
  <2>1. LeaseTable(ls)
    BY <1>0, PruneFacts
  <2>2. PICK s \in Sources : leases' = WithLease(ls, l, Granted(calls[p], s))
    BY <1>4 DEF Acquire
  <2>3. Granted(calls[p], s) \in Lease
    BY <1>4, GrantedIsLease DEF Acquire, Running
  <2>4. LeaseTable(leases')
    BY <2>1, <2>2, <2>3, WithLeaseFacts
  <2> QED
    BY <1>4, <2>4 DEF LeaseTable, Acquire, Finish, Call
<1>5. ASSUME NEW p \in Callers, AcquireRefused(p) \/ HeartbeatExpired(p) \/ Crash(p)
      PROVE  TypeOK'
  BY <1>5 DEF AcquireRefused, HeartbeatExpired, Crash, Finish, Call
<1>6. ASSUME NEW p \in Callers, Heartbeat(p) PROVE TypeOK'
  <2> DEFINE ls == PruneStale(leases, calls[p].now)
             up == [ls EXCEPT ![calls[p].lease].seen = calls[p].now]
  <2>1. LeaseTable(ls)
    BY <1>0, PruneFacts
  <2>2. calls[p].now \in Nat /\ calls[p].lease \in DOMAIN ls /\ leases' = up
    BY <1>6, CallShapes DEF Heartbeat, Running, Owns
  <2>3. LeaseTable(up)
    BY <2>1, <2>2, RefreshFacts
  <2> QED
    BY <1>6, <2>2, <2>3 DEF LeaseTable, Heartbeat, Finish, Call
<1>7. ASSUME NEW p \in Callers, Release(p) PROVE TypeOK'
  <2>1. LeaseTable(leases')
    BY <1>0, <1>7, PruneFacts, WithoutLeaseFacts DEF Release
  <2> QED
    BY <1>7, <2>1 DEF LeaseTable, Release, Finish, Call
<1>8. ASSUME NEW p \in Callers, OwnedMissing(p) \/ Snapshot(p) PROVE TypeOK'
  <2>1. LeaseTable(leases')
    BY <1>0, <1>8, PruneFacts DEF OwnedMissing, Snapshot
  <2> QED
    BY <1>8, <2>1 DEF LeaseTable, OwnedMissing, Snapshot, Finish, Call
<1>9. ASSUME Tick \/ Reconfigure PROVE TypeOK'
  BY <1>9 DEF Tick, Reconfigure
<1>10. ASSUME UNCHANGED vars PROVE TypeOK'
  BY <1>10 DEF vars
<1> QED
  BY <1>1, <1>2, <1>3, <1>4, <1>5, <1>6, <1>7, <1>8, <1>9, <1>10
  DEF Next, BeginAny, Locked

\* Every reachable state of the pool is well typed, for any number of
\* processes and leases.
THEOREM TypeCorrect == Spec => []TypeOK
  BY TypeInit, TypeStep, PTL DEF Spec

-----------------------------------------------------------------------------
(* Counting connections and leases.                                        *)

\* A sub-table uses a subset of the connections and of a user's leases.
LEMMA SubTable ==
    ASSUME NEW ls, NEW sub, DOMAIN sub \subseteq DOMAIN ls,
           \A l \in DOMAIN sub : /\ sub[l].source = ls[l].source
                                 /\ sub[l].target = ls[l].target
                                 /\ sub[l].user = ls[l].user
                                 /\ sub[l].fp = ls[l].fp
    PROVE  /\ \A s : Allocations(sub, s) \subseteq Allocations(ls, s)
           /\ \A u : OwnedBy(sub, u) \subseteq OwnedBy(ls, u)
  BY DEF Allocations, On, Identity, IsShared, OwnedBy

\* A finite table uses finitely many connections.
LEMMA FiniteUse ==
    ASSUME NEW ls, IsFiniteSet(DOMAIN ls)
    PROVE  /\ \A s : IsFiniteSet(Allocations(ls, s))
           /\ \A u : IsFiniteSet(OwnedBy(ls, u))
<1>1. ASSUME NEW s PROVE IsFiniteSet(Allocations(ls, s))
  <2>1. IsFiniteSet(On(ls, s))
    BY FS_Subset DEF On
  <2>2. IsFiniteSet({Identity(ls, l) : l \in On(ls, s)})
    <3> DEFINE f == [l \in On(ls, s) |-> Identity(ls, l)]
               T == {Identity(ls, l) : l \in On(ls, s)}
    <3>1. f \in Surjection(On(ls, s), T)
      BY DEF Surjection
    <3> QED
      BY <2>1, <3>1, FS_Surjection DEF ExistsSurjection
  <2> QED
    BY <2>2 DEF Allocations
<1>2. ASSUME NEW u PROVE IsFiniteSet(OwnedBy(ls, u))
  BY FS_Subset DEF OwnedBy
<1> QED
  BY <1>1, <1>2

\* One more element adds at most one to a cardinality.
LEMMA AddOne ==
    ASSUME NEW S, IsFiniteSet(S), NEW x
    PROVE  /\ IsFiniteSet(S \cup {x})
           /\ Cardinality(S \cup {x}) \in Nat
           /\ Cardinality(S) \in Nat
           /\ Cardinality(S \cup {x}) <= Cardinality(S) + 1
<1>1. IsFiniteSet(S \cup {x}) /\ Cardinality(S) \in Nat
  BY FS_AddElement, FS_CardinalityType
<1>2. Cardinality(S \cup {x}) = Cardinality(S) \/ Cardinality(S \cup {x}) = Cardinality(S) + 1
  BY FS_AddElement
<1> QED
  BY <1>1, <1>2

\* Leases within the limits of one of the configurations K.
WithinLimits(ls, K) ==
    /\ \A s \in Sources : \E k \in K : Cardinality(Allocations(ls, s)) <= k.capacity[s]
    /\ \A u \in Users : \E k \in K : Cardinality(OwnedBy(ls, u)) <= k.userLimit

\* A sub-table of a table within its limits is within them.
LEMMA SubTableWithin ==
    ASSUME NEW K \in SUBSET Configs,
           NEW ls, NEW sub, IsFiniteSet(DOMAIN ls), WithinLimits(ls, K),
           \A s : Allocations(sub, s) \subseteq Allocations(ls, s),
           \A u : OwnedBy(sub, u) \subseteq OwnedBy(ls, u)
    PROVE  WithinLimits(sub, K)
<1>1. ASSUME NEW s \in Sources
      PROVE  \E k \in K : Cardinality(Allocations(sub, s)) <= k.capacity[s]
  <2>1. PICK k \in K : Cardinality(Allocations(ls, s)) <= k.capacity[s]
    BY DEF WithinLimits
  <2>2. /\ IsFiniteSet(Allocations(ls, s))
        /\ Cardinality(Allocations(sub, s)) <= Cardinality(Allocations(ls, s))
        /\ IsFiniteSet(Allocations(sub, s))
    BY FiniteUse, FS_Subset
  <2>3. /\ Cardinality(Allocations(ls, s)) \in Nat
        /\ Cardinality(Allocations(sub, s)) \in Nat
        /\ k.capacity[s] \in Nat
    BY <2>2, FS_CardinalityType, ConfigFields
  <2> QED
    BY <2>1, <2>2, <2>3
<1>2. ASSUME NEW u \in Users
      PROVE  \E k \in K : Cardinality(OwnedBy(sub, u)) <= k.userLimit
  <2>1. PICK k \in K : Cardinality(OwnedBy(ls, u)) <= k.userLimit
    BY DEF WithinLimits
  <2>2. /\ IsFiniteSet(OwnedBy(ls, u))
        /\ Cardinality(OwnedBy(sub, u)) <= Cardinality(OwnedBy(ls, u))
        /\ IsFiniteSet(OwnedBy(sub, u))
    BY FiniteUse, FS_Subset
  <2>3. /\ Cardinality(OwnedBy(ls, u)) \in Nat
        /\ Cardinality(OwnedBy(sub, u)) \in Nat
        /\ k.userLimit \in Nat
    BY <2>2, FS_CardinalityType, ConfigFields
  <2> QED
    BY <2>1, <2>2, <2>3
<1> QED
  BY <1>1, <1>2 DEF WithinLimits

\* What an admission adds: on the selected source at most one connection,
\* none when the lease joins a shared one; one lease for its user.
LEMMA AdmissionWithin ==
    ASSUME NEW K \in SUBSET Configs,
           NEW ls, LeaseTable(ls), IsFiniteSet(DOMAIN ls), WithinLimits(ls, K),
           NEW c \in Call, c.op = "acquire", c.config \in K,
           NEW l, l \notin DOMAIN ls,
           NEW s \in Sources, Admits(ls, c, s)
    PROVE  WithinLimits(WithLease(ls, l, Granted(c, s)), K)
<1> DEFINE row == Granted(c, s)
           new == WithLease(ls, l, row)
           fp  == c.config.bindings[c.target][s]
           id  == Identity(new, l)
<1>1. /\ row.source = s /\ row.user = c.user /\ row.target = c.target /\ row.fp = fp
      /\ DOMAIN new = DOMAIN ls \cup {l} /\ new[l] = row
      /\ \A k \in DOMAIN ls : new[k] = ls[k]
  BY DEF Granted, WithLease
<1>2. /\ c.user \in Users /\ c.target \in Targets /\ c.config \in K
      /\ c.config.capacity[s] \in Nat /\ c.config.userLimit \in Nat
  BY CallShapes, ConfigFields
<1>3. ASSUME NEW r \in Sources
      PROVE  \E k \in K : Cardinality(Allocations(new, r)) <= k.capacity[r]
  <2>1. CASE r # s
    <3>1. On(new, r) = On(ls, r) /\ \A k \in On(ls, r) : Identity(new, k) = Identity(ls, k)
      BY <1>1, <2>1 DEF On, Identity
    <3>2. Allocations(new, r) = Allocations(ls, r)
      BY <3>1 DEF Allocations
    <3> QED
      BY <3>2 DEF WithinLimits
  <2>2. CASE r = s
    <3>1. /\ On(new, s) = On(ls, s) \cup {l}
          /\ \A k \in On(ls, s) : Identity(new, k) = Identity(ls, k)
      BY <1>1 DEF On, Identity
    <3>2. Allocations(new, s) = Allocations(ls, s) \cup {id}
      BY <3>1 DEF Allocations
    <3>3. HasRoom(ls, c, s)
      BY DEF Admits, SelectedSource, Stops
    <3>4. /\ IsFiniteSet(Allocations(ls, s))
          /\ Cardinality(Allocations(ls, s)) \in Nat
      BY FiniteUse, FS_CardinalityType
    <3>5. CASE Joining(ls, c, s)
      <4>1. PICK k \in On(ls, s) : ls[k].target = c.target /\ ls[k].fp = fp
        BY <3>5 DEF Joining
      <4>2. fp # None
        BY <3>5 DEF Joining
      <4>3. Identity(ls, k) = id
        BY <1>1, <4>1, <4>2 DEF Identity, IsShared
      <4>4. Allocations(new, s) = Allocations(ls, s)
        BY <3>2, <4>1, <4>3 DEF Allocations
      <4>5. Cardinality(Allocations(ls, s)) <= c.config.capacity[s]
        BY <1>2, <3>3, <3>4 DEF HasRoom
      <4> QED
        BY <1>2, <2>2, <4>4, <4>5
    <3>6. CASE ~Joining(ls, c, s)
      <4>1. Cardinality(Allocations(ls, s)) < c.config.capacity[s]
        BY <3>3, <3>6 DEF HasRoom
      <4>2. /\ Cardinality(Allocations(new, s)) <= Cardinality(Allocations(ls, s)) + 1
            /\ Cardinality(Allocations(new, s)) \in Nat
        BY <3>2, <3>4, AddOne
      <4> QED
        BY <1>2, <2>2, <3>4, <4>1, <4>2
    <3> QED
      BY <3>5, <3>6
  <2> QED
    BY <2>1, <2>2
<1>4. ASSUME NEW u \in Users
      PROVE  \E k \in K : Cardinality(OwnedBy(new, u)) <= k.userLimit
  <2>1. CASE u # c.user
    <3>1. OwnedBy(new, u) = OwnedBy(ls, u)
      BY <1>1, <2>1 DEF OwnedBy
    <3> QED
      BY <3>1 DEF WithinLimits
  <2>2. CASE u = c.user
    <3>1. OwnedBy(new, u) = OwnedBy(ls, u) \cup {l}
      BY <1>1, <2>2 DEF OwnedBy
    <3>2. Cardinality(OwnedBy(ls, u)) < c.config.userLimit
      BY <2>2 DEF Admits, UnderUserLimit
    <3>3. IsFiniteSet(OwnedBy(ls, u)) /\ Cardinality(OwnedBy(ls, u)) \in Nat
      BY FiniteUse, FS_CardinalityType
    <3>4. /\ Cardinality(OwnedBy(new, u)) <= Cardinality(OwnedBy(ls, u)) + 1
          /\ Cardinality(OwnedBy(new, u)) \in Nat
      BY <3>1, <3>3, AddOne
    <3> QED
      BY <1>2, <3>2, <3>3, <3>4
  <2> QED
    BY <2>1, <2>2
<1> QED
  BY <1>3, <1>4 DEF WithinLimits

-----------------------------------------------------------------------------
(* The inductive invariant, one lemma per part.                            *)

\* The empty table satisfies the invariant.
LEMMA InvInit == Init => PoolInv
<1> SUFFICES ASSUME Init PROVE PoolInv
  OBVIOUS
<1>1. TypeOK
  BY TypeInit
<1>2. DOMAIN leases = {} /\ \A p \in Callers : calls[p].op = "idle"
  BY DEF Init, Idle
<1>3. \A s, u : Allocations(leases, s) = {} /\ OwnedBy(leases, u) = {}
  BY <1>2 DEF Allocations, On, OwnedBy
<1>4. \A s, u : Cardinality(Allocations(leases, s)) = 0 /\ Cardinality(OwnedBy(leases, u)) = 0
  BY <1>3, FS_EmptySet
<1>5. AllocationsWithinCapacity /\ UserWithinLimit
  <2>1. /\ config \in Configs /\ config.userLimit \in Nat
        /\ \A s \in Sources : config.capacity[s] \in Nat
    BY ConfigFields DEF Init
  <2> QED
    BY <1>4, <2>1 DEF AllocationsWithinCapacity, UserWithinLimit
<1> QED
  BY <1>1, <1>2, <1>5, FS_EmptySet
  DEF PoolInv, TableIssued, StampsBehindClock, TimestampsConsistent, Running

\* What a locked section that grants nothing may do to the table: drop rows,
\* and refresh the row its heartbeat names.
Shrinks(p) ==
    /\ DOMAIN leases' \subseteq DOMAIN leases
    /\ \A l \in DOMAIN leases' : /\ leases'[l].source = leases[l].source
                                  /\ leases'[l].target = leases[l].target
                                  /\ leases'[l].user = leases[l].user
                                  /\ leases'[l].fp = leases[l].fp
                                  /\ leases'[l].created = leases[l].created
    /\ \A l \in DOMAIN leases' :
          \/ leases'[l].seen = leases[l].seen
          \/ calls[p].op = "heartbeat" /\ calls[p].lease = l /\ leases'[l].seen = calls[p].now
    /\ issued' = issued
    /\ clock' = clock
    /\ calls' = [calls EXCEPT ![p] = Idle]

GrantsNothing(p) ==
    \/ AcquireRefused(p) \/ Heartbeat(p) \/ HeartbeatExpired(p) \/ Release(p)
    \/ OwnedMissing(p) \/ Snapshot(p) \/ Crash(p)

\* Every locked section but a granting acquire only shrinks the table.
LEMMA LockedShrinks ==
    ASSUME TypeOK, NEW p \in Callers, GrantsNothing(p)
    PROVE  Shrinks(p)
<1> DEFINE ls == PruneStale(leases, calls[p].now)
<1>0. LeaseTable(leases)
  BY DEF TypeOK, LeaseTable
<1>1. /\ LeaseTable(ls) /\ DOMAIN ls \subseteq DOMAIN leases
      /\ \A l \in DOMAIN ls : ls[l] = leases[l]
  BY <1>0, PruneFacts
<1>2. CASE AcquireRefused(p) \/ HeartbeatExpired(p) \/ Crash(p)
  BY <1>2 DEF AcquireRefused, HeartbeatExpired, Crash, Finish, Shrinks
<1>3. CASE OwnedMissing(p) \/ Snapshot(p)
  BY <1>1, <1>3 DEF OwnedMissing, Snapshot, Finish, Shrinks
<1>4. CASE Release(p)
  BY <1>1, <1>4, WithoutLeaseFacts DEF Release, Finish, Shrinks
<1>5. CASE Heartbeat(p)
  <2>1. calls[p].lease \in DOMAIN ls /\ leases' = [ls EXCEPT ![calls[p].lease].seen = calls[p].now]
    BY <1>5 DEF Heartbeat, Owns
  <2>2. \A l \in DOMAIN ls : ls[l] \in Lease
    BY <1>1 DEF LeaseTable
  <2> QED
    BY <1>1, <1>5, <2>1, <2>2 DEF Heartbeat, Finish, Lease, Shrinks, Running
<1> QED
  BY <1>2, <1>3, <1>4, <1>5 DEF GrantsNothing

\* Every step of a caller, a crash, a reconfiguration and the clock keeps the invariant.
LEMMA InvStep == PoolInv /\ [Next]_vars => PoolInv'
<1> SUFFICES ASSUME PoolInv, [Next]_vars PROVE PoolInv'
  OBVIOUS
<1> USE DEF PoolInv
<1>0. TypeOK' /\ LeaseTable(leases) /\ WithinLimits(leases, Configs)
  BY TypeStep DEF TypeOK, LeaseTable, WithinLimits, AllocationsWithinCapacity, UserWithinLimit
<1>a. ASSUME WithinLimits(leases', Configs) PROVE AllocationsWithinCapacity' /\ UserWithinLimit'
  BY <1>a DEF WithinLimits, AllocationsWithinCapacity, UserWithinLimit
<1>1. ASSUME NEW p \in Callers, NEW c \in Call, Begin(p, c), c.now = clock, c # Idle,
             c.op \in {"heartbeat", "release"} => c.lease \in issued
      PROVE  PoolInv'
  <2>1. leases' = leases /\ issued' = issued /\ clock' = clock
        /\ calls' = [calls EXCEPT ![p] = c]
    BY <1>1 DEF Begin
  <2>2. TableIssued'
    BY <1>1, <2>1 DEF TableIssued, TypeOK
  <2>3. StampsBehindClock'
    BY <1>1, <2>1 DEF StampsBehindClock, TypeOK, Running
  <2> QED
    BY <1>0, <1>a, <2>1, <2>2, <2>3 DEF TimestampsConsistent
<1>2. ASSUME NEW p \in Callers, BeginAny(p) PROVE PoolInv'
  <2>1. ASSUME NEW u \in Users, NEW t \in Targets, NEW cands \in CandidateLists,
               BeginAcquire(p, u, t, cands)
        PROVE  PoolInv'
    <3> DEFINE c == [op |-> "acquire", now |-> clock, user |-> u, target |-> t,
                     candidates |-> cands, config |-> config]
    <3>1. c \in Call /\ c # Idle /\ c.now = clock /\ c.op \notin {"heartbeat", "release"}
      BY DEF Call, TypeOK, Idle
    <3> QED
      BY <1>1, <2>1, <3>1 DEF BeginAcquire
  <2>2. ASSUME NEW op \in {"heartbeat", "release"}, NEW u \in Users, NEW l \in LeaseIds,
               BeginOwned(p, op, u, l)
        PROVE  PoolInv'
    <3> DEFINE c == [op |-> op, now |-> clock, user |-> u, lease |-> l]
    <3>1. c \in Call /\ c # Idle /\ c.now = clock /\ c.lease = l
      BY DEF Call, TypeOK, Idle
    <3> QED
      BY <1>1, <2>2, <3>1 DEF BeginOwned
  <2>3. ASSUME BeginSnapshot(p) PROVE PoolInv'
    <3> DEFINE c == [op |-> "snapshot", now |-> clock]
    <3>1. c \in Call /\ c # Idle /\ c.now = clock /\ c.op \notin {"heartbeat", "release"}
      BY DEF Call, TypeOK, Idle
    <3> QED
      BY <1>1, <2>3, <3>1 DEF BeginSnapshot
  <2> QED
    BY <1>2, <2>1, <2>2, <2>3 DEF BeginAny
<1>3. ASSUME NEW p \in Callers, NEW l \in LeaseIds, Acquire(p, l) PROVE PoolInv'
  <2> DEFINE ls == PruneStale(leases, calls[p].now)
  <2>1. /\ LeaseTable(ls) /\ DOMAIN ls \subseteq DOMAIN leases
        /\ \A k \in DOMAIN ls : ls[k] = leases[k]
    BY <1>0, PruneFacts
  <2>2. PICK s \in Sources : /\ Admits(ls, calls[p], s)
                             /\ leases' = WithLease(ls, l, Granted(calls[p], s))
    BY <1>3 DEF Acquire
  <2>3. /\ calls[p] \in Call /\ calls[p].op = "acquire" /\ calls[p].now \in Nat
        /\ l \notin issued /\ l \notin DOMAIN ls
        /\ issued' = issued \cup {l} /\ clock' = clock
        /\ calls' = [calls EXCEPT ![p] = Idle]
    BY <1>3, <2>1, CallShapes DEF Acquire, Running, Finish, TypeOK, TableIssued
  <2>4. IsFiniteSet(DOMAIN ls)
    BY <2>1, FS_Subset DEF TableIssued
  <2>5. WithinLimits(ls, Configs)
    <3>1. /\ \A r : Allocations(ls, r) \subseteq Allocations(leases, r)
          /\ \A u : OwnedBy(ls, u) \subseteq OwnedBy(leases, u)
      BY <2>1, SubTable
    <3> QED
      BY <1>0, <3>1, SubTableWithin DEF TableIssued
  <2>6. WithinLimits(leases', Configs)
    <3>1. calls[p].config \in Configs
      BY <2>3, CallShapes
    <3> QED
      BY <2>1, <2>2, <2>3, <2>4, <2>5, <3>1, AdmissionWithin
  <2>7. /\ DOMAIN leases' = DOMAIN ls \cup {l}
        /\ leases'[l].created = calls[p].now /\ leases'[l].seen = calls[p].now
        /\ \A k \in DOMAIN ls : leases'[k] = leases[k]
    BY <2>1, <2>2, <2>3 DEF WithLease, Granted
  <2>8. TableIssued'
    <3>1. IsFiniteSet(DOMAIN leases')
      BY <2>4, <2>7, FS_AddElement
    <3> QED
      BY <2>1, <2>3, <2>7, <3>1 DEF TableIssued, TypeOK, Idle
  <2>9. StampsBehindClock'
    BY <2>1, <2>3, <2>7 DEF StampsBehindClock, TableIssued, TypeOK, Running, Idle
  <2>10. TimestampsConsistent'
    BY <2>1, <2>3, <2>7 DEF TimestampsConsistent
  <2> QED
    BY <1>0, <1>a, <2>6, <2>8, <2>9, <2>10
<1>4. ASSUME NEW p \in Callers, GrantsNothing(p) PROVE PoolInv'
  <2>1. Shrinks(p)
    BY <1>4, LockedShrinks
  <2>2. WithinLimits(leases', Configs)
    <3>1. /\ \A s : Allocations(leases', s) \subseteq Allocations(leases, s)
          /\ \A u : OwnedBy(leases', u) \subseteq OwnedBy(leases, u)
      BY <2>1, SubTable DEF Shrinks
    <3> QED
      BY <1>0, <3>1, SubTableWithin DEF TableIssued
  <2>3. TableIssued'
    <3>1. IsFiniteSet(DOMAIN leases')
      BY <2>1, FS_Subset DEF TableIssued, Shrinks
    <3> QED
      BY <2>1, <3>1 DEF TableIssued, TypeOK, Idle, Shrinks
  <2>4. StampsBehindClock'
    BY <2>1 DEF StampsBehindClock, TypeOK, Running, Idle, Shrinks
  <2>5. TimestampsConsistent'
    BY <2>1 DEF TimestampsConsistent, StampsBehindClock, Running, Shrinks
  <2> QED
    BY <1>0, <1>a, <2>2, <2>3, <2>4, <2>5
<1>5. CASE Tick
  <2>1. leases' = leases /\ issued' = issued /\ clock' = clock + 1 /\ calls' = calls
    BY <1>5 DEF Tick
  <2>2. StampsBehindClock'
    <3>1. /\ \A l \in DOMAIN leases : leases[l].created \in Nat
          /\ \A p \in Callers : calls[p].op # "idle" => calls[p].now \in Nat
      BY DEF TypeOK, Lease, Call, Idle
    <3> QED
      BY <2>1, <3>1 DEF StampsBehindClock, TypeOK, Running
  <2> QED
    BY <1>0, <1>a, <2>1, <2>2 DEF TableIssued, TimestampsConsistent
<1>6. CASE Reconfigure \/ UNCHANGED vars
  BY <1>0, <1>6 DEF Reconfigure, vars, TableIssued, StampsBehindClock, Running,
     AllocationsWithinCapacity, UserWithinLimit, TimestampsConsistent
<1> QED
  BY <1>2, <1>3, <1>4, <1>5, <1>6 DEF Next, Locked, GrantsNothing

\* Every reachable state of the pool satisfies the invariant.
LEMMA InvHolds == Spec => []PoolInv
  BY InvInit, InvStep, PTL DEF Spec

\* However many processes acquire, join, refresh and release concurrently,
\* the connections in use on an upstream never exceed its largest configured
\* capacity.
THEOREM CapacityRespected == Spec => []AllocationsWithinCapacity
  BY InvHolds, PTL DEF PoolInv

\* No interleaving gives a user more leases than the largest limit.
THEOREM UserLimitRespected == Spec => []UserWithinLimit
  BY InvHolds, PTL DEF PoolInv

\* The file the pool writes is always one that _read_state accepts.
THEOREM TimestampsRespected == Spec => []TimestampsConsistent
  BY InvHolds, PTL DEF PoolInv

-----------------------------------------------------------------------------
(* What a step may never do.                                               *)

\* Only expiry prunes, and it prunes only exclusive leases.
LEMMA PrunedIsExpired ==
    ASSUME PoolInv, NEW p \in Callers, calls[p].op # "idle",
           NEW l \in DOMAIN leases, l \notin DOMAIN PruneStale(leases, calls[p].now)
    PROVE  ~IsShared(leases[l]) /\ Expired(leases[l], clock)
<1>1. calls[p].now <= clock /\ calls[p].now \in Nat /\ clock \in Nat
  BY DEF PoolInv, StampsBehindClock, TypeOK, Call, Idle
<1>2. leases[l].seen \in Nat
  BY DEF PoolInv, TypeOK, Lease
<1>3. ~IsShared(leases[l]) /\ Expired(leases[l], calls[p].now)
  BY DEF PruneStale
<1> QED
  BY <1>1, <1>2, <1>3, TtlAssumption DEF Expired

\* A lease is lost only to its owner's release or, when it is exclusive, to
\* an expiry that is real at the moment of the write.
THEOREM OnlyOwnerOrExpiryFrees == Spec => LeavesByOwnerOrExpiry
<1> DEFINE Kept == \A l \in DOMAIN leases \ DOMAIN leases' :
          \/ ~IsShared(leases[l]) /\ Expired(leases[l], clock)
          \/ \E p \in Callers : /\ Running(p, "release") /\ calls'[p] = Idle
                               /\ calls[p].lease = l
                               /\ calls[p].user = leases[l].user
<1>1. PoolInv /\ [Next]_vars => [Kept]_vars
  <2> SUFFICES ASSUME PoolInv, Next, NEW l \in DOMAIN leases, l \notin DOMAIN leases'
               PROVE  \/ ~IsShared(leases[l]) /\ Expired(leases[l], clock)
                      \/ \E p \in Callers : /\ Running(p, "release") /\ calls'[p] = Idle
                                           /\ calls[p].lease = l
                                           /\ calls[p].user = leases[l].user
    OBVIOUS
  <2>1. PICK p \in Callers : Locked(p)
    BY DEF Next, BeginAny, BeginAcquire, BeginOwned, BeginSnapshot, Begin, Crash, Tick, Reconfigure
  <2> DEFINE ls == PruneStale(leases, calls[p].now)
  <2>2. calls[p].op # "idle"
    BY <2>1 DEF Locked, Acquire, AcquireRefused, Heartbeat, HeartbeatExpired, Release,
       OwnedMissing, Snapshot, Running
  <2>3. CASE l \notin DOMAIN ls
    BY <2>2, <2>3, PrunedIsExpired
  <2>4. CASE l \in DOMAIN ls
    <3>1. Release(p)
      BY <2>1, <2>4 DEF Locked, Acquire, AcquireRefused, Heartbeat, HeartbeatExpired,
         OwnedMissing, Snapshot, WithLease
    <3>2. ls[l] = leases[l]
      BY <2>4 DEF PruneStale
    <3>3. l = calls[p].lease /\ calls[p].user = leases[l].user
      BY <2>4, <3>1, <3>2 DEF Release, WithoutLease, Owns
    <3>4. calls'[p] = Idle
      BY <3>1 DEF Release, Finish, PoolInv, TypeOK
    <3> QED
      BY <3>1, <3>3, <3>4 DEF Release
  <2> QED
    BY <2>3, <2>4
<1> QED
  BY <1>1, InvHolds, PTL DEF Spec, LeavesByOwnerOrExpiry

\* No call that starts after a shared consumer expired revives it or joins
\* its connection.
THEOREM ExpiredSharedFenced == Spec => ExpiredSharedIsFenced
<1> DEFINE Fenced(p, l) ==
          /\ l \in DOMAIN leases' => leases'[l].seen = leases[l].seen
          /\ \A k \in DOMAIN leases' \ DOMAIN leases :
                Identity(leases', k) = Identity(leases, l)
                   => leases'[k].source # leases[l].source
<1>1. ASSUME PoolInv, Next, NEW p \in Callers, NEW l \in DOMAIN leases,
             calls[p] # Idle, calls'[p] = Idle,
             IsShared(leases[l]), Expired(leases[l], calls[p].now)
      PROVE  Fenced(p, l)
  <2> DEFINE ls == PruneStale(leases, calls[p].now)
  <2>0. /\ LeaseTable(leases) /\ TypeOK /\ calls \in [Callers -> Call] /\ calls[p] \in Call
        /\ l \in DOMAIN ls /\ ls[l] = leases[l]
        /\ DOMAIN ls \subseteq DOMAIN leases /\ \A k \in DOMAIN ls : ls[k] = leases[k]
    BY <1>1, PruneFacts DEF PoolInv, TypeOK, LeaseTable, PruneStale
  <2>1. Locked(p) \/ Crash(p)
    <3>1. ASSUME NEW q \in Callers, q # p, BeginAny(q) \/ Locked(q) \/ Crash(q) PROVE FALSE
      <4>1. PICK c : calls' = [calls EXCEPT ![q] = c]
        BY <3>1 DEF BeginAny, BeginAcquire, BeginOwned, BeginSnapshot, Begin, Locked, Crash,
           Acquire, AcquireRefused, Heartbeat, HeartbeatExpired, Release, OwnedMissing,
           Snapshot, Finish
      <4> QED
        BY <1>1, <2>0, <3>1, <4>1
    <3>2. ~BeginAny(p)
      BY <1>1 DEF BeginAny, BeginAcquire, BeginOwned, BeginSnapshot, Begin
    <3>3. ~(Tick \/ Reconfigure)
      BY <1>1 DEF Tick, Reconfigure
    <3> QED
      BY <1>1, <3>1, <3>2, <3>3 DEF Next
  <2>2. ASSUME NEW n \in LeaseIds, Acquire(p, n) PROVE Fenced(p, l)
    <3>1. PICK s \in Sources : /\ Admits(ls, calls[p], s)
                               /\ leases' = WithLease(ls, n, Granted(calls[p], s))
      BY <2>2 DEF Acquire
    <3>2. /\ DOMAIN leases' = DOMAIN ls \cup {n} /\ n \notin DOMAIN leases
          /\ leases'[n] = Granted(calls[p], s)
          /\ \A k \in DOMAIN ls : leases'[k] = leases[k]
      BY <1>1, <2>0, <2>2, <3>1 DEF Acquire, WithLease, PoolInv, TableIssued
    <3>3. ASSUME Identity(leases', n) = Identity(leases, l), s = leases[l].source
          PROVE  FALSE
      <4>1. /\ Granted(calls[p], s).target = leases[l].target
            /\ Granted(calls[p], s).fp = leases[l].fp
        BY <1>1, <3>2, <3>3 DEF Identity, IsShared
      <4>2. /\ calls[p].target = leases[l].target
            /\ calls[p].config.bindings[calls[p].target][s] = leases[l].fp
        BY <4>1 DEF Granted
      <4>3. NeedsReconciliation(ls, calls[p], s)
        BY <1>1, <2>0, <3>3, <4>2 DEF NeedsReconciliation, Joining, On, IsShared
      <4> QED
        BY <3>1, <4>3 DEF Admits, SelectedSource
    <3> QED
      BY <2>0, <3>2, <3>3 DEF Granted
  <2>3. ASSUME GrantsNothing(p) PROVE Fenced(p, l)
    <3>1. Shrinks(p)
      BY <2>0, <2>3, LockedShrinks
    <3>2. ~(Heartbeat(p) /\ calls[p].lease = l)
      BY <1>1, <2>0 DEF Heartbeat
    <3>3. calls[p].op = "heartbeat" /\ calls[p].lease = l => leases'[l].seen = leases[l].seen \/ l \notin DOMAIN leases'
      BY <2>0, <2>3, <3>2 DEF GrantsNothing, AcquireRefused, HeartbeatExpired, Release,
         OwnedMissing, Snapshot, Crash, Running
    <3> QED
      BY <3>1, <3>3 DEF Shrinks
  <2> QED
    BY <2>1, <2>2, <2>3 DEF Locked, GrantsNothing
<1>2. PoolInv /\ [Next]_vars =>
      [\A p \in Callers, l \in DOMAIN leases :
          ( /\ calls[p] # Idle /\ calls'[p] = Idle
            /\ IsShared(leases[l]) /\ Expired(leases[l], calls[p].now) )
          => /\ l \in DOMAIN leases' => leases'[l].seen = leases[l].seen
             /\ \A k \in DOMAIN leases' \ DOMAIN leases :
                   Identity(leases', k) = Identity(leases, l)
                      => leases'[k].source # leases[l].source]_vars
  BY <1>1
<1> QED
  BY <1>2, InvHolds, PTL DEF Spec, ExpiredSharedIsFenced
=============================================================================
