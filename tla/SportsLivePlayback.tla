------------------------- MODULE SportsLivePlayback -------------------------
(***************************************************************************)
(* Watching a live sports channel through the Atlas API                    *)
(* (apps/api/atlas_api/routes/v1/sports_playback.py).  A request takes a   *)
(* lease from the resource pool, a row in the session registry and a       *)
(* stream of the Jellyfin ledger, one store after the other, and undoes    *)
(* what it took when a later step fails.  The player then sends heartbeats *)
(* and finally a release, each again one store at a time, while other      *)
(* viewers, the reaper and crashes of the API run in between.              *)
(*                                                                         *)
(* A call on a store is one step (the pool's own module studies the clock  *)
(* that is read before the lock); a remote call of the ledger is two, and  *)
(* the ledger is locked between them.  Session id and lease id are fresh   *)
(* random values, so a request stands for both.                            *)
(***************************************************************************)
EXTENDS Integers, FiniteSets, Sequences

CONSTANTS
    Requests, Users, Targets, Sources, Fingerprints, StreamIds,
    Viewer,      \* request -> the authenticated user
    Channel,     \* request -> target
    Candidates,  \* ranked candidate sources
    Configs,     \* configurations the API may be deployed with
    Ttl,         \* the three stores have the same default of 90 seconds
    MaxClock,    \* bound on the clock
    None

VARIABLES
    config, clock,
    leases, sessions,                              \* pool and registry files
    streams, used, op, consumers, late, restarted, \* ledger and Jellyfin
    pc,       \* thread -> where it is
    shared,   \* open request -> it was granted a lease with a fingerprint
    waiter,   \* the thread whose remote call holds the ledger, or None
    released  \* requests whose release was answered with 204

ledgerVars == <<streams, used, op, consumers, late, restarted>>
vars == <<config, clock, leases, sessions, ledgerVars, pc, shared, waiter, released>>

Pool == INSTANCE SportsResourcePool WITH
            LeaseIds <- Requests, Callers <- {}, CandidateLists <- {Candidates},
            issued <- {}, calls <- <<>>

Registry == INSTANCE SportsSessionRegistry

Ledger == INSTANCE JellyfinLiveStreams WITH Sessions <- Requests, Owner <- Viewer

\* The thread that serves the open request, the one that serves a heartbeat
\* and the one that serves a release.
Threads == {"open", "beat", "stop"} \X Requests

Reaper == <<"reap", None>>

ASSUME PlaybackConstants ==
    /\ Viewer \in [Requests -> Users]
    /\ Channel \in [Requests -> Targets]
    /\ Ttl \in Nat \ {0}
    /\ MaxClock \in Nat
    /\ None \notin StreamIds \cup Requests \cup Fingerprints \cup Threads \cup {Reaper}
    /\ Candidates \in Seq(Sources)
    /\ Configs \subseteq
          [capacity  : [Sources -> Nat],
           bindings  : [Targets -> [Sources -> Fingerprints \cup {None}]],
           userLimit : Nat \ {0}]

Steps == [open |-> {"new", "admit", "resolve", "remote", "validate", "scopeclose", "failed",
                    "issue", "undo", "closing", "unsession", "unlease", "playing", "done"},
          beat |-> {"idle", "session", "lease", "close", "closing", "drop"},
          stop |-> {"idle", "closing", "session", "lease"}]

SessionRow == [user : Users, lease : Requests, created : 0..MaxClock, seen : 0..MaxClock]

TypeOK ==
    /\ config \in Configs
    /\ DOMAIN leases \subseteq Requests /\ leases \in [DOMAIN leases -> Pool!Lease]
    /\ DOMAIN sessions \subseteq Requests /\ sessions \in [DOMAIN sessions -> SessionRow]
    /\ Ledger!TypeOK   \* the clock included
    /\ DOMAIN pc = Threads /\ \A t \in Threads : pc[t] \in Steps[t[1]]
    /\ shared \subseteq Requests
    /\ waiter \in Threads \cup {None, Reaper}
    /\ released \subseteq Requests

Init ==
    /\ config \in Configs
    /\ leases = [r \in {} |-> None]
    /\ sessions = [r \in {} |-> None]
    /\ Ledger!Init   \* clock = 0 included
    /\ pc = [t \in Threads |-> IF t[1] = "open" THEN "new" ELSE "idle"]
    /\ shared = {}
    /\ waiter = None
    /\ released = {}

-----------------------------------------------------------------------------
At(k, r, step) == pc[<<k, r>>] = step

Goto(k, r, step) == pc' = [pc EXCEPT ![<<k, r>>] = step]

\* The player knows its session only once the route has answered.
Playing(r) == At("open", r, "playing")

SharedRoutes(r) == {s \in Sources : config.bindings[Channel[r]][s] # None}

\* verify_api_shared_admission() narrows the candidates to the shared route.
AcquireCall(r) ==
    [op |-> "acquire", now |-> clock, user |-> Viewer[r], target |-> Channel[r],
     candidates |-> IF SharedRoutes(r) = {} THEN Candidates
                                            ELSE <<CHOOSE s \in SharedRoutes(r) : TRUE>>,
     config |-> config]

OwnedCall(r) == [user |-> Viewer[r], lease |-> r]

LivingLeases == Pool!PruneStale(leases, clock)

\* heartbeat() of the pool succeeds.
LeaseHeld(r) ==
    /\ Pool!Owns(LivingLeases, OwnedCall(r))
    /\ ~(Pool!IsShared(leases[r]) /\ Pool!Expired(leases[r], clock))

\* release() of the pool.
DropLease(r) == leases' = Pool!WithoutLease(LivingLeases, r)

\* release() of the registry: an absent session is no error.
DropSession(r) ==
    \/ Registry!ReleaseRecord(r, Viewer[r])
    \/ ~Registry!Owned(sessions, r, Viewer[r]) /\ UNCHANGED sessions

OnlyPool == UNCHANGED <<config, clock, sessions, ledgerVars, waiter>>
OnlyRegistry == UNCHANGED <<config, clock, leases, ledgerVars, shared, waiter, released>>
OnlyLedger == UNCHANGED <<config, leases, sessions, shared, released>>
OnlyControl == UNCHANGED <<config, clock, leases, sessions, ledgerVars, shared, waiter, released>>

-----------------------------------------------------------------------------
(* GET /{channel}/session                                                  *)

Acquire(r) ==
    /\ At("open", r, "new")
    /\ \E s \in Sources :
          LET lease == Pool!Granted(AcquireCall(r), s)
          IN  /\ Pool!Admits(LivingLeases, AcquireCall(r), s)
              /\ leases' = Pool!WithLease(LivingLeases, r, lease)
              /\ shared' = IF Pool!IsShared(lease) THEN shared \cup {r} ELSE shared
    /\ Goto("open", r, "admit")
    /\ OnlyPool /\ UNCHANGED released

\* No channel, no binding, not eligible, no capacity: nothing is reserved.
Refuse(r) ==
    /\ At("open", r, "new")
    /\ Goto("open", r, "done")
    /\ OnlyControl

Admit(r) ==
    /\ At("open", r, "admit")
    /\ Registry!Admit(r, Viewer[r], config.userLimit, r)
    /\ Goto("open", r, "resolve")
    /\ OnlyRegistry

\* The session limit is reached, or the registry is unavailable.
AdmitFails(r) ==
    /\ At("open", r, "admit")
    /\ Goto("open", r, "unlease")
    /\ OnlyControl

\* resolve_live_session(): Jellyfin asks for an explicit open ...
OpenStream(r) ==
    /\ At("open", r, "resolve")
    /\ Ledger!OpenIntent(r)
    /\ waiter' = <<"open", r>>
    /\ Goto("open", r, "remote")
    /\ OnlyLedger

\* ... or serves the channel without one ...
NeedsNoOpen(r) ==
    /\ At("open", r, "resolve")
    /\ Goto("open", r, "issue")
    /\ OnlyControl

\* ... or the resolution fails before any row is written.
ResolveFails(r) ==
    /\ At("open", r, "resolve")
    /\ Goto("open", r, "failed")
    /\ OnlyControl

Validated(r) ==
    /\ At("open", r, "validate")
    /\ Goto("open", r, "issue")
    /\ OnlyControl

\* The opened source is not usable: scope() closes it again ...
NotUsable(r) ==
    /\ At("open", r, "validate")
    /\ Ledger!Release(r, Viewer[r])
    /\ waiter' = <<"open", r>>
    /\ Goto("open", r, "scopeclose")
    /\ OnlyLedger

\* ... unless the reaper has been there, and closed it or failed to.
NotUsableReaped(r) ==
    /\ At("open", r, "validate")
    /\ Ledger!Free /\ r \notin Ledger!Rows("active")
    /\ Goto("open", r, "failed")
    /\ OnlyControl

\* Mutant: shared reservations are given back like exclusive ones.
FailedMutant(r) ==
    /\ At("open", r, "failed")
    /\ Goto("open", r, "unsession")
    /\ OnlyControl

\* A failed resolution keeps a shared lease and its session for the operator
\* and gives back an exclusive one.
Failed(r) ==
    /\ At("open", r, "failed")
    /\ Goto("open", r, IF r \in shared THEN "done" ELSE "unsession")
    /\ OnlyControl

Issue(r) ==
    /\ At("open", r, "issue")
    /\ \E step \in {"playing", "undo"} : Goto("open", r, step)
    /\ OnlyControl

Unsession(r) ==
    /\ At("open", r, "unsession")
    /\ DropSession(r)
    /\ Goto("open", r, "unlease")
    /\ OnlyRegistry

Unlease(r) ==
    /\ At("open", r, "unlease")
    /\ DropLease(r)
    /\ Goto("open", r, "done")
    /\ OnlyPool /\ UNCHANGED <<shared, released>>

-----------------------------------------------------------------------------
(* release_live_stream(), from the three routes that call it.              *)

AfterClose(k) == CASE k = "open" -> "unsession" [] k = "beat" -> "drop" [] k = "stop" -> "session"

Ended(k) == IF k = "open" THEN "done" ELSE "idle"

\* DELETE starts with the close.
AtClose(k, r) ==
    \/ k = "open" /\ At(k, r, "undo")
    \/ k = "beat" /\ At(k, r, "close")
    \/ k = "stop" /\ At(k, r, "idle") /\ Playing(r)

CloseStream(k, r) ==
    /\ AtClose(k, r)
    /\ Ledger!Release(r, Viewer[r])
    /\ waiter' = <<k, r>>
    /\ Goto(k, r, "closing")
    /\ OnlyLedger

NoStream(k, r) ==
    /\ AtClose(k, r)
    /\ Ledger!Free /\ r \notin DOMAIN streams
    /\ Goto(k, r, AfterClose(k))
    /\ OnlyControl

\* Mutant: an unknown outcome counts as closed.
StreamLatchedMutant(k, r) ==
    /\ AtClose(k, r)
    /\ Ledger!Free /\ r \in DOMAIN streams \ Ledger!Rows("active")
    /\ Goto(k, r, AfterClose(k))
    /\ OnlyControl

\* The row is latched: the route answers 503 and gives nothing back.
StreamLatched(k, r) ==
    /\ AtClose(k, r)
    /\ Ledger!Free /\ r \in DOMAIN streams \ Ledger!Rows("active")
    /\ Goto(k, r, Ended(k))
    /\ OnlyControl

-----------------------------------------------------------------------------
(* The remote call ends and the thread that waits for it goes on.          *)

Resume(step) ==
    /\ pc' = IF waiter = Reaper THEN pc ELSE [pc EXCEPT ![waiter] = step]
    /\ waiter' = None

StreamOpened ==
    /\ \E id \in StreamIds : Ledger!OpenReply(id)
    /\ Resume("validate")
    /\ OnlyLedger

InScope == waiter[1] = "open" /\ pc[waiter] \in {"remote", "scopeclose"}

CallFails ==
    /\ Ledger!CallFails \/ \E id \in StreamIds : Ledger!OpenNotSaved(id)
    /\ Resume(IF InScope THEN "failed" ELSE Ended(waiter[1]))
    /\ OnlyLedger

StreamClosed ==
    /\ Ledger!CloseReply
    /\ IF op.todo # {} THEN UNCHANGED <<pc, waiter>>
                       ELSE Resume(IF InScope THEN "failed" ELSE AfterClose(waiter[1]))
    /\ OnlyLedger

Reap ==
    /\ Ledger!Reap
    /\ waiter' = Reaper
    /\ UNCHANGED pc
    /\ OnlyLedger

LateEffect(r) ==
    /\ Ledger!LateEffect(r)
    /\ UNCHANGED <<pc, waiter>>
    /\ OnlyLedger

-----------------------------------------------------------------------------
(* POST /sessions/{id}/heartbeat                                           *)

BeatStream(r) ==
    /\ Playing(r) /\ At("beat", r, "idle")
    /\ Ledger!Heartbeat(r, Viewer[r])
    /\ Goto("beat", r, "session")
    /\ UNCHANGED waiter /\ OnlyLedger

BeatNoStream(r) ==
    /\ Playing(r) /\ At("beat", r, "idle")
    /\ Ledger!Free /\ r \notin DOMAIN streams
    /\ Goto("beat", r, "session")
    /\ OnlyControl

BeatSession(r) ==
    /\ At("beat", r, "session")
    /\ \/ Registry!Heartbeat(r, Viewer[r]) /\ Goto("beat", r, "lease")
       \/ Registry!HeartbeatMissing(r, Viewer[r]) /\ Goto("beat", r, "idle")
    /\ OnlyRegistry

BeatLease(r) ==
    /\ At("beat", r, "lease")
    /\ LeaseHeld(r)
    /\ leases' = [LivingLeases EXCEPT ![r].seen = clock]
    /\ Goto("beat", r, "idle")
    /\ OnlyPool /\ UNCHANGED <<shared, released>>

\* The lease is gone or has expired, or the pool cannot be read: the stream
\* is closed and the session dropped.  Only the pool's not-found answer saves
\* the pruned table.
BeatLeaseLost(r) ==
    /\ At("beat", r, "lease")
    /\ \/ UNCHANGED leases
       \/ ~Pool!Owns(LivingLeases, OwnedCall(r)) /\ leases' = LivingLeases
    /\ Goto("beat", r, "close")
    /\ OnlyPool /\ UNCHANGED <<shared, released>>

BeatDrop(r) ==
    /\ At("beat", r, "drop")
    /\ DropSession(r)
    /\ Goto("beat", r, "idle")
    /\ OnlyRegistry

-----------------------------------------------------------------------------
(* DELETE /sessions/{id}, after the close: _release_owned_session().       *)

StopSession(r) ==
    /\ At("stop", r, "session")
    /\ \/ Registry!ReleaseRecord(r, Viewer[r]) /\ Goto("stop", r, "lease")
       \/ /\ ~Registry!Owned(sessions, r, Viewer[r])   \* 404
          /\ Goto("stop", r, "idle")
          /\ UNCHANGED sessions
    /\ OnlyRegistry

StopLease(r) ==
    /\ At("stop", r, "lease")
    /\ DropLease(r)
    /\ released' = released \cup {r}
    /\ Goto("stop", r, "idle")
    /\ OnlyPool /\ UNCHANGED shared

-----------------------------------------------------------------------------
\* The thread ends where it is: its process dies, or a store raises an error
\* the route does not handle.
Abandon(k, r) ==
    /\ pc[<<k, r>>] \notin {"new", "playing", "done", "idle"}
    /\ Goto(k, r, Ended(k))
    /\ IF waiter = <<k, r>> THEN Ledger!Crash /\ waiter' = None
                            ELSE UNCHANGED <<ledgerVars, clock, waiter>>
    /\ OnlyLedger

ReaperDies ==
    /\ waiter = Reaper
    /\ Ledger!Crash
    /\ waiter' = None
    /\ UNCHANGED pc
    /\ OnlyLedger

\* The administration pages list the active sessions.
SnapshotSessions ==
    /\ Registry!SnapshotActive
    /\ UNCHANGED pc
    /\ OnlyRegistry

Tick ==
    /\ clock < MaxClock
    /\ clock' = clock + 1
    /\ UNCHANGED <<config, leases, sessions, ledgerVars, pc, shared, waiter, released>>

OpenStep(r) ==
    \/ Acquire(r) \/ Refuse(r) \/ Admit(r) \/ AdmitFails(r)
    \/ OpenStream(r) \/ NeedsNoOpen(r) \/ ResolveFails(r)
    \/ Validated(r) \/ NotUsable(r) \/ NotUsableReaped(r) \/ Failed(r)
    \/ Issue(r) \/ Unsession(r) \/ Unlease(r)

BeatStep(r) ==
    \/ BeatStream(r) \/ BeatNoStream(r) \/ BeatSession(r)
    \/ BeatLease(r) \/ BeatLeaseLost(r) \/ BeatDrop(r)

Next ==
    \/ \E r \in Requests :
          \/ OpenStep(r) \/ BeatStep(r)
          \/ StopSession(r) \/ StopLease(r)
          \/ LateEffect(r)
    \/ \E k \in {"open", "beat", "stop"}, r \in Requests :
          CloseStream(k, r) \/ NoStream(k, r) \/ StreamLatched(k, r) \/ Abandon(k, r)
    \/ StreamOpened \/ CallFails \/ StreamClosed
    \/ Reap \/ ReaperDies
    \/ SnapshotSessions
    \/ Tick

Spec == Init /\ [][Next]_vars

-----------------------------------------------------------------------------
(* Properties.                                                             *)

\* Every stream of a shared route, the latched ones included, is backed by a
\* lease that still reserves the connection: no interleaving of a failing
\* open, a heartbeat, a release, the reaper and a crash frees it first.
SharedReservationCoversStream ==
    \A r \in DOMAIN streams \cap shared : r \in DOMAIN leases

\* While every route is shared, Jellyfin never holds more consumers than the
\* pool has leases, whatever calls failed or are acted on late.
ConsumersReserved ==
    (\A t \in Targets, s \in Sources : config.bindings[t][s] # None)
        => \A id \in StreamIds : consumers[id] <= Cardinality(DOMAIN leases)

\* A session of a shared route always names a lease that exists, so an
\* operator can follow it: leases are taken first and given back last.
SessionNamesLease ==
    \A r \in DOMAIN sessions \cap shared : r \in DOMAIN leases

\* After a release was answered with 204 nothing of the session is left or
\* comes back, even with a heartbeat of the same session in flight.
ReleasedStaysReleased ==
    \A r \in released : r \notin DOMAIN streams \cup DOMAIN sessions \cup DOMAIN leases

\* What the recovery procedure for failed opens tells to retain: the linked
\* session and the lease of an open whose outcome is unknown.
BlockedOpenKeepsSessionAndLease ==
    \A r \in Ledger!Rows("blocked") :
        streams[r].id = None => r \in DOMAIN sessions /\ r \in DOMAIN leases

\* What the notes on shared cleanup say: when the resolution of a shared
\* route fails, the session linkage and the reservation are preserved.
FailedSharedOpenKeepsLinkage ==
    \A r \in shared \cap Ledger!Rows("blocked") :
        streams[r].id = None => r \in DOMAIN sessions /\ r \in DOMAIN leases
=============================================================================
