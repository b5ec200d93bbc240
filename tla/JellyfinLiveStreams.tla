------------------------- MODULE JellyfinLiveStreams -------------------------
(***************************************************************************)
(* The durable ledger of Jellyfin live streams Atlas has opened            *)
(* (atlas/jellyfin_live_streams.py, OwnedJellyfinLiveStreams).             *)
(*                                                                         *)
(* Jellyfin may give one stream id to several consumers, and a close takes *)
(* one consumer away from the id whoever asked for it.  The ledger writes  *)
(* an intent before every remote call and keeps its flock while the call   *)
(* runs.  A call can fail after Jellyfin has acted, or before Jellyfin     *)
(* acts late, and the process can die while it waits: the row then stays   *)
(* opening, closing or blocked, which refuses every later open and reap    *)
(* until an operator reconciles it.                                        *)
(***************************************************************************)
EXTENDS Integers, FiniteSets

CONSTANTS
    Sessions, Users, StreamIds,
    Owner,        \* session -> the user the route admitted it for
    Ttl,          \* ttl_seconds
    MaxClock,     \* bound on the clock
    None

ASSUME LedgerConstants ==
    /\ Owner \in [Sessions -> Users]
    /\ Ttl \in Nat \ {0}
    /\ None \notin StreamIds \cup Sessions

VARIABLES
    streams,    \* the ledger file: session -> row
    used,       \* sessions that have asked for a stream (a session asks once)
    op,         \* the remote call the holder of the flock waits for
    consumers,  \* Jellyfin: stream id -> number of open consumers
    late,       \* Jellyfin: session -> a call it has yet to act on
    restarted,  \* when the running Jellyfin process started
    clock

vars == <<streams, used, op, consumers, late, restarted, clock>>

Row == [user : Users, seen : Nat, status : {"opening", "active", "closing", "blocked"},
        id : StreamIds \cup {None}]

NoOp == [kind |-> "none", session |-> None, todo |-> {}]

Ops == {NoOp} \cup [kind : {"open", "close"}, session : Sessions, todo : SUBSET Sessions]

TypeOK ==
    /\ DOMAIN streams \subseteq Sessions
    /\ streams \in [DOMAIN streams -> Row]
    /\ used \subseteq Sessions
    /\ op \in Ops
    /\ consumers \in [StreamIds -> Nat]
    /\ late \in [Sessions -> {"none", "open", "close"}]
    /\ restarted \in Nat
    /\ clock \in Nat

-----------------------------------------------------------------------------
Rows(status) == {s \in DOMAIN streams : streams[s].status = status}

Expired(s) == clock - streams[s].seen >= Ttl

\* A row that is not active is an outcome nobody may retry.
Latched == \E s \in DOMAIN streams : streams[s].status # "active"

Without(s) == [k \in DOMAIN streams \ {s} |-> streams[k]]

\* Nobody holds the flock: everyone else blocks in flock().
Free == op.kind = "none"

Unlock == op' = NoOp

\* Jellyfin acts on an open or a close.
Opened(id) == [consumers EXCEPT ![id] = @ + 1]

Closed(id) == [consumers EXCEPT ![id] = IF @ = 0 THEN 0 ELSE @ - 1]

Init ==
    /\ streams = [s \in {} |-> NoOp]
    /\ used = {}
    /\ op = NoOp
    /\ consumers = [id \in StreamIds |-> 0]
    /\ late = [s \in Sessions |-> "none"]
    /\ restarted = 0
    /\ clock = 0

\* The intent that is written before the remote call.
WithIntent(s, seen) ==
    [k \in DOMAIN streams \cup {s} |->
        IF k = s THEN [user |-> Owner[s], seen |-> seen, status |-> "opening", id |-> None]
                 ELSE streams[k]]

MayOpen ==
    /\ ~Latched
    /\ \A k \in DOMAIN streams : ~Expired(k)

\* open(): the write-ahead intent.
OpenIntent(s) ==
    /\ Free
    /\ s \notin used
    /\ s \notin DOMAIN streams
    /\ MayOpen
    /\ streams' = WithIntent(s, clock)
    /\ used' = used \cup {s}
    /\ op' = [kind |-> "open", session |-> s, todo |-> {}]
    /\ UNCHANGED <<consumers, late, restarted, clock>>

\* The remote open returned a stream identity: ownership becomes durable.
OpenReply(id) ==
    /\ op.kind = "open"
    /\ consumers' = Opened(id)
    /\ streams' = [streams EXCEPT ![op.session] =
                      [@ EXCEPT !.status = "active", !.id = id, !.seen = clock]]
    /\ Unlock
    /\ UNCHANGED <<used, late, restarted, clock>>

\* The stream is open but its row cannot be saved as active.
OpenNotSaved(id) ==
    /\ op.kind = "open"
    /\ consumers' = Opened(id)
    /\ streams' = [streams EXCEPT ![op.session] =
                      [@ EXCEPT !.status = "blocked", !.id = id, !.seen = clock]]
    /\ Unlock
    /\ UNCHANGED <<used, late, restarted, clock>>

\* What Jellyfin may have done with the call in flight when the caller gets
\* no usable answer: nothing, the whole call, or it acts on it later.
OutcomeUnknown ==
    \/ UNCHANGED <<consumers, late>>
    \/ /\ op.kind = "open"
       /\ \E id \in StreamIds : consumers' = Opened(id)
       /\ UNCHANGED late
    \/ /\ op.kind = "close"
       /\ consumers' = Closed(streams[op.session].id)
       /\ UNCHANGED late
    \/ late' = [late EXCEPT ![op.session] = op.kind] /\ UNCHANGED consumers

\* Mutant: a failed call is taken for one that did nothing.
CallFailsMutant ==
    /\ op.kind # "none"
    /\ OutcomeUnknown
    /\ streams' = Without(op.session)
    /\ Unlock
    /\ UNCHANGED <<used, restarted, clock>>

\* The remote call raised (a timeout included), or its answer names no stream.
CallFails ==
    /\ op.kind # "none"
    /\ OutcomeUnknown
    /\ streams' = [streams EXCEPT ![op.session].status = "blocked"]
    /\ Unlock
    /\ UNCHANGED <<used, restarted, clock>>

\* The process dies during the call: the kernel drops the flock, the row
\* stays as it was written.
Crash ==
    /\ op.kind # "none"
    /\ OutcomeUnknown
    /\ Unlock
    /\ UNCHANGED <<streams, used, restarted, clock>>

Heartbeat(s, u) ==
    /\ Free
    /\ s \in Rows("active")
    /\ streams[s].user = u
    /\ ~Expired(s)
    /\ streams' = [streams EXCEPT ![s].seen = clock]
    /\ UNCHANGED <<used, op, consumers, late, restarted, clock>>

\* Mutant: the row is still active while the close is under way.
CloseIntentMutant(s, todo) ==
    /\ streams' = streams
    /\ op' = [kind |-> "close", session |-> s, todo |-> todo]

\* _close(): the intent to close s, with more rows to close after it.
CloseIntent(s, todo) ==
    /\ streams' = [streams EXCEPT ![s].status = "closing"]
    /\ op' = [kind |-> "close", session |-> s, todo |-> todo]

\* release(): also what scope() does when it fails after a known open.
Release(s, u) ==
    /\ Free
    /\ s \in Rows("active")
    /\ streams[s].user = u
    /\ CloseIntent(s, {})
    /\ UNCHANGED <<used, consumers, late, restarted, clock>>

\* Mutant: the boundary is taken strictly.
ReapMutant ==
    LET expired == {s \in DOMAIN streams : clock - streams[s].seen > Ttl}
    IN  /\ Free
        /\ ~Latched
        /\ \E s \in expired : CloseIntent(s, expired \ {s})
        /\ UNCHANGED <<used, consumers, late, restarted, clock>>

\* reap(): every expired row, one after the other under one lock.
Reap ==
    LET expired == {s \in DOMAIN streams : Expired(s)}
    IN  /\ Free
        /\ ~Latched
        /\ \E s \in expired : CloseIntent(s, expired \ {s})
        /\ UNCHANGED <<used, consumers, late, restarted, clock>>

\* The close is acknowledged: the row goes, and the reaper takes the next.
CloseReply ==
    /\ op.kind = "close"
    /\ consumers' = Closed(streams[op.session].id)
    /\ IF op.todo = {}
         THEN streams' = Without(op.session) /\ Unlock
         ELSE \E s \in op.todo :
                 /\ streams' = [Without(op.session) EXCEPT ![s].status = "closing"]
                 /\ op' = [op EXCEPT !.session = s, !.todo = @ \ {s}]
    /\ UNCHANGED <<used, late, restarted, clock>>

\* Jellyfin acts on a call Atlas has given up.
LateEffect(s) ==
    /\ \/ late[s] = "open" /\ \E id \in StreamIds : consumers' = Opened(id)
       \/ late[s] = "close" /\ consumers' = Closed(streams[s].id)
    /\ late' = [late EXCEPT ![s] = "none"]
    /\ UNCHANGED <<streams, used, op, restarted, clock>>

\* The one case the recovery procedure covers.
UnidentifiedOpen(s) ==
    /\ DOMAIN streams = {s}
    /\ streams[s].status = "blocked"
    /\ streams[s].id = None

\* The operator quiesces admission and restarts Jellyfin: its consumers and
\* whatever it had not acted on are gone.
JellyfinRestart ==
    /\ Free
    /\ \E s \in DOMAIN streams : UnidentifiedOpen(s)
    /\ consumers' = [id \in StreamIds |-> 0]
    /\ late' = [s \in Sessions |-> "none"]
    /\ restarted' = clock
    /\ UNCHANGED <<streams, used, op, clock>>

\* reconcile_failed_open_after_retirement().
ReconcileFailedOpen(s) ==
    /\ Free
    /\ UnidentifiedOpen(s)
    /\ streams[s].seen < restarted /\ restarted <= clock
    /\ \A id \in StreamIds : consumers[id] = 0
    /\ streams' = Without(s)
    /\ UNCHANGED <<used, op, consumers, late, restarted, clock>>

Tick ==
    /\ clock < MaxClock
    /\ clock' = clock + 1
    /\ UNCHANGED <<streams, used, op, consumers, late, restarted>>

Next ==
    \/ \E s \in Sessions : OpenIntent(s) \/ LateEffect(s) \/ ReconcileFailedOpen(s)
    \/ \E s \in Sessions, u \in Users : Heartbeat(s, u) \/ Release(s, u)
    \/ \E id \in StreamIds : OpenReply(id) \/ OpenNotSaved(id)
    \/ CloseReply \/ CallFails \/ Crash \/ Reap
    \/ JellyfinRestart
    \/ Tick

\* The reaper runs every 15 seconds, and a remote call ends: it is answered,
\* times out, or its process dies.
Fairness ==
    /\ WF_vars(Reap)
    /\ WF_vars(\/ \E id \in StreamIds : OpenReply(id)
               \/ CloseReply \/ CallFails \/ Crash)

Spec == Init /\ [][Next]_vars /\ Fairness

-----------------------------------------------------------------------------
(* Properties.                                                             *)

OwnersOf(id) == {s \in Rows("active") : streams[s].id = id}

\* Rows that may stand for a consumer of id: those that name it, and those
\* whose open has no known outcome.
MayOwn(id) == {s \in DOMAIN streams : streams[s].id \in {id, None}}

\* No close, retried, late or repeated after a crash, ever takes away the
\* consumer of a viewer whose row is active.
NoConsumerStolen ==
    \A id \in StreamIds : Cardinality(OwnersOf(id)) <= consumers[id]

\* Every consumer Jellyfin holds for Atlas, and every open it may still act
\* on, has a row in the ledger, whatever crashed and whatever was answered.
EveryConsumerRecorded ==
    /\ \A id \in StreamIds : consumers[id] <= Cardinality(MayOwn(id))
    /\ \A s \in Sessions : late[s] # "none" => s \in DOMAIN streams

\* An expired stream is closed, unless some row is latched: then the reaper
\* refuses to run and the operator decides.
ExpiredIsReaped ==
    \A s \in Sessions :
        (s \in DOMAIN streams /\ Expired(s)) ~> (s \notin DOMAIN streams \/ Latched)
=============================================================================
