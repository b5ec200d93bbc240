------------------------ MODULE VerifiedLiveChannel ------------------------
(* The life of a verified live channel in the workers of the live proxy:    *)
(* a request takes the owner lease, reserves provider capacity, binds a     *)
(* generation and starts a stream manager; the manager connects and         *)
(* publishes; the cleanup thread renews and stops it.  Every Redis call is  *)
(* a step of its own, between which keys expire and workers crash.  The     *)
(* ledger cutover has happened; the legacy branches are not modelled.       *)
EXTENDS ReservationLedger

CONSTANTS
    Workers,
    MaxLives     \* bound on the owner leases drawn

(* A lease is "<worker>|<uuid>": the worker and a fresh number.  Generation *)
(* ids are "<epoch>-<uuid>", so the epoch stands for them.                  *)
ASSUME LeasesAreFresh ==
    /\ Leases = Workers \X (1..MaxLives)
    /\ Generations = 1..MaxEpoch
    /\ MaxLives \in Nat

VARIABLES
    loc,     \* what a worker remembers about a channel
    lives,   \* number of owner leases drawn
    leaked   \* provider connections nobody holds a reference to, by token

wvars == <<loc, lives, leaked>>
redis == <<avars, lvars>>
vars == <<avars, lvars, wvars>>

Selection == [token : Tokens, dest : Dests, lease : Leases]

(* known: the server still lists the manager; failed: its own or its        *)
(* buffer's latch; active: the reservation was activated; thread: the       *)
(* stream thread lives, and step is where it stands; open: http_reader.     *)
Manager == [sel : Selection, epoch : 1..MaxEpoch, known : BOOLEAN,
            stopping : BOOLEAN, failed : BOOLEAN, active : BOOLEAN,
            thread : BOOLEAN, open : BOOLEAN,
            step : {"check", "connect", "read", "activate"}]

Local == [lease : Leases \cup {None},
          pc : {"idle", "acquire", "reserve", "init", "grant", "activate", "start",
                "undo", "rollback", "drop", "giveup"},
          cand : Selection \cup {None},      \* the request's selection
          sel : Selection \cup {None},       \* _verified_live_selections
          started : BOOLEAN,                 \* _verified_live_start_attempted
          epoch : 0..MaxEpoch,               \* the grant being bound
          mgr : Manager \cup {None},
          stop : {"idle", "close", "join", "ack", "clean", "free", "revoke",
                  "unbind", "disown", "local", "final"}]

(* "No selection" and "no manager" are neither. *)
ASSUME SelectionsAreSome == None \notin Selection \cup Manager

Fresh == [lease |-> None, pc |-> "idle", cand |-> None, sel |-> None,
          started |-> FALSE, epoch |-> 0, mgr |-> None, stop |-> "idle"]

Init ==
    /\ AuthorityInit
    /\ cutover = TRUE
    /\ rec = [t \in Tokens |-> None]
    /\ own = [o \in Owner |-> None]
    /\ cnt = [k \in CounterKeys |-> 0]
    /\ alias = [c \in Channels |-> None]
    /\ sess = [s \in VodSessions \cup ShiftSessions |-> None]
    /\ issued = {}
    /\ watch = [v \in Viewers |-> None]
    /\ play = [p \in Playbacks |-> None]
    /\ loc = [w \in Workers |-> [c \in Channels |-> Fresh]]
    /\ lives = 0
    /\ leaked = [w \in Workers |-> {}]

Set(w, c, r) == loc' = [loc EXCEPT ![w][c] = r]

(* am_i_owner *)
AmOwner(w, c) == loc[w][c].lease # None /\ owner[c] = loc[w][c].lease

(* release_ownership: the key goes only if it still holds this lease, the   *)
(* lease is forgotten if the key is gone either way.                        *)
ReleaseOwnership(w, c, r) ==
    IF AmOwner(w, c)
    THEN DropOwner(c) /\ Set(w, c, [r EXCEPT !.lease = None])
    ELSE /\ UNCHANGED avars
         /\ Set(w, c, IF owner[c] = None THEN [r EXCEPT !.lease = None] ELSE r)

-----------------------------------------------------------------------------
(* A request that sets the channel up. *)

(* The alias is looked at before the owner key is taken. *)
CheckAlias(w, c) ==
    /\ loc[w][c].pc = "idle"
    /\ alias[c] = None
    /\ Set(w, c, [loc[w][c] EXCEPT !.pc = "acquire"])
    /\ UNCHANGED <<redis, lives, leaked>>

(* try_acquire_ownership: a known lease is only ever renewed. *)
TryAcquire(w, c) ==
    /\ loc[w][c].pc = "acquire"
    /\ \/ /\ loc[w][c].lease = None /\ loc[w][c].mgr = None
          /\ lives < MaxLives
          /\ LET l == <<w, lives + 1>> IN
               /\ SetOwner(c, l)
               /\ Set(w, c, [loc[w][c] EXCEPT !.lease = l, !.pc = "reserve"])
          /\ lives' = lives + 1
       \/ /\ AmOwner(w, c)
          /\ Set(w, c, [loc[w][c] EXCEPT !.pc = "reserve"])
          /\ UNCHANGED <<avars, lives>>
       \/ /\ ~AmOwner(w, c)
          /\ loc[w][c].lease # None \/ loc[w][c].mgr # None \/ owner[c] # None
          /\ Set(w, c, [loc[w][c] EXCEPT !.pc = "idle",
               !.mgr = IF @ # None /\ owner[c] = None
                       THEN [@ EXCEPT !.failed = TRUE] ELSE @])
          /\ UNCHANGED <<avars, lives>>
    /\ UNCHANGED <<lvars, leaked>>

(* select_and_reserve: a destination that is full is passed over. *)
Select(w, c, t, d) ==
    /\ loc[w][c].pc = "reserve" /\ loc[w][c].lease # None
    /\ ReserveLive(t, c, loc[w][c].lease, d)
    /\ Set(w, c, [loc[w][c] EXCEPT !.pc = "init",
         !.cand = [token |-> t, dest |-> d, lease |-> loc[w][c].lease]])
    /\ UNCHANGED <<lives, leaked>>

(* Busy, full or another error: nothing was reserved, the owner is undone. *)
SelectFails(w, c) ==
    /\ loc[w][c].pc = "reserve"
    /\ Set(w, c, [loc[w][c] EXCEPT !.pc = "giveup"])
    /\ UNCHANGED <<redis, lives, leaked>>

GiveUp(w, c) ==
    /\ loc[w][c].pc = "giveup"
    /\ ReleaseOwnership(w, c, [loc[w][c] EXCEPT !.pc = "idle", !.cand = None])
    /\ UNCHANGED <<lvars, lives, leaked>>

(* The checks of both initialize_channel functions up to the renewal of the *)
(* lease; another selection or a local manager stands in the way.           *)
Initialize(w, c) ==
    /\ loc[w][c].pc = "init"
    /\ LET r == loc[w][c]
           free == r.sel \in {None, r.cand} /\ AmOwner(w, c)
                     /\ r.lease = r.cand.lease
       IN  \/ /\ free /\ r.mgr = None
              /\ Set(w, c, [r EXCEPT !.pc = "grant", !.sel = r.cand])
           \/ /\ free   \* stopping, activity or metadata in the way
              /\ Set(w, c, [r EXCEPT !.pc = "rollback", !.sel = r.cand])
           \/ /\ ~free
              /\ Set(w, c, [r EXCEPT !.pc = "rollback"])
    /\ UNCHANGED <<redis, lives, leaked>>

(* _bind_new_verified_generation: acquire, then activate; an exception on   *)
(* the way gives the grant back.                                            *)
BindGrant(w, c) ==
    /\ loc[w][c].pc = "grant"
    /\ \/ /\ Acquire(c, loc[w][c].cand.lease)
          /\ Set(w, c, [loc[w][c] EXCEPT !.pc = "activate", !.epoch = epoch'[c]])
       \/ /\ owner[c] # loc[w][c].cand.lease \/ grant[c] # None
          /\ Set(w, c, [loc[w][c] EXCEPT !.pc = "rollback"])
          /\ UNCHANGED avars
    /\ UNCHANGED <<lvars, lives, leaked>>

BindGeneration(w, c) ==
    /\ loc[w][c].pc = "activate"
    /\ LET e == loc[w][c].epoch IN
         \/ /\ Activate(c, e, e)
            /\ \E next \in {"start", "undo"} :
                 Set(w, c, [loc[w][c] EXCEPT !.pc = next])
         \/ /\ ~Holds(c, e)
            /\ Set(w, c, [loc[w][c] EXCEPT !.pc = "undo"])
            /\ UNCHANGED avars
    /\ UNCHANGED <<lvars, lives, leaked>>

UndoGrant(w, c) ==
    /\ loc[w][c].pc = "undo"
    /\ \/ Release(c, loc[w][c].epoch)
       \/ ~Holds(c, loc[w][c].epoch) /\ UNCHANGED avars
    /\ Set(w, c, [loc[w][c] EXCEPT !.pc = "rollback", !.epoch = 0])
    /\ UNCHANGED <<lvars, lives, leaked>>

(* The manager is registered, the attempt recorded, the thread started. *)
Start(w, c) ==
    /\ loc[w][c].pc = "start"
    /\ Set(w, c, [loc[w][c] EXCEPT !.pc = "idle", !.cand = None, !.epoch = 0,
         !.started = TRUE,
         !.mgr = [sel |-> loc[w][c].cand, epoch |-> loc[w][c].epoch,
                  known |-> TRUE, stopping |-> FALSE, failed |-> FALSE,
                  active |-> FALSE, thread |-> TRUE, open |-> FALSE,
                  step |-> "check"]])
    /\ UNCHANGED <<redis, lives, leaked>>

(* rollback_unstarted_verified_selection: nothing may have been started. *)
MayRollback(w, c) ==
    LET r == loc[w][c] IN
      /\ r.lease = r.cand.lease /\ AmOwner(w, c)
      /\ ~r.started /\ r.mgr = None
      /\ r.sel \in {None, r.cand}
      /\ grant[c] = None

Rollback(w, c) ==
    /\ loc[w][c].pc = "rollback"
    /\ IF MayRollback(w, c)
       THEN Set(w, c, [loc[w][c] EXCEPT !.pc = "drop"])
       ELSE Set(w, c, [loc[w][c] EXCEPT !.pc = "idle", !.cand = None])
    /\ UNCHANGED <<redis, lives, leaked>>

DropPending(w, c) ==
    /\ loc[w][c].pc = "drop"
    /\ LET s == loc[w][c].cand IN
         \/ /\ ReleasePendingLive(s.token, c, s.lease, s.dest)
            /\ Set(w, c, [loc[w][c] EXCEPT !.pc = "giveup", !.sel = None])
         \/ /\ ~(Assigned(s.token, c, s.lease) /\ rec[s.token].state = "pending")
            /\ Set(w, c, [loc[w][c] EXCEPT !.pc = "idle", !.cand = None])
            /\ UNCHANGED redis
    /\ UNCHANGED <<lives, leaked>>

-----------------------------------------------------------------------------
(* The stream thread of a manager. *)

SetMgr(w, c, m) == loc' = [loc EXCEPT ![w][c].mgr = m]

(* The thread of a manager that nobody stopped stands at this step. *)
Running(w, c, step) ==
    /\ loc[w][c].mgr # None
    /\ loc[w][c].mgr.thread /\ loc[w][c].mgr.step = step

(* The provider connection of a reader that is dropped without a confirmed  *)
(* close, or is overwritten, may outlive the reference to it.               *)
MayLeak(w, m) ==
    \/ m.open /\ leaked' = [leaked EXCEPT ![w] = @ \cup {m.sel.token}]
    \/ UNCHANGED leaked

(* _ensure_owner_or_stop: an owner key that is missing does not stop it.    *)
CheckOwner(w, c) ==
    /\ Running(w, c, "check") /\ ~loc[w][c].mgr.stopping
    /\ owner[c] \in {None, loc[w][c].mgr.sel.lease}
    /\ SetMgr(w, c, [loc[w][c].mgr EXCEPT !.step = "connect"])
    /\ UNCHANGED <<redis, lives, leaked>>

(* _establish_http_connection: a new reader replaces whatever was there.    *)
(* The thread does not look at the stop flags again before it connects.     *)
Connect(w, c) ==
    /\ Running(w, c, "connect")
    /\ SetMgr(w, c, [loc[w][c].mgr EXCEPT !.step = "read", !.open = TRUE])
    /\ IF loc[w][c].mgr.open
       THEN leaked' = [leaked EXCEPT ![w] = @ \cup {loc[w][c].mgr.sel.token}]
       ELSE UNCHANGED leaked
    /\ UNCHANGED <<redis, lives>>

(* fetch_chunk and add_chunk.  A refused publication, or an answer that is  *)
(* lost, latches the failure; the first chunk activates the reservation.    *)
PublishChunk(w, c) ==
    /\ Running(w, c, "read")
    /\ LET m == loc[w][c].mgr IN
         /\ m.open /\ ~m.stopping /\ ~m.failed
         /\ \/ /\ Publish(c, m.epoch, m.epoch)
               /\ \/ SetMgr(w, c, [m EXCEPT !.step = IF m.active THEN "read"
                                                    ELSE "activate"])
                  \/ SetMgr(w, c, [m EXCEPT !.failed = TRUE])
            \/ /\ ~Current(c, m.epoch, m.epoch)
               /\ SetMgr(w, c, [m EXCEPT !.failed = TRUE])
               /\ UNCHANGED avars
    /\ UNCHANGED <<lvars, lives, leaked>>

ActivateReservation(w, c) ==
    /\ Running(w, c, "activate")
    /\ LET m == loc[w][c].mgr IN
         \/ /\ ActivateLive(m.sel.token, c, m.sel.lease, m.epoch, m.epoch)
            /\ \E lost \in BOOLEAN :
                 SetMgr(w, c, [m EXCEPT !.step = "read", !.active = TRUE,
                                        !.failed = lost])
         \/ /\ ~Current(c, m.epoch, m.epoch)
            /\ SetMgr(w, c, [m EXCEPT !.step = "read", !.failed = TRUE])
            /\ UNCHANGED redis
    /\ UNCHANGED <<lives, leaked>>

(* The provider ends the stream, or the health monitor asks for a           *)
(* reconnection: _close_socket before the next round.                       *)
Disconnect(w, c) ==
    /\ Running(w, c, "read")
    /\ SetMgr(w, c, [loc[w][c].mgr EXCEPT !.step = "check", !.open = FALSE])
    /\ UNCHANGED <<redis, lives, leaked>>

(* The health monitor asks an unstable stream to switch; _try_next_stream   *)
(* refuses for a verified manager and the loop starts over, reader and all. *)
StallAndRetry(w, c) ==
    /\ Running(w, c, "read") /\ ~loc[w][c].mgr.stopping
    /\ SetMgr(w, c, [loc[w][c].mgr EXCEPT !.step = "check"])
    /\ UNCHANGED <<redis, lives, leaked>>

(* stop(), by the thread itself: another owner, the stopping key, no        *)
(* clients, a latched failure, a failed write.                              *)
StopItself(w, c) ==
    /\ Running(w, c, "check") \/ Running(w, c, "read")
    /\ SetMgr(w, c, [loc[w][c].mgr EXCEPT !.stopping = TRUE, !.open = FALSE,
                                          !.step = "check"])
    /\ MayLeak(w, loc[w][c].mgr)
    /\ UNCHANGED <<redis, lives>>

(* The end of run(): a stop flag, or no attempts left; everything closes.   *)
ThreadExit(w, c) ==
    /\ Running(w, c, "check") \/ Running(w, c, "read")
    /\ IF loc[w][c].mgr.known
       THEN SetMgr(w, c, [loc[w][c].mgr EXCEPT !.thread = FALSE, !.open = FALSE,
                                               !.step = "check"])
       ELSE SetMgr(w, c, None)
    /\ MayLeak(w, loc[w][c].mgr)
    /\ UNCHANGED <<redis, lives>>

LeakEnds(w, t) ==
    /\ t \in leaked[w]
    /\ leaked' = [leaked EXCEPT ![w] = @ \ {t}]
    /\ UNCHANGED <<redis, loc, lives>>

-----------------------------------------------------------------------------
(* The cleanup thread and stop_channel. *)

Known(w, c) == loc[w][c].mgr # None /\ loc[w][c].mgr.known

(* stop_channel begins: publication halts, then only the owner of a bound   *)
(* selection goes on; without one only the generation is revoked.           *)
Stopping(w, c, m) ==
    Set(w, c, [loc[w][c] EXCEPT
      !.mgr = IF m = None THEN None ELSE [m EXCEPT !.stopping = TRUE],
      !.stop = IF loc[w][c].sel = None THEN "unbind"
               ELSE IF AmOwner(w, c) THEN "close" ELSE "final"])

StopChannel(w, c) ==
    /\ loc[w][c].stop = "idle"
    /\ Known(w, c) \/ loc[w][c].sel # None
    /\ Stopping(w, c, loc[w][c].mgr)
    /\ UNCHANGED <<redis, lives, leaked>>

(* renew_verified_generation fails: the latch, and the owner stops.         *)
RenewFails(w, c) ==
    /\ loc[w][c].stop = "idle" /\ Known(w, c)
    /\ LET m == loc[w][c].mgr IN
         /\ m.failed \/ ~Current(c, m.epoch, m.epoch)
         /\ IF AmOwner(w, c) THEN Stopping(w, c, [m EXCEPT !.failed = TRUE])
            ELSE SetMgr(w, c, [m EXCEPT !.failed = TRUE])
    /\ UNCHANGED <<redis, lives, leaked>>

(* _cleanup_local_resources of a worker that is not the owner: its manager  *)
(* is stopped and forgotten, its lease and its selection stay.              *)
CleanupLocal(w, c) ==
    /\ loc[w][c].stop = "idle" /\ Known(w, c) /\ ~AmOwner(w, c)
    /\ LET m == loc[w][c].mgr IN
         /\ SetMgr(w, c, IF m.thread
                         THEN [m EXCEPT !.known = FALSE, !.stopping = TRUE,
                                        !.open = FALSE]
                         ELSE None)
         /\ MayLeak(w, m)
    /\ UNCHANGED <<redis, lives>>

StopAt(w, c, pc) == loc[w][c].stop = pc

StopGoes(w, c, pc) == Set(w, c, [loc[w][c] EXCEPT !.stop = pc])

(* stop_verified_http_upstream: without a living thread and an open reader  *)
(* there is nothing to confirm, and the reservation is retained.            *)
CloseReader(w, c) ==
    /\ StopAt(w, c, "close")
    /\ LET r == loc[w][c] IN
         \/ /\ AmOwner(w, c) /\ r.sel # None /\ r.lease = r.sel.lease
            /\ Known(w, c) /\ r.mgr.thread /\ r.mgr.open
            /\ Set(w, c, [r EXCEPT !.stop = "join", !.mgr.open = FALSE])
         \/ StopGoes(w, c, "final")
    /\ UNCHANGED <<redis, lives, leaked>>

JoinedMutant(m) == ~m.open

(* The thread has ended and left no reader behind. *)
Joined(m) == ~m.thread /\ ~m.open

JoinThread(w, c) ==
    /\ StopAt(w, c, "join")
    /\ StopGoes(w, c, IF Joined(loc[w][c].mgr) THEN "ack" ELSE "final")
    /\ UNCHANGED <<redis, lives, leaked>>

(* Each of the ledger calls either takes effect, its answer arriving or     *)
(* not, or is refused; whatever is not confirmed ends the stop.             *)
AckStop(w, c) ==
    /\ StopAt(w, c, "ack")
    /\ LET m == loc[w][c].mgr IN
         \/ /\ AckLiveStop(m.sel.token, c, m.sel.lease, m.sel.dest, m.epoch, m.epoch)
            /\ \E pc \in {"clean", "final"} : StopGoes(w, c, pc)
         \/ UNCHANGED redis /\ StopGoes(w, c, "final")
    /\ UNCHANGED <<lives, leaked>>

(* _clean_verified_media_keys, guarded by the grant of the stopped manager. *)
CleanMedia(w, c) ==
    /\ StopAt(w, c, "clean")
    /\ LET m == loc[w][c].mgr IN
         \/ /\ Current(c, m.epoch, m.epoch) /\ owner[c] = m.sel.lease
            /\ DropMedia(c)
            /\ \E pc \in {"free", "final"} : StopGoes(w, c, pc)
         \/ UNCHANGED avars /\ StopGoes(w, c, "final")
    /\ UNCHANGED <<lvars, lives, leaked>>

FreeReservation(w, c) ==
    /\ StopAt(w, c, "free")
    /\ LET m == loc[w][c].mgr IN
         \/ /\ ReleaseActiveLive(m.sel.token, c, m.sel.lease, m.sel.dest,
                                  m.epoch, m.epoch)
            /\ \/ Set(w, c, [loc[w][c] EXCEPT !.stop = "revoke", !.sel = None,
                                              !.started = FALSE])
               \/ StopGoes(w, c, "final")
         \/ UNCHANGED redis /\ StopGoes(w, c, "final")
    /\ UNCHANGED <<lives, leaked>>

(* _release_verified_generation; a stop without a selection ends here, for  *)
(* _clean_redis_keys raises once the ledger is in force.                    *)
RevokeGrant(w, c) ==
    /\ StopAt(w, c, "revoke") \/ StopAt(w, c, "unbind")
    /\ LET r == loc[w][c]
           next == IF r.stop = "revoke" THEN "disown" ELSE "final"
       IN  \/ /\ Known(w, c)
              /\ \/ Release(c, r.mgr.epoch)
                 \/ ~Holds(c, r.mgr.epoch) /\ UNCHANGED avars
              /\ Set(w, c, [r EXCEPT !.stop = next, !.mgr.failed = TRUE])
           \/ UNCHANGED avars /\ StopGoes(w, c, "final")
    /\ UNCHANGED <<lvars, lives, leaked>>

Disown(w, c) ==
    /\ StopAt(w, c, "disown")
    /\ ReleaseOwnership(w, c, [loc[w][c] EXCEPT !.stop = "local"])
    /\ UNCHANGED <<lvars, lives, leaked>>

ForgetManager(w, c) ==
    /\ StopAt(w, c, "local")
    /\ Set(w, c, [loc[w][c] EXCEPT !.stop = "final", !.mgr = None])
    /\ UNCHANGED <<redis, lives, leaked>>

(* The finally block of stop_channel. *)
StopEnds(w, c) ==
    /\ StopAt(w, c, "final")
    /\ Set(w, c, [loc[w][c] EXCEPT !.stop = "idle",
         !.lease = IF Known(w, c) \/ AmOwner(w, c) THEN @ ELSE None])
    /\ UNCHANGED <<redis, lives, leaked>>

-----------------------------------------------------------------------------
(* The worker process dies; its sockets and its memory go, Redis stays. *)
Crash(w) ==
    /\ loc' = [loc EXCEPT ![w] = [c \in Channels |-> Fresh]]
    /\ leaked' = [leaked EXCEPT ![w] = {}]
    /\ UNCHANGED <<redis, lives>>

(* Chunks expire too; nothing here but activation looks at old chunks.      *)
Expire(c) ==
    /\ ExpireGrant(c) \/ DropOwner(c)
    /\ UNCHANGED <<lvars, wvars>>

RequestNext(w, c) ==
    \/ CheckAlias(w, c) \/ TryAcquire(w, c)
    \/ \E t \in Tokens, d \in Dests : Select(w, c, t, d)
    \/ SelectFails(w, c) \/ GiveUp(w, c) \/ Initialize(w, c)
    \/ BindGrant(w, c) \/ BindGeneration(w, c) \/ UndoGrant(w, c)
    \/ Start(w, c) \/ Rollback(w, c) \/ DropPending(w, c)

ThreadNext(w, c) ==
    \/ CheckOwner(w, c) \/ Connect(w, c) \/ PublishChunk(w, c)
    \/ ActivateReservation(w, c) \/ Disconnect(w, c)
    \/ StallAndRetry(w, c) \/ StopItself(w, c) \/ ThreadExit(w, c)

StopNext(w, c) ==
    \/ StopChannel(w, c) \/ RenewFails(w, c) \/ CleanupLocal(w, c)
    \/ CloseReader(w, c) \/ JoinThread(w, c) \/ AckStop(w, c)
    \/ CleanMedia(w, c) \/ FreeReservation(w, c) \/ RevokeGrant(w, c)
    \/ Disown(w, c) \/ ForgetManager(w, c) \/ StopEnds(w, c)

Next ==
    \/ \E w \in Workers, c \in Channels :
         RequestNext(w, c) \/ ThreadNext(w, c) \/ StopNext(w, c)
    \/ \E w \in Workers : Crash(w) \/ \E t \in Tokens : LeakEnds(w, t)
    \/ \E c \in Channels : Expire(c)

Spec == Init /\ [][Next]_vars

-----------------------------------------------------------------------------
(* The memory of the workers has the shape the server and its managers give *)
(* it, and the Redis keys theirs.                                           *)
TypeOK ==
    /\ LedgerTypeOK
    /\ loc \in [Workers -> [Channels -> Local]]
    /\ lives \in 0..MaxLives
    /\ leaked \in [Workers -> SUBSET Tokens]

Upstream(w, c) == loc[w][c].mgr # None /\ loc[w][c].mgr.open

(* A manager whose provider connection is open still has its reservation,   *)
(* whatever stop_channel, expiries and late connections do.                 *)
UpstreamReserved ==
    \A w \in Workers, c \in Channels : Upstream(w, c) =>
        LET t == loc[w][c].mgr.sel.token IN
          rec[t] # None /\ rec[t].owner = LiveOwner(c, loc[w][c].mgr.sel.lease)

(* Two workers never hold a provider connection for one channel, although   *)
(* the owner key, the grant and the alias are looked at one after another.  *)
SingleUpstream ==
    \A v, w \in Workers, c \in Channels :
        Upstream(v, c) /\ Upstream(w, c) => v = w

(* Media is cleaned only when no worker has a connection to the provider    *)
(* that it still refers to; those that lost their reference are the matter  *)
(* of OrphansReserved.                                                      *)
CleanupSparesProducer ==
    [][\A c \in Channels :
         buffer[c] # <<>> /\ buffer'[c] = <<>> =>
           \A w \in Workers : ~Upstream(w, c)']_vars

(* Connections that lost their reference are covered as well: "so the next  *)
(* establish does not orphan the reader thread" (manager.py), "Close the    *)
(* exact local HTTP producer before consuming its slot" (server.py).        *)
OrphansReserved ==
    \A w \in Workers : \A t \in leaked[w] : rec[t] # None
=============================================================================
