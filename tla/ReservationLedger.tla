------------------------- MODULE ReservationLedger -------------------------
(* Provider capacity in Redis: the Lua scripts of reservation_ledger.py.    *)
(* A reservation is a record under a fresh token; an owner key points to    *)
(* it, three counters (profile, account, credential) count it, and a live   *)
(* channel alias or a VOD / timeshift session hash names it.  Every script  *)
(* is one atomic step; any caller may run it with any token, owner and      *)
(* destination, so handles and advisory reads may be arbitrarily stale.     *)
(* A refusal changes nothing.  The numeric and shape checks of the scripts  *)
(* (status -2) appear as the guard Counted.                                 *)
EXTENDS GenerationAuthority

CONSTANTS
    Tokens,         \* reservation tokens, each used once
    Dests,          \* destinations: a stream on a profile of an account
    CounterKeys,    \* the counter keys of all destinations
    KeysOf,         \* the profile, account and credential key of a destination
    Capacity,       \* the verified capacity behind a counter key
    VodSessions, ShiftSessions,
    Lives,          \* generations of a session: its owner lifecycles
    Viewers,        \* VOD viewers
    Playbacks,      \* timeshift playback generations, each used once
    MaxStreams      \* bound on active_streams of a VOD session

ASSUME LedgerAssumption ==
    /\ IsFiniteSet(Tokens)
    /\ KeysOf \in [Dests -> SUBSET CounterKeys]
    /\ Capacity \in [CounterKeys -> Nat \ {0}]
    /\ IsFiniteSet(Viewers)
    /\ None \notin Tokens \cup Channels \cup Playbacks

VARIABLES
    cutover,    \* the cutover key says 'ledger'
    rec,        \* reservation records by token
    own,        \* the owner keys
    cnt,        \* the counters
    alias,      \* the alias hash of a live channel
    sess,       \* the session hash of a VOD session or timeshift pool
    issued,     \* tokens already drawn
    watch,      \* VOD viewers between join and leave, with their handle
    play        \* timeshift playbacks, with their handle and upstream socket

lvars == <<cutover, rec, own, cnt, alias, sess, issued, watch, play>>
session == <<sess, watch, play>>

Owner ==
    [mode : {"live"}, home : Channels, life : Leases]
      \cup [mode : {"vod"}, home : VodSessions, life : Lives]
      \cup [mode : {"timeshift"}, home : ShiftSessions, life : Lives]

LiveOwner(c, w) == [mode |-> "live", home |-> c, life |-> w]

(* proof: the grant epoch and generation an active live record was promoted *)
(* by; fenced: those of the upstream it was switched away from.             *)
Proof == Provenance \cup {None}
Record == [owner : Owner, dest : Dests, state : {"pending", "active"},
           alias : Channels \cup {None}, proof : Proof, fenced : Proof]
Alias == [token : Tokens, lease : Leases, dest : Dests, stopped : Proof]

(* active: active_streams of a VOD session, busy (0 or 1) of a pool. *)
Session == [dest : Dests, token : Tokens \cup {None}, life : Lives \cup {None},
            active : Nat, playback : Playbacks \cup {None},
            stopped : Playbacks \cup {None}]
Handle == [token : Tokens, owner : Owner]
Playback == [token : Tokens, owner : Owner, open : BOOLEAN]

ASSUME RecordsAreSome ==
    /\ None \notin Record \cup Alias
    /\ None \notin Session \cup Handle \cup Playback

LedgerInit ==
    /\ AuthorityInit
    /\ cutover = FALSE
    /\ rec = [t \in Tokens |-> None]
    /\ own = [o \in Owner |-> None]
    /\ cnt = [k \in CounterKeys |-> 0]
    /\ alias = [c \in Channels |-> None]
    /\ sess = [s \in VodSessions \cup ShiftSessions |-> None]
    /\ issued = {}
    /\ watch = [v \in Viewers |-> None]
    /\ play = [p \in Playbacks |-> None]

HasRoomMutant(ks) == \A k \in ks : cnt[k] <= Capacity[k]

HasRoom(ks) == \A k \in ks : cnt[k] < Capacity[k]

(* The counters a release decrements are still positive. *)
Counted(ks) == \A k \in ks : cnt[k] >= 1

Plus(ks) == [k \in CounterKeys |-> IF k \in ks THEN cnt[k] + 1 ELSE cnt[k]]

Minus(ks) == [k \in CounterKeys |-> IF k \in ks THEN cnt[k] - 1 ELSE cnt[k]]

MovedMutant(d, e) ==
    [k \in CounterKeys |-> IF k \in KeysOf[e] \ KeysOf[d] THEN cnt[k] + 1
                           ELSE IF k \in KeysOf[d] THEN cnt[k] - 1 ELSE cnt[k]]

(* A counter both destinations share is left alone. *)
Moved(d, e) ==
    [k \in CounterKeys |-> IF k \in KeysOf[e] \ KeysOf[d] THEN cnt[k] + 1
                           ELSE IF k \in KeysOf[d] \ KeysOf[e] THEN cnt[k] - 1
                           ELSE cnt[k]]

(* The owner key and the record still name each other. *)
Owns(o, t) == own[o] = t /\ rec[t] # None /\ rec[t].owner = o

NewRecord(o, d, a) ==
    [owner |-> o, dest |-> d, state |-> "pending", alias |-> a,
     proof |-> None, fenced |-> None]

(* What _RESERVE and _RESERVE_LIVE_CHANNEL have in common. *)
Allocate(t, o, d, a) ==
    /\ cutover /\ t \notin issued
    /\ own[o] = None
    /\ HasRoom(KeysOf[d])
    /\ issued' = issued \cup {t}
    /\ rec' = [rec EXCEPT ![t] = NewRecord(o, d, a)]
    /\ own' = [own EXCEPT ![o] = t]
    /\ cnt' = Plus(KeysOf[d])

(* DECR the counters, DEL the record and the owner key. *)
Drop(t, o, d) ==
    /\ Counted(KeysOf[d])
    /\ rec' = [rec EXCEPT ![t] = None]
    /\ own' = [own EXCEPT ![o] = None]
    /\ cnt' = Minus(KeysOf[d])

Reserve(t, o, d) ==
    /\ Allocate(t, o, d, None)
    /\ UNCHANGED <<cutover, alias, session, avars>>

GenericMutant(t, o, d) ==
    /\ cutover /\ Owns(o, t)
    /\ rec[t].dest = d

(* The records the generic release and switch may touch. *)
Generic(t, o, d) ==
    /\ cutover /\ Owns(o, t)
    /\ rec[t].dest = d
    /\ rec[t].alias = None
    /\ rec[t].state = "pending" \/ o.mode = "live"

(* release and release_current *)
ReleaseGeneric(t, o, d) ==
    /\ Generic(t, o, d)
    /\ Drop(t, o, d)
    /\ UNCHANGED <<cutover, alias, issued, session, avars>>

FencedBy(r) == IF r.state = "active" /\ r.proof # None THEN r.proof ELSE r.fenced

Switched(r, e) ==
    [r EXCEPT !.dest = e, !.state = "pending", !.proof = None,
              !.fenced = FencedBy(r)]

(* switch and switch_current *)
SwitchGeneric(t, o, d, e) ==
    /\ Generic(t, o, d)
    /\ Counted(KeysOf[d])
    /\ HasRoom(KeysOf[e] \ KeysOf[d])
    /\ cnt' = Moved(d, e)
    /\ rec' = [rec EXCEPT ![t] = Switched(@, e)]
    /\ UNCHANGED <<cutover, own, alias, issued, session, avars>>

-----------------------------------------------------------------------------
(* Live channels. *)

ReserveLiveMutant(t, c, w, d) ==
    /\ owner[c] = w
    /\ Allocate(t, LiveOwner(c, w), d, c)
    /\ alias' = [alias EXCEPT ![c] = [token |-> t, lease |-> w, dest |-> d,
                                      stopped |-> None]]
    /\ UNCHANGED <<cutover, session, avars>>

(* _RESERVE_LIVE_CHANNEL *)
ReserveLive(t, c, w, d) ==
    /\ owner[c] = w
    /\ alias[c] = None
    /\ Allocate(t, LiveOwner(c, w), d, c)
    /\ alias' = [alias EXCEPT ![c] = [token |-> t, lease |-> w, dest |-> d,
                                      stopped |-> None]]
    /\ UNCHANGED <<cutover, session, avars>>

(* The owner lease, the record and the alias still belong together. *)
Assigned(t, c, w) ==
    /\ cutover /\ owner[c] = w
    /\ Owns(LiveOwner(c, w), t)
    /\ rec[t].alias = c
    /\ alias[c] # None /\ alias[c].token = t /\ alias[c].lease = w
    /\ alias[c].dest = rec[t].dest

(* _RELEASE_PENDING_LIVE_CHANNEL *)
ReleasePendingLive(t, c, w, d) ==
    /\ Assigned(t, c, w)
    /\ rec[t].dest = d /\ rec[t].state = "pending"
    /\ Drop(t, LiveOwner(c, w), d)
    /\ alias' = [alias EXCEPT ![c] = None]
    /\ UNCHANGED <<cutover, issued, session, avars>>

AttestedMutant(t, c, w, e, g) ==
    Holds(c, e) /\ grant[c].worker = w /\ generation[c] = g /\ owner[c] = w

(* The upstream of grant e and generation g has published under lease w. *)
Attested(t, c, w, e, g) ==
    /\ Holds(c, e) /\ grant[c].worker = w
    /\ generation[c] = g
    /\ owner[c] = w
    /\ \E i \in DOMAIN buffer[c] : buffer[c][i] = <<e, g>>
    /\ rec[t].fenced # <<e, g>>

(* _ACTIVATE_LIVE *)
ActivateLive(t, c, w, e, g) ==
    /\ cutover /\ Owns(LiveOwner(c, w), t)
    /\ rec[t].state = "pending"
    /\ rec[t].alias # None =>
         /\ rec[t].alias = c
         /\ alias[c] # None /\ alias[c].token = t /\ alias[c].lease = w
         /\ alias[c].stopped = None /\ alias[c].dest = rec[t].dest
    /\ Attested(t, c, w, e, g)
    /\ Counted(KeysOf[rec[t].dest])
    /\ rec' = [rec EXCEPT ![t].state = "active", ![t].proof = <<e, g>>]
    /\ UNCHANGED <<cutover, own, cnt, alias, issued, session, avars>>

(* The reservation is active under exactly this grant and generation. *)
ActiveUnder(t, c, w, d, e, g) ==
    /\ Assigned(t, c, w)
    /\ rec[t].dest = d /\ rec[t].state = "active" /\ rec[t].proof = <<e, g>>
    /\ Holds(c, e) /\ grant[c].worker = w /\ generation[c] = g

(* _ACK_LIVE_STOP *)
AckLiveStop(t, c, w, d, e, g) ==
    /\ ActiveUnder(t, c, w, d, e, g)
    /\ Counted(KeysOf[d])
    /\ alias' = [alias EXCEPT ![c].stopped = <<e, g>>]
    /\ UNCHANGED <<cutover, rec, own, cnt, issued, session, avars>>

(* _RELEASE_ACTIVE_LIVE *)
ReleaseActiveLive(t, c, w, d, e, g) ==
    /\ ActiveUnder(t, c, w, d, e, g)
    /\ alias[c].stopped = <<e, g>>
    /\ Drop(t, LiveOwner(c, w), d)
    /\ alias' = [alias EXCEPT ![c] = None]
    /\ UNCHANGED <<cutover, issued, session, avars>>

(* _SWITCH_LIVE_CHANNEL: p is the stopped proof, None for a pending channel *)
SwitchLive(t, c, w, d, e, p) ==
    /\ Assigned(t, c, w)
    /\ rec[t].dest = d
    /\ alias[c].stopped = p
    /\ IF p = None THEN rec[t].state = "pending"
       ELSE ActiveUnder(t, c, w, d, p[1], p[2])
    /\ Counted(KeysOf[d])
    /\ HasRoom(KeysOf[e] \ KeysOf[d])
    /\ cnt' = Moved(d, e)
    /\ rec' = [rec EXCEPT ![t] = Switched(@, e)]
    /\ alias' = [alias EXCEPT ![c].dest = e, ![c].stopped = None]
    /\ UNCHANGED <<cutover, own, issued, session, avars>>

LiveNext ==
    \E t \in Tokens, c \in Channels, w \in Leases, d \in Dests :
        \/ ReserveLive(t, c, w, d)
        \/ ReleasePendingLive(t, c, w, d)
        \/ \E e \in 1..MaxEpoch, g \in Generations :
             \/ ActivateLive(t, c, w, e, g)
             \/ AckLiveStop(t, c, w, d, e, g)
             \/ ReleaseActiveLive(t, c, w, d, e, g)
        \/ \E e \in Dests, p \in Proof : SwitchLive(t, c, w, d, e, p)

-----------------------------------------------------------------------------
(* VOD sessions and timeshift pools.  The hashes belong to the Dispatcharr  *)
(* session managers, which are not in this repository: they create a hash   *)
(* without a reservation (a pool is created busy) and may lose it.          *)

CreateSession(s, d) ==
    /\ sess[s] = None
    /\ sess' = [sess EXCEPT ![s] =
         [dest |-> d, token |-> None, life |-> None,
          active |-> IF s \in ShiftSessions THEN 1 ELSE 0,
          playback |-> None, stopped |-> None]]
    /\ UNCHANGED <<cutover, rec, own, cnt, alias, issued, watch, play, avars>>

LoseSession(s) ==
    /\ sess[s] # None
    /\ sess' = [sess EXCEPT ![s] = None]
    /\ UNCHANGED <<cutover, rec, own, cnt, alias, issued, watch, play, avars>>

BoundMutant(t, o) ==
    /\ cutover /\ Owns(o, t)
    /\ rec[t].state = "active"
    /\ sess[o.home] # None

(* The record is active and the hash names it. *)
Bound(t, o) ==
    /\ cutover /\ Owns(o, t)
    /\ rec[t].state = "active"
    /\ sess[o.home] # None
    /\ sess[o.home].token = t /\ sess[o.home].life = o.life
    /\ sess[o.home].dest = rec[t].dest

Bindable(t, o, n) ==
    /\ cutover /\ Owns(o, t)
    /\ rec[t].state = "pending"
    /\ sess[o.home] # None
    /\ sess[o.home].dest = rec[t].dest
    /\ sess[o.home].active = n
    /\ sess[o.home].token = None
    /\ Counted(KeysOf[rec[t].dest])

(* _BIND_VOD *)
BindVod(t, o) ==
    /\ o.mode = "vod" /\ Bindable(t, o, 0)
    /\ sess' = [sess EXCEPT ![o.home].token = t, ![o.home].life = o.life]
    /\ rec' = [rec EXCEPT ![t].state = "active"]
    /\ UNCHANGED <<cutover, own, cnt, alias, issued, watch, play, avars>>

(* _VOD_JOIN, by a viewer whose handle came from binding or _VOD_RESUME. *)
JoinVod(v, t, o) ==
    /\ o.mode = "vod" /\ Bound(t, o)
    /\ Counted(KeysOf[rec[t].dest])
    /\ watch[v] = None /\ sess[o.home].active < MaxStreams
    /\ sess' = [sess EXCEPT ![o.home].active = @ + 1]
    /\ watch' = [watch EXCEPT ![v] = [token |-> t, owner |-> o]]
    /\ UNCHANGED <<cutover, rec, own, cnt, alias, issued, play, avars>>

(* _VOD_LEAVE; it is refused when the hash no longer names the reservation. *)
LeaveVod(v) ==
    /\ watch[v] # None
    /\ LET t == watch[v].token
           o == watch[v].owner
       IN  IF Bound(t, o) /\ sess[o.home].active >= 1
           THEN sess' = [sess EXCEPT ![o.home].active = @ - 1]
           ELSE UNCHANGED sess
    /\ watch' = [watch EXCEPT ![v] = None]
    /\ UNCHANGED <<cutover, rec, own, cnt, alias, issued, play, avars>>

(* The worker of a viewer dies: its upstream ends, nobody calls leave. *)
ViewerDies(v) ==
    /\ watch[v] # None
    /\ watch' = [watch EXCEPT ![v] = None]
    /\ UNCHANGED <<cutover, rec, own, cnt, alias, issued, sess, play, avars>>

(* Nobody streams from the session any more. *)
Idle(s) == sess[s].active = 0

(* _VOD_CLEANUP and _CLEANUP_TIMESHIFT *)
CleanupSession(t, o, d) ==
    /\ o.mode # "live" /\ Bound(t, o)
    /\ rec[t].dest = d
    /\ Idle(o.home)
    /\ Drop(t, o, d)
    /\ sess' = [sess EXCEPT ![o.home] = None]
    /\ UNCHANGED <<cutover, alias, issued, watch, play, avars>>

Started(p, t, o) ==
    /\ play[p] = None
    /\ play' = [play EXCEPT ![p] = [token |-> t, owner |-> o, open |-> TRUE]]

(* _BIND_TIMESHIFT: the first playback opens its upstream. *)
BindPool(t, o, p) ==
    /\ o.mode = "timeshift" /\ Bindable(t, o, 1)
    /\ sess' = [sess EXCEPT ![o.home].token = t, ![o.home].life = o.life,
                            ![o.home].playback = p]
    /\ rec' = [rec EXCEPT ![t].state = "active"]
    /\ Started(p, t, o)
    /\ UNCHANGED <<cutover, own, cnt, alias, issued, watch, avars>>

(* _CLAIM_TIMESHIFT *)
ClaimPool(t, o, p) ==
    /\ o.mode = "timeshift" /\ Bound(t, o)
    /\ sess[o.home].active = 0 /\ sess[o.home].playback # p
    /\ Counted(KeysOf[rec[t].dest])
    /\ sess' = [sess EXCEPT ![o.home].active = 1, ![o.home].playback = p,
                            ![o.home].stopped = None]
    /\ Started(p, t, o)
    /\ UNCHANGED <<cutover, rec, own, cnt, alias, issued, watch, avars>>

(* The upstream socket of a playback ends. *)
CloseUpstream(p) ==
    /\ play[p] # None /\ play[p].open
    /\ play' = [play EXCEPT ![p].open = FALSE]
    /\ UNCHANGED <<cutover, rec, own, cnt, alias, sess, issued, watch, avars>>

(* p is the playback the busy pool is running. *)
CurrentPlayback(p) ==
    /\ Bound(play[p].token, play[p].owner)
    /\ sess[play[p].owner.home].active = 1
    /\ sess[play[p].owner.home].playback = p

(* _IDLE_TIMESHIFT, called once the upstream of p has ended *)
IdlePool(p) ==
    /\ play[p] # None /\ ~play[p].open /\ CurrentPlayback(p)
    /\ sess' = [sess EXCEPT ![play[p].owner.home].active = 0,
                            ![play[p].owner.home].stopped = None]
    /\ UNCHANGED <<cutover, rec, own, cnt, alias, issued, watch, play, avars>>

(* _ACK_TIMESHIFT_STOP, called once the upstream of p has ended *)
AckPoolStop(p) ==
    /\ play[p] # None /\ ~play[p].open /\ CurrentPlayback(p)
    /\ sess' = [sess EXCEPT ![play[p].owner.home].stopped = p]
    /\ UNCHANGED <<cutover, rec, own, cnt, alias, issued, watch, play, avars>>

SupersedableMutant(t, o, p) == sess[o.home].active = 1

(* The running playback p has attested the end of its upstream. *)
Supersedable(t, o, p) ==
    /\ sess[o.home].active = 1
    /\ sess[o.home].playback = p /\ sess[o.home].stopped = p

(* _SUPERSEDE_TIMESHIFT *)
SupersedePool(t, o, p, q) ==
    /\ o.mode = "timeshift" /\ Bound(t, o)
    /\ Supersedable(t, o, p) /\ p # q
    /\ Counted(KeysOf[rec[t].dest])
    /\ sess' = [sess EXCEPT ![o.home].playback = q, ![o.home].stopped = None]
    /\ Started(q, t, o)
    /\ UNCHANGED <<cutover, rec, own, cnt, alias, issued, watch, avars>>

SessionNext ==
    \/ \E s \in VodSessions \cup ShiftSessions :
         LoseSession(s) \/ \E d \in Dests : CreateSession(s, d)
    \/ \E t \in Tokens, o \in Owner :
         \/ BindVod(t, o)
         \/ \E v \in Viewers : JoinVod(v, t, o)
         \/ \E d \in Dests : CleanupSession(t, o, d)
         \/ \E p \in Playbacks : BindPool(t, o, p) \/ ClaimPool(t, o, p)
         \/ \E p, q \in Playbacks : SupersedePool(t, o, p, q)
    \/ \E v \in Viewers : LeaveVod(v) \/ ViewerDies(v)
    \/ \E p \in Playbacks : CloseUpstream(p) \/ IdlePool(p) \/ AckPoolStop(p)

(* The operator sets the cutover key, and may withdraw it. *)
SetCutover ==
    /\ cutover' = ~cutover
    /\ UNCHANGED <<rec, own, cnt, alias, issued, session, avars>>

GenericNext ==
    \E t \in Tokens, o \in Owner, d \in Dests :
        \/ Reserve(t, o, d)
        \/ ReleaseGeneric(t, o, d)
        \/ \E e \in Dests : SwitchGeneric(t, o, d, e)

LedgerNext ==
    \/ SetCutover
    \/ GenericNext
    \/ LiveNext
    \/ SessionNext
    \/ AuthorityNext /\ UNCHANGED lvars

LedgerSpec == LedgerInit /\ [][LedgerNext]_<<avars, lvars>>

-----------------------------------------------------------------------------
(* The keys of the authority and of the ledger have the values the scripts *)
(* write.                                                                  *)
LedgerTypeOK ==
    /\ AuthorityTypeOK
    /\ cutover \in BOOLEAN /\ issued \in SUBSET Tokens
    /\ rec \in [Tokens -> Record \cup {None}]
    /\ own \in [Owner -> Tokens \cup {None}]
    /\ cnt \in [CounterKeys -> Nat]
    /\ alias \in [Channels -> Alias \cup {None}]
    /\ sess \in [VodSessions \cup ShiftSessions -> Session \cup {None}]
    /\ watch \in [Viewers -> Handle \cup {None}]
    /\ play \in [Playbacks -> Playback \cup {None}]

Counting(k) == {t \in Tokens : rec[t] # None /\ k \in KeysOf[rec[t].dest]}

(* A counter is the number of reservations that name it, through every      *)
(* reserve, switch, release and cleanup, and within the verified capacity:  *)
(* capacity neither leaks nor is given back twice.                          *)
CountersExact ==
    \A k \in CounterKeys : cnt[k] = Cardinality(Counting(k)) /\ cnt[k] <= Capacity[k]

(* Owner key, record and alias always name each other, so a lifecycle holds *)
(* one reservation and a channel belongs to one lifecycle.                  *)
ReservationsLinked ==
    /\ \A t \in Tokens : rec[t] # None => own[rec[t].owner] = t
    /\ \A o \in Owner : own[o] # None => rec[own[o]] # None /\ rec[own[o]].owner = o
    /\ \A c \in Channels : alias[c] # None =>
         LET t == alias[c].token IN
           /\ rec[t] # None /\ rec[t].alias = c /\ rec[t].dest = alias[c].dest
           /\ rec[t].owner = LiveOwner(c, alias[c].lease)

(* A VOD viewer or a timeshift upstream that is still running keeps its     *)
(* reservation, whatever stale cleanups, leaves or lost sessions intervene. *)
StreamsHoldCapacity ==
    /\ \A v \in Viewers : watch[v] # None => rec[watch[v].token] # None
    /\ \A p \in Playbacks :
         play[p] # None /\ play[p].open => rec[play[p].token] # None

(* A timeshift reservation never carries two upstream sockets: the next     *)
(* playback starts only after the current one is idle or has attested its   *)
(* end.                                                                     *)
OnePlaybackUpstream ==
    \A p, q \in Playbacks :
        play[p] # None /\ play[q] # None /\ p # q =>
          ~(play[p].open /\ play[q].open /\ play[p].token = play[q].token)

(* After a switch a live reservation is active again only under a newer     *)
(* grant or another generation: the upstream it was switched away from      *)
(* cannot re-attest it.                                                     *)
SwitchFencesUpstream ==
    \A t \in Tokens : rec[t] # None =>
        /\ rec[t].state = "active" => rec[t].proof # rec[t].fenced \/ rec[t].proof = None
        /\ rec[t].fenced # None /\ rec[t].proof # None =>
             rec[t].fenced[1] <= rec[t].proof[1]
=============================================================================
