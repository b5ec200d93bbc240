---------------------- MODULE SportsLivePlaybackProofs ----------------------
(***************************************************************************)
(* A watched channel holds what it streams over, for any requests, users,  *)
(* channels, configurations and times to live: the invariant that ties the *)
(* place of the three threads of a request to what the pool, the registry  *)
(* and the ledger hold for it.                                             *)
(***************************************************************************)
EXTENDS SportsLivePlayback, FiniteSetTheorems, TLAPS

\* The proofs of the ledger, for the sessions this system opens.
Rows == INSTANCE JellyfinLiveStreamsProofs WITH Sessions <- Requests, Owner <- Viewer

\* The proofs of the pool, for the leases of these requests.
Stock == INSTANCE SportsResourcePoolProofs WITH
            LeaseIds <- Requests, Callers <- {}, CandidateLists <- Seq(Sources),
            issued <- {}, calls <- <<>>

\* Every route shares its lease: bindings come from a shared-access policy.
AllShared == \A t \in Targets, s \in Sources : config.bindings[t][s] # None

\* The steps in which a thread waits for its remote call.
Waiting == {"remote", "scopeclose", "closing"}

\* Where a thread can be.
Places == {"new", "admit", "resolve", "remote", "validate", "scopeclose", "failed", "issue",
           "undo", "closing", "unsession", "unlease", "playing", "done",
           "idle", "session", "lease", "close", "drop"}

\* The thread whose call holds the ledger waits for its own session, and it
\* is the only one that waits.
Waits ==
    /\ waiter \in Threads \cup {None, Reaper}
    /\ waiter = None <=> op.kind = "none"
    /\ waiter = Reaper => op.kind = "close"
    /\ waiter \in Threads =>
          /\ op.session = waiter[2] /\ op.todo = {}
          /\ pc[waiter] \in Waiting
          /\ pc[waiter] # "closing" => waiter[1] = "open"
          /\ op.kind = "open" <=> pc[waiter] = "remote"
    /\ \A t \in Threads : pc[t] \in Waiting => waiter = t

\* What the place of the open request says about the three stores.
Opening(q) ==
    /\ At("open", q, "new") =>
          q \notin DOMAIN leases \cup DOMAIN sessions \cup shared
    /\ pc[<<"open", q>>] \in {"new", "admit", "resolve"} => q \notin used
    /\ At("open", q, "admit") => q \notin DOMAIN sessions
    /\ pc[<<"open", q>>] \in {"admit", "resolve"} /\ q \in shared => q \in DOMAIN leases
    /\ pc[<<"open", q>>] \in {"unsession", "unlease"} => q \notin shared \cap DOMAIN streams
    /\ At("open", q, "unlease") => q \notin DOMAIN sessions
    /\ AllShared /\ pc[<<"open", q>>] \notin {"new", "done"} => q \in shared

\* What the place of the release says about them.
Releasing(q) ==
    /\ pc[<<"stop", q>>] # "idle" => Playing(q)
    /\ pc[<<"stop", q>>] \in {"session", "lease"} => q \notin DOMAIN streams
    /\ At("stop", q, "lease") => q \notin DOMAIN sessions
    /\ q \in released =>
          Playing(q) /\ q \notin DOMAIN streams \cup DOMAIN sessions \cup DOMAIN leases

\* What the stores hold for one request fits together.
Linked(q) ==
    /\ q \in shared \cap (DOMAIN sessions \cup DOMAIN streams) => q \in DOMAIN leases
    /\ q \in DOMAIN leases => leases[q].user = Viewer[q]
    /\ q \in shared \cap DOMAIN leases => Pool!IsShared(leases[q])
    /\ q \in DOMAIN sessions => sessions[q].user = Viewer[q]
    /\ q \in DOMAIN streams => q \in used
    /\ AllShared /\ q \in DOMAIN streams => q \in shared

\* The inductive invariant, beside that of the ledger.
PlaybackInv ==
    /\ pc \in [Threads -> Places]
    /\ IsFiniteSet(DOMAIN leases)
    /\ Waits
    /\ \A q \in Requests : Opening(q) /\ Releasing(q) /\ Linked(q)

-----------------------------------------------------------------------------
(* The threads.                                                            *)

\* The threads of one session: the session request, the heartbeat, the release.
Kinds == {"open", "beat", "stop"}

\* A move of one thread leaves every other one where it is.
LEMMA OneThreadMoves ==
    ASSUME pc \in [Threads -> Places], NEW k \in Kinds, NEW r \in Requests,
           NEW step \in Places, Goto(k, r, step)
    PROVE  /\ pc' \in [Threads -> Places]
           /\ pc'[<<k, r>>] = step
           /\ \A t \in Threads : t # <<k, r>> => pc'[t] = pc[t]
           /\ \A q \in Requests :
                 /\ pc'[<<"open", q>>] = IF k = "open" /\ q = r THEN step ELSE pc[<<"open", q>>]
                 /\ pc'[<<"stop", q>>] = IF k = "stop" /\ q = r THEN step ELSE pc[<<"stop", q>>]
<1>1. <<k, r>> \in Threads
  BY DEF Kinds, Threads
<1>2. \A q \in Requests : <<"open", q>> \in Threads /\ <<"stop", q>> \in Threads
  BY DEF Threads
<1>3. pc' = [pc EXCEPT ![<<k, r>>] = step]
  BY DEF Goto
<1>4. /\ pc' \in [Threads -> Places] /\ pc'[<<k, r>>] = step
      /\ \A t \in Threads : t # <<k, r>> => pc'[t] = pc[t]
  BY <1>1, <1>3
<1>5. \A q \in Requests :
         /\ (k = "open" /\ q = r) <=> <<"open", q>> = <<k, r>>
         /\ (k = "stop" /\ q = r) <=> <<"stop", q>> = <<k, r>>
  OBVIOUS
<1> QED
  BY <1>2, <1>4, <1>5

\* A thread that neither waited nor begins to wait does not touch the lock.
LEMMA NotWaiting ==
    ASSUME pc \in [Threads -> Places], Waits, UNCHANGED <<op, waiter>>,
           NEW k \in Kinds, NEW r \in Requests, NEW step \in Places, Goto(k, r, step),
           pc[<<k, r>>] \notin Waiting, step \notin Waiting
    PROVE  Waits'
<1>1. <<k, r>> \in Threads
  BY DEF Kinds, Threads
<1>2. /\ pc'[<<k, r>>] = step
      /\ \A t \in Threads : t # <<k, r>> => pc'[t] = pc[t]
  BY OneThreadMoves
<1>3. waiter \in Threads => waiter # <<k, r>>
  BY DEF Waits
<1> QED
  BY <1>1, <1>2, <1>3 DEF Waits

\* No thread moves and the lock stays as it is.
LEMMA WaitsStay ==
    ASSUME Waits, UNCHANGED <<op, waiter, pc>>
    PROVE  Waits'
  BY DEF Waits

\* The lock is free: a thread takes it for its own session.
LEMMA BeginsToWait ==
    ASSUME pc \in [Threads -> Places], Waits, waiter = None,
           NEW k \in Kinds, NEW r \in Requests, NEW step \in Waiting, Goto(k, r, step),
           step # "closing" => k = "open",
           waiter' = <<k, r>>,
           op'.kind # "none", op'.session = r, op'.todo = {},
           op'.kind = "open" <=> step = "remote"
    PROVE  Waits'
<1>1. <<k, r>> \in Threads /\ <<k, r>> # None /\ <<k, r>> # Reaper
  <2>1. <<k, r>> \in Threads
    BY DEF Kinds, Threads
  <2>2. <<k, r>> # Reaper
    BY DEF Kinds, Reaper
  <2>3. \A t \in Threads : t # None
    BY PlaybackConstants
  <2>4. <<k, r>> # None
    BY <2>1, <2>3
  <2> QED
    BY <2>1, <2>2, <2>4
<1>2. step \in Places
  BY DEF Waiting, Places
<1>3. /\ pc'[<<k, r>>] = step
      /\ \A t \in Threads : t # <<k, r>> => pc'[t] = pc[t]
  BY <1>2, OneThreadMoves
<1>4. \A t \in Threads : t # None
  BY PlaybackConstants
<1>5. <<k, r>>[1] = k /\ <<k, r>>[2] = r
  OBVIOUS
<1> QED
  BY <1>1, <1>3, <1>4, <1>5 DEF Waits

\* The call ends: the thread that waited goes on, and nobody waits.
LEMMA StopsWaiting ==
    ASSUME pc \in [Threads -> Places], Waits, op.kind # "none", op'.kind = "none",
           NEW step \in Places, Resume(step), step \notin Waiting
    PROVE  /\ Waits'
           /\ pc' \in [Threads -> Places]
           /\ \A t \in Threads : pc'[t] = IF waiter = t THEN step ELSE pc[t]
<1>1. waiter \in Threads \cup {Reaper} /\ waiter' = None
  BY DEF Waits, Resume
<1>2. Reaper # None /\ Reaper \notin Threads /\ None \notin Threads
  BY PlaybackConstants DEF Reaper, Threads
<1>3. CASE waiter = Reaper
  <2>1. pc' = pc
    BY <1>3 DEF Resume
  <2> QED
    BY <1>1, <1>2, <1>3, <2>1 DEF Waits
<1>4. CASE waiter \in Threads
  <2>1. pc' = [pc EXCEPT ![waiter] = step]
    BY <1>2, <1>4 DEF Resume
  <2>2. /\ pc' \in [Threads -> Places]
        /\ \A t \in Threads : pc'[t] = IF waiter = t THEN step ELSE pc[t]
    BY <1>4, <2>1
  <2> QED
    BY <1>1, <1>2, <1>4, <2>2 DEF Waits
<1> QED
  BY <1>1, <1>3, <1>4

-----------------------------------------------------------------------------
(* The stores.                                                             *)

\* A step that takes nothing for q and gives back no shared lease of it.
StoresQuiet(q) ==
    /\ q \in DOMAIN leases' =>
          /\ q \in DOMAIN leases
          /\ leases'[q].user = leases[q].user /\ leases'[q].fp = leases[q].fp
    /\ q \in DOMAIN leases /\ Pool!IsShared(leases[q]) => q \in DOMAIN leases'
    /\ q \in DOMAIN sessions' => q \in DOMAIN sessions /\ sessions'[q].user = sessions[q].user
    /\ q \in DOMAIN streams' => q \in DOMAIN streams
    /\ q \in used' <=> q \in used
    /\ q \in shared' <=> q \in shared
    /\ q \in released' <=> q \in released
    /\ config' = config

\* The configuration is read when the API starts.
LEMMA SameRoutes == config' = config => (AllShared' <=> AllShared)
  BY DEF AllShared

\* Such a step keeps the links of q ...
LEMMA LinkedKept ==
    ASSUME NEW q \in Requests, Linked(q), StoresQuiet(q)
    PROVE  Linked(q)'
<1>1. AllShared' <=> AllShared
  BY SameRoutes DEF StoresQuiet
<1> QED
  BY <1>1 DEF StoresQuiet, Linked, Pool!IsShared

\* ... and what its threads know, when they stay where they are.
LEMMA PlacesKept ==
    ASSUME NEW q \in Requests, Opening(q), Releasing(q), Linked(q), StoresQuiet(q),
           pc'[<<"open", q>>] = pc[<<"open", q>>], pc'[<<"stop", q>>] = pc[<<"stop", q>>]
    PROVE  Opening(q)' /\ Releasing(q)'
<1>1. AllShared' <=> AllShared
  BY SameRoutes DEF StoresQuiet
<1> QED
  BY <1>1 DEF StoresQuiet, Opening, Releasing, Linked, At, Playing

\* Pruning the pool, and writing or dropping one row of it.
LEMMA PoolKept ==
    /\ DOMAIN LivingLeases \subseteq DOMAIN leases
    /\ \A q \in DOMAIN LivingLeases : LivingLeases[q] = leases[q]
    /\ \A q \in DOMAIN leases : Pool!IsShared(leases[q]) => q \in DOMAIN LivingLeases
  BY DEF LivingLeases, Pool!PruneStale

\* Pruning the registry.
LEMMA RegistryKept ==
    /\ DOMAIN Registry!Pruned \subseteq DOMAIN sessions
    /\ \A q \in DOMAIN Registry!Pruned : Registry!Pruned[q] = sessions[q]
  BY DEF Registry!Pruned

\* A step of the threads of r: every other request is as it was.
LEMMA OnlyOneMoves ==
    ASSUME PlaybackInv, NEW r \in Requests,
           pc' \in [Threads -> Places], IsFiniteSet(DOMAIN leases'), Waits',
           \A q \in Requests \ {r} :
              /\ StoresQuiet(q)
              /\ pc'[<<"open", q>>] = pc[<<"open", q>>] /\ pc'[<<"stop", q>>] = pc[<<"stop", q>>],
           Opening(r)', Releasing(r)', Linked(r)'
    PROVE  PlaybackInv'
<1>1. ASSUME NEW q \in Requests \ {r} PROVE (Opening(q) /\ Releasing(q) /\ Linked(q))'
  <2>1. q \in Requests /\ Opening(q) /\ Releasing(q) /\ Linked(q)
    BY DEF PlaybackInv
  <2> QED
    BY <2>1, LinkedKept, PlacesKept
<1> QED
  BY <1>1 DEF PlaybackInv

\* Nothing but the place of a thread changes.
LEMMA OnlyControlQuiet ==
    ASSUME OnlyControl
    PROVE  /\ \A q : StoresQuiet(q)
           /\ leases' = leases /\ op' = op /\ waiter' = waiter
           /\ AllShared' <=> AllShared
  BY SameRoutes DEF OnlyControl, ledgerVars, StoresQuiet

\* Such a step keeps the invariant when the place it leads to is right.
LEMMA ControlKeeps ==
    ASSUME PlaybackInv, OnlyControl,
           NEW k \in Kinds, NEW r \in Requests, NEW step \in Places, Goto(k, r, step),
           pc[<<k, r>>] \notin Waiting, step \notin Waiting,
           Opening(r)', Releasing(r)'
    PROVE  PlaybackInv'
<1>1. pc \in [Threads -> Places] /\ Waits /\ IsFiniteSet(DOMAIN leases) /\ Linked(r)
  BY DEF PlaybackInv
<1>2. Waits'
  BY <1>1, NotWaiting, OnlyControlQuiet
<1>3. Linked(r)'
  BY <1>1, LinkedKept, OnlyControlQuiet
<1>4. /\ pc' \in [Threads -> Places]
      /\ \A q \in Requests \ {r} :
            pc'[<<"open", q>>] = pc[<<"open", q>>] /\ pc'[<<"stop", q>>] = pc[<<"stop", q>>]
  BY <1>1, OneThreadMoves
<1> QED
  BY <1>1, <1>2, <1>3, <1>4, OnlyControlQuiet, OnlyOneMoves

\* The open request moves without a store being touched.
LEMMA OpenControlKeeps ==
    ASSUME PlaybackInv, NEW r \in Requests,
           \/ Refuse(r) \/ AdmitFails(r) \/ NeedsNoOpen(r) \/ ResolveFails(r) \/ Validated(r)
           \/ NotUsableReaped(r) \/ Failed(r) \/ Issue(r)
    PROVE  PlaybackInv'
<1>1. PICK step \in {"done", "unlease", "issue", "failed", "unsession", "playing", "undo"} :
         /\ OnlyControl /\ Goto("open", r, step)
         /\ pc[<<"open", r>>] \in {"new", "admit", "resolve", "validate", "failed", "issue"}
         /\ pc[<<"open", r>>] = "new" => step = "done"
         /\ step = "unlease" => pc[<<"open", r>>] = "admit"
         /\ step = "unsession" => r \notin shared
  BY DEF Refuse, AdmitFails, NeedsNoOpen, ResolveFails, Validated, NotUsableReaped, Failed, Issue, At
<1>2. step \in Places \ Waiting /\ "open" \in Kinds /\ pc[<<"open", r>>] \notin Waiting
  BY <1>1 DEF Places, Waiting, Kinds
<1>3. pc \in [Threads -> Places] /\ Opening(r) /\ Releasing(r) /\ Linked(r)
  BY DEF PlaybackInv
<1>4. pc'[<<"open", r>>] = step /\ pc'[<<"stop", r>>] = pc[<<"stop", r>>]
  BY <1>1, <1>2, <1>3, OneThreadMoves
<1>5. StoresQuiet(r) /\ (AllShared' <=> AllShared)
  BY <1>1, OnlyControlQuiet
<1>6. Opening(r)'
  BY <1>1, <1>3, <1>4, <1>5 DEF Opening, At, Linked, StoresQuiet
<1>7. Releasing(r)'
  BY <1>1, <1>3, <1>4, <1>5 DEF Releasing, At, Playing, StoresQuiet
<1> QED
  BY <1>1, <1>2, <1>6, <1>7, ControlKeeps

\* The heartbeat moves without a store being touched.
LEMMA BeatControlKeeps ==
    ASSUME PlaybackInv, NEW r \in Requests, NEW step \in Places \ Waiting,
           OnlyControl, Goto("beat", r, step), pc[<<"beat", r>>] \notin Waiting
    PROVE  PlaybackInv'
<1>1. "beat" \in Kinds /\ step \in Places /\ step \notin Waiting
  BY DEF Kinds
<1>2. pc \in [Threads -> Places] /\ Opening(r) /\ Releasing(r) /\ Linked(r)
  BY DEF PlaybackInv
<1>3. pc'[<<"open", r>>] = pc[<<"open", r>>] /\ pc'[<<"stop", r>>] = pc[<<"stop", r>>]
  BY <1>1, <1>2, OneThreadMoves
<1>4. StoresQuiet(r)
  BY OnlyControlQuiet
<1>5. Opening(r)' /\ Releasing(r)'
  BY <1>2, <1>3, <1>4, PlacesKept
<1> QED
  BY <1>1, <1>5, ControlKeeps

\* release_live_stream() finds no row to close, or a latched one.
LEMMA NoCloseKeeps ==
    ASSUME PlaybackInv, NEW k \in Kinds, NEW r \in Requests,
           NoStream(k, r) \/ StreamLatched(k, r)
    PROVE  PlaybackInv'
<1>1. PICK step \in {"unsession", "drop", "session", "done", "idle"} :
         /\ OnlyControl /\ Goto(k, r, step)
         /\ IF k = "open" THEN At(k, r, "undo") /\ step \in {"unsession", "done"}
            ELSE IF k = "stop" THEN At(k, r, "idle") /\ Playing(r) /\ step \in {"session", "idle"}
            ELSE At(k, r, "close") /\ step \in {"drop", "idle"}
         /\ step \in {"unsession", "session"} => r \notin DOMAIN streams
  BY DEF NoStream, StreamLatched, AtClose, AfterClose, Ended, Kinds
<1>2. step \in Places \ Waiting /\ pc[<<k, r>>] \notin Waiting
  BY <1>1 DEF Places, Waiting, At
<1>3. pc \in [Threads -> Places] /\ Opening(r) /\ Releasing(r) /\ Linked(r)
  BY DEF PlaybackInv
<1>4. CASE k = "beat"
  BY <1>1, <1>2, <1>4, BeatControlKeeps
<1>5. CASE k # "beat"
  <2>1. /\ pc'[<<"open", r>>] = IF k = "open" THEN step ELSE pc[<<"open", r>>]
        /\ pc'[<<"stop", r>>] = IF k = "stop" THEN step ELSE pc[<<"stop", r>>]
    BY <1>1, <1>2, <1>3, OneThreadMoves
  <2>2. StoresQuiet(r) /\ (AllShared' <=> AllShared)
    BY <1>1, OnlyControlQuiet
  <2>3. streams' = streams
    BY <1>1 DEF OnlyControl, ledgerVars
  <2>4. Opening(r)'
    BY <1>1, <1>3, <1>5, <2>1, <2>2, <2>3 DEF Opening, At, Linked, StoresQuiet, Kinds
  <2>5. Releasing(r)'
    BY <1>1, <1>3, <1>5, <2>1, <2>2, <2>3 DEF Releasing, At, Playing, StoresQuiet, Kinds
  <2> QED
    BY <1>1, <1>2, <2>4, <2>5, ControlKeeps
<1> QED
  BY <1>4, <1>5

-----------------------------------------------------------------------------
(* The calls on the ledger.                                                *)

\* A step of the ledger that takes no new row leaves the other stores alone.
LEMMA OnlyLedgerQuiet ==
    ASSUME OnlyLedger, NEW q,
           q \in DOMAIN streams' => q \in DOMAIN streams,
           q \in used' <=> q \in used
    PROVE  StoresQuiet(q) /\ leases' = leases /\ (AllShared' <=> AllShared)
  BY SameRoutes DEF OnlyLedger, StoresQuiet

\* When the lock is free nobody waits.
LEMMA FreeMeansNobody == Waits => (Ledger!Free <=> waiter = None)
  BY DEF Waits, Ledger!Free

\* A thread of r closes its stream.
LEMMA CloseBeginKeeps ==
    ASSUME PlaybackInv, NEW k \in Kinds, NEW r \in Requests,
           CloseStream(k, r) \/ (k = "open" /\ NotUsable(r))
    PROVE  PlaybackInv'
<1>1. PICK step \in {"scopeclose", "closing"} :
         /\ OnlyLedger /\ Goto(k, r, step)
         /\ step = "scopeclose" => k = "open"
         /\ Ledger!Release(r, Viewer[r]) /\ waiter' = <<k, r>>
         /\ k = "open" => pc[<<"open", r>>] \in {"undo", "validate"}
         /\ k = "stop" => Playing(r)
  BY DEF CloseStream, NotUsable, AtClose, At, Kinds
<1>2. step \in Waiting /\ step \in Places
  BY <1>1 DEF Places, Waiting
<1>3. /\ Ledger!Free /\ DOMAIN streams' = DOMAIN streams /\ used' = used
      /\ op' = [kind |-> "close", session |-> r, todo |-> {}]
  BY <1>1 DEF Ledger!Release, Ledger!CloseIntent
<1>4. /\ pc \in [Threads -> Places] /\ Waits /\ IsFiniteSet(DOMAIN leases)
      /\ Opening(r) /\ Releasing(r) /\ Linked(r)
  BY DEF PlaybackInv
<1>5. waiter = None
  BY <1>3, <1>4, FreeMeansNobody
<1>6. Waits'
  BY <1>1, <1>2, <1>3, <1>4, <1>5, BeginsToWait DEF Waiting
<1>7. /\ pc' \in [Threads -> Places]
      /\ pc'[<<"open", r>>] = IF k = "open" THEN step ELSE pc[<<"open", r>>]
      /\ pc'[<<"stop", r>>] = IF k = "stop" THEN step ELSE pc[<<"stop", r>>]
      /\ \A q \in Requests \ {r} :
            pc'[<<"open", q>>] = pc[<<"open", q>>] /\ pc'[<<"stop", q>>] = pc[<<"stop", q>>]
  BY <1>1, <1>2, <1>4, OneThreadMoves
<1>8. /\ \A q \in Requests : StoresQuiet(q)
      /\ leases' = leases /\ (AllShared' <=> AllShared)
  BY <1>1, <1>3, OnlyLedgerQuiet
<1>9. StoresQuiet(r)
  BY <1>8
<1>10. Opening(r)'
  BY <1>1, <1>4, <1>7, <1>8, <1>9 DEF Opening, At, Linked, StoresQuiet, Kinds
<1>11. Releasing(r)'
  BY <1>1, <1>4, <1>7, <1>8, <1>9 DEF Releasing, At, Playing, StoresQuiet, Kinds
<1>12. Linked(r)'
  BY <1>4, <1>9, LinkedKept
<1> QED
  BY <1>4, <1>6, <1>7, <1>8, <1>10, <1>11, <1>12, OnlyOneMoves

\* Jellyfin is asked for a stream: the only step that takes a row.
LEMMA OpenStreamKeeps ==
    ASSUME PlaybackInv, NEW r \in Requests, OpenStream(r)
    PROVE  PlaybackInv'
<1>1. /\ OnlyLedger /\ Goto("open", r, "remote") /\ waiter' = <<"open", r>>
      /\ pc[<<"open", r>>] = "resolve"
      /\ Ledger!Free /\ DOMAIN streams' = DOMAIN streams \cup {r} /\ used' = used \cup {r}
      /\ op' = [kind |-> "open", session |-> r, todo |-> {}]
  BY DEF OpenStream, Ledger!OpenIntent, Ledger!WithIntent, At
<1>2. "open" \in Kinds /\ "remote" \in Waiting /\ "remote" \in Places
  BY DEF Kinds, Waiting, Places
<1>3. /\ pc \in [Threads -> Places] /\ Waits /\ IsFiniteSet(DOMAIN leases)
      /\ Opening(r) /\ Releasing(r) /\ Linked(r)
  BY DEF PlaybackInv
<1>4. waiter = None
  BY <1>1, <1>3, FreeMeansNobody
<1>5. Waits'
  BY <1>1, <1>2, <1>3, <1>4, BeginsToWait
<1>6. /\ pc' \in [Threads -> Places]
      /\ pc'[<<"open", r>>] = "remote" /\ pc'[<<"stop", r>>] = pc[<<"stop", r>>]
      /\ \A q \in Requests \ {r} :
            pc'[<<"open", q>>] = pc[<<"open", q>>] /\ pc'[<<"stop", q>>] = pc[<<"stop", q>>]
  BY <1>1, <1>2, <1>3, OneThreadMoves
<1>7. \A q \in Requests \ {r} : StoresQuiet(q)
  BY <1>1, OnlyLedgerQuiet
<1>8. /\ leases' = leases /\ sessions' = sessions /\ shared' = shared /\ released' = released
      /\ (AllShared' <=> AllShared)
  BY <1>1, SameRoutes DEF OnlyLedger
<1>9. Opening(r)'
  BY <1>1, <1>3, <1>6, <1>8 DEF Opening, At
<1>10. Releasing(r)'
  BY <1>1, <1>3, <1>6, <1>8 DEF Releasing, At, Playing
<1>11. Linked(r)'
  BY <1>1, <1>3, <1>8 DEF Linked, Opening
<1> QED
  BY <1>3, <1>5, <1>6, <1>7, <1>8, <1>9, <1>10, <1>11, OnlyOneMoves

\* The remote call ends: the thread that waited goes on to step.
LEMMA CallEndsKeeps ==
    ASSUME PlaybackInv, OnlyLedger, op.kind # "none", op'.kind = "none",
           DOMAIN streams' \subseteq DOMAIN streams, used' = used,
           NEW step \in Places \ Waiting, Resume(step),
           waiter \in Threads /\ waiter[1] = "open" =>
              \/ step \in {"validate", "failed", "done"}
              \/ step = "unsession" /\ waiter[2] \notin DOMAIN streams',
           waiter \in Threads /\ waiter[1] = "stop" =>
              step = "idle" \/ (step = "session" /\ waiter[2] \notin DOMAIN streams')
    PROVE  PlaybackInv'
<1>1. /\ pc \in [Threads -> Places] /\ Waits /\ IsFiniteSet(DOMAIN leases)
      /\ step \in Places /\ step \notin Waiting
  BY DEF PlaybackInv
<1>2. /\ Waits' /\ pc' \in [Threads -> Places]
      /\ \A t \in Threads : pc'[t] = IF waiter = t THEN step ELSE pc[t]
  BY <1>1, StopsWaiting
<1>3. \A q \in Requests : StoresQuiet(q)
  BY OnlyLedgerQuiet
<1>4. leases' = leases /\ (AllShared' <=> AllShared)
  BY SameRoutes DEF OnlyLedger
<1>5. \A q \in Requests : Linked(q)'
  BY <1>3, LinkedKept DEF PlaybackInv
<1>6. \A q \in Requests : <<"open", q>> \in Threads /\ <<"stop", q>> \in Threads
  BY DEF Threads
<1>7. ASSUME NEW q \in Requests PROVE Opening(q)' /\ Releasing(q)'
  <2>1. Opening(q) /\ Releasing(q) /\ Linked(q) /\ StoresQuiet(q)
    BY <1>3 DEF PlaybackInv
  <2>2. /\ pc'[<<"open", q>>] = IF waiter = <<"open", q>> THEN step ELSE pc[<<"open", q>>]
        /\ pc'[<<"stop", q>>] = IF waiter = <<"stop", q>> THEN step ELSE pc[<<"stop", q>>]
    BY <1>2, <1>6
  <2>3. CASE waiter = <<"open", q>>
    <3>1. waiter \in Threads /\ waiter[1] = "open" /\ waiter[2] = q /\ waiter # <<"stop", q>>
      BY <1>6, <2>3
    <3>2. pc[<<"open", q>>] \in Waiting
      BY <1>1, <2>3, <3>1 DEF Waits
    <3>3. pc'[<<"open", q>>] = step /\ pc'[<<"stop", q>>] = pc[<<"stop", q>>]
      BY <2>2, <2>3, <3>1
    <3>4. Opening(q)'
      BY <1>4, <2>1, <3>1, <3>2, <3>3 DEF Opening, At, Linked, StoresQuiet, Waiting
    <3>5. Releasing(q)'
      BY <2>1, <3>1, <3>2, <3>3 DEF Releasing, At, Playing, StoresQuiet, Waiting
    <3> QED
      BY <3>4, <3>5
  <2>4. CASE waiter = <<"stop", q>>
    <3>1. waiter \in Threads /\ waiter[1] = "stop" /\ waiter[2] = q /\ waiter # <<"open", q>>
      BY <1>6, <2>4
    <3>2. pc[<<"stop", q>>] \in Waiting
      BY <1>1, <2>4, <3>1 DEF Waits
    <3>3. pc'[<<"open", q>>] = pc[<<"open", q>>] /\ pc'[<<"stop", q>>] = step
      BY <2>2, <2>4, <3>1
    <3>4. Opening(q)'
      BY <1>4, <2>1, <3>3 DEF Opening, At, Linked, StoresQuiet
    <3>5. Releasing(q)'
      BY <2>1, <3>1, <3>2, <3>3 DEF Releasing, At, Playing, StoresQuiet, Waiting
    <3> QED
      BY <3>4, <3>5
  <2>5. CASE waiter # <<"open", q>> /\ waiter # <<"stop", q>>
    BY <2>1, <2>2, <2>5, PlacesKept
  <2> QED
    BY <2>3, <2>4, <2>5
<1> QED
  BY <1>1, <1>2, <1>4, <1>5, <1>7 DEF PlaybackInv

\* No thread moves and no store takes or gives back anything shared.
LEMMA NobodyMovesKeeps ==
    ASSUME PlaybackInv, pc' = pc, Waits', IsFiniteSet(DOMAIN leases'),
           \A q \in Requests : StoresQuiet(q)
    PROVE  PlaybackInv'
<1>1. ASSUME NEW q \in Requests PROVE (Opening(q) /\ Releasing(q) /\ Linked(q))'
  <2>1. Opening(q) /\ Releasing(q) /\ Linked(q)
    BY DEF PlaybackInv
  <2> QED
    BY <2>1, LinkedKept, PlacesKept
<1> QED
  BY <1>1 DEF PlaybackInv

\* The stream was opened.
LEMMA StreamOpenedKeeps == ASSUME PlaybackInv, StreamOpened PROVE PlaybackInv'
<1>1. PICK id \in StreamIds : Ledger!OpenReply(id)
  BY DEF StreamOpened
<1>2. /\ op.kind = "open" /\ op'.kind = "none"
      /\ DOMAIN streams' \subseteq DOMAIN streams /\ used' = used
  BY <1>1 DEF Ledger!OpenReply, Ledger!Unlock, Ledger!NoOp
<1>3. OnlyLedger /\ Resume("validate") /\ "validate" \in Places \ Waiting
  BY DEF StreamOpened, Places, Waiting
<1>4. waiter \in Threads => waiter[1] = "open"
  BY <1>2 DEF PlaybackInv, Waits
<1>5. "stop" # "open"
  OBVIOUS
<1> QED
  BY <1>2, <1>3, <1>4, <1>5, CallEndsKeeps

\* The call failed.
LEMMA CallFailsKeeps == ASSUME PlaybackInv, CallFails PROVE PlaybackInv'
<1>1. /\ op.kind # "none" /\ op'.kind = "none"
      /\ DOMAIN streams' \subseteq DOMAIN streams /\ used' = used
  <2>1. CASE Ledger!CallFails
    BY <2>1 DEF Ledger!CallFails, Ledger!Unlock, Ledger!NoOp
  <2>2. CASE \E id \in StreamIds : Ledger!OpenNotSaved(id)
    BY <2>2 DEF Ledger!OpenNotSaved, Ledger!Unlock, Ledger!NoOp
  <2> QED
    BY <2>1, <2>2 DEF CallFails
<1>2. PICK step \in {"failed", "done", "idle"} :
         /\ step = IF InScope THEN "failed" ELSE Ended(waiter[1])
         /\ OnlyLedger /\ Resume(step)
  BY DEF CallFails, Ended
<1>3. step \in Places \ Waiting
  BY <1>2 DEF Places, Waiting
<1>4. waiter[1] = "open" => step \in {"failed", "done"}
  BY <1>2 DEF Ended
<1>5. waiter[1] = "stop" => step = "idle"
  BY <1>2 DEF Ended, InScope
<1> QED
  BY <1>1, <1>2, <1>3, <1>4, <1>5, CallEndsKeeps

\* The close was acknowledged.
LEMMA StreamClosedKeeps == ASSUME PlaybackInv, StreamClosed PROVE PlaybackInv'
<1>1. /\ OnlyLedger /\ op.kind = "close"
      /\ DOMAIN streams' \subseteq DOMAIN streams /\ used' = used
      /\ IF op.todo = {} THEN op'.kind = "none" /\ op.session \notin DOMAIN streams'
                        ELSE op'.kind = "close"
  <2>1. Ledger!CloseReply /\ OnlyLedger
    BY DEF StreamClosed
  <2>2. CASE op.todo = {}
    BY <2>1, <2>2 DEF Ledger!CloseReply, Ledger!Without, Ledger!Unlock, Ledger!NoOp
  <2>3. CASE op.todo # {}
    <3>1. PICK s \in op.todo :
             /\ streams' = [Ledger!Without(op.session) EXCEPT ![s].status = "closing"]
             /\ op' = [op EXCEPT !.session = s, !.todo = @ \ {s}]
      BY <2>1, <2>3 DEF Ledger!CloseReply
    <3>2. op.kind = "close" /\ used' = used
      BY <2>1 DEF Ledger!CloseReply
    <3>3. DOMAIN streams' \subseteq DOMAIN streams
      BY <3>1 DEF Ledger!Without
    <3> QED
      BY <2>1, <2>3, <3>1, <3>2, <3>3
  <2> QED
    BY <2>2, <2>3
<1>2. /\ \A q \in Requests : StoresQuiet(q)
      /\ leases' = leases
  BY <1>1, OnlyLedgerQuiet DEF OnlyLedger
<1>3. Waits /\ IsFiniteSet(DOMAIN leases)
  BY DEF PlaybackInv
<1>4. CASE op.todo # {}
  <2>1. pc' = pc /\ waiter' = waiter
    BY <1>4 DEF StreamClosed
  <2>2. waiter \notin Threads
    BY <1>3, <1>4 DEF Waits
  <2>3. \A t \in Threads : pc[t] \notin Waiting
    BY <1>3, <2>2 DEF Waits
  <2>4. Waits'
    BY <1>1, <1>3, <1>4, <2>1, <2>2, <2>3 DEF Waits
  <2> QED
    BY <1>2, <1>3, <2>1, <2>4, NobodyMovesKeeps
<1>5. CASE op.todo = {} /\ waiter = Reaper
  <2>1. Resume("idle") /\ "idle" \in Places \ Waiting
    BY <1>5 DEF StreamClosed, Resume, Places, Waiting
  <2>2. waiter \notin Threads
    BY <1>5 DEF Reaper, Threads
  <2> QED
    BY <1>1, <1>5, <2>1, <2>2, CallEndsKeeps
<1>6. CASE op.todo = {} /\ waiter # Reaper
  <2>1. waiter \in Threads
    BY <1>1, <1>3, <1>6 DEF Waits
  <2>2. PICK k \in Kinds, r \in Requests : waiter = <<k, r>>
    BY <2>1 DEF Threads, Kinds
  <2>3. op.session = r /\ waiter[1] = k /\ waiter[2] = r
    BY <1>3, <2>1, <2>2 DEF Waits
  <2>4. PICK step \in {"failed", "unsession", "drop", "session"} :
           /\ step = IF InScope THEN "failed" ELSE AfterClose(k)
           /\ Resume(step)
    BY <1>6, <2>3 DEF StreamClosed, AfterClose, Kinds
  <2>5. step \in Places \ Waiting
    BY <2>4 DEF Places, Waiting
  <2>6. k = "open" => step \in {"failed", "unsession"}
    BY <2>4 DEF AfterClose
  <2>7. k = "stop" => step = "session"
    BY <2>3, <2>4 DEF AfterClose, InScope
  <2>8. waiter[2] \notin DOMAIN streams'
    BY <1>1, <1>6, <2>3
  <2> QED
    BY <1>1, <1>6, <2>3, <2>4, <2>5, <2>6, <2>7, <2>8, CallEndsKeeps
<1> QED
  BY <1>4, <1>5, <1>6

\* The reaper takes the lock for the expired rows.
LEMMA ReapKeeps == ASSUME PlaybackInv, Reap PROVE PlaybackInv'
<1>1. /\ OnlyLedger /\ pc' = pc /\ waiter' = Reaper
      /\ Ledger!Free /\ op'.kind = "close"
      /\ DOMAIN streams' = DOMAIN streams /\ used' = used
  BY DEF Reap, Ledger!Reap, Ledger!CloseIntent
<1>2. Waits /\ IsFiniteSet(DOMAIN leases) /\ waiter = None
  BY <1>1, FreeMeansNobody DEF PlaybackInv
<1>3. Reaper # None /\ Reaper \notin Threads /\ None \notin Threads
  BY PlaybackConstants DEF Reaper, Threads
<1>4. Waits'
  BY <1>1, <1>2, <1>3 DEF Waits
<1>5. leases' = leases /\ \A q \in Requests : StoresQuiet(q)
  BY <1>1, OnlyLedgerQuiet DEF OnlyLedger
<1> QED
  BY <1>1, <1>2, <1>4, <1>5, NobodyMovesKeeps

\* The reaper dies, Jellyfin acts late, the administration pages prune the
\* registry, or time passes.
LEMMA OthersKeep ==
    ASSUME PlaybackInv,
           ReaperDies \/ (\E r \in Requests : LateEffect(r)) \/ SnapshotSessions \/ Tick
    PROVE  PlaybackInv'
<1>1. Waits /\ IsFiniteSet(DOMAIN leases)
  BY DEF PlaybackInv
<1>2. CASE ReaperDies
  <2>1. /\ OnlyLedger /\ op.kind # "none" /\ op'.kind = "none"
        /\ streams' = streams /\ used' = used /\ waiter = Reaper
    BY <1>2 DEF ReaperDies, Ledger!Crash, Ledger!Unlock, Ledger!NoOp
  <2>2. waiter \notin Threads
    BY <2>1 DEF Reaper, Threads
  <2>3. Resume("idle") /\ "idle" \in Places \ Waiting
    BY <1>2 DEF ReaperDies, Resume, Places, Waiting
  <2> QED
    BY <2>1, <2>2, <2>3, CallEndsKeeps
<1>3. ASSUME NEW r \in Requests, LateEffect(r) PROVE PlaybackInv'
  <2>1. /\ OnlyLedger /\ streams' = streams /\ used' = used
        /\ op' = op /\ pc' = pc /\ waiter' = waiter
    BY <1>3 DEF LateEffect, Ledger!LateEffect
  <2>2. leases' = leases /\ \A q \in Requests : StoresQuiet(q)
    BY <2>1, OnlyLedgerQuiet DEF OnlyLedger
  <2> QED
    BY <1>1, <2>1, <2>2, WaitsStay, NobodyMovesKeeps
<1>4. CASE SnapshotSessions
  <2>1. pc' = pc /\ waiter' = waiter /\ op' = op /\ leases' = leases
    BY <1>4 DEF SnapshotSessions, OnlyRegistry, ledgerVars
  <2>2. \A q \in Requests : StoresQuiet(q)
    BY <1>4, RegistryKept DEF SnapshotSessions, OnlyRegistry, ledgerVars, StoresQuiet,
       Registry!SnapshotActive
  <2> QED
    BY <1>1, <2>1, <2>2, WaitsStay, NobodyMovesKeeps
<1>5. CASE Tick
  <2>1. pc' = pc /\ waiter' = waiter /\ op' = op /\ leases' = leases
    BY <1>5 DEF Tick, ledgerVars
  <2>2. \A q \in Requests : StoresQuiet(q)
    BY <1>5 DEF Tick, ledgerVars, StoresQuiet
  <2> QED
    BY <1>1, <2>1, <2>2, WaitsStay, NobodyMovesKeeps
<1> QED
  BY <1>2, <1>3, <1>4, <1>5

\* A thread ends where it is, perhaps with its call in flight.
LEMMA AbandonKeeps ==
    ASSUME PlaybackInv, NEW k \in Kinds, NEW r \in Requests, Abandon(k, r)
    PROVE  PlaybackInv'
<1>1. /\ OnlyLedger /\ Goto(k, r, Ended(k))
      /\ pc[<<k, r>>] \notin {"new", "playing", "done", "idle"}
  BY DEF Abandon
<1>2. Ended(k) \in {"done", "idle"} /\ (k = "open" <=> Ended(k) = "done")
  BY DEF Ended
<1>3. Ended(k) \in Places \ Waiting
  BY <1>2 DEF Places, Waiting
<1>4. /\ pc \in [Threads -> Places] /\ Waits /\ IsFiniteSet(DOMAIN leases)
      /\ Opening(r) /\ Releasing(r) /\ Linked(r) /\ <<k, r>> \in Threads
  BY DEF PlaybackInv, Kinds, Threads
<1>5. CASE waiter = <<k, r>>
  <2>1. /\ op.kind # "none" /\ op'.kind = "none"
        /\ DOMAIN streams' \subseteq DOMAIN streams /\ used' = used
    BY <1>5 DEF Abandon, Ledger!Crash, Ledger!Unlock, Ledger!NoOp
  <2>2. waiter # Reaper /\ waiter[1] = k
    BY <1>5 DEF Kinds, Reaper
  <2>3. Resume(Ended(k))
    BY <1>1, <1>5, <2>2 DEF Abandon, Goto, Resume
  <2> QED
    BY <1>1, <1>2, <1>3, <2>1, <2>2, <2>3, CallEndsKeeps
<1>6. CASE waiter # <<k, r>>
  <2>1. OnlyControl
    BY <1>6 DEF Abandon, OnlyLedger, OnlyControl, ledgerVars
  <2>2. pc[<<k, r>>] \notin Waiting
    BY <1>4, <1>6 DEF Waits
  <2>3. CASE k = "beat"
    BY <1>1, <1>3, <2>1, <2>2, <2>3, BeatControlKeeps
  <2>4. CASE k # "beat"
    <3>1. /\ pc'[<<"open", r>>] = IF k = "open" THEN "done" ELSE pc[<<"open", r>>]
          /\ pc'[<<"stop", r>>] = IF k = "stop" THEN "idle" ELSE pc[<<"stop", r>>]
      BY <1>1, <1>2, <1>3, <1>4, <2>4, OneThreadMoves DEF Kinds
    <3>2. StoresQuiet(r) /\ (AllShared' <=> AllShared)
      BY <2>1, OnlyControlQuiet
    <3>3. Opening(r)'
      BY <1>1, <1>4, <2>4, <3>1, <3>2 DEF Opening, At, Linked, StoresQuiet, Kinds
    <3>4. Releasing(r)'
      BY <1>1, <1>4, <2>4, <3>1, <3>2 DEF Releasing, At, Playing, StoresQuiet, Kinds
    <3> QED
      BY <1>1, <1>3, <2>1, <2>2, <3>3, <3>4, ControlKeeps
  <2> QED
    BY <2>3, <2>4
<1> QED
  BY <1>5, <1>6

-----------------------------------------------------------------------------
(* The calls on the pool and the registry.                                 *)

\* Pool and registry are finite maps, and pruning keeps them so.
LEMMA LivingFinite ==
    ASSUME IsFiniteSet(DOMAIN leases)
    PROVE  IsFiniteSet(DOMAIN LivingLeases)
  BY PoolKept, FS_Subset

\* A lease is taken.
LEMMA AcquireKeeps == ASSUME PlaybackInv, NEW r \in Requests, Acquire(r) PROVE PlaybackInv'
<1>1. PICK s \in Sources :
         /\ leases' = Pool!WithLease(LivingLeases, r, Pool!Granted(AcquireCall(r), s))
         /\ shared' = IF Pool!IsShared(Pool!Granted(AcquireCall(r), s)) THEN shared \cup {r} ELSE shared
  BY DEF Acquire
<1>2. /\ Goto("open", r, "admit") /\ pc[<<"open", r>>] = "new"
      /\ config' = config /\ sessions' = sessions /\ streams' = streams /\ used' = used
      /\ op' = op /\ waiter' = waiter /\ released' = released
  BY DEF Acquire, OnlyPool, ledgerVars, At
<1>3. "open" \in Kinds /\ "admit" \in Places /\ "admit" \notin Waiting /\ "new" \notin Waiting
  BY DEF Kinds, Places, Waiting
<1>4. /\ pc \in [Threads -> Places] /\ Waits /\ IsFiniteSet(DOMAIN leases)
      /\ Opening(r) /\ Releasing(r) /\ Linked(r)
  BY DEF PlaybackInv
<1>5. Waits'
  BY <1>2, <1>3, <1>4, NotWaiting
<1>6. /\ pc' \in [Threads -> Places]
      /\ pc'[<<"open", r>>] = "admit" /\ pc'[<<"stop", r>>] = pc[<<"stop", r>>]
      /\ \A q \in Requests \ {r} :
            pc'[<<"open", q>>] = pc[<<"open", q>>] /\ pc'[<<"stop", q>>] = pc[<<"stop", q>>]
  BY <1>2, <1>3, <1>4, OneThreadMoves
<1>7. /\ DOMAIN leases' = DOMAIN LivingLeases \cup {r}
      /\ leases'[r] = Pool!Granted(AcquireCall(r), s)
      /\ \A q \in DOMAIN LivingLeases \ {r} : leases'[q] = LivingLeases[q]
  BY <1>1 DEF Pool!WithLease
<1>8. IsFiniteSet(DOMAIN leases')
  BY <1>4, <1>7, LivingFinite, FS_AddElement
<1>9. \A q \in Requests \ {r} : StoresQuiet(q)
  BY <1>1, <1>2, <1>7, PoolKept DEF StoresQuiet
<1>10. /\ leases'[r].user = Viewer[r] /\ leases'[r].fp = config.bindings[Channel[r]][s]
       /\ r \in DOMAIN leases'
  BY <1>7 DEF Pool!Granted, AcquireCall
<1>11. r \in shared' <=> leases'[r].fp # None
  BY <1>1, <1>2, <1>4, <1>7 DEF Opening, At, Pool!IsShared
<1>12. AllShared => config.bindings[Channel[r]][s] # None
  BY PlaybackConstants DEF AllShared
<1>13. AllShared' <=> AllShared
  BY <1>2, SameRoutes
<1>14. Opening(r)'
  BY <1>2, <1>4, <1>6, <1>10, <1>11, <1>12, <1>13 DEF Opening, At
<1>15. Releasing(r)'
  BY <1>2, <1>4, <1>6 DEF Releasing, Playing, At
<1>16. Linked(r)'
  BY <1>2, <1>4, <1>10, <1>11, <1>12, <1>13 DEF Linked, Opening, Pool!IsShared
<1> QED
  BY <1>5, <1>6, <1>8, <1>9, <1>14, <1>15, <1>16, OnlyOneMoves

\* A session is admitted.
LEMMA AdmitKeeps == ASSUME PlaybackInv, NEW r \in Requests, Admit(r) PROVE PlaybackInv'
<1>1. /\ Goto("open", r, "resolve") /\ pc[<<"open", r>>] = "admit"
      /\ config' = config /\ leases' = leases /\ streams' = streams /\ used' = used
      /\ op' = op /\ waiter' = waiter /\ released' = released /\ shared' = shared
      /\ DOMAIN sessions' = DOMAIN Registry!Pruned \cup {r}
      /\ sessions'[r].user = Viewer[r]
      /\ \A q \in DOMAIN Registry!Pruned \ {r} : sessions'[q] = Registry!Pruned[q]
  BY DEF Admit, OnlyRegistry, ledgerVars, At, Registry!Admit
<1>2. "open" \in Kinds /\ "resolve" \in Places /\ "resolve" \notin Waiting /\ "admit" \notin Waiting
  BY DEF Kinds, Places, Waiting
<1>3. /\ pc \in [Threads -> Places] /\ Waits /\ IsFiniteSet(DOMAIN leases)
      /\ Opening(r) /\ Releasing(r) /\ Linked(r)
  BY DEF PlaybackInv
<1>4. Waits'
  BY <1>1, <1>2, <1>3, NotWaiting
<1>5. /\ pc' \in [Threads -> Places]
      /\ pc'[<<"open", r>>] = "resolve" /\ pc'[<<"stop", r>>] = pc[<<"stop", r>>]
      /\ \A q \in Requests \ {r} :
            pc'[<<"open", q>>] = pc[<<"open", q>>] /\ pc'[<<"stop", q>>] = pc[<<"stop", q>>]
  BY <1>1, <1>2, <1>3, OneThreadMoves
<1>6. \A q \in Requests \ {r} : StoresQuiet(q)
  BY <1>1, RegistryKept DEF StoresQuiet
<1>7. AllShared' <=> AllShared
  BY <1>1, SameRoutes
<1>8. Opening(r)'
  BY <1>1, <1>3, <1>5, <1>7 DEF Opening, At
<1>9. Releasing(r)'
  BY <1>1, <1>3, <1>5 DEF Releasing, Playing, At
<1>10. Linked(r)'
  BY <1>1, <1>3, <1>7 DEF Linked, Opening
<1> QED
  BY <1>1, <1>3, <1>4, <1>5, <1>6, <1>8, <1>9, <1>10, OnlyOneMoves

\* A session is dropped: it is gone afterwards, if it was of this viewer.
LEMMA SessionDropped ==
    ASSUME NEW r \in Requests, Linked(r),
           \/ Registry!ReleaseRecord(r, Viewer[r])
           \/ ~Registry!Owned(sessions, r, Viewer[r]) /\ UNCHANGED sessions
    PROVE  /\ r \notin DOMAIN sessions'
           /\ \A q : q \in DOMAIN sessions' => q \in DOMAIN sessions /\ sessions'[q] = sessions[q]
  BY DEF Linked, Registry!ReleaseRecord, Registry!Owned

\* A step of r on the registry that only forgets sessions.
LEMMA ForgetKeeps ==
    ASSUME PlaybackInv, OnlyRegistry, NEW k \in Kinds, NEW r \in Requests,
           NEW step \in Places \ Waiting, Goto(k, r, step), pc[<<k, r>>] \notin Waiting,
           \A q : q \in DOMAIN sessions' =>
                    q \in DOMAIN sessions /\ sessions'[q].user = sessions[q].user,
           k = "open" => /\ pc[<<"open", r>>] = "unsession" /\ step = "unlease"
                         /\ r \notin DOMAIN sessions',
           k = "stop" => /\ pc[<<"stop", r>>] = "session"
                         /\ step = "idle" \/ (step = "lease" /\ r \notin DOMAIN sessions')
    PROVE  PlaybackInv'
<1>1. /\ config' = config /\ leases' = leases /\ streams' = streams /\ used' = used
      /\ op' = op /\ waiter' = waiter /\ released' = released /\ shared' = shared
  BY DEF OnlyRegistry, ledgerVars
<1>2. /\ pc \in [Threads -> Places] /\ Waits /\ IsFiniteSet(DOMAIN leases)
      /\ Opening(r) /\ Releasing(r) /\ Linked(r) /\ step \in Places /\ step \notin Waiting
  BY DEF PlaybackInv
<1>3. Waits'
  BY <1>1, <1>2, NotWaiting
<1>4. /\ pc' \in [Threads -> Places]
      /\ pc'[<<"open", r>>] = IF k = "open" THEN step ELSE pc[<<"open", r>>]
      /\ pc'[<<"stop", r>>] = IF k = "stop" THEN step ELSE pc[<<"stop", r>>]
      /\ \A q \in Requests \ {r} :
            pc'[<<"open", q>>] = pc[<<"open", q>>] /\ pc'[<<"stop", q>>] = pc[<<"stop", q>>]
  BY <1>2, OneThreadMoves
<1>5. \A q : StoresQuiet(q)
  BY <1>1 DEF StoresQuiet
<1>6. StoresQuiet(r) /\ (AllShared' <=> AllShared)
  BY <1>1, <1>5, SameRoutes
<1>7. Opening(r)'
  BY <1>2, <1>4, <1>6 DEF Opening, At, Linked, StoresQuiet, Kinds
<1>8. Releasing(r)'
  BY <1>2, <1>4, <1>6 DEF Releasing, Playing, At, StoresQuiet, Kinds
<1>9. Linked(r)'
  BY <1>2, <1>6, LinkedKept
<1> QED
  BY <1>1, <1>2, <1>3, <1>4, <1>5, <1>7, <1>8, <1>9, OnlyOneMoves

\* The steps of the registry.
LEMMA RegistryKeeps ==
    ASSUME PlaybackInv, NEW r \in Requests,
           Unsession(r) \/ BeatSession(r) \/ BeatDrop(r) \/ StopSession(r)
    PROVE  PlaybackInv'
<1>1. Linked(r)
  BY DEF PlaybackInv
<1>2. /\ "open" \in Kinds /\ "beat" \in Kinds /\ "stop" \in Kinds
      /\ \A step \in {"unlease", "idle", "lease"} : step \in Places \ Waiting
      /\ \A step \in {"unsession", "session", "drop"} : step \notin Waiting
  BY DEF Kinds, Places, Waiting
<1>3. CASE Unsession(r)
  <2>1. OnlyRegistry /\ Goto("open", r, "unlease") /\ pc[<<"open", r>>] = "unsession"
    BY <1>3 DEF Unsession, At
  <2>2. /\ r \notin DOMAIN sessions'
        /\ \A q : q \in DOMAIN sessions' => q \in DOMAIN sessions /\ sessions'[q] = sessions[q]
    BY <1>1, <1>3, SessionDropped DEF Unsession, DropSession
  <2> QED
    BY <1>2, <2>1, <2>2, ForgetKeeps
<1>4. CASE BeatSession(r)
  <2>1. PICK step \in {"lease", "idle"} : Goto("beat", r, step)
    BY <1>4 DEF BeatSession
  <2>2. OnlyRegistry /\ pc[<<"beat", r>>] = "session"
    BY <1>4 DEF BeatSession, At
  <2>3. ASSUME NEW q \in DOMAIN sessions'
        PROVE  q \in DOMAIN sessions /\ sessions'[q].user = sessions[q].user
    <3>1. CASE Registry!Heartbeat(r, Viewer[r])
      <4>1. sessions' = [Registry!Pruned EXCEPT ![r].seen = clock]
        BY <3>1 DEF Registry!Heartbeat
      <4>2. q \in DOMAIN Registry!Pruned /\ sessions'[q].user = Registry!Pruned[q].user
        BY <4>1
      <4> QED
        BY <4>2, RegistryKept
    <3>2. CASE sessions' = Registry!Pruned
      BY <3>2, RegistryKept
    <3> QED
      BY <1>4, <3>1, <3>2 DEF BeatSession, Registry!HeartbeatMissing
  <2> QED
    BY <1>2, <2>1, <2>2, <2>3, ForgetKeeps
<1>5. CASE BeatDrop(r)
  <2>1. OnlyRegistry /\ Goto("beat", r, "idle") /\ pc[<<"beat", r>>] = "drop"
    BY <1>5 DEF BeatDrop, At
  <2>2. \A q : q \in DOMAIN sessions' => q \in DOMAIN sessions /\ sessions'[q] = sessions[q]
    BY <1>1, <1>5, SessionDropped DEF BeatDrop, DropSession
  <2> QED
    BY <1>2, <2>1, <2>2, ForgetKeeps
<1>6. CASE StopSession(r)
  <2>1. OnlyRegistry /\ pc[<<"stop", r>>] = "session"
    BY <1>6 DEF StopSession, At
  <2>2. /\ r \notin DOMAIN sessions'
        /\ \A q : q \in DOMAIN sessions' => q \in DOMAIN sessions /\ sessions'[q] = sessions[q]
    BY <1>1, <1>6, SessionDropped DEF StopSession
  <2>3. PICK step \in {"lease", "idle"} : Goto("stop", r, step)
    BY <1>6 DEF StopSession
  <2> QED
    BY <1>2, <2>1, <2>2, <2>3, ForgetKeeps
<1> QED
  BY <1>3, <1>4, <1>5, <1>6

\* A step of r on the pool that gives back the lease of r or prunes the pool.
LEMMA GiveBackKeeps ==
    ASSUME PlaybackInv, OnlyPool, UNCHANGED shared, NEW r \in Requests,
           Unlease(r) \/ StopLease(r)
    PROVE  PlaybackInv'
<1>1. /\ config' = config /\ sessions' = sessions /\ streams' = streams /\ used' = used
      /\ op' = op /\ waiter' = waiter /\ shared' = shared
  BY DEF OnlyPool, ledgerVars
<1>2. /\ DOMAIN leases' = DOMAIN LivingLeases \ {r}
      /\ \A q \in DOMAIN leases' : leases'[q] = LivingLeases[q]
  BY DEF Unlease, StopLease, DropLease, Pool!WithoutLease
<1>3. PICK k \in {"open", "stop"}, step \in {"done", "idle"} :
         /\ Goto(k, r, step)
         /\ k = "open" => pc[<<k, r>>] = "unlease" /\ step = "done" /\ released' = released
         /\ k = "stop" => pc[<<k, r>>] = "lease" /\ step = "idle" /\ released' = released \cup {r}
  BY DEF Unlease, StopLease, At
<1>4. k \in Kinds /\ step \in Places /\ step \notin Waiting /\ pc[<<k, r>>] \notin Waiting
  BY <1>3 DEF Kinds, Places, Waiting
<1>5. /\ pc \in [Threads -> Places] /\ Waits /\ IsFiniteSet(DOMAIN leases)
      /\ Opening(r) /\ Releasing(r) /\ Linked(r)
  BY DEF PlaybackInv
<1>6. Waits'
  BY <1>1, <1>3, <1>4, <1>5, NotWaiting
<1>7. /\ pc' \in [Threads -> Places]
      /\ pc'[<<"open", r>>] = IF k = "open" THEN step ELSE pc[<<"open", r>>]
      /\ pc'[<<"stop", r>>] = IF k = "stop" THEN step ELSE pc[<<"stop", r>>]
      /\ \A q \in Requests \ {r} :
            pc'[<<"open", q>>] = pc[<<"open", q>>] /\ pc'[<<"stop", q>>] = pc[<<"stop", q>>]
  BY <1>3, <1>4, <1>5, OneThreadMoves
<1>8. IsFiniteSet(DOMAIN leases')
  BY <1>2, <1>5, LivingFinite, FS_Subset
<1>9. \A q \in Requests \ {r} : StoresQuiet(q)
  BY <1>1, <1>2, <1>3, PoolKept DEF StoresQuiet
<1>10. AllShared' <=> AllShared
  BY <1>1, SameRoutes
<1>11. r \notin DOMAIN leases'
  BY <1>2
<1>12. Opening(r)'
  BY <1>1, <1>3, <1>5, <1>7, <1>10 DEF Opening, Releasing, Playing, At
<1>13. Releasing(r)'
  BY <1>1, <1>3, <1>5, <1>7, <1>11 DEF Releasing, Playing, At
<1>14. Linked(r)'
  BY <1>1, <1>3, <1>5, <1>10, <1>11 DEF Linked, Opening, Releasing, At
<1> QED
  BY <1>6, <1>7, <1>8, <1>9, <1>12, <1>13, <1>14, OnlyOneMoves

\* The heartbeat renews the lease, or finds it gone and prunes the pool.
LEMMA BeatPoolKeeps ==
    ASSUME PlaybackInv, NEW r \in Requests, BeatLease(r) \/ BeatLeaseLost(r)
    PROVE  PlaybackInv'
<1>1. /\ config' = config /\ sessions' = sessions /\ streams' = streams /\ used' = used
      /\ op' = op /\ waiter' = waiter /\ shared' = shared /\ released' = released
      /\ pc[<<"beat", r>>] = "lease"
  BY DEF BeatLease, BeatLeaseLost, OnlyPool, ledgerVars, At
<1>2. PICK step \in {"idle", "close"} : Goto("beat", r, step)
  BY DEF BeatLease, BeatLeaseLost
<1>3. /\ DOMAIN leases' \subseteq DOMAIN leases /\ DOMAIN LivingLeases \subseteq DOMAIN leases'
      /\ \A q \in DOMAIN leases' :
            leases'[q].user = leases[q].user /\ leases'[q].fp = leases[q].fp
  <2>1. CASE BeatLease(r)
    <3>1. leases' = [LivingLeases EXCEPT ![r].seen = clock]
      BY <2>1 DEF BeatLease
    <3>2. DOMAIN leases' = DOMAIN LivingLeases
      BY <3>1
    <3>3. \A q \in DOMAIN leases' :
             leases'[q].user = LivingLeases[q].user /\ leases'[q].fp = LivingLeases[q].fp
      BY <3>1
    <3> QED
      BY <3>2, <3>3, PoolKept
  <2>2. CASE BeatLeaseLost(r)
    BY <2>2, PoolKept DEF BeatLeaseLost
  <2> QED
    BY <2>1, <2>2
<1>4. "beat" \in Kinds /\ step \in Places /\ step \notin Waiting /\ "lease" \notin Waiting
  BY <1>2 DEF Kinds, Places, Waiting
<1>5. /\ pc \in [Threads -> Places] /\ Waits /\ IsFiniteSet(DOMAIN leases)
      /\ Opening(r) /\ Releasing(r) /\ Linked(r)
  BY DEF PlaybackInv
<1>6. Waits'
  BY <1>1, <1>2, <1>4, <1>5, NotWaiting
<1>7. /\ pc' \in [Threads -> Places]
      /\ \A q \in Requests :
            pc'[<<"open", q>>] = pc[<<"open", q>>] /\ pc'[<<"stop", q>>] = pc[<<"stop", q>>]
  BY <1>2, <1>4, <1>5, OneThreadMoves
<1>8. IsFiniteSet(DOMAIN leases')
  BY <1>3, <1>5, FS_Subset
<1>9. \A q \in Requests : StoresQuiet(q)
  BY <1>1, <1>3, PoolKept DEF StoresQuiet
<1>10. Opening(r)' /\ Releasing(r)' /\ Linked(r)'
  BY <1>5, <1>7, <1>9, LinkedKept, PlacesKept
<1> QED
  BY <1>6, <1>7, <1>8, <1>9, <1>10, OnlyOneMoves

\* The heartbeat renews the row of its stream.
LEMMA BeatStreamKeeps == ASSUME PlaybackInv, NEW r \in Requests, BeatStream(r) PROVE PlaybackInv'
<1>1. /\ OnlyLedger /\ Goto("beat", r, "session") /\ pc[<<"beat", r>>] = "idle"
      /\ waiter' = waiter /\ op' = op /\ used' = used /\ DOMAIN streams' = DOMAIN streams
  BY DEF BeatStream, Ledger!Heartbeat, At
<1>2. "beat" \in Kinds /\ "session" \in Places /\ "session" \notin Waiting /\ "idle" \notin Waiting
  BY DEF Kinds, Places, Waiting
<1>3. /\ pc \in [Threads -> Places] /\ Waits /\ IsFiniteSet(DOMAIN leases)
      /\ Opening(r) /\ Releasing(r) /\ Linked(r)
  BY DEF PlaybackInv
<1>4. Waits'
  BY <1>1, <1>2, <1>3, NotWaiting
<1>5. /\ pc' \in [Threads -> Places]
      /\ \A q \in Requests :
            pc'[<<"open", q>>] = pc[<<"open", q>>] /\ pc'[<<"stop", q>>] = pc[<<"stop", q>>]
  BY <1>1, <1>2, <1>3, OneThreadMoves
<1>6. leases' = leases /\ \A q \in Requests : StoresQuiet(q)
  BY <1>1, OnlyLedgerQuiet DEF OnlyLedger
<1>7. Opening(r)' /\ Releasing(r)' /\ Linked(r)'
  BY <1>3, <1>5, <1>6, LinkedKept, PlacesKept
<1> QED
  BY <1>3, <1>4, <1>5, <1>6, <1>7, OnlyOneMoves

-----------------------------------------------------------------------------
(* Every step.                                                             *)

\* At first no request has been anywhere.
LEMMA PlaybackInvInit == Init => PlaybackInv
<1> SUFFICES ASSUME Init PROVE PlaybackInv
  OBVIOUS
<1>1. \A t \in Threads : pc[t] = IF t[1] = "open" THEN "new" ELSE "idle"
  BY DEF Init
<1>2. \A q \in Requests : pc[<<"open", q>>] = "new" /\ pc[<<"stop", q>>] = "idle"
  <2> TAKE q \in Requests
  <2>1. <<"open", q>> \in Threads /\ <<"stop", q>> \in Threads
    BY DEF Threads
  <2> QED
    BY <1>1, <2>1
<1>3. pc \in [Threads -> Places] /\ \A t \in Threads : pc[t] \notin Waiting
  BY <1>1 DEF Init, Places, Waiting
<1>4. /\ DOMAIN leases = {} /\ DOMAIN sessions = {} /\ DOMAIN streams = {}
      /\ used = {} /\ shared = {} /\ released = {} /\ waiter = None /\ op.kind = "none"
  BY DEF Init, Ledger!Init, Ledger!NoOp
<1>5. \A t \in Threads : t # None
  BY PlaybackConstants
<1>6. None # Reaper
  BY PlaybackConstants
<1>7. Waits
  BY <1>3, <1>4, <1>5, <1>6 DEF Waits
<1>8. \A q \in Requests : Opening(q) /\ Releasing(q) /\ Linked(q)
  BY <1>2, <1>4 DEF Opening, Releasing, Linked, At
<1> QED
  BY <1>3, <1>4, <1>7, <1>8, FS_EmptySet DEF PlaybackInv

\* The steps of one request.
LEMMA RequestKeeps ==
    ASSUME PlaybackInv, NEW r \in Requests,
           OpenStep(r) \/ BeatStep(r) \/ StopSession(r) \/ StopLease(r) \/ LateEffect(r)
    PROVE  PlaybackInv'
<1>1. CASE OpenStep(r)
  <2>1. NotUsable(r) => PlaybackInv'
    BY CloseBeginKeeps DEF Kinds
  <2>2. Unlease(r) => PlaybackInv'
    BY GiveBackKeeps DEF Unlease
  <2> QED
    BY <1>1, <2>1, <2>2, AcquireKeeps, AdmitKeeps, OpenControlKeeps, OpenStreamKeeps, RegistryKeeps
       DEF OpenStep
<1>2. CASE BeatStep(r)
  <2>1. ASSUME BeatNoStream(r) PROVE PlaybackInv'
    <3>1. "session" \in Places \ Waiting /\ "idle" \notin Waiting
      BY DEF Places, Waiting
    <3> QED
      BY <2>1, <3>1, BeatControlKeeps DEF BeatNoStream, At
  <2> QED
    BY <1>2, <2>1, BeatStreamKeeps, RegistryKeeps, BeatPoolKeeps DEF BeatStep
<1>3. CASE StopLease(r)
  BY <1>3, GiveBackKeeps DEF StopLease
<1> QED
  BY <1>1, <1>2, <1>3, RegistryKeeps, OthersKeep

\* The invariant is inductive.
LEMMA PlaybackInvNext == PlaybackInv /\ [Next]_vars => PlaybackInv'
<1> SUFFICES ASSUME PlaybackInv, [Next]_vars PROVE PlaybackInv'
  OBVIOUS
<1>1. CASE UNCHANGED vars
  <2>1. /\ pc' = pc /\ leases' = leases /\ op' = op /\ waiter' = waiter
        /\ \A q \in Requests : StoresQuiet(q)
    BY <1>1 DEF vars, ledgerVars, StoresQuiet
  <2>2. Waits /\ IsFiniteSet(DOMAIN leases)
    BY DEF PlaybackInv
  <2> QED
    BY <2>1, <2>2, WaitsStay, NobodyMovesKeeps
<1>2. ASSUME NEW r \in Requests,
             OpenStep(r) \/ BeatStep(r) \/ StopSession(r) \/ StopLease(r) \/ LateEffect(r)
      PROVE  PlaybackInv'
  BY <1>2, RequestKeeps
<1>3. ASSUME NEW k \in Kinds, NEW r \in Requests,
             CloseStream(k, r) \/ NoStream(k, r) \/ StreamLatched(k, r) \/ Abandon(k, r)
      PROVE  PlaybackInv'
  BY <1>3, CloseBeginKeeps, NoCloseKeeps, AbandonKeeps
<1> QED
  BY <1>1, <1>2, <1>3, StreamOpenedKeeps, CallFailsKeeps, StreamClosedKeeps, ReapKeeps, OthersKeep
     DEF Next, Kinds

-----------------------------------------------------------------------------
(* The ledger in it.                                                       *)

\* Rows and Ledger are two names of one module.
LEMMA OneLedger ==
    /\ Ledger!Init <=> Rows!Init
    /\ Ledger!TypeOK <=> Rows!TypeOK
    /\ \A s : /\ Ledger!OpenIntent(s) <=> Rows!OpenIntent(s)
              /\ Ledger!LateEffect(s) <=> Rows!LateEffect(s)
    /\ \A s, u : /\ Ledger!Heartbeat(s, u) <=> Rows!Heartbeat(s, u)
                 /\ Ledger!Release(s, u) <=> Rows!Release(s, u)
    /\ \A id : /\ Ledger!OpenReply(id) <=> Rows!OpenReply(id)
               /\ Ledger!OpenNotSaved(id) <=> Rows!OpenNotSaved(id)
    /\ Ledger!CloseReply <=> Rows!CloseReply
    /\ Ledger!CallFails <=> Rows!CallFails
    /\ Ledger!Crash <=> Rows!Crash
    /\ Ledger!Reap <=> Rows!Reap
<1>1. Ledger!Init <=> Rows!Init
  BY DEF Ledger!Init, Rows!Init, Ledger!NoOp, Rows!NoOp
<1>2. Ledger!TypeOK <=> Rows!TypeOK
  BY DEF Ledger!TypeOK, Rows!TypeOK, Ledger!Row, Rows!Row, Ledger!Ops, Rows!Ops, Ledger!NoOp, Rows!NoOp
<1>3. \A s : Ledger!OpenIntent(s) <=> Rows!OpenIntent(s)
  BY DEF Ledger!OpenIntent, Rows!OpenIntent, Ledger!Free, Rows!Free, Ledger!MayOpen, Rows!MayOpen,
     Ledger!Latched, Rows!Latched, Ledger!Expired, Rows!Expired, Ledger!WithIntent, Rows!WithIntent
<1>4. \A s : Ledger!LateEffect(s) <=> Rows!LateEffect(s)
  BY DEF Ledger!LateEffect, Rows!LateEffect, Ledger!Opened, Rows!Opened, Ledger!Closed, Rows!Closed
<1>5. \A s, u : Ledger!Heartbeat(s, u) <=> Rows!Heartbeat(s, u)
  BY DEF Ledger!Heartbeat, Rows!Heartbeat, Ledger!Free, Rows!Free, Ledger!Rows, Rows!Rows,
     Ledger!Expired, Rows!Expired
<1>6. \A s, u : Ledger!Release(s, u) <=> Rows!Release(s, u)
  BY DEF Ledger!Release, Rows!Release, Ledger!Free, Rows!Free, Ledger!Rows, Rows!Rows,
     Ledger!CloseIntent, Rows!CloseIntent
<1>7. \A id : Ledger!OpenReply(id) <=> Rows!OpenReply(id)
  BY DEF Ledger!OpenReply, Rows!OpenReply, Ledger!Opened, Rows!Opened, Ledger!Unlock, Rows!Unlock,
     Ledger!NoOp, Rows!NoOp
<1>8. \A id : Ledger!OpenNotSaved(id) <=> Rows!OpenNotSaved(id)
  BY DEF Ledger!OpenNotSaved, Rows!OpenNotSaved, Ledger!Opened, Rows!Opened, Ledger!Unlock, Rows!Unlock,
     Ledger!NoOp, Rows!NoOp
<1>9. Ledger!CloseReply <=> Rows!CloseReply
  BY DEF Ledger!CloseReply, Rows!CloseReply, Ledger!Closed, Rows!Closed, Ledger!Without, Rows!Without,
     Ledger!Unlock, Rows!Unlock, Ledger!NoOp, Rows!NoOp
<1>10. (Ledger!CallFails <=> Rows!CallFails) /\ (Ledger!Crash <=> Rows!Crash)
  BY DEF Ledger!CallFails, Rows!CallFails, Ledger!Crash, Rows!Crash,
     Ledger!OutcomeUnknown, Rows!OutcomeUnknown, Ledger!Opened, Rows!Opened, Ledger!Closed, Rows!Closed,
     Ledger!Unlock, Rows!Unlock, Ledger!NoOp, Rows!NoOp
<1>11. Ledger!Reap <=> Rows!Reap
  BY DEF Ledger!Reap, Rows!Reap, Ledger!Free, Rows!Free, Ledger!Latched, Rows!Latched,
     Ledger!Expired, Rows!Expired, Ledger!CloseIntent, Rows!CloseIntent
<1> QED
  BY <1>1, <1>2, <1>3, <1>4, <1>5, <1>6, <1>7, <1>8, <1>9, <1>10, <1>11

\* Each of its steps is a step of the ledger, whoever makes it, or leaves the
\* ledger alone.
LEMMA LedgerSteps == [Next]_vars => [Rows!Next]_(Rows!vars)
<1> DEFINE Still == UNCHANGED Rows!vars
<1>1. ASSUME OnlyControl \/ UNCHANGED vars \/ SnapshotSessions PROVE Still
  BY <1>1 DEF OnlyControl, SnapshotSessions, OnlyRegistry, vars, ledgerVars, Rows!vars
<1>2. Tick => Rows!Next
  BY DEF Tick, ledgerVars, Rows!Next, Rows!Tick
<1>3. ASSUME NEW r \in Requests PROVE Viewer[r] \in Users
  BY PlaybackConstants
<1>4. ASSUME NEW r \in Requests, Ledger!Release(r, Viewer[r]) PROVE Rows!Next
  BY <1>3, <1>4, OneLedger DEF Rows!Next
<1>5. ASSUME NEW r \in Requests, OpenStep(r) PROVE Rows!Next \/ Still
  <2>1. CASE OpenStream(r)
    BY <2>1, OneLedger DEF OpenStream, Rows!Next
  <2>2. CASE NotUsable(r)
    BY <1>4, <2>2 DEF NotUsable
  <2>3. CASE Acquire(r) \/ Unlease(r)
    BY <2>3 DEF Acquire, Unlease, OnlyPool, ledgerVars, Rows!vars
  <2>4. CASE Admit(r) \/ Unsession(r)
    BY <2>4 DEF Admit, Unsession, OnlyRegistry, ledgerVars, Rows!vars
  <2> QED
    BY <1>1, <1>5, <2>1, <2>2, <2>3, <2>4 DEF OpenStep, Refuse, AdmitFails, NeedsNoOpen, ResolveFails,
       Validated, NotUsableReaped, Failed, Issue
<1>6. ASSUME NEW r \in Requests, BeatStep(r) PROVE Rows!Next \/ Still
  <2>1. CASE BeatStream(r)
    BY <1>3, <2>1, OneLedger DEF BeatStream, Rows!Next
  <2>2. CASE BeatNoStream(r)
    BY <1>1, <2>2 DEF BeatNoStream
  <2>3. CASE BeatSession(r) \/ BeatDrop(r)
    BY <2>3 DEF BeatSession, BeatDrop, OnlyRegistry, ledgerVars, Rows!vars
  <2>4. CASE BeatLease(r) \/ BeatLeaseLost(r)
    BY <2>4 DEF BeatLease, BeatLeaseLost, OnlyPool, ledgerVars, Rows!vars
  <2> QED
    BY <1>6, <2>1, <2>2, <2>3, <2>4 DEF BeatStep
<1>7. ASSUME NEW r \in Requests, StopSession(r) \/ StopLease(r) PROVE Still
  BY <1>7 DEF StopSession, StopLease, OnlyRegistry, OnlyPool, ledgerVars, Rows!vars
<1>8. ASSUME NEW r \in Requests, LateEffect(r) PROVE Rows!Next
  BY <1>8, OneLedger DEF LateEffect, Rows!Next
<1>9. ASSUME NEW k, NEW r \in Requests,
             CloseStream(k, r) \/ NoStream(k, r) \/ StreamLatched(k, r) \/ Abandon(k, r)
      PROVE  Rows!Next \/ Still
  <2>1. CASE CloseStream(k, r)
    BY <1>4, <2>1 DEF CloseStream
  <2>2. CASE NoStream(k, r) \/ StreamLatched(k, r)
    BY <1>1, <2>2 DEF NoStream, StreamLatched
  <2>3. CASE Abandon(k, r)
    <3>1. CASE waiter = <<k, r>>
      BY <2>3, <3>1, OneLedger DEF Abandon, Rows!Next
    <3>2. CASE waiter # <<k, r>>
      BY <2>3, <3>2 DEF Abandon, ledgerVars, Rows!vars
    <3> QED
      BY <3>1, <3>2
  <2> QED
    BY <1>9, <2>1, <2>2, <2>3
<1>10. StreamOpened \/ CallFails \/ StreamClosed \/ Reap \/ ReaperDies => Rows!Next
  BY OneLedger DEF StreamOpened, CallFails, StreamClosed, Reap, ReaperDies, Rows!Next
<1> QED
  BY <1>1, <1>2, <1>5, <1>6, <1>7, <1>8, <1>9, <1>10 DEF Next

-----------------------------------------------------------------------------
(* Types.                                                                  *)

\* The lease file holds leases of the requests.
LeasesTyped == DOMAIN leases \subseteq Requests /\ leases \in [DOMAIN leases -> Pool!Lease]

\* The session registry holds rows of the requests.
SessionsTyped ==
    DOMAIN sessions \subseteq Requests /\ sessions \in [DOMAIN sessions -> SessionRow]

\* A thread stands at a step of its own route.
PlacesTyped == \A t \in Threads : pc[t] \in Steps[t[1]]

\* The steps that write the lease file.
LEMMA LeasesWritten ==
    ASSUME [Next]_vars
    PROVE  \/ leases' = leases
           \/ \E r \in Requests : Acquire(r) \/ Unlease(r) \/ StopLease(r) \/ BeatLease(r) \/ BeatLeaseLost(r)
  BY DEF Next, vars, OpenStep, BeatStep, OnlyControl, OnlyLedger, OnlyRegistry,
     Refuse, Admit, AdmitFails, OpenStream, NeedsNoOpen, ResolveFails, Validated, NotUsable,
     NotUsableReaped, Failed, Issue, Unsession, CloseStream, NoStream, StreamLatched, Abandon,
     StreamOpened, CallFails, StreamClosed, Reap, ReaperDies, LateEffect, BeatStream, BeatNoStream,
     BeatSession, BeatDrop, StopSession, SnapshotSessions, Tick


\* The steps that write the session registry.
LEMMA SessionsWritten ==
    ASSUME [Next]_vars
    PROVE  \/ sessions' = sessions \/ SnapshotSessions
           \/ \E r \in Requests : Admit(r) \/ Unsession(r) \/ BeatSession(r) \/ BeatDrop(r) \/ StopSession(r)
  BY DEF Next, vars, OpenStep, BeatStep, OnlyControl, OnlyLedger, OnlyPool,
     Refuse, Acquire, AdmitFails, OpenStream, NeedsNoOpen, ResolveFails, Validated, NotUsable,
     NotUsableReaped, Failed, Issue, Unlease, CloseStream, NoStream, StreamLatched, Abandon,
     StreamOpened, CallFails, StreamClosed, Reap, ReaperDies, LateEffect, BeatStream, BeatNoStream,
     BeatLease, BeatLeaseLost, StopLease, Tick


\* A lease is granted for the channel of its request, and only a heartbeat
\* writes it again.
LEMMA LeasesTypedNext ==
    ASSUME LeasesTyped, config \in Configs, clock \in Nat, [Next]_vars
    PROVE  LeasesTyped'
<1>1. DOMAIN LivingLeases \subseteq Requests /\ LivingLeases \in [DOMAIN LivingLeases -> Pool!Lease]
  BY DEF LeasesTyped, LivingLeases, Pool!PruneStale
<1>2. \/ leases' = leases
      \/ \E r \in Requests : Acquire(r) \/ Unlease(r) \/ StopLease(r) \/ BeatLease(r) \/ BeatLeaseLost(r)
  BY LeasesWritten
<1>3. CASE leases' = leases
  BY <1>3 DEF LeasesTyped
<1>4. ASSUME NEW r \in Requests, Acquire(r) PROVE LeasesTyped'
  <2>1. PICK s \in Sources :
           leases' = Pool!WithLease(LivingLeases, r, Pool!Granted(AcquireCall(r), s))
    BY <1>4 DEF Acquire
  <2>2. /\ Viewer[r] \in Users /\ Channel[r] \in Targets
        /\ config.bindings[Channel[r]][s] \in Fingerprints \cup {None}
    BY PlaybackConstants
  <2>3. Pool!Granted(AcquireCall(r), s) \in Pool!Lease
    BY <2>2 DEF Pool!Granted, AcquireCall, Pool!Lease
  <2> QED
    BY <1>1, <2>1, <2>3 DEF LeasesTyped, Pool!WithLease
<1>5. ASSUME NEW r \in Requests, Unlease(r) \/ StopLease(r) PROVE LeasesTyped'
  BY <1>1, <1>5 DEF LeasesTyped, Unlease, StopLease, DropLease, Pool!WithoutLease
<1>6. ASSUME NEW r \in Requests, BeatLease(r) PROVE LeasesTyped'
  <2>1. leases' = [LivingLeases EXCEPT ![r].seen = clock]
    BY <1>6 DEF BeatLease
  <2>2. \A q \in DOMAIN LivingLeases : [LivingLeases[q] EXCEPT !.seen = clock] \in Pool!Lease
    BY <1>1 DEF Pool!Lease
  <2> QED
    BY <1>1, <2>1, <2>2 DEF LeasesTyped
<1>7. ASSUME NEW r \in Requests, BeatLeaseLost(r) PROVE LeasesTyped'
  BY <1>1, <1>7 DEF LeasesTyped, BeatLeaseLost
<1> QED
  BY <1>2, <1>3, <1>4, <1>5, <1>6, <1>7

\* A session row is written by its own request.
LEMMA SessionsTypedNext ==
    ASSUME SessionsTyped, clock \in 0..MaxClock, [Next]_vars
    PROVE  SessionsTyped'
<1>1. DOMAIN Registry!Pruned \subseteq Requests /\ Registry!Pruned \in [DOMAIN Registry!Pruned -> SessionRow]
  BY DEF SessionsTyped, Registry!Pruned
<1>2. \/ sessions' = sessions \/ SnapshotSessions
      \/ \E r \in Requests : Admit(r) \/ Unsession(r) \/ BeatSession(r) \/ BeatDrop(r) \/ StopSession(r)
  BY SessionsWritten
<1>3. CASE sessions' = sessions
  BY <1>3 DEF SessionsTyped
<1>4. CASE SnapshotSessions
  BY <1>1, <1>4 DEF SessionsTyped, SnapshotSessions, Registry!SnapshotActive
<1>5. ASSUME NEW r \in Requests, Admit(r) PROVE SessionsTyped'
  <2>1. sessions' = [k \in DOMAIN Registry!Pruned \cup {r} |->
                        IF k = r THEN [user |-> Viewer[r], lease |-> r, created |-> clock, seen |-> clock]
                                 ELSE Registry!Pruned[k]]
    BY <1>5 DEF Admit, Registry!Admit
  <2>2. [user |-> Viewer[r], lease |-> r, created |-> clock, seen |-> clock] \in SessionRow
    BY PlaybackConstants DEF SessionRow
  <2> QED
    BY <1>1, <2>1, <2>2 DEF SessionsTyped
<1>6. ASSUME NEW r \in Requests, Registry!ReleaseRecord(r, Viewer[r]) PROVE SessionsTyped'
  BY <1>6 DEF SessionsTyped, Registry!ReleaseRecord
<1>7. ASSUME NEW r \in Requests, Unsession(r) \/ BeatDrop(r) \/ StopSession(r) PROVE SessionsTyped'
  BY <1>3, <1>6, <1>7 DEF Unsession, BeatDrop, StopSession, DropSession
<1>8. ASSUME NEW r \in Requests, BeatSession(r) PROVE SessionsTyped'
  <2>1. CASE sessions' = Registry!Pruned
    BY <1>1, <2>1 DEF SessionsTyped
  <2>2. CASE sessions' = [Registry!Pruned EXCEPT ![r].seen = clock]
    <3>1. \A q \in DOMAIN Registry!Pruned : [Registry!Pruned[q] EXCEPT !.seen = clock] \in SessionRow
      BY <1>1 DEF SessionRow
    <3> QED
      BY <1>1, <2>2, <3>1 DEF SessionsTyped
  <2> QED
    BY <1>8, <2>1, <2>2 DEF BeatSession, Registry!Heartbeat, Registry!HeartbeatMissing
<1> QED
  BY <1>2, <1>3, <1>4, <1>5, <1>7, <1>8

\* The steps of each kind of thread, as sets.
LEMMA StepsOf ==
    /\ {"new", "admit", "resolve", "remote", "validate", "scopeclose", "failed", "issue", "undo",
        "closing", "unsession", "unlease", "playing", "done"} \subseteq Steps["open"]
    /\ {"idle", "session", "lease", "close", "closing", "drop"} \subseteq Steps["beat"]
    /\ {"idle", "closing", "session", "lease"} \subseteq Steps["stop"]
  BY DEF Steps

\* A thread only moves to a step of its own kind.
LEMMA GotoTyped ==
    ASSUME pc \in [Threads -> Places], PlacesTyped, NEW k \in Kinds, NEW r \in Requests,
           NEW step \in Steps[k], Goto(k, r, step)
    PROVE  PlacesTyped'
<1>1. pc' = [pc EXCEPT ![<<k, r>>] = step] /\ <<k, r>>[1] = k
  BY DEF Goto
<1> QED
  BY <1>1 DEF PlacesTyped

\* Likewise the thread that waited.
LEMMA ResumeTyped ==
    ASSUME pc \in [Threads -> Places], PlacesTyped, NEW step, Resume(step),
           waiter # Reaper => step \in Steps[waiter[1]]
    PROVE  PlacesTyped'
  BY DEF PlacesTyped, Resume

\* Every thread stays within the steps of its kind.
LEMMA PlacesTypedNext ==
    ASSUME PlaybackInv, PlacesTyped, [Next]_vars
    PROVE  PlacesTyped'
<1>1. pc \in [Threads -> Places] /\ Waits
  BY DEF PlaybackInv
<1>2. "open" \in Kinds /\ "beat" \in Kinds /\ "stop" \in Kinds
  BY DEF Kinds
<1>3. CASE pc' = pc
  BY <1>3 DEF PlacesTyped
<1>4. ASSUME NEW r \in Requests, OpenStep(r) PROVE PlacesTyped'
  <2>1. PICK step \in Steps["open"] : Goto("open", r, step)
    BY <1>4, StepsOf DEF OpenStep, Acquire, Refuse, Admit, AdmitFails, OpenStream, NeedsNoOpen,
       ResolveFails, Validated, NotUsable, NotUsableReaped, Failed, Issue, Unsession, Unlease
  <2> QED
    BY <1>1, <1>2, <2>1, GotoTyped
<1>5. ASSUME NEW r \in Requests, BeatStep(r) PROVE PlacesTyped'
  <2>1. PICK step \in Steps["beat"] : Goto("beat", r, step)
    BY <1>5, StepsOf DEF BeatStep, BeatStream, BeatNoStream, BeatSession, BeatLease, BeatLeaseLost,
       BeatDrop
  <2> QED
    BY <1>1, <1>2, <2>1, GotoTyped
<1>6. ASSUME NEW r \in Requests, StopSession(r) \/ StopLease(r) PROVE PlacesTyped'
  <2>1. PICK step \in Steps["stop"] : Goto("stop", r, step)
    BY <1>6, StepsOf DEF StopSession, StopLease
  <2> QED
    BY <1>1, <1>2, <2>1, GotoTyped
<1>7. ASSUME NEW k \in Kinds, NEW r \in Requests,
             CloseStream(k, r) \/ NoStream(k, r) \/ StreamLatched(k, r) \/ Abandon(k, r)
      PROVE  PlacesTyped'
  <2>1. /\ "closing" \in Steps[k] /\ Ended(k) \in Steps[k] /\ AfterClose(k) \in Steps[k]
    BY StepsOf DEF Kinds, Ended, AfterClose
  <2>2. PICK step \in Steps[k] : Goto(k, r, step)
    BY <1>7, <2>1 DEF CloseStream, NoStream, StreamLatched, Abandon
  <2> QED
    BY <1>1, <2>2, GotoTyped
<1>8. ASSUME StreamOpened \/ CallFails \/ StreamClosed PROVE PlacesTyped'
  <2>1. waiter \in Threads \cup {Reaper}
    BY <1>1, <1>8 DEF Waits, StreamOpened, CallFails, StreamClosed, Ledger!OpenReply, Ledger!CallFails,
       Ledger!OpenNotSaved, Ledger!CloseReply
  <2>2. waiter # Reaper => waiter[1] \in Kinds
    BY <2>1 DEF Threads, Kinds
  <2>3. ASSUME StreamOpened PROVE PlacesTyped'
    <3>1. Resume("validate") /\ op.kind = "open"
      BY <2>3 DEF StreamOpened, Ledger!OpenReply
    <3>2. waiter # Reaper => waiter[1] = "open"
      BY <1>1, <2>1, <3>1 DEF Waits
    <3> QED
      BY <1>1, <3>1, <3>2, StepsOf, ResumeTyped
  <2>4. ASSUME CallFails PROVE PlacesTyped'
    <3>1. PICK step : step = (IF InScope THEN "failed" ELSE Ended(waiter[1])) /\ Resume(step)
      BY <2>4 DEF CallFails
    <3>2. waiter # Reaper => step \in Steps[waiter[1]]
      BY <2>2, <3>1, StepsOf DEF InScope, Ended, Kinds
    <3> QED
      BY <1>1, <3>1, <3>2, ResumeTyped
  <2>5. ASSUME StreamClosed, op.todo = {} PROVE PlacesTyped'
    <3>1. PICK step : step = (IF InScope THEN "failed" ELSE AfterClose(waiter[1])) /\ Resume(step)
      BY <2>5 DEF StreamClosed
    <3>2. waiter # Reaper => step \in Steps[waiter[1]]
      BY <2>2, <3>1, StepsOf DEF InScope, AfterClose, Kinds
    <3> QED
      BY <1>1, <3>1, <3>2, ResumeTyped
  <2>6. ASSUME StreamClosed, op.todo # {} PROVE PlacesTyped'
    BY <1>3, <2>6 DEF StreamClosed
  <2> QED
    BY <1>8, <2>3, <2>4, <2>5, <2>6
<1>9. UNCHANGED vars \/ Reap \/ ReaperDies \/ SnapshotSessions \/ Tick
      \/ (\E r \in Requests : LateEffect(r)) => pc' = pc
  BY DEF vars, Reap, ReaperDies, SnapshotSessions, Tick, LateEffect
<1> QED
  BY <1>3, <1>4, <1>5, <1>6, <1>7, <1>8, <1>9 DEF Next, Kinds

-----------------------------------------------------------------------------
(* What the invariants say.                                                *)

\* The inductive invariant: the threads and the stores agree, the ledger
\* keeps its promises, and everything has its type.
WatchInv ==
    /\ PlaybackInv
    /\ Rows!StreamsInv
    /\ config \in Configs /\ clock \in 0..MaxClock
    /\ LeasesTyped /\ SessionsTyped /\ PlacesTyped
    /\ shared \subseteq Requests /\ released \subseteq Requests

\* It holds at first.
LEMMA WatchInvInit == Init => WatchInv
<1> SUFFICES ASSUME Init PROVE WatchInv
  OBVIOUS
<1>1. PlaybackInv
  BY PlaybackInvInit
<1>2. Rows!StreamsInv
  BY PlaybackConstants, OneLedger, Rows!StreamsInvInit DEF Init
<1>3. config \in Configs /\ clock \in 0..MaxClock
  BY PlaybackConstants DEF Init, Ledger!Init
<1>4. LeasesTyped /\ SessionsTyped /\ shared \subseteq Requests /\ released \subseteq Requests
  BY DEF Init, LeasesTyped, SessionsTyped
<1>5. PlacesTyped
  <2> SUFFICES ASSUME NEW k \in Kinds, NEW r \in Requests PROVE pc[<<k, r>>] \in Steps[k]
    BY DEF PlacesTyped, Threads, Kinds
  <2>1. <<k, r>> \in Threads /\ <<k, r>>[1] = k
    BY DEF Threads, Kinds
  <2>2. pc[<<k, r>>] = IF k = "open" THEN "new" ELSE "idle"
    BY <2>1 DEF Init
  <2> QED
    BY <2>2, StepsOf DEF Kinds
<1> QED
  BY <1>1, <1>2, <1>3, <1>4, <1>5 DEF WatchInv

\* The API reads its configuration once, and time goes one tick at a time.
LEMMA ConfigAndClock ==
    ASSUME [Next]_vars, clock \in 0..MaxClock
    PROVE  config' = config /\ clock' \in 0..MaxClock
<1>1. [Rows!Next]_(Rows!vars)
  BY LedgerSteps
<1>2. clock' = clock \/ (clock < MaxClock /\ clock' = clock + 1)
  BY <1>1 DEF Rows!Next, Rows!vars, Rows!OpenIntent, Rows!LateEffect, Rows!ReconcileFailedOpen,
     Rows!Heartbeat, Rows!Release, Rows!OpenReply, Rows!OpenNotSaved, Rows!CloseReply, Rows!CallFails,
     Rows!Crash, Rows!Reap, Rows!JellyfinRestart, Rows!Tick
<1>3. config' = config
  BY DEF Next, vars, OpenStep, BeatStep, OnlyControl, OnlyLedger, OnlyPool, OnlyRegistry,
     Acquire, Refuse, Admit, AdmitFails, OpenStream, NeedsNoOpen, ResolveFails, Validated, NotUsable,
     NotUsableReaped, Failed, Issue, Unsession, Unlease, CloseStream, NoStream, StreamLatched, Abandon,
     StreamOpened, CallFails, StreamClosed, Reap, ReaperDies, LateEffect, BeatStream, BeatNoStream,
     BeatSession, BeatLease, BeatLeaseLost, BeatDrop, StopSession, StopLease, SnapshotSessions, Tick
<1> QED
  BY <1>2, <1>3, PlaybackConstants

\* Requests are added to shared by their own grant and to released by their
\* own release.
LEMMA NamesOfRequests ==
    ASSUME [Next]_vars, shared \subseteq Requests, released \subseteq Requests
    PROVE  shared' \subseteq Requests /\ released' \subseteq Requests
<1>1. /\ shared' = shared \/ \E r \in Requests : Acquire(r)
      /\ released' = released \/ \E r \in Requests : StopLease(r)
  BY DEF Next, vars, OpenStep, BeatStep, OnlyControl, OnlyLedger, OnlyRegistry,
     Acquire, Refuse, Admit, AdmitFails, OpenStream, NeedsNoOpen, ResolveFails, Validated, NotUsable,
     NotUsableReaped, Failed, Issue, Unsession, Unlease, CloseStream, NoStream, StreamLatched, Abandon,
     StreamOpened, CallFails, StreamClosed, Reap, ReaperDies, LateEffect, BeatStream, BeatNoStream,
     BeatSession, BeatLease, BeatLeaseLost, BeatDrop, StopSession, StopLease, SnapshotSessions, Tick
<1>2. \A r \in Requests : Acquire(r) => shared' \subseteq shared \cup {r}
  BY DEF Acquire
<1>3. \A r \in Requests : StopLease(r) => released' \subseteq released \cup {r}
  BY DEF StopLease
<1> QED
  BY <1>1, <1>2, <1>3

\* Every step keeps the invariant.
LEMMA WatchInvNext == WatchInv /\ [Next]_vars => WatchInv'
<1> SUFFICES ASSUME WatchInv, [Next]_vars PROVE WatchInv'
  OBVIOUS
<1>1. PlaybackInv' /\ PlacesTyped'
  BY PlaybackInvNext, PlacesTypedNext DEF WatchInv
<1>2. Rows!StreamsInv'
  BY PlaybackConstants, LedgerSteps, Rows!StreamsInvNext DEF WatchInv
<1>3. config' \in Configs /\ clock' \in 0..MaxClock
  BY ConfigAndClock DEF WatchInv
<1>4. clock \in Nat
  BY PlaybackConstants DEF WatchInv
<1>5. LeasesTyped' /\ SessionsTyped'
  BY <1>4, LeasesTypedNext, SessionsTypedNext DEF WatchInv
<1>6. shared' \subseteq Requests /\ released' \subseteq Requests
  BY NamesOfRequests DEF WatchInv
<1> QED
  BY <1>1, <1>2, <1>3, <1>5, <1>6 DEF WatchInv

\* No interleaving of a failing open, a heartbeat, a release, the reaper and
\* a crash frees the lease of a shared route while its stream may be open.
THEOREM StreamsKeepReservations == Spec => []SharedReservationCoversStream
<1>1. ASSUME WatchInv PROVE SharedReservationCoversStream
  <2>1. shared \subseteq Requests /\ \A q \in Requests : Linked(q)
    BY <1>1 DEF WatchInv, PlaybackInv
  <2> QED
    BY <2>1 DEF Linked, SharedReservationCoversStream
<1> QED
  BY <1>1, WatchInvInit, WatchInvNext, PTL DEF Spec

\* A session of a shared route names a lease that exists.
THEOREM SessionsKeepLeases == Spec => []SessionNamesLease
<1>1. ASSUME WatchInv PROVE SessionNamesLease
  <2>1. shared \subseteq Requests /\ \A q \in Requests : Linked(q)
    BY <1>1 DEF WatchInv, PlaybackInv
  <2> QED
    BY <2>1 DEF Linked, SessionNamesLease
<1> QED
  BY <1>1, WatchInvInit, WatchInvNext, PTL DEF Spec

\* Nothing of a released session comes back.
THEOREM ReleasesAreFinal == Spec => []ReleasedStaysReleased
<1>1. ASSUME WatchInv PROVE ReleasedStaysReleased
  <2>1. released \subseteq Requests /\ \A q \in Requests : Releasing(q)
    BY <1>1 DEF WatchInv, PlaybackInv
  <2> QED
    BY <2>1 DEF Releasing, ReleasedStaysReleased
<1> QED
  BY <1>1, WatchInvInit, WatchInvNext, PTL DEF Spec

\* The ledger counts its rows as everyone does.
LEMMA OneCardinality == \A S : Rows!Cardinality(S) = Cardinality(S)
  BY DEF Cardinality, Rows!Cardinality

\* Jellyfin never holds more consumers of a stream than the pool has leases,
\* while every route is shared: each consumer has a row that covers it, and
\* each row a lease.
THEOREM ConsumersAreReserved == Spec => []ConsumersReserved
<1>1. ASSUME WatchInv PROVE ConsumersReserved
  <2> SUFFICES ASSUME AllShared, NEW id \in StreamIds
               PROVE  consumers[id] <= Cardinality(DOMAIN leases)
    BY DEF ConsumersReserved, AllShared
  <2>1. /\ \A q \in Requests : Linked(q)
        /\ IsFiniteSet(DOMAIN leases) /\ DOMAIN streams \subseteq Requests
        /\ consumers[id] \in Nat /\ consumers[id] <= Cardinality(Rows!Cover(id))
    <3>1. PlaybackInv /\ Rows!TypeOK /\ Rows!Covered
      BY <1>1 DEF WatchInv, Rows!StreamsInv, Rows!Shape
    <3>2. consumers \in [StreamIds -> Nat] /\ DOMAIN streams \subseteq Requests
      BY <3>1 DEF Rows!TypeOK
    <3>3. consumers[id] <= Cardinality(Rows!Cover(id))
      BY <3>1, OneCardinality DEF Rows!Covered
    <3> QED
      BY <3>1, <3>2, <3>3 DEF PlaybackInv
  <2>2. DOMAIN streams \subseteq DOMAIN leases
    BY <2>1 DEF Linked
  <2>3. Rows!Cover(id) \subseteq DOMAIN leases
    BY <2>2 DEF Rows!Cover
  <2>4. /\ IsFiniteSet(Rows!Cover(id))
        /\ Cardinality(Rows!Cover(id)) <= Cardinality(DOMAIN leases)
    BY <2>1, <2>3, FS_Subset
  <2>5. Cardinality(Rows!Cover(id)) \in Nat /\ Cardinality(DOMAIN leases) \in Nat
    BY <2>1, <2>4, FS_CardinalityType
  <2> QED
    BY <2>1, <2>4, <2>5
<1> QED
  BY <1>1, WatchInvInit, WatchInvNext, PTL DEF Spec

\* The stores, the threads and the ledger keep their types.
THEOREM PlaybackTypes == Spec => []TypeOK
<1>1. ASSUME WatchInv PROVE TypeOK
  <2>1. Ledger!TypeOK
    BY <1>1, OneLedger DEF WatchInv, Rows!StreamsInv, Rows!Shape
  <2>2. DOMAIN pc = Threads /\ waiter \in Threads \cup {None, Reaper}
    BY <1>1 DEF WatchInv, PlaybackInv, Waits
  <2> QED
    BY <1>1, <2>1, <2>2 DEF WatchInv, TypeOK, LeasesTyped, SessionsTyped, PlacesTyped
<1> QED
  BY <1>1, WatchInvInit, WatchInvNext, PTL DEF Spec

\* The stream ledger inside the routes behaves as the ledger by itself: the
\* routes, the reaper and the crashes of their threads make no step of it
\* that the ledger's own specification does not allow.
THEOREM PlaybackImplementsLedger == Spec => Ledger!Init /\ [][Ledger!Next]_(Ledger!vars)
<1>1. Init => Ledger!Init
  BY DEF Init
<1>2. /\ \A s : Rows!ReconcileFailedOpen(s) <=> Ledger!ReconcileFailedOpen(s)
      /\ Rows!JellyfinRestart <=> Ledger!JellyfinRestart
      /\ Rows!Tick <=> Ledger!Tick
  BY DEF Rows!ReconcileFailedOpen, Ledger!ReconcileFailedOpen, Rows!JellyfinRestart, Ledger!JellyfinRestart,
     Rows!Tick, Ledger!Tick, Rows!UnidentifiedOpen, Ledger!UnidentifiedOpen, Rows!Free, Ledger!Free,
     Rows!Without, Ledger!Without
<1>3. [Next]_vars => [Ledger!Next]_(Ledger!vars)
  BY <1>2, OneLedger, LedgerSteps DEF Rows!Next, Ledger!Next, Rows!vars, Ledger!vars
<1> QED
  BY <1>1, <1>3, PTL DEF Spec
-----------------------------------------------------------------------------
(* The limits of the pool and the registry, kept through the routes.       *)

\* No source is oversubscribed and no user holds more leases or sessions
\* than the configuration allows, however many requests of however many
\* users are served at once.
StoresWithinLimits ==
    /\ \A s \in Sources : Cardinality(Pool!Allocations(leases, s)) <= config.capacity[s]
    /\ \A u \in Users : /\ Cardinality(Pool!OwnedBy(leases, u)) <= config.userLimit
                        /\ Cardinality(Registry!OwnedBy(sessions, u)) <= config.userLimit

\* Every stamp of a lease is in the past, in the order the reader demands.
StampsPast ==
    \A r \in DOMAIN leases :
        leases[r].created <= leases[r].seen /\ leases[r].seen <= clock

\* The registry is finite and holds no more rows of a user than admit() allows.
SessionsWithin ==
    /\ IsFiniteSet(DOMAIN sessions)
    /\ \A u \in Users : Cardinality(Registry!OwnedBy(sessions, u)) <= config.userLimit

\* The part of the invariant that the limits rest on.
LimitsInv ==
    /\ Stock!WithinLimits(leases, {config})
    /\ StampsPast
    /\ SessionsWithin

\* The pool counts as everyone does.
LEMMA PoolCounts ==
    /\ \A S : Pool!Cardinality(S) = Cardinality(S) /\ Stock!Cardinality(S) = Cardinality(S)
    /\ \A S : Stock!IsFiniteSet(S) <=> IsFiniteSet(S)
    /\ \A S : Registry!Cardinality(S) = Cardinality(S)
  BY DEF Cardinality, Pool!Cardinality, Stock!Cardinality, Registry!Cardinality,
     IsFiniteSet, Stock!IsFiniteSet

\* What the routes ask of the pool is a call its own proofs know.
LEMMA AcquireIsCall ==
    ASSUME config \in Configs, clock \in Nat, NEW r \in Requests
    PROVE  /\ AcquireCall(r) \in Stock!Call
           /\ AcquireCall(r).op = "acquire" /\ AcquireCall(r).config = config
<1>1. AcquireCall(r).candidates \in Seq(Sources)
  <2>1. CASE SharedRoutes(r) = {}
    BY <2>1, PlaybackConstants DEF AcquireCall
  <2>2. CASE SharedRoutes(r) # {}
    <3>1. (CHOOSE s \in SharedRoutes(r) : TRUE) \in Sources
      BY <2>2 DEF SharedRoutes
    <3> QED
      BY <2>2, <3>1 DEF AcquireCall
  <2> QED
    BY <2>1, <2>2
<1>2. Viewer[r] \in Users /\ Channel[r] \in Targets
  BY PlaybackConstants
<1> DEFINE cands == AcquireCall(r).candidates
<1>3. AcquireCall(r) = [op |-> "acquire", now |-> clock, user |-> Viewer[r],
                        target |-> Channel[r], candidates |-> cands, config |-> config]
  BY DEF AcquireCall
<1> HIDE DEF cands
<1> QED
  BY <1>1, <1>2, <1>3 DEF Stock!Call, cands

\* The helpers of the pool are those its proofs are about.
LEMMA SameHelpers ==
    ASSUME NEW ls, NEW c, NEW s
    PROVE  /\ Pool!Admits(ls, c, s) => Stock!Admits(ls, c, s)
           /\ \A l, row : Pool!WithLease(ls, l, row) = Stock!WithLease(ls, l, row)
           /\ Pool!Granted(c, s) = Stock!Granted(c, s)
           /\ Pool!Allocations(ls, s) = Stock!Allocations(ls, s)
           /\ Pool!OwnedBy(ls, s) = Stock!OwnedBy(ls, s)
<1>1. /\ \A l, row : Pool!WithLease(ls, l, row) = Stock!WithLease(ls, l, row)
      /\ Pool!Granted(c, s) = Stock!Granted(c, s)
  BY DEF Pool!WithLease, Stock!WithLease, Pool!Granted, Stock!Granted
<1>2. \A x : Pool!Allocations(ls, x) = Stock!Allocations(ls, x) /\ Pool!OwnedBy(ls, x) = Stock!OwnedBy(ls, x)
  BY DEF Pool!Allocations, Stock!Allocations, Pool!On, Stock!On, Pool!Identity, Stock!Identity,
     Pool!IsShared, Stock!IsShared, Pool!OwnedBy, Stock!OwnedBy
<1>3. \A x : /\ Pool!NeedsReconciliation(ls, c, x) <=> Stock!NeedsReconciliation(ls, c, x)
             /\ Pool!Joining(ls, c, x) <=> Stock!Joining(ls, c, x)
  BY DEF Pool!NeedsReconciliation, Stock!NeedsReconciliation, Pool!Joining, Stock!Joining,
     Pool!On, Stock!On, Pool!IsShared, Stock!IsShared, Pool!Expired, Stock!Expired
<1>4. \A x : Pool!HasRoom(ls, c, x) <=> Stock!HasRoom(ls, c, x)
  BY <1>2, <1>3, PoolCounts DEF Pool!HasRoom, Stock!HasRoom
<1>5. \A x : Pool!Stops(ls, c, x) <=> Stock!Stops(ls, c, x)
  BY <1>3, <1>4 DEF Pool!Stops, Stock!Stops
<1>6. Pool!SelectedSource(ls, c, s) <=> Stock!SelectedSource(ls, c, s)
  BY <1>3, <1>5 DEF Pool!SelectedSource, Stock!SelectedSource
<1>7. Pool!UnderUserLimit(ls, c) <=> Stock!UnderUserLimit(ls, c)
  BY <1>2, PoolCounts DEF Pool!UnderUserLimit, Stock!UnderUserLimit
<1> QED
  BY <1>1, <1>2, <1>6, <1>7 DEF Pool!Admits, Stock!Admits

\* Pruning, a release and a heartbeat leave no more in use than there was.
LEMMA FewerWithin ==
    ASSUME config \in Configs, IsFiniteSet(DOMAIN leases), Stock!WithinLimits(leases, {config}),
           NEW sub, DOMAIN sub \subseteq DOMAIN leases,
           \A r \in DOMAIN sub : /\ sub[r].source = leases[r].source
                                 /\ sub[r].target = leases[r].target
                                 /\ sub[r].user = leases[r].user
                                 /\ sub[r].fp = leases[r].fp
    PROVE  Stock!WithinLimits(sub, {config})
<1>1. /\ \A s : Stock!Allocations(sub, s) \subseteq Stock!Allocations(leases, s)
      /\ \A u : Stock!OwnedBy(sub, u) \subseteq Stock!OwnedBy(leases, u)
  BY Stock!SubTable, PlaybackConstants
<1>2. {config} \in SUBSET Configs /\ Stock!IsFiniteSet(DOMAIN leases)
  BY PoolCounts
<1> QED
  BY <1>1, <1>2, Stock!SubTableWithin, PlaybackConstants

\* The leases stay within the limits of the configuration.
LEMMA LeasesWithinNext ==
    ASSUME WatchInv, Stock!WithinLimits(leases, {config}), [Next]_vars
    PROVE  Stock!WithinLimits(leases, {config})'
<1>1. /\ config \in Configs /\ clock \in Nat /\ config' = config
      /\ IsFiniteSet(DOMAIN leases) /\ LeasesTyped
  BY ConfigAndClock, PlaybackConstants DEF WatchInv, PlaybackInv
<1>2. /\ DOMAIN LivingLeases \subseteq DOMAIN leases
      /\ \A r \in DOMAIN LivingLeases : LivingLeases[r] = leases[r]
  BY DEF LivingLeases, Pool!PruneStale
<1>3. SUFFICES Stock!WithinLimits(leases', {config})
  BY <1>1 DEF Stock!WithinLimits
<1>4. CASE leases' = leases
  BY <1>4
<1>5. ASSUME NEW r \in Requests, Acquire(r) PROVE Stock!WithinLimits(leases', {config})
  <2> DEFINE ls == LivingLeases
             c == AcquireCall(r)
  <2>1. PICK s \in Sources :
           Pool!Admits(ls, c, s) /\ leases' = Pool!WithLease(ls, r, Pool!Granted(c, s))
    BY <1>5 DEF Acquire
  <2>2. Stock!Admits(ls, c, s) /\ leases' = Stock!WithLease(ls, r, Stock!Granted(c, s))
    BY <2>1, SameHelpers
  <2>3. r \notin DOMAIN ls
    BY <1>2, <1>5 DEF WatchInv, PlaybackInv, Opening, Acquire
  <2>4. Stock!LeaseTable(ls)
    BY <1>1, <1>2 DEF Stock!LeaseTable, LeasesTyped, LivingLeases, Pool!PruneStale,
       Pool!Lease, Stock!Lease
  <2>5. Stock!IsFiniteSet(DOMAIN ls) /\ {config} \in SUBSET Configs
    BY <1>1, LivingFinite, PoolCounts
  <2>6. Stock!WithinLimits(ls, {config})
    BY <1>1, <1>2, FewerWithin
  <2>7. c \in Stock!Call /\ c.op = "acquire" /\ c.config \in {config}
    BY <1>1, AcquireIsCall
  <2> HIDE DEF ls, c
  <2> QED
    BY <2>2, <2>3, <2>4, <2>5, <2>6, <2>7, Stock!AdmissionWithin, PlaybackConstants
<1>6. ASSUME NEW r \in Requests, Unlease(r) \/ StopLease(r) \/ BeatLease(r) \/ BeatLeaseLost(r)
      PROVE  Stock!WithinLimits(leases', {config})
  <2>1. /\ DOMAIN leases' \subseteq DOMAIN leases
        /\ \A q \in DOMAIN leases' : /\ leases'[q].source = leases[q].source
                                     /\ leases'[q].target = leases[q].target
                                     /\ leases'[q].user = leases[q].user
                                     /\ leases'[q].fp = leases[q].fp
    <3>1. CASE Unlease(r) \/ StopLease(r) \/ BeatLeaseLost(r)
      BY <1>2, <3>1 DEF Unlease, StopLease, BeatLeaseLost, DropLease, Pool!WithoutLease
    <3>2. CASE BeatLease(r)
      <4>1. leases' = [LivingLeases EXCEPT ![r].seen = clock]
        BY <3>2 DEF BeatLease
      <4>2. \A q \in DOMAIN LivingLeases : LivingLeases[q] \in Pool!Lease
        BY <1>1, <1>2 DEF LeasesTyped
      <4> QED
        BY <1>2, <4>1, <4>2 DEF Pool!Lease
    <3> QED
      BY <1>6, <3>1, <3>2
  <2> QED
    BY <1>1, <2>1, FewerWithin
<1> QED
  BY <1>4, <1>5, <1>6, LeasesWritten

\* Grants and heartbeats stamp a lease with the present.
LEMMA StampsPastNext == ASSUME WatchInv, StampsPast, [Next]_vars PROVE StampsPast'
<1>1. /\ clock \in Nat /\ clock' \in Nat /\ clock <= clock' /\ LeasesTyped
  <2>1. [Rows!Next]_(Rows!vars)
    BY LedgerSteps
  <2>2. clock' = clock \/ clock' = clock + 1
    BY <2>1 DEF Rows!Next, Rows!vars, Rows!OpenIntent, Rows!LateEffect, Rows!ReconcileFailedOpen,
       Rows!Heartbeat, Rows!Release, Rows!OpenReply, Rows!OpenNotSaved, Rows!CloseReply,
       Rows!CallFails, Rows!Crash, Rows!Reap, Rows!JellyfinRestart, Rows!Tick
  <2> QED
    BY <2>2, PlaybackConstants DEF WatchInv
<1>2. /\ DOMAIN LivingLeases \subseteq DOMAIN leases
      /\ \A r \in DOMAIN LivingLeases : LivingLeases[r] = leases[r]
  BY DEF LivingLeases, Pool!PruneStale
<1>3. \A r \in DOMAIN leases : leases[r].created \in Nat /\ leases[r].seen \in Nat
  BY <1>1 DEF LeasesTyped, Pool!Lease
<1>4. ASSUME NEW q \in DOMAIN leases', q \in DOMAIN leases, leases'[q] = leases[q]
      PROVE  leases'[q].created <= leases'[q].seen /\ leases'[q].seen <= clock'
  BY <1>1, <1>3, <1>4 DEF StampsPast
<1>5. CASE leases' = leases
  BY <1>4, <1>5 DEF StampsPast
<1>6. ASSUME NEW r \in Requests, Acquire(r) PROVE StampsPast'
  <2>1. PICK s \in Sources :
           leases' = Pool!WithLease(LivingLeases, r, Pool!Granted(AcquireCall(r), s))
    BY <1>6 DEF Acquire
  <2>2. /\ DOMAIN leases' = DOMAIN LivingLeases \cup {r}
        /\ leases'[r].created = clock /\ leases'[r].seen = clock
        /\ \A q \in DOMAIN leases' \ {r} : leases'[q] = LivingLeases[q]
    BY <2>1 DEF Pool!WithLease, Pool!Granted, AcquireCall
  <2> QED
    BY <1>1, <1>2, <1>4, <2>2 DEF StampsPast
<1>7. ASSUME NEW r \in Requests, Unlease(r) \/ StopLease(r) \/ BeatLeaseLost(r) PROVE StampsPast'
  <2>1. \A q \in DOMAIN leases' : q \in DOMAIN leases /\ leases'[q] = leases[q]
    BY <1>2, <1>7 DEF Unlease, StopLease, BeatLeaseLost, DropLease, Pool!WithoutLease
  <2> QED
    BY <1>4, <2>1 DEF StampsPast
<1>8. ASSUME NEW r \in Requests, BeatLease(r) PROVE StampsPast'
  <2>1. r \in DOMAIN LivingLeases /\ leases' = [LivingLeases EXCEPT ![r].seen = clock]
    BY <1>8 DEF BeatLease, LeaseHeld, Pool!Owns, OwnedCall
  <2>2. /\ DOMAIN leases' = DOMAIN LivingLeases
        /\ \A q \in DOMAIN leases' \ {r} : leases'[q] = LivingLeases[q]
        /\ leases'[r] = [LivingLeases[r] EXCEPT !.seen = clock]
    BY <2>1
  <2>3. leases[r] \in Pool!Lease
    BY <1>1, <1>2, <2>1 DEF LeasesTyped
  <2>4. leases'[r].created = leases[r].created /\ leases'[r].seen = clock
    BY <1>2, <2>1, <2>2, <2>3 DEF Pool!Lease
  <2>5. leases[r].created <= clock
    BY <1>1, <1>2, <1>3, <2>1 DEF StampsPast
  <2> QED
    BY <1>1, <1>2, <1>4, <2>2, <2>4, <2>5 DEF StampsPast
<1> QED
  BY <1>5, <1>6, <1>7, <1>8, LeasesWritten

\* A table with fewer rows of the same users holds no more of anybody.
LEMMA FewerSessions ==
    ASSUME config \in Configs, SessionsWithin, NEW sub, DOMAIN sub \subseteq DOMAIN sessions,
           \A r \in DOMAIN sub : sub[r].user = sessions[r].user
    PROVE  /\ IsFiniteSet(DOMAIN sub)
           /\ \A u \in Users : Cardinality(Registry!OwnedBy(sub, u)) <= config.userLimit
<1>1. IsFiniteSet(DOMAIN sub)
  BY FS_Subset DEF SessionsWithin
<1>2. ASSUME NEW u \in Users PROVE Cardinality(Registry!OwnedBy(sub, u)) <= config.userLimit
  <2>1. /\ Registry!OwnedBy(sub, u) \subseteq Registry!OwnedBy(sessions, u)
        /\ Registry!OwnedBy(sessions, u) \subseteq DOMAIN sessions
    BY DEF Registry!OwnedBy
  <2>2. IsFiniteSet(Registry!OwnedBy(sessions, u))
    BY <2>1, FS_Subset DEF SessionsWithin
  <2>3. /\ Cardinality(Registry!OwnedBy(sub, u)) <= Cardinality(Registry!OwnedBy(sessions, u))
        /\ Cardinality(Registry!OwnedBy(sub, u)) \in Nat
        /\ Cardinality(Registry!OwnedBy(sessions, u)) \in Nat
    BY <2>1, <2>2, FS_Subset, FS_CardinalityType
  <2>4. config.userLimit \in Nat
    BY PlaybackConstants
  <2> QED
    BY <2>3, <2>4 DEF SessionsWithin
<1> QED
  BY <1>1, <1>2

\* A session is admitted only below the limit of its user.
LEMMA SessionsWithinNext ==
    ASSUME WatchInv, SessionsWithin, [Next]_vars
    PROVE  SessionsWithin'
<1>1. config \in Configs /\ config' = config /\ SessionsTyped
  BY ConfigAndClock DEF WatchInv
<1>2. SUFFICES /\ IsFiniteSet(DOMAIN sessions')
               /\ \A u \in Users : Cardinality(Registry!OwnedBy(sessions', u)) <= config.userLimit
  BY <1>1 DEF SessionsWithin, Registry!OwnedBy
<1>3. /\ DOMAIN Registry!Pruned \subseteq DOMAIN sessions
      /\ \A r \in DOMAIN Registry!Pruned : Registry!Pruned[r] = sessions[r]
  BY DEF Registry!Pruned
<1>4. CASE sessions' = sessions
  BY <1>4 DEF SessionsWithin
<1>5. CASE SnapshotSessions
  BY <1>1, <1>3, <1>5, FewerSessions DEF SnapshotSessions, Registry!SnapshotActive
<1>6. ASSUME NEW r \in Requests, Unsession(r) \/ BeatDrop(r) \/ StopSession(r) \/ BeatSession(r)
      PROVE  /\ DOMAIN sessions' \subseteq DOMAIN sessions
             /\ \A q \in DOMAIN sessions' : sessions'[q].user = sessions[q].user
  <2>1. CASE Unsession(r) \/ BeatDrop(r) \/ StopSession(r)
    BY <2>1 DEF Unsession, BeatDrop, StopSession, DropSession, Registry!ReleaseRecord
  <2>2. CASE BeatSession(r)
    <3>1. \/ sessions' = Registry!Pruned
          \/ sessions' = [Registry!Pruned EXCEPT ![r].seen = clock]
      BY <2>2 DEF BeatSession, Registry!Heartbeat, Registry!HeartbeatMissing
    <3>2. \A q \in DOMAIN Registry!Pruned : Registry!Pruned[q] \in SessionRow
      BY <1>1, <1>3 DEF SessionsTyped
    <3> QED
      BY <1>3, <3>1, <3>2 DEF SessionRow
  <2> QED
    BY <1>6, <2>1, <2>2
<1>7. ASSUME NEW r \in Requests, Admit(r)
      PROVE  /\ IsFiniteSet(DOMAIN sessions')
             /\ \A u \in Users : Cardinality(Registry!OwnedBy(sessions', u)) <= config.userLimit
  <2>1. /\ Registry!MayAdmit(Viewer[r], config.userLimit)
        /\ DOMAIN sessions' = DOMAIN Registry!Pruned \cup {r}
        /\ sessions'[r].user = Viewer[r]
        /\ r \notin DOMAIN Registry!Pruned
        /\ \A q \in DOMAIN Registry!Pruned : sessions'[q] = Registry!Pruned[q]
    BY <1>7 DEF Admit, Registry!Admit
  <2>2. /\ IsFiniteSet(DOMAIN Registry!Pruned)
        /\ \A u \in Users : Cardinality(Registry!OwnedBy(Registry!Pruned, u)) <= config.userLimit
    BY <1>1, <1>3, FewerSessions
  <2>3. IsFiniteSet(DOMAIN sessions')
    BY <2>1, <2>2, FS_AddElement
  <2>4. ASSUME NEW u \in Users, u # Viewer[r]
        PROVE  Cardinality(Registry!OwnedBy(sessions', u)) <= config.userLimit
    <3>1. Registry!OwnedBy(sessions', u) = Registry!OwnedBy(Registry!Pruned, u)
      BY <2>1, <2>4 DEF Registry!OwnedBy
    <3> QED
      BY <2>2, <3>1
  <2>5. Cardinality(Registry!OwnedBy(sessions', Viewer[r])) <= config.userLimit
    <3>1. /\ Registry!OwnedBy(sessions', Viewer[r])
                = Registry!OwnedBy(Registry!Pruned, Viewer[r]) \cup {r}
          /\ r \notin Registry!OwnedBy(Registry!Pruned, Viewer[r])
          /\ Registry!OwnedBy(Registry!Pruned, Viewer[r]) \subseteq DOMAIN Registry!Pruned
      BY <2>1 DEF Registry!OwnedBy
    <3>2. IsFiniteSet(Registry!OwnedBy(Registry!Pruned, Viewer[r]))
      BY <2>2, <3>1, FS_Subset
    <3>3. /\ Cardinality(Registry!OwnedBy(sessions', Viewer[r]))
                = Cardinality(Registry!OwnedBy(Registry!Pruned, Viewer[r])) + 1
          /\ Cardinality(Registry!OwnedBy(Registry!Pruned, Viewer[r])) \in Nat
      BY <3>1, <3>2, FS_AddElement, FS_CardinalityType
    <3>4. Cardinality(Registry!OwnedBy(Registry!Pruned, Viewer[r])) < config.userLimit
      BY <2>1, PoolCounts DEF Registry!MayAdmit
    <3>5. config.userLimit \in Nat
      BY <1>1, PlaybackConstants
    <3> QED
      BY <3>3, <3>4, <3>5
  <2> QED
    BY <2>3, <2>4, <2>5
<1> QED
  BY <1>1, <1>4, <1>5, <1>6, <1>7, FewerSessions, SessionsWritten

\* Nobody holds anything at first.
LEMMA LimitsInvInit == Init => LimitsInv
<1> SUFFICES ASSUME Init PROVE LimitsInv
  OBVIOUS
<1>1. config \in Configs /\ DOMAIN leases = {} /\ DOMAIN sessions = {}
  BY DEF Init
<1>2. /\ \A s : Stock!Allocations(leases, s) = {}
      /\ \A u : Stock!OwnedBy(leases, u) = {} /\ Registry!OwnedBy(sessions, u) = {}
  BY <1>1 DEF Stock!Allocations, Stock!On, Stock!OwnedBy, Registry!OwnedBy
<1>3. IsFiniteSet({}) /\ Cardinality({}) = 0
  BY FS_EmptySet
<1>4. config.userLimit \in Nat /\ \A s \in Sources : config.capacity[s] \in Nat
  BY <1>1, PlaybackConstants
<1>5. /\ \A s \in Sources : Stock!Cardinality(Stock!Allocations(leases, s)) <= config.capacity[s]
      /\ \A u \in Users : Stock!Cardinality(Stock!OwnedBy(leases, u)) <= config.userLimit
  <2>1. Stock!Cardinality({}) = 0
    BY <1>3, PoolCounts
  <2> QED
    BY <1>2, <1>4, <2>1
<1>6. Stock!WithinLimits(leases, {config})
  BY <1>5 DEF Stock!WithinLimits
<1>7. StampsPast
  BY <1>1 DEF StampsPast
<1>8. \A u \in Users : Cardinality(Registry!OwnedBy(sessions, u)) = 0
  BY <1>2, <1>3
<1>9. SessionsWithin
  BY <1>1, <1>3, <1>4, <1>8 DEF SessionsWithin
<1> QED
  BY <1>6, <1>7, <1>9 DEF LimitsInv

\* acquire() of the pool and admit() of the registry bound what is in use
\* through the routes as well: leases, connections and sessions stay within
\* the limits, and no lease is written that _read_state would refuse.
THEOREM LimitsRespected == Spec => [](StoresWithinLimits /\ Pool!TimestampsConsistent)
<1>1. WatchInv /\ LimitsInv /\ [Next]_vars => LimitsInv'
  BY LeasesWithinNext, StampsPastNext, SessionsWithinNext DEF LimitsInv
<1>2. ASSUME LimitsInv PROVE StoresWithinLimits /\ Pool!TimestampsConsistent
  <2>1. /\ \A s : Pool!Allocations(leases, s) = Stock!Allocations(leases, s)
        /\ \A u : Pool!OwnedBy(leases, u) = Stock!OwnedBy(leases, u)
    BY SameHelpers
  <2>2. StoresWithinLimits
    BY <1>2, <2>1, PoolCounts DEF LimitsInv, Stock!WithinLimits, SessionsWithin, StoresWithinLimits
  <2> QED
    BY <1>2, <2>2 DEF LimitsInv, StampsPast, Pool!TimestampsConsistent
<1> QED
  BY <1>1, <1>2, WatchInvInit, WatchInvNext, LimitsInvInit, PTL DEF Spec
=============================================================================
