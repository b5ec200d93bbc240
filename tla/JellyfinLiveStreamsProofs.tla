---------------------- MODULE JellyfinLiveStreamsProofs ----------------------
(***************************************************************************)
(* The two promises of the ledger of Jellyfin live streams, for any        *)
(* sessions, users and stream ids, and any time to live.  Both compare a   *)
(* number Jellyfin keeps with the rows of the ledger, and both are too     *)
(* weak to be inductive: a call in flight, and a call that Jellyfin acts   *)
(* on after Atlas gave it up, will still change the number.  Claim and     *)
(* Cover count the rows with those calls taken into account.               *)
(***************************************************************************)
EXTENDS JellyfinLiveStreams, FiniteSetTheorems, TLAPS

\* The consumer of an active row is there, and so is the one that a close in
\* flight or a late close is going to take away.
Claim(id) ==
    {s \in DOMAIN streams :
        /\ streams[s].id = id
        /\ \/ streams[s].status = "active"
           \/ op.kind = "close" /\ op.session = s
           \/ late[s] = "close"}

\* Rows whose consumer of id may be there already: an open in flight, or one
\* that Jellyfin acts on later, has none yet.
Cover(id) ==
    {s \in DOMAIN streams :
        \/ streams[s].id = id
        \/ /\ streams[s].id = None
           /\ late[s] # "open"
           /\ ~(op.kind = "open" /\ op.session = s)}

RowsSound ==
    \A s \in DOMAIN streams :
        /\ streams[s].status \in {"active", "closing"} => streams[s].id \in StreamIds
        /\ streams[s].status = "opening" => streams[s].id = None

OpSound ==
    op.kind # "none" =>
        /\ op.session \in DOMAIN streams
        /\ streams[op.session].status = IF op.kind = "open" THEN "opening" ELSE "closing"
        /\ late[op.session] = "none"
        /\ op.todo \subseteq Rows("active")

LateSound ==
    \A s \in Sessions : late[s] # "none" =>
        /\ s \in DOMAIN streams
        /\ streams[s].status # "active"
        /\ IF late[s] = "open" THEN streams[s].id = None ELSE streams[s].id \in StreamIds

\* A row older than the running Jellyfin is the one row of the recovery
\* procedure, and no call of it is outstanding.
RestartSound ==
    /\ restarted <= clock
    /\ \A s \in DOMAIN streams : streams[s].seen < restarted =>
          UnidentifiedOpen(s) /\ late[s] = "none" /\ Free

Claimed == \A id \in StreamIds : Cardinality(Claim(id)) <= consumers[id]

Covered == \A id \in StreamIds : consumers[id] <= Cardinality(Cover(id))

Shape ==
    /\ TypeOK /\ IsFiniteSet(DOMAIN streams)
    /\ RowsSound /\ OpSound /\ LateSound /\ RestartSound

StreamsInv == Shape /\ Claimed /\ Covered

-----------------------------------------------------------------------------
(* Counting rows.                                                          *)

\* The rows that claim or cover a stream id are finitely many.
LEMMA CountsAreFinite ==
    ASSUME IsFiniteSet(DOMAIN streams)
    PROVE  \A id : /\ IsFiniteSet(Claim(id)) /\ Cardinality(Claim(id)) \in Nat
                   /\ IsFiniteSet(Cover(id)) /\ Cardinality(Cover(id)) \in Nat
<1> SUFFICES ASSUME NEW id
             PROVE  /\ IsFiniteSet(Claim(id)) /\ Cardinality(Claim(id)) \in Nat
                    /\ IsFiniteSet(Cover(id)) /\ Cardinality(Cover(id)) \in Nat
  OBVIOUS
<1>1. Claim(id) \subseteq DOMAIN streams /\ Cover(id) \subseteq DOMAIN streams
  BY DEF Claim, Cover
<1>2. IsFiniteSet(Claim(id)) /\ IsFiniteSet(Cover(id))
  BY <1>1, FS_Subset
<1> QED
  BY <1>2, FS_CardinalityType

\* The same in the next state.
LEMMA CountsAreFinitePrimed ==
    ASSUME IsFiniteSet(DOMAIN streams')
    PROVE  \A id : /\ IsFiniteSet(Claim(id)') /\ Cardinality(Claim(id)') \in Nat
                   /\ IsFiniteSet(Cover(id)') /\ Cardinality(Cover(id)') \in Nat
<1> SUFFICES ASSUME NEW id
             PROVE  /\ IsFiniteSet(Claim(id)') /\ Cardinality(Claim(id)') \in Nat
                    /\ IsFiniteSet(Cover(id)') /\ Cardinality(Cover(id)') \in Nat
  OBVIOUS
<1>1. Claim(id)' \subseteq DOMAIN streams' /\ Cover(id)' \subseteq DOMAIN streams'
  BY DEF Claim, Cover
<1>2. IsFiniteSet(Claim(id)') /\ IsFiniteSet(Cover(id)')
  BY <1>1, FS_Subset
<1> QED
  BY <1>2, FS_CardinalityType

\* What a step may do to the claims of one stream id.
ClaimMoves(id) ==
    \/ Claim(id)' \subseteq Claim(id) /\ consumers[id] <= consumers'[id]
    \/ \E x \in Sessions : /\ Claim(id)' \subseteq Claim(id) \cup {x}
                           /\ consumers'[id] = consumers[id] + 1
    \/ \E x \in Claim(id) : /\ Claim(id)' \subseteq Claim(id) \ {x}
                            /\ consumers[id] - 1 <= consumers'[id]

\* What a step may do to the rows that cover one stream id.
CoverMoves(id) ==
    \/ consumers'[id] = 0
    \/ Cover(id) \subseteq Cover(id)' /\ consumers'[id] <= consumers[id]
    \/ \E x \in Sessions \ Cover(id) : /\ Cover(id) \cup {x} \subseteq Cover(id)'
                                       /\ consumers'[id] = consumers[id] + 1
    \/ \E x \in Cover(id) : /\ Cover(id) \ {x} \subseteq Cover(id)'
                            /\ consumers'[id] = IF consumers[id] = 0 THEN 0 ELSE consumers[id] - 1

\* A claim that appears comes with a consumer, and a consumer that goes takes
\* a claim with it.
LEMMA ClaimsCounted ==
    ASSUME Shape, Shape', Claimed, \A id \in StreamIds : ClaimMoves(id)
    PROVE  Claimed'
<1> SUFFICES ASSUME NEW id \in StreamIds
             PROVE  Cardinality(Claim(id)') <= consumers'[id]
  BY DEF Claimed
<1>1. /\ IsFiniteSet(Claim(id)) /\ Cardinality(Claim(id)) \in Nat
      /\ IsFiniteSet(Claim(id)') /\ Cardinality(Claim(id)') \in Nat
  BY CountsAreFinite, CountsAreFinitePrimed DEF Shape
<1>2. consumers[id] \in Nat /\ consumers'[id] \in Nat
  BY DEF Shape, TypeOK
<1>3. Cardinality(Claim(id)) <= consumers[id]
  BY DEF Claimed
<1>4. CASE Claim(id)' \subseteq Claim(id) /\ consumers[id] <= consumers'[id]
  <2>1. Cardinality(Claim(id)') <= Cardinality(Claim(id))
    BY <1>1, <1>4, FS_Subset
  <2> QED
    BY <1>1, <1>2, <1>3, <1>4, <2>1
<1>5. ASSUME NEW x \in Sessions, Claim(id)' \subseteq Claim(id) \cup {x},
             consumers'[id] = consumers[id] + 1
      PROVE  Cardinality(Claim(id)') <= consumers'[id]
  <2>1. IsFiniteSet(Claim(id) \cup {x})
        /\ Cardinality(Claim(id) \cup {x}) \in Nat
        /\ Cardinality(Claim(id) \cup {x}) <= Cardinality(Claim(id)) + 1
    <3>1. /\ IsFiniteSet(Claim(id) \cup {x})
          /\ Cardinality(Claim(id) \cup {x}) =
                IF x \in Claim(id) THEN Cardinality(Claim(id)) ELSE Cardinality(Claim(id)) + 1
      BY <1>1, FS_AddElement
    <3> QED
      BY <1>1, <3>1
  <2>2. Cardinality(Claim(id)') <= Cardinality(Claim(id) \cup {x})
    BY <1>5, <2>1, FS_Subset
  <2> QED
    BY <1>1, <1>2, <1>3, <1>5, <2>1, <2>2
<1>6. ASSUME NEW x \in Claim(id), Claim(id)' \subseteq Claim(id) \ {x},
             consumers[id] - 1 <= consumers'[id]
      PROVE  Cardinality(Claim(id)') <= consumers'[id]
  <2>1. IsFiniteSet(Claim(id) \ {x})
        /\ Cardinality(Claim(id) \ {x}) = Cardinality(Claim(id)) - 1
    BY <1>1, FS_RemoveElement
  <2>2. Cardinality(Claim(id)') <= Cardinality(Claim(id) \ {x})
    BY <1>6, <2>1, FS_Subset
  <2> QED
    BY <1>1, <1>2, <1>3, <1>6, <2>1, <2>2
<1>7. ClaimMoves(id)
  OBVIOUS
<1> QED
  BY <1>4, <1>5, <1>6, <1>7 DEF ClaimMoves

\* A consumer that appears has a row that did not cover one before, and a row
\* that goes takes a consumer with it.
LEMMA CoversCounted ==
    ASSUME Shape, Shape', Covered, \A id \in StreamIds : CoverMoves(id)
    PROVE  Covered'
<1> SUFFICES ASSUME NEW id \in StreamIds
             PROVE  consumers'[id] <= Cardinality(Cover(id)')
  BY DEF Covered
<1>1. /\ IsFiniteSet(Cover(id)) /\ Cardinality(Cover(id)) \in Nat
      /\ IsFiniteSet(Cover(id)') /\ Cardinality(Cover(id)') \in Nat
  BY CountsAreFinite, CountsAreFinitePrimed DEF Shape
<1>2. consumers[id] \in Nat /\ consumers'[id] \in Nat
  BY DEF Shape, TypeOK
<1>3. consumers[id] <= Cardinality(Cover(id))
  BY DEF Covered
<1>4. CASE Cover(id) \subseteq Cover(id)' /\ consumers'[id] <= consumers[id]
  <2>1. Cardinality(Cover(id)) <= Cardinality(Cover(id)')
    BY <1>1, <1>4, FS_Subset
  <2> QED
    BY <1>1, <1>2, <1>3, <1>4, <2>1
<1>5. ASSUME NEW x \in Sessions \ Cover(id), Cover(id) \cup {x} \subseteq Cover(id)',
             consumers'[id] = consumers[id] + 1
      PROVE  consumers'[id] <= Cardinality(Cover(id)')
  <2>1. Cardinality(Cover(id) \cup {x}) = Cardinality(Cover(id)) + 1
    BY <1>1, FS_AddElement
  <2>2. Cardinality(Cover(id) \cup {x}) <= Cardinality(Cover(id)')
    BY <1>1, <1>5, FS_Subset
  <2> QED
    BY <1>1, <1>2, <1>3, <1>5, <2>1, <2>2
<1>6. ASSUME NEW x \in Cover(id), Cover(id) \ {x} \subseteq Cover(id)',
             consumers'[id] = IF consumers[id] = 0 THEN 0 ELSE consumers[id] - 1
      PROVE  consumers'[id] <= Cardinality(Cover(id)')
  <2>1. Cardinality(Cover(id) \ {x}) = Cardinality(Cover(id)) - 1
    BY <1>1, FS_RemoveElement
  <2>2. Cardinality(Cover(id) \ {x}) <= Cardinality(Cover(id)')
    BY <1>1, <1>6, FS_Subset
  <2> QED
    BY <1>1, <1>2, <1>3, <1>6, <2>1, <2>2
<1>7. CASE consumers'[id] = 0
  BY <1>1, <1>7
<1>8. CoverMoves(id)
  OBVIOUS
<1> QED
  BY <1>4, <1>5, <1>6, <1>7, <1>8 DEF CoverMoves

-----------------------------------------------------------------------------
(* Open.                                                                   *)

\* The intent of an open names no stream and claims nothing.
LEMMA OpenIntentKeeps ==
    ASSUME StreamsInv, NEW s \in Sessions, OpenIntent(s)
    PROVE  StreamsInv'
<1> USE DEF StreamsInv, Shape
<1>1. /\ DOMAIN streams' = DOMAIN streams \cup {s}
      /\ \A k \in DOMAIN streams : streams'[k] = streams[k]
      /\ streams'[s] = [user |-> Owner[s], seen |-> clock, status |-> "opening", id |-> None]
      /\ s \notin DOMAIN streams
  BY DEF OpenIntent, WithIntent
<1>2. streams' = [k \in DOMAIN streams' |-> streams'[k]]
  BY DEF OpenIntent, WithIntent
<1>3. /\ op.kind = "none" /\ op'.kind = "open" /\ op'.session = s /\ op'.todo = {}
      /\ UNCHANGED <<consumers, late, restarted, clock>>
      /\ \A k \in DOMAIN streams : streams[k].status = "active"
  BY DEF OpenIntent, Free, MayOpen, Latched
<1>4. TypeOK'
  <2>1. streams'[s] \in Row /\ \A k \in DOMAIN streams : streams'[k] \in Row
    BY <1>1, LedgerConstants DEF TypeOK, Row
  <2>2. streams' \in [DOMAIN streams' -> Row] /\ DOMAIN streams' \subseteq Sessions
    BY <1>1, <1>2, <2>1 DEF TypeOK
  <2>3. op' \in Ops /\ used' \subseteq Sessions
    BY DEF OpenIntent, Ops, TypeOK
  <2> QED
    BY <1>3, <2>2, <2>3 DEF TypeOK
<1>5. IsFiniteSet(DOMAIN streams')
  BY <1>1, FS_AddElement
<1>6. late[s] = "none"
  BY <1>1 DEF LateSound
<1>7. RowsSound' /\ OpSound' /\ LateSound'
  BY <1>1, <1>3, <1>6 DEF RowsSound, OpSound, LateSound
<1>8. RestartSound'
  <2>1. \A k \in DOMAIN streams : ~(streams[k].seen < restarted)
    BY <1>3 DEF RestartSound, UnidentifiedOpen
  <2>2. restarted \in Nat /\ clock \in Nat /\ restarted <= clock
    BY DEF TypeOK, RestartSound
  <2>3. ~(streams'[s].seen < restarted)
    BY <1>1, <2>2
  <2>4. \A k \in DOMAIN streams' : ~(streams'[k].seen < restarted')
    BY <1>1, <1>3, <2>1, <2>3
  <2> QED
    BY <1>3, <2>2, <2>4 DEF RestartSound
<1>9. \A id \in StreamIds : Claim(id)' = Claim(id) /\ Cover(id)' = Cover(id)
  BY <1>1, <1>3, <1>6, LedgerConstants DEF Claim, Cover
<1>10. \A id \in StreamIds : consumers'[id] <= consumers[id] /\ consumers[id] <= consumers'[id]
  BY <1>3 DEF TypeOK
<1>11. \A id \in StreamIds : ClaimMoves(id) /\ CoverMoves(id)
  BY <1>9, <1>10 DEF ClaimMoves, CoverMoves
<1> QED
  BY <1>4, <1>5, <1>7, <1>8, <1>11, ClaimsCounted, CoversCounted

\* An open that is answered gives its row the consumer it has opened, saved
\* as active or not.
LEMMA AnsweredOpenKeeps ==
    ASSUME StreamsInv, NEW new \in StreamIds, NEW st \in {"active", "blocked"},
           op.kind = "open", consumers' = Opened(new),
           streams' = [streams EXCEPT ![op.session] =
                          [@ EXCEPT !.status = st, !.id = new, !.seen = clock]],
           Unlock, UNCHANGED <<used, late, restarted, clock>>
    PROVE  StreamsInv'
<1> USE DEF StreamsInv, Shape
<1> DEFINE s == op.session
<1>1. s \in DOMAIN streams /\ streams[s].status = "opening" /\ streams[s].id = None
      /\ late[s] = "none" /\ s \in Sessions /\ streams[s] \in Row
  BY DEF OpSound, RowsSound, TypeOK
<1>2. /\ DOMAIN streams' = DOMAIN streams
      /\ \A k \in DOMAIN streams \ {s} : streams'[k] = streams[k]
      /\ streams'[s].status = st /\ streams'[s].id = new /\ streams'[s].seen = clock
      /\ streams'[s] \in Row
  BY <1>1 DEF TypeOK, Row
<1>3. op'.kind = "none"
  BY DEF Unlock, NoOp
<1>4. /\ consumers'[new] = consumers[new] + 1
      /\ \A id \in StreamIds \ {new} : consumers'[id] = consumers[id]
      /\ consumers' \in [StreamIds -> Nat]
  BY DEF Opened, TypeOK
<1>5. TypeOK'
  <2>1. \A k \in DOMAIN streams' : streams'[k] \in Row
    BY <1>2 DEF TypeOK
  <2>2. streams' = [k \in DOMAIN streams' |-> streams'[k]]
    BY DEF TypeOK
  <2>3. streams' \in [DOMAIN streams' -> Row]
    BY <2>1, <2>2
  <2> QED
    BY <1>2, <1>4, <2>3 DEF TypeOK, Unlock, Ops
<1> HIDE DEF s
<1>6. IsFiniteSet(DOMAIN streams')
  BY <1>2
<1>7. RowsSound' /\ OpSound'
  BY <1>2, <1>3 DEF RowsSound, OpSound
<1>8. LateSound'
  BY <1>1, <1>2 DEF LateSound
<1>9. RestartSound'
  <2>1. \A k \in DOMAIN streams : ~(streams[k].seen < restarted)
    BY DEF RestartSound, Free
  <2>2. restarted \in Nat /\ clock \in Nat /\ restarted <= clock
    BY DEF TypeOK, RestartSound
  <2>3. \A k \in DOMAIN streams' : ~(streams'[k].seen < restarted')
    BY <1>2, <2>1, <2>2
  <2> QED
    BY <2>2, <2>3 DEF RestartSound
<1>10. \A id \in StreamIds \ {new} : Claim(id)' = Claim(id) /\ Cover(id)' = Cover(id)
  BY <1>1, <1>2, <1>3, LedgerConstants DEF Claim, Cover, s
<1>11. Claim(new)' \subseteq Claim(new) \cup {s}
  BY <1>1, <1>2, <1>3 DEF Claim, s
<1>12. s \notin Cover(new) /\ Cover(new) \cup {s} \subseteq Cover(new)'
  BY <1>1, <1>2, <1>3, LedgerConstants DEF Cover, s
<1>13. \A id \in StreamIds \ {new} : consumers'[id] <= consumers[id] /\ consumers[id] <= consumers'[id]
  BY <1>4 DEF TypeOK
<1>14. ClaimMoves(new) /\ CoverMoves(new)
  BY <1>1, <1>4, <1>11, <1>12 DEF ClaimMoves, CoverMoves
<1>15. \A id \in StreamIds \ {new} : ClaimMoves(id) /\ CoverMoves(id)
  BY <1>10, <1>13 DEF ClaimMoves, CoverMoves
<1>16. \A id \in StreamIds : ClaimMoves(id) /\ CoverMoves(id)
  BY <1>14, <1>15
<1> QED
  BY <1>5, <1>6, <1>7, <1>8, <1>9, <1>16, ClaimsCounted, CoversCounted

-----------------------------------------------------------------------------
(* A call without an answer.                                               *)

\* Whatever Jellyfin did or will do, a row that is left opening, closing or
\* blocked accounts for it.
LEMMA LostCallKeeps ==
    ASSUME StreamsInv, op.kind # "none", OutcomeUnknown, Unlock,
           UNCHANGED <<used, restarted, clock>>,
           \/ UNCHANGED streams
           \/ streams' = [streams EXCEPT ![op.session].status = "blocked"]
    PROVE  StreamsInv'
<1> USE DEF StreamsInv, Shape
<1> DEFINE s == op.session
<1>1. /\ s \in DOMAIN streams /\ streams[s].status \in {"opening", "closing"}
      /\ late[s] = "none" /\ s \in Sessions /\ streams[s] \in Row
      /\ op.kind \in {"open", "close"}
      /\ op.kind = "open" => streams[s].id = None
      /\ op.kind = "close" => streams[s].id \in StreamIds
  <2>1. op.kind \in {"open", "close"} /\ s \in Sessions
    BY DEF TypeOK, Ops, NoOp
  <2> QED
    BY <2>1 DEF OpSound, RowsSound, TypeOK
<1>2. /\ DOMAIN streams' = DOMAIN streams
      /\ \A k \in DOMAIN streams \ {s} : streams'[k] = streams[k]
      /\ streams'[s].status # "active" /\ streams'[s].id = streams[s].id
      /\ streams'[s].seen = streams[s].seen /\ streams'[s] \in Row
      /\ streams'[s].status \in {streams[s].status, "blocked"}
  BY <1>1 DEF TypeOK, Row
<1>3. op'.kind = "none" /\ op' \in Ops
  BY DEF Unlock, NoOp, Ops
<1>4. /\ late' \in [Sessions -> {"none", "open", "close"}]
      /\ \A k \in Sessions \ {s} : late'[k] = late[k]
      /\ late'[s] \in {"none", op.kind}
  BY <1>1 DEF OutcomeUnknown, TypeOK
<1>5. consumers' \in [StreamIds -> Nat]
  BY <1>1 DEF OutcomeUnknown, Opened, Closed, TypeOK
<1>6. TypeOK'
  <2>1. \A k \in DOMAIN streams' : streams'[k] \in Row
    BY <1>2 DEF TypeOK
  <2>2. streams' = [k \in DOMAIN streams' |-> streams'[k]]
    BY DEF TypeOK
  <2>3. streams' \in [DOMAIN streams' -> Row]
    BY <2>1, <2>2
  <2> QED
    BY <1>2, <1>3, <1>4, <1>5, <2>3 DEF TypeOK
<1> HIDE DEF s
<1>7. IsFiniteSet(DOMAIN streams')
  BY <1>2
<1>8. RowsSound' /\ OpSound'
  <2>1. RowsSound'
    BY <1>1, <1>2 DEF RowsSound
  <2> QED
    BY <1>3, <2>1 DEF OpSound
<1>9. LateSound'
  BY <1>1, <1>2, <1>4 DEF LateSound
<1>10. RestartSound'
  <2>1. \A k \in DOMAIN streams : ~(streams[k].seen < restarted)
    BY DEF RestartSound, Free
  <2>2. \A k \in DOMAIN streams' : ~(streams'[k].seen < restarted')
    BY <1>2, <2>1
  <2> QED
    BY <2>2 DEF RestartSound
<1>11. \A id \in StreamIds : \A k \in DOMAIN streams : k # s =>
          (k \in Claim(id)' <=> k \in Claim(id)) /\ (k \in Cover(id)' <=> k \in Cover(id))
  BY <1>1, <1>2, <1>3, <1>4 DEF Claim, Cover, s, TypeOK
<1>12. \A id \in StreamIds : Claim(id) \subseteq DOMAIN streams /\ Cover(id) \subseteq DOMAIN streams
                             /\ Claim(id)' \subseteq DOMAIN streams
                             /\ Cover(id)' \subseteq DOMAIN streams
  BY <1>2 DEF Claim, Cover
<1>13. \A id \in StreamIds : consumers[id] \in Nat
  BY DEF TypeOK
<1>14. CASE UNCHANGED <<consumers, late>>
  <2>1. \A id \in StreamIds : s \notin Claim(id)' /\ (s \in Cover(id) => s \in Cover(id)')
    BY <1>1, <1>2, <1>3, <1>14 DEF Claim, Cover, s
  <2>2. \A id \in StreamIds : Claim(id)' \subseteq Claim(id) /\ Cover(id) \subseteq Cover(id)'
    BY <1>11, <1>12, <2>1
  <2>3. \A id \in StreamIds : consumers'[id] <= consumers[id] /\ consumers[id] <= consumers'[id]
    BY <1>13, <1>14
  <2>4. \A id \in StreamIds : ClaimMoves(id) /\ CoverMoves(id)
    BY <2>2, <2>3 DEF ClaimMoves, CoverMoves
  <2> QED
    BY <2>4, <1>6, <1>7, <1>8, <1>9, <1>10, ClaimsCounted, CoversCounted
<1>15. ASSUME op.kind = "open", NEW new \in StreamIds, consumers' = Opened(new), UNCHANGED late
       PROVE  StreamsInv'
  <2>1. \A id \in StreamIds : s \notin Claim(id)' /\ s \notin Cover(id) /\ s \in Cover(id)'
    BY <1>1, <1>2, <1>3, <1>15, LedgerConstants DEF Claim, Cover, s
  <2>2. \A id \in StreamIds : Claim(id)' \subseteq Claim(id) /\ Cover(id) \cup {s} \subseteq Cover(id)'
    BY <1>11, <1>12, <1>1, <1>2, <2>1
  <2>3. consumers'[new] = consumers[new] + 1
        /\ \A id \in StreamIds \ {new} : consumers'[id] = consumers[id]
    BY <1>15 DEF Opened, TypeOK
  <2>4. \A id \in StreamIds : consumers[id] <= consumers'[id]
    BY <1>13, <2>3
  <2>5. \A id \in StreamIds \ {new} : consumers'[id] <= consumers[id]
    BY <1>13, <2>3
  <2>6. \A id \in StreamIds : ClaimMoves(id)
    BY <2>2, <2>4 DEF ClaimMoves
  <2>7. CoverMoves(new)
    BY <1>1, <2>1, <2>2, <2>3 DEF CoverMoves
  <2>8. \A id \in StreamIds \ {new} : CoverMoves(id)
    BY <2>2, <2>5 DEF CoverMoves
  <2>9. \A id \in StreamIds : CoverMoves(id)
    BY <2>7, <2>8
  <2> QED
    BY <2>6, <2>9, <1>6, <1>7, <1>8, <1>9, <1>10, ClaimsCounted, CoversCounted
<1>16. ASSUME op.kind = "close", NEW old \in StreamIds, streams[s].id = old,
              consumers' = Closed(old), UNCHANGED late
       PROVE  StreamsInv'
  <2>1. old \in StreamIds
    OBVIOUS
  <2>2. /\ consumers'[old] = IF consumers[old] = 0 THEN 0 ELSE consumers[old] - 1
        /\ \A id \in StreamIds \ {old} : consumers'[id] = consumers[id]
    BY <1>16, <2>1 DEF Closed, TypeOK
  <2>3. s \in Claim(old) /\ s \in Cover(old)'
        /\ \A id \in StreamIds : s \notin Claim(id)' /\ (s \in Cover(id) => s \in Cover(id)')
    BY <1>1, <1>2, <1>3, <1>16, <2>1, LedgerConstants DEF Claim, Cover, s
  <2>4. \A id \in StreamIds : Claim(id)' \subseteq Claim(id) \ {s} /\ Cover(id) \subseteq Cover(id)'
    BY <1>11, <1>12, <2>3
  <2>5. \A id \in StreamIds : consumers'[id] <= consumers[id]
    BY <1>13, <2>1, <2>2
  <2>6. consumers[old] - 1 <= consumers'[old]
        /\ \A id \in StreamIds \ {old} : consumers[id] <= consumers'[id]
    BY <1>13, <2>1, <2>2
  <2>7. ClaimMoves(old)
    BY <2>1, <2>3, <2>4, <2>6 DEF ClaimMoves
  <2>8. \A id \in StreamIds \ {old} : ClaimMoves(id)
    BY <2>4, <2>6 DEF ClaimMoves
  <2>9. \A id \in StreamIds : ClaimMoves(id) /\ CoverMoves(id)
    BY <2>4, <2>5, <2>7, <2>8 DEF CoverMoves
  <2> QED
    BY <2>9, <1>6, <1>7, <1>8, <1>9, <1>10, ClaimsCounted, CoversCounted
<1>17. CASE late' = [late EXCEPT ![s] = op.kind] /\ UNCHANGED consumers
  <2>1. late'[s] = op.kind
    BY <1>1, <1>17 DEF TypeOK
  <2>2. \A id \in StreamIds : (s \in Claim(id)' => s \in Claim(id))
                              /\ (s \in Cover(id) => s \in Cover(id)')
    BY <1>1, <1>2, <1>3, <2>1, LedgerConstants DEF Claim, Cover, s
  <2>3. \A id \in StreamIds : Claim(id)' \subseteq Claim(id) /\ Cover(id) \subseteq Cover(id)'
    BY <1>11, <1>12, <2>2
  <2>4. \A id \in StreamIds : consumers'[id] <= consumers[id] /\ consumers[id] <= consumers'[id]
    BY <1>13, <1>17
  <2>5. \A id \in StreamIds : ClaimMoves(id) /\ CoverMoves(id)
    BY <2>3, <2>4 DEF ClaimMoves, CoverMoves
  <2> QED
    BY <2>5, <1>6, <1>7, <1>8, <1>9, <1>10, ClaimsCounted, CoversCounted
<1>18. CASE op.kind = "close" /\ consumers' = Closed(streams[s].id) /\ UNCHANGED late
  BY <1>1, <1>16, <1>18
<1> QED
  BY <1>14, <1>15, <1>17, <1>18 DEF OutcomeUnknown, s

-----------------------------------------------------------------------------
(* Heartbeat and close.                                                    *)

\* A heartbeat renews an active row.
LEMMA HeartbeatKeeps ==
    ASSUME StreamsInv, NEW s \in Sessions, NEW u \in Users, Heartbeat(s, u)
    PROVE  StreamsInv'
<1> USE DEF StreamsInv, Shape
<1>1. /\ s \in DOMAIN streams /\ streams[s].status = "active" /\ streams[s] \in Row
      /\ UNCHANGED <<used, op, consumers, late, restarted, clock>>
  BY DEF Heartbeat, Rows, TypeOK
<1>2. /\ DOMAIN streams' = DOMAIN streams
      /\ \A k \in DOMAIN streams \ {s} : streams'[k] = streams[k]
      /\ streams'[s].status = "active" /\ streams'[s].id = streams[s].id
      /\ streams'[s].seen = clock /\ streams'[s] \in Row
  BY <1>1 DEF Heartbeat, TypeOK, Row
<1>3. TypeOK'
  <2>1. \A k \in DOMAIN streams' : streams'[k] \in Row
    BY <1>2 DEF TypeOK
  <2>2. streams' = [k \in DOMAIN streams' |-> streams'[k]]
    BY DEF Heartbeat, TypeOK
  <2>3. streams' \in [DOMAIN streams' -> Row]
    BY <2>1, <2>2
  <2> QED
    BY <1>1, <1>2, <2>3 DEF TypeOK
<1>4. IsFiniteSet(DOMAIN streams')
  BY <1>2
<1>5. \A k \in DOMAIN streams : /\ streams'[k].status = streams[k].status
                                /\ streams'[k].id = streams[k].id
  BY <1>1, <1>2
<1>6. RowsSound' /\ OpSound' /\ LateSound'
  BY <1>1, <1>2, <1>5 DEF RowsSound, OpSound, LateSound, Rows
<1>7. RestartSound'
  <2>1. \A k \in DOMAIN streams : ~(streams[k].seen < restarted)
    BY <1>1 DEF RestartSound, UnidentifiedOpen
  <2>2. restarted \in Nat /\ clock \in Nat /\ restarted <= clock
    BY DEF TypeOK, RestartSound
  <2>3. \A k \in DOMAIN streams' : ~(streams'[k].seen < restarted')
    BY <1>1, <1>2, <2>1, <2>2
  <2> QED
    BY <1>1, <2>2, <2>3 DEF RestartSound
<1>8. \A id \in StreamIds : Claim(id)' = Claim(id) /\ Cover(id)' = Cover(id)
  BY <1>1, <1>2, <1>5 DEF Claim, Cover
<1>9. Claimed' /\ Covered'
  BY <1>1, <1>8 DEF Claimed, Covered
<1> QED
  BY <1>3, <1>4, <1>6, <1>7, <1>9

\* The intent to close keeps the claim of its row until Jellyfin acts.
LEMMA CloseIntentKeeps ==
    ASSUME StreamsInv, Free, NEW s \in Rows("active"), NEW todo \in SUBSET (Rows("active") \ {s}),
           CloseIntent(s, todo), UNCHANGED <<used, consumers, late, restarted, clock>>
    PROVE  StreamsInv'
<1> USE DEF StreamsInv, Shape
<1>1. /\ s \in DOMAIN streams /\ streams[s].status = "active" /\ streams[s] \in Row
      /\ s \in Sessions /\ op.kind = "none" /\ streams[s].id \in StreamIds
  BY DEF Rows, TypeOK, Free, RowsSound
<1>2. /\ DOMAIN streams' = DOMAIN streams
      /\ \A k \in DOMAIN streams \ {s} : streams'[k] = streams[k]
      /\ streams'[s].status = "closing" /\ streams'[s].id = streams[s].id
      /\ streams'[s].seen = streams[s].seen /\ streams'[s] \in Row
  BY <1>1 DEF CloseIntent, TypeOK, Row
<1>3. op'.kind = "close" /\ op'.session = s /\ op'.todo = todo /\ op' \in Ops
  <2>1. todo \subseteq Sessions
    BY DEF Rows, TypeOK
  <2> QED
    BY <1>1, <2>1 DEF CloseIntent, Ops
<1>4. late[s] = "none"
  BY <1>1 DEF LateSound
<1>5. TypeOK'
  <2>1. \A k \in DOMAIN streams' : streams'[k] \in Row
    BY <1>2 DEF TypeOK
  <2>2. streams' = [k \in DOMAIN streams' |-> streams'[k]]
    BY DEF CloseIntent, TypeOK
  <2>3. streams' \in [DOMAIN streams' -> Row]
    BY <2>1, <2>2
  <2> QED
    BY <1>2, <1>3, <2>3 DEF TypeOK
<1>6. IsFiniteSet(DOMAIN streams')
  BY <1>2
<1>7. RowsSound'
  BY <1>1, <1>2 DEF RowsSound
<1>8. OpSound'
  <2>1. todo \subseteq Rows("active")'
    BY <1>2 DEF Rows
  <2> QED
    BY <1>1, <1>2, <1>3, <1>4, <2>1 DEF OpSound
<1>9. LateSound'
  BY <1>2, <1>4 DEF LateSound
<1>10. RestartSound'
  <2>1. \A k \in DOMAIN streams : ~(streams[k].seen < restarted)
    BY <1>1 DEF RestartSound, UnidentifiedOpen
  <2>2. \A k \in DOMAIN streams' : ~(streams'[k].seen < restarted')
    BY <1>2, <2>1
  <2> QED
    BY <2>2 DEF RestartSound
<1>11. \A id \in StreamIds : Claim(id)' = Claim(id) /\ Cover(id)' = Cover(id)
  BY <1>1, <1>2, <1>3 DEF Claim, Cover
<1>12. Claimed' /\ Covered'
  BY <1>11 DEF Claimed, Covered
<1> QED
  BY <1>5, <1>6, <1>7, <1>8, <1>9, <1>10, <1>12

\* An acknowledged close takes one row and the one consumer it claims; the
\* row the reaper takes next keeps its claim.
LEMMA CloseReplyKeeps == ASSUME StreamsInv, CloseReply PROVE StreamsInv'
<1> USE DEF StreamsInv, Shape
<1>1. PICK s \in Sessions, old \in StreamIds :
         /\ s = op.session /\ old = streams[s].id
         /\ s \in DOMAIN streams /\ streams[s].status = "closing"
         /\ late[s] = "none" /\ streams[s] \in Row
  BY DEF CloseReply, OpSound, RowsSound, TypeOK
<1>2. /\ op.kind = "close" /\ op.session = s /\ consumers' = Closed(old)
      /\ op.todo \subseteq Rows("active")
      /\ UNCHANGED <<used, late, restarted, clock>>
  BY <1>1 DEF CloseReply, OpSound
<1> DEFINE RowGone ==
      /\ DOMAIN streams' = DOMAIN streams \ {s}
      /\ \A k \in DOMAIN streams' : /\ streams'[k] \in Row
                                    /\ streams'[k].id = streams[k].id
                                    /\ streams'[k].seen = streams[k].seen
      /\ streams' = [k \in DOMAIN streams' |-> streams'[k]]
      /\ op' \in Ops
      /\ \/ /\ op'.kind = "none"
            /\ \A k \in DOMAIN streams' : streams'[k].status = streams[k].status
         \/ /\ op'.kind = "close" /\ op'.session \in DOMAIN streams'
            /\ streams[op'.session].status = "active"
            /\ streams'[op'.session].status = "closing"
            /\ op'.todo \subseteq op.todo \ {op'.session}
            /\ \A k \in DOMAIN streams' \ {op'.session} :
                  streams'[k].status = streams[k].status
<1>3. RowGone
  <2>1. /\ DOMAIN Without(s) = DOMAIN streams \ {s}
        /\ \A k \in DOMAIN streams \ {s} : Without(s)[k] = streams[k]
        /\ Without(s) = [k \in DOMAIN streams \ {s} |-> Without(s)[k]]
    BY DEF Without
  <2>2. \A k \in DOMAIN streams : streams[k] \in Row
    BY DEF TypeOK
  <2>3. CASE op.todo = {}
    <3>1. streams' = Without(s) /\ op' = NoOp
      BY <1>1, <2>3 DEF CloseReply, Unlock
    <3>2. op' \in Ops /\ op'.kind = "none"
      BY <3>1 DEF Ops, NoOp
    <3> QED
      BY <2>1, <2>2, <3>1, <3>2
  <2>4. ASSUME NEW n \in op.todo, streams' = [Without(s) EXCEPT ![n].status = "closing"],
               op' = [op EXCEPT !.session = n, !.todo = @ \ {n}]
        PROVE  RowGone
    <3>1. n \in DOMAIN streams \ {s} /\ streams[n].status = "active"
      BY <1>1, <1>2 DEF Rows
    <3>2. /\ DOMAIN streams' = DOMAIN streams \ {s}
          /\ \A k \in DOMAIN streams \ {s} : k # n => streams'[k] = streams[k]
          /\ streams'[n] = [streams[n] EXCEPT !.status = "closing"]
          /\ streams' = [k \in DOMAIN streams' |-> streams'[k]]
      BY <2>1, <2>4, <3>1
    <3>3. op \in [kind : {"open", "close"}, session : Sessions, todo : SUBSET Sessions]
      BY <1>2 DEF TypeOK, Ops, NoOp
    <3>4. n \in Sessions
      BY <3>1 DEF TypeOK
    <3>5. op' \in Ops /\ op'.kind = "close" /\ op'.session = n /\ op'.todo = op.todo \ {n}
      BY <1>2, <2>4, <3>3, <3>4 DEF Ops
    <3>6. streams'[n] \in Row /\ streams'[n].id = streams[n].id
          /\ streams'[n].seen = streams[n].seen /\ streams'[n].status = "closing"
      BY <2>2, <3>1, <3>2 DEF Row
    <3> QED
      BY <2>2, <3>1, <3>2, <3>5, <3>6
  <2> QED
    BY <1>1, <2>3, <2>4 DEF CloseReply
<1>4. /\ consumers'[old] = IF consumers[old] = 0 THEN 0 ELSE consumers[old] - 1
      /\ \A id \in StreamIds \ {old} : consumers'[id] = consumers[id]
      /\ consumers' \in [StreamIds -> Nat]
  BY <1>2 DEF Closed, TypeOK
<1>5. TypeOK'
  <2>1. streams' \in [DOMAIN streams' -> Row] /\ DOMAIN streams' \subseteq Sessions
    BY <1>3 DEF TypeOK
  <2> QED
    BY <1>2, <1>3, <1>4, <2>1 DEF TypeOK
<1>6. IsFiniteSet(DOMAIN streams')
  BY <1>3, FS_RemoveElement
<1>7. \A k \in DOMAIN streams' : streams'[k].status = streams[k].status
          \/ (streams[k].status = "active" /\ streams'[k].status = "closing")
  BY <1>3
<1>8. RowsSound'
  BY <1>3, <1>7 DEF RowsSound
<1>9. OpSound'
  <2>1. CASE op'.kind = "none"
    BY <2>1 DEF OpSound
  <2>2. CASE op'.kind # "none"
    <3>1. op'.todo \subseteq Rows("active")'
      BY <1>1, <1>2, <1>3, <2>2 DEF Rows
    <3>2. late[op'.session] = "none"
      BY <1>3, <2>2 DEF LateSound, TypeOK
    <3> QED
      BY <1>2, <1>3, <2>2, <3>1, <3>2 DEF OpSound
  <2> QED
    BY <2>1, <2>2
<1>10. LateSound'
  BY <1>1, <1>2, <1>3, <1>7 DEF LateSound
<1>11. RestartSound'
  <2>1. \A k \in DOMAIN streams : ~(streams[k].seen < restarted)
    BY <1>2 DEF RestartSound, Free
  <2>2. \A k \in DOMAIN streams' : ~(streams'[k].seen < restarted')
    BY <1>2, <1>3, <2>1
  <2> QED
    BY <1>2, <2>2 DEF RestartSound
<1>12. \A id \in StreamIds : Claim(id)' \subseteq Claim(id) \ {s} /\ Cover(id) \ {s} \subseteq Cover(id)'
  BY <1>1, <1>2, <1>3, <1>7 DEF Claim, Cover
<1>13. s \in Claim(old) /\ s \in Cover(old)
       /\ \A id \in StreamIds \ {old} : s \notin Cover(id)
  BY <1>1, <1>2, LedgerConstants DEF Claim, Cover
<1>14. \A id \in StreamIds \ {old} : Cover(id) \subseteq Cover(id)' /\ Claim(id)' \subseteq Claim(id)
  BY <1>12, <1>13
<1>15. \A id \in StreamIds \ {old} : consumers'[id] <= consumers[id] /\ consumers[id] <= consumers'[id]
  BY <1>4 DEF TypeOK
<1>16. consumers[old] - 1 <= consumers'[old]
  BY <1>4 DEF TypeOK
<1>17. ClaimMoves(old) /\ CoverMoves(old)
  BY <1>4, <1>12, <1>13, <1>16 DEF ClaimMoves, CoverMoves
<1>18. \A id \in StreamIds \ {old} : ClaimMoves(id) /\ CoverMoves(id)
  BY <1>14, <1>15 DEF ClaimMoves, CoverMoves
<1>19. \A id \in StreamIds : ClaimMoves(id) /\ CoverMoves(id)
  BY <1>17, <1>18
<1> QED
  BY <1>5, <1>6, <1>8, <1>9, <1>10, <1>11, <1>19, ClaimsCounted, CoversCounted

-----------------------------------------------------------------------------
(* What Jellyfin and the operator do.                                      *)

\* A late open gives its row a consumer, a late close takes the one its row
\* claims.
LEMMA LateEffectKeeps ==
    ASSUME StreamsInv, NEW s \in Sessions, LateEffect(s)
    PROVE  StreamsInv'
<1> USE DEF StreamsInv, Shape
<1>1. /\ s \in DOMAIN streams /\ late[s] # "none" /\ streams[s].status # "active"
      /\ UNCHANGED <<streams, used, op, restarted, clock>>
      /\ late' = [late EXCEPT ![s] = "none"]
  BY DEF LateEffect, LateSound
<1>2. /\ late'[s] = "none" /\ \A k \in Sessions \ {s} : late'[k] = late[k]
      /\ late' \in [Sessions -> {"none", "open", "close"}]
  BY <1>1 DEF TypeOK
<1>3. op.kind # "none" => op.session # s
  BY <1>1 DEF OpSound
<1>4. consumers' \in [StreamIds -> Nat]
  BY DEF LateEffect, LateSound, Opened, Closed, TypeOK
<1>5. TypeOK' /\ IsFiniteSet(DOMAIN streams')
  BY <1>1, <1>2, <1>4 DEF TypeOK
<1>6. RowsSound' /\ OpSound' /\ LateSound' /\ RestartSound'
  <2>1. RowsSound'
    BY <1>1 DEF RowsSound
  <2>2. OpSound'
    BY <1>1, <1>2, <1>3 DEF OpSound, Rows, TypeOK
  <2>3. LateSound'
    BY <1>1, <1>2 DEF LateSound
  <2>4. \A k \in DOMAIN streams : ~(streams[k].seen < restarted)
    BY <1>1 DEF RestartSound, UnidentifiedOpen
  <2>5. RestartSound'
    BY <1>1, <2>4 DEF RestartSound
  <2> QED
    BY <2>1, <2>2, <2>3, <2>5
<1>7. \A id \in StreamIds : \A k \in DOMAIN streams : k # s =>
          (k \in Claim(id)' <=> k \in Claim(id)) /\ (k \in Cover(id)' <=> k \in Cover(id))
  BY <1>1, <1>2 DEF Claim, Cover, TypeOK
<1>8. \A id \in StreamIds : Claim(id) \subseteq DOMAIN streams /\ Cover(id) \subseteq DOMAIN streams
                            /\ Claim(id)' \subseteq DOMAIN streams
                            /\ Cover(id)' \subseteq DOMAIN streams
  BY <1>1 DEF Claim, Cover
<1>9. ASSUME late[s] = "open", NEW new \in StreamIds, consumers' = Opened(new)
      PROVE  StreamsInv'
  <2>1. streams[s].id = None
    BY <1>9 DEF LateSound
  <2>2. \A id \in StreamIds : s \notin Claim(id)' /\ s \notin Cover(id) /\ s \in Cover(id)'
    BY <1>1, <1>2, <1>3, <1>9, <2>1, LedgerConstants DEF Claim, Cover
  <2>3. \A id \in StreamIds : Claim(id)' \subseteq Claim(id) /\ Cover(id) \cup {s} \subseteq Cover(id)'
    BY <1>7, <1>8, <2>2
  <2>4. consumers'[new] = consumers[new] + 1
        /\ \A id \in StreamIds \ {new} : consumers'[id] = consumers[id]
    BY <1>9 DEF Opened, TypeOK
  <2>5. \A id \in StreamIds : consumers[id] <= consumers'[id]
    BY <2>4 DEF TypeOK
  <2>6. \A id \in StreamIds \ {new} : consumers'[id] <= consumers[id]
    BY <2>4 DEF TypeOK
  <2>7. \A id \in StreamIds : ClaimMoves(id)
    BY <2>3, <2>5 DEF ClaimMoves
  <2>8. CoverMoves(new)
    BY <2>2, <2>3, <2>4 DEF CoverMoves
  <2>9. \A id \in StreamIds \ {new} : CoverMoves(id)
    BY <2>3, <2>6 DEF CoverMoves
  <2>10. \A id \in StreamIds : CoverMoves(id)
    BY <2>8, <2>9
  <2> QED
    BY <1>5, <1>6, <2>7, <2>10, ClaimsCounted, CoversCounted
<1>10. ASSUME late[s] = "close", NEW old \in StreamIds, streams[s].id = old,
              consumers' = Closed(old)
       PROVE  StreamsInv'
  <2>1. /\ consumers'[old] = IF consumers[old] = 0 THEN 0 ELSE consumers[old] - 1
        /\ \A id \in StreamIds \ {old} : consumers'[id] = consumers[id]
    BY <1>10 DEF Closed, TypeOK
  <2>2. s \in Claim(old)
        /\ \A id \in StreamIds : s \notin Claim(id)' /\ (s \in Cover(id) => s \in Cover(id)')
    BY <1>1, <1>2, <1>3, <1>10, LedgerConstants DEF Claim, Cover
  <2>3. \A id \in StreamIds : Claim(id)' \subseteq Claim(id) \ {s} /\ Cover(id) \subseteq Cover(id)'
    BY <1>7, <1>8, <2>2
  <2>4. \A id \in StreamIds : consumers'[id] <= consumers[id]
    BY <2>1 DEF TypeOK
  <2>5. consumers[old] - 1 <= consumers'[old]
        /\ \A id \in StreamIds \ {old} : consumers[id] <= consumers'[id]
    BY <2>1 DEF TypeOK
  <2>6. ClaimMoves(old)
    BY <2>2, <2>3, <2>5 DEF ClaimMoves
  <2>7. \A id \in StreamIds \ {old} : ClaimMoves(id)
    BY <2>3, <2>5 DEF ClaimMoves
  <2>8. \A id \in StreamIds : ClaimMoves(id) /\ CoverMoves(id)
    BY <2>3, <2>4, <2>6, <2>7 DEF CoverMoves
  <2> QED
    BY <1>5, <1>6, <2>8, ClaimsCounted, CoversCounted
<1>11. late[s] = "close" => streams[s].id \in StreamIds
  BY DEF LateSound
<1> QED
  BY <1>9, <1>10, <1>11 DEF LateEffect

\* The restart that the recovery procedure asks for leaves no consumer and
\* no call behind.
LEMMA JellyfinRestartKeeps == ASSUME StreamsInv, JellyfinRestart PROVE StreamsInv'
<1> USE DEF StreamsInv, Shape
<1>1. PICK s \in DOMAIN streams : UnidentifiedOpen(s)
  BY DEF JellyfinRestart
<1>2. /\ DOMAIN streams = {s} /\ streams[s].status = "blocked" /\ streams[s].id = None
      /\ s \in Sessions /\ op.kind = "none"
      /\ UNCHANGED <<streams, used, op, clock>>
      /\ restarted' = clock
  BY <1>1 DEF UnidentifiedOpen, JellyfinRestart, Free, TypeOK
<1>3. \A k \in Sessions : late'[k] = "none"
  BY DEF JellyfinRestart
<1>4. \A id \in StreamIds : consumers'[id] = 0
  BY DEF JellyfinRestart
<1>5. TypeOK' /\ IsFiniteSet(DOMAIN streams')
  BY <1>2 DEF JellyfinRestart, TypeOK
<1>6. RowsSound' /\ OpSound' /\ LateSound'
  BY <1>2, <1>3 DEF RowsSound, OpSound, LateSound
<1>7. RestartSound'
  <2>1. restarted' <= clock'
    BY <1>2 DEF TypeOK
  <2>2. \A k \in DOMAIN streams' : UnidentifiedOpen(k)' /\ late'[k] = "none" /\ Free'
    BY <1>2, <1>3 DEF UnidentifiedOpen, Free
  <2> QED
    BY <2>1, <2>2 DEF RestartSound
<1>8. \A id \in StreamIds : Claim(id)' = {}
  BY <1>2, <1>3 DEF Claim
<1>9. Claimed'
  BY <1>4, <1>8, FS_EmptySet DEF Claimed
<1>10. Covered'
  BY <1>4, <1>5, CountsAreFinitePrimed DEF Covered
<1> QED
  BY <1>5, <1>6, <1>7, <1>9, <1>10

\* The reconciled row is the only one; nothing is open and no call of it is
\* outstanding.
LEMMA ReconcileFailedOpenKeeps ==
    ASSUME StreamsInv, NEW s \in Sessions, ReconcileFailedOpen(s)
    PROVE  StreamsInv'
<1> USE DEF StreamsInv, Shape
<1>1. /\ DOMAIN streams = {s} /\ streams[s].seen < restarted
      /\ UNCHANGED <<used, op, consumers, late, restarted, clock>>
      /\ op.kind = "none" /\ \A id \in StreamIds : consumers[id] = 0
  BY DEF ReconcileFailedOpen, UnidentifiedOpen, Free
<1>2. DOMAIN streams' = {}
  BY <1>1 DEF ReconcileFailedOpen, Without
<1>3. \A k \in Sessions : late[k] = "none"
  <2>1. late[s] = "none"
    BY <1>1 DEF RestartSound
  <2>2. \A k \in Sessions : k # s => late[k] = "none"
    BY <1>1 DEF LateSound
  <2> QED
    BY <2>1, <2>2
<1>4. TypeOK'
  <2>1. streams' \in [DOMAIN streams' -> Row]
    BY <1>1 DEF ReconcileFailedOpen, Without
  <2> QED
    BY <1>1, <1>2, <2>1 DEF TypeOK
<1>5. IsFiniteSet(DOMAIN streams')
  BY <1>2, FS_EmptySet
<1>6. RowsSound' /\ OpSound' /\ LateSound' /\ RestartSound'
  BY <1>1, <1>2, <1>3 DEF RowsSound, OpSound, LateSound, RestartSound
<1>7. \A id \in StreamIds : Claim(id)' = {}
  BY <1>2 DEF Claim
<1>8. Claimed'
  BY <1>1, <1>7, FS_EmptySet DEF Claimed
<1>9. Covered'
  BY <1>1, <1>5, CountsAreFinitePrimed DEF Covered
<1> QED
  BY <1>4, <1>5, <1>6, <1>8, <1>9

\* Time passes, or nothing happens.
LEMMA NothingMovesKeeps ==
    ASSUME StreamsInv, UNCHANGED <<streams, used, op, consumers, late, restarted>>,
           clock' \in Nat, clock <= clock'
    PROVE  StreamsInv'
<1> USE DEF StreamsInv, Shape
<1>1. TypeOK' /\ IsFiniteSet(DOMAIN streams')
  BY DEF TypeOK
<1>2. RowsSound' /\ OpSound' /\ LateSound'
  BY DEF RowsSound, OpSound, LateSound, Rows
<1>3. RestartSound'
  BY DEF RestartSound, UnidentifiedOpen, Free, TypeOK
<1>4. Claimed' /\ Covered'
  BY DEF Claimed, Covered, Claim, Cover
<1> QED
  BY <1>1, <1>2, <1>3, <1>4

-----------------------------------------------------------------------------
\* The empty ledger of an idle Jellyfin.
LEMMA StreamsInvInit == Init => StreamsInv
<1> SUFFICES ASSUME Init PROVE StreamsInv
  OBVIOUS
<1>1. DOMAIN streams = {} /\ streams \in [{} -> Row]
  BY DEF Init
<1>2. IsFiniteSet(DOMAIN streams)
  BY <1>1, FS_EmptySet
<1>3. TypeOK
  BY <1>1 DEF Init, TypeOK, Ops
<1>4. RowsSound /\ OpSound /\ LateSound /\ RestartSound
  BY <1>1 DEF Init, RowsSound, OpSound, LateSound, RestartSound, NoOp
<1>5. \A id \in StreamIds : consumers[id] = 0 /\ Claim(id) = {}
  BY <1>1 DEF Init, Claim
<1>6. Claimed
  BY <1>5, FS_EmptySet DEF Claimed
<1>7. Covered
  BY <1>2, <1>5, CountsAreFinite DEF Covered
<1> QED
  BY <1>2, <1>3, <1>4, <1>6, <1>7 DEF StreamsInv, Shape

\* Every step of Atlas, Jellyfin, the operator and the clock keeps it.
LEMMA StreamsInvNext == StreamsInv /\ [Next]_vars => StreamsInv'
<1> SUFFICES ASSUME StreamsInv, [Next]_vars PROVE StreamsInv'
  OBVIOUS
<1>1. CASE UNCHANGED vars
  BY <1>1, NothingMovesKeeps DEF vars, StreamsInv, Shape, TypeOK
<1>2. CASE Tick
  BY <1>2, NothingMovesKeeps DEF Tick, StreamsInv, Shape, TypeOK
<1>3. ASSUME NEW s \in Sessions, OpenIntent(s) \/ LateEffect(s) \/ ReconcileFailedOpen(s)
      PROVE  StreamsInv'
  BY <1>3, OpenIntentKeeps, LateEffectKeeps, ReconcileFailedOpenKeeps
<1>4. ASSUME NEW s \in Sessions, NEW u \in Users, Heartbeat(s, u)
      PROVE  StreamsInv'
  BY <1>4, HeartbeatKeeps
<1>5. ASSUME NEW s \in Sessions, NEW u \in Users, Release(s, u)
      PROVE  StreamsInv'
  <2>1. s \in Rows("active") /\ {} \in SUBSET (Rows("active") \ {s})
    BY <1>5 DEF Release
  <2> QED
    BY <1>5, <2>1, CloseIntentKeeps DEF Release
<1>6. ASSUME NEW id \in StreamIds, OpenReply(id) \/ OpenNotSaved(id)
      PROVE  StreamsInv'
  BY <1>6, AnsweredOpenKeeps DEF OpenReply, OpenNotSaved
<1>7. CASE CloseReply
  BY <1>7, CloseReplyKeeps
<1>8. CASE CallFails \/ Crash
  BY <1>8, LostCallKeeps DEF CallFails, Crash
<1>9. CASE Reap
  <2> DEFINE expired == {s \in DOMAIN streams : Expired(s)}
  <2>1. PICK s \in expired : CloseIntent(s, expired \ {s})
    BY <1>9 DEF Reap
  <2>2. expired \subseteq Rows("active")
    BY <1>9 DEF Reap, Latched, Rows
  <2>3. s \in Rows("active") /\ expired \ {s} \in SUBSET (Rows("active") \ {s})
    BY <2>2
  <2>4. Free /\ UNCHANGED <<used, consumers, late, restarted, clock>>
    BY <1>9 DEF Reap
  <2> HIDE DEF expired
  <2> QED
    BY <2>1, <2>3, <2>4, CloseIntentKeeps
<1>10. CASE JellyfinRestart
  BY <1>10, JellyfinRestartKeeps
<1> QED
  BY <1>1, <1>2, <1>3, <1>4, <1>5, <1>6, <1>7, <1>8, <1>9, <1>10 DEF Next

\* No close of the ledger, answered, lost or late, takes the consumer of a
\* viewer whose row is active.
THEOREM ActiveViewersKeepConsumers == Spec => []NoConsumerStolen
<1>1. StreamsInv => NoConsumerStolen
  <2> SUFFICES ASSUME StreamsInv, NEW id \in StreamIds
               PROVE  Cardinality(OwnersOf(id)) <= consumers[id]
    BY DEF NoConsumerStolen
  <2>1. OwnersOf(id) \subseteq Claim(id)
    BY DEF OwnersOf, Rows, Claim
  <2>2. IsFiniteSet(Claim(id)) /\ Cardinality(Claim(id)) \in Nat
        /\ Cardinality(Claim(id)) <= consumers[id] /\ consumers[id] \in Nat
    BY CountsAreFinite DEF StreamsInv, Shape, Claimed, TypeOK
  <2>3. Cardinality(OwnersOf(id)) <= Cardinality(Claim(id)) /\ IsFiniteSet(OwnersOf(id))
    BY <2>1, <2>2, FS_Subset
  <2>4. Cardinality(OwnersOf(id)) \in Nat
    BY <2>3, FS_CardinalityType
  <2> QED
    BY <2>2, <2>3, <2>4
<1> QED
  BY <1>1, StreamsInvInit, StreamsInvNext, PTL DEF Spec

\* Every consumer Jellyfin holds for Atlas, and every open it may still act
\* on, has its row.
THEOREM ConsumersHaveRows == Spec => []EveryConsumerRecorded
<1>1. StreamsInv => EveryConsumerRecorded
  <2> SUFFICES ASSUME StreamsInv PROVE EveryConsumerRecorded
    OBVIOUS
  <2>1. ASSUME NEW id \in StreamIds PROVE consumers[id] <= Cardinality(MayOwn(id))
    <3>1. Cover(id) \subseteq MayOwn(id) /\ MayOwn(id) \subseteq DOMAIN streams
      BY DEF MayOwn, Cover
    <3>2. IsFiniteSet(MayOwn(id)) /\ Cardinality(MayOwn(id)) \in Nat
      BY <3>1, FS_Subset, FS_CardinalityType DEF StreamsInv, Shape
    <3>3. Cardinality(Cover(id)) \in Nat /\ Cardinality(Cover(id)) <= Cardinality(MayOwn(id))
      BY <3>1, <3>2, FS_Subset, CountsAreFinite DEF StreamsInv, Shape
    <3>4. consumers[id] <= Cardinality(Cover(id)) /\ consumers[id] \in Nat
      BY DEF StreamsInv, Shape, Covered, TypeOK
    <3> QED
      BY <3>2, <3>3, <3>4
  <2>2. \A s \in Sessions : late[s] # "none" => s \in DOMAIN streams
    BY DEF StreamsInv, Shape, LateSound
  <2> QED
    BY <2>1, <2>2 DEF EveryConsumerRecorded
<1> QED
  BY <1>1, StreamsInvInit, StreamsInvNext, PTL DEF Spec

\* The ledger keeps its shape.
THEOREM LedgerTypes == Spec => []TypeOK
<1>1. StreamsInv => TypeOK
  BY DEF StreamsInv, Shape
<1> QED
  BY <1>1, StreamsInvInit, StreamsInvNext, PTL DEF Spec
=============================================================================
