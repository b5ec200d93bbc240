--------------------------- MODULE LiveProxyProofs ---------------------------
(***************************************************************************)
(* The live proxy: its generation authority, the reservation ledger beside *)
(* it, and the verified channels that use both, for any channels, workers, *)
(* tokens, viewers and destinations.                                       *)
(***************************************************************************)
EXTENDS VerifiedLiveChannel, FiniteSetTheorems, TLAPS

(***************************************************************************)
(* 1. The generation authority implements FencedStream.                    *)
(***************************************************************************)
(* The media of a channel, as FencedStream sees it. *)
StreamOf(c) == [i \in 1..Len(buffer[c]) |-> TermOf(buffer[c][i])]
TermNow(c) == IF grant[c] = None THEN 0 ELSE grant[c].epoch

(* The inductive invariant: a grant carries the newest epoch, and no chunk  *)
(* is ahead of it.                                                          *)
AuthorityInv ==
    /\ AuthorityTypeOK
    /\ GrantIsNewest
    /\ ChunksGranted
    /\ EpochsNeverRegress

(* None is neither a grant nor the provenance of a chunk. *)
LEMMA NoneApart ==
  /\ \A g \in Grant : g # None
  /\ \A p \in Provenance : p # None /\ p[1] \in 1..MaxEpoch
  BY AuthorityAssumption DEF Grant, Provenance

(* An empty Redis satisfies the invariant. *)
LEMMA InitInv == AuthorityInit => AuthorityInv
<1> SUFFICES ASSUME AuthorityInit PROVE AuthorityInv
  OBVIOUS
<1>1. AuthorityTypeOK
  BY AuthorityAssumption DEF AuthorityInit, AuthorityTypeOK
<1>2. GrantIsNewest
  BY DEF AuthorityInit, GrantIsNewest
<1>3. ChunksGranted /\ EpochsNeverRegress
  BY DEF AuthorityInit, ChunksGranted, EpochsNeverRegress
<1> QED
  BY <1>1, <1>2, <1>3 DEF AuthorityInv

(* A caller that holds the grant presents the newest epoch. *)
LEMMA HolderIsNewest ==
  ASSUME AuthorityInv, NEW c \in Channels, NEW e, Holds(c, e)
  PROVE  e = epoch[c] /\ e \in 1..MaxEpoch /\ TermNow(c) = e /\ e # 0
<1>1. grant[c] \in Grant
  BY DEF AuthorityInv, AuthorityTypeOK, Holds
<1> QED
  BY <1>1, AuthorityAssumption DEF AuthorityInv, GrantIsNewest, Holds, TermNow, Grant

(* What a publication does to the chunks. *)
LEMMA Appended ==
  ASSUME AuthorityTypeOK, NEW c \in Channels, NEW e, NEW g \in Generations, e \in 1..MaxEpoch,
         Publish(c, e, g)
  PROVE  /\ buffer' \in [Channels -> Seq(Provenance \cup {None})]
         /\ Len(buffer'[c]) = Len(buffer[c]) + 1
         /\ Len(buffer[c]) \in Nat
         /\ \A i \in 1..Len(buffer[c]) : buffer'[c][i] = buffer[c][i]
         /\ buffer'[c][Len(buffer[c]) + 1] = <<e, g>>
         /\ \A d \in Channels \ {c} : buffer'[d] = buffer[d]
<1>1. <<e, g>> \in Provenance
  BY DEF Provenance
<1>2. buffer[c] \in Seq(Provenance \cup {None})
  BY DEF AuthorityTypeOK
<1>3. /\ buffer'[c] = Append(buffer[c], <<e, g>>)
      /\ \A d \in Channels \ {c} : buffer'[d] = buffer[d]
  BY DEF AuthorityTypeOK, Publish
<1>4. Append(buffer[c], <<e, g>>) \in Seq(Provenance \cup {None})
  BY <1>1, <1>2
<1>5. buffer' \in [Channels -> Seq(Provenance \cup {None})]
  BY <1>3, <1>4 DEF AuthorityTypeOK, Publish
<1> QED
  BY <1>2, <1>3, <1>4, <1>5

(* A new grant is the newest epoch. *)
LEMMA AcquireInv ==
  ASSUME AuthorityInv, NEW c \in Channels, NEW w \in Leases, Acquire(c, w)
  PROVE  AuthorityInv'
<1>1. epoch[c] \in 0..MaxEpoch /\ epoch[c] < MaxEpoch
  BY DEF AuthorityInv, AuthorityTypeOK, Acquire
<1>2. [epoch |-> epoch[c] + 1, worker |-> w] \in Grant
  BY <1>1, AuthorityAssumption DEF Grant
<1>3. AuthorityTypeOK'
  BY <1>1, <1>2, AuthorityAssumption DEF AuthorityInv, AuthorityTypeOK, Acquire
<1>4. GrantIsNewest'
  BY <1>1, <1>2 DEF AuthorityInv, AuthorityTypeOK, GrantIsNewest, Acquire
<1>5. ChunksGranted'
  <2> SUFFICES ASSUME NEW d \in Channels, NEW i \in 1..Len(buffer[d]), buffer[d][i] # None
               PROVE  buffer[d][i][1] <= epoch'[d]
    BY DEF ChunksGranted, Acquire
  <2>1. buffer[d][i] \in Provenance
    BY DEF AuthorityInv, AuthorityTypeOK
  <2>2. buffer[d][i][1] \in 1..MaxEpoch /\ epoch[d] \in 0..MaxEpoch /\ epoch'[d] \in {epoch[d], epoch[d] + 1}
    BY <2>1, NoneApart DEF AuthorityInv, AuthorityTypeOK, Acquire
  <2>3. buffer[d][i][1] <= epoch[d]
    BY DEF AuthorityInv, ChunksGranted
  <2> QED
    BY <2>2, <2>3, AuthorityAssumption
<1>6. EpochsNeverRegress'
  BY DEF AuthorityInv, EpochsNeverRegress, Acquire
<1> QED
  BY <1>3, <1>4, <1>5, <1>6 DEF AuthorityInv

(* Only the newest epoch publishes, behind all others. *)
LEMMA PublishInv ==
  ASSUME AuthorityInv, NEW c \in Channels, NEW e, NEW g \in Generations, Publish(c, e, g)
  PROVE  AuthorityInv'
<1>1. e = epoch[c] /\ e \in 1..MaxEpoch
  BY HolderIsNewest DEF Publish, Current
<1>0. AuthorityTypeOK
  BY DEF AuthorityInv
<1>2. /\ buffer' \in [Channels -> Seq(Provenance \cup {None})]
      /\ Len(buffer'[c]) = Len(buffer[c]) + 1
      /\ Len(buffer[c]) \in Nat
      /\ \A i \in 1..Len(buffer[c]) : buffer'[c][i] = buffer[c][i]
      /\ buffer'[c][Len(buffer[c]) + 1] = <<e, g>>
      /\ \A d \in Channels \ {c} : buffer'[d] = buffer[d]
  BY <1>0, <1>1, Appended
<1>3. AuthorityTypeOK'
  BY <1>2 DEF AuthorityInv, AuthorityTypeOK, Publish
<1>4. GrantIsNewest'
  BY DEF AuthorityInv, GrantIsNewest, Publish
<1>5. ASSUME NEW d \in Channels, NEW i \in 1..Len(buffer'[d]), buffer'[d][i] # None
      PROVE  /\ buffer'[d][i][1] <= epoch[d]
             /\ (d = c /\ i = Len(buffer[c]) + 1 => buffer'[d][i][1] = epoch[d])
  <2>1. CASE d = c /\ i = Len(buffer[c]) + 1
    BY <1>1, <1>2, <2>1, AuthorityAssumption
  <2>2. CASE ~(d = c /\ i = Len(buffer[c]) + 1)
    <3>1. i \in 1..Len(buffer[d]) /\ buffer'[d][i] = buffer[d][i]
      BY <1>2, <2>2
    <3> QED
      BY <2>2, <3>1, <1>5 DEF AuthorityInv, ChunksGranted
  <2> QED
    BY <2>1, <2>2
<1>6. ChunksGranted'
  BY <1>5 DEF ChunksGranted, Publish
<1>7. EpochsNeverRegress'
  <2> SUFFICES ASSUME NEW d \in Channels, NEW i \in 1..Len(buffer'[d]), NEW j \in 1..Len(buffer'[d]),
                      i < j, buffer'[d][i] # None, buffer'[d][j] # None
               PROVE  buffer'[d][i][1] <= buffer'[d][j][1]
    BY DEF EpochsNeverRegress
  <2>1. CASE d = c /\ j = Len(buffer[c]) + 1
    BY <1>5, <2>1
  <2>2. CASE ~(d = c /\ j = Len(buffer[c]) + 1)
    <3>1. /\ i \in 1..Len(buffer[d]) /\ buffer'[d][i] = buffer[d][i]
          /\ j \in 1..Len(buffer[d]) /\ buffer'[d][j] = buffer[d][j]
      BY <1>2, <2>2
    <3> QED
      BY <3>1 DEF AuthorityInv, EpochsNeverRegress
  <2> QED
    BY <2>1, <2>2
<1> QED
  BY <1>3, <1>4, <1>6, <1>7 DEF AuthorityInv

(* ExpireChunk and DropMedia take chunks away and change nothing else. *)
LEMMA ChunksLostInv ==
  ASSUME AuthorityInv, UNCHANGED <<owner, grant, epoch, generation>>,
         buffer' \in [Channels -> Seq(Provenance \cup {None})],
         \A c \in Channels : \A i \in 1..Len(buffer'[c]) :
            i \in 1..Len(buffer[c]) /\ (buffer'[c][i] # None => buffer'[c][i] = buffer[c][i])
  PROVE  AuthorityInv'
<1>1. AuthorityTypeOK'
  BY DEF AuthorityInv, AuthorityTypeOK
<1>2. GrantIsNewest'
  BY DEF AuthorityInv, GrantIsNewest
<1>3. ChunksGranted'
  BY DEF AuthorityInv, ChunksGranted
<1>4. EpochsNeverRegress'
  <2> SUFFICES ASSUME NEW d \in Channels, NEW i \in 1..Len(buffer'[d]), NEW j \in 1..Len(buffer'[d]),
                      i < j, buffer'[d][i] # None, buffer'[d][j] # None
               PROVE  buffer'[d][i][1] <= buffer'[d][j][1]
    BY DEF EpochsNeverRegress
  <2>1. /\ i \in 1..Len(buffer[d]) /\ buffer'[d][i] = buffer[d][i]
        /\ j \in 1..Len(buffer[d]) /\ buffer'[d][j] = buffer[d][j]
    OBVIOUS
  <2> QED
    BY <2>1 DEF AuthorityInv, EpochsNeverRegress
<1> QED
  BY <1>1, <1>2, <1>3, <1>4 DEF AuthorityInv

(* The chunks that are left when one of them expires. *)
LEMMA OneLost ==
  ASSUME AuthorityTypeOK, NEW c \in Channels, NEW k, ExpireChunk(c, k)
  PROVE  /\ buffer' \in [Channels -> Seq(Provenance \cup {None})]
         /\ \A d \in Channels : Len(buffer'[d]) = Len(buffer[d])
         /\ k \in 1..Len(buffer[c])
         /\ Len(buffer[c]) \in Nat
         /\ buffer'[c][k] = None
         /\ \A i \in 1..Len(buffer[c]) : i # k => buffer'[c][i] = buffer[c][i]
         /\ \A d \in Channels \ {c} : buffer'[d] = buffer[d]
<1>1. buffer[c] \in Seq(Provenance \cup {None})
  BY DEF AuthorityTypeOK
<1>2. buffer'[c] = [buffer[c] EXCEPT ![k] = None] /\ k \in 1..Len(buffer[c])
  BY <1>1 DEF AuthorityTypeOK, ExpireChunk
<1>3. [buffer[c] EXCEPT ![k] = None] \in Seq(Provenance \cup {None})
  BY <1>1, <1>2
<1>4. Len([buffer[c] EXCEPT ![k] = None]) = Len(buffer[c])
  BY <1>1, <1>2
<1>5. \A d \in Channels \ {c} : buffer'[d] = buffer[d]
  BY DEF AuthorityTypeOK, ExpireChunk
<1>6. buffer' \in [Channels -> Seq(Provenance \cup {None})]
  BY <1>2, <1>3 DEF AuthorityTypeOK, ExpireChunk
<1>7. /\ buffer'[c][k] = None
      /\ \A i \in 1..Len(buffer[c]) : i # k => buffer'[c][i] = buffer[c][i]
  BY <1>1, <1>2
<1>8. Len(buffer[c]) \in Nat /\ Len(buffer'[c]) = Len(buffer[c])
  BY <1>1, <1>2, <1>4
<1>9. \A d \in Channels : Len(buffer'[d]) = Len(buffer[d])
  BY <1>5, <1>8
<1> QED
  BY <1>2, <1>5, <1>6, <1>7, <1>8, <1>9

(* Every step of the authority keeps the invariant. *)
LEMMA NextInv == AuthorityInv /\ [AuthorityNext]_avars => AuthorityInv'
<1> SUFFICES ASSUME AuthorityInv, [AuthorityNext]_avars PROVE AuthorityInv'
  OBVIOUS
<1>1. CASE UNCHANGED avars
  BY <1>1 DEF avars, AuthorityInv, AuthorityTypeOK, GrantIsNewest, ChunksGranted, EpochsNeverRegress
<1>2. CASE AuthorityNext
  <2> PICK c \in Channels :
        \/ \E w \in Leases : Acquire(c, w) \/ SetOwner(c, w)
        \/ \E e \in 1..MaxEpoch :
             \/ Release(c, e)
             \/ \E g \in Generations : Activate(c, e, g) \/ Publish(c, e, g)
        \/ ExpireGrant(c)
        \/ \E i \in 1..MaxChunks : ExpireChunk(c, i)
        \/ DropOwner(c)
        \/ DropMedia(c)
    BY <1>2 DEF AuthorityNext
  <2>1. ASSUME NEW w \in Leases, Acquire(c, w) PROVE AuthorityInv'
    BY <2>1, AcquireInv
  <2>2. ASSUME NEW w \in Leases, SetOwner(c, w) PROVE AuthorityInv'
    BY <2>2 DEF SetOwner, AuthorityInv, AuthorityTypeOK, GrantIsNewest, ChunksGranted, EpochsNeverRegress
  <2>3. ASSUME NEW e \in 1..MaxEpoch, Release(c, e) PROVE AuthorityInv'
    BY <2>3 DEF Release, AuthorityInv, AuthorityTypeOK, GrantIsNewest, ChunksGranted, EpochsNeverRegress
  <2>4. ASSUME NEW e \in 1..MaxEpoch, NEW g \in Generations, Activate(c, e, g) PROVE AuthorityInv'
    BY <2>4 DEF Activate, AuthorityInv, AuthorityTypeOK, GrantIsNewest, ChunksGranted, EpochsNeverRegress
  <2>5. ASSUME NEW e \in 1..MaxEpoch, NEW g \in Generations, Publish(c, e, g) PROVE AuthorityInv'
    BY <2>5, PublishInv
  <2>6. ASSUME ExpireGrant(c) PROVE AuthorityInv'
    BY <2>6 DEF ExpireGrant, AuthorityInv, AuthorityTypeOK, GrantIsNewest, ChunksGranted, EpochsNeverRegress
  <2>7. ASSUME NEW k \in 1..MaxChunks, ExpireChunk(c, k) PROVE AuthorityInv'
    <3>1. AuthorityTypeOK
      BY DEF AuthorityInv
    <3>2. \A d \in Channels : \A i \in 1..Len(buffer'[d]) :
            i \in 1..Len(buffer[d]) /\ (buffer'[d][i] # None => buffer'[d][i] = buffer[d][i])
      BY <2>7, <3>1, OneLost
    <3>3. buffer' \in [Channels -> Seq(Provenance \cup {None})]
      BY <2>7, <3>1, OneLost
    <3>4. UNCHANGED <<owner, grant, epoch, generation>>
      BY <2>7 DEF ExpireChunk
    <3> QED
      BY <3>2, <3>3, <3>4, ChunksLostInv
  <2>8. ASSUME DropOwner(c) PROVE AuthorityInv'
    BY <2>8 DEF DropOwner, AuthorityInv, AuthorityTypeOK, GrantIsNewest, ChunksGranted, EpochsNeverRegress
  <2>9. ASSUME DropMedia(c) PROVE AuthorityInv'
    <3>1. /\ buffer' \in [Channels -> Seq(Provenance \cup {None})]
          /\ \A d \in Channels : buffer'[d] = (IF d = c THEN <<>> ELSE buffer[d])
      BY <2>9 DEF DropMedia, AuthorityInv, AuthorityTypeOK
    <3>2. \A d \in Channels : \A i \in 1..Len(buffer'[d]) :
            i \in 1..Len(buffer[d]) /\ (buffer'[d][i] # None => buffer'[d][i] = buffer[d][i])
      BY <3>1
    <3>3. UNCHANGED <<owner, grant, epoch, generation>>
      BY <2>9 DEF DropMedia
    <3> QED
      BY <3>1, <3>2, <3>3, ChunksLostInv
  <2> QED
    BY <2>1, <2>2, <2>3, <2>4, <2>5, <2>6, <2>7, <2>8, <2>9
<1> QED
  BY <1>1, <1>2

(***************************************************************************)
(* The refinement.                                                         *)
(***************************************************************************)
Terms == [c \in Channels |-> TermNow(c)]
Streams == [c \in Channels |-> StreamOf(c)]

(* A step of channel c of the abstract stream, in these terms. *)
LEMMA AbstractSteps ==
  ASSUME NEW c \in Channels
  PROVE  /\ (/\ TermNow(c) = 0
             /\ epoch' = [epoch EXCEPT ![c] = @ + 1]
             /\ Terms' = [Terms EXCEPT ![c] = epoch[c] + 1]
             /\ UNCHANGED Streams) => Fenced!Next
         /\ (Terms' = [Terms EXCEPT ![c] = 0] /\ UNCHANGED <<epoch, Streams>>) => Fenced!Next
         /\ (/\ TermNow(c) # 0
             /\ Streams' = [Streams EXCEPT ![c] = Append(@, TermNow(c))]
             /\ UNCHANGED <<Terms, epoch>>) => Fenced!Next
         /\ (Streams' = [Streams EXCEPT ![c] = <<>>] /\ UNCHANGED <<Terms, epoch>>) => Fenced!Next
         /\ (/\ \E i \in DOMAIN StreamOf(c) :
                  Streams' = [Streams EXCEPT ![c] = [@ EXCEPT ![i] = None]]
             /\ UNCHANGED <<Terms, epoch>>) => Fenced!Next
<1>1. Terms[c] = TermNow(c) /\ Streams[c] = StreamOf(c)
  BY DEF Terms, Streams
<1> QED
  BY <1>1 DEF Terms, Streams, TermNow, StreamOf, Fenced!Next, Fenced!Open, Fenced!Close,
              Fenced!Write, Fenced!Lose, Fenced!Lost

(* Nothing happens to the abstract stream. *)
LEMMA AbstractStutter ==
  (UNCHANGED <<Terms, epoch, Streams>>) => UNCHANGED Fenced!svars
  BY DEF Terms, Streams, TermNow, StreamOf, Fenced!svars

(* Grant and media of a channel are all the abstract stream depends on. *)
LEMMA Views ==
  /\ (grant' = grant => Terms' = Terms)
  /\ (buffer' = buffer => Streams' = Streams)
  BY DEF Terms, Streams, TermNow, StreamOf, TermOf

(* An empty Redis is an empty stream without an open term. *)
LEMMA InitRefines == AuthorityInit => Fenced!Init
  BY DEF AuthorityInit, Fenced!Init, TermOf

(* _ACQUIRE opens the next term. *)
LEMMA AcquireRefines ==
  ASSUME AuthorityInv, NEW c \in Channels, NEW w \in Leases, Acquire(c, w)
  PROVE  Fenced!Next
<1>1. epoch[c] \in 0..MaxEpoch /\ epoch[c] < MaxEpoch
  BY DEF AuthorityInv, AuthorityTypeOK, Acquire
<1>2. [epoch |-> epoch[c] + 1, worker |-> w] \in Grant
  BY <1>1, AuthorityAssumption DEF Grant
<1>3. /\ grant'[c] = [epoch |-> epoch[c] + 1, worker |-> w]
      /\ \A d \in Channels \ {c} : grant'[d] = grant[d]
  BY DEF AuthorityInv, AuthorityTypeOK, Acquire
<1>4. TermNow(c)' = epoch[c] + 1 /\ \A d \in Channels \ {c} : TermNow(d)' = TermNow(d)
  BY <1>2, <1>3, NoneApart DEF TermNow
<1>5. Terms' = [Terms EXCEPT ![c] = epoch[c] + 1]
  BY <1>4 DEF Terms
<1>6. TermNow(c) = 0 /\ UNCHANGED Streams /\ epoch' = [epoch EXCEPT ![c] = @ + 1]
  BY Views DEF Acquire, TermNow
<1> QED
  BY <1>5, <1>6, AbstractSteps

(* _RELEASE and the end of the TTL close the term. *)
LEMMA GrantGoneRefines ==
  ASSUME AuthorityInv, NEW c \in Channels, grant' = [grant EXCEPT ![c] = None],
         UNCHANGED <<epoch, buffer>>
  PROVE  Fenced!Next
<1>1. TermNow(c)' = 0 /\ \A d \in Channels \ {c} : TermNow(d)' = TermNow(d)
  BY DEF AuthorityInv, AuthorityTypeOK, TermNow
<1>2. Terms' = [Terms EXCEPT ![c] = 0]
  BY <1>1 DEF Terms
<1> QED
  BY <1>2, Views, AbstractSteps

(* _PUBLISH_CHUNK appends a chunk of the open term. *)
LEMMA PublishRefines ==
  ASSUME AuthorityInv, NEW c \in Channels, NEW e, NEW g \in Generations, Publish(c, e, g)
  PROVE  Fenced!Next
<1>1. e \in 1..MaxEpoch /\ TermNow(c) = e /\ e # 0
  BY HolderIsNewest DEF Publish, Current
<1>2. AuthorityTypeOK
  BY DEF AuthorityInv
<1>3. /\ Len(buffer'[c]) = Len(buffer[c]) + 1
      /\ Len(buffer[c]) \in Nat
      /\ \A i \in 1..Len(buffer[c]) : buffer'[c][i] = buffer[c][i]
      /\ buffer'[c][Len(buffer[c]) + 1] = <<e, g>>
      /\ \A d \in Channels \ {c} : buffer'[d] = buffer[d]
  BY <1>1, <1>2, Appended
<1>4. TermOf(<<e, g>>) = e
  <2>1. <<e, g>> \in Provenance
    BY <1>1 DEF Provenance
  <2> QED
    BY <2>1, NoneApart DEF TermOf
<1>5. StreamOf(c)' = Append(StreamOf(c), e)
  <2> DEFINE n == Len(buffer[c])
  <2>1. StreamOf(c)' = [i \in 1..(n + 1) |-> IF i = n + 1 THEN e ELSE TermOf(buffer[c][i])]
    BY <1>3, <1>4 DEF StreamOf
  <2>2. n \in Nat /\ StreamOf(c) = [i \in 1..n |-> TermOf(buffer[c][i])]
    BY <1>3 DEF StreamOf
  <2> HIDE DEF n
  <2>3. Len(StreamOf(c)) = n
    BY <2>2
  <2>4. Append(StreamOf(c), e) = [i \in 1..(n + 1) |-> IF i = n + 1 THEN e ELSE TermOf(buffer[c][i])]
    BY <2>2, <2>3
  <2> QED
    BY <2>1, <2>4
<1>6. \A d \in Channels \ {c} : StreamOf(d)' = StreamOf(d)
  BY <1>3 DEF StreamOf
<1>7. Streams' = [Streams EXCEPT ![c] = Append(@, TermNow(c))]
  BY <1>1, <1>5, <1>6 DEF Streams
<1>8. UNCHANGED <<Terms, epoch>>
  BY Views DEF Publish
<1> QED
  BY <1>1, <1>7, <1>8, AbstractSteps

(* A chunk expires: the stream loses it. *)
LEMMA ExpireChunkRefines ==
  ASSUME AuthorityInv, NEW c \in Channels, NEW k, ExpireChunk(c, k)
  PROVE  Fenced!Next
<1>1. AuthorityTypeOK
  BY DEF AuthorityInv
<1>2. /\ \A d \in Channels : Len(buffer'[d]) = Len(buffer[d])
      /\ k \in 1..Len(buffer[c])
      /\ buffer'[c][k] = None
      /\ \A i \in 1..Len(buffer[c]) : i # k => buffer'[c][i] = buffer[c][i]
      /\ \A d \in Channels \ {c} : buffer'[d] = buffer[d]
  BY <1>1, OneLost
<1>3. StreamOf(c)' = [StreamOf(c) EXCEPT ![k] = None]
  BY <1>2 DEF StreamOf, TermOf
<1>4. \A d \in Channels \ {c} : StreamOf(d)' = StreamOf(d)
  BY <1>2 DEF StreamOf
<1>5. Streams' = [Streams EXCEPT ![c] = [@ EXCEPT ![k] = None]]
  BY <1>3, <1>4 DEF Streams
<1>6. k \in DOMAIN StreamOf(c)
  BY <1>2 DEF StreamOf
<1>7. UNCHANGED <<Terms, epoch>>
  BY Views DEF ExpireChunk
<1> QED
  BY <1>5, <1>6, <1>7, AbstractSteps

(* Channel cleanup: the stream loses everything. *)
LEMMA DropMediaRefines ==
  ASSUME AuthorityInv, NEW c \in Channels, DropMedia(c)
  PROVE  Fenced!Next
<1>1. buffer'[c] = <<>> /\ \A d \in Channels \ {c} : buffer'[d] = buffer[d]
  BY DEF DropMedia, AuthorityInv, AuthorityTypeOK
<1>2. StreamOf(c)' = <<>> /\ \A d \in Channels \ {c} : StreamOf(d)' = StreamOf(d)
  BY <1>1 DEF StreamOf
<1>3. Streams' = [Streams EXCEPT ![c] = <<>>]
  BY <1>2 DEF Streams
<1>4. UNCHANGED <<Terms, epoch>>
  BY Views DEF DropMedia
<1> QED
  BY <1>3, <1>4, AbstractSteps

(* Every step of the scripts is a step of the abstract stream or none. *)
LEMMA NextRefines ==
  AuthorityInv /\ [AuthorityNext]_avars => [Fenced!Next]_(Fenced!svars)
<1> SUFFICES ASSUME AuthorityInv, [AuthorityNext]_avars
             PROVE  Fenced!Next \/ UNCHANGED Fenced!svars
  OBVIOUS
<1>0. UNCHANGED <<grant, epoch, buffer>> => UNCHANGED Fenced!svars
  BY Views, AbstractStutter
<1>1. CASE UNCHANGED avars
  BY <1>0, <1>1 DEF avars
<1>2. CASE AuthorityNext
  <2> PICK c \in Channels :
        \/ \E w \in Leases : Acquire(c, w) \/ SetOwner(c, w)
        \/ \E e \in 1..MaxEpoch :
             \/ Release(c, e)
             \/ \E g \in Generations : Activate(c, e, g) \/ Publish(c, e, g)
        \/ ExpireGrant(c)
        \/ \E i \in 1..MaxChunks : ExpireChunk(c, i)
        \/ DropOwner(c)
        \/ DropMedia(c)
    BY <1>2 DEF AuthorityNext
  <2>1. ASSUME NEW w \in Leases, Acquire(c, w) PROVE Fenced!Next
    BY <2>1, AcquireRefines
  <2>2. ASSUME NEW e \in 1..MaxEpoch, Release(c, e) PROVE Fenced!Next
    BY <2>2, GrantGoneRefines DEF Release
  <2>3. ASSUME ExpireGrant(c) PROVE Fenced!Next
    BY <2>3, GrantGoneRefines DEF ExpireGrant
  <2>4. ASSUME NEW e \in 1..MaxEpoch, NEW g \in Generations, Publish(c, e, g) PROVE Fenced!Next
    BY <2>4, PublishRefines
  <2>5. ASSUME NEW k \in 1..MaxChunks, ExpireChunk(c, k) PROVE Fenced!Next
    BY <2>5, ExpireChunkRefines
  <2>6. ASSUME DropMedia(c) PROVE Fenced!Next
    BY <2>6, DropMediaRefines
  <2>7. ASSUME \/ \E w \in Leases : SetOwner(c, w)
               \/ \E e \in 1..MaxEpoch : \E g \in Generations : Activate(c, e, g)
               \/ DropOwner(c)
        PROVE  UNCHANGED Fenced!svars
    BY <2>7, <1>0 DEF SetOwner, Activate, DropOwner
  <2> QED
    BY <2>1, <2>2, <2>3, <2>4, <2>5, <2>6, <2>7
<1> QED
  BY <1>1, <1>2

(* The invariant of the authority: a grant is the newest epoch and chunks   *)
(* are never ahead of it or out of order.                                   *)
THEOREM AuthorityInvariant == AuthoritySpec => []AuthorityInv
  BY InitInv, NextInv, PTL DEF AuthoritySpec

(* Chunks of a superseded epoch never follow chunks of a newer one, for any *)
(* number of workers with tokens of any age (_PUBLISH_CHUNK).               *)
THEOREM NoRegress == AuthoritySpec => []EpochsNeverRegress
<1>1. AuthorityInv => EpochsNeverRegress
  BY DEF AuthorityInv
<1> QED
  BY <1>1, AuthorityInvariant, PTL

(* The Redis scripts implement a stream that one term at a time may write.  *)
THEOREM AuthorityRefines == AuthoritySpec => ImplementsFencedStream
<1>1. AuthoritySpec => Fenced!Init /\ [][Fenced!Next]_(Fenced!svars)
  BY InitRefines, NextRefines, AuthorityInvariant, PTL DEF AuthoritySpec
<1> QED
  BY <1>1 DEF ImplementsFencedStream, Fenced!Spec

(***************************************************************************)
(* 2. The reservation ledger counts exactly and keeps upstreams fenced.    *)
(***************************************************************************)

(***************************************************************************)
(* Counters.                                                               *)
(***************************************************************************)
LedgerShape ==
    /\ rec \in [Tokens -> Record \cup {None}]
    /\ own \in [Owner -> Tokens \cup {None}]
    /\ cnt \in [CounterKeys -> Nat]
    /\ alias \in [Channels -> Alias \cup {None}]

(* A token that has not been drawn has no record. *)
TokensFresh == \A t \in Tokens : t \notin issued => rec[t] = None

(* The four things a script does to records and counters. *)
Adds(t, r) ==
    /\ rec[t] = None /\ r \in Record
    /\ HasRoom(KeysOf[r.dest])
    /\ rec' = [rec EXCEPT ![t] = r]
    /\ cnt' = Plus(KeysOf[r.dest])
Drops(t) ==
    /\ rec[t] # None
    /\ rec' = [rec EXCEPT ![t] = None]
    /\ cnt' = Minus(KeysOf[rec[t].dest])
Moves(t, r) ==
    /\ rec[t] # None /\ r \in Record
    /\ HasRoom(KeysOf[r.dest] \ KeysOf[rec[t].dest])
    /\ rec' = [rec EXCEPT ![t] = r]
    /\ cnt' = Moved(rec[t].dest, r.dest)
Keeps(t, r) ==
    /\ rec[t] # None /\ r \in Record /\ r.dest = rec[t].dest
    /\ rec' = [rec EXCEPT ![t] = r]
    /\ cnt' = cnt

(* The reservations that name a counter key are finitely many. *)
LEMMA CountingFinite ==
  ASSUME NEW k
  PROVE  IsFiniteSet(Counting(k)) /\ Cardinality(Counting(k)) \in Nat
<1>1. Counting(k) \subseteq Tokens
  BY DEF Counting
<1>2. IsFiniteSet(Counting(k))
  BY <1>1, LedgerAssumption, FS_Subset
<1> QED
  BY <1>2, FS_CardinalityType

(* A record that changes is counted where its destination says. *)
LEMMA CountingChanges ==
  ASSUME LedgerShape, NEW t \in Tokens, NEW r \in Record \cup {None}, NEW k,
         rec' = [rec EXCEPT ![t] = r]
  PROVE  Counting(k)' = IF r # None /\ k \in KeysOf[r.dest]
                        THEN Counting(k) \cup {t} ELSE Counting(k) \ {t}
  BY DEF LedgerShape, Counting

(* One more reservation names the key. *)
LEMMA CountedMore ==
  ASSUME NEW k, NEW t \in Tokens, t \notin Counting(k), Counting(k)' = Counting(k) \cup {t}
  PROVE  Cardinality(Counting(k)') = Cardinality(Counting(k)) + 1
  BY CountingFinite, FS_AddElement

(* One reservation fewer names the key. *)
LEMMA CountedLess ==
  ASSUME NEW k, NEW t \in Tokens, t \in Counting(k), Counting(k)' = Counting(k) \ {t}
  PROVE  Cardinality(Counting(k)') = Cardinality(Counting(k)) - 1
  BY CountingFinite, FS_RemoveElement

(* A reservation is added where there is room. *)
LEMMA AddsExact ==
  ASSUME LedgerShape, CountersExact, NEW t \in Tokens, NEW r, Adds(t, r)
  PROVE  CountersExact' /\ cnt' \in [CounterKeys -> Nat]
<1> SUFFICES ASSUME NEW k \in CounterKeys
             PROVE  /\ cnt'[k] = Cardinality(Counting(k)') /\ cnt'[k] <= Capacity[k]
                    /\ cnt'[k] \in Nat
  BY DEF CountersExact, Adds, Plus
<1>1. cnt[k] \in Nat /\ cnt[k] = Cardinality(Counting(k)) /\ cnt[k] <= Capacity[k] /\ Capacity[k] \in Nat
  BY LedgerAssumption DEF LedgerShape, CountersExact
<1>2. t \notin Counting(k) /\ r # None /\ r.dest \in Dests
  BY RecordsAreSome DEF Adds, Counting, Record
<1>3. CASE k \in KeysOf[r.dest]
  <2>1. Counting(k)' = Counting(k) \cup {t}
    BY <1>2, <1>3, CountingChanges DEF Adds
  <2>2. cnt'[k] = cnt[k] + 1 /\ cnt[k] < Capacity[k]
    BY <1>3 DEF Adds, Plus, HasRoom
  <2>3. Cardinality(Counting(k)') = cnt[k] + 1
    BY <1>1, <1>2, <2>1, CountedMore
  <2> QED
    BY <1>1, <2>2, <2>3
<1>4. CASE k \notin KeysOf[r.dest]
  <2>1. Counting(k)' = Counting(k) \ {t}
    BY <1>2, <1>4, CountingChanges DEF Adds
  <2>2. Counting(k)' = Counting(k)
    BY <1>2, <2>1
  <2>3. cnt'[k] = cnt[k]
    BY <1>4 DEF Adds, Plus
  <2> QED
    BY <1>1, <2>2, <2>3
<1> QED
  BY <1>3, <1>4

(* A reservation is given back once. *)
LEMMA DropsExact ==
  ASSUME LedgerShape, CountersExact, NEW t \in Tokens, Drops(t)
  PROVE  CountersExact' /\ cnt' \in [CounterKeys -> Nat]
<1> SUFFICES ASSUME NEW k \in CounterKeys
             PROVE  /\ cnt'[k] = Cardinality(Counting(k)') /\ cnt'[k] <= Capacity[k]
                    /\ cnt'[k] \in Nat
  BY DEF CountersExact, Drops, Minus
<1>1. cnt[k] \in Nat /\ cnt[k] = Cardinality(Counting(k)) /\ cnt[k] <= Capacity[k] /\ Capacity[k] \in Nat
  BY LedgerAssumption DEF LedgerShape, CountersExact
<1>2. Counting(k)' = Counting(k) \ {t}
  BY CountingChanges DEF Drops
<1>3. CASE k \in KeysOf[rec[t].dest]
  <2>1. t \in Counting(k)
    BY <1>3 DEF Drops, Counting
  <2>2. cnt'[k] = cnt[k] - 1
    BY <1>3 DEF Drops, Minus
  <2>3. Cardinality(Counting(k)') = cnt[k] - 1
    BY <1>1, <1>2, <2>1, CountedLess
  <2>4. Cardinality(Counting(k)') \in Nat
    <3>1. IsFiniteSet(Counting(k)')
      BY <1>2, CountingFinite, FS_Subset
    <3> QED
      BY <3>1, FS_CardinalityType
  <2> QED
    BY <1>1, <2>2, <2>3, <2>4
<1>4. CASE k \notin KeysOf[rec[t].dest]
  <2>1. Counting(k)' = Counting(k)
    BY <1>2, <1>4 DEF Counting
  <2>2. cnt'[k] = cnt[k]
    BY <1>4 DEF Drops, Minus
  <2> QED
    BY <1>1, <2>1, <2>2
<1> QED
  BY <1>3, <1>4

(* A reservation changes its destination: a shared key is left alone. *)
LEMMA MovesExact ==
  ASSUME LedgerShape, CountersExact, NEW t \in Tokens, NEW r, Moves(t, r)
  PROVE  CountersExact' /\ cnt' \in [CounterKeys -> Nat]
<1> SUFFICES ASSUME NEW k \in CounterKeys
             PROVE  /\ cnt'[k] = Cardinality(Counting(k)') /\ cnt'[k] <= Capacity[k]
                    /\ cnt'[k] \in Nat
  BY DEF CountersExact, Moves, Moved
<1>1. cnt[k] \in Nat /\ cnt[k] = Cardinality(Counting(k)) /\ cnt[k] <= Capacity[k] /\ Capacity[k] \in Nat
  BY LedgerAssumption DEF LedgerShape, CountersExact
<1>2. r # None
  BY RecordsAreSome DEF Moves
<1>3. Counting(k)' = IF k \in KeysOf[r.dest] THEN Counting(k) \cup {t} ELSE Counting(k) \ {t}
  BY <1>2, CountingChanges DEF Moves
<1>4. t \in Counting(k) <=> k \in KeysOf[rec[t].dest]
  BY DEF Moves, Counting
<1>5. CASE k \in KeysOf[r.dest] \ KeysOf[rec[t].dest]
  <2>1. cnt'[k] = cnt[k] + 1 /\ cnt[k] < Capacity[k]
    BY <1>5 DEF Moves, Moved, HasRoom
  <2>2. Counting(k)' = Counting(k) \cup {t} /\ t \notin Counting(k)
    BY <1>3, <1>4, <1>5
  <2>3. Cardinality(Counting(k)') = cnt[k] + 1
    BY <1>1, <2>2, CountedMore
  <2> QED
    BY <1>1, <2>1, <2>3
<1>6. CASE k \in KeysOf[rec[t].dest] \ KeysOf[r.dest]
  <2>1. cnt'[k] = cnt[k] - 1
    BY <1>6 DEF Moves, Moved
  <2>2. Cardinality(Counting(k)') = cnt[k] - 1
    BY <1>1, <1>3, <1>4, <1>6, CountedLess
  <2>3. Cardinality(Counting(k)') \in Nat
    <3>1. IsFiniteSet(Counting(k)')
      BY <1>3, <1>6, CountingFinite, FS_Subset
    <3> QED
      BY <3>1, FS_CardinalityType
  <2> QED
    BY <1>1, <2>1, <2>2, <2>3
<1>7. CASE k \in KeysOf[r.dest] <=> k \in KeysOf[rec[t].dest]
  <2>1. cnt'[k] = cnt[k]
    BY <1>7 DEF Moves, Moved
  <2>2. Counting(k)' = Counting(k)
    BY <1>3, <1>4, <1>7
  <2> QED
    BY <1>1, <2>1, <2>2
<1> QED
  BY <1>5, <1>6, <1>7

(* A reservation keeps its destination. *)
LEMMA KeepsExact ==
  ASSUME LedgerShape, CountersExact, NEW t \in Tokens, NEW r, Keeps(t, r)
  PROVE  CountersExact' /\ cnt' \in [CounterKeys -> Nat]
<1>1. r # None
  BY RecordsAreSome DEF Keeps
<1>2. \A k \in CounterKeys : Counting(k)' = Counting(k)
  <2> SUFFICES ASSUME NEW k \in CounterKeys PROVE Counting(k)' = Counting(k)
    OBVIOUS
  <2>1. Counting(k)' = IF k \in KeysOf[r.dest] THEN Counting(k) \cup {t} ELSE Counting(k) \ {t}
    BY <1>1, CountingChanges DEF Keeps
  <2>2. t \in Counting(k) <=> k \in KeysOf[r.dest]
    BY DEF Keeps, Counting
  <2> QED
    BY <2>1, <2>2
<1> QED
  BY <1>2 DEF CountersExact, Keeps, LedgerShape

(***************************************************************************)
(* Links.                                                                  *)
(***************************************************************************)
(* ReservationsLinked, in two parts. *)
OwnersLinked ==
    /\ \A t \in Tokens : rec[t] # None => own[rec[t].owner] = t
    /\ \A o \in Owner : own[o] # None => rec[own[o]] # None /\ rec[own[o]].owner = o
NamedBy(c, a) ==
    /\ rec[a.token] # None /\ rec[a.token].alias = c /\ rec[a.token].dest = a.dest
    /\ rec[a.token].owner = LiveOwner(c, a.lease)
AliasesLinked == \A c \in Channels : alias[c] # None => NamedBy(c, alias[c])

(* The inductive invariant of the reservations. *)
LedgerInv ==
    /\ LedgerShape
    /\ issued \subseteq Tokens /\ TokensFresh
    /\ CountersExact
    /\ OwnersLinked /\ AliasesLinked

(* The two parts are the checked property. *)
LEMMA LinkedParts == OwnersLinked /\ AliasesLinked => ReservationsLinked
  BY DEF OwnersLinked, AliasesLinked, NamedBy, ReservationsLinked

(* A reserve links a new record and a free owner. *)
LEMMA AllocateInv ==
  ASSUME LedgerInv, NEW t \in Tokens, NEW o \in Owner, NEW d \in Dests,
         NEW a \in Channels \cup {None}, Allocate(t, o, d, a)
  PROVE  /\ rec' \in [Tokens -> Record \cup {None}]
         /\ own' \in [Owner -> Tokens \cup {None}]
         /\ cnt' \in [CounterKeys -> Nat]
         /\ issued' \subseteq Tokens /\ TokensFresh' /\ CountersExact' /\ OwnersLinked'
         /\ rec[t] = None /\ rec'[t] = NewRecord(o, d, a)
         /\ \A u \in Tokens \ {t} : rec'[u] = rec[u]
<1> DEFINE r == NewRecord(o, d, a)
<1>1. r \in Record /\ r.dest = d /\ r.owner = o /\ r # None
  BY RecordsAreSome DEF NewRecord, Record, Proof
<1>2. rec[t] = None /\ LedgerShape /\ CountersExact
  BY DEF LedgerInv, TokensFresh, Allocate
<1>3. Adds(t, r)
  BY <1>1, <1>2 DEF Adds, Allocate
<1>4. CountersExact' /\ cnt' \in [CounterKeys -> Nat]
  BY <1>2, <1>3, AddsExact
<1>5. rec' \in [Tokens -> Record \cup {None}] /\ own' \in [Owner -> Tokens \cup {None}]
  BY <1>1, <1>2 DEF LedgerShape, Allocate
<1>6. rec'[t] = r /\ \A u \in Tokens \ {t} : rec'[u] = rec[u]
  BY <1>1, <1>2 DEF LedgerShape, Allocate
<1>7. own'[o] = t /\ own[o] = None /\ \A q \in Owner \ {o} : own'[q] = own[q]
  BY <1>2 DEF LedgerShape, Allocate
<1>8. issued' \subseteq Tokens /\ TokensFresh'
  BY <1>6 DEF LedgerInv, TokensFresh, Allocate
<1> HIDE DEF r
<1>9. OwnersLinked'
  <2>1. \A u \in Tokens : rec[u] # None => rec[u].owner \in Owner /\ own[rec[u].owner] = u
    BY <1>2 DEF LedgerShape, LedgerInv, OwnersLinked, Record
  <2>2. \A u \in Tokens : rec'[u] # None => own'[rec'[u].owner] = u
    BY <2>1, <1>1, <1>2, <1>6, <1>7, LedgerAssumption
  <2>3. \A q \in Owner : own[q] # None => own[q] \in Tokens /\ rec[own[q]] # None /\ rec[own[q]].owner = q
    BY <1>2 DEF LedgerShape, LedgerInv, OwnersLinked
  <2>4. \A q \in Owner : own'[q] # None => rec'[own'[q]] # None /\ rec'[own'[q]].owner = q
    BY <2>3, <1>1, <1>2, <1>6, <1>7
  <2> QED
    BY <2>2, <2>4 DEF OwnersLinked
<1> QED
  BY <1>2, <1>4, <1>5, <1>6, <1>8, <1>9 DEF r

(* A release unlinks a record and its owner. *)
LEMMA DropInv ==
  ASSUME LedgerInv, NEW t \in Tokens, NEW o \in Owner, NEW d \in Dests,
         Owns(o, t), rec[t].dest = d, Drop(t, o, d), issued' = issued
  PROVE  /\ rec' \in [Tokens -> Record \cup {None}]
         /\ own' \in [Owner -> Tokens \cup {None}]
         /\ cnt' \in [CounterKeys -> Nat]
         /\ issued' \subseteq Tokens /\ TokensFresh' /\ CountersExact' /\ OwnersLinked'
         /\ rec'[t] = None
         /\ \A u \in Tokens \ {t} : rec'[u] = rec[u]
<1>1. LedgerShape /\ CountersExact
  BY DEF LedgerInv
<1>2. Drops(t)
  BY DEF Owns, Drop, Drops
<1>3. CountersExact' /\ cnt' \in [CounterKeys -> Nat]
  BY <1>1, <1>2, DropsExact
<1>4. rec' \in [Tokens -> Record \cup {None}] /\ own' \in [Owner -> Tokens \cup {None}]
  BY <1>1 DEF LedgerShape, Drop
<1>5. rec'[t] = None /\ \A u \in Tokens \ {t} : rec'[u] = rec[u]
  BY <1>1 DEF LedgerShape, Drop
<1>6. own'[o] = None /\ own[o] = t /\ rec[t].owner = o /\ \A q \in Owner \ {o} : own'[q] = own[q]
  BY <1>1 DEF LedgerShape, Drop, Owns
<1>7. issued' \subseteq Tokens /\ TokensFresh'
  BY <1>5 DEF LedgerInv, TokensFresh
<1>8. OwnersLinked'
  <2>1. \A u \in Tokens : rec[u] # None => rec[u].owner \in Owner /\ own[rec[u].owner] = u
    BY <1>1 DEF LedgerShape, LedgerInv, OwnersLinked, Record
  <2>2. \A u \in Tokens : rec'[u] # None => own'[rec'[u].owner] = u
    BY <2>1, <1>5, <1>6
  <2>3. \A q \in Owner : own[q] # None => own[q] \in Tokens /\ rec[own[q]] # None /\ rec[own[q]].owner = q
    BY <1>1 DEF LedgerShape, LedgerInv, OwnersLinked
  <2>4. \A q \in Owner : own'[q] # None => rec'[own'[q]] # None /\ rec'[own'[q]].owner = q
    BY <2>3, <1>5, <1>6
  <2> QED
    BY <2>2, <2>4 DEF OwnersLinked
<1> QED
  BY <1>3, <1>4, <1>5, <1>7, <1>8

(* A step that changes a record in place keeps its owner and its alias. *)
LEMMA AlterInv ==
  ASSUME LedgerInv, NEW t \in Tokens, NEW r, Moves(t, r) \/ Keeps(t, r),
         r.owner = rec[t].owner, UNCHANGED <<own, issued>>
  PROVE  /\ rec' \in [Tokens -> Record \cup {None}]
         /\ cnt' \in [CounterKeys -> Nat]
         /\ issued' \subseteq Tokens /\ TokensFresh' /\ CountersExact' /\ OwnersLinked'
         /\ rec[t] # None /\ rec'[t] = r /\ r # None
         /\ \A u \in Tokens \ {t} : rec'[u] = rec[u]
<1>1. LedgerShape /\ CountersExact
  BY DEF LedgerInv
<1>2. CountersExact' /\ cnt' \in [CounterKeys -> Nat]
  BY <1>1, MovesExact, KeepsExact
<1>3. r \in Record /\ r # None /\ rec[t] # None /\ rec' = [rec EXCEPT ![t] = r]
  BY RecordsAreSome DEF Moves, Keeps
<1>4. /\ rec' \in [Tokens -> Record \cup {None}]
      /\ rec'[t] = r /\ \A u \in Tokens \ {t} : rec'[u] = rec[u]
  BY <1>1, <1>3 DEF LedgerShape
<1>5. issued' \subseteq Tokens /\ TokensFresh'
  BY <1>3, <1>4 DEF LedgerInv, TokensFresh
<1>6. OwnersLinked'
  <2>1. \A u \in Tokens : rec'[u] # None => rec[u] # None /\ rec'[u].owner = rec[u].owner
    BY <1>3, <1>4
  <2>2. \A u \in Tokens : rec[u] # None => rec'[u] # None /\ rec'[u].owner = rec[u].owner
    BY <1>3, <1>4
  <2>3. \A q \in Owner : own[q] \in Tokens \cup {None}
    BY <1>1 DEF LedgerShape
  <2> QED
    BY <2>1, <2>2, <2>3 DEF LedgerInv, OwnersLinked
<1> QED
  BY <1>2, <1>3, <1>4, <1>5, <1>6

(* An alias names a record whose fields it shares: the others are not       *)
(* affected by what happens to record t.                                    *)
LEMMA AliasApart ==
  ASSUME LedgerInv, NEW t \in Tokens, NEW c \in Channels, alias[c] # None,
         \A u \in Tokens \ {t} : rec'[u] = rec[u], alias'[c] = alias[c],
         alias[c].token # t
  PROVE  NamedBy(c, alias[c])'
<1>1. alias[c].token \in Tokens
  BY DEF LedgerInv, LedgerShape, Alias
<1> QED
  BY <1>1 DEF LedgerInv, AliasesLinked, NamedBy

(* Steps that leave the reservations alone. *)
LEMMA QuietInv ==
  ASSUME LedgerInv, UNCHANGED <<rec, own, cnt, alias, issued>>
  PROVE  LedgerInv'
<1>1. \A k \in CounterKeys : Counting(k)' = Counting(k)
  BY DEF Counting
<1>2. CountersExact'
  BY <1>1 DEF LedgerInv, CountersExact
<1>3. OwnersLinked'
  BY DEF LedgerInv, OwnersLinked
<1>4. AliasesLinked'
  BY DEF LedgerInv, AliasesLinked, NamedBy
<1> QED
  BY <1>2, <1>3, <1>4 DEF LedgerInv, LedgerShape, TokensFresh

(* Reserve *)
LEMMA ReserveInv ==
  ASSUME LedgerInv, NEW t \in Tokens, NEW o \in Owner, NEW d \in Dests, Reserve(t, o, d)
  PROVE  LedgerInv'
<1>1. Allocate(t, o, d, None) /\ alias' = alias
  BY DEF Reserve
<1>2. /\ rec' \in [Tokens -> Record \cup {None}] /\ own' \in [Owner -> Tokens \cup {None}]
      /\ cnt' \in [CounterKeys -> Nat] /\ issued' \subseteq Tokens
      /\ TokensFresh' /\ CountersExact' /\ OwnersLinked'
      /\ rec[t] = None /\ \A u \in Tokens \ {t} : rec'[u] = rec[u]
  BY <1>1, AllocateInv
<1>3. AliasesLinked'
  <2> SUFFICES ASSUME NEW c \in Channels, alias'[c] # None PROVE NamedBy(c, alias[c])'
    BY DEF AliasesLinked
  <2>1. alias[c] # None /\ alias'[c] = alias[c] /\ alias[c].token # t
    BY <1>1, <1>2 DEF LedgerInv, AliasesLinked, NamedBy
  <2> QED
    BY <2>1, <1>2, AliasApart
<1> QED
  BY <1>1, <1>2, <1>3 DEF LedgerInv, LedgerShape

(* _RESERVE_LIVE_CHANNEL *)
LEMMA ReserveLiveInv ==
  ASSUME LedgerInv, NEW t \in Tokens, NEW c \in Channels, NEW w \in Leases, NEW d \in Dests,
         ReserveLive(t, c, w, d)
  PROVE  LedgerInv'
<1> DEFINE o == LiveOwner(c, w)
           a == [token |-> t, lease |-> w, dest |-> d, stopped |-> None]
<1>1. /\ Allocate(t, o, d, c) /\ alias[c] = None /\ alias' = [alias EXCEPT ![c] = a]
      /\ o \in Owner /\ c \in Channels \cup {None} /\ a \in Alias /\ a # None
  BY RecordsAreSome DEF ReserveLive, LiveOwner, Owner, Alias, Proof
<1>2. /\ rec' \in [Tokens -> Record \cup {None}] /\ own' \in [Owner -> Tokens \cup {None}]
      /\ cnt' \in [CounterKeys -> Nat] /\ issued' \subseteq Tokens
      /\ TokensFresh' /\ CountersExact' /\ OwnersLinked'
      /\ rec[t] = None /\ rec'[t] = NewRecord(o, d, c)
      /\ \A u \in Tokens \ {t} : rec'[u] = rec[u]
  BY <1>1, AllocateInv
<1>3. /\ alias' \in [Channels -> Alias \cup {None}] /\ alias'[c] = a
      /\ \A b \in Channels \ {c} : alias'[b] = alias[b]
  BY <1>1 DEF LedgerInv, LedgerShape
<1>4. NamedBy(c, alias[c])'
  <2>1. rec'[t] # None /\ rec'[t].alias = c /\ rec'[t].dest = d /\ rec'[t].owner = o
    <3>1. NewRecord(o, d, c) \in Record
      BY <1>1 DEF NewRecord, Record, Proof
    <3> QED
      BY <1>2, <3>1, RecordsAreSome DEF NewRecord
  <2>2. alias'[c].token = t /\ alias'[c].dest = d /\ alias'[c].lease = w
    BY <1>3
  <2> QED
    BY <2>1, <2>2 DEF NamedBy
<1> HIDE DEF a, o
<1>5. ASSUME NEW b \in Channels \ {c}, alias'[b] # None PROVE NamedBy(b, alias[b])'
  <2>1. alias[b] # None /\ alias'[b] = alias[b] /\ alias[b].token # t
    BY <1>2, <1>3, <1>5 DEF LedgerInv, AliasesLinked, NamedBy
  <2> QED
    BY <2>1, <1>2, AliasApart
<1>6. AliasesLinked'
  BY <1>4, <1>5 DEF AliasesLinked
<1> QED
  BY <1>1, <1>2, <1>3, <1>6 DEF LedgerInv, LedgerShape

(* A release of a record no alias names any more. *)
LEMMA ReleaseInv ==
  ASSUME LedgerInv, NEW t \in Tokens, NEW o \in Owner, NEW d \in Dests,
         Owns(o, t), rec[t].dest = d, Drop(t, o, d), issued' = issued,
         alias' \in [Channels -> Alias \cup {None}],
         \A c \in Channels : alias'[c] # None => alias'[c] = alias[c] /\ alias[c].token # t
  PROVE  LedgerInv'
<1>2. /\ rec' \in [Tokens -> Record \cup {None}] /\ own' \in [Owner -> Tokens \cup {None}]
      /\ cnt' \in [CounterKeys -> Nat] /\ issued' \subseteq Tokens
      /\ TokensFresh' /\ CountersExact' /\ OwnersLinked'
      /\ \A u \in Tokens \ {t} : rec'[u] = rec[u]
  BY DropInv
<1>3. ASSUME NEW b \in Channels, alias'[b] # None PROVE NamedBy(b, alias[b])'
  BY <1>2, <1>3, AliasApart
<1>4. AliasesLinked'
  BY <1>3 DEF AliasesLinked
<1> QED
  BY <1>2, <1>4 DEF LedgerInv, LedgerShape

(* release and release_current *)
LEMMA ReleaseGenericInv ==
  ASSUME LedgerInv, NEW t \in Tokens, NEW o \in Owner, NEW d \in Dests, ReleaseGeneric(t, o, d)
  PROVE  LedgerInv'
<1>1. Owns(o, t) /\ rec[t].dest = d /\ Drop(t, o, d) /\ issued' = issued /\ alias' = alias /\ rec[t].alias = None
  BY DEF ReleaseGeneric, Generic
<1>2. \A c \in Channels : alias'[c] # None => alias'[c] = alias[c] /\ alias[c].token # t
  BY <1>1, LedgerAssumption DEF LedgerInv, AliasesLinked, NamedBy
<1>3. alias' \in [Channels -> Alias \cup {None}]
  BY <1>1 DEF LedgerInv, LedgerShape
<1> QED
  BY <1>1, <1>2, <1>3, ReleaseInv

(* _VOD_CLEANUP and _CLEANUP_TIMESHIFT: an alias names a live owner. *)
LEMMA CleanupInv ==
  ASSUME LedgerInv, NEW t \in Tokens, NEW o \in Owner, NEW d \in Dests, CleanupSession(t, o, d)
  PROVE  LedgerInv'
<1>1. /\ Owns(o, t) /\ rec[t].dest = d /\ Drop(t, o, d) /\ issued' = issued /\ alias' = alias
      /\ rec[t].owner = o /\ o.mode # "live"
  BY DEF CleanupSession, Bound, Owns
<1>2. \A c \in Channels : alias'[c] # None => alias'[c] = alias[c] /\ alias[c].token # t
  <2>1. \A c \in Channels : alias[c] # None /\ alias[c].token = t => rec[t].owner.mode = "live"
    <3> SUFFICES ASSUME NEW c \in Channels, alias[c] # None, alias[c].token = t
                 PROVE  rec[t].owner.mode = "live"
      OBVIOUS
    <3>1. rec[t].owner = LiveOwner(c, alias[c].lease)
      BY DEF LedgerInv, AliasesLinked, NamedBy
    <3> QED
      BY <3>1 DEF LiveOwner
  <2> QED
    BY <1>1, <2>1
<1>3. alias' \in [Channels -> Alias \cup {None}]
  BY <1>1 DEF LedgerInv, LedgerShape
<1> QED
  BY <1>1, <1>2, <1>3, ReleaseInv

(* _RELEASE_PENDING_LIVE_CHANNEL and _RELEASE_ACTIVE_LIVE: the alias goes   *)
(* with the record.                                                         *)
LEMMA ReleaseLiveInv ==
  ASSUME LedgerInv, NEW t \in Tokens, NEW c \in Channels, NEW w \in Leases, NEW d \in Dests,
         Assigned(t, c, w), rec[t].dest = d, Drop(t, LiveOwner(c, w), d), issued' = issued,
         alias' = [alias EXCEPT ![c] = None]
  PROVE  LedgerInv'
<1>1. Owns(LiveOwner(c, w), t) /\ LiveOwner(c, w) \in Owner /\ rec[t].alias = c
  BY DEF Assigned, LiveOwner, Owner
<1>2. \A b \in Channels : alias'[b] # None => alias'[b] = alias[b] /\ alias[b].token # t
  BY <1>1 DEF LedgerInv, LedgerShape, AliasesLinked, NamedBy
<1>3. alias' \in [Channels -> Alias \cup {None}]
  BY DEF LedgerInv, LedgerShape
<1> QED
  BY <1>1, <1>2, <1>3, ReleaseInv

(* A record that changes in place, when the aliases follow. *)
LEMMA InPlaceInv ==
  ASSUME LedgerInv, NEW t \in Tokens, NEW r, Moves(t, r) \/ Keeps(t, r),
         r.owner = rec[t].owner, r.alias = rec[t].alias, UNCHANGED <<own, issued>>,
         alias' \in [Channels -> Alias \cup {None}],
         \A c \in Channels : alias'[c] # None =>
            /\ alias[c] # None /\ alias'[c].token = alias[c].token
            /\ alias'[c].lease = alias[c].lease
            /\ alias[c].token = t => alias'[c].dest = r.dest
            /\ alias[c].token # t => alias'[c] = alias[c]
  PROVE  LedgerInv'
<1>1. /\ rec' \in [Tokens -> Record \cup {None}] /\ cnt' \in [CounterKeys -> Nat]
      /\ issued' \subseteq Tokens /\ TokensFresh' /\ CountersExact' /\ OwnersLinked'
      /\ rec[t] # None /\ rec'[t] = r /\ r # None
      /\ \A u \in Tokens \ {t} : rec'[u] = rec[u]
  BY AlterInv
<1>2. ASSUME NEW c \in Channels, alias'[c] # None PROVE NamedBy(c, alias[c])'
  <2>1. CASE alias[c].token # t
    BY <1>1, <1>2, <2>1, AliasApart
  <2>2. CASE alias[c].token = t
    <3>1. rec[t].alias = c /\ rec[t].owner = LiveOwner(c, alias[c].lease)
      BY <1>2, <2>2 DEF LedgerInv, AliasesLinked, NamedBy
    <3>2. /\ alias'[c].token = t /\ alias'[c].dest = rec'[t].dest
          /\ rec'[t].owner = LiveOwner(c, alias'[c].lease) /\ rec'[t].alias = c
      BY <1>1, <1>2, <2>2, <3>1 DEF LiveOwner
    <3> QED
      BY <1>1, <3>2 DEF NamedBy, LiveOwner
  <2> QED
    BY <2>1, <2>2
<1>3. AliasesLinked'
  BY <1>2 DEF AliasesLinked
<1> QED
  BY <1>1, <1>3 DEF LedgerInv, LedgerShape

(* The same, with the aliases unchanged: nothing an alias shares changes. *)
LEMMA SameAliasInv ==
  ASSUME LedgerInv, NEW t \in Tokens, NEW r, Moves(t, r) \/ Keeps(t, r),
         r.owner = rec[t].owner, r.alias = rec[t].alias, UNCHANGED <<own, issued, alias>>,
         r.dest = rec[t].dest \/ rec[t].alias = None
  PROVE  LedgerInv'
<1>1. alias' \in [Channels -> Alias \cup {None}]
  BY DEF LedgerInv, LedgerShape
<1>2. ASSUME NEW c \in Channels, alias'[c] # None
      PROVE  /\ alias[c] # None /\ alias'[c].token = alias[c].token
             /\ alias'[c].lease = alias[c].lease
             /\ alias[c].token = t => alias'[c].dest = r.dest
             /\ alias[c].token # t => alias'[c] = alias[c]
  BY <1>2, LedgerAssumption DEF LedgerInv, AliasesLinked, NamedBy
<1> QED
  BY <1>1, <1>2, InPlaceInv

(* What a switch makes of a record. *)
LEMMA SwitchedRecord ==
  ASSUME NEW r \in Record, NEW e \in Dests
  PROVE  /\ Switched(r, e) \in Record /\ Switched(r, e).dest = e
         /\ Switched(r, e).owner = r.owner /\ Switched(r, e).alias = r.alias
         /\ Switched(r, e).state = "pending" /\ Switched(r, e).proof = None
         /\ Switched(r, e).fenced = FencedBy(r)
  BY DEF Switched, Record, FencedBy, Proof

(* switch and switch_current *)
LEMMA SwitchGenericInv ==
  ASSUME LedgerInv, NEW t \in Tokens, NEW o \in Owner, NEW d \in Dests, NEW e \in Dests,
         SwitchGeneric(t, o, d, e)
  PROVE  LedgerInv'
<1> DEFINE r == Switched(rec[t], e)
<1>1. rec[t] \in Record /\ rec[t] # None /\ rec[t].alias = None /\ rec[t].dest = d
  BY DEF SwitchGeneric, Generic, Owns, LedgerInv, LedgerShape
<1>2. r \in Record /\ r.dest = e /\ r.owner = rec[t].owner /\ r.alias = rec[t].alias
  BY <1>1, SwitchedRecord
<1>3. rec' = [rec EXCEPT ![t] = r] /\ UNCHANGED <<own, issued, alias>>
  BY DEF SwitchGeneric, LedgerInv, LedgerShape
<1>4. Moves(t, r)
  BY <1>1, <1>2, <1>3 DEF Moves, SwitchGeneric
<1> QED
  BY <1>1, <1>2, <1>3, <1>4, SameAliasInv

(* _SWITCH_LIVE_CHANNEL: the alias follows the record. *)
LEMMA SwitchLiveInv ==
  ASSUME LedgerInv, NEW t \in Tokens, NEW c \in Channels, NEW w \in Leases, NEW d \in Dests,
         NEW e \in Dests, NEW p \in Proof, SwitchLive(t, c, w, d, e, p)
  PROVE  LedgerInv'
<1> DEFINE r == Switched(rec[t], e)
           a == [alias[c] EXCEPT !.dest = e, !.stopped = None]
<1>1. /\ rec[t] \in Record /\ rec[t] # None /\ rec[t].dest = d /\ rec[t].alias = c
      /\ alias[c] # None /\ alias[c] \in Alias /\ alias[c].token = t
  BY DEF SwitchLive, Assigned, Owns, LedgerInv, LedgerShape
<1>2. r \in Record /\ r.dest = e /\ r.owner = rec[t].owner /\ r.alias = rec[t].alias
  BY <1>1, SwitchedRecord
<1>3. rec' = [rec EXCEPT ![t] = r] /\ UNCHANGED <<own, issued>>
  BY DEF SwitchLive, LedgerInv, LedgerShape
<1>4. Moves(t, r)
  BY <1>1, <1>2, <1>3 DEF Moves, SwitchLive
<1>5. a \in Alias /\ a.token = t /\ a.lease = alias[c].lease /\ a.dest = e
  BY <1>1 DEF Alias, Proof
<1>6. /\ alias' \in [Channels -> Alias \cup {None}] /\ alias'[c] = a
      /\ \A b \in Channels \ {c} : alias'[b] = alias[b]
  BY <1>1, <1>5 DEF SwitchLive, LedgerInv, LedgerShape
<1> HIDE DEF r, a
<1>7. ASSUME NEW b \in Channels, alias'[b] # None
      PROVE  /\ alias[b] # None /\ alias'[b].token = alias[b].token
             /\ alias'[b].lease = alias[b].lease
             /\ alias[b].token = t => alias'[b].dest = r.dest
             /\ alias[b].token # t => alias'[b] = alias[b]
  <2>1. b # c /\ alias[b] # None => alias[b].token # t
    BY <1>1 DEF LedgerInv, AliasesLinked, NamedBy
  <2> QED
    BY <1>1, <1>2, <1>5, <1>6, <1>7, <2>1
<1> QED
  BY <1>2, <1>3, <1>4, <1>6, <1>7, InPlaceInv

(* _ACTIVATE_LIVE, _BIND_VOD and _BIND_TIMESHIFT: a record becomes active.  *)
LEMMA PromoteInv ==
  ASSUME LedgerInv, NEW t \in Tokens, NEW p \in Proof, rec[t] # None,
         rec' = [rec EXCEPT ![t].state = "active", ![t].proof = p],
         UNCHANGED <<own, cnt, issued, alias>>
  PROVE  LedgerInv'
<1> DEFINE r == [rec[t] EXCEPT !.state = "active", !.proof = p]
<1>1. rec[t] \in Record
  BY DEF LedgerInv, LedgerShape
<1>2. r \in Record /\ r.dest = rec[t].dest /\ r.owner = rec[t].owner /\ r.alias = rec[t].alias
  BY <1>1 DEF Record
<1>3. rec' = [rec EXCEPT ![t] = r]
  BY DEF LedgerInv, LedgerShape
<1>4. Keeps(t, r)
  BY <1>2, <1>3 DEF Keeps
<1> QED
  BY <1>2, <1>4, SameAliasInv

(* _ACK_LIVE_STOP changes only what the alias says of the upstream. *)
LEMMA AckInv ==
  ASSUME LedgerInv, NEW t \in Tokens, NEW c \in Channels, NEW w \in Leases, NEW d \in Dests,
         NEW e \in 1..MaxEpoch, NEW g \in Generations, AckLiveStop(t, c, w, d, e, g)
  PROVE  LedgerInv'
<1> DEFINE a == [alias[c] EXCEPT !.stopped = <<e, g>>]
<1>1. alias[c] # None /\ alias[c] \in Alias
  BY DEF AckLiveStop, ActiveUnder, Assigned, LedgerInv, LedgerShape
<1>2. a \in Alias /\ a.token = alias[c].token /\ a.lease = alias[c].lease /\ a.dest = alias[c].dest
  BY <1>1 DEF Alias, Proof, Provenance
<1>3. /\ alias' \in [Channels -> Alias \cup {None}] /\ alias'[c] = a
      /\ \A b \in Channels \ {c} : alias'[b] = alias[b]
  BY <1>1, <1>2 DEF AckLiveStop, LedgerInv, LedgerShape
<1>4. UNCHANGED <<rec, own, cnt, issued>>
  BY DEF AckLiveStop
<1>5. AliasesLinked'
  <2> SUFFICES ASSUME NEW b \in Channels, alias'[b] # None PROVE NamedBy(b, alias[b])'
    BY DEF AliasesLinked
  <2>1. CASE b = c
    <3>1. NamedBy(c, alias[c])
      BY <1>1 DEF LedgerInv, AliasesLinked
    <3> QED
      BY <1>2, <1>3, <1>4, <2>1, <3>1 DEF NamedBy, LiveOwner
  <2>2. CASE b # c
    <3>1. alias'[b] = alias[b] /\ NamedBy(b, alias[b])
      BY <1>3, <2>2 DEF LedgerInv, AliasesLinked
    <3> QED
      BY <1>4, <3>1 DEF NamedBy
  <2> QED
    BY <2>1, <2>2
<1>6. \A k \in CounterKeys : Counting(k)' = Counting(k)
  BY <1>4 DEF Counting
<1>7. CountersExact' /\ OwnersLinked' /\ TokensFresh'
  BY <1>4, <1>6 DEF LedgerInv, CountersExact, OwnersLinked, TokensFresh
<1> QED
  BY <1>3, <1>4, <1>5, <1>7 DEF LedgerInv, LedgerShape

(* _BIND_VOD and _BIND_TIMESHIFT: the record only becomes active. *)
LEMMA BindInv ==
  ASSUME LedgerInv, NEW t \in Tokens, rec[t] # None,
         rec' = [rec EXCEPT ![t].state = "active"], UNCHANGED <<own, cnt, issued, alias>>
  PROVE  LedgerInv'
<1> DEFINE r == [rec[t] EXCEPT !.state = "active"]
<1>1. rec[t] \in Record
  BY DEF LedgerInv, LedgerShape
<1>2. r \in Record /\ r.dest = rec[t].dest /\ r.owner = rec[t].owner /\ r.alias = rec[t].alias
  BY <1>1 DEF Record
<1>3. rec' = [rec EXCEPT ![t] = r]
  BY DEF LedgerInv, LedgerShape
<1>4. Keeps(t, r)
  BY <1>2, <1>3 DEF Keeps
<1> QED
  BY <1>2, <1>4, SameAliasInv

(* No key has been written yet, whatever the operator has set. *)
EmptyRedis ==
    /\ AuthorityInit
    /\ rec = [t \in Tokens |-> None]
    /\ own = [o \in Owner |-> None]
    /\ cnt = [k \in CounterKeys |-> 0]
    /\ alias = [c \in Channels |-> None]
    /\ sess = [s \in VodSessions \cup ShiftSessions |-> None]
    /\ issued = {}
    /\ watch = [v \in Viewers |-> None]
    /\ play = [p \in Playbacks |-> None]

(* The ledger starts over an empty Redis. *)
LEMMA LedgerInitEmpty == LedgerInit => EmptyRedis
  BY DEF LedgerInit, EmptyRedis

(* No reservation has been made yet. *)
LEMMA LedgerInitInv == EmptyRedis => LedgerInv
<1> SUFFICES ASSUME EmptyRedis PROVE LedgerInv
  OBVIOUS
<1>1. LedgerShape /\ issued \subseteq Tokens /\ TokensFresh
  BY DEF EmptyRedis, LedgerShape, TokensFresh
<1>2. OwnersLinked /\ AliasesLinked
  BY DEF EmptyRedis, OwnersLinked, AliasesLinked
<1>3. CountersExact
  <2> SUFFICES ASSUME NEW k \in CounterKeys
               PROVE  cnt[k] = Cardinality(Counting(k)) /\ cnt[k] <= Capacity[k]
    BY DEF CountersExact
  <2>1. Counting(k) = {} /\ cnt[k] = 0
    BY DEF EmptyRedis, Counting
  <2>2. Cardinality(Counting(k)) = 0 /\ Capacity[k] \in Nat \ {0}
    BY <2>1, FS_EmptySet, LedgerAssumption
  <2> QED
    BY <2>1, <2>2
<1> QED
  BY <1>1, <1>2, <1>3 DEF LedgerInv

(* The scripts, sorted by what they do to the reservations. *)
Idles ==
    \/ SetCutover
    \/ \E s \in VodSessions \cup ShiftSessions :
         LoseSession(s) \/ \E d \in Dests : CreateSession(s, d)
    \/ \E t \in Tokens, o \in Owner :
         \/ \E v \in Viewers : JoinVod(v, t, o)
         \/ \E p \in Playbacks : ClaimPool(t, o, p)
         \/ \E p, q \in Playbacks : SupersedePool(t, o, p, q)
    \/ \E v \in Viewers : LeaveVod(v) \/ ViewerDies(v)
    \/ \E p \in Playbacks : CloseUpstream(p) \/ IdlePool(p) \/ AckPoolStop(p)
Binds(t, o) == BindVod(t, o) \/ \E p \in Playbacks : BindPool(t, o, p)

(* The steps that touch neither reservations nor the authority. *)
LEMMA IdlesUnchanged == Idles => UNCHANGED <<rec, own, cnt, alias, issued, avars>>
<1> SUFFICES ASSUME Idles PROVE UNCHANGED <<rec, own, cnt, alias, issued, avars>>
  OBVIOUS
<1> USE DEF session
<1>1. CASE SetCutover
  BY <1>1 DEF SetCutover
<1>2. CASE \E s \in VodSessions \cup ShiftSessions :
             LoseSession(s) \/ \E d \in Dests : CreateSession(s, d)
  BY <1>2 DEF LoseSession, CreateSession
<1>3. CASE \E t \in Tokens, o \in Owner :
             \/ \E v \in Viewers : JoinVod(v, t, o)
             \/ \E p \in Playbacks : ClaimPool(t, o, p)
             \/ \E p, q \in Playbacks : SupersedePool(t, o, p, q)
  <2>1. ASSUME NEW v \in Viewers, NEW t \in Tokens, NEW o \in Owner, JoinVod(v, t, o)
        PROVE  UNCHANGED <<rec, own, cnt, alias, issued, avars>>
    BY <2>1 DEF JoinVod
  <2>2. ASSUME NEW p \in Playbacks, NEW t \in Tokens, NEW o \in Owner, ClaimPool(t, o, p)
        PROVE  UNCHANGED <<rec, own, cnt, alias, issued, avars>>
    BY <2>2 DEF ClaimPool
  <2>3. ASSUME NEW p \in Playbacks, NEW q \in Playbacks, NEW t \in Tokens, NEW o \in Owner,
               SupersedePool(t, o, p, q)
        PROVE  UNCHANGED <<rec, own, cnt, alias, issued, avars>>
    BY <2>3 DEF SupersedePool
  <2> QED
    BY <1>3, <2>1, <2>2, <2>3
<1>4. CASE \E v \in Viewers : LeaveVod(v) \/ ViewerDies(v)
  BY <1>4 DEF LeaveVod, ViewerDies
<1>5. CASE \E p \in Playbacks : CloseUpstream(p) \/ IdlePool(p) \/ AckPoolStop(p)
  BY <1>5 DEF CloseUpstream, IdlePool, AckPoolStop
<1> QED
  BY <1>1, <1>2, <1>3, <1>4, <1>5 DEF Idles

(* Every session step is one of these. *)
LEMMA SessionSteps ==
  SessionNext => \/ Idles
                 \/ \E t \in Tokens, o \in Owner :
                      Binds(t, o) \/ \E d \in Dests : CleanupSession(t, o, d)
  BY DEF SessionNext, Idles, Binds

(* What the two bindings have in common. *)
LEMMA BindsRecord ==
  ASSUME NEW t, NEW o, Binds(t, o)
  PROVE  /\ rec' = [rec EXCEPT ![t].state = "active"] /\ rec[t] # None
         /\ rec[t].owner = o /\ o.mode # "live"
         /\ UNCHANGED <<own, cnt, alias, issued, avars>>
<1>1. CASE BindVod(t, o)
  BY <1>1 DEF BindVod, Bindable, Owns
<1>2. ASSUME NEW p \in Playbacks, BindPool(t, o, p)
      PROVE  /\ rec' = [rec EXCEPT ![t].state = "active"] /\ rec[t] # None
             /\ rec[t].owner = o /\ o.mode # "live"
             /\ UNCHANGED <<own, cnt, alias, issued, avars>>
  BY <1>2 DEF BindPool, Bindable, Owns
<1> QED
  BY <1>1, <1>2 DEF Binds

(* Every live script keeps the reservations counted and linked. *)
LEMMA LiveNextInv == ASSUME LedgerInv, LiveNext PROVE LedgerInv'
<1> PICK t \in Tokens, c \in Channels, w \in Leases, d \in Dests :
        \/ ReserveLive(t, c, w, d)
        \/ ReleasePendingLive(t, c, w, d)
        \/ \E e \in 1..MaxEpoch, g \in Generations :
             \/ ActivateLive(t, c, w, e, g)
             \/ AckLiveStop(t, c, w, d, e, g)
             \/ ReleaseActiveLive(t, c, w, d, e, g)
        \/ \E e \in Dests, p \in Proof : SwitchLive(t, c, w, d, e, p)
  BY DEF LiveNext
<1>1. CASE ReserveLive(t, c, w, d)
  BY <1>1, ReserveLiveInv
<1>2. CASE ReleasePendingLive(t, c, w, d)
  BY <1>2, ReleaseLiveInv DEF ReleasePendingLive
<1>3. ASSUME NEW e \in 1..MaxEpoch, NEW g \in Generations, ActivateLive(t, c, w, e, g)
      PROVE  LedgerInv'
  <2>1. <<e, g>> \in Proof
    BY DEF Proof, Provenance
  <2> QED
    BY <1>3, <2>1, PromoteInv DEF ActivateLive, Owns
<1>4. ASSUME NEW e \in 1..MaxEpoch, NEW g \in Generations, AckLiveStop(t, c, w, d, e, g)
      PROVE  LedgerInv'
  BY <1>4, AckInv
<1>5. ASSUME NEW e \in 1..MaxEpoch, NEW g \in Generations, ReleaseActiveLive(t, c, w, d, e, g)
      PROVE  LedgerInv'
  BY <1>5, ReleaseLiveInv DEF ReleaseActiveLive, ActiveUnder
<1>6. ASSUME NEW e \in Dests, NEW p \in Proof, SwitchLive(t, c, w, d, e, p) PROVE LedgerInv'
  BY <1>6, SwitchLiveInv
<1> QED
  BY <1>1, <1>2, <1>3, <1>4, <1>5, <1>6

(* Every step keeps the reservations counted and linked. *)
LEMMA LedgerNextInv == ASSUME LedgerInv, [LedgerNext]_<<avars, lvars>> PROVE LedgerInv'
<1>1. CASE UNCHANGED <<avars, lvars>> \/ (AuthorityNext /\ UNCHANGED lvars)
  BY <1>1, QuietInv DEF lvars
<1>2. CASE LiveNext
  BY <1>2, LiveNextInv
<1>3. CASE GenericNext
  <2>1. PICK t \in Tokens, o \in Owner, d \in Dests :
          \/ Reserve(t, o, d)
          \/ ReleaseGeneric(t, o, d)
          \/ \E e \in Dests : SwitchGeneric(t, o, d, e)
    BY <1>3 DEF GenericNext
  <2> QED
    BY <2>1, ReserveInv, ReleaseGenericInv, SwitchGenericInv
<1>4. ASSUME NEW t \in Tokens, NEW o \in Owner, Binds(t, o) PROVE LedgerInv'
  BY <1>4, BindsRecord, BindInv
<1>5. CASE Idles
  BY <1>5, IdlesUnchanged, QuietInv
<1>6. ASSUME NEW t \in Tokens, NEW o \in Owner, NEW d \in Dests, CleanupSession(t, o, d)
      PROVE  LedgerInv'
  BY <1>6, CleanupInv
<1>7. SetCutover => Idles
  BY DEF Idles
<1> QED
  BY <1>1, <1>2, <1>3, <1>4, <1>5, <1>6, <1>7, SessionSteps DEF LedgerNext

(* Capacity neither leaks nor is given back twice, for any number of        *)
(* reservations, destinations and callers with handles of any age.          *)
THEOREM LedgerCounts == LedgerSpec => []CountersExact
<1>1. LedgerInv => CountersExact
  BY DEF LedgerInv
<1> QED
  BY <1>1, LedgerInitEmpty, LedgerInitInv, LedgerNextInv, PTL DEF LedgerSpec

(* Owner key, record and alias always name each other: every script of      *)
(* reservation_ledger.py that deletes or moves one takes the others along.  *)
THEOREM LedgerLinks == LedgerSpec => []ReservationsLinked
<1>1. LedgerInv => ReservationsLinked
  BY LinkedParts DEF LedgerInv
<1> QED
  BY <1>1, LedgerInitEmpty, LedgerInitInv, LedgerNextInv, PTL DEF LedgerSpec

(***************************************************************************)
(* The ledger and the authority together.                                  *)
(***************************************************************************)
(* What the proofs of a record say: only live records have them, they are   *)
(* not ahead of the epoch of the channel, a pending record has none, and an *)
(* active one is beyond the upstream it was switched away from.             *)
ProofsOf(r, ep) ==
    /\ r.proof # None => r.owner.mode = "live" /\ r.proof[1] <= ep[r.owner.home]
    /\ r.fenced # None => r.owner.mode = "live" /\ r.fenced[1] <= ep[r.owner.home]
    /\ r.state = "pending" => r.proof = None
    /\ r.proof # None => r.proof # r.fenced
    /\ r.fenced # None /\ r.proof # None => r.fenced[1] <= r.proof[1]
ProofsGranted == \A t \in Tokens : rec[t] # None => ProofsOf(rec[t], epoch)

(* The ledger leaves the authority alone. *)
LEMMA LedgerSteps ==
  [LedgerNext]_<<avars, lvars>> => [AuthorityNext]_avars
<1> USE DEF session
<1>1. GenericNext => UNCHANGED avars
  BY DEF GenericNext, Reserve, ReleaseGeneric, SwitchGeneric
<1>2. LiveNext => UNCHANGED avars
  <2>1. \A t \in Tokens, c \in Channels, w \in Leases, d \in Dests :
          ReserveLive(t, c, w, d) \/ ReleasePendingLive(t, c, w, d) => UNCHANGED avars
    BY DEF ReserveLive, ReleasePendingLive
  <2>2. \A t \in Tokens, c \in Channels, w \in Leases, e \in 1..MaxEpoch, g \in Generations :
          ActivateLive(t, c, w, e, g) => UNCHANGED avars
    BY DEF ActivateLive
  <2>3. \A t \in Tokens, c \in Channels, w \in Leases, d \in Dests, e \in 1..MaxEpoch,
           g \in Generations :
          AckLiveStop(t, c, w, d, e, g) \/ ReleaseActiveLive(t, c, w, d, e, g) => UNCHANGED avars
    BY DEF AckLiveStop, ReleaseActiveLive
  <2>4. \A t \in Tokens, c \in Channels, w \in Leases, d \in Dests, e \in Dests, p \in Proof :
          SwitchLive(t, c, w, d, e, p) => UNCHANGED avars
    BY DEF SwitchLive
  <2> QED
    BY <2>1, <2>2, <2>3, <2>4 DEF LiveNext
<1>3. SessionNext => UNCHANGED avars
  <2>1. \A t \in Tokens, o \in Owner, d \in Dests : CleanupSession(t, o, d) => UNCHANGED avars
    BY DEF CleanupSession
  <2> QED
    BY <2>1, SessionSteps, IdlesUnchanged, BindsRecord
<1>4. SetCutover => UNCHANGED avars
  BY DEF SetCutover
<1> QED
  BY <1>1, <1>2, <1>3, <1>4 DEF LedgerNext

(* The ledger cannot weaken the fence of the media stream. *)
THEOREM LedgerRefines == LedgerSpec => ImplementsFencedStream
<1>1. LedgerInit => AuthorityInit
  BY DEF LedgerInit
<1>2. LedgerSpec => AuthoritySpec
  BY <1>1, LedgerSteps, PTL DEF LedgerSpec, AuthoritySpec
<1> QED
  BY <1>2, AuthorityRefines, PTL

(* A record that is new or was switched has no proof. *)
LEMMA NewProofs ==
  ASSUME NEW o \in Owner, NEW d \in Dests, NEW a \in Channels \cup {None}
  PROVE  ProofsOf(NewRecord(o, d, a), epoch)
  BY DEF ProofsOf, NewRecord

(* The fence of a switched record is the proof it had. *)
LEMMA SwitchProofs ==
  ASSUME NEW r \in Record, NEW e \in Dests, ProofsOf(r, epoch)
  PROVE  ProofsOf(Switched(r, e), epoch)
<1>1. /\ Switched(r, e).owner = r.owner /\ Switched(r, e).proof = None
      /\ Switched(r, e).fenced \in {r.proof, r.fenced}
  BY SwitchedRecord DEF FencedBy
<1> QED
  BY <1>1 DEF ProofsOf

(* The grant that promotes a record is the newest of its channel. *)
LEMMA PromoteProofs ==
  ASSUME AuthorityInv, NEW t \in Tokens, NEW c \in Channels, NEW w \in Leases,
         NEW e \in 1..MaxEpoch, NEW g \in Generations, rec[t] \in Record,
         ActivateLive(t, c, w, e, g), ProofsOf(rec[t], epoch)
  PROVE  ProofsOf([rec[t] EXCEPT !.state = "active", !.proof = <<e, g>>], epoch)
<1> DEFINE r == [rec[t] EXCEPT !.state = "active", !.proof = <<e, g>>]
<1>1. /\ r.owner = rec[t].owner /\ r.state = "active" /\ r.proof = <<e, g>>
      /\ r.fenced = rec[t].fenced
  BY DEF Record
<1>2. rec[t].owner.mode = "live" /\ rec[t].owner.home = c /\ rec[t].fenced # <<e, g>>
  BY DEF ActivateLive, Owns, LiveOwner, Attested
<1>3. e = epoch[c] /\ <<e, g>>[1] = e /\ e <= e
  BY HolderIsNewest, AuthorityAssumption DEF ActivateLive, Attested
<1> HIDE DEF r
<1>4. rec[t].fenced # None => rec[t].fenced[1] <= epoch[c]
  BY <1>2 DEF ProofsOf
<1>5. ProofsOf(r, epoch)
  BY <1>1, <1>2, <1>3, <1>4 DEF ProofsOf
<1> QED
  BY <1>5 DEF r

(* A session's record has no proof, so becoming active changes nothing. *)
LEMMA BindProofs ==
  ASSUME NEW r \in Record, r.owner.mode # "live", ProofsOf(r, epoch)
  PROVE  ProofsOf([r EXCEPT !.state = "active"], epoch)
  BY DEF ProofsOf, Record

(* A record changes while the epochs stand still. *)
LEMMA OneRecord ==
  ASSUME LedgerInv, ProofsGranted, NEW t \in Tokens, NEW r, rec' = [rec EXCEPT ![t] = r],
         epoch' = epoch, r # None => ProofsOf(r, epoch)
  PROVE  ProofsGranted'
<1>1. rec'[t] = r /\ \A u \in Tokens \ {t} : rec'[u] = rec[u]
  BY DEF LedgerInv, LedgerShape
<1> QED
  BY <1>1 DEF ProofsGranted, ProofsOf

(* Epochs only grow. *)
LEMMA EpochsGrow ==
  ASSUME AuthorityInv, [AuthorityNext]_avars
  PROVE  \A c \in Channels : epoch[c] \in Nat /\ epoch'[c] \in Nat /\ epoch[c] <= epoch'[c]
<1>1. AuthorityTypeOK /\ AuthorityTypeOK'
  BY NextInv DEF AuthorityInv
<1>2. epoch' = epoch \/ \E c \in Channels, w \in Leases : Acquire(c, w)
  BY DEF AuthorityNext, SetOwner, Release, Activate, Publish, ExpireGrant, ExpireChunk,
         DropOwner, DropMedia, avars
<1>3. ASSUME NEW d \in Channels, NEW w \in Leases, Acquire(d, w)
      PROVE  \A c \in Channels : epoch[c] <= epoch'[c]
  BY <1>1, <1>3, AuthorityAssumption DEF AuthorityTypeOK, Acquire
<1> QED
  BY <1>1, <1>2, <1>3, AuthorityAssumption DEF AuthorityTypeOK

(* Steps that leave the records alone: what was granted stays granted. *)
LEMMA QuietProofs ==
  ASSUME LedgerInv, AuthorityInv, [AuthorityNext]_avars, ProofsGranted, rec' = rec
  PROVE  ProofsGranted'
<1> SUFFICES ASSUME NEW t \in Tokens, rec[t] # None PROVE ProofsOf(rec[t], epoch')
  BY DEF ProofsGranted, ProofsOf
<1>1. /\ rec[t] \in Record /\ ProofsOf(rec[t], epoch)
      /\ rec[t].proof \in Proof /\ rec[t].fenced \in Proof /\ rec[t].owner \in Owner
  BY DEF LedgerInv, LedgerShape, ProofsGranted, Record
<1>2. rec[t].owner.mode = "live" => rec[t].owner.home \in Channels
  BY <1>1 DEF Owner
<1>3. \A p \in Proof : p # None => p[1] \in Nat
  BY NoneApart DEF Proof
<1>4. \A c \in Channels : epoch[c] \in Nat /\ epoch'[c] \in Nat /\ epoch[c] <= epoch'[c]
  BY EpochsGrow
<1>5. ASSUME NEW p \in Proof, p # None, rec[t].owner.mode = "live", p[1] <= epoch[rec[t].owner.home]
      PROVE  p[1] <= epoch'[rec[t].owner.home]
  BY <1>2, <1>3, <1>4, <1>5
<1> QED
  BY <1>1, <1>5 DEF ProofsOf

(* Every step keeps the proofs granted. *)
LEMMA ProofsNextInv ==
  ASSUME LedgerInv, AuthorityInv, ProofsGranted, [LedgerNext]_<<avars, lvars>>
  PROVE  ProofsGranted'
<1> USE DEF session
<1>0. [AuthorityNext]_avars
  BY LedgerSteps
<1>1. CASE rec' = rec
  BY <1>0, <1>1, QuietProofs
<1>2. ASSUME NEW t \in Tokens, NEW o \in Owner, NEW d \in Dests, NEW a \in Channels \cup {None},
             Allocate(t, o, d, a), UNCHANGED avars
      PROVE  ProofsGranted'
  BY <1>2, NewProofs, OneRecord DEF Allocate, avars
<1>3. ASSUME NEW t \in Tokens, NEW o, NEW d, Drop(t, o, d), UNCHANGED avars
      PROVE  ProofsGranted'
  BY <1>3, OneRecord DEF Drop, avars
<1>4. ASSUME NEW t \in Tokens, NEW e \in Dests, rec[t] # None,
             rec' = [rec EXCEPT ![t] = Switched(@, e)], UNCHANGED avars
      PROVE  ProofsGranted'
  <2>1. rec[t] \in Record /\ ProofsOf(rec[t], epoch) /\ rec' = [rec EXCEPT ![t] = Switched(rec[t], e)]
    BY <1>4 DEF LedgerInv, LedgerShape, ProofsGranted
  <2> QED
    BY <1>4, <2>1, SwitchProofs, OneRecord DEF avars
<1>5. ASSUME NEW t \in Tokens, NEW c \in Channels, NEW w \in Leases,
             NEW e \in 1..MaxEpoch, NEW g \in Generations, ActivateLive(t, c, w, e, g)
      PROVE  ProofsGranted'
  <2>1. rec[t] # None /\ rec[t] \in Record /\ ProofsOf(rec[t], epoch)
    BY <1>5 DEF LedgerInv, LedgerShape, ProofsGranted, ActivateLive, Owns
  <2>2. ProofsOf([rec[t] EXCEPT !.state = "active", !.proof = <<e, g>>], epoch)
    BY <1>5, <2>1, PromoteProofs
  <2>3. rec' = [rec EXCEPT ![t] = [rec[t] EXCEPT !.state = "active", !.proof = <<e, g>>]]
    BY <1>5 DEF ActivateLive, LedgerInv, LedgerShape
  <2>4. epoch' = epoch
    BY <1>5 DEF ActivateLive, avars
  <2> QED
    BY <2>2, <2>3, <2>4, OneRecord
<1>6. ASSUME NEW t \in Tokens, NEW o \in Owner, Binds(t, o) PROVE ProofsGranted'
  <2>1. /\ rec[t] # None /\ rec[t].owner.mode # "live" /\ UNCHANGED avars
        /\ rec' = [rec EXCEPT ![t].state = "active"]
    BY <1>6, BindsRecord
  <2>2. rec[t] \in Record /\ ProofsOf(rec[t], epoch)
    BY <2>1 DEF LedgerInv, LedgerShape, ProofsGranted
  <2>3. rec' = [rec EXCEPT ![t] = [rec[t] EXCEPT !.state = "active"]]
    BY <2>1 DEF LedgerInv, LedgerShape
  <2>4. ProofsOf([rec[t] EXCEPT !.state = "active"], epoch)
    BY <2>1, <2>2, BindProofs
  <2> QED
    BY <2>1, <2>3, <2>4, OneRecord DEF avars
<1>7. CASE GenericNext
  <2>1. PICK t \in Tokens, o \in Owner, d \in Dests :
          \/ Reserve(t, o, d)
          \/ ReleaseGeneric(t, o, d)
          \/ \E e \in Dests : SwitchGeneric(t, o, d, e)
    BY <1>7 DEF GenericNext
  <2>2. CASE Reserve(t, o, d)
    BY <2>2, <1>2 DEF Reserve
  <2>3. CASE ReleaseGeneric(t, o, d)
    BY <2>3, <1>3 DEF ReleaseGeneric
  <2>4. ASSUME NEW e \in Dests, SwitchGeneric(t, o, d, e) PROVE ProofsGranted'
    BY <2>4, <1>4 DEF SwitchGeneric, Generic, Owns
  <2> QED
    BY <2>1, <2>2, <2>3, <2>4
<1>8. CASE LiveNext
  <2>0. PICK t \in Tokens, c \in Channels, w \in Leases, d \in Dests :
        \/ ReserveLive(t, c, w, d)
        \/ ReleasePendingLive(t, c, w, d)
        \/ \E e \in 1..MaxEpoch, g \in Generations :
             \/ ActivateLive(t, c, w, e, g)
             \/ AckLiveStop(t, c, w, d, e, g)
             \/ ReleaseActiveLive(t, c, w, d, e, g)
        \/ \E e \in Dests, p \in Proof : SwitchLive(t, c, w, d, e, p)
    BY <1>8 DEF LiveNext
  <2>1. CASE ReserveLive(t, c, w, d)
    <3>1. LiveOwner(c, w) \in Owner
      BY DEF LiveOwner, Owner
    <3> QED
      BY <2>1, <3>1, <1>2 DEF ReserveLive
  <2>2. CASE ReleasePendingLive(t, c, w, d)
    BY <2>2, <1>3 DEF ReleasePendingLive
  <2>3. ASSUME NEW e \in 1..MaxEpoch, NEW g \in Generations, ActivateLive(t, c, w, e, g)
        PROVE  ProofsGranted'
    BY <2>3, <1>5
  <2>4. ASSUME NEW e \in 1..MaxEpoch, NEW g \in Generations, AckLiveStop(t, c, w, d, e, g)
        PROVE  ProofsGranted'
    BY <2>4, <1>1 DEF AckLiveStop
  <2>5. ASSUME NEW e \in 1..MaxEpoch, NEW g \in Generations, ReleaseActiveLive(t, c, w, d, e, g)
        PROVE  ProofsGranted'
    BY <2>5, <1>3 DEF ReleaseActiveLive
  <2>6. ASSUME NEW e \in Dests, NEW p \in Proof, SwitchLive(t, c, w, d, e, p)
        PROVE  ProofsGranted'
    BY <2>6, <1>4 DEF SwitchLive, Assigned, Owns
  <2> QED
    BY <2>0, <2>1, <2>2, <2>3, <2>4, <2>5, <2>6
<1>9. CASE SessionNext
  <2>1. ASSUME NEW t \in Tokens, NEW o \in Owner, NEW d \in Dests, CleanupSession(t, o, d)
        PROVE  ProofsGranted'
    BY <2>1, <1>3 DEF CleanupSession
  <2> QED
    BY <2>1, <1>1, <1>6, <1>9, SessionSteps, IdlesUnchanged
<1>10. CASE SetCutover \/ UNCHANGED <<avars, lvars>> \/ (AuthorityNext /\ UNCHANGED lvars)
  BY <1>1, <1>10 DEF SetCutover, lvars
<1> QED
  BY <1>7, <1>8, <1>9, <1>10 DEF LedgerNext

(* A reservation that was switched becomes active again only under a newer  *)
(* grant or another generation, for every interleaving of the scripts of    *)
(* the ledger and the authority.                                            *)
THEOREM LedgerFences == LedgerSpec => []SwitchFencesUpstream
<1>1. LedgerInit => ProofsGranted /\ AuthorityInit
  BY DEF LedgerInit, ProofsGranted
<1>2. ProofsGranted => SwitchFencesUpstream
  BY DEF ProofsGranted, ProofsOf, SwitchFencesUpstream
<1>3. LedgerSpec => []LedgerInv
  BY LedgerInitEmpty, LedgerInitInv, LedgerNextInv, PTL DEF LedgerSpec
<1>4. LedgerSpec => []AuthorityInv
  BY <1>1, LedgerSteps, InitInv, NextInv, PTL DEF LedgerSpec
<1> QED
  BY <1>1, <1>2, <1>3, <1>4, ProofsNextInv, PTL DEF LedgerSpec

(***************************************************************************)
(* 3. VOD sessions and timeshift pools keep what they stream over.         *)
(***************************************************************************)
SessionIds == VodSessions \cup ShiftSessions

(* The hashes, handles and playbacks have the values the scripts write. *)
SessShape ==
    /\ sess \in [SessionIds -> Session \cup {None}]
    /\ watch \in [Viewers -> Handle \cup {None}]
    /\ play \in [Playbacks -> Playback \cup {None}]

(* The reservation of a lifecycle of a session, promoted by its binding. *)
Held(t, o) == rec[t] # None /\ rec[t].state = "active" /\ rec[t].owner = o /\ o.mode # "live"

(* A hash names no reservation, or an active one of its own session. *)
SessionsBound ==
    \A s \in SessionIds : sess[s] # None /\ sess[s].token # None =>
        Held(sess[s].token, rec[sess[s].token].owner) /\ rec[sess[s].token].owner.home = s

ViewersHeld ==
    \A v \in Viewers : watch[v] # None =>
        Held(watch[v].token, watch[v].owner) /\ watch[v].owner.mode = "vod"

Watching(t) == {v \in Viewers : watch[v] # None /\ watch[v].token = t}

(* active_streams of the hash that names a reservation counts every viewer  *)
(* of that reservation who still streams.                                   *)
ViewersCounted ==
    \A s \in SessionIds :
        /\ sess[s] # None /\ sess[s].token # None
        /\ rec[sess[s].token].owner.mode = "vod"
        => Cardinality(Watching(sess[s].token)) <= sess[s].active

Streaming(p) == play[p] # None /\ play[p].open

UpstreamsHeld ==
    \A p \in Playbacks :
        /\ play[p] # None => play[p].owner.mode = "timeshift"
        /\ Streaming(p) => Held(play[p].token, play[p].owner)

(* A pool whose hash still names the reservation of a running upstream is   *)
(* busy with it.                                                            *)
UpstreamCurrent ==
    \A p \in Playbacks, s \in SessionIds :
        /\ Streaming(p) /\ sess[s] # None /\ sess[s].token = play[p].token
        => sess[s].active = 1 /\ sess[s].playback = p

(* A stop that a hash has recorded is the end of an upstream. *)
StopsAttested ==
    \A p \in Playbacks, s \in SessionIds :
        sess[s] # None /\ sess[s].stopped = p => play[p] # None /\ ~play[p].open

(* The inductive invariant of VOD sessions and timeshift pools. *)
SessInv ==
    /\ SessShape
    /\ SessionsBound /\ ViewersHeld /\ ViewersCounted
    /\ UpstreamsHeld /\ UpstreamCurrent /\ StopsAttested /\ OnePlaybackUpstream

(* Records that a binding has promoted do not change. *)
ActiveKept ==
    \A t \in Tokens :
        rec[t] # None /\ rec[t].state = "active" /\ rec[t].owner.mode # "live" => rec'[t] = rec[t]

(* Records stay what the handles and hashes rely on. *)
LEMMA HeldKept ==
  ASSUME ActiveKept, NEW t \in Tokens, NEW o, Held(t, o)
  PROVE  Held(t, o)' /\ rec'[t] = rec[t]
  BY DEF ActiveKept, Held

(* The viewers of a reservation are finitely many. *)
LEMMA WatchingFinite ==
  ASSUME NEW t
  PROVE  IsFiniteSet(Watching(t)) /\ Cardinality(Watching(t)) \in Nat
<1>1. Watching(t) \subseteq Viewers
  BY DEF Watching
<1>2. IsFiniteSet(Watching(t))
  BY <1>1, LedgerAssumption, FS_Subset
<1> QED
  BY <1>2, FS_CardinalityType

(* A step that leaves the sessions, handles and promoted records alone. *)
LEMMA SessFrame ==
  ASSUME SessInv, ActiveKept, UNCHANGED session
  PROVE  SessInv'
<1> USE DEF session
<1>1. SessShape'
  BY DEF SessInv, SessShape
<1>2. \A s \in SessionIds : sess[s] # None /\ sess[s].token # None =>
         sess[s].token \in Tokens
  BY DEF SessInv, SessShape, Session
<1>3. SessionsBound'
  BY <1>2 DEF SessInv, SessionsBound, ActiveKept, Held
<1>4. ViewersHeld'
  BY DEF SessInv, SessShape, Handle, ViewersHeld, ActiveKept, Held
<1>5. ViewersCounted'
  BY <1>2 DEF SessInv, SessionsBound, ViewersCounted, Watching, ActiveKept, Held
<1>6. UpstreamsHeld'
  BY DEF SessInv, SessShape, Playback, UpstreamsHeld, Streaming, ActiveKept, Held
<1>7. UpstreamCurrent' /\ StopsAttested' /\ OnePlaybackUpstream'
  BY DEF SessInv, UpstreamCurrent, Streaming, StopsAttested, OnePlaybackUpstream
<1> QED
  BY <1>1, <1>3, <1>4, <1>5, <1>6, <1>7 DEF SessInv

(* No script but the two cleanups touches a promoted session record. *)
LEMMA GenericKeepsActive == ASSUME LedgerInv, GenericNext PROVE ActiveKept /\ UNCHANGED session
<1> PICK t \in Tokens, o \in Owner, d \in Dests :
       \/ Reserve(t, o, d) \/ ReleaseGeneric(t, o, d)
       \/ \E e \in Dests : SwitchGeneric(t, o, d, e)
  BY DEF GenericNext
<1>1. CASE Reserve(t, o, d)
  BY <1>1 DEF Reserve, Allocate, LedgerInv, LedgerShape, TokensFresh, ActiveKept
<1>2. CASE ReleaseGeneric(t, o, d)
  BY <1>2 DEF ReleaseGeneric, Generic, Owns, Drop, LedgerInv, LedgerShape, ActiveKept
<1>3. ASSUME NEW e \in Dests, SwitchGeneric(t, o, d, e)
      PROVE  ActiveKept /\ UNCHANGED session
  BY <1>3 DEF SwitchGeneric, Generic, Owns, LedgerInv, LedgerShape, ActiveKept
<1> QED
  BY <1>1, <1>2, <1>3

(* The live scripts leave the sessions and their active reservations alone. *)
LEMMA LiveKeepsActive == ASSUME LedgerInv, LiveNext PROVE ActiveKept /\ UNCHANGED session
<1> PICK t \in Tokens, c \in Channels, w \in Leases, d \in Dests :
        \/ ReserveLive(t, c, w, d)
        \/ ReleasePendingLive(t, c, w, d)
        \/ \E e \in 1..MaxEpoch, g \in Generations :
             \/ ActivateLive(t, c, w, e, g)
             \/ AckLiveStop(t, c, w, d, e, g)
             \/ ReleaseActiveLive(t, c, w, d, e, g)
        \/ \E e \in Dests, p \in Proof : SwitchLive(t, c, w, d, e, p)
  BY DEF LiveNext
<1> USE DEF LedgerInv, LedgerShape, ActiveKept, Owns, LiveOwner
<1>1. CASE ReserveLive(t, c, w, d)
  BY <1>1 DEF ReserveLive, Allocate, TokensFresh
<1>2. CASE ReleasePendingLive(t, c, w, d)
  BY <1>2 DEF ReleasePendingLive, Assigned, Drop
<1>3. ASSUME NEW e \in 1..MaxEpoch, NEW g \in Generations, ActivateLive(t, c, w, e, g)
      PROVE  ActiveKept /\ UNCHANGED session
  BY <1>3 DEF ActivateLive
<1>4. ASSUME NEW e \in 1..MaxEpoch, NEW g \in Generations, AckLiveStop(t, c, w, d, e, g)
      PROVE  ActiveKept /\ UNCHANGED session
  BY <1>4 DEF AckLiveStop
<1>5. ASSUME NEW e \in 1..MaxEpoch, NEW g \in Generations, ReleaseActiveLive(t, c, w, d, e, g)
      PROVE  ActiveKept /\ UNCHANGED session
  BY <1>5 DEF ReleaseActiveLive, ActiveUnder, Assigned, Drop
<1>6. ASSUME NEW e \in Dests, NEW p \in Proof, SwitchLive(t, c, w, d, e, p)
      PROVE  ActiveKept /\ UNCHANGED session
  <2>1. /\ rec[t] # None /\ rec[t].owner = LiveOwner(c, w) /\ UNCHANGED session
        /\ rec' = [rec EXCEPT ![t] = Switched(@, e)]
    BY <1>6 DEF SwitchLive, Assigned
  <2>2. \A u \in Tokens \ {t} : rec'[u] = rec[u]
    BY <2>1
  <2>3. rec[t].owner.mode = "live"
    BY <2>1
  <2> QED
    BY <2>1, <2>2, <2>3
<1> QED
  BY <1>1, <1>2, <1>3, <1>4, <1>5, <1>6

-----------------------------------------------------------------------------
(* The session managers create a hash without a reservation, or lose it.    *)
LEMMA HashKeepsSess ==
  ASSUME SessInv, ActiveKept, NEW s \in SessionIds, NEW h \in Session \cup {None},
         h # None => h.token = None /\ h.stopped = None,
         sess' = [sess EXCEPT ![s] = h], UNCHANGED <<watch, play>>
  PROVE  SessInv'
<1>1. sess'[s] = h /\ \A x \in SessionIds \ {s} : sess'[x] = sess[x]
  BY DEF SessInv, SessShape
<1>2. SessShape'
  BY DEF SessInv, SessShape
<1>3. \A x \in SessionIds : sess'[x] # None /\ sess'[x].token # None =>
         /\ sess'[x] = sess[x] /\ sess[x] # None
         /\ sess[x].token \in Tokens /\ rec'[sess[x].token] = rec[sess[x].token]
         /\ Held(sess[x].token, rec[sess[x].token].owner)
         /\ Held(sess[x].token, rec[sess[x].token].owner)'
  <2> SUFFICES ASSUME NEW x \in SessionIds, sess'[x] # None, sess'[x].token # None
               PROVE  /\ sess'[x] = sess[x] /\ sess[x] # None
                      /\ sess[x].token \in Tokens /\ rec'[sess[x].token] = rec[sess[x].token]
                      /\ Held(sess[x].token, rec[sess[x].token].owner)
                      /\ Held(sess[x].token, rec[sess[x].token].owner)'
    OBVIOUS
  <2>1. sess'[x] = sess[x]
    BY <1>1
  <2>2. sess[x].token \in Tokens
    BY <2>1 DEF SessInv, SessShape, Session
  <2>3. Held(sess[x].token, rec[sess[x].token].owner)
    BY <2>1 DEF SessInv, SessionsBound
  <2> QED
    BY <2>1, <2>2, <2>3 DEF ActiveKept, Held
<1>4. SessionsBound'
  BY <1>3 DEF SessInv, SessionsBound, Held
<1>5. ViewersHeld'
  BY DEF SessInv, SessShape, Handle, ViewersHeld, ActiveKept, Held
<1>6. ViewersCounted'
  BY <1>3 DEF SessInv, ViewersCounted, Watching
<1>7. UpstreamsHeld' /\ OnePlaybackUpstream'
  BY DEF SessInv, SessShape, Playback, UpstreamsHeld, OnePlaybackUpstream, Streaming, ActiveKept, Held
<1>8. UpstreamCurrent'
  <2> SUFFICES ASSUME NEW p \in Playbacks, NEW x \in SessionIds,
                      Streaming(p), sess'[x] # None, sess'[x].token = play[p].token
               PROVE  sess'[x].active = 1 /\ sess'[x].playback = p
    BY DEF UpstreamCurrent, Streaming
  <2>1. play[p].token # None
    BY LedgerAssumption DEF Streaming, SessInv, SessShape, Playback
  <2>2. sess'[x] = sess[x]
    BY <1>1, <2>1
  <2> QED
    BY <2>2 DEF SessInv, UpstreamCurrent
<1>9. StopsAttested'
  BY <1>1, LedgerAssumption DEF SessInv, StopsAttested
<1> QED
  BY <1>2, <1>4, <1>5, <1>6, <1>7, <1>8, <1>9 DEF SessInv

(* _create_session writes a hash without a reservation, which no stream relies on. *)
LEMMA CreateSessionKeepsSess ==
  ASSUME SessInv, NEW s \in SessionIds, NEW d \in Dests, CreateSession(s, d)
  PROVE  SessInv'
<1> DEFINE h == [dest |-> d, token |-> None, life |-> None,
                 active |-> IF s \in ShiftSessions THEN 1 ELSE 0,
                 playback |-> None, stopped |-> None]
<1>1. h \in Session /\ h.token = None /\ h.stopped = None
  BY DEF Session
<1>2. sess' = [sess EXCEPT ![s] = h] /\ UNCHANGED <<rec, watch, play>>
  BY DEF CreateSession
<1>3. ActiveKept
  BY <1>2 DEF ActiveKept
<1> HIDE DEF h
<1> QED
  BY <1>1, <1>2, <1>3, HashKeepsSess

(* A hash that expires or is evicted leaves reservations and streams as they are. *)
LEMMA LoseSessionKeepsSess ==
  ASSUME SessInv, NEW s \in SessionIds, LoseSession(s)
  PROVE  SessInv'
<1>1. sess' = [sess EXCEPT ![s] = None] /\ UNCHANGED <<rec, watch, play>>
  BY DEF LoseSession
<1>2. ActiveKept
  BY <1>1 DEF ActiveKept
<1> QED
  BY <1>1, <1>2, HashKeepsSess

(* A cleanup needs an idle hash that names the reservation: nobody streams   *)
(* from it.                                                                 *)
LEMMA CleanupKeepsSess ==
  ASSUME LedgerInv, SessInv, NEW t \in Tokens, NEW o \in Owner, NEW d \in Dests,
         CleanupSession(t, o, d)
  PROVE  SessInv'
<1> DEFINE s == o.home
<1>1. /\ Held(t, o) /\ own[o] = t
      /\ sess[s] # None /\ sess[s].token = t /\ sess[s].active = 0
      /\ rec' = [rec EXCEPT ![t] = None] /\ sess' = [sess EXCEPT ![s] = None]
      /\ UNCHANGED <<watch, play>>
  BY DEF CleanupSession, Bound, Owns, Idle, Drop, Held
<1>2. s \in SessionIds
  BY <1>1 DEF Owner, Held, SessionIds
<1>3. rec'[t] = None /\ \A u \in Tokens \ {t} : rec'[u] = rec[u]
  BY <1>1 DEF LedgerInv, LedgerShape
<1>4. sess'[s] = None /\ \A x \in SessionIds \ {s} : sess'[x] = sess[x]
  BY <1>1, <1>2 DEF SessInv, SessShape
<1>5. \A v \in Viewers : watch[v] # None => watch[v].token # t
  <2> SUFFICES ASSUME NEW v \in Viewers, watch[v] # None, watch[v].token = t PROVE FALSE
    OBVIOUS
  <2>1. rec[t].owner.mode = "vod"
    BY DEF SessInv, ViewersHeld, Held
  <2>2. Cardinality(Watching(t)) <= 0
    BY <1>1, <1>2, <2>1, LedgerAssumption DEF SessInv, ViewersCounted
  <2>3. v \in Watching(t)
    BY DEF Watching
  <2>4. Cardinality(Watching(t)) = 0
    BY <2>2, WatchingFinite
  <2>5. Watching(t) = {}
    BY <2>4, WatchingFinite, FS_EmptySet
  <2> QED
    BY <2>3, <2>5
<1>6. \A p \in Playbacks : Streaming(p) => play[p].token # t
  BY <1>1, <1>2 DEF SessInv, UpstreamCurrent
<1>7. \A x \in SessionIds \ {s} : sess[x] # None /\ sess[x].token # None =>
         sess[x].token # t /\ sess[x].token \in Tokens
  BY <1>1 DEF SessInv, SessShape, Session, SessionsBound, Held
<1> HIDE DEF s
<1>8. SessShape'
  BY <1>1, <1>2 DEF SessInv, SessShape
<1>9. SessionsBound'
  BY <1>2, <1>3, <1>4, <1>7 DEF SessInv, SessionsBound, Held
<1>10. ViewersHeld'
  BY <1>1, <1>3, <1>5 DEF SessInv, SessShape, Handle, ViewersHeld, Held
<1>11. ViewersCounted'
  BY <1>1, <1>2, <1>3, <1>4, <1>7 DEF SessInv, ViewersCounted, Watching
<1>12. UpstreamsHeld'
  BY <1>1, <1>3, <1>6 DEF SessInv, SessShape, Playback, UpstreamsHeld, Streaming, Held
<1>13. UpstreamCurrent' /\ StopsAttested' /\ OnePlaybackUpstream'
  BY <1>1, <1>2, <1>4 DEF SessInv, UpstreamCurrent, StopsAttested, OnePlaybackUpstream, Streaming
<1> QED
  BY <1>8, <1>9, <1>10, <1>11, <1>12, <1>13 DEF SessInv

-----------------------------------------------------------------------------
(* Viewers.                                                                *)

(* A viewer that leaves or dies is no longer counted, whatever the hash says *)
(* of it; the hash loses one stream only with a viewer it counted.           *)
LEMMA ViewerGoesKeepsSess ==
  ASSUME SessInv, NEW v \in Viewers, watch[v] # None, watch' = [watch EXCEPT ![v] = None],
         UNCHANGED <<rec, play>>,
         \/ sess' = sess
         \/ \E s \in SessionIds :
               /\ sess[s] # None /\ sess[s].token = watch[v].token /\ sess[s].active >= 1
               /\ sess' = [sess EXCEPT ![s].active = @ - 1]
  PROVE  SessInv'
<1>1. /\ watch'[v] = None /\ \A w \in Viewers \ {v} : watch'[w] = watch[w]
      /\ watch' \in [Viewers -> Handle \cup {None}]
  BY DEF SessInv, SessShape
<1>2. ViewersHeld'
  BY <1>1 DEF SessInv, ViewersHeld, Held
<1>3. \A t : Watching(t)' = Watching(t) \ {v}
  BY <1>1 DEF Watching
<1>4. \A t : Cardinality(Watching(t)') <= Cardinality(Watching(t))
  BY <1>3, WatchingFinite, FS_Subset
<1>5. \A t : Cardinality(Watching(t)') \in Nat
  <2> SUFFICES ASSUME NEW t PROVE Cardinality(Watching(t)') \in Nat
    OBVIOUS
  <2>1. IsFiniteSet(Watching(t) \ {v})
    BY WatchingFinite, FS_Subset
  <2> QED
    BY <1>3, <2>1, FS_CardinalityType
<1>6. UpstreamsHeld' /\ OnePlaybackUpstream'
  BY DEF SessInv, UpstreamsHeld, OnePlaybackUpstream, Streaming, Held
<1>7. CASE sess' = sess
  <2>1. SessShape' /\ SessionsBound'
    BY <1>1, <1>7 DEF SessInv, SessShape, SessionsBound, Held
  <2>2. ViewersCounted'
    <3> SUFFICES ASSUME NEW x \in SessionIds, sess[x] # None, sess[x].token # None,
                        rec[sess[x].token].owner.mode = "vod"
                 PROVE  Cardinality(Watching(sess[x].token)') <= sess[x].active
      BY <1>7 DEF ViewersCounted, Watching
    <3>1. Cardinality(Watching(sess[x].token)) <= sess[x].active /\ sess[x].active \in Nat
      BY DEF SessInv, SessShape, Session, ViewersCounted
    <3>2. ASSUME NEW t
          PROVE  Cardinality(Watching(t)') <= Cardinality(Watching(t))
                 /\ Cardinality(Watching(t)') \in Nat /\ Cardinality(Watching(t)) \in Nat
      BY <1>4, <1>5, WatchingFinite
    <3> QED
      BY <1>7, <3>1, <3>2
  <2>3. UpstreamCurrent' /\ StopsAttested'
    BY <1>7 DEF SessInv, UpstreamCurrent, StopsAttested, Streaming
  <2> QED
    BY <1>2, <1>6, <2>1, <2>2, <2>3 DEF SessInv
<1>8. ASSUME NEW s \in SessionIds, sess[s] # None, sess[s].token = watch[v].token,
             sess[s].active >= 1, sess' = [sess EXCEPT ![s].active = @ - 1]
      PROVE  SessInv'
  <2> DEFINE h == [sess[s] EXCEPT !.active = @ - 1]
  <2>1. /\ h \in Session /\ h.token = sess[s].token /\ h.active = sess[s].active - 1
        /\ h.stopped = sess[s].stopped /\ h # None /\ h.playback = sess[s].playback
    BY <1>8, RecordsAreSome DEF SessInv, SessShape, Session
  <2>2. sess'[s] = h /\ \A x \in SessionIds \ {s} : sess'[x] = sess[x]
    BY <1>8 DEF SessInv, SessShape
  <2>3. sess' \in [SessionIds -> Session \cup {None}]
    BY <1>8, <2>1 DEF SessInv, SessShape
  <2> HIDE DEF h
  <2>4. \A x \in SessionIds : /\ sess'[x] # None <=> sess[x] # None
                              /\ sess[x] # None => sess'[x].token = sess[x].token
                                                   /\ sess'[x].stopped = sess[x].stopped
                                                   /\ sess'[x].playback = sess[x].playback
    BY <1>8, <2>1, <2>2
  <2>5. SessShape' /\ SessionsBound' /\ StopsAttested'
    <3>1. SessShape'
      BY <1>1, <2>3 DEF SessInv, SessShape
    <3>2. SessionsBound'
      BY <2>4 DEF SessInv, SessionsBound, Held
    <3>3. StopsAttested'
      BY <2>4 DEF SessInv, StopsAttested
    <3> QED
      BY <3>1, <3>2, <3>3
  <2>6. PICK t \in Tokens : t = watch[v].token /\ rec[t].owner.mode = "vod"
    BY DEF SessInv, SessShape, Handle, ViewersHeld, Held
  <2>7. Cardinality(Watching(t)') = Cardinality(Watching(t)) - 1
    <3>1. v \in Watching(t)
      BY <2>6 DEF Watching
    <3> QED
      BY <1>3, <3>1, WatchingFinite, FS_RemoveElement
  <2>8. ViewersCounted'
    <3> SUFFICES ASSUME NEW x \in SessionIds, sess'[x] # None, sess'[x].token # None,
                        rec[sess'[x].token].owner.mode = "vod", NEW u, u = sess[x].token
                 PROVE  Cardinality(Watching(u)') <= sess'[x].active
      BY <2>4 DEF ViewersCounted, Watching
    <3>1. Cardinality(Watching(u)) <= sess[x].active /\ sess[x].active \in Nat
      BY <2>4 DEF SessInv, SessShape, Session, ViewersCounted
    <3>2. CASE x = s
      BY <1>8, <2>1, <2>2, <2>6, <2>7, <3>1, <3>2, WatchingFinite
    <3>3. CASE x # s
      <4>1. Cardinality(Watching(u)') <= Cardinality(Watching(u))
            /\ Cardinality(Watching(u)') \in Nat /\ Cardinality(Watching(u)) \in Nat
        BY <1>4, <1>5, WatchingFinite
      <4> QED
        BY <2>2, <3>1, <3>3, <4>1
    <3> QED
      BY <3>2, <3>3
  <2>9. UpstreamCurrent'
    <3> SUFFICES ASSUME NEW p \in Playbacks, NEW x \in SessionIds,
                        Streaming(p), sess[x] # None, sess[x].token = play[p].token
                 PROVE  sess'[x].active = 1 /\ sess'[x].playback = p
      BY <2>4 DEF UpstreamCurrent, Streaming
    <3>1. rec[play[p].token].owner.mode = "timeshift"
      BY DEF SessInv, UpstreamsHeld, Streaming, Held
    <3>2. x # s
      BY <1>8, <2>6, <3>1
    <3> QED
      BY <2>2, <3>2 DEF SessInv, UpstreamCurrent
  <2> QED
    BY <1>2, <1>6, <2>5, <2>8, <2>9 DEF SessInv
<1> QED
  BY <1>7, <1>8

(* A viewer leaves: at most its own hash is counted down, and it no longer streams. *)
LEMMA LeaveKeepsSess ==
  ASSUME SessInv, NEW v \in Viewers, LeaveVod(v)
  PROVE  SessInv'
<1>1. /\ watch[v] # None /\ watch' = [watch EXCEPT ![v] = None] /\ UNCHANGED <<rec, play>>
      /\ watch[v].owner \in Owner
  BY DEF LeaveVod, SessInv, SessShape, Handle
<1>2. CASE Bound(watch[v].token, watch[v].owner) /\ sess[watch[v].owner.home].active >= 1
  <2> DEFINE s == watch[v].owner.home
  <2>1. sess' = [sess EXCEPT ![s].active = @ - 1]
    BY <1>2 DEF LeaveVod
  <2>2. sess[s] # None /\ sess[s].token = watch[v].token
    BY <1>2 DEF Bound
  <2>3. s \in SessionIds
    BY <1>1 DEF SessInv, ViewersHeld, Owner, SessionIds
  <2> HIDE DEF s
  <2> QED
    BY <1>1, <1>2, <2>1, <2>2, <2>3, ViewerGoesKeepsSess DEF s
<1>3. CASE ~(Bound(watch[v].token, watch[v].owner) /\ sess[watch[v].owner.home].active >= 1)
  BY <1>1, <1>3, ViewerGoesKeepsSess DEF LeaveVod
<1> QED
  BY <1>2, <1>3

(* A viewer dies without leaving, so its hash keeps counting it. *)
LEMMA ViewerDiesKeepsSess ==
  ASSUME SessInv, NEW v \in Viewers, ViewerDies(v)
  PROVE  SessInv'
  BY ViewerGoesKeepsSess DEF ViewerDies

(* A viewer joins an active reservation, and its hash counts it. *)
LEMMA JoinKeepsSess ==
  ASSUME SessInv, NEW v \in Viewers, NEW t \in Tokens, NEW o \in Owner, JoinVod(v, t, o)
  PROVE  SessInv'
<1> DEFINE s == o.home
           h == [sess[s] EXCEPT !.active = @ + 1]
           w == [token |-> t, owner |-> o]
<1>1. /\ Held(t, o) /\ o.mode = "vod" /\ sess[s] # None /\ sess[s].token = t
      /\ watch[v] = None /\ sess' = [sess EXCEPT ![s] = h] /\ watch' = [watch EXCEPT ![v] = w]
      /\ UNCHANGED <<rec, play>>
  BY DEF JoinVod, Bound, Owns, Held
<1>2. s \in SessionIds
  BY <1>1 DEF Owner, SessionIds
<1>3. w \in Handle /\ w # None /\ w.token = t /\ w.owner = o
  BY RecordsAreSome DEF Handle
<1>4. /\ h \in Session /\ h.token = sess[s].token /\ h.active = sess[s].active + 1
      /\ h.stopped = sess[s].stopped /\ h # None /\ h.playback = sess[s].playback
  BY <1>1, <1>2, RecordsAreSome DEF SessInv, SessShape, Session
<1> HIDE DEF h, w, s
<1>5. sess'[s] = h /\ \A x \in SessionIds \ {s} : sess'[x] = sess[x]
  BY <1>1, <1>2 DEF SessInv, SessShape
<1>6. watch'[v] = w /\ \A x \in Viewers \ {v} : watch'[x] = watch[x]
  BY <1>1 DEF SessInv, SessShape
<1>7. SessShape'
  BY <1>1, <1>3, <1>4 DEF SessInv, SessShape
<1>8. \A x \in SessionIds : /\ sess'[x] # None <=> sess[x] # None
                            /\ sess[x] # None => sess'[x].token = sess[x].token
                                                 /\ sess'[x].stopped = sess[x].stopped
                                                 /\ sess'[x].playback = sess[x].playback
  BY <1>1, <1>4, <1>5
<1>9. SessionsBound' /\ StopsAttested'
  BY <1>1, <1>8 DEF SessInv, SessionsBound, StopsAttested, Held
<1>10. ViewersHeld'
  BY <1>1, <1>3, <1>6 DEF SessInv, ViewersHeld, Held
<1>11. Watching(t)' = Watching(t) \cup {v} /\ v \notin Watching(t)
  BY <1>1, <1>3, <1>6 DEF Watching
<1>12. \A u : u # t => Watching(u)' = Watching(u)
  BY <1>1, <1>3, <1>6 DEF Watching
<1>13. Cardinality(Watching(t)') = Cardinality(Watching(t)) + 1
  BY <1>11, WatchingFinite, FS_AddElement
<1>14. ViewersCounted'
  <2> SUFFICES ASSUME NEW x \in SessionIds, sess'[x] # None, sess'[x].token # None,
                      rec[sess'[x].token].owner.mode = "vod", NEW u, u = sess[x].token
               PROVE  Cardinality(Watching(u)') <= sess'[x].active
    BY <1>1, <1>8 DEF ViewersCounted, Watching
  <2>1. Cardinality(Watching(u)) <= sess[x].active /\ sess[x].active \in Nat
    BY <1>8 DEF SessInv, SessShape, Session, ViewersCounted
  <2>2. CASE x = s
    BY <1>1, <1>4, <1>5, <1>13, <2>1, <2>2, WatchingFinite
  <2>3. CASE x # s
    <3>1. u # t
      BY <1>1, <1>8, <2>3 DEF SessInv, SessionsBound, Held, s
    <3> QED
      BY <1>5, <1>12, <2>1, <2>3, <3>1
  <2> QED
    BY <2>2, <2>3
<1>15. UpstreamsHeld' /\ OnePlaybackUpstream'
  BY <1>1 DEF SessInv, UpstreamsHeld, OnePlaybackUpstream, Streaming, Held
<1>16. UpstreamCurrent'
  <2> SUFFICES ASSUME NEW p \in Playbacks, NEW x \in SessionIds,
                      Streaming(p), sess[x] # None, sess[x].token = play[p].token
               PROVE  sess'[x].active = 1 /\ sess'[x].playback = p
    BY <1>1, <1>8 DEF UpstreamCurrent, Streaming
  <2>1. rec[play[p].token].owner.mode = "timeshift"
    BY DEF SessInv, UpstreamsHeld, Streaming, Held
  <2>2. x # s
    BY <1>1, <2>1 DEF Held
  <2> QED
    BY <1>5, <2>2 DEF SessInv, UpstreamCurrent
<1> QED
  BY <1>7, <1>9, <1>10, <1>14, <1>15, <1>16 DEF SessInv

-----------------------------------------------------------------------------
(* A binding takes a pending reservation, which no handle knows yet.        *)
LEMMA PendingUnknown ==
  ASSUME SessInv, NEW t \in Tokens, rec[t].state = "pending"
  PROVE  /\ \A x \in SessionIds : sess[x] # None => sess[x].token # t
         /\ \A v \in Viewers : watch[v] # None => watch[v].token # t
         /\ \A p \in Playbacks : Streaming(p) => play[p].token # t
<1>1. \A x \in SessionIds : sess[x] # None => sess[x].token # t
  BY LedgerAssumption DEF SessInv, SessionsBound, Held
<1> QED
  BY <1>1 DEF SessInv, ViewersHeld, UpstreamsHeld, Held

(* What binding a hash to the reservation of its session leaves to show. *)
LEMMA BindingKeepsSess ==
  ASSUME LedgerInv, SessInv, NEW t \in Tokens, NEW o \in Owner, o.home \in SessionIds,
         Owns(o, t), rec[t].state = "pending", o.mode # "live",
         rec' = [rec EXCEPT ![t].state = "active"],
         NEW h \in Session, h.token = t, h.stopped = sess[o.home].stopped,
         sess[o.home] # None, sess' = [sess EXCEPT ![o.home] = h]
  PROVE  /\ ActiveKept /\ Held(t, o)'
         /\ sess'[o.home] = h /\ \A x \in SessionIds \ {o.home} : sess'[x] = sess[x]
         /\ sess' \in [SessionIds -> Session \cup {None}]
         /\ SessionsBound'
         /\ \A x \in SessionIds \ {o.home} : sess[x] # None => sess[x].token # t
         /\ \A p \in Playbacks, x \in SessionIds :
              sess'[x] # None /\ sess'[x].stopped = p => play[p] # None /\ ~play[p].open
<1> DEFINE s == o.home
<1>1. sess'[s] = h /\ \A x \in SessionIds \ {s} : sess'[x] = sess[x]
  BY DEF SessInv, SessShape
<1>2. /\ \A u \in Tokens \ {t} : rec'[u] = rec[u]
      /\ rec'[t] = [rec[t] EXCEPT !.state = "active"] /\ rec[t] \in Record
  BY DEF LedgerInv, LedgerShape, Owns
<1>3. rec'[t] # None /\ rec'[t].state = "active" /\ rec'[t].owner = o
  <2>1. rec'[t] \in Record
    BY <1>2 DEF Record
  <2> QED
    BY <1>2, <2>1, RecordsAreSome DEF Owns, Record
<1>4. ActiveKept
  BY <1>2 DEF ActiveKept
<1>5. Held(t, o)'
  BY <1>3 DEF Held
<1>6. \A x \in SessionIds \ {s} : sess[x] # None => sess[x].token # t
  BY PendingUnknown
<1>7. SessionsBound'
  <2> SUFFICES ASSUME NEW x \in SessionIds, sess'[x] # None, sess'[x].token # None
               PROVE  /\ rec'[sess'[x].token] # None /\ rec'[sess'[x].token].state = "active"
                      /\ rec'[sess'[x].token].owner.mode # "live"
                      /\ rec'[sess'[x].token].owner.home = x
    BY DEF SessionsBound, Held
  <2>1. CASE x = s
    BY <1>1, <1>3, <2>1 DEF Held
  <2>2. CASE x # s
    <3>1. sess[x].token \in Tokens \ {t} /\ sess'[x] = sess[x]
      <4>1. sess'[x] = sess[x]
        BY <1>1, <2>2
      <4>2. sess[x] \in Session
        BY <4>1 DEF SessInv, SessShape
      <4> QED
        BY <1>6, <2>2, <4>1, <4>2 DEF Session
    <3>2. rec'[sess[x].token] = rec[sess[x].token]
      BY <1>2, <3>1
    <3> QED
      BY <3>1, <3>2 DEF SessInv, SessionsBound, Held
  <2> QED
    BY <2>1, <2>2
<1>8. \A p \in Playbacks, x \in SessionIds :
         sess'[x] # None /\ sess'[x].stopped = p => play[p] # None /\ ~play[p].open
  BY <1>1 DEF SessInv, StopsAttested
<1>9. sess' \in [SessionIds -> Session \cup {None}]
  BY DEF SessInv, SessShape
<1> QED
  BY <1>1, <1>4, <1>5, <1>6, <1>7, <1>8, <1>9

(* Binding a VOD session activates a pending reservation, which carries no stream yet. *)
LEMMA BindVodKeepsSess ==
  ASSUME LedgerInv, SessInv, NEW t \in Tokens, NEW o \in Owner, BindVod(t, o)
  PROVE  SessInv'
<1> DEFINE s == o.home
           h == [sess[s] EXCEPT !.token = t, !.life = o.life]
<1>1. /\ o.mode = "vod" /\ Owns(o, t) /\ rec[t].state = "pending" /\ sess[s] # None
      /\ sess' = [sess EXCEPT ![s] = h] /\ rec' = [rec EXCEPT ![t].state = "active"]
      /\ UNCHANGED <<watch, play>>
  BY DEF BindVod, Bindable
<1>2. s \in SessionIds /\ o.life \in Lives
  BY <1>1 DEF Owner, SessionIds
<1>3. /\ h \in Session /\ h.token = t /\ h.stopped = sess[s].stopped
      /\ h.active = sess[s].active /\ h.active \in Nat
  BY <1>1, <1>2 DEF SessInv, SessShape, Session
<1> HIDE DEF h
<1>4. /\ ActiveKept /\ Held(t, o)'
      /\ sess'[s] = h /\ \A x \in SessionIds \ {s} : sess'[x] = sess[x]
      /\ sess' \in [SessionIds -> Session \cup {None}]
      /\ SessionsBound'
      /\ \A x \in SessionIds \ {s} : sess[x] # None => sess[x].token # t
  BY <1>1, <1>2, <1>3, BindingKeepsSess
<1>5. StopsAttested'
  BY <1>1, <1>2, <1>3, BindingKeepsSess DEF StopsAttested
<1> HIDE DEF s
<1>6. SessShape'
  BY <1>1, <1>4 DEF SessInv, SessShape
<1>7. ViewersHeld'
  BY <1>1, <1>4 DEF SessInv, SessShape, Handle, ViewersHeld, ActiveKept, Held
<1>8. Watching(t)' = {} /\ \A u : Watching(u)' = Watching(u)
  BY <1>1, PendingUnknown DEF Watching
<1>9. ViewersCounted'
  <2> SUFFICES ASSUME NEW x \in SessionIds, sess'[x] # None, sess'[x].token # None,
                      rec'[sess'[x].token].owner.mode = "vod", NEW u, u = sess'[x].token
               PROVE  Cardinality(Watching(u)') <= sess'[x].active
    BY DEF ViewersCounted, Watching
  <2>1. CASE x = s
    BY <1>3, <1>4, <1>8, <2>1, FS_EmptySet
  <2>2. CASE x # s
    <3>1. sess'[x] = sess[x] /\ u \in Tokens /\ rec'[u] = rec[u]
      BY <1>4, <2>2 DEF SessInv, SessShape, Session, SessionsBound, ActiveKept, Held
    <3> QED
      BY <1>8, <3>1 DEF SessInv, ViewersCounted
  <2> QED
    BY <2>1, <2>2
<1>10. UpstreamsHeld' /\ OnePlaybackUpstream'
  BY <1>1, <1>4 DEF SessInv, SessShape, Playback, UpstreamsHeld, OnePlaybackUpstream, Streaming,
     ActiveKept, Held
<1>11. UpstreamCurrent'
  <2>1. \A p \in Playbacks : Streaming(p) => play[p].token # t
    BY <1>1, PendingUnknown
  <2> QED
    BY <1>1, <1>3, <1>4, <2>1 DEF SessInv, UpstreamCurrent, Streaming
<1> QED
  BY <1>4, <1>5, <1>6, <1>7, <1>9, <1>10, <1>11 DEF SessInv

-----------------------------------------------------------------------------
(* Playbacks.                                                              *)

(* A playback starts in a pool without a running upstream, and the pool is   *)
(* busy with it.                                                            *)
LEMMA StartedKeepsSess ==
  ASSUME SessInv, ActiveKept, NEW t \in Tokens, NEW o \in Owner, o.mode = "timeshift",
         o.home \in SessionIds, Held(t, o)', NEW q \in Playbacks, Started(q, t, o),
         NEW h \in Session, h.token = t, h.active = 1, h.playback = q,
         sess'[o.home] = h, \A x \in SessionIds \ {o.home} : sess'[x] = sess[x],
         sess' \in [SessionIds -> Session \cup {None}],
         SessionsBound', watch' = watch,
         \A x \in SessionIds \ {o.home} : sess[x] # None => sess[x].token # t,
         \A p \in Playbacks : Streaming(p) => play[p].token # t,
         \A p \in Playbacks, x \in SessionIds :
            sess'[x] # None /\ sess'[x].stopped = p => play[p] # None /\ ~play[p].open
  PROVE  SessInv'
<1> DEFINE n == [token |-> t, owner |-> o, open |-> TRUE]
           s == o.home
<1>1. n \in Playback /\ n # None /\ n.token = t /\ n.owner = o /\ n.open = TRUE
  <2>1. n.token = t /\ n.owner = o /\ n.open = TRUE
    OBVIOUS
  <2>2. n \in Playback
    <3>1. \A a \in Tokens, b \in Owner : [token |-> a, owner |-> b, open |-> TRUE] \in Playback
      BY DEF Playback
    <3> QED
      BY <3>1
  <2>3. None \notin Playback
    BY RecordsAreSome
  <2> HIDE DEF n
  <2> QED
    BY <2>1, <2>2, <2>3
<1>2. play[q] = None /\ play' = [play EXCEPT ![q] = n]
  BY DEF Started
<1> HIDE DEF n
<1>3. play'[q] = n /\ \A p \in Playbacks \ {q} : play'[p] = play[p]
  BY <1>2 DEF SessInv, SessShape
<1>4. SessShape'
  BY <1>1, <1>2 DEF SessInv, SessShape
<1>5. ViewersHeld'
  BY DEF SessInv, SessShape, Handle, ViewersHeld, ActiveKept, Held
<1>6. ViewersCounted'
  <2> SUFFICES ASSUME NEW x \in SessionIds, sess'[x] # None, sess'[x].token # None,
                      rec'[sess'[x].token].owner.mode = "vod", NEW u, u = sess'[x].token
               PROVE  Cardinality(Watching(u)') <= sess'[x].active
    BY DEF ViewersCounted, Watching
  <2>1. Watching(u)' = Watching(u)
    BY DEF Watching
  <2>2. x # s
    BY DEF Held
  <2>3. sess'[x] = sess[x] /\ u \in Tokens /\ rec'[u] = rec[u]
    BY <2>2 DEF SessInv, SessShape, Session, SessionsBound, ActiveKept, Held
  <2> QED
    BY <2>1, <2>3 DEF SessInv, ViewersCounted
<1>7. UpstreamsHeld'
  <2> SUFFICES ASSUME NEW p \in Playbacks, play'[p] # None
               PROVE  /\ play'[p].owner.mode = "timeshift"
                      /\ play'[p].open => /\ rec'[play'[p].token] # None
                                          /\ rec'[play'[p].token].state = "active"
                                          /\ rec'[play'[p].token].owner = play'[p].owner
                                          /\ play'[p].owner.mode # "live"
    BY DEF UpstreamsHeld, Streaming, Held
  <2>1. CASE p = q
    BY <1>1, <1>3, <2>1 DEF Held
  <2>2. CASE p # q
    <3>1. play'[p] = play[p] /\ play[p] \in Playback
      BY <1>3, <2>2 DEF SessInv, SessShape
    <3>2. play[p].token \in Tokens
      BY <3>1 DEF Playback
    <3> QED
      BY <3>1, <3>2 DEF SessInv, UpstreamsHeld, Streaming, ActiveKept, Held
  <2> QED
    BY <2>1, <2>2
<1>8. UpstreamCurrent'
  <2> SUFFICES ASSUME NEW p \in Playbacks, NEW x \in SessionIds, play'[p] # None, play'[p].open,
                      sess'[x] # None, sess'[x].token = play'[p].token
               PROVE  sess'[x].active = 1 /\ sess'[x].playback = p
    BY DEF UpstreamCurrent, Streaming
  <2>1. CASE p = q
    BY <1>1, <1>3, <2>1
  <2>2. CASE p # q
    <3>1. play'[p] = play[p] /\ Streaming(p) /\ play[p].token # t
      BY <1>3, <2>2 DEF Streaming
    <3>2. x # s
      BY <3>1
    <3> QED
      BY <3>1, <3>2 DEF SessInv, UpstreamCurrent
  <2> QED
    BY <2>1, <2>2
<1>9. StopsAttested'
  BY <1>2, <1>3 DEF StopsAttested
<1>10. OnePlaybackUpstream'
  <2> SUFFICES ASSUME NEW p \in Playbacks, NEW r \in Playbacks, p # r,
                      play'[p] # None, play'[r] # None, play'[p].open, play'[r].open,
                      play'[p].token = play'[r].token
               PROVE  FALSE
    BY DEF OnePlaybackUpstream
  <2>1. CASE p = q
    BY <1>1, <1>3, <2>1 DEF Streaming
  <2>2. CASE r = q
    BY <1>1, <1>3, <2>2 DEF Streaming
  <2>3. CASE p # q /\ r # q
    BY <1>3, <2>3 DEF SessInv, OnePlaybackUpstream
  <2> QED
    BY <2>1, <2>2, <2>3
<1> QED
  BY <1>4, <1>5, <1>6, <1>7, <1>8, <1>9, <1>10 DEF SessInv

(* Binding a timeshift pool activates a pending reservation and starts its first playback. *)
LEMMA BindPoolKeepsSess ==
  ASSUME LedgerInv, SessInv, NEW t \in Tokens, NEW o \in Owner, NEW q \in Playbacks,
         BindPool(t, o, q)
  PROVE  SessInv'
<1> DEFINE s == o.home
           h == [sess[s] EXCEPT !.token = t, !.life = o.life, !.playback = q]
<1>1. /\ o.mode = "timeshift" /\ Owns(o, t) /\ rec[t].state = "pending" /\ sess[s] # None
      /\ sess[s].active = 1 /\ sess' = [sess EXCEPT ![s] = h]
      /\ rec' = [rec EXCEPT ![t].state = "active"] /\ Started(q, t, o) /\ watch' = watch
  BY DEF BindPool, Bindable
<1>2. s \in SessionIds /\ o.life \in Lives
  BY <1>1 DEF Owner, SessionIds
<1>3. /\ h \in Session /\ h.token = t /\ h.stopped = sess[s].stopped
      /\ h.active = 1 /\ h.playback = q
  BY <1>1, <1>2 DEF SessInv, SessShape, Session
<1> HIDE DEF h
<1>4. /\ ActiveKept /\ Held(t, o)'
      /\ sess'[s] = h /\ \A x \in SessionIds \ {s} : sess'[x] = sess[x]
      /\ sess' \in [SessionIds -> Session \cup {None}]
      /\ SessionsBound'
      /\ \A x \in SessionIds \ {s} : sess[x] # None => sess[x].token # t
      /\ \A p \in Playbacks, x \in SessionIds :
           sess'[x] # None /\ sess'[x].stopped = p => play[p] # None /\ ~play[p].open
  BY <1>1, <1>2, <1>3, BindingKeepsSess
<1>5. \A p \in Playbacks : Streaming(p) => play[p].token # t
  BY <1>1, PendingUnknown
<1> QED
  BY <1>1, <1>2, <1>3, <1>4, <1>5, StartedKeepsSess

(* A new hash of a bound session keeps the binding. *)
LEMMA RebindKeepsSess ==
  ASSUME SessInv, NEW t \in Tokens, NEW o \in Owner, o.home \in SessionIds, Bound(t, o),
         o.mode # "live", rec' = rec, NEW h \in Session, h.token = t,
         h.stopped = None \/ h.stopped = sess[o.home].stopped
           \/ (h.stopped \in Playbacks /\ play[h.stopped] # None /\ ~play[h.stopped].open),
         sess' = [sess EXCEPT ![o.home] = h]
  PROVE  /\ ActiveKept /\ Held(t, o)'
         /\ sess'[o.home] = h /\ \A x \in SessionIds \ {o.home} : sess'[x] = sess[x]
         /\ sess' \in [SessionIds -> Session \cup {None}]
         /\ SessionsBound'
         /\ \A x \in SessionIds \ {o.home} : sess[x] # None => sess[x].token # t
         /\ \A p \in Playbacks, x \in SessionIds :
              sess'[x] # None /\ sess'[x].stopped = p => play[p] # None /\ ~play[p].open
<1> DEFINE s == o.home
<1>1. sess'[s] = h /\ \A x \in SessionIds \ {s} : sess'[x] = sess[x]
  BY DEF SessInv, SessShape
<1>2. sess' \in [SessionIds -> Session \cup {None}]
  BY DEF SessInv, SessShape
<1>3. Held(t, o) /\ sess[s] # None /\ sess[s].token = t
  BY DEF Bound, Owns, Held
<1>4. ActiveKept /\ Held(t, o)'
  BY <1>3 DEF ActiveKept, Held
<1>5. \A x \in SessionIds \ {s} : sess[x] # None => sess[x].token # t
  BY <1>3, LedgerAssumption DEF SessInv, SessionsBound, Held
<1>6. SessionsBound'
  BY <1>1, <1>3 DEF SessInv, SessionsBound, Held
<1>7. \A p \in Playbacks, x \in SessionIds :
         sess'[x] # None /\ sess'[x].stopped = p => play[p] # None /\ ~play[p].open
  BY <1>1, <1>3, LedgerAssumption DEF SessInv, StopsAttested
<1> QED
  BY <1>1, <1>2, <1>4, <1>5, <1>6, <1>7

(* A pool is claimed when it is idle. *)
LEMMA ClaimPoolKeepsSess ==
  ASSUME SessInv, NEW t \in Tokens, NEW o \in Owner, NEW q \in Playbacks, ClaimPool(t, o, q)
  PROVE  SessInv'
<1> DEFINE s == o.home
           h == [sess[s] EXCEPT !.active = 1, !.playback = q, !.stopped = None]
<1>1. /\ o.mode = "timeshift" /\ Bound(t, o) /\ sess[s] # None /\ sess[s].token = t
      /\ sess[s].active = 0 /\ sess' = [sess EXCEPT ![s] = h]
      /\ rec' = rec /\ Started(q, t, o) /\ watch' = watch
  BY DEF ClaimPool, Bound
<1>2. s \in SessionIds
  BY <1>1 DEF Owner, SessionIds
<1>3. h \in Session /\ h.token = t /\ h.stopped = None /\ h.active = 1 /\ h.playback = q
  BY <1>1, <1>2 DEF SessInv, SessShape, Session
<1>4. \A p \in Playbacks : Streaming(p) => play[p].token # t
  BY <1>1, <1>2 DEF SessInv, UpstreamCurrent
<1> HIDE DEF h
<1>5. /\ ActiveKept /\ Held(t, o)'
      /\ sess'[s] = h /\ \A x \in SessionIds \ {s} : sess'[x] = sess[x]
      /\ sess' \in [SessionIds -> Session \cup {None}]
      /\ SessionsBound'
      /\ \A x \in SessionIds \ {s} : sess[x] # None => sess[x].token # t
      /\ \A p \in Playbacks, x \in SessionIds :
           sess'[x] # None /\ sess'[x].stopped = p => play[p] # None /\ ~play[p].open
  BY <1>1, <1>2, <1>3, RebindKeepsSess
<1> QED
  BY <1>1, <1>2, <1>3, <1>4, <1>5, StartedKeepsSess

(* A pool is superseded when its playback has attested its end. *)
LEMMA SupersedePoolKeepsSess ==
  ASSUME SessInv, NEW t \in Tokens, NEW o \in Owner, NEW p \in Playbacks, NEW q \in Playbacks,
         SupersedePool(t, o, p, q)
  PROVE  SessInv'
<1> DEFINE s == o.home
           h == [sess[s] EXCEPT !.playback = q, !.stopped = None]
<1>1. /\ o.mode = "timeshift" /\ Bound(t, o) /\ sess[s] # None /\ sess[s].token = t
      /\ sess[s].active = 1 /\ sess[s].playback = p /\ sess[s].stopped = p
      /\ sess' = [sess EXCEPT ![s] = h]
      /\ rec' = rec /\ Started(q, t, o) /\ watch' = watch
  BY DEF SupersedePool, Supersedable, Bound
<1>2. s \in SessionIds
  BY <1>1 DEF Owner, SessionIds
<1>3. h \in Session /\ h.token = t /\ h.stopped = None /\ h.active = 1 /\ h.playback = q
  BY <1>1, <1>2 DEF SessInv, SessShape, Session
<1>4. \A r \in Playbacks : Streaming(r) => play[r].token # t
  BY <1>1, <1>2 DEF SessInv, UpstreamCurrent, StopsAttested, Streaming
<1> HIDE DEF h
<1>5. /\ ActiveKept /\ Held(t, o)'
      /\ sess'[s] = h /\ \A x \in SessionIds \ {s} : sess'[x] = sess[x]
      /\ sess' \in [SessionIds -> Session \cup {None}]
      /\ SessionsBound'
      /\ \A x \in SessionIds \ {s} : sess[x] # None => sess[x].token # t
      /\ \A r \in Playbacks, x \in SessionIds :
           sess'[x] # None /\ sess'[x].stopped = r => play[r] # None /\ ~play[r].open
  BY <1>1, <1>2, <1>3, RebindKeepsSess
<1> QED
  BY <1>1, <1>2, <1>3, <1>4, <1>5, StartedKeepsSess

(* A pool becomes idle, or records a stop, after its upstream has ended. *)
LEMMA PoolStopsKeepsSess ==
  ASSUME SessInv, NEW p \in Playbacks, IdlePool(p) \/ AckPoolStop(p)
  PROVE  SessInv'
<1> DEFINE t == play[p].token
           o == play[p].owner
           s == o.home
<1>1. /\ play[p] # None /\ ~play[p].open /\ Bound(t, o) /\ sess[s] # None /\ sess[s].token = t
      /\ sess[s].active = 1 /\ sess[s].playback = p
      /\ UNCHANGED <<rec, watch, play>>
  BY DEF IdlePool, AckPoolStop, CurrentPlayback, Bound
<1>2. t \in Tokens /\ o \in Owner /\ o.mode = "timeshift"
  BY <1>1 DEF SessInv, SessShape, Playback, UpstreamsHeld
<1>3. s \in SessionIds
  BY <1>2 DEF Owner, SessionIds
<1>4. \A r \in Playbacks : Streaming(r) => play[r].token # t
  BY <1>1, <1>3 DEF SessInv, UpstreamCurrent, Streaming
<1>5. PICK h \in Session :
         /\ h.token = t /\ sess' = [sess EXCEPT ![s] = h]
         /\ h.stopped = None \/ (h.stopped \in Playbacks /\ play[h.stopped] # None
                                 /\ ~play[h.stopped].open)
  <2>1. CASE IdlePool(p)
    <3> DEFINE k == [sess[s] EXCEPT !.active = 0, !.stopped = None]
    <3>1. k \in Session /\ k.token = t /\ k.stopped = None
      BY <1>1, <1>3 DEF SessInv, SessShape, Session
    <3>2. sess' = [sess EXCEPT ![s] = k]
      BY <2>1 DEF IdlePool
    <3> QED
      BY <3>1, <3>2
  <2>2. CASE AckPoolStop(p)
    <3> DEFINE k == [sess[s] EXCEPT !.stopped = p]
    <3>1. k \in Session /\ k.token = t /\ k.stopped = p
      BY <1>1, <1>3 DEF SessInv, SessShape, Session
    <3>2. sess' = [sess EXCEPT ![s] = k]
      BY <2>2 DEF AckPoolStop
    <3> QED
      BY <1>1, <3>1, <3>2
  <2> QED
    BY <2>1, <2>2
<1> HIDE DEF t, o, s
<1>6. /\ ActiveKept
      /\ sess'[s] = h /\ \A x \in SessionIds \ {s} : sess'[x] = sess[x]
      /\ sess' \in [SessionIds -> Session \cup {None}]
      /\ SessionsBound'
      /\ \A x \in SessionIds \ {s} : sess[x] # None => sess[x].token # t
      /\ \A r \in Playbacks, x \in SessionIds :
           sess'[x] # None /\ sess'[x].stopped = r => play[r] # None /\ ~play[r].open
  BY <1>1, <1>2, <1>3, <1>5, RebindKeepsSess DEF s
<1>7. rec[t].owner.mode = "timeshift"
  BY <1>1, <1>2 DEF Bound, Owns
<1>8. SessShape' /\ StopsAttested'
  BY <1>1, <1>6 DEF SessInv, SessShape, StopsAttested
<1>9. ViewersHeld' /\ UpstreamsHeld' /\ OnePlaybackUpstream'
  BY <1>1 DEF SessInv, ViewersHeld, UpstreamsHeld, OnePlaybackUpstream, Streaming, Held
<1>10. ViewersCounted'
  BY <1>1, <1>5, <1>6, <1>7 DEF SessInv, ViewersCounted, Watching
<1>11. UpstreamCurrent'
  <2> SUFFICES ASSUME NEW r \in Playbacks, NEW x \in SessionIds, Streaming(r),
                      sess'[x] # None, sess'[x].token = play[r].token
               PROVE  sess'[x].active = 1 /\ sess'[x].playback = r
    BY <1>1 DEF UpstreamCurrent, Streaming
  <2>1. x # s
    BY <1>4, <1>5, <1>6
  <2> QED
    BY <1>6, <2>1 DEF SessInv, UpstreamCurrent
<1> QED
  BY <1>6, <1>8, <1>9, <1>10, <1>11 DEF SessInv

(* The socket of a playback ends. *)
LEMMA CloseUpstreamKeepsSess ==
  ASSUME SessInv, NEW p \in Playbacks, CloseUpstream(p)
  PROVE  SessInv'
<1>1. /\ play[p] # None /\ play[p].open /\ play[p] \in Playback
      /\ play' = [play EXCEPT ![p].open = FALSE] /\ UNCHANGED <<rec, sess, watch>>
  BY DEF CloseUpstream, SessInv, SessShape
<1> DEFINE n == [play[p] EXCEPT !.open = FALSE]
<1>2. n \in Playback /\ n # None /\ ~n.open /\ n.token = play[p].token /\ n.owner = play[p].owner
  BY <1>1, RecordsAreSome DEF Playback
<1>3. play' = [play EXCEPT ![p] = n]
  BY <1>1
<1> HIDE DEF n
<1>4. play'[p] = n /\ \A q \in Playbacks \ {p} : play'[q] = play[q]
  BY <1>3 DEF SessInv, SessShape
<1>5. SessShape'
  BY <1>1, <1>2, <1>3 DEF SessInv, SessShape
<1>6. SessionsBound' /\ ViewersHeld' /\ ViewersCounted'
  BY <1>1 DEF SessInv, SessionsBound, ViewersHeld, ViewersCounted, Watching, Held
<1>7. \A q \in Playbacks : /\ play'[q] # None <=> play[q] # None
                           /\ play[q] # None => play'[q].token = play[q].token
                                                /\ play'[q].owner = play[q].owner
                           /\ play'[q] # None /\ play'[q].open => play'[q] = play[q]
  BY <1>1, <1>2, <1>4
<1>8. UpstreamsHeld'
  BY <1>1, <1>7 DEF SessInv, UpstreamsHeld, Streaming, Held
<1>9. UpstreamCurrent' /\ OnePlaybackUpstream'
  BY <1>1, <1>7 DEF SessInv, UpstreamCurrent, OnePlaybackUpstream, Streaming
<1>10. StopsAttested'
  BY <1>1, <1>2, <1>4 DEF SessInv, StopsAttested
<1> QED
  BY <1>5, <1>6, <1>8, <1>9, <1>10 DEF SessInv

-----------------------------------------------------------------------------
(* Every script of the ledger, and every step of the authority, keeps the invariant of the sessions. *)
LEMMA SessNextInv ==
  ASSUME LedgerInv, SessInv, [LedgerNext]_<<avars, lvars>>
  PROVE  SessInv'
<1>1. CASE UNCHANGED <<avars, lvars>> \/ (AuthorityNext /\ UNCHANGED lvars) \/ SetCutover
  <2>1. UNCHANGED <<rec, session>>
    BY <1>1 DEF lvars, session, SetCutover
  <2>2. ActiveKept
    BY <2>1 DEF ActiveKept
  <2> QED
    BY <2>1, <2>2, SessFrame
<1>2. CASE GenericNext
  BY <1>2, GenericKeepsActive, SessFrame
<1>3. CASE LiveNext
  BY <1>3, LiveKeepsActive, SessFrame
<1>4. ASSUME NEW s \in SessionIds, LoseSession(s) \/ \E d \in Dests : CreateSession(s, d)
      PROVE  SessInv'
  BY <1>4, LoseSessionKeepsSess, CreateSessionKeepsSess
<1>5. ASSUME NEW t \in Tokens, NEW o \in Owner,
             \/ BindVod(t, o)
             \/ \E v \in Viewers : JoinVod(v, t, o)
             \/ \E d \in Dests : CleanupSession(t, o, d)
      PROVE  SessInv'
  BY <1>5, BindVodKeepsSess, JoinKeepsSess, CleanupKeepsSess
<1>6. ASSUME NEW t \in Tokens, NEW o \in Owner,
             \/ \E p \in Playbacks : BindPool(t, o, p) \/ ClaimPool(t, o, p)
             \/ \E p, q \in Playbacks : SupersedePool(t, o, p, q)
      PROVE  SessInv'
  BY <1>6, BindPoolKeepsSess, ClaimPoolKeepsSess, SupersedePoolKeepsSess
<1>7. ASSUME NEW v \in Viewers, LeaveVod(v) \/ ViewerDies(v)
      PROVE  SessInv'
  BY <1>7, LeaveKeepsSess, ViewerDiesKeepsSess
<1>8. ASSUME NEW p \in Playbacks, CloseUpstream(p) \/ IdlePool(p) \/ AckPoolStop(p)
      PROVE  SessInv'
  BY <1>8, CloseUpstreamKeepsSess, PoolStopsKeepsSess
<1>9. CASE SessionNext
  BY <1>4, <1>5, <1>6, <1>7, <1>8, <1>9 DEF SessionNext, SessionIds
<1> QED
  BY <1>1, <1>2, <1>3, <1>9 DEF LedgerNext

(* No session exists yet. *)
LEMMA SessInitInv == EmptyRedis => SessInv
<1> SUFFICES ASSUME EmptyRedis PROVE SessInv
  OBVIOUS
<1>1. SessShape
  BY DEF EmptyRedis, SessShape, SessionIds
<1>2. \A s \in SessionIds : sess[s] = None
  BY DEF EmptyRedis, SessionIds
<1>3. /\ \A v \in Viewers : watch[v] = None
      /\ \A p \in Playbacks : play[p] = None
  BY DEF EmptyRedis
<1> QED
  BY <1>1, <1>2, <1>3 DEF SessInv, SessionsBound, ViewersHeld, ViewersCounted, UpstreamsHeld,
     UpstreamCurrent, StopsAttested, OnePlaybackUpstream, Streaming

(* A running VOD viewer or timeshift upstream keeps its reservation, for any *)
(* number of sessions, lifecycles, viewers and playbacks, and handles of any *)
(* age.                                                                     *)
THEOREM StreamsKeepCapacity == LedgerSpec => []StreamsHoldCapacity
<1>1. SessInv => StreamsHoldCapacity
  BY DEF SessInv, ViewersHeld, UpstreamsHeld, Streaming, Held, StreamsHoldCapacity
<1> QED
  BY <1>1, LedgerInitEmpty, LedgerInitInv, LedgerNextInv, SessInitInv, SessNextInv, PTL DEF LedgerSpec

(* A timeshift reservation never carries two upstreams: a claim finds the    *)
(* pool idle, a supersede finds the end of the current playback attested.    *)
THEOREM OneUpstreamPerReservation == LedgerSpec => []OnePlaybackUpstream
<1>1. SessInv => OnePlaybackUpstream
  BY DEF SessInv
<1> QED
  BY <1>1, LedgerInitEmpty, LedgerInitInv, LedgerNextInv, SessInitInv, SessNextInv, PTL DEF LedgerSpec

(* The operator is the only one who touches the cutover key. *)
LEMMA CutoverBoolean ==
  ASSUME cutover \in BOOLEAN, [LedgerNext]_<<avars, lvars>>
  PROVE  (cutover \in BOOLEAN)'
<1>1. GenericNext => cutover' = cutover
  BY DEF GenericNext, Reserve, ReleaseGeneric, SwitchGeneric
<1>2. LiveNext => cutover' = cutover
  <2>1. \A t \in Tokens, c \in Channels, w \in Leases, d \in Dests :
          ReserveLive(t, c, w, d) \/ ReleasePendingLive(t, c, w, d) => cutover' = cutover
    BY DEF ReserveLive, ReleasePendingLive
  <2>2. \A t \in Tokens, c \in Channels, w \in Leases, e \in 1..MaxEpoch, g \in Generations :
          ActivateLive(t, c, w, e, g) => cutover' = cutover
    BY DEF ActivateLive
  <2>3. \A t \in Tokens, c \in Channels, w \in Leases, d \in Dests, e \in 1..MaxEpoch,
           g \in Generations :
          AckLiveStop(t, c, w, d, e, g) \/ ReleaseActiveLive(t, c, w, d, e, g) => cutover' = cutover
    BY DEF AckLiveStop, ReleaseActiveLive
  <2>4. \A t \in Tokens, c \in Channels, w \in Leases, d \in Dests, e \in Dests, p \in Proof :
          SwitchLive(t, c, w, d, e, p) => cutover' = cutover
    BY DEF SwitchLive
  <2> QED
    BY <2>1, <2>2, <2>3, <2>4 DEF LiveNext
<1>3. Idles => cutover' \in BOOLEAN
  <2>1. \A s : LoseSession(s) \/ (\E d \in Dests : CreateSession(s, d)) => cutover' = cutover
    BY DEF LoseSession, CreateSession
  <2>2. \A t, o : (\E v \in Viewers : JoinVod(v, t, o)) => cutover' = cutover
    BY DEF JoinVod
  <2>3. \A t, o : (\E p \in Playbacks : ClaimPool(t, o, p)) => cutover' = cutover
    BY DEF ClaimPool
  <2>4. \A t, o : (\E p, q \in Playbacks : SupersedePool(t, o, p, q)) => cutover' = cutover
    BY DEF SupersedePool
  <2>5. \A v : LeaveVod(v) \/ ViewerDies(v) => cutover' = cutover
    BY DEF LeaveVod, ViewerDies
  <2>6. \A p : CloseUpstream(p) \/ IdlePool(p) \/ AckPoolStop(p) => cutover' = cutover
    BY DEF CloseUpstream, IdlePool, AckPoolStop
  <2>7. SetCutover => cutover' \in BOOLEAN
    BY DEF SetCutover
  <2> QED
    BY <2>1, <2>2, <2>3, <2>4, <2>5, <2>6, <2>7 DEF Idles
<1>4. \A t \in Tokens, o \in Owner : Binds(t, o) => cutover' = cutover
  BY DEF Binds, BindVod, BindPool
<1>5. \A t \in Tokens, o \in Owner, d \in Dests : CleanupSession(t, o, d) => cutover' = cutover
  BY DEF CleanupSession
<1>6. SessionNext => cutover' \in BOOLEAN
  BY <1>3, <1>4, <1>5, SessionSteps
<1> QED
  BY <1>1, <1>2, <1>6 DEF LedgerNext, SetCutover, lvars

(* Redis holds what the scripts write, whoever calls them with what.         *)
THEOREM LedgerTypes == LedgerSpec => []LedgerTypeOK
<1>1. LedgerInit => AuthorityInit /\ cutover \in BOOLEAN
  BY DEF LedgerInit
<1>2. LedgerSpec => [](LedgerInv /\ SessInv)
  BY LedgerInitEmpty, LedgerInitInv, LedgerNextInv, SessInitInv, SessNextInv, PTL DEF LedgerSpec
<1>3. LedgerSpec => [](AuthorityInv /\ cutover \in BOOLEAN)
  BY <1>1, LedgerSteps, InitInv, NextInv, CutoverBoolean, PTL DEF LedgerSpec
<1>4. AuthorityInv /\ cutover \in BOOLEAN /\ LedgerInv /\ SessInv => LedgerTypeOK
  BY DEF AuthorityInv, LedgerInv, LedgerShape, SessInv, SessShape, SessionIds, LedgerTypeOK
<1> QED
  BY <1>2, <1>3, <1>4, PTL

(***************************************************************************)
(* 4. Verified live channels.                                              *)
(***************************************************************************)
(* The reservation of selection s exists, and the alias of the channel      *)
(* names it.                                                                *)
Reserved(c, s) ==
    /\ rec[s.token] # None /\ rec[s.token].owner = LiveOwner(c, s.lease)
    /\ alias[c] # None /\ alias[c].token = s.token /\ alias[c].lease = s.lease

Binding == {"init", "grant", "activate", "start"}
Joining == {"ack", "clean", "free", "revoke", "disown", "local"}

(* Worker w made the selection, under a lease of its own. *)
Drew(w, s) == s.lease[1] = w /\ s.token \in issued

(* What worker w may rely on while its memory of channel c is r: its        *)
(* selections are its own and different; the one being bound, and the one a *)
(* stream thread or an open reader uses, are reserved; a manager that has   *)
(* been joined stays without thread and reader, and keeps its reservation   *)
(* until it is freed.                                                       *)
Sound(w, c, r) ==
    /\ r.lease # None => r.lease[1] = w
    /\ r.cand # None => Drew(w, r.cand)
    /\ r.mgr # None => Drew(w, r.mgr.sel)
    /\ r.cand # None /\ r.mgr # None => r.cand.token # r.mgr.sel.token
    /\ r.pc \in Binding \cup {"undo", "rollback", "drop"} => r.cand # None
    /\ r.pc \in {"grant", "activate", "undo", "start", "drop"} => r.mgr = None
    /\ r.pc \in {"activate", "start"} => r.epoch # 0
    /\ r.pc \in Binding => Reserved(c, r.cand)
    /\ r.mgr # None /\ (r.mgr.thread \/ r.mgr.open) => Reserved(c, r.mgr.sel)
    /\ r.stop \in Joining \cup {"join"} => r.mgr # None /\ r.mgr.known
    /\ r.stop \in Joining => ~r.mgr.thread /\ ~r.mgr.open
    /\ r.stop \in {"clean", "free"} => Reserved(c, r.mgr.sel)

Memory == loc \in [Workers -> [Channels -> Local]]

Soundness ==
    \A w \in Workers, c \in Channels : \A r \in Local :
        loc[w][c] = r => Sound(w, c, r)

(* The inductive invariant of the channels. *)
ChannelInv ==
    /\ AuthorityInv /\ LedgerInv /\ SessInv /\ cutover \in BOOLEAN
    /\ Memory /\ lives \in 0..MaxLives /\ leaked \in [Workers -> SUBSET Tokens]
    /\ Soundness

(* What a step leaves of the reservations. *)
Kept ==
    /\ issued \subseteq issued'
    /\ \A d \in Channels, s \in Selection : Reserved(d, s) => Reserved(d, s)'

(* Nothing a worker relies on depends on more than its reservations. *)
LEMMA SoundKept ==
  ASSUME NEW v \in Workers, NEW d \in Channels, NEW r \in Local, Sound(v, d, r),
         issued \subseteq issued',
         \A s \in Selection : s.lease[1] = v /\ Reserved(d, s) => Reserved(d, s)'
  PROVE  Sound(v, d, r)'
<1>1. /\ r.cand # None => r.cand \in Selection
      /\ r.mgr # None => r.mgr \in Manager /\ r.mgr.sel \in Selection
  BY DEF Local, Manager
<1>2. /\ r.cand # None => Drew(v, r.cand) /\ Drew(v, r.cand)'
      /\ r.mgr # None => Drew(v, r.mgr.sel) /\ Drew(v, r.mgr.sel)'
  BY DEF Sound, Drew
<1>3. r.pc \in Binding => Reserved(d, r.cand)'
  BY <1>1, <1>2 DEF Sound, Drew
<1>4. /\ r.mgr # None /\ (r.mgr.thread \/ r.mgr.open) => Reserved(d, r.mgr.sel)'
      /\ r.stop \in {"clean", "free"} => Reserved(d, r.mgr.sel)'
  BY <1>1, <1>2 DEF Sound, Drew, Joining
<1> QED
  BY <1>2, <1>3, <1>4 DEF Sound

(* A step of one worker that leaves what the others rely on. *)
LEMMA OwnStep ==
  ASSUME Memory, Soundness, NEW w \in Workers, NEW c \in Channels, NEW q \in Local,
         Set(w, c, q), Sound(w, c, q)', issued \subseteq issued',
         \A v \in Workers, d \in Channels, s \in Selection :
            (v # w \/ d # c) /\ s.lease[1] = v /\ Reserved(d, s) => Reserved(d, s)'
  PROVE  Memory' /\ Soundness'
<1>1. Memory'
  BY DEF Memory, Set
<1>2. ASSUME NEW v \in Workers, NEW d \in Channels, NEW r \in Local, loc'[v][d] = r
      PROVE  Sound(v, d, r)'
  <2>1. CASE v = w /\ d = c
    <3>1. r = q
      BY <1>2, <2>1 DEF Memory, Set
    <3> QED
      BY <2>1, <3>1
  <2>2. CASE v # w \/ d # c
    <3>1. loc[v][d] = r
      BY <1>2, <2>2 DEF Memory, Set
    <3>2. Sound(v, d, r)
      BY <3>1 DEF Soundness
    <3> QED
      BY <2>2, <3>2, SoundKept
  <2> QED
    BY <2>1, <2>2
<1> QED
  BY <1>1, <1>2 DEF Soundness

(* A step of one worker that leaves every reservation. *)
LEMMA QuietStep ==
  ASSUME Memory, Soundness, NEW w \in Workers, NEW c \in Channels, NEW q \in Local,
         Set(w, c, q), Sound(w, c, q), Kept
  PROVE  Memory' /\ Soundness'
<1>1. Sound(w, c, q)'
  BY SoundKept DEF Kept
<1> QED
  BY <1>1, OwnStep DEF Kept

(* What a worker remembers before a step. *)
LEMMA Recall ==
  ASSUME Memory, Soundness, NEW w \in Workers, NEW c \in Channels
  PROVE  /\ loc[w][c] \in Local /\ Sound(w, c, loc[w][c])
         /\ \A m : SetMgr(w, c, m) => Set(w, c, [loc[w][c] EXCEPT !.mgr = m])
  BY DEF Memory, Soundness, SetMgr, Set

(* A step that leaves the ledger alone keeps every reservation. *)
LEMMA UnchangedKept == ASSUME UNCHANGED lvars PROVE Kept
  BY DEF Kept, Reserved, lvars

(* Setting a channel up, up to the reservation. *)
LEMMA SetupKeeps ==
  ASSUME Memory, Soundness, lives \in 0..MaxLives, NEW w \in Workers, NEW c \in Channels,
         CheckAlias(w, c) \/ TryAcquire(w, c) \/ SelectFails(w, c) \/ GiveUp(w, c)
  PROVE  Memory' /\ Soundness'
<1> DEFINE r == loc[w][c]
<1>1. r \in Local /\ Sound(w, c, r)
  BY Recall
<1>2. UNCHANGED lvars
  BY DEF CheckAlias, TryAcquire, SelectFails, GiveUp, redis
<1>3. Kept
  BY <1>2, UnchangedKept
<1>4. CASE CheckAlias(w, c)
  <2> DEFINE q == [r EXCEPT !.pc = "acquire"]
  <2>1. q \in Local /\ Sound(w, c, q)
    BY <1>1 DEF Local, Sound, Binding, Joining
  <2>2. Set(w, c, q)
    BY <1>4 DEF CheckAlias
  <2> QED
    BY <1>3, <2>1, <2>2, QuietStep
<1>5. CASE SelectFails(w, c)
  <2> DEFINE q == [r EXCEPT !.pc = "giveup"]
  <2>1. q \in Local /\ Sound(w, c, q)
    BY <1>1 DEF Local, Sound, Binding, Joining
  <2>2. Set(w, c, q)
    BY <1>5 DEF SelectFails
  <2> QED
    BY <1>3, <2>1, <2>2, QuietStep
<1>6. CASE GiveUp(w, c)
  <2> DEFINE q == [r EXCEPT !.pc = "idle", !.cand = None]
             n == [q EXCEPT !.lease = None]
  <2>1. q \in Local /\ Sound(w, c, q)
    BY <1>1 DEF Local, Sound, Binding, Joining
  <2>2. n \in Local /\ Sound(w, c, n)
    BY <1>1 DEF Local, Sound, Binding, Joining
  <2>3. Set(w, c, q) \/ Set(w, c, n)
    BY <1>6 DEF GiveUp, ReleaseOwnership
  <2> QED
    BY <1>3, <2>1, <2>2, <2>3, QuietStep
<1>7. CASE TryAcquire(w, c)
  <2>1. ASSUME lives < MaxLives,
               Set(w, c, [r EXCEPT !.lease = <<w, lives + 1>>, !.pc = "reserve"])
        PROVE  Memory' /\ Soundness'
    <3> DEFINE l == <<w, lives + 1>>
               q == [r EXCEPT !.lease = l, !.pc = "reserve"]
    <3>1. l \in Leases /\ l[1] = w
      BY <2>1, LeasesAreFresh
    <3> HIDE DEF l
    <3>2. q \in Local
      BY <1>1, <3>1 DEF Local
    <3>3. /\ q.lease = l /\ q.cand = r.cand /\ q.mgr = r.mgr /\ q.pc = "reserve"
          /\ q.stop = r.stop
      BY <1>1 DEF Local
    <3>4. Set(w, c, q)
      BY <2>1 DEF l
    <3> HIDE DEF q
    <3>5. Sound(w, c, q)
      BY <1>1, <3>1, <3>3 DEF Sound, Binding, Joining
    <3> QED
      BY <1>3, <3>2, <3>4, <3>5, QuietStep
  <2>2. ASSUME Set(w, c, [r EXCEPT !.pc = "reserve"]) PROVE Memory' /\ Soundness'
    <3> DEFINE q == [r EXCEPT !.pc = "reserve"]
    <3>1. q \in Local /\ Sound(w, c, q)
      BY <1>1 DEF Local, Sound, Binding, Joining
    <3> QED
      BY <1>3, <2>2, <3>1, QuietStep
  <2>3. ASSUME NEW m, m = r.mgr \/ (r.mgr # None /\ m = [r.mgr EXCEPT !.failed = TRUE]),
               Set(w, c, [r EXCEPT !.pc = "idle", !.mgr = m])
        PROVE  Memory' /\ Soundness'
    <3> DEFINE q == [r EXCEPT !.pc = "idle", !.mgr = m]
    <3>0. r.mgr # None => r.mgr \in Manager
      BY <1>1 DEF Local
    <3>9. r.mgr # None => [r.mgr EXCEPT !.failed = TRUE] \in Manager
      BY <3>0 DEF Manager
    <3>1. m \in Manager \cup {None} /\ (m = None <=> r.mgr = None)
      BY <2>3, <3>0, <3>9, SelectionsAreSome
    <3>2. m # None => /\ m.sel = r.mgr.sel /\ m.known = r.mgr.known
                      /\ m.thread = r.mgr.thread /\ m.open = r.mgr.open
      BY <2>3, <3>0, <3>1 DEF Manager
    <3>3. q \in Local
      BY <1>1, <3>1 DEF Local
    <3>4. /\ q.lease = r.lease /\ q.cand = r.cand /\ q.mgr = m /\ q.pc = "idle"
          /\ q.stop = r.stop
      BY <1>1 DEF Local
    <3>5. Sound(w, c, q)
      BY <1>1, <3>1, <3>2, <3>4 DEF Sound, Binding, Joining
    <3> QED
      BY <1>3, <2>3, <3>3, <3>5, QuietStep
  <2> QED
    BY <1>7, <2>1, <2>2, <2>3 DEF TryAcquire
<1> QED
  BY <1>4, <1>5, <1>6, <1>7

(* Binding the reservation to a generation and starting the manager. *)
LEMMA InitializeKeeps ==
  ASSUME Memory, Soundness, NEW w \in Workers, NEW c \in Channels, Initialize(w, c)
  PROVE  Memory' /\ Soundness'
<1> DEFINE r == loc[w][c]
           a == [r EXCEPT !.pc = "grant", !.sel = r.cand]
           b == [r EXCEPT !.pc = "rollback", !.sel = r.cand]
           d == [r EXCEPT !.pc = "rollback"]
<1>1. r \in Local /\ Sound(w, c, r) /\ r.pc = "init"
  BY Recall DEF Initialize
<1>2. Kept
  BY UnchangedKept DEF Initialize, redis
<1>3. r.mgr = None => a \in Local /\ Sound(w, c, a)
  BY <1>1 DEF Local, Sound, Binding, Joining
<1>4. b \in Local /\ Sound(w, c, b)
  BY <1>1 DEF Local, Sound, Binding, Joining
<1>5. d \in Local /\ Sound(w, c, d)
  BY <1>1 DEF Local, Sound, Binding, Joining
<1>6. (r.mgr = None /\ Set(w, c, a)) \/ Set(w, c, b) \/ Set(w, c, d)
  BY DEF Initialize
<1> HIDE DEF a, b, d
<1> QED
  BY <1>2, <1>3, <1>4, <1>5, <1>6, QuietStep

(* Taking the grant changes the place of the request and the epoch it remembers. *)
LEMMA BindGrantKeeps ==
  ASSUME AuthorityTypeOK, Memory, Soundness, NEW w \in Workers, NEW c \in Channels, BindGrant(w, c)
  PROVE  Memory' /\ Soundness'
<1> DEFINE r == loc[w][c]
           a == [r EXCEPT !.pc = "activate", !.epoch = epoch[c] + 1]
           b == [r EXCEPT !.pc = "rollback"]
<1>1. r \in Local /\ Sound(w, c, r) /\ r.pc = "grant"
  BY Recall DEF BindGrant
<1>2. Kept
  BY UnchangedKept DEF BindGrant
<1>3. Acquire(c, r.cand.lease) => epoch'[c] = epoch[c] + 1 /\ epoch[c] + 1 \in 1..MaxEpoch
  BY AuthorityAssumption DEF Acquire, AuthorityTypeOK
<1>4. ASSUME epoch[c] + 1 \in 1..MaxEpoch PROVE a \in Local /\ Sound(w, c, a)
  <2> DEFINE n == epoch[c] + 1
  <2>1. n \in 0..MaxEpoch /\ n # 0
    BY <1>4, AuthorityAssumption
  <2> HIDE DEF n
  <2>2. [r EXCEPT !.pc = "activate", !.epoch = n] \in Local
    BY <1>1, <2>1 DEF Local
  <2>3. Sound(w, c, [r EXCEPT !.pc = "activate", !.epoch = n])
    BY <1>1, <2>1 DEF Local, Sound, Binding, Joining
  <2> QED
    BY <2>2, <2>3 DEF n
<1>5. b \in Local /\ Sound(w, c, b)
  BY <1>1 DEF Local, Sound, Binding, Joining
<1>6. (epoch[c] + 1 \in 1..MaxEpoch /\ Set(w, c, a)) \/ Set(w, c, b)
  BY <1>3 DEF BindGrant
<1> HIDE DEF a, b
<1> QED
  BY <1>2, <1>4, <1>5, <1>6, QuietStep

(* Activating the generation, or undoing what was acquired, moves the request alone. *)
LEMMA BindingKeeps ==
  ASSUME Memory, Soundness, NEW w \in Workers, NEW c \in Channels,
         BindGeneration(w, c) \/ UndoGrant(w, c) \/ Rollback(w, c)
  PROVE  Memory' /\ Soundness'
<1> DEFINE r == loc[w][c]
           a == [r EXCEPT !.pc = "start"]
           b == [r EXCEPT !.pc = "undo"]
           d == [r EXCEPT !.pc = "rollback", !.epoch = 0]
           e == [r EXCEPT !.pc = "drop"]
           f == [r EXCEPT !.pc = "idle", !.cand = None]
<1>1. r \in Local /\ Sound(w, c, r)
  BY Recall
<1>2. Kept
  BY UnchangedKept DEF BindGeneration, UndoGrant, Rollback, redis
<1>3. r.pc = "activate" => a \in Local /\ Sound(w, c, a) /\ b \in Local /\ Sound(w, c, b)
  BY <1>1 DEF Local, Sound, Binding, Joining
<1>0. 0 \in 0..MaxEpoch
  BY AuthorityAssumption
<1>4. r.pc = "undo" => d \in Local /\ Sound(w, c, d)
  <2>1. d \in Local
    BY <1>0, <1>1 DEF Local
  <2>2. r.pc = "undo" => Sound(w, c, d)
    BY <1>1 DEF Local, Sound, Binding, Joining
  <2> QED
    BY <2>1, <2>2
<1>5. r.pc = "rollback" /\ r.mgr = None => e \in Local /\ Sound(w, c, e)
  BY <1>1 DEF Local, Sound, Binding, Joining
<1>6. f \in Local /\ Sound(w, c, f)
  BY <1>1 DEF Local, Sound, Binding, Joining
<1>7. \/ r.pc = "activate" /\ (Set(w, c, a) \/ Set(w, c, b))
      \/ r.pc = "undo" /\ Set(w, c, d)
      \/ r.pc = "rollback" /\ r.mgr = None /\ Set(w, c, e)
      \/ Set(w, c, f)
  BY DEF BindGeneration, UndoGrant, Rollback, MayRollback
<1> HIDE DEF a, b, d, e, f
<1> QED
  BY <1>2, <1>3, <1>4, <1>5, <1>6, <1>7, QuietStep

(* Starting the stream thread hands the reservation from the request to the manager. *)
LEMMA StartKeeps ==
  ASSUME Memory, Soundness, NEW w \in Workers, NEW c \in Channels, Start(w, c)
  PROVE  Memory' /\ Soundness'
<1> DEFINE r == loc[w][c]
           m == [sel |-> r.cand, epoch |-> r.epoch, known |-> TRUE, stopping |-> FALSE,
                 failed |-> FALSE, active |-> FALSE, thread |-> TRUE, open |-> FALSE,
                 step |-> "check"]
           q == [r EXCEPT !.pc = "idle", !.cand = None, !.epoch = 0, !.started = TRUE, !.mgr = m]
<1>1. r \in Local /\ Sound(w, c, r) /\ r.pc = "start"
  BY Recall DEF Start
<1>2. r.cand # None /\ r.cand \in Selection /\ r.epoch # 0 /\ r.epoch \in 0..MaxEpoch
  BY <1>1 DEF Sound, Local, Binding
<1>0. 0 \in 0..MaxEpoch /\ r.epoch \in 1..MaxEpoch
  BY <1>2, AuthorityAssumption
<1>3. m \in Manager /\ m # None
  <2>1. m \in Manager
    BY <1>0, <1>2 DEF Manager
  <2> QED
    BY <2>1, SelectionsAreSome
<1> HIDE DEF m
<1>4. q \in Local
  BY <1>0, <1>1, <1>3 DEF Local
<1>5. /\ q.lease = r.lease /\ q.cand = None /\ q.mgr = m /\ q.pc = "idle" /\ q.stop = r.stop
      /\ m.sel = r.cand /\ m.known = TRUE /\ m.thread = TRUE
  BY <1>1 DEF Local, m
<1>6. r.mgr = None /\ Reserved(c, r.cand) /\ Drew(w, r.cand)
  BY <1>1, <1>2 DEF Sound, Binding
<1>7. Set(w, c, q) /\ Kept
  BY UnchangedKept DEF Start, redis, m
<1> HIDE DEF q
<1>8. Sound(w, c, q)
  BY <1>1, <1>3, <1>5, <1>6 DEF Sound, Binding, Joining
<1> QED
  BY <1>4, <1>7, <1>8, QuietStep

(* The reservation is made for a channel without an alias, so for no other  *)
(* selection of the channel.                                                *)
LEMMA SelectKeeps ==
  ASSUME LedgerInv, Memory, Soundness, NEW w \in Workers, NEW c \in Channels,
         NEW t \in Tokens, NEW d \in Dests, Select(w, c, t, d)
  PROVE  Memory' /\ Soundness'
<1>0. PICK r \in Local : loc[w][c] = r
  BY Recall
<1> DEFINE s == [token |-> t, dest |-> d, lease |-> r.lease]
           q == [r EXCEPT !.pc = "init", !.cand = s]
<1>1. r \in Local /\ Sound(w, c, r) /\ r.lease # None
  BY <1>0, Recall DEF Select
<1>2. r.lease \in Leases /\ r.lease[1] = w
  BY <1>1 DEF Local, Sound
<1>3. s \in Selection /\ s # None
  <2>1. s \in Selection
    BY <1>2 DEF Selection
  <2> QED
    BY <2>1, SelectionsAreSome
<1>4. /\ t \notin issued /\ issued' = issued \cup {t}
      /\ alias[c] = None
      /\ alias' = [alias EXCEPT ![c] = [token |-> t, lease |-> r.lease, dest |-> d,
                                        stopped |-> None]]
      /\ rec' = [rec EXCEPT ![t] = NewRecord(LiveOwner(c, r.lease), d, c)]
      /\ Set(w, c, q)
  BY <1>0 DEF Select, ReserveLive, Allocate
<1>5. LedgerShape /\ rec[t] = None
  BY <1>4 DEF LedgerInv, TokensFresh
<1>6. /\ alias'[c] = [token |-> t, lease |-> r.lease, dest |-> d, stopped |-> None]
      /\ rec'[t] = NewRecord(LiveOwner(c, r.lease), d, c)
      /\ \A u \in Tokens : u # t => rec'[u] = rec[u]
      /\ \A e \in Channels : e # c => alias'[e] = alias[e]
  BY <1>4, <1>5 DEF LedgerShape
<1>7. rec'[t] # None /\ rec'[t].owner = LiveOwner(c, r.lease)
  <2>1. NewRecord(LiveOwner(c, r.lease), d, c) \in Record
    BY <1>2 DEF NewRecord, Record, LiveOwner, Owner, Proof
  <2> QED
    BY <1>6, <2>1, RecordsAreSome DEF NewRecord
<1>8. alias'[c] # None
  <2>1. alias'[c] \in Alias
    BY <1>2, <1>6 DEF Alias, Proof
  <2> QED
    BY <2>1, RecordsAreSome
<1>9. \A x \in Selection : x.token = t /\ x.lease = r.lease => Reserved(c, x)'
  BY <1>6, <1>7, <1>8 DEF Reserved
<1>10. Reserved(c, s)'
  BY <1>3, <1>9
<1>11. \A e \in Channels, x \in Selection : Reserved(e, x) => Reserved(e, x)'
  BY <1>4, <1>5, <1>6 DEF Reserved, Selection
<1>12. q \in Local
  BY <1>1, <1>3 DEF Local
<1>13. /\ q.lease = r.lease /\ q.cand = s /\ q.mgr = r.mgr /\ q.pc = "init"
       /\ q.stop = r.stop /\ s.lease = r.lease /\ s.token = t
  BY <1>1 DEF Local
<1> HIDE DEF q, s
<1>14. \A x : ~Reserved(c, x)
  BY <1>4 DEF Reserved
<1>15. /\ Drew(w, s)'
       /\ r.mgr # None => Drew(w, r.mgr.sel) /\ t # r.mgr.sel.token
       /\ r.mgr # None => ~r.mgr.thread /\ ~r.mgr.open
       /\ r.stop \notin {"clean", "free"}
       /\ r.stop \in Joining \cup {"join"} => r.mgr # None /\ r.mgr.known
       /\ r.stop \in Joining => ~r.mgr.thread /\ ~r.mgr.open
  BY <1>1, <1>2, <1>4, <1>13, <1>14 DEF Sound, Drew
<1>16. \A x : Drew(w, x) => Drew(w, x)'
  BY <1>4 DEF Drew
<1>17. Sound(w, c, q)'
  BY <1>1, <1>3, <1>10, <1>13, <1>15, <1>16 DEF Sound, Binding, Joining
<1> QED
  BY <1>1, <1>4, <1>11, <1>12, <1>17, OwnStep

(* A release takes the reservation of the worker that calls it, and no      *)
(* other.                                                                   *)
LEMMA ReleasedOnly ==
  ASSUME LedgerInv, NEW w \in Workers, NEW c \in Channels, NEW s \in Selection, s.lease[1] = w,
         Assigned(s.token, c, s.lease), Drop(s.token, LiveOwner(c, s.lease), s.dest),
         alias' = [alias EXCEPT ![c] = None]
  PROVE  /\ \A x \in Selection : Reserved(c, x) => x.token = s.token
         /\ \A v \in Workers, d \in Channels, x \in Selection :
              (v # w \/ d # c) /\ x.lease[1] = v /\ Reserved(d, x) => Reserved(d, x)'
<1>1. /\ rec[s.token].owner = LiveOwner(c, s.lease)
      /\ alias[c].token = s.token /\ alias[c].lease = s.lease
  BY DEF Assigned, Owns
<1>2. LedgerShape /\ s.token \in Tokens
  BY DEF LedgerInv, Selection
<1>3. /\ \A u \in Tokens : u # s.token => rec'[u] = rec[u]
      /\ \A d \in Channels : d # c => alias'[d] = alias[d]
  BY <1>2 DEF Drop, LedgerShape
<1>4. ASSUME NEW v \in Workers, NEW d \in Channels, NEW x \in Selection,
             v # w \/ d # c, x.lease[1] = v, Reserved(d, x)
      PROVE  Reserved(d, x)'
  <2>1. d # c
    BY <1>1, <1>4 DEF Reserved
  <2>2. x.token # s.token
    BY <1>1, <1>4, <2>1 DEF Reserved, LiveOwner
  <2>3. x.token \in Tokens
    BY DEF Selection
  <2> QED
    BY <1>3, <1>4, <2>1, <2>2, <2>3 DEF Reserved
<1>5. \A x \in Selection : Reserved(c, x) => x.token = s.token
  BY <1>1 DEF Reserved
<1> QED
  BY <1>4, <1>5

(* A rollback gives back the reservation of its own worker, which no manager holds. *)
LEMMA DropPendingKeeps ==
  ASSUME LedgerInv, Memory, Soundness, NEW w \in Workers, NEW c \in Channels, DropPending(w, c)
  PROVE  Memory' /\ Soundness'
<1>0. PICK r \in Local : loc[w][c] = r
  BY Recall
<1>1. Sound(w, c, r) /\ r.pc = "drop"
  BY <1>0, Recall DEF DropPending
<1>2. PICK s \in Selection : r.cand = s
  BY <1>1 DEF Sound, Local
<1>3. s.lease[1] = w /\ r.mgr = None
  BY <1>1, <1>2, SelectionsAreSome DEF Sound, Drew
<1> DEFINE a == [r EXCEPT !.pc = "giveup", !.sel = None]
           b == [r EXCEPT !.pc = "idle", !.cand = None]
<1>4. CASE ReleasePendingLive(s.token, c, s.lease, s.dest) /\ Set(w, c, a)
  <2>1. \A v \in Workers, d \in Channels, x \in Selection :
          (v # w \/ d # c) /\ x.lease[1] = v /\ Reserved(d, x) => Reserved(d, x)'
    BY <1>3, <1>4, ReleasedOnly DEF ReleasePendingLive
  <2>2. issued' = issued
    BY <1>4 DEF ReleasePendingLive
  <2>3. a \in Local
    BY <1>1 DEF Local
  <2>4. /\ a.lease = r.lease /\ a.cand = r.cand /\ a.mgr = r.mgr /\ a.pc = "giveup"
        /\ a.stop = r.stop
    BY <1>1 DEF Local
  <2> HIDE DEF a
  <2>5. Sound(w, c, a)'
    BY <1>1, <1>3, <2>2, <2>4 DEF Sound, Drew, Binding, Joining
  <2> QED
    BY <1>4, <2>1, <2>2, <2>3, <2>5, OwnStep
<1>5. CASE UNCHANGED redis /\ Set(w, c, b)
  <2>1. b \in Local /\ Sound(w, c, b)
    BY <1>1 DEF Local, Sound, Binding, Joining
  <2> QED
    BY <1>5, <2>1, UnchangedKept, QuietStep DEF redis
<1> QED
  BY <1>0, <1>2, <1>4, <1>5 DEF DropPending

(* stop_channel frees its reservation after thread and reader have ended. *)
LEMMA FreeReservationKeeps ==
  ASSUME LedgerInv, Memory, Soundness, NEW w \in Workers, NEW c \in Channels, FreeReservation(w, c)
  PROVE  Memory' /\ Soundness'
<1>0. PICK r \in Local : loc[w][c] = r
  BY Recall
<1>1. Sound(w, c, r) /\ r.stop = "free"
  BY <1>0, Recall DEF FreeReservation, StopAt
<1>2. PICK m \in Manager : r.mgr = m
  BY <1>1 DEF Sound, Local, Joining
<1>3. PICK s \in Selection : m.sel = s
  BY DEF Manager
<1>4. s.lease[1] = w /\ ~m.thread /\ ~m.open /\ m.known /\ m # None
  BY <1>1, <1>2, <1>3, SelectionsAreSome DEF Sound, Drew, Joining
<1> DEFINE a == [r EXCEPT !.stop = "revoke", !.sel = None, !.started = FALSE]
           b == [r EXCEPT !.stop = "final"]
<1>5. a \in Local /\ b \in Local
  BY <1>1 DEF Local
<1>6. /\ a.lease = r.lease /\ a.cand = r.cand /\ a.mgr = m /\ a.pc = r.pc
      /\ a.stop = "revoke" /\ a.epoch = r.epoch
      /\ b.lease = r.lease /\ b.cand = r.cand /\ b.mgr = m /\ b.pc = r.pc
      /\ b.stop = "final" /\ b.epoch = r.epoch
  BY <1>2 DEF Local
<1> HIDE DEF a, b
<1>7. CASE ReleaseActiveLive(s.token, c, s.lease, s.dest, m.epoch, m.epoch)
           /\ (Set(w, c, a) \/ Set(w, c, b))
  <2>1. /\ \A x \in Selection : Reserved(c, x) => x.token = s.token
        /\ \A v \in Workers, d \in Channels, x \in Selection :
             (v # w \/ d # c) /\ x.lease[1] = v /\ Reserved(d, x) => Reserved(d, x)'
    BY <1>4, <1>7, ReleasedOnly DEF ReleaseActiveLive, ActiveUnder
  <2>2. issued' = issued
    BY <1>7 DEF ReleaseActiveLive
  <2>3. r.pc \notin Binding
    <3>1. r.cand # None => r.cand \in Selection /\ r.cand.token # s.token
      BY <1>1, <1>2, <1>3, <1>4 DEF Sound, Local
    <3> QED
      BY <1>1, <2>1, <3>1 DEF Sound
  <2>4. Sound(w, c, a)' /\ Sound(w, c, b)'
    BY <1>1, <1>2, <1>4, <1>6, <2>2, <2>3 DEF Sound, Drew, Joining, Binding
  <2> QED
    BY <1>5, <1>7, <2>1, <2>2, <2>4, OwnStep
<1>8. CASE UNCHANGED redis /\ Set(w, c, b)
  <2>1. Sound(w, c, b)
    BY <1>1, <1>2, <1>6 DEF Sound, Joining
  <2> QED
    BY <1>5, <1>8, <2>1, UnchangedKept, QuietStep DEF redis
<1> QED
  BY <1>0, <1>2, <1>3, <1>7, <1>8 DEF FreeReservation, StopGoes, a, b

(* Promotion changes the state of a record and attestation the stop of an   *)
(* alias; neither gives a reservation away.                                 *)
LEMMA PromotionKept ==
  ASSUME LedgerInv, NEW t \in Tokens, NEW c \in Channels, NEW l \in Leases,
         NEW e \in 1..MaxEpoch, NEW g \in Generations,
         \/ ActivateLive(t, c, l, e, g)
         \/ \E d \in Dests : AckLiveStop(t, c, l, d, e, g)
  PROVE  Kept
<1>1. LedgerShape
  BY DEF LedgerInv
<1>2. <<e, g>> \in Provenance
  BY DEF Provenance
<1>3. CASE ActivateLive(t, c, l, e, g)
  <2>1. rec[t] \in Record /\ rec[t] # None
    BY <1>1, <1>3 DEF ActivateLive, Owns, LedgerShape
  <2>2. PICK n \in Record : n = [rec[t] EXCEPT !.state = "active", !.proof = <<e, g>>]
    BY <1>2, <2>1 DEF Record, Proof
  <2>3. n.owner = rec[t].owner /\ n # None
    BY <2>1, <2>2, RecordsAreSome DEF Record
  <2>4. rec' = [rec EXCEPT ![t] = n] /\ alias' = alias /\ issued' = issued
    BY <1>1, <1>3, <2>2 DEF ActivateLive, LedgerShape
  <2>5. rec'[t] = n /\ \A u \in Tokens : u # t => rec'[u] = rec[u]
    BY <1>1, <2>4 DEF LedgerShape
  <2> QED
    BY <2>3, <2>4, <2>5 DEF Kept, Reserved, Selection
<1>4. ASSUME NEW d \in Dests, AckLiveStop(t, c, l, d, e, g) PROVE Kept
  <2>1. alias[c] \in Alias /\ alias[c] # None
    BY <1>1, <1>4 DEF AckLiveStop, ActiveUnder, Assigned, LedgerShape
  <2>2. PICK n \in Alias : n = [alias[c] EXCEPT !.stopped = <<e, g>>]
    BY <1>2, <2>1 DEF Alias, Proof
  <2>3. n.token = alias[c].token /\ n.lease = alias[c].lease /\ n # None
    BY <2>1, <2>2, RecordsAreSome DEF Alias
  <2>4. alias' = [alias EXCEPT ![c] = n] /\ rec' = rec /\ issued' = issued
    BY <1>1, <1>4, <2>2 DEF AckLiveStop, LedgerShape
  <2>5. alias'[c] = n /\ \A d2 \in Channels : d2 # c => alias'[d2] = alias[d2]
    BY <1>1, <2>4 DEF LedgerShape
  <2> QED
    BY <2>3, <2>4, <2>5 DEF Kept, Reserved, Selection
<1> QED
  BY <1>3, <1>4

(* A manager with the same selection, which neither comes back to life nor  *)
(* opens a reader without a thread.                                         *)
LEMMA ManagerSound ==
  ASSUME NEW w \in Workers, NEW c \in Channels, NEW r \in Local, Sound(w, c, r),
         NEW m \in Manager, r.mgr = m, NEW n \in Manager, n.sel = m.sel,
         n.thread => m.thread, n.open => m.open \/ m.thread,
         NEW q \in Local, q.lease = r.lease, q.cand = r.cand, q.pc = r.pc, q.epoch = r.epoch,
         q.mgr = n,
         q.stop \in Joining \cup {"join"} => n.known,
         q.stop \in Joining => ~n.thread /\ ~n.open,
         q.stop \in {"clean", "free"} => Reserved(c, n.sel)
  PROVE  Sound(w, c, q)
<1>1. m # None /\ n # None
  BY SelectionsAreSome
<1> QED
  BY <1>1 DEF Sound

(* A step of the stream thread, which connects only while the thread lives. *)
LEMMA ThreadStep ==
  ASSUME Memory, Soundness, Kept, NEW w \in Workers, NEW c \in Channels,
         NEW r \in Local, loc[w][c] = r, NEW m \in Manager, r.mgr = m,
         NEW n \in Manager, n.sel = m.sel, n.known = m.known,
         n.thread => m.thread, n.open => m.open \/ m.thread, SetMgr(w, c, n)
  PROVE  Memory' /\ Soundness'
<1> DEFINE q == [r EXCEPT !.mgr = n]
<1>1. Set(w, c, q) /\ Sound(w, c, r)
  BY Recall
<1>2. q \in Local
  BY DEF Local
<1>3. /\ q.lease = r.lease /\ q.cand = r.cand /\ q.pc = r.pc /\ q.epoch = r.epoch
      /\ q.mgr = n /\ q.stop = r.stop
  BY DEF Local
<1> HIDE DEF q
<1>4. /\ q.stop \in Joining \cup {"join"} => n.known
      /\ q.stop \in Joining => ~n.thread /\ ~n.open
      /\ q.stop \in {"clean", "free"} => Reserved(c, n.sel)
  BY <1>1, <1>3, SelectionsAreSome DEF Sound, Joining
<1>5. Sound(w, c, q)
  BY <1>1, <1>2, <1>3, <1>4, ManagerSound
<1> QED
  BY <1>1, <1>2, <1>5, QuietStep

(* A manager that is forgotten while no stop_channel is joining it. *)
LEMMA ForgottenStep ==
  ASSUME Memory, Soundness, Kept, NEW w \in Workers, NEW c \in Channels,
         NEW r \in Local, loc[w][c] = r, NEW p,
         p = r.stop \/ p = "final", p \notin Joining \cup {"join"},
         Set(w, c, [r EXCEPT !.mgr = None, !.stop = p])
  PROVE  Memory' /\ Soundness'
<1> DEFINE q == [r EXCEPT !.mgr = None, !.stop = p]
<1>1. Sound(w, c, r)
  BY Recall
<1>2. q \in Local
  BY DEF Local
<1>3. /\ q.lease = r.lease /\ q.cand = r.cand /\ q.pc = r.pc /\ q.epoch = r.epoch
      /\ q.mgr = None /\ q.stop = p
  BY DEF Local
<1> HIDE DEF q
<1>4. Sound(w, c, q)
  BY <1>1, <1>3 DEF Sound, Joining
<1> QED
  BY <1>2, <1>4, QuietStep DEF q

(* The stream thread. *)
LEMMA ThreadKeeps ==
  ASSUME LedgerInv, Memory, Soundness, NEW w \in Workers, NEW c \in Channels, ThreadNext(w, c)
  PROVE  Memory' /\ Soundness'
<1>0. PICK r \in Local : loc[w][c] = r
  BY Recall
<1>1. Sound(w, c, r)
  BY <1>0, Recall
<1>2. r.mgr # None /\ r.mgr.thread
  BY <1>0 DEF ThreadNext, CheckOwner, Connect, PublishChunk, ActivateReservation, Disconnect,
              StallAndRetry, StopItself, ThreadExit, Running
<1>3. PICK m \in Manager : r.mgr = m
  BY <1>2 DEF Local
<1>4. m.thread /\ loc[w][c].mgr = m
  BY <1>0, <1>2, <1>3
<1>5. Kept
  <2>1. CASE ActivateReservation(w, c) /\ ~UNCHANGED redis
    <3>1. ActivateLive(m.sel.token, c, m.sel.lease, m.epoch, m.epoch)
      BY <1>4, <2>1 DEF ActivateReservation
    <3>2. m.sel.token \in Tokens /\ m.sel.lease \in Leases /\ m.epoch \in 1..MaxEpoch
      BY DEF Manager, Selection
    <3> QED
      BY <3>1, <3>2, LeasesAreFresh, PromotionKept
  <2>2. UNCHANGED lvars \/ ActivateReservation(w, c)
    BY DEF ThreadNext, CheckOwner, Connect, PublishChunk, Disconnect, StallAndRetry, StopItself,
           ThreadExit, redis
  <2> QED
    BY <2>1, <2>2, UnchangedKept DEF redis
<1> DEFINE Step(n) == /\ n \in Manager /\ n.sel = m.sel /\ n.known = m.known
                      /\ (n.thread => m.thread) /\ (n.open => m.open \/ m.thread)
<1>6. ASSUME NEW n, Step(n), SetMgr(w, c, n) PROVE Memory' /\ Soundness'
  BY <1>0, <1>3, <1>5, <1>6, ThreadStep
<1>7. /\ Step([m EXCEPT !.step = "connect"]) /\ Step([m EXCEPT !.step = "read", !.open = TRUE])
      /\ Step([m EXCEPT !.step = "check"])
  BY <1>4 DEF Manager
<1>8. /\ Step([m EXCEPT !.step = "read"]) /\ Step([m EXCEPT !.step = "activate"])
      /\ Step([m EXCEPT !.failed = TRUE])
      /\ \A b \in BOOLEAN : Step([m EXCEPT !.step = "read", !.active = TRUE, !.failed = b])
      /\ Step([m EXCEPT !.step = "read", !.failed = TRUE])
  BY <1>4 DEF Manager
<1>9. /\ Step([m EXCEPT !.step = "check", !.open = FALSE])
      /\ Step([m EXCEPT !.stopping = TRUE, !.open = FALSE, !.step = "check"])
      /\ Step([m EXCEPT !.thread = FALSE, !.open = FALSE, !.step = "check"])
  BY <1>4 DEF Manager
<1> HIDE DEF Step
<1>10. CASE CheckOwner(w, c) \/ Connect(w, c) \/ StallAndRetry(w, c)
  BY <1>4, <1>6, <1>7, <1>10 DEF CheckOwner, Connect, StallAndRetry
<1>11. CASE PublishChunk(w, c)
  BY <1>4, <1>6, <1>8, <1>11 DEF PublishChunk
<1>12. CASE ActivateReservation(w, c)
  BY <1>4, <1>6, <1>8, <1>12 DEF ActivateReservation
<1>13. CASE Disconnect(w, c) \/ StopItself(w, c)
  BY <1>4, <1>6, <1>9, <1>13 DEF Disconnect, StopItself
<1>14. CASE ThreadExit(w, c)
  <2>1. CASE m.known
    BY <1>4, <1>6, <1>9, <1>14, <2>1 DEF ThreadExit
  <2>2. CASE ~m.known
    <3>1. SetMgr(w, c, None)
      BY <1>4, <1>14, <2>2 DEF ThreadExit
    <3>2. Set(w, c, [r EXCEPT !.mgr = None])
      BY <1>0, <3>1, Recall
    <3>3. [r EXCEPT !.mgr = None] = [r EXCEPT !.mgr = None, !.stop = r.stop]
      BY DEF Local
    <3>4. r.stop \notin Joining \cup {"join"}
      BY <1>1, <1>3, <2>2 DEF Sound
    <3> QED
      BY <1>0, <1>5, <3>2, <3>3, <3>4, ForgottenStep
  <2> QED
    BY <2>1, <2>2
<1> QED
  BY <1>10, <1>11, <1>12, <1>13, <1>14 DEF ThreadNext

(* The cleanup thread, up to the join. *)
LEMMA StopBeginsKeeps ==
  ASSUME Memory, Soundness, NEW w \in Workers, NEW c \in Channels,
         StopChannel(w, c) \/ RenewFails(w, c) \/ CleanupLocal(w, c)
  PROVE  Memory' /\ Soundness'
<1>0. PICK r \in Local : loc[w][c] = r
  BY Recall
<1>1. Sound(w, c, r) /\ r.stop = "idle"
  BY <1>0, Recall DEF StopChannel, RenewFails, CleanupLocal
<1>2. Kept
  BY UnchangedKept DEF StopChannel, RenewFails, CleanupLocal, redis
<1> DEFINE Lesser(n, m) == n.sel = m.sel /\ (n.thread => m.thread) /\ (n.open => m.open)
<1>3. ASSUME NEW p \in {"idle", "unbind", "close", "final"}, NEW n \in Manager, NEW m \in Manager,
             r.mgr = m, Lesser(n, m),
             Set(w, c, [r EXCEPT !.mgr = n, !.stop = p])
      PROVE  Memory' /\ Soundness'
  <2> DEFINE q == [r EXCEPT !.mgr = n, !.stop = p]
  <2>1. q \in Local
    BY <1>3 DEF Local
  <2>2. /\ q.lease = r.lease /\ q.cand = r.cand /\ q.pc = r.pc /\ q.epoch = r.epoch
        /\ q.mgr = n /\ q.stop = p
    BY DEF Local
  <2> HIDE DEF q
  <2>3. q.stop \notin Joining \cup {"join"}
    BY <2>2 DEF Joining
  <2>4. Sound(w, c, q)
    BY <1>1, <1>3, <2>1, <2>2, <2>3, ManagerSound DEF Joining, Lesser
  <2> QED
    BY <1>2, <1>3, <2>1, <2>4, QuietStep DEF q
<1>4. ASSUME NEW p \in {"unbind", "close", "final"}, r.mgr = None,
             Set(w, c, [r EXCEPT !.mgr = None, !.stop = p])
      PROVE  Memory' /\ Soundness'
  <2> DEFINE q == [r EXCEPT !.mgr = None, !.stop = p]
  <2>1. q \in Local /\ Sound(w, c, q)
    BY <1>1, <1>4 DEF Local, Sound, Joining
  <2> QED
    BY <1>2, <1>4, <2>1, QuietStep
<1>5. ASSUME NEW m \in Manager, r.mgr = m,
             NEW n \in {[m EXCEPT !.stopping = TRUE], [m EXCEPT !.failed = TRUE],
                        [[m EXCEPT !.failed = TRUE] EXCEPT !.stopping = TRUE],
                        [m EXCEPT !.known = FALSE, !.stopping = TRUE, !.open = FALSE]}
      PROVE  n \in Manager /\ Lesser(n, m)
  BY <1>5 DEF Manager
<1> HIDE DEF Lesser
<1>6. CASE StopChannel(w, c)
  <2>1. CASE r.mgr = None
    BY <1>0, <1>4, <1>6, <2>1 DEF StopChannel, Stopping
  <2>2. CASE r.mgr # None
    <3>1. PICK m \in Manager : r.mgr = m
      BY <2>2 DEF Local
    <3>2. PICK n : n = [m EXCEPT !.stopping = TRUE]
      OBVIOUS
    <3>3. \E p \in {"unbind", "close", "final"} : Set(w, c, [r EXCEPT !.mgr = n, !.stop = p])
      BY <1>0, <1>6, <2>2, <3>1, <3>2 DEF StopChannel, Stopping
    <3> QED
      BY <1>3, <1>5, <3>1, <3>2, <3>3
  <2> QED
    BY <2>1, <2>2
<1>7. ASSUME r.mgr # None, NEW n, SetMgr(w, c, n) PROVE Set(w, c, [r EXCEPT !.mgr = n, !.stop = "idle"])
  <2>1. [r EXCEPT !.mgr = n] = [r EXCEPT !.mgr = n, !.stop = "idle"]
    BY <1>1 DEF Local
  <2> QED
    BY <1>0, <1>7, <2>1, Recall
<1>8. CASE RenewFails(w, c)
  <2>1. r.mgr # None
    BY <1>0, <1>8 DEF RenewFails, Known
  <2>2. PICK m \in Manager : r.mgr = m
    BY <2>1 DEF Local
  <2>3. PICK n : n = [m EXCEPT !.failed = TRUE]
    OBVIOUS
  <2>4. PICK x : x = [n EXCEPT !.stopping = TRUE]
    OBVIOUS
  <2>5. n # None
    BY <1>5, <2>2, <2>3, SelectionsAreSome
  <2>6. \/ \E p \in {"unbind", "close", "final"} : Set(w, c, [r EXCEPT !.mgr = x, !.stop = p])
        \/ SetMgr(w, c, n)
    BY <1>0, <1>8, <2>2, <2>3, <2>4, <2>5 DEF RenewFails, Stopping
  <2> QED
    BY <1>3, <1>5, <1>7, <2>1, <2>2, <2>3, <2>4, <2>6
<1>9. CASE CleanupLocal(w, c)
  <2>1. r.mgr # None
    BY <1>0, <1>9 DEF CleanupLocal, Known
  <2>2. PICK m \in Manager : r.mgr = m
    BY <2>1 DEF Local
  <2>3. PICK n : n = [m EXCEPT !.known = FALSE, !.stopping = TRUE, !.open = FALSE]
    OBVIOUS
  <2>4. SetMgr(w, c, n) \/ SetMgr(w, c, None)
    BY <1>0, <1>9, <2>2, <2>3 DEF CleanupLocal
  <2>5. ASSUME SetMgr(w, c, None) PROVE Memory' /\ Soundness'
    <3>1. Set(w, c, [r EXCEPT !.mgr = None, !.stop = "idle"])
      BY <1>7, <2>1, <2>5
    <3>2. "idle" = r.stop /\ "idle" \notin Joining \cup {"join"}
      BY <1>1 DEF Joining
    <3> QED
      BY <1>0, <1>2, <3>1, <3>2, ForgottenStep
  <2>6. ASSUME SetMgr(w, c, n) PROVE Memory' /\ Soundness'
    <3>1. Set(w, c, [r EXCEPT !.mgr = n, !.stop = "idle"])
      BY <1>7, <2>1, <2>6
    <3>2. n \in Manager /\ Lesser(n, m)
      BY <1>5, <2>2, <2>3
    <3> QED
      BY <1>3, <2>2, <3>1, <3>2
  <2> QED
    BY <2>4, <2>5, <2>6
<1> QED
  BY <1>6, <1>8, <1>9

(* The cleanup thread joins the stream thread and frees the reservation. *)
LEMMA StopGoesOnKeeps ==
  ASSUME LedgerInv, Memory, Soundness, NEW w \in Workers, NEW c \in Channels,
         \/ CloseReader(w, c) \/ JoinThread(w, c) \/ AckStop(w, c) \/ CleanMedia(w, c)
         \/ RevokeGrant(w, c) \/ Disown(w, c) \/ ForgetManager(w, c) \/ StopEnds(w, c)
  PROVE  Memory' /\ Soundness'
<1>0. PICK r \in Local : loc[w][c] = r
  BY Recall
<1>1. Sound(w, c, r)
  BY <1>0, Recall
<1>2. ASSUME UNCHANGED lvars PROVE Kept
  BY <1>2, UnchangedKept
<1>3. r.mgr # None => r.mgr \in Manager
  BY DEF Local
<1>4. ASSUME Kept, Set(w, c, [r EXCEPT !.stop = "final"]) PROVE Memory' /\ Soundness'
  <2> DEFINE q == [r EXCEPT !.stop = "final"]
  <2>1. q \in Local /\ Sound(w, c, q)
    BY <1>1 DEF Local, Sound, Joining
  <2> QED
    BY <1>4, <2>1, QuietStep
<1>5. ASSUME Kept, r.stop \in Joining, NEW p \in {"clean", "free"}, Reserved(c, r.mgr.sel),
             Set(w, c, [r EXCEPT !.stop = p])
      PROVE  Memory' /\ Soundness'
  <2> DEFINE q == [r EXCEPT !.stop = p]
  <2>1. q \in Local
    BY <1>5 DEF Local
  <2>2. Sound(w, c, q)
    BY <1>1, <1>5 DEF Local, Sound, Joining
  <2> QED
    BY <1>5, <2>1, <2>2, QuietStep
<1>6. CASE CloseReader(w, c)
  <2>1. Kept /\ r.stop = "close"
    BY <1>0, <1>2, <1>6 DEF CloseReader, StopAt, redis
  <2>2. ASSUME NEW m \in Manager, r.mgr = m, m.known,
               Set(w, c, [r EXCEPT !.stop = "join", !.mgr.open = FALSE])
        PROVE  Memory' /\ Soundness'
    <3>1. PICK n : n = [m EXCEPT !.open = FALSE]
      OBVIOUS
    <3>2. n \in Manager /\ n.sel = m.sel /\ n.thread = m.thread /\ n.open = FALSE /\ n.known
      BY <2>2, <3>1 DEF Manager
    <3> DEFINE q == [r EXCEPT !.stop = "join", !.mgr = n]
    <3>3. q \in Local /\ Set(w, c, q)
      BY <2>2, <3>1, <3>2 DEF Local
    <3>4. /\ q.lease = r.lease /\ q.cand = r.cand /\ q.pc = r.pc /\ q.epoch = r.epoch
          /\ q.mgr = n /\ q.stop = "join"
      BY DEF Local
    <3> HIDE DEF q
    <3>5. q.stop \notin Joining
      BY <3>4 DEF Joining
    <3>6. q.stop \notin {"clean", "free"}
      BY <3>4
    <3>7. Sound(w, c, q)
      BY <1>1, <2>2, <3>2, <3>3, <3>4, <3>5, <3>6, ManagerSound
    <3> QED
      BY <2>1, <3>3, <3>7, QuietStep
  <2> QED
    BY <1>0, <1>3, <1>4, <1>6, <2>1, <2>2 DEF CloseReader, StopGoes, Known
<1>7. CASE JoinThread(w, c)
  <2>1. Kept /\ r.stop = "join"
    BY <1>0, <1>2, <1>7 DEF JoinThread, StopAt, redis
  <2>2. ASSUME Joined(r.mgr), Set(w, c, [r EXCEPT !.stop = "ack"]) PROVE Memory' /\ Soundness'
    <3> DEFINE q == [r EXCEPT !.stop = "ack"]
    <3>1. q \in Local
      BY DEF Local
    <3>2. Sound(w, c, q)
      BY <1>1, <2>1, <2>2 DEF Local, Sound, Joining, Joined
    <3> QED
      BY <2>1, <2>2, <3>1, <3>2, QuietStep
  <2> QED
    BY <1>0, <1>4, <1>7, <2>1, <2>2 DEF JoinThread, StopGoes
<1>8. CASE AckStop(w, c)
  <2>1. r.stop = "ack"
    BY <1>0, <1>8 DEF AckStop, StopAt
  <2>2. PICK m \in Manager : r.mgr = m
    BY <1>1, <1>3, <2>1 DEF Sound, Joining
  <2>3. m.sel \in Selection /\ m.sel.token \in Tokens /\ m.sel.lease \in Leases
        /\ m.sel.dest \in Dests /\ m.epoch \in 1..MaxEpoch /\ m.epoch \in Generations
    BY LeasesAreFresh DEF Manager, Selection
  <2>4. CASE UNCHANGED redis /\ StopGoes(w, c, "final")
    BY <1>0, <1>2, <1>4, <2>4 DEF StopGoes, redis
  <2>5. CASE /\ AckLiveStop(m.sel.token, c, m.sel.lease, m.sel.dest, m.epoch, m.epoch)
             /\ \E p \in {"clean", "final"} : StopGoes(w, c, p)
    <3>1. Kept
      BY <2>3, <2>5, PromotionKept
    <3>2. Reserved(c, m.sel)
      BY <2>5 DEF AckLiveStop, ActiveUnder, Assigned, Owns, Reserved
    <3> QED
      BY <1>0, <1>4, <1>5, <2>1, <2>2, <2>5, <3>1, <3>2 DEF StopGoes, Joining
  <2> QED
    BY <1>0, <1>8, <2>2, <2>4, <2>5 DEF AckStop
<1>9. CASE CleanMedia(w, c)
  <2>1. Kept /\ r.stop = "clean"
    BY <1>0, <1>2, <1>9 DEF CleanMedia, StopAt
  <2>2. Reserved(c, r.mgr.sel)
    BY <1>1, <2>1 DEF Sound
  <2> QED
    BY <1>0, <1>4, <1>5, <1>9, <2>1, <2>2 DEF CleanMedia, StopGoes, Joining
<1>10. CASE RevokeGrant(w, c)
  <2>1. Kept /\ r.stop \in {"revoke", "unbind"}
    BY <1>0, <1>2, <1>10 DEF RevokeGrant, StopAt
  <2>2. ASSUME NEW m \in Manager, r.mgr = m, m.known, NEW p,
               p = IF r.stop = "revoke" THEN "disown" ELSE "final",
               Set(w, c, [r EXCEPT !.stop = p, !.mgr.failed = TRUE])
        PROVE  Memory' /\ Soundness'
    <3>1. PICK n : n = [m EXCEPT !.failed = TRUE]
      OBVIOUS
    <3>2. /\ n \in Manager /\ n.sel = m.sel /\ n.thread = m.thread /\ n.open = m.open
          /\ n.known
      BY <2>2, <3>1 DEF Manager
    <3> DEFINE q == [r EXCEPT !.stop = p, !.mgr = n]
    <3>3. q \in Local /\ Set(w, c, q)
      BY <2>2, <3>1, <3>2 DEF Local
    <3>4. /\ q.lease = r.lease /\ q.cand = r.cand /\ q.pc = r.pc /\ q.epoch = r.epoch
          /\ q.mgr = n /\ q.stop = p
      BY <2>2 DEF Local
    <3> HIDE DEF q
    <3>5. q.stop \in Joining => ~n.thread /\ ~n.open
      BY <1>1, <2>1, <2>2, <3>2, <3>4 DEF Joining, Sound
    <3>6. q.stop \notin {"clean", "free"}
      BY <2>2, <3>4
    <3>7. Sound(w, c, q)
      BY <1>1, <2>2, <3>2, <3>3, <3>4, <3>5, <3>6, ManagerSound
    <3> QED
      BY <2>1, <3>3, <3>7, QuietStep
  <2> QED
    BY <1>0, <1>3, <1>4, <1>10, <2>1, <2>2 DEF RevokeGrant, StopGoes, Known
<1>11. CASE Disown(w, c)
  <2> DEFINE q == [r EXCEPT !.stop = "local"]
             n == [q EXCEPT !.lease = None]
  <2>1. Kept /\ r.stop = "disown"
    BY <1>0, <1>2, <1>11 DEF Disown, StopAt
  <2>2. q \in Local /\ n \in Local
    BY DEF Local
  <2>3. Sound(w, c, q) /\ Sound(w, c, n)
    BY <1>1, <2>1 DEF Local, Sound, Joining
  <2>4. Set(w, c, q) \/ Set(w, c, n)
    BY <1>0, <1>11 DEF Disown, ReleaseOwnership
  <2> QED
    BY <2>1, <2>2, <2>3, <2>4, QuietStep
<1>12. CASE ForgetManager(w, c)
  <2>1. Kept /\ Set(w, c, [r EXCEPT !.mgr = None, !.stop = "final"])
    BY <1>0, <1>2, <1>12 DEF ForgetManager, redis
  <2>2. "final" \notin Joining \cup {"join"}
    BY DEF Joining
  <2> QED
    BY <1>0, <2>1, <2>2, ForgottenStep
<1>13. CASE StopEnds(w, c)
  <2> DEFINE q == [r EXCEPT !.stop = "idle"]
             n == [r EXCEPT !.stop = "idle", !.lease = None]
  <2>1. Kept
    BY <1>2, <1>13 DEF StopEnds, redis
  <2>2. q \in Local /\ Sound(w, c, q)
    BY <1>1 DEF Local, Sound, Joining
  <2>3. n \in Local
    BY DEF Local
  <2>7. /\ n.lease = None /\ n.cand = r.cand /\ n.pc = r.pc /\ n.epoch = r.epoch
        /\ n.mgr = r.mgr /\ n.stop = "idle"
    BY DEF Local
  <2>4. [r EXCEPT !.stop = "idle", !.lease = r.lease] = q
    BY DEF Local
  <2>5. Set(w, c, q) \/ Set(w, c, n)
    BY <1>0, <1>13, <2>4 DEF StopEnds
  <2> HIDE DEF q, n
  <2>6. Sound(w, c, n)
    BY <1>1, <2>7 DEF Sound, Joining
  <2> QED
    BY <2>1, <2>2, <2>3, <2>5, <2>6, QuietStep
<1> QED
  BY <1>6, <1>7, <1>8, <1>9, <1>10, <1>11, <1>12, <1>13

-----------------------------------------------------------------------------
(* A worker that dies relies on nothing. *)
LEMMA CrashKeeps ==
  ASSUME Memory, Soundness, AuthorityAssumption, NEW w \in Workers, Crash(w)
  PROVE  Memory' /\ Soundness'
<1>1. Fresh \in Local
  BY AuthorityAssumption DEF Fresh, Local
<1>2. Memory'
  BY <1>1 DEF Memory, Crash
<1>3. \A c \in Channels : Sound(w, c, Fresh)'
  BY DEF Sound, Fresh, Binding, Joining
<1>4. Kept
  BY UnchangedKept DEF Crash, redis
<1>5. ASSUME NEW v \in Workers, NEW d \in Channels, NEW r \in Local, loc'[v][d] = r
      PROVE  Sound(v, d, r)'
  <2>1. CASE v = w
    <3>1. r = Fresh
      BY <1>5, <2>1 DEF Memory, Crash
    <3> QED
      BY <1>3, <2>1, <3>1
  <2>2. CASE v # w
    <3>1. loc[v][d] = r
      BY <1>5, <2>2 DEF Memory, Crash
    <3>2. Sound(v, d, r)
      BY <3>1 DEF Soundness
    <3> QED
      BY <1>4, <3>2, SoundKept DEF Kept
  <2> QED
    BY <2>1, <2>2
<1> QED
  BY <1>2, <1>5 DEF Soundness

(* Nothing of what the workers rely on happens. *)
LEMMA RestKeeps ==
  ASSUME Memory, Soundness, UNCHANGED <<lvars, loc>>
  PROVE  Memory' /\ Soundness'
<1>1. Kept /\ loc' = loc
  BY UnchangedKept
<1>2. ASSUME NEW v \in Workers, NEW d \in Channels, NEW r \in Local, loc'[v][d] = r
      PROVE  Sound(v, d, r)'
  <2>1. Sound(v, d, r)
    BY <1>1, <1>2 DEF Soundness
  <2> QED
    BY <1>1, <2>1, SoundKept DEF Kept
<1> QED
  BY <1>1, <1>2 DEF Memory, Soundness

(* Every step keeps the memory of the workers sound. *)
LEMMA SoundNext ==
  ASSUME AuthorityTypeOK, LedgerInv, Memory, Soundness, lives \in 0..MaxLives, [Next]_vars
  PROVE  Memory' /\ Soundness'
<1>1. CASE UNCHANGED vars
  BY <1>1, RestKeeps DEF vars, wvars, redis
<1>2. ASSUME NEW w \in Workers, NEW c \in Channels, RequestNext(w, c) PROVE Memory' /\ Soundness'
  BY <1>2, SetupKeeps, SelectKeeps, InitializeKeeps, BindGrantKeeps, BindingKeeps, StartKeeps,
     DropPendingKeeps DEF RequestNext
<1>3. ASSUME NEW w \in Workers, NEW c \in Channels, StopNext(w, c) PROVE Memory' /\ Soundness'
  BY <1>3, StopBeginsKeeps, StopGoesOnKeeps, FreeReservationKeeps DEF StopNext
<1>4. ASSUME NEW w \in Workers, Crash(w) PROVE Memory' /\ Soundness'
  BY <1>4, CrashKeeps, AuthorityAssumption
<1>5. ASSUME NEW w \in Workers, NEW t \in Tokens, LeakEnds(w, t) PROVE Memory' /\ Soundness'
  BY <1>5, RestKeeps DEF LeakEnds, redis
<1>6. ASSUME NEW c \in Channels, Expire(c) PROVE Memory' /\ Soundness'
  BY <1>6, RestKeeps DEF Expire, wvars
<1> QED
  BY <1>1, <1>2, <1>3, <1>4, <1>5, <1>6, ThreadKeeps DEF Next

(* The scripts of the authority, called with any epoch. *)
LEMMA AuthorityCalls ==
  ASSUME AuthorityInv, NEW c \in Channels
  PROVE  /\ \A l \in Leases : Acquire(c, l) \/ SetOwner(c, l) => AuthorityNext
         /\ \A e : Release(c, e) \/ Activate(c, e, e) \/ Publish(c, e, e) => AuthorityNext
         /\ ExpireGrant(c) \/ DropOwner(c) \/ DropMedia(c) => AuthorityNext
<1>1. \A l \in Leases : Acquire(c, l) \/ SetOwner(c, l) => AuthorityNext
  BY DEF AuthorityNext
<1>2. ASSUME NEW e, Release(c, e) \/ Activate(c, e, e) \/ Publish(c, e, e) PROVE AuthorityNext
  <2>1. Holds(c, e)
    BY <1>2 DEF Release, Activate, Publish, Current
  <2>2. e \in 1..MaxEpoch /\ e \in Generations
    BY <2>1, HolderIsNewest, LeasesAreFresh
  <2> QED
    BY <1>2, <2>2 DEF AuthorityNext
<1>3. ExpireGrant(c) \/ DropOwner(c) \/ DropMedia(c) => AuthorityNext
  BY DEF AuthorityNext
<1> QED
  BY <1>1, <1>2, <1>3

(* Whatever the workers do, Redis sees only the scripts. *)
LEMMA ChannelSteps ==
  ASSUME ChannelInv, [Next]_vars
  PROVE  [LedgerNext]_<<avars, lvars>>
<1>1. AuthorityInv /\ Memory /\ Soundness /\ lives \in 0..MaxLives
  BY DEF ChannelInv
<1>2. CASE UNCHANGED vars
  BY <1>2 DEF vars, redis
<1>3. AuthorityNext /\ UNCHANGED lvars => LedgerNext
  BY DEF LedgerNext
<1>4. LiveNext => LedgerNext
  BY DEF LedgerNext
<1>5. ASSUME NEW w \in Workers, NEW c \in Channels, RequestNext(w, c)
      PROVE  LedgerNext \/ UNCHANGED <<avars, lvars>>
  <2>0. PICK r \in Local : loc[w][c] = r
    BY <1>1, Recall
  <2>1. CASE CheckAlias(w, c) \/ SelectFails(w, c) \/ Initialize(w, c) \/ Start(w, c) \/ Rollback(w, c)
    BY <2>1 DEF CheckAlias, SelectFails, Initialize, Start, Rollback, redis
  <2>2. CASE TryAcquire(w, c)
    <3>1. lives < MaxLives => <<w, lives + 1>> \in Leases
      BY <1>1, LeasesAreFresh
    <3>2. UNCHANGED avars \/ (lives < MaxLives /\ SetOwner(c, <<w, lives + 1>>))
      BY <2>2 DEF TryAcquire
    <3>3. UNCHANGED lvars
      BY <2>2 DEF TryAcquire
    <3> QED
      BY <1>1, <1>3, <3>1, <3>2, <3>3, AuthorityCalls
  <2>3. ASSUME NEW t \in Tokens, NEW d \in Dests, Select(w, c, t, d) PROVE LedgerNext
    <3>1. ReserveLive(t, c, r.lease, d) /\ r.lease \in Leases
      BY <2>0, <2>3 DEF Select, Local
    <3> QED
      BY <1>4, <3>1 DEF LiveNext
  <2>4. CASE GiveUp(w, c)
    BY <1>1, <1>3, <2>4, AuthorityCalls DEF GiveUp, ReleaseOwnership
  <2>5. CASE BindGrant(w, c)
    <3>1. r.pc = "grant" /\ Sound(w, c, r)
      BY <1>1, <2>0, <2>5, Recall DEF BindGrant
    <3>2. r.cand \in Selection /\ r.cand.lease \in Leases
      BY <3>1 DEF Sound, Local, Binding, Selection
    <3> QED
      BY <1>1, <1>3, <2>0, <2>5, <3>2, AuthorityCalls DEF BindGrant
  <2>6. CASE BindGeneration(w, c)
    BY <1>1, <1>3, <2>6, AuthorityCalls DEF BindGeneration
  <2>7. CASE UndoGrant(w, c)
    BY <1>1, <1>3, <2>7, AuthorityCalls DEF UndoGrant
  <2>8. CASE DropPending(w, c)
    <3>1. r.pc = "drop" /\ Sound(w, c, r)
      BY <1>1, <2>0, <2>8, Recall DEF DropPending
    <3>2. PICK s \in Selection : r.cand = s
      BY <3>1 DEF Sound, Local
    <3>3. s.token \in Tokens /\ s.lease \in Leases /\ s.dest \in Dests
      BY DEF Selection
    <3>4. ReleasePendingLive(s.token, c, s.lease, s.dest) \/ UNCHANGED redis
      BY <2>0, <2>8, <3>2 DEF DropPending
    <3> QED
      BY <1>4, <3>3, <3>4 DEF LiveNext, redis
  <2> QED
    BY <1>5, <2>1, <2>2, <2>3, <2>4, <2>5, <2>6, <2>7, <2>8 DEF RequestNext
<1>6. ASSUME NEW w \in Workers, NEW c \in Channels, ThreadNext(w, c)
      PROVE  LedgerNext \/ UNCHANGED <<avars, lvars>>
  <2>1. CASE PublishChunk(w, c)
    BY <1>1, <1>3, <2>1, AuthorityCalls DEF PublishChunk
  <2>2. CASE ActivateReservation(w, c)
    <3>1. PICK r \in Local : loc[w][c] = r
      BY <1>1, Recall
    <3>2. PICK m \in Manager : r.mgr = m
      BY <2>2, <3>1 DEF ActivateReservation, Running, Local
    <3>3. /\ m.sel.token \in Tokens /\ m.sel.lease \in Leases /\ m.sel.dest \in Dests
          /\ m.epoch \in 1..MaxEpoch /\ m.epoch \in Generations
      BY LeasesAreFresh DEF Manager, Selection
    <3>4. ActivateLive(m.sel.token, c, m.sel.lease, m.epoch, m.epoch) \/ UNCHANGED redis
      BY <2>2, <3>1, <3>2 DEF ActivateReservation
    <3> QED
      BY <1>4, <3>3, <3>4 DEF LiveNext, redis
  <2>3. CASE ~PublishChunk(w, c) /\ ~ActivateReservation(w, c)
    BY <1>6, <2>3 DEF ThreadNext, CheckOwner, Connect, Disconnect, StallAndRetry, StopItself,
       ThreadExit, redis
  <2> QED
    BY <2>1, <2>2, <2>3
<1>7. ASSUME NEW w \in Workers, NEW c \in Channels, StopNext(w, c)
      PROVE  LedgerNext \/ UNCHANGED <<avars, lvars>>
  <2>1. CASE CleanMedia(w, c)
    BY <1>1, <1>3, <2>1, AuthorityCalls DEF CleanMedia
  <2>2. CASE RevokeGrant(w, c)
    BY <1>1, <1>3, <2>2, AuthorityCalls DEF RevokeGrant
  <2>3. CASE Disown(w, c)
    BY <1>1, <1>3, <2>3, AuthorityCalls DEF Disown, ReleaseOwnership
  <2>4. CASE AckStop(w, c) \/ FreeReservation(w, c)
    <3>1. PICK r \in Local : loc[w][c] = r
      BY <1>1, Recall
    <3>2. Sound(w, c, r) /\ r.stop \in {"ack", "free"}
      BY <1>1, <2>4, <3>1, Recall DEF AckStop, FreeReservation, StopAt
    <3>3. PICK m \in Manager : r.mgr = m
      BY <3>2 DEF Sound, Local, Joining
    <3>4. /\ m.sel.token \in Tokens /\ m.sel.lease \in Leases /\ m.sel.dest \in Dests
          /\ m.epoch \in 1..MaxEpoch /\ m.epoch \in Generations
      BY LeasesAreFresh DEF Manager, Selection
    <3>5. \/ AckLiveStop(m.sel.token, c, m.sel.lease, m.sel.dest, m.epoch, m.epoch)
          \/ ReleaseActiveLive(m.sel.token, c, m.sel.lease, m.sel.dest, m.epoch, m.epoch)
          \/ UNCHANGED redis
      BY <2>4, <3>1, <3>3 DEF AckStop, FreeReservation
    <3> QED
      BY <1>4, <3>4, <3>5 DEF LiveNext, redis
  <2>5. CASE StopChannel(w, c) \/ RenewFails(w, c) \/ CleanupLocal(w, c) \/ CloseReader(w, c)
             \/ JoinThread(w, c) \/ ForgetManager(w, c) \/ StopEnds(w, c)
    BY <2>5 DEF StopChannel, RenewFails, CleanupLocal, CloseReader, JoinThread, ForgetManager,
       StopEnds, redis
  <2> QED
    BY <1>7, <2>1, <2>2, <2>3, <2>4, <2>5 DEF StopNext
<1>8. ASSUME NEW c \in Channels, Expire(c) PROVE LedgerNext
  BY <1>1, <1>3, <1>8, AuthorityCalls DEF Expire
<1>9. ASSUME NEW w \in Workers, Crash(w) \/ \E t \in Tokens : LeakEnds(w, t)
      PROVE  UNCHANGED <<avars, lvars>>
  BY <1>9 DEF Crash, LeakEnds, redis
<1> QED
  BY <1>2, <1>5, <1>6, <1>7, <1>8, <1>9 DEF Next

(* The counters of the workers: leases drawn, connections lost. *)
LEMMA CountsNext ==
  ASSUME ChannelInv, [Next]_vars
  PROVE  lives' \in 0..MaxLives /\ leaked' \in [Workers -> SUBSET Tokens]
<1>1. /\ Memory /\ Soundness /\ lives \in 0..MaxLives
      /\ leaked \in [Workers -> SUBSET Tokens]
  BY DEF ChannelInv
<1>2. ASSUME NEW w \in Workers, NEW t \in Tokens, leaked' = [leaked EXCEPT ![w] = @ \cup {t}]
      PROVE  leaked' \in [Workers -> SUBSET Tokens]
  BY <1>1, <1>2
<1>3. ASSUME NEW w \in Workers, NEW c \in Channels, loc[w][c].mgr # None
      PROVE  loc[w][c].mgr \in Manager /\ loc[w][c].mgr.sel.token \in Tokens
  <2>1. loc[w][c] \in Local
    BY <1>1, Recall
  <2>2. loc[w][c].mgr \in Manager
    BY <1>3, <2>1 DEF Local
  <2> QED
    BY <2>2 DEF Manager, Selection
<1>4. ASSUME NEW w \in Workers, NEW c \in Channels, RequestNext(w, c)
      PROVE  lives' \in 0..MaxLives /\ UNCHANGED leaked
  <2>1. CASE TryAcquire(w, c)
    <3>1. UNCHANGED leaked /\ (lives' = lives \/ (lives < MaxLives /\ lives' = lives + 1))
      BY <2>1 DEF TryAcquire
    <3> QED
      BY <1>1, <3>1, LeasesAreFresh
  <2>2. ASSUME NEW t \in Tokens, NEW d \in Dests, Select(w, c, t, d)
        PROVE  UNCHANGED <<lives, leaked>>
    BY <2>2 DEF Select
  <2>3. CASE ~TryAcquire(w, c) /\ ~\E t \in Tokens, d \in Dests : Select(w, c, t, d)
    BY <1>1, <1>4, <2>3 DEF RequestNext, CheckAlias, SelectFails, GiveUp, Initialize, BindGrant,
       BindGeneration, UndoGrant, Start, Rollback, DropPending
  <2> QED
    BY <1>1, <2>1, <2>2, <2>3
<1>5. ASSUME NEW w \in Workers, NEW c \in Channels, ThreadNext(w, c)
      PROVE  UNCHANGED lives /\ leaked' \in [Workers -> SUBSET Tokens]
  <2>1. UNCHANGED lives
    BY <1>5 DEF ThreadNext, CheckOwner, Connect, PublishChunk, ActivateReservation, Disconnect,
       StallAndRetry, StopItself, ThreadExit
  <2>2. loc[w][c].mgr # None
    BY <1>5 DEF ThreadNext, CheckOwner, Connect, PublishChunk, ActivateReservation, Disconnect,
       StallAndRetry, StopItself, ThreadExit, Running
  <2>3. UNCHANGED leaked \/ leaked' = [leaked EXCEPT ![w] = @ \cup {loc[w][c].mgr.sel.token}]
    BY <1>5 DEF ThreadNext, CheckOwner, Connect, PublishChunk, ActivateReservation, Disconnect,
       StallAndRetry, StopItself, ThreadExit, MayLeak
  <2> QED
    BY <1>1, <1>2, <1>3, <2>1, <2>2, <2>3
<1>6. ASSUME NEW w \in Workers, NEW c \in Channels, StopNext(w, c)
      PROVE  UNCHANGED lives /\ leaked' \in [Workers -> SUBSET Tokens]
  <2>1. CASE CleanupLocal(w, c)
    <3>1. /\ loc[w][c].mgr # None /\ UNCHANGED lives
          /\ UNCHANGED leaked \/ leaked' = [leaked EXCEPT ![w] = @ \cup {loc[w][c].mgr.sel.token}]
      BY <2>1 DEF CleanupLocal, Known, MayLeak
    <3> QED
      BY <1>1, <1>2, <1>3, <3>1
  <2>2. CASE ~CleanupLocal(w, c)
    BY <1>1, <1>6, <2>2 DEF StopNext, StopChannel, RenewFails, CloseReader, JoinThread, AckStop,
       CleanMedia, FreeReservation, RevokeGrant, Disown, ForgetManager, StopEnds
  <2> QED
    BY <2>1, <2>2
<1>7. ASSUME NEW w \in Workers, Crash(w) \/ \E t \in Tokens : LeakEnds(w, t)
      PROVE  UNCHANGED lives /\ leaked' \in [Workers -> SUBSET Tokens]
  BY <1>1, <1>7 DEF Crash, LeakEnds
<1>8. ASSUME (\E c \in Channels : Expire(c)) \/ UNCHANGED vars PROVE UNCHANGED <<lives, leaked>>
  BY <1>8 DEF Expire, wvars, vars
<1> QED
  BY <1>1, <1>4, <1>5, <1>6, <1>7, <1>8 DEF Next

(* No worker remembers a channel yet. *)
LEMMA ChannelInitInv == Init => ChannelInv
<1> SUFFICES ASSUME Init PROVE ChannelInv
  OBVIOUS
<1>1. EmptyRedis
  BY DEF Init, EmptyRedis
<1>2. AuthorityInv /\ LedgerInv /\ SessInv /\ cutover \in BOOLEAN
  BY <1>1, InitInv, LedgerInitInv, SessInitInv DEF EmptyRedis, Init
<1>3. Fresh \in Local
  BY AuthorityAssumption DEF Fresh, Local
<1>4. Memory /\ leaked \in [Workers -> SUBSET Tokens]
  BY <1>3 DEF Init, Memory
<1>5. lives \in 0..MaxLives
  BY LeasesAreFresh DEF Init
<1>6. \A w \in Workers, c \in Channels : loc[w][c] = Fresh
  BY DEF Init
<1>7. Soundness
  BY <1>6 DEF Soundness, Sound, Fresh, Binding, Joining
<1> QED
  BY <1>2, <1>4, <1>5, <1>7 DEF ChannelInv

(* Every step of the channels, and with it of Redis, keeps the invariant. *)
LEMMA ChannelNextInv == ChannelInv /\ [Next]_vars => ChannelInv'
<1> SUFFICES ASSUME ChannelInv, [Next]_vars PROVE ChannelInv'
  OBVIOUS
<1>1. [LedgerNext]_<<avars, lvars>>
  BY ChannelSteps
<1>2. AuthorityInv' /\ LedgerInv' /\ SessInv' /\ (cutover \in BOOLEAN)'
  BY <1>1, LedgerSteps, NextInv, LedgerNextInv, SessNextInv, CutoverBoolean DEF ChannelInv
<1>3. Memory' /\ Soundness'
  BY SoundNext DEF ChannelInv, AuthorityInv
<1> QED
  BY <1>2, <1>3, CountsNext DEF ChannelInv

(* The keys and the memory of the workers have the values the code writes,  *)
(* for any workers, channels, tokens and destinations.                      *)
THEOREM ChannelTypes == Spec => []TypeOK
<1>1. ChannelInv => TypeOK
  BY DEF ChannelInv, TypeOK, LedgerTypeOK, AuthorityInv, LedgerInv, LedgerShape, SessInv, SessShape,
         SessionIds, Memory
<1> QED
  BY <1>1, ChannelInitInv, ChannelNextInv, PTL DEF Spec

(* An open provider connection has its reservation. *)
LEMMA OpenReserved ==
  ASSUME ChannelInv, NEW w \in Workers, NEW c \in Channels, Upstream(w, c)
  PROVE  Reserved(c, loc[w][c].mgr.sel) /\ loc[w][c].mgr.sel.lease[1] = w
  BY Recall DEF ChannelInv, Upstream, Sound, Drew

(* No interleaving of requests, stream threads, cleanups, expiring keys and *)
(* crashes leaves an open provider connection without its reservation.      *)
THEOREM UpstreamsReserved == Spec => []UpstreamReserved
<1>1. ChannelInv => UpstreamReserved
  BY OpenReserved DEF UpstreamReserved, Reserved
<1> QED
  BY <1>1, ChannelInitInv, ChannelNextInv, PTL DEF Spec

(* Two workers never hold a provider connection for one channel: the alias  *)
(* of the channel names one lease, and the lease one worker.                *)
THEOREM OneUpstream == Spec => []SingleUpstream
<1>1. ChannelInv => SingleUpstream
  BY OpenReserved DEF SingleUpstream, Reserved
<1> QED
  BY <1>1, ChannelInitInv, ChannelNextInv, PTL DEF Spec

(* Chunks are only appended, except by the cleanup of a channel. *)
LEMMA MediaChanges ==
  ASSUME [Next]_vars
  PROVE  \/ UNCHANGED buffer
         \/ \E c \in Channels : \E e : Publish(c, e, e)
         \/ \E w \in Workers, c \in Channels : CleanMedia(w, c) /\ DropMedia(c)
<1>1. \A c \in Channels : DropOwner(c) \/ ExpireGrant(c) => UNCHANGED buffer
  BY DEF DropOwner, ExpireGrant
<1>2. \A c, e : Acquire(c, e) \/ SetOwner(c, e) \/ Activate(c, e, e) \/ Release(c, e) => UNCHANGED buffer
  BY DEF Acquire, SetOwner, Activate, Release
<1>3. ASSUME NEW w \in Workers, NEW c \in Channels, RequestNext(w, c) PROVE UNCHANGED buffer
  <2>1. ASSUME NEW t \in Tokens, NEW d \in Dests, Select(w, c, t, d) PROVE UNCHANGED buffer
    BY <2>1 DEF Select, ReserveLive, avars
  <2>2. CASE CheckAlias(w, c) \/ TryAcquire(w, c) \/ SelectFails(w, c) \/ GiveUp(w, c) \/ Initialize(w, c)
    BY <1>1, <1>2, <2>2 DEF CheckAlias, TryAcquire, SelectFails, GiveUp, ReleaseOwnership, Initialize,
       redis, avars
  <2>3. CASE BindGrant(w, c) \/ BindGeneration(w, c) \/ UndoGrant(w, c)
    BY <1>2, <2>3 DEF BindGrant, BindGeneration, UndoGrant, avars
  <2>4. CASE Start(w, c) \/ Rollback(w, c) \/ DropPending(w, c)
    BY <2>4 DEF Start, Rollback, DropPending, ReleasePendingLive, redis, avars
  <2> QED
    BY <1>3, <2>1, <2>2, <2>3, <2>4 DEF RequestNext
<1>4. ASSUME NEW w \in Workers, NEW c \in Channels, ThreadNext(w, c)
      PROVE  UNCHANGED buffer \/ \E e : Publish(c, e, e)
  <2>1. PublishChunk(w, c) => UNCHANGED buffer \/ \E e : Publish(c, e, e)
    BY DEF PublishChunk, avars
  <2>2. ActivateReservation(w, c) => UNCHANGED buffer
    BY DEF ActivateReservation, ActivateLive, redis, avars
  <2> QED
    BY <1>4, <2>1, <2>2 DEF ThreadNext, CheckOwner, Connect, Disconnect, StallAndRetry, StopItself,
       ThreadExit, redis, avars
<1>5. ASSUME NEW w \in Workers, NEW c \in Channels, StopNext(w, c)
      PROVE  UNCHANGED buffer \/ (CleanMedia(w, c) /\ DropMedia(c))
  <2>1. CASE StopChannel(w, c) \/ RenewFails(w, c) \/ CleanupLocal(w, c) \/ CloseReader(w, c)
             \/ JoinThread(w, c) \/ ForgetManager(w, c) \/ StopEnds(w, c)
    BY <2>1 DEF StopChannel, RenewFails, CleanupLocal, CloseReader, JoinThread, ForgetManager,
       StopEnds, redis, avars
  <2>2. CASE AckStop(w, c) \/ FreeReservation(w, c)
    BY <2>2 DEF AckStop, FreeReservation, AckLiveStop, ReleaseActiveLive, redis, avars
  <2>3. CASE RevokeGrant(w, c) \/ Disown(w, c)
    BY <1>1, <1>2, <2>3 DEF RevokeGrant, Disown, ReleaseOwnership, avars
  <2>4. CASE CleanMedia(w, c)
    BY <2>4 DEF CleanMedia, avars
  <2> QED
    BY <1>5, <2>1, <2>2, <2>3, <2>4 DEF StopNext
<1>6. ASSUME NEW w \in Workers, Crash(w) \/ \E t \in Tokens : LeakEnds(w, t) PROVE UNCHANGED buffer
  BY <1>6 DEF Crash, LeakEnds, redis, avars
<1> QED
  BY <1>1, <1>3, <1>4, <1>5, <1>6 DEF Next, Expire, vars, redis, avars

(* Media is cleaned only when no worker has a connection to the provider    *)
(* that it still refers to: the cleanup still holds the reservation it has  *)
(* attested the end of.                                                     *)
THEOREM CleanupsSpareProducers == Spec => CleanupSparesProducer
<1>1. ASSUME ChannelInv, [Next]_vars, NEW c \in Channels, buffer[c] # <<>>, buffer'[c] = <<>>,
             NEW w \in Workers
      PROVE  ~Upstream(w, c)'
  <2>1. AuthorityTypeOK /\ AuthorityInv /\ Memory /\ Soundness
    BY <1>1 DEF ChannelInv, AuthorityInv
  <2>2. PICK v \in Workers, d \in Channels : CleanMedia(v, d) /\ DropMedia(d)
    <3>1. ASSUME NEW d \in Channels, NEW e, Publish(d, e, e) PROVE buffer'[c] # <<>>
      <4>1. e \in 1..MaxEpoch /\ e \in Generations
        BY <2>1, <3>1, HolderIsNewest, LeasesAreFresh DEF Publish, Current
      <4>2. /\ Len(buffer'[d]) = Len(buffer[d]) + 1 /\ Len(buffer[d]) \in Nat
            /\ \A b \in Channels \ {d} : buffer'[b] = buffer[b]
        BY <2>1, <3>1, <4>1, Appended
      <4>3. Len(<<>>) = 0
        OBVIOUS
      <4> QED
        BY <1>1, <4>2, <4>3
    <3> QED
      BY <1>1, <3>1, MediaChanges
  <2>3. d = c
    BY <1>1, <2>1, <2>2 DEF DropMedia, AuthorityTypeOK
  <2>4. Sound(v, c, loc[v][c]) /\ loc[v][c].stop = "clean" /\ loc[v][c] \in Local
    BY <2>1, <2>2, <2>3, Recall DEF CleanMedia, StopAt
  <2>5. PICK m \in Manager : loc[v][c].mgr = m
    BY <2>4 DEF Sound, Local, Joining
  <2>6. Reserved(c, m.sel) /\ m.sel.lease[1] = v /\ ~m.open /\ m # None
    BY <2>4, <2>5, SelectionsAreSome DEF Sound, Drew, Joining
  <2>7. ~Upstream(w, c)
    <3>1. ASSUME Upstream(w, c) PROVE w = v
      BY <1>1, <2>6, <3>1, OpenReserved DEF Reserved
    <3> QED
      BY <2>5, <2>6, <3>1 DEF Upstream
  <2>8. \E p : Set(v, c, [loc[v][c] EXCEPT !.stop = p])
    BY <2>2, <2>3 DEF CleanMedia, StopGoes
  <2>9. loc'[w][c].mgr = loc[w][c].mgr
    BY <2>1, <2>4, <2>8 DEF Memory, Set, Local
  <2> QED
    BY <2>7, <2>9 DEF Upstream
<1>2. ASSUME ChannelInv, [Next]_vars
      PROVE  \A c \in Channels : buffer[c] # <<>> /\ buffer'[c] = <<>> =>
               \A w \in Workers : ~Upstream(w, c)'
  BY <1>1, <1>2
<1> QED
  BY <1>2, ChannelInitInv, ChannelNextInv, PTL DEF Spec, CleanupSparesProducer

(* Through the channels, too, one term at a time writes the media stream.   *)
THEOREM ChannelsRefineStream == Spec => ImplementsFencedStream
<1>1. Init => AuthorityInit
  BY DEF Init
<1>2. ChannelInv /\ [Next]_vars => [AuthorityNext]_avars
  BY ChannelSteps, LedgerSteps
<1>3. Spec => AuthoritySpec
  BY <1>1, <1>2, ChannelInitInv, ChannelNextInv, PTL DEF Spec, AuthoritySpec
<1> QED
  BY <1>3, AuthorityRefines, PTL
=============================================================================
