------------------------ MODULE GenerationAuthority ------------------------
(* The Redis state of a verified live channel and the Lua scripts of        *)
(* generation_authority.py that change it.  A worker lifecycle is named by  *)
(* its owner lease.  The token of a grant is a fresh UUID for every epoch,  *)
(* so the epoch stands for both; a caller may present the epoch of any      *)
(* grant ever issued, however stale.  Redis drops a key with a TTL whenever *)
(* it likes, so renewal shows only in what the callers do with its answer.  *)
EXTENDS Integers, Sequences, FiniteSets

CONSTANTS
    Channels, Leases, Generations, None,
    MaxEpoch,    \* bound on the epochs of a channel
    MaxChunks    \* bound on the chunk index of a channel

ASSUME AuthorityAssumption ==
    /\ MaxEpoch \in Nat /\ MaxChunks \in Nat
    /\ None \notin Leases \cup Generations \cup (Nat \X Generations)
    /\ None \notin [epoch : Nat, worker : Leases]

VARIABLES
    owner,       \* live:channel:<c>:owner, with a TTL
    grant,       \* ...:grant, with a TTL: the epoch and the worker it names
    epoch,       \* ...:epoch, a counter without a TTL
    generation,  \* ...:generation, without a TTL
    buffer       \* the provenance of chunk 1, 2, ...; None once it is gone

avars == <<owner, grant, epoch, generation, buffer>>

Grant == [epoch : 1..MaxEpoch, worker : Leases]

(* Provenance is written as "<epoch>:<generation>". *)
Provenance == (1..MaxEpoch) \X Generations

AuthorityInit ==
    /\ owner = [c \in Channels |-> None]
    /\ grant = [c \in Channels |-> None]
    /\ epoch = [c \in Channels |-> 0]
    /\ generation = [c \in Channels |-> None]
    /\ buffer = [c \in Channels |-> <<>>]

(* HGET grant 'token' = the caller's token. *)
Holds(c, e) == grant[c] # None /\ grant[c].epoch = e

(* The check shared by renewal and publication. *)
Current(c, e, g) ==
    /\ Holds(c, e)
    /\ owner[c] = grant[c].worker
    /\ generation[c] = g

AcquireMutant(c, w) ==
    /\ owner[c] = w
    /\ epoch[c] < MaxEpoch
    /\ epoch' = [epoch EXCEPT ![c] = @ + 1]
    /\ grant' = [grant EXCEPT ![c] = [epoch |-> epoch[c] + 1, worker |-> w]]
    /\ generation' = [generation EXCEPT ![c] = None]
    /\ UNCHANGED <<owner, buffer>>

(* _ACQUIRE: only the owner, and only while no grant exists. *)
Acquire(c, w) ==
    /\ owner[c] = w
    /\ grant[c] = None
    /\ epoch[c] < MaxEpoch
    /\ epoch' = [epoch EXCEPT ![c] = @ + 1]
    /\ grant' = [grant EXCEPT ![c] = [epoch |-> epoch[c] + 1, worker |-> w]]
    /\ generation' = [generation EXCEPT ![c] = None]
    /\ UNCHANGED <<owner, buffer>>

(* _ACTIVATE *)
Activate(c, e, g) ==
    /\ Holds(c, e)
    /\ generation' = [generation EXCEPT ![c] = g]
    /\ UNCHANGED <<owner, grant, epoch, buffer>>

(* _RELEASE *)
Release(c, e) ==
    /\ Holds(c, e)
    /\ grant' = [grant EXCEPT ![c] = None]
    /\ generation' = [generation EXCEPT ![c] = None]
    /\ UNCHANGED <<owner, epoch, buffer>>

(* _PUBLISH_CHUNK *)
Publish(c, e, g) ==
    /\ Current(c, e, g)
    /\ Len(buffer[c]) < MaxChunks
    /\ buffer' = [buffer EXCEPT ![c] = Append(@, <<e, g>>)]
    /\ UNCHANGED <<owner, grant, epoch, generation>>

(* The TTL of a grant runs out; the generation key stays. *)
ExpireGrant(c) ==
    /\ grant[c] # None
    /\ grant' = [grant EXCEPT ![c] = None]
    /\ UNCHANGED <<owner, epoch, generation, buffer>>

(* SETEX: one chunk and its provenance go together. *)
ExpireChunk(c, i) ==
    /\ i \in DOMAIN buffer[c] /\ buffer[c][i] # None
    /\ buffer' = [buffer EXCEPT ![c] = [@ EXCEPT ![i] = None]]
    /\ UNCHANGED <<owner, grant, epoch, generation>>

(* The owner key changes hands only through absence: SET NX, or DEL and     *)
(* expiry.                                                                  *)
SetOwner(c, w) ==
    /\ owner[c] = None
    /\ owner' = [owner EXCEPT ![c] = w]
    /\ UNCHANGED <<grant, epoch, generation, buffer>>

DropOwner(c) ==
    /\ owner[c] # None
    /\ owner' = [owner EXCEPT ![c] = None]
    /\ UNCHANGED <<grant, epoch, generation, buffer>>

(* Channel cleanup deletes the chunks and their index. *)
DropMedia(c) ==
    /\ buffer' = [buffer EXCEPT ![c] = <<>>]
    /\ UNCHANGED <<owner, grant, epoch, generation>>

AuthorityNext ==
    \E c \in Channels :
        \/ \E w \in Leases : Acquire(c, w) \/ SetOwner(c, w)
        \/ \E e \in 1..MaxEpoch :
             \/ Release(c, e)
             \/ \E g \in Generations : Activate(c, e, g) \/ Publish(c, e, g)
        \/ ExpireGrant(c)
        \/ \E i \in 1..MaxChunks : ExpireChunk(c, i)
        \/ DropOwner(c)
        \/ DropMedia(c)

AuthoritySpec == AuthorityInit /\ [][AuthorityNext]_avars

-----------------------------------------------------------------------------
(* The keys have the values the scripts write. *)
AuthorityTypeOK ==
    /\ owner \in [Channels -> Leases \cup {None}]
    /\ grant \in [Channels -> Grant \cup {None}]
    /\ epoch \in [Channels -> 0..MaxEpoch]
    /\ generation \in [Channels -> Generations \cup {None}]
    /\ buffer \in [Channels -> Seq(Provenance \cup {None})]

(* A grant is always the newest epoch of its channel: _ACQUIRE's INCR makes *)
(* every older token stale for good.                                        *)
GrantIsNewest ==
    \A c \in Channels : grant[c] # None => grant[c].epoch = epoch[c]

(* Chunks of a superseded epoch never follow chunks of a newer one: a       *)
(* worker that lost its grant cannot publish again through _PUBLISH_CHUNK.  *)
EpochsNeverRegress ==
    \A c \in Channels : \A i, j \in 1..Len(buffer[c]) :
        i < j /\ buffer[c][i] # None /\ buffer[c][j] # None
          => buffer[c][i][1] <= buffer[c][j][1]

(* A published chunk belongs to an epoch that has been granted. *)
ChunksGranted ==
    \A c \in Channels : \A i \in 1..Len(buffer[c]) :
        buffer[c][i] # None => buffer[c][i][1] <= epoch[c]

TermOf(p) == IF p = None THEN None ELSE p[1]

(* The scripts implement a stream that one term at a time may write: grants *)
(* are the terms, DEL and expiry close them, provenance names them.         *)
Fenced == INSTANCE FencedStream WITH
    term <- [c \in Channels |-> IF grant[c] = None THEN 0 ELSE grant[c].epoch],
    last <- epoch,
    stream <- [c \in Channels |-> [i \in 1..Len(buffer[c]) |-> TermOf(buffer[c][i])]]

ImplementsFencedStream == Fenced!Spec
=============================================================================
