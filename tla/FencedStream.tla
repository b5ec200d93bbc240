---------------------------- MODULE FencedStream ----------------------------
(* What the live proxy promises about the media of one channel, whoever     *)
(* produces it: terms are numbered upwards, at most one term is open, only  *)
(* the open term appends, and chunks are only ever lost, never rewritten.   *)
EXTENDS Integers, Sequences

CONSTANTS Channels, None

VARIABLES
    term,    \* the open term of a channel, 0 when there is none
    last,    \* the highest term ever opened
    stream   \* the terms of the chunks, None where a chunk has been lost

svars == <<term, last, stream>>

Lost(s, i) == [s EXCEPT ![i] = None]

Init ==
    /\ term = [c \in Channels |-> 0]
    /\ last = [c \in Channels |-> 0]
    /\ stream = [c \in Channels |-> <<>>]

Open(c) ==
    /\ term[c] = 0
    /\ last' = [last EXCEPT ![c] = @ + 1]
    /\ term' = [term EXCEPT ![c] = last[c] + 1]
    /\ UNCHANGED stream

Close(c) ==
    /\ term' = [term EXCEPT ![c] = 0]
    /\ UNCHANGED <<last, stream>>

Write(c) ==
    /\ term[c] # 0
    /\ stream' = [stream EXCEPT ![c] = Append(@, term[c])]
    /\ UNCHANGED <<term, last>>

Lose(c) ==
    /\ \/ stream' = [stream EXCEPT ![c] = <<>>]
       \/ \E i \in DOMAIN stream[c] : stream' = [stream EXCEPT ![c] = Lost(@, i)]
    /\ UNCHANGED <<term, last>>

Next == \E c \in Channels : Open(c) \/ Close(c) \/ Write(c) \/ Lose(c)

Spec == Init /\ [][Next]_svars
=============================================================================
