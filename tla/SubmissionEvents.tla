---------------------------- MODULE SubmissionEvents ----------------------------
(***************************************************************************)
(* The submission outbox and its delivery to the event journal:            *)
(* drain_submission_events of submission_recovery.py and the publisher of  *)
(* submission_events.py.                                                   *)
(*                                                                         *)
(* The outbox is part of the request registry, whose writes are atomic and *)
(* fsynced.  The journal is another file: a line is appended under a       *)
(* non-blocking flock, made durable by fsync, and only then acknowledged   *)
(* in the outbox.  A process may die between any two of these steps, and a *)
(* power loss takes away the lines that were not synced.                   *)
(***************************************************************************)
EXTENDS Naturals, Sequences

CONSTANTS Events,   \* submission_event_id: an attempt and an event type
          Drainers  \* the processes that deliver events

ASSUME EventsAssumption == Events # {}

VARIABLES
    outbox,    \* event -> "none", "pending" or "delivered"
    journal,   \* the complete lines of the journal, each named by its event
    synced,    \* how many of them an fsync has made durable
    torn,      \* the journal ends in an incomplete line
    drain      \* process -> the event it delivers and how far it is

eventVars == <<outbox, journal, synced, torn, drain>>

Idle == [at |-> "idle"]
Delivery == [at: {"picked", "absent", "found", "written", "confirmed"}, event: Events]

EventsInit ==
    /\ outbox = [e \in Events |-> "none"]
    /\ journal = <<>>
    /\ synced = 0
    /\ torn = FALSE
    /\ drain = [d \in Drainers |-> Idle]

(***************************************************************************)
(* Helpers.                                                                *)
(***************************************************************************)
Draining(d, at) == drain[d].at = at
Going(d, at) == drain' = [drain EXCEPT ![d].at = at]
Stopping(d) == drain' = [drain EXCEPT ![d] = Idle]

\* A line with this submission_event_id is in the journal.
Journaled(e) == \E i \in 1..Len(journal) : journal[i] = e
Durable(e) == \E i \in 1..synced : journal[i] = e

\* The descriptor, and with it the flock, is held from the scan to the fsync.
Locked == \E d \in Drainers : drain[d].at \in {"absent", "found", "written"}

(***************************************************************************)
(* bind_submission puts its two events into the outbox, undelivered.       *)
(***************************************************************************)
Enqueue(es) == outbox' = [e \in Events |-> IF e \in es THEN "pending" ELSE outbox[e]]

(***************************************************************************)
(* drain_submission_events: one undelivered event at a time.  The list is  *)
(* read once, so an event may be delivered by another process meanwhile.   *)
(***************************************************************************)
Pick(d, e) ==
    /\ Draining(d, "idle")
    /\ outbox[e] = "pending"
    /\ drain' = [drain EXCEPT ![d] = [at |-> "picked", event |-> e]]
    /\ UNCHANGED <<outbox, journal, synced, torn>>

ScanReplayMutant(d) ==
    /\ Draining(d, "picked")
    /\ ~Locked
    /\ ~torn
    /\ IF Journaled(drain[d].event) THEN Stopping(d) ELSE Going(d, "absent")
    /\ UNCHANGED <<outbox, journal, synced, torn>>
ScanMutant(d) ==
    /\ Draining(d, "picked")
    /\ ~torn
    /\ Going(d, IF Journaled(drain[d].event) THEN "found" ELSE "absent")
    /\ UNCHANGED <<outbox, journal, synced, torn>>

\* publish: take the lock without waiting, refuse an incomplete tail, and
\* look for the event among the lines.  The journal's size budget, its file
\* mode and lines of other publishers that do not parse are left out: they
\* refuse every event alike.
Scan(d) ==
    /\ Draining(d, "picked")
    /\ ~Locked
    /\ ~torn
    /\ Going(d, IF Journaled(drain[d].event) THEN "found" ELSE "absent")
    /\ UNCHANGED <<outbox, journal, synced, torn>>

\* A busy lock or a torn journal: the event stays pending.
PublicationRefused(d) ==
    /\ Draining(d, "picked")
    /\ Locked \/ torn
    /\ Stopping(d)
    /\ UNCHANGED <<outbox, journal, synced, torn>>

Append_(d) ==
    /\ Draining(d, "absent")
    /\ journal' = Append(journal, drain[d].event)
    /\ Going(d, "written")
    /\ UNCHANGED <<outbox, synced, torn>>

\* os.write wrote a part of the line.
ShortWrite(d) ==
    /\ Draining(d, "absent")
    /\ torn' = TRUE
    /\ Stopping(d)
    /\ UNCHANGED <<outbox, journal, synced>>

ConfirmMutant(d) ==
    /\ drain[d].at \in {"written", "found"}
    /\ synced' = IF Draining(d, "written") THEN Len(journal) ELSE synced
    /\ Going(d, "confirmed")
    /\ UNCHANGED <<outbox, journal, torn>>

\* _confirm_durable_path, after an append and after a replay alike.
Confirm(d) ==
    /\ drain[d].at \in {"written", "found"}
    /\ synced' = Len(journal)
    /\ Going(d, "confirmed")
    /\ UNCHANGED <<outbox, journal, torn>>

\* acknowledge_submission_event
Acknowledge(d) ==
    /\ Draining(d, "confirmed")
    /\ outbox' = [outbox EXCEPT ![drain[d].event] = "delivered"]
    /\ Stopping(d)
    /\ UNCHANGED <<journal, synced, torn>>

\* The process dies, or a call raises: the descriptor is closed.
DeliveryFails(d) ==
    /\ ~Draining(d, "idle")
    /\ Stopping(d)
    /\ UNCHANGED <<outbox, journal, synced, torn>>

\* The machine loses power: lines without an fsync may be lost, in part.
JournalAfterPowerLoss ==
    /\ \E n \in synced..Len(journal) :
          /\ journal' = SubSeq(journal, 1, n)
          /\ torn' \in {torn, torn \/ n < Len(journal)}
    /\ synced' = Len(journal')
    /\ drain' = [d \in Drainers |-> Idle]
    /\ UNCHANGED outbox

(***************************************************************************)
(* One step of a delivery under way.                                       *)
(***************************************************************************)
Deliver(d) ==
    Scan(d) \/ PublicationRefused(d) \/ Append_(d) \/ Confirm(d) \/ Acknowledge(d)

EventsTypeOK ==
    /\ outbox \in [Events -> {"none", "pending", "delivered"}]
    /\ journal \in Seq(Events)
    /\ synced \in 0..Len(journal)
    /\ torn \in BOOLEAN
    /\ drain \in [Drainers -> {Idle} \cup Delivery]

\* What the outbox calls delivered is in the durable part of the journal: no
\* crash between append, fsync and acknowledgement loses an acknowledged event
\* (submission_events.py, "a successful replay also confirms fsync").
AcknowledgedIsDurable == \A e \in Events : outbox[e] = "delivered" => Durable(e)

\* No event has two lines, whichever processes deliver or replay it: with a
\* second line every later publication of that event is refused as duplicate
\* evidence, and it is never acknowledged.
JournaledOnce == \A i, j \in 1..Len(journal) : journal[i] = journal[j] => i = j
=============================================================================
