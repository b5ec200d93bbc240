--------------------------- MODULE MediaRequestsProofs ---------------------------
(***************************************************************************)
(* The safety of media requests, for any requests, processes and events.   *)
(***************************************************************************)
EXTENDS MediaRequests, TLAPS

(***************************************************************************)
(* 1. The delivery of submission events, the first part of the state.      *)
(***************************************************************************)
Holding == {"absent", "found", "written"}

\* The flock: at most one process between scan and fsync.
OneHolder ==
    \A c, d \in Drainers : drain[c].at \in Holding /\ drain[d].at \in Holding => c = d

\* What a delivery has established when it is at each of its steps.
DeliveryKnows ==
    \A d \in Drainers :
        /\ drain[d].at = "absent" => ~Journaled(drain[d].event)
        /\ drain[d].at \in {"found", "written"} => Journaled(drain[d].event)
        /\ drain[d].at = "confirmed" => Durable(drain[d].event)

\* The inductive invariant.
EventInv ==
    /\ EventsTypeOK
    /\ OneHolder
    /\ DeliveryKnows
    /\ AcknowledgedIsDurable
    /\ JournaledOnce

\* The steps a composition may take on the event variables.
EventStep ==
    \/ \E d \in Drainers : Deliver(d) \/ ShortWrite(d) \/ DeliveryFails(d)
    \/ \E d \in Drainers, e \in Events : Pick(d, e)
    \/ \E es : Enqueue(es) /\ UNCHANGED <<journal, synced, torn, drain>>
    \/ JournalAfterPowerLoss
    \/ UNCHANGED eventVars

\* Nothing is journaled, delivered or under way at the start.
LEMMA EventsInitInv == EventsInit => EventInv
<1> SUFFICES ASSUME EventsInit PROVE EventInv
  OBVIOUS
<1>1. EventsTypeOK
  <2>1. journal \in Seq(Events) /\ Len(journal) = 0
    BY DEF EventsInit
  <2>2. drain \in [Drainers -> {Idle} \cup Delivery]
    BY DEF EventsInit
  <2>3. torn \in BOOLEAN
    BY DEF EventsInit
  <2>4. outbox \in [Events -> {"none", "pending", "delivered"}] /\ synced \in 0..Len(journal)
    BY <2>1 DEF EventsInit
  <2> QED
    BY <2>1, <2>2, <2>3, <2>4 DEF EventsTypeOK
<1>2. OneHolder /\ DeliveryKnows
  BY DEF EventsInit, OneHolder, DeliveryKnows, Idle, Holding
<1>3. AcknowledgedIsDurable /\ JournaledOnce
  BY DEF EventsInit, AcknowledgedIsDurable, JournaledOnce
<1> QED
  BY <1>1, <1>2, <1>3 DEF EventInv

\* The shape of a process's delivery record.
LEMMA DeliveryShape ==
  ASSUME EventsTypeOK, NEW d \in Drainers, drain[d].at # "idle"
  PROVE  /\ drain[d] \in Delivery
         /\ drain[d].event \in Events
  BY DEF EventsTypeOK, Idle, Delivery

\* A step that only moves the delivery of one process to another place.
LEMMA MovesType ==
  ASSUME EventsTypeOK, NEW d \in Drainers, drain[d].at # "idle",
         NEW at \in {"picked", "absent", "found", "written", "confirmed"}, Going(d, at)
  PROVE  /\ drain' \in [Drainers -> {Idle} \cup Delivery]
         /\ drain'[d].at = at
         /\ drain'[d].event = drain[d].event
         /\ \A c \in Drainers \ {d} : drain'[c] = drain[c]
  BY DeliveryShape DEF Going, EventsTypeOK, Delivery, Idle

\* A delivery that ends leaves the others alone.
LEMMA StopsType ==
  ASSUME EventsTypeOK, NEW d \in Drainers, Stopping(d)
  PROVE  /\ drain' \in [Drainers -> {Idle} \cup Delivery]
         /\ drain'[d].at = "idle"
         /\ \A c \in Drainers \ {d} : drain'[c] = drain[c]
  BY DEF Stopping, EventsTypeOK, Idle

\* A step that changes nothing but one delivery, and ends it.
LEMMA StopsInv ==
  ASSUME EventInv, NEW d \in Drainers, Stopping(d),
         journal' = journal, synced' = synced, torn' \in BOOLEAN, outbox' = outbox
  PROVE  EventInv'
  BY StopsType DEF EventInv, EventsTypeOK, OneHolder, DeliveryKnows, AcknowledgedIsDurable,
                   JournaledOnce, Journaled, Durable, Holding

\* publish: the scan under the lock finds out whether the event has a line.
LEMMA ScanInv ==
  ASSUME EventInv, NEW d \in Drainers, Scan(d)
  PROVE  EventInv'
<1>1. drain[d].at # "idle"
  BY DEF Scan, Draining
<1> DEFINE at == IF Journaled(drain[d].event) THEN "found" ELSE "absent"
<1>2. Going(d, at) /\ at \in {"found", "absent"}
  BY DEF Scan
<1>3. /\ drain' \in [Drainers -> {Idle} \cup Delivery]
      /\ drain'[d].at = at
      /\ drain'[d].event = drain[d].event
      /\ \A c \in Drainers \ {d} : drain'[c] = drain[c]
  BY <1>1, <1>2, MovesType DEF EventInv
<1>4. \A c \in Drainers : drain[c].at \notin Holding
  BY DEF Scan, Locked, Holding
<1> HIDE DEF at
<1>5. OneHolder'
  BY <1>3, <1>4 DEF OneHolder
<1>6. at = "found" => Journaled(drain[d].event)
  BY DEF at
<1>7. at = "absent" => ~Journaled(drain[d].event)
  BY DEF at
<1>8. DeliveryKnows'
  BY <1>2, <1>3, <1>6, <1>7 DEF Scan, DeliveryKnows, EventInv, Journaled, Durable
<1> QED
  BY <1>3, <1>5, <1>8 DEF EventInv, EventsTypeOK, Scan, AcknowledgedIsDurable, JournaledOnce, Durable

\* publish: one line is appended, for an event that has none.
LEMMA AppendInv ==
  ASSUME EventInv, NEW d \in Drainers, Append_(d)
  PROVE  EventInv'
<1>1. drain[d].at = "absent"
  BY DEF Append_, Draining
<1>2. drain[d].event \in Events
  BY <1>1, DeliveryShape DEF EventInv
<1>3. /\ drain' \in [Drainers -> {Idle} \cup Delivery]
      /\ drain'[d].at = "written"
      /\ drain'[d].event = drain[d].event
      /\ \A c \in Drainers \ {d} : drain'[c] = drain[c]
  BY <1>1, MovesType DEF Append_, EventInv
<1>4. /\ journal' \in Seq(Events)
      /\ Len(journal') = Len(journal) + 1
      /\ journal'[Len(journal) + 1] = drain[d].event
      /\ \A i \in 1..Len(journal) : journal'[i] = journal[i]
  BY <1>2 DEF Append_, EventInv, EventsTypeOK
<1>5. synced' = synced /\ synced \in 0..Len(journal) /\ Len(journal) \in Nat
  BY DEF Append_, EventInv, EventsTypeOK
<1>6. EventsTypeOK'
  BY <1>3, <1>4, <1>5 DEF EventsTypeOK, EventInv, Append_
<1>7. JournaledOnce'
  BY <1>1, <1>4, <1>5 DEF EventInv, JournaledOnce, DeliveryKnows, Journaled
<1>8. AcknowledgedIsDurable'
  BY <1>4, <1>5 DEF EventInv, AcknowledgedIsDurable, Durable, Append_
<1>9. OneHolder'
  BY <1>1, <1>3 DEF EventInv, OneHolder, Holding
<1>10. \A c \in Drainers \ {d} : drain[c].at \notin Holding
  BY <1>1 DEF EventInv, OneHolder, Holding
<1>11. DeliveryKnows'
  <2> SUFFICES ASSUME NEW c \in Drainers
               PROVE  /\ drain'[c].at = "absent" => ~Journaled(drain[c].event)'
                      /\ drain'[c].at \in {"found", "written"} => Journaled(drain[c].event)'
                      /\ drain'[c].at = "confirmed" => Durable(drain[c].event)'
    BY DEF DeliveryKnows
  <2>1. CASE c = d
    BY <2>1, <1>3, <1>4, <1>5 DEF Journaled
  <2>2. CASE c # d
    BY <2>2, <1>3, <1>4, <1>5, <1>10 DEF Journaled, Durable, DeliveryKnows, EventInv, Holding
  <2> QED
    BY <2>1, <2>2
<1> QED
  BY <1>6, <1>7, <1>8, <1>9, <1>11 DEF EventInv

\* _confirm_durable_path: the fsync makes every line durable.
LEMMA ConfirmInv ==
  ASSUME EventInv, NEW d \in Drainers, Confirm(d)
  PROVE  EventInv'
<1>1. drain[d].at \in {"written", "found"}
  BY DEF Confirm
<1>2. /\ drain' \in [Drainers -> {Idle} \cup Delivery]
      /\ drain'[d].at = "confirmed"
      /\ drain'[d].event = drain[d].event
      /\ \A c \in Drainers \ {d} : drain'[c] = drain[c]
  BY <1>1, MovesType DEF Confirm, EventInv
<1>3. /\ journal' = journal /\ synced' = Len(journal) /\ outbox' = outbox /\ torn' = torn
      /\ synced \in 0..Len(journal) /\ Len(journal) \in Nat
  BY DEF Confirm, EventInv, EventsTypeOK
<1>4. \A e : Durable(e) => Durable(e)'
  BY <1>3 DEF Durable
<1>5. DeliveryKnows'
  <2> SUFFICES ASSUME NEW c \in Drainers
               PROVE  /\ drain'[c].at = "absent" => ~Journaled(drain[c].event)'
                      /\ drain'[c].at \in {"found", "written"} => Journaled(drain[c].event)'
                      /\ drain'[c].at = "confirmed" => Durable(drain[c].event)'
    BY DEF DeliveryKnows
  <2>1. CASE c = d
    BY <2>1, <1>1, <1>2, <1>3 DEF Journaled, Durable, DeliveryKnows, EventInv
  <2>2. CASE c # d
    BY <2>2, <1>2, <1>3, <1>4 DEF Journaled, Durable, DeliveryKnows, EventInv
  <2> QED
    BY <2>1, <2>2
<1>6. OneHolder'
  BY <1>1, <1>2 DEF OneHolder, EventInv, Holding
<1>7. AcknowledgedIsDurable' /\ JournaledOnce'
  BY <1>3, <1>4 DEF AcknowledgedIsDurable, JournaledOnce, EventInv
<1>8. EventsTypeOK'
  BY <1>2, <1>3 DEF EventsTypeOK, EventInv
<1> QED
  BY <1>5, <1>6, <1>7, <1>8 DEF EventInv

\* acknowledge_submission_event follows the fsync.
LEMMA AcknowledgeInv ==
  ASSUME EventInv, NEW d \in Drainers, Acknowledge(d)
  PROVE  EventInv'
<1>1. drain[d].at = "confirmed" /\ Durable(drain[d].event)
  BY DEF Acknowledge, Draining, EventInv, DeliveryKnows
<1>2. drain[d].event \in Events
  BY <1>1, DeliveryShape DEF EventInv
<1>3. /\ drain' \in [Drainers -> {Idle} \cup Delivery]
      /\ drain'[d].at = "idle"
      /\ \A c \in Drainers \ {d} : drain'[c] = drain[c]
  BY StopsType DEF Acknowledge, EventInv
<1>4. /\ outbox' = [outbox EXCEPT ![drain[d].event] = "delivered"]
      /\ journal' = journal /\ synced' = synced /\ torn' = torn
  BY DEF Acknowledge
<1>5. EventsTypeOK'
  BY <1>2, <1>3, <1>4 DEF EventsTypeOK, EventInv
<1>6. AcknowledgedIsDurable'
  BY <1>1, <1>2, <1>4 DEF AcknowledgedIsDurable, EventInv, EventsTypeOK, Durable
<1>7. OneHolder' /\ DeliveryKnows' /\ JournaledOnce'
  BY <1>3, <1>4 DEF OneHolder, DeliveryKnows, JournaledOnce, EventInv, Journaled, Durable, Holding
<1> QED
  BY <1>5, <1>6, <1>7 DEF EventInv

\* drain_submission_events takes an event up.
LEMMA PickInv ==
  ASSUME EventInv, NEW d \in Drainers, NEW e \in Events, Pick(d, e)
  PROVE  EventInv'
<1>1. /\ drain' \in [Drainers -> {Idle} \cup Delivery]
      /\ drain'[d].at = "picked"
      /\ \A c \in Drainers \ {d} : drain'[c] = drain[c]
  BY DEF Pick, EventInv, EventsTypeOK, Delivery
<1> QED
  BY <1>1 DEF Pick, EventInv, EventsTypeOK, OneHolder, DeliveryKnows, AcknowledgedIsDurable,
              JournaledOnce, Journaled, Durable, Holding

\* A power loss keeps the durable lines.
LEMMA PowerLossInv ==
  ASSUME EventInv, JournalAfterPowerLoss
  PROVE  EventInv'
<1>1. PICK n \in synced..Len(journal) :
         /\ journal' = SubSeq(journal, 1, n)
         /\ torn' \in {torn, torn \/ n < Len(journal)}
  BY DEF JournalAfterPowerLoss
<1>2. synced \in Nat /\ Len(journal) \in Nat /\ n \in Nat /\ synced <= n /\ n <= Len(journal)
  BY DEF EventInv, EventsTypeOK
<1>3. /\ journal' \in Seq(Events)
      /\ Len(journal') = n
      /\ \A i \in 1..n : journal'[i] = journal[i]
  BY <1>1, <1>2 DEF EventInv, EventsTypeOK
<1>4. synced' = n /\ outbox' = outbox /\ drain' = [d \in Drainers |-> Idle]
  BY <1>3 DEF JournalAfterPowerLoss
<1>5. torn' \in BOOLEAN
  BY <1>1 DEF EventInv, EventsTypeOK
<1>6. EventsTypeOK'
  BY <1>2, <1>3, <1>4, <1>5 DEF EventsTypeOK, EventInv
<1>7. OneHolder' /\ DeliveryKnows'
  BY <1>4 DEF OneHolder, DeliveryKnows, Idle, Holding
<1>8. AcknowledgedIsDurable' /\ JournaledOnce'
  BY <1>2, <1>3, <1>4 DEF AcknowledgedIsDurable, JournaledOnce, EventInv, Durable
<1> QED
  BY <1>6, <1>7, <1>8 DEF EventInv

\* Every step keeps the invariant.
LEMMA EventStepInv == EventInv /\ EventStep => EventInv'
<1> SUFFICES ASSUME EventInv, EventStep PROVE EventInv'
  OBVIOUS
<1>1. ASSUME NEW d \in Drainers, Deliver(d) PROVE EventInv'
  <2>1. CASE Scan(d)
    BY <2>1, ScanInv
  <2>2. CASE PublicationRefused(d)
    BY <2>2, StopsInv DEF PublicationRefused, EventInv, EventsTypeOK
  <2>3. CASE Append_(d)
    BY <2>3, AppendInv
  <2>4. CASE Confirm(d)
    BY <2>4, ConfirmInv
  <2>5. CASE Acknowledge(d)
    BY <2>5, AcknowledgeInv
  <2> QED
    BY <1>1, <2>1, <2>2, <2>3, <2>4, <2>5 DEF Deliver
<1>2. ASSUME NEW d \in Drainers, ShortWrite(d) \/ DeliveryFails(d) PROVE EventInv'
  BY <1>2, StopsInv DEF ShortWrite, DeliveryFails, EventInv, EventsTypeOK
<1>3. ASSUME NEW d \in Drainers, NEW e \in Events, Pick(d, e) PROVE EventInv'
  BY <1>3, PickInv
<1>4. ASSUME NEW es, Enqueue(es), UNCHANGED <<journal, synced, torn, drain>> PROVE EventInv'
  <2>1. EventsTypeOK'
    BY <1>4 DEF EventInv, EventsTypeOK, Enqueue
  <2>2. AcknowledgedIsDurable'
    BY <1>4 DEF EventInv, AcknowledgedIsDurable, Durable, Enqueue
  <2>3. OneHolder' /\ DeliveryKnows' /\ JournaledOnce'
    BY <1>4 DEF EventInv, OneHolder, DeliveryKnows, JournaledOnce, Journaled, Durable
  <2> QED
    BY <2>1, <2>2, <2>3 DEF EventInv
<1>5. CASE UNCHANGED eventVars
  BY <1>5 DEF eventVars, EventInv, EventsTypeOK, OneHolder, DeliveryKnows, AcknowledgedIsDurable,
              JournaledOnce, Journaled, Durable
<1> QED
  BY <1>1, <1>2, <1>3, <1>4, <1>5, PowerLossInv DEF EventStep

(***************************************************************************)
(* 2. The requests, and the two parts together.                            *)
(***************************************************************************)
Pending == [status |-> "PENDING", pid |-> NoPid]
Submitting == [status |-> "SUBMITTING", pid |-> NoPid]
Started == [phase |-> "POST_STARTED", receipt |-> NoPid]

\* What the provider has said of a request for the last time.
Settled(i) == ext[i].status \notin ExtOpen \cup {"FREE"}
Owned(i, r) == ext[i].status # "FREE" /\ ext[i].owner = r

RequestsTypeOK ==
    /\ requests \in [Requests -> Request]
    /\ attempts \in [Requests -> Attempt]
    /\ ext \in [Pids -> {Unused} \cup ExtRequest]
    /\ late \subseteq Requests
    /\ posts \in [Requests -> 0..MaxPosts]
    /\ deletes \in [Requests -> Nat]
    /\ op \in [Procs -> {Idle} \cup Call]
    /\ faults \in 0..MaxFaults

\* What a call knows at each of its places, from its own record alone.
Knows(at, r, seen, att, ans) ==
    /\ at = "submit" => seen = Pending
    /\ at \in {"post", "answered"} =>
          seen = Submitting /\ att = (IF r \in Audio THEN Started ELSE NoAttempt)
    /\ at = "answered" => ans.pid \in Pids /\ ans.status \in ExtStatuses
    /\ at \in {"verify", "bind"} =>
          seen = Submitting /\ att.phase = "RECEIPT_OBSERVED" /\ att.receipt \in Pids
    /\ at = "bind" => ans.pid = att.receipt /\ ans.status \in ExtStatuses
    /\ at \in {"refresh", "apply"} => seen.pid \in Pids
    /\ at = "apply" => ans.pid = seen.pid /\ ans.status \in ExtStatuses
    /\ at = "promoting" => seen.status = "PROCESSING"
    /\ at = "cancel" =>
          /\ seen.pid \in Pids
          /\ seen.status \in Statuses \ (Terminal \cup {"SUBMITTING", "CANCELLING"})
    /\ at \in {"delete", "deleted"} => seen.pid \in Pids /\ seen.status = "CANCELLING"
    /\ at = "deleted" => ans.status = "CANCELLED"
GoodCall(c) == c = Idle \/ (c \in Call /\ Knows(c.at, c.r, c.seen, c.att, c.ans))
CallsKnow == \A p \in Procs : GoodCall(op[p])

\* A request that can still be submitted was never sent and is not being sent.
PostsOnce ==
    /\ \A r \in Requests : requests[r] \in {None, Pending} =>
          posts[r] = 0 /\ \A p \in Procs : op[p].at = "post" => op[p].r # r
    /\ \A p \in Procs : op[p].at = "post" => posts[op[p].r] = 0
    /\ \A p, q \in Procs : op[p].at = "post" /\ op[q].at = "post" /\ op[p].r = op[q].r => p = q
    /\ \A r \in Requests : posts[r] <= 1

\* The same for its cancellation.
Uncancelled == ({"NONE"} \cup Statuses) \ (Terminal \cup {"CANCELLING"})
DeletesOnce ==
    /\ \A r \in Requests : requests[r].status \in Uncancelled =>
          deletes[r] = 0 /\ \A p \in Procs : op[p].at = "delete" => op[p].r # r
    /\ \A p \in Procs : op[p].at = "delete" => deletes[op[p].r] = 0
    /\ \A p, q \in Procs : op[p].at = "delete" /\ op[q].at = "delete" /\ op[p].r = op[q].r => p = q
    /\ \A r \in Requests : deletes[r] <= 1

\* A request has one counterpart at the provider, which its provider id, its
\* receipt and the answer to its submission name, if it is not still under way.
OnlyKnown(r, i) == posts[r] # 0 /\ r \notin late /\ \A j \in Pids : Owned(j, r) => j = i
OneCounterpart ==
    /\ \A i, j \in Pids : \A r \in Requests : Owned(i, r) /\ Owned(j, r) => i = j
    /\ \A r \in late : \A i \in Pids : ~Owned(i, r)
    /\ \A r \in Requests : posts[r] = 0 => r \notin late /\ \A i \in Pids : ~Owned(i, r)
    /\ \A r \in Requests : requests[r].pid \in Pids => OnlyKnown(r, requests[r].pid)
    /\ \A r \in Requests : attempts[r].receipt \in Pids => OnlyKnown(r, attempts[r].receipt)
    /\ \A p \in Procs : op[p].at = "answered" => OnlyKnown(op[p].r, op[p].ans.pid)

\* A request ends only after the provider has ended its counterpart.
EndsSettled ==
    /\ \A r \in Requests : requests[r].status \in Terminal \cup {"PROCESSING"} =>
          requests[r].pid \in Pids /\ Settled(requests[r].pid)
    /\ \A p \in Procs : op[p].at \in {"answered", "bind", "apply"} /\ op[p].ans.status \notin ExtOpen
          => Settled(op[p].ans.pid)
    /\ \A p \in Procs : op[p].at = "deleted" => Settled(op[p].seen.pid)

\* The inductive invariant.
RequestInv ==
    /\ RequestsTypeOK
    /\ CallsKnow
    /\ RegistryLoads
    /\ OneOwner
    /\ ActiveTargetsDisjoint
    /\ PostsOnce
    /\ DeletesOnce
    /\ OneCounterpart
    /\ EndsSettled

(***************************************************************************)
(* Calls.                                                                  *)
(***************************************************************************)
\* The fields of a call under way, and its type.
LEMMA DoingShape ==
  ASSUME NEW at, NEW r, NEW seen, NEW att, NEW ans
  PROVE  /\ Doing(at, r, seen, att, ans).at = at
         /\ Doing(at, r, seen, att, ans).r = r
         /\ Doing(at, r, seen, att, ans).seen = seen
         /\ Doing(at, r, seen, att, ans).att = att
         /\ Doing(at, r, seen, att, ans).ans = ans
  BY DEF Doing

\* A call put together from typed parts is a call.
LEMMA DoingType ==
  ASSUME NEW at \in {"submit", "post", "answered", "recover", "verify", "bind", "refresh",
                     "apply", "promote", "promoting", "cancel", "delete", "deleted"},
         NEW r \in Requests, NEW seen \in Request, NEW att \in Attempt, NEW ans \in Answer
  PROVE  Doing(at, r, seen, att, ans) \in Call
  BY DEF Doing, Call

\* A process without a call is at its idle place.
LEMMA IdleShape == Idle.at = "idle"
  BY DEF Idle

\* The records the code writes literally are typed.
LEMMA RecordTypes ==
  /\ None \in Request /\ Pending \in Request /\ Submitting \in Request
  /\ NoAttempt \in Attempt /\ Started \in Attempt /\ NoAnswer \in Answer
  /\ \A i \in Pids, s \in ExtStatuses \cup {"CANCELLED"} : [pid |-> i, status |-> s] \in Answer
  /\ None.status = "NONE" /\ Pending.status = "PENDING" /\ Submitting.status = "SUBMITTING"
  /\ None.pid = NoPid /\ Pending.pid = NoPid /\ Submitting.pid = NoPid
  BY DEF None, Pending, Submitting, NoAttempt, Started, NoAnswer, Request, Attempt, Answer, Statuses

\* What is to be shown of a call that begins or goes on.
LEMMA GoodDoing ==
  ASSUME NEW at \in {"submit", "post", "answered", "recover", "verify", "bind", "refresh",
                     "apply", "promote", "promoting", "cancel", "delete", "deleted"},
         NEW r \in Requests, NEW seen \in Request, NEW att \in Attempt, NEW ans \in Answer,
         Knows(at, r, seen, att, ans)
  PROVE  GoodCall(Doing(at, r, seen, att, ans))
  BY DoingShape, DoingType DEF GoodCall

\* A process in a call has a full record of it.
LEMMA CallShape ==
  ASSUME RequestsTypeOK, NEW p \in Procs, op[p].at # "idle"
  PROVE  /\ op[p] \in Call
         /\ op[p].r \in Requests
         /\ op[p].seen \in Request
         /\ op[p].att \in Attempt
         /\ op[p].ans \in Answer
  BY DEF RequestsTypeOK, Idle, Call

\* A step of one process changes its own record only.
LEMMA OpChange ==
  ASSUME RequestsTypeOK, NEW p \in Procs, NEW c, op' = [op EXCEPT ![p] = c]
  PROVE  /\ op'[p] = c
         /\ \A q \in Procs \ {p} : op'[q] = op[q]
         /\ GoodCall(c) => op' \in [Procs -> {Idle} \cup Call]
  BY DEF RequestsTypeOK, GoodCall

\* What a call at each place has seen and been told.
LEMMA CallFacts ==
  ASSUME RequestInv, NEW p \in Procs, op[p].at # "idle"
  PROVE  /\ op[p].r \in Requests /\ op[p].seen \in Request
         /\ op[p].att \in Attempt /\ op[p].ans \in Answer
         /\ Knows(op[p].at, op[p].r, op[p].seen, op[p].att, op[p].ans)
  BY CallShape, IdleShape DEF RequestInv, CallsKnow, GoodCall

(***************************************************************************)
(* What each part of the invariant needs of a step.                        *)
(***************************************************************************)
\* The calls are well formed after the step, and the ones at this place are old.
CallsGood ==
    /\ op' \in [Procs -> {Idle} \cup Call]
    /\ \A p \in Procs : GoodCall(op'[p])
KeptAt(at) == \A p \in Procs : op'[p].at = at => op'[p] = op[p]

\* No request becomes submittable again and no submission begins.
LEMMA PostsKept ==
  ASSUME PostsOnce, KeptAt("post"), posts' = posts,
         \A r \in Requests : requests'[r] \in {None, Pending} => requests[r] \in {None, Pending}
  PROVE  PostsOnce'
  BY DEF PostsOnce, KeptAt

\* No request becomes cancellable again and no cancellation begins.
LEMMA DeletesKept ==
  ASSUME DeletesOnce, KeptAt("delete"), deletes' = deletes,
         \A r \in Requests : requests'[r].status \in Uncancelled => requests[r].status \in Uncancelled
  PROVE  DeletesOnce'
  BY DEF DeletesOnce, KeptAt

\* The provider creates nothing and every id the registry holds is a known one.
LEMMA CounterpartsKept ==
  ASSUME OneCounterpart, KeptAt("answered"), late' = late, late \subseteq Requests,
         \A r \in Requests : posts'[r] = 0 <=> posts[r] = 0,
         \A i \in Pids, r \in Requests : Owned(i, r)' <=> Owned(i, r),
         \A r \in Requests : requests'[r].pid \in Pids => OnlyKnown(r, requests'[r].pid),
         \A r \in Requests : attempts'[r].receipt \in Pids => OnlyKnown(r, attempts'[r].receipt),
         \A p \in Procs : op[p].at = "answered" => op[p].r \in Requests
  PROVE  OneCounterpart'
<1>1. \A r \in Requests : \A i : OnlyKnown(r, i)' <=> OnlyKnown(r, i)
  BY DEF OnlyKnown
<1>2. \A i, j \in Pids : \A r \in Requests : Owned(i, r)' /\ Owned(j, r)' => i = j
  BY DEF OneCounterpart
<1>3. \A r \in late' : \A i \in Pids : ~Owned(i, r)'
  BY DEF OneCounterpart
<1>4. \A r \in Requests : posts'[r] = 0 => r \notin late' /\ \A i \in Pids : ~Owned(i, r)'
  BY DEF OneCounterpart
<1>5. \A p \in Procs : op'[p].at = "answered" => OnlyKnown(op[p].r, op[p].ans.pid)'
  BY <1>1 DEF OneCounterpart, KeptAt
<1> QED
  BY <1>1, <1>2, <1>3, <1>4, <1>5 DEF OneCounterpart

SettledNext(i) == ext'[i].status \notin ExtOpen \cup {"FREE"}

\* The provider reopens nothing, and only a settled request ends.
LEMMA EndsKept ==
  ASSUME EndsSettled,
         KeptAt("answered"), KeptAt("deleted"),
         \A p \in Procs : op'[p].at \in {"bind", "apply"} /\ op'[p].ans.status \notin ExtOpen =>
            op'[p] = op[p] \/ SettledNext(op'[p].ans.pid),
         \A r \in Requests : requests'[r].status \in Terminal \cup {"PROCESSING"} =>
            requests'[r].pid \in Pids /\ SettledNext(requests'[r].pid),
         \A i \in Pids : Settled(i) => SettledNext(i),
         \A p \in Procs : op[p].at \in {"answered", "bind", "apply"} => op[p].ans.pid \in Pids,
         \A p \in Procs : op[p].at = "deleted" => op[p].seen.pid \in Pids
  PROVE  EndsSettled'
<1>1. \A r \in Requests : requests'[r].status \in Terminal \cup {"PROCESSING"} =>
         requests'[r].pid \in Pids /\ SettledNext(requests'[r].pid)
  OBVIOUS
<1>2. \A p \in Procs : op'[p].at \in {"answered", "bind", "apply"} /\ op'[p].ans.status \notin ExtOpen
         => SettledNext(op'[p].ans.pid)
  BY DEF EndsSettled, KeptAt
<1>3. \A p \in Procs : op'[p].at = "deleted" => SettledNext(op'[p].seen.pid)
  BY DEF EndsSettled, KeptAt
<1> QED
  BY <1>1, <1>2, <1>3 DEF EndsSettled, Settled, SettledNext

\* The places of the calls the invariant speaks of, from CallFacts.
LEMMA CallsOfInv ==
  ASSUME RequestInv
  PROVE  /\ \A p \in Procs : op[p].at = "answered" => op[p].r \in Requests
         /\ \A p \in Procs : op[p].at \in {"answered", "bind", "apply"} => op[p].ans.pid \in Pids
         /\ \A p \in Procs : op[p].at = "deleted" => op[p].seen.pid \in Pids
<1> SUFFICES ASSUME NEW p \in Procs, op[p].at \in {"answered", "bind", "apply", "deleted"}
             PROVE  /\ op[p].r \in Requests
                    /\ op[p].at \in {"answered", "bind", "apply"} => op[p].ans.pid \in Pids
                    /\ op[p].at = "deleted" => op[p].seen.pid \in Pids
  OBVIOUS
<1> QED
  BY CallFacts DEF Knows

\* A step of the calls alone.
Quiet ==
    /\ UNCHANGED <<requests, attempts, ext, late, posts, deletes>>
    /\ faults' \in 0..MaxFaults
    /\ CallsGood
    /\ KeptAt("post") /\ KeptAt("answered") /\ KeptAt("delete") /\ KeptAt("deleted")
    /\ \A p \in Procs : op'[p].at \in {"bind", "apply"} /\ op'[p].ans.status \notin ExtOpen =>
          op'[p] = op[p] \/ SettledNext(op'[p].ans.pid)

\* A step that changes only the calls, and in them nothing that matters elsewhere.
LEMMA QuietInv ==
  ASSUME RequestInv, Quiet
  PROVE  RequestInv'
<1>1. RequestsTypeOK'
  BY DEF RequestInv, RequestsTypeOK, Quiet, CallsGood
<1>2. CallsKnow'
  BY DEF Quiet, CallsGood, CallsKnow
<1>3. RegistryLoads' /\ OneOwner' /\ ActiveTargetsDisjoint'
  BY DEF RequestInv, Quiet, RegistryLoads, OneOwner, ActiveTargetsDisjoint, Active, Present
<1>4. PostsOnce'
  BY PostsKept DEF RequestInv, Quiet
<1>5. DeletesOnce'
  BY DeletesKept DEF RequestInv, Quiet
<1>6. OneCounterpart'
  BY CounterpartsKept, CallsOfInv DEF RequestInv, Quiet, RequestsTypeOK, Owned, OneCounterpart
<1>7. EndsSettled'
  BY EndsKept, CallsOfInv DEF RequestInv, Quiet, EndsSettled, Settled, SettledNext
<1> QED
  BY <1>1, <1>2, <1>3, <1>4, <1>5, <1>6, <1>7 DEF RequestInv

(***************************************************************************)
(* Writes of the registry.                                                 *)
(***************************************************************************)
\* The record new and the attempt att of request r may be written.
GoodWrite(r, new, att) ==
    /\ new \in Request
    /\ att \in Attempt
    /\ att.phase # "NONE" => new.status \in Statuses
    /\ att.phase \in {"POST_STARTED", "RECEIPT_OBSERVED"} => new = Submitting
    /\ att.phase = "BOUND" => new.pid = att.receipt /\ new.status # "SUBMITTING"
    /\ att.phase \in {"NONE", "POST_STARTED"} <=> att.receipt = NoPid
    /\ new.pid # NoPid => ~Taken(new.pid, r)
    /\ att.receipt # NoPid => \A q \in Requests \ {r} : attempts[q].receipt # att.receipt
    /\ new.status \in Statuses \ Terminal => Active(r) \/ ~Conflict(r)
    /\ new.pid \in Pids => OnlyKnown(r, new.pid)
    /\ att.receipt \in Pids => OnlyKnown(r, att.receipt)
    /\ new.status \in Terminal \cup {"PROCESSING"} => new.pid \in Pids /\ Settled(new.pid)

Write(r, new, att) ==
    /\ requests' = [requests EXCEPT ![r] = new]
    /\ attempts' = [attempts EXCEPT ![r] = att]
    /\ UNCHANGED <<ext, late, posts, deletes, faults>>

\* What one write leaves in the registry, for the request and for the others.
LEMMA Written ==
  ASSUME RequestInv, NEW r \in Requests, NEW new, NEW att, Write(r, new, att)
  PROVE  /\ requests'[r] = new /\ attempts'[r] = att
         /\ \A q \in Requests \ {r} : requests'[q] = requests[q] /\ attempts'[q] = attempts[q]
  BY DEF RequestInv, RequestsTypeOK, Write

\* Everything but the two counts of mutations, which depend on the new call.
LEMMA WriteKeeps ==
  ASSUME RequestInv, NEW r \in Requests, NEW new, NEW att, Write(r, new, att),
         GoodWrite(r, new, att),
         CallsGood,
         KeptAt("answered"), KeptAt("deleted"), KeptAt("bind"), KeptAt("apply")
  PROVE  /\ RequestsTypeOK' /\ CallsKnow' /\ RegistryLoads' /\ OneOwner'
         /\ ActiveTargetsDisjoint' /\ OneCounterpart' /\ EndsSettled'
<1>1. /\ requests'[r] = new /\ attempts'[r] = att
      /\ \A q \in Requests \ {r} : requests'[q] = requests[q] /\ attempts'[q] = attempts[q]
  BY Written
<1>2. RequestsTypeOK'
  BY DEF RequestInv, RequestsTypeOK, Write, GoodWrite, CallsGood
<1>3. CallsKnow'
  BY DEF CallsGood, CallsKnow
<1>4. RegistryLoads'
  <2>1. ASSUME NEW q \in Requests
        PROVE  /\ attempts'[q].phase # "NONE" => requests'[q].status \in Statuses
               /\ attempts'[q].phase \in {"POST_STARTED", "RECEIPT_OBSERVED"} => requests'[q] = Submitting
               /\ attempts'[q].phase = "BOUND" =>
                     requests'[q].pid = attempts'[q].receipt /\ requests'[q].status # "SUBMITTING"
               /\ attempts'[q].phase \in {"NONE", "POST_STARTED"} <=> attempts'[q].receipt = NoPid
    BY <1>1 DEF RequestInv, RegistryLoads, Present, GoodWrite, Submitting
  <2> QED
    BY <2>1 DEF RegistryLoads, Present, Submitting
<1>5. OneOwner'
  BY <1>1 DEF RequestInv, OneOwner, GoodWrite, Taken
<1>6. ActiveTargetsDisjoint'
  BY <1>1 DEF RequestInv, ActiveTargetsDisjoint, GoodWrite, Active, Conflict
<1>7. OneCounterpart'
  <2>1. \A q \in Requests : requests'[q].pid \in Pids => OnlyKnown(q, requests'[q].pid)
    BY <1>1 DEF RequestInv, OneCounterpart, GoodWrite
  <2>2. \A q \in Requests : attempts'[q].receipt \in Pids => OnlyKnown(q, attempts'[q].receipt)
    BY <1>1 DEF RequestInv, OneCounterpart, GoodWrite
  <2>3. /\ late' = late /\ late \subseteq Requests /\ posts' = posts
        /\ \A i \in Pids, q \in Requests : Owned(i, q)' <=> Owned(i, q)
    BY DEF RequestInv, RequestsTypeOK, Write, Owned
  <2> QED
    BY <2>1, <2>2, <2>3, CounterpartsKept, CallsOfInv DEF RequestInv
<1>8. EndsSettled'
  <2>1. \A i : SettledNext(i) <=> Settled(i)
    BY DEF Settled, SettledNext, Write
  <2>2. \A q \in Requests : requests'[q].status \in Terminal \cup {"PROCESSING"} =>
            requests'[q].pid \in Pids /\ SettledNext(requests'[q].pid)
    BY <1>1, <2>1 DEF RequestInv, EndsSettled, GoodWrite
  <2>3. \A p \in Procs : op'[p].at \in {"bind", "apply"} => op'[p] = op[p]
    BY DEF KeptAt
  <2> QED
    BY <2>1, <2>2, <2>3, EndsKept, CallsOfInv DEF RequestInv
<1> QED
  BY <1>2, <1>3, <1>4, <1>5, <1>6, <1>7, <1>8

\* A write by which no call begins to submit or to cancel.
LEMMA WriteInv ==
  ASSUME RequestInv, NEW r \in Requests, NEW new, NEW att, Write(r, new, att),
         GoodWrite(r, new, att),
         CallsGood,
         KeptAt("answered"), KeptAt("deleted"), KeptAt("bind"), KeptAt("apply"),
         KeptAt("post"), KeptAt("delete"),
         new \in {None, Pending} => requests[r] \in {None, Pending},
         new.status \in Uncancelled => requests[r].status \in Uncancelled
  PROVE  RequestInv'
<1>1. /\ requests'[r] = new
      /\ \A q \in Requests \ {r} : requests'[q] = requests[q]
  BY Written
<1>2. PostsOnce'
  BY <1>1, PostsKept DEF RequestInv, Write
<1>3. DeletesOnce'
  BY <1>1, DeletesKept DEF RequestInv, Write
<1> QED
  BY <1>2, <1>3, WriteKeeps DEF RequestInv

(***************************************************************************)
(* Steps of one process.                                                   *)
(***************************************************************************)
\* The call of p becomes c, the others go on as they are.
Turns(p, c) ==
    /\ GoodCall(c)
    /\ op'[p] = c
    /\ op' \in [Procs -> {Idle} \cup Call]
    /\ \A q \in Procs \ {p} : op'[q] = op[q]

\* A call that ends is a turn of its process.
LEMMA TurnsIdle ==
  ASSUME RequestInv, NEW p \in Procs, Done(p)
  PROVE  Turns(p, Idle)
  BY OpChange DEF RequestInv, Done, Turns, GoodCall

\* A call that goes on, knowing what it must, is a turn of its process.
LEMMA TurnsDoing ==
  ASSUME RequestInv, NEW p \in Procs,
         NEW at \in {"submit", "post", "answered", "recover", "verify", "bind", "refresh",
                     "apply", "promote", "promoting", "cancel", "delete", "deleted"},
         NEW r \in Requests, NEW seen \in Request, NEW att \in Attempt, NEW ans \in Answer,
         Knows(at, r, seen, att, ans),
         Next_(p, Doing(at, r, seen, att, ans))
  PROVE  Turns(p, Doing(at, r, seen, att, ans))
  BY OpChange, GoodDoing DEF RequestInv, Next_, Turns

\* Only the new call can be at a place that matters.
LEMMA TurnsKeeps ==
  ASSUME RequestInv, NEW p \in Procs, NEW c, Turns(p, c)
  PROVE  /\ CallsGood
         /\ \A at : c.at # at => KeptAt(at)
         /\ op'[p] = c
         /\ \A q \in Procs \ {p} : op'[q] = op[q]
<1>1. \A q \in Procs : GoodCall(op[q])
  BY DEF RequestInv, CallsKnow
<1> QED
  BY <1>1 DEF Turns, CallsGood, KeptAt

\* A step that only ends a call.
LEMMA EndsInv ==
  ASSUME RequestInv, NEW p \in Procs, Done(p),
         UNCHANGED <<requests, attempts, ext, late, posts, deletes>>, faults' \in 0..MaxFaults
  PROVE  RequestInv'
<1>1. CallsGood /\ (\A at : "idle" # at => KeptAt(at)) /\ op'[p] = Idle /\ \A q \in Procs \ {p} : op'[q] = op[q]
  BY TurnsIdle, TurnsKeeps, IdleShape
<1>2. Quiet
  BY <1>1, IdleShape DEF Quiet, KeptAt
<1> QED
  BY <1>2, QuietInv

\* A step that only brings a call to a place where it has been told nothing.
LEMMA GoesInv ==
  ASSUME RequestInv, NEW p \in Procs,
         NEW at \in {"submit", "recover", "verify", "refresh", "promote", "promoting", "cancel"},
         NEW r \in Requests, NEW seen \in Request, NEW att \in Attempt,
         Knows(at, r, seen, att, NoAnswer),
         Next_(p, Doing(at, r, seen, att, NoAnswer)),
         UNCHANGED <<requests, attempts, ext, late, posts, deletes, faults>>
  PROVE  RequestInv'
<1> DEFINE c == Doing(at, r, seen, att, NoAnswer)
<1>1. Turns(p, c)
  BY TurnsDoing, RecordTypes
<1>2. c.at = at
  BY DoingShape
<1> HIDE DEF c
<1>3. CallsGood /\ (\A a : c.at # a => KeptAt(a)) /\ op'[p] = c /\ \A q \in Procs \ {p} : op'[q] = op[q]
  BY <1>1, TurnsKeeps
<1>4. Quiet
  BY <1>2, <1>3 DEF Quiet, RequestInv, RequestsTypeOK
<1> QED
  BY <1>4, QuietInv

\* A step that only brings a call the provider's present answer.
LEMMA HearsInv ==
  ASSUME RequestInv, NEW p \in Procs, NEW at \in {"bind", "apply"}, NEW i \in Pids,
         op[p].at # "idle",
         ext[i].status \in ExtStatuses,
         Knows(at, op[p].r, op[p].seen, op[p].att, [pid |-> i, status |-> ext[i].status]),
         Next_(p, Told(p, at, i, ext[i].status)),
         UNCHANGED <<requests, attempts, ext, late, posts, deletes, faults>>
  PROVE  RequestInv'
<1> DEFINE a == [pid |-> i, status |-> ext[i].status]
           c == Doing(at, op[p].r, op[p].seen, op[p].att, a)
<1>1. a \in Answer /\ a.pid = i /\ a.status = ext[i].status
  BY DEF Answer
<1>2. op[p].r \in Requests /\ op[p].seen \in Request /\ op[p].att \in Attempt
  BY CallFacts
<1>3. Next_(p, c)
  BY DEF Told
<1>4. c.at = at /\ c.ans = a
  BY DoingShape
<1>5. Turns(p, c)
  <2> HIDE DEF a
  <2> QED BY <1>1, <1>2, <1>3, TurnsDoing DEF a
<1> HIDE DEF c, a
<1>6. CallsGood /\ (\A x : c.at # x => KeptAt(x)) /\ op'[p] = c /\ \A q \in Procs \ {p} : op'[q] = op[q]
  BY <1>5, TurnsKeeps
<1>7. SettledNext(i) \/ ext[i].status \in ExtOpen
  BY DEF SettledNext, ExtStatuses, ExtOpen
<1>8. Quiet
  BY <1>1, <1>4, <1>6, <1>7 DEF Quiet, RequestInv, RequestsTypeOK
<1> QED
  BY <1>8, QuietInv

(***************************************************************************)
(* The steps that read.                                                    *)
(***************************************************************************)
\* A request that has a receipt is still being submitted.
LEMMA RecoverableFacts ==
  ASSUME RequestInv, NEW r \in Requests, Recoverable(r)
  PROVE  /\ requests[r] = Submitting
         /\ attempts[r].phase = "RECEIPT_OBSERVED" /\ attempts[r].receipt \in Pids
<1>1. attempts[r] \in Attempt
  BY DEF RequestInv, RequestsTypeOK
<1> QED
  BY <1>1 DEF RequestInv, RegistryLoads, Recoverable, Submitting, Attempt

\* A call begins: a submission, a recovery, a refresh or a cancellation.
LEMMA StartsInv ==
  ASSUME RequestInv, NEW p \in Procs, NEW r \in Requests, Starts(p, r) \/ BeginRecover(p, r)
  PROVE  RequestInv'
<1>1. /\ requests[r] \in Request /\ attempts[r] \in Attempt
      /\ (requests[r].pid # NoPid => requests[r].pid \in Pids)
  BY DEF RequestInv, RequestsTypeOK, Request
<1>2. CASE BeginSubmit(p, r)
  <2>1. Knows("submit", r, requests[r], NoAttempt, NoAnswer)
    BY <1>2 DEF BeginSubmit, Submittable, Knows, Pending
  <2>2. Next_(p, Doing("submit", r, requests[r], NoAttempt, NoAnswer))
    BY <1>2 DEF BeginSubmit, Reading
  <2> QED
    BY <1>1, <1>2, <2>1, <2>2, GoesInv, RecordTypes DEF BeginSubmit
<1>3. CASE BeginRefresh(p, r)
  <2>1. Knows("refresh", r, requests[r], NoAttempt, NoAnswer)
    BY <1>1, <1>3 DEF BeginRefresh, Knows
  <2>2. Next_(p, Doing("refresh", r, requests[r], NoAttempt, NoAnswer))
    BY <1>3 DEF BeginRefresh, Reading
  <2> QED
    BY <1>1, <1>3, <2>1, <2>2, GoesInv, RecordTypes DEF BeginRefresh
<1>4. CASE BeginCancel(p, r)
  <2>1. Knows("cancel", r, requests[r], NoAttempt, NoAnswer)
    BY <1>1, <1>4 DEF BeginCancel, Cancellable, Active, Knows
  <2>2. Next_(p, Doing("cancel", r, requests[r], NoAttempt, NoAnswer))
    BY <1>4 DEF BeginCancel, Reading
  <2> QED
    BY <1>1, <1>4, <2>1, <2>2, GoesInv, RecordTypes DEF BeginCancel
<1>5. CASE BeginRecover(p, r)
  <2>1. Knows("verify", r, requests[r], attempts[r], NoAnswer)
    BY <1>1, <1>5, RecoverableFacts DEF BeginRecover, Knows
  <2>2. Next_(p, Doing("verify", r, requests[r], attempts[r], NoAnswer))
    BY <1>5 DEF BeginRecover
  <2> QED
    BY <1>1, <1>5, <2>1, <2>2, GoesInv DEF BeginRecover
<1> QED
  BY <1>2, <1>3, <1>4, <1>5 DEF Starts

\* recover_submission, right after a submission.
LEMMA RecoverInv ==
  ASSUME RequestInv, NEW p \in Procs, Recover(p)
  PROVE  RequestInv'
<1> DEFINE r == op[p].r
<1>1. r \in Requests
  BY CallFacts DEF Recover, At
<1>2. requests[r] \in Request /\ attempts[r] \in Attempt /\ faults \in 0..MaxFaults
  BY <1>1 DEF RequestInv, RequestsTypeOK
<1>3. CASE Recoverable(r)
  <2>1. Knows("verify", r, requests[r], attempts[r], NoAnswer)
    BY <1>1, <1>3, RecoverableFacts DEF Knows
  <2>2. Next_(p, Doing("verify", r, requests[r], attempts[r], NoAnswer))
    BY <1>3 DEF Recover
  <2> QED
    BY <1>1, <1>2, <2>1, <2>2, GoesInv DEF Recover
<1>4. CASE ~Recoverable(r)
  BY <1>2, <1>4, EndsInv DEF Recover
<1> QED
  BY <1>3, <1>4

\* get_recovery_status: the provider is asked for the receipt.
LEMMA VerifyInv ==
  ASSUME RequestInv, NEW p \in Procs, Verify(p)
  PROVE  RequestInv'
<1> DEFINE i == op[p].att.receipt
<1>1. /\ op[p].at = "verify" /\ i \in Pids /\ op[p].seen = Submitting
      /\ op[p].att.phase = "RECEIPT_OBSERVED" /\ faults \in 0..MaxFaults
  BY CallFacts DEF Verify, At, Knows, RequestInv, RequestsTypeOK
<1>2. CASE ext[i].status \in ExtStatuses /\ Covers[ext[i].owner] = Covers[op[p].r]
  <2>1. Knows("bind", op[p].r, op[p].seen, op[p].att, [pid |-> i, status |-> ext[i].status])
    BY <1>1, <1>2 DEF Knows
  <2>2. Next_(p, Told(p, "bind", i, ext[i].status))
    BY <1>2 DEF Verify
  <2> QED
    BY <1>1, <1>2, <2>1, <2>2, HearsInv DEF Verify
<1>3. CASE ~(ext[i].status \in ExtStatuses /\ Covers[ext[i].owner] = Covers[op[p].r])
  BY <1>1, <1>3, EndsInv DEF Verify
<1> QED
  BY <1>2, <1>3

\* get_status: the provider is asked for the status.
LEMMA AskStatusInv ==
  ASSUME RequestInv, NEW p \in Procs, AskStatus(p)
  PROVE  RequestInv'
<1> DEFINE i == op[p].seen.pid
<1>1. op[p].at = "refresh" /\ i \in Pids /\ faults \in 0..MaxFaults
  BY CallFacts DEF AskStatus, At, Knows, RequestInv, RequestsTypeOK
<1>2. CASE ext[i].status \in ExtStatuses
  <2>1. Knows("apply", op[p].r, op[p].seen, op[p].att, [pid |-> i, status |-> ext[i].status])
    BY <1>1, <1>2 DEF Knows
  <2>2. Next_(p, Told(p, "apply", i, ext[i].status))
    BY <1>2 DEF AskStatus
  <2> QED
    BY <1>1, <1>2, <2>1, <2>2, HearsInv DEF AskStatus
<1>3. CASE ext[i].status \notin ExtStatuses
  BY <1>1, <1>3, EndsInv DEF AskStatus
<1> QED
  BY <1>2, <1>3

\* readiness.is_ready and the second read of the request.
LEMMA ReadyInv ==
  ASSUME RequestInv, NEW p \in Procs, Ready(p)
  PROVE  RequestInv'
<1> DEFINE r == op[p].r
<1>1. r \in Requests
  BY CallFacts DEF Ready, At
<1>2. requests[r] \in Request /\ faults \in 0..MaxFaults
  BY <1>1 DEF RequestInv, RequestsTypeOK
<1>3. CASE requests[r].status = "PROCESSING" /\ Next_(p, Reading("promoting", r))
  <2>1. Knows("promoting", r, requests[r], NoAttempt, NoAnswer)
    BY <1>3 DEF Knows
  <2> QED
    BY <1>1, <1>2, <1>3, <2>1, GoesInv, RecordTypes DEF Ready, Reading
<1>4. CASE Done(p)
  BY <1>2, <1>4, EndsInv DEF Ready
<1> QED
  BY <1>3, <1>4 DEF Ready

\* A refused intent and a failing call leave the registry as it is.
LEMMA StopsCallInv ==
  ASSUME RequestInv, NEW p \in Procs, IntentRefused(p) \/ VerifyRefused(p) \/ Fail(p)
  PROVE  RequestInv'
  BY EndsInv, RequestsAssumption DEF IntentRefused, VerifyRefused, Fail, Fault, RequestInv, RequestsTypeOK

(***************************************************************************)
(* The steps that write.                                                   *)
(***************************************************************************)
\* The new record of a request is not behind the old one.
Forward(r, new) ==
    /\ Progress(new) >= Progress(requests[r])
    /\ requests[r].status \in Terminal => new = requests[r] \/ new.status = "DELETED"

\* Progress counts.
LEMMA ProgressNat == ASSUME NEW q \in Request PROVE Progress(q) \in Nat
<1>1. Stage(q.status) \in Nat
  BY DEF Stage
<1> QED
  BY <1>1 DEF Progress

\* Nothing goes back where no request is written.
LEMMA ForwardStays ==
  ASSUME RequestInv, requests' = requests
  PROVE  \A r \in Requests : Forward(r, requests'[r])
  BY ProgressNat DEF Forward, RequestInv, RequestsTypeOK

\* It is enough to look at the request that is written.
LEMMA ForwardWrite ==
  ASSUME RequestInv, NEW r \in Requests, NEW new, requests' = [requests EXCEPT ![r] = new],
         Forward(r, new)
  PROVE  \A q \in Requests : Forward(q, requests'[q])
  BY ProgressNat DEF Forward, RequestInv, RequestsTypeOK

\* What a write of the record leaves of the attempt.
LEMMA SameAttempt ==
  ASSUME RequestInv, NEW r \in Requests, NEW new,
         requests' = [requests EXCEPT ![r] = new],
         UNCHANGED <<attempts, ext, late, posts, deletes, faults>>
  PROVE  Write(r, new, attempts[r])
  BY DEF Write, RequestInv, RequestsTypeOK

\* What the invariant says of one request and its attempt.
LEMMA RequestFacts ==
  ASSUME RequestInv, NEW r \in Requests
  PROVE  /\ requests[r] \in Request /\ attempts[r] \in Attempt
         /\ attempts[r].phase \in {"NONE", "POST_STARTED", "RECEIPT_OBSERVED", "BOUND"}
         /\ attempts[r].phase # "NONE" => requests[r].status \in Statuses
         /\ attempts[r].phase \in {"POST_STARTED", "RECEIPT_OBSERVED"} => requests[r] = Submitting
         /\ attempts[r].phase = "BOUND" =>
               requests[r].pid = attempts[r].receipt /\ requests[r].status # "SUBMITTING"
         /\ attempts[r].phase \in {"NONE", "POST_STARTED"} <=> attempts[r].receipt = NoPid
         /\ requests[r].pid # NoPid => requests[r].pid \in Pids /\ ~Taken(requests[r].pid, r)
         /\ attempts[r].receipt # NoPid => attempts[r].receipt \in Pids /\
               \A q \in Requests \ {r} : attempts[q].receipt # attempts[r].receipt
         /\ requests[r].pid \in Pids => OnlyKnown(r, requests[r].pid)
         /\ attempts[r].receipt \in Pids => OnlyKnown(r, attempts[r].receipt)
<1>1. requests[r] \in Request /\ attempts[r] \in Attempt
  BY DEF RequestInv, RequestsTypeOK
<1>2. /\ attempts[r].phase \in {"NONE", "POST_STARTED", "RECEIPT_OBSERVED", "BOUND"}
      /\ requests[r].pid # NoPid => requests[r].pid \in Pids
      /\ attempts[r].receipt # NoPid => attempts[r].receipt \in Pids
  BY <1>1 DEF Request, Attempt
<1>3. /\ attempts[r].phase # "NONE" => requests[r].status \in Statuses
      /\ attempts[r].phase \in {"POST_STARTED", "RECEIPT_OBSERVED"} => requests[r] = Submitting
      /\ attempts[r].phase = "BOUND" =>
            requests[r].pid = attempts[r].receipt /\ requests[r].status # "SUBMITTING"
      /\ attempts[r].phase \in {"NONE", "POST_STARTED"} <=> attempts[r].receipt = NoPid
  BY DEF RequestInv, RegistryLoads, Present, Submitting
<1>4. /\ requests[r].pid # NoPid => ~Taken(requests[r].pid, r)
      /\ attempts[r].receipt # NoPid => \A q \in Requests \ {r} : attempts[q].receipt # attempts[r].receipt
  BY DEF RequestInv, OneOwner, Taken
<1>5. /\ requests[r].pid \in Pids => OnlyKnown(r, requests[r].pid)
      /\ attempts[r].receipt \in Pids => OnlyKnown(r, attempts[r].receipt)
  BY DEF RequestInv, OneCounterpart
<1> QED
  BY <1>1, <1>2, <1>3, <1>4, <1>5

\* A request whose counterpart is known takes a new status.
LEMMA RestatusGood ==
  ASSUME RequestInv, NEW r \in Requests, requests[r].pid \in Pids,
         NEW s \in Statuses \ {"SUBMITTING"},
         s \notin Terminal => Active(r),
         s \in Terminal \cup {"PROCESSING"} => Settled(requests[r].pid)
  PROVE  /\ GoodWrite(r, [requests[r] EXCEPT !.status = s], attempts[r])
         /\ [requests[r] EXCEPT !.status = s].status = s
         /\ [requests[r] EXCEPT !.status = s].pid = requests[r].pid
<1> DEFINE new == [requests[r] EXCEPT !.status = s]
<1>1. new \in Request /\ new.status = s /\ new.pid = requests[r].pid
  BY RequestFacts DEF Request
<1>2. requests[r].pid # NoPid
  BY RequestsAssumption
<1>3. attempts[r].phase \notin {"POST_STARTED", "RECEIPT_OBSERVED"}
  BY <1>2, RequestFacts, RecordTypes
<1> HIDE DEF new
<1>4. GoodWrite(r, new, attempts[r])
  BY <1>1, <1>2, <1>3, RequestFacts DEF GoodWrite
<1> QED
  BY <1>1, <1>4 DEF new

\* create_request.
LEMMA CreateInv ==
  ASSUME RequestInv, NEW r \in Requests, Create(r)
  PROVE  RequestInv' /\ \A q \in Requests : Forward(q, requests'[q])
<1>1. requests[r] = None /\ ~Conflict(r) /\ requests' = [requests EXCEPT ![r] = Pending]
  BY DEF Create, Replaced, Pending
<1>2. Write(r, Pending, attempts[r])
  BY <1>1, SameAttempt DEF Create
<1>3. attempts[r].phase = "NONE"
  BY <1>1, RequestFacts, RecordTypes DEF Statuses, Stages, Terminal
<1>4. GoodWrite(r, Pending, attempts[r])
  BY <1>1, <1>3, RequestFacts, RecordTypes, RequestsAssumption DEF GoodWrite, Terminal
<1>5. CallsGood /\ \A at : KeptAt(at)
  BY DEF Create, CallsGood, KeptAt, RequestInv, CallsKnow, RequestsTypeOK
<1>6. requests[r].status \in Uncancelled
  BY <1>1, RecordTypes DEF Uncancelled, Terminal
<1>7. RequestInv'
  BY <1>1, <1>2, <1>4, <1>5, <1>6, WriteInv
<1>8. Forward(r, Pending)
  <2>1. Progress(requests[r]) = 0 /\ Progress(Pending) = 1
    BY <1>1, RecordTypes DEF Progress, Stages, Terminal
  <2>2. requests[r].status \notin Terminal
    BY <1>1, RecordTypes DEF Terminal
  <2> QED
    BY <2>1, <2>2 DEF Forward
<1> QED
  BY <1>1, <1>7, <1>8, ForwardWrite

\* delete of the repository.
LEMMA DeleteInv ==
  ASSUME RequestInv, NEW r \in Requests, Delete(r)
  PROVE  RequestInv' /\ \A q \in Requests : Forward(q, requests'[q])
<1> DEFINE new == [status |-> "DELETED", pid |-> NoPid]
<1>1. attempts[r].phase = "NONE" /\ requests' = [requests EXCEPT ![r] = new]
  BY DEF Delete, Deletable, Replaced
<1>2. new \in Request /\ new.status = "DELETED" /\ new.pid = NoPid /\ new.status \notin Statuses
  BY DEF Request, Statuses, Stages, Terminal
<1>3. /\ "DELETED" \notin Terminal \cup {"PROCESSING"} /\ "DELETED" \notin Uncancelled
      /\ new \notin {None, Pending}
  BY RecordTypes DEF Terminal, Uncancelled, Statuses, Stages
<1>4. Write(r, new, attempts[r])
  BY <1>1, SameAttempt DEF Delete
<1>5. CallsGood /\ \A at : KeptAt(at)
  BY DEF Delete, CallsGood, KeptAt, RequestInv, CallsKnow, RequestsTypeOK
<1>6. Forward(r, new)
  <2>1. Stage(requests[r].status) \in 1..5
    BY DEF Stage
  <2> QED
    BY <2>1 DEF Forward, Progress, Stages, Terminal
<1> HIDE DEF new
<1>7. GoodWrite(r, new, attempts[r])
  BY <1>1, <1>2, <1>3, RequestFacts, RequestsAssumption DEF GoodWrite
<1>8. RequestInv'
  BY <1>2, <1>3, <1>4, <1>5, <1>7, WriteInv
<1> QED
  BY <1>1, <1>6, <1>8, ForwardWrite

\* How far each status is.
LEMMA ProgressValues ==
  ASSUME NEW q
  PROVE  /\ q.status = "PENDING" /\ q.pid = NoPid => Progress(q) = 1
         /\ q.status = "PENDING" /\ q.pid # NoPid => Progress(q) = 3
         /\ q.status = "SUBMITTING" => Progress(q) = 2
         /\ q.status \in Stages => Progress(q) = 3 + Stage(q.status) /\ Stage(q.status) \in 1..5
         /\ q.status = "CANCELLING" => Progress(q) = 9
         /\ q.status \in Terminal => Progress(q) = 10
<1>1. Stage(q.status) \in 1..5
  BY DEF Stage
<1> QED
  BY <1>1 DEF Progress, Stages, Terminal

\* A bound record is ahead of a submitting one, whatever the provider answered.
LEMMA AnswerForward ==
  ASSUME NEW r \in Requests, NEW new \in Request, requests[r] = Submitting,
         new.pid # NoPid, new.status \in ExtStatuses
  PROVE  Forward(r, new)
<1>1. Progress(requests[r]) = 2 /\ requests[r].status \notin Terminal
  BY ProgressValues, RecordTypes DEF Terminal
<1>2. Progress(new) >= 3
  BY ProgressValues DEF ExtStatuses, Stages, Terminal
<1>3. Progress(new) \in Nat
  BY ProgressNat
<1> QED
  BY <1>1, <1>2, <1>3 DEF Forward

\* submit_request, legacy path: the answer is recorded.
LEMMA SaveAnswerInv ==
  ASSUME RequestInv, NEW p \in Procs, SaveAnswer(p)
  PROVE  RequestInv' /\ \A q \in Requests : Forward(q, requests'[q])
<1> DEFINE r == op[p].r
           new == [status |-> op[p].ans.status, pid |-> op[p].ans.pid]
<1>1. /\ op[p].at = "answered" /\ r \in Requests /\ op[p].seen = Submitting
      /\ op[p].ans.pid \in Pids /\ op[p].ans.status \in ExtStatuses
  BY CallFacts DEF SaveAnswer, At, Knows
<1>2. CASE ~Recordable(p)
  <2>1. UNCHANGED <<requests, attempts, ext, late, posts, deletes, faults>> /\ Done(p)
    BY <1>2 DEF SaveAnswer
  <2> QED
    BY <2>1, EndsInv, ForwardStays DEF RequestInv, RequestsTypeOK
<1>3. CASE Recordable(p)
  <2>1. /\ requests[r] = Submitting /\ attempts[r].phase = "NONE"
        /\ ~Taken(op[p].ans.pid, r) /\ op[p].ans.pid # NoPid
    BY <1>1, <1>3, RecordTypes, RequestsAssumption DEF Recordable, Replaceable
  <2>2. /\ requests' = [requests EXCEPT ![r] = new]
        /\ UNCHANGED <<attempts, ext, late, posts, deletes, faults>> /\ Done(p)
    BY <1>3 DEF SaveAnswer, Replaced
  <2>3. Write(r, new, attempts[r])
    BY <1>1, <2>2, SameAttempt
  <2>4. /\ OnlyKnown(r, op[p].ans.pid)
        /\ op[p].ans.status \notin ExtOpen => Settled(op[p].ans.pid)
    BY <1>1 DEF RequestInv, OneCounterpart, EndsSettled
  <2>5. /\ new \in Request /\ new.status = op[p].ans.status /\ new.pid = op[p].ans.pid
        /\ new.status \in Statuses
        /\ new.status \in Terminal \cup {"PROCESSING"} => new.status \notin ExtOpen
    BY <1>1 DEF Request, ExtStatuses, Statuses, Stages, ExtOpen, Terminal
  <2>6. Active(r) /\ requests[r].status \in Uncancelled /\ new \notin {None, Pending}
    BY <2>1, <2>5, RecordTypes DEF Active, Uncancelled, Statuses, Terminal
  <2>7. CallsGood /\ \A at : at # "idle" => KeptAt(at)
    BY <2>2, TurnsIdle, TurnsKeeps, IdleShape
  <2> HIDE DEF new
  <2>8. GoodWrite(r, new, attempts[r])
    BY <1>1, <2>1, <2>4, <2>5, <2>6, RequestFacts DEF GoodWrite
  <2>9. RequestInv'
    BY <1>1, <2>3, <2>6, <2>7, <2>8, WriteInv
  <2>10. Forward(r, new)
    BY <1>1, <2>1, <2>5, AnswerForward
  <2> QED
    BY <1>1, <2>2, <2>9, <2>10, ForwardWrite
<1> QED
  BY <1>2, <1>3

\* observe_receipt.
LEMMA ObserveReceiptInv ==
  ASSUME RequestInv, NEW p \in Procs, ObserveReceipt(p)
  PROVE  RequestInv' /\ requests' = requests
<1> DEFINE r == op[p].r
           i == op[p].ans.pid
           att == [phase |-> "RECEIPT_OBSERVED", receipt |-> i]
           c == Doing("recover", r, None, NoAttempt, NoAnswer)
<1>1. /\ op[p].at = "answered" /\ r \in Requests /\ op[p].seen = Submitting
      /\ r \in Audio /\ op[p].att = Started /\ i \in Pids
  BY CallFacts DEF ObserveReceipt, At, Knows
<1>2. CASE ~ReceiptFree(p)
  <2>1. UNCHANGED <<requests, attempts, ext, late, posts, deletes, faults>> /\ Done(p)
    BY <1>2 DEF ObserveReceipt
  <2> QED
    BY <2>1, EndsInv DEF RequestInv, RequestsTypeOK
<1>3. CASE ReceiptFree(p)
  <2>1. /\ requests[r] = Submitting
        /\ \A q \in Requests \ {r} : attempts[q].receipt # i
    BY <1>1, <1>3 DEF ReceiptFree
  <2>2. /\ attempts' = [attempts EXCEPT ![r] = att]
        /\ UNCHANGED <<requests, ext, late, posts, deletes, faults>> /\ Next_(p, c)
    BY <1>3 DEF ObserveReceipt
  <2>3. Write(r, requests[r], att)
    BY <1>1, <2>2 DEF Write, RequestInv, RequestsTypeOK
  <2>4. OnlyKnown(r, i)
    BY <1>1 DEF RequestInv, OneCounterpart
  <2>5. att \in Attempt /\ att.phase = "RECEIPT_OBSERVED" /\ att.receipt = i /\ i # NoPid
    BY <1>1, RequestsAssumption DEF Attempt
  <2>6. c.at = "recover" /\ Turns(p, c)
    <3>1. Knows("recover", r, None, NoAttempt, NoAnswer)
      BY DEF Knows
    <3> QED
      BY <1>1, <2>2, <3>1, TurnsDoing, DoingShape, RecordTypes
  <2> HIDE DEF c, att
  <2>7. CallsGood /\ \A at : at # "recover" => KeptAt(at)
    BY <2>6, TurnsKeeps
  <2>8. Active(r) /\ requests[r].status \in Statuses \ (Terminal \cup {"PROCESSING"})
    BY <2>1, RecordTypes DEF Active, Statuses, Terminal
  <2>9. GoodWrite(r, requests[r], att)
    BY <1>1, <2>1, <2>4, <2>5, <2>8, RequestFacts DEF GoodWrite
  <2> QED
    BY <1>1, <2>2, <2>3, <2>7, <2>9, WriteInv
<1> QED
  BY <1>2, <1>3

\* bind_submission.
LEMMA BindInv ==
  ASSUME RequestInv, NEW p \in Procs, Bind(p)
  PROVE  RequestInv' /\ \A q \in Requests : Forward(q, requests'[q])
<1> DEFINE r == op[p].r
           new == [status |-> op[p].ans.status, pid |-> op[p].ans.pid]
           att == [attempts[r] EXCEPT !.phase = "BOUND"]
<1>1. /\ op[p].at = "bind" /\ r \in Requests /\ op[p].seen = Submitting
      /\ op[p].att.phase = "RECEIPT_OBSERVED" /\ op[p].att.receipt \in Pids
      /\ op[p].ans.pid = op[p].att.receipt /\ op[p].ans.status \in ExtStatuses
  BY CallFacts DEF Bind, At, Knows
<1>2. CASE ~Bindable(p)
  <2>1. UNCHANGED <<requests, attempts, ext, late, posts, deletes, faults>> /\ Done(p)
    BY <1>2 DEF Bind
  <2> QED
    BY <2>1, EndsInv, ForwardStays DEF RequestInv, RequestsTypeOK
<1>3. CASE Bindable(p)
  <2>1. requests[r] = Submitting /\ attempts[r] = op[p].att /\ ~Taken(op[p].ans.pid, r)
    BY <1>1, <1>3 DEF Bindable
  <2>2. /\ requests' = [requests EXCEPT ![r] = new]
        /\ attempts' = [attempts EXCEPT ![r] = att]
        /\ UNCHANGED <<ext, late, posts, deletes, faults>> /\ Done(p)
    BY <1>1, <1>3 DEF Bind, Replaced, RequestInv, RequestsTypeOK
  <2>3. Write(r, new, att)
    BY <2>2 DEF Write
  <2>4. /\ att \in Attempt /\ att.phase = "BOUND" /\ att.receipt = attempts[r].receipt
        /\ attempts[r].receipt \in Pids /\ attempts[r].receipt # NoPid
    BY <1>1, <2>1, RequestFacts, RequestsAssumption DEF Attempt
  <2>5. op[p].ans.status \notin ExtOpen => Settled(op[p].ans.pid)
    BY <1>1 DEF RequestInv, EndsSettled
  <2>6. /\ new \in Request /\ new.status = op[p].ans.status /\ new.pid = op[p].ans.pid
        /\ new.status \in Statuses /\ new.status # "SUBMITTING"
        /\ new.status \in Terminal \cup {"PROCESSING"} => new.status \notin ExtOpen
    BY <1>1 DEF Request, ExtStatuses, Statuses, Stages, ExtOpen, Terminal
  <2>7. Active(r) /\ requests[r].status \in Uncancelled /\ new \notin {None, Pending}
    BY <1>1, <2>1, <2>4, <2>6, RecordTypes DEF Active, Uncancelled, Statuses, Terminal
  <2>8. CallsGood /\ \A at : at # "idle" => KeptAt(at)
    BY <2>2, TurnsIdle, TurnsKeeps, IdleShape
  <2> HIDE DEF new, att
  <2>9. GoodWrite(r, new, att)
    BY <1>1, <2>1, <2>4, <2>5, <2>6, <2>7, RequestFacts DEF GoodWrite
  <2>10. RequestInv'
    BY <1>1, <2>3, <2>7, <2>8, <2>9, WriteInv
  <2>11. Forward(r, new)
    BY <1>1, <2>1, <2>4, <2>6, AnswerForward
  <2> QED
    BY <1>1, <2>2, <2>10, <2>11, ForwardWrite
<1> QED
  BY <1>2, <1>3

\* What _ALLOWED_TRANSITIONS guarantees of an answer of the provider and of a
\* cancellation: nothing ended is reopened and no stage is taken back.
LEMMA AllowedOnward ==
  ASSUME NEW r \in Requests, NEW s \in ExtStatuses \cup {"CANCELLING", "CANCELLED"},
         s \in Allowed(requests[r].status)
  PROVE  /\ s \notin Terminal => Active(r)
         /\ s \in Uncancelled => requests[r].status \in Uncancelled
         /\ requests[r].status \in Terminal => s = requests[r].status
         /\ requests[r].status \in Stages /\ s \in Stages => Stage(s) >= Stage(requests[r].status)
         /\ requests[r].status \in Stages => s # "PENDING"
         /\ requests[r].status = "CANCELLING" => s = "CANCELLED"
<1>1. s \notin {"NONE", "DELETED"}
  BY DEF ExtStatuses
<1>2. CASE requests[r].status \in Stages
  BY <1>2 DEF Allowed, Onward, Active, Uncancelled, Statuses, Stages, Terminal, ExtStatuses
<1>3. CASE requests[r].status \in {"PENDING", "SUBMITTING"}
  BY <1>3 DEF Active, Uncancelled, Statuses, Stages, Terminal
<1>4. CASE requests[r].status = "CANCELLING"
  <2>1. s = "CANCELLED"
    BY <1>4 DEF Allowed, Stages
  <2> QED
    BY <1>4, <2>1 DEF Active, Uncancelled, Statuses, Stages, Terminal
<1>5. CASE requests[r].status \notin Stages \cup {"PENDING", "SUBMITTING", "CANCELLING"}
  <2>1. s = requests[r].status
    BY <1>5 DEF Allowed
  <2> QED
    BY <1>1, <1>5, <2>1 DEF Active, Uncancelled, Statuses, Stages, Terminal, ExtStatuses
<1> QED
  BY <1>2, <1>3, <1>4, <1>5

\* A new status of a request whose counterpart is known, by a call that ends
\* or goes on to a place that matters for no count.
LEMMA RestatusInv ==
  ASSUME RequestInv, NEW r \in Requests, requests[r].pid \in Pids,
         NEW s \in ExtStatuses \cup {"AVAILABLE", "CANCELLED"},
         s \notin Terminal => Active(r),
         s \in Terminal \cup {"PROCESSING"} => Settled(requests[r].pid),
         s \in Uncancelled => requests[r].status \in Uncancelled,
         requests' = [requests EXCEPT ![r] = [requests[r] EXCEPT !.status = s]],
         UNCHANGED <<attempts, ext, late, posts, deletes, faults>>,
         CallsGood,
         KeptAt("answered"), KeptAt("deleted"), KeptAt("bind"), KeptAt("apply"),
         KeptAt("post"), KeptAt("delete")
  PROVE  RequestInv'
<1> DEFINE new == [requests[r] EXCEPT !.status = s]
<1>1. s \in Statuses \ {"SUBMITTING"}
  BY DEF ExtStatuses, Statuses, Stages, Terminal
<1>2. GoodWrite(r, new, attempts[r]) /\ new.status = s /\ new.pid = requests[r].pid
  BY <1>1, RestatusGood
<1>3. Write(r, new, attempts[r])
  BY SameAttempt
<1> HIDE DEF new
<1>4. new \notin {None, Pending}
  BY <1>2, RecordTypes, RequestsAssumption
<1> QED
  BY <1>2, <1>3, <1>4, WriteInv

\* Such a write is not a step back.
LEMMA RestatusForward ==
  ASSUME RequestInv, NEW r \in Requests, requests[r].pid \in Pids,
         NEW s \in ExtStatuses \cup {"CANCELLING", "CANCELLED"},
         s \in Allowed(requests[r].status)
  PROVE  Forward(r, [requests[r] EXCEPT !.status = s])
<1> DEFINE new == [requests[r] EXCEPT !.status = s]
<1>1. /\ new.status = s /\ new.pid = requests[r].pid /\ new.pid # NoPid
      /\ requests[r].status \in Statuses \cup {"NONE", "DELETED"} /\ new \in Request
  BY RequestFacts, RequestsAssumption DEF Request, ExtStatuses, Statuses, Stages, Terminal
<1>2. requests[r].status \in Terminal => new = requests[r]
  BY AllowedOnward, RequestFacts DEF Request
<1>3. requests[r].status \in Statuses
  BY <1>1 DEF Allowed, Statuses, Stages, Terminal, ExtStatuses
<1> SUFFICES Forward(r, new)
  OBVIOUS
<1> HIDE DEF new
<1>4. s \in {"PENDING", "CANCELLING"} \cup Stages \cup Terminal
  BY DEF ExtStatuses, Stages, Terminal
<1>5. CASE requests[r].status \in Terminal
  BY <1>2, <1>5, ProgressNat, RequestFacts DEF Forward
<1>6. CASE requests[r].status \in {"PENDING", "SUBMITTING"}
  <2>1. Progress(requests[r]) \in {2, 3} /\ requests[r].status \notin Terminal
    BY <1>1, <1>6, ProgressValues DEF Terminal
  <2>2. Progress(new) >= 3 /\ Progress(new) \in Nat
    BY <1>1, <1>4, ProgressValues, ProgressNat
  <2> QED
    BY <2>1, <2>2 DEF Forward
<1>7. CASE requests[r].status \in Stages
  <2>1. Progress(requests[r]) = 3 + Stage(requests[r].status) /\ Stage(requests[r].status) \in 1..5
    BY <1>7, ProgressValues
  <2>2. s # "PENDING" /\ (s \in Stages => Stage(s) >= Stage(requests[r].status))
    BY <1>7, AllowedOnward
  <2>3. Progress(new) >= Progress(requests[r])
    BY <1>1, <1>4, <2>1, <2>2, ProgressValues
  <2> QED
    BY <1>7, <2>3 DEF Forward, Stages, Terminal
<1>8. CASE requests[r].status = "CANCELLING"
  <2>1. s = "CANCELLED"
    BY <1>8, AllowedOnward
  <2>2. Progress(requests[r]) = 9 /\ Progress(new) = 10
    BY <1>1, <1>8, <2>1, ProgressValues DEF Terminal
  <2> QED
    BY <1>8, <2>2 DEF Forward, Terminal
<1> QED
  BY <1>3, <1>5, <1>6, <1>7, <1>8 DEF Statuses

\* _apply_status_result.
LEMMA ApplyInv ==
  ASSUME RequestInv, NEW p \in Procs, Apply(p)
  PROVE  RequestInv' /\ \A q \in Requests : Forward(q, requests'[q])
<1> DEFINE r == op[p].r
           s == op[p].ans.status
           new == [op[p].seen EXCEPT !.status = s]
           c == Doing("promote", r, None, NoAttempt, NoAnswer)
           goes == s \in Allowed(op[p].seen.status) /\ Replaceable(r, op[p].seen, new)
<1>1. /\ op[p].at = "apply" /\ r \in Requests /\ op[p].seen.pid \in Pids /\ op[p].seen \in Request
      /\ op[p].ans.pid = op[p].seen.pid /\ s \in ExtStatuses
  BY CallFacts DEF Apply, At, Knows
<1>2. new.status = s
  BY <1>1 DEF Request
<1>3. CASE ~goes
  <2>1. UNCHANGED <<requests, attempts, ext, late, posts, deletes, faults>> /\ Done(p)
    BY <1>2, <1>3 DEF Apply
  <2> QED
    BY <2>1, EndsInv, ForwardStays DEF RequestInv, RequestsTypeOK
<1>4. CASE goes
  <2>1. requests[r] = op[p].seen /\ s \in Allowed(requests[r].status)
    BY <1>4 DEF Replaceable
  <2>2. /\ requests' = [requests EXCEPT ![r] = [requests[r] EXCEPT !.status = s]]
        /\ UNCHANGED <<attempts, ext, late, posts, deletes, faults>>
        /\ Next_(p, c) \/ Done(p)
    BY <1>2, <1>4, <2>1 DEF Apply, Replaced
  <2>3. s \notin ExtOpen => Settled(requests[r].pid)
    BY <1>1, <2>1 DEF RequestInv, EndsSettled
  <2>4. s \in Terminal \cup {"PROCESSING"} => s \notin ExtOpen
    BY DEF ExtOpen, Terminal
  <2>5. /\ s \notin Terminal => Active(r)
        /\ s \in Uncancelled => requests[r].status \in Uncancelled
    BY <1>1, <2>1, AllowedOnward
  <2>6. CallsGood /\ \A at : at \notin {"idle", "promote"} => KeptAt(at)
    <3>1. CASE Done(p)
      BY <3>1, TurnsIdle, TurnsKeeps, IdleShape
    <3>2. CASE Next_(p, c)
      <4>1. Knows("promote", r, None, NoAttempt, NoAnswer)
        BY DEF Knows
      <4>2. c.at = "promote" /\ Turns(p, c)
        BY <1>1, <3>2, <4>1, TurnsDoing, DoingShape, RecordTypes
      <4> HIDE DEF c
      <4> QED
        BY <4>2, TurnsKeeps
    <3> QED
      BY <2>2, <3>1, <3>2
  <2>7. RequestInv'
    BY <1>1, <2>1, <2>2, <2>3, <2>4, <2>5, <2>6, RestatusInv
  <2>8. Forward(r, [requests[r] EXCEPT !.status = s])
    BY <1>1, <2>1, RestatusForward
  <2> QED
    BY <1>1, <2>2, <2>7, <2>8, ForwardWrite
<1> QED
  BY <1>3, <1>4

\* mark_available.
LEMMA MarkAvailableInv ==
  ASSUME RequestInv, NEW p \in Procs, MarkAvailable(p)
  PROVE  RequestInv' /\ \A q \in Requests : Forward(q, requests'[q])
<1> DEFINE r == op[p].r
           new == [op[p].seen EXCEPT !.status = "AVAILABLE"]
<1>1. op[p].at = "promoting" /\ r \in Requests /\ op[p].seen.status = "PROCESSING"
  BY CallFacts DEF MarkAvailable, At, Knows
<1>2. CASE ~Replaceable(r, op[p].seen, new)
  <2>1. UNCHANGED <<requests, attempts, ext, late, posts, deletes, faults>> /\ Done(p)
    BY <1>2 DEF MarkAvailable
  <2> QED
    BY <2>1, EndsInv, ForwardStays DEF RequestInv, RequestsTypeOK
<1>3. CASE Replaceable(r, op[p].seen, new)
  <2>1. requests[r] = op[p].seen
    BY <1>3 DEF Replaceable
  <2>2. /\ requests' = [requests EXCEPT ![r] = [requests[r] EXCEPT !.status = "AVAILABLE"]]
        /\ UNCHANGED <<attempts, ext, late, posts, deletes, faults>> /\ Done(p)
    BY <1>3, <2>1 DEF MarkAvailable, Replaced
  <2>3. requests[r].pid \in Pids /\ Settled(requests[r].pid)
    BY <1>1, <2>1 DEF RequestInv, EndsSettled
  <2>4. "AVAILABLE" \in Terminal /\ "AVAILABLE" \notin Uncancelled
    BY DEF Terminal, Uncancelled
  <2>5. CallsGood /\ \A at : at # "idle" => KeptAt(at)
    BY <2>2, TurnsIdle, TurnsKeeps, IdleShape
  <2>6. RequestInv'
    BY <1>1, <2>2, <2>3, <2>4, <2>5, RestatusInv
  <2>7. Forward(r, [requests[r] EXCEPT !.status = "AVAILABLE"])
    <3>1. [requests[r] EXCEPT !.status = "AVAILABLE"].status = "AVAILABLE"
      BY <1>1, RequestFacts DEF Request
    <3>2. Progress(requests[r]) = 3 + Stage("PROCESSING") /\ Stage("PROCESSING") \in 1..5
      BY <1>1, <2>1, ProgressValues DEF Stages
    <3>3. Progress([requests[r] EXCEPT !.status = "AVAILABLE"]) = 10
      BY <2>4, <3>1, ProgressValues
    <3>4. requests[r].status \notin Terminal
      BY <1>1, <2>1 DEF Terminal
    <3> QED
      BY <3>2, <3>3, <3>4 DEF Forward
  <2> QED
    BY <1>1, <2>2, <2>6, <2>7, ForwardWrite
<1> QED
  BY <1>2, <1>3

\* cancel_request: the answer is recorded.
LEMMA SaveCancelledInv ==
  ASSUME RequestInv, NEW p \in Procs, SaveCancelled(p)
  PROVE  RequestInv' /\ \A q \in Requests : Forward(q, requests'[q])
<1> DEFINE r == op[p].r
           new == [op[p].seen EXCEPT !.status = "CANCELLED"]
           goes == "CANCELLED" \in Allowed(op[p].seen.status) /\ Replaceable(r, op[p].seen, new)
<1>1. /\ op[p].at = "deleted" /\ r \in Requests /\ op[p].seen \in Request
      /\ op[p].seen.pid \in Pids /\ op[p].ans.status = "CANCELLED"
  BY CallFacts DEF SaveCancelled, At, Knows
<1>2. new.status = "CANCELLED"
  BY <1>1 DEF Request
<1>3. CASE ~goes
  <2>1. UNCHANGED <<requests, attempts, ext, late, posts, deletes, faults>> /\ Done(p)
    BY <1>1, <1>2, <1>3 DEF SaveCancelled
  <2> QED
    BY <2>1, EndsInv, ForwardStays DEF RequestInv, RequestsTypeOK
<1>4. CASE goes
  <2>1. requests[r] = op[p].seen /\ "CANCELLED" \in Allowed(requests[r].status)
    BY <1>4 DEF Replaceable
  <2>2. /\ requests' = [requests EXCEPT ![r] = [requests[r] EXCEPT !.status = "CANCELLED"]]
        /\ UNCHANGED <<attempts, ext, late, posts, deletes, faults>> /\ Done(p)
    BY <1>1, <1>2, <1>4, <2>1 DEF SaveCancelled, Replaced
  <2>3. Settled(requests[r].pid)
    BY <1>1, <2>1 DEF RequestInv, EndsSettled
  <2>4. "CANCELLED" \in Terminal /\ "CANCELLED" \notin Uncancelled
    BY DEF Terminal, Uncancelled
  <2>5. CallsGood /\ \A at : at # "idle" => KeptAt(at)
    BY <2>2, TurnsIdle, TurnsKeeps, IdleShape
  <2>6. RequestInv'
    BY <1>1, <2>1, <2>2, <2>3, <2>4, <2>5, RestatusInv
  <2>7. Forward(r, [requests[r] EXCEPT !.status = "CANCELLED"])
    BY <1>1, <2>1, RestatusForward
  <2> QED
    BY <1>1, <2>2, <2>6, <2>7, ForwardWrite
<1> QED
  BY <1>3, <1>4

\* cancel_request: the durable intent.
LEMMA IntendCancelInv ==
  ASSUME RequestInv, NEW p \in Procs, IntendCancel(p)
  PROVE  RequestInv' /\ \A q \in Requests : Forward(q, requests'[q])
<1> DEFINE r == op[p].r
           new == [op[p].seen EXCEPT !.status = "CANCELLING"]
           goes == "CANCELLING" \in Allowed(op[p].seen.status) /\ Replaceable(r, op[p].seen, new)
           c == Doing("delete", r, new, NoAttempt, NoAnswer)
<1>1. /\ op[p].at = "cancel" /\ r \in Requests /\ op[p].seen \in Request /\ op[p].seen.pid \in Pids
      /\ op[p].seen.status \in Statuses \ (Terminal \cup {"SUBMITTING", "CANCELLING"})
  BY CallFacts DEF IntendCancel, At, Knows
<1>2. new.status = "CANCELLING" /\ new.pid = op[p].seen.pid /\ new \in Request
  BY <1>1 DEF Request, Statuses
<1>3. CASE ~goes
  <2>1. UNCHANGED <<requests, attempts, ext, late, posts, deletes, faults>> /\ Done(p)
    BY <1>1, <1>2, <1>3 DEF IntendCancel
  <2> QED
    BY <2>1, EndsInv, ForwardStays DEF RequestInv, RequestsTypeOK
<1>4. CASE goes
  <2>1. /\ requests[r] = op[p].seen /\ "CANCELLING" \in Allowed(requests[r].status)
        /\ new = [requests[r] EXCEPT !.status = "CANCELLING"]
    BY <1>4 DEF Replaceable
  <2>2. /\ requests' = [requests EXCEPT ![r] = new]
        /\ UNCHANGED <<attempts, ext, late, posts, deletes, faults>> /\ Next_(p, c)
    BY <1>2, <1>4 DEF IntendCancel, Replaced
  <2>3. Write(r, new, attempts[r])
    BY <1>1, <2>2, SameAttempt
  <2>4. Active(r) /\ requests[r].status \in Uncancelled
    BY <1>1, <2>1 DEF Active, Uncancelled
  <2>5. "CANCELLING" \in Statuses \ ({"SUBMITTING", "PROCESSING"} \cup Terminal) /\ "CANCELLING" \notin Uncancelled
    BY DEF Statuses, Terminal, Uncancelled
  <2>6. GoodWrite(r, new, attempts[r])
    BY <1>1, <2>1, <2>4, <2>5, RestatusGood
  <2>7. Forward(r, new)
    BY <1>1, <2>1, RestatusForward
  <2> HIDE DEF new
  <2>8. Knows("delete", r, new, NoAttempt, NoAnswer)
    BY <1>1, <1>2 DEF Knows
  <2>9. c.at = "delete" /\ c.r = r /\ Turns(p, c)
    BY <1>1, <1>2, <2>2, <2>8, TurnsDoing, DoingShape, RecordTypes
  <2> HIDE DEF c
  <2>10. /\ CallsGood /\ \A at : at # "delete" => KeptAt(at)
         /\ op'[p] = c /\ \A q \in Procs \ {p} : op'[q] = op[q]
    BY <2>9, TurnsKeeps
  <2>11. /\ requests'[r] = new
         /\ \A q \in Requests \ {r} : requests'[q] = requests[q]
    BY <1>1, <2>3, Written
  <2>12. PostsOnce'
    <3>1. new \notin {None, Pending}
      BY <1>2, RecordTypes
    <3>2. KeptAt("post")
      BY <2>10
    <3> QED
      BY <2>2, <2>11, <3>1, <3>2, PostsKept DEF RequestInv
  <2>13. DeletesOnce'
    BY <1>1, <1>2, <2>2, <2>4, <2>5, <2>9, <2>10, <2>11 DEF RequestInv, DeletesOnce
  <2>14. RequestInv'
    BY <1>1, <2>3, <2>6, <2>10, <2>12, <2>13, WriteKeeps DEF RequestInv
  <2> QED
    BY <1>1, <2>2, <2>7, <2>14, ForwardWrite
<1> QED
  BY <1>3, <1>4

\* submit_request: the durable intent.
LEMMA IntendInv ==
  ASSUME RequestInv, NEW p \in Procs, Intend(p)
  PROVE  RequestInv' /\ \A q \in Requests : Forward(q, requests'[q])
<1> DEFINE r == op[p].r
           att == IF r \in Audio THEN Started ELSE attempts[r]
           mine == IF r \in Audio THEN Started ELSE NoAttempt
           c == Doing("post", r, Submitting, mine, NoAnswer)
<1>1. op[p].at = "submit" /\ r \in Requests /\ op[p].seen = Pending
  BY CallFacts DEF Intend, At, Knows
<1>2. requests[r] = Pending /\ requests' = [requests EXCEPT ![r] = Submitting]
  BY <1>1 DEF Intend, Replaceable, Replaced, Submitting
<1>3. /\ attempts' = [attempts EXCEPT ![r] = att]
      /\ Next_(p, c)
      /\ UNCHANGED <<ext, late, posts, deletes, faults>>
  BY <1>1 DEF Intend, Started, Submitting, RequestInv, RequestsTypeOK
<1>4. Write(r, Submitting, att)
  BY <1>2, <1>3 DEF Write
<1>5. attempts[r].phase = "NONE" /\ attempts[r].receipt = NoPid
  BY <1>1, <1>2, RequestFacts, RecordTypes
<1>6. att \in Attempt /\ att.phase \in {"NONE", "POST_STARTED"} /\ att.receipt = NoPid /\ mine \in Attempt
  BY <1>1, <1>5, RequestFacts, RecordTypes DEF Started
<1>7. Knows("post", r, Submitting, mine, NoAnswer)
  BY DEF Knows
<1> HIDE DEF att, mine
<1>8. c.at = "post" /\ c.r = r /\ Turns(p, c)
  BY <1>1, <1>3, <1>6, <1>7, TurnsDoing, DoingShape, RecordTypes
<1> HIDE DEF c
<1>9. /\ CallsGood /\ \A at : at # "post" => KeptAt(at)
      /\ op'[p] = c /\ \A q \in Procs \ {p} : op'[q] = op[q]
  BY <1>8, TurnsKeeps
<1>10. /\ Active(r) /\ "SUBMITTING" \in Statuses \ (Terminal \cup {"PROCESSING"})
       /\ {"PENDING", "SUBMITTING"} \subseteq Uncancelled
  BY <1>2, RecordTypes DEF Active, Statuses, Terminal, Uncancelled
<1>11. GoodWrite(r, Submitting, att)
  BY <1>1, <1>6, <1>10, RecordTypes, RequestsAssumption DEF GoodWrite
<1>12. /\ requests'[r] = Submitting
       /\ \A q \in Requests \ {r} : requests'[q] = requests[q]
  BY <1>1, <1>4, Written
<1>13. PostsOnce'
  <2>1. Submitting \notin {None, Pending}
    BY RecordTypes
  <2> QED
    BY <1>1, <1>2, <1>3, <1>8, <1>9, <1>12, <2>1 DEF RequestInv, PostsOnce
<1>14. DeletesOnce'
  <2>1. KeptAt("delete")
    BY <1>9
  <2> QED
    BY <1>2, <1>3, <1>10, <1>12, <2>1, RecordTypes, DeletesKept DEF RequestInv
<1>15. RequestInv'
  BY <1>1, <1>4, <1>9, <1>11, <1>13, <1>14, WriteKeeps DEF RequestInv
<1>16. Forward(r, Submitting)
  <2>1. Progress(requests[r]) = 1 /\ Progress(Submitting) = 2 /\ requests[r].status \notin Terminal
    BY <1>2, RecordTypes, ProgressValues DEF Terminal
  <2> QED
    BY <2>1 DEF Forward
<1> QED
  BY <1>1, <1>2, <1>15, <1>16, ForwardWrite

(***************************************************************************)
(* The steps of the provider and of the connection to it.                  *)
(***************************************************************************)
\* What rests on the registry alone.
LEMMA RegistryKept ==
  ASSUME RequestInv, UNCHANGED <<requests, attempts>>
  PROVE  /\ RegistryLoads' /\ OneOwner' /\ ActiveTargetsDisjoint'
         /\ \A r \in Requests : Forward(r, requests'[r])
  BY ForwardStays DEF RequestInv, RegistryLoads, OneOwner, ActiveTargetsDisjoint, Active, Present

\* A submission that is sent was not sent before: nothing of it is under way
\* or at the provider.
LEMMA SentInv ==
  ASSUME RequestInv, NEW p \in Procs, op[p].at = "post", Sent(op[p].r),
         requests' = requests, op'[p].at # "post", \A q \in Procs \ {p} : op'[q] = op[q]
  PROVE  /\ PostsOnce' /\ posts' \in [Requests -> 0..MaxPosts]
         /\ op[p].r \in Requests /\ op[p].r \notin late
         /\ \A i \in Pids : ~Owned(i, op[p].r)
         /\ posts'[op[p].r] = 1 /\ \A r \in Requests \ {op[p].r} : posts'[r] = posts[r]
<1> DEFINE r == op[p].r
<1>1. r \in Requests /\ posts[r] = 0 /\ requests[r] \notin {None, Pending}
  BY CallFacts DEF RequestInv, PostsOnce
<1>2. /\ posts' \in [Requests -> 0..MaxPosts]
      /\ posts'[r] = 1 /\ \A q \in Requests \ {r} : posts'[q] = posts[q]
  BY <1>1, RequestsAssumption DEF Sent, RequestInv, RequestsTypeOK
<1>3. r \notin late /\ \A i \in Pids : ~Owned(i, r)
  BY <1>1 DEF RequestInv, OneCounterpart
<1>4. PostsOnce'
  <2>1. \A q \in Requests : requests[q] \in {None, Pending} => q # r
    BY <1>1
  <2>2. \A q \in Procs : op'[q].at = "post" => q # p /\ op[q].at = "post" /\ op'[q].r = op[q].r
    OBVIOUS
  <2>3. \A q \in Procs : op'[q].at = "post" => op[q].r # r /\ op[q].r \in Requests
    BY <2>2, CallFacts DEF RequestInv, PostsOnce
  <2>4. \A q \in Requests : posts'[q] <= 1
    BY <1>2 DEF RequestInv, PostsOnce
  <2>5. \A q \in Requests : requests'[q] \in {None, Pending} =>
           posts'[q] = 0 /\ \A x \in Procs : op'[x].at = "post" => op'[x].r # q
    BY <1>2, <2>1, <2>2 DEF RequestInv, PostsOnce
  <2>6. \A x \in Procs : op'[x].at = "post" => posts'[op'[x].r] = 0
    BY <1>2, <2>2, <2>3 DEF RequestInv, PostsOnce
  <2>7. \A x, y \in Procs : op'[x].at = "post" /\ op'[y].at = "post" /\ op'[x].r = op'[y].r => x = y
    BY <2>2 DEF RequestInv, PostsOnce
  <2> QED
    BY <2>4, <2>5, <2>6, <2>7 DEF PostsOnce
<1> QED
  BY <1>1, <1>2, <1>3, <1>4

\* The provider's requests after it has received one more.
LEMMA ReceivedFacts ==
  ASSUME RequestInv, NEW r \in Requests, NEW i \in Pids, NEW s, Received(r, i, s)
  PROVE  /\ ext' \in [Pids -> {Unused} \cup ExtRequest]
         /\ s \in ExtStatuses
         /\ ext[i].status = "FREE" /\ ext'[i].status = s /\ ext'[i].owner = r /\ s # "FREE"
         /\ \A j \in Pids \ {i} : ext'[j] = ext[j]
         /\ \A j \in Pids : Settled(j) => SettledNext(j)
<1>1. s \in ExtStatuses /\ s # "FREE" /\ ext[i].status = "FREE"
  BY RequestsAssumption DEF Received, Fresh, ExtStatuses
<1>2. /\ ext'[i].status = s /\ ext'[i].owner = r
      /\ \A j \in Pids \ {i} : ext'[j] = ext[j]
      /\ ext' \in [Pids -> {Unused} \cup ExtRequest]
  BY <1>1 DEF Received, RequestInv, RequestsTypeOK, ExtRequest
<1>3. \A j \in Pids : Settled(j) => SettledNext(j)
  BY <1>1, <1>2 DEF Settled, SettledNext
<1> QED
  BY <1>1, <1>2, <1>3

\* It is the only one of its request, if that had none before.
LEMMA ReceivedCounterparts ==
  ASSUME RequestInv, NEW r \in Requests, NEW i \in Pids, NEW s, Received(r, i, s),
         \A j \in Pids : ~Owned(j, r)
  PROVE  /\ \A j, k \in Pids : \A q \in Requests : Owned(j, q)' /\ Owned(k, q)' => j = k
         /\ \A q \in late \ {r} : \A j \in Pids : ~Owned(j, q)'
         /\ \A j \in Pids : Owned(j, r)' => j = i
         /\ \A q \in Requests \ {r} : \A j \in Pids : Owned(j, q)' <=> Owned(j, q)
<1>1. \A j \in Pids : Owned(j, r)' => j = i
  BY ReceivedFacts DEF Owned
<1>2. \A q \in Requests \ {r} : \A j \in Pids : Owned(j, q)' <=> Owned(j, q)
  BY ReceivedFacts DEF Owned
<1>3. \A q \in late : q \in Requests
  BY DEF RequestInv, RequestsTypeOK
<1> QED
  BY <1>1, <1>2, <1>3 DEF RequestInv, OneCounterpart

\* The provider's answer to a submission reaches the call: it has created the
\* request, or names one it has.
LEMMA PostedInv ==
  ASSUME RequestInv, NEW p \in Procs, op[p].at = "post", Sent(op[p].r),
         NEW i \in Pids, NEW s \in ExtStatuses,
         Next_(p, Told(p, "answered", i, s)),
         UNCHANGED <<requests, attempts, late, deletes>>,
         faults' \in 0..MaxFaults,
         \/ Received(op[p].r, i, s)
         \/ ext' = ext /\ s = ext[i].status
  PROVE  RequestInv' /\ requests' = requests
<1>0. PICK r \in Requests : r = op[p].r
  BY CallFacts
<1> DEFINE a == [pid |-> i, status |-> s]
           c == Doing("answered", r, op[p].seen, op[p].att, a)
<1>1. /\ op[p].seen \in Request /\ op[p].att \in Attempt
      /\ Knows("post", r, op[p].seen, op[p].att, op[p].ans)
      /\ Received(r, i, s) \/ (ext' = ext /\ s = ext[i].status)
  BY <1>0, CallFacts DEF Received
<1>2. a \in Answer /\ a.pid = i /\ a.status = s
  BY DEF Answer
<1>3. Knows("answered", r, op[p].seen, op[p].att, a)
  BY <1>1, <1>2 DEF Knows
<1>4. Next_(p, c)
  BY <1>0 DEF Told
<1> HIDE DEF a
<1>5. c.at = "answered" /\ c.r = r /\ c.ans = a /\ Turns(p, c)
  BY <1>1, <1>2, <1>3, <1>4, TurnsDoing, DoingShape
<1> HIDE DEF c
<1>6. /\ CallsGood /\ \A at : at # "answered" => KeptAt(at)
      /\ op'[p] = c /\ \A q \in Procs \ {p} : op'[q] = op[q]
  BY <1>5, TurnsKeeps
<1>7. /\ PostsOnce' /\ posts' \in [Requests -> 0..MaxPosts]
      /\ r \notin late /\ \A j \in Pids : ~Owned(j, r)
      /\ posts'[r] = 1 /\ \A q \in Requests \ {r} : posts'[q] = posts[q]
      /\ posts[r] = 0
  BY <1>0, <1>5, <1>6, SentInv DEF RequestInv, PostsOnce
<1>8. /\ ext' \in [Pids -> {Unused} \cup ExtRequest]
      /\ ext'[i].status = s
      /\ \A j \in Pids : Settled(j) => SettledNext(j)
      /\ s \in ExtOpen \/ SettledNext(i)
  <2>1. s \in ExtOpen \/ s \notin ExtOpen \cup {"FREE"}
    BY DEF ExtStatuses, ExtOpen
  <2>2. CASE Received(r, i, s)
    BY <1>1, <2>1, <2>2, ReceivedFacts DEF SettledNext
  <2>3. CASE ext' = ext /\ s = ext[i].status
    BY <2>1, <2>3 DEF RequestInv, RequestsTypeOK, Settled, SettledNext
  <2> QED
    BY <1>1, <2>2, <2>3
<1>9. /\ \A j, k \in Pids : \A q \in Requests : Owned(j, q)' /\ Owned(k, q)' => j = k
      /\ \A q \in late : \A j \in Pids : ~Owned(j, q)'
      /\ \A j \in Pids : Owned(j, r)' => j = i
      /\ \A q \in Requests \ {r} : \A j \in Pids : Owned(j, q)' <=> Owned(j, q)
  <2>1. CASE Received(r, i, s)
    BY <1>1, <1>7, <2>1, ReceivedCounterparts
  <2>2. CASE ext' = ext
    <3>1. \A j \in Pids, q \in Requests \cup late : Owned(j, q)' <=> Owned(j, q)
      BY <2>2 DEF Owned
    <3> QED
      BY <1>7, <3>1 DEF RequestInv, OneCounterpart
  <2> QED
    BY <1>1, <2>1, <2>2
<1>10. RequestsTypeOK'
  BY <1>6, <1>7, <1>8 DEF RequestInv, RequestsTypeOK, CallsGood
<1>11. CallsKnow'
  BY <1>6 DEF CallsGood, CallsKnow
<1>12. DeletesOnce'
  BY <1>6, DeletesKept DEF RequestInv
<1>13. OneCounterpart'
  <2>1. \A q \in Requests \ {r} : \A j : OnlyKnown(q, j)' <=> OnlyKnown(q, j)
    BY <1>7, <1>9 DEF OnlyKnown
  <2>2. OnlyKnown(r, i)'
    BY <1>7, <1>9 DEF OnlyKnown
  <2>3. \A q \in Requests : requests'[q].pid \in Pids => OnlyKnown(q, requests[q].pid)'
    BY <1>7, <2>1 DEF RequestInv, OneCounterpart, OnlyKnown
  <2>4. \A q \in Requests : attempts'[q].receipt \in Pids => OnlyKnown(q, attempts[q].receipt)'
    BY <1>7, <2>1 DEF RequestInv, OneCounterpart, OnlyKnown
  <2>5. \A q \in Requests : posts'[q] = 0 => q \notin late' /\ \A j \in Pids : ~Owned(j, q)'
    BY <1>7, <1>9 DEF RequestInv, OneCounterpart
  <2>6. \A q \in Procs \ {p} : op[q].at = "answered" => op[q].r # r /\ op[q].r \in Requests
    BY <1>7, CallFacts DEF RequestInv, OneCounterpart, OnlyKnown
  <2>7. \A q \in Procs : op'[q].at = "answered" => OnlyKnown(op[q].r, op[q].ans.pid)'
    BY <1>2, <1>5, <1>6, <2>1, <2>2, <2>6 DEF RequestInv, OneCounterpart
  <2> QED
    BY <1>9, <2>3, <2>4, <2>5, <2>7 DEF OneCounterpart
<1>14. EndsSettled'
  <2>1. \A q \in Requests : requests'[q].status \in Terminal \cup {"PROCESSING"} =>
           requests'[q].pid \in Pids /\ SettledNext(requests'[q].pid)
    BY <1>8 DEF RequestInv, EndsSettled
  <2>2. \A q \in Procs : op'[q].at \in {"answered", "bind", "apply"} /\ op'[q].ans.status \notin ExtOpen
           => SettledNext(op'[q].ans.pid)
    BY <1>2, <1>5, <1>6, <1>8, CallsOfInv DEF RequestInv, EndsSettled
  <2>3. \A q \in Procs : op'[q].at = "deleted" => SettledNext(op'[q].seen.pid)
    BY <1>5, <1>6, <1>8, CallsOfInv DEF RequestInv, EndsSettled
  <2> QED
    BY <2>1, <2>2, <2>3 DEF EndsSettled, Settled, SettledNext
<1> QED
  BY <1>7, <1>10, <1>11, <1>12, <1>13, <1>14, RegistryKept DEF RequestInv

\* The submission is answered.
LEMMA PostAnsweredInv ==
  ASSUME RequestInv, NEW p \in Procs, PostAnswered(p)
  PROVE  RequestInv' /\ requests' = requests
<1>1. PICK i \in Pids, s \in ExtInitial : Received(op[p].r, i, s) /\ Next_(p, Told(p, "answered", i, s))
  BY DEF PostAnswered
<1>2. s \in ExtStatuses /\ faults' \in 0..MaxFaults
  BY RequestsAssumption DEF PostAnswered, RequestInv, RequestsTypeOK
<1> QED
  BY <1>1, <1>2, PostedInv DEF PostAnswered, At

\* The provider answers with a request it already has.
LEMMA PostMergedInv ==
  ASSUME RequestInv, NEW p \in Procs, PostMerged(p)
  PROVE  RequestInv' /\ requests' = requests
<1>1. PICK i \in Pids : ext[i].status \in ExtStatuses /\ Next_(p, Told(p, "answered", i, ext[i].status))
  BY DEF PostMerged
<1>2. faults' \in 0..MaxFaults
  BY RequestsAssumption DEF PostMerged, Fault, RequestInv, RequestsTypeOK
<1> QED
  BY <1>1, <1>2, PostedInv DEF PostMerged, At

\* What the provider has ended stays ended, for the registry and for every call.
LEMMA SettledKept ==
  ASSUME RequestInv, requests' = requests, \A i \in Pids : Settled(i) => SettledNext(i),
         KeptAt("answered"), KeptAt("deleted"), KeptAt("bind"), KeptAt("apply")
  PROVE  EndsSettled'
<1>1. \A r \in Requests : requests'[r].status \in Terminal \cup {"PROCESSING"} =>
         requests'[r].pid \in Pids /\ SettledNext(requests'[r].pid)
  BY DEF RequestInv, EndsSettled
<1>2. \A p \in Procs : op'[p].at \in {"bind", "apply"} => op'[p] = op[p]
  BY DEF KeptAt
<1> QED
  BY <1>1, <1>2, EndsKept, CallsOfInv DEF RequestInv

\* The answer to the submission is lost.
LEMMA PostLostInv ==
  ASSUME RequestInv, NEW p \in Procs, PostLost(p)
  PROVE  RequestInv' /\ requests' = requests
<1>1. /\ op[p].at = "post" /\ Sent(op[p].r) /\ Done(p)
      /\ UNCHANGED <<requests, attempts, deletes>> /\ faults' \in 0..MaxFaults
  BY RequestsAssumption DEF PostLost, At, Fault, RequestInv, RequestsTypeOK
<1>2. PICK r \in Requests : r = op[p].r
  BY <1>1, CallFacts
<1>3. /\ CallsGood /\ (\A at : at # "idle" => KeptAt(at))
      /\ op'[p] = Idle /\ \A q \in Procs \ {p} : op'[q] = op[q]
  BY <1>1, TurnsIdle, TurnsKeeps, IdleShape
<1>4. /\ PostsOnce' /\ posts' \in [Requests -> 0..MaxPosts]
      /\ r \notin late /\ \A j \in Pids : ~Owned(j, r)
      /\ posts'[r] = 1 /\ \A q \in Requests \ {r} : posts'[q] = posts[q]
      /\ posts[r] = 0
  BY <1>1, <1>2, <1>3, SentInv, IdleShape DEF RequestInv, PostsOnce
<1>5. /\ ext' \in [Pids -> {Unused} \cup ExtRequest]
      /\ late' \in {late, late \cup {r}}
      /\ \A j \in Pids : Settled(j) => SettledNext(j)
      /\ \A j, k \in Pids : \A q \in Requests : Owned(j, q)' /\ Owned(k, q)' => j = k
      /\ \A q \in late' : \A j \in Pids : ~Owned(j, q)'
      /\ \A q \in Requests \ {r} : \A j \in Pids : Owned(j, q)' <=> Owned(j, q)
  <2>1. CASE (\E i \in Pids, s \in ExtInitial : Received(r, i, s)) /\ late' = late
    BY <1>4, <2>1, ReceivedFacts, ReceivedCounterparts
  <2>2. CASE ext' = ext /\ late' \in {late, late \cup {r}}
    <3>1. \A j \in Pids, q \in Requests \cup late : Owned(j, q)' <=> Owned(j, q)
      BY <2>2 DEF Owned
    <3>2. \A j \in Pids : Settled(j) => SettledNext(j)
      BY <2>2 DEF Settled, SettledNext
    <3> QED
      BY <1>4, <2>2, <3>1, <3>2 DEF RequestInv, RequestsTypeOK, OneCounterpart
  <2>3. \/ (\E i \in Pids, s \in ExtInitial : Received(r, i, s)) /\ late' = late
        \/ ext' = ext /\ late' \in {late, late \cup {r}}
    BY <1>2 DEF PostLost, Received
  <2> QED
    BY <2>1, <2>2, <2>3
<1>6. RequestsTypeOK'
  BY <1>1, <1>3, <1>4, <1>5 DEF RequestInv, RequestsTypeOK, CallsGood
<1>7. CallsKnow'
  BY <1>3 DEF CallsGood, CallsKnow
<1>8. DeletesOnce'
  BY <1>1, <1>3, DeletesKept DEF RequestInv
<1>9. OneCounterpart'
  <2>1. \A q \in Requests \ {r} : \A j : OnlyKnown(q, j)' <=> OnlyKnown(q, j)
    BY <1>4, <1>5 DEF OnlyKnown
  <2>2. \A q \in Requests : requests'[q].pid \in Pids => OnlyKnown(q, requests[q].pid)'
    BY <1>1, <1>4, <2>1 DEF RequestInv, OneCounterpart, OnlyKnown
  <2>3. \A q \in Requests : attempts'[q].receipt \in Pids => OnlyKnown(q, attempts[q].receipt)'
    BY <1>1, <1>4, <2>1 DEF RequestInv, OneCounterpart, OnlyKnown
  <2>4. \A q \in Requests : posts'[q] = 0 => q \notin late' /\ \A j \in Pids : ~Owned(j, q)'
    BY <1>4, <1>5 DEF RequestInv, OneCounterpart
  <2>5. \A q \in Procs : op'[q].at = "answered" => op[q].at = "answered" /\ op[q].r # r /\ op[q].r \in Requests
    BY <1>3, <1>4, CallFacts DEF RequestInv, OneCounterpart, OnlyKnown, KeptAt
  <2>6. \A q \in Procs : op'[q].at = "answered" => OnlyKnown(op[q].r, op[q].ans.pid)'
    BY <1>3, <2>1, <2>5 DEF RequestInv, OneCounterpart, KeptAt
  <2> QED
    BY <1>5, <2>2, <2>3, <2>4, <2>6 DEF OneCounterpart
<1>10. EndsSettled'
  BY <1>1, <1>3, <1>5, SettledKept
<1> QED
  BY <1>1, <1>4, <1>6, <1>7, <1>8, <1>9, <1>10, RegistryKept DEF RequestInv

\* A submission arrives after its caller has given up.
LEMMA LateArrivesInv ==
  ASSUME RequestInv, NEW r \in Requests, LateArrives(r)
  PROVE  RequestInv' /\ requests' = requests
<1>1. PICK i \in Pids, s \in ExtInitial : Received(r, i, s)
  BY DEF LateArrives
<1>2. /\ r \in late /\ late' = late \ {r} /\ posts[r] # 0 /\ \A j \in Pids : ~Owned(j, r)
      /\ UNCHANGED <<requests, attempts, posts, deletes, op, faults>>
  BY DEF LateArrives, RequestInv, OneCounterpart
<1>3. CallsGood /\ \A at : KeptAt(at)
  BY <1>2 DEF CallsGood, KeptAt, RequestInv, CallsKnow, RequestsTypeOK
<1>4. /\ ext' \in [Pids -> {Unused} \cup ExtRequest]
      /\ \A j \in Pids : Settled(j) => SettledNext(j)
      /\ \A j, k \in Pids : \A q \in Requests : Owned(j, q)' /\ Owned(k, q)' => j = k
      /\ \A q \in late' : \A j \in Pids : ~Owned(j, q)'
      /\ \A q \in Requests \ {r} : \A j \in Pids : Owned(j, q)' <=> Owned(j, q)
  BY <1>1, <1>2, ReceivedFacts, ReceivedCounterparts
<1>5. RequestsTypeOK'
  BY <1>2, <1>3, <1>4 DEF RequestInv, RequestsTypeOK
<1>6. CallsKnow'
  BY <1>3 DEF CallsGood, CallsKnow
<1>7. PostsOnce' /\ DeletesOnce'
  BY <1>2, <1>3, PostsKept, DeletesKept DEF RequestInv
<1>8. OneCounterpart'
  <2>1. \A q \in Requests \ {r} : \A j : OnlyKnown(q, j)' <=> OnlyKnown(q, j)
    BY <1>2, <1>4 DEF OnlyKnown
  <2>2. \A q \in Requests : requests'[q].pid \in Pids => OnlyKnown(q, requests[q].pid)'
    BY <1>2, <2>1 DEF RequestInv, OneCounterpart, OnlyKnown
  <2>3. \A q \in Requests : attempts'[q].receipt \in Pids => OnlyKnown(q, attempts[q].receipt)'
    BY <1>2, <2>1 DEF RequestInv, OneCounterpart, OnlyKnown
  <2>4. \A q \in Requests : posts'[q] = 0 => q \notin late' /\ \A j \in Pids : ~Owned(j, q)'
    BY <1>2, <1>4 DEF RequestInv, OneCounterpart
  <2>5. \A q \in Procs : op[q].at = "answered" => op[q].r # r /\ op[q].r \in Requests
    BY <1>2, CallFacts DEF RequestInv, OneCounterpart, OnlyKnown
  <2>6. \A q \in Procs : op'[q].at = "answered" => OnlyKnown(op[q].r, op[q].ans.pid)'
    BY <1>2, <2>1, <2>5 DEF RequestInv, OneCounterpart
  <2> QED
    BY <1>4, <2>2, <2>3, <2>4, <2>6 DEF OneCounterpart
<1>9. EndsSettled'
  BY <1>2, <1>3, <1>4, SettledKept
<1> QED
  BY <1>2, <1>5, <1>6, <1>7, <1>8, <1>9, RegistryKept DEF RequestInv

\* The provider's request i takes another status and keeps its owner.
LEMMA RestatusExt ==
  ASSUME RequestInv, NEW i \in Pids, NEW s \in ExtStatuses \cup {"DELETED"},
         ext[i].status # "FREE",
         s \in ExtOpen => ext[i].status \in ExtOpen,
         ext' = [ext EXCEPT ![i].status = s]
  PROVE  /\ ext' \in [Pids -> {Unused} \cup ExtRequest]
         /\ \A j \in Pids : Settled(j) => SettledNext(j)
         /\ \A j \in Pids, r \in Requests : Owned(j, r)' <=> Owned(j, r)
         /\ s \notin ExtOpen => SettledNext(i)
<1>1. s # "FREE"
  BY DEF ExtStatuses
<1>2. /\ ext'[i].status = s /\ ext'[i].owner = ext[i].owner
      /\ \A j \in Pids \ {i} : ext'[j] = ext[j]
      /\ ext' \in [Pids -> {Unused} \cup ExtRequest]
  <2>1. ext[i] \in ExtRequest
    BY DEF RequestInv, RequestsTypeOK, Unused
  <2>2. [ext[i] EXCEPT !.status = s] \in ExtRequest
    BY <2>1 DEF ExtRequest
  <2> QED
    BY <2>1, <2>2 DEF RequestInv, RequestsTypeOK, ExtRequest
<1>3. \A j \in Pids : Settled(j) => SettledNext(j)
  BY <1>1, <1>2 DEF Settled, SettledNext
<1>4. \A j \in Pids, r \in Requests : Owned(j, r)' <=> Owned(j, r)
  BY <1>1, <1>2 DEF Owned
<1> QED
  BY <1>1, <1>2, <1>3, <1>4 DEF SettledNext

\* The provider works on a request.
LEMMA ExtAdvancesInv ==
  ASSUME RequestInv, NEW i \in Pids, ExtAdvances(i)
  PROVE  RequestInv' /\ requests' = requests
<1>1. PICK s \in ExtLater : ext' = [ext EXCEPT ![i].status = s]
  BY DEF ExtAdvances
<1>2. /\ s \in ExtStatuses /\ ext[i].status \in ExtOpen /\ ext[i].status # "FREE"
      /\ UNCHANGED <<requests, attempts, late, posts, deletes, op, faults>>
  BY RequestsAssumption DEF ExtAdvances, ExtOpen
<1>3. CallsGood /\ \A at : KeptAt(at)
  BY <1>2 DEF CallsGood, KeptAt, RequestInv, CallsKnow, RequestsTypeOK
<1>4. /\ ext' \in [Pids -> {Unused} \cup ExtRequest]
      /\ \A j \in Pids : Settled(j) => SettledNext(j)
      /\ \A j \in Pids, r \in Requests : Owned(j, r)' <=> Owned(j, r)
  BY <1>1, <1>2, RestatusExt
<1>5. RequestsTypeOK'
  BY <1>2, <1>3, <1>4 DEF RequestInv, RequestsTypeOK
<1>6. CallsKnow' /\ PostsOnce' /\ DeletesOnce'
  BY <1>2, <1>3, PostsKept, DeletesKept DEF RequestInv, CallsGood, CallsKnow
<1>7. OneCounterpart'
  BY <1>2, <1>3, <1>4, CounterpartsKept, CallsOfInv DEF RequestInv, RequestsTypeOK, OneCounterpart
<1>8. EndsSettled'
  BY <1>2, <1>3, <1>4, SettledKept
<1> QED
  BY <1>2, <1>5, <1>6, <1>7, <1>8, RegistryKept DEF RequestInv

\* A cancellation is sent for the first time.
LEMMA DeletedInv ==
  ASSUME RequestInv, NEW p \in Procs, op[p].at = "delete", Deleted(op[p].r),
         requests' = requests, op'[p].at # "delete", \A q \in Procs \ {p} : op'[q] = op[q]
  PROVE  DeletesOnce' /\ deletes' \in [Requests -> Nat]
<1> DEFINE r == op[p].r
<1>1. r \in Requests /\ deletes[r] = 0 /\ requests[r].status \notin Uncancelled
  BY CallFacts DEF RequestInv, DeletesOnce
<1>2. /\ deletes' \in [Requests -> Nat]
      /\ deletes'[r] = 1 /\ \A q \in Requests \ {r} : deletes'[q] = deletes[q]
  BY <1>1 DEF Deleted, RequestInv, RequestsTypeOK
<1>3. \A q \in Procs : op'[q].at = "delete" => q # p /\ op[q].at = "delete" /\ op'[q].r = op[q].r
  OBVIOUS
<1>4. \A q \in Procs : op'[q].at = "delete" => op[q].r # r /\ op[q].r \in Requests
  BY <1>3, CallFacts DEF RequestInv, DeletesOnce
<1>5. \A q \in Requests : deletes'[q] <= 1
  BY <1>2 DEF RequestInv, DeletesOnce
<1>6. \A q \in Requests : requests'[q].status \in Uncancelled =>
         deletes'[q] = 0 /\ \A x \in Procs : op'[x].at = "delete" => op'[x].r # q
  BY <1>1, <1>2, <1>3 DEF RequestInv, DeletesOnce
<1>7. \A x \in Procs : op'[x].at = "delete" => deletes'[op'[x].r] = 0
  BY <1>2, <1>3, <1>4 DEF RequestInv, DeletesOnce
<1>8. \A x, y \in Procs : op'[x].at = "delete" /\ op'[y].at = "delete" /\ op'[x].r = op'[y].r => x = y
  BY <1>3 DEF RequestInv, DeletesOnce
<1> QED
  BY <1>2, <1>5, <1>6, <1>7, <1>8 DEF DeletesOnce

\* The provider's request i is deleted, or nothing happens there, and the call
\* that asked for it ends or has been told.
LEMMA CancelSentInv ==
  ASSUME RequestInv, NEW p \in Procs, op[p].at = "delete", Deleted(op[p].r),
         UNCHANGED <<requests, attempts, late, posts>>, faults' \in 0..MaxFaults,
         \/ ext' = ext
         \/ /\ ext[op[p].seen.pid].status \in ExtStatuses
            /\ ext' = [ext EXCEPT ![op[p].seen.pid].status = "DELETED"],
         NEW c, Turns(p, c),
         c.at = "idle" \/ (c.at = "deleted" /\ c.seen = op[p].seen /\ ext' # ext)
  PROVE  RequestInv' /\ requests' = requests
<1>1. PICK i \in Pids : i = op[p].seen.pid
  BY CallFacts DEF Knows
<1>2. /\ CallsGood /\ (\A at : c.at # at => KeptAt(at))
      /\ op'[p] = c /\ \A q \in Procs \ {p} : op'[q] = op[q]
  BY TurnsKeeps
<1>3. KeptAt("post") /\ KeptAt("answered") /\ KeptAt("bind") /\ KeptAt("apply") /\ op'[p].at # "delete"
  BY <1>2
<1>4. DeletesOnce' /\ deletes' \in [Requests -> Nat]
  BY <1>2, <1>3, DeletedInv
<1>5. /\ ext' \in [Pids -> {Unused} \cup ExtRequest]
      /\ \A j \in Pids : Settled(j) => SettledNext(j)
      /\ \A j \in Pids, r \in Requests : Owned(j, r)' <=> Owned(j, r)
      /\ ext' # ext => SettledNext(i)
  <2>1. CASE ext' = ext
    BY <2>1 DEF RequestInv, RequestsTypeOK, Settled, SettledNext, Owned
  <2>2. CASE ext[i].status \in ExtStatuses /\ ext' = [ext EXCEPT ![i].status = "DELETED"]
    <3>1. ext[i].status # "FREE" /\ "DELETED" \notin ExtOpen
      BY <2>2 DEF ExtStatuses, ExtOpen
    <3> QED
      BY <2>2, <3>1, RestatusExt
  <2> QED
    BY <1>1, <2>1, <2>2
<1>6. RequestsTypeOK'
  BY <1>2, <1>4, <1>5 DEF RequestInv, RequestsTypeOK, CallsGood
<1>7. CallsKnow' /\ PostsOnce'
  BY <1>2, <1>3, PostsKept DEF RequestInv, CallsGood, CallsKnow
<1>8. OneCounterpart'
  BY <1>3, <1>5, CounterpartsKept, CallsOfInv DEF RequestInv, RequestsTypeOK, OneCounterpart
<1>9. EndsSettled'
  <2>1. \A r \in Requests : requests'[r].status \in Terminal \cup {"PROCESSING"} =>
           requests'[r].pid \in Pids /\ SettledNext(requests'[r].pid)
    BY <1>5 DEF RequestInv, EndsSettled
  <2>2. \A q \in Procs : op'[q].at \in {"answered", "bind", "apply"} /\ op'[q].ans.status \notin ExtOpen
           => SettledNext(op'[q].ans.pid)
    BY <1>3, <1>5, CallsOfInv DEF RequestInv, EndsSettled, KeptAt
  <2>3. \A q \in Procs : op'[q].at = "deleted" => SettledNext(op'[q].seen.pid)
    BY <1>1, <1>2, <1>5, CallsOfInv DEF RequestInv, EndsSettled
  <2> QED
    BY <2>1, <2>2, <2>3 DEF EndsSettled, Settled, SettledNext
<1> QED
  BY <1>4, <1>6, <1>7, <1>8, <1>9, RegistryKept DEF RequestInv

\* The cancellation is answered.
LEMMA DeleteAnsweredInv ==
  ASSUME RequestInv, NEW p \in Procs, DeleteAnswered(p)
  PROVE  RequestInv' /\ requests' = requests
<1> DEFINE i == op[p].seen.pid
           a == [pid |-> i, status |-> "CANCELLED"]
           c == Doing("deleted", op[p].r, op[p].seen, op[p].att, a)
<1>1. /\ op[p].at = "delete" /\ i \in Pids /\ op[p].seen.status = "CANCELLING"
      /\ op[p].r \in Requests /\ op[p].seen \in Request /\ op[p].att \in Attempt
      /\ Deleted(op[p].r) /\ UNCHANGED <<requests, attempts, late, posts>> /\ faults' \in 0..MaxFaults
  BY CallFacts DEF DeleteAnswered, At, Knows, RequestInv, RequestsTypeOK
<1>2. CASE ext[i].status \notin ExtStatuses
  <2>1. ext' = ext /\ Done(p)
    BY <1>2 DEF DeleteAnswered
  <2> QED
    BY <1>1, <2>1, TurnsIdle, IdleShape, CancelSentInv
<1>3. CASE ext[i].status \in ExtStatuses
  <2>1. ext' = [ext EXCEPT ![i].status = "DELETED"] /\ Next_(p, c)
    BY <1>3 DEF DeleteAnswered, Told
  <2>2. ext' # ext
    <3>1. ext'[i].status = "DELETED"
      BY <1>1, <2>1 DEF RequestInv, RequestsTypeOK
    <3>2. ext[i].status # "DELETED"
      BY <1>3 DEF ExtStatuses
    <3> QED
      BY <3>1, <3>2
  <2>3. a \in Answer /\ a.status = "CANCELLED"
    BY <1>1 DEF Answer
  <2> HIDE DEF a
  <2>4. Knows("deleted", op[p].r, op[p].seen, op[p].att, a)
    BY <1>1, <2>3 DEF Knows
  <2>5. c.at = "deleted" /\ c.seen = op[p].seen /\ Turns(p, c)
    BY <1>1, <2>1, <2>3, <2>4, TurnsDoing, DoingShape
  <2> HIDE DEF c
  <2> QED
    BY <1>1, <1>3, <2>1, <2>2, <2>5, CancelSentInv
<1> QED
  BY <1>2, <1>3

\* The answer to the cancellation is lost.
LEMMA DeleteLostInv ==
  ASSUME RequestInv, NEW p \in Procs, DeleteLost(p)
  PROVE  RequestInv' /\ requests' = requests
<1>1. faults' \in 0..MaxFaults
  BY RequestsAssumption DEF DeleteLost, Fault, RequestInv, RequestsTypeOK
<1> QED
  BY <1>1, TurnsIdle, IdleShape, CancelSentInv DEF DeleteLost, At

\* A power loss ends every call and leaves the registry as it is.
LEMMA PowerLossRequests ==
  ASSUME RequestInv, PowerLoss
  PROVE  RequestInv' /\ requests' = requests
<1>1. /\ UNCHANGED <<requests, attempts, ext, late, posts, deletes>> /\ faults' \in 0..MaxFaults
      /\ op' = [p \in Procs |-> Idle]
  BY RequestsAssumption DEF PowerLoss, Fault, RequestInv, RequestsTypeOK
<1>2. CallsGood /\ \A p \in Procs : op'[p].at = "idle"
  BY <1>1, IdleShape DEF CallsGood, GoodCall
<1>3. Quiet
  BY <1>1, <1>2 DEF Quiet, KeptAt
<1> QED
  BY <1>1, <1>3, QuietInv

(***************************************************************************)
(* The specification.                                                      *)
(***************************************************************************)
\* Nothing is requested at the start.
LEMMA InitInv == Init => RequestInv
<1> SUFFICES ASSUME Init PROVE RequestInv
  OBVIOUS
<1>1. RequestsTypeOK
  BY RecordTypes, RequestsAssumption DEF Init, RequestsTypeOK
<1>2. \A p \in Procs : op[p] = Idle /\ op[p].at = "idle"
  BY IdleShape DEF Init
<1>3. CallsKnow
  BY <1>2 DEF CallsKnow, GoodCall
<1>4. \A r \in Requests : /\ requests[r].status = "NONE" /\ requests[r].pid = NoPid /\ posts[r] = 0 /\ deletes[r] = 0
                          /\ attempts[r].phase = "NONE" /\ attempts[r].receipt = NoPid
  BY DEF Init, None, NoAttempt
<1>5. "NONE" \notin Statuses \cup Terminal \cup {"PROCESSING"}
  BY DEF Statuses, Stages, Terminal
<1>6. RegistryLoads /\ OneOwner /\ ActiveTargetsDisjoint
  BY <1>4, <1>5 DEF RegistryLoads, OneOwner, ActiveTargetsDisjoint, Active
<1>7. PostsOnce /\ DeletesOnce
  BY <1>2, <1>4 DEF PostsOnce, DeletesOnce
<1>8. OneCounterpart
  <2>1. \A i \in Pids : \A r : ~Owned(i, r)
    BY DEF Init, Owned, Unused
  <2>2. late = {}
    BY DEF Init
  <2> QED
    BY <1>2, <1>4, <2>1, <2>2, RequestsAssumption DEF OneCounterpart
<1>9. EndsSettled
  BY <1>2, <1>4, <1>5 DEF EndsSettled
<1> QED
  BY <1>1, <1>3, <1>6, <1>7, <1>8, <1>9 DEF RequestInv

\* Every step keeps the invariant and takes no request back.
LEMMA NextInv ==
  ASSUME RequestInv, [Next]_vars
  PROVE  RequestInv' /\ \A r \in Requests : Forward(r, requests'[r])
<1>1. ASSUME NEW r \in Requests, Create(r) \/ LateArrives(r) \/ Delete(r)
      PROVE  RequestInv' /\ \A q \in Requests : Forward(q, requests'[q])
  BY <1>1, CreateInv, LateArrivesInv, DeleteInv, ForwardStays
<1>2. ASSUME NEW p \in Procs, NEW r \in Requests, Starts(p, r) \/ BeginRecover(p, r)
      PROVE  RequestInv' /\ \A q \in Requests : Forward(q, requests'[q])
  <2>1. requests' = requests
    BY <1>2 DEF Starts, BeginSubmit, BeginRefresh, BeginCancel, BeginRecover
  <2> QED
    BY <1>2, <2>1, StartsInv, ForwardStays
<1>3. ASSUME NEW p \in Procs, Continues(p)
      PROVE  RequestInv' /\ \A q \in Requests : Forward(q, requests'[q])
  <2>1. CASE IntentRefused(p) \/ Recover(p) \/ Verify(p) \/ VerifyRefused(p) \/ AskStatus(p) \/ Ready(p)
    <3>1. requests' = requests
      BY <2>1 DEF IntentRefused, Recover, Verify, VerifyRefused, AskStatus, Ready
    <3> QED
      BY <2>1, <3>1, StopsCallInv, RecoverInv, VerifyInv, AskStatusInv, ReadyInv, ForwardStays
  <2>2. CASE PostAnswered(p) \/ ObserveReceipt(p) \/ DeleteAnswered(p)
    BY <2>2, PostAnsweredInv, ObserveReceiptInv, DeleteAnsweredInv, ForwardStays
  <2>3. CASE Intend(p) \/ SaveAnswer(p) \/ Apply(p) \/ MarkAvailable(p) \/ IntendCancel(p) \/ SaveCancelled(p)
    BY <2>3, IntendInv, SaveAnswerInv, ApplyInv, MarkAvailableInv, IntendCancelInv, SaveCancelledInv
  <2> QED
    BY <1>3, <2>1, <2>2, <2>3 DEF Continues
<1>4. ASSUME NEW p \in Procs, Misdelivered(p)
      PROVE  RequestInv' /\ \A q \in Requests : Forward(q, requests'[q])
  <2>1. CASE Fail(p)
    BY <2>1, StopsCallInv, ForwardStays DEF Fail
  <2>2. CASE PostMerged(p) \/ PostLost(p) \/ DeleteLost(p)
    BY <2>2, PostMergedInv, PostLostInv, DeleteLostInv, ForwardStays
  <2> QED
    BY <1>4, <2>1, <2>2 DEF Misdelivered
<1>5. ASSUME NEW i \in Pids, ExtAdvances(i)
      PROVE  RequestInv' /\ \A q \in Requests : Forward(q, requests'[q])
  BY <1>5, ExtAdvancesInv, ForwardStays
<1>6. CASE RequestStep
  BY <1>1, <1>2, <1>3, <1>4, <1>5, <1>6 DEF RequestStep
<1>7. ASSUME NEW p \in Procs, Bind(p)
      PROVE  RequestInv' /\ \A q \in Requests : Forward(q, requests'[q])
  BY <1>7, BindInv
<1>8. CASE PowerLoss
  BY <1>8, PowerLossRequests, ForwardStays
<1>9. ASSUME UNCHANGED <<requests, attempts, ext, late, posts, deletes, op>>, faults' \in 0..MaxFaults
      PROVE  RequestInv' /\ \A q \in Requests : Forward(q, requests'[q])
  <2>1. Quiet
    BY <1>9 DEF Quiet, CallsGood, KeptAt, RequestInv, CallsKnow, RequestsTypeOK
  <2> QED
    BY <1>9, <2>1, QuietInv, ForwardStays
<1>10. faults \in 0..MaxFaults
  BY DEF RequestInv, RequestsTypeOK
<1>11. CASE UNCHANGED requestVars
  BY <1>9, <1>10, <1>11 DEF requestVars
<1>12. ASSUME NEW d \in Drainers, DeliveryFault(d)
       PROVE  RequestInv' /\ \A q \in Requests : Forward(q, requests'[q])
  BY <1>9, <1>10, <1>12, RequestsAssumption DEF DeliveryFault, Fault
<1>13. CASE UNCHANGED vars
  BY <1>9, <1>10, <1>13 DEF vars
<1> QED
  BY <1>6, <1>7, <1>8, <1>11, <1>12, <1>13 DEF Next

\* What the other parts make of the two steps in which they take part.
LEMMA NextEvents == [Next]_vars => EventStep
<1> SUFFICES ASSUME [Next]_vars PROVE EventStep
  OBVIOUS
<1>1. CASE UNCHANGED eventVars
  BY <1>1 DEF EventStep
<1>2. CASE DeliveryStep
  BY <1>2 DEF DeliveryStep, EventStep
<1>3. ASSUME NEW p \in Procs, Bind(p) PROVE EventStep
  <2>1. UNCHANGED <<journal, synced, torn, drain>>
    BY <1>3 DEF Bind
  <2>2. CASE UNCHANGED outbox
    BY <2>1, <2>2 DEF EventStep, eventVars
  <2>3. CASE \E es : Enqueue(es)
    BY <2>1, <2>3 DEF EventStep
  <2> QED
    BY <1>3, <2>2, <2>3 DEF Bind
<1>4. ASSUME NEW d \in Drainers, DeliveryFault(d) PROVE EventStep
  BY <1>4 DEF DeliveryFault, EventStep
<1>5. CASE PowerLoss
  BY <1>5 DEF PowerLoss, EventStep
<1>6. CASE UNCHANGED vars
  BY <1>1, <1>6 DEF vars, eventVars
<1> QED
  BY <1>1, <1>2, <1>3, <1>4, <1>5, <1>6 DEF Next

\* The two inductive invariants hold in every state.
THEOREM Invariants == Spec => [](RequestInv /\ EventInv)
<1>1. Init => RequestInv /\ EventInv
  BY InitInv, EventsInitInv DEF Init
<1>2. RequestInv /\ EventInv /\ [Next]_vars => (RequestInv /\ EventInv)'
  BY NextInv, NextEvents, EventStepInv
<1> QED
  BY <1>1, <1>2, PTL DEF Spec

\* The registry, the provider, the calls and the deliveries keep their types.
THEOREM TypeCorrect == Spec => []TypeOK
<1>1. RequestInv /\ EventInv => TypeOK
  BY DEF RequestInv, EventInv, RequestsTypeOK, TypeOK
<1> QED
  BY <1>1, Invariants, PTL

\* No operation and no crash leaves a registry the next load refuses.
THEOREM RegistryAlwaysLoads == Spec => []RegistryLoads
<1>1. RequestInv => RegistryLoads
  BY DEF RequestInv
<1> QED
  BY <1>1, Invariants, PTL

\* No interleaving of submissions, recoveries and failures sends a request or
\* its cancellation twice.
THEOREM MutationsOnce == Spec => []MutatedOnce
<1>1. RequestInv => MutatedOnce
  BY DEF RequestInv, PostsOnce, DeletesOnce, MutatedOnce
<1> QED
  BY <1>1, Invariants, PTL

\* Provider ids and receipts have one owner, even if the provider repeats them.
THEOREM OwnersUnique == Spec => []OneOwner
<1>1. RequestInv => OneOwner
  BY DEF RequestInv
<1> QED
  BY <1>1, Invariants, PTL

\* save_if_no_active_conflict keeps the targets of active requests disjoint.
THEOREM TargetsDisjoint == Spec => []ActiveTargetsDisjoint
<1>1. RequestInv => ActiveTargetsDisjoint
  BY DEF RequestInv
<1> QED
  BY <1>1, Invariants, PTL

\* An open request of the provider belongs to a request that has not ended.
LEMMA OpenOwnerActive ==
  ASSUME RequestInv, NEW i \in Pids, ext[i].status \in ExtOpen, Present(ext[i].owner)
  PROVE  ext[i].owner \in Requests /\ Active(ext[i].owner) /\ Owned(i, ext[i].owner)
<1> DEFINE r == ext[i].owner
<1>1. ext[i].status # "FREE"
  BY DEF ExtOpen
<1>2. ext[i] \in ExtRequest
  BY <1>1 DEF RequestInv, RequestsTypeOK, Unused
<1>3. r \in Requests /\ Owned(i, r)
  BY <1>1, <1>2 DEF ExtRequest, Owned
<1>4. requests[r].status \notin Terminal
  <2> SUFFICES ASSUME requests[r].status \in Terminal PROVE FALSE
    OBVIOUS
  <2>1. requests[r].pid \in Pids /\ Settled(requests[r].pid)
    BY <1>3 DEF RequestInv, EndsSettled
  <2>2. OnlyKnown(r, requests[r].pid)
    BY <1>3, <2>1 DEF RequestInv, OneCounterpart
  <2>3. requests[r].pid = i
    BY <1>3, <2>2 DEF OnlyKnown
  <2> QED
    BY <2>1, <2>3 DEF Settled
<1> QED
  BY <1>3, <1>4 DEF Active, Present

\* The provider never works on two requests for one target.
THEOREM NoDuplicates == Spec => []NoDuplicateAcquisition
<1>1. RequestInv => NoDuplicateAcquisition
  <2> SUFFICES ASSUME RequestInv, NEW i \in Pids, NEW j \in Pids, i # j,
                      ext[i].status \in ExtOpen, ext[j].status \in ExtOpen,
                      Present(ext[i].owner), Present(ext[j].owner)
               PROVE  Covers[ext[i].owner] \cap Covers[ext[j].owner] = {}
    BY DEF NoDuplicateAcquisition
  <2> DEFINE q == ext[i].owner
             r == ext[j].owner
  <2>1. q \in Requests /\ Active(q) /\ Owned(i, q)
    BY OpenOwnerActive
  <2>2. r \in Requests /\ Active(r) /\ Owned(j, r)
    BY OpenOwnerActive
  <2>3. q # r
    BY <2>1, <2>2 DEF RequestInv, OneCounterpart
  <2> QED
    BY <2>1, <2>2, <2>3 DEF RequestInv, ActiveTargetsDisjoint
<1> QED
  BY <1>1, Invariants, PTL

\* A stale answer of the provider never takes a request back.
THEOREM NoRegress == Spec => NeverBackwards
<1>1. RequestInv /\ [Next]_vars =>
         [\A r \in Requests :
            /\ Progress(requests'[r]) >= Progress(requests[r])
            /\ requests[r].status \in Terminal =>
                  requests'[r] = requests[r] \/ requests'[r].status = "DELETED"]_vars
  BY NextInv DEF Forward
<1> QED
  BY <1>1, Invariants, PTL DEF Spec, NeverBackwards

\* No crash or power loss loses an event the outbox calls delivered.
THEOREM DeliveredIsDurable == Spec => []AcknowledgedIsDurable
<1>1. EventInv => AcknowledgedIsDurable
  BY DEF EventInv
<1> QED
  BY <1>1, Invariants, PTL

\* However many processes deliver and replay, no event has two lines.
THEOREM NoDuplicateLine == Spec => []JournaledOnce
<1>1. EventInv => JournaledOnce
  BY DEF EventInv
<1> QED
  BY <1>1, Invariants, PTL
=============================================================================
