----------------------------- MODULE MediaRequests -----------------------------
(***************************************************************************)
(* Media requests (atlas/media_requests): the request registry with its    *)
(* submission attempts, the service that submits, recovers, refreshes,     *)
(* promotes and cancels requests, and the provider (Jellyseerr) it talks   *)
(* to over a connection that loses answers.                                *)
(*                                                                         *)
(* Every registry operation runs under one flock and is one action; what   *)
(* an operation has read before, it carries along in op[p] and compares    *)
(* again when it writes.                                                   *)
(***************************************************************************)
EXTENDS SubmissionEvents

CONSTANTS
    Procs,       \* the processes that call the service
    Requests,    \* request ids, fresh for every call of the API
    Pids,        \* request ids of the provider, counted up from 1
    NoPid,       \* provider_request_id or receipt_id is None
    Covers,      \* request -> the films or seasons its target stands for
    Audio,       \* the requests with an audio_preference (receipt recovery)
    WholeSeries, \* the requests for all seasons
    ExtInitial,  \* what the provider may say of a new request
    ExtLater,    \* what it may say later on
    MaxPosts,    \* bound on submissions of one request to the provider
    MaxFaults    \* bound on failures, lost answers and power losses

Terminal == {"AVAILABLE", "REJECTED", "FAILED", "CANCELLED"}
Stages == {"APPROVED", "SEARCHING", "DOWNLOADING", "IMPORTING", "PROCESSING"}
Statuses == {"PENDING", "SUBMITTING", "CANCELLING"} \cup Stages \cup Terminal
Stage(s) == CASE s = "APPROVED"    -> 1
              [] s = "SEARCHING"   -> 2
              [] s = "DOWNLOADING" -> 3
              [] s = "IMPORTING"   -> 4
              [] OTHER             -> 5

\* What _normalize_status makes of an answer of the provider.
ExtStatuses == {"PENDING", "APPROVED", "SEARCHING", "IMPORTING", "PROCESSING", "REJECTED", "FAILED"}
\* The provider still works on it.
ExtOpen == {"PENDING", "APPROVED", "SEARCHING", "IMPORTING"}

ASSUME RequestsAssumption ==
    /\ Pids \subseteq Nat \ {0}
    /\ NoPid \notin Pids
    /\ Audio \subseteq Requests
    /\ WholeSeries \subseteq Requests
    /\ \A r \in Requests : Covers[r] # {}
    /\ ExtInitial \subseteq ExtStatuses
    /\ ExtLater \subseteq ExtStatuses
    /\ MaxPosts \in Nat
    /\ MaxFaults \in Nat
    /\ \A r \in Requests : \A t \in {"SUBMITTED"} \cup ExtInitial \cup ExtLater : <<r, t>> \in Events

VARIABLES
    requests,  \* the registry's requests
    attempts,  \* its submissions: one attempt per request, for ever
    ext,       \* the provider's requests
    late,      \* submissions under way to the provider that nobody waits for
    posts,     \* how often each request was sent to the provider
    deletes,   \* how often its cancellation was
    op,        \* process -> the service call it is in
    faults

requestVars == <<requests, attempts, ext, late, posts, deletes, op, faults>>
vars == <<requests, attempts, ext, late, posts, deletes, op, faults,
          outbox, journal, synced, torn, drain>>

(***************************************************************************)
(* State.                                                                  *)
(***************************************************************************)
Request == [status: Statuses \cup {"NONE", "DELETED"}, pid: Pids \cup {NoPid}]
Attempt == [phase: {"NONE", "POST_STARTED", "RECEIPT_OBSERVED", "BOUND"},
            receipt: Pids \cup {NoPid}]
Answer == [pid: Pids \cup {NoPid}, status: ExtStatuses \cup {"NONE", "CANCELLED"}]
Call == [at: {"submit", "post", "answered", "recover", "verify", "bind", "refresh",
              "apply", "promote", "promoting", "cancel", "delete", "deleted"},
         r: Requests, seen: Request, att: Attempt, ans: Answer]

Unused == [owner |-> "nobody", status |-> "FREE"]
ExtRequest == [owner: Requests, status: ExtStatuses \cup {"DELETED"}]

None == [status |-> "NONE", pid |-> NoPid]
NoAttempt == [phase |-> "NONE", receipt |-> NoPid]
NoAnswer == [pid |-> NoPid, status |-> "NONE"]

Init ==
    /\ EventsInit
    /\ requests = [r \in Requests |-> None]
    /\ attempts = [r \in Requests |-> NoAttempt]
    /\ ext = [i \in Pids |-> Unused]
    /\ late = {}
    /\ posts = [r \in Requests |-> 0]
    /\ deletes = [r \in Requests |-> 0]
    /\ op = [p \in Procs |-> Idle]
    /\ faults = 0

(***************************************************************************)
(* Helpers.                                                                *)
(***************************************************************************)
Present(r) == requests[r].status \in Statuses
Active(r) == requests[r].status \in Statuses \ Terminal

\* _ALLOWED_TRANSITIONS
Onward(s) == {t \in Stages : Stage(t) >= Stage(s)}
Allowed(s) ==
    CASE s = "PENDING"    -> Statuses
      [] s = "SUBMITTING" -> Statuses \ {"SUBMITTING", "CANCELLING"}
      [] s \in Stages     -> Onward(s) \cup {"CANCELLING", "AVAILABLE", "FAILED", "CANCELLED"}
                             \cup (IF s = "APPROVED" THEN {"REJECTED"} ELSE {})
      [] s = "CANCELLING" -> {"CANCELLED"}
      [] OTHER            -> {s}

ConflictMutant(r) == \E q \in Requests : Active(q) /\ Covers[q] = Covers[r]

\* _find_active_target_conflict_in_records
Conflict(r) == \E q \in Requests : Active(q) /\ Covers[q] \cap Covers[r] # {}

TakenMutant(i, r) == \E q \in Requests \ {r} : Active(q) /\ requests[q].pid = i

\* _find_provider_request_in_records
Taken(i, r) == \E q \in Requests \ {r} : requests[q].pid = i

ReplaceableMutant(r, seen, new) ==
    /\ Present(r)
    /\ ~(attempts[r].phase # "NONE" /\ seen.status = "SUBMITTING")
    /\ new.pid # NoPid => ~Taken(new.pid, r)

\* replace(new, expected=seen) goes through: the record is still the one that
\* was read, its provider id is not another's, and a submission that has an
\* attempt is left to recovery.
Replaceable(r, seen, new) ==
    /\ requests[r] = seen
    /\ ~(attempts[r].phase # "NONE" /\ seen.status = "SUBMITTING")
    /\ new.pid # NoPid => ~Taken(new.pid, r)

Replaced(r, new) == requests' = [requests EXCEPT ![r] = new]

Free(p) == op[p].at = "idle"
At(p, at) == op[p].at = at
Next_(p, call) == op' = [op EXCEPT ![p] = call]
Done(p) == op' = [op EXCEPT ![p] = Idle]
Fault == faults < MaxFaults /\ faults' = faults + 1

Doing(at, r, seen, att, ans) == [at |-> at, r |-> r, seen |-> seen, att |-> att, ans |-> ans]
Reading(at, r) == Doing(at, r, requests[r], NoAttempt, NoAnswer)
\* The call goes on with what the provider has said of request i.
Told(p, at, i, s) == Doing(at, op[p].r, op[p].seen, op[p].att, [pid |-> i, status |-> s])

(***************************************************************************)
(* create_request: save_if_no_active_conflict.                             *)
(***************************************************************************)
Create(r) ==
    /\ requests[r] = None
    /\ ~Conflict(r)
    /\ Replaced(r, [status |-> "PENDING", pid |-> NoPid])
    /\ UNCHANGED <<attempts, ext, late, posts, deletes, op, faults>>

(***************************************************************************)
(* submit_request.  A request without audio preference takes the legacy    *)
(* path of MediaRequestService, the others record an attempt first.        *)
(***************************************************************************)
SubmittableMutant(r) ==
    /\ requests[r].status \in {"PENDING", "SUBMITTING"}
    /\ requests[r].pid = NoPid
    /\ r \notin Audio \cap WholeSeries

Submittable(r) ==
    /\ requests[r] = [status |-> "PENDING", pid |-> NoPid]
    /\ r \notin Audio \cap WholeSeries

BeginSubmit(p, r) ==
    /\ Free(p)
    /\ Submittable(r)
    /\ Next_(p, Reading("submit", r))
    /\ UNCHANGED <<requests, attempts, ext, late, posts, deletes, faults>>

\* The intent is durable before the provider is called: _replace, or
\* begin_submission, which also stores the attempt.
Intend(p) ==
    /\ At(p, "submit")
    /\ LET r == op[p].r
           intent == [status |-> "SUBMITTING", pid |-> NoPid]
           attempt == [phase |-> "POST_STARTED", receipt |-> NoPid]
       IN  /\ Replaceable(r, op[p].seen, intent)
           /\ Replaced(r, intent)
           /\ IF r \in Audio
              THEN /\ attempts[r] = NoAttempt
                   /\ attempts' = [attempts EXCEPT ![r] = attempt]
                   /\ Next_(p, Doing("post", r, intent, attempt, NoAnswer))
              ELSE /\ Next_(p, Doing("post", r, intent, NoAttempt, NoAnswer))
                   /\ UNCHANGED attempts
    /\ UNCHANGED <<ext, late, posts, deletes, faults>>

IntentRefused(p) ==
    /\ At(p, "submit")
    /\ requests[op[p].r] # op[p].seen
    /\ Done(p)
    /\ UNCHANGED <<requests, attempts, ext, late, posts, deletes, faults>>

(***************************************************************************)
(* The POST and what the provider makes of it.                             *)
(***************************************************************************)
Sent(r) == posts[r] < MaxPosts /\ posts' = [posts EXCEPT ![r] = @ + 1]

\* The provider counts its request ids up.
Fresh(i) == ext[i].status = "FREE" /\ \A j \in Pids : j < i => ext[j].status # "FREE"

Received(r, i, s) ==
    /\ Fresh(i)
    /\ s \in ExtInitial
    /\ ext' = [ext EXCEPT ![i] = [owner |-> r, status |-> s]]

PostAnswered(p) ==
    /\ At(p, "post")
    /\ Sent(op[p].r)
    /\ \E i \in Pids, s \in ExtInitial :
          /\ Received(op[p].r, i, s)
          /\ Next_(p, Told(p, "answered", i, s))
    /\ UNCHANGED <<requests, attempts, late, deletes, faults>>

\* The provider names a request it already has.
PostMerged(p) ==
    /\ At(p, "post")
    /\ Sent(op[p].r)
    /\ Fault
    /\ \E i \in Pids :
          /\ ext[i].status \in ExtStatuses
          /\ Next_(p, Told(p, "answered", i, ext[i].status))
    /\ UNCHANGED <<requests, attempts, ext, late, deletes>>

\* The call raises although the provider has received the request, will
\* receive it, or never does.  The request stays SUBMITTING.
PostLost(p) ==
    /\ At(p, "post")
    /\ Sent(op[p].r)
    /\ Fault
    /\ \/ (\E i \in Pids, s \in ExtInitial : Received(op[p].r, i, s)) /\ UNCHANGED late
       \/ late' = late \cup {op[p].r} /\ UNCHANGED ext
       \/ UNCHANGED <<ext, late>>
    /\ Done(p)
    /\ UNCHANGED <<requests, attempts, deletes>>

LateArrives(r) ==
    /\ r \in late
    /\ \E i \in Pids, s \in ExtInitial : Received(r, i, s)
    /\ late' = late \ {r}
    /\ UNCHANGED <<requests, attempts, posts, deletes, op, faults>>

(***************************************************************************)
(* The answer is recorded: on the legacy path as provider id and status,   *)
(* otherwise as the receipt of the attempt.                                *)
(***************************************************************************)
Recordable(p) ==
    LET new == [status |-> op[p].ans.status, pid |-> op[p].ans.pid]
    IN  Replaceable(op[p].r, op[p].seen, new)

SaveAnswer(p) ==
    /\ At(p, "answered")
    /\ op[p].r \notin Audio
    /\ IF Recordable(p)
       THEN Replaced(op[p].r, [status |-> op[p].ans.status, pid |-> op[p].ans.pid])
       ELSE UNCHANGED requests
    /\ Done(p)
    /\ UNCHANGED <<attempts, ext, late, posts, deletes, faults>>

\* observe_receipt
ReceiptFree(p) ==
    LET r == op[p].r
        i == op[p].ans.pid
    IN  /\ requests[r] = op[p].seen
        /\ attempts[r] = op[p].att
        /\ \A q \in Requests \ {r} : attempts[q].receipt # i
        /\ ~Taken(i, r)
ObserveReceipt(p) ==
    /\ At(p, "answered")
    /\ op[p].r \in Audio
    /\ IF ReceiptFree(p)
       THEN /\ attempts' = [attempts EXCEPT ![op[p].r] =
                               [phase |-> "RECEIPT_OBSERVED", receipt |-> op[p].ans.pid]]
            /\ Next_(p, Doing("recover", op[p].r, None, NoAttempt, NoAnswer))
       ELSE Done(p) /\ UNCHANGED attempts
    /\ UNCHANGED <<requests, ext, late, posts, deletes, faults>>

(***************************************************************************)
(* recover_submission: after a submission, and by the scheduled pass for   *)
(* every request that is SUBMITTING and has a receipt.  The two reads are  *)
(* one step: a registry that shows SUBMITTING and then a receipt shows     *)
(* both at the second read.                                                *)
(***************************************************************************)
Recoverable(r) ==
    /\ requests[r].status = "SUBMITTING"
    /\ attempts[r].phase = "RECEIPT_OBSERVED"

BeginRecover(p, r) ==
    /\ Free(p)
    /\ Recoverable(r)
    /\ Next_(p, Doing("verify", r, requests[r], attempts[r], NoAnswer))
    /\ UNCHANGED <<requests, attempts, ext, late, posts, deletes, faults>>

Recover(p) ==
    /\ At(p, "recover")
    /\ IF Recoverable(op[p].r)
       THEN Next_(p, Doing("verify", op[p].r, requests[op[p].r], attempts[op[p].r], NoAnswer))
       ELSE Done(p)
    /\ UNCHANGED <<requests, attempts, ext, late, posts, deletes, faults>>

\* get_recovery_status: the provider's request must be for exactly this target.
Verify(p) ==
    /\ At(p, "verify")
    /\ LET i == op[p].att.receipt
       IN  IF ext[i].status \in ExtStatuses /\ Covers[ext[i].owner] = Covers[op[p].r]
           THEN Next_(p, Told(p, "bind", i, ext[i].status))
           ELSE Done(p)
    /\ UNCHANGED <<requests, attempts, ext, late, posts, deletes, faults>>

\* The routing of the attempt is no longer the configured one, or the managed
\* item is not there yet (nobody has approved the request at the provider) or
\* has another profile, or the provider no longer answers for it.  None of
\* this is Atlas's to end: it may last, or come and go, without bound.
VerifyRefused(p) ==
    /\ At(p, "verify")
    /\ Done(p)
    /\ UNCHANGED <<requests, attempts, ext, late, posts, deletes, faults>>

BindableMutant(p) ==
    LET r == op[p].r
    IN  /\ requests[r] = op[p].seen
        /\ attempts[r] = [phase |-> "POST_STARTED", receipt |-> NoPid]
        /\ ~Taken(op[p].ans.pid, r)

\* bind_submission: the record, the attempt and the two events in one write.
Bindable(p) ==
    LET r == op[p].r
    IN  /\ requests[r] = op[p].seen
        /\ attempts[r] = op[p].att
        /\ ~Taken(op[p].ans.pid, r)

Bind(p) ==
    /\ At(p, "bind")
    /\ LET r == op[p].r
       IN  IF Bindable(p)
           THEN /\ Replaced(r, [status |-> op[p].ans.status, pid |-> op[p].ans.pid])
                /\ attempts' = [attempts EXCEPT ![r].phase = "BOUND"]
                /\ Enqueue({<<r, "SUBMITTED">>, <<r, op[p].ans.status>>})
           ELSE UNCHANGED <<requests, attempts, outbox>>
    /\ Done(p)
    /\ UNCHANGED <<ext, late, posts, deletes, faults, journal, synced, torn, drain>>

(***************************************************************************)
(* refresh_request, with the promotion that reconcile_active_requests adds *)
(* when Jellyfin has the media.                                            *)
(***************************************************************************)
BeginRefresh(p, r) ==
    /\ Free(p)
    /\ requests[r].pid # NoPid
    /\ Next_(p, Reading("refresh", r))
    /\ UNCHANGED <<requests, attempts, ext, late, posts, deletes, faults>>

AskStatusMutant(p) ==
    /\ At(p, "refresh")
    /\ LET i == op[p].seen.pid
       IN  Next_(p, Told(p, "apply", i, ext[i].status))
    /\ UNCHANGED <<requests, attempts, ext, late, posts, deletes, faults>>

AskStatus(p) ==
    /\ At(p, "refresh")
    /\ LET i == op[p].seen.pid
       IN  IF ext[i].status \in ExtStatuses
           THEN Next_(p, Told(p, "apply", i, ext[i].status))
           ELSE Done(p)
    /\ UNCHANGED <<requests, attempts, ext, late, posts, deletes, faults>>

\* _apply_status_result
Apply(p) ==
    /\ At(p, "apply")
    /\ LET seen == op[p].seen
           new == [seen EXCEPT !.status = op[p].ans.status]
       IN  IF /\ new.status \in Allowed(seen.status)
              /\ Replaceable(op[p].r, seen, new)
           THEN /\ Replaced(op[p].r, new)
                /\ IF new.status = "PROCESSING"
                   THEN Next_(p, Doing("promote", op[p].r, None, NoAttempt, NoAnswer))
                   ELSE Done(p)
           ELSE Done(p) /\ UNCHANGED requests
    /\ UNCHANGED <<attempts, ext, late, posts, deletes, faults>>

\* readiness.is_ready; mark_available reads the request again.
Ready(p) ==
    /\ At(p, "promote")
    /\ \/ /\ requests[op[p].r].status = "PROCESSING"
          /\ Next_(p, Reading("promoting", op[p].r))
       \/ Done(p)
    /\ UNCHANGED <<requests, attempts, ext, late, posts, deletes, faults>>

MarkAvailable(p) ==
    /\ At(p, "promoting")
    /\ LET new == [op[p].seen EXCEPT !.status = "AVAILABLE"]
       IN  IF Replaceable(op[p].r, op[p].seen, new)
           THEN Replaced(op[p].r, new)
           ELSE UNCHANGED requests
    /\ Done(p)
    /\ UNCHANGED <<attempts, ext, late, posts, deletes, faults>>

(***************************************************************************)
(* cancel_request.                                                         *)
(***************************************************************************)
Cancellable(r) ==
    /\ Active(r)
    /\ requests[r].status \notin {"SUBMITTING", "CANCELLING"}
    /\ requests[r].pid # NoPid
BeginCancel(p, r) ==
    /\ Free(p)
    /\ Cancellable(r)
    /\ Next_(p, Reading("cancel", r))
    /\ UNCHANGED <<requests, attempts, ext, late, posts, deletes, faults>>

IntendCancel(p) ==
    /\ At(p, "cancel")
    /\ LET new == [op[p].seen EXCEPT !.status = "CANCELLING"]
       IN  IF /\ new.status \in Allowed(op[p].seen.status)
              /\ Replaceable(op[p].r, op[p].seen, new)
           THEN /\ Replaced(op[p].r, new)
                /\ Next_(p, Doing("delete", op[p].r, new, NoAttempt, NoAnswer))
           ELSE Done(p) /\ UNCHANGED requests
    /\ UNCHANGED <<attempts, ext, late, posts, deletes, faults>>

Deleted(r) == deletes' = [deletes EXCEPT ![r] = @ + 1]

\* The DELETE is answered: the provider's request is gone.
DeleteAnswered(p) ==
    /\ At(p, "delete")
    /\ LET i == op[p].seen.pid
       IN  IF ext[i].status \in ExtStatuses
           THEN /\ ext' = [ext EXCEPT ![i].status = "DELETED"]
                /\ Next_(p, Told(p, "deleted", i, "CANCELLED"))
           ELSE Done(p) /\ UNCHANGED ext
    /\ Deleted(op[p].r)
    /\ UNCHANGED <<requests, attempts, late, posts, faults>>

DeleteLostMutant(p) ==
    /\ At(p, "delete")
    /\ Fault
    /\ requests[op[p].r] = op[p].seen
    /\ Replaced(op[p].r, [op[p].seen EXCEPT !.status = "CANCELLED"])
    /\ Deleted(op[p].r)
    /\ Done(p)
    /\ UNCHANGED <<attempts, ext, late, posts>>

\* The answer is lost, with or without an effect.  The request stays CANCELLING.
DeleteLost(p) ==
    /\ At(p, "delete")
    /\ Fault
    /\ \/ /\ ext[op[p].seen.pid].status \in ExtStatuses
          /\ ext' = [ext EXCEPT ![op[p].seen.pid].status = "DELETED"]
       \/ UNCHANGED ext
    /\ Deleted(op[p].r)
    /\ Done(p)
    /\ UNCHANGED <<requests, attempts, late, posts>>

SaveCancelled(p) ==
    /\ At(p, "deleted")
    /\ LET new == [op[p].seen EXCEPT !.status = op[p].ans.status]
       IN  IF /\ new.status \in Allowed(op[p].seen.status)
              /\ Replaceable(op[p].r, op[p].seen, new)
           THEN Replaced(op[p].r, new)
           ELSE UNCHANGED requests
    /\ Done(p)
    /\ UNCHANGED <<attempts, ext, late, posts, deletes, faults>>

(***************************************************************************)
(* delete of the repository: refused once there is an attempt.             *)
(***************************************************************************)
DeletableMutant(r) == Present(r)

Deletable(r) == Present(r) /\ attempts[r].phase = "NONE"

Delete(r) ==
    /\ Deletable(r)
    /\ Replaced(r, [status |-> "DELETED", pid |-> NoPid])
    /\ UNCHANGED <<attempts, ext, late, posts, deletes, op, faults>>

(***************************************************************************)
(* The provider works on a request; it may report any later status.        *)
(***************************************************************************)
ExtAdvances(i) ==
    /\ ext[i].status \in ExtOpen
    /\ \E s \in ExtLater : s # ext[i].status /\ ext' = [ext EXCEPT ![i].status = s]
    /\ UNCHANGED <<requests, attempts, late, posts, deletes, op, faults>>

(***************************************************************************)
(* A process dies or a call raises; the machine loses power.               *)
(***************************************************************************)
Fail(p) ==
    /\ ~Free(p)
    /\ Fault
    /\ Done(p)
    /\ UNCHANGED <<requests, attempts, ext, late, posts, deletes>>

PowerLoss ==
    /\ Fault
    /\ JournalAfterPowerLoss
    /\ op' = [p \in Procs |-> Idle]
    /\ UNCHANGED <<requests, attempts, ext, late, posts, deletes>>

(***************************************************************************)
(* The specification.                                                      *)
(***************************************************************************)
Starts(p, r) == BeginSubmit(p, r) \/ BeginRefresh(p, r) \/ BeginCancel(p, r)

Continues(p) ==
    \/ Intend(p) \/ IntentRefused(p) \/ PostAnswered(p) \/ SaveAnswer(p) \/ ObserveReceipt(p)
    \/ Recover(p) \/ Verify(p) \/ VerifyRefused(p) \/ AskStatus(p) \/ Apply(p) \/ Ready(p) \/ MarkAvailable(p)
    \/ IntendCancel(p) \/ DeleteAnswered(p) \/ SaveCancelled(p)

Misdelivered(p) == PostMerged(p) \/ PostLost(p) \/ DeleteLost(p) \/ Fail(p)

\* A delivery fails: a torn line, or the process dies.
DeliveryFault(d) ==
    /\ ShortWrite(d) \/ DeliveryFails(d)
    /\ Fault
    /\ UNCHANGED <<requests, attempts, ext, late, posts, deletes, op>>

RequestStep ==
    \/ \E r \in Requests : Create(r) \/ LateArrives(r) \/ Delete(r)
    \/ \E p \in Procs, r \in Requests : Starts(p, r) \/ BeginRecover(p, r)
    \/ \E p \in Procs : Continues(p) \/ Misdelivered(p)
    \/ \E i \in Pids : ExtAdvances(i)

DeliveryStep ==
    \/ \E d \in Drainers : Deliver(d)
    \/ \E d \in Drainers, e \in Events : Pick(d, e)

Next ==
    \/ RequestStep /\ UNCHANGED eventVars
    \/ DeliveryStep /\ UNCHANGED requestVars
    \/ \E p \in Procs : Bind(p)
    \/ \E d \in Drainers : DeliveryFault(d)
    \/ PowerLoss

\* A call under way goes on, and the scheduled pass comes back to every
\* receipt and every undelivered event.  For events and receipts this assumes
\* a backlog that fits a batch or is stable: the rotation by minutes promises
\* no more (docs/operations/SCHEDULED_SUBMISSION_RECOVERY.md).
Fairness ==
    /\ \A p \in Procs : /\ WF_vars(Continues(p) /\ UNCHANGED eventVars)
                        /\ WF_vars(Bind(p))
    /\ \A r \in Requests : SF_vars((\E p \in Procs : BeginRecover(p, r)) /\ UNCHANGED eventVars)
    /\ \A d \in Drainers : WF_vars(Deliver(d) /\ UNCHANGED requestVars)
    /\ \A e \in Events : SF_vars((\E d \in Drainers : Pick(d, e)) /\ UNCHANGED requestVars)

Spec == Init /\ [][Next]_vars /\ Fairness

(***************************************************************************)
(* Properties.                                                             *)
(***************************************************************************)
\* Registry, provider, calls and outbox hold what the code can write.
TypeOK ==
    /\ EventsTypeOK
    /\ requests \in [Requests -> Request]
    /\ attempts \in [Requests -> Attempt]
    /\ ext \in [Pids -> {Unused} \cup ExtRequest]
    /\ late \subseteq Requests
    /\ posts \in [Requests -> 0..MaxPosts]
    /\ deletes \in [Requests -> Nat]
    /\ op \in [Procs -> {Idle} \cup Call]
    /\ faults \in 0..MaxFaults

\* Every document that is written passes the check of _extra_fields that the
\* next load makes: an attempt has its request, unbound ones are SUBMITTING
\* without provider id, bound ones carry their receipt.  Otherwise no process
\* could read the registry any more.
RegistryLoads ==
    \A r \in Requests :
        /\ attempts[r].phase # "NONE" => Present(r)
        /\ attempts[r].phase \in {"POST_STARTED", "RECEIPT_OBSERVED"} =>
              requests[r] = [status |-> "SUBMITTING", pid |-> NoPid]
        /\ attempts[r].phase = "BOUND" =>
              requests[r].pid = attempts[r].receipt /\ requests[r].status # "SUBMITTING"
        /\ attempts[r].phase \in {"NONE", "POST_STARTED"} <=> attempts[r].receipt = NoPid

\* The provider is asked to create and to delete a request at most once each:
\* an unknown outcome is never retried (ADR-0016), by whichever process.
MutatedOnce == \A r \in Requests : posts[r] <= 1 /\ deletes[r] <= 1

\* A provider id has one owner, and so has a receipt, even when the provider
\* names one request twice.
OneOwner ==
    \A q, r \in Requests : q # r =>
        /\ requests[q].pid # NoPid => requests[q].pid # requests[r].pid
        /\ attempts[q].receipt # NoPid => attempts[q].receipt # attempts[r].receipt

\* No two requests whose targets overlap are active, whatever has been
\* refreshed, cancelled or left in an unknown state since they were created.
ActiveTargetsDisjoint ==
    \A q, r \in Requests : q # r /\ Active(q) /\ Active(r) => Covers[q] \cap Covers[r] = {}

\* The provider never works on two requests for one target: neither for two
\* requests of the registry nor twice for one, however late a lost submission
\* arrives and whatever a lost cancellation has done.
NoDuplicateAcquisition ==
    \A i, j \in Pids :
        /\ i # j
        /\ ext[i].status \in ExtOpen
        /\ ext[j].status \in ExtOpen
        /\ Present(ext[i].owner)
        /\ Present(ext[j].owner)
        => Covers[ext[i].owner] \cap Covers[ext[j].owner] = {}

\* How far a record is in the life of a request.
Progress(q) ==
    CASE q.status = "NONE"       -> 0
      [] q.status = "PENDING"    -> IF q.pid = NoPid THEN 1 ELSE 3
      [] q.status = "SUBMITTING" -> 2
      [] q.status \in Stages     -> 3 + Stage(q.status)
      [] q.status = "CANCELLING" -> 9
      [] q.status \in Terminal   -> 10
      [] OTHER                   -> 11

\* No request goes back: an answer of the provider that was read before another
\* process refreshed, cancelled or bound the request does not overwrite that.
NeverBackwards ==
    [][\A r \in Requests :
          /\ Progress(requests'[r]) >= Progress(requests[r])
          /\ requests[r].status \in Terminal =>
                requests'[r] = requests[r] \/ requests'[r].status = "DELETED"]_vars

\* A recovery of r was refused for its routing or its profile.
RecoveryRefused(r) == \E p \in Procs : VerifyRefused(p) /\ op[p].r = r

\* A receipt of the request's own is bound in the end, through crashes, lost
\* calls and power losses, once its routing and profile are no longer refused.
\* Exceptions: one that is refused again and again stays unverified, for ever
\* if need be; and so does one whose provider id another request holds (the
\* legacy path does not look at receipts).
ReceiptsBound ==
    \A r \in Requests :
        <>[][~RecoveryRefused(r)]_vars =>
        ((/\ attempts[r].phase = "RECEIPT_OBSERVED"
          /\ ext[attempts[r].receipt].owner = r)
         ~> (\/ attempts[r].phase = "BOUND"
             \/ Taken(attempts[r].receipt, r)))

\* Every event of a bound submission is delivered, or the journal is torn.
\* The journal has room and no line of another publisher that publish() rejects
\* (size, JSON, file mode): such a journal refuses every event until repaired.
EventsDelivered == \A e \in Events : outbox[e] = "pending" ~> (outbox[e] = "delivered" \/ torn)
=============================================================================
