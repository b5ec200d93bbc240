---------------------------- MODULE TaskScheduler ----------------------------
(***************************************************************************)
(* The scheduler's state file (atlas/scheduler.py).  One runtime at a time *)
(* executes the due tasks (SchedulerLocks) and saves each change with a    *)
(* load and a save of the whole file; the `register`, `remove` and `sync`  *)
(* commands do the same without taking the runtime lock.  A load and a     *)
(* save are two steps, so either side can overwrite what the other wrote.  *)
(* A runtime can die at any step, and the callback it has started may      *)
(* outlive it; and an exception that _execute() does not catch ends the    *)
(* whole pass, with the tasks behind it left for the next one.             *)
(***************************************************************************)
EXTENDS Integers, Sequences

CONSTANTS
    Tasks,
    Installed,     \* tasks the installation has registered
    Editors,       \* register / remove / sync commands
    Interval,      \* task -> interval_seconds
    Place,         \* task -> its place in the order of the names
    HistoryLimit,  \* HISTORY_LIMIT
    MaxEdits,      \* bound on the number of commands, forced runs included
    MaxCrashes,    \* bound on the number of runtimes that die
    MaxClock,      \* bound on the clock
    None

ASSUME SchedulerConstants ==
    /\ Interval \in [Tasks -> Nat]
    /\ Place \in [Tasks -> Nat]
    /\ \A s, t \in Tasks : Place[s] = Place[t] => s = t
    /\ HistoryLimit \in Nat \ {0} /\ MaxClock \in Nat
    /\ Installed \subseteq Tasks

Never == -1

VARIABLES
    file,       \* the saved document
    runtime,    \* the process that holds the runtime lock
    editors,    \* editor -> the command it is executing
    orphans,    \* tasks whose callback outlived its runtime
    succeeded,  \* task -> when a runtime last saw its callback end well
    removed,    \* tasks whose removal was the last command on them
    clock, edits, crashes

vars == <<file, runtime, editors, orphans, succeeded, removed, clock, edits, crashes>>

Stamp == {Never} \cup 0..MaxClock

\* A row that a record of a missing task creates has no interval and no
\* callback.  Any other text is accepted as a callback, also a "malformed" one
\* that shlex.split() rejects.
Row == [callback : {"none", "good", "malformed"}, enabled : BOOLEAN, success : Stamp,
        status : {"never_run", "running", "healthy", "degraded"}]

Entry == [task : Tasks, ok : BOOLEAN]

Document == [tasks : UNION {[ts -> Row] : ts \in SUBSET Tasks},
             history : {h \in Seq(Entry) : Len(h) <= HistoryLimit}]

NewRow == [callback |-> "none", enabled |-> TRUE, success |-> Never, status |-> "never_run"]

EmptyDocument == [tasks |-> [t \in {} |-> None], history |-> <<>>]

RuntimeOff == [at |-> "off", todo |-> {}, bad |-> {}, task |-> None, ok |-> FALSE, ended |-> Never,
               mem |-> EmptyDocument]

EditorOff == [at |-> "off", task |-> None, callback |-> "none", enabled |-> FALSE,
              mem |-> EmptyDocument]

Editor == [at : {"off", "register", "remove"}, task : Tasks \cup {None},
           callback : {"none", "good", "malformed"}, enabled : BOOLEAN, mem : Document]

\* bad: those of todo whose callback was no command when the list was made.
Runtime == [at : {"off", "next", "start", "callback", "record", "recording",
                  "history", "appending", "raised"},
            todo : SUBSET Tasks, bad : SUBSET Tasks, task : Tasks \cup {None}, ok : BOOLEAN,
            ended : Stamp, mem : Document]

TypeOK ==
    /\ file \in Document
    /\ runtime \in Runtime
    /\ editors \in [Editors -> Editor]
    /\ orphans \subseteq Tasks /\ removed \subseteq Tasks
    /\ succeeded \in [Tasks -> Stamp]
    /\ clock \in 0..MaxClock /\ edits \in Nat /\ crashes \in Nat

Init ==
    /\ \E cb \in [Installed -> {"good", "malformed"}] :
          file = [tasks |-> [t \in Installed |-> [NewRow EXCEPT !.callback = cb[t]]], history |-> <<>>]
    /\ runtime = RuntimeOff
    /\ editors = [e \in Editors |-> EditorOff]
    /\ orphans = {} /\ removed = {}
    /\ succeeded = [t \in Tasks |-> Never]
    /\ clock = 0 /\ edits = 0 /\ crashes = 0

-----------------------------------------------------------------------------
Recorded(t) == t \in DOMAIN file.tasks

RowOf(d, t) == IF t \in DOMAIN d.tasks THEN d.tasks[t] ELSE NewRow

WithRow(d, t, row) ==
    [d EXCEPT !.tasks = [k \in DOMAIN d.tasks \cup {t} |-> IF k = t THEN row ELSE d.tasks[k]]]

WithoutRow(d, t) == [d EXCEPT !.tasks = [k \in DOMAIN d.tasks \ {t} |-> d.tasks[k]]]

\* _task_due(): the last success decides, whatever the status says.
Due(t) ==
    /\ Recorded(t)
    /\ file.tasks[t].callback # "none" /\ file.tasks[t].enabled
    /\ \/ file.tasks[t].success = Never
       \/ clock - file.tasks[t].success >= Interval[t]

Advance(rt) ==
    /\ runtime' = rt
    /\ UNCHANGED <<editors, orphans, removed, clock, edits, crashes>>

Unparsable(ts) == {t \in ts : file.tasks[t].callback # "good"}

Pass(ts) == [runtime EXCEPT !.at = "next", !.todo = ts, !.bad = Unparsable(ts)]

\* Mutant: a task marked as running is taken to be executing still.
RunDueMutant ==
    /\ runtime.at = "off"
    /\ Advance(Pass({t \in Tasks : Due(t) /\ file.tasks[t].status # "running"}))
    /\ UNCHANGED <<file, succeeded>>

\* run_due_tasks(): the list is made once, with the callbacks it names.
RunDue ==
    /\ runtime.at = "off"
    /\ Advance(Pass({t \in Tasks : Due(t)}))
    /\ UNCHANGED <<file, succeeded>>

\* run_task() forces a task that is enabled, due or not.
RunTask(t) ==
    /\ runtime.at = "off" /\ edits < MaxEdits
    /\ Recorded(t) /\ file.tasks[t].enabled
    /\ runtime' = Pass({t})
    /\ edits' = edits + 1
    /\ UNCHANGED <<file, editors, orphans, succeeded, removed, clock, crashes>>

RuntimeDone ==
    /\ runtime.at = "next" /\ runtime.todo = {}
    /\ Advance(RuntimeOff)
    /\ UNCHANGED <<file, succeeded>>

\* list_tasks() sorts by name, and _execute() takes one after the other.
Turn(t) ==
    /\ runtime.at = "next" /\ t \in runtime.todo
    /\ \A s \in runtime.todo : Place[t] <= Place[s]

\* An exception in the execution of t: the lock is left, nothing is recorded.
Raise(t) ==
    /\ Advance([runtime EXCEPT !.at = "raised", !.task = t, !.mem = EmptyDocument])
    /\ UNCHANGED <<file, succeeded>>

\* No callback, or ValueError of shlex.split(), before anything is recorded.
NoCommand(t) == Turn(t) /\ t \in runtime.bad /\ Raise(t)

PassAborts ==
    /\ runtime.at = "raised"
    /\ Advance(RuntimeOff)
    /\ UNCHANGED <<file, succeeded>>

\* started() loads ...
StartLoad(t) ==
    /\ Turn(t) /\ t \notin runtime.bad
    /\ Advance([runtime EXCEPT !.at = "start", !.task = t, !.todo = @ \ {t}, !.mem = file])
    /\ UNCHANGED <<file, succeeded>>

Started(d, t) == WithRow(d, t, [RowOf(d, t) EXCEPT !.status = "running"])

\* ... and saves; then the callback starts.
StartSave ==
    /\ runtime.at = "start"
    /\ file' = Started(runtime.mem, runtime.task)
    /\ Advance([runtime EXCEPT !.at = "callback", !.mem = EmptyDocument])
    /\ UNCHANGED succeeded

CallbackEnds(ok) ==
    /\ runtime.at = "callback"
    /\ Advance([runtime EXCEPT !.at = "record", !.ok = ok, !.ended = clock])
    /\ succeeded' = IF ok THEN [succeeded EXCEPT ![runtime.task] = clock] ELSE succeeded
    /\ UNCHANGED file

\* subprocess.run() raises something other than OSError, UnicodeDecodeError for
\* the output of a callback that has ended, say: no outcome, no history, and
\* the task stays marked as running.
CallbackRaises == runtime.at = "callback" /\ Raise(runtime.task)

RecordLoad ==
    /\ runtime.at = "record"
    /\ Advance([runtime EXCEPT !.at = "recording", !.mem = file])
    /\ UNCHANGED <<file, succeeded>>

\* Mutant: a failed execution moves the last success too.
OutcomeMutant(row) ==
    [row EXCEPT !.status = IF runtime.ok THEN "healthy" ELSE "degraded", !.success = runtime.ended]

\* succeeded() and failed().
Outcome(row) ==
    IF runtime.ok THEN [row EXCEPT !.status = "healthy", !.success = runtime.ended]
                  ELSE [row EXCEPT !.status = "degraded"]

RecordSave ==
    /\ runtime.at = "recording"
    /\ file' = WithRow(runtime.mem, runtime.task, Outcome(RowOf(runtime.mem, runtime.task)))
    /\ Advance([runtime EXCEPT !.at = "history", !.mem = EmptyDocument])
    /\ UNCHANGED succeeded

HistoryLoad ==
    /\ runtime.at = "history"
    /\ Advance([runtime EXCEPT !.at = "appending", !.mem = file])
    /\ UNCHANGED <<file, succeeded>>

Bounded(s) == IF Len(s) <= HistoryLimit THEN s ELSE SubSeq(s, Len(s) - HistoryLimit + 1, Len(s))

HistorySave ==
    /\ runtime.at = "appending"
    /\ file' = [runtime.mem EXCEPT !.history =
                   Bounded(Append(@, [task |-> runtime.task, ok |-> runtime.ok]))]
    /\ Advance([RuntimeOff EXCEPT !.at = "next", !.todo = runtime.todo, !.bad = runtime.bad])
    /\ UNCHANGED succeeded

\* The runtime dies, or a save fails and ends the pass; a callback it waits for goes on without it.
Crash ==
    /\ runtime.at # "off" /\ crashes < MaxCrashes
    /\ crashes' = crashes + 1
    /\ runtime' = RuntimeOff
    /\ orphans' = IF runtime.at = "callback" THEN orphans \cup {runtime.task} ELSE orphans
    /\ UNCHANGED <<file, editors, succeeded, removed, clock, edits>>

OrphanEnds(t) ==
    /\ t \in orphans
    /\ orphans' = orphans \ {t}
    /\ UNCHANGED <<file, runtime, editors, succeeded, removed, clock, edits, crashes>>

-----------------------------------------------------------------------------
(* register() and remove(): no lock.                                       *)

EditLoad(e, command, t, callback, enabled) ==
    /\ editors[e].at = "off" /\ edits < MaxEdits
    /\ edits' = edits + 1
    /\ editors' = [editors EXCEPT ![e] =
                      [at |-> command, task |-> t, callback |-> callback,
                       enabled |-> enabled, mem |-> file]]
    /\ UNCHANGED <<file, runtime, orphans, succeeded, removed, clock, crashes>>

EditDone(e) ==
    /\ editors' = [editors EXCEPT ![e] = EditorOff]
    /\ UNCHANGED <<runtime, orphans, succeeded, clock, edits, crashes>>

RegisterSave(e) ==
    LET c == editors[e]
    IN  /\ c.at = "register"
        /\ file' = WithRow(c.mem, c.task,
                           [RowOf(c.mem, c.task) EXCEPT !.callback = c.callback,
                                                        !.enabled = c.enabled])
        /\ removed' = removed \ {c.task}
        /\ EditDone(e)

RemoveSave(e) ==
    LET c == editors[e]
    IN  /\ c.at = "remove"
        /\ IF c.task \in DOMAIN c.mem.tasks
             THEN file' = WithoutRow(c.mem, c.task) /\ removed' = removed \cup {c.task}
             ELSE UNCHANGED <<file, removed>>
        /\ EditDone(e)

Tick ==
    /\ clock < MaxClock
    /\ clock' = clock + 1
    /\ UNCHANGED <<file, runtime, editors, orphans, succeeded, removed, edits, crashes>>

RuntimeStep ==
    \/ RunDue \/ RuntimeDone \/ PassAborts
    \/ \E t \in Tasks : StartLoad(t) \/ NoCommand(t)
    \/ StartSave \/ CallbackRaises
    \/ \E ok \in BOOLEAN : CallbackEnds(ok)
    \/ RecordLoad \/ RecordSave \/ HistoryLoad \/ HistorySave

Next ==
    \/ RuntimeStep
    \/ \E t \in Tasks : RunTask(t) \/ OrphanEnds(t)
    \/ Crash
    \/ \E e \in Editors : RegisterSave(e) \/ RemoveSave(e)
    \/ \E e \in Editors, t \in Tasks, callback \in {"good", "malformed"}, enabled \in BOOLEAN :
          EditLoad(e, "register", t, callback, enabled)
    \/ \E e \in Editors, t \in Tasks : EditLoad(e, "remove", t, "none", FALSE)
    \/ Tick

\* The timer starts a runtime every minute and a runtime goes on with its
\* work.  The callback is trusted to end: subprocess.run has no timeout.
Fairness == WF_vars(RuntimeStep)

Spec == Init /\ [][Next]_vars /\ Fairness

-----------------------------------------------------------------------------
(* Properties.                                                             *)

\* The recorded last success is never later than a callback that really
\* ended well, whatever was interrupted or overwritten.
NoSyntheticSuccess ==
    \A t \in DOMAIN file.tasks : file.tasks[t].success <= succeeded[t]

\* The pass of t is ended by an exception in the execution of t itself or of a
\* task whose name comes before it.
StoppedAhead(t) == runtime.at = "raised" /\ Place[runtime.task] <= Place[t]

\* A due task is executed again, also when its last execution died or raised
\* and left it marked as running, unless a command or a lost update takes it
\* away or an exception ahead of it ends the pass.  A task whose callback is
\* malformed, or raises every time, ends every pass there: nothing behind it
\* is tried, and nothing in the code bounds that.
DueIsTried ==
    \A t \in Tasks :
        Due(t) ~> \/ ~Due(t)
                  \/ runtime.at = "callback" /\ runtime.task = t
                  \/ StoppedAhead(t)

\* What the documentation of remove() says: the definition and the runtime
\* state of a removed task are gone.
RemovedStaysRemoved == \A t \in removed : ~Recorded(t)

\* What the recovery document rests on: no recorded success is taken back.
SuccessNotRolledBack ==
    [][\A t \in DOMAIN file.tasks \cap DOMAIN file'.tasks :
          file'.tasks[t].success >= file.tasks[t].success]_vars

\* What the recovery document promises: no overlapping execution after an
\* interruption.
NoOverlappingExecution == runtime.at = "callback" => runtime.task \notin orphans
=============================================================================
