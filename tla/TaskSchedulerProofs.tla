------------------------- MODULE TaskSchedulerProofs -------------------------
(***************************************************************************)
(* The scheduler's file never names a success that did not happen, for any *)
(* tasks, any number of commands without a lock and any crashes.           *)
(* NoSyntheticSuccess is about the saved file; the documents that a        *)
(* runtime or a command has loaded and not saved yet are as old as its     *)
(* load, so the invariant says the same of each of them.                   *)
(***************************************************************************)
EXTENDS TaskScheduler, TLAPS

Honest(d) == \A t \in DOMAIN d.tasks : d.tasks[t].success <= succeeded[t]

Executing == {"start", "callback", "record", "recording", "history", "appending"}

\* A loaded document is honest as long as it is held; the outcome that waits
\* to be recorded is the one of the last callback.
SchedulerInv ==
    /\ TypeOK
    /\ runtime.at \in Executing => runtime.task \in Tasks
    /\ \A e \in Editors : editors[e].at # "off" => editors[e].task \in Tasks
    /\ Honest(file) /\ Honest(runtime.mem)
    /\ \A e \in Editors : Honest(editors[e].mem)
    /\ \A t \in Tasks : succeeded[t] <= clock
    /\ runtime.at \in {"record", "recording"} /\ runtime.ok
          => runtime.ended <= succeeded[runtime.task]

\* What a document is made of.
LEMMA DocumentParts ==
    ASSUME NEW d \in Document
    PROVE  /\ d = [tasks |-> d.tasks, history |-> d.history]
           /\ DOMAIN d.tasks \subseteq Tasks /\ d.tasks \in [DOMAIN d.tasks -> Row]
           /\ d.history \in Seq(Entry) /\ Len(d.history) <= HistoryLimit
  BY DEF Document

\* A function from tasks to rows and a bounded history are a document.
LEMMA DocumentMade ==
    ASSUME NEW D \in SUBSET Tasks, NEW f \in [D -> Row],
           NEW h \in Seq(Entry), Len(h) <= HistoryLimit
    PROVE  [tasks |-> f, history |-> h] \in Document
  BY DEF Document

\* The empty document of load() on a missing file.
LEMMA EmptyIsDocument == EmptyDocument \in Document /\ Honest(EmptyDocument)
<1>1. (<<>>) \in Seq(Entry) /\ Len(<<>>) <= HistoryLimit
  BY SchedulerConstants
<1>2. [t \in {} |-> None] \in [{} -> Row]
  OBVIOUS
<1>3. EmptyDocument \in Document
  BY <1>1, <1>2, DocumentMade DEF EmptyDocument
<1> QED
  BY <1>3 DEF EmptyDocument, Honest

\* The row that _task() creates for an unknown task.
LEMMA RowsTyped ==
    ASSUME NEW d \in Document, NEW t \in Tasks
    PROVE  RowOf(d, t) \in Row
<1>1. NewRow \in Row
  BY DEF NewRow, Row, Stamp, Never
<1> QED
  BY <1>1, DocumentParts DEF RowOf

\* Saving one row keeps the others.
LEMMA WithRowDocument ==
    ASSUME NEW d \in Document, NEW t \in Tasks, NEW row \in Row
    PROVE  /\ WithRow(d, t, row) \in Document
           /\ DOMAIN WithRow(d, t, row).tasks = DOMAIN d.tasks \cup {t}
           /\ \A k \in DOMAIN d.tasks \cup {t} :
                 WithRow(d, t, row).tasks[k] = IF k = t THEN row ELSE d.tasks[k]
<1> DEFINE f == [k \in DOMAIN d.tasks \cup {t} |-> IF k = t THEN row ELSE d.tasks[k]]
<1>1. DOMAIN d.tasks \cup {t} \in SUBSET Tasks
  BY DocumentParts
<1>2. f \in [DOMAIN d.tasks \cup {t} -> Row]
  BY DocumentParts
<1>3. WithRow(d, t, row) = [tasks |-> f, history |-> d.history]
  BY DocumentParts DEF WithRow
<1>4. [tasks |-> f, history |-> d.history] \in Document
  BY <1>1, <1>2, DocumentParts, DocumentMade
<1>5. DOMAIN f = DOMAIN d.tasks \cup {t}
      /\ \A k \in DOMAIN d.tasks \cup {t} : f[k] = IF k = t THEN row ELSE d.tasks[k]
  OBVIOUS
<1> HIDE DEF f
<1> QED
  BY <1>3, <1>4, <1>5

\* Removing one row keeps the others.
LEMMA WithoutRowDocument ==
    ASSUME NEW d \in Document, NEW t \in Tasks
    PROVE  /\ WithoutRow(d, t) \in Document
           /\ DOMAIN WithoutRow(d, t).tasks = DOMAIN d.tasks \ {t}
           /\ \A k \in DOMAIN d.tasks \ {t} : WithoutRow(d, t).tasks[k] = d.tasks[k]
<1> DEFINE f == [k \in DOMAIN d.tasks \ {t} |-> d.tasks[k]]
<1>1. DOMAIN d.tasks \ {t} \in SUBSET Tasks
  BY DocumentParts
<1>2. f \in [DOMAIN d.tasks \ {t} -> Row]
  BY DocumentParts
<1>3. WithoutRow(d, t) = [tasks |-> f, history |-> d.history]
  BY DocumentParts DEF WithoutRow
<1>4. [tasks |-> f, history |-> d.history] \in Document
  BY <1>1, <1>2, DocumentParts, DocumentMade
<1>5. DOMAIN f = DOMAIN d.tasks \ {t} /\ \A k \in DOMAIN d.tasks \ {t} : f[k] = d.tasks[k]
  OBVIOUS
<1> HIDE DEF f
<1> QED
  BY <1>3, <1>4, <1>5

\* The history keeps its last HistoryLimit entries.
LEMMA BoundedHistory ==
    ASSUME NEW s \in Seq(Entry)
    PROVE  Bounded(s) \in Seq(Entry) /\ Len(Bounded(s)) <= HistoryLimit
<1>1. CASE Len(s) <= HistoryLimit
  BY <1>1 DEF Bounded
<1>2. CASE ~ (Len(s) <= HistoryLimit)
  <2>1. Len(s) \in Nat /\ HistoryLimit \in Nat /\ HistoryLimit > 0
    BY SchedulerConstants
  <2>2. Bounded(s) = SubSeq(s, Len(s) - HistoryLimit + 1, Len(s))
    BY <1>2 DEF Bounded
  <2>3. Len(s) - HistoryLimit + 1 \in 1..Len(s)
    BY <1>2, <2>1
  <2>4. SubSeq(s, Len(s) - HistoryLimit + 1, Len(s)) \in Seq(Entry)
    BY <2>1, <2>3
  <2>5. Len(SubSeq(s, Len(s) - HistoryLimit + 1, Len(s))) = HistoryLimit
    BY <2>1, <2>3
  <2> QED
    BY <2>1, <2>2, <2>4, <2>5
<1> QED
  BY <1>1, <1>2

-----------------------------------------------------------------------------
(* The steps that only move the runtime, and keep the file.                *)

\* A runtime that starts, ends, picks a task or loads the file keeps the
\* invariant: what it loads is the honest file.
LEMMA AdvanceKeeps ==
    ASSUME SchedulerInv, UNCHANGED <<file, succeeded>>, NEW rt, Advance(rt),
           rt \in Runtime,
           rt.mem = file \/ rt.mem = runtime.mem \/ rt.mem = EmptyDocument,
           rt.at \in Executing => rt.task \in Tasks,
           rt.at \in {"record", "recording"} =>
              runtime.at \in {"record", "recording"}
              /\ rt.ok = runtime.ok /\ rt.ended = runtime.ended /\ rt.task = runtime.task
    PROVE  SchedulerInv'
<1>1. TypeOK'
  BY DEF SchedulerInv, TypeOK, Runtime, Advance
<1>2. Honest(file)' /\ Honest(runtime.mem)'
  BY EmptyIsDocument DEF SchedulerInv, Advance, Honest
<1>3. \A e \in Editors : Honest(editors[e].mem)'
  BY DEF SchedulerInv, Advance, Honest
<1> QED
  BY <1>1, <1>2, <1>3 DEF SchedulerInv, Advance

\* A pass remembers which of its tasks have no command.
LEMMA PassTyped ==
    ASSUME SchedulerInv, NEW ts \in SUBSET Tasks
    PROVE  Pass(ts) \in Runtime /\ Pass(ts).mem = runtime.mem /\ Pass(ts).at = "next"
<1>1. Unparsable(ts) \in SUBSET Tasks
  BY DEF Unparsable
<1> QED
  BY <1>1 DEF Pass, SchedulerInv, TypeOK, Runtime

\* run_due() lists the due tasks and changes no document.
LEMMA RunDueKeeps == ASSUME SchedulerInv, RunDue PROVE SchedulerInv'
<1> DEFINE rt == Pass({t \in Tasks : Due(t)})
<1>1. Advance(rt) /\ UNCHANGED <<file, succeeded>>
  BY DEF RunDue
<1>2. rt \in Runtime
      /\ rt.mem = runtime.mem /\ rt.at = "next"
  BY PassTyped
<1> HIDE DEF rt
<1> QED
  BY <1>1, <1>2, AdvanceKeeps DEF Executing

\* A runtime that has no task left forgets what it has read.
LEMMA RuntimeDoneKeeps == ASSUME SchedulerInv, RuntimeDone PROVE SchedulerInv'
<1>1. Advance(RuntimeOff) /\ UNCHANGED <<file, succeeded>>
  BY DEF RuntimeDone
<1>2. RuntimeOff \in Runtime
      /\ RuntimeOff.mem = EmptyDocument /\ RuntimeOff.at = "off"
  BY EmptyIsDocument DEF RuntimeOff, Runtime, Stamp
<1> QED
  BY <1>1, <1>2, AdvanceKeeps DEF Executing

\* An exception leaves the documents alone.
LEMMA RaiseKeeps ==
    ASSUME SchedulerInv, NEW t \in Tasks, Raise(t) PROVE SchedulerInv'
<1> DEFINE rt == [runtime EXCEPT !.at = "raised", !.task = t, !.mem = EmptyDocument]
<1>1. Advance(rt) /\ UNCHANGED <<file, succeeded>>
  BY DEF Raise
<1>2. rt \in Runtime
      /\ rt.mem = EmptyDocument /\ rt.at = "raised"
  BY EmptyIsDocument DEF SchedulerInv, TypeOK, Runtime
<1> HIDE DEF rt
<1> QED
  BY <1>1, <1>2, AdvanceKeeps DEF Executing

\* The pass that raised ends, and the lock is left.
LEMMA PassAbortsKeeps == ASSUME SchedulerInv, PassAborts PROVE SchedulerInv'
<1>1. Advance(RuntimeOff) /\ UNCHANGED <<file, succeeded>>
  BY DEF PassAborts
<1>2. RuntimeOff \in Runtime
      /\ RuntimeOff.mem = EmptyDocument /\ RuntimeOff.at = "off"
  BY EmptyIsDocument DEF RuntimeOff, Runtime, Stamp
<1> QED
  BY <1>1, <1>2, AdvanceKeeps DEF Executing

\* subprocess.run() raises in the execution of a task.
LEMMA CallbackRaisesKeeps == ASSUME SchedulerInv, CallbackRaises PROVE SchedulerInv'
<1>1. runtime.task \in Tasks
  BY DEF SchedulerInv, CallbackRaises, Executing
<1> QED
  BY <1>1, RaiseKeeps DEF CallbackRaises

\* _start() reads the file, which is honest.
LEMMA StartLoadKeeps ==
    ASSUME SchedulerInv, NEW t \in Tasks, StartLoad(t) PROVE SchedulerInv'
<1> DEFINE rt == [runtime EXCEPT !.at = "start", !.task = t, !.todo = @ \ {t}, !.mem = file]
<1>1. Advance(rt) /\ UNCHANGED <<file, succeeded>>
  BY DEF StartLoad
<1>2. rt \in Runtime
      /\ rt.mem = file /\ rt.at = "start" /\ rt.task = t
  BY DEF SchedulerInv, TypeOK, Runtime
<1> HIDE DEF rt
<1> QED
  BY <1>1, <1>2, AdvanceKeeps DEF Executing

\* _record() reads the file before it writes an outcome.
LEMMA RecordLoadKeeps == ASSUME SchedulerInv, RecordLoad PROVE SchedulerInv'
<1> DEFINE rt == [runtime EXCEPT !.at = "recording", !.mem = file]
<1>1. Advance(rt) /\ UNCHANGED <<file, succeeded>> /\ runtime.at = "record"
  BY DEF RecordLoad
<1>2. rt \in Runtime
      /\ rt.mem = file /\ rt.at = "recording" /\ rt.task = runtime.task
      /\ rt.ok = runtime.ok /\ rt.ended = runtime.ended
  BY DEF SchedulerInv, TypeOK, Runtime
<1>3. runtime.task \in Tasks
  BY <1>1 DEF SchedulerInv, Executing
<1> HIDE DEF rt
<1> QED
  BY <1>1, <1>2, <1>3, AdvanceKeeps

\* The history entry is appended to what was read last.
LEMMA HistoryLoadKeeps == ASSUME SchedulerInv, HistoryLoad PROVE SchedulerInv'
<1> DEFINE rt == [runtime EXCEPT !.at = "appending", !.mem = file]
<1>1. Advance(rt) /\ UNCHANGED <<file, succeeded>> /\ runtime.at = "history"
  BY DEF HistoryLoad
<1>2. rt \in Runtime
      /\ rt.mem = file /\ rt.at = "appending" /\ rt.task = runtime.task
  BY DEF SchedulerInv, TypeOK, Runtime
<1>3. runtime.task \in Tasks
  BY <1>1 DEF SchedulerInv, Executing
<1> HIDE DEF rt
<1> QED
  BY <1>1, <1>2, <1>3, AdvanceKeeps

-----------------------------------------------------------------------------
(* The steps that save, and the end of a callback.                         *)

\* Any process that saves a document it holds, changed in one honest row or
\* in its history, leaves an honest file.
LEMMA SavesHonest ==
    ASSUME SchedulerInv, NEW d \in Document, Honest(d), NEW t \in Tasks,
           NEW row \in Row, row.success <= succeeded[t]
    PROVE  WithRow(d, t, row) \in Document /\ Honest(WithRow(d, t, row))
<1>1. DOMAIN WithRow(d, t, row).tasks = DOMAIN d.tasks \cup {t}
  BY WithRowDocument
<1>2. \A k \in DOMAIN d.tasks \cup {t} :
         WithRow(d, t, row).tasks[k] = IF k = t THEN row ELSE d.tasks[k]
  BY WithRowDocument
<1> QED
  BY <1>1, <1>2, WithRowDocument DEF Honest

\* A row read from an honest document, or a new one, is honest.
LEMMA RowHonest ==
    ASSUME SchedulerInv, NEW d \in Document, Honest(d), NEW t \in Tasks
    PROVE  RowOf(d, t) \in Row /\ RowOf(d, t).success <= succeeded[t]
<1>1. NewRow.success <= succeeded[t]
  BY SchedulerConstants DEF NewRow, Never, SchedulerInv, TypeOK, Stamp
<1> QED
  BY <1>1, RowsTyped DEF RowOf, Honest

\* _start() writes what it has read with one row marked as running.
LEMMA StartSaveKeeps == ASSUME SchedulerInv, StartSave PROVE SchedulerInv'
<1> DEFINE d == runtime.mem
           row == [RowOf(d, runtime.task) EXCEPT !.status = "running"]
<1>1. runtime.task \in Tasks /\ d \in Document /\ Honest(d)
  BY DEF SchedulerInv, TypeOK, Runtime, StartSave, Executing
<1>2. row \in Row /\ row.success <= succeeded[runtime.task]
  BY <1>1, RowHonest DEF Row
<1>3. file' \in Document /\ Honest(file')
  <2>1. file' = WithRow(d, runtime.task, row)
    BY DEF StartSave, Started
  <2> HIDE DEF row, d
  <2> QED
    BY <1>1, <1>2, <2>1, SavesHonest
<1>4. runtime' \in Runtime
      /\ runtime'.mem = EmptyDocument /\ runtime'.at = "callback"
      /\ runtime'.task = runtime.task
  BY EmptyIsDocument DEF SchedulerInv, TypeOK, Runtime, StartSave, Advance
<1>5. UNCHANGED <<editors, orphans, removed, clock, edits, crashes, succeeded>>
  BY DEF StartSave, Advance
<1>6. TypeOK'
  BY <1>3, <1>4, <1>5 DEF SchedulerInv, TypeOK, Runtime
<1>7. Honest(file)' /\ Honest(runtime.mem)' /\ \A e \in Editors : Honest(editors[e].mem)'
  BY <1>3, <1>4, <1>5, EmptyIsDocument DEF SchedulerInv, Honest
<1> QED
  BY <1>1, <1>4, <1>5, <1>6, <1>7 DEF SchedulerInv

\* An outcome raises the last success only when the callback has succeeded.
LEMMA RecordSaveKeeps == ASSUME SchedulerInv, RecordSave PROVE SchedulerInv'
<1> DEFINE d == runtime.mem
           row == Outcome(RowOf(d, runtime.task))
<1>1. runtime.task \in Tasks /\ d \in Document /\ Honest(d)
  BY DEF SchedulerInv, TypeOK, Runtime, RecordSave, Executing
<1>2. row \in Row /\ row.success <= succeeded[runtime.task]
  <2>1. RowOf(d, runtime.task) \in Row /\ RowOf(d, runtime.task).success <= succeeded[runtime.task]
    BY <1>1, RowHonest
  <2>2. runtime.ended \in Stamp /\ (runtime.ok => runtime.ended <= succeeded[runtime.task])
    BY DEF SchedulerInv, TypeOK, Runtime, RecordSave
  <2> QED
    BY <2>1, <2>2 DEF Row, Outcome
<1>3. file' \in Document /\ Honest(file')
  <2>1. file' = WithRow(d, runtime.task, row)
    BY DEF RecordSave
  <2> HIDE DEF row, d
  <2> QED
    BY <1>1, <1>2, <2>1, SavesHonest
<1>4. runtime' \in Runtime
      /\ runtime'.mem = EmptyDocument /\ runtime'.at = "history"
      /\ runtime'.task = runtime.task
  BY EmptyIsDocument DEF SchedulerInv, TypeOK, Runtime, RecordSave, Advance
<1>5. UNCHANGED <<editors, orphans, removed, clock, edits, crashes, succeeded>>
  BY DEF RecordSave, Advance
<1>6. TypeOK'
  BY <1>3, <1>4, <1>5 DEF SchedulerInv, TypeOK, Runtime
<1>7. Honest(file)' /\ Honest(runtime.mem)' /\ \A e \in Editors : Honest(editors[e].mem)'
  BY <1>3, <1>4, <1>5, EmptyIsDocument DEF SchedulerInv, Honest
<1> QED
  BY <1>1, <1>4, <1>5, <1>6, <1>7 DEF SchedulerInv

\* Appending to the history leaves the rows as they were read.
LEMMA HistorySaveKeeps == ASSUME SchedulerInv, HistorySave PROVE SchedulerInv'
<1> DEFINE d == runtime.mem
           entry == [task |-> runtime.task, ok |-> runtime.ok]
<1>1. runtime.task \in Tasks /\ d \in Document /\ Honest(d) /\ entry \in Entry
  BY DEF SchedulerInv, TypeOK, Runtime, HistorySave, Executing, Entry
<1>2. Append(d.history, entry) \in Seq(Entry)
  BY <1>1, DocumentParts
<1>3. file' = [tasks |-> d.tasks, history |-> Bounded(Append(d.history, entry))]
  BY <1>1, DocumentParts DEF HistorySave
<1>4. file' \in Document
  BY <1>1, <1>2, <1>3, DocumentParts, DocumentMade, BoundedHistory
<1>5. Honest(file')
  BY <1>1, <1>3 DEF Honest
<1>6. runtime' \in Runtime
      /\ runtime'.mem = EmptyDocument /\ runtime'.at = "next"
  BY EmptyIsDocument DEF SchedulerInv, TypeOK, Runtime, HistorySave, Advance, RuntimeOff, Stamp
<1>7. UNCHANGED <<editors, orphans, removed, clock, edits, crashes, succeeded>>
  BY DEF HistorySave, Advance
<1>8. TypeOK'
  BY <1>4, <1>6, <1>7 DEF SchedulerInv, TypeOK, Runtime
<1>9. Honest(file)' /\ Honest(runtime.mem)' /\ \A e \in Editors : Honest(editors[e].mem)'
  BY <1>5, <1>6, <1>7, EmptyIsDocument DEF SchedulerInv, Honest
<1> QED
  BY <1>1, <1>6, <1>7, <1>8, <1>9 DEF SchedulerInv, Executing

\* A callback that ends well moves the last success forwards, because no
\* success lies after the clock.
LEMMA CallbackEndsKeeps ==
    ASSUME SchedulerInv, NEW ok \in BOOLEAN, CallbackEnds(ok) PROVE SchedulerInv'
<1>1. runtime.task \in Tasks
  BY DEF SchedulerInv, CallbackEnds, Executing
<1>2. clock \in Stamp /\ clock \in Int
  BY SchedulerConstants DEF SchedulerInv, TypeOK, Runtime, Stamp
<1>3. succeeded' \in [Tasks -> Stamp]
  BY <1>2 DEF SchedulerInv, TypeOK, Runtime, CallbackEnds
<1>4. \A t \in Tasks : succeeded[t] <= succeeded'[t] /\ succeeded'[t] <= clock
  BY <1>2, SchedulerConstants DEF SchedulerInv, TypeOK, Runtime, CallbackEnds, Stamp, Never
<1>5. runtime' \in Runtime
      /\ runtime'.mem = runtime.mem /\ runtime'.at = "record" /\ runtime'.ok = ok
      /\ runtime'.task = runtime.task /\ runtime'.ended = clock
  BY <1>2 DEF SchedulerInv, TypeOK, Runtime, CallbackEnds, Advance
<1>6. ok => succeeded'[runtime.task] = clock
  BY <1>1 DEF SchedulerInv, TypeOK, Runtime, CallbackEnds
<1>7. UNCHANGED <<editors, orphans, removed, clock, edits, crashes, file>>
  BY DEF CallbackEnds, Advance
<1>8. TypeOK'
  BY <1>3, <1>5, <1>7 DEF SchedulerInv, TypeOK, Runtime
<1>9. ASSUME NEW d \in Document, Honest(d)
      PROVE  \A t \in DOMAIN d.tasks : d.tasks[t].success <= succeeded'[t]
  <2> SUFFICES ASSUME NEW t \in DOMAIN d.tasks
               PROVE  d.tasks[t].success <= succeeded'[t]
    OBVIOUS
  <2>1. t \in Tasks /\ d.tasks[t].success \in Stamp
    BY DocumentParts DEF Row
  <2>2. d.tasks[t].success <= succeeded[t] /\ succeeded[t] \in Stamp /\ succeeded'[t] \in Stamp
    BY <1>3, <1>9, <2>1 DEF Honest, SchedulerInv, TypeOK
  <2>3. succeeded[t] <= succeeded'[t]
    BY <1>4, <2>1
  <2> QED
    BY <2>1, <2>2, <2>3, SchedulerConstants DEF Stamp, Never
<1>10. Honest(file)' /\ Honest(runtime.mem)' /\ \A e \in Editors : Honest(editors[e].mem)'
  <2>1. file \in Document /\ runtime.mem \in Document
        /\ \A e \in Editors : editors[e].mem \in Document
    BY DEF SchedulerInv, TypeOK, Editor, Runtime
  <2>2. Honest(file) /\ Honest(runtime.mem) /\ \A e \in Editors : Honest(editors[e].mem)
    BY DEF SchedulerInv
  <2>3. Honest(file)' /\ Honest(runtime.mem)'
    BY <1>5, <1>7, <1>9, <2>1, <2>2 DEF Honest
  <2>4. \A e \in Editors : Honest(editors[e].mem)'
    BY <1>7, <1>9, <2>1, <2>2 DEF Honest
  <2> QED
    BY <2>3, <2>4
<1> QED
  BY <1>1, <1>2, <1>4, <1>5, <1>6, <1>7, <1>8, <1>10 DEF SchedulerInv

\* The runtime dies, or a task is forced: nothing that is held changes.
LEMMA CrashKeeps == ASSUME SchedulerInv, Crash PROVE SchedulerInv'
<1>1. runtime' \in Runtime /\ runtime'.mem = EmptyDocument /\ runtime'.at = "off"
  BY EmptyIsDocument DEF Crash, RuntimeOff, Runtime, Stamp
<1>2. orphans' \subseteq Tasks /\ crashes' \in Nat
  BY DEF SchedulerInv, TypeOK, Crash, Executing
<1>3. UNCHANGED <<file, editors, succeeded, removed, clock, edits>>
  BY DEF Crash
<1>4. TypeOK'
  BY <1>1, <1>2, <1>3 DEF SchedulerInv, TypeOK
<1>5. Honest(file)' /\ Honest(runtime.mem)' /\ \A e \in Editors : Honest(editors[e].mem)'
  BY <1>1, <1>3, EmptyIsDocument DEF SchedulerInv, Honest
<1> QED
  BY <1>1, <1>3, <1>4, <1>5 DEF SchedulerInv, Executing

\* run_task() starts a runtime for the one task it was asked for.
LEMMA RunTaskKeeps ==
    ASSUME SchedulerInv, NEW t \in Tasks, RunTask(t) PROVE SchedulerInv'
<1>1. runtime' \in Runtime /\ runtime'.mem = runtime.mem /\ runtime'.at = "next"
  BY PassTyped DEF RunTask
<1>2. edits' \in Nat /\ UNCHANGED <<file, editors, orphans, succeeded, removed, clock, crashes>>
  BY DEF SchedulerInv, TypeOK, RunTask
<1>3. TypeOK'
  BY <1>1, <1>2 DEF SchedulerInv, TypeOK
<1>4. Honest(file)' /\ Honest(runtime.mem)' /\ \A e \in Editors : Honest(editors[e].mem)'
  BY <1>1, <1>2 DEF SchedulerInv, Honest
<1> QED
  BY <1>1, <1>2, <1>3, <1>4 DEF SchedulerInv, Executing

\* A callback that outlived its runtime ends without writing.
LEMMA OrphanEndsKeeps ==
    ASSUME SchedulerInv, NEW t \in Tasks, OrphanEnds(t) PROVE SchedulerInv'
  BY DEF SchedulerInv, TypeOK, OrphanEnds, Honest

\* Time passes, and every success stays in the past.
LEMMA TickKeeps == ASSUME SchedulerInv, Tick PROVE SchedulerInv'
<1>1. clock' \in 0..MaxClock /\ clock' = clock + 1 /\ clock \in Int
  BY SchedulerConstants DEF SchedulerInv, TypeOK, Tick
<1>2. UNCHANGED <<file, runtime, editors, orphans, succeeded, removed, edits, crashes>>
  BY DEF Tick
<1>3. TypeOK'
  BY <1>1, <1>2 DEF SchedulerInv, TypeOK
<1>4. \A t \in Tasks : succeeded[t] <= clock'
  BY <1>1, SchedulerConstants DEF SchedulerInv, TypeOK, Stamp, Never
<1>5. Honest(file)' /\ Honest(runtime.mem)' /\ \A e \in Editors : Honest(editors[e].mem)'
  BY <1>2 DEF SchedulerInv, Honest
<1> QED
  BY <1>2, <1>3, <1>4, <1>5 DEF SchedulerInv

-----------------------------------------------------------------------------
(* The commands, which hold no lock between their load and their save.     *)

\* register() and remove() read the file without a lock.
LEMMA EditLoadKeeps ==
    ASSUME SchedulerInv, NEW e \in Editors, NEW t \in Tasks, NEW enabled \in BOOLEAN,
           NEW callback \in {"none", "good", "malformed"},
           NEW command \in {"register", "remove"}, EditLoad(e, command, t, callback, enabled)
    PROVE  SchedulerInv'
<1>1. editors' \in [Editors -> Editor]
  BY DEF SchedulerInv, TypeOK, Editor, EditLoad
<1>2. editors'[e].task = t /\ editors'[e].mem = file
      /\ \A x \in Editors \ {e} : editors'[x] = editors[x]
  BY DEF SchedulerInv, TypeOK, EditLoad
<1>3. edits' \in Nat /\ UNCHANGED <<file, runtime, orphans, succeeded, removed, clock, crashes>>
  BY DEF SchedulerInv, TypeOK, EditLoad
<1>4. TypeOK'
  BY <1>1, <1>3 DEF SchedulerInv, TypeOK
<1>5. Honest(file)' /\ Honest(runtime.mem)'
  BY <1>3 DEF SchedulerInv, Honest
<1>6. \A x \in Editors : Honest(editors[x].mem)'
  BY <1>2, <1>3 DEF SchedulerInv, Honest
<1>7. \A x \in Editors : editors'[x].at # "off" => editors'[x].task \in Tasks
  BY <1>2 DEF SchedulerInv
<1> QED
  BY <1>3, <1>4, <1>5, <1>6, <1>7 DEF SchedulerInv

\* A command whose save leaves an honest file keeps the invariant.
LEMMA EditDoneKeeps ==
    ASSUME SchedulerInv, NEW e \in Editors, EditDone(e), file' \in Document, Honest(file'),
           removed' \subseteq Tasks
    PROVE  SchedulerInv'
<1>1. EditorOff \in Editor
      /\ EditorOff.at = "off" /\ EditorOff.mem = EmptyDocument
  BY EmptyIsDocument DEF EditorOff, Editor
<1>2. editors' \in [Editors -> Editor]
  BY <1>1 DEF SchedulerInv, TypeOK, Editor, EditDone
<1>3. editors'[e] = EditorOff /\ \A x \in Editors \ {e} : editors'[x] = editors[x]
  BY DEF SchedulerInv, TypeOK, EditDone
<1>4. UNCHANGED <<runtime, orphans, succeeded, clock, edits, crashes>>
  BY DEF EditDone
<1>5. TypeOK'
  BY <1>2, <1>4 DEF SchedulerInv, TypeOK
<1>6. Honest(file)' /\ Honest(runtime.mem)'
  BY <1>4 DEF SchedulerInv, Honest
<1>7. \A x \in Editors : Honest(editors[x].mem)'
  BY <1>1, <1>3, <1>4, EmptyIsDocument DEF SchedulerInv, Honest
<1>8. \A x \in Editors : editors'[x].at # "off" => editors'[x].task \in Tasks
  BY <1>1, <1>3 DEF SchedulerInv
<1> QED
  BY <1>4, <1>5, <1>6, <1>7, <1>8 DEF SchedulerInv

\* register() copies the last success of the document it loaded.
LEMMA RegisterSaveKeeps ==
    ASSUME SchedulerInv, NEW e \in Editors, RegisterSave(e) PROVE SchedulerInv'
<1> DEFINE d == editors[e].mem
           t == editors[e].task
           row == [RowOf(d, t) EXCEPT !.callback = editors[e].callback,
                                      !.enabled = editors[e].enabled]
<1>1. t \in Tasks /\ d \in Document /\ Honest(d) /\ editors[e].enabled \in BOOLEAN
      /\ editors[e].callback \in {"none", "good", "malformed"}
  BY DEF SchedulerInv, TypeOK, Editor, RegisterSave
<1>2. row \in Row /\ row.success <= succeeded[t]
  <2>1. RowOf(d, t) \in Row /\ RowOf(d, t).success <= succeeded[t]
    BY <1>1, RowHonest
  <2> HIDE DEF d, t
  <2> QED
    BY <1>1, <2>1 DEF Row
<1>3. file' = WithRow(d, t, row) /\ EditDone(e) /\ removed' \subseteq Tasks
  BY DEF RegisterSave, SchedulerInv, TypeOK
<1> HIDE DEF d, t, row
<1>4. file' \in Document /\ Honest(file')
  BY <1>1, <1>2, <1>3, SavesHonest
<1> QED
  BY <1>3, <1>4, EditDoneKeeps

\* remove() writes what it has read without one row.
LEMMA RemoveSaveKeeps ==
    ASSUME SchedulerInv, NEW e \in Editors, RemoveSave(e) PROVE SchedulerInv'
<1> DEFINE d == editors[e].mem
           t == editors[e].task
<1>1. t \in Tasks /\ d \in Document /\ Honest(d)
  BY DEF SchedulerInv, TypeOK, Editor, RemoveSave
<1>2. EditDone(e) /\ removed' \subseteq Tasks /\ (file' = WithoutRow(d, t) \/ file' = file)
  BY <1>1 DEF RemoveSave, SchedulerInv, TypeOK
<1> HIDE DEF d, t
<1>3. WithoutRow(d, t) \in Document /\ Honest(WithoutRow(d, t))
  BY <1>1, WithoutRowDocument DEF Honest
<1>4. file' \in Document /\ Honest(file')
  BY <1>2, <1>3 DEF SchedulerInv, TypeOK
<1> QED
  BY <1>2, <1>4, EditDoneKeeps

-----------------------------------------------------------------------------
\* The installed file is honest: nothing has run yet.
LEMMA SchedulerInvInit == Init => SchedulerInv
<1> SUFFICES ASSUME Init PROVE SchedulerInv
  OBVIOUS
<1> PICK cb \in [Installed -> {"good", "malformed"}] :
         file = [tasks |-> [t \in Installed |-> [NewRow EXCEPT !.callback = cb[t]]], history |-> <<>>]
  BY DEF Init
<1> DEFINE f == [t \in Installed |-> [NewRow EXCEPT !.callback = cb[t]]]
<1>1. f \in [Installed -> Row] /\ \A t \in Installed : f[t].success = Never
  BY DEF NewRow, Row, Stamp
<1>2. (<<>>) \in Seq(Entry) /\ Len(<<>>) <= HistoryLimit
  BY SchedulerConstants
<1>3. file = [tasks |-> f, history |-> <<>>]
  OBVIOUS
<1>4. file \in Document
  <2> HIDE DEF f
  <2>1. Installed \in SUBSET Tasks /\ f \in [Installed -> Row]
    BY <1>1, SchedulerConstants
  <2>2. [tasks |-> f, history |-> <<>>] \in Document
    BY ONLY <1>2, <2>1, DocumentMade
  <2> QED
    BY ONLY <1>3, <2>2
<1>5. succeeded = [t \in Tasks |-> Never]
  BY DEF Init
<1>6. Honest(file)
  <2>1. Never <= Never
    BY DEF Never
  <2>2. DOMAIN file.tasks = Installed /\ \A t \in Installed : file.tasks[t].success = Never
    BY <1>1, <1>3
  <2>3. \A t \in Installed : succeeded[t] = Never
    BY <1>5, SchedulerConstants
  <2> QED
    BY <2>1, <2>2, <2>3 DEF Honest
<1>7. runtime \in Runtime /\ runtime.mem = EmptyDocument /\ runtime.at = "off"
  BY EmptyIsDocument DEF Init, RuntimeOff, Runtime, Stamp
<1>8. editors \in [Editors -> Editor]
      /\ \A e \in Editors : editors[e].at = "off" /\ editors[e].mem = EmptyDocument
  BY EmptyIsDocument DEF Init, EditorOff, Editor
<1>9. TypeOK
  BY <1>4, <1>5, <1>7, <1>8, SchedulerConstants DEF Init, TypeOK, Stamp
<1>10. \A t \in Tasks : succeeded[t] <= clock
  <2>1. Never <= 0
    BY DEF Never
  <2> QED
    BY <1>5, <2>1 DEF Init
<1> QED
  BY <1>6, <1>7, <1>8, <1>9, <1>10, EmptyIsDocument DEF SchedulerInv, Executing

\* Every step of a runtime, a command, a crash or the clock keeps it.
LEMMA SchedulerInvNext == SchedulerInv /\ [Next]_vars => SchedulerInv'
<1> SUFFICES ASSUME SchedulerInv, [Next]_vars PROVE SchedulerInv'
  OBVIOUS
<1>1. CASE UNCHANGED vars
  BY <1>1 DEF SchedulerInv, TypeOK, Honest, vars
<1>2. CASE RuntimeStep
  BY <1>2, RunDueKeeps, RuntimeDoneKeeps, PassAbortsKeeps, CallbackRaisesKeeps, RaiseKeeps, StartLoadKeeps, StartSaveKeeps, CallbackEndsKeeps,
     RecordLoadKeeps, RecordSaveKeeps, HistoryLoadKeeps, HistorySaveKeeps DEF RuntimeStep, NoCommand
<1>3. ASSUME NEW t \in Tasks, RunTask(t) \/ OrphanEnds(t) PROVE SchedulerInv'
  BY <1>3, RunTaskKeeps, OrphanEndsKeeps
<1>4. CASE Crash
  BY <1>4, CrashKeeps
<1>5. ASSUME NEW e \in Editors, RegisterSave(e) \/ RemoveSave(e) PROVE SchedulerInv'
  BY <1>5, RegisterSaveKeeps, RemoveSaveKeeps
<1>6. ASSUME NEW e \in Editors, NEW t \in Tasks, NEW enabled \in BOOLEAN,
             NEW callback \in {"good", "malformed"},
             EditLoad(e, "register", t, callback, enabled) \/ EditLoad(e, "remove", t, "none", FALSE)
      PROVE  SchedulerInv'
  BY <1>6, EditLoadKeeps
<1>7. CASE Tick
  BY <1>7, TickKeeps
<1> QED
  BY <1>1, <1>2, <1>3, <1>4, <1>5, <1>6, <1>7 DEF Next

\* The documents of the scheduler keep their shape, and the history its
\* limit, whatever is lost between a load and a save.
THEOREM SchedulerTypes == Spec => []TypeOK
<1>1. SchedulerInv => TypeOK
  BY DEF SchedulerInv
<1> QED
  BY <1>1, SchedulerInvInit, SchedulerInvNext, PTL DEF Spec

\* succeeded(), failed(), register() and remove() never leave a last success
\* in the file that no callback has earned.
THEOREM SuccessIsReal == Spec => []NoSyntheticSuccess
<1>1. SchedulerInv => NoSyntheticSuccess
  BY DEF SchedulerInv, Honest, NoSyntheticSuccess
<1> QED
  BY <1>1, SchedulerInvInit, SchedulerInvNext, PTL DEF Spec
=============================================================================
