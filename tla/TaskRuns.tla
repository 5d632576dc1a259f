------------------------------- MODULE TaskRuns -------------------------------
(***************************************************************************)
(* The tasks of one board and the runs that work on them                   *)
(* (packages/server/src/modules/tasks: runs.ts, service.ts and the routes  *)
(* and the auto-start of index.ts).                                        *)
(*                                                                         *)
(* A start reads the task, awaits its worktree and its session, and only   *)
(* then writes to the task; its run is followed to its end, which moves    *)
(* the task if the task is still on it.  Meanwhile people move, stop,      *)
(* reassign, archive and delete the task, start it again, and change what  *)
(* it waits for.  A pass starts by itself, a few at a time, the tasks that *)
(* were ready when it looked.  A restart ends every run.                   *)
(***************************************************************************)
EXTENDS Integers, FiniteSets

CONSTANTS
  None,         \* no run, no pass
  Tasks,        \* the tasks of the board
  Runs,         \* the runs, by their ids
  Columns,      \* the columns people drag a task to
  AutoMax,      \* COREHUB_TASK_AUTO_START_MAX: runs the hub starts itself at once
  MaxEdits,     \* bound: what people do to the board
  MaxRestarts   \* bound: restarts of the hub

Statuses == {"todo", "ready", "running", "blocked", "review", "done", "archived"}

ASSUME NoneAssumption == None \notin Runs
ASSUME ColumnsAssumption == Columns \subseteq Statuses
ASSUME TasksAssumption == IsFiniteSet(Tasks)
ASSUME NumbersAssumption == {AutoMax, MaxEdits, MaxRestarts} \subseteq Nat

VARIABLES
  task,       \* per task: its row
  waits,      \* per task: the tasks it depends on
  run,        \* per run: its row in `sessions`, its start and whether the worker follows it
  auto,       \* TaskRuns.auto: per task, the run the hub started on it
  pass,       \* the auto-start pass that is going: the tasks it read and has not come to
  looks,      \* a pass waits behind it (TaskRuns.passes)
  edits, restarts

vars == <<task, waits, run, auto, pass, looks, edits, restarts>>

Ends == {"succeeded", "failed", "cancelled"}

TaskType ==
  [status   : Statuses \cup {"gone"},    \* "todo" is triage too, "review"
                                        \* scheduled too; "gone": deleted
   on       : Runs \cup {None},          \* currentRunId
   auto     : BOOLEAN,                   \* autoStart
   given    : BOOLEAN,                   \* it is assigned to an agent
   finished : BOOLEAN]                   \* completedAt is set

RunType ==
  [of     : Tasks \cup {None},
   by     : {"person", "pass"},
   state  : {"none", "asked", "live"} \cup Ends,   \* "asked": its start awaits worktree and
   stop   : BOOLEAN,                               \* session; stop: it was asked to stop
   follow : {"no", "yes", "done"}]                 \* "done": its ending was dealt with

NoRun == [of |-> None, by |-> "person", state |-> "none", stop |-> FALSE, follow |-> "no"]

TypeOK ==
  /\ task  \in [Tasks -> TaskType]
  /\ waits \in [Tasks -> SUBSET Tasks]
  /\ run   \in [Runs -> RunType]
  /\ auto  \in [Tasks -> Runs \cup {None}]
  /\ pass  \in (SUBSET Tasks) \cup {None}
  /\ looks \in BOOLEAN
  /\ edits \in Nat /\ restarts \in Nat

\* The tasks as people made them, given to an agent; creating one that starts by itself looks.
Init ==
  /\ task  \in [Tasks -> {T \in TaskType : /\ T.status = "ready" /\ T.given
                                           /\ T.on = None /\ ~ T.finished}]
  /\ waits = [t \in Tasks |-> {}]
  /\ run   = [r \in Runs |-> NoRun]
  /\ auto  = [t \in Tasks |-> None]
  /\ pass  = None /\ looks = TRUE /\ edits = 0 /\ restarts = 0

-----------------------------------------------------------------------------
OnRun(t, r) == task[t].status = "running" /\ task[t].on = r

\* moveTask: the column; leaving `done` clears the stamp.
Moved(T, to) == [T EXCEPT !.status = to, !.finished = (to = "done")]

\* isDone: a task archived by hand has no stamp.
IsDone(d) == task[d].status = "done" \/ (task[d].status = "archived" /\ task[d].finished)

\* waitingOn.
Undone(on) == {d \in on : ~ IsDone(d)}

\* autoStartable.
Startable(t) ==
  /\ task[t].auto /\ task[t].given /\ task[t].status = "ready" /\ task[t].on = None
  /\ Undone(waits[t]) = {}

\* The runs the hub started that their tasks are still on; the others are forgotten.
StillAuto == [t \in Tasks |-> IF auto[t] # None /\ OnRun(t, auto[t]) THEN auto[t] ELSE None]
Going     == {t \in Tasks : StillAuto[t] # None}

FullLate == Cardinality(Going) > AutoMax

Full == Cardinality(Going) >= AutoMax

\* finishRun: the task goes where the ending says, while it is running on that run.
Finished(t, r, end) ==
  IF ~ OnRun(t, r) THEN task[t]
  ELSE CASE end = "succeeded" -> [Moved(task[t], "review")  EXCEPT !.on = None]
         [] end = "cancelled" -> [Moved(task[t], "ready")   EXCEPT !.on = None, !.auto = FALSE]
         [] end = "failed"    -> [Moved(task[t], "blocked") EXCEPT !.on = None]

\* leaveRun, after the move: the run the task was on is asked to stop.
LeftRun(t) ==
  [r \in Runs |-> IF OnRun(t, r) /\ run[r].state = "live" THEN [run[r] EXCEPT !.stop = TRUE]
                                                          ELSE run[r]]

-----------------------------------------------------------------------------
(* What people do.                                                           *)

Edits == edits < MaxEdits /\ edits' = edits + 1
Here(t) == task[t].status # "gone"
Kicks(c) == looks' = (looks \/ c)

\* updateTask, bulkUpdateTasks: the switch.
SetAuto(t, b) ==
  /\ Edits /\ Here(t)
  /\ task' = [task EXCEPT ![t].auto = b]
  /\ Kicks(b)
  /\ UNCHANGED <<waits, run, auto, pass, restarts>>

\* stop with the note `reassigned`: a task that runs leaves its run and waits.
Reassigned(t) ==
  IF task[t].status = "running" /\ task[t].on # None
  THEN [task[t] EXCEPT !.status = "ready", !.on = None] ELSE task[t]

\* assign: a task nobody has begun is ready.
Given(T) == [T EXCEPT !.given = TRUE, !.status = IF @ = "todo" THEN "ready" ELSE @]

\* assignTask without `start`.
Assign(t) ==
  /\ Edits /\ Here(t)
  /\ task' = [task EXCEPT ![t] = Given(Reassigned(t))]
  /\ run' = LeftRun(t)
  /\ Kicks(task[t].auto)
  /\ UNCHANGED <<waits, auto, pass, restarts>>

\* assignTask with `start`: the worktree and the session come before the task changes.
StartByHand(t, r) ==
  /\ Edits /\ task[t].status \notin {"done", "archived", "gone"}
  /\ run[r].state = "none"
  /\ task' = [task EXCEPT ![t] = Reassigned(t)]
  /\ run' = [LeftRun(t) EXCEPT ![r] = [NoRun EXCEPT !.of = t, !.state = "asked"]]
  /\ UNCHANGED <<waits, auto, pass, looks, restarts>>

MovedKeepingRun(t, to) == Moved(task[t], to)

\* The move and, out of `running`, detachRun.
MovedByHand(t, to) ==
  IF to = "running" THEN Moved(task[t], to) ELSE [Moved(task[t], to) EXCEPT !.on = None]

\* moveTask, the route.
MoveByHand(t, to) ==
  /\ Edits /\ Here(t)
  /\ task' = [task EXCEPT ![t] = MovedByHand(t, to)]
  /\ run' = IF to = "running" THEN run ELSE LeftRun(t)
  /\ Kicks(to \in {"ready", "done"})
  /\ UNCHANGED <<waits, auto, pass, restarts>>

\* bulkUpdateTasks with `archived`: the row alone.
ArchiveMany(t, to) ==
  /\ Edits /\ Here(t)
  /\ task' = [task EXCEPT ![t] = Moved(@, to)]
  /\ UNCHANGED <<waits, run, auto, pass, looks, restarts>>

Stop(t) ==
  /\ Edits /\ Here(t)
  /\ task' = [task EXCEPT ![t].on = None, ![t].auto = FALSE,
                          ![t].status = IF @ = "running" THEN "ready" ELSE @]
  /\ run' = LeftRun(t)
  /\ UNCHANGED <<waits, auto, pass, looks, restarts>>

Unassign(t) ==
  /\ Edits /\ Here(t)
  /\ task' = [task EXCEPT ![t].on = None, ![t].given = FALSE,
                          ![t].status = CASE @ = "running" -> "ready"
                                          [] @ = "ready"   -> "todo"
                                          [] OTHER         -> @]
  /\ run' = LeftRun(t)
  /\ UNCHANGED <<waits, auto, pass, looks, restarts>>

\* deleteTask leaves the run; bulkDeleteTasks, and deleting its project, do not.  What waited
\* for the task waits no more.
Delete(t, many) ==
  /\ Edits /\ Here(t)
  /\ task' = [task EXCEPT ![t].status = "gone"]
  /\ run' = IF many THEN run ELSE LeftRun(t)
  /\ waits' = [u \in Tasks |-> IF u = t THEN {} ELSE waits[u] \ {t}]
  /\ UNCHANGED <<auto, pass, looks, restarts>>

\* dependsOn: `t` waits, by way of others, for `u`.
DependsOn(t, u) ==
  LET Beyond[S \in SUBSET Tasks] ==
        LET more == S \cup UNION {waits[v] : v \in S}
        IN  IF more = S THEN S ELSE Beyond[more]
  IN  u \in Beyond[{t}]

\* A task may not wait for itself, nor for one that waits for it.
Refuses(t, on) == \E u \in on : u = t \/ DependsOn(u, t)

SetDependencies(t, on) ==
  /\ Edits /\ Here(t) /\ \A u \in on : Here(u)
  /\ ~ Refuses(t, on)
  /\ waits' = [waits EXCEPT ![t] = on]
  /\ Kicks(task[t].auto /\ Undone(on) = {})
  /\ UNCHANGED <<task, run, auto, pass, restarts>>

\* archiveDoneBefore, as the board is opened: a week after `done`, which stays stamped.
ArchiveOld(t) ==
  /\ task[t].status = "done"
  /\ task' = [task EXCEPT ![t].status = "archived"]
  /\ UNCHANGED <<waits, run, auto, pass, looks, edits, restarts>>

-----------------------------------------------------------------------------
(* startTaskRun after its awaits, and the run.                               *)

\* The run exists: the task, whatever became of it, is running on it and it is followed.  A
\* task deleted meanwhile has the start throw, and its run goes on.
Take(r) ==
  LET t == run[r].of
  IN  /\ run[r].state = "asked"
      /\ run' = [run EXCEPT ![r].state = "live", ![r].follow = IF Here(t) THEN "yes" ELSE @]
      /\ task' = IF ~ Here(t) THEN task
                 ELSE [task EXCEPT ![t] =
                        [Moved(IF run[r].by = "pass" THEN @ ELSE Given(@), "running")
                           EXCEPT !.on = r]]
      /\ auto' = IF Here(t) /\ run[r].by = "pass" THEN [auto EXCEPT ![t] = r] ELSE auto
      /\ UNCHANGED <<waits, pass, looks, edits, restarts>>

\* The worktree or the agent refuses: no run.  The pass blocks the task, as it is by now.
Refused(r) ==
  LET t == run[r].of
  IN  /\ run[r].state = "asked"
      /\ run' = [run EXCEPT ![r] = NoRun]
      /\ task' = IF run[r].by = "pass" /\ Here(t)
                 THEN [task EXCEPT ![t] = Moved(@, "blocked")] ELSE task
      /\ UNCHANGED <<waits, auto, pass, looks, edits, restarts>>

\* A run asked to stop does not succeed; a person may stop one from its chat.
RunEnds(r, end) ==
  /\ run[r].state = "live"
  /\ run[r].stop => end # "succeeded"
  /\ run' = [run EXCEPT ![r].state = end]
  /\ UNCHANGED <<task, waits, auto, pass, looks, edits, restarts>>

\* settle, then afterSettle: the worktree's numbers and a look.
Settle(r) ==
  LET t == run[r].of
  IN  /\ run[r].follow = "yes" /\ run[r].state \in Ends
      /\ task' = [task EXCEPT ![t] = Finished(t, r, run[r].state)]
      /\ run' = [run EXCEPT ![r].follow = "done"]
      /\ looks' = TRUE
      /\ UNCHANGED <<waits, auto, pass, edits, restarts>>

-----------------------------------------------------------------------------
(* The auto-start pass.  Its order, top of the column first, is left open.   *)

PassBegins ==
  /\ looks /\ pass = None
  /\ looks' = FALSE
  /\ pass' = {t \in Tasks : Startable(t)}
  /\ UNCHANGED <<task, waits, run, auto, edits, restarts>>

\* The pass awaits no start of its own.
PassIsFree == pass # None /\ \A r \in Runs : ~ (run[r].state = "asked" /\ run[r].by = "pass")

\* The next row, as the pass read it.
PassStarts(t, r) ==
  /\ PassIsFree /\ t \in pass /\ ~ Full
  /\ run[r].state = "none"
  /\ run' = [run EXCEPT ![r] = [NoRun EXCEPT !.of = t, !.by = "pass", !.state = "asked"]]
  /\ pass' = pass \ {t}
  /\ auto' = StillAuto
  /\ UNCHANGED <<task, waits, looks, edits, restarts>>

PassEnds ==
  /\ PassIsFree /\ (pass = {} \/ Full)
  /\ pass' = None
  /\ auto' = IF pass = {} THEN auto ELSE StillAuto
  /\ UNCHANGED <<task, waits, run, looks, edits, restarts>>

-----------------------------------------------------------------------------
BootSettledEnded(t) ==
  IF task[t].status # "running" \/ task[t].on = None THEN task[t]
  ELSE IF run[task[t].on].state \in Ends THEN Finished(t, task[t].on, run[task[t].on].state)
  ELSE task[t]

\* settleStranded: by the record of the run, which says `failed` of one that was cut short.
BootSettled(t) ==
  IF task[t].status # "running" THEN task[t]
  ELSE IF task[t].on = None THEN Moved(task[t], "blocked")
  ELSE Finished(t, task[t].on,
                IF run[task[t].on].state \in Ends THEN run[task[t].on].state ELSE "failed")

\* The hub stops and starts: every run is over, what was in memory is gone, and the tasks that
\* waited for a place are looked at.
Restart ==
  /\ restarts < MaxRestarts
  /\ restarts' = restarts + 1
  /\ task' = [t \in Tasks |-> BootSettled(t)]
  /\ run' = [r \in Runs |->
               CASE run[r].state = "asked" -> NoRun
                 [] run[r].state = "live"  -> [run[r] EXCEPT !.state = "failed", !.follow = "no"]
                 [] run[r].state \in Ends /\ run[r].follow = "yes" -> [run[r] EXCEPT !.follow = "no"]
                 [] OTHER                  -> run[r]]
  /\ auto' = [t \in Tasks |-> None]
  /\ pass' = None /\ looks' = TRUE
  /\ UNCHANGED <<waits, edits>>

People ==
  \E t \in Tasks :
    \/ \E b \in BOOLEAN : SetAuto(t, b)
    \/ Assign(t)
    \/ \E r \in Runs : StartByHand(t, r)
    \/ \E to \in Columns : MoveByHand(t, to)
    \/ \E to \in {"archived", "done"} : ArchiveMany(t, to)
    \/ Stop(t)
    \/ Unassign(t)
    \/ \E many \in BOOLEAN : Delete(t, many)
    \/ \E on \in SUBSET Tasks : SetDependencies(t, on)

Next ==
  \/ People
  \/ \E t \in Tasks : ArchiveOld(t)
  \/ \E r \in Runs : Take(r)
  \/ \E r \in Runs : Refused(r)
  \/ \E r \in Runs, end \in Ends : RunEnds(r, end)
  \/ \E r \in Runs : Settle(r)
  \/ PassBegins
  \/ \E t \in Tasks, r \in Runs : PassStarts(t, r)
  \/ PassEnds
  \/ Restart

Spec == Init /\ [][Next]_vars

-----------------------------------------------------------------------------
\* No ending is lost: when the hub gives up following the run a task is running on, by its
\* ending or by a restart, the task leaves it in the same step.  Nobody else would move it.
NoEndingIsLost ==
  [][\A t \in Tasks, r \in Runs :
       OnRun(t, r) /\ run[r].follow = "yes" /\ run'[r].follow # "yes" => ~ OnRun(t, r)']_vars

\* The hub never stops the run that the board shows working: what a person or a start took
\* the task off is never what the task is on, whatever column it is moved to afterwards.
StoppedRunIsLeft == \A t \in Tasks, r \in Runs : run[r].stop => ~ OnRun(t, r)

\* The runs the hub started by itself, that their tasks are on, never pass the limit, though
\* the count is read before the await of each start.
PlacesHold == Cardinality({t \in Tasks : auto[t] # None /\ OnRun(t, auto[t])}) <= AutoMax

\* What the board shows of a task: the run that works on it.
WorksOn(t) == IF task[t].status = "running" THEN task[t].on ELSE None

Board == INSTANCE TaskBoard WITH
  column   <- [t \in Tasks |-> task[t].status],
  on       <- [t \in Tasks |-> WorksOn(t)],
  of       <- [r \in Runs |-> run[r].of],
  life     <- [r \in Runs |-> run[r].state],
  told     <- {r \in Runs : run[r].stop},
  followed <- {r \in Runs : run[r].follow = "yes"}

\* The board keeps what TaskBoard promises (runs.ts, index.ts): a task works on a run of its
\* own, a run is told to stop as its task leaves it, and no ending that is followed is lost.
KeepsBoard == Board!Spec
=============================================================================
