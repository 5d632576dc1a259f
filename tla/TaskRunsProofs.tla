----------------------------- MODULE TaskRunsProofs -----------------------------
(***************************************************************************)
(* The tasks of a board and their runs, for any tasks, runs and bounds:    *)
(* IInv is kept by every step, and the properties of TaskRuns follow.      *)
(*                                                                         *)
(* Most of what people do moves a task and may leave its run; one lemma    *)
(* (RunsLeft) carries the invariant through all of it, and the steps that  *)
(* start a run, take it, refuse it or restart the hub have their own.      *)
(***************************************************************************)
EXTENDS TaskRuns, FiniteSetTheorems, TLAPS

Early == {"none", "asked"}

\* A run is some task's; before it exists nobody stops it or follows it.
RunsKnown ==
  \A r \in Runs : /\ run[r].state # "none" => run[r].of \in Tasks
                  /\ run[r].state \in Early => ~ run[r].stop /\ run[r].follow = "no"

\* A task is on a run of its own, that exists.
OnItsRun ==
  \A t \in Tasks, r \in Runs : task[t].on = r => run[r].of = t /\ run[r].state \notin Early

\* A run that was asked to stop is no task's any more.
StoppedIsOff ==
  \A t \in Tasks, r \in Runs : run[r].stop /\ task[t].on = r => task[t].status = "gone"

AwaitedByPass == {r \in Runs : run[r].state = "asked" /\ run[r].by = "pass"}
AutoTasks     == {t \in Tasks : auto[t] # None}

\* The pass awaits one start at a time, and has a place for it.
PlacesCounted ==
  /\ \A r, s \in AwaitedByPass : r = s
  /\ Cardinality(AutoTasks) <= AutoMax
  /\ AwaitedByPass # {} => Cardinality(AutoTasks) < AutoMax

IInv == TypeOK /\ RunsKnown /\ OnItsRun /\ StoppedIsOff /\ PlacesCounted

USE DEF Ends, Early

LEMMA NoneIsNoRun == \A r \in Runs : r # None
BY NoneAssumption

-----------------------------------------------------------------------------
(* What a step is to TaskBoard: how its steps read in the rows.              *)

LEMMA BoardMoves ==
  ASSUME NEW t \in Tasks, task[t].status = "gone" => task'[t].status = "gone",
         \/ /\ WorksOn(t)' = WorksOn(t)
            /\ WorksOn(t) # None => task'[t].status = task[t].status
         \/ \E r \in Runs :
              /\ WorksOn(t)' = r /\ run[r].of = t /\ ~ run'[r].stop /\ task'[t].status = "running"
              /\ \/ run[r].state = "asked" /\ run'[r].state = "live"
                 \/ task[t].status # "running" /\ run[r].state \in {"live"} \cup Ends
         \/ \E r \in Runs :
              /\ WorksOn(t) = r /\ WorksOn(t)' = None
              /\ \/ run'[r].stop \/ run[r].state \in Ends
                 \/ task'[t].status \in {"archived", "done", "gone"}
                 \/ run'[r].state \in Ends /\ task'[t].status = Board!Where(run'[r].state)
                 \/ /\ task'[t].status = "blocked"
                    /\ \E q \in Runs : run[q].of = t /\ run[q].state = "asked"
                                                  /\ run'[q].state = "none"
  PROVE  Board!Moves(t)
<1>1. CASE WorksOn(t)' = WorksOn(t) /\ (WorksOn(t) # None => task'[t].status = task[t].status)
  BY <1>1 DEF Board!Moves
<1>2. ASSUME NEW r \in Runs,
             WorksOn(t)' = r, run[r].of = t, ~ run'[r].stop, task'[t].status = "running",
             \/ run[r].state = "asked" /\ run'[r].state = "live"
             \/ task[t].status # "running" /\ run[r].state \in {"live"} \cup Ends
      PROVE  Board!Moves(t)
  BY <1>2 DEF Board!Moves, Board!Comes, Board!Life, Board!Over
<1>3. ASSUME NEW r \in Runs, WorksOn(t) = r, WorksOn(t)' = None,
             \/ run'[r].stop \/ run[r].state \in Ends
             \/ task'[t].status \in {"archived", "done", "gone"}
             \/ run'[r].state \in Ends /\ task'[t].status = Board!Where(run'[r].state)
             \/ /\ task'[t].status = "blocked"
                /\ \E q \in Runs : run[q].of = t /\ run[q].state = "asked" /\ run'[q].state = "none"
      PROVE  Board!Moves(t)
  BY <1>3 DEF Board!Moves, Board!Goes, Board!Leaves, Board!Life, Board!Over
<1> QED BY <1>1, <1>2, <1>3

LEMMA BoardRuns ==
  ASSUME NEW r \in Runs,
         \/ /\ run'[r].of = run[r].of /\ run'[r].state = run[r].state
            /\ run'[r].stop <=> run[r].stop
            /\ run'[r].follow = "yes" <=> run[r].follow = "yes"
         \/ /\ ~ run'[r].stop
            /\ \/ /\ run[r].state = "none" /\ run'[r].state = "asked" /\ run'[r].of \in Tasks
                  /\ run'[r].follow # "yes"
               \/ run[r].state = "asked" /\ run'[r].state = "none" /\ run'[r].follow # "yes"
               \/ /\ run[r].state = "asked" /\ run'[r].state = "live"
                  /\ run'[r].of = run[r].of /\ run[r].of \in Tasks
                  /\ run'[r].follow = "yes" <=> WorksOn(run[r].of)' = r
         \/ /\ run'[r].of = run[r].of /\ run[r].of \in Tasks
            /\ run[r].state \in {"live"} \cup Ends
            /\ \/ run'[r].state = run[r].state
               \/ /\ run[r].state = "live" /\ run'[r].state \in Ends
                  /\ run[r].stop => run'[r].state # "succeeded"
            /\ \/ run'[r].stop <=> run[r].stop
               \/ /\ run'[r].stop /\ run'[r].state = "live"
                  /\ WorksOn(run[r].of) = r /\ WorksOn(run[r].of)' = None
            /\ \/ run'[r].follow = "yes" <=> run[r].follow = "yes"
               \/ /\ run'[r].follow # "yes" /\ run'[r].state \in Ends
                  /\ WorksOn(run[r].of) = r =>
                       /\ WorksOn(run[r].of)' = None
                       /\ task'[run[r].of].status = Board!Where(run'[r].state)
  PROVE  Board!Same(r) \/ Board!Begins(r) \/ Board!Lives(r)
BY DEF Board!Same, Board!Begins, Board!Lives, Board!Settles, Board!Leaves, Board!Life, Board!Over

\* A step that leaves the rows of the tasks and the runs.
LEMMA BoardRests ==
  ASSUME task' = task, run' = run
  PROVE  Board!Next
<1>1. \A t \in Tasks : Board!Moves(t)
  BY BoardMoves DEF WorksOn
<1>2. \A r \in Runs : Board!Same(r) \/ Board!Begins(r) \/ Board!Lives(r)
  BY BoardRuns
<1> QED BY <1>1, <1>2 DEF Board!Next

-----------------------------------------------------------------------------
(* What the helpers return.                                                  *)

LEMMA MovedRow ==
  \A T \in TaskType, to \in Statuses :
    /\ Moved(T, to) \in TaskType /\ Moved(T, to).on = T.on /\ Moved(T, to).status = to
BY DEF Moved, TaskType

LEMMA GivenRow ==
  \A T \in TaskType :
    /\ Given(T) \in TaskType /\ Given(T).on = T.on
    /\ T.status = "gone" => Given(T).status = "gone"
    /\ Given(T).status = "running" => T.status = "running"
BY DEF Given, TaskType, Statuses

LEMMA OffRow ==
  \A T \in TaskType :
    LET U == [T EXCEPT !.on = None]
    IN  U \in TaskType /\ U.on = None /\ U.status = T.status
BY DEF TaskType

\* A task whose run has ended leaves it, or was not on it.
LEMMA FinishedRow ==
  ASSUME TypeOK, NEW t \in Tasks, NEW r \in Runs, NEW end \in Ends
  PROVE  /\ Finished(t, r, end) \in TaskType
         /\ \/ /\ Finished(t, r, end).on = None /\ OnRun(t, r)
               /\ Finished(t, r, end).status = Board!Where(end)
            \/ Finished(t, r, end) = task[t] /\ ~ OnRun(t, r)
<1>1. task[t] \in TaskType
  BY DEF TypeOK
<1>2. CASE ~ OnRun(t, r)
  BY <1>1, <1>2 DEF Finished
<1>3. CASE OnRun(t, r)
  <2>1. ASSUME NEW to \in {"review", "ready", "blocked"}
        PROVE  LET U == [Moved(task[t], to) EXCEPT !.on = None]
               IN  U \in TaskType /\ U.on = None /\ U.status = to
    <3>1. Moved(task[t], to) \in TaskType /\ Moved(task[t], to).status = to
      BY <1>1, MovedRow DEF Statuses
    <3> QED BY <3>1, OffRow
  <2>2. LET U == [Moved(task[t], "ready") EXCEPT !.on = None, !.auto = FALSE]
        IN  U \in TaskType /\ U.on = None /\ U.status = "ready"
    <3>1. Moved(task[t], "ready") \in TaskType /\ Moved(task[t], "ready").status = "ready"
      BY <1>1, MovedRow DEF Statuses
    <3> QED BY <3>1 DEF TaskType
  <2>3. end \in {"succeeded", "cancelled", "failed"}
    OBVIOUS
  <2>4. CASE end = "succeeded"
    BY <1>3, <2>1, <2>4 DEF Finished, Board!Where
  <2>5. CASE end = "cancelled"
    BY <1>3, <2>2, <2>5 DEF Finished, Board!Where
  <2>6. CASE end = "failed"
    BY <1>3, <2>1, <2>6 DEF Finished, Board!Where
  <2> QED BY <2>3, <2>4, <2>5, <2>6
<1> QED BY <1>2, <1>3

\* leaveRun asks the run the task is on to stop, and touches nothing else.
LEMMA LeftRunRow ==
  ASSUME TypeOK, NEW t \in Tasks
  PROVE  /\ LeftRun(t) \in [Runs -> RunType]
         /\ \A r \in Runs :
              /\ LeftRun(t)[r].of = run[r].of /\ LeftRun(t)[r].by = run[r].by
              /\ LeftRun(t)[r].state = run[r].state /\ LeftRun(t)[r].follow = run[r].follow
              /\ LeftRun(t)[r].stop # run[r].stop => OnRun(t, r) /\ run[r].state = "live"
              /\ OnRun(t, r) /\ run[r].state = "live" => LeftRun(t)[r].stop
<1>1. run \in [Runs -> RunType]
  BY DEF TypeOK
<1>2. \A R \in RunType :
        LET S == [R EXCEPT !.stop = TRUE]
        IN  /\ S \in RunType /\ S.stop /\ S.of = R.of /\ S.by = R.by /\ S.state = R.state
            /\ S.follow = R.follow
  BY DEF RunType
<1> QED BY <1>1, <1>2 DEF LeftRun

\* A step that only takes tasks off their runs keeps what IInv says of runs.
LEMMA RunsLeft ==
  ASSUME IInv,
         \A t \in Tasks : /\ task'[t].on \in {None, task[t].on}
                          /\ task[t].status = "gone" => task'[t].status = "gone",
         \A r \in Runs :
           /\ run'[r].of = run[r].of /\ run'[r].by = run[r].by
           /\ run'[r].state \in Early \/ run[r].state \in Early => run'[r] = run[r]
           /\ run'[r].stop /\ ~ run[r].stop =>
                \A t \in Tasks : task[t].on = r => task'[t].on = None \/ task'[t].status = "gone"
  PROVE  /\ RunsKnown' /\ OnItsRun' /\ StoppedIsOff'
         /\ AwaitedByPass' = AwaitedByPass
<1>1. RunsKnown'
  BY DEF IInv, RunsKnown
<1>2. OnItsRun'
  BY NoneIsNoRun DEF IInv, OnItsRun
<1>3. StoppedIsOff'
  BY NoneIsNoRun DEF IInv, StoppedIsOff
<1>4. AwaitedByPass' = AwaitedByPass
  BY DEF AwaitedByPass
<1> QED BY <1>1, <1>2, <1>3, <1>4

\* Leaving its run: the same, said of the one task that does.
LEMMA OneLeaves ==
  ASSUME IInv, NEW t \in Tasks, NEW R, task' = [task EXCEPT ![t] = R], R \in TaskType,
         R.on \in {None, task[t].on}, task[t].status # "gone",
         \/ /\ run' = run
            /\ \/ R.status \in {"archived", "done", "gone"}
               \/ R.on = task[t].on /\ R.status \in {task[t].status, "running"}
         \/ /\ run' = LeftRun(t)
            /\ \/ R.on = None \/ R.status = "gone"
               \/ task[t].status # "running" /\ R.status # "running",
         auto' = auto, pass' = pass, looks' \in BOOLEAN, waits' \in [Tasks -> SUBSET Tasks],
         edits' \in Nat, restarts' \in Nat
  PROVE  IInv' /\ Board!Next
<1>1. /\ task' \in [Tasks -> TaskType] /\ task'[t] = R
      /\ \A u \in Tasks \ {t} : task'[u] = task[u]
  BY DEF IInv, TypeOK
<1>2. /\ run' \in [Runs -> RunType]
      /\ \A r \in Runs :
           /\ run'[r].of = run[r].of /\ run'[r].by = run[r].by /\ run'[r].state = run[r].state
           /\ run'[r].follow = run[r].follow
           /\ run'[r].stop # run[r].stop => run' = LeftRun(t) /\ OnRun(t, r) /\ run[r].state = "live"
  <2>1. CASE run' = run
    BY <2>1 DEF IInv, TypeOK
  <2>2. CASE run' = LeftRun(t)
    BY <2>2, LeftRunRow DEF IInv
  <2> QED BY <2>1, <2>2
<1>3. TypeOK'
  BY <1>1, <1>2 DEF IInv, TypeOK
<1>4. /\ \A u \in Tasks : /\ task'[u].on \in {None, task[u].on}
                           /\ task[u].status = "gone" => task'[u].status = "gone"
  BY <1>1
<1>5. \A r \in Runs : run[r].state \in Early \/ run'[r].state \in Early => run'[r] = run[r]
  <2> SUFFICES ASSUME NEW r \in Runs, run[r].state \in Early
               PROVE  run'[r] = run[r]
    BY <1>2
  <2>1. run'[r].stop = run[r].stop
    BY <1>2
  <2>2. run'[r] \in RunType /\ run[r] \in RunType
    BY <1>2 DEF IInv, TypeOK
  <2> QED BY <1>2, <2>1, <2>2 DEF RunType
<1>6. \A r \in Runs : run'[r].stop /\ ~ run[r].stop =>
        \A u \in Tasks : task[u].on = r => task'[u].on = None \/ task'[u].status = "gone"
  <2> SUFFICES ASSUME NEW r \in Runs, run'[r].stop, ~ run[r].stop,
                      NEW u \in Tasks, task[u].on = r
               PROVE  task'[u].on = None \/ task'[u].status = "gone"
    OBVIOUS
  <2>1. run' = LeftRun(t) /\ OnRun(t, r)
    BY <1>2
  <2>2. u = t /\ task[t].status = "running"
    BY <2>1 DEF IInv, OnItsRun, OnRun
  <2>3. run' # run
    BY DEF IInv
  <2> QED BY <1>1, <2>1, <2>2, <2>3
<1>7. RunsKnown' /\ OnItsRun' /\ StoppedIsOff' /\ AwaitedByPass' = AwaitedByPass
  BY <1>2, <1>4, <1>5, <1>6, RunsLeft
<1>8. PlacesCounted'
  BY <1>7 DEF IInv, PlacesCounted, AutoTasks
<1>9. \A u \in Tasks : Board!Moves(u)
  <2>1. ASSUME NEW u \in Tasks \ {t} PROVE Board!Moves(u)
    BY <1>1, BoardMoves DEF WorksOn
  <2>2. Board!Moves(t)
    <3>1. CASE WorksOn(t) = None
      <4>1. CASE WorksOn(t)' = None
        BY <3>1, <4>1, BoardMoves
      <4>2. CASE WorksOn(t)' # None
        <5>1. /\ task'[t].status = "running" /\ task'[t].on = task[t].on /\ task[t].on # None
              /\ task[t].status # "running" /\ run' = run /\ WorksOn(t)' = task[t].on
          BY <1>1, <3>1, <4>2 DEF WorksOn
        <5>2. PICK r \in Runs : task[t].on = r
          BY <5>1 DEF IInv, TypeOK, TaskType
        <5>3. run[r].of = t /\ run[r].state \in {"live"} \cup Ends /\ ~ run'[r].stop
          BY <5>1, <5>2 DEF IInv, OnItsRun, StoppedIsOff, TypeOK, RunType
        <5> QED BY <5>1, <5>2, <5>3, BoardMoves
      <4> QED BY <4>1, <4>2
    <3>2. CASE WorksOn(t) # None
      <4>1. PICK r \in Runs : WorksOn(t) = r /\ OnRun(t, r)
        BY <3>2 DEF WorksOn, OnRun, IInv, TypeOK, TaskType
      <4>2. run[r].state \in {"live"} \cup Ends
        BY <4>1 DEF IInv, OnItsRun, OnRun, TypeOK, RunType
      <4>3. CASE /\ run' = LeftRun(t)
                 /\ \/ R.on = None \/ R.status = "gone"
                    \/ task[t].status # "running" /\ R.status # "running"
        <5>1. WorksOn(t)' = None
          BY <1>1, <4>1, <4>3 DEF WorksOn, OnRun, IInv
        <5>2. run'[r].stop \/ run[r].state \in Ends
          BY <4>1, <4>2, <4>3, LeftRunRow DEF IInv
        <5> QED BY <4>1, <5>1, <5>2, BoardMoves
      <4>4. CASE run' = run /\ R.status \in {"archived", "done", "gone"}
        BY <1>1, <4>1, <4>4, BoardMoves DEF WorksOn
      <4>5. CASE run' = run /\ R.on = task[t].on /\ R.status \in {task[t].status, "running"}
        BY <1>1, <4>1, <4>5, BoardMoves DEF WorksOn, OnRun
      <4> QED BY <4>3, <4>4, <4>5
    <3> QED BY <3>1, <3>2
  <2> QED BY <2>1, <2>2
<1>10. \A r \in Runs : Board!Same(r) \/ Board!Begins(r) \/ Board!Lives(r)
  <2> SUFFICES ASSUME NEW r \in Runs
               PROVE  Board!Same(r) \/ Board!Begins(r) \/ Board!Lives(r)
    OBVIOUS
  <2>1. CASE run'[r].stop = run[r].stop
    BY <1>2, <2>1, BoardRuns
  <2>2. CASE run'[r].stop # run[r].stop
    <3>1. run' = LeftRun(t) /\ OnRun(t, r) /\ run[r].state = "live" /\ run[r].of = t
      BY <1>2, <2>2 DEF IInv, OnItsRun, OnRun
    <3>2. WorksOn(t) = r /\ WorksOn(t)' = None /\ run'[r].stop
      BY <1>1, <2>2, <3>1, LeftRunRow DEF WorksOn, OnRun, IInv
    <3> QED BY <1>2, <3>1, <3>2, BoardRuns
  <2> QED BY <2>1, <2>2
<1> QED BY <1>3, <1>7, <1>8, <1>9, <1>10 DEF IInv, Board!Next

-----------------------------------------------------------------------------
LEMMA InitHolds == Init => IInv
<1> SUFFICES ASSUME Init PROVE IInv
  OBVIOUS
<1>1. TypeOK
  <2>1. NoRun \in RunType
    BY DEF NoRun, RunType
  <2>2. task \in [Tasks -> TaskType]
    BY DEF Init
  <2>3. run \in [Runs -> RunType]
    BY <2>1 DEF Init
  <2>4. waits \in [Tasks -> SUBSET Tasks] /\ auto \in [Tasks -> Runs \cup {None}]
    BY DEF Init
  <2>5. pass \in (SUBSET Tasks) \cup {None} /\ looks \in BOOLEAN /\ edits \in Nat /\ restarts \in Nat
    BY DEF Init
  <2> QED BY <2>2, <2>3, <2>4, <2>5 DEF TypeOK
<1>2. \A t \in Tasks : task[t].on = None
  BY DEF Init
<1>3. RunsKnown /\ OnItsRun /\ StoppedIsOff
  BY <1>2, NoneIsNoRun DEF Init, NoRun, RunsKnown, OnItsRun, StoppedIsOff
<1>4. AutoTasks = {} /\ AwaitedByPass = {}
  BY DEF Init, NoRun, AutoTasks, AwaitedByPass
<1>5. PlacesCounted
  BY <1>4, FS_EmptySet, NumbersAssumption DEF PlacesCounted
<1> QED BY <1>1, <1>3, <1>5 DEF IInv

\* What people do to one task: it moves, and may leave its run.
LEMMA PeopleStep ==
  ASSUME IInv, NEW t \in Tasks,
         \/ \E b \in BOOLEAN : SetAuto(t, b)
         \/ Assign(t)
         \/ \E to \in Columns : MoveByHand(t, to)
         \/ \E to \in {"archived", "done"} : ArchiveMany(t, to)
         \/ Stop(t)
         \/ Unassign(t)
         \/ \E many \in BOOLEAN : Delete(t, many)
         \/ ArchiveOld(t)
  PROVE  IInv' /\ Board!Next
<1>0. /\ task[t] \in TaskType /\ looks \in BOOLEAN /\ waits \in [Tasks -> SUBSET Tasks]
      /\ edits \in Nat /\ restarts \in Nat /\ edits + 1 \in Nat
  BY DEF IInv, TypeOK
<1>1. ASSUME NEW b \in BOOLEAN, SetAuto(t, b) PROVE IInv' /\ Board!Next
  <2> DEFINE R == [task[t] EXCEPT !.auto = b]
  <2>1. R \in TaskType /\ R.on = task[t].on /\ R.status = task[t].status
    BY <1>0 DEF TaskType
  <2>2. task' = [task EXCEPT ![t] = R]
    BY <1>1 DEF SetAuto
  <2> HIDE DEF R
  <2> QED BY <1>0, <1>1, <2>1, <2>2, OneLeaves DEF SetAuto, Edits, Here, Kicks
<1>2. CASE Assign(t)
  <2> DEFINE R == Given(Reassigned(t))
  <2>1. /\ Reassigned(t) \in TaskType
        /\ \/ Reassigned(t).on = None
           \/ Reassigned(t) = task[t] /\ task[t].status # "running"
    BY <1>0 DEF Reassigned, TaskType, Statuses
  <2>2. /\ R \in TaskType /\ R.on = Reassigned(t).on
        /\ R.status = "running" => Reassigned(t).status = "running"
    BY <2>1, GivenRow
  <2>3. task' = [task EXCEPT ![t] = R]
    BY <1>2 DEF Assign
  <2> HIDE DEF R
  <2> QED BY <1>0, <1>2, <2>1, <2>2, <2>3, OneLeaves DEF Assign, Edits, Here, Kicks
<1>3. ASSUME NEW to \in Columns, MoveByHand(t, to) PROVE IInv' /\ Board!Next
  <2> DEFINE R == MovedByHand(t, to)
  <2>1. /\ R \in TaskType /\ R.status = to
        /\ to # "running" => R.on = None
        /\ to = "running" => R.on = task[t].on
    <3>1. /\ Moved(task[t], to) \in TaskType /\ Moved(task[t], to).on = task[t].on
          /\ Moved(task[t], to).status = to
      BY <1>0, ColumnsAssumption, MovedRow
    <3> QED BY <3>1, OffRow DEF MovedByHand
  <2>2. task' = [task EXCEPT ![t] = R]
    BY <1>3 DEF MoveByHand
  <2> HIDE DEF R
  <2>3. /\ task[t].status # "gone" /\ auto' = auto /\ pass' = pass /\ looks' \in BOOLEAN
        /\ waits' \in [Tasks -> SUBSET Tasks] /\ edits' \in Nat /\ restarts' \in Nat
    BY <1>0, <1>3 DEF MoveByHand, Edits, Here, Kicks
  <2>4. CASE to = "running"
    <3>1. run' = run
      BY <1>3, <2>4 DEF MoveByHand
    <3>2. R \in TaskType /\ R.on = task[t].on /\ R.status = "running"
      BY <2>1, <2>4
    <3> QED BY <2>2, <2>3, <3>1, <3>2, OneLeaves
  <2>5. CASE to # "running"
    <3>1. run' = LeftRun(t)
      BY <1>3, <2>5 DEF MoveByHand
    <3>2. R \in TaskType /\ R.on = None
      BY <2>1, <2>5
    <3> QED BY <2>2, <2>3, <3>1, <3>2, OneLeaves
  <2> QED BY <2>4, <2>5
<1>4. ASSUME NEW to \in {"archived", "done"}, ArchiveMany(t, to) PROVE IInv' /\ Board!Next
  <2> DEFINE R == Moved(task[t], to)
  <2>1. R \in TaskType /\ R.on = task[t].on /\ R.status = to
    BY <1>0, MovedRow DEF Statuses
  <2>2. task' = [task EXCEPT ![t] = R]
    BY <1>4 DEF ArchiveMany
  <2> HIDE DEF R
  <2> QED BY <1>0, <1>4, <2>1, <2>2, OneLeaves DEF ArchiveMany, Edits, Here
<1>5. CASE Stop(t)
  <2> DEFINE R == [task[t] EXCEPT !.on = None, !.auto = FALSE,
                     !.status = IF task[t].status = "running" THEN "ready" ELSE task[t].status]
  <2>1. R \in TaskType /\ R.on = None
    BY <1>0 DEF TaskType, Statuses
  <2>2. task' = [task EXCEPT ![t] = R]
    BY <1>0, <1>5 DEF Stop, TaskType, IInv, TypeOK
  <2> HIDE DEF R
  <2> QED BY <1>0, <1>5, <2>1, <2>2, OneLeaves DEF Stop, Edits, Here
<1>6. CASE Unassign(t)
  <2> DEFINE z == CASE task[t].status = "running" -> "ready"
                    [] task[t].status = "ready"   -> "todo"
                    [] OTHER                      -> task[t].status
             R == [task[t] EXCEPT !.on = None, !.given = FALSE, !.status = z]
  <2>1. z \in Statuses \cup {"gone"}
    BY <1>0 DEF TaskType, Statuses
  <2>2. task' = [task EXCEPT ![t] = R]
    BY <1>0, <1>6 DEF Unassign, TaskType, IInv, TypeOK
  <2> HIDE DEF z
  <2>3. R \in TaskType /\ R.on = None
    BY <1>0, <2>1 DEF TaskType
  <2> HIDE DEF R
  <2> QED BY <1>0, <1>6, <2>2, <2>3, OneLeaves DEF Unassign, Edits, Here
<1>7. ASSUME NEW many \in BOOLEAN, Delete(t, many) PROVE IInv' /\ Board!Next
  <2> DEFINE R == [task[t] EXCEPT !.status = "gone"]
  <2>1. R \in TaskType /\ R.on = task[t].on /\ R.status = "gone"
    BY <1>0 DEF TaskType
  <2>2. task' = [task EXCEPT ![t] = R] /\ waits' \in [Tasks -> SUBSET Tasks]
    BY <1>0, <1>7 DEF Delete
  <2> HIDE DEF R
  <2> QED BY <1>0, <1>7, <2>1, <2>2, OneLeaves DEF Delete, Edits, Here
<1>8. CASE ArchiveOld(t)
  <2> DEFINE R == [task[t] EXCEPT !.status = "archived"]
  <2>1. R \in TaskType /\ R.on = task[t].on /\ R.status = "archived"
    BY <1>0 DEF TaskType, Statuses
  <2>2. task' = [task EXCEPT ![t] = R]
    BY <1>8 DEF ArchiveOld
  <2> HIDE DEF R
  <2> QED BY <1>0, <1>8, <2>1, <2>2, OneLeaves DEF ArchiveOld
<1> QED BY <1>1, <1>2, <1>3, <1>4, <1>5, <1>6, <1>7, <1>8

\* What a task waits for.
LEMMA SetDependenciesStep ==
  ASSUME IInv, NEW t \in Tasks, NEW on \in SUBSET Tasks, SetDependencies(t, on)
  PROVE  IInv' /\ Board!Next
<1>1. TypeOK'
  BY DEF IInv, TypeOK, SetDependencies, Edits, Kicks
<1>2. RunsKnown' /\ OnItsRun' /\ StoppedIsOff' /\ PlacesCounted'
  BY DEF IInv, SetDependencies, RunsKnown, OnItsRun, StoppedIsOff, PlacesCounted, AwaitedByPass, AutoTasks
<1>3. Board!Next
  BY BoardRests DEF SetDependencies
<1> QED BY <1>1, <1>2, <1>3 DEF IInv

\* A start is asked for: the task may leave its run, and a run nobody knows yet is its own.
LEMMA StartByHandStep ==
  ASSUME IInv, NEW t \in Tasks, NEW r \in Runs, StartByHand(t, r)
  PROVE  IInv' /\ Board!Next
<1> DEFINE R == Reassigned(t)
           Q == [NoRun EXCEPT !.of = t, !.state = "asked"]
<1>0. /\ task[t] \in TaskType /\ run \in [Runs -> RunType] /\ run[r].state = "none"
      /\ task[t].status # "gone" /\ TypeOK
  BY DEF IInv, TypeOK, StartByHand
<1>1. /\ R \in TaskType
      /\ \/ R.on = None
         \/ R = task[t] /\ task[t].status # "running"
  BY <1>0 DEF Reassigned, TaskType, Statuses
<1>2. /\ Q \in RunType /\ Q.of = t /\ Q.state = "asked" /\ Q.by = "person" /\ Q.stop = FALSE
      /\ Q.follow = "no"
  BY DEF NoRun, RunType
<1>3. task' = [task EXCEPT ![t] = R] /\ run' = [LeftRun(t) EXCEPT ![r] = Q]
  BY DEF StartByHand
<1> HIDE DEF R, Q
<1>4. /\ task' \in [Tasks -> TaskType] /\ task'[t] = R
      /\ \A u \in Tasks \ {t} : task'[u] = task[u]
  BY <1>0, <1>1, <1>3 DEF TypeOK
<1>5. /\ run' \in [Runs -> RunType] /\ run'[r] = Q
      /\ \A s \in Runs \ {r} : run'[s] = LeftRun(t)[s]
  BY <1>0, <1>2, <1>3, LeftRunRow
<1>6. TypeOK'
  BY <1>0, <1>4, <1>5 DEF TypeOK, StartByHand, Edits
<1>7. \A s \in Runs \ {r} :
        /\ run'[s].of = run[s].of /\ run'[s].by = run[s].by /\ run'[s].state = run[s].state
        /\ run'[s].follow = run[s].follow
        /\ run'[s].stop # run[s].stop => OnRun(t, s) /\ run[s].state = "live"
        /\ OnRun(t, s) /\ run[s].state = "live" => run'[s].stop
  BY <1>0, <1>5, LeftRunRow
<1>8. RunsKnown'
  BY <1>0, <1>2, <1>5, <1>7 DEF IInv, RunsKnown
<1>9. \A u \in Tasks : /\ task'[u].on \in {None, task[u].on}
                       /\ task[u].status = "gone" => task'[u] = task[u]
  BY <1>0, <1>1, <1>4
<1>10. \A u \in Tasks : task[u].on # r
  BY <1>0 DEF IInv, OnItsRun
<1>11. OnItsRun'
  BY <1>7, <1>9, <1>10, NoneIsNoRun DEF IInv, OnItsRun
<1>12. StoppedIsOff'
  <2> SUFFICES ASSUME NEW u \in Tasks, NEW s \in Runs, run'[s].stop, task'[u].on = s
               PROVE  task'[u].status = "gone"
    BY DEF StoppedIsOff
  <2>1. s # r /\ task[u].on = s
    BY <1>9, <1>10, NoneIsNoRun
  <2>2. CASE run[s].stop
    BY <1>9, <2>1, <2>2 DEF IInv, StoppedIsOff
  <2>3. CASE ~ run[s].stop
    <3>1. OnRun(t, s)
      BY <1>7, <2>1, <2>3
    <3>2. u = t
      BY <2>1, <3>1 DEF IInv, OnItsRun, OnRun
    <3> QED BY <1>1, <1>4, <2>1, <3>1, <3>2, NoneIsNoRun DEF OnRun
  <2> QED BY <2>2, <2>3
<1>13. AwaitedByPass' = AwaitedByPass
  <2>1. \A s \in Runs : run'[s].state = "asked" /\ run'[s].by = "pass"
                          <=> run[s].state = "asked" /\ run[s].by = "pass"
    BY <1>0, <1>2, <1>5, <1>7
  <2> QED BY <2>1 DEF AwaitedByPass
<1>14. PlacesCounted'
  BY <1>13 DEF IInv, PlacesCounted, AutoTasks, StartByHand
<1>15. WorksOn(t)' = None
  BY <1>1, <1>4 DEF WorksOn
<1>16. \A u \in Tasks : Board!Moves(u)
  <2>1. ASSUME NEW u \in Tasks \ {t} PROVE Board!Moves(u)
    BY <1>4, BoardMoves DEF WorksOn
  <2>2. WorksOn(t) = None => Board!Moves(t)
    BY <1>0, <1>15, BoardMoves
  <2>3. ASSUME WorksOn(t) # None PROVE Board!Moves(t)
    <3>1. PICK s \in Runs : WorksOn(t) = s /\ OnRun(t, s)
      BY <1>0, <2>3 DEF WorksOn, OnRun, TaskType
    <3>2. s # r /\ run[s].state \in {"live"} \cup Ends
      BY <1>10, <3>1 DEF IInv, OnItsRun, OnRun, TypeOK, RunType
    <3>3. run'[s].stop \/ run[s].state \in Ends
      BY <1>7, <3>1, <3>2
    <3> QED BY <1>0, <1>15, <3>1, <3>3, BoardMoves
  <2> QED BY <2>1, <2>2, <2>3
<1>17. \A s \in Runs : Board!Same(s) \/ Board!Begins(s) \/ Board!Lives(s)
  <2>1. Board!Begins(r) \/ Board!Same(r) \/ Board!Lives(r)
    BY <1>0, <1>2, <1>5, BoardRuns
  <2>2. ASSUME NEW s \in Runs \ {r} PROVE Board!Same(s) \/ Board!Begins(s) \/ Board!Lives(s)
    <3>1. CASE run'[s].stop = run[s].stop
      BY <1>7, <3>1, BoardRuns
    <3>2. CASE run'[s].stop # run[s].stop
      <4>1. OnRun(t, s) /\ run[s].state = "live" /\ run[s].of = t /\ run'[s].stop
        BY <1>7, <3>2 DEF IInv, OnItsRun, OnRun
      <4>2. WorksOn(t) = s
        BY <4>1 DEF WorksOn, OnRun
      <4> QED BY <1>7, <1>15, <4>1, <4>2, BoardRuns
    <3> QED BY <3>1, <3>2
  <2> QED BY <2>1, <2>2
<1> QED BY <1>6, <1>8, <1>11, <1>12, <1>14, <1>16, <1>17 DEF IInv, Board!Next

-----------------------------------------------------------------------------
(* The run is there, or is refused; it ends, and the worker deals with it.   *)

\* The places the hub fills: one more task at most.
LEMMA OnePlaceMore ==
  ASSUME IInv, NEW t \in Tasks, AutoTasks' \subseteq AutoTasks \cup {t}
  PROVE  /\ Cardinality(AutoTasks') \in Nat
         /\ Cardinality(AutoTasks') <= Cardinality(AutoTasks) + 1
<1>1. IsFiniteSet(AutoTasks)
  BY TasksAssumption, FS_Subset DEF AutoTasks
<1>2. /\ IsFiniteSet(AutoTasks \cup {t})
      /\ Cardinality(AutoTasks \cup {t}) \in {Cardinality(AutoTasks), Cardinality(AutoTasks) + 1}
  BY <1>1, FS_AddElement
<1>3. /\ Cardinality(AutoTasks') <= Cardinality(AutoTasks \cup {t})
      /\ IsFiniteSet(AutoTasks')
  BY <1>2, FS_Subset
<1>4. Cardinality(AutoTasks) \in Nat /\ Cardinality(AutoTasks') \in Nat
  BY <1>1, <1>3, FS_CardinalityType
<1> QED BY <1>2, <1>3, <1>4

LEMMA TakeStep ==
  ASSUME IInv, NEW r \in Runs, Take(r)
  PROVE  IInv' /\ Board!Next
<1>p. run[r].of \in Tasks
  BY DEF IInv, RunsKnown, Take
<1> PICK t \in Tasks : t = run[r].of
  BY <1>p
<1> DEFINE f == IF task[t].status # "gone" THEN "yes" ELSE run[r].follow
           Q == [run[r] EXCEPT !.state = "live", !.follow = f]
           T == IF run[r].by = "pass" THEN task[t] ELSE Given(task[t])
           R == [Moved(T, "running") EXCEPT !.on = r]
<1>0. /\ TypeOK /\ run \in [Runs -> RunType] /\ run[r] \in RunType /\ run[r].state = "asked"
      /\ t \in Tasks /\ task[t] \in TaskType /\ run[r].stop = FALSE /\ run[r].follow = "no"
  <2>1. TypeOK /\ run[r].state = "asked"
    BY DEF IInv, Take
  <2>2. run \in [Runs -> RunType] /\ run[r] \in RunType
    BY <2>1 DEF TypeOK
  <2>3. t \in Tasks /\ ~ run[r].stop /\ run[r].follow = "no"
    BY <2>1 DEF IInv, RunsKnown
  <2>4. run[r].stop \in BOOLEAN
    BY <2>2 DEF RunType
  <2>5. task[t] \in TaskType
    BY <2>1, <2>3 DEF TypeOK
  <2> QED BY <2>1, <2>2, <2>3, <2>4, <2>5
<1>1. /\ Q \in RunType /\ Q.of = t /\ Q.state = "live" /\ Q.stop = FALSE
      /\ Q.follow = "yes" <=> task[t].status # "gone"
  BY <1>0 DEF RunType
<1>2. R \in TaskType /\ R.on = r /\ R.status = "running"
  <2>1. T \in TaskType
    BY <1>0, GivenRow
  <2>2. Moved(T, "running") \in TaskType /\ Moved(T, "running").status = "running"
    BY <2>1, MovedRow DEF Statuses
  <2> QED BY <2>2 DEF TaskType
<1>3. /\ run' = [run EXCEPT ![r] = Q]
      /\ task' = IF task[t].status = "gone" THEN task ELSE [task EXCEPT ![t] = R]
      /\ auto' = IF task[t].status # "gone" /\ run[r].by = "pass" THEN [auto EXCEPT ![t] = r] ELSE auto
  BY <1>0 DEF Take, Here, TypeOK, RunType
<1> HIDE DEF Q, R, f, T
<1>4. /\ run' \in [Runs -> RunType] /\ run'[r] = Q /\ \A s \in Runs \ {r} : run'[s] = run[s]
  BY <1>0, <1>1, <1>3
<1>5. /\ task' \in [Tasks -> TaskType]
      /\ \A u \in Tasks : task'[u] = task[u] \/ (u = t /\ task'[u] = R)
      /\ task'[t] = IF task[t].status = "gone" THEN task[t] ELSE R
  BY <1>0, <1>2, <1>3 DEF TypeOK
<1>6. /\ auto' \in [Tasks -> Runs \cup {None}]
      /\ \A u \in Tasks : auto'[u] = auto[u] \/ (u = t /\ run[r].by = "pass")
  BY <1>0, <1>3 DEF TypeOK
<1>7. TypeOK'
  BY <1>0, <1>4, <1>5, <1>6 DEF TypeOK, Take
<1>8. RunsKnown'
  BY <1>0, <1>1, <1>4 DEF IInv, RunsKnown
<1>9. \A u \in Tasks : task[u].on # r
  BY <1>0 DEF IInv, OnItsRun
<1>10. OnItsRun'
  BY <1>0, <1>1, <1>2, <1>4, <1>5, <1>9 DEF IInv, OnItsRun
<1>11. StoppedIsOff'
  <2> SUFFICES ASSUME NEW u \in Tasks, NEW s \in Runs, run'[s].stop, task'[u].on = s
               PROVE  task'[u].status = "gone"
    BY DEF StoppedIsOff
  <2>1. s # r /\ run[s].stop
    BY <1>1, <1>4
  <2> QED BY <1>2, <1>5, <2>1 DEF IInv, StoppedIsOff
<1>12. AwaitedByPass' = AwaitedByPass \ {r}
  <2>1. \A s \in Runs : run'[s].state = "asked" /\ run'[s].by = "pass"
                          <=> s # r /\ run[s].state = "asked" /\ run[s].by = "pass"
    BY <1>1, <1>4
  <2> QED BY <2>1 DEF AwaitedByPass
<1>13. PlacesCounted'
  <2>0. \A s, u \in AwaitedByPass' : s = u
    BY <1>12 DEF IInv, PlacesCounted
  <2>1. CASE run[r].by = "pass"
    <3>1. r \in AwaitedByPass
      BY <1>0, <2>1 DEF AwaitedByPass
    <3>2. AwaitedByPass' = {}
      BY <1>12, <3>1 DEF IInv, PlacesCounted
    <3>3. Cardinality(AutoTasks) < AutoMax
      BY <3>1 DEF IInv, PlacesCounted
    <3>4. AutoTasks' \subseteq AutoTasks \cup {t}
      BY <1>6 DEF AutoTasks
    <3>5. /\ Cardinality(AutoTasks') \in Nat
          /\ Cardinality(AutoTasks') <= Cardinality(AutoTasks) + 1
      BY <1>0, <3>4, OnePlaceMore
    <3>6. Cardinality(AutoTasks) \in Nat
      BY TasksAssumption, FS_Subset, FS_CardinalityType DEF AutoTasks
    <3>7. Cardinality(AutoTasks') <= AutoMax
      BY <3>3, <3>5, <3>6, NumbersAssumption
    <3> QED BY <2>0, <3>2, <3>7 DEF PlacesCounted
  <2>2. CASE run[r].by # "pass"
    <3>1. AutoTasks' = AutoTasks
      BY <1>6, <2>2 DEF AutoTasks
    <3> QED BY <1>12, <2>0, <3>1 DEF IInv, PlacesCounted
  <2> QED BY <2>1, <2>2
<1>14. WorksOn(t)' = IF task[t].status = "gone" THEN None ELSE r
  BY <1>2, <1>5 DEF WorksOn
<1>15. \A u \in Tasks : Board!Moves(u)
  <2>1. ASSUME NEW u \in Tasks, task'[u] = task[u] PROVE Board!Moves(u)
    BY <2>1, BoardMoves DEF WorksOn
  <2>2. CASE task[t].status # "gone"
    <3>1. /\ WorksOn(t)' = r /\ run[r].of = t /\ ~ run'[r].stop /\ task'[t].status = "running"
          /\ run[r].state = "asked" /\ run'[r].state = "live"
      BY <1>0, <1>1, <1>2, <1>4, <1>5, <1>14, <2>2
    <3>2. Board!Moves(t)
      BY <1>0, <2>2, <3>1, BoardMoves
    <3> QED BY <1>5, <2>1, <3>2
  <2>3. CASE task[t].status = "gone"
    BY <1>5, <2>1, <2>3
  <2> QED BY <2>2, <2>3
<1>16. \A s \in Runs : Board!Same(s) \/ Board!Begins(s) \/ Board!Lives(s)
  <2>1. Board!Begins(r) \/ Board!Same(r) \/ Board!Lives(r)
    BY <1>0, <1>1, <1>4, <1>14, NoneIsNoRun, BoardRuns
  <2>2. ASSUME NEW s \in Runs \ {r} PROVE Board!Same(s) \/ Board!Begins(s) \/ Board!Lives(s)
    BY <1>4, BoardRuns
  <2> QED BY <2>1, <2>2
<1> QED BY <1>7, <1>8, <1>10, <1>11, <1>13, <1>15, <1>16 DEF IInv, Board!Next

LEMMA RefusedStep ==
  ASSUME IInv, NEW r \in Runs, Refused(r)
  PROVE  IInv' /\ Board!Next
<1>p. run[r].of \in Tasks
  BY DEF IInv, RunsKnown, Refused
<1> PICK t \in Tasks : t = run[r].of
  BY <1>p
<1> DEFINE R == Moved(task[t], "blocked")
<1>0. /\ TypeOK /\ run \in [Runs -> RunType] /\ run[r].state = "asked" /\ t \in Tasks
      /\ task[t] \in TaskType
  BY DEF IInv, TypeOK, RunsKnown, Refused
<1>1. R \in TaskType /\ R.on = task[t].on /\ R.status = "blocked"
  BY <1>0, MovedRow DEF Statuses
<1>2. /\ NoRun \in RunType /\ NoRun.state = "none" /\ NoRun.stop = FALSE /\ NoRun.follow = "no"
  BY DEF NoRun, RunType
<1>3. /\ run' \in [Runs -> RunType] /\ run'[r] = NoRun /\ \A s \in Runs \ {r} : run'[s] = run[s]
  BY <1>0, <1>2 DEF Refused
<1>4. /\ task' = task \/ (task' = [task EXCEPT ![t] = R] /\ task[t].status # "gone")
  BY DEF Refused, Here
<1> HIDE DEF R
<1>5. /\ task' \in [Tasks -> TaskType]
      /\ \A u \in Tasks : /\ task'[u].on = task[u].on
                          /\ task[u].status = "gone" => task'[u] = task[u]
  BY <1>0, <1>1, <1>4 DEF TypeOK
<1>6. TypeOK'
  BY <1>0, <1>3, <1>5 DEF TypeOK, Refused
<1>7. \A u \in Tasks : task[u].on # r
  BY <1>0 DEF IInv, OnItsRun
<1>8. RunsKnown' /\ OnItsRun' /\ StoppedIsOff'
  BY <1>2, <1>3, <1>5, <1>7 DEF IInv, RunsKnown, OnItsRun, StoppedIsOff
<1>9. AwaitedByPass' \subseteq AwaitedByPass
  BY <1>2, <1>3 DEF AwaitedByPass
<1>10. PlacesCounted'
  BY <1>9 DEF IInv, PlacesCounted, AutoTasks, Refused
<1>11. \A u \in Tasks : Board!Moves(u)
  <2>1. ASSUME NEW u \in Tasks, task'[u] = task[u] PROVE Board!Moves(u)
    BY <2>1, BoardMoves DEF WorksOn
  <2>2. CASE task' = [task EXCEPT ![t] = R] /\ task[t].status # "gone"
    <3>1. task'[t] = R /\ \A u \in Tasks \ {t} : task'[u] = task[u]
      BY <1>0, <2>2 DEF TypeOK
    <3>2. /\ WorksOn(t)' = None /\ task'[t].status = "blocked"
          /\ run[r].of = t /\ run[r].state = "asked" /\ run'[r].state = "none"
      BY <1>0, <1>1, <1>2, <1>3, <3>1 DEF WorksOn
    <3>3. WorksOn(t) \in Runs \cup {None}
      BY <1>0 DEF WorksOn, TaskType
    <3>4. Board!Moves(t)
      BY <1>0, <2>2, <3>2, <3>3, BoardMoves
    <3> QED BY <2>1, <3>1, <3>4
  <2> QED BY <1>4, <2>1, <2>2
<1>12. \A s \in Runs : Board!Same(s) \/ Board!Begins(s) \/ Board!Lives(s)
  <2>1. Board!Begins(r) \/ Board!Same(r) \/ Board!Lives(r)
    BY <1>0, <1>2, <1>3, BoardRuns
  <2>2. ASSUME NEW s \in Runs \ {r} PROVE Board!Same(s) \/ Board!Begins(s) \/ Board!Lives(s)
    BY <1>3, BoardRuns
  <2> QED BY <2>1, <2>2
<1> QED BY <1>6, <1>8, <1>10, <1>11, <1>12 DEF IInv, Board!Next

LEMMA RunEndsStep ==
  ASSUME IInv, NEW r \in Runs, NEW end \in Ends, RunEnds(r, end)
  PROVE  IInv' /\ Board!Next
<1> DEFINE Q == [run[r] EXCEPT !.state = end]
<1>0. TypeOK /\ run \in [Runs -> RunType] /\ run[r] \in RunType /\ run[r].state = "live"
  BY DEF IInv, TypeOK, RunEnds
<1>1. Q \in RunType /\ Q.of = run[r].of /\ Q.state = end /\ Q.stop = run[r].stop
      /\ Q.follow = run[r].follow
  BY <1>0 DEF RunType
<1>t. run[r].of \in Tasks /\ task' = task /\ (run[r].stop => end # "succeeded")
  BY <1>0 DEF IInv, RunsKnown, RunEnds
<1>2. run' = [run EXCEPT ![r] = Q]
  BY DEF RunEnds
<1> HIDE DEF Q
<1>3. /\ run' \in [Runs -> RunType] /\ run'[r] = Q /\ \A s \in Runs \ {r} : run'[s] = run[s]
  BY <1>0, <1>1, <1>2
<1>4. TypeOK'
  BY <1>0, <1>3 DEF TypeOK, RunEnds
<1>5. RunsKnown'
  BY <1>0, <1>1, <1>3 DEF IInv, RunsKnown
<1>6. OnItsRun' /\ StoppedIsOff'
  BY <1>0, <1>1, <1>3 DEF IInv, OnItsRun, StoppedIsOff, RunEnds
<1>7. AwaitedByPass' = AwaitedByPass
  BY <1>0, <1>1, <1>3 DEF AwaitedByPass
<1>8. PlacesCounted'
  BY <1>7 DEF IInv, PlacesCounted, AutoTasks, RunEnds
<1>9. \A u \in Tasks : Board!Moves(u)
  BY <1>t, BoardMoves DEF WorksOn
<1>10. \A s \in Runs : Board!Same(s) \/ Board!Begins(s) \/ Board!Lives(s)
  <2>1. Board!Begins(r) \/ Board!Same(r) \/ Board!Lives(r)
    BY <1>0, <1>1, <1>3, <1>t, BoardRuns
  <2>2. ASSUME NEW s \in Runs \ {r} PROVE Board!Same(s) \/ Board!Begins(s) \/ Board!Lives(s)
    BY <1>3, BoardRuns
  <2> QED BY <2>1, <2>2
<1> QED BY <1>4, <1>5, <1>6, <1>8, <1>9, <1>10 DEF IInv, Board!Next

LEMMA SettleStep ==
  ASSUME IInv, NEW r \in Runs, Settle(r)
  PROVE  IInv' /\ Board!Next
<1>p. run[r].of \in Tasks
  BY DEF IInv, RunsKnown, Settle
<1> PICK t \in Tasks : t = run[r].of
  BY <1>p
<1> DEFINE R == Finished(t, r, run[r].state)
           Q == [run[r] EXCEPT !.follow = "done"]
<1>0. /\ TypeOK /\ run \in [Runs -> RunType] /\ run[r] \in RunType /\ run[r].state \in Ends
      /\ t \in Tasks /\ task \in [Tasks -> TaskType]
  BY DEF IInv, TypeOK, RunsKnown, Settle
<1>1. /\ R \in TaskType
      /\ \/ R.on = None /\ OnRun(t, r) /\ R.status = Board!Where(run[r].state)
         \/ R = task[t] /\ ~ OnRun(t, r)
  BY <1>0, FinishedRow
<1>2. /\ Q \in RunType /\ Q.of = t /\ Q.state = run[r].state /\ Q.stop = run[r].stop
      /\ Q.by = run[r].by /\ Q.follow = "done"
  BY <1>0 DEF RunType
<1>3. task' = [task EXCEPT ![t] = R] /\ run' = [run EXCEPT ![r] = Q]
  BY DEF Settle
<1> HIDE DEF R, Q
<1>4. /\ run' \in [Runs -> RunType] /\ run'[r] = Q /\ \A s \in Runs \ {r} : run'[s] = run[s]
  BY <1>0, <1>2, <1>3
<1>5. /\ task' \in [Tasks -> TaskType]
      /\ \A u \in Tasks : task'[u].on = None \/ task'[u] = task[u]
      /\ task'[t] = R /\ \A u \in Tasks \ {t} : task'[u] = task[u]
  BY <1>0, <1>1, <1>3
<1>6. TypeOK'
  BY <1>0, <1>4, <1>5 DEF TypeOK, Settle
<1>7. \A s \in Runs : /\ run'[s].of = run[s].of /\ run'[s].state = run[s].state
                      /\ run'[s].stop = run[s].stop /\ run'[s].by = run[s].by
  BY <1>2, <1>4
<1>8. RunsKnown'
  BY <1>0, <1>2, <1>4 DEF IInv, RunsKnown
<1>9. OnItsRun' /\ StoppedIsOff'
  BY <1>5, <1>7, NoneIsNoRun DEF IInv, OnItsRun, StoppedIsOff
<1>10. AwaitedByPass' = AwaitedByPass
  BY <1>7 DEF AwaitedByPass
<1>11. PlacesCounted'
  BY <1>10 DEF IInv, PlacesCounted, AutoTasks, Settle
<1>12. WorksOn(t) = r =>
         /\ OnRun(t, r) /\ WorksOn(t)' = None
         /\ task'[t].status = Board!Where(run'[r].state)
  BY <1>1, <1>2, <1>4, <1>5, NoneIsNoRun DEF WorksOn, OnRun
<1>13. \A u \in Tasks : Board!Moves(u)
  <2>1. ASSUME NEW u \in Tasks, task'[u] = task[u] PROVE Board!Moves(u)
    BY <2>1, BoardMoves DEF WorksOn
  <2>2. CASE OnRun(t, r)
    <3>1. WorksOn(t) = r /\ task[t].status # "gone"
      BY <2>2 DEF WorksOn, OnRun
    <3>2. Board!Moves(t)
      BY <1>0, <1>12, <3>1, BoardMoves
    <3> QED BY <1>5, <2>1, <3>2
  <2>3. CASE ~ OnRun(t, r)
    BY <1>1, <1>5, <2>1, <2>3
  <2> QED BY <2>2, <2>3
<1>14. \A s \in Runs : Board!Same(s) \/ Board!Begins(s) \/ Board!Lives(s)
  <2>1. Board!Begins(r) \/ Board!Same(r) \/ Board!Lives(r)
    BY <1>0, <1>2, <1>4, <1>12, BoardRuns
  <2>2. ASSUME NEW s \in Runs \ {r} PROVE Board!Same(s) \/ Board!Begins(s) \/ Board!Lives(s)
    BY <1>4, BoardRuns
  <2> QED BY <2>1, <2>2
<1> QED BY <1>6, <1>8, <1>9, <1>11, <1>13, <1>14 DEF IInv, Board!Next

-----------------------------------------------------------------------------
(* The pass.  What it forgets are the runs their tasks have left.            *)

LEMMA StillAutoRow ==
  ASSUME TypeOK
  PROVE  /\ StillAuto \in [Tasks -> Runs \cup {None}]
         /\ \A t \in Tasks : StillAuto[t] # None => auto[t] # None
BY DEF TypeOK, StillAuto

LEMMA PassBeginsStep ==
  ASSUME IInv, PassBegins
  PROVE  IInv' /\ Board!Next
<1>1. TypeOK'
  BY DEF IInv, TypeOK, PassBegins
<1>2. RunsKnown' /\ OnItsRun' /\ StoppedIsOff' /\ PlacesCounted'
  BY DEF IInv, PassBegins, RunsKnown, OnItsRun, StoppedIsOff, PlacesCounted, AwaitedByPass, AutoTasks
<1>3. Board!Next
  BY BoardRests DEF PassBegins
<1> QED BY <1>1, <1>2, <1>3 DEF IInv

LEMMA PassStartsStep ==
  ASSUME IInv, NEW t \in Tasks, NEW r \in Runs, PassStarts(t, r)
  PROVE  IInv' /\ Board!Next
<1> DEFINE Q == [NoRun EXCEPT !.of = t, !.by = "pass", !.state = "asked"]
<1>0. TypeOK /\ run \in [Runs -> RunType] /\ run[r].state = "none" /\ task' = task
  BY DEF IInv, TypeOK, PassStarts
<1>1. /\ Q \in RunType /\ Q.of = t /\ Q.state = "asked" /\ Q.by = "pass" /\ Q.stop = FALSE
      /\ Q.follow = "no"
  BY DEF NoRun, RunType
<1>2. run' = [run EXCEPT ![r] = Q]
  BY DEF PassStarts
<1> HIDE DEF Q
<1>3. /\ run' \in [Runs -> RunType] /\ run'[r] = Q /\ \A s \in Runs \ {r} : run'[s] = run[s]
  BY <1>0, <1>1, <1>2
<1>4. auto' = StillAuto /\ StillAuto \in [Tasks -> Runs \cup {None}]
  BY <1>0, StillAutoRow DEF PassStarts
<1>5. pass' \in (SUBSET Tasks) \cup {None}
  BY <1>0 DEF PassStarts, PassIsFree, TypeOK
<1>6. TypeOK'
  BY <1>0, <1>3, <1>4, <1>5 DEF TypeOK, PassStarts
<1>7. \A u \in Tasks : task[u].on # r
  BY <1>0 DEF IInv, OnItsRun
<1>8. RunsKnown'
  BY <1>1, <1>3 DEF IInv, RunsKnown
<1>9. OnItsRun' /\ StoppedIsOff'
  BY <1>0, <1>3, <1>7 DEF IInv, OnItsRun, StoppedIsOff
<1>10. AwaitedByPass = {}
  BY DEF PassStarts, PassIsFree, AwaitedByPass
<1>11. AwaitedByPass' = {r}
  <2>1. \A s \in Runs : run'[s].state = "asked" /\ run'[s].by = "pass" <=> s = r
    BY <1>1, <1>3, <1>10 DEF AwaitedByPass
  <2> QED BY <2>1 DEF AwaitedByPass
<1>12. AutoTasks' = Going
  BY <1>4 DEF AutoTasks, Going
<1>13. Cardinality(AutoTasks') < AutoMax
  <2>1. Cardinality(Going) \in Nat
    BY TasksAssumption, FS_Subset, FS_CardinalityType DEF Going
  <2>2. ~ (Cardinality(Going) >= AutoMax)
    BY DEF PassStarts, Full
  <2> QED BY <1>12, <2>1, <2>2, NumbersAssumption
<1>14. Cardinality(AutoTasks') <= AutoMax
  <2>1. Cardinality(Going) \in Nat
    BY TasksAssumption, FS_Subset, FS_CardinalityType DEF Going
  <2> QED BY <1>12, <1>13, <2>1, NumbersAssumption
<1>15. PlacesCounted'
  BY <1>11, <1>13, <1>14 DEF PlacesCounted
<1>16. \A u \in Tasks : Board!Moves(u)
  BY <1>0, BoardMoves DEF WorksOn
<1>17. \A s \in Runs : Board!Same(s) \/ Board!Begins(s) \/ Board!Lives(s)
  <2>1. Board!Begins(r) \/ Board!Same(r) \/ Board!Lives(r)
    BY <1>0, <1>1, <1>3, BoardRuns
  <2>2. ASSUME NEW s \in Runs \ {r} PROVE Board!Same(s) \/ Board!Begins(s) \/ Board!Lives(s)
    BY <1>3, BoardRuns
  <2> QED BY <2>1, <2>2
<1> QED BY <1>6, <1>8, <1>9, <1>15, <1>16, <1>17 DEF IInv, Board!Next

\* Fewer places taken and none awaited: the count holds.
LEMMA FewerPlaces ==
  ASSUME IInv, AutoTasks' \subseteq AutoTasks, AwaitedByPass' \subseteq AwaitedByPass
  PROVE  PlacesCounted'
<1>1. IsFiniteSet(AutoTasks)
  BY TasksAssumption, FS_Subset DEF AutoTasks
<1>2. /\ Cardinality(AutoTasks') <= Cardinality(AutoTasks) /\ IsFiniteSet(AutoTasks')
  BY <1>1, FS_Subset
<1>3. Cardinality(AutoTasks) \in Nat /\ Cardinality(AutoTasks') \in Nat
  BY <1>1, <1>2, FS_CardinalityType
<1>4. Cardinality(AutoTasks) <= AutoMax
  BY DEF IInv, PlacesCounted
<1>5. Cardinality(AutoTasks') <= AutoMax
  BY <1>2, <1>3, <1>4, NumbersAssumption
<1>6. AwaitedByPass' # {} => Cardinality(AutoTasks') < AutoMax
  <2>1. AwaitedByPass # {} => Cardinality(AutoTasks) < AutoMax
    BY DEF IInv, PlacesCounted
  <2> QED BY <1>2, <1>3, <2>1, NumbersAssumption
<1>7. \A r, s \in AwaitedByPass' : r = s
  BY DEF IInv, PlacesCounted
<1> QED BY <1>5, <1>6, <1>7 DEF PlacesCounted

LEMMA PassEndsStep ==
  ASSUME IInv, PassEnds
  PROVE  IInv' /\ Board!Next
<1>1. /\ auto' \in [Tasks -> Runs \cup {None}]
      /\ \A t \in Tasks : auto'[t] # None => auto[t] # None
  BY StillAutoRow DEF IInv, TypeOK, PassEnds
<1>2. TypeOK'
  BY <1>1 DEF IInv, TypeOK, PassEnds
<1>3. RunsKnown' /\ OnItsRun' /\ StoppedIsOff'
  BY DEF IInv, PassEnds, RunsKnown, OnItsRun, StoppedIsOff
<1>4. AutoTasks' \subseteq AutoTasks /\ AwaitedByPass' \subseteq AwaitedByPass
  BY <1>1 DEF AutoTasks, AwaitedByPass, PassEnds
<1>5. Board!Next
  BY BoardRests DEF PassEnds
<1> QED BY <1>2, <1>3, <1>4, <1>5, FewerPlaces DEF IInv

-----------------------------------------------------------------------------
\* What a restart makes of a task: it leaves its run, or was not running on one.
LEMMA BootSettledRow ==
  ASSUME IInv, NEW t \in Tasks
  PROVE  /\ BootSettled(t) \in TaskType
         /\ BootSettled(t).on \in {None, task[t].on}
         /\ task[t].status = "gone" => BootSettled(t) = task[t]
         /\ \A r \in Runs : OnRun(t, r) =>
              /\ BootSettled(t).on = None
              /\ BootSettled(t).status =
                   Board!Where(IF run[r].state \in Ends THEN run[r].state ELSE "failed")
         /\ task[t].status # "running" => BootSettled(t) = task[t]
         /\ task[t].on = None => BootSettled(t).on = None
<1>0. TypeOK /\ task[t] \in TaskType /\ run \in [Runs -> RunType]
  BY DEF IInv, TypeOK
<1>1. CASE task[t].status # "running"
  BY <1>0, <1>1 DEF BootSettled, OnRun
<1>2. CASE task[t].status = "running" /\ task[t].on = None
  <2>1. BootSettled(t) = Moved(task[t], "blocked")
    BY <1>2 DEF BootSettled
  <2>2. Moved(task[t], "blocked") \in TaskType /\ Moved(task[t], "blocked").on = task[t].on
    BY <1>0, MovedRow DEF Statuses
  <2>3. \A r \in Runs : ~ OnRun(t, r)
    BY <1>2, NoneIsNoRun DEF OnRun
  <2> QED BY <1>2, <2>1, <2>2, <2>3
<1>3. CASE task[t].status = "running" /\ task[t].on # None
  <2>1. PICK r \in Runs : task[t].on = r
    BY <1>0, <1>3 DEF TaskType
  <2> DEFINE e == IF run[r].state \in Ends THEN run[r].state ELSE "failed"
  <2>2. e \in Ends /\ BootSettled(t) = Finished(t, r, e)
    BY <1>3, <2>1 DEF BootSettled
  <2> HIDE DEF e
  <2>3. OnRun(t, r)
    BY <1>3, <2>1 DEF OnRun
  <2>4. /\ Finished(t, r, e) \in TaskType /\ Finished(t, r, e).on = None
        /\ Finished(t, r, e).status = Board!Where(e)
    BY <1>0, <2>2, <2>3, FinishedRow
  <2>5. \A q \in Runs : OnRun(t, q) => q = r
    BY <2>1 DEF OnRun
  <2> QED BY <1>3, <2>2, <2>4, <2>5 DEF e
<1> QED BY <1>1, <1>2, <1>3

\* A restart knows of no start that was awaited, and asks no run to stop.
LEMMA RestartStep ==
  ASSUME IInv, Restart
  PROVE  IInv' /\ Board!Next
<1>0. TypeOK /\ run \in [Runs -> RunType]
  BY DEF IInv, TypeOK
<1>1. /\ NoRun \in RunType /\ NoRun.state = "none" /\ NoRun.stop = FALSE /\ NoRun.follow = "no"
  BY DEF NoRun, RunType
<1>2. \A R \in RunType :
        /\ LET S == [R EXCEPT !.state = "failed", !.follow = "no"]
           IN  /\ S \in RunType /\ S.of = R.of /\ S.state = "failed" /\ S.stop = R.stop
               /\ S.follow = "no"
        /\ LET S == [R EXCEPT !.follow = "no"]
           IN  /\ S \in RunType /\ S.of = R.of /\ S.state = R.state /\ S.stop = R.stop
               /\ S.follow = "no"
  BY DEF RunType
<1> DEFINE After(r) == CASE run[r].state = "asked" -> NoRun
                         [] run[r].state = "live"  -> [run[r] EXCEPT !.state = "failed", !.follow = "no"]
                         [] run[r].state \in Ends /\ run[r].follow = "yes" ->
                              [run[r] EXCEPT !.follow = "no"]
                         [] OTHER                  -> run[r]
<1>14. run' = [r \in Runs |-> After(r)]
  BY DEF Restart
<1>3. ASSUME NEW r \in Runs
      PROVE  /\ run'[r] \in RunType /\ run'[r].state # "asked"
             /\ run'[r].state = "none" => ~ run'[r].stop /\ run'[r].follow = "no"
             /\ run[r].state \notin Early =>
                  run'[r].of = run[r].of /\ run'[r].stop = run[r].stop /\ run'[r].state \notin Early
             /\ run[r].state \in Early => run'[r].state = "none"
             /\ run'[r].follow # "yes"
             /\ run[r].state = "none" => run'[r] = run[r]
             /\ run[r].state = "live" => run'[r].state = "failed"
             /\ run[r].state \in Ends => run'[r].state = run[r].state
  <2>0. run[r] \in RunType /\ (run[r].state \in Early => ~ run[r].stop /\ run[r].follow = "no")
    BY <1>0 DEF IInv, RunsKnown
  <2>1. CASE run[r].state = "asked"
    <3>1. run'[r] = NoRun
      BY <1>14, <2>1
    <3> QED BY <1>1, <2>1, <3>1
  <2>2. CASE run[r].state = "live"
    <3> DEFINE S == [run[r] EXCEPT !.state = "failed", !.follow = "no"]
    <3>1. run'[r] = S
      BY <1>14, <2>2
    <3>2. S \in RunType /\ S.of = run[r].of /\ S.state = "failed" /\ S.stop = run[r].stop
          /\ S.follow = "no"
      BY <1>2, <2>0
    <3> HIDE DEF S
    <3> QED BY <2>2, <3>1, <3>2
  <2>3. CASE run[r].state \notin {"asked", "live"} /\ run[r].follow = "yes"
    <3> DEFINE S == [run[r] EXCEPT !.follow = "no"]
    <3>0. run[r].state \in Ends
      BY <2>0, <2>3 DEF RunType
    <3>1. run'[r] = S
      BY <1>14, <2>3, <3>0
    <3>2. S \in RunType /\ S.of = run[r].of /\ S.state = run[r].state /\ S.stop = run[r].stop
          /\ S.follow = "no"
      BY <1>2, <2>0
    <3> HIDE DEF S
    <3> QED BY <2>0, <2>3, <3>1, <3>2
  <2>4. CASE run[r].state \notin {"asked", "live"} /\ run[r].follow # "yes"
    <3>1. run'[r] = run[r]
      BY <1>14, <2>4
    <3> QED BY <2>0, <2>4, <3>1
  <2> QED BY <2>1, <2>2, <2>3, <2>4
<1>4. run' \in [Runs -> RunType]
  <2>1. \A r \in Runs : run'[r] = After(r)
    BY <1>14
  <2>2. \A r \in Runs : After(r) \in RunType
    BY <1>3, <2>1
  <2> HIDE DEF After
  <2> QED BY <1>14, <2>2
<1>5. \A t \in Tasks : task'[t] = BootSettled(t)
  BY DEF Restart
<1>6. task' \in [Tasks -> TaskType]
  BY BootSettledRow DEF Restart
<1>7. TypeOK'
  <2>1. auto' \in [Tasks -> Runs \cup {None}] /\ waits' \in [Tasks -> SUBSET Tasks]
    BY <1>0 DEF TypeOK, Restart
  <2>2. pass' \in (SUBSET Tasks) \cup {None} /\ looks' \in BOOLEAN
    BY DEF Restart
  <2>3. edits \in Nat /\ edits' = edits /\ restarts \in Nat /\ restarts' = restarts + 1
    BY <1>0 DEF TypeOK, Restart
  <2> QED BY <1>4, <1>6, <2>1, <2>2, <2>3 DEF TypeOK
<1>8. \A t \in Tasks : /\ task'[t].on \in {None, task[t].on}
                       /\ task[t].status = "gone" => task'[t] = task[t]
  BY <1>5, BootSettledRow
<1>9. RunsKnown'
  BY <1>3 DEF IInv, RunsKnown
<1>10. OnItsRun'
  BY <1>3, <1>8, NoneIsNoRun DEF IInv, OnItsRun
<1>11. StoppedIsOff'
  BY <1>3, <1>8, NoneIsNoRun DEF IInv, StoppedIsOff
<1>12. AutoTasks' \subseteq AutoTasks
  BY DEF AutoTasks, Restart
<1>13. AwaitedByPass' \subseteq AwaitedByPass
  BY <1>3 DEF AwaitedByPass
<1> HIDE DEF After
<1>15. \A t \in Tasks, r \in Runs : WorksOn(t) = r =>
         /\ WorksOn(t)' = None /\ run'[r].state \in Ends
         /\ task'[t].status = Board!Where(run'[r].state)
  <2> SUFFICES ASSUME NEW t \in Tasks, NEW r \in Runs, WorksOn(t) = r
               PROVE  /\ WorksOn(t)' = None /\ run'[r].state \in Ends
                      /\ task'[t].status = Board!Where(run'[r].state)
    OBVIOUS
  <2>1. OnRun(t, r) /\ run[r].state \in {"live"} \cup Ends
    BY <1>0, NoneIsNoRun DEF WorksOn, OnRun, IInv, OnItsRun, TypeOK, RunType
  <2>2. run'[r].state = IF run[r].state \in Ends THEN run[r].state ELSE "failed"
    BY <1>3, <2>1
  <2>3. /\ task'[t].on = None
        /\ task'[t].status = Board!Where(IF run[r].state \in Ends THEN run[r].state ELSE "failed")
    BY <1>5, <2>1, BootSettledRow
  <2> QED BY <2>2, <2>3 DEF WorksOn
<1>16. \A t \in Tasks : Board!Moves(t)
  <2> SUFFICES ASSUME NEW t \in Tasks PROVE Board!Moves(t)
    OBVIOUS
  <2>1. task[t].status = "gone" => task'[t].status = "gone"
    BY <1>8
  <2>2. ASSUME NEW r \in Runs, WorksOn(t) = r PROVE Board!Moves(t)
    BY <1>15, <2>1, <2>2, BoardMoves
  <2>3. CASE WorksOn(t) = None
    <3>1. task'[t] = task[t] \/ task'[t].on = None
      BY <1>5, <2>3, BootSettledRow DEF WorksOn
    <3>2. WorksOn(t)' = None
      BY <2>3, <3>1 DEF WorksOn
    <3> QED BY <2>1, <2>3, <3>2, BoardMoves
  <2>4. WorksOn(t) \in Runs \cup {None}
    BY <1>0 DEF WorksOn, TypeOK, TaskType
  <2> QED BY <2>2, <2>3, <2>4
<1>17. \A r \in Runs : Board!Same(r) \/ Board!Begins(r) \/ Board!Lives(r)
  <2> SUFFICES ASSUME NEW r \in Runs PROVE Board!Same(r) \/ Board!Begins(r) \/ Board!Lives(r)
    OBVIOUS
  <2>1. CASE run[r].state = "none"
    BY <1>3, <2>1, BoardRuns
  <2>2. CASE run[r].state = "asked"
    BY <1>3, <2>2, BoardRuns
  <2>3. CASE run[r].state \in {"live"} \cup Ends
    <3>1. /\ run'[r].of = run[r].of /\ run[r].of \in Tasks /\ run'[r].stop = run[r].stop
          /\ run'[r].follow # "yes" /\ run'[r].state \in Ends
          /\ run'[r].state = run[r].state \/ (run[r].state = "live" /\ run'[r].state = "failed")
      BY <1>3, <2>3 DEF IInv, RunsKnown
    <3>2. WorksOn(run[r].of) = r =>
            /\ WorksOn(run[r].of)' = None
            /\ task'[run[r].of].status = Board!Where(run'[r].state)
      BY <1>15, <3>1
    <3> QED BY <2>3, <3>1, <3>2, BoardRuns
  <2> QED BY <1>0, <2>1, <2>2, <2>3 DEF TypeOK, RunType
<1>18. Board!Next
  BY <1>16, <1>17 DEF Board!Next
<1> QED BY <1>7, <1>9, <1>10, <1>11, <1>12, <1>13, <1>18, FewerPlaces DEF IInv

-----------------------------------------------------------------------------
LEMMA StutterStep ==
  ASSUME IInv, UNCHANGED vars
  PROVE  IInv' /\ Board!Next
<1>1. IInv'
  BY DEF vars, IInv, TypeOK, RunsKnown, OnItsRun, StoppedIsOff, PlacesCounted, AwaitedByPass,
         AutoTasks, OnRun
<1>2. Board!Next
  BY BoardRests DEF vars
<1> QED BY <1>1, <1>2

LEMMA StepHolds ==
  ASSUME IInv, [Next]_vars
  PROVE  IInv' /\ Board!Next
<1>1. ASSUME NEW t \in Tasks,
             \/ \E b \in BOOLEAN : SetAuto(t, b)
             \/ Assign(t)
             \/ \E r \in Runs : StartByHand(t, r)
             \/ \E to \in Columns : MoveByHand(t, to)
             \/ \E to \in {"archived", "done"} : ArchiveMany(t, to)
             \/ Stop(t)
             \/ Unassign(t)
             \/ \E many \in BOOLEAN : Delete(t, many)
             \/ \E on \in SUBSET Tasks : SetDependencies(t, on)
      PROVE  IInv' /\ Board!Next
  <2>1. CASE \E r \in Runs : StartByHand(t, r)
    BY <2>1, StartByHandStep
  <2>2. CASE \E on \in SUBSET Tasks : SetDependencies(t, on)
    BY <2>2, SetDependenciesStep
  <2> QED BY <1>1, <2>1, <2>2, PeopleStep
<1>2. CASE People
  BY <1>1, <1>2 DEF People
<1>3. CASE \E t \in Tasks : ArchiveOld(t)
  BY <1>3, PeopleStep
<1>4. CASE \E r \in Runs : Take(r)
  BY <1>4, TakeStep
<1>5. CASE \E r \in Runs : Refused(r)
  BY <1>5, RefusedStep
<1>6. CASE \E r \in Runs, end \in Ends : RunEnds(r, end)
  <2>1. PICK r \in Runs, end \in Ends : RunEnds(r, end)
    BY <1>6
  <2> QED BY <2>1, RunEndsStep
<1>7. CASE \E r \in Runs : Settle(r)
  BY <1>7, SettleStep
<1>8. CASE PassBegins
  BY <1>8, PassBeginsStep
<1>9. CASE \E t \in Tasks, r \in Runs : PassStarts(t, r)
  BY <1>9, PassStartsStep
<1>10. CASE PassEnds
  BY <1>10, PassEndsStep
<1>11. CASE Restart
  BY <1>11, RestartStep
<1>12. CASE UNCHANGED vars
  BY <1>12, StutterStep
<1> QED BY <1>2, <1>3, <1>4, <1>5, <1>6, <1>7, <1>8, <1>9, <1>10, <1>11, <1>12 DEF Next

\* A task on a run is on one of its own, that exists; a run asked to stop is left; and the
\* pass has a place for the one start it awaits (runs.ts, index.ts): in every reachable state.
THEOREM TaskInvariance == Spec => []IInv
<1>1. Init => IInv
  BY InitHolds
<1>2. IInv /\ [Next]_vars => IInv'
  BY StepHolds
<1> QED BY <1>1, <1>2, PTL DEF Spec

\* The rows, the runs and the pass are always of their types.
THEOREM TaskTypes == Spec => []TypeOK
<1>1. IInv => TypeOK
  BY DEF IInv
<1> QED BY <1>1, TaskInvariance, PTL

\* leaveRun comes with leaving: no task is ever running on a run that was asked to stop.
THEOREM StoppedIsLeft == Spec => []StoppedRunIsLeft
<1>1. IInv => StoppedRunIsLeft
  BY DEF IInv, StoppedIsOff, StoppedRunIsLeft, OnRun
<1> QED BY <1>1, TaskInvariance, PTL

\* The places of autoStart: the runs it started, that their tasks are on, never pass AutoMax.
THEOREM PlacesAreHeld == Spec => []PlacesHold
<1>1. ASSUME IInv PROVE PlacesHold
  <2> DEFINE S == {t \in Tasks : auto[t] # None /\ OnRun(t, auto[t])}
  <2>1. IsFiniteSet(AutoTasks)
    BY TasksAssumption, FS_Subset DEF AutoTasks
  <2>2. S \subseteq AutoTasks
    BY DEF AutoTasks
  <2> HIDE DEF S
  <2>3. Cardinality(S) <= Cardinality(AutoTasks) /\ IsFiniteSet(S)
    BY <2>1, <2>2, FS_Subset
  <2>4. Cardinality(AutoTasks) \in Nat /\ Cardinality(S) \in Nat
    BY <2>1, <2>3, FS_CardinalityType
  <2>5. Cardinality(AutoTasks) <= AutoMax
    BY <1>1 DEF IInv, PlacesCounted
  <2>6. Cardinality(S) <= AutoMax
    BY <2>3, <2>4, <2>5, NumbersAssumption
  <2> QED BY <2>6 DEF PlacesHold, S
<1>2. IInv => PlacesHold
  BY <1>1
<1> QED BY <1>2, TaskInvariance, PTL

\* Giving up a run: the task that is running on it leaves it in the same step.
LEMMA GivenUp ==
  ASSUME IInv, NEW t \in Tasks, NEW r \in Runs, OnRun(t, r), run[r].follow = "yes",
         run'[r].follow # "yes", [Next]_vars
  PROVE  ~ OnRun(t, r)'
<1>0. /\ TypeOK /\ run \in [Runs -> RunType] /\ run[r].of = t /\ run[r].state \notin Early
      /\ task[t].status = "running" /\ task[t].on = r /\ task \in [Tasks -> TaskType]
  BY DEF IInv, TypeOK, OnItsRun, OnRun
\* A step that only asks runs to stop gives up none.
<1>1. ASSUME NEW u \in Tasks PROVE LeftRun(u)[r].follow = run[r].follow
  BY <1>0, LeftRunRow
<1>2. ASSUME NEW u \in Tasks,
             \/ \E b \in BOOLEAN : SetAuto(u, b)
             \/ Assign(u)
             \/ \E to \in Columns : MoveByHand(u, to)
             \/ \E to \in {"archived", "done"} : ArchiveMany(u, to)
             \/ Stop(u)
             \/ Unassign(u)
             \/ \E many \in BOOLEAN : Delete(u, many)
             \/ \E on \in SUBSET Tasks : SetDependencies(u, on)
             \/ ArchiveOld(u)
      PROVE  FALSE
  <2>1. run' = run \/ run' = LeftRun(u)
    BY <1>2 DEF SetAuto, Assign, MoveByHand, ArchiveMany, Stop, Unassign, Delete, SetDependencies,
                ArchiveOld
  <2> QED BY <1>1, <2>1
<1>3. ASSUME NEW u \in Tasks, NEW s \in Runs, StartByHand(u, s) PROVE FALSE
  <2>1. s # r
    BY <1>0, <1>3 DEF StartByHand
  <2>2. run'[r] = LeftRun(u)[r]
    BY <1>0, <1>3, <2>1, LeftRunRow DEF StartByHand
  <2> QED BY <1>1, <2>2
<1>4. ASSUME NEW s \in Runs, Take(s) \/ Refused(s) PROVE FALSE
  <2>1. s # r
    BY <1>0, <1>4 DEF Take, Refused
  <2>2. run'[r] = run[r]
    BY <1>0, <1>4, <2>1 DEF Take, Refused
  <2> QED BY <2>2
<1>5. ASSUME NEW s \in Runs, NEW end \in Ends, RunEnds(s, end) PROVE FALSE
  <2>1. \A R \in RunType : [R EXCEPT !.state = end].follow = R.follow
    BY DEF RunType
  <2>2. run'[r].follow = run[r].follow
    BY <1>0, <1>5, <2>1 DEF RunEnds
  <2> QED BY <2>2
\* The ending moves the task: it is the run's own, and it is on it.
<1>6. ASSUME NEW s \in Runs, Settle(s) PROVE ~ OnRun(t, r)'
  <2>1. s = r
    <3>1. s # r => run'[r] = run[r]
      BY <1>0, <1>6 DEF Settle
    <3> QED BY <3>1
  <2>2. task'[t] = Finished(t, r, run[r].state) /\ run[r].state \in Ends
    BY <1>0, <1>6, <2>1 DEF Settle
  <2>3. Finished(t, r, run[r].state).on = None
    BY <1>0, <2>2, FinishedRow
  <2>4. task'[t].on # r
    BY <2>2, <2>3, NoneIsNoRun
  <2> QED BY <2>4 DEF OnRun
<1>7. ASSUME PassBegins \/ PassEnds PROVE FALSE
  BY <1>7 DEF PassBegins, PassEnds
<1>8. ASSUME NEW u \in Tasks, NEW s \in Runs, PassStarts(u, s) PROVE FALSE
  <2>1. s # r
    BY <1>0, <1>8 DEF PassStarts
  <2>2. run'[r] = run[r]
    BY <1>0, <1>8, <2>1 DEF PassStarts
  <2> QED BY <2>2
<1>9. CASE Restart
  <2>1. task'[t] = BootSettled(t)
    BY <1>9 DEF Restart
  <2>2. BootSettled(t).on = None
    BY BootSettledRow
  <2>3. task'[t].on # r
    BY <2>1, <2>2, NoneIsNoRun
  <2> QED BY <2>3 DEF OnRun
<1>10. ~ UNCHANGED vars
  BY DEF vars
<1>11. ~ People
  BY <1>2, <1>3 DEF People
<1> QED BY <1>2, <1>4, <1>5, <1>6, <1>7, <1>8, <1>9, <1>10, <1>11 DEF Next

\* settle and settleStranded: a run the hub stops following, by its end or by a restart, is in
\* the same step no longer what its task is running on.
THEOREM EndingsAreKept == Spec => NoEndingIsLost
<1>1. IInv /\ [Next]_vars =>
        [\A t \in Tasks, r \in Runs :
           OnRun(t, r) /\ run[r].follow = "yes" /\ run'[r].follow # "yes" => ~ OnRun(t, r)']_vars
  BY GivenUp
<1> QED BY <1>1, TaskInvariance, PTL DEF Spec, NoEndingIsLost

\* The board keeps what TaskBoard promises, for any tasks, runs and bounds (runs.ts, index.ts):
\* whatever people, starts, endings, the pass and a restart do is a step of it.
THEOREM TasksKeepBoard == Spec => KeepsBoard
<1>1. Init => Board!Init
  BY DEF Init, NoRun, WorksOn, Board!Init
<1>2. IInv /\ [Next]_vars => [Board!Next]_(Board!boardVars)
  BY StepHolds
<1> QED BY <1>1, <1>2, TaskInvariance, PTL DEF Spec, KeepsBoard, Board!Spec
=============================================================================
