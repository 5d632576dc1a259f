----------------------------- MODULE WorkflowRun -----------------------------
(***************************************************************************)
(* The runs of one workflow (packages/server/src/modules/schedules): the   *)
(* engine that walks the drawing (workflow-engine.ts), the rows it writes  *)
(* (service.ts), the gates where a person is asked (an approval of the     *)
(* sessions module), and the inbound trigger whose deliveries start runs   *)
(* (trigger-desk.ts).                                                      *)
(*                                                                         *)
(* A walk lives in memory and awaits one thing, the work of a step; what   *)
(* follows a step, up to the next step's work, a gate or the end, is one   *)
(* stretch of code.  At a gate the place is written down and the walk is   *)
(* over: the answer begins another one, perhaps in another process.        *)
(* Meanwhile a person cancels or deletes the run or the workflow, answers  *)
(* twice, and the hub stops and starts.                                    *)
(***************************************************************************)
EXTENDS Integers, Sequences, FiniteSets

CONSTANTS
  None,         \* no place, no walk, no run, no time
  Nodes,        \* the steps of the drawing,
  Approvals,    \* those that are gates and nothing else (kind `approval`),
  AskFirst,     \* those that ask before they do their work (approval_required),
  Conditions,   \* and those that answer yes or no (kind `condition`)
  Arrows,       \* per step and route, where its arrows lead, in their order; an `always`
                \* arrow is on both routes
  Starts,       \* the queues a run may start with: its first steps, or those a person names
  MaxSteps,     \* MAX_STEPS: a walk with loops is cut here
  MaxCost,      \* the cost limit of a run
  Keys,         \* what tells one event from another (the trigger's dedupe key)
  Memory,       \* TRIGGER_MEMORY_MS
  MaxRuns,      \* bound: runs
  MaxLines,     \* bound: deliveries
  MaxClock,     \* bound: the clock stops here
  MaxRestarts   \* bound: times the hub is stopped

Routes == {"success", "failure"}

ASSUME DrawingAssumption ==
  /\ Approvals \subseteq Nodes /\ AskFirst \subseteq Nodes /\ Conditions \subseteq Nodes
  /\ Approvals \cap Conditions = {}
  /\ Arrows \in [Nodes -> [Routes -> Seq(Nodes)]]
  /\ Starts \subseteq Seq(Nodes)
ASSUME NothingAssumption == None \notin Int
ASSUME NumbersAssumption ==
  {MaxSteps, MaxCost, Memory, MaxRuns, MaxLines, MaxClock, MaxRestarts} \subseteq Nat

VARIABLES
  run,        \* per run: its rows, its walk, and what the world has seen of it
  seen,       \* per event key: when the trigger remembered it
  line,       \* per delivery, in the order they came: its line in the log
  kept,       \* the workflow, and its trigger, are not deleted
  owner,      \* the person the runs belong to is a user of the hub
  up, clock, restarts

deskVars  == <<seen, line>>
worldVars == <<up, clock, restarts>>
vars      == <<run, deskVars, kept, owner, worldVars>>

Runs    == 1..MaxRuns
Lines   == 1..MaxLines
Over    == {"succeeded", "failed", "interrupted", "cancelled"}
Gated   == Approvals \cup AskFirst
Settled == {"run_succeeded", "run_failed"}

\* Where a walk stands: the steps queued, those it ran, what it used of its budget.
Places == [queue : Seq(Nodes), ran : SUBSET Nodes, used : Nat]

\* The process of a run: the walk, at the await of a step's work.
Walks == [at : Places, node : Nodes, cancelled : BOOLEAN]

RunType ==
  [status : {"none", "running", "waiting_approval", "gone"} \cup Over,  \* "interrupted": failed
   place  : Places \cup {None},                                         \* by a restart
   step   : [Nodes -> {"none", "running", "waiting_approval", "succeeded", "failed", "cancelled"}],
   gate   : [Nodes -> {"none", "pending", "approved", "denied", "cancelled"}],
   walk   : Walks \cup {None},
   (* the world: how often a step's work began, what it all cost, how often an end was told *)
   worked : [Nodes -> Nat],
   paid   : Nat,
   told   : Nat]

ASSUME NoPlaceAssumption == None \notin Places \cup Walks \cup Keys

NoRun == [status |-> "none", place |-> None, step |-> [n \in Nodes |-> "none"],
          gate |-> [n \in Nodes |-> "none"], walk |-> None,
          worked |-> [n \in Nodes |-> 0], paid |-> 0, told |-> 0]

NoLine == [status |-> "none", key |-> None, run |-> None, at |-> 0]

LineType == [status : {"none", "duplicate", "filtered_out", "run_started"} \cup Settled,
             key : Keys \cup {None}, run : Runs \cup {None}, at : Nat]

TypeOK ==
  /\ run  \in [Runs -> RunType]
  /\ seen \in [Keys -> Nat \cup {None}]
  /\ line \in [Lines -> LineType]
  /\ kept \in BOOLEAN /\ owner \in BOOLEAN /\ up \in BOOLEAN
  /\ clock \in Nat /\ restarts \in Nat

Init ==
  /\ run  = [r \in Runs |-> NoRun]
  /\ seen = [k \in Keys |-> None]
  /\ line = [l \in Lines |-> NoLine]
  /\ kept = TRUE /\ owner = TRUE /\ up = TRUE /\ clock = 0 /\ restarts = 0

-----------------------------------------------------------------------------
(* What the engine makes of one run, `R`, between two awaits.                *)

\* The run's end is written, unless its row is deleted, and announced.
EndedAs(R, end) ==
  [R EXCEPT !.status = IF @ = "gone" THEN @ ELSE end, !.walk = None, !.told = @ + 1]

\* The work of step `n` begins.
WorksOn(R, n, at) ==
  [R EXCEPT !.status = "running", !.step[n] = "running", !.worked[n] = @ + 1,
            !.walk = [at |-> at, node |-> n, cancelled |-> FALSE]]

\* pauseAtGate: the approval was raised; the place is written down and the walk is over.
WaitsAt(R, n, at) ==
  [R EXCEPT !.status = "waiting_approval", !.step[n] = "waiting_approval",
            !.gate[n] = "pending", !.place = at, !.walk = None]

AheadAll(at) == DOMAIN at.queue

\* The steps queued that have not run.
Ahead(at) == {i \in DOMAIN at.queue : at.queue[i] \notin at.ran}

\* The loop, to the next await: the next step that has not run.  A step's row cannot be
\* written once the run is deleted: the walk then ends by the exception.
WalksOn(R, at) ==
  LET i    == CHOOSE i \in Ahead(at) : \A j \in Ahead(at) : i <= j
      n    == at.queue[i]
      next == [at EXCEPT !.queue = SubSeq(@, i + 1, Len(@)), !.ran = @ \cup {n}]
  IN  IF Ahead(at) = {} THEN EndedAs(R, "succeeded")
      ELSE IF R.status = "gone" \/ Cardinality(at.ran) >= MaxSteps \/ at.used >= MaxCost
           THEN EndedAs(R, "failed")
      ELSE IF n \in Gated THEN WaitsAt(R, n, next) ELSE WorksOn(R, n, next)

\* advance: what follows step `n`, by its arrows.  A condition's no is no failure (`ok`); a
\* failure that no arrow takes ends the run.
Advanced(R, n, at, ok, route) ==
  LET next == [at EXCEPT !.queue = @ \o Arrows[n][route]]
  IN  IF (~ ok /\ Arrows[n]["failure"] = <<>>) \/ (next.queue # <<>> /\ next.used >= MaxCost)
      THEN EndedAs(R, "failed") ELSE WalksOn(R, next)

FinishedAnyway(R, end, cost) ==
  LET n  == R.walk.node
      at == [R.walk.at EXCEPT !.used = @ + cost]
      ok == end = "success" \/ (end = "failure" /\ n \in Conditions)
      S  == [R EXCEPT !.paid = @ + cost, !.walk = None,
                      !.step[n] = IF end = "stop" THEN "cancelled"
                                  ELSE IF ok THEN "succeeded" ELSE "failed"]
  IN  IF end = "stop" THEN EndedAs(S, "failed") ELSE Advanced(S, n, at, ok, end)

\* finish, and the loop after it: the step's row is written whatever became of the run, and
\* a cancelled walk goes no further.
Finished(R, end, cost) ==
  LET n  == R.walk.node
      at == [R.walk.at EXCEPT !.used = @ + cost]
      ok == end = "success" \/ (end = "failure" /\ n \in Conditions)
      S  == [R EXCEPT !.paid = @ + cost, !.walk = None,
                      !.step[n] = IF R.status = "gone" THEN @
                                  ELSE IF R.walk.cancelled \/ end = "stop" THEN "cancelled"
                                  ELSE IF ok THEN "succeeded" ELSE "failed"]
  IN  IF R.walk.cancelled THEN S
      ELSE IF end = "stop" THEN EndedAs(S, "failed")
      ELSE Advanced(S, n, at, ok, end)

ResumedAfresh(R, n, yes) ==
  LET at == [R.place EXCEPT !.used = 0]
      S  == [R EXCEPT !.place = None]
      T  == [S EXCEPT !.step[n] = IF yes THEN "succeeded" ELSE "failed"]
  IN  IF yes /\ n \notin Approvals THEN WorksOn(S, n, at)
      ELSE Advanced(T, n, at, yes, IF yes THEN "success" ELSE "failure")

\* resume and passGate: a new walk goes on from the place written down.
Resumed(R, n, yes) ==
  LET at == R.place
      S  == [R EXCEPT !.place = None]
      T  == [S EXCEPT !.step[n] = IF yes THEN "succeeded" ELSE "failed"]
  IN  IF yes /\ n \notin Approvals THEN WorksOn(S, n, at)
      ELSE Advanced(T, n, at, yes, IF yes THEN "success" ELSE "failure")

StoppedQuietly(R) ==
  [R EXCEPT !.walk = IF @ = None THEN None ELSE [@ EXCEPT !.cancelled = TRUE],
            !.step = [n \in Nodes |-> IF @[n] \in {"running", "waiting_approval"}
                                      THEN "cancelled" ELSE @[n]]]

\* cancel and closeGates: the walk is flagged, the open steps and approvals are closed.
Stopped(R) ==
  [R EXCEPT !.walk = IF @ = None THEN None ELSE [@ EXCEPT !.cancelled = TRUE],
            !.step = [n \in Nodes |-> IF @[n] \in {"running", "waiting_approval"}
                                      THEN "cancelled" ELSE @[n]],
            !.gate = [n \in Nodes |-> IF @[n] = "pending" THEN "cancelled" ELSE @[n]]]

-----------------------------------------------------------------------------
(* The trigger's log follows the runs it started.                            *)

LinesUnlessFailed(r, R) ==
  [l \in Lines |-> IF line[l].run = r /\ R.status # "gone"
                   THEN [line[l] EXCEPT !.status = IF R.status = "failed"
                                                   THEN "run_failed" ELSE "run_succeeded"]
                   ELSE line[l]]

\* settleRun: the line of the delivery says what the run's row says.
LinesAfter(r, R) ==
  [l \in Lines |-> IF line[l].run = r /\ R.status # "gone"
                   THEN [line[l] EXCEPT !.status = IF R.status = "succeeded"
                                                   THEN "run_succeeded" ELSE "run_failed"]
                   ELSE line[l]]

\* Run `r` becomes `R`; an end that is announced settles its line.
Becomes(r, R) ==
  /\ run' = [run EXCEPT ![r] = R]
  /\ line' = IF R.told # run[r].told THEN LinesAfter(r, R) ELSE line

-----------------------------------------------------------------------------
(* Runs start, work and wait.                                                *)

\* The next run to be written.
FreshRun == {r \in Runs : run[r].status = "none" /\ \A q \in Runs : q < r => run[q].status # "none"}

New(queue) == WalksOn(NoRun, [queue |-> queue, ran |-> {}, used |-> 0])

\* A person runs the workflow, or reruns it from a step; a schedule fires it.
Start(r) ==
  /\ kept
  /\ r \in FreshRun
  /\ \E queue \in Starts : Becomes(r, New(queue))
  /\ UNCHANGED <<seen, kept, owner, worldVars>>

\* Only an agent's turn costs anything.
Costs(n) == IF n \in Conditions THEN {0} ELSE 0..1

\* attempt: the work ended, or a limit ended it.
StepEnds(r) ==
  /\ run[r].walk # None
  /\ \E end \in {"success", "failure", "stop"}, cost \in Costs(run[r].walk.node) :
       Becomes(r, Finished(run[r], end, cost))
  /\ UNCHANGED <<seen, kept, owner, worldVars>>

\* answerGate: the approval is answered once, then handed to the run, which goes on as its
\* owner; without that person nothing takes it.
Answer(r, n, yes) ==
  /\ run[r].gate[n] = "pending"
  /\ LET R == [run[r] EXCEPT !.gate[n] = IF yes THEN "approved" ELSE "denied"]
     IN  Becomes(r, IF owner /\ R.status = "waiting_approval" THEN Resumed(R, n, yes) ELSE R)
  /\ UNCHANGED <<seen, kept, owner, worldVars>>

-----------------------------------------------------------------------------
(* Runs are cancelled and deleted.                                           *)

\* cancelWorkflowRunNow: refused when the run has ended.
Cancel(r) ==
  /\ run[r].status \in {"running", "waiting_approval"}
  /\ Becomes(r, [Stopped(run[r]) EXCEPT !.status = "cancelled", !.place = None, !.told = @ + 1])
  /\ UNCHANGED <<seen, kept, owner, worldVars>>

Deleted(R) == [R EXCEPT !.status = "gone", !.place = None, !.step = NoRun.step]

\* deleteWorkflowRun: the end is announced while the row still says how the run went.
DeleteRun(r) ==
  /\ run[r].status \notin {"none", "gone"}
  /\ IF run[r].status \in Over
     THEN run' = [run EXCEPT ![r] = Deleted(@)] /\ UNCHANGED line
     ELSE /\ run' = [run EXCEPT ![r] = [Deleted(Stopped(run[r])) EXCEPT !.told = @ + 1]]
          /\ line' = LinesAfter(r, run[r])
  /\ UNCHANGED <<seen, kept, owner, worldVars>>

\* deleteWorkflow: its waiting runs are closed; a walk goes on until it writes a step's row.
DeleteWorkflow ==
  /\ kept
  /\ kept' = FALSE
  /\ run' = [r \in Runs |->
               IF run[r].status = "none" THEN run[r]
               ELSE IF run[r].status = "waiting_approval"
                    THEN [Deleted(Stopped(run[r])) EXCEPT !.told = @ + 1]
               ELSE Deleted(run[r])]
  /\ seen' = [k \in Keys |-> None]
  /\ line' = [l \in Lines |-> NoLine]
  /\ UNCHANGED <<owner, worldVars>>

\* The person the runs belong to is removed from the hub.
RemoveOwner ==
  /\ owner
  /\ owner' = FALSE
  /\ UNCHANGED <<run, deskVars, kept, worldVars>>

-----------------------------------------------------------------------------
(* The trigger.                                                              *)

KnownShort(k) == seen[k] # None /\ clock - seen[k] < Memory

\* forget: a key older than the trigger's memory is as if it had never come.
Known(k) == seen[k] # None /\ clock - seen[k] <= Memory

\* The next line of the log.
FreshLine == {l \in Lines : line[l].status = "none" /\ \A m \in Lines : m < l => line[m].status # "none"}

\* A run nobody named a first step for begins where no arrow leads.
Roots ==
  {queue \in Starts :
     \A n \in Nodes : (\E i \in DOMAIN queue : queue[i] = n) <=>
        ~ \E m \in Nodes, route \in Routes : \E i \in DOMAIN Arrows[m][route] : Arrows[m][route][i] = n}

Logged(l, how, k, r) ==
  line' = [line EXCEPT ![l] = [status |-> how, key |-> k, run |-> r, at |-> clock]]

\* receive: the key is remembered before anything starts, so that a delivery that is refused
\* further on is not tried again.  The line is linked to its run only once it has started.
Receive(k) ==
  /\ kept
  /\ \E l \in FreshLine :
       \/ Known(k) /\ Logged(l, "duplicate", k, None) /\ UNCHANGED <<run, seen>>
       \/ /\ ~ Known(k)
          /\ seen' = [seen EXCEPT ![k] = clock]
          /\ \/ Logged(l, "filtered_out", k, None) /\ UNCHANGED run
             \/ ~ owner /\ Logged(l, "run_failed", k, None) /\ UNCHANGED run
             \/ /\ owner
                /\ \E r \in FreshRun, queue \in Roots :
                     /\ run' = [run EXCEPT ![r] = New(queue)]
                     /\ Logged(l, "run_started", k, r)
  /\ UNCHANGED <<kept, owner, worldVars>>

\* reconcile: whoever reads the log settles the lines of runs that ended unheard.
ReadLog ==
  /\ line' = [l \in Lines |->
       IF line[l].status # "run_started" THEN line[l]
       ELSE IF run[line[l].run].status = "gone" THEN [line[l] EXCEPT !.status = "run_failed"]
       ELSE IF run[line[l].run].status \in Over THEN LinesAfter(line[l].run, run[line[l].run])[l]
       ELSE line[l]]
  /\ line' # line
  /\ UNCHANGED <<run, seen, kept, owner, worldVars>>

-----------------------------------------------------------------------------
(* The hub stops, and starts again.                                          *)

Crash ==
  /\ up
  /\ restarts < MaxRestarts
  /\ restarts' = restarts + 1
  /\ up' = FALSE
  /\ run' = [r \in Runs |-> [run[r] EXCEPT !.walk = None]]
  /\ UNCHANGED <<deskVars, kept, owner, clock>>

InterruptedNone(R) == R

\* failInterruptedRuns: a run that worked fails, one that waits goes on waiting.
Interrupted(R) ==
  IF R.status = "running"
  THEN [R EXCEPT !.status = "interrupted",
                 !.step = [n \in Nodes |-> IF @[n] \in {"running", "waiting_approval"}
                                           THEN "failed" ELSE @[n]]]
  ELSE R

Boot ==
  /\ ~ up
  /\ up' = TRUE
  /\ run' = [r \in Runs |-> Interrupted(run[r])]
  /\ UNCHANGED <<deskVars, kept, owner, clock, restarts>>

Tick ==
  /\ clock < MaxClock
  /\ clock' = clock + 1
  /\ UNCHANGED <<run, deskVars, kept, owner, up, restarts>>

-----------------------------------------------------------------------------

OfRun(r) ==
  Start(r) \/ StepEnds(r) \/ Cancel(r) \/ DeleteRun(r)
    \/ \E n \in Nodes, yes \in BOOLEAN : Answer(r, n, yes)

Work ==
  /\ up
  /\ \/ \E r \in Runs : OfRun(r)
     \/ \E k \in Keys : Receive(k)
     \/ ReadLog \/ DeleteWorkflow \/ RemoveOwner

Next == Work \/ Crash \/ Boot \/ Tick

Spec == Init /\ [][Next]_vars

-----------------------------------------------------------------------------
(* Properties                                                                *)

\* A step does its work once in a run, whatever arrows lead to it, through gates, answers
\* and restarts (workflow-engine.ts: "each node runs once").
NodeWorksOnce == \A r \in Runs, n \in Nodes : run[r].worked[n] <= 1

\* A run that says it is going has a walk that goes on: none is left `running` for ever by a
\* cancellation, an answer or a restart.
RunningIsWalked ==
  up => \A r \in Runs : run[r].status = "running" => run[r].walk # None /\ ~ run[r].walk.cancelled

\* A run's end is announced once, by whoever brings it about: the walk, a cancellation, a
\* deletion.  Only a restart ends a run unannounced, and no walk goes on past an end.
EndIsToldOnce ==
  \A r \in Runs :
    /\ run[r].told <= 1
    /\ run[r].status \in {"succeeded", "failed", "cancelled"} => run[r].told = 1
    /\ run[r].walk # None /\ ~ run[r].walk.cancelled => run[r].told = 0

\* Who waits is asked, and who is asked is waited for (index.ts: "nobody should still be
\* asked to approve a step" of a run that is over): a run waits at one gate, with its place
\* written down and no walk, and a pending approval has such a run.  A run whose owner was
\* removed may wait with its approval answered.
GateMatchesRun ==
  \A r \in Runs :
    LET asked == {n \in Nodes : run[r].gate[n] = "pending"}
    IN  /\ asked # {} => run[r].status = "waiting_approval"
        /\ run[r].status = "waiting_approval" =>
             /\ run[r].place # None /\ run[r].walk = None
             /\ Cardinality({n \in Nodes : run[r].step[n] = "waiting_approval"}) = 1
             /\ \A n \in asked : run[r].step[n] = "waiting_approval"
             /\ owner => asked # {}

\* A line of the trigger's log tells what became of its run, as far as the run has one.  A
\* line is behind when a restart ended its run, or when the run ended before it was linked.
LineTellsTheTruth ==
  \A l \in Lines :
    line[l].run # None =>
      LET R == run[line[l].run]
      IN  /\ line[l].status = "run_succeeded" => R.status \in {"succeeded", "gone"}
          /\ line[l].status = "run_failed" =>
               R.status \in {"failed", "interrupted", "cancelled", "gone"}
          /\ line[l].status = "run_started" /\ R.told > 0 => \A n \in Nodes : R.step[n] = "none"

\* Two deliveries of one event start two runs only when the trigger has forgotten the first.
OneRunPerEvent ==
  \A k, l \in Lines :
    /\ k < l
    /\ line[k].run # None /\ line[l].run # None
    /\ line[k].key = line[l].key
    => line[l].at - line[k].at > Memory

\* A run that is over stays as it ended until it is deleted, and no step of it begins,
\* though a step cancelled under way goes on in memory.
OverIsOver ==
  [][\A r \in Runs :
       run[r].status \in Over \cup {"gone"} =>
         /\ run'[r].status \in {run[r].status, "gone"}
         /\ run'[r].worked = run[r].worked
         /\ run'[r].gate = run[r].gate]_vars

\* No step begins, or asks, once the run has cost what it may, however often it waited at a
\* gate and was resumed, in whatever process.
BudgetHolds ==
  [][\A r \in Runs :
       (\E n \in Nodes : run[r].step[n] = "none" /\ run'[r].step[n] # "none") =>
         run'[r].paid < MaxCost]_vars

\* What the runs show of themselves, whatever their rows and walks hold: a walk that was
\* flagged goes on with nothing, and the steps whose approvals are pending ask.
Going(R)   == R.walk # None /\ ~ R.walk.cancelled
Pending(R) == {n \in Nodes : R.gate[n] = "pending"}

Life == INSTANCE WorkflowLife WITH
  phase  <- [r \in Runs |-> run[r].status],
  going  <- [r \in Runs |-> Going(run[r])],
  told   <- [r \in Runs |-> run[r].told],
  worked <- [r \in Runs |-> run[r].worked],
  asked  <- [r \in Runs |-> Pending(run[r])]

\* The runs keep what WorkflowLife promises: a run works, asks and ends as one that is
\* alive, ends once and tells it once, and what is over, cut off or deleted stays so, for
\* a flagged walk breaks off where its step ends (workflow-engine.ts: `if (state.cancelled)
\* break`).
KeepsLife == Life!Spec
=============================================================================
