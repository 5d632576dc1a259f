------------------------------- MODULE JobRunner -------------------------------
(***************************************************************************)
(* The rows of long work and who writes them                               *)
(* (packages/server/src/modules/audit: jobs.ts, the jobs of service.ts,    *)
(* the route jobs.cancel of index.ts).                                     *)
(*                                                                         *)
(* A job is either a function that the runner calls and follows, or a run  *)
(* of a session, whose row the sessions module writes itself.  The route   *)
(* that cancels a job knows no difference.  The continuation of a worker's *)
(* promise runs before any other request is served: while one is due       *)
(* (~Calm), only it, or the end of the process, comes next.                *)
(***************************************************************************)
EXTENDS Integers, FiniteSets

CONSTANTS
  Functions,    \* jobs that are one async function, given to JobRunner.start
  Streamed,     \* jobs of sessions' runs, driven through AuditService
  MaxRestarts   \* bound: restarts of the hub

Jobs == Functions \cup Streamed

ASSUME JobsApart == Functions \cap Streamed = {}
ASSUME MaxRestartsIsNat == MaxRestarts \in Nat

VARIABLES
  job,          \* per job: its row's status; "none": no row
  asked,        \* the rows with cancel_requested_at
  work,         \* per function: its promise; "done" and "failed": its continuation is due
  cancelling,   \* the runner's set of the same name
  run,          \* per streamed job: the run behind it
  cut,          \* the jobs that were open, or whose run was, when a restart fell
  restarts

jobVars == <<job, asked, work, cancelling, run, cut, restarts>>

Open == {"queued", "running", "cancelling"}
Over == {"succeeded", "failed", "cancelled"}

JobTypeOK ==
  /\ job  \in [Jobs -> {"none"} \cup Open \cup Over]
  /\ work \in [Functions -> {"none", "going", "done", "failed"}]
  /\ run  \in [Streamed -> {"none", "queued", "driven"} \cup Over]
  /\ asked \subseteq Jobs /\ cancelling \subseteq Jobs /\ cut \subseteq Jobs
  /\ restarts \in 0..MaxRestarts

JobInit ==
  /\ job  = [j \in Jobs |-> "none"]
  /\ work = [j \in Functions |-> "none"]
  /\ run  = [j \in Streamed |-> "none"]
  /\ asked = {} /\ cancelling = {} /\ cut = {}
  /\ restarts = 0

Calm == \A j \in Functions : work[j] \in {"none", "going"}

-----------------------------------------------------------------------------
(* Functions.                                                                *)

(* JobRunner.start: the row is made and started, and the function runs up to *)
(* its first await; w says what has become of its promise by then.           *)
Start(j, w) ==
  /\ Calm
  /\ job[j] = "none"
  /\ job'  = [job EXCEPT ![j] = "running"]
  /\ work' = [work EXCEPT ![j] = w]
  /\ UNCHANGED <<asked, cancelling, run, cut, restarts>>

Settle(j) ==
  /\ Calm
  /\ work[j] = "going"
  /\ \E w \in {"done", "failed"} : work' = [work EXCEPT ![j] = w]
  /\ UNCHANGED <<job, asked, cancelling, run, cut, restarts>>

CancelFirst(j) ==
  IF j \in cancelling      THEN "cancelled"
  ELSE IF work[j] = "done" THEN "succeeded"
  ELSE "failed"

(* What start does when the promise has settled.                             *)
EndOf(j) ==
  IF work[j] = "failed"   THEN "failed"
  ELSE IF j \in cancelling THEN "cancelled"
  ELSE "succeeded"

Finish(j) ==
  /\ work[j] \in {"done", "failed"}
  /\ job'  = [job EXCEPT ![j] = EndOf(j)]
  /\ work' = [work EXCEPT ![j] = "none"]
  /\ cancelling' = cancelling \ {j}
  /\ UNCHANGED <<asked, run, cut, restarts>>

-----------------------------------------------------------------------------
(* Runs of sessions: createRun, execute, finalise and the ends before the    *)
(* start write the job's row as they write the run's.                        *)

Queue(j) ==
  /\ Calm
  /\ run[j] = "none"
  /\ run' = [run EXCEPT ![j] = "queued"]
  /\ job' = [job EXCEPT ![j] = "queued"]
  /\ UNCHANGED <<asked, work, cancelling, cut, restarts>>

(* AuditService.startJob starts no job that is over, or asked to stop.       *)
Drive(j) ==
  /\ Calm
  /\ run[j] = "queued"
  /\ run' = [run EXCEPT ![j] = "driven"]
  /\ job' = IF job[j] \in {"queued", "running"} THEN [job EXCEPT ![j] = "running"] ELSE job
  /\ UNCHANGED <<asked, work, cancelling, cut, restarts>>

(* AuditService.finishJob writes whatever the row says.                      *)
EndRun(j, s) ==
  /\ Calm
  /\ \/ run[j] = "driven"
     \/ run[j] = "queued" /\ s # "succeeded"     \* cancelRun, failBeforeStart
  /\ run' = [run EXCEPT ![j] = s]
  /\ job' = [job EXCEPT ![j] = s]
  /\ UNCHANGED <<asked, work, cancelling, cut, restarts>>

-----------------------------------------------------------------------------
CancellableAnyTime(j) == job[j] # "none"

(* The route refuses a job that is over, for any other it asks the runner.   *)
Cancellable(j) == job[j] \in Open

Cancel(j) ==
  /\ Calm
  /\ Cancellable(j)
  /\ cancelling' = cancelling \cup {j}
  /\ IF job[j] = "queued"
       THEN job' = [job EXCEPT ![j] = "cancelled"]  /\ UNCHANGED asked
       ELSE job' = [job EXCEPT ![j] = "cancelling"] /\ asked' = asked \cup {j}
  /\ UNCHANGED <<work, run, cut, restarts>>

(* The process ends and comes back: promises and sets are gone, the runs     *)
(* fail (failStaleRuns), the jobs' rows stay as they were.                   *)
Restart ==
  /\ restarts < MaxRestarts
  /\ restarts' = restarts + 1
  /\ cut' = cut \cup {j \in Jobs : job[j] \in Open}
                \cup {j \in Streamed : run[j] \in {"queued", "driven"}}
  /\ work' = [j \in Functions |-> "none"]
  /\ run' = [j \in Streamed |-> IF run[j] \in {"queued", "driven"} THEN "failed" ELSE run[j]]
  /\ cancelling' = {}
  /\ UNCHANGED <<job, asked>>

-----------------------------------------------------------------------------
(* The row of a function is open exactly while the function works, or for    *)
(* ever if a restart cut it: no cancellation closes it under its worker and  *)
(* no end leaves it open.                                                    *)
OpenIsWorkedOn ==
  \A j \in Functions :
    /\ (work[j] # "none") => (job[j] \in Open)
    /\ (job[j] \in Open) => (work[j] # "none" \/ j \in cut)

(* A function that succeeded was not asked to stop, and one that is          *)
(* cancelled was.  Asked is enough: one that did all its work after somebody *)
(* asked is written cancelled, for start looks at the set and not at the     *)
(* work, and no function goes from cancelling to succeeded (docs/domain/     *)
(* README.md draws that arrow, "finished before cancel took effect").        *)
EndTellsIfAsked ==
  \A j \in Functions :
    /\ (job[j] = "succeeded") => (j \notin asked)
    /\ (job[j] = "cancelled") => (j \in asked)

(* Whatever people do to its job, the last word on a session's run is the    *)
(* run's own: when it has ended, other than by a restart, its job says how.  *)
(* Of a run that goes on it says nothing: the job may be cancelled by then.  *)
JobSaysTheRun ==
  \A j \in Streamed : (run[j] \in Over /\ j \notin cut) => (job[j] = run[j])

(* What jobs.ts, the route that cancels and the writers of sessions' runs    *)
(* keep together, though none asks another: a function's job is open while   *)
(* it works and then says whether it was asked to stop; a run's job says how *)
(* the run ended, once it has.                                               *)
JobFollowsWork == OpenIsWorkedOn /\ EndTellsIfAsked /\ JobSaysTheRun
=============================================================================
