---------------------------- MODULE DeviceRequests ----------------------------
(***************************************************************************)
(* What a person asks of one of their devices, and the job that waits for  *)
(* the answer (packages/server/src/modules/devices: requests.ts, the       *)
(* routes of index.ts), on top of the runner of JobRunner.                 *)
(*                                                                         *)
(* A request and its job have one name here.  The row of the request ends  *)
(* once: the device answers, its time runs out (a timer, or whoever reads  *)
(* it next), or the job that waits sees that it was asked to stop.         *)
(***************************************************************************)
EXTENDS JobRunner

CONSTANTS
  Requests      \* the functions that wait for a device; the others are jobs of any kind

Others == Functions \ Requests

ASSUME RequestsAreJobs == Requests \subseteq Functions

VARIABLES
  req,          \* per request: its row's status
  due,          \* the requests whose expires_at has come
  paired,       \* the device is paired; unlinked, its token is revoked
  waiter,       \* the map of the same name: the jobs that wait (and poll)
  early,        \* the map of the same name: ends that no job was there for
  timer         \* the map of the same name

rowVars == <<req, due, paired, waiter, early, timer>>
vars    == <<jobVars, rowVars>>

Answers == {"fulfilled", "denied", "failed"}
Ended   == Answers \cup {"expired", "cancelled"}

TypeOK ==
  /\ JobTypeOK
  /\ req  \in [Requests -> {"none", "pending"} \cup Ended]
  /\ paired \in BOOLEAN
  /\ due \subseteq Requests /\ waiter \subseteq Requests
  /\ early \subseteq Requests /\ timer \subseteq Requests

Init ==
  /\ JobInit
  /\ req  = [r \in Requests |-> "none"]
  /\ paired = TRUE
  /\ due = {} /\ waiter = {} /\ early = {} /\ timer = {}

-----------------------------------------------------------------------------
(* finish, for the pending requests among rs: the row, the timer, the event, *)
(* and settle: the job that waits goes on, or the end is kept in `early`.    *)
PendingOrNot(rs) == {r \in rs : req[r] # "none"}
Pending(rs)      == {r \in rs : req[r] = "pending"}

Outcome(s) == IF s \in {"fulfilled", "cancelled"} THEN "done" ELSE "failed"

KeepArmed(ends) == timer' = timer
Disarm(ends)    == timer' = timer \ ends

Close(rs, s) ==
  LET ends == Pending(rs) IN
  /\ req'    = [r \in Requests |-> IF r \in ends THEN s ELSE req[r]]
  /\ Disarm(ends)
  /\ waiter' = waiter \ ends
  /\ early'  = early \cup (ends \ waiter)
  /\ work'   = [r \in Functions |-> IF r \in ends \cap waiter THEN Outcome(s) ELSE work[r]]
  /\ UNCHANGED <<job, asked, cancelling, run, cut, restarts, due, paired>>

CreateUnarmed(r) ==
  /\ paired
  /\ Start(r, "going")
  /\ req'    = [req EXCEPT ![r] = "pending"]
  /\ waiter' = waiter \cup {r}
  /\ UNCHANGED <<due, paired, early, timer>>

(* createRequest: the job first (its worker is waiting before start          *)
(* returns), then the row.                                                   *)
Create(r) ==
  /\ paired
  /\ Start(r, "going")
  /\ req'    = [req EXCEPT ![r] = "pending"]
  /\ waiter' = waiter \cup {r}
  /\ timer'  = timer \cup {r}
  /\ UNCHANGED <<due, paired, early>>

(* A capability that is off is denied by the hub, one that needs the device  *)
(* here and now fails when it is offline; settle finds the waiter.           *)
CreateRefused(r) ==
  /\ paired
  /\ Start(r, "failed")
  /\ \E s \in {"denied", "failed"} : req' = [req EXCEPT ![r] = s]
  /\ UNCHANGED <<due, paired, waiter, early, timer>>

(* expires_at comes.                                                         *)
TimePasses(r) ==
  /\ Calm
  /\ req[r] = "pending" /\ r \notin due
  /\ due' = due \cup {r}
  /\ UNCHANGED <<jobVars, req, paired, waiter, early, timer>>

TimerFires(r) ==
  /\ Calm
  /\ r \in timer \cap due
  /\ Close({r}, "expired")

(* find, on every reading of one request, and expireDue, on every list.      *)
Find(r)  == Calm /\ r \in Pending(due) /\ Close({r}, "expired")
List     == Calm /\ Pending(due) # {}  /\ Close(due, "expired")

RespondUnread(r) ==
  /\ Calm
  /\ paired
  /\ r \in Pending(Requests)
  /\ \E s \in Answers : Close({r}, s)

(* The device answers: the route reads the row first (Find), so an answer    *)
(* that comes late ends the request as expired and is refused.               *)
Respond(r) ==
  /\ Calm
  /\ paired
  /\ r \in Pending(Requests \ due)
  /\ \E s \in Answers : Close({r}, s)

(* The waiting job looks whether it was asked to stop.                       *)
PollCancel(r) ==
  /\ Calm
  /\ r \in waiter \cap cancelling
  /\ Close({r}, "cancelled")

Unlink == Calm /\ paired  /\ paired' = FALSE
          /\ UNCHANGED <<jobVars, req, due, waiter, early, timer>>
Pair   == Calm /\ ~paired /\ paired' = TRUE
          /\ UNCHANGED <<jobVars, req, due, waiter, early, timer>>

(* What the runner and the sessions do goes on as in JobRunner.              *)
CancelJob(j) == Cancel(j) /\ UNCHANGED rowVars
FinishJob(j) == Finish(j) /\ UNCHANGED rowVars

Other(j) ==
  /\ Settle(j) \/ \E w \in {"going", "done", "failed"} : Start(j, w)
  /\ UNCHANGED rowVars

Session(j) ==
  /\ Queue(j) \/ Drive(j) \/ \E s \in Over : EndRun(j, s)
  /\ UNCHANGED rowVars

(* The maps are gone, the rows stay: nothing arms a timer again.             *)
Reboot ==
  /\ Restart
  /\ waiter' = {} /\ early' = {} /\ timer' = {}
  /\ UNCHANGED <<req, due, paired>>

Next ==
  \/ \E r \in Requests :
       \/ Create(r) \/ CreateRefused(r)
       \/ TimePasses(r) \/ TimerFires(r) \/ Find(r) \/ Respond(r) \/ PollCancel(r)
  \/ \E j \in Jobs : CancelJob(j)
  \/ \E j \in Functions : FinishJob(j)
  \/ \E j \in Others : Other(j)
  \/ \E j \in Streamed : Session(j)
  \/ List \/ Unlink \/ Pair \/ Reboot

(* Time passes, a timer that is due fires, the job's interval polls, and a   *)
(* settled promise is continued.  Nothing is assumed of people or devices.   *)
Fairness ==
  /\ \A r \in Requests  : WF_vars(TimePasses(r)) /\ WF_vars(TimerFires(r)) /\ WF_vars(PollCancel(r))
  /\ \A j \in Functions : WF_vars(FinishJob(j))

Spec == Init /\ [][Next]_vars /\ Fairness

-----------------------------------------------------------------------------
(* A request ends once, whoever ends it (an answer, the timer, a reader, a   *)
(* cancellation, in any order), and so does its job.                         *)
EndsOnce ==
  [][/\ \A r \in Requests  : (req[r] \in Ended) => (req'[r] = req[r])
     /\ \A j \in Functions : (job[j] \in Over)  => (job'[j] = job[j])]_vars

(* An answer that comes after the deadline is never taken, even when no      *)
(* timer fired: after a restart the row still says pending.                  *)
LateAnswerIsRefused ==
  [][\A r \in due : (req[r] = "pending") => (req'[r] \notin Answers)]_vars

(* What became of a job, as whoever started it sees it.                      *)
Told(j) == IF j \in cut THEN "cut" ELSE IF job[j] \in Open THEN "waiting" ELSE job[j]

Settled ==
  INSTANCE Settlement WITH
    fate    <- req,
    learned <- [j \in Functions |-> Told(j)],
    late    <- due,
    stopped <- asked

(* A request ends once, by an answer only before its deadline, even when no  *)
(* timer fired (after a restart the row still says pending), and its job     *)
(* ends once, as the request did: whoever ends them, an answer, the timer, a *)
(* reader or a cancellation, in any order.                                   *)
KeepsSettlement == Settled!Spec

(* A pending request has its job waiting and its timer set, or a restart     *)
(* took both: nobody waits for a request that has ended, and only the ends   *)
(* of requests that a restart cut are left in `early`.                       *)
PendingIsWaitedFor ==
  /\ \A r \in Requests : (req[r] = "pending") => (r \in waiter \cap timer \/ r \in cut)
  /\ \A r \in waiter \cup timer : req[r] = "pending" /\ work[r] = "going"
  /\ early \subseteq cut

(* The job and the request end alike: a job that failed has a request that   *)
(* was refused or expired, one that succeeded was fulfilled, one that was    *)
(* cancelled was asked to stop and has a request that ended well or with it. *)
Agree(r) ==
  /\ (job[r] = "succeeded") => (req[r] = "fulfilled")
  /\ (job[r] = "failed")    => (req[r] \in {"denied", "failed", "expired"})
  /\ (job[r] = "cancelled") => (r \in asked /\ req[r] \in {"fulfilled", "cancelled"})

JobFollowsRequest == \A r \in Requests : (r \notin cut) => Agree(r)

(* The device may be silent or unlinked: the job ends all the same, unless a *)
(* restart cuts it.                                                          *)
EveryJobEnds == \A r \in Requests : (job[r] \in Open) ~> (job[r] \in Over \/ r \in cut)
=============================================================================
