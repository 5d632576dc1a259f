------------------------- MODULE DeviceRequestsProofs -------------------------
(***************************************************************************)
(* What jobs and device requests promise each other holds for any jobs,    *)
(* requests and restarts.  The invariant says what is true of one job, of  *)
(* one request and of one session's job; each action is shown to keep the  *)
(* three.                                                                  *)
(***************************************************************************)
EXTENDS DeviceRequests, TLAPS

USE DEF Open, Over, Answers, Ended, Jobs

\* A function's job: its row is open while it works, and the runner's set says who was asked;
\* whoever is cancelled was asked, for no function's row is ever queued.
JobFits(j) ==
  /\ (job[j] = "none") => (j \notin asked /\ j \notin cancelling /\ j \notin cut /\ work[j] = "none")
  /\ (work[j] # "none") => (job[j] \in {"running", "cancelling"} /\ j \notin cut)
  /\ (job[j] \in Open) => (work[j] # "none" \/ j \in cut)
  /\ (j \in asked /\ work[j] # "none") => (j \in cancelling)
  /\ (j \in cancelling /\ j \notin cut) => (j \in asked)
  /\ (j \in asked) => (job[j] # "succeeded")
  /\ (job[j] = "cancelled") => (j \in asked)
  /\ job[j] # "queued"

\* A request: its row, its waiter, its timer and the promise of its job go together.
RequestFits(r) ==
  /\ (req[r] = "none") => (job[r] = "none")
  /\ (job[r] = "none") => (req[r] = "none")
  /\ (work[r] = "going") => (req[r] = "pending" /\ r \in waiter \cap timer)
  /\ (work[r] = "done") =>
        (req[r] = "fulfilled" \/ (req[r] = "cancelled" /\ r \in cancelling))
  /\ (work[r] = "failed") => (req[r] \in {"denied", "failed", "expired"})
  /\ (r \in waiter \cup timer) => (work[r] = "going")
  /\ (req[r] = "pending") => (work[r] = "going" \/ r \in cut)
  /\ (r \in early) => (r \in cut)
  /\ (r \notin cut) => Agree(r)

\* A session's job follows its run.
RunFits(j) == (run[j] \in Over /\ j \notin cut) => (job[j] = run[j])

IInv ==
  /\ TypeOK
  /\ \A j \in Functions : JobFits(j)
  /\ \A r \in Requests : RequestFits(r)
  /\ \A j \in Streamed : RunFits(j)

-----------------------------------------------------------------------------
(* One lemma per action, or per kind of action that does the same.           *)

\* Closing requests (DeviceRequestService.finish): the pending ones end, their waiters go on.
LEMMA CloseKeeps ==
  ASSUME IInv, NEW rs \in SUBSET Requests, NEW s \in Ended, Close(rs, s),
         (s = "cancelled") => (rs \subseteq cancelling)
  PROVE  IInv'
<1> DEFINE ends == Pending(rs)
<1> USE RequestsAreJobs
<1>0. TypeOK /\ JobTypeOK
  BY DEF IInv, TypeOK
<1>1. /\ req' = [r \in Requests |-> IF r \in ends THEN s ELSE req[r]]
      /\ timer' = timer \ ends
      /\ waiter' = waiter \ ends
      /\ early' = early \cup (ends \ waiter)
      /\ work' = [r \in Functions |-> IF r \in ends \cap waiter THEN Outcome(s) ELSE work[r]]
      /\ UNCHANGED <<job, asked, cancelling, run, cut, restarts, due, paired>>
  BY DEF Close, Disarm
<1>2. ends \subseteq rs /\ \A r \in rs : r \in ends <=> req[r] = "pending"
  BY DEF Pending
<1>3. Outcome(s) \in {"done", "failed"}
  BY DEF Outcome
<1> HIDE DEF ends
<1>4. TypeOK'
  <2>1. JobTypeOK'
    BY <1>0, <1>1, <1>3 DEF JobTypeOK
  <2>2. req' \in [Requests -> {"none", "pending"} \cup Ended]
    BY <1>0, <1>1 DEF TypeOK
  <2> QED BY <1>0, <1>1, <1>2, <2>1, <2>2 DEF TypeOK
<1>5. \A r \in ends \cap waiter : work[r] = "going" /\ r \in Requests /\ r \in Functions
  BY <1>2 DEF IInv, RequestFits
<1>6. ASSUME NEW j \in Functions PROVE JobFits(j)'
  <2>1. JobFits(j)
    BY DEF IInv
  <2>2. (work'[j] # "none") <=> (work[j] # "none")
    BY <1>1, <1>3, <1>5
  <2> QED BY <1>1, <2>1, <2>2 DEF JobFits
<1>7. ASSUME NEW r \in Requests PROVE RequestFits(r)'
  <2>1. RequestFits(r)
    BY DEF IInv
  <2>2. CASE r \in ends
    <3>1. req[r] = "pending" /\ req'[r] = s
      BY <1>1, <1>2, <2>2
    <3>2. CASE r \in waiter
      <4>1. work'[r] = Outcome(s) /\ work[r] = "going"
        BY <1>1, <1>5, <2>2, <3>2
      <4>2. JobFits(r)
        BY DEF IInv
      <4>3. job[r] \in {"running", "cancelling"} /\ r \notin cut
        BY <4>1, <4>2 DEF JobFits
      <4>4. (s = "cancelled") => (r \in cancelling)
        BY <1>2, <2>2
      <4>5. /\ Outcome(s) = "done" => s \in {"fulfilled", "cancelled"}
            /\ Outcome(s) = "failed" => s \in {"denied", "failed", "expired"}
            /\ Outcome(s) # "going" /\ s # "none" /\ s # "pending"
        BY DEF Outcome
      <4> QED BY <1>1, <2>1, <2>2, <3>1, <3>2, <4>1, <4>3, <4>4, <4>5 DEF RequestFits, Agree
    <3>3. CASE r \notin waiter
      <4>1. work'[r] = work[r] /\ r \in cut
        BY <1>1, <2>1, <3>1, <3>3 DEF RequestFits
      <4>2. JobFits(r)
        BY DEF IInv
      <4>3. work[r] = "none"
        BY <4>1, <4>2 DEF JobFits
      <4> QED BY <1>1, <2>1, <2>2, <3>1, <3>3, <4>1, <4>3 DEF RequestFits
    <3> QED BY <3>2, <3>3
  <2>3. CASE r \notin ends
    <3>1. req'[r] = req[r] /\ work'[r] = work[r]
      BY <1>1, <2>3
    <3>2. (r \in waiter' <=> r \in waiter) /\ (r \in timer' <=> r \in timer)
          /\ (r \in early' <=> r \in early)
      BY <1>1, <2>3
    <3> QED BY <1>1, <2>1, <3>1, <3>2 DEF RequestFits, Agree
  <2> QED BY <2>2, <2>3
<1>8. ASSUME NEW j \in Streamed PROVE RunFits(j)'
  BY <1>1 DEF IInv, RunFits
<1> QED BY <1>4, <1>6, <1>7, <1>8 DEF IInv

\* What concerns one function alone: the other jobs and what is known of them stay.
OnlyJob(j) ==
  /\ \A i \in Jobs : (i # j) => (job'[i] = job[i] /\ (i \in asked' <=> i \in asked)
                                   /\ (i \in cancelling' <=> i \in cancelling))
  /\ \A i \in Functions : (i # j) => (work'[i] = work[i])
  /\ UNCHANGED cut

LEMMA OthersFit ==
  ASSUME IInv, NEW j \in Jobs, OnlyJob(j)
  PROVE  /\ \A i \in Functions : (i # j) => JobFits(i)'
         /\ \A r \in Requests : (r # j /\ req'[r] = req[r] /\ (r \in waiter' <=> r \in waiter)
              /\ (r \in timer' <=> r \in timer) /\ (r \in early' <=> r \in early))
              => RequestFits(r)'
         /\ \A i \in Streamed : (i # j /\ run'[i] = run[i]) => RunFits(i)'
<1> USE RequestsAreJobs
<1>1. ASSUME NEW i \in Functions, i # j PROVE JobFits(i)'
  BY <1>1 DEF IInv, JobFits, OnlyJob
<1>2. ASSUME NEW r \in Requests, r # j, req'[r] = req[r], r \in waiter' <=> r \in waiter,
             r \in timer' <=> r \in timer, r \in early' <=> r \in early
      PROVE  RequestFits(r)'
  <2>1. RequestFits(r)
    BY DEF IInv
  <2>2. /\ job'[r] = job[r] /\ work'[r] = work[r] /\ cut' = cut
        /\ (r \in asked' <=> r \in asked) /\ (r \in cancelling' <=> r \in cancelling)
    BY <1>2 DEF OnlyJob
  <2> QED BY <1>2, <2>1, <2>2 DEF RequestFits, Agree
<1>3. ASSUME NEW i \in Streamed, i # j, run'[i] = run[i] PROVE RunFits(i)'
  BY <1>3 DEF IInv, RunFits, OnlyJob
<1> QED BY <1>1, <1>2, <1>3

\* The job of one function starts (jobs.ts start), with what it is known to be afterwards.
LEMMA StartFits ==
  ASSUME IInv, NEW j \in Functions, NEW w \in {"going", "done", "failed"}, Start(j, w)
  PROVE  JobTypeOK' /\ OnlyJob(j) /\ JobFits(j)' /\ job[j] = "none" /\ work'[j] = w
<1>1. JobTypeOK /\ JobFits(j)
  BY DEF IInv, TypeOK
<1>2. /\ job[j] = "none"
      /\ job' = [job EXCEPT ![j] = "running"] /\ work' = [work EXCEPT ![j] = w]
      /\ UNCHANGED <<asked, cancelling, run, cut, restarts>>
  BY DEF Start
<1>3. JobTypeOK'
  BY <1>1, <1>2 DEF JobTypeOK
<1>4. job'[j] = "running" /\ work'[j] = w
  BY <1>1, <1>2 DEF JobTypeOK
<1>5. OnlyJob(j)
  BY <1>1, <1>2 DEF OnlyJob, JobTypeOK
<1>6. JobFits(j)'
  BY <1>1, <1>2, <1>4 DEF JobFits
<1> QED BY <1>2, <1>3, <1>4, <1>5, <1>6

\* A request starts (devices/index.ts createRequest), pending or refused at once.
LEMMA CreateKeeps ==
  ASSUME IInv, NEW r \in Requests, Create(r) \/ CreateRefused(r)
  PROVE  IInv'
<1> USE RequestsAreJobs
<1>1. PICK w \in {"going", "failed"} :
        /\ Start(r, w)
        /\ \/ /\ w = "going"
              /\ req' = [req EXCEPT ![r] = "pending"]
              /\ waiter' = waiter \cup {r} /\ timer' = timer \cup {r}
           \/ /\ w = "failed"
              /\ \E s \in {"denied", "failed"} : req' = [req EXCEPT ![r] = s]
              /\ UNCHANGED <<waiter, timer>>
        /\ UNCHANGED <<due, paired, early>>
  BY DEF Create, CreateRefused
<1>2. /\ JobTypeOK' /\ OnlyJob(r) /\ JobFits(r)' /\ job[r] = "none" /\ work'[r] = w
  BY <1>1, StartFits
<1>3. TypeOK /\ RequestFits(r)
  BY DEF IInv
<1>4. TypeOK'
  BY <1>1, <1>2, <1>3 DEF TypeOK
<1>5. RequestFits(r)'
  <2>1. r \notin waiter /\ r \notin timer /\ r \notin cut /\ r \notin early
    BY <1>2, <1>3 DEF RequestFits, IInv, JobFits
  <2>2. cut' = cut /\ job'[r] = "running"
    BY <1>1, <1>3 DEF Start, TypeOK, JobTypeOK
  <2>3. CASE w = "going"
    <3>1. req'[r] = "pending" /\ r \in waiter' \cap timer'
      BY <1>1, <1>3, <2>3 DEF TypeOK
    <3> QED BY <1>1, <1>2, <2>1, <2>2, <2>3, <3>1 DEF RequestFits, Agree
  <2>4. CASE w = "failed"
    <3>1. req'[r] \in {"denied", "failed"} /\ waiter' = waiter /\ timer' = timer
      BY <1>1, <1>3, <2>4 DEF TypeOK
    <3> QED BY <1>1, <1>2, <2>1, <2>2, <2>4, <3>1 DEF RequestFits, Agree
  <2> QED BY <2>3, <2>4
<1>6. ASSUME NEW q \in Requests, q # r PROVE RequestFits(q)'
  <2>1. /\ req'[q] = req[q] /\ (q \in waiter' <=> q \in waiter)
        /\ (q \in timer' <=> q \in timer) /\ (q \in early' <=> q \in early)
    BY <1>1, <1>3, <1>6 DEF TypeOK
  <2> QED BY <1>2, <1>6, <2>1, OthersFit
<1>7. \A j \in Streamed : run'[j] = run[j] /\ j # r
  BY <1>1, JobsApart DEF Start
<1> QED BY <1>2, <1>4, <1>5, <1>6, <1>7, OthersFit DEF IInv

\* A job of another kind starts or has worked (jobs.ts start).
LEMMA OtherKeeps ==
  ASSUME IInv, NEW j \in Others, Other(j)
  PROVE  IInv'
<1>1. j \in Functions /\ j \notin Requests /\ UNCHANGED rowVars
  BY DEF Others, Other
<1>2. TypeOK /\ JobFits(j)
  BY <1>1 DEF IInv
<1>3. JobTypeOK' /\ OnlyJob(j) /\ JobFits(j)' /\ run' = run
  <2>1. CASE \E w \in {"going", "done", "failed"} : Start(j, w)
    BY <1>1, <2>1, StartFits DEF Start
  <2>2. CASE Settle(j)
    <3>1. PICK w \in {"done", "failed"} :
            /\ work[j] = "going" /\ work' = [work EXCEPT ![j] = w]
            /\ UNCHANGED <<job, asked, cancelling, run, cut, restarts>>
      BY <2>2 DEF Settle
    <3>2. work'[j] = w
      BY <1>1, <1>2, <3>1 DEF TypeOK, JobTypeOK
    <3>3. JobTypeOK' /\ OnlyJob(j)
      BY <1>1, <1>2, <3>1 DEF TypeOK, JobTypeOK, OnlyJob
    <3>4. JobFits(j)'
      BY <1>2, <3>1, <3>2 DEF JobFits
    <3> QED BY <3>1, <3>3, <3>4
  <2> QED BY <2>1, <2>2 DEF Other
<1>4. TypeOK'
  BY <1>1, <1>2, <1>3 DEF TypeOK, rowVars
<1>5. \A r \in Requests : RequestFits(r)'
  BY <1>1, <1>3, OthersFit DEF rowVars
<1>6. \A i \in Streamed : RunFits(i)'
  BY <1>1, <1>3, OthersFit, JobsApart
<1>7. \A i \in Functions : JobFits(i)'
  BY <1>1, <1>3, OthersFit
<1> QED BY <1>4, <1>5, <1>6, <1>7 DEF IInv

\* The continuation of a promise writes how its job ended (jobs.ts start).
LEMMA FinishKeeps ==
  ASSUME IInv, NEW j \in Functions, FinishJob(j)
  PROVE  IInv'
<1>1. /\ work[j] \in {"done", "failed"}
      /\ job' = [job EXCEPT ![j] = EndOf(j)] /\ work' = [work EXCEPT ![j] = "none"]
      /\ cancelling' = cancelling \ {j}
      /\ UNCHANGED <<asked, run, cut, restarts>> /\ UNCHANGED rowVars
  BY DEF FinishJob, Finish
<1>2. TypeOK /\ JobTypeOK /\ JobFits(j)
  BY DEF IInv, TypeOK
<1>3. EndOf(j) \in Over
  BY DEF EndOf
<1>4. job'[j] = EndOf(j) /\ work'[j] = "none"
  BY <1>1, <1>2 DEF JobTypeOK
<1>5. TypeOK'
  <2>1. JobTypeOK'
    BY <1>1, <1>2, <1>3 DEF JobTypeOK
  <2> QED BY <1>1, <1>2, <2>1 DEF TypeOK, rowVars
<1>6. OnlyJob(j)
  BY <1>1, <1>2 DEF OnlyJob, JobTypeOK
<1>7. JobFits(j)'
  BY <1>1, <1>2, <1>3, <1>4 DEF JobFits, EndOf
<1>8. ASSUME j \in Requests PROVE RequestFits(j)'
  <2>1. RequestFits(j)
    BY <1>8 DEF IInv
  <2>2. j \notin cut /\ (j \in cancelling => j \in asked)
    BY <1>1, <1>2 DEF JobFits
  <2>3. Agree(j)'
    BY <1>1, <1>4, <2>1, <2>2 DEF Agree, RequestFits, EndOf, rowVars
  <2>4. j \notin waiter /\ j \notin timer /\ req[j] # "pending" /\ req[j] # "none"
    BY <1>1, <2>1 DEF RequestFits
  <2> QED BY <1>1, <1>3, <1>4, <2>1, <2>3, <2>4 DEF RequestFits, rowVars
<1>9. \A r \in Requests : RequestFits(r)'
  BY <1>1, <1>6, <1>8, OthersFit DEF rowVars
<1>10. \A i \in Streamed : RunFits(i)'
  BY <1>1, <1>6, OthersFit, JobsApart
<1>11. \A i \in Functions : JobFits(i)'
  BY <1>6, <1>7, OthersFit
<1> QED BY <1>5, <1>9, <1>10, <1>11 DEF IInv

\* The route that cancels (audit/index.ts jobs.cancel, jobs.ts cancel).
LEMMA CancelKeeps ==
  ASSUME IInv, NEW j \in Jobs, CancelJob(j)
  PROVE  IInv'
<1>1. /\ job[j] \in Open
      /\ cancelling' = cancelling \cup {j}
      /\ \/ /\ job[j] = "queued"
            /\ job' = [job EXCEPT ![j] = "cancelled"] /\ asked' = asked
         \/ /\ job[j] # "queued"
            /\ job' = [job EXCEPT ![j] = "cancelling"] /\ asked' = asked \cup {j}
      /\ UNCHANGED <<work, run, cut, restarts>> /\ UNCHANGED rowVars
  BY DEF CancelJob, Cancel, Cancellable
<1>2. TypeOK /\ JobTypeOK
  BY DEF IInv, TypeOK
<1>3. job'[j] = (IF job[j] = "queued" THEN "cancelled" ELSE "cancelling")
  BY <1>1, <1>2 DEF JobTypeOK
<1>4. TypeOK'
  <2>1. JobTypeOK'
    BY <1>1, <1>2 DEF JobTypeOK
  <2> QED BY <1>1, <1>2, <2>1 DEF TypeOK, rowVars
<1>5. OnlyJob(j)
  BY <1>1, <1>2 DEF OnlyJob, JobTypeOK
<1>6. ASSUME j \in Functions PROVE JobFits(j)'
  <2>1. JobFits(j)
    BY <1>6 DEF IInv
  <2> QED BY <1>1, <1>3, <2>1 DEF JobFits
<1>7. ASSUME j \in Requests PROVE RequestFits(j)'
  <2>1. RequestFits(j) /\ JobFits(j)
    BY <1>7, RequestsAreJobs DEF IInv
  <2>2. job[j] = "queued" => j \in cut
    BY <1>1, <2>1 DEF JobFits
  <2> QED BY <1>1, <1>3, <2>1, <2>2 DEF RequestFits, Agree, rowVars
<1>8. ASSUME j \in Streamed PROVE RunFits(j)'
  BY <1>1, <1>8 DEF IInv, RunFits
<1>9. \A r \in Requests : RequestFits(r)'
  BY <1>1, <1>5, <1>7, OthersFit DEF rowVars
<1>10. \A i \in Streamed : RunFits(i)'
  BY <1>1, <1>5, <1>8, OthersFit
<1>11. \A i \in Functions : JobFits(i)'
  BY <1>5, <1>6, OthersFit
<1> QED BY <1>4, <1>9, <1>10, <1>11 DEF IInv

\* A session writes its run and its job together (sessions/service.ts, engine.ts).
LEMMA SessionKeeps ==
  ASSUME IInv, NEW j \in Streamed, Session(j)
  PROVE  IInv'
<1>1. /\ UNCHANGED <<asked, work, cancelling, cut, restarts>> /\ UNCHANGED rowVars
      /\ \E s \in {"queued", "driven"} \cup Over, t \in Open \cup Over :
           /\ run' = [run EXCEPT ![j] = s]
           /\ job' = [job EXCEPT ![j] = t] \/ job' = job
           /\ s \in Over => (job' = [job EXCEPT ![j] = s])
  BY DEF Session, Queue, Drive, EndRun
<1>2. TypeOK /\ JobTypeOK
  BY DEF IInv, TypeOK
<1>3. TypeOK'
  <2>1. JobTypeOK'
    BY <1>1, <1>2 DEF JobTypeOK
  <2> QED BY <1>1, <1>2, <2>1 DEF TypeOK, rowVars
<1>4. OnlyJob(j) /\ \A i \in Streamed : i # j => run'[i] = run[i]
  BY <1>1, <1>2 DEF OnlyJob, JobTypeOK
<1>5. RunFits(j)'
  BY <1>1, <1>2 DEF RunFits, JobTypeOK
<1>6. j \notin Functions /\ j \notin Requests
  BY JobsApart, RequestsAreJobs
<1>7. \A r \in Requests : RequestFits(r)'
  BY <1>1, <1>4, <1>6, OthersFit DEF rowVars
<1>8. (\A i \in Streamed : RunFits(i)') /\ (\A i \in Functions : JobFits(i)')
  BY <1>4, <1>5, <1>6, OthersFit
<1> QED BY <1>3, <1>7, <1>8 DEF IInv

\* The process ends and comes back: what it held is gone, and what was open is cut.
LEMMA RebootKeeps ==
  ASSUME IInv, Reboot
  PROVE  IInv'
<1> USE RequestsAreJobs
<1>1. /\ restarts < MaxRestarts /\ restarts' = restarts + 1
      /\ cut' = cut \cup {j \in Jobs : job[j] \in Open}
                    \cup {j \in Streamed : run[j] \in {"queued", "driven"}}
      /\ work' = [j \in Functions |-> "none"]
      /\ run' = [j \in Streamed |-> IF run[j] \in {"queued", "driven"} THEN "failed" ELSE run[j]]
      /\ cancelling' = {} /\ waiter' = {} /\ early' = {} /\ timer' = {}
      /\ UNCHANGED <<job, asked, req, due, paired>>
  BY DEF Reboot, Restart
<1>2. TypeOK /\ JobTypeOK
  BY DEF IInv, TypeOK
<1>3. TypeOK'
  <2>1. JobTypeOK'
    BY <1>1, <1>2, MaxRestartsIsNat DEF JobTypeOK
  <2> QED BY <1>1, <1>2, <2>1 DEF TypeOK
<1>4. ASSUME NEW j \in Functions
      PROVE  work'[j] = "none" /\ (j \in cut' <=> (j \in cut \/ job[j] \in Open)) /\ JobFits(j)'
  <2>1. JobFits(j) /\ j \notin Streamed
    BY JobsApart DEF IInv
  <2>2. work'[j] = "none" /\ (j \in cut' <=> (j \in cut \/ job[j] \in Open))
    BY <1>1, <2>1
  <2> QED BY <1>1, <2>1, <2>2 DEF JobFits
<1>5. ASSUME NEW r \in Requests PROVE RequestFits(r)'
  <2>1. RequestFits(r) /\ JobFits(r)
    BY DEF IInv
  <2>2. (req[r] = "pending") => (r \in cut')
    BY <1>4, <2>1 DEF RequestFits, JobFits
  <2> QED BY <1>1, <1>4, <2>1, <2>2 DEF RequestFits, Agree
<1>6. ASSUME NEW j \in Streamed PROVE RunFits(j)'
  BY <1>1 DEF IInv, RunFits
<1> QED BY <1>3, <1>4, <1>5, <1>6 DEF IInv

\* The clock, and a device unlinked or paired again, touch neither jobs nor requests.
LEMMA ElseKeeps ==
  ASSUME IInv,
         (\E r \in Requests : TimePasses(r)) \/ Unlink \/ Pair \/ UNCHANGED vars
  PROVE  IInv'
<1>1. /\ UNCHANGED jobVars /\ UNCHANGED <<req, waiter, early, timer>>
      /\ due' \subseteq due \cup Requests
      /\ paired' \in {paired, TRUE, FALSE}
  BY DEF TimePasses, Unlink, Pair, vars, rowVars
<1>2. TypeOK
  BY DEF IInv
<1>3. TypeOK'
  BY <1>1, <1>2 DEF TypeOK, JobTypeOK, jobVars
<1>4. \A j \in Functions : JobFits(j)'
  BY <1>1 DEF IInv, JobFits, jobVars
<1>5. ASSUME NEW r \in Requests PROVE RequestFits(r)'
  <2>1. RequestFits(r)
    BY DEF IInv
  <2> QED BY <1>1, <2>1 DEF RequestFits, Agree, jobVars
<1>6. \A j \in Streamed : RunFits(j)'
  BY <1>1 DEF IInv, RunFits, jobVars
<1> QED BY <1>3, <1>4, <1>5, <1>6 DEF IInv

-----------------------------------------------------------------------------
(* The invariant is inductive, and the properties follow from it.            *)

LEMMA InitInv == Init => IInv
<1> SUFFICES ASSUME Init PROVE IInv
  OBVIOUS
<1>1. TypeOK
  BY MaxRestartsIsNat DEF Init, JobInit, TypeOK, JobTypeOK
<1>2. \A j \in Functions : JobFits(j)
  BY DEF Init, JobInit, JobFits
<1>3. \A r \in Requests : RequestFits(r)
  BY RequestsAreJobs DEF Init, JobInit, RequestFits, Agree
<1>4. \A j \in Streamed : RunFits(j)
  BY DEF Init, JobInit, RunFits
<1> QED BY <1>1, <1>2, <1>3, <1>4 DEF IInv

LEMMA InvStep == IInv /\ [Next]_vars => IInv'
<1> SUFFICES ASSUME IInv, [Next]_vars PROVE IInv'
  OBVIOUS
<1>1. CASE \E r \in Requests : Create(r) \/ CreateRefused(r)
  BY <1>1, CreateKeeps
<1>2. CASE \E r \in Requests : TimerFires(r) \/ Find(r)
  BY <1>2, CloseKeeps DEF TimerFires, Find
<1>3. CASE \E r \in Requests : Respond(r)
  BY <1>3, CloseKeeps DEF Respond
<1>4. CASE \E r \in Requests : PollCancel(r)
  BY <1>4, CloseKeeps DEF PollCancel
<1>5. CASE List
  <2>1. due \in SUBSET Requests
    BY DEF IInv, TypeOK
  <2> QED BY <1>5, <2>1, CloseKeeps DEF List
<1>6. CASE \E j \in Jobs : CancelJob(j)
  BY <1>6, CancelKeeps
<1>7. CASE \E j \in Functions : FinishJob(j)
  BY <1>7, FinishKeeps
<1>8. CASE \E j \in Others : Other(j)
  BY <1>8, OtherKeeps
<1>9. CASE \E j \in Streamed : Session(j)
  BY <1>9, SessionKeeps
<1>10. CASE Reboot
  BY <1>10, RebootKeeps
<1>11. CASE (\E r \in Requests : TimePasses(r)) \/ Unlink \/ Pair \/ UNCHANGED vars
  BY <1>11, ElseKeeps
<1> QED BY <1>1, <1>2, <1>3, <1>4, <1>5, <1>6, <1>7, <1>8, <1>9, <1>10, <1>11 DEF Next

\* Jobs, requests and sessions' jobs fit what is behind them in every state.
THEOREM RequestInvariance == Spec => []IInv
BY InitInv, InvStep, PTL DEF Spec

\* Types: no answer, cancellation or restart leaves a row, a map or a promise in a state
\* that jobs.ts and requests.ts do not expect.
THEOREM RequestTypes == Spec => []TypeOK
<1>1. IInv => TypeOK
  BY DEF IInv
<1> QED BY <1>1, RequestInvariance, PTL

\* The job of a function is open while it works and then says whether it was asked to stop;
\* the job of a session's run says how the run ended, once it has (jobs.ts, the route
\* jobs.cancel, and the sessions that write their jobs themselves).
THEOREM JobsFollowWork == Spec => []JobFollowsWork
<1>1. IInv => JobFollowsWork
  <2> SUFFICES ASSUME IInv PROVE JobFollowsWork
    OBVIOUS
  <2>1. OpenIsWorkedOn
    BY DEF IInv, JobFits, OpenIsWorkedOn
  <2>2. EndTellsIfAsked
    BY DEF IInv, JobFits, EndTellsIfAsked
  <2>3. JobSaysTheRun
    BY DEF IInv, RunFits, JobSaysTheRun
  <2> QED BY <2>1, <2>2, <2>3 DEF JobFollowsWork
<1> QED BY <1>1, RequestInvariance, PTL

\* Whoever is asked is waited for and timed, and nobody waits for what has ended
\* (requests.ts wait, arm, finish, settle).
THEOREM NobodyWaitsInVain == Spec => []PendingIsWaitedFor
<1>1. IInv => PendingIsWaitedFor
  BY DEF IInv, TypeOK, RequestFits, PendingIsWaitedFor
<1> QED BY <1>1, RequestInvariance, PTL

\* A request and its job end alike (requests.ts wait, jobs.ts start).
THEOREM JobsFollowRequests == Spec => []JobFollowsRequest
<1>1. IInv => JobFollowsRequest
  BY DEF IInv, RequestFits, JobFollowsRequest
<1> QED BY <1>1, RequestInvariance, PTL

\* What a step may do to requests (their rows) and to jobs of the runner.
RequestStep ==
  /\ \A r \in Requests : (req[r] \in Ended) => (req'[r] = req[r])
  /\ \A r \in due : (req[r] = "pending") => (req'[r] \notin Answers)

JobStep == \A j \in Functions : (job[j] \in Over) => (job'[j] = job[j])

LEMMA RequestsStep == ASSUME IInv, [Next]_vars PROVE RequestStep
<1>0. TypeOK /\ due \subseteq Requests
  BY DEF IInv, TypeOK
<1>1. CASE UNCHANGED req
  BY <1>0, <1>1 DEF RequestStep
<1>2. ASSUME NEW rs \in SUBSET Requests, NEW s \in Ended, Close(rs, s),
             (s \in Answers) => (rs \cap due = {})
      PROVE  RequestStep
  BY <1>0, <1>2 DEF Close, Pending, RequestStep
<1>3. ASSUME NEW r \in Requests, Create(r) \/ CreateRefused(r) PROVE RequestStep
  <2>1. job[r] = "none"
    BY <1>3 DEF Create, CreateRefused, Start
  <2>2. req[r] = "none"
    BY <2>1 DEF IInv, RequestFits
  <2>3. \A q \in Requests : q # r => req'[q] = req[q]
    BY <1>0, <1>3 DEF Create, CreateRefused, TypeOK
  <2> QED BY <1>0, <2>2, <2>3 DEF RequestStep
<1>4. ASSUME NEW r \in Requests, TimerFires(r) \/ Find(r) \/ Respond(r) \/ PollCancel(r)
      PROVE  RequestStep
  <2>1. PICK s \in Ended : Close({r}, s) /\ ((s \in Answers) => (r \notin due))
    BY <1>4 DEF TimerFires, Find, Respond, PollCancel, Pending
  <2> QED BY <1>2, <2>1
<1>5. CASE List
  BY <1>0, <1>2, <1>5 DEF List
<1> QED
  BY <1>1, <1>3, <1>4, <1>5
  DEF Next, TimePasses, CancelJob, FinishJob, Other, Session, Reboot, Unlink, Pair, rowVars, vars

LEMMA JobsStep == ASSUME IInv, [Next]_vars PROVE JobStep
<1>0. TypeOK /\ JobTypeOK
  BY DEF IInv, TypeOK
<1>1. CASE UNCHANGED job
  BY <1>1 DEF JobStep
<1>2. ASSUME NEW j \in Jobs, NEW s, job' = [job EXCEPT ![j] = s],
             (j \in Functions) => (job[j] \notin Over)
      PROVE  JobStep
  BY <1>0, <1>2 DEF JobTypeOK, JobStep
<1>3. ASSUME NEW j \in Functions, NEW w, Start(j, w) PROVE JobStep
  BY <1>2, <1>3 DEF Start
<1>4. ASSUME NEW j \in Functions, FinishJob(j) PROVE JobStep
  <2>1. job[j] \notin Over
    BY <1>4 DEF FinishJob, Finish, IInv, JobFits
  <2> QED BY <1>2, <1>4, <2>1 DEF FinishJob, Finish
<1>5. ASSUME NEW j \in Jobs, CancelJob(j) PROVE JobStep
  <2>1. job[j] \notin Over
    BY <1>5 DEF CancelJob, Cancel, Cancellable
  <2> QED BY <1>2, <1>5, <2>1 DEF CancelJob, Cancel
<1>6. ASSUME NEW j \in Streamed, Session(j) PROVE JobStep
  <2>1. j \notin Functions
    BY JobsApart
  <2> QED BY <1>1, <1>2, <1>6, <2>1 DEF Session, Queue, Drive, EndRun
<1>7. ASSUME NEW j \in Others, Other(j) PROVE JobStep
  BY <1>1, <1>3, <1>7 DEF Other, Others, Settle
<1>8. ASSUME NEW r \in Requests, Create(r) \/ CreateRefused(r) PROVE JobStep
  BY <1>3, <1>8, RequestsAreJobs DEF Create, CreateRefused
<1> QED
  BY <1>1, <1>4, <1>5, <1>6, <1>7, <1>8
  DEF Next, TimePasses, TimerFires, Find, Respond, PollCancel, List, Close, Unlink, Pair, Reboot,
      Restart, jobVars, vars

\* A request ends once, and so does its job, whoever ends them (requests.ts finish).
THEOREM RequestsEndOnce == Spec => EndsOnce
<1>1. IInv /\ [Next]_vars =>
        [/\ \A r \in Requests  : (req[r] \in Ended) => (req'[r] = req[r])
         /\ \A j \in Functions : (job[j] \in Over)  => (job'[j] = job[j])]_vars
  BY RequestsStep, JobsStep DEF RequestStep, JobStep
<1> QED BY <1>1, RequestInvariance, PTL DEF Spec, EndsOnce

\* No answer is taken after the deadline (devices/index.ts respondRequest, requests.ts find).
THEOREM LateIsRefused == Spec => LateAnswerIsRefused
<1>1. IInv /\ [Next]_vars =>
        [\A r \in due : (req[r] = "pending") => (req'[r] \notin Answers)]_vars
  BY RequestsStep DEF RequestStep
<1> QED BY <1>1, RequestInvariance, PTL DEF Spec, LateAnswerIsRefused

-----------------------------------------------------------------------------
(* Requests and jobs are a settlement: each action, as one request and one   *)
(* job see it.                                                               *)

USE DEF Settled!Answers, Settled!Turns, Settled!Learns

\* What the abstract step allows of one request, of one job, and of what only grows.
RequestSettles(r) ==
  \/ req'[r] = req[r]
  \/ Settled!Asked(r) \/ Settled!Answered(r) \/ Settled!Expired(r) \/ Settled!Withdrawn(r)

JobSettles(j) ==
  \/ Told(j)' = Told(j)
  \/ Settled!Started(j) \/ Settled!Cut(j)
  \/ IF j \in Requests THEN Settled!Asked(j) \/ Settled!Heard(j) ELSE Settled!Ended(j)

Settles ==
  /\ \A r \in Requests : RequestSettles(r)
  /\ \A j \in Functions : JobSettles(j)
  /\ due \subseteq due' /\ asked \subseteq asked'

\* A job's row moves alone: whoever is not it is told what it was.
LEMMA OthersAreTold ==
  ASSUME NEW j \in Jobs, OnlyJob(j), NEW i \in Functions, i # j
  PROVE  Told(i)' = Told(i)
<1>1. i \in Jobs /\ job'[i] = job[i] /\ cut' = cut
  BY DEF OnlyJob
<1> QED BY <1>1 DEF Told

\* A request ends (finish): its job is told nothing yet.
LEMMA CloseSettles ==
  ASSUME IInv, NEW rs \in SUBSET Requests, NEW s \in Ended, Close(rs, s),
         (s \in Answers) => (paired /\ rs \cap due = {}),
         (s = "expired") => (rs \subseteq due),
         (s = "cancelled") => (rs \subseteq waiter \cap cancelling)
  PROVE  Settles
<1>1. /\ req' = [r \in Requests |-> IF r \in Pending(rs) THEN s ELSE req[r]]
      /\ UNCHANGED <<job, asked, cut, due>>
  BY DEF Close
<1>2. ASSUME NEW r \in Requests PROVE RequestSettles(r)
  <2>1. CASE r \notin Pending(rs)
    BY <1>1, <2>1 DEF RequestSettles
  <2>2. CASE r \in Pending(rs)
    <3>1. r \in rs /\ Settled!Turns(r, "pending", s)
      BY <1>1, <2>2 DEF Pending
    <3>2. CASE s \in Answers
      BY <3>1, <3>2 DEF RequestSettles, Settled!Answered
    <3>3. CASE s = "expired"
      BY <3>1, <3>3 DEF RequestSettles, Settled!Expired
    <3>4. CASE s = "cancelled"
      <4>1. r \in waiter /\ r \in cancelling /\ r \in Functions
        BY <3>1, <3>4, RequestsAreJobs
      <4>2. RequestFits(r) /\ JobFits(r)
        BY <4>1 DEF IInv
      <4>3. job[r] \in Open /\ r \notin cut /\ r \in asked
        BY <4>1, <4>2 DEF RequestFits, JobFits
      <4>4. Told(r) = "waiting"
        BY <4>3 DEF Told
      <4> QED BY <3>1, <3>4, <4>1, <4>3, <4>4 DEF RequestSettles, Settled!Withdrawn
    <3> QED BY <3>2, <3>3, <3>4
  <2> QED BY <2>1, <2>2
<1>3. \A j \in Functions : JobSettles(j)
  BY <1>1 DEF JobSettles, Told
<1> QED BY <1>1, <1>2, <1>3 DEF Settles

\* A job begins, with its request if it waits for a device (createRequest, jobs.ts start).
LEMMA CreateSettles ==
  ASSUME IInv, NEW r \in Requests, Create(r) \/ CreateRefused(r)
  PROVE  Settles
<1> USE RequestsAreJobs
<1>0. TypeOK /\ JobTypeOK /\ JobFits(r) /\ RequestFits(r) /\ r \in Functions
  BY DEF IInv, TypeOK
<1>1. /\ paired /\ job[r] = "none" /\ job' = [job EXCEPT ![r] = "running"]
      /\ \E to \in {"pending", "denied", "failed"} : req' = [req EXCEPT ![r] = to]
      /\ UNCHANGED <<asked, cut, due>>
  BY DEF Create, CreateRefused, Start
<1>2. OnlyJob(r)
  BY <1>0 DEF Create, CreateRefused, Start, OnlyJob, JobTypeOK
<1>3. Told(r) = "none" /\ Told(r)' = "waiting"
  BY <1>0, <1>1 DEF JobFits, JobTypeOK, Told
<1>4. Settled!Asked(r)
  <2>1. req[r] = "none"
    BY <1>0, <1>1 DEF RequestFits
  <2> QED BY <1>0, <1>1, <1>3, <2>1 DEF TypeOK, Settled!Asked
<1>5. ASSUME NEW q \in Requests PROVE RequestSettles(q)
  BY <1>0, <1>1, <1>4 DEF TypeOK, RequestSettles
<1>6. ASSUME NEW j \in Functions PROVE JobSettles(j)
  BY <1>0, <1>2, <1>4, OthersAreTold DEF JobSettles
<1> QED BY <1>1, <1>5, <1>6 DEF Settles

\* Another function begins, or its promise settles.
LEMMA OtherSettles ==
  ASSUME IInv, NEW j \in Others, Other(j)
  PROVE  Settles
<1>0. TypeOK /\ JobTypeOK /\ JobFits(j) /\ j \in Functions /\ j \notin Requests
  BY DEF IInv, TypeOK, Others
<1>1. UNCHANGED <<req, due, asked, cut>>
  BY DEF Other, rowVars, Settle, Start
<1>2. CASE \E w \in {"going", "done", "failed"} : Start(j, w)
  <2>1. /\ job[j] = "none" /\ job' = [job EXCEPT ![j] = "running"] /\ OnlyJob(j)
    BY <1>0, <1>2 DEF Start, OnlyJob, JobTypeOK
  <2>2. Told(j) = "none" /\ Told(j)' = "waiting"
    BY <1>0, <1>1, <2>1 DEF JobFits, JobTypeOK, Told
  <2>3. \A i \in Functions : JobSettles(i)
    BY <1>0, <2>1, <2>2, OthersAreTold DEF JobSettles, Settled!Started
  <2> QED BY <1>1, <2>3 DEF Settles, RequestSettles
<1>3. CASE Settle(j)
  BY <1>1, <1>3 DEF Settle, Settles, RequestSettles, JobSettles, Told
<1> QED BY <1>2, <1>3 DEF Other

\* The job learns how it ended (jobs.ts start): as its request did.
LEMMA FinishSettles ==
  ASSUME IInv, NEW j \in Functions, FinishJob(j)
  PROVE  Settles
<1>0. TypeOK /\ JobTypeOK /\ JobFits(j)
  BY DEF IInv, TypeOK
<1>1. /\ work[j] \in {"done", "failed"}
      /\ job' = [job EXCEPT ![j] = EndOf(j)]
      /\ UNCHANGED <<asked, cut, req, due>>
  BY DEF FinishJob, Finish, rowVars
<1>2. OnlyJob(j)
  BY <1>0 DEF FinishJob, Finish, OnlyJob, JobTypeOK
<1>3. /\ job[j] \in Open /\ j \notin cut /\ (j \in asked <=> j \in cancelling)
      /\ EndOf(j) \in Over /\ job'[j] = EndOf(j)
  BY <1>0, <1>1 DEF JobFits, JobTypeOK, EndOf
<1>4. Settled!Learns(j, "waiting", EndOf(j))
  BY <1>1, <1>3 DEF Told
<1>5. JobSettles(j)
  <2>1. CASE j \in Requests
    <3>1. RequestFits(j)
      BY <2>1 DEF IInv
    <3>2. Settled!Heard(j)
      BY <1>1, <1>3, <1>4, <3>1 DEF RequestFits, EndOf, Settled!Heard
    <3> QED BY <2>1, <3>2 DEF JobSettles
  <2>2. CASE j \notin Requests
    <3>1. Settled!Ended(j)
      BY <1>3, <1>4 DEF EndOf, Settled!Ended
    <3> QED BY <2>2, <3>1 DEF JobSettles
  <2> QED BY <2>1, <2>2
<1>6. \A i \in Functions : JobSettles(i)
  BY <1>2, <1>5, OthersAreTold DEF JobSettles
<1> QED BY <1>1, <1>6 DEF Settles, RequestSettles

\* Asking a job to stop ends nothing (the route jobs.cancel).
LEMMA CancelSettles ==
  ASSUME IInv, NEW j \in Jobs, CancelJob(j)
  PROVE  Settles
<1>0. TypeOK /\ JobTypeOK
  BY DEF IInv, TypeOK
<1>1. /\ job[j] \in Open
      /\ job' = [job EXCEPT ![j] = IF job[j] = "queued" THEN "cancelled" ELSE "cancelling"]
      /\ asked \subseteq asked' /\ UNCHANGED <<cut, req, due>>
  BY DEF CancelJob, Cancel, Cancellable, rowVars
<1>2. OnlyJob(j)
  BY <1>0 DEF CancelJob, Cancel, OnlyJob, JobTypeOK
<1>3. ASSUME NEW i \in Functions PROVE JobSettles(i)
  <2>1. CASE i # j
    BY <1>2, <2>1, OthersAreTold DEF JobSettles
  <2>2. CASE i = j
    <3>1. j \in cut \/ job[j] # "queued"
      BY <1>1, <2>2 DEF IInv, JobFits
    <3>2. Told(j)' = Told(j)
      BY <1>0, <1>1, <3>1 DEF Told, JobTypeOK
    <3> QED BY <2>2, <3>2 DEF JobSettles
  <2> QED BY <2>1, <2>2
<1> QED BY <1>1, <1>3 DEF Settles, RequestSettles

\* Sessions write no job of a function.
LEMMA SessionSettles ==
  ASSUME IInv, NEW j \in Streamed, Session(j)
  PROVE  Settles
<1>0. JobTypeOK
  BY DEF IInv, TypeOK
<1>1. UNCHANGED <<req, due, asked, cut>>
  BY DEF Session, Queue, Drive, EndRun, rowVars
<1>2. OnlyJob(j)
  BY <1>0 DEF Session, Queue, Drive, EndRun, OnlyJob, JobTypeOK
<1>3. \A i \in Functions : JobSettles(i)
  BY <1>2, JobsApart, OthersAreTold DEF JobSettles
<1> QED BY <1>1, <1>3 DEF Settles, RequestSettles

\* What was waiting when the process ended is cut, and learns nothing any more.
LEMMA RebootSettles ==
  ASSUME IInv, Reboot
  PROVE  Settles
<1>1. /\ cut' = cut \cup {j \in Jobs : job[j] \in Open}
                    \cup {j \in Streamed : run[j] \in {"queued", "driven"}}
      /\ UNCHANGED <<job, asked, req, due>>
  BY DEF Reboot, Restart
<1>2. ASSUME NEW j \in Functions PROVE JobSettles(j)
  <2>1. j \in cut' <=> (j \in cut \/ job[j] \in Open)
    BY <1>1, JobsApart
  <2> QED BY <1>1, <2>1 DEF JobSettles, Told, Settled!Cut
<1> QED BY <1>1, <1>2 DEF Settles, RequestSettles

LEMMA StepSettles == IInv /\ [Next]_vars => [Settled!Next]_(Settled!settlementVars)
<1> SUFFICES ASSUME IInv, Next PROVE Settled!Next \/ UNCHANGED Settled!settlementVars
  BY DEF vars, jobVars, rowVars, Settled!settlementVars, Told
<1>1. Settles
  <2>1. CASE \E r \in Requests : Create(r) \/ CreateRefused(r)
    BY <2>1, CreateSettles
  <2>2. CASE \E r \in Requests : TimerFires(r) \/ Find(r)
    BY <2>2, CloseSettles DEF TimerFires, Find, Pending
  <2>3. CASE \E r \in Requests : Respond(r)
    BY <2>3, CloseSettles DEF Respond, Pending
  <2>4. CASE \E r \in Requests : PollCancel(r)
    BY <2>4, CloseSettles DEF PollCancel
  <2>5. CASE List
    <3>1. due \in SUBSET Requests
      BY DEF IInv, TypeOK
    <3> QED BY <2>5, <3>1, CloseSettles DEF List
  <2>6. CASE \E j \in Jobs : CancelJob(j)
    BY <2>6, CancelSettles
  <2>7. CASE \E j \in Functions : FinishJob(j)
    BY <2>7, FinishSettles
  <2>8. CASE \E j \in Others : Other(j)
    BY <2>8, OtherSettles
  <2>9. CASE \E j \in Streamed : Session(j)
    BY <2>9, SessionSettles
  <2>10. CASE Reboot
    BY <2>10, RebootSettles
  <2>11. CASE (\E r \in Requests : TimePasses(r)) \/ Unlink \/ Pair
    BY <2>11 DEF TimePasses, Unlink, Pair, jobVars, Told, Settles, RequestSettles, JobSettles
  <2> QED BY <2>1, <2>2, <2>3, <2>4, <2>5, <2>6, <2>7, <2>8, <2>9, <2>10, <2>11 DEF Next
<1> QED BY <1>1 DEF Settles, RequestSettles, JobSettles, Settled!Next

\* Requests and their jobs implement the abstract settlement: each ends once, in time, and
\* alike (requests.ts finish, find, wait; jobs.ts start).
THEOREM RequestsKeepSettlement == Spec => KeepsSettlement
<1>1. Init => Settled!Init
  BY RequestsAreJobs DEF Init, JobInit, Settled!Init, Told
<1>2. IInv /\ [Next]_vars => [Settled!Next]_(Settled!settlementVars)
  BY StepSettles
<1> QED BY <1>1, <1>2, RequestInvariance, PTL DEF Spec, KeepsSettlement, Settled!Spec
=============================================================================
