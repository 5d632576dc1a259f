------------------------------ MODULE RunEngine ------------------------------
(***************************************************************************)
(* The run engine of the `sessions` module                                 *)
(* (packages/server/src/modules/sessions/engine.ts), its reducer           *)
(* (run-reducer.ts) and the service operations that meet it (service.ts).  *)
(*                                                                         *)
(* A session holds runs.  A run is a row of the database, created `queued` *)
(* by createRun, which also kicks the session's chain of promises; a link  *)
(* of the chain drains the queued runs one after the other, and driving    *)
(* one crosses four awaits: the agent is looked up, the working folder is  *)
(* recorded, the adapter is started, the adapter's events are read.        *)
(* Between two awaits any other request may be served: a person cancels,   *)
(* answers an approval, compresses or deletes the session, and the hub may *)
(* be stopped and started again, which keeps the rows and drops the rest.  *)
(*                                                                         *)
(* One action is one stretch of code between two awaits.                   *)
(***************************************************************************)
EXTENDS Integers, Sequences, FiniteSets

CONSTANTS
  Sessions,       \* chat sessions, all of them open at first
  Runs,           \* ids of runs, each of them used at most once
  Asks,           \* the approvals an agent may request inside one run
  None,           \* no session
  MaxCompress,    \* bound: compressions per session between two starts of the hub
  MaxRestarts     \* bound: times the hub is stopped and started again

ASSUME NoneAssumption   == None \notin Sessions
ASSUME BoundsAssumption == MaxCompress \in Nat /\ MaxRestarts \in Nat

VARIABLES
  (* what the database holds *)
  session,        \* per session: "open", or "gone" once deleted
  home,           \* per run: its session
  row,            \* per run: the status column
  ahead,          \* per run: the runs of its session before it (the order of createdAt)
  job,            \* per run: the status of its `sessions.run` job
  ask,            \* per run and approval: the status of the approvals row
  (* what the process holds *)
  pc,             \* per run: where createRun or execute stands
  link,           \* per run: the link of the chain that drives it
  mem,            \* per run: RunState.status, the reducer's own status
  stop,           \* per run: RunState.interruptRequested
  memAsk,         \* per run and approval: RunState.approvals
  chain,          \* per session: the links chained since the hub started
  done,           \* per session: how many of them are over
  sweep,          \* per session: runs a deletion has still to cancel, and its phase
  (* what the world has seen *)
  starts,         \* per run: times runner.start was called
  ended,          \* per run: terminal events (run.completed|failed|cancelled) sent
  up,             \* the process runs
  restarts        \* times it was started again

dbVars  == <<session, home, row, ahead, job, ask>>
memVars == <<pc, link, mem, stop, memAsk, chain, done, sweep>>
hubVars == <<up, restarts>>
vars    == <<dbVars, memVars, starts, ended, hubVars>>

Live     == {"queued", "starting", "streaming", "waiting_approval", "waiting_input"}
Waiting  == {"waiting_approval", "waiting_input"}
Terminal == {"succeeded", "failed", "cancelled", "timed_out"}
Status   == Live \cup Terminal

AskStatus == {"none", "pending", "answered", "expired", "cancelled"}

\* execute() holds the run: it was picked by a link and is not over.
Picked == {"finding", "tracking", "starting", "live", "finalising"}

When == {"queue", "next", "first"}

PC == {"idle", "posting", "chained", "over", "lost"} \cup Picked

Executing(r) == pc[r] \in Picked

\* `this.active.has(runId)`: set before runner.start, deleted when the stream is over.
IsActive(r) == pc[r] \in {"starting", "live", "lost"}

Queued(s)   == {r \in Runs : home[r] = s /\ row[r] = "queued"}
LiveRuns(s) == {r \in Runs : home[r] = s /\ row[r] \in Live}

\* The oldest queued run of a session (one at most: the queue is a total order).
NextQueuedRun(s) == {r \in Queued(s) : ahead[r] \cap Queued(s) = {}}

TypeOK ==
  /\ session   \in [Sessions -> {"open", "gone"}]
  /\ home      \in [Runs -> Sessions \cup {None}]
  /\ row       \in [Runs -> Status \cup {"none", "deleted"}]
  /\ ahead     \in [Runs -> SUBSET Runs]
  /\ job       \in [Runs -> {"none", "queued", "running", "succeeded", "failed", "cancelled"}]
  /\ ask       \in [Runs -> [Asks -> AskStatus]]
  /\ pc        \in [Runs -> PC]
  /\ link      \in [Runs -> Nat]
  /\ mem       \in [Runs -> Status]
  /\ stop      \in [Runs -> BOOLEAN]
  /\ memAsk    \in [Runs -> [Asks -> AskStatus]]
  /\ chain     \in [Sessions -> Seq({"drain", "compress"})]
  /\ done      \in [Sessions -> Nat]
  /\ sweep     \in [Sessions -> [phase : {"none", "waiting"}, run : Runs \cup {None},
                                 left : SUBSET Runs]]
  /\ starts    \in [Runs -> Nat]
  /\ ended     \in [Runs -> Nat]
  /\ up        \in BOOLEAN
  /\ restarts  \in Nat

NoSweep == [phase |-> "none", run |-> None, left |-> {}]
NoAsks  == [a \in Asks |-> "none"]

Init ==
  /\ session   = [s \in Sessions |-> "open"]
  /\ home      = [r \in Runs |-> None]
  /\ row       = [r \in Runs |-> "none"]
  /\ ahead     = [r \in Runs |-> {}]
  /\ job       = [r \in Runs |-> "none"]
  /\ ask       = [r \in Runs |-> NoAsks]
  /\ pc        = [r \in Runs |-> "idle"]
  /\ link      = [r \in Runs |-> 0]
  /\ mem       = [r \in Runs |-> "queued"]
  /\ stop      = [r \in Runs |-> FALSE]
  /\ memAsk    = [r \in Runs |-> NoAsks]
  /\ chain     = [s \in Sessions |-> <<>>]
  /\ done      = [s \in Sessions |-> 0]
  /\ sweep     = [s \in Sessions |-> NoSweep]
  /\ starts    = [r \in Runs |-> 0]
  /\ ended     = [r \in Runs |-> 0]
  /\ up        = TRUE
  /\ restarts  = 0

-----------------------------------------------------------------------------
(* The chain: `previous.catch(...).then(...)`.  A link runs once every link  *)
(* before it is over.                                                        *)

ReadyAnyway(s, i) == i > done[s] /\ i <= Len(chain[s])
Ready(s, i) == i = done[s] + 1 /\ i <= Len(chain[s])

KickIfIdle(s) ==
  chain' = IF done[s] = Len(chain[s]) THEN [chain EXCEPT ![s] = Append(@, "drain")] ELSE chain
Kick(s) == chain' = [chain EXCEPT ![s] = Append(@, "drain")]

\* A link of the session has still to drain it, or is draining it.
Served(s) == \E i \in (done[s] + 1)..Len(chain[s]) : chain[s][i] = "drain"

-----------------------------------------------------------------------------
(* createRun: the message and the run are stored, the chain is kicked.       *)

\* Whom a new run overtakes: nobody, or the queued ones when it is to be next.  It gets
\* their earliest time less one, which may even fall before the run in hand ("first").
Overtaken(s, when) ==
  IF when = "queue" \/ Queued(s) = {} THEN {}
  ELSE IF when = "next" THEN Queued(s)
  ELSE LiveRuns(s)

Enqueue(r, s, when) ==
  LET known == {q \in Runs : home[q] = s /\ row[q] \notin {"none", "deleted"}}
      after == Overtaken(s, when)
  IN  ahead' = [q \in Runs |->
                  IF q = r THEN known \ after
                  ELSE IF q \in after THEN ahead[q] \cup {r}
                  ELSE ahead[q]]

StoreRun(r, s, when) ==
  /\ home' = [home EXCEPT ![r] = s]
  /\ row' = [row EXCEPT ![r] = "queued"]
  /\ Enqueue(r, s, when)
  /\ job' = [job EXCEPT ![r] = "queued"]
  /\ pc' = [pc EXCEPT ![r] = "chained"]
  /\ Kick(s)

CreateRun(r, s, when) ==
  /\ pc[r] = "idle"
  /\ session[s] = "open"
  /\ StoreRun(r, s, when)
  /\ UNCHANGED <<session, ask, link, mem, stop, memAsk, done, sweep, starts, ended, hubVars>>

\* `when: interrupt`: the session's active run is asked to stop first, and the adapter's
\* answer is awaited before the run is stored.
InterruptThenCreate(r, s) ==
  /\ pc[r] = "idle"
  /\ session[s] = "open"
  /\ \E q \in LiveRuns(s) :
       /\ row[q] # "queued"
       /\ stop' = [stop EXCEPT ![q] = @ \/ IsActive(q)]
  /\ home' = [home EXCEPT ![r] = s]
  /\ pc' = [pc EXCEPT ![r] = "posting"]
  /\ UNCHANGED <<session, row, ahead, job, ask, link, mem, memAsk, chain, done, sweep,
                 starts, ended, hubVars>>

\* A session deleted meanwhile refuses the message: nothing is stored.
Posted(r) ==
  /\ pc[r] = "posting"
  /\ \/ /\ session[home[r]] = "open"
        /\ StoreRun(r, home[r], "queue")
     \/ /\ session[home[r]] = "gone"
        /\ pc' = [pc EXCEPT ![r] = "over"]
        /\ UNCHANGED <<home, row, ahead, job, chain>>
  /\ UNCHANGED <<session, ask, link, mem, stop, memAsk, done, sweep, starts, ended, hubVars>>

-----------------------------------------------------------------------------
(* drain and execute, up to the adapter's answer.                            *)

\* A drain link with nothing in hand: it takes the next queued run, or it is over.
Drain(s) ==
  \E i \in 1..Len(chain[s]) :
    /\ Ready(s, i)
    /\ chain[s][i] = "drain"
    /\ ~ \E r \in Runs : home[r] = s /\ Executing(r) /\ link[r] = i
    /\ \/ \E r \in NextQueuedRun(s) :
            /\ pc' = [pc EXCEPT ![r] = "finding"]
            /\ link' = [link EXCEPT ![r] = i]
            /\ UNCHANGED done
       \/ /\ Queued(s) = {}
          /\ done' = [done EXCEPT ![s] = @ + 1]
          /\ UNCHANGED <<pc, link>>
    /\ UNCHANGED <<dbVars, mem, stop, memAsk, chain, sweep, starts, ended, hubVars>>

\* What the process held of a run that is over is dropped with its ActiveRun.
Forget(r) ==
  /\ link' = [link EXCEPT ![r] = 0]
  /\ mem' = [mem EXCEPT ![r] = "queued"]
  /\ stop' = [stop EXCEPT ![r] = FALSE]
  /\ memAsk' = [memAsk EXCEPT ![r] = NoAsks]

FailAndKeepRow(r) ==
  /\ job' = [job EXCEPT ![r] = "failed"]
  /\ ended' = [ended EXCEPT ![r] = @ + 1]
  /\ pc' = [pc EXCEPT ![r] = "over"]
  /\ Forget(r)
  /\ UNCHANGED row

FailAndSayNothing(r) ==
  /\ row' = [row EXCEPT ![r] = IF @ = "deleted" THEN @ ELSE "failed"]
  /\ job' = [job EXCEPT ![r] = "failed"]
  /\ pc' = [pc EXCEPT ![r] = "over"]
  /\ Forget(r)
  /\ UNCHANGED ended

\* The row and the job are written failed; the terminal event needs a row to show.
FailBeforeStart(r) ==
  /\ row' = [row EXCEPT ![r] = IF @ = "deleted" THEN @ ELSE "failed"]
  /\ job' = [job EXCEPT ![r] = "failed"]
  /\ ended' = [ended EXCEPT ![r] = IF row[r] = "deleted" THEN @ ELSE @ + 1]
  /\ pc' = [pc EXCEPT ![r] = "over"]
  /\ Forget(r)

Unavailable(r) ==
  /\ pc[r] = "finding"
  /\ FailBeforeStart(r)
  /\ UNCHANGED <<session, home, ahead, ask, chain, done, sweep, starts, hubVars>>

\* startJob only touches a job that is still queued or running.
StartJob(r) == job' = [job EXCEPT ![r] = IF @ \in {"queued", "running"} THEN "running" ELSE @]

\* The assistant's empty message is appended: a deleted session refuses it, execute throws
\* and the link is over with it.
Found(r) ==
  /\ pc[r] = "finding"
  /\ StartJob(r)
  /\ \/ /\ session[home[r]] = "open"
        /\ pc' = [pc EXCEPT ![r] = "tracking"]
        /\ UNCHANGED <<done, link, mem, stop, memAsk>>
     \/ /\ session[home[r]] = "gone"
        /\ pc' = [pc EXCEPT ![r] = "over"]
        /\ done' = [done EXCEPT ![home[r]] = @ + 1]
        /\ Forget(r)
  /\ UNCHANGED <<session, home, row, ahead, ask, chain, sweep, starts, ended, hubVars>>

\* The folder is recorded: the run enters `active` and the adapter is started.
Tracked(r) ==
  /\ pc[r] = "tracking"
  /\ pc' = [pc EXCEPT ![r] = "starting"]
  /\ starts' = [starts EXCEPT ![r] = @ + 1]
  /\ UNCHANGED <<dbVars, link, mem, stop, memAsk, chain, done, sweep, ended, hubVars>>

Refused(r) ==
  /\ pc[r] = "starting"
  /\ FailBeforeStart(r)
  /\ UNCHANGED <<session, home, ahead, ask, chain, done, sweep, starts, hubVars>>

\* updateRun: a row that is gone takes no write.
WriteRow(r, status) == row' = [row EXCEPT ![r] = IF @ = "deleted" THEN @ ELSE status]

\* run.started shows the row: when it is gone execute throws outside its try block, and the
\* run stays in `active` with nobody reading the adapter.
Accepted(r) ==
  /\ pc[r] = "starting"
  /\ mem' = [mem EXCEPT ![r] = "starting"]
  /\ WriteRow(r, "starting")
  /\ \/ /\ row[r] # "deleted"
        /\ pc' = [pc EXCEPT ![r] = "live"]
        /\ UNCHANGED done
     \/ /\ row[r] = "deleted"
        /\ pc' = [pc EXCEPT ![r] = "lost"]
        /\ done' = [done EXCEPT ![home[r]] = @ + 1]
  /\ UNCHANGED <<session, home, ahead, job, ask, link, stop, memAsk, chain, sweep, starts,
                 ended, hubVars>>

-----------------------------------------------------------------------------
(* The adapter's events, reduced (reduceRun) and written (apply).            *)

MoveInMemory(r, status) == mem' = [mem EXCEPT ![r] = status] /\ UNCHANGED row

\* The reducer's status moves and the `status` action writes it on the row.  (Moving to the
\* status it has makes no action: the row says it already, RowsFollowReducer.)
MoveTo(r, status) ==
  /\ mem' = [mem EXCEPT ![r] = status]
  /\ WriteRow(r, status)

\* Any frame that shows the turn alive: words, a tool, a model's wait.
Frame(r) ==
  /\ pc[r] = "live"
  /\ MoveTo(r, "streaming")
  /\ UNCHANGED <<session, home, ahead, job, ask, pc, link, stop, memAsk, chain, done,
                 sweep, starts, ended, hubVars>>

LeaveOpenWork(r, status) == UNCHANGED memAsk

\* The reducer closes what is open in memory; no action writes it on the approvals' rows.
FinishOpenWork(r, status) ==
  memAsk' = [memAsk EXCEPT ![r] =
               [a \in Asks |-> IF @[a] = "pending" THEN status ELSE @[a]]]

\* The reducer ends the run: the stream is left and finalise begins.
EndTurn(r, status, asks) ==
  /\ pc[r] = "live"
  /\ MoveTo(r, status)
  /\ FinishOpenWork(r, asks)
  /\ pc' = [pc EXCEPT ![r] = "finalising"]
  /\ UNCHANGED <<session, home, ahead, job, ask, link, stop, chain, done, sweep, starts,
                 ended, hubVars>>

\* An approval is asked for, which livens the turn first; a row that is gone refuses it, and
\* the exception abandons the stream as Abort does.
RequestApproval(r, a, waiting) ==
  /\ pc[r] = "live"
  /\ memAsk[r][a] = "none"
  /\ \/ /\ row[r] # "deleted"
        /\ memAsk' = [memAsk EXCEPT ![r][a] = "pending"]
        /\ ask' = [ask EXCEPT ![r][a] = "pending"]
        /\ MoveTo(r, waiting)
        /\ UNCHANGED <<session, home, ahead, job, pc, link, stop, chain, done, sweep,
                       starts, ended, hubVars>>
     \/ /\ row[r] = "deleted"
        /\ EndTurn(r, "failed", "cancelled")

OutcomeAsSaid(r, status) == status

\* What an end becomes when someone asked for a stop before it.
Outcome(r, status) == IF stop[r] THEN "cancelled" ELSE status

Completed(r)   == EndTurn(r, Outcome(r, "succeeded"), "cancelled")
Failed(r)      == EndTurn(r, Outcome(r, "failed"), "cancelled")
StreamEnded(r) == EndTurn(r, Outcome(r, "failed"), "cancelled")
Abort(r)       == EndTurn(r, "failed", "cancelled")

\* Silence for agentTimeoutMs, counted again while the status says a person is expected.
Timeout(r) ==
  /\ mem[r] \notin Waiting
  /\ EndTurn(r, "timed_out", "expired")

\* A job has no status for a run that timed out.
JobStatus(status) == IF status = "timed_out" THEN "failed" ELSE status

\* The final writes and the one terminal event.
Finalise(r) ==
  /\ pc[r] = "finalising"
  /\ pc' = [pc EXCEPT ![r] = "over"]
  /\ Forget(r)
  /\ WriteRow(r, mem[r])
  /\ job' = [job EXCEPT ![r] = JobStatus(mem[r])]
  /\ ended' = [ended EXCEPT ![r] = IF row[r] = "deleted" THEN @ ELSE @ + 1]
  /\ UNCHANGED <<session, home, ahead, ask, chain, done, sweep, starts, hubVars>>

-----------------------------------------------------------------------------
(* What a person does meanwhile.                                             *)

\* The reducer's approval_resolved: the run goes on once nothing else is pending.
ResolveInMemory(r, a, status) ==
  /\ memAsk' = [memAsk EXCEPT ![r][a] = status]
  /\ ask' = [ask EXCEPT ![r][a] = status]
  /\ IF \A b \in Asks \ {a} : memAsk[r][b] # "pending"
     THEN MoveTo(r, "streaming")
     ELSE UNCHANGED <<mem, row>>

\* respondApproval: approved, denied or answered ("answered" here).  The run of the
\* approval may be over, or of another life of the hub: then only the row is written.
Respond(r, a) ==
  /\ ask[r][a] = "pending"
  /\ \/ /\ IsActive(r)
        /\ memAsk[r][a] = "pending"
        /\ ResolveInMemory(r, a, "answered")
     \/ /\ ~ IsActive(r)
        /\ ask' = [ask EXCEPT ![r][a] = "answered"]
        /\ UNCHANGED <<memAsk, mem, row>>
  /\ UNCHANGED <<session, home, ahead, job, pc, link, stop, chain, done, sweep, starts,
                 ended, hubVars>>

\* A request with a deadline nobody kept.  Writing it on an approval deleted with its
\* session is refused inside a timer's promise that nothing catches: the process ends.
Expire(r, a) ==
  /\ IsActive(r)
  /\ memAsk[r][a] = "pending"
  /\ \/ /\ row[r] # "deleted"
        /\ ResolveInMemory(r, a, "expired")
        /\ UNCHANGED up
     \/ /\ row[r] = "deleted"
        /\ up' = FALSE
        /\ UNCHANGED <<memAsk, ask, mem, row>>
  /\ UNCHANGED <<session, home, ahead, job, pc, link, stop, chain, done, sweep, starts,
                 ended, restarts>>

\* cancelRun of a row that says queued: the run is written off on the spot.
CancelQueued(r) ==
  /\ row[r] = "queued"
  /\ row' = [row EXCEPT ![r] = "cancelled"]
  /\ job' = [job EXCEPT ![r] = "cancelled"]
  /\ ended' = [ended EXCEPT ![r] = @ + 1]
  /\ UNCHANGED <<session, home, ahead, ask, memVars, starts, hubVars>>

\* cancelRun of any other live row: requestInterrupt, and the agent ends the turn.
CancelActive(r) ==
  /\ row[r] \in Live \ {"queued"}
  /\ stop' = [stop EXCEPT ![r] = @ \/ IsActive(r)]
  /\ UNCHANGED <<dbVars, pc, link, mem, memAsk, chain, done, sweep, starts, ended, hubVars>>

\* compress: refused while a run is live or another compression is chained.
Compress(s) ==
  /\ session[s] = "open"
  /\ LiveRuns(s) = {}
  /\ ~ \E i \in (done[s] + 1)..Len(chain[s]) : chain[s][i] = "compress"
  /\ Cardinality({i \in 1..Len(chain[s]) : chain[s][i] = "compress"}) < MaxCompress
  /\ chain' = [chain EXCEPT ![s] = Append(@, "compress")]
  /\ UNCHANGED <<dbVars, pc, link, mem, stop, memAsk, done, sweep, starts, ended, hubVars>>

Compressed(s) ==
  \E i \in 1..Len(chain[s]) :
    /\ Ready(s, i)
    /\ chain[s][i] = "compress"
    /\ done' = [done EXCEPT ![s] = i]
    /\ UNCHANGED <<dbVars, pc, link, mem, stop, memAsk, chain, sweep, starts, ended, hubVars>>

-----------------------------------------------------------------------------
(* Deleting a session: every live run is cancelled in the order of the       *)
(* queue, the active one after the adapter was asked to stop, and the rows   *)
(* go with the session.  The list of runs is read once, at the start.        *)

Before(r, q) == r \in ahead[q]

\* Cancel what is left up to the first active run, which is asked to stop and waited for;
\* `cut` is what is cancelled in this stretch already.
SweepOn(s, cut, left) ==
  \/ \E q \in left :
       /\ IsActive(q)
       /\ \A p \in left : Before(p, q) => ~ IsActive(p)
       /\ stop' = [stop EXCEPT ![q] = TRUE]
       /\ row' = [r \in Runs |->
                   IF r \in cut \/ (r \in left /\ Before(r, q)) THEN "cancelled" ELSE row[r]]
       /\ sweep' = [sweep EXCEPT ![s] = [phase |-> "waiting", run |-> q,
                                         left |-> {r \in left : Before(q, r)}]]
       /\ UNCHANGED <<session, ask>>
  \/ /\ \A q \in left : ~ IsActive(q)
     /\ session' = [session EXCEPT ![s] = "gone"]
     /\ row' = [r \in Runs |->
                 IF home[r] = s /\ row[r] # "none" THEN "deleted" ELSE row[r]]
     /\ ask' = [r \in Runs |-> IF home[r] = s THEN NoAsks ELSE ask[r]]
     /\ sweep' = [sweep EXCEPT ![s] = NoSweep]
     /\ UNCHANGED stop

Remove(s) ==
  /\ session[s] = "open"
  /\ sweep[s].phase = "none"
  /\ SweepOn(s, {}, LiveRuns(s))
  /\ UNCHANGED <<home, ahead, job, pc, link, mem, memAsk, chain, done, starts, ended,
                 hubVars>>

\* The adapter answered the interrupt: its run is written cancelled, however it ended.
RemoveOn(s) ==
  /\ sweep[s].phase = "waiting"
  /\ SweepOn(s, {sweep[s].run}, sweep[s].left)
  /\ UNCHANGED <<home, ahead, job, pc, link, mem, memAsk, chain, done, starts, ended,
                 hubVars>>

-----------------------------------------------------------------------------
(* The hub is stopped, at any time, and started again: recoverStaleRuns.     *)

Restart ==
  /\ restarts < MaxRestarts
  /\ restarts' = restarts + 1
  /\ up' = TRUE
  /\ row' = [r \in Runs |-> IF row[r] \in Live THEN "failed" ELSE row[r]]
  /\ ask' = IF \E r \in Runs : row[r] \in Live
            THEN [r \in Runs |->
                    [a \in Asks |-> IF ask[r][a] = "pending" THEN "cancelled" ELSE ask[r][a]]]
            ELSE ask
  /\ pc' = [r \in Runs |-> IF pc[r] = "idle" THEN "idle" ELSE "over"]
  /\ link' = [r \in Runs |-> 0]
  /\ mem' = [r \in Runs |-> "queued"]
  /\ stop' = [r \in Runs |-> FALSE]
  /\ memAsk' = [r \in Runs |-> NoAsks]
  /\ chain' = [s \in Sessions |-> <<>>]
  /\ done' = [s \in Sessions |-> 0]
  /\ sweep' = [s \in Sessions |-> NoSweep]
  /\ UNCHANGED <<session, home, ahead, job, starts, ended>>

-----------------------------------------------------------------------------

Create == \E r \in Runs, s \in Sessions :
            \/ \E when \in When : CreateRun(r, s, when)
            \/ InterruptThenCreate(r, s)

Execute(r) == Unavailable(r) \/ Found(r) \/ Tracked(r) \/ Refused(r) \/ Accepted(r) \/ Finalise(r)

\* Every way the adapter's stream ends.
TurnEnds(r) == Completed(r) \/ Failed(r) \/ StreamEnded(r) \/ Abort(r) \/ Timeout(r)

Agent(r) ==
  \/ Frame(r)
  \/ \E a \in Asks, waiting \in Waiting : RequestApproval(r, a, waiting)
  \/ TurnEnds(r)

Person(r) ==
  \/ CancelQueued(r)
  \/ CancelActive(r)
  \/ \E a \in Asks : Respond(r, a) \/ Expire(r, a)

Session(s) == Drain(s) \/ Compress(s) \/ Compressed(s) \/ Remove(s) \/ RemoveOn(s)

Work ==
  /\ up
  /\ \/ Create
     \/ \E r \in Runs : Posted(r) \/ Execute(r) \/ Agent(r) \/ Person(r)
     \/ \E s \in Sessions : Session(s)

Next == Work \/ Restart

Spec == Init /\ [][Next]_vars
-----------------------------------------------------------------------------
(* Properties                                                                *)

\* A session works on one thing at a time: one turn, or one compression and no turn
\* (engine.ts: "One chain per session guarantees runs execute in order, never in
\* parallel"; service.ts: compress runs "on the session's run chain").
OneTurnAtATime ==
  \A s \in Sessions :
    /\ \A q, r \in Runs :
         Executing(q) /\ Executing(r) /\ home[q] = s /\ home[r] = s => q = r
    /\ \A i \in 1..Len(chain[s]) :
         Ready(s, i) /\ chain[s][i] = "compress" => ~ \E r \in Runs : home[r] = s /\ Executing(r)

\* The adapter is started at most once for a run, though the row of a picked run says
\* `queued` for as long as execute awaits, and every link of the chain drains it.
StartedOnce == \A r \in Runs : starts[r] <= 1

\* A row that says live is being driven, or a link that has still to run will find it: no
\* run spins for ever, whatever was cancelled, deleted, compressed or restarted meanwhile.
EveryLiveRunIsDriven ==
  up => \A r \in Runs :
    row[r] \in Live => Executing(r) \/ (row[r] = "queued" /\ Served(home[r]))

\* While the adapter's events are read, the row and the approvals' rows say what the
\* reducer says, unless the session was deleted under it.
RowsFollowReducer ==
  \A r \in Runs :
    pc[r] = "live" /\ row[r] # "deleted" => row[r] = mem[r] /\ ask[r] = memAsk[r]

\* A run that is over was said to be over: a terminal event went out (engine.ts
\* failBeforeStart and finalise, service.ts cancelRun), unless the hub restarted, which
\* sends none, or its session is being deleted.
EveryEndIsTold ==
  \A r \in Runs :
    row[r] \in Terminal /\ ~ Executing(r) =>
      ended[r] > 0 \/ restarts > 0 \/ sweep[home[r]].phase = "waiting"

\* A run that someone asked to stop never ends as a success.
StoppedNeverSucceeds ==
  [][\A r \in Runs : stop[r] /\ row'[r] = "succeeded" => row[r] = "succeeded"]_vars

\* docs/domain/README.md: "A run that is terminal never changes again".  It does: a run
\* cancelled while execute awaits is started all the same, and a deletion writes
\* `cancelled` over a run that ended while it waited.
TerminalNeverChanges ==
  [][\A r \in Runs : row[r] \in Terminal => row'[r] \in {row[r], "deleted"}]_vars

\* docs/domain/README.md: an approval ends approved, denied, answered, expired or
\* cancelled.  The run's end closes it in memory only, and its row stays pending.
PendingApprovalHasLiveRun ==
  \A r \in Runs, a \in Asks : ask[r][a] = "pending" => row[r] \in Live

\* engine.ts: "a run waiting on a person's approval or answer waits as long as the person
\* takes".  Any frame after the request starts the clock again.
NoTimeoutWhileAsked ==
  [][\A r \in Runs :
       mem[r] # "timed_out" /\ mem'[r] = "timed_out" =>
         \A a \in Asks : memAsk[r][a] # "pending"]_vars

-----------------------------------------------------------------------------
(* Liveness.  A promise that can settle settles: the lookups, the adapter's  *)
(* answer to a start, an interrupt or a compression, and the file work of    *)
(* finalise.  A turn ends unless a person is expected: the adapter ends its  *)
(* stream or falls silent, and silence is timed.                             *)

Fairness ==
  /\ \A s \in Sessions : /\ WF_vars(up /\ Drain(s))
                         /\ WF_vars(up /\ Compressed(s))
                         /\ WF_vars(up /\ RemoveOn(s))
  /\ \A r \in Runs : /\ WF_vars(up /\ Posted(r))
                     /\ WF_vars(up /\ Execute(r))
                     /\ WF_vars(up /\ mem[r] \notin Waiting /\ TurnEnds(r))
  /\ WF_vars(~ up /\ Restart)

FairSpec == Spec /\ Fairness

Over(r) == row[r] \notin Live

\* A turn of the session waits for a person, who may take for ever.
PersonExpected(s) ==
  \E r \in Runs : home[r] = s /\ pc[r] = "live" /\ mem[r] \in Waiting

\* Every run that was queued ends, or the session waits for a person for good.
EveryRunEnds ==
  \A r \in Runs :
    row[r] = "queued" ~> (Over(r) \/ \E s \in Sessions : home[r] = s /\ []PersonExpected(s))

-----------------------------------------------------------------------------
(* The engine keeps the lifecycle.  A run that execute holds is seen as its  *)
(* reducer sees it; any other, as its row says.                              *)

statusBar ==
  [r \in Runs |->
     IF pc[r] \in {"finding", "tracking", "starting"} THEN "queued"
     ELSE IF pc[r] \in {"live", "finalising"} THEN mem[r]
     ELSE IF row[r] = "deleted" THEN "gone"
     ELSE row[r]]

closingBar == {s \in Sessions : sweep[s].phase = "waiting"}

Lifecycle == INSTANCE RunLifecycle WITH status <- statusBar, closing <- closingBar

\* The turns of the engine are a lifecycle of runs, one at a time in each session.
KeepsLifecycle == Lifecycle!Spec
=============================================================================
