---------------------------- MODULE RunEngineProofs --------------------------
(***************************************************************************)
(* The invariant of RunEngineInv is inductive, and what the run engine     *)
(* promises of its turns follows from it, for any sets of sessions, runs   *)
(* and approvals.  One lemma per action, one step per part of the invariant. *)
(***************************************************************************)
EXTENDS RunEngineInv, TLAPS

USE DEF Live, Waiting, Terminal, Status, AskStatus, Picked, PC

-----------------------------------------------------------------------------
(* Types: no await leaves a row, a job, a chain or a deletion in a state the *)
(* code that resumes does not expect.                                        *)

\* The reducer's status, written on memory and row (run-reducer.ts moveTo, engine.ts apply).
LEMMA MoveToType ==
  ASSUME TypeOK, NEW r \in Runs, NEW to \in Status, MoveTo(r, to)
  PROVE  mem' \in [Runs -> Status] /\ row' \in [Runs -> Status \cup {"none", "deleted"}]
BY DEF TypeOK, MoveTo, WriteRow

\* Dropping what the process held of a run (the ActiveRun of engine.ts).
LEMMA ForgetType ==
  ASSUME TypeOK, NEW r \in Runs, Forget(r)
  PROVE  /\ link' \in [Runs -> Nat] /\ mem' \in [Runs -> Status]
         /\ stop' \in [Runs -> BOOLEAN] /\ memAsk' \in [Runs -> [Asks -> AskStatus]]
BY DEF TypeOK, Forget, NoAsks

\* Closing the approvals in memory (run-reducer.ts finishOpenWork).
LEMMA FinishType ==
  ASSUME TypeOK, NEW r \in Runs, NEW to \in AskStatus, FinishOpenWork(r, to)
  PROVE  memAsk' \in [Runs -> [Asks -> AskStatus]]
<1>1. [a \in Asks |-> IF memAsk[r][a] = "pending" THEN to ELSE memAsk[r][a]]
        \in [Asks -> AskStatus]
  BY DEF TypeOK
<1> QED BY <1>1 DEF TypeOK, FinishOpenWork

\* One approval of one run.
LEMMA AskType ==
  ASSUME NEW f \in [Runs -> [Asks -> AskStatus]], NEW r \in Runs, NEW a \in Asks,
         NEW to \in AskStatus
  PROVE  [f EXCEPT ![r][a] = to] \in [Runs -> [Asks -> AskStatus]]
<1>1. [f[r] EXCEPT ![a] = to] \in [Asks -> AskStatus]
  OBVIOUS
<1> QED BY <1>1

\* A run stored and its chain kicked (service.ts createRun).
LEMMA StoreRunType ==
  ASSUME TypeOK, NEW r \in Runs, NEW s \in Sessions, NEW when \in When,
         StoreRun(r, s, when)
  PROVE  /\ home' \in [Runs -> Sessions \cup {None}]
         /\ row' \in [Runs -> Status \cup {"none", "deleted"}]
         /\ ahead' \in [Runs -> SUBSET Runs]
         /\ job' \in [Runs -> {"none", "queued", "running", "succeeded", "failed", "cancelled"}]
         /\ pc' \in [Runs -> PC]
         /\ chain' \in [Sessions -> Seq({"drain", "compress"})]
BY DEF TypeOK, When, StoreRun, Enqueue, Kick

\* A turn ended, whatever ended it.
LEMMA EndTurnType ==
  ASSUME TypeOK, NEW r \in Runs, NEW to \in Status, NEW asks \in AskStatus, EndTurn(r, to, asks)
  PROVE  TypeOK'
BY MoveToType, FinishType DEF TypeOK, EndTurn, dbVars, memVars, hubVars

\* A deletion, from its start or from where it waited (service.ts stopLiveRuns, deleteSession).
LEMMA SweepOnType ==
  ASSUME TypeOK, NEW s \in Sessions, NEW cut, NEW left \in SUBSET Runs,
         SweepOn(s, cut, left)
  PROVE  /\ session' \in [Sessions -> {"open", "gone"}]
         /\ row' \in [Runs -> Status \cup {"none", "deleted"}]
         /\ ask' \in [Runs -> [Asks -> AskStatus]]
         /\ stop' \in [Runs -> BOOLEAN]
         /\ sweep' \in [Sessions -> [phase : {"none", "waiting"}, run : Runs \cup {None},
                                     left : SUBSET Runs]]
<1>1. CASE \E q \in left :
             /\ stop' = [stop EXCEPT ![q] = TRUE]
             /\ row' = [r \in Runs |-> IF r \in cut \/ (r \in left /\ Before(r, q))
                                       THEN "cancelled" ELSE row[r]]
             /\ sweep' = [sweep EXCEPT ![s] = [phase |-> "waiting", run |-> q,
                                               left |-> {r \in left : Before(q, r)}]]
             /\ UNCHANGED <<session, ask>>
  <2> PICK q \in left :
             /\ stop' = [stop EXCEPT ![q] = TRUE]
             /\ row' = [r \in Runs |-> IF r \in cut \/ (r \in left /\ Before(r, q))
                                       THEN "cancelled" ELSE row[r]]
             /\ sweep' = [sweep EXCEPT ![s] = [phase |-> "waiting", run |-> q,
                                               left |-> {r \in left : Before(q, r)}]]
             /\ UNCHANGED <<session, ask>>
    BY <1>1
  <2>1. row' \in [Runs -> Status \cup {"none", "deleted"}]
    BY DEF TypeOK
  <2>2. {r \in left : Before(q, r)} \in SUBSET Runs
    OBVIOUS
  <2>3. sweep' \in [Sessions -> [phase : {"none", "waiting"}, run : Runs \cup {None},
                                 left : SUBSET Runs]]
    BY <2>2 DEF TypeOK
  <2> QED BY <2>1, <2>3 DEF TypeOK
<1>2. CASE /\ session' = [session EXCEPT ![s] = "gone"]
           /\ row' = [r \in Runs |->
                       IF home[r] = s /\ row[r] # "none" THEN "deleted" ELSE row[r]]
           /\ ask' = [r \in Runs |-> IF home[r] = s THEN NoAsks ELSE ask[r]]
           /\ sweep' = [sweep EXCEPT ![s] = NoSweep]
           /\ UNCHANGED stop
  BY <1>2 DEF TypeOK, NoAsks, NoSweep
<1> QED BY <1>1, <1>2 DEF SweepOn

\* Every step keeps the types.  What finalise writes on the job is a type only because the
\* reducer ended the run before it.
LEMMA TypeStep ==
  ASSUME TypeOK, Stored, TurnFits, [Next]_vars
  PROVE  TypeOK'
<1> USE DEF hubVars
<1>1. ASSUME NEW r \in Runs, NEW s \in Sessions, NEW when \in When,
             CreateRun(r, s, when) PROVE TypeOK'
  BY <1>1, StoreRunType DEF TypeOK, CreateRun
<1>2. ASSUME NEW r \in Runs, NEW s \in Sessions, InterruptThenCreate(r, s) PROVE TypeOK'
  BY <1>2 DEF TypeOK, InterruptThenCreate, IsActive
<1>3. ASSUME NEW r \in Runs, Posted(r) PROVE TypeOK'
  <2> home[r] \in Sessions
    BY <1>3 DEF Stored, Posted
  <2>1. CASE StoreRun(r, home[r], "queue")
    <3>1. "queue" \in When
      BY DEF When
    <3> QED BY <1>3, <2>1, <3>1, StoreRunType DEF TypeOK, Posted
  <2>2. CASE pc' = [pc EXCEPT ![r] = "over"] /\ UNCHANGED <<home, row, ahead, job, chain>>
    BY <1>3, <2>2 DEF TypeOK, Posted
  <2> QED BY <1>3, <2>1, <2>2 DEF Posted
<1>4. ASSUME NEW r \in Runs, Unavailable(r) PROVE TypeOK'
  BY <1>4, ForgetType DEF TypeOK, Unavailable, FailBeforeStart
<1>5. ASSUME NEW r \in Runs, Found(r) PROVE TypeOK'
  <2>1. CASE pc' = [pc EXCEPT ![r] = "tracking"] /\ UNCHANGED <<done, link, mem, stop, memAsk>>
    BY <1>5, <2>1 DEF TypeOK, Found, StartJob
  <2>2. CASE /\ pc' = [pc EXCEPT ![r] = "over"]
             /\ done' = [done EXCEPT ![home[r]] = @ + 1]
             /\ Forget(r)
    <3>0. home[r] \in Sessions
      BY <1>5 DEF Stored, Found
    <3>1. done' \in [Sessions -> Nat] /\ pc' \in [Runs -> PC]
      BY <2>2, <3>0 DEF TypeOK
    <3> QED BY <1>5, <2>2, <3>1, ForgetType DEF TypeOK, Found, StartJob
  <2> QED BY <1>5, <2>1, <2>2 DEF Found
<1>6. ASSUME NEW r \in Runs, Tracked(r) PROVE TypeOK'
  BY <1>6 DEF TypeOK, Tracked, dbVars
<1>7. ASSUME NEW r \in Runs, Refused(r) PROVE TypeOK'
  BY <1>7, ForgetType DEF TypeOK, Refused, FailBeforeStart
<1>8. ASSUME NEW r \in Runs, Accepted(r) PROVE TypeOK'
  <2>1. CASE row[r] # "deleted"
    BY <1>8, <2>1 DEF TypeOK, Accepted, WriteRow
  <2>2. CASE row[r] = "deleted"
    <3>0. home[r] \in Sessions
      BY <1>8 DEF Stored, Accepted
    <3>1. /\ done' = [done EXCEPT ![home[r]] = @ + 1]
          /\ pc' = [pc EXCEPT ![r] = "lost"]
      BY <1>8, <2>2 DEF Accepted
    <3>2. done' \in [Sessions -> Nat] /\ pc' \in [Runs -> PC]
      BY <3>0, <3>1 DEF TypeOK
    <3> QED BY <1>8, <2>2, <3>2 DEF TypeOK, Accepted, WriteRow
  <2> QED BY <2>1, <2>2
<1>9. ASSUME NEW r \in Runs, Finalise(r) PROVE TypeOK'
  <2>1. row' \in [Runs -> Status \cup {"none", "deleted"}]
    BY <1>9 DEF TypeOK, Finalise, WriteRow
  <2>2. mem[r] \in Terminal
    BY <1>9 DEF TurnFits, Finalise
  <2>3. /\ pc' \in [Runs -> PC]
        /\ job' \in [Runs -> {"none", "queued", "running", "succeeded", "failed", "cancelled"}]
        /\ ended' \in [Runs -> Nat]
    BY <1>9, <2>2 DEF TypeOK, Finalise, JobStatus
  <2> QED BY <1>9, <2>1, <2>3, ForgetType DEF TypeOK, Finalise
<1>10. ASSUME NEW r \in Runs, Frame(r) PROVE TypeOK'
  BY <1>10, MoveToType DEF TypeOK, Frame
<1>11. ASSUME NEW r \in Runs, NEW a \in Asks, NEW w \in Waiting, RequestApproval(r, a, w)
       PROVE TypeOK'
  <2>1. CASE row[r] = "deleted"
    BY <1>11, <2>1, EndTurnType DEF RequestApproval
  <2>2. CASE row[r] # "deleted"
    <3>1. /\ memAsk' = [memAsk EXCEPT ![r][a] = "pending"]
          /\ ask' = [ask EXCEPT ![r][a] = "pending"]
      BY <1>11, <2>2 DEF RequestApproval
    <3>2. ask' \in [Runs -> [Asks -> AskStatus]] /\ memAsk' \in [Runs -> [Asks -> AskStatus]]
      BY <3>1, AskType DEF TypeOK
    <3>3. MoveTo(r, w)
      BY <1>11, <2>2 DEF RequestApproval
    <3> QED BY <1>11, <2>2, <3>2, <3>3, MoveToType DEF TypeOK, RequestApproval
  <2> QED BY <2>1, <2>2
<1>12. ASSUME NEW r \in Runs, TurnEnds(r) PROVE TypeOK'
  BY <1>12, EndTurnType
  DEF TurnEnds, Completed, Failed, StreamEnded, Abort, Timeout, Outcome
<1>13. ASSUME NEW r \in Runs, CancelQueued(r) PROVE TypeOK'
  BY <1>13 DEF TypeOK, CancelQueued, memVars
<1>14. ASSUME NEW r \in Runs, CancelActive(r) PROVE TypeOK'
  BY <1>14 DEF TypeOK, CancelActive, IsActive, dbVars
<1>15. ASSUME NEW r \in Runs, NEW a \in Asks, Respond(r, a) PROVE TypeOK'
  <2>1. CASE ResolveInMemory(r, a, "answered")
    BY <1>15, <2>1, AskType, MoveToType DEF TypeOK, Respond, ResolveInMemory
  <2>2. CASE ask' = [ask EXCEPT ![r][a] = "answered"] /\ UNCHANGED <<memAsk, mem, row>>
    BY <1>15, <2>2, AskType DEF TypeOK, Respond
  <2> QED BY <1>15, <2>1, <2>2 DEF Respond
<1>16. ASSUME NEW r \in Runs, NEW a \in Asks, Expire(r, a) PROVE TypeOK'
  <2>1. CASE ResolveInMemory(r, a, "expired") /\ UNCHANGED up
    BY <1>16, <2>1, AskType, MoveToType DEF TypeOK, Expire, ResolveInMemory
  <2>2. CASE up' = FALSE /\ UNCHANGED <<memAsk, ask, mem, row>>
    BY <1>16, <2>2 DEF TypeOK, Expire
  <2> QED BY <1>16, <2>1, <2>2 DEF Expire
<1>17. ASSUME NEW s \in Sessions, Drain(s) PROVE TypeOK'
  <2> PICK i \in 1..Len(chain[s]) :
         /\ \/ \E r \in NextQueuedRun(s) :
                 /\ pc' = [pc EXCEPT ![r] = "finding"]
                 /\ link' = [link EXCEPT ![r] = i]
                 /\ UNCHANGED done
            \/ /\ done' = [done EXCEPT ![s] = @ + 1]
               /\ UNCHANGED <<pc, link>>
         /\ UNCHANGED <<dbVars, mem, stop, memAsk, chain, sweep, starts, ended, hubVars>>
    BY <1>17 DEF Drain
  <2>1. NextQueuedRun(s) \subseteq Runs
    BY DEF NextQueuedRun, Queued
  <2>2. CASE \E r \in Runs : /\ pc' = [pc EXCEPT ![r] = "finding"]
                             /\ link' = [link EXCEPT ![r] = i]
                             /\ UNCHANGED done
    <3> PICK r \in Runs : /\ pc' = [pc EXCEPT ![r] = "finding"]
                          /\ link' = [link EXCEPT ![r] = i]
                          /\ UNCHANGED done
      BY <2>2
    <3>1. i \in Nat
      BY DEF TypeOK
    <3>2. pc' \in [Runs -> PC] /\ link' \in [Runs -> Nat]
      BY <3>1 DEF TypeOK
    <3> QED BY <3>2 DEF TypeOK, dbVars
  <2>3. CASE done' = [done EXCEPT ![s] = @ + 1] /\ UNCHANGED <<pc, link>>
    BY <2>3 DEF TypeOK, dbVars
  <2> QED BY <2>1, <2>2, <2>3
<1>18. ASSUME NEW s \in Sessions, Compress(s) PROVE TypeOK'
  BY <1>18 DEF TypeOK, Compress, dbVars
<1>19. ASSUME NEW s \in Sessions, Compressed(s) PROVE TypeOK'
  BY <1>19 DEF TypeOK, Compressed, dbVars
<1>20. ASSUME NEW s \in Sessions, Remove(s) PROVE TypeOK'
  <2>1. {} \in SUBSET Runs /\ LiveRuns(s) \in SUBSET Runs
    BY DEF LiveRuns
  <2> QED BY <1>20, <2>1, SweepOnType DEF TypeOK, Remove
<1>21. ASSUME NEW s \in Sessions, RemoveOn(s) PROVE TypeOK'
  <2>1. sweep[s].left \in SUBSET Runs
    BY DEF TypeOK
  <2> QED BY <1>21, <2>1, SweepOnType DEF TypeOK, RemoveOn
<1>22. CASE Restart
  BY <1>22 DEF TypeOK, Restart, NoAsks, NoSweep
<1>23. CASE UNCHANGED vars
  BY <1>23 DEF TypeOK, vars, dbVars, memVars
<1> QED
  BY <1>1, <1>2, <1>3, <1>4, <1>5, <1>6, <1>7, <1>8, <1>9, <1>10, <1>11, <1>12, <1>13,
     <1>14, <1>15, <1>16, <1>17, <1>18, <1>19, <1>20, <1>21, <1>22, <1>23
  DEF Next, Work, Create, Execute, Agent, Person, Session

-----------------------------------------------------------------------------
(* The invariant, and what follows from it.                                  *)

\* Chaining a drain serves its session, and takes nothing from another.
LEMMA KickServes ==
  ASSUME TypeOK, DoneWereChained, NEW s \in Sessions, Kick(s), UNCHANGED done
  PROVE  Served(s)' /\ \A t \in Sessions : Served(t) => Served(t)'
<1>0. /\ chain \in [Sessions -> Seq({"drain", "compress"})]
      /\ done \in [Sessions -> Nat]
  BY DEF TypeOK
<1> USE DEF Kick, Served
<1>1. \A t \in Sessions : Served(t) => Served(t)'
  BY <1>0
<1>2. /\ chain'[s] = Append(chain[s], "drain")
      /\ Len(chain'[s]) = Len(chain[s]) + 1
      /\ chain'[s][Len(chain[s]) + 1] = "drain"
  BY <1>0
<1>3. Len(chain[s]) + 1 \in (done'[s] + 1)..Len(chain'[s])
  BY <1>0, <1>2 DEF DoneWereChained
<1>4. Served(s)'
  BY <1>2, <1>3
<1> QED BY <1>1, <1>4

\* createRun stores a run behind the link it chains.
LEMMA CreateRunStep ==
  ASSUME IInv, NEW r \in Runs, NEW s \in Sessions, NEW when \in When, CreateRun(r, s, when)
  PROVE  Coherent'
<1>0. /\ TypeOK /\ Stored /\ DoneWereChained /\ HeldByTheLinkInHand /\ OneHeld 
      /\ NotStartedBefore /\ QueuedIsEarly /\ RowsGoWithSession /\ SweepsItsOwn /\ TurnFits /\ Driven
  BY DEF IInv, Coherent
<1> USE DEF CreateRun, StoreRun, Enqueue, Kick, hubVars
<1>1. Stored'
  BY <1>0 DEF TypeOK, Stored, Executing
<1>2. HeldByTheLinkInHand'
  BY <1>0 DEF TypeOK, Stored, HeldByTheLinkInHand, OneHeld, Executing
<1>3. OneHeld'
  BY <1>0 DEF TypeOK, Stored, HeldByTheLinkInHand, OneHeld, Executing
<1>4. NotStartedBefore'
  BY <1>0 DEF TypeOK, NotStartedBefore
<1>5. QueuedIsEarly'
  BY <1>0 DEF TypeOK, QueuedIsEarly, Stored, TurnFits, Executing
<1>6. RowsGoWithSession'
  BY <1>0 DEF TypeOK, RowsGoWithSession, Stored, SweepsItsOwn, TurnFits, Executing
<1>7. SweepsItsOwn'
  BY <1>0 DEF TypeOK, SweepsItsOwn, Stored, RowsGoWithSession, Executing
<1>8. TurnFits'
  BY <1>0 DEF TypeOK, TurnFits
<1>9. Driven'
  <2>1. Served(s)' /\ \A t \in Sessions : Served(t) => Served(t)'
    BY <1>0, KickServes DEF TypeOK
  <2> QED BY <1>0, <2>1 DEF TypeOK, Driven, Stored, Executing
<1>10. DoneWereChained'
  BY <1>0 DEF TypeOK, DoneWereChained, HeldByTheLinkInHand, Executing
<1> QED BY <1>1, <1>2, <1>3, <1>4, <1>5, <1>6, <1>7, <1>8, <1>9,
           <1>10 DEF Coherent

\* createRun with `when: interrupt`, up to its await.
LEMMA InterruptThenCreateStep ==
  ASSUME IInv, NEW r \in Runs, NEW s \in Sessions, InterruptThenCreate(r, s)
  PROVE  Coherent'
<1>0. /\ TypeOK /\ Stored /\ DoneWereChained /\ HeldByTheLinkInHand /\ OneHeld 
      /\ NotStartedBefore /\ QueuedIsEarly /\ RowsGoWithSession /\ SweepsItsOwn /\ TurnFits /\ Driven
  BY DEF IInv, Coherent
<1> USE DEF InterruptThenCreate, IsActive, hubVars
<1>1. Stored'
  BY <1>0 DEF TypeOK, Stored, Executing
<1>2. HeldByTheLinkInHand'
  BY <1>0 DEF TypeOK, Stored, HeldByTheLinkInHand, OneHeld, Executing
<1>3. OneHeld'
  BY <1>0 DEF TypeOK, Stored, HeldByTheLinkInHand, OneHeld, Executing
<1>4. NotStartedBefore'
  BY <1>0 DEF TypeOK, NotStartedBefore
<1>5. QueuedIsEarly'
  BY <1>0 DEF TypeOK, QueuedIsEarly, Stored, TurnFits, Executing
<1>6. RowsGoWithSession'
  BY <1>0 DEF TypeOK, RowsGoWithSession, Stored, SweepsItsOwn, TurnFits, Executing
<1>7. SweepsItsOwn'
  BY <1>0 DEF TypeOK, SweepsItsOwn, Stored, RowsGoWithSession, Executing
<1>8. TurnFits'
  BY <1>0 DEF TypeOK, TurnFits
<1>9. Driven'
  <2>1. \A t \in Sessions : Served(t)' = Served(t)
    BY DEF Served
  <2> QED BY <1>0, <2>1 DEF TypeOK, Driven, Stored, QueuedIsEarly, TurnFits, Executing
<1>10. DoneWereChained'
  BY <1>0 DEF TypeOK, DoneWereChained, HeldByTheLinkInHand, Executing
<1> QED BY <1>1, <1>2, <1>3, <1>4, <1>5, <1>6, <1>7, <1>8, <1>9,
           <1>10 DEF Coherent

\* createRun, once the adapter answered the interrupt.
LEMMA PostedStep ==
  ASSUME IInv, NEW r \in Runs, Posted(r)
  PROVE  Coherent'
<1>0. /\ TypeOK /\ Stored /\ DoneWereChained /\ HeldByTheLinkInHand /\ OneHeld 
      /\ NotStartedBefore /\ QueuedIsEarly /\ RowsGoWithSession /\ SweepsItsOwn /\ TurnFits /\ Driven
  BY DEF IInv, Coherent
<1> USE DEF Posted, StoreRun, Enqueue, Kick, hubVars
<1>1. Stored'
  BY <1>0 DEF TypeOK, Stored, Executing
<1>2. HeldByTheLinkInHand'
  <2>1. CASE session[home[r]] = "open" /\ StoreRun(r, home[r], "queue")
    BY <1>0, <2>1 DEF TypeOK, Stored, HeldByTheLinkInHand, OneHeld, Executing
  <2>2. CASE session[home[r]] = "gone" /\ pc' = [pc EXCEPT ![r] = "over"]
             /\ UNCHANGED <<home, row, ahead, job, chain>>
    BY <1>0, <2>2 DEF TypeOK, Stored, HeldByTheLinkInHand, OneHeld, Executing
  <2> QED BY <2>1, <2>2
<1>3. OneHeld'
  <2>1. CASE session[home[r]] = "open" /\ StoreRun(r, home[r], "queue")
    BY <1>0, <2>1 DEF TypeOK, Stored, HeldByTheLinkInHand, OneHeld, Executing
  <2>2. CASE session[home[r]] = "gone" /\ pc' = [pc EXCEPT ![r] = "over"]
             /\ UNCHANGED <<home, row, ahead, job, chain>>
    BY <1>0, <2>2 DEF TypeOK, Stored, HeldByTheLinkInHand, OneHeld, Executing
  <2> QED BY <2>1, <2>2
<1>4. NotStartedBefore'
  BY <1>0 DEF TypeOK, NotStartedBefore
<1>5. QueuedIsEarly'
  <2>1. CASE session[home[r]] = "open" /\ StoreRun(r, home[r], "queue")
    BY <1>0, <2>1 DEF TypeOK, QueuedIsEarly, Stored, TurnFits, Executing
  <2>2. CASE session[home[r]] = "gone" /\ pc' = [pc EXCEPT ![r] = "over"]
             /\ UNCHANGED <<home, row, ahead, job, chain>>
    BY <1>0, <2>2 DEF TypeOK, QueuedIsEarly, Stored, TurnFits, Executing
  <2> QED BY <2>1, <2>2
<1>6. RowsGoWithSession'
  BY <1>0 DEF TypeOK, RowsGoWithSession, Stored, SweepsItsOwn, TurnFits, Executing
<1>7. SweepsItsOwn'
  BY <1>0 DEF TypeOK, SweepsItsOwn, Stored, RowsGoWithSession, Executing
<1>8. TurnFits'
  BY <1>0 DEF TypeOK, TurnFits
<1>9. Driven'
  <2>1. CASE session[home[r]] = "open" /\ StoreRun(r, home[r], "queue")
    <3>1. home[r] \in Sessions
      BY <1>0 DEF Stored
    <3>2. Served(home[r])' /\ \A t \in Sessions : Served(t) => Served(t)'
      BY <1>0, <2>1, <3>1, KickServes DEF TypeOK
    <3> QED BY <1>0, <2>1, <3>1, <3>2 DEF TypeOK, Driven, Stored, Executing
  <2>2. CASE session[home[r]] = "gone" /\ pc' = [pc EXCEPT ![r] = "over"]
             /\ UNCHANGED <<home, row, ahead, job, chain>>
    <3>1. \A t \in Sessions : Served(t)' = Served(t)
      BY <2>2 DEF Served
    <3> QED BY <1>0, <2>2, <3>1 DEF TypeOK, Driven, Stored, Executing
  <2> QED BY <2>1, <2>2
<1>10. DoneWereChained'
  <2>1. CASE StoreRun(r, home[r], "queue")
    BY <1>0, <2>1 DEF TypeOK, DoneWereChained, Stored
  <2>2. CASE UNCHANGED <<home, row, ahead, job, chain>>
    BY <1>0, <2>2 DEF TypeOK, DoneWereChained
  <2> QED BY <2>1, <2>2
<1> QED BY <1>1, <1>2, <1>3, <1>4, <1>5, <1>6, <1>7, <1>8, <1>9,
           <1>10 DEF Coherent

\* The agent is not available: failBeforeStart.
LEMMA UnavailableStep ==
  ASSUME IInv, NEW r \in Runs, Unavailable(r)
  PROVE  Coherent'
<1>0. /\ TypeOK /\ Stored /\ DoneWereChained /\ HeldByTheLinkInHand /\ OneHeld 
      /\ NotStartedBefore /\ QueuedIsEarly /\ RowsGoWithSession /\ SweepsItsOwn /\ TurnFits /\ Driven
  BY DEF IInv, Coherent
<1> USE DEF Unavailable, FailBeforeStart, Forget, NoAsks, hubVars
<1>1. Stored'
  BY <1>0 DEF TypeOK, Stored, Executing
<1>2. HeldByTheLinkInHand'
  BY <1>0 DEF TypeOK, Stored, HeldByTheLinkInHand, OneHeld, Executing
<1>3. OneHeld'
  BY <1>0 DEF TypeOK, Stored, HeldByTheLinkInHand, OneHeld, Executing
<1>4. NotStartedBefore'
  BY <1>0 DEF TypeOK, NotStartedBefore
<1>5. QueuedIsEarly'
  BY <1>0 DEF TypeOK, QueuedIsEarly, Stored, TurnFits, Executing
<1>6. RowsGoWithSession'
  BY <1>0 DEF TypeOK, RowsGoWithSession, Stored, SweepsItsOwn, TurnFits, Executing
<1>7. SweepsItsOwn'
  BY <1>0 DEF TypeOK, SweepsItsOwn, Stored, RowsGoWithSession, Executing
<1>8. TurnFits'
  BY <1>0 DEF TypeOK, TurnFits
<1>9. Driven'
  <2>1. \A t \in Sessions : Served(t)' = Served(t)
    BY DEF Served
  <2> QED BY <1>0, <2>1 DEF TypeOK, Driven, Stored, QueuedIsEarly, TurnFits, Executing
<1>10. DoneWereChained'
  BY <1>0 DEF TypeOK, DoneWereChained, HeldByTheLinkInHand, Executing
<1> QED BY <1>1, <1>2, <1>3, <1>4, <1>5, <1>6, <1>7, <1>8, <1>9,
           <1>10 DEF Coherent

\* The agent is found: the job starts, or execute throws.
LEMMA FoundStep ==
  ASSUME IInv, NEW r \in Runs, Found(r)
  PROVE  Coherent'
<1>0. /\ TypeOK /\ Stored /\ DoneWereChained /\ HeldByTheLinkInHand /\ OneHeld 
      /\ NotStartedBefore /\ QueuedIsEarly /\ RowsGoWithSession /\ SweepsItsOwn /\ TurnFits /\ Driven
  BY DEF IInv, Coherent
<1> USE DEF Found, StartJob, Forget, NoAsks, hubVars
<1>1. Stored'
  BY <1>0 DEF TypeOK, Stored, Executing
<1>2. HeldByTheLinkInHand'
  BY <1>0 DEF TypeOK, Stored, HeldByTheLinkInHand, OneHeld, Executing
<1>3. OneHeld'
  BY <1>0 DEF TypeOK, Stored, HeldByTheLinkInHand, OneHeld, Executing
<1>4. NotStartedBefore'
  BY <1>0 DEF TypeOK, NotStartedBefore
<1>5. QueuedIsEarly'
  <2>1. CASE session[home[r]] = "open" /\ pc' = [pc EXCEPT ![r] = "tracking"]
    BY <1>0, <2>1 DEF TypeOK, QueuedIsEarly
  <2>2. CASE session[home[r]] = "gone" /\ pc' = [pc EXCEPT ![r] = "over"]
    <3>1. row[r] # "queued" /\ row' = row
      BY <1>0, <2>2 DEF RowsGoWithSession, Stored
    <3> HIDE DEF Found
    <3> QED BY <1>0, <2>2, <3>1 DEF TypeOK, QueuedIsEarly
  <2> QED BY <2>1, <2>2
<1>6. RowsGoWithSession'
  BY <1>0 DEF TypeOK, RowsGoWithSession, Stored, SweepsItsOwn, TurnFits, Executing
<1>7. SweepsItsOwn'
  BY <1>0 DEF TypeOK, SweepsItsOwn, Stored, RowsGoWithSession, Executing
<1>8. TurnFits'
  BY <1>0 DEF TypeOK, TurnFits
<1>9. Driven'
  <2>1. CASE pc' = [pc EXCEPT ![r] = "tracking"] /\ UNCHANGED <<done, link, mem, stop, memAsk>>
    <3>1. /\ \A t \in Sessions : Served(t)' = Served(t)
          /\ Executing(r)
          /\ UNCHANGED <<home, row>>
      BY <2>1 DEF Served, Executing
    <3> HIDE DEF Found
    <3> QED BY <1>0, <2>1, <3>1 DEF TypeOK, Driven, Stored, Executing
  <2>2. CASE /\ session[home[r]] = "gone"
             /\ pc' = [pc EXCEPT ![r] = "over"]
             /\ done' = [done EXCEPT ![home[r]] = @ + 1]
    <3>1. \A q \in Runs : home[q] = home[r] => row[q] \notin Live
      BY <1>0, <2>2 DEF RowsGoWithSession, Stored
    <3>2. \A t \in Sessions \ {home[r]} : Served(t)' = Served(t)
      BY <1>0, <2>2 DEF TypeOK, Served
    <3>3. UNCHANGED <<home, row>>
      OBVIOUS
    <3> HIDE DEF Found
    <3> QED BY <1>0, <2>2, <3>1, <3>2, <3>3 DEF TypeOK, Driven, Stored, Executing
  <2> QED BY <2>1, <2>2
<1>10. DoneWereChained'
  <2>1. CASE UNCHANGED <<done, link, mem, stop, memAsk>>
    BY <1>0, <2>1 DEF DoneWereChained
  <2>2. CASE done' = [done EXCEPT ![home[r]] = @ + 1]
    <3>1. home[r] \in Sessions /\ done[home[r]] + 1 <= Len(chain[home[r]]) /\ chain' = chain
      BY <1>0 DEF Stored, HeldByTheLinkInHand, Executing
    <3> HIDE DEF Found
    <3> QED BY <1>0, <2>2, <3>1 DEF TypeOK, DoneWereChained
  <2> QED BY <2>1, <2>2
<1> QED BY <1>1, <1>2, <1>3, <1>4, <1>5, <1>6, <1>7, <1>8, <1>9,
           <1>10 DEF Coherent

\* The folder is recorded and the adapter is started.
LEMMA TrackedStep ==
  ASSUME IInv, NEW r \in Runs, Tracked(r)
  PROVE  Coherent'
<1>0. /\ TypeOK /\ Stored /\ DoneWereChained /\ HeldByTheLinkInHand /\ OneHeld 
      /\ NotStartedBefore /\ QueuedIsEarly /\ RowsGoWithSession /\ SweepsItsOwn /\ TurnFits /\ Driven
  BY DEF IInv, Coherent
<1> USE DEF Tracked, dbVars, hubVars
<1>1. Stored'
  BY <1>0 DEF TypeOK, Stored, Executing
<1>2. HeldByTheLinkInHand'
  BY <1>0 DEF TypeOK, Stored, HeldByTheLinkInHand, OneHeld, Executing
<1>3. OneHeld'
  BY <1>0 DEF TypeOK, Stored, HeldByTheLinkInHand, OneHeld, Executing
<1>4. NotStartedBefore'
  BY <1>0 DEF TypeOK, NotStartedBefore
<1>5. QueuedIsEarly'
  BY <1>0 DEF TypeOK, QueuedIsEarly, Stored, TurnFits, Executing
<1>6. RowsGoWithSession'
  BY <1>0 DEF TypeOK, RowsGoWithSession, Stored, SweepsItsOwn, TurnFits, Executing
<1>7. SweepsItsOwn'
  BY <1>0 DEF TypeOK, SweepsItsOwn, Stored, RowsGoWithSession, Executing
<1>8. TurnFits'
  BY <1>0 DEF TypeOK, TurnFits
<1>9. Driven'
  <2>1. \A t \in Sessions : Served(t)' = Served(t)
    BY DEF Served
  <2> QED BY <1>0, <2>1 DEF TypeOK, Driven, Stored, QueuedIsEarly, TurnFits, Executing
<1>10. DoneWereChained'
  BY <1>0 DEF TypeOK, DoneWereChained, HeldByTheLinkInHand, Executing
<1> QED BY <1>1, <1>2, <1>3, <1>4, <1>5, <1>6, <1>7, <1>8, <1>9,
           <1>10 DEF Coherent

\* The adapter refuses to start: failBeforeStart.
LEMMA RefusedStep ==
  ASSUME IInv, NEW r \in Runs, Refused(r)
  PROVE  Coherent'
<1>0. /\ TypeOK /\ Stored /\ DoneWereChained /\ HeldByTheLinkInHand /\ OneHeld 
      /\ NotStartedBefore /\ QueuedIsEarly /\ RowsGoWithSession /\ SweepsItsOwn /\ TurnFits /\ Driven
  BY DEF IInv, Coherent
<1> USE DEF Refused, FailBeforeStart, Forget, NoAsks, hubVars
<1>1. Stored'
  BY <1>0 DEF TypeOK, Stored, Executing
<1>2. HeldByTheLinkInHand'
  BY <1>0 DEF TypeOK, Stored, HeldByTheLinkInHand, OneHeld, Executing
<1>3. OneHeld'
  BY <1>0 DEF TypeOK, Stored, HeldByTheLinkInHand, OneHeld, Executing
<1>4. NotStartedBefore'
  BY <1>0 DEF TypeOK, NotStartedBefore
<1>5. QueuedIsEarly'
  BY <1>0 DEF TypeOK, QueuedIsEarly, Stored, TurnFits, Executing
<1>6. RowsGoWithSession'
  BY <1>0 DEF TypeOK, RowsGoWithSession, Stored, SweepsItsOwn, TurnFits, Executing
<1>7. SweepsItsOwn'
  BY <1>0 DEF TypeOK, SweepsItsOwn, Stored, RowsGoWithSession, Executing
<1>8. TurnFits'
  BY <1>0 DEF TypeOK, TurnFits
<1>9. Driven'
  <2>1. \A t \in Sessions : Served(t)' = Served(t)
    BY DEF Served
  <2> QED BY <1>0, <2>1 DEF TypeOK, Driven, Stored, QueuedIsEarly, TurnFits, Executing
<1>10. DoneWereChained'
  BY <1>0 DEF TypeOK, DoneWereChained, HeldByTheLinkInHand, Executing
<1> QED BY <1>1, <1>2, <1>3, <1>4, <1>5, <1>6, <1>7, <1>8, <1>9,
           <1>10 DEF Coherent

\* The adapter accepts the run, or its row is gone.
LEMMA AcceptedStep ==
  ASSUME IInv, NEW r \in Runs, Accepted(r)
  PROVE  Coherent'
<1>0. /\ TypeOK /\ Stored /\ DoneWereChained /\ HeldByTheLinkInHand /\ OneHeld 
      /\ NotStartedBefore /\ QueuedIsEarly /\ RowsGoWithSession /\ SweepsItsOwn /\ TurnFits /\ Driven
  BY DEF IInv, Coherent
<1> USE DEF Accepted, WriteRow, hubVars
<1>1. Stored'
  BY <1>0 DEF TypeOK, Stored, Executing
<1>2. HeldByTheLinkInHand'
  BY <1>0 DEF TypeOK, Stored, HeldByTheLinkInHand, OneHeld, Executing
<1>3. OneHeld'
  BY SMTT(30), <1>0 DEF TypeOK, Stored, HeldByTheLinkInHand, OneHeld, Executing
<1>4. NotStartedBefore'
  BY <1>0 DEF TypeOK, NotStartedBefore
<1>5. QueuedIsEarly'
  BY <1>0 DEF TypeOK, QueuedIsEarly, Stored, TurnFits, Executing
<1>6. RowsGoWithSession'
  BY <1>0 DEF TypeOK, RowsGoWithSession, Stored, SweepsItsOwn, TurnFits, Executing
<1>7. SweepsItsOwn'
  BY <1>0 DEF TypeOK, SweepsItsOwn, Stored, RowsGoWithSession, Executing
<1>8. TurnFits'
  BY <1>0 DEF TypeOK, TurnFits
<1>9. Driven'
  <2>1. CASE row[r] # "deleted"
    <3>1. \A t \in Sessions : Served(t)' = Served(t)
      BY <2>1 DEF Served
    <3> QED BY ZenonT(30), <1>0, <2>1, <3>1 DEF TypeOK, Driven, Stored, Executing
  <2>2. CASE row[r] = "deleted"
    <3>1. \A q \in Runs : home[q] = home[r] => row[q] \notin Live
      BY <1>0, <2>2 DEF RowsGoWithSession
    <3>2. \A t \in Sessions \ {home[r]} : Served(t)' = Served(t)
      BY <1>0, <2>2 DEF TypeOK, Served
    <3> QED BY ZenonT(30), <1>0, <2>2, <3>1, <3>2 DEF TypeOK, Driven, Stored, Executing
  <2> QED BY <2>1, <2>2
<1>10. DoneWereChained'
  BY <1>0 DEF TypeOK, DoneWereChained, HeldByTheLinkInHand, Executing
<1> QED BY <1>1, <1>2, <1>3, <1>4, <1>5, <1>6, <1>7, <1>8, <1>9,
           <1>10 DEF Coherent

\* finalise writes the end and lets the link go on.
LEMMA FinaliseStep ==
  ASSUME IInv, NEW r \in Runs, Finalise(r)
  PROVE  Coherent'
<1>0. /\ TypeOK /\ Stored /\ DoneWereChained /\ HeldByTheLinkInHand /\ OneHeld 
      /\ NotStartedBefore /\ QueuedIsEarly /\ RowsGoWithSession /\ SweepsItsOwn /\ TurnFits /\ Driven
  BY DEF IInv, Coherent
<1> USE DEF Finalise, WriteRow, Forget, NoAsks, hubVars
<1>1. Stored'
  BY <1>0 DEF TypeOK, Stored, Executing
<1>2. HeldByTheLinkInHand'
  BY <1>0 DEF TypeOK, Stored, HeldByTheLinkInHand, OneHeld, Executing
<1>3. OneHeld'
  BY <1>0 DEF TypeOK, Stored, HeldByTheLinkInHand, OneHeld, Executing
<1>4. NotStartedBefore'
  BY <1>0 DEF TypeOK, NotStartedBefore
<1>5. QueuedIsEarly'
  BY <1>0 DEF TypeOK, QueuedIsEarly, Stored, TurnFits, Executing
<1>6. RowsGoWithSession'
  <2>1. mem[r] \in Terminal /\ row[r] # "none" /\ UNCHANGED <<session, home, sweep>>
    BY <1>0 DEF TurnFits, Stored, Executing
  <2>2. row' = [row EXCEPT ![r] = IF row[r] = "deleted" THEN "deleted" ELSE mem[r]]
    BY <1>0 DEF TypeOK
  <2> HIDE DEF Finalise
  <2> QED BY <1>0, <2>1, <2>2 DEF TypeOK, RowsGoWithSession
<1>7. SweepsItsOwn'
  <2>1. mem[r] \in Terminal /\ row[r] # "none" /\ UNCHANGED <<session, home, sweep>>
    BY <1>0 DEF TurnFits, Stored, Executing
  <2>2. row' = [row EXCEPT ![r] = IF row[r] = "deleted" THEN "deleted" ELSE mem[r]]
    BY <1>0 DEF TypeOK
  <2> HIDE DEF Finalise
  <2> QED BY <1>0, <2>1, <2>2 DEF TypeOK, SweepsItsOwn
<1>8. TurnFits'
  BY <1>0 DEF TypeOK, TurnFits
<1>9. Driven'
  <2>1. \A t \in Sessions : Served(t)' = Served(t)
    BY DEF Served
  <2> QED BY <1>0, <2>1 DEF TypeOK, Driven, Stored, QueuedIsEarly, TurnFits, Executing
<1>10. DoneWereChained'
  BY <1>0 DEF TypeOK, DoneWereChained, HeldByTheLinkInHand, Executing
<1> QED BY <1>1, <1>2, <1>3, <1>4, <1>5, <1>6, <1>7, <1>8, <1>9,
           <1>10 DEF Coherent

\* Any frame that shows the turn alive.
LEMMA FrameStep ==
  ASSUME IInv, NEW r \in Runs, Frame(r)
  PROVE  Coherent'
<1>0. /\ TypeOK /\ Stored /\ DoneWereChained /\ HeldByTheLinkInHand /\ OneHeld 
      /\ NotStartedBefore /\ QueuedIsEarly /\ RowsGoWithSession /\ SweepsItsOwn /\ TurnFits /\ Driven
  BY DEF IInv, Coherent
<1> USE DEF Frame, MoveTo, WriteRow, hubVars
<1>1. Stored'
  BY <1>0 DEF TypeOK, Stored, Executing
<1>2. HeldByTheLinkInHand'
  BY <1>0 DEF TypeOK, Stored, HeldByTheLinkInHand, OneHeld, Executing
<1>3. OneHeld'
  BY <1>0 DEF TypeOK, Stored, HeldByTheLinkInHand, OneHeld, Executing
<1>4. NotStartedBefore'
  BY <1>0 DEF TypeOK, NotStartedBefore
<1>5. QueuedIsEarly'
  BY <1>0 DEF TypeOK, QueuedIsEarly, Stored, TurnFits, Executing
<1>6. RowsGoWithSession'
  BY <1>0 DEF TypeOK, RowsGoWithSession, Stored, SweepsItsOwn, TurnFits, Executing
<1>7. SweepsItsOwn'
  BY <1>0 DEF TypeOK, SweepsItsOwn, Stored, RowsGoWithSession, Executing
<1>8. TurnFits'
  BY <1>0 DEF TypeOK, TurnFits
<1>9. Driven'
  <2>1. \A t \in Sessions : Served(t)' = Served(t)
    BY DEF Served
  <2> QED BY <1>0, <2>1 DEF TypeOK, Driven, Stored, QueuedIsEarly, TurnFits, Executing
<1>10. DoneWereChained'
  BY <1>0 DEF TypeOK, DoneWereChained, HeldByTheLinkInHand, Executing
<1> QED BY <1>1, <1>2, <1>3, <1>4, <1>5, <1>6, <1>7, <1>8, <1>9,
           <1>10 DEF Coherent

\* The reducer ends the turn.
LEMMA EndTurnStep ==
  ASSUME IInv, NEW r \in Runs, NEW to \in Terminal, NEW asks \in {"cancelled", "expired"}, EndTurn(r, to, asks)
  PROVE  Coherent'
<1>0. /\ TypeOK /\ Stored /\ DoneWereChained /\ HeldByTheLinkInHand /\ OneHeld 
      /\ NotStartedBefore /\ QueuedIsEarly /\ RowsGoWithSession /\ SweepsItsOwn /\ TurnFits /\ Driven
  BY DEF IInv, Coherent
<1> USE DEF EndTurn, FinishOpenWork, MoveTo, WriteRow, hubVars
<1>1. Stored'
  BY <1>0 DEF TypeOK, Stored, Executing
<1>2. HeldByTheLinkInHand'
  BY <1>0 DEF TypeOK, Stored, HeldByTheLinkInHand, OneHeld, Executing
<1>3. OneHeld'
  BY <1>0 DEF TypeOK, Stored, HeldByTheLinkInHand, OneHeld, Executing
<1>4. NotStartedBefore'
  BY <1>0 DEF TypeOK, NotStartedBefore
<1>5. QueuedIsEarly'
  BY <1>0 DEF TypeOK, QueuedIsEarly, Stored, TurnFits, Executing
<1>6. RowsGoWithSession'
  BY <1>0 DEF TypeOK, RowsGoWithSession, Stored, SweepsItsOwn, TurnFits, Executing
<1>7. SweepsItsOwn'
  BY <1>0 DEF TypeOK, SweepsItsOwn, Stored, RowsGoWithSession, Executing
<1>8. TurnFits'
  BY <1>0 DEF TypeOK, TurnFits
<1>9. Driven'
  <2>1. /\ \A t \in Sessions : Served(t)' = Served(t)
        /\ UNCHANGED home
        /\ row' = [row EXCEPT ![r] = IF @ = "deleted" THEN @ ELSE to]
        /\ pc' = [pc EXCEPT ![r] = "finalising"]
    BY DEF Served
  <2> HIDE DEF EndTurn
  <2> QED BY <1>0, <2>1 DEF TypeOK, Driven, Stored, Executing
<1>10. DoneWereChained'
  BY <1>0 DEF TypeOK, DoneWereChained, HeldByTheLinkInHand, Executing
<1> QED BY <1>1, <1>2, <1>3, <1>4, <1>5, <1>6, <1>7, <1>8, <1>9,
           <1>10 DEF Coherent

\* cancelRun of a row that says queued.
LEMMA CancelQueuedStep ==
  ASSUME IInv, NEW r \in Runs, CancelQueued(r)
  PROVE  Coherent'
<1>0. /\ TypeOK /\ Stored /\ DoneWereChained /\ HeldByTheLinkInHand /\ OneHeld 
      /\ NotStartedBefore /\ QueuedIsEarly /\ RowsGoWithSession /\ SweepsItsOwn /\ TurnFits /\ Driven
  BY DEF IInv, Coherent
<1> USE DEF CancelQueued, memVars, hubVars
<1>1. Stored'
  BY <1>0 DEF TypeOK, Stored, Executing
<1>2. HeldByTheLinkInHand'
  BY <1>0 DEF TypeOK, Stored, HeldByTheLinkInHand, OneHeld, Executing
<1>3. OneHeld'
  BY <1>0 DEF TypeOK, Stored, HeldByTheLinkInHand, OneHeld, Executing
<1>4. NotStartedBefore'
  BY <1>0 DEF TypeOK, NotStartedBefore
<1>5. QueuedIsEarly'
  BY <1>0 DEF TypeOK, QueuedIsEarly, Stored, TurnFits, Executing
<1>6. RowsGoWithSession'
  BY <1>0 DEF TypeOK, RowsGoWithSession, Stored, SweepsItsOwn, TurnFits, Executing
<1>7. SweepsItsOwn'
  BY <1>0 DEF TypeOK, SweepsItsOwn, Stored, RowsGoWithSession, Executing
<1>8. TurnFits'
  BY <1>0 DEF TypeOK, TurnFits
<1>9. Driven'
  <2>1. \A t \in Sessions : Served(t)' = Served(t)
    BY DEF Served
  <2> QED BY <1>0, <2>1 DEF TypeOK, Driven, Stored, QueuedIsEarly, TurnFits, Executing
<1>10. DoneWereChained'
  BY <1>0 DEF TypeOK, DoneWereChained, HeldByTheLinkInHand, Executing
<1> QED BY <1>1, <1>2, <1>3, <1>4, <1>5, <1>6, <1>7, <1>8, <1>9,
           <1>10 DEF Coherent

\* cancelRun of any other live row.
LEMMA CancelActiveStep ==
  ASSUME IInv, NEW r \in Runs, CancelActive(r)
  PROVE  Coherent'
<1>0. /\ TypeOK /\ Stored /\ DoneWereChained /\ HeldByTheLinkInHand /\ OneHeld 
      /\ NotStartedBefore /\ QueuedIsEarly /\ RowsGoWithSession /\ SweepsItsOwn /\ TurnFits /\ Driven
  BY DEF IInv, Coherent
<1> USE DEF CancelActive, IsActive, dbVars, hubVars
<1>1. Stored'
  BY <1>0 DEF TypeOK, Stored, Executing
<1>2. HeldByTheLinkInHand'
  BY <1>0 DEF TypeOK, Stored, HeldByTheLinkInHand, OneHeld, Executing
<1>3. OneHeld'
  BY <1>0 DEF TypeOK, Stored, HeldByTheLinkInHand, OneHeld, Executing
<1>4. NotStartedBefore'
  BY <1>0 DEF TypeOK, NotStartedBefore
<1>5. QueuedIsEarly'
  BY <1>0 DEF TypeOK, QueuedIsEarly, Stored, TurnFits, Executing
<1>6. RowsGoWithSession'
  BY <1>0 DEF TypeOK, RowsGoWithSession, Stored, SweepsItsOwn, TurnFits, Executing
<1>7. SweepsItsOwn'
  BY <1>0 DEF TypeOK, SweepsItsOwn, Stored, RowsGoWithSession, Executing
<1>8. TurnFits'
  BY <1>0 DEF TypeOK, TurnFits
<1>9. Driven'
  <2>1. \A t \in Sessions : Served(t)' = Served(t)
    BY DEF Served
  <2> QED BY <1>0, <2>1 DEF TypeOK, Driven, Stored, QueuedIsEarly, TurnFits, Executing
<1>10. DoneWereChained'
  BY <1>0 DEF TypeOK, DoneWereChained, HeldByTheLinkInHand, Executing
<1> QED BY <1>1, <1>2, <1>3, <1>4, <1>5, <1>6, <1>7, <1>8, <1>9,
           <1>10 DEF Coherent

\* respondApproval.
LEMMA RespondStep ==
  ASSUME IInv, NEW r \in Runs, NEW a \in Asks, Respond(r, a)
  PROVE  Coherent'
<1>0. /\ TypeOK /\ Stored /\ DoneWereChained /\ HeldByTheLinkInHand /\ OneHeld 
      /\ NotStartedBefore /\ QueuedIsEarly /\ RowsGoWithSession /\ SweepsItsOwn /\ TurnFits /\ Driven
  BY DEF IInv, Coherent
<1> USE DEF Respond, IsActive, ResolveInMemory, MoveTo, WriteRow, hubVars
<1>1. Stored'
  BY <1>0 DEF TypeOK, Stored, Executing
<1>2. HeldByTheLinkInHand'
  BY <1>0 DEF TypeOK, Stored, HeldByTheLinkInHand, OneHeld, Executing
<1>3. OneHeld'
  BY <1>0 DEF TypeOK, Stored, HeldByTheLinkInHand, OneHeld, Executing
<1>4. NotStartedBefore'
  BY <1>0 DEF TypeOK, NotStartedBefore
<1>5. QueuedIsEarly'
  BY <1>0 DEF TypeOK, QueuedIsEarly, Stored, TurnFits, Executing
<1>6. RowsGoWithSession'
  <2>1. CASE memAsk[r][a] = "pending" /\ ResolveInMemory(r, a, "answered")
    BY <1>0, <2>1 DEF TypeOK, RowsGoWithSession, Stored, SweepsItsOwn, TurnFits, Executing
  <2>2. CASE UNCHANGED <<memAsk, mem, row>>
    BY <1>0, <2>2 DEF TypeOK, RowsGoWithSession, Stored, SweepsItsOwn, TurnFits, Executing
  <2> QED BY <2>1, <2>2
<1>7. SweepsItsOwn'
  BY <1>0 DEF TypeOK, SweepsItsOwn, Stored, RowsGoWithSession, Executing
<1>8. TurnFits'
  <2>1. CASE memAsk[r][a] = "pending" /\ ResolveInMemory(r, a, "answered")
    BY <1>0, <2>1 DEF TypeOK, TurnFits
  <2>2. CASE UNCHANGED <<memAsk, mem, row>>
    BY <1>0, <2>2 DEF TypeOK, TurnFits
  <2> QED BY <2>1, <2>2
<1>9. Driven'
  <2>1. /\ \A t \in Sessions : Served(t)' = Served(t)
        /\ UNCHANGED <<home, pc>>
    BY DEF Served
  <2>2. CASE row' = row
    BY <1>0, <2>1, <2>2 DEF TypeOK, Driven, Stored, Executing
  <2>3. CASE /\ memAsk[r][a] = "pending"
             /\ row' = [row EXCEPT ![r] = IF @ = "deleted" THEN @ ELSE "streaming"]
    <3>1. Executing(r)
      BY <1>0, <2>3 DEF TurnFits, Executing
    <3> HIDE DEF Respond
    <3> QED BY <1>0, <2>1, <2>3, <3>1 DEF TypeOK, Driven, Stored, Executing
  <2> QED BY <2>2, <2>3
<1>10. DoneWereChained'
  BY <1>0 DEF TypeOK, DoneWereChained, HeldByTheLinkInHand, Executing
<1> QED BY <1>1, <1>2, <1>3, <1>4, <1>5, <1>6, <1>7, <1>8, <1>9,
           <1>10 DEF Coherent

\* An approval's deadline.
LEMMA ExpireStep ==
  ASSUME IInv, NEW r \in Runs, NEW a \in Asks, Expire(r, a)
  PROVE  Coherent'
<1>0. /\ TypeOK /\ Stored /\ DoneWereChained /\ HeldByTheLinkInHand /\ OneHeld 
      /\ NotStartedBefore /\ QueuedIsEarly /\ RowsGoWithSession /\ SweepsItsOwn /\ TurnFits /\ Driven
  BY DEF IInv, Coherent
<1> USE DEF Expire, IsActive, ResolveInMemory, MoveTo, WriteRow, hubVars
<1>1. Stored'
  BY <1>0 DEF TypeOK, Stored, Executing
<1>2. HeldByTheLinkInHand'
  BY <1>0 DEF TypeOK, Stored, HeldByTheLinkInHand, OneHeld, Executing
<1>3. OneHeld'
  BY <1>0 DEF TypeOK, Stored, HeldByTheLinkInHand, OneHeld, Executing
<1>4. NotStartedBefore'
  BY <1>0 DEF TypeOK, NotStartedBefore
<1>5. QueuedIsEarly'
  BY <1>0 DEF TypeOK, QueuedIsEarly, Stored, TurnFits, Executing
<1>6. RowsGoWithSession'
  <2>1. CASE memAsk[r][a] = "pending" /\ ResolveInMemory(r, a, "expired")
    BY <1>0, <2>1 DEF TypeOK, RowsGoWithSession, Stored, SweepsItsOwn, TurnFits, Executing
  <2>2. CASE UNCHANGED <<memAsk, ask, mem, row>>
    BY <1>0, <2>2 DEF TypeOK, RowsGoWithSession, Stored, SweepsItsOwn, TurnFits, Executing
  <2> QED BY <2>1, <2>2
<1>7. SweepsItsOwn'
  BY <1>0 DEF TypeOK, SweepsItsOwn, Stored, RowsGoWithSession, Executing
<1>8. TurnFits'
  <2>1. CASE memAsk[r][a] = "pending" /\ ResolveInMemory(r, a, "expired")
    BY <1>0, <2>1 DEF TypeOK, TurnFits
  <2>2. CASE UNCHANGED <<memAsk, ask, mem, row>>
    BY <1>0, <2>2 DEF TypeOK, TurnFits
  <2> QED BY <2>1, <2>2
<1>9. Driven'
  <2>1. /\ \A t \in Sessions : Served(t)' = Served(t)
        /\ UNCHANGED <<home, pc>>
    BY DEF Served
  <2>2. CASE row' = row
    BY <1>0, <2>1, <2>2 DEF TypeOK, Driven, Stored, Executing
  <2>3. CASE /\ memAsk[r][a] = "pending"
             /\ row' = [row EXCEPT ![r] = IF @ = "deleted" THEN @ ELSE "streaming"]
    <3>1. Executing(r)
      BY <1>0, <2>3 DEF TurnFits, Executing
    <3> HIDE DEF Expire
    <3> QED BY <1>0, <2>1, <2>3, <3>1 DEF TypeOK, Driven, Stored, Executing
  <2> QED BY <2>2, <2>3
<1>10. DoneWereChained'
  BY <1>0 DEF TypeOK, DoneWereChained, HeldByTheLinkInHand, Executing
<1> QED BY <1>1, <1>2, <1>3, <1>4, <1>5, <1>6, <1>7, <1>8, <1>9,
           <1>10 DEF Coherent

\* compress is chained.
LEMMA CompressStep ==
  ASSUME IInv, NEW s \in Sessions, Compress(s)
  PROVE  Coherent'
<1>0. /\ TypeOK /\ Stored /\ DoneWereChained /\ HeldByTheLinkInHand /\ OneHeld 
      /\ NotStartedBefore /\ QueuedIsEarly /\ RowsGoWithSession /\ SweepsItsOwn /\ TurnFits /\ Driven
  BY DEF IInv, Coherent
<1> USE DEF Compress, dbVars, hubVars
<1>1. Stored'
  BY <1>0 DEF TypeOK, Stored, Executing
<1>2. HeldByTheLinkInHand'
  BY <1>0 DEF TypeOK, Stored, HeldByTheLinkInHand, OneHeld, Executing
<1>3. OneHeld'
  BY <1>0 DEF TypeOK, Stored, HeldByTheLinkInHand, OneHeld, Executing
<1>4. NotStartedBefore'
  BY <1>0 DEF TypeOK, NotStartedBefore
<1>5. QueuedIsEarly'
  BY <1>0 DEF TypeOK, QueuedIsEarly, Stored, TurnFits, Executing
<1>6. RowsGoWithSession'
  BY <1>0 DEF TypeOK, RowsGoWithSession, Stored, SweepsItsOwn, TurnFits, Executing
<1>7. SweepsItsOwn'
  BY <1>0 DEF TypeOK, SweepsItsOwn, Stored, RowsGoWithSession, Executing
<1>8. TurnFits'
  BY <1>0 DEF TypeOK, TurnFits
<1>9. Driven'
  <2>1. \A t \in Sessions : Served(t) => Served(t)'
    BY <1>0 DEF TypeOK, Served
  <2> QED BY <1>0, <2>1 DEF TypeOK, Driven, Stored, Executing
<1>10. DoneWereChained'
  BY <1>0 DEF TypeOK, DoneWereChained, HeldByTheLinkInHand, Executing
<1> QED BY <1>1, <1>2, <1>3, <1>4, <1>5, <1>6, <1>7, <1>8, <1>9,
           <1>10 DEF Coherent

\* compress is over: no turn was running beside it.
LEMMA CompressedStep ==
  ASSUME IInv, NEW s \in Sessions, Compressed(s)
  PROVE  Coherent'
<1>0. /\ TypeOK /\ Stored /\ DoneWereChained /\ HeldByTheLinkInHand /\ OneHeld 
      /\ NotStartedBefore /\ QueuedIsEarly /\ RowsGoWithSession /\ SweepsItsOwn /\ TurnFits /\ Driven
  BY DEF IInv, Coherent
<1> USE DEF Compressed, Ready, dbVars, hubVars
<1>1. Stored'
  BY <1>0 DEF TypeOK, Stored, Executing
<1>2. HeldByTheLinkInHand'
  BY <1>0 DEF TypeOK, Stored, HeldByTheLinkInHand, OneHeld, Executing
<1>3. OneHeld'
  BY <1>0 DEF TypeOK, Stored, HeldByTheLinkInHand, OneHeld, Executing
<1>4. NotStartedBefore'
  BY <1>0 DEF TypeOK, NotStartedBefore
<1>5. QueuedIsEarly'
  BY <1>0 DEF TypeOK, QueuedIsEarly, Stored, TurnFits, Executing
<1>6. RowsGoWithSession'
  BY <1>0 DEF TypeOK, RowsGoWithSession, Stored, SweepsItsOwn, TurnFits, Executing
<1>7. SweepsItsOwn'
  BY <1>0 DEF TypeOK, SweepsItsOwn, Stored, RowsGoWithSession, Executing
<1>8. TurnFits'
  BY <1>0 DEF TypeOK, TurnFits
<1>9. Driven'
  <2>1. \A t \in Sessions : Served(t) => Served(t)'
    BY <1>0 DEF TypeOK, Served
  <2> QED BY <1>0, <2>1 DEF TypeOK, Driven, Stored, Executing
<1>10. DoneWereChained'
  BY <1>0 DEF TypeOK, DoneWereChained, HeldByTheLinkInHand, Executing
<1> QED BY <1>1, <1>2, <1>3, <1>4, <1>5, <1>6, <1>7, <1>8, <1>9,
           <1>10 DEF Coherent

\* recoverStaleRuns, and everything in memory is gone.
LEMMA RestartStep ==
  ASSUME IInv, Restart
  PROVE  Coherent'
<1>0. /\ TypeOK /\ Stored /\ DoneWereChained /\ HeldByTheLinkInHand /\ OneHeld 
      /\ NotStartedBefore /\ QueuedIsEarly /\ RowsGoWithSession /\ SweepsItsOwn /\ TurnFits /\ Driven
  BY DEF IInv, Coherent
<1> USE DEF Restart, NoAsks, NoSweep
<1>1. Stored'
  BY <1>0 DEF TypeOK, Stored, Executing
<1>2. HeldByTheLinkInHand'
  BY <1>0 DEF TypeOK, Stored, HeldByTheLinkInHand, OneHeld, Executing
<1>3. OneHeld'
  BY <1>0 DEF TypeOK, Stored, HeldByTheLinkInHand, OneHeld, Executing
<1>4. NotStartedBefore'
  BY <1>0 DEF TypeOK, NotStartedBefore
<1>5. QueuedIsEarly'
  BY <1>0 DEF TypeOK, QueuedIsEarly, Stored, TurnFits, Executing
<1>6. RowsGoWithSession'
  BY <1>0 DEF TypeOK, RowsGoWithSession, Stored, SweepsItsOwn, TurnFits, Executing
<1>7. SweepsItsOwn'
  BY <1>0 DEF TypeOK, SweepsItsOwn, Stored, RowsGoWithSession, Executing
<1>8. TurnFits'
  BY <1>0 DEF TypeOK, TurnFits
<1>9. Driven'
  <2>1. \A r \in Runs : row'[r] \notin Live
    BY <1>0 DEF TypeOK
  <2> QED BY <2>1 DEF Driven
<1>10. DoneWereChained'
  BY <1>0 DEF TypeOK, DoneWereChained, HeldByTheLinkInHand, Executing
<1> QED BY <1>1, <1>2, <1>3, <1>4, <1>5, <1>6, <1>7, <1>8, <1>9,
           <1>10 DEF Coherent

\* The agent asks a person; when the row is gone the turn ends instead.
LEMMA RequestApprovalStep ==
  ASSUME IInv, NEW r \in Runs, NEW a \in Asks, NEW w \in Waiting, RequestApproval(r, a, w)
  PROVE  Coherent'
<1>0. /\ TypeOK /\ Stored /\ DoneWereChained /\ HeldByTheLinkInHand /\ OneHeld
      /\ NotStartedBefore /\ QueuedIsEarly /\ RowsGoWithSession /\ SweepsItsOwn /\ TurnFits /\ Driven
  BY DEF IInv, Coherent
<1>1. CASE row[r] = "deleted"
  BY <1>1, EndTurnStep DEF RequestApproval
<1>2. CASE row[r] # "deleted"
  <2>0. /\ pc[r] = "live"
        /\ memAsk' = [memAsk EXCEPT ![r][a] = "pending"]
        /\ mem' = [mem EXCEPT ![r] = w]
        /\ row' = [row EXCEPT ![r] = w]
        /\ UNCHANGED <<session, home, pc, link, chain, done, sweep, starts>>
    BY <1>0, <1>2 DEF RequestApproval, MoveTo, WriteRow, TypeOK
  <2>1. Stored'
    BY <1>0, <2>0 DEF TypeOK, Stored, Executing
  <2>2. DoneWereChained'
    BY <1>0, <2>0 DEF DoneWereChained
  <2>3. HeldByTheLinkInHand' /\ OneHeld' /\ NotStartedBefore'
    BY <1>0, <2>0 DEF HeldByTheLinkInHand, OneHeld, NotStartedBefore, Executing
  <2>4. QueuedIsEarly'
    BY <1>0, <2>0 DEF TypeOK, QueuedIsEarly
  <2>5. RowsGoWithSession'
    BY <1>0, <1>2, <2>0 DEF TypeOK, RowsGoWithSession, Stored, Executing
  <2>6. SweepsItsOwn'
    BY <1>0, <2>0 DEF TypeOK, SweepsItsOwn
  <2>7. TurnFits'
    BY <1>0, <2>0 DEF TypeOK, TurnFits
  <2>8. Driven'
    <3>1. \A t \in Sessions : Served(t)' = Served(t)
      BY <2>0 DEF Served
    <3> QED BY <1>0, <2>0, <3>1 DEF TypeOK, Driven, Stored, Executing
  <2> QED BY <2>1, <2>2, <2>3, <2>4, <2>5, <2>6, <2>7, <2>8 DEF Coherent
<1> QED BY <1>1, <1>2

\* drain: the link in hand takes the next queued run, or is over with none left.
LEMMA DrainStep ==
  ASSUME IInv, NEW s \in Sessions, Drain(s)
  PROVE  Coherent'
<1>0. /\ TypeOK /\ Stored /\ DoneWereChained /\ HeldByTheLinkInHand /\ OneHeld
      /\ NotStartedBefore /\ QueuedIsEarly /\ RowsGoWithSession /\ SweepsItsOwn /\ TurnFits /\ Driven
  BY DEF IInv, Coherent
<1> PICK i \in 1..Len(chain[s]) :
       /\ Ready(s, i)
       /\ chain[s][i] = "drain"
       /\ ~ \E r \in Runs : home[r] = s /\ Executing(r) /\ link[r] = i
       /\ \/ \E r \in NextQueuedRun(s) :
               /\ pc' = [pc EXCEPT ![r] = "finding"]
               /\ link' = [link EXCEPT ![r] = i]
               /\ UNCHANGED done
          \/ /\ Queued(s) = {}
             /\ done' = [done EXCEPT ![s] = @ + 1]
             /\ UNCHANGED <<pc, link>>
       /\ UNCHANGED <<dbVars, mem, stop, memAsk, chain, sweep, starts, ended, hubVars>>
  BY DEF Drain
<1>1. i = done[s] + 1 /\ i <= Len(chain[s]) /\ i \in Nat
  BY <1>0 DEF Ready, TypeOK
<1>2. \A r \in Runs : home[r] = s => ~ Executing(r)
  BY <1>0, <1>1 DEF HeldByTheLinkInHand
<1>3. UNCHANGED <<session, home, row, mem, memAsk, chain, sweep, starts>>
  BY DEF dbVars
<1>4. RowsGoWithSession' /\ SweepsItsOwn'
  BY <1>0, <1>3 DEF RowsGoWithSession, SweepsItsOwn
<1>5. CASE \E r \in NextQueuedRun(s) :
             /\ pc' = [pc EXCEPT ![r] = "finding"]
             /\ link' = [link EXCEPT ![r] = i]
             /\ UNCHANGED done
  <2> PICK r \in NextQueuedRun(s) :
             /\ pc' = [pc EXCEPT ![r] = "finding"]
             /\ link' = [link EXCEPT ![r] = i]
             /\ UNCHANGED done
    BY <1>5
  <2>0. r \in Runs /\ home[r] = s /\ row[r] = "queued" /\ pc[r] = "chained"
    <3>1. r \in Runs /\ home[r] = s /\ row[r] = "queued"
      BY DEF NextQueuedRun, Queued
    <3> QED BY <1>0, <1>2, <3>1 DEF QueuedIsEarly, Executing
  <2>1. Stored'
    BY <1>0, <1>3, <2>0 DEF TypeOK, Stored, Executing
  <2>2. DoneWereChained'
    BY <1>0, <1>3 DEF DoneWereChained
  <2>3. HeldByTheLinkInHand'
    BY <1>0, <1>1, <1>3, <2>0 DEF TypeOK, HeldByTheLinkInHand, Executing
  <2>4. OneHeld'
    BY <1>0, <1>2, <1>3, <2>0 DEF TypeOK, OneHeld, Executing
  <2>5. NotStartedBefore'
    BY <1>0, <1>3, <2>0 DEF TypeOK, NotStartedBefore
  <2>6. QueuedIsEarly'
    BY <1>0, <1>3, <2>0 DEF TypeOK, QueuedIsEarly
  <2>7. TurnFits'
    BY <1>0, <1>3, <2>0 DEF TypeOK, TurnFits
  <2>8. Driven'
    <3>1. \A t \in Sessions : Served(t)' = Served(t)
      BY <1>3 DEF Served
    <3>2. \A q \in Runs : Executing(q) => Executing(q)'
      BY <1>0, <2>0 DEF TypeOK, Executing
    <3>3. \A q \in Runs : row'[q] = row[q] /\ home'[q] = home[q]
      BY <1>3
    <3>4. \A q \in Runs : row[q] \in Live => home[q] \in Sessions
      BY <1>0 DEF Stored
    <3> QED BY <1>0, <3>1, <3>2, <3>3, <3>4 DEF Driven
  <2> QED BY <1>4, <2>1, <2>2, <2>3, <2>4, <2>5, <2>6, <2>7, <2>8 DEF Coherent
<1>6. CASE /\ Queued(s) = {}
           /\ done' = [done EXCEPT ![s] = @ + 1]
           /\ UNCHANGED <<pc, link>>
  <2>1. Stored' /\ NotStartedBefore' /\ QueuedIsEarly' /\ TurnFits' /\ OneHeld'
    BY <1>0, <1>3, <1>6 DEF Stored, NotStartedBefore, QueuedIsEarly, TurnFits, OneHeld, Executing
  <2>2. DoneWereChained'
    BY <1>0, <1>1, <1>3, <1>6 DEF TypeOK, DoneWereChained
  <2>3. HeldByTheLinkInHand'
    BY <1>0, <1>2, <1>3, <1>6 DEF TypeOK, HeldByTheLinkInHand, Stored, Executing
  <2>4. Driven'
    <3>1. \A r \in Runs : home[r] = s => row[r] \notin Live
      BY <1>0, <1>2, <1>6 DEF Driven, Queued
    <3>2. \A t \in Sessions \ {s} : Served(t)' = Served(t)
      BY <1>0, <1>3, <1>6 DEF TypeOK, Served
    <3> QED BY <1>0, <1>3, <1>6, <3>1, <3>2 DEF TypeOK, Driven, Stored, Executing
  <2> QED BY <1>4, <2>1, <2>2, <2>3, <2>4 DEF Coherent
<1> QED BY <1>5, <1>6

\* A deletion cancels runs of its own session only, and the rows go with the session:
\* whatever it still finds running keeps the chain.
LEMMA SweepOnStep ==
  ASSUME IInv, NEW s \in Sessions, session[s] = "open",
         NEW cut \in SUBSET Runs, NEW left \in SUBSET Runs,
         \A r \in cut \cup left : home[r] = s /\ row[r] # "none",
         SweepOn(s, cut, left),
         UNCHANGED <<home, ahead, job, pc, link, mem, memAsk, chain, done, starts, ended>>
  PROVE  Coherent'
<1>0. /\ TypeOK /\ Stored /\ DoneWereChained /\ HeldByTheLinkInHand /\ OneHeld
      /\ NotStartedBefore /\ QueuedIsEarly /\ RowsGoWithSession /\ SweepsItsOwn /\ TurnFits /\ Driven
  BY DEF IInv, Coherent
<1>1. /\ DoneWereChained' /\ HeldByTheLinkInHand' /\ OneHeld' /\ NotStartedBefore' /\ TurnFits'
      /\ \A t \in Sessions : Served(t)' = Served(t)
  BY <1>0 DEF DoneWereChained, HeldByTheLinkInHand, OneHeld, NotStartedBefore, TurnFits,
              Served, Executing
<1>2. ASSUME NEW q \in left,
             row' = [r \in Runs |-> IF r \in cut \/ (r \in left /\ Before(r, q))
                                    THEN "cancelled" ELSE row[r]],
             sweep' = [sweep EXCEPT ![s] = [phase |-> "waiting", run |-> q,
                                            left |-> {r \in left : Before(q, r)}]],
             session' = session
      PROVE  Coherent'
  <2>1. \A r \in Runs :
          \/ row'[r] = row[r]
          \/ row'[r] = "cancelled" /\ home[r] = s /\ row[r] # "none"
    BY <1>2
  <2>2. Stored'
    BY <1>0, <2>1 DEF Stored, Executing
  <2>3. QueuedIsEarly'
    BY <1>0, <2>1 DEF QueuedIsEarly
  <2>4. RowsGoWithSession'
    BY <1>0, <1>2, <2>1 DEF RowsGoWithSession
  <2>5. SweepsItsOwn'
    <3>1. ASSUME NEW t \in Sessions, t # s PROVE sweep'[t] = sweep[t]
      BY <1>0, <1>2, <3>1 DEF TypeOK
    <3>2. sweep'[s].run = q /\ sweep'[s].left \subseteq left
      BY <1>0, <1>2 DEF TypeOK
    <3>3. \A r \in Runs : row[r] # "none" => row'[r] # "none"
      BY <2>1
    <3>4. ASSUME NEW t \in Sessions, sweep'[t].phase = "waiting"
          PROVE  /\ session'[t] = "open"
                 /\ sweep'[t].run \in Runs
                 /\ \A r \in sweep'[t].left \cup {sweep'[t].run} : home'[r] = t /\ row'[r] # "none"
      <4>1. CASE t = s
        BY <1>2, <3>2, <3>3, <4>1
      <4>2. CASE t # s
        <5>1. /\ session[t] = "open" /\ sweep[t].run \in Runs /\ sweep[t].left \subseteq Runs
              /\ \A r \in sweep[t].left \cup {sweep[t].run} : home[r] = t /\ row[r] # "none"
          BY <1>0, <3>1, <3>4, <4>2 DEF SweepsItsOwn, TypeOK
        <5> QED BY <1>2, <3>1, <3>3, <4>2, <5>1
      <4> QED BY <4>1, <4>2
    <3> QED BY <3>4 DEF SweepsItsOwn
  <2>6. Driven'
    BY <1>0, <1>1, <2>1 DEF Driven, Stored, Executing
  <2> QED BY <1>1, <2>2, <2>3, <2>4, <2>5, <2>6 DEF Coherent
<1>3. CASE /\ session' = [session EXCEPT ![s] = "gone"]
           /\ row' = [r \in Runs |->
                       IF home[r] = s /\ row[r] # "none" THEN "deleted" ELSE row[r]]
           /\ sweep' = [sweep EXCEPT ![s] = NoSweep]
  <2>1. \A r \in Runs : \/ row'[r] = row[r] /\ (home[r] # s \/ row[r] = "none")
                        \/ row'[r] = "deleted" /\ home[r] = s /\ row[r] # "none"
    BY <1>3
  <2>2. Stored'
    BY <1>0, <2>1 DEF Stored, Executing
  <2>3. QueuedIsEarly'
    BY <1>0, <2>1 DEF QueuedIsEarly
  <2>4. RowsGoWithSession'
    BY <1>0, <1>3, <2>1 DEF TypeOK, RowsGoWithSession
  <2>5. SweepsItsOwn'
    <3>1. ASSUME NEW t \in Sessions, sweep'[t].phase = "waiting"
          PROVE  /\ session'[t] = "open"
                 /\ sweep'[t].run \in Runs
                 /\ \A r \in sweep'[t].left \cup {sweep'[t].run} : home'[r] = t /\ row'[r] # "none"
      <4>1. t # s
        BY <1>0, <1>3, <3>1 DEF TypeOK, NoSweep
      <4>2. sweep'[t] = sweep[t] /\ session'[t] = session[t]
        BY <1>0, <1>3, <4>1 DEF TypeOK
      <4>3. /\ session[t] = "open" /\ sweep[t].run \in Runs /\ sweep[t].left \subseteq Runs
            /\ \A r \in sweep[t].left \cup {sweep[t].run} : home[r] = t /\ row[r] # "none"
        BY <1>0, <3>1, <4>2 DEF SweepsItsOwn, TypeOK
      <4> QED BY <2>1, <4>2, <4>3
    <3> QED BY <3>1 DEF SweepsItsOwn
  <2>6. Driven'
    BY <1>0, <1>1, <2>1 DEF Driven, Stored, Executing
  <2> QED BY <1>1, <2>2, <2>3, <2>4, <2>5, <2>6 DEF Coherent
<1> QED BY <1>2, <1>3 DEF SweepOn

\* remove, up to the first run of the session that the adapter has to stop.
LEMMA RemoveStep ==
  ASSUME IInv, NEW s \in Sessions, Remove(s)
  PROVE  Coherent'
<1>1. \A r \in {} \cup LiveRuns(s) : r \in Runs /\ home[r] = s /\ row[r] # "none"
  BY DEF LiveRuns
<1> QED BY <1>1, SweepOnStep DEF Remove

\* remove, once the adapter answered the interrupt.
LEMMA RemoveOnStep ==
  ASSUME IInv, NEW s \in Sessions, RemoveOn(s)
  PROVE  Coherent'
<1>1. /\ session[s] = "open"
      /\ {sweep[s].run} \in SUBSET Runs
      /\ sweep[s].left \in SUBSET Runs
      /\ \A r \in {sweep[s].run} \cup sweep[s].left : home[r] = s /\ row[r] # "none"
  BY DEF IInv, Coherent, TypeOK, SweepsItsOwn, RemoveOn
<1> QED BY <1>1, SweepOnStep DEF RemoveOn

\* Every step keeps the invariant.
LEMMA IInvStep == IInv /\ [Next]_vars => IInv'
<1> SUFFICES ASSUME IInv, [Next]_vars PROVE IInv'
  OBVIOUS
<1>1. TypeOK'
  BY TypeStep DEF IInv, Coherent
<1>2. CASE Next
  <2>1. ASSUME Create PROVE Coherent'
    BY <2>1, CreateRunStep, InterruptThenCreateStep DEF Create
  <2>2. ASSUME NEW r \in Runs, Posted(r) \/ Execute(r) PROVE Coherent'
    BY <2>2, PostedStep, UnavailableStep, FoundStep, TrackedStep, RefusedStep, AcceptedStep,
       FinaliseStep DEF Execute
  <2>3. ASSUME NEW r \in Runs, TurnEnds(r) PROVE Coherent'
    BY <2>3, EndTurnStep
    DEF TurnEnds, Completed, Failed, StreamEnded, Abort, Timeout, Outcome
  <2>4. ASSUME NEW r \in Runs, Agent(r) PROVE Coherent'
    BY <2>3, <2>4, FrameStep, RequestApprovalStep DEF Agent
  <2>5. ASSUME NEW r \in Runs, Person(r) PROVE Coherent'
    BY <2>5, CancelQueuedStep, CancelActiveStep, RespondStep, ExpireStep DEF Person
  <2>6. ASSUME NEW s \in Sessions, Session(s) PROVE Coherent'
    BY <2>6, DrainStep, CompressStep, CompressedStep, RemoveStep, RemoveOnStep DEF Session
  <2> QED BY <1>1, <1>2, <2>1, <2>2, <2>4, <2>5, <2>6, RestartStep DEF Next, Work, IInv
<1>3. CASE UNCHANGED vars
  <2>1. \A t \in Sessions : Served(t)' = Served(t)
    BY <1>3 DEF vars, memVars, Served
  <2> QED BY <1>1, <1>3, <2>1
    DEF IInv, Coherent, vars, dbVars, memVars, Stored, DoneWereChained, HeldByTheLinkInHand,
        OneHeld, NotStartedBefore, QueuedIsEarly, RowsGoWithSession, SweepsItsOwn, TurnFits,
        Driven, Executing
<1> QED BY <1>2, <1>3

\* The hub starts with nothing stored and nothing chained.
LEMMA IInvInit == Init => IInv
<1> SUFFICES ASSUME Init PROVE IInv
  OBVIOUS
<1> USE NoneAssumption DEF Init, NoAsks, NoSweep
<1>1. TypeOK
  BY DEF TypeOK
<1>2. Stored /\ HeldByTheLinkInHand /\ OneHeld /\ NotStartedBefore /\ QueuedIsEarly /\ Driven
  BY DEF Stored, HeldByTheLinkInHand, OneHeld, NotStartedBefore, QueuedIsEarly, Driven, Executing
<1>3. DoneWereChained /\ RowsGoWithSession /\ SweepsItsOwn /\ TurnFits
  BY DEF DoneWereChained, RowsGoWithSession, SweepsItsOwn, TurnFits
<1> QED BY <1>1, <1>2, <1>3 DEF IInv, Coherent

\* What every await of engine.ts and service.ts may count on.
THEOREM Invariance == Spec => []IInv
BY IInvInit, IInvStep, PTL DEF Spec

\* Rows, jobs, chains and deletions stay in the states engine.ts and service.ts read them
\* in, for any number of sessions, runs and approvals.
THEOREM TypeCorrect == Spec => []TypeOK
BY Invariance, PTL DEF IInv

\* exclusive and drain (engine.ts): one turn at a time in a session, and none beside a
\* compression, however the awaits of any number of runs interleave with cancellations,
\* deletions and restarts.
THEOREM SerialTurns == Spec => []OneTurnAtATime
<1>1. IInv => OneTurnAtATime
  <2> SUFFICES ASSUME IInv PROVE OneTurnAtATime
    OBVIOUS
  <2>1. TypeOK /\ HeldByTheLinkInHand /\ OneHeld
    BY DEF IInv, Coherent
  <2> QED BY <2>1 DEF OneTurnAtATime, HeldByTheLinkInHand, OneHeld, Ready, TypeOK
<1> QED BY <1>1, Invariance, PTL

\* runner.start (engine.ts execute) is called once at most for a run, whichever of the
\* links that drain its session picks it.
THEOREM NeverStartedTwice == Spec => []StartedOnce
<1>1. IInv => StartedOnce
  BY DEF IInv, Coherent, NotStartedBefore, StartedOnce
<1> QED BY <1>1, Invariance, PTL

\* No run is left behind (engine.ts kick, drain, failBeforeStart, finalise; service.ts
\* recoverStaleRuns): a row that says live is driven, or a link will find it.
THEOREM NoRunLeftBehind == Spec => []EveryLiveRunIsDriven
<1>1. IInv => EveryLiveRunIsDriven
  BY DEF IInv, Coherent, Driven, EveryLiveRunIsDriven
<1> QED BY <1>1, Invariance, PTL
=============================================================================
