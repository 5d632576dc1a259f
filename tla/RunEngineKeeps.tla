--------------------------- MODULE RunEngineKeeps ---------------------------
(***************************************************************************)
(* What the run engine shows is what it does: the rows follow the reducer, *)
(* every end is told, a turn asked to stop never succeeds, and its runs    *)
(* keep the lifecycle of RunLifecycle.  The parts of Faithful (module      *)
(* RunEngineInv) are shown beside the invariant of RunEngineProofs, one    *)
(* lemma per action.                                                       *)
(***************************************************************************)
EXTENDS RunEngineProofs

USE DEF Live, Waiting, Terminal, Status, AskStatus, Picked, PC

\* Each run moves along one arrow of its lifecycle, or stays, and keeps its session.
Moves ==
  \A q \in Runs :
    /\ \/ statusBar'[q] = statusBar[q]
       \/ Lifecycle!Arrow(statusBar[q], statusBar'[q], home[q] \in closingBar)
    /\ home'[q] = home[q] \/ home[q] = None

\* The step of StoppedNeverSucceeds.
StopHolds == \A q \in Runs : stop[q] /\ row'[q] = "succeeded" => row[q] = "succeeded"

Kept == Faithful' /\ Moves /\ StopHolds

\* createRun puts no run before itself.
LEMMA EnqueueStrict ==
  ASSUME TypeOK, OrderIsStrict, NEW r \in Runs, NEW s, NEW when, row[r] = "none",
         StoreRun(r, s, when)
  PROVE  OrderIsStrict'
<1>1. /\ r \notin ahead'[r]
      /\ \A q \in Runs \ {r} : ahead'[q] \in {ahead[q], ahead[q] \cup {r}}
  BY DEF StoreRun, Enqueue
<1> QED BY <1>1 DEF OrderIsStrict

\* createRun stores a run.
LEMMA CreateRunKeeps ==
  ASSUME IInv, Faithful, NEW r \in Runs, NEW s \in Sessions, NEW when \in When, CreateRun(r, s, when)
  PROVE  Kept
<1>0. /\ TypeOK /\ Stored /\ HeldByTheLinkInHand /\ OneHeld /\ QueuedIsEarly
      /\ RowsGoWithSession /\ SweepsItsOwn /\ TurnFits /\ Driven
      /\ IdleHasNoHome /\ OrderIsStrict /\ SweepGoesOn /\ LostIsDeleted /\ PickedIsEarly
      /\ AsksFit /\ LiveIsUnended /\ EndFits /\ RowsFollowReducer /\ EveryEndIsTold
  BY DEF IInv, Coherent, Faithful
<1> USE DEF CreateRun, StoreRun, Enqueue, Kick, hubVars
<1>1. IdleHasNoHome'
  BY <1>0 DEF TypeOK, IdleHasNoHome
<1>2. OrderIsStrict'
  BY <1>0, EnqueueStrict DEF Stored
<1>3. SweepGoesOn'
  BY <1>0 DEF SweepGoesOn
<1>4. LostIsDeleted'
  BY <1>0 DEF LostIsDeleted
<1>5. PickedIsEarly'
  BY <1>0 DEF PickedIsEarly
<1>6. AsksFit'
  BY <1>0 DEF AsksFit
<1>7. LiveIsUnended'
  BY <1>0 DEF LiveIsUnended
<1>8. EndFits'
  BY <1>0 DEF EndFits
<1>9. RowsFollowReducer'
  BY <1>0 DEF RowsFollowReducer
<1>10. EveryEndIsTold'
  BY <1>0 DEF TypeOK, EveryEndIsTold, Executing
<1>11. Moves
  BY <1>0 DEF Moves, statusBar, Lifecycle!Arrow, Stored, IdleHasNoHome
<1>12. StopHolds
  BY <1>0 DEF StopHolds
<1> QED BY <1>1, <1>2, <1>3, <1>4, <1>5, <1>6, <1>7, <1>8, <1>9, <1>10, <1>11, <1>12
        DEF Kept, Faithful

\* createRun with `when: interrupt`, up to its await.
LEMMA InterruptThenCreateKeeps ==
  ASSUME IInv, Faithful, NEW r \in Runs, NEW s \in Sessions, InterruptThenCreate(r, s)
  PROVE  Kept
<1>0. /\ TypeOK /\ Stored /\ HeldByTheLinkInHand /\ OneHeld /\ QueuedIsEarly
      /\ RowsGoWithSession /\ SweepsItsOwn /\ TurnFits /\ Driven
      /\ IdleHasNoHome /\ OrderIsStrict /\ SweepGoesOn /\ LostIsDeleted /\ PickedIsEarly
      /\ AsksFit /\ LiveIsUnended /\ EndFits /\ RowsFollowReducer /\ EveryEndIsTold
  BY DEF IInv, Coherent, Faithful
<1> USE DEF InterruptThenCreate, IsActive, hubVars
<1>1. IdleHasNoHome'
  BY <1>0 DEF TypeOK, IdleHasNoHome
<1>2. OrderIsStrict'
  BY <1>0 DEF OrderIsStrict
<1>3. SweepGoesOn'
  BY <1>0 DEF SweepGoesOn
<1>4. LostIsDeleted'
  BY <1>0 DEF LostIsDeleted
<1>5. PickedIsEarly'
  BY <1>0 DEF PickedIsEarly
<1>6. AsksFit'
  BY <1>0 DEF AsksFit
<1>7. LiveIsUnended'
  BY <1>0 DEF LiveIsUnended
<1>8. EndFits'
  BY <1>0 DEF TypeOK, EndFits
<1>9. RowsFollowReducer'
  BY <1>0 DEF RowsFollowReducer
<1>10. EveryEndIsTold'
  BY <1>0 DEF EveryEndIsTold, Stored, Executing
<1>11. Moves
  BY <1>0 DEF Moves, statusBar, IdleHasNoHome
<1>12. StopHolds
  BY <1>0 DEF StopHolds
<1> QED BY <1>1, <1>2, <1>3, <1>4, <1>5, <1>6, <1>7, <1>8, <1>9, <1>10, <1>11, <1>12
        DEF Kept, Faithful

\* createRun, once the adapter answered the interrupt.
LEMMA PostedKeeps ==
  ASSUME IInv, Faithful, NEW r \in Runs, Posted(r)
  PROVE  Kept
<1>0. /\ TypeOK /\ Stored /\ HeldByTheLinkInHand /\ OneHeld /\ QueuedIsEarly
      /\ RowsGoWithSession /\ SweepsItsOwn /\ TurnFits /\ Driven
      /\ IdleHasNoHome /\ OrderIsStrict /\ SweepGoesOn /\ LostIsDeleted /\ PickedIsEarly
      /\ AsksFit /\ LiveIsUnended /\ EndFits /\ RowsFollowReducer /\ EveryEndIsTold
  BY DEF IInv, Coherent, Faithful
<1> USE DEF Posted, StoreRun, Enqueue, Kick, hubVars
<1>1. IdleHasNoHome'
  BY <1>0 DEF TypeOK, IdleHasNoHome
<1>2. OrderIsStrict'
  <2>1. row[r] = "none"
    BY <1>0 DEF Stored
  <2>2. StoreRun(r, home[r], "queue") \/ UNCHANGED ahead
    OBVIOUS
  <2> HIDE DEF Posted, StoreRun
  <2> QED BY <1>0, <2>1, <2>2, EnqueueStrict DEF OrderIsStrict
<1>3. SweepGoesOn'
  BY <1>0 DEF SweepGoesOn
<1>4. LostIsDeleted'
  BY <1>0 DEF TypeOK, LostIsDeleted
<1>5. PickedIsEarly'
  BY <1>0 DEF TypeOK, PickedIsEarly
<1>6. AsksFit'
  <2>1. /\ UNCHANGED ask
        /\ \A q \in Runs \ {r} : pc'[q] = pc[q] /\ memAsk'[q] = memAsk[q]
        /\ pc[r] = "posting" /\ pc'[r] \in {"chained", "over"} /\ memAsk'[r] = memAsk[r]
    BY <1>0 DEF TypeOK
  <2> QED BY <1>0, <2>1 DEF AsksFit
<1>7. LiveIsUnended'
  BY <1>0 DEF TypeOK, LiveIsUnended
<1>8. EndFits'
  BY <1>0 DEF TypeOK, EndFits
<1>9. RowsFollowReducer'
  BY <1>0 DEF TypeOK, RowsFollowReducer
<1>10. EveryEndIsTold'
  BY <1>0 DEF TypeOK, EveryEndIsTold, Stored, Executing
<1>11. Moves
  BY <1>0 DEF TypeOK, Moves, statusBar, Lifecycle!Arrow, Stored
<1>12. StopHolds
  BY <1>0 DEF TypeOK, StopHolds
<1> QED BY <1>1, <1>2, <1>3, <1>4, <1>5, <1>6, <1>7, <1>8, <1>9, <1>10, <1>11, <1>12
        DEF Kept, Faithful

\* execute finds no agent.
LEMMA UnavailableKeeps ==
  ASSUME IInv, Faithful, NEW r \in Runs, Unavailable(r)
  PROVE  Kept
<1>0. /\ TypeOK /\ Stored /\ HeldByTheLinkInHand /\ OneHeld /\ QueuedIsEarly
      /\ RowsGoWithSession /\ SweepsItsOwn /\ TurnFits /\ Driven
      /\ IdleHasNoHome /\ OrderIsStrict /\ SweepGoesOn /\ LostIsDeleted /\ PickedIsEarly
      /\ AsksFit /\ LiveIsUnended /\ EndFits /\ RowsFollowReducer /\ EveryEndIsTold
  BY DEF IInv, Coherent, Faithful
<1> USE DEF Unavailable, FailBeforeStart, Forget, hubVars
<1>1. IdleHasNoHome'
  BY <1>0 DEF IdleHasNoHome
<1>2. OrderIsStrict'
  BY <1>0 DEF OrderIsStrict
<1>3. SweepGoesOn'
  BY <1>0 DEF SweepGoesOn
<1>4. LostIsDeleted'
  BY <1>0 DEF LostIsDeleted
<1>5. PickedIsEarly'
  BY <1>0 DEF TypeOK, PickedIsEarly
<1>6. AsksFit'
  BY <1>0 DEF AsksFit
<1>7. LiveIsUnended'
  BY <1>0 DEF LiveIsUnended
<1>8. EndFits'
  BY <1>0 DEF EndFits
<1>9. RowsFollowReducer'
  BY <1>0 DEF RowsFollowReducer
<1>10. EveryEndIsTold'
  BY <1>0 DEF TypeOK, EveryEndIsTold, Executing
<1>11. Moves
  BY <1>0 DEF TypeOK, Moves, statusBar, Lifecycle!Arrow
<1>12. StopHolds
  BY <1>0 DEF StopHolds
<1> QED BY <1>1, <1>2, <1>3, <1>4, <1>5, <1>6, <1>7, <1>8, <1>9, <1>10, <1>11, <1>12
        DEF Kept, Faithful

\* execute, from the agent's lookup on.
LEMMA FoundKeeps ==
  ASSUME IInv, Faithful, NEW r \in Runs, Found(r)
  PROVE  Kept
<1>0. /\ TypeOK /\ Stored /\ HeldByTheLinkInHand /\ OneHeld /\ QueuedIsEarly
      /\ RowsGoWithSession /\ SweepsItsOwn /\ TurnFits /\ Driven
      /\ IdleHasNoHome /\ OrderIsStrict /\ SweepGoesOn /\ LostIsDeleted /\ PickedIsEarly
      /\ AsksFit /\ LiveIsUnended /\ EndFits /\ RowsFollowReducer /\ EveryEndIsTold
  BY DEF IInv, Coherent, Faithful
<1> USE DEF Found, StartJob, Forget, hubVars
<1>1. IdleHasNoHome'
  BY <1>0 DEF TypeOK, IdleHasNoHome
<1>2. OrderIsStrict'
  BY <1>0 DEF OrderIsStrict
<1>3. SweepGoesOn'
  BY <1>0 DEF SweepGoesOn
<1>4. LostIsDeleted'
  BY <1>0 DEF TypeOK, LostIsDeleted
<1>5. PickedIsEarly'
  BY <1>0 DEF TypeOK, PickedIsEarly
<1>6. AsksFit'
  <2>1. UNCHANGED ask /\ pc[r] = "finding"
    OBVIOUS
  <2>2. CASE UNCHANGED memAsk /\ pc' = [pc EXCEPT ![r] = "tracking"]
    BY <1>0, <2>1, <2>2 DEF TypeOK, AsksFit
  <2>3. CASE Forget(r) /\ pc' = [pc EXCEPT ![r] = "over"]
    <3>1. \A q \in Runs : memAsk'[q] = IF q = r THEN NoAsks ELSE memAsk[q]
      BY <1>0, <2>3 DEF TypeOK
    <3> HIDE DEF Found, Forget
    <3> QED BY <1>0, <2>1, <2>3, <3>1 DEF TypeOK, AsksFit
  <2> QED BY <2>1, <2>2, <2>3
<1>7. LiveIsUnended'
  <2>1. /\ \A q \in Runs \ {r} : pc'[q] = pc[q] /\ mem'[q] = mem[q]
        /\ pc'[r] # "live"
    BY <1>0 DEF TypeOK
  <2> QED BY <1>0, <2>1 DEF LiveIsUnended
<1>8. EndFits'
  BY <1>0 DEF TypeOK, EndFits
<1>9. RowsFollowReducer'
  BY <1>0 DEF TypeOK, RowsFollowReducer
<1>10. EveryEndIsTold'
  BY <1>0 DEF TypeOK, EveryEndIsTold, Stored, RowsGoWithSession, Executing
<1>11. Moves
  BY <1>0 DEF TypeOK, Moves, statusBar, Lifecycle!Arrow, PickedIsEarly
<1>12. StopHolds
  BY <1>0 DEF StopHolds
<1> QED BY <1>1, <1>2, <1>3, <1>4, <1>5, <1>6, <1>7, <1>8, <1>9, <1>10, <1>11, <1>12
        DEF Kept, Faithful

\* execute, to the adapter's start.
LEMMA TrackedKeeps ==
  ASSUME IInv, Faithful, NEW r \in Runs, Tracked(r)
  PROVE  Kept
<1>0. /\ TypeOK /\ Stored /\ HeldByTheLinkInHand /\ OneHeld /\ QueuedIsEarly
      /\ RowsGoWithSession /\ SweepsItsOwn /\ TurnFits /\ Driven
      /\ IdleHasNoHome /\ OrderIsStrict /\ SweepGoesOn /\ LostIsDeleted /\ PickedIsEarly
      /\ AsksFit /\ LiveIsUnended /\ EndFits /\ RowsFollowReducer /\ EveryEndIsTold
  BY DEF IInv, Coherent, Faithful
<1> USE DEF Tracked, dbVars, hubVars
<1>1. IdleHasNoHome'
  BY <1>0 DEF IdleHasNoHome
<1>2. OrderIsStrict'
  BY <1>0 DEF OrderIsStrict
<1>3. SweepGoesOn'
  BY <1>0 DEF SweepGoesOn
<1>4. LostIsDeleted'
  BY <1>0 DEF LostIsDeleted
<1>5. PickedIsEarly'
  BY <1>0 DEF PickedIsEarly
<1>6. AsksFit'
  BY <1>0 DEF AsksFit
<1>7. LiveIsUnended'
  BY <1>0 DEF LiveIsUnended
<1>8. EndFits'
  BY <1>0 DEF EndFits
<1>9. RowsFollowReducer'
  BY <1>0 DEF RowsFollowReducer
<1>10. EveryEndIsTold'
  BY <1>0 DEF EveryEndIsTold, Executing
<1>11. Moves
  BY <1>0 DEF Moves, statusBar
<1>12. StopHolds
  BY <1>0 DEF StopHolds
<1> QED BY <1>1, <1>2, <1>3, <1>4, <1>5, <1>6, <1>7, <1>8, <1>9, <1>10, <1>11, <1>12
        DEF Kept, Faithful

\* The adapter refuses to start.
LEMMA RefusedKeeps ==
  ASSUME IInv, Faithful, NEW r \in Runs, Refused(r)
  PROVE  Kept
<1>0. /\ TypeOK /\ Stored /\ HeldByTheLinkInHand /\ OneHeld /\ QueuedIsEarly
      /\ RowsGoWithSession /\ SweepsItsOwn /\ TurnFits /\ Driven
      /\ IdleHasNoHome /\ OrderIsStrict /\ SweepGoesOn /\ LostIsDeleted /\ PickedIsEarly
      /\ AsksFit /\ LiveIsUnended /\ EndFits /\ RowsFollowReducer /\ EveryEndIsTold
  BY DEF IInv, Coherent, Faithful
<1> USE DEF Refused, FailBeforeStart, Forget, hubVars
<1>1. IdleHasNoHome'
  BY <1>0 DEF IdleHasNoHome
<1>2. OrderIsStrict'
  BY <1>0 DEF OrderIsStrict
<1>3. SweepGoesOn'
  BY <1>0 DEF SweepGoesOn
<1>4. LostIsDeleted'
  BY <1>0 DEF LostIsDeleted
<1>5. PickedIsEarly'
  BY <1>0 DEF TypeOK, PickedIsEarly
<1>6. AsksFit'
  BY <1>0 DEF AsksFit
<1>7. LiveIsUnended'
  BY <1>0 DEF LiveIsUnended
<1>8. EndFits'
  BY <1>0 DEF EndFits
<1>9. RowsFollowReducer'
  BY <1>0 DEF RowsFollowReducer
<1>10. EveryEndIsTold'
  BY <1>0 DEF TypeOK, EveryEndIsTold, Executing
<1>11. Moves
  BY <1>0 DEF TypeOK, Moves, statusBar, Lifecycle!Arrow
<1>12. StopHolds
  BY <1>0 DEF StopHolds
<1> QED BY <1>1, <1>2, <1>3, <1>4, <1>5, <1>6, <1>7, <1>8, <1>9, <1>10, <1>11, <1>12
        DEF Kept, Faithful

\* The adapter accepts the run.
LEMMA AcceptedKeeps ==
  ASSUME IInv, Faithful, NEW r \in Runs, Accepted(r)
  PROVE  Kept
<1>0. /\ TypeOK /\ Stored /\ HeldByTheLinkInHand /\ OneHeld /\ QueuedIsEarly
      /\ RowsGoWithSession /\ SweepsItsOwn /\ TurnFits /\ Driven
      /\ IdleHasNoHome /\ OrderIsStrict /\ SweepGoesOn /\ LostIsDeleted /\ PickedIsEarly
      /\ AsksFit /\ LiveIsUnended /\ EndFits /\ RowsFollowReducer /\ EveryEndIsTold
  BY DEF IInv, Coherent, Faithful
<1> USE DEF Accepted, WriteRow, hubVars
<1>1. IdleHasNoHome'
  BY <1>0 DEF TypeOK, IdleHasNoHome
<1>2. OrderIsStrict'
  BY <1>0 DEF OrderIsStrict
<1>3. SweepGoesOn'
  BY <1>0 DEF SweepGoesOn
<1>4. LostIsDeleted'
  BY <1>0 DEF TypeOK, LostIsDeleted
<1>5. PickedIsEarly'
  BY <1>0 DEF TypeOK, PickedIsEarly
<1>6. AsksFit'
  <2>1. /\ UNCHANGED ask
        /\ \A q \in Runs \ {r} : pc'[q] = pc[q] /\ memAsk'[q] = memAsk[q]
        /\ pc[r] = "starting" /\ pc'[r] \in {"live", "lost"} /\ memAsk'[r] = memAsk[r]
    BY <1>0 DEF TypeOK
  <2> QED BY <1>0, <2>1 DEF AsksFit
<1>7. LiveIsUnended'
  BY <1>0 DEF TypeOK, LiveIsUnended
<1>8. EndFits'
  BY <1>0 DEF TypeOK, EndFits
<1>9. RowsFollowReducer'
  BY <1>0 DEF TypeOK, RowsFollowReducer, AsksFit
<1>10. EveryEndIsTold'
  BY <1>0 DEF TypeOK, EveryEndIsTold, Executing
<1>11. Moves
  BY <1>0 DEF TypeOK, Moves, statusBar, Lifecycle!Arrow
<1>12. StopHolds
  BY <1>0 DEF StopHolds
<1> QED BY <1>1, <1>2, <1>3, <1>4, <1>5, <1>6, <1>7, <1>8, <1>9, <1>10, <1>11, <1>12
        DEF Kept, Faithful

\* finalise writes the end.
LEMMA FinaliseKeeps ==
  ASSUME IInv, Faithful, NEW r \in Runs, Finalise(r)
  PROVE  Kept
<1>0. /\ TypeOK /\ Stored /\ HeldByTheLinkInHand /\ OneHeld /\ QueuedIsEarly
      /\ RowsGoWithSession /\ SweepsItsOwn /\ TurnFits /\ Driven
      /\ IdleHasNoHome /\ OrderIsStrict /\ SweepGoesOn /\ LostIsDeleted /\ PickedIsEarly
      /\ AsksFit /\ LiveIsUnended /\ EndFits /\ RowsFollowReducer /\ EveryEndIsTold
  BY DEF IInv, Coherent, Faithful
<1> USE DEF Finalise, WriteRow, Forget, hubVars
<1>1. IdleHasNoHome'
  BY <1>0 DEF IdleHasNoHome
<1>2. OrderIsStrict'
  BY <1>0 DEF OrderIsStrict
<1>3. SweepGoesOn'
  BY <1>0 DEF SweepGoesOn
<1>4. LostIsDeleted'
  BY <1>0 DEF LostIsDeleted
<1>5. PickedIsEarly'
  BY <1>0 DEF PickedIsEarly
<1>6. AsksFit'
  BY <1>0 DEF TypeOK, AsksFit
<1>7. LiveIsUnended'
  BY <1>0 DEF LiveIsUnended
<1>8. EndFits'
  BY <1>0 DEF TypeOK, EndFits
<1>9. RowsFollowReducer'
  BY <1>0 DEF RowsFollowReducer
<1>10. EveryEndIsTold'
  BY <1>0 DEF TypeOK, EveryEndIsTold, Executing
<1>11. Moves
  BY <1>0 DEF TypeOK, Moves, statusBar, Lifecycle!Arrow
<1>12. StopHolds
  BY <1>0 DEF StopHolds, EndFits
<1> QED BY <1>1, <1>2, <1>3, <1>4, <1>5, <1>6, <1>7, <1>8, <1>9, <1>10, <1>11, <1>12
        DEF Kept, Faithful

\* Any frame that shows the turn alive.
LEMMA FrameKeeps ==
  ASSUME IInv, Faithful, NEW r \in Runs, Frame(r)
  PROVE  Kept
<1>0. /\ TypeOK /\ Stored /\ HeldByTheLinkInHand /\ OneHeld /\ QueuedIsEarly
      /\ RowsGoWithSession /\ SweepsItsOwn /\ TurnFits /\ Driven
      /\ IdleHasNoHome /\ OrderIsStrict /\ SweepGoesOn /\ LostIsDeleted /\ PickedIsEarly
      /\ AsksFit /\ LiveIsUnended /\ EndFits /\ RowsFollowReducer /\ EveryEndIsTold
  BY DEF IInv, Coherent, Faithful
<1> USE DEF Frame, MoveTo, WriteRow, hubVars
<1>1. IdleHasNoHome'
  BY <1>0 DEF IdleHasNoHome
<1>2. OrderIsStrict'
  BY <1>0 DEF OrderIsStrict
<1>3. SweepGoesOn'
  BY <1>0 DEF SweepGoesOn
<1>4. LostIsDeleted'
  BY <1>0 DEF LostIsDeleted
<1>5. PickedIsEarly'
  BY <1>0 DEF PickedIsEarly
<1>6. AsksFit'
  BY <1>0 DEF AsksFit
<1>7. LiveIsUnended'
  BY <1>0 DEF LiveIsUnended
<1>8. EndFits'
  BY <1>0 DEF EndFits
<1>9. RowsFollowReducer'
  BY <1>0 DEF TypeOK, RowsFollowReducer
<1>10. EveryEndIsTold'
  BY <1>0 DEF EveryEndIsTold, Executing
<1>11. Moves
  BY <1>0 DEF Moves, statusBar, Lifecycle!Arrow, Lifecycle!Working, LiveIsUnended
<1>12. StopHolds
  BY <1>0 DEF StopHolds
<1> QED BY <1>1, <1>2, <1>3, <1>4, <1>5, <1>6, <1>7, <1>8, <1>9, <1>10, <1>11, <1>12
        DEF Kept, Faithful

\* The reducer ends the turn.
LEMMA EndTurnKeeps ==
  ASSUME IInv, Faithful, NEW r \in Runs, NEW to \in Terminal, NEW asks \in {"cancelled", "expired"},
         EndTurn(r, to, asks), stop[r] => to # "succeeded"
  PROVE  Kept
<1>0. /\ TypeOK /\ Stored /\ HeldByTheLinkInHand /\ OneHeld /\ QueuedIsEarly
      /\ RowsGoWithSession /\ SweepsItsOwn /\ TurnFits /\ Driven
      /\ IdleHasNoHome /\ OrderIsStrict /\ SweepGoesOn /\ LostIsDeleted /\ PickedIsEarly
      /\ AsksFit /\ LiveIsUnended /\ EndFits /\ RowsFollowReducer /\ EveryEndIsTold
  BY DEF IInv, Coherent, Faithful
<1> USE DEF EndTurn, FinishOpenWork, MoveTo, WriteRow, hubVars
<1>1. IdleHasNoHome'
  BY <1>0 DEF IdleHasNoHome
<1>2. OrderIsStrict'
  BY <1>0 DEF OrderIsStrict
<1>3. SweepGoesOn'
  BY <1>0 DEF SweepGoesOn
<1>4. LostIsDeleted'
  BY <1>0 DEF LostIsDeleted
<1>5. PickedIsEarly'
  BY <1>0 DEF PickedIsEarly
<1>6. AsksFit'
  BY <1>0 DEF AsksFit
<1>7. LiveIsUnended'
  BY <1>0 DEF TypeOK, LiveIsUnended
<1>8. EndFits'
  BY <1>0 DEF TypeOK, EndFits
<1>9. RowsFollowReducer'
  BY <1>0 DEF TypeOK, RowsFollowReducer
<1>10. EveryEndIsTold'
  BY <1>0 DEF EveryEndIsTold, Executing
<1>11. Moves
  BY <1>0 DEF Moves, statusBar, Lifecycle!Arrow, Lifecycle!Working, Lifecycle!Ended,
     LiveIsUnended
<1>12. StopHolds
  BY <1>0 DEF StopHolds
<1> QED BY <1>1, <1>2, <1>3, <1>4, <1>5, <1>6, <1>7, <1>8, <1>9, <1>10, <1>11, <1>12
        DEF Kept, Faithful

\* A request is made or closed while the events are read, and the turn goes on.
LEMMA TurnGoesOn ==
  ASSUME IInv, Faithful, NEW r \in Runs, NEW a \in Asks, NEW to \in AskStatus,
         NEW status \in Waiting \cup {"streaming"}, pc[r] = "live",
         memAsk' = [memAsk EXCEPT ![r][a] = to], ask' = [ask EXCEPT ![r][a] = to],
         MoveTo(r, status) \/ UNCHANGED <<mem, row>>,
         UNCHANGED <<session, home, ahead, pc, stop, sweep, ended, restarts>>
  PROVE  Kept
<1>0. /\ TypeOK /\ Stored /\ HeldByTheLinkInHand /\ OneHeld /\ QueuedIsEarly
      /\ RowsGoWithSession /\ SweepsItsOwn /\ TurnFits /\ Driven
      /\ IdleHasNoHome /\ OrderIsStrict /\ SweepGoesOn /\ LostIsDeleted /\ PickedIsEarly
      /\ AsksFit /\ LiveIsUnended /\ EndFits /\ RowsFollowReducer /\ EveryEndIsTold
  BY DEF IInv, Coherent, Faithful
<1> USE DEF MoveTo, WriteRow
<1>1. IdleHasNoHome'
  BY <1>0 DEF IdleHasNoHome
<1>2. OrderIsStrict'
  BY <1>0 DEF OrderIsStrict
<1>3. SweepGoesOn'
  BY <1>0 DEF SweepGoesOn
<1>4. LostIsDeleted'
  BY <1>0 DEF TypeOK, LostIsDeleted
<1>5. PickedIsEarly'
  BY <1>0 DEF TypeOK, PickedIsEarly
<1>6. AsksFit'
  BY <1>0 DEF AsksFit
<1>7. LiveIsUnended'
  BY <1>0 DEF TypeOK, LiveIsUnended
<1>8. EndFits'
  <2>1. \A q \in Runs \ {r} : row'[q] = row[q] /\ mem'[q] = mem[q]
    BY <1>0 DEF TypeOK
  <2> QED BY <1>0, <2>1 DEF EndFits
<1>9. RowsFollowReducer'
  <2>1. \A q \in Runs \ {r} : /\ row'[q] = row[q] /\ mem'[q] = mem[q]
                              /\ ask'[q] = ask[q] /\ memAsk'[q] = memAsk[q]
    BY <1>0 DEF TypeOK
  <2>2. row[r] # "deleted" => row'[r] = mem'[r] /\ ask'[r] = memAsk'[r]
    <3>1. ask'[r] = [ask[r] EXCEPT ![a] = to] /\ memAsk'[r] = [memAsk[r] EXCEPT ![a] = to]
      BY <1>0 DEF TypeOK
    <3>2. row[r] # "deleted" => row[r] = mem[r] /\ ask[r] = memAsk[r]
      BY <1>0 DEF RowsFollowReducer
    <3>3. row[r] # "deleted" => row'[r] = mem'[r]
      BY <1>0, <3>2 DEF TypeOK
    <3> QED BY <3>1, <3>2, <3>3
  <2>3. row[r] = "deleted" => row'[r] = "deleted"
    BY <1>0 DEF TypeOK
  <2> QED BY <1>0, <2>1, <2>2, <2>3 DEF RowsFollowReducer
<1>10. EveryEndIsTold'
  BY <1>0 DEF TypeOK, EveryEndIsTold, Executing
<1>11. Moves
  BY <1>0 DEF TypeOK, Moves, statusBar, Lifecycle!Arrow, Lifecycle!Working, LiveIsUnended
<1>12. StopHolds
  BY <1>0 DEF TypeOK, StopHolds
<1> QED BY <1>1, <1>2, <1>3, <1>4, <1>5, <1>6, <1>7, <1>8, <1>9, <1>10, <1>11, <1>12
        DEF Kept, Faithful

\* respondApproval of a request whose run is over.
LEMMA LateAnswerKeeps ==
  ASSUME IInv, Faithful, NEW r \in Runs, NEW a \in Asks, ask[r][a] = "pending", ~ IsActive(r),
         ask' = [ask EXCEPT ![r][a] = "answered"],
         UNCHANGED <<session, home, row, ahead, pc, mem, stop, memAsk, sweep, ended, restarts>>
  PROVE  Kept
<1>0. /\ TypeOK /\ Stored /\ HeldByTheLinkInHand /\ OneHeld /\ QueuedIsEarly
      /\ RowsGoWithSession /\ SweepsItsOwn /\ TurnFits /\ Driven
      /\ IdleHasNoHome /\ OrderIsStrict /\ SweepGoesOn /\ LostIsDeleted /\ PickedIsEarly
      /\ AsksFit /\ LiveIsUnended /\ EndFits /\ RowsFollowReducer /\ EveryEndIsTold
  BY DEF IInv, Coherent, Faithful
<1> USE DEF IsActive
<1>1. IdleHasNoHome'
  BY <1>0 DEF IdleHasNoHome
<1>2. OrderIsStrict'
  BY <1>0 DEF OrderIsStrict
<1>3. SweepGoesOn'
  BY <1>0 DEF SweepGoesOn
<1>4. LostIsDeleted'
  BY <1>0 DEF LostIsDeleted
<1>5. PickedIsEarly'
  BY <1>0 DEF PickedIsEarly
<1>6. AsksFit'
  BY <1>0 DEF AsksFit, TurnFits
<1>7. LiveIsUnended'
  BY <1>0 DEF LiveIsUnended
<1>8. EndFits'
  BY <1>0 DEF EndFits
<1>9. RowsFollowReducer'
  BY <1>0 DEF RowsFollowReducer
<1>10. EveryEndIsTold'
  BY <1>0 DEF EveryEndIsTold, Executing
<1>11. Moves
  BY <1>0 DEF Moves, statusBar
<1>12. StopHolds
  BY <1>0 DEF StopHolds
<1> QED BY <1>1, <1>2, <1>3, <1>4, <1>5, <1>6, <1>7, <1>8, <1>9, <1>10, <1>11, <1>12
        DEF Kept, Faithful

\* cancelRun of a row that says queued.
LEMMA CancelQueuedKeeps ==
  ASSUME IInv, Faithful, NEW r \in Runs, CancelQueued(r)
  PROVE  Kept
<1>0. /\ TypeOK /\ Stored /\ HeldByTheLinkInHand /\ OneHeld /\ QueuedIsEarly
      /\ RowsGoWithSession /\ SweepsItsOwn /\ TurnFits /\ Driven
      /\ IdleHasNoHome /\ OrderIsStrict /\ SweepGoesOn /\ LostIsDeleted /\ PickedIsEarly
      /\ AsksFit /\ LiveIsUnended /\ EndFits /\ RowsFollowReducer /\ EveryEndIsTold
  BY DEF IInv, Coherent, Faithful
<1> USE DEF CancelQueued, memVars, hubVars
<1>1. IdleHasNoHome'
  BY <1>0 DEF IdleHasNoHome
<1>2. OrderIsStrict'
  BY <1>0 DEF OrderIsStrict
<1>3. SweepGoesOn'
  BY <1>0 DEF SweepGoesOn
<1>4. LostIsDeleted'
  BY <1>0 DEF LostIsDeleted
<1>5. PickedIsEarly'
  BY <1>0 DEF PickedIsEarly
<1>6. AsksFit'
  BY <1>0 DEF AsksFit
<1>7. LiveIsUnended'
  BY <1>0 DEF LiveIsUnended
<1>8. EndFits'
  BY <1>0 DEF EndFits, TurnFits
<1>9. RowsFollowReducer'
  BY <1>0 DEF RowsFollowReducer, QueuedIsEarly
<1>10. EveryEndIsTold'
  BY <1>0 DEF TypeOK, EveryEndIsTold, Executing
<1>11. Moves
  BY <1>0 DEF Moves, statusBar, Lifecycle!Arrow
<1>12. StopHolds
  BY <1>0 DEF StopHolds
<1> QED BY <1>1, <1>2, <1>3, <1>4, <1>5, <1>6, <1>7, <1>8, <1>9, <1>10, <1>11, <1>12
        DEF Kept, Faithful

\* cancelRun of any other live row.
LEMMA CancelActiveKeeps ==
  ASSUME IInv, Faithful, NEW r \in Runs, CancelActive(r)
  PROVE  Kept
<1>0. /\ TypeOK /\ Stored /\ HeldByTheLinkInHand /\ OneHeld /\ QueuedIsEarly
      /\ RowsGoWithSession /\ SweepsItsOwn /\ TurnFits /\ Driven
      /\ IdleHasNoHome /\ OrderIsStrict /\ SweepGoesOn /\ LostIsDeleted /\ PickedIsEarly
      /\ AsksFit /\ LiveIsUnended /\ EndFits /\ RowsFollowReducer /\ EveryEndIsTold
  BY DEF IInv, Coherent, Faithful
<1> USE DEF CancelActive, IsActive, dbVars, hubVars
<1>1. IdleHasNoHome'
  BY <1>0 DEF IdleHasNoHome
<1>2. OrderIsStrict'
  BY <1>0 DEF OrderIsStrict
<1>3. SweepGoesOn'
  BY <1>0 DEF SweepGoesOn
<1>4. LostIsDeleted'
  BY <1>0 DEF LostIsDeleted
<1>5. PickedIsEarly'
  BY <1>0 DEF PickedIsEarly
<1>6. AsksFit'
  BY <1>0 DEF AsksFit
<1>7. LiveIsUnended'
  BY <1>0 DEF LiveIsUnended
<1>8. EndFits'
  BY <1>0 DEF EndFits
<1>9. RowsFollowReducer'
  BY <1>0 DEF RowsFollowReducer
<1>10. EveryEndIsTold'
  BY <1>0 DEF EveryEndIsTold, Executing
<1>11. Moves
  BY <1>0 DEF Moves, statusBar
<1>12. StopHolds
  BY <1>0 DEF StopHolds
<1> QED BY <1>1, <1>2, <1>3, <1>4, <1>5, <1>6, <1>7, <1>8, <1>9, <1>10, <1>11, <1>12
        DEF Kept, Faithful

\* A drain link picks a run or is over.
LEMMA DrainKeeps ==
  ASSUME IInv, Faithful, NEW s \in Sessions, Drain(s)
  PROVE  Kept
<1>0. /\ TypeOK /\ Stored /\ HeldByTheLinkInHand /\ OneHeld /\ QueuedIsEarly
      /\ RowsGoWithSession /\ SweepsItsOwn /\ TurnFits /\ Driven
      /\ IdleHasNoHome /\ OrderIsStrict /\ SweepGoesOn /\ LostIsDeleted /\ PickedIsEarly
      /\ AsksFit /\ LiveIsUnended /\ EndFits /\ RowsFollowReducer /\ EveryEndIsTold
  BY DEF IInv, Coherent, Faithful
<1> USE DEF Drain, NextQueuedRun, Queued, dbVars, hubVars
<1>1. IdleHasNoHome'
  BY <1>0 DEF TypeOK, IdleHasNoHome
<1>2. OrderIsStrict'
  BY <1>0 DEF OrderIsStrict
<1>3. SweepGoesOn'
  BY <1>0 DEF SweepGoesOn
<1>4. LostIsDeleted'
  BY <1>0 DEF TypeOK, LostIsDeleted
<1>5. PickedIsEarly'
  BY <1>0 DEF TypeOK, PickedIsEarly
<1>6. AsksFit'
  <2>1. UNCHANGED <<ask, memAsk>>
    OBVIOUS
  <2>2. CASE UNCHANGED pc
    BY <1>0, <2>1, <2>2 DEF AsksFit
  <2>3. CASE \E r \in Queued(s) : pc' = [pc EXCEPT ![r] = "finding"]
    BY <1>0, <2>1, <2>3 DEF TypeOK, AsksFit, QueuedIsEarly
  <2> QED BY <2>2, <2>3
<1>7. LiveIsUnended'
  BY <1>0 DEF TypeOK, LiveIsUnended
<1>8. EndFits'
  BY <1>0 DEF TypeOK, EndFits
<1>9. RowsFollowReducer'
  BY <1>0 DEF TypeOK, RowsFollowReducer
<1>10. EveryEndIsTold'
  BY <1>0 DEF TypeOK, EveryEndIsTold, Stored, Executing
<1>11. Moves
  BY <1>0 DEF TypeOK, Moves, statusBar, QueuedIsEarly
<1>12. StopHolds
  BY <1>0 DEF StopHolds
<1> QED BY <1>1, <1>2, <1>3, <1>4, <1>5, <1>6, <1>7, <1>8, <1>9, <1>10, <1>11, <1>12
        DEF Kept, Faithful

\* compress chains its link.
LEMMA CompressKeeps ==
  ASSUME IInv, Faithful, NEW s \in Sessions, Compress(s)
  PROVE  Kept
<1>0. /\ TypeOK /\ Stored /\ HeldByTheLinkInHand /\ OneHeld /\ QueuedIsEarly
      /\ RowsGoWithSession /\ SweepsItsOwn /\ TurnFits /\ Driven
      /\ IdleHasNoHome /\ OrderIsStrict /\ SweepGoesOn /\ LostIsDeleted /\ PickedIsEarly
      /\ AsksFit /\ LiveIsUnended /\ EndFits /\ RowsFollowReducer /\ EveryEndIsTold
  BY DEF IInv, Coherent, Faithful
<1> USE DEF Compress, dbVars, hubVars
<1>1. IdleHasNoHome'
  BY <1>0 DEF IdleHasNoHome
<1>2. OrderIsStrict'
  BY <1>0 DEF OrderIsStrict
<1>3. SweepGoesOn'
  BY <1>0 DEF SweepGoesOn
<1>4. LostIsDeleted'
  BY <1>0 DEF LostIsDeleted
<1>5. PickedIsEarly'
  BY <1>0 DEF PickedIsEarly
<1>6. AsksFit'
  BY <1>0 DEF AsksFit
<1>7. LiveIsUnended'
  BY <1>0 DEF LiveIsUnended
<1>8. EndFits'
  BY <1>0 DEF EndFits
<1>9. RowsFollowReducer'
  BY <1>0 DEF RowsFollowReducer
<1>10. EveryEndIsTold'
  BY <1>0 DEF EveryEndIsTold, Executing
<1>11. Moves
  BY <1>0 DEF Moves, statusBar
<1>12. StopHolds
  BY <1>0 DEF StopHolds
<1> QED BY <1>1, <1>2, <1>3, <1>4, <1>5, <1>6, <1>7, <1>8, <1>9, <1>10, <1>11, <1>12
        DEF Kept, Faithful

\* A compression is over.
LEMMA CompressedKeeps ==
  ASSUME IInv, Faithful, NEW s \in Sessions, Compressed(s)
  PROVE  Kept
<1>0. /\ TypeOK /\ Stored /\ HeldByTheLinkInHand /\ OneHeld /\ QueuedIsEarly
      /\ RowsGoWithSession /\ SweepsItsOwn /\ TurnFits /\ Driven
      /\ IdleHasNoHome /\ OrderIsStrict /\ SweepGoesOn /\ LostIsDeleted /\ PickedIsEarly
      /\ AsksFit /\ LiveIsUnended /\ EndFits /\ RowsFollowReducer /\ EveryEndIsTold
  BY DEF IInv, Coherent, Faithful
<1> USE DEF Compressed, dbVars, hubVars
<1>1. IdleHasNoHome'
  BY <1>0 DEF IdleHasNoHome
<1>2. OrderIsStrict'
  BY <1>0 DEF OrderIsStrict
<1>3. SweepGoesOn'
  BY <1>0 DEF SweepGoesOn
<1>4. LostIsDeleted'
  BY <1>0 DEF LostIsDeleted
<1>5. PickedIsEarly'
  BY <1>0 DEF PickedIsEarly
<1>6. AsksFit'
  BY <1>0 DEF AsksFit
<1>7. LiveIsUnended'
  BY <1>0 DEF LiveIsUnended
<1>8. EndFits'
  BY <1>0 DEF EndFits
<1>9. RowsFollowReducer'
  BY <1>0 DEF RowsFollowReducer
<1>10. EveryEndIsTold'
  BY <1>0 DEF EveryEndIsTold, Executing
<1>11. Moves
  BY <1>0 DEF Moves, statusBar
<1>12. StopHolds
  BY <1>0 DEF StopHolds
<1> QED BY <1>1, <1>2, <1>3, <1>4, <1>5, <1>6, <1>7, <1>8, <1>9, <1>10, <1>11, <1>12
        DEF Kept, Faithful

\* The hub is stopped and started again.
LEMMA RestartKeeps ==
  ASSUME IInv, Faithful, Restart
  PROVE  Kept
<1>0. /\ TypeOK /\ Stored /\ HeldByTheLinkInHand /\ OneHeld /\ QueuedIsEarly
      /\ RowsGoWithSession /\ SweepsItsOwn /\ TurnFits /\ Driven
      /\ IdleHasNoHome /\ OrderIsStrict /\ SweepGoesOn /\ LostIsDeleted /\ PickedIsEarly
      /\ AsksFit /\ LiveIsUnended /\ EndFits /\ RowsFollowReducer /\ EveryEndIsTold
  BY DEF IInv, Coherent, Faithful
<1> USE DEF Restart, NoSweep
<1>1. IdleHasNoHome'
  BY <1>0 DEF IdleHasNoHome
<1>2. OrderIsStrict'
  BY <1>0 DEF OrderIsStrict
<1>3. SweepGoesOn'
  BY <1>0 DEF SweepGoesOn
<1>4. LostIsDeleted'
  BY <1>0 DEF LostIsDeleted
<1>5. PickedIsEarly'
  BY <1>0 DEF PickedIsEarly
<1>6. AsksFit'
  BY <1>0 DEF AsksFit, NoAsks
<1>7. LiveIsUnended'
  BY <1>0 DEF LiveIsUnended
<1>8. EndFits'
  BY <1>0 DEF EndFits
<1>9. RowsFollowReducer'
  BY <1>0 DEF RowsFollowReducer
<1>10. EveryEndIsTold'
  BY <1>0 DEF TypeOK, EveryEndIsTold
<1>11. Moves
  BY <1>0 DEF TypeOK, Moves, statusBar, closingBar, Lifecycle!Arrow, Lifecycle!Working,
     Lifecycle!Ended, Stored, PickedIsEarly, LiveIsUnended, EndFits, Executing
<1>12. StopHolds
  BY <1>0 DEF StopHolds
<1> QED BY <1>1, <1>2, <1>3, <1>4, <1>5, <1>6, <1>7, <1>8, <1>9, <1>10, <1>11, <1>12
        DEF Kept, Faithful

\* An approval is asked for; a row that is gone refuses it, and the turn fails.
LEMMA RequestApprovalKeeps ==
  ASSUME IInv, Faithful, NEW r \in Runs, NEW a \in Asks, NEW waiting \in Waiting,
         RequestApproval(r, a, waiting)
  PROVE  Kept
<1>1. CASE row[r] = "deleted"
  BY <1>1, EndTurnKeeps DEF RequestApproval
<1>2. CASE row[r] # "deleted"
  BY <1>2, TurnGoesOn DEF RequestApproval, hubVars
<1> QED BY <1>1, <1>2

\* respondApproval.
LEMMA RespondKeeps ==
  ASSUME IInv, Faithful, NEW r \in Runs, NEW a \in Asks, Respond(r, a)
  PROVE  Kept
<1>1. CASE memAsk[r][a] = "pending" /\ ResolveInMemory(r, a, "answered")
  <2>1. pc[r] = "live"
    BY <1>1 DEF IInv, Coherent, TurnFits
  <2> QED BY <1>1, <2>1, TurnGoesOn DEF Respond, ResolveInMemory, hubVars
<1>2. CASE ~ IsActive(r)
  BY <1>2, LateAnswerKeeps DEF Respond, hubVars
<1> QED BY <1>1, <1>2 DEF Respond

\* What the hub holds and shows is the same.
LEMMA NothingMoves ==
  ASSUME IInv, Faithful,
         UNCHANGED <<session, home, row, ahead, ask, pc, mem, stop, memAsk, sweep, ended, restarts>>
  PROVE  Kept
<1>1. Faithful'
  BY DEF Faithful, IdleHasNoHome, OrderIsStrict, SweepGoesOn, LostIsDeleted, PickedIsEarly,
         AsksFit, LiveIsUnended, EndFits, RowsFollowReducer, EveryEndIsTold, Executing
<1>2. Moves /\ StopHolds
  BY DEF Moves, StopHolds, statusBar
<1> QED BY <1>1, <1>2 DEF Kept

\* The deadline of a request: it expires, or its write fails and the process ends.
LEMMA ExpireKeeps ==
  ASSUME IInv, Faithful, NEW r \in Runs, NEW a \in Asks, Expire(r, a)
  PROVE  Kept
<1>1. CASE ResolveInMemory(r, a, "expired")
  <2>1. pc[r] = "live"
    BY DEF Expire, IInv, Coherent, TurnFits
  <2> QED BY <1>1, <2>1, TurnGoesOn DEF Expire, ResolveInMemory, hubVars
<1>2. CASE UNCHANGED <<memAsk, ask, mem, row>>
  BY <1>2, NothingMoves DEF Expire
<1> QED BY <1>1, <1>2 DEF Expire

\* remove: rows of the session are cancelled up to the run waited for, or go with it.
LEMMA SweepOnKeeps ==
  ASSUME IInv, Faithful, NEW s \in Sessions, session[s] = "open",
         NEW cut \in SUBSET Runs, NEW left \in SUBSET Runs,
         \A r \in cut \cup left : home[r] = s /\ row[r] # "none",
         sweep[s].phase = "waiting" \/ \A r \in cut \cup left : row[r] \in Live,
         cut \cap left = {},
         \A r \in cut : r = sweep[s].run,
         SweepOn(s, cut, left),
         UNCHANGED <<home, ahead, job, pc, link, mem, memAsk, chain, done, starts, ended, restarts>>
  PROVE  Kept
<1>0. /\ TypeOK /\ Stored /\ HeldByTheLinkInHand /\ OneHeld /\ QueuedIsEarly
      /\ RowsGoWithSession /\ SweepsItsOwn /\ TurnFits /\ Driven
      /\ IdleHasNoHome /\ OrderIsStrict /\ SweepGoesOn /\ LostIsDeleted /\ PickedIsEarly
      /\ AsksFit /\ LiveIsUnended /\ EndFits /\ RowsFollowReducer /\ EveryEndIsTold
  BY DEF IInv, Coherent, Faithful
<1>1. \A r \in Runs : home[r] = s => row[r] # "deleted" /\ pc[r] # "lost"
  BY <1>0 DEF RowsGoWithSession, LostIsDeleted
<1>2. ASSUME NEW q \in left, IsActive(q), \A p \in left : Before(p, q) => ~ IsActive(p),
             stop' = [stop EXCEPT ![q] = TRUE],
             row' = [r \in Runs |-> IF r \in cut \/ (r \in left /\ Before(r, q))
                                    THEN "cancelled" ELSE row[r]],
             sweep' = [sweep EXCEPT ![s] = [phase |-> "waiting", run |-> q,
                                            left |-> {r \in left : Before(q, r)}]],
             session' = session, ask' = ask
      PROVE  Kept
  <2> DEFINE written(r) == r \in cut \/ (r \in left /\ Before(r, q))
  <2>1. q \in Runs /\ home[q] = s /\ pc[q] \in {"starting", "live"} /\ Executing(q)
    BY <1>1, <1>2 DEF IsActive, Executing
  <2>2. \A r \in Runs : written(r) => pc[r] \notin {"starting", "live"}
    <3>1. ASSUME NEW r \in Runs, r \in cut, pc[r] \in {"starting", "live"} PROVE FALSE
      <4>1. r = q
        BY <1>0, <2>1, <3>1 DEF OneHeld, Executing
      <4> QED BY <1>2, <3>1, <4>1
    <3>2. ASSUME NEW r \in left, Before(r, q), pc[r] \in {"starting", "live"} PROVE FALSE
      BY <1>2, <3>2 DEF IsActive
    <3> QED BY <3>1, <3>2
  <2>3. \A r \in Runs : \/ row'[r] = row[r] /\ ~ written(r)
                        \/ /\ row'[r] = "cancelled" /\ home[r] = s /\ row[r] # "none"
                           /\ written(r)
    BY <1>2
  <2>4. \A t \in Sessions : t # s => sweep'[t] = sweep[t]
    BY <1>0, <1>2 DEF TypeOK
  <2>5. sweep'[s].phase = "waiting" /\ sweep'[s].run = q /\ sweep'[s].left = {r \in left : Before(q, r)}
    BY <1>0, <1>2 DEF TypeOK
  <2>6. \A r \in Runs : stop'[r] # stop[r] => r = q
    BY <1>0, <1>2 DEF TypeOK
  <2>7. IdleHasNoHome' /\ OrderIsStrict' /\ AsksFit' /\ LiveIsUnended'
    BY <1>0, <1>2 DEF IdleHasNoHome, OrderIsStrict, AsksFit, LiveIsUnended
  <2>8. SweepGoesOn'
    BY <1>0, <2>1, <2>4, <2>5 DEF SweepGoesOn, OrderIsStrict, Before
  <2>9. LostIsDeleted' /\ PickedIsEarly'
    BY <1>0, <1>1, <2>3 DEF LostIsDeleted, PickedIsEarly
  <2>10. EndFits'
    BY <1>0, <2>1, <2>3, <2>4, <2>5, <2>6 DEF EndFits, Stored, Executing
  <2>11. RowsFollowReducer'
    BY <1>0, <1>2, <2>2, <2>3 DEF RowsFollowReducer
  <2>12. EveryEndIsTold'
    <3>1. UNCHANGED <<pc, home, ended, restarts>>
      OBVIOUS
    <3>2. \A r \in Runs : row[r] # "none" => home[r] \in Sessions
      BY <1>0 DEF Stored, TypeOK
    <3> HIDE DEF written
    <3> QED BY <1>0, <2>3, <2>4, <2>5, <3>1, <3>2 DEF EveryEndIsTold, Executing
  <2>13. Moves
    <3>1. UNCHANGED <<pc, mem, home>>
      OBVIOUS
    <3>2. \A r \in Runs : written(r) => row[r] \in Live \/ sweep[s].phase = "waiting"
      BY <1>2
    <3> HIDE DEF written
    <3> QED BY <1>0, <1>1, <2>1, <2>2, <2>3, <3>1, <3>2
        DEF Moves, statusBar, closingBar, Lifecycle!Arrow, Lifecycle!Working, Lifecycle!Ended,
            Driven, Executing, Stored, TypeOK
  <2>14. StopHolds
    BY <2>3 DEF StopHolds
  <2> QED BY <2>7, <2>8, <2>9, <2>10, <2>11, <2>12, <2>13, <2>14 DEF Kept, Faithful
<1>3. ASSUME session' = [session EXCEPT ![s] = "gone"],
             row' = [r \in Runs |->
                       IF home[r] = s /\ row[r] # "none" THEN "deleted" ELSE row[r]],
             ask' = [r \in Runs |-> IF home[r] = s THEN NoAsks ELSE ask[r]],
             sweep' = [sweep EXCEPT ![s] = NoSweep],
             UNCHANGED stop
      PROVE  Kept
  <2>1. \A r \in Runs : \/ row'[r] = row[r] /\ ask'[r] = ask[r] /\ home[r] # s
                        \/ row'[r] = "none" /\ row[r] = "none" /\ ask'[r] = NoAsks /\ home[r] = s
                        \/ row'[r] = "deleted" /\ row[r] # "none" /\ ask'[r] = NoAsks /\ home[r] = s
    BY <1>3
  <2>2. \A t \in Sessions : t # s => sweep'[t] = sweep[t]
    BY <1>0, <1>3 DEF TypeOK
  <2>3. sweep'[s].left = {}
    BY <1>0, <1>3 DEF TypeOK, NoSweep
  <2>4. IdleHasNoHome' /\ OrderIsStrict' /\ LiveIsUnended'
    BY <1>0, <1>3 DEF IdleHasNoHome, OrderIsStrict, LiveIsUnended
  <2>5. SweepGoesOn'
    BY <1>0, <2>2, <2>3 DEF SweepGoesOn
  <2>6. AsksFit'
    BY <1>0, <2>1 DEF AsksFit
  <2>7. LostIsDeleted' /\ PickedIsEarly'
    BY <1>0, <1>1, <2>1 DEF LostIsDeleted, PickedIsEarly
  <2>8. EndFits'
    BY <1>0, <1>3, <2>1, <2>2 DEF EndFits, Stored, Executing
  <2>9. RowsFollowReducer'
    BY <1>0, <1>3, <2>1 DEF RowsFollowReducer, Stored, Executing
  <2>10. EveryEndIsTold'
    <3>1. UNCHANGED <<pc, home, ended, restarts>>
      OBVIOUS
    <3>2. \A r \in Runs : row[r] # "none" => home[r] \in Sessions
      BY <1>0 DEF Stored, TypeOK
    <3> QED BY <1>0, <2>1, <2>2, <3>1, <3>2 DEF EveryEndIsTold, Executing
  <2>11. Moves
    BY <1>0, <1>1, <2>1
    DEF Moves, statusBar, closingBar, Lifecycle!Arrow, Lifecycle!Working, Lifecycle!Ended,
        Stored, Executing
  <2>12. StopHolds
    BY <2>1 DEF StopHolds
  <2> QED BY <2>4, <2>5, <2>6, <2>7, <2>8, <2>9, <2>10, <2>11, <2>12 DEF Kept, Faithful
<1> QED BY <1>2, <1>3 DEF SweepOn

\* remove, up to the first run of the session that the adapter has to stop.
LEMMA RemoveKeeps ==
  ASSUME IInv, Faithful, NEW s \in Sessions, Remove(s)
  PROVE  Kept
<1>1. \A r \in {} \cup LiveRuns(s) : r \in Runs /\ home[r] = s /\ row[r] # "none" /\ row[r] \in Live
  BY DEF LiveRuns
<1>2. SweepOn(s, {}, LiveRuns(s)) /\ session[s] = "open"
  BY DEF Remove
<1> QED BY <1>1, <1>2, SweepOnKeeps DEF Remove, hubVars

\* remove, once the adapter answered the interrupt.
LEMMA RemoveOnKeeps ==
  ASSUME IInv, Faithful, NEW s \in Sessions, RemoveOn(s)
  PROVE  Kept
<1>1. /\ session[s] = "open"
      /\ {sweep[s].run} \in SUBSET Runs
      /\ sweep[s].left \in SUBSET Runs
      /\ \A r \in {sweep[s].run} \cup sweep[s].left : home[r] = s /\ row[r] # "none"
  BY DEF IInv, Coherent, TypeOK, SweepsItsOwn, RemoveOn
<1>2. {sweep[s].run} \cap sweep[s].left = {}
  BY DEF Faithful, SweepGoesOn
<1> QED BY <1>1, <1>2, SweepOnKeeps DEF RemoveOn, hubVars

\* Every step keeps what the engine shows.
LEMMA KeptStep == IInv /\ Faithful /\ [Next]_vars => Kept
<1> SUFFICES ASSUME IInv, Faithful, [Next]_vars PROVE Kept
  OBVIOUS
<1>1. CASE Next
  <2>1. ASSUME Create PROVE Kept
    BY <2>1, CreateRunKeeps, InterruptThenCreateKeeps DEF Create
  <2>2. ASSUME NEW r \in Runs, Posted(r) \/ Execute(r) PROVE Kept
    BY <2>2, PostedKeeps, UnavailableKeeps, FoundKeeps, TrackedKeeps, RefusedKeeps,
       AcceptedKeeps, FinaliseKeeps DEF Execute
  <2>3. ASSUME NEW r \in Runs, TurnEnds(r) PROVE Kept
    BY <2>3, EndTurnKeeps
    DEF TurnEnds, Completed, Failed, StreamEnded, Abort, Timeout, Outcome
  <2>4. ASSUME NEW r \in Runs, Agent(r) PROVE Kept
    BY <2>3, <2>4, FrameKeeps, RequestApprovalKeeps DEF Agent
  <2>5. ASSUME NEW r \in Runs, Person(r) PROVE Kept
    BY <2>5, CancelQueuedKeeps, CancelActiveKeeps, RespondKeeps, ExpireKeeps DEF Person
  <2>6. ASSUME NEW s \in Sessions, Session(s) PROVE Kept
    BY <2>6, DrainKeeps, CompressKeeps, CompressedKeeps, RemoveKeeps, RemoveOnKeeps DEF Session
  <2> QED BY <1>1, <2>1, <2>2, <2>4, <2>5, <2>6, RestartKeeps DEF Next, Work
<1>2. CASE UNCHANGED vars
  BY <1>2, NothingMoves DEF vars, dbVars, memVars, hubVars
<1> QED BY <1>1, <1>2

\* Nothing was shown yet.
LEMMA FaithfulInit == Init => Faithful
BY NoneAssumption
DEF Init, NoAsks, NoSweep, Faithful, IdleHasNoHome, OrderIsStrict, SweepGoesOn, LostIsDeleted,
    PickedIsEarly, AsksFit, LiveIsUnended, EndFits, RowsFollowReducer, EveryEndIsTold, Executing

\* What the engine holds of a run and what it wrote of it agree, between any two awaits.
THEOREM FaithfulInvariance == Spec => [](IInv /\ Faithful)
<1>1. Init => IInv /\ Faithful
  BY IInvInit, FaithfulInit
<1>2. IInv /\ Faithful /\ [Next]_vars => (IInv /\ Faithful)'
  BY IInvStep, KeptStep DEF Kept
<1> QED BY <1>1, <1>2, PTL DEF Spec

\* apply (engine.ts) and the reducer: while a turn is read, its row and its approvals' rows
\* say what the reducer says, whatever people answer, cancel or delete meanwhile.
THEOREM RowsAreTheReducers == Spec => []RowsFollowReducer
BY FaithfulInvariance, PTL DEF Faithful

\* failBeforeStart, finalise (engine.ts) and cancelRun (service.ts): a run that is over was
\* said to be over.
THEOREM EndsAreTold == Spec => []EveryEndIsTold
BY FaithfulInvariance, PTL DEF Faithful

\* requestInterrupt (engine.ts) and the reducer's outcome: a turn asked to stop is never
\* written a success.
THEOREM StoppedIsNoSuccess == Spec => StoppedNeverSucceeds
<1>1. IInv /\ Faithful /\ [Next]_vars =>
        [\A r \in Runs : stop[r] /\ row'[r] = "succeeded" => row[r] = "succeeded"]_vars
  BY KeptStep DEF Kept, StopHolds
<1> QED BY <1>1, FaithfulInvariance, PTL DEF Spec, StoppedNeverSucceeds

\* A run works, as its lifecycle sees it, only while execute reads its events.
LEMMA WorkingIsLive ==
  ASSUME IInv, NEW r \in Runs, statusBar[r] \in Lifecycle!Working
  PROVE  Executing(r)
<1>0. TypeOK /\ Driven /\ TurnFits
  BY DEF IInv, Coherent
<1> QED BY <1>0 DEF statusBar, Lifecycle!Working, Driven, Executing, TypeOK

\* One turn of a session works at a time.
LEMMA SerialHolds == IInv => Lifecycle!Serial
<1> SUFFICES ASSUME IInv, NEW q \in Runs, NEW r \in Runs,
                    statusBar[q] \in Lifecycle!Working, statusBar[r] \in Lifecycle!Working,
                    home[q] = home[r]
             PROVE  q = r
  BY DEF Lifecycle!Serial
<1>1. Executing(q) /\ Executing(r)
  BY WorkingIsLive
<1> QED BY <1>1 DEF IInv, Coherent, OneHeld

\* The engine implements RunLifecycle: seen through statusBar and closingBar, its runs move
\* along the arrows of docs/domain/README.md, one turn at a time in each session.
THEOREM EngineKeepsLifecycle == Spec => KeepsLifecycle
<1>1. Init => Lifecycle!Init
  BY DEF Init, Lifecycle!Init, statusBar, closingBar, NoSweep
<1>2. IInv /\ Faithful /\ [Next]_vars => [Lifecycle!Next]_(Lifecycle!lifecycleVars)
  <2> SUFFICES ASSUME IInv, Faithful, [Next]_vars PROVE Lifecycle!Next
    OBVIOUS
  <2>1. Moves /\ IInv'
    BY KeptStep, IInvStep DEF Kept
  <2>2. Lifecycle!Serial'
    BY <2>1, SerialHolds, PTL
  <2>3. closingBar' \subseteq Sessions
    BY DEF closingBar
  <2> QED BY <2>1, <2>2, <2>3 DEF Lifecycle!Next, Moves
<1> QED BY <1>1, <1>2, FaithfulInvariance, PTL DEF Spec, KeepsLifecycle, Lifecycle!Spec
=============================================================================
