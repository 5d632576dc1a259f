---------------------------- MODULE RunEngineInv -----------------------------
(***************************************************************************)
(* The inductive invariant of the run engine: what every await of engine.ts *)
(* and service.ts may count on when it is resumed.  Each part is named and *)
(* says one thing; RunEngineProofs shows that every step keeps them all.   *)
(***************************************************************************)
EXTENDS RunEngine

\* What createRun has not stored yet has no row, and what it was given has a session.
Stored ==
  \A r \in Runs :
    /\ pc[r] \in {"idle", "posting"} => row[r] = "none"
    /\ pc[r] # "idle" => home[r] \in Sessions
    /\ Executing(r) => row[r] # "none"

\* Only links that were chained are over.
DoneWereChained == \A s \in Sessions : done[s] <= Len(chain[s])

\* A run that execute holds is held by the link in hand, and that link is a drain.
HeldByTheLinkInHand ==
  \A r \in Runs :
    Executing(r) =>
      /\ link[r] = done[home[r]] + 1
      /\ link[r] <= Len(chain[home[r]])
      /\ chain[home[r]][link[r]] = "drain"

\* A link holds one run at a time.
OneHeld ==
  \A q, r \in Runs : Executing(q) /\ Executing(r) /\ home[q] = home[r] => q = r

\* The adapter is not started before the folder is recorded, and not twice.
NotStartedBefore ==
  \A r \in Runs :
    /\ starts[r] <= 1
    /\ pc[r] \in {"idle", "posting", "chained", "finding", "tracking"} => starts[r] = 0

\* A row says queued only until the adapter accepts the run.
QueuedIsEarly ==
  \A r \in Runs : row[r] = "queued" => pc[r] \in {"chained", "finding", "tracking", "starting"}

\* The rows of a session go with it, and only with it.
RowsGoWithSession ==
  \A r \in Runs :
    /\ home[r] \in Sessions /\ session[home[r]] = "gone" => row[r] \in {"none", "deleted"}
    /\ row[r] = "deleted" => home[r] \in Sessions /\ session[home[r]] = "gone"

\* A deletion that waits for the adapter has still its session, and cancels runs of it.
SweepsItsOwn ==
  \A s \in Sessions :
    sweep[s].phase = "waiting" =>
      /\ session[s] = "open"
      /\ sweep[s].run \in Runs
      /\ \A r \in sweep[s].left \cup {sweep[s].run} : home[r] = s /\ row[r] # "none"

\* What the process holds of a turn fits where the turn stands.
TurnFits ==
  \A r \in Runs :
    /\ pc[r] = "finalising" => mem[r] \in Terminal
    /\ \A a \in Asks : memAsk[r][a] = "pending" => pc[r] = "live"

\* EveryLiveRunIsDriven, whether the process runs or is about to be started again.
Driven ==
  \A r \in Runs :
    row[r] \in Live => Executing(r) \/ (row[r] = "queued" /\ Served(home[r]))

\* Everything but the types.
Coherent ==
  /\ Stored
  /\ DoneWereChained
  /\ HeldByTheLinkInHand
  /\ OneHeld
  /\ NotStartedBefore
  /\ QueuedIsEarly
  /\ RowsGoWithSession
  /\ SweepsItsOwn
  /\ TurnFits
  /\ Driven

\* What is true between any two awaits.
IInv == TypeOK /\ Coherent

-----------------------------------------------------------------------------
(* What makes the engine faithful to what it shows: the rows to the reducer, *)
(* the ends to the events, and its runs to their lifecycle.  Inductive       *)
(* beside IInv.                                                              *)

\* A run that nobody asked for yet has no session.
IdleHasNoHome == \A r \in Runs : pc[r] = "idle" => home[r] = None

\* No run is queued before itself.
OrderIsStrict == \A r \in Runs : r \notin ahead[r]

\* A deletion does not meet again the run it waits for.
SweepGoesOn == \A s \in Sessions : sweep[s].run \notin sweep[s].left

\* A run is abandoned only when its row went under it.
LostIsDeleted == \A r \in Runs : pc[r] = "lost" => row[r] = "deleted"

\* Until the adapter accepts a run that execute picked, its row was only cancelled or deleted.
PickedIsEarly ==
  \A r \in Runs :
    pc[r] \in {"finding", "tracking", "starting"} => row[r] \in {"queued", "cancelled", "deleted"}

\* Nothing is asked before the events are read, and the reducer knows only of its own turn.
AsksFit ==
  \A r \in Runs :
    /\ pc[r] \in {"idle", "posting", "chained", "finding", "tracking", "starting"} => ask[r] = NoAsks
    /\ pc[r] \notin {"live", "finalising"} => memAsk[r] = NoAsks

\* While the events are read the reducer has not ended the run.
LiveIsUnended == \A r \in Runs : pc[r] = "live" => mem[r] \in Live \ {"queued"}

\* The row of a turn that ended says so already, unless a deletion wrote over it; a turn that
\* was asked to stop did not succeed.
EndFits ==
  \A r \in Runs :
    pc[r] = "finalising" =>
      /\ \/ row[r] \in {mem[r], "deleted"}
         \/ row[r] = "cancelled" /\ sweep[home[r]].phase = "waiting"
      /\ stop[r] => mem[r] # "succeeded"

Faithful ==
  /\ IdleHasNoHome
  /\ OrderIsStrict
  /\ SweepGoesOn
  /\ LostIsDeleted
  /\ PickedIsEarly
  /\ AsksFit
  /\ LiveIsUnended
  /\ EndFits
  /\ RowsFollowReducer
  /\ EveryEndIsTold
=============================================================================
