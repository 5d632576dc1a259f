----------------------------- MODULE TaskBoard -----------------------------
(***************************************************************************)
(* What a board promises of its tasks and the runs that work on them       *)
(* (tasks/runs.ts, index.ts), whatever people do to the tasks and however  *)
(* late a start is answered: a task comes to work on a run of its own that *)
(* nobody stopped; a run is told to stop as its task leaves it; a task is  *)
(* taken off its run for a cause; and the ending of a run that is followed *)
(* moves the task that still works on it, where the ending says.           *)
(***************************************************************************)
CONSTANTS None, Tasks, Runs

VARIABLES
  column,     \* per task: its column, or gone
  on,         \* per task: the run that the board shows working on it
  of,         \* per run: its task
  life,       \* per run: none, asked, live, or how it ended
  told,       \* the runs that were told to stop
  followed    \* the runs whose ending is awaited

boardVars == <<column, on, of, life, told, followed>>

Over == {"succeeded", "failed", "cancelled"}

Where(end) == CASE end = "succeeded" -> "review"
                [] end = "cancelled" -> "ready"
                [] end = "failed"    -> "blocked"

Life(r, from, to) == life[r] = from /\ life'[r] = to
Leaves(t, r)      == on[t] = r /\ on'[t] = None
Same(r)           == /\ of'[r] = of[r] /\ life'[r] = life[r]
                     /\ r \in told <=> r \in told'
                     /\ r \in followed <=> r \in followed'

-----------------------------------------------------------------------------
\* A start is answered, or the task is put back on the run it had, which nobody stopped.
Comes(t) ==
  \E r \in Runs :
    /\ on'[t] = r /\ of[r] = t /\ r \notin told' /\ column'[t] = "running"
    /\ \/ Life(r, "asked", "live")
       \/ column[t] # "running" /\ life[r] \in {"live"} \cup Over

\* A person took the task off, put it away with its run going on, or the run is over; or a
\* start of the hub's own was refused, which blocks the task.
Goes(t) ==
  \E r \in Runs :
    /\ Leaves(t, r)
    /\ \/ r \in told' \/ life[r] \in Over
       \/ column'[t] \in {"archived", "done", "gone"}
       \/ life'[r] \in Over /\ column'[t] = Where(life'[r])
       \/ column'[t] = "blocked" /\ \E s \in Runs : of[s] = t /\ Life(s, "asked", "none")

Moves(t) ==
  /\ column[t] = "gone" => column'[t] = "gone"
  /\ \/ on'[t] = on[t] /\ (on[t] # None => column'[t] = column[t])
     \/ Comes(t)
     \/ Goes(t)

-----------------------------------------------------------------------------
\* A start is asked for, and refused, or answered: the run is followed if its task is there.
Begins(r) ==
  /\ r \notin told'
  /\ \/ Life(r, "none", "asked") /\ of'[r] \in Tasks /\ r \notin followed'
     \/ Life(r, "asked", "none") /\ r \notin followed'
     \/ Life(r, "asked", "live") /\ of'[r] = of[r] /\ (r \in followed' <=> on'[of[r]] = r)

\* The ending is dealt with: the task that works on the run is moved.
Settles(r) == on[of[r]] = r => Leaves(of[r], r) /\ column'[of[r]] = Where(life'[r])

\* It goes on, is told to stop as its task leaves it, ends, and is given up once it is over.
Lives(r) ==
  /\ of'[r] = of[r] /\ life[r] \in {"live"} \cup Over
  /\ \/ life'[r] = life[r]
     \/ life[r] = "live" /\ life'[r] \in Over /\ (r \in told => life'[r] # "succeeded")
  /\ \/ r \in told <=> r \in told'
     \/ r \in told' /\ life'[r] = "live" /\ Leaves(of[r], r)
  /\ \/ r \in followed <=> r \in followed'
     \/ r \notin followed' /\ life'[r] \in Over /\ Settles(r)

Init ==
  /\ column   = [t \in Tasks |-> "ready"]
  /\ on       = [t \in Tasks |-> None]
  /\ of       = [r \in Runs |-> None]
  /\ life     = [r \in Runs |-> "none"]
  /\ told     = {}
  /\ followed = {}

Next ==
  /\ \A t \in Tasks : Moves(t)
  /\ \A r \in Runs  : Same(r) \/ Begins(r) \/ Lives(r)

Spec == Init /\ [][Next]_boardVars
=============================================================================
