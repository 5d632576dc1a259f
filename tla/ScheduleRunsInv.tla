--------------------------- MODULE ScheduleRunsInv ---------------------------
(***************************************************************************)
(* The inductive invariant of ScheduleRuns: what has to be known of every  *)
(* reachable state for its safety properties to be kept by every step.     *)
(***************************************************************************)
EXTENDS ScheduleRuns

Stopping == look.phase \in {"stopping", "draining"}

\* The process of a hub that is down holds nothing.
DownHoldsNothing ==
  ~ up => look.phase = "idle" /\ \A l \in Lines : pc[l] \in {"none", "over"}

\* A line that is not written was not fired; one held back was not either.
FreshIsUntouched ==
  \A l \in Lines : line[l].status = "none" => pc[l] = "none" /\ turn[l] = "none"

HeldIsNotFired == \A l \in Held(line) : pc[l] = "none" /\ turn[l] = "none"

\* A look that read the row read a time.
ReadHasTick == look.phase = "read" => look.tick \in Nat

\* The line for whose sake others are stopped is open, and nobody's but the look's.
ClaimIsOpen ==
  Stopping => /\ look.line \in Open(line)
              /\ line[look.line].status = "queued"
              /\ look.line \notin look.todo
              /\ pc[look.line] = "none"
              /\ turn[look.line] = "none"

\* A firing that awaits its session has no run yet, one that follows a run has, and so has
\* a line with a run id.
FiringFits ==
  \A l \in Lines : /\ pc[l] = "starting" => turn[l] = "none"
                   /\ pc[l] = "starting" => line[l].status # "running"
                   /\ up /\ turn[l] = "going" => pc[l] = "following"
                   /\ line[l].linked => turn[l] # "none"

\* With `skip` and `wait` no line is ever stopped, what works is open, and one line of the
\* schedule's own is open at a time.
ApartInv ==
  Overlaps \subseteq {"skip", "wait"} =>
    /\ overlap \in Overlaps
    /\ look.phase = "read" => look.overlap \in Overlaps
    /\ ~ Stopping
    /\ up => \A l \in Lines : AtWork(l) => l \in Open(line)
    /\ up => \A k, l \in Open(line) :
               line[k].trigger = "schedule" /\ line[l].trigger = "schedule" => k = l

IInv ==
  /\ TypeOK
  /\ DownHoldsNothing
  /\ FreshIsUntouched
  /\ HeldIsNotFired
  /\ HeldForAnother
  /\ ReadHasTick
  /\ ClaimIsOpen
  /\ FiringFits
  /\ OpenLineIsFollowed
  /\ LimitEndsSchedule
  /\ ApartInv

-----------------------------------------------------------------------------
(* What the history knows besides: its lines, and the times behind them.     *)

Winners(ls) == {l \in Lines : ls[l].status = "succeeded"}

\* Lines are written in the order of their numbers, and one held back has not started.
LinesInOrder ==
  \A l \in Lines :
    /\ \A k \in Lines : k < l /\ line[l].status # "none" => line[k].status # "none"
    /\ line[l].status = "none" => line[l].tick = None
    /\ line[l].waiting => line[l].status # "running"

\* The schedule's own times are past, and before the next one, whatever was edited meanwhile.
OwnTimes ==
  \A l \in Lines : line[l].status # "none" /\ line[l].trigger = "schedule" =>
    /\ line[l].tick \in Nat /\ line[l].tick <= clock
    /\ next # None => line[l].tick < next

\* A look that read the row did so in the past, and read a time that had come.
LookTimes == look.phase = "read" => look.tick <= look.now /\ look.now <= clock

\* The runs a look has still to stop were open when it read them.
StopsTheOpen ==
  Stopping => \A k \in look.todo : line[k].status # "none" /\ ~ line[k].waiting

\* repeat_count is the number of lines that succeeded.
CountIsWinners == count = Cardinality(Winners(line))

HistoryInv == LinesInOrder /\ OwnTimes /\ LookTimes /\ StopsTheOpen /\ CountIsWinners
=============================================================================
