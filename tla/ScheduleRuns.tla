---------------------------- MODULE ScheduleRuns ----------------------------
(***************************************************************************)
(* One of the hub's own schedules (packages/server/src/modules/schedules): *)
(* the scheduler that claims its times (scheduler.ts), the runs it starts, *)
(* follows, holds back and replaces (schedule-runs.ts), and the history    *)
(* both of them write (service.ts).                                        *)
(*                                                                         *)
(* The scheduler takes a look every few seconds: it reads the schedules    *)
(* that are due, then works them off one by one, so the row it claims with *)
(* may be stale (Look, Claim).  A claimed time is a line of the history;   *)
(* it is skipped, held back (`waiting`) or fired, and firing awaits the    *)
(* session that it starts.  `overlap: replace` first stops the runs still  *)
(* going, with an await for each of them.  Meanwhile runs end, a person    *)
(* runs the schedule now or edits it, and the hub may stop and start.      *)
(*                                                                         *)
(* One action is one stretch of code between two awaits.  The unit of time *)
(* is the schedule's period: it is due at every value of the clock.        *)
(***************************************************************************)
EXTENDS Integers, FiniteSets

CONSTANTS
  None,           \* no time, and no repeat limit
  Overlaps,       \* the values of `overlap` a person sets
  CatchUps,       \* and those of "run if missed"
  RepeatLimit,    \* schedules.repeat_limit
  LateGrace,      \* LATE_GRACE_MS: a time this late is on time
  MissedGrace,    \* MISSED_GRACE_MS: with "run if missed" a time this late still runs
  MaxLines,       \* bound: lines of the history
  MaxPresses,     \* bound: times a person presses "Run now"
  MaxClock,       \* bound: the clock stops here
  MaxRestarts     \* bound: times the hub is stopped

AllOverlaps == {"skip", "wait", "parallel", "replace"}

ASSUME OptionsAssumption == Overlaps \subseteq AllOverlaps /\ CatchUps \subseteq BOOLEAN
ASSUME LimitAssumption  == RepeatLimit = None \/ RepeatLimit \in Nat \ {0}
ASSUME NoneAssumption   == None \notin Int
ASSUME GraceAssumption  == LateGrace \in Nat /\ MissedGrace \in Nat
ASSUME BoundsAssumption == {MaxLines, MaxPresses, MaxClock, MaxRestarts} \subseteq Nat

VARIABLES
  (* the schedule's row *)
  enabled, overlap,
  catchUp,        \* "run if missed": misfire_policy = run_once
  next,           \* next_run_at
  count,          \* repeat_count
  (* the history, and what the sessions module says of the runs *)
  line,           \* per line, in the order of creation: its row
  turn,           \* per line: the session run fired for it
  (* the process *)
  look,           \* the scheduler's look in progress
  pc,             \* per line: where its firing stands
  up,
  (* the world *)
  asked,          \* per line: its run was asked to stop
  clock, restarts

rowVars == <<enabled, overlap, catchUp>>
vars    == <<rowVars, next, count, line, turn, look, pc, up, asked, clock, restarts>>

Lines   == 1..MaxLines
Going   == {"queued", "running"}
Ended   == {"succeeded", "failed", "cancelled"}
Written == Going \cup Ended \cup {"skipped"}

LineType == [trigger : {"schedule", "manual"},
             tick    : Nat \cup {None},        \* scheduled_for; None: no due time's instant
             status  : Written \cup {"none"},
             waiting : BOOLEAN,
             linked  : BOOLEAN]                \* run_id is written

NoLine == [trigger |-> "schedule", tick |-> None, status |-> "none",
           waiting |-> FALSE, linked |-> FALSE]

LookType == [phase   : {"idle", "read", "stopping", "draining", "starting"},
             now     : Nat,                    \* when it began
             tick    : Nat \cup {None},        \* the row as it was read
             count   : Nat,
             overlap : AllOverlaps,
             catchUp : BOOLEAN,
             line    : Lines \cup {None},      \* the line it claimed
             todo    : SUBSET Lines,           \* runs it has still to stop, as it read them
             linked  : SUBSET Lines,           \* those of them with a run
             asking  : SUBSET Lines,           \* the one being asked to stop
             endings : SUBSET Lines]           \* those whose end it waits for

NoLook == [phase |-> "idle", now |-> 0, tick |-> None, count |-> 0, overlap |-> "wait",
           catchUp |-> FALSE, line |-> None, todo |-> {}, linked |-> {}, asking |-> {},
           endings |-> {}]

TypeOK ==
  /\ enabled  \in BOOLEAN
  /\ overlap  \in AllOverlaps
  /\ catchUp  \in BOOLEAN
  /\ next     \in Nat \cup {None}
  /\ count    \in Nat
  /\ line     \in [Lines -> LineType]
  /\ turn     \in [Lines -> {"none", "going"} \cup Ended]
  /\ look     \in LookType
  /\ pc       \in [Lines -> {"none", "starting", "following", "over"}]
  /\ up       \in BOOLEAN
  /\ asked    \in [Lines -> BOOLEAN]
  /\ clock    \in Nat
  /\ restarts \in Nat

-----------------------------------------------------------------------------

\* The next line to be written.
Fresh == {l \in Lines : line[l].status = "none" /\ \A k \in Lines : k < l => line[k].status # "none"}

OpenRunning(ls) == {l \in Lines : ls[l].status = "running" /\ ~ ls[l].waiting}

\* openRunsOf: started and not ended, or about to start; and waitingRunOf.
Open(ls) == {l \in Lines : ls[l].status \in Going /\ ~ ls[l].waiting}
Held(ls) == {l \in Lines : ls[l].status = "queued" /\ ls[l].waiting}

\* schedule_runs_schedule_tick_uq: one line for one instant.
Taken(tick) == \E l \in Lines : line[l].status # "none" /\ line[l].tick = tick

Exhausted(n) == RepeatLimit # None /\ n >= RepeatLimit

NextFor(on, n, now) == IF on /\ ~ Exhausted(n) THEN now + 1 ELSE None

Missed(tick, now, catch) ==
  \/ now - tick > MissedGrace
  \/ now - tick > LateGrace /\ ~ catch

Init ==
  /\ enabled = TRUE
  /\ overlap \in Overlaps
  /\ catchUp \in CatchUps
  /\ next = 1
  /\ count = 0
  /\ line = [l \in Lines |-> NoLine]
  /\ turn = [l \in Lines |-> "none"]
  /\ look = NoLook
  /\ pc = [l \in Lines |-> "none"]
  /\ up = TRUE
  /\ asked = [l \in Lines |-> FALSE]
  /\ clock = 0
  /\ restarts = 0

-----------------------------------------------------------------------------
(* Settling a line: it is written once, a success counts, the limit ends the *)
(* schedule, and the time held back for this run starts, if one is.          *)

\* `now` is when the time held back is taken; `p` is where the firings stand otherwise.
Release(ls, p) ==
  \/ /\ Open(ls) # {} \/ Held(ls) = {}
     /\ line' = ls
     /\ pc' = p
  \/ /\ Open(ls) = {}
     /\ \E w \in Held(ls) :
          \/ /\ enabled
             /\ line' = [ls EXCEPT ![w].waiting = FALSE]
             /\ pc' = [p EXCEPT ![w] = "starting"]
          \/ /\ ~ enabled
             /\ line' = [ls EXCEPT ![w].waiting = FALSE, ![w].status = "skipped"]
             /\ pc' = p

Counted(wins) ==
  /\ count' = count + wins
  /\ next' = IF Exhausted(count') THEN None ELSE next

Settle(l, status, p) ==
  \/ /\ line[l].status \in Going
     /\ Counted(IF status = "succeeded" THEN 1 ELSE 0)
     /\ Release([line EXCEPT ![l].status = status], p)
  \/ /\ line[l].status \notin Going
     /\ pc' = p
     /\ UNCHANGED <<line, count, next>>

-----------------------------------------------------------------------------
(* The scheduler's look.                                                     *)

\* dueAt: the rows are read once, for the whole look.
Look ==
  /\ look.phase = "idle"
  /\ enabled
  /\ next # None
  /\ next <= clock
  /\ look' = [NoLook EXCEPT !.phase = "read", !.now = clock, !.tick = next, !.count = count,
                            !.overlap = overlap, !.catchUp = catchUp]
  /\ UNCHANGED <<rowVars, next, count, line, turn, pc, up, asked, clock, restarts>>

DecisionHoldsEach ==
  IF Missed(look.tick, look.now, look.catchUp) THEN "skip"
  ELSE IF Open(line) = {} \/ look.overlap = "parallel" THEN "start"
  ELSE IF look.overlap = "replace" THEN "stop"
  ELSE IF look.overlap = "wait" THEN "hold"
  ELSE "skip"

\* What the due time does: "skip" it, "hold" it back, "stop" the runs still going and then
\* start it, or "start" it.
Decision ==
  IF Missed(look.tick, look.now, look.catchUp) THEN "skip"
  ELSE IF Open(line) = {} \/ look.overlap = "parallel" THEN "start"
  ELSE IF look.overlap = "replace" THEN "stop"
  ELSE IF look.overlap = "wait" /\ Held(line) = {} THEN "hold"
  ELSE "skip"

ClaimableWhileOn == enabled /\ ~ Taken(look.tick)

\* claimTick: the compare-and-set on the tick that was read, and its line.
Claimable == enabled /\ next = look.tick /\ ~ Taken(look.tick)

ClaimLost ==
  /\ look.phase = "read"
  /\ ~ Claimable
  /\ look' = NoLook
  /\ UNCHANGED <<rowVars, next, count, line, turn, pc, up, asked, clock, restarts>>

ClaimedLine ==
  [trigger |-> "schedule", tick |-> look.tick,
   status  |-> IF Decision = "skip" THEN "skipped" ELSE "queued",
   waiting |-> Decision = "hold", linked |-> FALSE]

Claim ==
  /\ look.phase = "read"
  /\ Claimable
  /\ next' = NextFor(TRUE, look.count, look.now)
  /\ \E l \in Fresh :
       /\ line' = [line EXCEPT ![l] = ClaimedLine]
       /\ \/ /\ Decision \in {"skip", "hold"}
             /\ look' = NoLook
             /\ UNCHANGED pc
          \/ /\ Decision = "start"
             /\ look' = [look EXCEPT !.phase = "starting", !.line = l]
             /\ pc' = [pc EXCEPT ![l] = "starting"]
          \/ /\ Decision = "stop"
             /\ look' = [look EXCEPT !.phase = "stopping", !.line = l, !.todo = Open(line),
                                     !.linked = {k \in Open(line) : line[k].linked}]
             /\ UNCHANGED pc
  /\ UNCHANGED <<rowVars, count, turn, up, asked, clock, restarts>>

ReplacedAnyway(ls, cut) ==
  [l \in Lines |-> IF l \in cut THEN [ls[l] EXCEPT !.status = "cancelled"] ELSE ls[l]]

\* Lines settled `cancelled`, nothing released: those that had ended stay as they ended.
Replaced(ls, cut) ==
  [l \in Lines |-> IF l \in cut /\ ls[l].status \in Going
                   THEN [ls[l] EXCEPT !.status = "cancelled"] ELSE ls[l]]

\* The run of the line that was being asked to stop is waited for, if it is still followed.
Endings == look.endings \cup {l \in look.asking : pc[l] = "following"}

\* `stop`, up to the next line that has a run: its run is asked to stop.
StopNext ==
  /\ look.phase = "stopping"
  /\ \E l \in look.todo \cap look.linked :
       /\ \A k \in look.todo \cap look.linked : l <= k
       /\ line' = Replaced(line, {k \in look.todo : k <= l})
       /\ asked' = [asked EXCEPT ![l] = TRUE]
       /\ look' = [look EXCEPT !.todo = {k \in @ : k > l}, !.asking = {l}, !.endings = Endings]
  /\ UNCHANGED <<rowVars, next, count, turn, pc, up, clock, restarts>>

\* The rest of `stop`: the time held back is skipped, and unless there is an end to wait for
\* the claimed line is fired.
StopRest ==
  /\ look.phase = "stopping"
  /\ look.todo \cap look.linked = {}
  /\ LET ls == Replaced(line, look.todo)
     IN  line' = [l \in Lines |->
                    IF l \in Held(ls) THEN [ls[l] EXCEPT !.status = "skipped", !.waiting = FALSE]
                    ELSE ls[l]]
  /\ look' = [look EXCEPT !.todo = {}, !.asking = {}, !.endings = Endings,
                          !.phase = IF Endings = {} THEN "starting" ELSE "draining"]
  /\ pc' = IF Endings = {} THEN [pc EXCEPT ![look.line] = "starting"] ELSE pc
  /\ UNCHANGED <<rowVars, next, count, turn, up, asked, clock, restarts>>

\* Every end has come, or stopWaitMs is over.
StopOver ==
  /\ look.phase = "draining"
  /\ look' = [look EXCEPT !.phase = "starting"]
  /\ pc' = [pc EXCEPT ![look.line] = "starting"]
  /\ UNCHANGED <<rowVars, next, count, line, turn, up, asked, clock, restarts>>

-----------------------------------------------------------------------------
(* fire: the session is opened and its run is queued, then it is followed.   *)

LookStays(l) == UNCHANGED look

\* The look goes on once the line it claimed was fired.
LookGoesOn(l) == look' = IF look.phase = "starting" /\ look.line = l THEN NoLook ELSE look

\* markRunStarted: a line that was settled meanwhile stays as it ended.
Started(l) ==
  /\ pc[l] = "starting"
  /\ turn' = [turn EXCEPT ![l] = "going"]
  /\ pc' = [pc EXCEPT ![l] = "following"]
  /\ line' = IF line[l].status = "queued"
             THEN [line EXCEPT ![l].status = "running", ![l].linked = TRUE] ELSE line
  /\ LookGoesOn(l)
  /\ UNCHANGED <<rowVars, next, count, up, asked, clock, restarts>>

StartFailsQuietly(l) ==
  /\ pc[l] = "starting"
  /\ pc' = [pc EXCEPT ![l] = "over"]
  /\ LookGoesOn(l)
  /\ UNCHANGED <<rowVars, next, count, line, turn, up, asked, clock, restarts>>

\* No agent, no prompt, no profile, or a session that refuses.
StartFails(l) ==
  /\ pc[l] = "starting"
  /\ Settle(l, "failed", [pc EXCEPT ![l] = "over"])
  /\ LookGoesOn(l)
  /\ UNCHANGED <<rowVars, turn, up, asked, clock, restarts>>

\* The session's run ends (the run engine's business: it may end any way).
RunEnds(l) ==
  /\ turn[l] = "going"
  /\ \E status \in Ended : turn' = [turn EXCEPT ![l] = status]
  /\ UNCHANGED <<rowVars, next, count, line, look, pc, up, asked, clock, restarts>>

\* settleTurn, at the end of the run's promise.
Followed(l) ==
  /\ pc[l] = "following"
  /\ turn[l] \in Ended
  /\ Settle(l, turn[l], [pc EXCEPT ![l] = "over"])
  /\ UNCHANGED <<rowVars, turn, look, up, asked, clock, restarts>>

-----------------------------------------------------------------------------
(* What a person does.                                                       *)

\* manualRun: a line of its own, for the next instant that has none.
RunNow ==
  /\ Cardinality({l \in Lines : line[l].trigger = "manual"}) < MaxPresses
  /\ \E l \in Fresh, tick \in {None} \cup {t \in {clock} : ~ Taken(t)} :
       /\ line' = [line EXCEPT ![l] = [trigger |-> "manual", tick |-> tick, status |-> "queued",
                                       waiting |-> FALSE, linked |-> FALSE]]
       /\ pc' = [pc EXCEPT ![l] = "starting"]
  /\ UNCHANGED <<rowVars, next, count, turn, look, up, asked, clock, restarts>>

\* update: paused, resumed, or with other options; the next time is counted from now.
Edit ==
  /\ enabled' \in BOOLEAN
  /\ overlap' \in Overlaps
  /\ catchUp' \in CatchUps
  /\ rowVars' # rowVars
  /\ next' = NextFor(enabled', count, clock)
  /\ UNCHANGED <<count, line, turn, look, pc, up, asked, clock, restarts>>

-----------------------------------------------------------------------------
(* The hub stops, and starts again.                                          *)

Crash ==
  /\ up
  /\ restarts < MaxRestarts
  /\ restarts' = restarts + 1
  /\ up' = FALSE
  /\ look' = NoLook
  /\ pc' = [l \in Lines |-> IF pc[l] = "none" THEN "none" ELSE "over"]
  /\ UNCHANGED <<rowVars, next, count, line, turn, asked, clock>>

\* What sessions says of a run once it has failed those the restart cut short.
Outcome(l) == IF turn[l] = "going" THEN "failed" ELSE turn[l]

\* settleStranded: every open line is settled by what its run's record says, with nothing
\* released; then the time held back starts, unless it is missed by now.
Boot ==
  LET ending == [l \in Lines |-> IF line[l].linked THEN Outcome(l) ELSE "failed"]
      ls     == [l \in Lines |-> IF l \in Open(line)
                                 THEN [line[l] EXCEPT !.status = ending[l]] ELSE line[l]]
  IN  /\ ~ up
      /\ up' = TRUE
      /\ turn' = [l \in Lines |-> Outcome(l)]
      /\ Counted(Cardinality({l \in Open(line) : ending[l] = "succeeded"}))
      /\ \/ /\ \E w \in Held(ls) : Missed(line[w].tick, clock, catchUp)
            /\ line' = [l \in Lines |->
                          IF l \in Held(ls)
                          THEN [ls[l] EXCEPT !.status = "skipped", !.waiting = FALSE] ELSE ls[l]]
            /\ UNCHANGED pc
         \/ /\ ~ \E w \in Held(ls) : Missed(line[w].tick, clock, catchUp)
            /\ Release(ls, pc)
      /\ UNCHANGED <<rowVars, look, asked, clock, restarts>>

Tick ==
  /\ clock < MaxClock
  /\ clock' = clock + 1
  /\ UNCHANGED <<rowVars, next, count, line, turn, look, pc, up, asked, restarts>>

-----------------------------------------------------------------------------

Scheduler == Look \/ ClaimLost \/ Claim \/ StopNext \/ StopRest \/ StopOver

Firing(l) == Started(l) \/ StartFails(l) \/ RunEnds(l) \/ Followed(l)

Work ==
  /\ up
  /\ Scheduler \/ RunNow \/ Edit \/ \E l \in Lines : Firing(l)

Next == Work \/ Crash \/ Boot \/ Tick

Spec == Init /\ [][Next]_vars
-----------------------------------------------------------------------------
(* Properties                                                                *)

\* At most one time is held back, and only for a run that is going or about to start: no
\* time waits for a run that is over (schedule-runs.ts release; DECISIONS.md section 40).
HeldForAnother ==
  /\ up /\ Held(line) # {} => Open(line) # {}
  /\ \A k, l \in Held(line) : k = l

\* An open line has somebody to settle it: the look that claimed it, the firing, or the
\* follow-up of its run.  None stays `running` in the history for ever.
OpenLineIsFollowed ==
  up => \A l \in Open(line) :
          pc[l] \in {"starting", "following"}
            \/ (look.phase \in {"stopping", "draining"} /\ look.line = l)

AtWork(l) == pc[l] = "starting" \/ turn[l] = "going"

\* With `skip` and `wait` the schedule's own times never run side by side, whatever a person
\* starts, stops or edits meanwhile, and across restarts.
RunsApart ==
  up => \A k, l \in Lines :
          /\ line[k].trigger = "schedule" /\ AtWork(k)
          /\ line[l].trigger = "schedule" /\ AtWork(l)
          => k = l

\* service.ts: "the limit reached ends the schedule": it has no next time any more, though
\* a look may hold the row, and the count, of before.
LimitEndsSchedule == Exhausted(count) => next = None

\* A line that ended stays as it ended (service.ts settleRun: "a line already settled is
\* left alone"), whoever comes late: the follow-up, a stop, a start, the restart.
HistoryIsFinal ==
  [][\A l \in Lines : line[l].status \in Ended \cup {"skipped"} => line'[l] = line[l]]_vars

\* A line as the reader of the history sees it.
Shown(R) == IF R.status \in Going THEN IF R.waiting THEN "held" ELSE "open" ELSE R.status

Told ==
  INSTANCE ScheduleHistory WITH
    state <- [l \in Lines |-> Shown(line[l])],
    own   <- [l \in Lines |-> line[l].status # "none" /\ line[l].trigger = "schedule"],
    time  <- [l \in Lines |-> line[l].tick]

\* The history is told in order and once: the schedule's own times only grow, though a look
\* claims with a row it read before an edit; none comes after the limit; no late follow-up,
\* stop, start or restart rewrites an end; and a held time opens only when nothing is open.
KeepsHistory == Told!Spec

\* scheduler.ts: `replace` stops the runs still going, "for real".  The run of a line that
\* was still starting is not: its line has no run to stop yet.
ReplacedRunsAreStopped ==
  up => \A l \in Lines : turn[l] = "going" /\ line[l].status \notin Going => asked[l]

-----------------------------------------------------------------------------
(* Liveness.  The scheduler looks again and again, its awaits settle, and a  *)
(* session's run ends (the run engine's own promise; one that asks a person  *)
(* ends when it is answered).  A hub that stopped is started again.          *)

Fairness ==
  /\ WF_vars(up /\ Scheduler)
  /\ \A l \in Lines : /\ WF_vars(up /\ (Started(l) \/ StartFails(l)))
                      /\ WF_vars(up /\ RunEnds(l))
                      /\ WF_vars(up /\ Followed(l))
  /\ WF_vars(Boot)

FairSpec == Spec /\ Fairness

\* Every line that was opened or held back comes to an end.
EveryLineEnds == \A l \in Lines : line[l].status \in Going ~> line[l].status \notin Going

\* A due time is taken, or the schedule moves on from it, unless a person ran the schedule
\* in that very instant.
EveryTimeIsTaken ==
  \A t \in 1..MaxClock :
    next = t /\ t <= clock ~>
      next # t \/ \E l \in Lines : line[l].trigger = "manual" /\ line[l].tick = t
=============================================================================
