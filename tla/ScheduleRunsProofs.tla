-------------------------- MODULE ScheduleRunsProofs -------------------------
(***************************************************************************)
(* The safety of one schedule, for any limits, graces and bounds: IInv is  *)
(* kept by every step, and the properties of ScheduleRuns follow from it.  *)
(*                                                                         *)
(* One lemma per action; settling a line and releasing the time held back  *)
(* are lemmas of their own, shared by the actions that end in them.        *)
(***************************************************************************)
EXTENDS ScheduleRunsInv, FiniteSetTheorems, TLAPS

USE DEF Going, Ended, Written, Lines, AllOverlaps, LineType, rowVars

PC == {"none", "starting", "following", "over"}

\* What taking or skipping the time held back leaves (schedule-runs.ts release): every other
\* line as it was, and none held back for nobody.
LEMMA ReleaseEffect ==
  ASSUME NEW ls \in [Lines -> LineType], NEW p \in [Lines -> PC], Release(ls, p),
         \A k, l \in Held(ls) : k = l
  PROVE  /\ line' \in [Lines -> LineType] /\ pc' \in [Lines -> PC]
         /\ \A k \in Lines : \/ line'[k] = ls[k] /\ pc'[k] = p[k]
                             \/ /\ k \in Held(ls) /\ Open(ls) = {} /\ ~ line'[k].waiting
                                /\ line'[k].linked = ls[k].linked
                                /\ \/ line'[k].status = "queued" /\ pc'[k] = "starting"
                                   \/ line'[k].status = "skipped" /\ pc'[k] = p[k]
         /\ Held(line') \subseteq Held(ls)
         /\ Held(line') # {} => Open(line') # {}
<1>1. CASE line' = ls /\ pc' = p /\ (Open(ls) # {} \/ Held(ls) = {})
  BY <1>1
<1>2. ASSUME NEW w \in Held(ls), Open(ls) = {},
             line' = [ls EXCEPT ![w].waiting = FALSE], pc' = [p EXCEPT ![w] = "starting"]
      PROVE  /\ line' \in [Lines -> LineType] /\ pc' \in [Lines -> PC]
             /\ \A k \in Lines : \/ line'[k] = ls[k] /\ pc'[k] = p[k]
                                 \/ /\ k \in Held(ls) /\ Open(ls) = {} /\ ~ line'[k].waiting
                                    /\ line'[k].linked = ls[k].linked
                                    /\ line'[k].status = "queued" /\ pc'[k] = "starting"
             /\ Held(line') = {}
  BY ZenonT(30), <1>2 DEF Held, PC
<1>3. ASSUME NEW w \in Held(ls), Open(ls) = {},
             line' = [ls EXCEPT ![w].waiting = FALSE, ![w].status = "skipped"], pc' = p
      PROVE  /\ line' \in [Lines -> LineType] /\ pc' \in [Lines -> PC]
             /\ \A k \in Lines : \/ line'[k] = ls[k] /\ pc'[k] = p[k]
                                 \/ /\ k \in Held(ls) /\ Open(ls) = {} /\ ~ line'[k].waiting
                                    /\ line'[k].linked = ls[k].linked
                                    /\ line'[k].status = "skipped" /\ pc'[k] = p[k]
             /\ Held(line') = {}
  BY <1>3 DEF Held, PC
<1> QED BY <1>1, <1>2, <1>3 DEF Release

\* The schedule's own row after a line was settled (service.ts settleRun): the limit that is
\* reached takes the next time with it.
LEMMA CountedEffect ==
  ASSUME count \in Nat, next \in Nat \cup {None}, LimitEndsSchedule, NEW wins \in Nat, Counted(wins)
  PROVE  count' \in Nat /\ next' \in Nat \cup {None} /\ LimitEndsSchedule'
BY DEF Counted, LimitEndsSchedule, Exhausted

\* The reading of the due schedules.
LEMMA LookStep ==
  ASSUME IInv, up, Look
  PROVE  IInv'
<1> USE DEF IInv, Look
<1>1. TypeOK'
  BY DEF TypeOK, LookType, NoLook
<1>2. DownHoldsNothing' /\ FreshIsUntouched' /\ HeldIsNotFired' /\ HeldForAnother' /\ FiringFits'
  BY DEF DownHoldsNothing, FreshIsUntouched, HeldIsNotFired, HeldForAnother, FiringFits, Held, Open
<1>3. look'.phase = "read" /\ look'.tick = next /\ look'.overlap = overlap
  BY DEF NoLook
<1>4. ReadHasTick' /\ ClaimIsOpen'
  BY <1>3 DEF ReadHasTick, ClaimIsOpen, Stopping, TypeOK
<1>5. OpenLineIsFollowed' /\ LimitEndsSchedule'
  BY DEF OpenLineIsFollowed, LimitEndsSchedule, Open, Exhausted
<1>6. ApartInv'
  BY <1>3 DEF ApartInv, AtWork, Stopping, Open
<1> QED BY <1>1, <1>2, <1>4, <1>5, <1>6

\* A look that finds its row changed lets go of it.
LEMMA ClaimLostStep ==
  ASSUME IInv, up, ClaimLost
  PROVE  IInv'
<1> USE DEF IInv, ClaimLost
<1>1. TypeOK'
  BY DEF TypeOK, LookType, NoLook
<1>2. DownHoldsNothing' /\ FreshIsUntouched' /\ HeldIsNotFired' /\ HeldForAnother' /\ FiringFits'
  BY DEF DownHoldsNothing, FreshIsUntouched, HeldIsNotFired, HeldForAnother, FiringFits, Held, Open
<1>3. look'.phase = "idle"
  BY DEF NoLook
<1>4. ReadHasTick' /\ ClaimIsOpen'
  BY <1>3 DEF ReadHasTick, ClaimIsOpen, Stopping, TypeOK
<1>5. OpenLineIsFollowed' /\ LimitEndsSchedule'
  BY DEF OpenLineIsFollowed, LimitEndsSchedule, Open, Exhausted
<1>6. ApartInv'
  BY <1>3 DEF ApartInv, AtWork, Stopping, Open
<1> QED BY <1>1, <1>2, <1>4, <1>5, <1>6

\* The next line that is written: by a claim (l's own start, or its wait for others to stop)
\* or by a person.
LEMMA FreshUntouched ==
  ASSUME IInv, NEW l \in Fresh
  PROVE  /\ l \in Lines /\ line[l].status = "none" /\ l \notin Open(line) /\ l \notin Held(line)
         /\ pc[l] = "none" /\ turn[l] = "none"
BY DEF IInv, FreshIsUntouched, Fresh, Open, Held

\* A claimed time: skipped, held back, fired, or first stopping the others.
LEMMA ClaimStep ==
  ASSUME IInv, up, Claim
  PROVE  IInv'
<1> USE DEF IInv
<1> PICK l \in Fresh :
      /\ line' = [line EXCEPT ![l] = ClaimedLine]
      /\ \/ /\ Decision \in {"skip", "hold"}
            /\ look' = NoLook
            /\ UNCHANGED pc
         \/ /\ Decision = "start"
            /\ look' = [look EXCEPT !.phase = "starting", !.line = l]
            /\ pc' = [pc EXCEPT ![l] = "starting"]
         \/ /\ Decision = "stop"
            /\ look' = [look EXCEPT !.phase = "stopping", !.line = l, !.todo = Open(line),
                                    !.linked = {k \in Open(line) : line[k].linked}]
            /\ UNCHANGED pc
  BY DEF Claim
<1>0. /\ l \in Lines /\ line[l].status = "none" /\ l \notin Open(line) /\ l \notin Held(line)
      /\ pc[l] = "none" /\ turn[l] = "none"
  BY FreshUntouched
<1>a. look.phase = "read" /\ look.tick \in Nat /\ look.tick = next /\ next # None
  BY NoneAssumption DEF Claim, Claimable, ReadHasTick
<1>b. /\ UNCHANGED <<rowVars, count, turn, up, asked, clock, restarts>>
      /\ next' = NextFor(TRUE, look.count, look.now)
  BY DEF Claim
<1>c. /\ line' \in [Lines -> LineType]
      /\ line'[l] = ClaimedLine
      /\ \A k \in Lines : k # l => line'[k] = line[k]
  BY <1>0, <1>a DEF TypeOK, ClaimedLine
<1>d. /\ ClaimedLine.status = (IF Decision = "skip" THEN "skipped" ELSE "queued")
      /\ ClaimedLine.waiting = (Decision = "hold") /\ ClaimedLine.trigger = "schedule"
      /\ ClaimedLine.linked = FALSE
  BY DEF ClaimedLine
<1>e. Open(line') = IF Decision \in {"start", "stop"} THEN Open(line) \cup {l} ELSE Open(line)
  <2>1. Decision \in {"skip", "hold", "start", "stop"}
    BY DEF Decision
  <2> QED BY <1>0, <1>c, <1>d, <2>1 DEF Open
<1>f. Held(line') = IF Decision = "hold" THEN Held(line) \cup {l} ELSE Held(line)
  BY <1>0, <1>c, <1>d DEF Held
<1>g. /\ Decision = "hold" => Held(line) = {} /\ Open(line) # {}
      /\ Decision = "start" => Open(line) = {} \/ look.overlap = "parallel"
      /\ Decision = "stop" => look.overlap = "replace"
  BY DEF Decision
<1>k. look \in LookType /\ pc \in [Lines -> PC] /\ NoLook \in LookType /\ NoLook.phase = "idle"
  BY DEF TypeOK, PC, NoLook, LookType
<1>h. look' \in LookType /\ pc' \in [Lines -> PC]
  <2>1. Open(line) \in SUBSET Lines /\ {k \in Open(line) : line[k].linked} \in SUBSET Lines
    BY DEF Open
  <2> HIDE DEF IInv
  <2>2. CASE look' = NoLook /\ UNCHANGED pc
    BY <1>k, <2>2
  <2>3. CASE /\ look' = [look EXCEPT !.phase = "starting", !.line = l]
             /\ pc' = [pc EXCEPT ![l] = "starting"]
    BY <1>0, <1>k, <2>3 DEF LookType, PC
  <2>4. CASE /\ look' = [look EXCEPT !.phase = "stopping", !.line = l, !.todo = Open(line),
                                     !.linked = {k \in Open(line) : line[k].linked}]
             /\ UNCHANGED pc
    BY <1>0, <1>k, <2>1, <2>4 DEF LookType
  <2> QED BY <2>2, <2>3, <2>4
<1>i. /\ Decision \in {"skip", "hold"} => look'.phase = "idle" /\ pc' = pc
      /\ Decision = "start" => look'.phase = "starting" /\ pc' = [pc EXCEPT ![l] = "starting"]
      /\ Decision = "stop" => /\ look'.phase = "stopping" /\ look'.line = l
                              /\ look'.todo = Open(line) /\ pc' = pc
  <2> HIDE DEF IInv
  <2> QED BY <1>k DEF LookType
<1>j. Decision \in {"skip", "hold", "start", "stop"}
  BY DEF Decision
<1>1. TypeOK'
  <2>1. next' \in Nat \cup {None}
    BY <1>b DEF NextFor, TypeOK, LookType
  <2> QED BY <1>b, <1>c, <1>h, <2>1 DEF TypeOK, PC
<1>2. DownHoldsNothing' /\ ReadHasTick'
  BY <1>b, <1>i, <1>j DEF DownHoldsNothing, ReadHasTick
<1>l. \A k \in Lines : k # l => pc'[k] = pc[k]
  BY <1>i, <1>j, <1>k
<1>m. pc'[l] \in {"none", "starting"} /\ (pc'[l] = "starting" <=> Decision = "start")
  BY <1>0, <1>i, <1>j, <1>k
<1>3. FreshIsUntouched'
  BY <1>b, <1>c, <1>d, <1>l DEF FreshIsUntouched
<1>4. HeldIsNotFired'
  BY <1>0, <1>b, <1>f, <1>i, <1>l DEF HeldIsNotFired, Held
<1>5. HeldForAnother'
  BY <1>b, <1>e, <1>f, <1>g, <1>j DEF HeldForAnother
<1>6. ClaimIsOpen'
  BY <1>0, <1>b, <1>c, <1>d, <1>e, <1>i, <1>j DEF ClaimIsOpen, Stopping
<1>7. FiringFits'
  BY <1>0, <1>b, <1>c, <1>d, <1>l, <1>m DEF FiringFits
<1>8. OpenLineIsFollowed'
  <2>1. \A k \in Open(line) : k \in Lines /\ pc[k] \in {"starting", "following"}
    BY <1>a DEF OpenLineIsFollowed, Open
  <2> QED BY <1>0, <1>b, <1>e, <1>i, <1>j, <1>l, <1>m, <2>1 DEF OpenLineIsFollowed
<1>9. LimitEndsSchedule'
  BY <1>a, <1>b DEF LimitEndsSchedule, Exhausted
<1>10. ApartInv'
  <2> SUFFICES ASSUME Overlaps \subseteq {"skip", "wait"} PROVE ApartInv'
    BY DEF ApartInv
  <2>1. look.overlap \in {"skip", "wait"} /\ overlap \in Overlaps
    BY <1>a DEF ApartInv
  <2>2. Decision # "stop" /\ (Decision = "start" => Open(line) = {})
    BY <1>g, <2>1
  <2>3. look'.phase \notin {"read", "stopping", "draining"} /\ overlap' \in Overlaps
    BY <1>b, <1>i, <1>j, <2>1, <2>2
  <2>4. \A k \in Lines : AtWork(k)' => k \in Open(line')
    BY <1>0, <1>b, <1>e, <1>i, <1>j, <2>2 DEF ApartInv, AtWork, TypeOK
  <2>5. \A k, m \in Open(line') :
          line'[k].trigger = "schedule" /\ line'[m].trigger = "schedule" => k = m
    <3>1. \A k \in Open(line) : k \in Lines /\ k # l
      BY <1>0 DEF Open
    <3> QED BY <1>c, <1>e, <1>j, <2>2, <3>1 DEF ApartInv
  <2> QED BY <2>3, <2>4, <2>5 DEF ApartInv, Stopping
<1> QED BY <1>1, <1>2, <1>3, <1>4, <1>5, <1>6, <1>7, <1>8, <1>9, <1>10

\* What `stop` settles of the lines it read: those still open end, the others stay.
LEMMA ReplacedEffect ==
  ASSUME line \in [Lines -> LineType], NEW cut \in SUBSET Lines
  PROVE  /\ Replaced(line, cut) \in [Lines -> LineType]
         /\ \A k \in Lines :
              /\ \/ Replaced(line, cut)[k] = line[k]
                 \/ /\ k \in cut /\ line[k].status \in Going
                    /\ Replaced(line, cut)[k].status = "cancelled"
                    /\ Replaced(line, cut)[k].linked = line[k].linked
                    /\ Replaced(line, cut)[k].waiting = line[k].waiting
                    /\ Replaced(line, cut)[k].trigger = line[k].trigger
              /\ k \notin cut => Replaced(line, cut)[k] = line[k]
BY DEF Replaced

\* A run asked to stop: its line, and those before it that have no run, are settled.
LEMMA StopNextStep ==
  ASSUME IInv, up, StopNext
  PROVE  IInv'
<1> USE DEF IInv
<1> PICK l \in look.todo \cap look.linked :
      /\ line' = Replaced(line, {k \in look.todo : k <= l})
      /\ asked' = [asked EXCEPT ![l] = TRUE]
      /\ look' = [look EXCEPT !.todo = {k \in @ : k > l}, !.asking = {l}, !.endings = Endings]
  BY DEF StopNext
<1> DEFINE cut == {k \in look.todo : k <= l}
<1>a. look \in LookType /\ look.todo \subseteq Lines /\ l \in Lines /\ cut \in SUBSET Lines
  BY DEF TypeOK, LookType
<1>b. look' \in LookType
  <2>1. {k \in look.todo : k > l} \in SUBSET Lines /\ {l} \in SUBSET Lines /\ Endings \in SUBSET Lines
    BY <1>a DEF LookType, Endings
  <2> HIDE DEF IInv
  <2> QED BY <1>a, <2>1 DEF LookType
<1>c. /\ look'.phase = look.phase /\ look'.line = look.line /\ look'.overlap = look.overlap
      /\ look'.todo \subseteq look.todo
  <2> HIDE DEF IInv
  <2> QED BY <1>a DEF LookType
<1>d. look.phase = "stopping" /\ UNCHANGED <<rowVars, next, count, turn, pc, up, clock, restarts>>
  BY DEF StopNext
<1>e. /\ line' \in [Lines -> LineType]
      /\ \A k \in Lines :
           /\ \/ line'[k] = line[k]
              \/ /\ k \in cut /\ line[k].status \in Going /\ line'[k].status = "cancelled"
                 /\ line'[k].linked = line[k].linked
                 /\ line'[k].waiting = line[k].waiting
                 /\ line'[k].trigger = line[k].trigger
           /\ k \notin cut => line'[k] = line[k]
  BY <1>a, ReplacedEffect DEF TypeOK
<1>f. Open(line') \subseteq Open(line) /\ Held(line') \subseteq Held(line)
  BY <1>e DEF Open, Held
<1>1. TypeOK'
  BY <1>a, <1>b, <1>d, <1>e DEF TypeOK
<1>2. DownHoldsNothing' /\ ReadHasTick'
  BY <1>c, <1>d DEF DownHoldsNothing, ReadHasTick
<1>3. FreshIsUntouched' /\ FiringFits'
  BY <1>d, <1>e DEF FreshIsUntouched, FiringFits
<1>4. HeldIsNotFired'
  BY <1>d, <1>f DEF HeldIsNotFired
<1>5. ClaimIsOpen'
  <2>1. /\ look.line \in Lines /\ look.line \notin look.todo /\ look.line \in Open(line)
        /\ line[look.line].status = "queued"
        /\ pc[look.line] = "none" /\ turn[look.line] = "none"
    BY <1>d DEF ClaimIsOpen, Stopping, Open
  <2>2. line'[look.line] = line[look.line]
    BY <1>e, <2>1
  <2> HIDE DEF IInv
  <2> QED BY <1>c, <1>d, <2>1, <2>2 DEF ClaimIsOpen, Open
<1>6. HeldForAnother'
  BY <1>c, <1>d, <1>f, <1>5 DEF HeldForAnother, ClaimIsOpen, Stopping
<1>7. OpenLineIsFollowed'
  BY <1>c, <1>d, <1>f DEF OpenLineIsFollowed
<1>8. LimitEndsSchedule'
  BY <1>d DEF LimitEndsSchedule, Exhausted
<1>9. ApartInv'
  BY <1>d DEF ApartInv, Stopping
<1> QED BY <1>1, <1>2, <1>3, <1>4, <1>5, <1>6, <1>7, <1>8, <1>9

\* The last lines settled, the time held back skipped, and the claimed line fired unless an
\* end is waited for.
LEMMA StopRestStep ==
  ASSUME IInv, up, StopRest
  PROVE  IInv'
<1> USE DEF IInv
<1> DEFINE ls == Replaced(line, look.todo)
<1>a. look \in LookType /\ look.todo \in SUBSET Lines /\ pc \in [Lines -> PC]
  BY DEF TypeOK, LookType, PC
<1>b. /\ look.line \in Lines /\ look.line \notin look.todo /\ look.line \in Open(line)
      /\ line[look.line].status = "queued" /\ ~ line[look.line].waiting
      /\ pc[look.line] = "none" /\ turn[look.line] = "none"
  BY DEF StopRest, ClaimIsOpen, Stopping, Open
<1>c. /\ look' = [look EXCEPT !.todo = {}, !.asking = {}, !.endings = Endings,
                              !.phase = IF Endings = {} THEN "starting" ELSE "draining"]
      /\ pc' = IF Endings = {} THEN [pc EXCEPT ![look.line] = "starting"] ELSE pc
      /\ UNCHANGED <<rowVars, next, count, turn, up, asked, clock, restarts>>
  BY DEF StopRest
<1>d. look' \in LookType
  <2>1. Endings \in SUBSET Lines
    BY <1>a DEF LookType, Endings
  <2> HIDE DEF IInv
  <2> QED BY <1>a, <1>c, <2>1 DEF LookType
<1>e. /\ look'.line = look.line /\ look'.todo = {}
      /\ \/ look'.phase = "draining" /\ pc' = pc
         \/ look'.phase = "starting" /\ pc' = [pc EXCEPT ![look.line] = "starting"]
  <2> HIDE DEF IInv
  <2> QED BY <1>a, <1>c DEF LookType
<1>f. \A k \in Lines : k # look.line => pc'[k] = pc[k]
  BY <1>a, <1>c
<1>g. /\ pc'[look.line] \in {"none", "starting"}
      /\ look'.phase = "draining" => pc'[look.line] = "none"
      /\ look'.phase = "starting" => pc'[look.line] = "starting"
  BY <1>a, <1>b, <1>e
<1>h. /\ line' \in [Lines -> LineType]
      /\ \A k \in Lines :
           \/ line'[k] = line[k] /\ k \notin Held(line)
           \/ /\ line[k].status \in Going /\ line'[k].status \in {"cancelled", "skipped"}
              /\ line'[k].linked = line[k].linked
      /\ line'[look.line] = line[look.line]
  <2>1. /\ ls \in [Lines -> LineType]
        /\ \A k \in Lines :
             /\ \/ ls[k] = line[k]
                \/ /\ line[k].status \in Going /\ ls[k].status = "cancelled"
                   /\ ls[k].linked = line[k].linked
             /\ k \notin look.todo => ls[k] = line[k]
    BY <1>a, ReplacedEffect DEF TypeOK
  <2>2. line' = [k \in Lines |->
                   IF k \in Held(ls) THEN [ls[k] EXCEPT !.status = "skipped", !.waiting = FALSE]
                   ELSE ls[k]]
    BY DEF StopRest
  <2> HIDE DEF ls, IInv
  <2>3. line' \in [Lines -> LineType]
    <3>1. \A k \in Lines : [ls[k] EXCEPT !.status = "skipped", !.waiting = FALSE] \in LineType
      BY ZenonT(30), <2>1
    <3> QED BY <2>1, <2>2, <3>1
  <2>4. \A k \in Lines :
           \/ line'[k] = line[k] /\ k \notin Held(line)
           \/ /\ line[k].status \in Going /\ line'[k].status \in {"cancelled", "skipped"}
              /\ line'[k].linked = line[k].linked
    BY <2>1, <2>2 DEF Held
  <2>5. line'[look.line] = line[look.line]
    BY <1>b, <2>1, <2>2 DEF Held
  <2> QED BY <2>3, <2>4, <2>5
<1>i. Open(line') \subseteq Open(line) /\ Held(line') = {}
  BY <1>h DEF Open, Held
<1>1. TypeOK'
  BY <1>a, <1>b, <1>c, <1>d, <1>h DEF TypeOK
<1>2. DownHoldsNothing' /\ ReadHasTick'
  BY <1>c, <1>e DEF DownHoldsNothing, ReadHasTick
<1>3. FreshIsUntouched'
  BY <1>b, <1>c, <1>f, <1>h DEF FreshIsUntouched
<1>4. HeldIsNotFired' /\ HeldForAnother'
  BY <1>i DEF HeldIsNotFired, HeldForAnother
<1>5. ClaimIsOpen'
  BY <1>b, <1>c, <1>e, <1>g, <1>h DEF ClaimIsOpen, Stopping, Open
<1>6. FiringFits'
  BY <1>b, <1>c, <1>f, <1>g, <1>h DEF FiringFits
<1>7. OpenLineIsFollowed'
  <2>1. \A k \in Open(line) : k \in Lines /\ (k # look.line => pc[k] \in {"starting", "following"})
    BY DEF OpenLineIsFollowed, Open
  <2> QED BY <1>e, <1>f, <1>g, <1>i, <2>1 DEF OpenLineIsFollowed
<1>8. LimitEndsSchedule'
  BY <1>c DEF LimitEndsSchedule, Exhausted
<1>9. ApartInv'
  BY DEF ApartInv, Stopping, StopRest
<1> QED BY <1>1, <1>2, <1>3, <1>4, <1>5, <1>6, <1>7, <1>8, <1>9

\* The wait for the runs that were stopped is over.
LEMMA StopOverStep ==
  ASSUME IInv, up, StopOver
  PROVE  IInv'
<1> USE DEF IInv
<1>a. look \in LookType /\ pc \in [Lines -> PC]
  BY DEF TypeOK, PC
<1>b. /\ look.line \in Lines /\ line[look.line].status = "queued" /\ look.line \in Open(line)
      /\ pc[look.line] = "none" /\ turn[look.line] = "none"
  BY DEF StopOver, ClaimIsOpen, Stopping, Open
<1>c. /\ look' = [look EXCEPT !.phase = "starting"]
      /\ pc' = [pc EXCEPT ![look.line] = "starting"]
      /\ UNCHANGED <<rowVars, next, count, line, turn, up, asked, clock, restarts>>
  BY DEF StopOver
<1>d. look' \in LookType /\ look'.phase = "starting"
  <2> HIDE DEF IInv
  <2> QED BY <1>a, <1>c DEF LookType
<1>e. pc'[look.line] = "starting" /\ \A k \in Lines : k # look.line => pc'[k] = pc[k]
  BY <1>a, <1>b, <1>c
<1>1. TypeOK'
  BY <1>b, <1>c, <1>d DEF TypeOK
<1>2. DownHoldsNothing' /\ ReadHasTick' /\ ClaimIsOpen'
  BY <1>c, <1>d DEF DownHoldsNothing, ReadHasTick, ClaimIsOpen, Stopping
<1>3. FreshIsUntouched' /\ FiringFits'
  BY <1>b, <1>c, <1>e DEF FreshIsUntouched, FiringFits
<1>4. HeldIsNotFired'
  <2>1. look.line \notin Held(line)
    BY <1>b DEF Open, Held
  <2> QED BY <1>c, <1>e, <2>1 DEF HeldIsNotFired, Held
<1>5. HeldForAnother'
  BY <1>c DEF HeldForAnother
<1>6. OpenLineIsFollowed'
  BY <1>c, <1>e DEF OpenLineIsFollowed, Open
<1>7. LimitEndsSchedule'
  BY <1>c DEF LimitEndsSchedule, Exhausted
<1>8. ApartInv'
  BY DEF ApartInv, Stopping, StopOver
<1> QED BY <1>1, <1>2, <1>3, <1>4, <1>5, <1>6, <1>7, <1>8

\* A line settled, by a start that failed or by the end of its run: nothing else of the
\* schedule's is disturbed, and the time held back is not left behind.
LEMMA SettleStep ==
  ASSUME IInv, up, NEW l \in Lines, NEW status \in Ended,
         pc[l] \in {"starting", "following"}, turn[l] # "going",
         Settle(l, status, [pc EXCEPT ![l] = "over"]),
         look' = look \/ (look' = NoLook /\ look.phase = "starting"),
         UNCHANGED <<rowVars, turn, up, asked, clock, restarts>>
  PROVE  IInv'
<1> USE DEF IInv
<1> DEFINE p == [pc EXCEPT ![l] = "over"]
           ls == [line EXCEPT ![l].status = status]
<1>a. /\ pc \in [Lines -> PC] /\ line \in [Lines -> LineType]
      /\ p \in [Lines -> PC] /\ ls \in [Lines -> LineType]
  BY DEF TypeOK, PC
<1>b. /\ look' \in LookType /\ look'.phase \in {look.phase, "idle"}
      /\ look'.phase # "idle" => look' = look
  <2>1. look \in LookType /\ NoLook \in LookType /\ NoLook.phase = "idle"
    BY DEF TypeOK, LookType, NoLook
  <2> HIDE DEF IInv
  <2> QED BY <2>1
<1>c. l \notin Held(line)
  BY DEF HeldIsNotFired
<1>d. /\ p[l] = "over" /\ \A k \in Lines : k # l => p[k] = pc[k] /\ ls[k] = line[k]
      /\ ls[l].status = status /\ ls[l].waiting = line[l].waiting /\ ls[l].linked = line[l].linked
      /\ ls[l].trigger = line[l].trigger
  BY <1>a
<1>e. Open(ls) = Open(line) \ {l} /\ Held(ls) = Held(line)
  BY <1>c, <1>d DEF Open, Held
<1>f. /\ count' \in Nat /\ next' \in Nat \cup {None} /\ LimitEndsSchedule'
  <2>1. CASE line[l].status \in Going
    <3>1. (IF status = "succeeded" THEN 1 ELSE 0) \in Nat
      OBVIOUS
    <3>2. Counted(IF status = "succeeded" THEN 1 ELSE 0)
      BY <2>1 DEF Settle
    <3> QED BY <3>1, <3>2, CountedEffect DEF TypeOK
  <2>2. CASE UNCHANGED <<count, next>>
    BY <2>2 DEF TypeOK, LimitEndsSchedule, Exhausted
  <2> QED BY <2>1, <2>2 DEF Settle
\* What is left of every line and firing, whether l was settled before or not.
<1>g. /\ line' \in [Lines -> LineType] /\ pc' \in [Lines -> PC]
      /\ \A k \in Lines : k # l =>
           \/ line'[k] = line[k] /\ pc'[k] = pc[k]
           \/ /\ k \in Held(line) /\ Open(line) \subseteq {l} /\ ~ line'[k].waiting
              /\ line'[k].linked = line[k].linked
              /\ \/ line'[k].status = "queued" /\ pc'[k] = "starting"
                 \/ line'[k].status = "skipped" /\ pc'[k] = pc[k]
      /\ line'[l].status \in Written \ Going /\ line'[l].linked = line[l].linked /\ pc'[l] = "over"
      /\ Held(line') \subseteq Held(line)
      /\ Held(line') # {} => Open(line') # {}
  <2>1. CASE line[l].status \in Going
    <3>1. Release(ls, p)
      BY <2>1 DEF Settle
    <3>2. /\ line' \in [Lines -> LineType] /\ pc' \in [Lines -> PC]
          /\ \A k \in Lines : \/ line'[k] = ls[k] /\ pc'[k] = p[k]
                              \/ /\ k \in Held(ls) /\ Open(ls) = {} /\ ~ line'[k].waiting
                                 /\ line'[k].linked = ls[k].linked
                                 /\ \/ line'[k].status = "queued" /\ pc'[k] = "starting"
                                    \/ line'[k].status = "skipped" /\ pc'[k] = p[k]
          /\ Held(line') \subseteq Held(ls)
          /\ Held(line') # {} => Open(line') # {}
      <4>1. \A j, k \in Held(ls) : j = k
        BY <1>e DEF HeldForAnother
      <4> HIDE DEF p, ls, IInv
      <4> QED BY <1>a, <3>1, <4>1, ReleaseEffect
    <3> HIDE DEF p, ls, IInv
    <3> QED BY <1>c, <1>d, <1>e, <3>2
  <2>2. CASE line[l].status \notin Going
    <3>1. line' = line /\ pc' = p
      BY <2>2 DEF Settle
    <3>2. line[l].status \in Written \ Going
      BY <2>2 DEF FreshIsUntouched, TypeOK
    <3>3. Held(line') # {} => Open(line') # {}
      BY <3>1 DEF HeldForAnother
    <3> HIDE DEF p, ls, IInv
    <3> QED BY <1>a, <1>d, <3>1, <3>2, <3>3
  <2> QED BY <2>1, <2>2
<1> HIDE DEF p, ls
<1>h. /\ l \notin Open(line')
      /\ \A k \in Open(line') : \/ k \in Open(line) /\ line'[k] = line[k] /\ pc'[k] = pc[k]
                                \/ Open(line') = {k} /\ pc'[k] = "starting"
  <2>1. l \notin Open(line')
    BY <1>g DEF Open
  <2>2. ASSUME NEW k \in Open(line'), ~ (line'[k] = line[k] /\ pc'[k] = pc[k])
        PROVE  Open(line') = {k} /\ pc'[k] = "starting"
    <3>1. k \in Held(line) /\ Open(line) \subseteq {l} /\ pc'[k] = "starting"
      BY <1>g, <2>1, <2>2 DEF Open
    <3>2. \A j \in Open(line') : j = k
      BY <1>g, <2>1, <3>1 DEF Open, HeldForAnother
    <3> QED BY <2>2, <3>1, <3>2
  <2>3. \A k \in Open(line') : line'[k] = line[k] => k \in Open(line)
    BY DEF Open
  <2> QED BY <2>1, <2>2, <2>3
<1>i. Stopping => look.line \in Open(line) /\ look.line # l /\ look.line \notin Held(line)
  BY DEF ClaimIsOpen, Open, Held
<1>1. TypeOK'
  BY <1>b, <1>f, <1>g DEF TypeOK, PC
<1>2. DownHoldsNothing' /\ ReadHasTick'
  BY <1>b DEF DownHoldsNothing, ReadHasTick
<1>3. FreshIsUntouched'
  BY <1>g DEF FreshIsUntouched
<1>4. HeldIsNotFired'
  <2>1. \A k \in Held(line') : k \in Lines /\ k # l /\ line'[k].waiting
    BY <1>c, <1>g DEF Held
  <2> QED BY <1>g, <2>1 DEF HeldIsNotFired
<1>5. HeldForAnother'
  BY <1>g DEF HeldForAnother
<1>6. ClaimIsOpen'
  <2> SUFFICES ASSUME Stopping' PROVE ClaimIsOpen'
    BY DEF ClaimIsOpen
  <2>1. Stopping /\ look' = look
    BY <1>b DEF Stopping
  <2>2. line'[look.line] = line[look.line] /\ pc'[look.line] = pc[look.line] /\ look.line \in Lines
    BY <1>g, <1>i, <2>1 DEF Open
  <2> QED BY <2>1, <2>2 DEF ClaimIsOpen, Open
<1>7. FiringFits'
  <2>1. \A k \in Held(line) : k \in Lines /\ turn[k] = "none"
    BY DEF HeldIsNotFired, Held
  <2> QED BY <1>g, <2>1 DEF FiringFits
<1>8. OpenLineIsFollowed'
  <2> SUFFICES ASSUME NEW k \in Open(line'), pc'[k] \notin {"starting", "following"}
               PROVE  look'.phase \in {"stopping", "draining"} /\ look'.line = k
    BY DEF OpenLineIsFollowed
  <2>1. k \in Open(line) /\ pc'[k] = pc[k]
    BY <1>h
  <2>2. look.phase \in {"stopping", "draining"} /\ look.line = k
    BY <2>1 DEF OpenLineIsFollowed
  <2> QED BY <1>b, <2>2
<1>9. ApartInv'
  <2> SUFFICES ASSUME Overlaps \subseteq {"skip", "wait"} PROVE ApartInv'
    BY DEF ApartInv
  <2>1. ~ Stopping /\ overlap \in Overlaps /\ (look.phase = "read" => look.overlap \in Overlaps)
    BY DEF ApartInv
  <2>2. ~ Stopping' /\ overlap' \in Overlaps /\ (look'.phase = "read" => look'.overlap \in Overlaps)
    BY <1>b, <2>1 DEF Stopping
  <2>3. ASSUME NEW k \in Lines, AtWork(k)' PROVE k \in Open(line')
    <3>1. k # l
      BY <1>g, <2>3 DEF AtWork
    <3>2. CASE line'[k] = line[k] /\ pc'[k] = pc[k]
      BY <2>3, <3>2 DEF ApartInv, AtWork, Open
    <3>3. CASE /\ k \in Held(line) /\ ~ line'[k].waiting
               /\ \/ line'[k].status = "queued" /\ pc'[k] = "starting"
                  \/ line'[k].status = "skipped" /\ pc'[k] = pc[k]
      BY <2>3, <3>3 DEF AtWork, HeldIsNotFired, Open
    <3> QED BY <1>g, <3>1, <3>2, <3>3
  <2>4. \A k, m \in Open(line') :
          line'[k].trigger = "schedule" /\ line'[m].trigger = "schedule" => k = m
    BY <1>h DEF ApartInv
  <2> QED BY <2>2, <2>3, <2>4 DEF ApartInv
<1> QED BY <1>1, <1>2, <1>3, <1>4, <1>5, <1>6, <1>7, <1>8, <1>9, <1>f

\* A target that cannot start.
LEMMA StartFailsStep ==
  ASSUME IInv, up, NEW l \in Lines, StartFails(l)
  PROVE  IInv'
<1>1. turn[l] # "going"
  BY DEF IInv, FiringFits, StartFails
<1>2. look' = look \/ (look' = NoLook /\ look.phase = "starting")
  BY DEF StartFails, LookGoesOn
<1> QED BY <1>1, <1>2, SettleStep DEF StartFails

\* The follow-up of a run that ended.
LEMMA FollowedStep ==
  ASSUME IInv, up, NEW l \in Lines, Followed(l)
  PROVE  IInv'
<1>1. turn[l] \in Ended /\ turn[l] # "going"
  BY DEF Followed
<1> QED BY <1>1, SettleStep DEF Followed

\* The session took the prompt: the line runs, unless it was settled meanwhile.
LEMMA StartedStep ==
  ASSUME IInv, up, NEW l \in Lines, Started(l)
  PROVE  IInv'
<1> USE DEF IInv
<1>a. /\ pc[l] = "starting" /\ turn' = [turn EXCEPT ![l] = "going"]
      /\ pc' = [pc EXCEPT ![l] = "following"]
      /\ UNCHANGED <<rowVars, next, count, up, asked, clock, restarts>>
  BY DEF Started
<1>b. look' \in LookType /\ look'.phase \in {look.phase, "idle"} /\ (look'.phase # "idle" => look' = look)
  <2>1. look \in LookType /\ NoLook \in LookType /\ NoLook.phase = "idle"
    BY DEF TypeOK, LookType, NoLook
  <2>2. look' = look \/ look' = NoLook
    BY DEF Started, LookGoesOn
  <2> HIDE DEF IInv
  <2> QED BY <2>1, <2>2
<1>c. /\ pc \in [Lines -> PC] /\ turn \in [Lines -> {"none", "going"} \cup Ended]
      /\ line \in [Lines -> LineType]
  BY DEF TypeOK, PC
<1>d. /\ line' \in [Lines -> LineType]
      /\ \A k \in Lines : k # l => line'[k] = line[k]
      /\ \/ line'[l] = line[l]
         \/ line[l].status = "queued" /\ line'[l].status = "running"
      /\ line[l].status = "queued" => line'[l].status = "running"
      /\ line'[l].waiting = line[l].waiting /\ line'[l].trigger = line[l].trigger
  <2>1. line' = IF line[l].status = "queued"
                THEN [line EXCEPT ![l].status = "running", ![l].linked = TRUE] ELSE line
    BY DEF Started
  <2> HIDE DEF IInv
  <2> QED BY <1>c, <2>1
<1>e. /\ pc'[l] = "following" /\ turn'[l] = "going"
      /\ \A k \in Lines : k # l => pc'[k] = pc[k] /\ turn'[k] = turn[k]
  BY <1>a, <1>c
<1>f. turn[l] = "none" /\ line[l].status # "running" /\ line[l].status # "none" /\ l \notin Held(line)
  BY <1>a DEF FiringFits, FreshIsUntouched, HeldIsNotFired
<1>g. Open(line') = Open(line) /\ Held(line') = Held(line)
  BY <1>d, <1>f DEF Open, Held
<1>1. TypeOK'
  BY <1>a, <1>b, <1>c, <1>d DEF TypeOK
<1>2. DownHoldsNothing' /\ ReadHasTick' /\ LimitEndsSchedule'
  BY <1>a, <1>b DEF DownHoldsNothing, ReadHasTick, LimitEndsSchedule, Exhausted
<1>3. FreshIsUntouched'
  BY <1>d, <1>e, <1>f DEF FreshIsUntouched
<1>4. HeldIsNotFired'
  BY <1>e, <1>f, <1>g DEF HeldIsNotFired, Held
<1>5. HeldForAnother'
  BY <1>a, <1>g DEF HeldForAnother
<1>6. ClaimIsOpen'
  <2> SUFFICES ASSUME Stopping' PROVE ClaimIsOpen'
    BY DEF ClaimIsOpen
  <2>1. Stopping /\ look' = look
    BY <1>b DEF Stopping
  <2>2. look.line \in Lines /\ look.line # l
    BY <1>a, <2>1 DEF ClaimIsOpen, Open
  <2> QED BY <1>d, <1>e, <1>g, <2>1, <2>2 DEF ClaimIsOpen
<1>7. FiringFits'
  BY <1>a, <1>d, <1>e, <1>f DEF FiringFits
<1>8. OpenLineIsFollowed'
  <2> SUFFICES ASSUME NEW k \in Open(line), k # l, pc[k] \notin {"starting", "following"}
               PROVE  look'.phase \in {"stopping", "draining"} /\ look'.line = k
    BY <1>e, <1>g DEF OpenLineIsFollowed, Open
  <2>1. look.phase \in {"stopping", "draining"} /\ look.line = k
    BY DEF OpenLineIsFollowed
  <2>2. look.phase # "starting" => look' = look
    BY DEF Started, LookGoesOn
  <2> QED BY <2>1, <2>2
<1>9. ApartInv'
  <2> SUFFICES ASSUME Overlaps \subseteq {"skip", "wait"} PROVE ApartInv'
    BY DEF ApartInv
  <2>1. /\ ~ Stopping /\ overlap \in Overlaps /\ (look.phase = "read" => look.overlap \in Overlaps)
        /\ \A k \in Lines : AtWork(k) => k \in Open(line)
    BY DEF ApartInv
  <2>2. ~ Stopping' /\ overlap' \in Overlaps /\ (look'.phase = "read" => look'.overlap \in Overlaps)
    BY <1>a, <1>b, <2>1 DEF Stopping
  <2>3. \A k \in Lines : AtWork(k)' => k \in Open(line')
    BY <1>a, <1>e, <1>g, <2>1 DEF AtWork
  <2>4. \A k \in Open(line) : k \in Lines /\ line'[k].trigger = line[k].trigger
    BY <1>d DEF Open
  <2>5. \A k, m \in Open(line') :
          line'[k].trigger = "schedule" /\ line'[m].trigger = "schedule" => k = m
    BY <1>g, <2>4 DEF ApartInv
  <2> QED BY <2>2, <2>3, <2>5 DEF ApartInv
<1> QED BY <1>1, <1>2, <1>3, <1>4, <1>5, <1>6, <1>7, <1>8, <1>9

\* The session's run ends; nobody has heard of it yet.
LEMMA RunEndsStep ==
  ASSUME IInv, up, NEW l \in Lines, RunEnds(l)
  PROVE  IInv'
<1> USE DEF IInv
<1> PICK status \in Ended : turn' = [turn EXCEPT ![l] = status]
  BY DEF RunEnds
<1>a. turn[l] = "going" /\ UNCHANGED <<rowVars, next, count, line, look, pc, up, asked, clock, restarts>>
  BY DEF RunEnds
<1>b. turn' \in [Lines -> {"none", "going"} \cup Ended]
  BY DEF TypeOK
<1>c. turn'[l] = status /\ \A k \in Lines : k # l => turn'[k] = turn[k]
  BY DEF TypeOK
<1>d. \A k \in Lines : /\ turn'[k] = "going" => turn[k] = "going"
                      /\ turn'[k] = "none" <=> turn[k] = "none"
  BY <1>a, <1>c
<1>1. TypeOK'
  BY <1>a, <1>b DEF TypeOK
<1>2. DownHoldsNothing' /\ HeldForAnother' /\ ReadHasTick' /\ LimitEndsSchedule' /\ OpenLineIsFollowed'
  BY <1>a DEF DownHoldsNothing, HeldForAnother, ReadHasTick, LimitEndsSchedule, Exhausted,
              OpenLineIsFollowed
<1>3. FreshIsUntouched' /\ FiringFits'
  BY <1>a, <1>d DEF FreshIsUntouched, FiringFits
<1>4. HeldIsNotFired' /\ ClaimIsOpen'
  BY <1>a, <1>d DEF HeldIsNotFired, ClaimIsOpen, Stopping, Held, Open
<1>5. ApartInv'
  BY <1>a, <1>d DEF ApartInv, AtWork, Stopping
<1> QED BY <1>1, <1>2, <1>3, <1>4, <1>5

\* A person runs the schedule now.
LEMMA RunNowStep ==
  ASSUME IInv, up, RunNow
  PROVE  IInv'
<1> USE DEF IInv
<1> DEFINE Manual(tick) == [trigger |-> "manual", tick |-> tick, status |-> "queued",
                            waiting |-> FALSE, linked |-> FALSE]
<1> PICK l \in Fresh, tick \in {None} \cup {t \in {clock} : ~ Taken(t)} :
      /\ line' = [line EXCEPT ![l] = Manual(tick)]
      /\ pc' = [pc EXCEPT ![l] = "starting"]
  BY DEF RunNow
<1>0. /\ l \in Lines /\ line[l].status = "none" /\ l \notin Open(line) /\ l \notin Held(line)
      /\ pc[l] = "none" /\ turn[l] = "none"
  BY FreshUntouched
<1>a. UNCHANGED <<rowVars, next, count, turn, look, up, asked, clock, restarts>>
  BY DEF RunNow
<1>b. Manual(tick) \in LineType
  BY DEF TypeOK
<1>c. /\ line' \in [Lines -> LineType] /\ pc' \in [Lines -> PC]
      /\ line'[l] = Manual(tick) /\ pc'[l] = "starting"
      /\ \A k \in Lines : k # l => line'[k] = line[k] /\ pc'[k] = pc[k]
  BY <1>0, <1>b DEF TypeOK, PC
<1>d. Open(line') = Open(line) \cup {l} /\ Held(line') = Held(line)
  BY <1>0, <1>c DEF Open, Held
<1>1. TypeOK'
  BY <1>a, <1>c DEF TypeOK, PC
<1>2. DownHoldsNothing' /\ ReadHasTick' /\ LimitEndsSchedule'
  BY <1>a DEF DownHoldsNothing, ReadHasTick, LimitEndsSchedule, Exhausted
<1>3. FreshIsUntouched' /\ FiringFits'
  BY <1>0, <1>a, <1>c DEF FreshIsUntouched, FiringFits
<1>4. HeldIsNotFired' /\ HeldForAnother'
  <2>1. \A k \in Held(line) : k \in Lines /\ k # l
    BY <1>0 DEF Held
  <2>2. HeldIsNotFired'
    BY <1>a, <1>c, <1>d, <2>1 DEF HeldIsNotFired
  <2>3. HeldForAnother'
    BY <1>a, <1>d DEF HeldForAnother
  <2> QED BY <2>2, <2>3
<1>5. ClaimIsOpen'
  BY <1>0, <1>a, <1>c, <1>d DEF ClaimIsOpen, Stopping, Open
<1>6. OpenLineIsFollowed'
  BY <1>0, <1>a, <1>c, <1>d DEF OpenLineIsFollowed, Open
<1>7. ApartInv'
  <2>1. \A k \in Open(line) : k \in Lines /\ k # l
    BY <1>0 DEF Open
  <2>2. line'[l].trigger = "manual"
    BY <1>c
  <2> SUFFICES ASSUME Overlaps \subseteq {"skip", "wait"} PROVE ApartInv'
    BY DEF ApartInv
  <2>3. /\ ~ Stopping' /\ overlap' \in Overlaps
        /\ look'.phase = "read" => look'.overlap \in Overlaps
    BY <1>a DEF ApartInv, Stopping
  <2>4. \A k \in Lines : AtWork(k)' => k \in Open(line')
    BY <1>a, <1>c, <1>d DEF ApartInv, AtWork
  <2>5. \A k, m \in Open(line') :
          line'[k].trigger = "schedule" /\ line'[m].trigger = "schedule" => k = m
    BY <1>c, <1>d, <2>1, <2>2 DEF ApartInv
  <2> QED BY <2>3, <2>4, <2>5 DEF ApartInv
<1> QED BY <1>1, <1>2, <1>3, <1>4, <1>5, <1>6, <1>7

\* A person edits the schedule: only its row moves.
LEMMA EditStep ==
  ASSUME IInv, up, Edit
  PROVE  IInv'
<1> USE DEF IInv
<1>a. /\ enabled' \in BOOLEAN /\ overlap' \in Overlaps /\ catchUp' \in CatchUps
      /\ next' = NextFor(enabled', count, clock)
      /\ UNCHANGED <<count, line, turn, look, pc, up, asked, clock, restarts>>
  BY DEF Edit
<1>1. TypeOK'
  <2>1. next' \in Nat \cup {None}
    BY <1>a DEF NextFor, TypeOK
  <2> QED BY <1>a, <2>1, OptionsAssumption DEF TypeOK
<1>2. /\ DownHoldsNothing' /\ FreshIsUntouched' /\ HeldIsNotFired' /\ HeldForAnother' /\ ReadHasTick'
      /\ ClaimIsOpen' /\ FiringFits' /\ OpenLineIsFollowed'
  BY <1>a DEF DownHoldsNothing, FreshIsUntouched, HeldIsNotFired, HeldForAnother, ReadHasTick,
              ClaimIsOpen, FiringFits, OpenLineIsFollowed, Stopping
<1>3. LimitEndsSchedule'
  BY <1>a DEF LimitEndsSchedule, Exhausted, NextFor
<1>4. ApartInv'
  BY <1>a DEF ApartInv, AtWork, Stopping
<1> QED BY <1>1, <1>2, <1>3, <1>4

\* The hub stops: the process lets go of everything, the database stays as it is.
LEMMA CrashStep ==
  ASSUME IInv, Crash
  PROVE  IInv'
<1> USE DEF IInv
<1>a. /\ up' = FALSE /\ look' = NoLook /\ restarts' = restarts + 1
      /\ pc' = [k \in Lines |-> IF pc[k] = "none" THEN "none" ELSE "over"]
      /\ UNCHANGED <<rowVars, next, count, line, turn, asked, clock>>
  BY DEF Crash
<1>b. look'.phase = "idle" /\ look' \in LookType
  BY <1>a DEF NoLook, LookType, TypeOK
<1>c. \A k \in Lines : pc'[k] \in {"none", "over"} /\ (pc[k] = "none" => pc'[k] = "none")
  BY <1>a
<1>1. TypeOK'
  <2>1. pc' \in [Lines -> {"none", "starting", "following", "over"}]
    BY <1>a
  <2>2. TypeOK /\ restarts \in Nat
    BY DEF TypeOK
  <2> HIDE DEF IInv
  <2>3. restarts' \in Nat
    BY <1>a, <2>2
  <2>4. up' \in BOOLEAN
    BY <1>a
  <2> QED BY <1>a, <1>b, <2>1, <2>2, <2>3, <2>4 DEF TypeOK
<1>2. DownHoldsNothing' /\ ReadHasTick' /\ ClaimIsOpen' /\ OpenLineIsFollowed'
  BY <1>a, <1>b, <1>c DEF DownHoldsNothing, ReadHasTick, ClaimIsOpen, Stopping, OpenLineIsFollowed
<1>3. FreshIsUntouched' /\ HeldIsNotFired' /\ HeldForAnother' /\ FiringFits'
  BY <1>a, <1>c DEF FreshIsUntouched, HeldIsNotFired, HeldForAnother, FiringFits, Held
<1>4. LimitEndsSchedule'
  BY <1>a DEF LimitEndsSchedule, Exhausted
<1>5. ApartInv'
  BY <1>a, <1>b DEF ApartInv, Stopping
<1> QED BY <1>1, <1>2, <1>3, <1>4, <1>5

\* The clock.
LEMMA TickStep ==
  ASSUME IInv, Tick
  PROVE  IInv'
<1> USE DEF IInv, Tick
<1>1. TypeOK'
  BY DEF TypeOK
<1>2. /\ DownHoldsNothing' /\ FreshIsUntouched' /\ HeldIsNotFired' /\ HeldForAnother' /\ ReadHasTick'
      /\ ClaimIsOpen' /\ FiringFits' /\ OpenLineIsFollowed'
  BY DEF DownHoldsNothing, FreshIsUntouched, HeldIsNotFired, HeldForAnother, ReadHasTick,
         ClaimIsOpen, FiringFits, OpenLineIsFollowed, Stopping
<1>3. LimitEndsSchedule' /\ ApartInv'
  BY DEF LimitEndsSchedule, Exhausted, ApartInv, AtWork, Stopping
<1> QED BY <1>1, <1>2, <1>3

\* The hub starts again: every open line is settled, and the time held back starts or is
\* missed.
LEMMA BootStep ==
  ASSUME IInv, Boot
  PROVE  IInv'
<1> USE DEF IInv
<1> DEFINE ending == [k \in Lines |-> IF line[k].linked THEN Outcome(k) ELSE "failed"]
           ls == [k \in Lines |-> IF k \in Open(line)
                                  THEN [line[k] EXCEPT !.status = ending[k]] ELSE line[k]]
           wins == {k \in Open(line) : ending[k] = "succeeded"}
<1>a. /\ ~ up /\ up' /\ turn' = [k \in Lines |-> Outcome(k)] /\ Counted(Cardinality(wins))
      /\ UNCHANGED <<rowVars, look, asked, clock, restarts>>
  BY DEF Boot
<1>b. look.phase = "idle" /\ look'.phase = "idle" /\ \A k \in Lines : pc[k] \in {"none", "over"}
  BY <1>a DEF DownHoldsNothing
<1>c. /\ turn' \in [Lines -> {"none", "going"} \cup Ended]
      /\ \A k \in Lines : turn'[k] # "going" /\ (turn'[k] = "none" <=> turn[k] = "none")
  BY <1>a DEF Outcome, TypeOK
<1>d. \A k \in Open(line) : k \in Lines /\ ending[k] \in Ended
  BY DEF Open, Outcome, FiringFits, TypeOK
<1>e. /\ ls \in [Lines -> LineType]
      /\ \A k \in Lines : /\ k \notin Open(line) => ls[k] = line[k]
                          /\ k \in Open(line) => ls[k].status \in Ended /\ line[k].status # "none"
                          /\ ls[k].linked = line[k].linked
  <2> HIDE DEF ending
  <2>1. line \in [Lines -> LineType] /\ \A k \in Open(line) : line[k].status # "none"
    BY DEF TypeOK, Open
  <2> HIDE DEF IInv
  <2> QED BY <1>d, <2>1
<1>f. Open(ls) = {} /\ Held(ls) = Held(line)
  <2> HIDE DEF ls, IInv
  <2>1. \A k \in Held(line) : k \notin Open(line)
    BY DEF Open, Held
  <2> QED BY <1>e, <2>1 DEF Open, Held
<1>g. count' \in Nat /\ next' \in Nat \cup {None} /\ LimitEndsSchedule'
  <2>1. Cardinality(wins) \in Nat
    <3>1. IsFiniteSet(Lines)
      BY FS_Interval, BoundsAssumption
    <3>2. wins \subseteq Lines
      BY DEF Open
    <3> HIDE DEF wins
    <3> QED BY <3>1, <3>2, FS_Subset, FS_CardinalityType
  <2> HIDE DEF wins
  <2> QED BY <1>a, <2>1, CountedEffect DEF TypeOK
\* What is left of every line, whether the time held back is missed or released.
<1>h. /\ line' \in [Lines -> LineType] /\ pc' \in [Lines -> PC]
      /\ \A k \in Lines :
           \/ line'[k] = ls[k] /\ pc'[k] = pc[k]
           \/ /\ k \in Held(line) /\ ~ line'[k].waiting /\ line'[k].linked = line[k].linked
              /\ \/ line'[k].status = "queued" /\ pc'[k] = "starting"
                 \/ line'[k].status = "skipped" /\ pc'[k] = pc[k]
      /\ Held(line') \subseteq Held(line)
      /\ Held(line') # {} => Open(line') # {}
  <2>0. pc \in [Lines -> PC] /\ \A j, k \in Held(line) : j = k
    BY DEF TypeOK, PC, HeldForAnother
  <2>1. CASE /\ line' = [k \in Lines |->
                           IF k \in Held(ls)
                           THEN [ls[k] EXCEPT !.status = "skipped", !.waiting = FALSE] ELSE ls[k]]
             /\ UNCHANGED pc
    <3> HIDE DEF ls, IInv
    <3>1. \A k \in Lines : [ls[k] EXCEPT !.status = "skipped", !.waiting = FALSE] \in LineType
      BY ZenonT(30), <1>e
    <3>2. line' \in [Lines -> LineType]
      BY <1>e, <2>1, <3>1
    <3>3. \A k \in Lines :
             \/ line'[k] = ls[k] /\ k \notin Held(line)
             \/ /\ k \in Held(line) /\ ~ line'[k].waiting /\ line'[k].linked = line[k].linked
                /\ line'[k].status = "skipped"
      BY <1>e, <1>f, <2>1
    <3>4. Held(line') = {}
      BY <1>f, <3>3 DEF Held
    <3> QED BY <2>0, <2>1, <3>2, <3>3, <3>4
  <2>2. CASE Release(ls, pc)
    <3> HIDE DEF ls, IInv
    <3>1. \A j, k \in Held(ls) : j = k
      BY <1>f, <2>0
    <3>2. /\ line' \in [Lines -> LineType] /\ pc' \in [Lines -> PC]
          /\ \A k \in Lines : \/ line'[k] = ls[k] /\ pc'[k] = pc[k]
                              \/ /\ k \in Held(ls) /\ Open(ls) = {} /\ ~ line'[k].waiting
                                 /\ line'[k].linked = ls[k].linked
                                 /\ \/ line'[k].status = "queued" /\ pc'[k] = "starting"
                                    \/ line'[k].status = "skipped" /\ pc'[k] = pc[k]
          /\ Held(line') \subseteq Held(ls)
          /\ Held(line') # {} => Open(line') # {}
      BY <1>e, <2>0, <2>2, <3>1, ReleaseEffect
    <3> QED BY <1>e, <1>f, <3>2
  <2> QED BY <2>1, <2>2 DEF Boot
<1> HIDE DEF ls, ending, wins
\* Nothing is open but the time that was held back.
<1>i. /\ \A k \in Open(line') : k \in Lines /\ k \in Held(line) /\ pc'[k] = "starting"
      /\ \A k \in Lines : pc'[k] = "starting" => k \in Open(line') /\ line'[k].status = "queued"
  <2>1. \A k \in Lines : line'[k] = ls[k] => k \notin Open(line')
    BY <1>f DEF Open
  <2>2. \A k \in Open(line') : k \in Lines /\ line'[k].status # "skipped"
    BY DEF Open
  <2> HIDE DEF IInv
  <2>3. \A k \in Open(line') : k \in Lines /\ k \in Held(line) /\ pc'[k] = "starting"
    BY <1>h, <2>1, <2>2
  <2>4. \A k \in Lines : pc'[k] = "starting" => k \in Open(line') /\ line'[k].status = "queued"
    BY <1>b, <1>h DEF Open
  <2> QED BY <2>3, <2>4
<1>1. TypeOK'
  BY <1>a, <1>c, <1>g, <1>h DEF TypeOK, PC
<1>2. DownHoldsNothing' /\ ReadHasTick' /\ ClaimIsOpen'
  BY <1>a, <1>b DEF DownHoldsNothing, ReadHasTick, ClaimIsOpen, Stopping
<1>3. FreshIsUntouched'
  <2>1. ASSUME NEW k \in Lines, line'[k].status = "none" PROVE line[k].status = "none" /\ pc'[k] = pc[k]
    BY <1>e, <1>h, <2>1
  <2> QED BY <1>c, <2>1 DEF FreshIsUntouched
<1>4. HeldIsNotFired'
  <2>1. \A k \in Held(line') : k \in Lines /\ k \in Held(line) /\ line'[k].waiting
    BY <1>h DEF Held
  <2> QED BY <1>c, <1>h, <2>1 DEF HeldIsNotFired
<1>5. HeldForAnother'
  BY <1>h DEF HeldForAnother
<1>6. FiringFits'
  <2>1. ASSUME NEW k \in Lines, pc'[k] = "starting" PROVE turn'[k] = "none"
    BY <1>c, <1>b, <1>h, <2>1 DEF HeldIsNotFired
  <2>2. \A k \in Lines : line'[k].linked => turn'[k] # "none"
    BY <1>c, <1>e, <1>h DEF FiringFits
  <2> QED BY <1>c, <1>i, <2>1, <2>2 DEF FiringFits
<1>7. OpenLineIsFollowed'
  BY <1>i DEF OpenLineIsFollowed
<1>8. ApartInv'
  <2> SUFFICES ASSUME Overlaps \subseteq {"skip", "wait"} PROVE ApartInv'
    BY DEF ApartInv
  <2>1. overlap' \in Overlaps /\ ~ Stopping' /\ look'.phase # "read"
    BY <1>a, <1>b DEF ApartInv, Stopping
  <2>2. \A k \in Lines : AtWork(k)' => k \in Open(line')
    BY <1>c, <1>i DEF AtWork
  <2>3. \A j, k \in Open(line') : j = k
    BY <1>i DEF HeldForAnother
  <2> QED BY <2>1, <2>2, <2>3 DEF ApartInv
<1> QED BY <1>1, <1>2, <1>3, <1>4, <1>5, <1>6, <1>7, <1>8, <1>g

-----------------------------------------------------------------------------
(* The theorems.                                                             *)

\* A new schedule satisfies the invariant.
LEMMA InitInv == Init => IInv
<1> SUFFICES ASSUME Init PROVE IInv
  OBVIOUS
<1> USE DEF Init
<1>1. NoLine \in LineType /\ NoLook \in LookType /\ NoLook.phase = "idle"
      /\ NoLine.status = "none" /\ ~ NoLine.linked
  BY DEF NoLine, NoLook, LookType
<1>2. Open(line) = {} /\ Held(line) = {}
  BY <1>1 DEF Open, Held
<1>3. TypeOK
  BY <1>1, OptionsAssumption DEF TypeOK
<1>4. /\ DownHoldsNothing /\ FreshIsUntouched /\ HeldIsNotFired /\ HeldForAnother /\ ReadHasTick
      /\ ClaimIsOpen /\ OpenLineIsFollowed
  BY <1>1, <1>2 DEF DownHoldsNothing, FreshIsUntouched, HeldIsNotFired, HeldForAnother, ReadHasTick,
                    ClaimIsOpen, Stopping, OpenLineIsFollowed
<1>5. FiringFits
  BY <1>1 DEF FiringFits
<1>6. LimitEndsSchedule
  BY LimitAssumption, NoneAssumption DEF LimitEndsSchedule, Exhausted
<1>7. ApartInv
  BY <1>1, <1>2 DEF ApartInv, AtWork, Stopping
<1> QED BY <1>3, <1>4, <1>5, <1>6, <1>7 DEF IInv

\* Every step keeps it, one lemma for each action.
LEMMA StepInv == IInv /\ [Next]_vars => IInv'
<1> SUFFICES ASSUME IInv, [Next]_vars PROVE IInv'
  OBVIOUS
<1>1. ASSUME up, Scheduler PROVE IInv'
  BY <1>1, LookStep, ClaimLostStep, ClaimStep, StopNextStep, StopRestStep, StopOverStep DEF Scheduler
<1>2. ASSUME up, NEW l \in Lines, Firing(l) PROVE IInv'
  BY <1>2, StartedStep, StartFailsStep, RunEndsStep, FollowedStep DEF Firing
<1>3. CASE UNCHANGED vars
  BY <1>3 DEF vars, IInv, TypeOK, DownHoldsNothing, FreshIsUntouched, HeldIsNotFired, HeldForAnother,
              ReadHasTick, ClaimIsOpen, FiringFits, OpenLineIsFollowed, LimitEndsSchedule, Exhausted,
              ApartInv, AtWork, Stopping
<1> QED BY <1>1, <1>2, <1>3, RunNowStep, EditStep, CrashStep, BootStep, TickStep DEF Next, Work

\* The invariant holds of every reachable state, for any limits, graces and bounds.
THEOREM ScheduleInvariance == Spec => []IInv
BY InitInv, StepInv, PTL DEF Spec

\* No await leaves the schedule's row, its history or a look in a state the code that resumes
\* does not expect.
THEOREM ScheduleTypes == Spec => []TypeOK
<1>1. IInv => TypeOK
  BY DEF IInv
<1> QED BY <1>1, ScheduleInvariance, PTL

\* At most one time is held back, and never for a run that is over.
THEOREM HeldOnlyForAnother == Spec => []HeldForAnother
<1>1. IInv => HeldForAnother
  BY DEF IInv
<1> QED BY <1>1, ScheduleInvariance, PTL

\* No line stays open with nobody to settle it.
THEOREM OpenFollowed == Spec => []OpenLineIsFollowed
<1>1. IInv => OpenLineIsFollowed
  BY DEF IInv
<1> QED BY <1>1, ScheduleInvariance, PTL

\* The limit reached ends the schedule.
THEOREM LimitHolds == Spec => []LimitEndsSchedule
<1>1. IInv => LimitEndsSchedule
  BY DEF IInv
<1> QED BY <1>1, ScheduleInvariance, PTL

\* With `skip` and `wait` the schedule's own times never run side by side.
THEOREM Apart ==
  ASSUME Overlaps \subseteq {"skip", "wait"}
  PROVE  Spec => []RunsApart
<1>1. IInv => RunsApart
  BY DEF IInv, ApartInv, RunsApart
<1> QED BY <1>1, ScheduleInvariance, PTL

\* A line is settled once: what has ended is left alone by whoever comes late.
LEMMA EndedStays ==
  ASSUME IInv, [Next]_vars, NEW l \in Lines, line[l].status \in Ended \cup {"skipped"}
  PROVE  line'[l] = line[l]
<1>a. /\ line \in [Lines -> LineType] /\ l \notin Open(line) /\ l \notin Held(line) /\ l \notin Fresh
      /\ \A j, k \in Held(line) : j = k
  BY DEF IInv, TypeOK, Open, Held, Fresh, HeldForAnother
<1>1. CASE Claim \/ RunNow
  BY <1>1, <1>a DEF Claim, RunNow
<1>2. CASE StopNext
  <2>1. look.todo \subseteq Lines
    BY DEF IInv, TypeOK, LookType
  <2> QED BY <1>2, <1>a, <2>1, ReplacedEffect DEF StopNext
<1>3. CASE StopRest
  <2>1. look.todo \subseteq Lines
    BY DEF IInv, TypeOK, LookType
  <2>2. Replaced(line, look.todo)[l] = line[l]
    BY <1>a, <2>1, ReplacedEffect
  <2> QED BY <1>3, <1>a, <2>2 DEF StopRest, Held
<1>4. ASSUME NEW k \in Lines, Started(k) PROVE line'[l] = line[l]
  BY <1>4, <1>a DEF Started
<1>5. ASSUME NEW k \in Lines, StartFails(k) \/ Followed(k) PROVE line'[l] = line[l]
  <2> DEFINE p == [pc EXCEPT ![k] = "over"]
  <2>1. PICK status \in Ended : Settle(k, status, p)
    BY <1>5 DEF StartFails, Followed
  <2>2. CASE line[k].status \in Going /\ Release([line EXCEPT ![k].status = status], p)
    <3> DEFINE ls == [line EXCEPT ![k].status = status]
    <3>1. pc[k] \in {"starting", "following"}
      BY <1>5 DEF StartFails, Followed
    <3>2. ls \in [Lines -> LineType] /\ p \in [Lines -> PC] /\ ls[l] = line[l]
      BY <1>a, <2>2 DEF IInv, TypeOK, PC
    <3>3. Held(ls) \subseteq Held(line)
      BY <1>a, <2>2 DEF Held
    <3>4. Release(ls, p) /\ \A i, j \in Held(ls) : i = j
      BY <1>a, <2>2, <3>3
    <3> HIDE DEF ls, p
    <3>5. \A j \in Lines : line'[j] = ls[j] \/ j \in Held(ls)
      BY <3>2, <3>4, ReleaseEffect
    <3> QED BY <1>a, <3>2, <3>3, <3>5
  <2>3. CASE line[k].status \notin Going /\ UNCHANGED line
    BY <2>3
  <2> QED BY <2>1, <2>2, <2>3 DEF Settle
<1>6. CASE Boot
  <2> DEFINE ending == [k \in Lines |-> IF line[k].linked THEN Outcome(k) ELSE "failed"]
             ls == [k \in Lines |-> IF k \in Open(line)
                                    THEN [line[k] EXCEPT !.status = ending[k]] ELSE line[k]]
  <2>1. ls[l] = line[l] /\ l \notin Held(ls) /\ DOMAIN ls = Lines
    BY <1>a DEF Held
  <2>2. CASE line' = [k \in Lines |->
                        IF k \in Held(ls)
                        THEN [ls[k] EXCEPT !.status = "skipped", !.waiting = FALSE] ELSE ls[k]]
    <3> HIDE DEF ls
    <3> QED BY <2>1, <2>2
  <2>3. CASE Release(ls, pc)
    <3> HIDE DEF ls
    <3> QED BY <2>1, <2>3 DEF Release
  <2> QED BY <1>6, <2>2, <2>3 DEF Boot
<1>7. CASE UNCHANGED line
  BY <1>7
<1>8. ASSUME Look \/ ClaimLost \/ StopOver \/ Edit \/ Crash \/ Tick \/ UNCHANGED vars PROVE UNCHANGED line
  BY <1>8 DEF Look, ClaimLost, StopOver, Edit, Crash, Tick, vars
<1>9. ASSUME NEW k \in Lines, RunEnds(k) PROVE UNCHANGED line
  BY <1>9 DEF RunEnds
<1> QED BY <1>1, <1>2, <1>3, <1>4, <1>5, <1>6, <1>7, <1>8, <1>9 DEF Next, Work, Scheduler, Firing

\* The history is final: neither the follow-up, nor a stop, nor a start, nor the restart
\* rewrites the end of a line.
THEOREM HistoryFinal == Spec => HistoryIsFinal
<1>1. IInv /\ [Next]_vars =>
        [\A l \in Lines : line[l].status \in Ended \cup {"skipped"} => line'[l] = line[l]]_vars
  BY EndedStays
<1> QED BY <1>1, ScheduleInvariance, PTL DEF Spec, HistoryIsFinal

-----------------------------------------------------------------------------
(* The history: HistoryInv is kept as well, and every step is one that the   *)
(* abstract history allows.                                                  *)

USE DEF Told!Ended, Told!Moves

\* What a line keeps for ever.
Stays(k) ==
  /\ line'[k].tick = line[k].tick /\ line'[k].trigger = line[k].trigger
  /\ line'[k].status = "none" <=> line[k].status = "none"
  /\ line'[k].waiting => line'[k].status # "running" /\ line[k].waiting

\* A step that writes no line: each stays or goes on, and what wins is counted.
GoesOn ==
  /\ \A k \in Lines : Stays(k) /\ Told!Goes(k)
  /\ count' = count + Cardinality(Winners(line') \ Winners(line))

LEMMA WinnersFinite ==
  ASSUME NEW ls
  PROVE  Winners(ls) \subseteq Lines /\ IsFiniteSet(Winners(ls)) /\ Cardinality(Winners(ls)) \in Nat
<1>1. IsFiniteSet(Lines)
  BY FS_Interval, BoundsAssumption
<1>2. Winners(ls) \subseteq Lines
  BY DEF Winners
<1> HIDE DEF Winners
<1> QED BY <1>1, <1>2, FS_Subset, FS_CardinalityType

\* The reader's words for the sets of the code.
LEMMA ShownFits ==
  ASSUME NEW ls \in [Lines -> LineType], NEW k \in Lines,
         ls[k].waiting => ls[k].status # "running"
  PROVE  /\ Shown(ls[k]) = "open" <=> k \in Open(ls)
         /\ Shown(ls[k]) = "held" <=> k \in Held(ls)
         /\ Shown(ls[k]) = "none" <=> ls[k].status = "none"
         /\ ls[k].status \notin Going => Shown(ls[k]) = ls[k].status
BY DEF Shown, Open, Held

\* Lines that were open end, and the time held back is opened, skipped or left
\* (settleRun and release; settleStranded; the end of `stop`).
LEMMA LinesGo ==
  ASSUME IInv, LinesInOrder,
         NEW ls \in [Lines -> LineType], NEW p,
         \A k \in Lines : \/ ls[k] = line[k]
                          \/ /\ k \in Open(line) /\ ls[k].status \in Ended
                             /\ ls[k].tick = line[k].tick /\ ls[k].trigger = line[k].trigger
                             /\ ls[k].waiting = line[k].waiting,
         \/ line' = ls
         \/ Release(ls, p)
         \/ line' = [k \in Lines |-> IF k \in Held(ls)
                                     THEN [ls[k] EXCEPT !.status = "skipped", !.waiting = FALSE]
                                     ELSE ls[k]]
  PROVE  /\ \A k \in Lines : Stays(k) /\ Told!Goes(k)
         /\ Winners(line') = Winners(ls)
<1>0. /\ line \in [Lines -> LineType]
      /\ \A j, k \in Held(line) : j = k
      /\ \A k \in Lines : line[k].waiting => line[k].status # "running"
  BY DEF IInv, TypeOK, HeldForAnother, LinesInOrder
<1>1. ASSUME NEW k \in Lines
      PROVE  /\ ls[k].waiting => ls[k].status # "running"
             /\ k \in Held(ls) => ls[k] = line[k] /\ k \in Held(line)
             /\ ls[k].status = "none" <=> line[k].status = "none"
             /\ k \in Open(ls) => ls[k] = line[k] /\ k \in Open(line)
             /\ ls[k].tick = line[k].tick /\ ls[k].trigger = line[k].trigger
             /\ ls[k].waiting = line[k].waiting
  BY <1>0 DEF Open, Held
\* What becomes of one line after those that end have ended.
<1>2. /\ line' \in [Lines -> LineType]
      /\ \A k \in Lines :
           \/ line'[k] = ls[k]
           \/ /\ k \in Held(ls) /\ line'[k].tick = ls[k].tick /\ line'[k].trigger = ls[k].trigger
              /\ ~ line'[k].waiting
              /\ \/ line'[k].status = "skipped"
                 \/ /\ line'[k].status = "queued"
                    /\ \A j \in Lines : j \in Open(line') => j = k
  <2>1. CASE line' = ls
    BY <2>1
  <2>2. CASE line' = [k \in Lines |-> IF k \in Held(ls)
                                     THEN [ls[k] EXCEPT !.status = "skipped", !.waiting = FALSE]
                                     ELSE ls[k]]
    <3>1. \A k \in Lines : [ls[k] EXCEPT !.status = "skipped", !.waiting = FALSE] \in LineType
      BY ZenonT(30)
    <3>2. line' \in [Lines -> LineType]
      BY <2>2, <3>1
    <3>3. ASSUME NEW k \in Held(ls)
          PROVE  /\ line'[k].tick = ls[k].tick /\ line'[k].trigger = ls[k].trigger
                 /\ ~ line'[k].waiting /\ line'[k].status = "skipped"
      <4>1. k \in Lines /\ ls[k] \in LineType
        BY DEF Held
      <4> QED BY <2>2, <4>1
    <3>4. \A k \in Lines : k \notin Held(ls) => line'[k] = ls[k]
      BY <2>2
    <3> QED BY <3>2, <3>3, <3>4
  <2>3. ASSUME NEW w \in Held(ls), Open(ls) = {},
               \/ line' = [ls EXCEPT ![w].waiting = FALSE]
               \/ line' = [ls EXCEPT ![w].waiting = FALSE, ![w].status = "skipped"]
        PROVE  /\ line' \in [Lines -> LineType]
               /\ \A k \in Lines : k # w => line'[k] = ls[k]
               /\ line'[w].tick = ls[w].tick /\ line'[w].trigger = ls[w].trigger
               /\ ~ line'[w].waiting /\ line'[w].status \in {"queued", "skipped"}
               /\ \A j \in Lines : j \in Open(line') => j = w
    <3>1. w \in Lines /\ ls[w] \in LineType /\ ls[w].status = "queued"
      BY DEF Held
    <3>2. CASE line' = [ls EXCEPT ![w].waiting = FALSE]
      <4>1. /\ line' \in [Lines -> LineType]
            /\ \A k \in Lines : k # w => line'[k] = ls[k]
            /\ line'[w].tick = ls[w].tick /\ line'[w].trigger = ls[w].trigger
            /\ ~ line'[w].waiting /\ line'[w].status = "queued"
        BY <3>1, <3>2
      <4> QED BY <2>3, <4>1 DEF Open
    <3>3. CASE line' = [ls EXCEPT ![w].waiting = FALSE, ![w].status = "skipped"]
      <4>1. /\ line' \in [Lines -> LineType]
            /\ \A k \in Lines : k # w => line'[k] = ls[k]
            /\ line'[w].tick = ls[w].tick /\ line'[w].trigger = ls[w].trigger
            /\ ~ line'[w].waiting /\ line'[w].status = "skipped"
        BY <3>1, <3>3
      <4> QED BY <2>3, <4>1 DEF Open
    <3> QED BY <2>3, <3>2, <3>3
  <2>4. CASE \E w \in Held(ls) : /\ Open(ls) = {}
                                 /\ \/ line' = [ls EXCEPT ![w].waiting = FALSE]
                                    \/ line' = [ls EXCEPT ![w].waiting = FALSE, ![w].status = "skipped"]
    <3>1. PICK w \in Held(ls) : /\ Open(ls) = {}
                                /\ \/ line' = [ls EXCEPT ![w].waiting = FALSE]
                                   \/ line' = [ls EXCEPT ![w].waiting = FALSE, ![w].status = "skipped"]
      BY <2>4
    <3>2. /\ line' \in [Lines -> LineType]
          /\ \A k \in Lines : k # w => line'[k] = ls[k]
          /\ line'[w].tick = ls[w].tick /\ line'[w].trigger = ls[w].trigger
          /\ ~ line'[w].waiting /\ line'[w].status \in {"queued", "skipped"}
          /\ \A j \in Lines : j \in Open(line') => j = w
      BY <2>3, <3>1
    <3> QED BY <3>2
  <2>5. Release(ls, p) =>
          \/ line' = ls
          \/ \E w \in Held(ls) : /\ Open(ls) = {}
                                 /\ \/ line' = [ls EXCEPT ![w].waiting = FALSE]
                                    \/ line' = [ls EXCEPT ![w].waiting = FALSE, ![w].status = "skipped"]
    BY DEF Release
  <2> QED BY <2>1, <2>2, <2>4, <2>5
<1>3. ASSUME NEW k \in Lines PROVE Stays(k)
  <2>1. CASE line'[k] = ls[k]
    BY <1>1, <2>1 DEF Stays
  <2>2. CASE /\ k \in Held(ls) /\ line'[k].tick = ls[k].tick /\ line'[k].trigger = ls[k].trigger
             /\ ~ line'[k].waiting /\ line'[k].status \in {"skipped", "queued"}
    <3>1. ls[k].status = "queued"
      BY <2>2 DEF Held
    <3>2. line[k].status # "none"
      BY <1>1, <3>1
    <3>3. line'[k].tick = line[k].tick /\ line'[k].trigger = line[k].trigger
      BY <1>1, <2>2
    <3> QED BY <2>2, <3>2, <3>3 DEF Stays
  <2> QED BY <1>2, <2>1, <2>2
<1>4. ASSUME NEW k \in Lines PROVE Told!Goes(k)
  <2>1. /\ (line'[k].status # "none" /\ line'[k].trigger = "schedule")
            = (line[k].status # "none" /\ line[k].trigger = "schedule")
        /\ line'[k].tick = line[k].tick
    BY <1>3 DEF Stays
  <2>2. \A j \in Lines : Shown(line'[j]) = "open" <=> j \in Open(line')
    BY <1>2, <1>3, ShownFits DEF Stays
  <2>3. CASE line'[k] = line[k]
    BY <2>1, <2>3 DEF Told!Goes
  <2>4. CASE line'[k] = ls[k] /\ ls[k] # line[k]
    <3>0. k \in Open(line) /\ line'[k].status \in Ended
      BY <2>4
    <3>1. Shown(line[k]) = "open"
      BY <1>0, <3>0, ShownFits
    <3>2. Shown(line'[k]) \in Ended
      BY <3>0 DEF Shown
    <3> QED BY <2>1, <3>1, <3>2 DEF Told!Goes, Told!Ends
  <2>5. CASE k \in Held(ls) /\ line'[k].status = "skipped"
    <3>1. Shown(line[k]) = "held"
      BY <1>0, <1>1, <2>5, ShownFits
    <3>2. Shown(line'[k]) = "skipped"
      BY <2>5 DEF Shown
    <3> QED BY <2>1, <3>1, <3>2 DEF Told!Goes, Told!Passed
  <2>6. CASE /\ k \in Held(ls) /\ line'[k].status = "queued" /\ ~ line'[k].waiting
             /\ \A j \in Lines : j \in Open(line') => j = k
    <3>1. Shown(line[k]) = "held"
      BY <1>0, <1>1, <2>6, ShownFits
    <3>2. Shown(line'[k]) = "open"
      BY <2>6 DEF Shown
    <3> QED BY <2>1, <2>2, <2>6, <3>1, <3>2 DEF Told!Goes, Told!Opened
  <2> QED BY <1>2, <2>3, <2>4, <2>5, <2>6
<1>5. Winners(line') = Winners(ls)
  <2>1. ASSUME NEW k \in Lines PROVE line'[k].status = "succeeded" <=> ls[k].status = "succeeded"
    BY <1>2 DEF Held
  <2> QED BY <2>1 DEF Winners
<1> QED BY <1>3, <1>4, <1>5

\* A line settled, with its count (service.ts settleRun).
LEMMA SettleGoes ==
  ASSUME IInv, HistoryInv, NEW l \in Lines, NEW status \in Ended, NEW p,
         pc[l] \in {"starting", "following"}, Settle(l, status, p)
  PROVE  GoesOn /\ next' \in {next, None}
<1>0. /\ line \in [Lines -> LineType] /\ LinesInOrder /\ count \in Nat
      /\ l \notin Held(line)
  BY DEF IInv, TypeOK, HistoryInv, HeldIsNotFired
<1> DEFINE ls == [line EXCEPT ![l].status = status]
<1>1. CASE line[l].status \in Going
  <2>1. /\ Counted(IF status = "succeeded" THEN 1 ELSE 0) /\ Release(ls, p)
    BY <1>1 DEF Settle
  <2>2. l \in Open(line)
    BY <1>0, <1>1 DEF LinesInOrder, Open, Held
  <2>3. /\ ls \in [Lines -> LineType] /\ ls[l].status = status
        /\ \A k \in Lines : \/ ls[k] = line[k]
                            \/ /\ k \in Open(line) /\ ls[k].status \in Ended
                               /\ ls[k].tick = line[k].tick /\ ls[k].trigger = line[k].trigger
                               /\ ls[k].waiting = line[k].waiting
        /\ \A k \in Lines \ {l} : ls[k] = line[k]
    BY <1>0, <2>2
  <2> HIDE DEF ls
  <2>4. /\ \A k \in Lines : Stays(k) /\ Told!Goes(k)
        /\ Winners(line') = Winners(ls)
    BY <1>0, <2>1, <2>3, LinesGo
  <2>5. Winners(ls) \ Winners(line) = IF status = "succeeded" THEN {l} ELSE {}
    BY <1>1, <2>3 DEF Winners
  <2>6. Cardinality(Winners(line') \ Winners(line)) = IF status = "succeeded" THEN 1 ELSE 0
    BY <2>4, <2>5, FS_Singleton, FS_EmptySet
  <2> QED BY <2>1, <2>4, <2>6 DEF GoesOn, Counted
<1>2. CASE line[l].status \notin Going
  <2>1. UNCHANGED <<line, count, next>>
    BY <1>2 DEF Settle
  <2>2. \A k \in Lines : Stays(k) /\ Told!Goes(k)
    BY <1>0, <2>1 DEF Stays, Told!Goes, LinesInOrder
  <2>3. Cardinality(Winners(line') \ Winners(line)) = 0
    BY <2>1, FS_EmptySet
  <2> QED BY <1>0, <2>1, <2>2, <2>3 DEF GoesOn
<1> QED BY <1>1, <1>2

\* A stop settles lines as cancelled: none of them wins.
LEMMA StopGoes ==
  ASSUME IInv, HistoryInv, StopNext \/ StopRest
  PROVE  GoesOn /\ UNCHANGED <<next, count, clock>>
<1>0. /\ line \in [Lines -> LineType] /\ LinesInOrder /\ count \in Nat /\ look.todo \subseteq Lines
      /\ \A k \in look.todo : ~ line[k].waiting
  BY DEF IInv, TypeOK, LookType, HistoryInv, StopsTheOpen, StopNext, StopRest, Stopping
<1>1. PICK cut \in SUBSET look.todo :
        \/ line' = Replaced(line, cut)
        \/ line' = [k \in Lines |-> IF k \in Held(Replaced(line, cut))
                                    THEN [Replaced(line, cut)[k] EXCEPT !.status = "skipped",
                                                                        !.waiting = FALSE]
                                    ELSE Replaced(line, cut)[k]]
  BY DEF StopNext, StopRest
<1> DEFINE ls == Replaced(line, cut)
<1>2. /\ ls \in [Lines -> LineType]
      /\ \A k \in Lines : \/ ls[k] = line[k]
                          \/ /\ k \in cut /\ line[k].status \in Going /\ ls[k].status = "cancelled"
                             /\ ls[k].tick = line[k].tick /\ ls[k].trigger = line[k].trigger
                             /\ ls[k].waiting = line[k].waiting
  BY <1>0 DEF Replaced
<1> HIDE DEF ls
<1>3. \A k \in Lines : \/ ls[k] = line[k]
                      \/ /\ k \in Open(line) /\ ls[k].status \in Ended
                         /\ ls[k].tick = line[k].tick /\ ls[k].trigger = line[k].trigger
                         /\ ls[k].waiting = line[k].waiting
  BY <1>0, <1>2 DEF Open
<1>4. /\ \A k \in Lines : Stays(k) /\ Told!Goes(k)
      /\ Winners(line') = Winners(ls)
  <2>1. \/ line' = ls
        \/ line' = [k \in Lines |-> IF k \in Held(ls)
                                    THEN [ls[k] EXCEPT !.status = "skipped", !.waiting = FALSE]
                                    ELSE ls[k]]
    BY <1>1 DEF ls
  <2> QED BY <1>0, <1>2, <1>3, <2>1, LinesGo
<1>5. Winners(line') \ Winners(line) = {}
  BY <1>2, <1>4 DEF Winners
<1>6. Cardinality(Winners(line') \ Winners(line)) = 0
  BY <1>5, FS_EmptySet
<1>7. UNCHANGED <<next, count, clock>>
  BY DEF StopNext, StopRest
<1> QED BY <1>0, <1>4, <1>6, <1>7 DEF GoesOn

\* A run that starts: its line stays open.
LEMMA StartedGoes ==
  ASSUME IInv, HistoryInv, NEW l \in Lines, Started(l)
  PROVE  GoesOn /\ UNCHANGED <<next, count, clock>>
<1>0. /\ line \in [Lines -> LineType] /\ LinesInOrder /\ count \in Nat /\ l \notin Held(line)
  BY DEF IInv, TypeOK, HistoryInv, HeldIsNotFired, Started
<1>1. \A k \in Lines :
        \/ line'[k] = line[k]
        \/ /\ line[k].status = "queued" /\ ~ line[k].waiting
           /\ line'[k].status = "running" /\ ~ line'[k].waiting
           /\ line'[k].tick = line[k].tick /\ line'[k].trigger = line[k].trigger
  BY <1>0 DEF Started, Held
<1>2. ASSUME NEW k \in Lines PROVE Stays(k) /\ Told!Goes(k)
  BY <1>0, <1>1 DEF Stays, Told!Goes, Shown, LinesInOrder
<1>3. Winners(line') \ Winners(line) = {}
  BY <1>1 DEF Winners
<1>4. Cardinality(Winners(line') \ Winners(line)) = 0
  BY <1>3, FS_EmptySet
<1>5. UNCHANGED <<next, count, clock>>
  BY DEF Started
<1> QED BY <1>0, <1>2, <1>4, <1>5 DEF GoesOn

\* The restart settles every open line, and counts those that had succeeded.
LEMMA BootGoes ==
  ASSUME IInv, HistoryInv, Boot
  PROVE  GoesOn /\ next' \in {next, None}
<1> DEFINE ending == [k \in Lines |-> IF line[k].linked THEN Outcome(k) ELSE "failed"]
           ls == [k \in Lines |-> IF k \in Open(line)
                                  THEN [line[k] EXCEPT !.status = ending[k]] ELSE line[k]]
           wins == {k \in Open(line) : ending[k] = "succeeded"}
<1>0. /\ line \in [Lines -> LineType] /\ LinesInOrder /\ count \in Nat
      /\ \A k \in Open(line) : k \in Lines /\ ending[k] \in Ended
  BY DEF IInv, TypeOK, HistoryInv, Open, Outcome, FiringFits
<1>1. /\ Counted(Cardinality(wins))
      /\ \/ Release(ls, pc)
         \/ line' = [k \in Lines |-> IF k \in Held(ls)
                                     THEN [ls[k] EXCEPT !.status = "skipped", !.waiting = FALSE]
                                     ELSE ls[k]]
  BY DEF Boot
<1>2. /\ ls \in [Lines -> LineType]
      /\ \A k \in Lines : \/ k \notin Open(line) /\ ls[k] = line[k]
                          \/ /\ k \in Open(line) /\ ls[k].status = ending[k]
                             /\ ls[k].tick = line[k].tick /\ ls[k].trigger = line[k].trigger
                             /\ ls[k].waiting = line[k].waiting
  <2> HIDE DEF ending
  <2> QED BY <1>0
<1> HIDE DEF ls
<1>3. wins = Winners(ls) \ Winners(line)
  <2>1. \A k \in Open(line) : k \in Lines /\ line[k].status # "succeeded"
    BY DEF Open
  <2> HIDE DEF ending
  <2> QED BY <1>2, <2>1 DEF Winners
<1> HIDE DEF ending, wins
<1>4. /\ \A k \in Lines : Stays(k) /\ Told!Goes(k)
      /\ Winners(line') = Winners(ls)
  BY <1>0, <1>1, <1>2, LinesGo
<1> QED BY <1>1, <1>3, <1>4 DEF GoesOn, Counted

\* What goes on keeps what the history knows.
LEMMA GoesKeeps ==
  ASSUME IInv, HistoryInv, GoesOn, next' \in {next, None}, clock' = clock,
         look'.phase = "read" => look' = look,
         Stopping' => Stopping /\ look'.todo \subseteq look.todo
  PROVE  HistoryInv'
<1>0. /\ \A k \in Lines : Stays(k) /\ Told!Goes(k)
      /\ count' = count + Cardinality(Winners(line') \ Winners(line))
      /\ look.todo \subseteq Lines
  BY DEF GoesOn, IInv, TypeOK, LookType
<1>1. LinesInOrder'
  BY <1>0 DEF HistoryInv, LinesInOrder, Stays
<1>2. OwnTimes'
  BY <1>0 DEF HistoryInv, OwnTimes, Stays
<1>3. LookTimes'
  BY DEF HistoryInv, LookTimes
<1>4. StopsTheOpen'
  BY <1>0 DEF HistoryInv, StopsTheOpen, Stays
<1>5. CountIsWinners'
  <2>1. Winners(line) \subseteq Winners(line')
    <3>1. ASSUME NEW k \in Lines, line[k].status = "succeeded" PROVE line'[k].status = "succeeded"
      <4>1. Shown(line'[k]) = Shown(line[k])
        BY <1>0, <3>1 DEF Told!Goes, Told!Ends, Told!Passed, Told!Opened, Shown
      <4> QED BY <3>1, <4>1 DEF Shown
    <3> QED BY <3>1 DEF Winners
  <2> DEFINE W == Winners(line)
             N == Winners(line') \ Winners(line)
  <2>2. Winners(line') = W \cup N /\ W \cap N = {}
    BY <2>1
  <2>3. IsFiniteSet(W) /\ IsFiniteSet(N) /\ Cardinality(W) \in Nat /\ Cardinality(N) \in Nat
    BY WinnersFinite, FS_Subset, FS_CardinalityType
  <2>4. count = Cardinality(W) /\ count' = count + Cardinality(N)
    BY <1>0 DEF HistoryInv, CountIsWinners
  <2> HIDE DEF W, N
  <2>5. Cardinality(W \cup N) = Cardinality(W) + Cardinality(N)
    BY <2>2, <2>3, FS_Union, FS_EmptySet
  <2> QED BY <2>2, <2>4, <2>5 DEF CountIsWinners
<1> QED BY <1>1, <1>2, <1>3, <1>4, <1>5 DEF HistoryInv

\* What writes no line and counts nothing, whatever it makes of the next time.
LEMMA StillKeeps ==
  ASSUME IInv, HistoryInv,
         \/ up /\ (Look \/ ClaimLost \/ StopOver \/ Edit)
         \/ Crash \/ Tick \/ (\E l \in Lines : RunEnds(l)) \/ UNCHANGED vars
  PROVE  HistoryInv' /\ UNCHANGED line
<1>0. /\ look \in LookType /\ clock \in Nat /\ next \in Nat \cup {None}
      /\ line \in [Lines -> LineType]
  BY DEF IInv, TypeOK
<1>1. /\ UNCHANGED <<line, count>>
      /\ clock' = clock \/ clock' = clock + 1
      /\ next' = next \/ next' = None \/ (next' = clock + 1 /\ clock' = clock)
      /\ look'.phase = "read" =>
           look' = look \/ (look'.tick <= look'.now /\ look'.now = clock)
      /\ Stopping' => look' = look
  <2>1. CASE Look
    <3>1. look'.phase = "read" /\ look'.tick = next /\ look'.now = clock
      BY <2>1 DEF Look, NoLook
    <3> QED BY <2>1, <3>1 DEF Look, Stopping
  <2>2. CASE ClaimLost \/ Crash
    <3>1. look'.phase = "idle"
      BY <2>2 DEF ClaimLost, Crash, NoLook
    <3> QED BY <2>2, <3>1 DEF ClaimLost, Crash, Stopping
  <2>3. CASE StopOver
    <3>1. look'.phase = "starting"
      BY <1>0, <2>3 DEF StopOver, LookType
    <3> QED BY <2>3, <3>1 DEF StopOver, Stopping
  <2>4. CASE Edit
    BY <2>4 DEF Edit, NextFor
  <2>5. CASE Tick \/ (\E l \in Lines : RunEnds(l)) \/ UNCHANGED vars
    BY <2>5 DEF Tick, RunEnds, vars
  <2> QED BY <2>1, <2>2, <2>3, <2>4, <2>5
<1>2. LinesInOrder' /\ CountIsWinners'
  BY <1>1 DEF HistoryInv, LinesInOrder, CountIsWinners, Winners
<1>3. OwnTimes'
  <2> SUFFICES ASSUME NEW l \in Lines, line[l].status # "none", line[l].trigger = "schedule"
               PROVE  /\ line[l].tick \in Nat /\ line[l].tick <= clock'
                      /\ next' # None => line[l].tick < next'
    BY <1>1 DEF OwnTimes
  <2>1. line[l].tick \in Nat /\ line[l].tick <= clock /\ (next # None => line[l].tick < next)
    BY DEF HistoryInv, OwnTimes
  <2>2. line[l].tick < clock + 1
    BY <1>0, <2>1
  <2> QED BY <1>0, <1>1, <2>1, <2>2
<1>4. LookTimes'
  <2> SUFFICES ASSUME look'.phase = "read" PROVE look'.tick <= look'.now /\ look'.now <= clock'
    BY DEF LookTimes
  <2>1. look.now \in Nat
    BY <1>0 DEF LookType
  <2>2. clock \in Nat /\ clock <= clock'
    BY <1>0, <1>1
  <2>3. CASE look' = look
    <3>1. look'.tick = look.tick /\ look'.now = look.now /\ look.phase = "read"
      BY <2>3
    <3>2. look.tick <= look.now /\ look.now <= clock
      BY <3>1 DEF HistoryInv, LookTimes
    <3> QED BY <1>0, <1>1, <2>1, <3>1, <3>2
  <2>4. CASE look'.tick <= look'.now /\ look'.now = clock
    BY <2>2, <2>4
  <2> QED BY <1>1, <2>3, <2>4
<1>5. StopsTheOpen'
  BY <1>1 DEF HistoryInv, StopsTheOpen, Stopping
<1> QED BY <1>1, <1>2, <1>3, <1>4, <1>5 DEF HistoryInv

\* The line that is written: by a claim or by a person.
LEMMA FreshIsNext ==
  ASSUME IInv, HistoryInv, NEW l \in Fresh
  PROVE  /\ l \in Lines /\ line[l].status = "none"
         /\ \A k \in Lines : k < l <=> line[k].status # "none"
<1>1. l \in Lines /\ line[l].status = "none" /\ \A k \in Lines : k < l => line[k].status # "none"
  BY DEF Fresh
<1>2. ASSUME NEW k \in Lines, line[k].status # "none" PROVE k < l
  <2>1. ~ (l < k) /\ k # l
    BY <1>1, <1>2 DEF HistoryInv, LinesInOrder
  <2> QED BY <1>1, <2>1
<1> QED BY <1>1, <1>2

\* A new line keeps what the history knows.
LEMMA WrittenKeeps ==
  ASSUME IInv, HistoryInv, NEW l \in Fresh, NEW R \in LineType,
         line' = [line EXCEPT ![l] = R],
         R.status \in {"queued", "skipped"},
         \A k \in Lines : line[k].status # "none" => R.tick = None \/ line[k].tick # R.tick,
         UNCHANGED <<count, clock>>
  PROVE  /\ LinesInOrder' /\ CountIsWinners'
         /\ line'[l] = R /\ \A k \in Lines : k # l => line'[k] = line[k]
<1>0. line \in [Lines -> LineType] /\ LinesInOrder /\ CountIsWinners
  BY DEF IInv, TypeOK, HistoryInv
<1>1. /\ l \in Lines /\ line[l].status = "none"
      /\ \A k \in Lines : k < l <=> line[k].status # "none"
  BY FreshIsNext
<1>2. line'[l] = R /\ \A k \in Lines : k # l => line'[k] = line[k]
  BY <1>0, <1>1
<1>3. LinesInOrder'
  <2>1. ASSUME NEW j \in Lines, NEW k \in Lines, k < j, line'[j].status # "none"
        PROVE  line'[k].status # "none"
    <3>1. CASE k = l
      BY <1>2, <3>1
    <3>2. CASE j = l /\ k # l
      BY <1>1, <1>2, <2>1, <3>2
    <3>3. CASE j # l /\ k # l
      BY <1>0, <1>2, <2>1, <3>3 DEF LinesInOrder
    <3> QED BY <3>1, <3>2, <3>3
  <2>2. ASSUME NEW j \in Lines
        PROVE  /\ line'[j].status = "none" => line'[j].tick = None
               /\ line'[j].waiting => line'[j].status # "running"
    BY <1>0, <1>2 DEF LinesInOrder
  <2> QED BY <2>1, <2>2 DEF LinesInOrder
<1>4. CountIsWinners'
  <2>1. Winners(line') = Winners(line)
    BY <1>1, <1>2 DEF Winners
  <2> QED BY <1>0, <2>1 DEF CountIsWinners
<1> QED BY <1>2, <1>3, <1>4

\* A claimed time comes after every time of the schedule before it.
LEMMA ClaimWrites ==
  ASSUME IInv, HistoryInv, Claim
  PROVE  HistoryInv' /\ \E l \in Lines : Told!Written(l)
<1>0. /\ look \in LookType /\ clock \in Nat /\ line \in [Lines -> LineType] /\ count \in Nat
      /\ look.phase = "read" /\ look.tick \in Nat /\ next = look.tick /\ next # None
      /\ look.tick <= look.now /\ look.now <= clock /\ ~ Taken(look.tick)
      /\ UNCHANGED <<count, clock>>
  BY NoneAssumption DEF IInv, TypeOK, ReadHasTick, HistoryInv, LookTimes, Claim, Claimable
<1>1. /\ LinesInOrder /\ OwnTimes /\ CountIsWinners /\ LimitEndsSchedule
  BY DEF HistoryInv, IInv
<1>2. PICK l \in Fresh :
        /\ line' = [line EXCEPT ![l] = ClaimedLine]
        /\ \/ look' = NoLook
           \/ look' = [look EXCEPT !.phase = "starting", !.line = l]
           \/ look' = [look EXCEPT !.phase = "stopping", !.line = l, !.todo = Open(line),
                                   !.linked = {k \in Open(line) : line[k].linked}]
  BY DEF Claim
<1>3. /\ ClaimedLine \in LineType /\ ClaimedLine.tick = look.tick
      /\ ClaimedLine.trigger = "schedule" /\ ClaimedLine.waiting = (Decision = "hold")
      /\ ClaimedLine.status = (IF Decision = "skip" THEN "skipped" ELSE "queued")
  BY <1>0 DEF ClaimedLine
<1>4. \A k \in Lines : line[k].status # "none" => line[k].tick # look.tick
  BY <1>0 DEF Taken
<1> HIDE DEF LineType, ClaimedLine
<1>5. /\ LinesInOrder' /\ CountIsWinners'
      /\ line'[l] = ClaimedLine /\ \A k \in Lines : k # l => line'[k] = line[k]
  <2>1. ClaimedLine.status \in {"queued", "skipped"}
    BY <1>3
  <2>2. \A k \in Lines : line[k].status # "none" =>
                         ClaimedLine.tick = None \/ line[k].tick # ClaimedLine.tick
    BY <1>3, <1>4
  <2> QED BY <1>0, <1>2, <1>3, <2>1, <2>2, WrittenKeeps
<1> USE DEF LineType
<1>6. /\ l \in Lines /\ line[l].status = "none"
      /\ \A k \in Lines : k < l <=> line[k].status # "none"
  BY FreshIsNext
<1>7. OwnTimes'
  <2>1. next' = None \/ (next' \in Nat /\ look.tick < next' /\ next < next')
    <3>1. next' = NextFor(TRUE, look.count, look.now)
      BY DEF Claim
    <3>2. look.now \in Nat
      BY <1>0 DEF LookType
    <3> QED BY <1>0, <3>1, <3>2 DEF NextFor
  <2>2. line'[l].tick = look.tick /\ look.tick \in Nat /\ look.tick <= clock'
    <3>1. look.now \in Nat
      BY <1>0 DEF LookType
    <3> QED BY <1>0, <1>3, <1>5, <3>1
  <2>3. ASSUME NEW k \in Lines, k # l, line'[k].status # "none", line'[k].trigger = "schedule"
        PROVE  /\ line'[k].tick \in Nat /\ line'[k].tick <= clock'
               /\ next' # None => line'[k].tick < next'
    <3>1. line'[k] = line[k] /\ next \in Nat /\ clock' = clock
      BY <1>0, <1>5, <2>3
    <3>2. line[k].tick \in Nat /\ line[k].tick <= clock /\ line[k].tick < next
      BY <1>0, <1>1, <2>3, <3>1 DEF OwnTimes
    <3> QED BY <2>1, <3>1, <3>2
  <2> QED BY <2>1, <2>2, <2>3 DEF OwnTimes
<1>8. LookTimes' /\ StopsTheOpen'
  <2>1. /\ look'.phase \in {"idle", "starting", "stopping"}
        /\ look'.phase = "stopping" => look'.todo = Open(line)
    <3>1. CASE look' = NoLook
      BY <3>1 DEF NoLook
    <3>2. CASE look' = [look EXCEPT !.phase = "starting", !.line = l]
      BY <1>0, <3>2 DEF LookType
    <3>3. CASE look' = [look EXCEPT !.phase = "stopping", !.line = l, !.todo = Open(line),
                                    !.linked = {k \in Open(line) : line[k].linked}]
      BY <1>0, <3>3 DEF LookType
    <3> QED BY <1>2, <3>1, <3>2, <3>3
  <2>2. \A k \in Open(line) : k \in Lines /\ k # l /\ line[k].status # "none" /\ ~ line[k].waiting
    BY <1>6 DEF Open
  <2> QED BY <1>5, <2>1, <2>2 DEF LookTimes, StopsTheOpen, Stopping
<1>9. Told!Written(l)
  <2>1. \A k \in Lines : k < l <=> Shown(line[k]) # "none"
    BY <1>6 DEF Shown
  <2>2. \A k \in Lines : line[k].tick # look.tick
    BY <1>0, <1>1, <1>4, NoneAssumption DEF LinesInOrder
  <2>3. \A k \in Lines : line[k].status # "none" /\ line[k].trigger = "schedule" =>
                           line[k].tick < look.tick
    BY <1>0, <1>1 DEF OwnTimes
  <2>4. ~ Told!Full
    <3>1. \A k \in Lines : Shown(line[k]) = "succeeded" <=> line[k].status = "succeeded"
      BY DEF Shown
    <3>2. Told!In("succeeded") = Winners(line)
      BY <3>1 DEF Told!In, Winners
    <3>3. ~ Exhausted(count)
      BY <1>0, <1>1 DEF LimitEndsSchedule
    <3>4. Told!Cardinality(Told!In("succeeded")) = count
      <4>1. \A S : Told!Cardinality(S) = Cardinality(S)
        BY Zenon DEF Told!Cardinality, Cardinality
      <4> QED BY <1>1, <3>2, <4>1 DEF CountIsWinners
    <3> QED BY <3>3, <3>4 DEF Exhausted, Told!Full
  <2>5. \/ Shown(ClaimedLine) \in {"open", "skipped"}
        \/ Shown(ClaimedLine) = "held" /\ Told!In("open") # {} /\ Told!In("held") = {}
    <3>1. CASE Decision # "hold"
      BY <1>3, <3>1 DEF Shown
    <3>2. CASE Decision = "hold"
      <4>1. Open(line) # {} /\ Held(line) = {}
        BY <3>2 DEF Decision
      <4>2. \A k \in Lines : /\ Shown(line[k]) = "open" <=> k \in Open(line)
                             /\ Shown(line[k]) = "held" <=> k \in Held(line)
        BY <1>0, <1>1, ShownFits DEF LinesInOrder
      <4>3. Open(line) \subseteq Lines /\ Held(line) \subseteq Lines
        BY DEF Open, Held
      <4> QED BY <1>3, <3>2, <4>1, <4>2, <4>3 DEF Shown, Told!In
    <3> QED BY <3>1, <3>2
  <2>6. Told!OfTheSchedule(l)
    BY <1>0, <1>3, <1>5, <1>6, <2>3, <2>4, <2>5, NoneAssumption DEF Told!OfTheSchedule
  <2> QED BY <1>3, <1>5, <1>6, <2>1, <2>2, <2>6 DEF Told!Written
<1> QED BY <1>5, <1>6, <1>7, <1>8, <1>9 DEF HistoryInv

\* "Run now" writes a line of its own.
LEMMA RunNowWrites ==
  ASSUME IInv, HistoryInv, RunNow
  PROVE  HistoryInv' /\ \E l \in Lines : Told!Written(l)
<1>0. /\ clock \in Nat /\ line \in [Lines -> LineType] /\ look.todo \subseteq Lines
      /\ LinesInOrder /\ OwnTimes
      /\ UNCHANGED <<next, count, look, clock>>
  BY DEF IInv, TypeOK, LookType, HistoryInv, RunNow
<1>1. PICK l \in Fresh, tick \in {None} \cup {t \in {clock} : ~ Taken(t)} :
        line' = [line EXCEPT ![l] = [trigger |-> "manual", tick |-> tick, status |-> "queued",
                                     waiting |-> FALSE, linked |-> FALSE]]
  BY DEF RunNow
<1> DEFINE R == [trigger |-> "manual", tick |-> tick, status |-> "queued",
                 waiting |-> FALSE, linked |-> FALSE]
<1>2. /\ R \in LineType /\ R.status = "queued" /\ R.trigger = "manual" /\ R.tick = tick
      /\ ~ R.waiting
  BY <1>0, <1>1
<1>3. line' = [line EXCEPT ![l] = R]
  BY <1>1
<1> HIDE DEF R
<1>4. \A k \in Lines : line[k].status # "none" => tick = None \/ line[k].tick # tick
  BY <1>1 DEF Taken
<1>5. /\ LinesInOrder' /\ CountIsWinners'
      /\ line'[l] = R /\ \A k \in Lines : k # l => line'[k] = line[k]
  BY <1>0, <1>2, <1>3, <1>4, WrittenKeeps
<1>6. /\ l \in Lines /\ line[l].status = "none"
      /\ \A k \in Lines : k < l <=> line[k].status # "none"
  BY FreshIsNext
<1>7. OwnTimes'
  BY <1>0, <1>2, <1>5 DEF OwnTimes
<1>8. LookTimes' /\ StopsTheOpen'
  BY <1>0, <1>5, <1>6 DEF HistoryInv, LookTimes, StopsTheOpen, Stopping
<1>9. Told!Written(l)
  <2>1. \A k \in Lines : k < l <=> Shown(line[k]) # "none"
    BY <1>6 DEF Shown
  <2>2. tick # None => \A k \in Lines : line[k].tick # tick
    BY <1>0, <1>4 DEF LinesInOrder
  <2>3. Told!OfThePerson(l)
    BY <1>2, <1>5, <1>6 DEF Told!OfThePerson, Shown
  <2> QED BY <1>2, <1>5, <1>6, <2>1, <2>2, <2>3 DEF Told!Written
<1> QED BY <1>5, <1>6, <1>7, <1>8, <1>9 DEF HistoryInv

LEMMA HistoryStep ==
  ASSUME IInv, HistoryInv, [Next]_vars
  PROVE  HistoryInv' /\ [Told!Next]_(Told!historyVars)
<1>0. look \in LookType /\ NoLook.phase = "idle"
  BY DEF IInv, TypeOK, NoLook
<1>1. CASE Claim \/ RunNow
  BY <1>1, ClaimWrites, RunNowWrites DEF Told!Next
<1>2. ASSUME GoesOn, next' \in {next, None}, clock' = clock,
             look'.phase = "read" => look' = look,
             Stopping' => Stopping /\ look'.todo \subseteq look.todo
      PROVE  HistoryInv' /\ [Told!Next]_(Told!historyVars)
  BY <1>2, GoesKeeps DEF GoesOn, Told!Next
<1>3. CASE StopNext \/ StopRest
  <2>1. /\ look'.phase # "read"
        /\ Stopping /\ look'.todo \subseteq look.todo
    BY <1>0, <1>3 DEF StopNext, StopRest, Stopping, LookType
  <2> QED BY <1>2, <1>3, <2>1, StopGoes
<1>4. ASSUME NEW l \in Lines, Started(l) \/ StartFails(l) \/ Followed(l)
      PROVE  HistoryInv' /\ [Told!Next]_(Told!historyVars)
  <2>1. look' = look \/ look' = NoLook
    BY <1>4 DEF Started, StartFails, Followed, LookGoesOn
  <2>2. /\ look'.phase = "read" => look' = look
        /\ Stopping' => Stopping /\ look'.todo \subseteq look.todo
        /\ clock' = clock
    BY <1>0, <1>4, <2>1 DEF Started, StartFails, Followed, Stopping
  <2>3. GoesOn /\ next' \in {next, None}
    <3>1. CASE Started(l)
      BY <3>1, StartedGoes
    <3>2. CASE StartFails(l) \/ Followed(l)
      <4>1. PICK status \in Ended : Settle(l, status, [pc EXCEPT ![l] = "over"])
        BY <3>2 DEF StartFails, Followed
      <4>2. pc[l] \in {"starting", "following"}
        BY <3>2 DEF StartFails, Followed
      <4> QED BY <4>1, <4>2, SettleGoes
    <3> QED BY <1>4, <3>1, <3>2
  <2> QED BY <1>2, <2>2, <2>3
<1>5. CASE Boot
  <2>1. look' = look /\ clock' = clock /\ look.phase = "idle"
    BY <1>5 DEF Boot, IInv, DownHoldsNothing
  <2> QED BY <1>2, <1>5, <2>1, BootGoes DEF Stopping
<1>6. CASE \/ up /\ (Look \/ ClaimLost \/ StopOver \/ Edit)
           \/ Crash \/ Tick \/ (\E l \in Lines : RunEnds(l)) \/ UNCHANGED vars
  BY <1>6, StillKeeps DEF Told!historyVars
<1> QED BY <1>1, <1>3, <1>4, <1>5, <1>6 DEF Next, Work, Scheduler, Firing

\* The history is in order: its times only grow, though looks claim with what they read before
\* (scheduler.ts claim), and repeat_count is the number of its successes (service.ts settleRun).
THEOREM HistoryInvariance == Spec => [](IInv /\ HistoryInv)
<1>1. Init => IInv /\ HistoryInv
  <2> SUFFICES ASSUME Init PROVE IInv /\ HistoryInv
    OBVIOUS
  <2>1. IInv
    BY InitInv
  <2>2. Winners(line) = {}
    BY DEF Init, NoLine, Winners
  <2>3. CountIsWinners
    BY <2>2, FS_EmptySet DEF Init, CountIsWinners
  <2>4. LinesInOrder /\ OwnTimes /\ LookTimes /\ StopsTheOpen
    BY DEF Init, NoLine, NoLook, LinesInOrder, OwnTimes, LookTimes, StopsTheOpen, Stopping
  <2> QED BY <2>1, <2>3, <2>4 DEF HistoryInv
<1>2. IInv /\ HistoryInv /\ [Next]_vars => (IInv /\ HistoryInv)'
  BY StepInv, HistoryStep
<1> QED BY <1>1, <1>2, PTL DEF Spec

\* What the scheduler, the runs it starts and the people write is a history as its reader may
\* expect it (schedule-runs.ts, scheduler.ts, service.ts).
THEOREM ScheduleKeepsHistory == Spec => KeepsHistory
<1>1. Init => Told!Init
  <2> SUFFICES ASSUME Init PROVE Told!Init
    OBVIOUS
  <2>1. \A l \in Lines : /\ line[l].status = "none" /\ line[l].tick = None
                        /\ Shown(line[l]) = "none"
    BY DEF Init, NoLine, Shown
  <2> QED BY <2>1 DEF Told!Init
<1>2. IInv /\ HistoryInv /\ [Next]_vars => [Told!Next]_(Told!historyVars)
  BY HistoryStep
<1> QED BY <1>1, <1>2, HistoryInvariance, PTL DEF Spec, KeepsHistory, Told!Spec
=============================================================================
