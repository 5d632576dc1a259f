-------------------------- MODULE WebhookQueueProofs --------------------------
(***************************************************************************)
(* The webhook queue, for any webhooks, deliveries, times and bounds: IInv *)
(* is kept by every step, and the safety properties of WebhookQueue        *)
(* follow.                                                                 *)
(*                                                                         *)
(* What is true of one delivery (Fits) is true of each alone; the timer    *)
(* and the counts of a webhook relate them all, and have a lemma each      *)
(* (Scheduled, CountsKept).                                                *)
(***************************************************************************)
EXTENDS WebhookQueue, FiniteSetTheorems, TLAPS

Flying(d) == IF sending[d] = None THEN 0 ELSE 1

\* A row nobody wrote is nobody's; a row that is over has no time; what is being sent is a
\* row that waits, as it was read; and the posts are the tries, the one under way and the lost.
Fits(d) ==
  /\ row[d].status = "none" => /\ sending[d] = None /\ posts[d] = 0
                               /\ row[d].hook = None
  /\ row[d].status # "none" => row[d].hook \in Hooks
  /\ row[d].status \in {"none", "delivered", "dead", "gone"} => row[d].due = None
  /\ sending[d] # None /\ row[d].status # "gone" =>
       Waits(row[d]) /\ sending[d].attempts = row[d].attempts
  /\ Waits(row[d]) => /\ row[d].attempts <= MaxRetries
                      /\ posts[d] <= row[d].attempts + lost[d] + Flying(d)
  /\ posts[d] <= MaxRetries + 1 + lost[d]

RowsFit == \A d \in Deliveries : Fits(d)

\* Rows go with their webhook.
GoneTogether == \A d \in Deliveries : row[d].status = "gone" => ~ hook[row[d].hook].there

\* The rows a webhook counts.
Good(h) == {d \in Deliveries : row[d].hook = h /\ row[d].status = "delivered"}
Bad(h)  == {d \in Deliveries : row[d].hook = h /\ row[d].status # "delivered" /\ Over(row[d])}

Counts ==
  \A h \in Hooks : hook[h].there => /\ hook[h].delivered = Cardinality(Good(h))
                                    /\ hook[h].failures = Cardinality(Bad(h))

\* The timer is set no later than the earliest row that waits.
Awake == timer # None /\ \A d \in Waiting : timer <= row[d].due

IInv == TypeOK /\ RowsFit /\ TimerIsSet /\ GoneTogether /\ Counts

LEMMA NoneIsNothing == /\ None \notin Nat /\ None \notin Hooks /\ None \notin Attempt
BY NoneAssumption, NoAttemptAssumption

-----------------------------------------------------------------------------
(* The timer.                                                                *)

LEMMA ScheduledFrom ==
  ASSUME row' \in [Deliveries -> RowType], NEW was \in Nat \cup {None}, ScheduleFrom(was)
  PROVE  /\ timer' \in Nat \cup {None}
         /\ Waiting' # {} => Awake'
<1>1. \A d \in Deliveries : d \in Waiting' <=> Waits(row'[d])
  BY DEF Waiting, Waits
<1>2. Waiting' \subseteq Deliveries
  BY DEF Waiting
<1>3. \A d \in Waiting' : row'[d].due \in Nat
  BY <1>1, <1>2 DEF Waits, RowType
<1>4. CASE Waiting' = {} /\ timer' = was
  BY <1>4
<1>5. CASE \E d \in Waiting' :
             LET at == row'[d].due
             IN  /\ \A e \in Waiting' : at <= row'[e].due
                 /\ timer' = IF was # None /\ was <= at THEN was ELSE at
  <2>1. PICK d \in Waiting' :
               /\ \A e \in Waiting' : row'[d].due <= row'[e].due
               /\ timer' = IF was # None /\ was <= row'[d].due THEN was ELSE row'[d].due
    BY <1>5
  <2>2. timer' \in Nat /\ timer' <= row'[d].due
    BY <1>3, <2>1
  <2>3. \A e \in Waiting' : timer' <= row'[e].due
    BY <1>3, <2>1, <2>2
  <2> QED BY <2>2, <2>3, NoneIsNothing DEF Awake
<1> QED BY <1>4, <1>5 DEF ScheduleFrom

LEMMA Scheduled ==
  ASSUME TypeOK, row' \in [Deliveries -> RowType], Schedule, phase' = phase
  PROVE  timer' \in Nat \cup {None} /\ TimerIsSet'
<1>1. timer \in Nat \cup {None}
  BY DEF TypeOK
<1>2. CASE phase = "up"
  <2>1. ScheduleFrom(timer)
    BY <1>2 DEF Schedule
  <2>2. timer' \in Nat \cup {None} /\ (Waiting' # {} => Awake')
    BY <1>1, <2>1, ScheduledFrom
  <2> QED BY <2>2 DEF TimerIsSet, Awake
<1>3. CASE phase # "up"
  BY <1>1, <1>3 DEF Schedule, TimerIsSet
<1> QED BY <1>2, <1>3

-----------------------------------------------------------------------------
(* The counts.                                                               *)

LEMMA CountedSets ==
  \A h \in Hooks : /\ IsFiniteSet(Good(h)) /\ Cardinality(Good(h)) \in Nat
                   /\ IsFiniteSet(Bad(h)) /\ Cardinality(Bad(h)) \in Nat
<1> TAKE h \in Hooks
<1>1. IsFiniteSet(Good(h))
  BY DeliveriesAssumption, FS_Subset DEF Good
<1>2. IsFiniteSet(Bad(h))
  BY DeliveriesAssumption, FS_Subset DEF Bad
<1> QED BY <1>1, <1>2, FS_CardinalityType

\* A step that writes no row that is over, nor makes one so, changes no count.
LEMMA CountsKept ==
  ASSUME Counts,
         \A h \in Hooks : hook'[h].there =>
           /\ hook[h].there /\ hook'[h].delivered = hook[h].delivered
           /\ hook'[h].failures = hook[h].failures,
         \A d \in Deliveries : Over(row[d]) \/ Over(row'[d]) =>
           \/ row'[d] = row[d]
           \/ row[d].hook = row'[d].hook /\ (row[d].hook \in Hooks => ~ hook'[row[d].hook].there)
  PROVE  Counts'
<1> SUFFICES ASSUME NEW h \in Hooks, hook'[h].there
             PROVE  /\ hook'[h].delivered = Cardinality(Good(h)')
                    /\ hook'[h].failures = Cardinality(Bad(h)')
  BY DEF Counts
<1>1. \A d \in Deliveries : Over(row[d]) \/ Over(row'[d]) =>
        \/ row'[d] = row[d]
        \/ row[d].hook # h /\ row'[d].hook # h
  OBVIOUS
<1>2. Good(h)' = Good(h)
  BY <1>1 DEF Good, Over
<1>3. Bad(h)' = Bad(h)
  BY <1>1 DEF Bad
<1> QED BY <1>2, <1>3 DEF Counts

-----------------------------------------------------------------------------
LEMMA InitHolds == Init => IInv
<1> SUFFICES ASSUME Init PROVE IInv
  OBVIOUS
<1>1. hook \in [Hooks -> HookType] /\ \A h \in Hooks : hook[h].delivered = 0 /\ hook[h].failures = 0
  <2>1. \A H \in [there : {TRUE}, on : BOOLEAN, retries : 0..MaxRetries, delivered : {0}, failures : {0}] :
          H \in HookType /\ H.delivered = 0 /\ H.failures = 0
    <3> TAKE H \in [there : {TRUE}, on : BOOLEAN, retries : 0..MaxRetries, delivered : {0}, failures : {0}]
    <3>1. H = [there |-> H.there, on |-> H.on, retries |-> H.retries, delivered |-> H.delivered,
                 failures |-> H.failures]
      OBVIOUS
    <3>t. H.there \in {TRUE}
      OBVIOUS
    <3>b. H.there \in BOOLEAN
      BY <3>t, Zenon
    <3>2. H.on \in BOOLEAN /\ H.retries \in 0..MaxRetries
          /\ H.delivered \in Nat /\ H.failures \in Nat
      OBVIOUS
    <3>3. H \in HookType
      BY <3>1, <3>2, <3>b DEF HookType
    <3>4. H.delivered = 0 /\ H.failures = 0
      OBVIOUS
    <3> QED BY <3>3, <3>4
  <2> QED BY <2>1 DEF Init
<1>2. NoRow \in RowType
  BY DEF NoRow, RowType
<1>3. \A d \in Deliveries : row[d] = NoRow /\ sending[d] = None /\ posts[d] = 0 /\ lost[d] = 0
  BY DEF Init
<1>4. TypeOK
  <2>1. row \in [Deliveries -> RowType]
    BY <1>2 DEF Init
  <2>2. /\ sending \in [Deliveries -> Attempt \cup {None}] /\ posts \in [Deliveries -> Nat]
        /\ lost \in [Deliveries -> Nat]
    BY DEF Init
  <2>3. timer \in Nat \cup {None} /\ phase \in {"up", "closing", "down"} /\ edits \in Nat /\ restarts \in Nat
    BY DEF Init
  <2> QED BY <1>1, <2>1, <2>2, <2>3 DEF TypeOK
<1>5. RowsFit
  BY <1>3, BoundsAssumption DEF RowsFit, Fits, NoRow, Waits
<1>6. Waiting = {}
  BY <1>3 DEF Waiting, Waits, NoRow
<1>7. TimerIsSet /\ GoneTogether
  BY <1>3, <1>6 DEF TimerIsSet, GoneTogether, NoRow
<1>8. Counts
  <2>1. \A h \in Hooks : Good(h) = {} /\ Bad(h) = {}
    BY <1>3 DEF Good, Bad, Over, NoRow
  <2> QED BY <1>1, <2>1, FS_EmptySet DEF Counts
<1> QED BY <1>4, <1>5, <1>7, <1>8 DEF IInv

LEMMA QueuedRow ==
  \A h \in Hooks : /\ Queued(h) \in RowType /\ Queued(h).status = "queued" /\ Queued(h).hook = h
                   /\ Queued(h).attempts = 0 /\ Queued(h).due = 0
                   /\ Waits(Queued(h)) /\ ~ Over(Queued(h))
BY NoneIsNothing DEF Queued, RowType, Waits, Over

\* A new row in the queue: of an event, or of a delivery tried again under a new id.
LEMMA QueuedStep ==
  ASSUME IInv, NEW d \in Deliveries, NEW h \in Hooks, row[d] = NoRow,
         row' = [row EXCEPT ![d] = Queued(h)], Schedule,
         UNCHANGED <<hook, sending, phase, posts, lost, edits, restarts>>
  PROVE  IInv'
<1>0. TypeOK /\ row \in [Deliveries -> RowType] /\ lost[d] \in Nat
  BY DEF IInv, TypeOK
<1>1. /\ row' \in [Deliveries -> RowType] /\ row'[d] = Queued(h)
      /\ \A e \in Deliveries \ {d} : row'[e] = row[e]
  BY <1>0, QueuedRow
<1>2. timer' \in Nat \cup {None} /\ TimerIsSet'
  BY <1>0, <1>1, Scheduled
<1>3. TypeOK'
  BY <1>0, <1>1, <1>2 DEF TypeOK
<1>4. Fits(d) /\ \A e \in Deliveries : Fits(e)
  BY DEF IInv, RowsFit
<1>5. Fits(d)'
  <2>1. sending[d] = None /\ posts[d] = 0
    BY <1>4 DEF Fits, NoRow
  <2> QED BY <1>0, <1>1, <2>1, QueuedRow, BoundsAssumption, NoneIsNothing DEF Fits, Flying
<1>6. RowsFit'
  <2>1. \A e \in Deliveries \ {d} : Fits(e)'
    BY <1>1, <1>4 DEF Fits, Flying
  <2> QED BY <1>5, <2>1 DEF RowsFit
<1>7. GoneTogether'
  BY <1>1, QueuedRow DEF IInv, GoneTogether
<1>8. \A e \in Deliveries : Over(row[e]) \/ Over(row'[e]) => row'[e] = row[e]
  <2>1. ~ Over(row[d])
    BY DEF NoRow, Over
  <2> QED BY <1>1, <2>1, QueuedRow
<1>9. Counts'
  BY <1>8, CountsKept DEF IInv
<1> QED BY <1>2, <1>3, <1>6, <1>7, <1>9 DEF IInv

LEMMA DispatchStep ==
  ASSUME IInv, NEW d \in Deliveries, NEW h \in Hooks, Dispatch(d, h)
  PROVE  IInv'
BY QueuedStep DEF Dispatch

LEMMA RedeliverStep ==
  ASSUME IInv, NEW d \in Deliveries, NEW new \in Deliveries, Redeliver(d, new)
  PROVE  IInv'
<1>1. row[d].hook \in Hooks
  BY DEF IInv, RowsFit, Fits, Redeliver, Over
<1> QED BY <1>1, QueuedStep DEF Redeliver

\* What an attempt reads.
LEMMA ReadsRow ==
  ASSUME TypeOK, NEW d \in Deliveries, NEW h \in Hooks, NEW mode \in {"queue", "test"}
  PROVE  /\ Reads(d, mode, h) \in Attempt /\ Reads(d, mode, h) # None
         /\ Reads(d, mode, h).attempts = row[d].attempts
<1>1. row[d].attempts \in Nat /\ hook[h].retries \in 0..MaxRetries
  BY DEF TypeOK, RowType, HookType
<1>2. Reads(d, mode, h) \in Attempt
  BY <1>1 DEF Reads, Attempt
<1>3. Reads(d, mode, h).attempts = row[d].attempts
  BY DEF Reads
<1> QED BY <1>2, <1>3, NoneIsNothing

LEMMA TestStep ==
  ASSUME IInv, NEW d \in Deliveries, NEW h \in Hooks, Test(d, h)
  PROVE  IInv'
<1> DEFINE S == [Queued(h) EXCEPT !.due = Lease]
           A == Reads(d, "test", h)
<1>0. TypeOK /\ row \in [Deliveries -> RowType] /\ lost[d] \in Nat /\ row[d] = NoRow /\ posts[d] \in Nat
  BY DEF IInv, TypeOK, Test
<1>1. /\ S \in RowType /\ S.status = "queued" /\ S.hook = h /\ S.attempts = 0 /\ S.due = Lease
      /\ Waits(S) /\ ~ Over(S)
  BY TimesAssumption, NoneIsNothing DEF Queued, RowType, Waits, Over
<1>2. A \in Attempt /\ A # None /\ A.attempts = 0
  BY <1>0, ReadsRow DEF NoRow
<1>3. /\ row' = [row EXCEPT ![d] = S] /\ sending' = [sending EXCEPT ![d] = A]
      /\ posts' = [posts EXCEPT ![d] = posts[d] + 1]
      /\ UNCHANGED <<hook, timer, phase, lost, edits, restarts>>
  BY DEF Test
<1> HIDE DEF S, A
<1>4. /\ row' \in [Deliveries -> RowType] /\ row'[d] = S /\ sending'[d] = A /\ posts'[d] = posts[d] + 1
      /\ sending' \in [Deliveries -> Attempt \cup {None}] /\ posts' \in [Deliveries -> Nat]
      /\ \A e \in Deliveries \ {d} :
           row'[e] = row[e] /\ sending'[e] = sending[e] /\ posts'[e] = posts[e]
  BY <1>0, <1>1, <1>2, <1>3 DEF TypeOK
<1>5. TypeOK'
  BY <1>0, <1>3, <1>4 DEF TypeOK
<1>6. \A e \in Deliveries : Fits(e)
  BY DEF IInv, RowsFit
<1>7. Fits(d)'
  <2>1. posts[d] = 0 /\ lost'[d] = lost[d]
    BY <1>0, <1>3, <1>6 DEF Fits, NoRow
  <2>2. Flying(d)' = 1
    BY <1>2, <1>4 DEF Flying
  <2> QED BY <1>0, <1>1, <1>2, <1>4, <2>1, <2>2, BoundsAssumption DEF Fits
<1>8. RowsFit'
  <2>1. \A e \in Deliveries \ {d} : Fits(e)'
    BY <1>3, <1>4, <1>6 DEF Fits, Flying
  <2> QED BY <1>7, <2>1 DEF RowsFit
<1>9. TimerIsSet'
  <2>1. d \in InFlight'
    BY <1>2, <1>4 DEF InFlight
  <2> QED BY <2>1 DEF TimerIsSet
<1>10. GoneTogether'
  BY <1>1, <1>3, <1>4 DEF IInv, GoneTogether
<1>11. \A e \in Deliveries : Over(row[e]) \/ Over(row'[e]) => row'[e] = row[e]
  <2>1. ~ Over(row[d])
    BY <1>0 DEF NoRow, Over
  <2> QED BY <1>1, <1>4, <2>1
<1>12. Counts'
  BY <1>3, <1>11, CountsKept DEF IInv
<1> QED BY <1>5, <1>8, <1>9, <1>10, <1>12 DEF IInv

-----------------------------------------------------------------------------
(* An attempt ends.                                                          *)

\* One row is written and its attempt forgotten: what holds of the others still does.
LEMMA EndsFit ==
  ASSUME IInv, NEW d \in Deliveries, AttemptOver(d), row' \in [Deliveries -> RowType],
         \A e \in Deliveries \ {d} : row'[e] = row[e],
         row[d].status = "gone" => row'[d] = row[d],
         row[d].status # "gone" =>
           /\ row'[d].status \notin {"none", "gone"} /\ row'[d].hook = row[d].hook
           /\ row'[d].status \in {"delivered", "dead"} => row'[d].due = None
           /\ Waits(row'[d]) => /\ row'[d].attempts = row[d].attempts + 1
                                /\ row'[d].attempts <= MaxRetries
  PROVE  RowsFit' /\ sending' \in [Deliveries -> Attempt \cup {None}]
<1>0. TypeOK /\ Fits(d) /\ sending[d] # None /\ sending' = [sending EXCEPT ![d] = None]
      /\ posts' = posts /\ lost' = lost /\ posts[d] \in Nat /\ lost[d] \in Nat
      /\ row[d].attempts \in Nat
  BY DEF IInv, RowsFit, TypeOK, AttemptOver, RowType
<1>1. sending' \in [Deliveries -> Attempt \cup {None}] /\ sending'[d] = None
      /\ \A e \in Deliveries \ {d} : sending'[e] = sending[e]
  BY <1>0 DEF TypeOK
<1>2. \A e \in Deliveries \ {d} : Fits(e)'
  <2> SUFFICES ASSUME NEW e \in Deliveries \ {d} PROVE Fits(e)'
    OBVIOUS
  <2>1. Fits(e) /\ row'[e] = row[e] /\ sending'[e] = sending[e] /\ posts'[e] = posts[e] /\ lost'[e] = lost[e]
    BY <1>0, <1>1 DEF IInv, RowsFit
  <2> QED BY <2>1 DEF Fits, Flying
<1>3. ASSUME row[d].status = "gone" PROVE Fits(d)'
  BY <1>0, <1>1, <1>3 DEF Fits, Waits
<1>4. ASSUME row[d].status # "gone" PROVE Fits(d)'
  <2>1. row[d].hook \in Hooks /\ Waits(row[d])
    BY <1>0, <1>4 DEF Fits, Waits
  <2>2. posts[d] <= row[d].attempts + lost[d] + 1 /\ posts[d] <= MaxRetries + 1 + lost[d]
    BY <1>0, <2>1 DEF Fits, Flying
  <2>3. Flying(d)' = 0
    BY <1>1 DEF Flying
  <2>4. Waits(row'[d]) => posts'[d] <= row'[d].attempts + lost'[d] + Flying(d)'
    BY <1>0, <1>4, <2>2, <2>3
  <2>5. posts'[d] <= MaxRetries + 1 + lost'[d]
    BY <1>0, <2>2
  <2> QED BY <1>0, <1>1, <1>4, <2>1, <2>4, <2>5 DEF Fits
<1>5. Fits(d)'
  BY <1>3, <1>4
<1> QED BY <1>1, <1>2, <1>5 DEF RowsFit

\* A delivery that waited is over, and its webhook counts it: one more in `was`.
LEMMA OneCounted ==
  ASSUME NEW d \in Deliveries, NEW was \in SUBSET Deliveries, d \notin was
  PROVE  Cardinality(was \cup {d}) = Cardinality(was) + 1
BY DeliveriesAssumption, FS_Subset, FS_AddElement

LEMMA SucceedsStep ==
  ASSUME IInv, NEW d \in Deliveries, Succeeds(d)
  PROVE  IInv'
<1> DEFINE n == sending[d].attempts + 1
           S == [row[d] EXCEPT !.status = "delivered", !.due = None, !.attempts = n]
           h == row[d].hook
           H == [hook[h] EXCEPT !.delivered = hook[h].delivered + 1]
<1>0. TypeOK /\ row \in [Deliveries -> RowType] /\ row[d] \in RowType /\ sending[d] # None
      /\ hook \in [Hooks -> HookType] /\ Fits(d) /\ AttemptOver(d)
  BY DEF IInv, TypeOK, RowsFit, Succeeds, AttemptOver
<1>1. n \in Nat
  <2>1. sending[d] \in Attempt
    BY <1>0 DEF TypeOK
  <2> QED BY <2>1 DEF Attempt
<1>2. S \in RowType /\ S.status = "delivered" /\ S.due = None /\ S.hook = h
  <2> HIDE DEF n
  <2> QED BY <1>0, <1>1 DEF RowType
<1>3. row' = [row EXCEPT ![d] = IF row[d].status = "gone" THEN row[d] ELSE S]
  BY <1>0 DEF Succeeds, Written
<1>4. row[d].status # "gone" => Waits(row[d]) /\ h \in Hooks
  BY <1>0 DEF Fits, Waits
<1>5. hook' = IF row[d].status = "gone" THEN hook ELSE [hook EXCEPT ![h] = H]
  BY <1>0, <1>4 DEF Succeeds, Counted
<1>6. h \in Hooks => /\ H \in HookType /\ H.delivered = hook[h].delivered + 1
                     /\ H.failures = hook[h].failures /\ H.there = hook[h].there
  <2> SUFFICES ASSUME h \in Hooks
               PROVE  /\ H \in HookType /\ H.delivered = hook[h].delivered + 1
                      /\ H.failures = hook[h].failures /\ H.there = hook[h].there
    OBVIOUS
  <2>1. hook[h] \in HookType
    BY <1>0
  <2> QED BY <2>1 DEF HookType
<1>h. hook \in [Hooks -> HookType] /\ (h \in Hooks => hook[h].delivered \in Nat)
  BY <1>0 DEF HookType
<1> HIDE DEF S, H, n
<1>7. /\ row' \in [Deliveries -> RowType] /\ \A e \in Deliveries \ {d} : row'[e] = row[e]
      /\ row[d].status = "gone" => row'[d] = row[d]
      /\ row[d].status # "gone" => row'[d] = S
  BY <1>0, <1>2, <1>3
<1>8. hook' \in [Hooks -> HookType]
  BY <1>0, <1>4, <1>5, <1>6
<1>9. RowsFit' /\ sending' \in [Deliveries -> Attempt \cup {None}]
  <2>1. row[d].status # "gone" =>
           /\ row'[d].status \notin {"none", "gone"} /\ row'[d].hook = row[d].hook
           /\ row'[d].status \in {"delivered", "dead"} => row'[d].due = None
           /\ Waits(row'[d]) => /\ row'[d].attempts = row[d].attempts + 1
                                /\ row'[d].attempts <= MaxRetries
    BY <1>2, <1>7 DEF Waits
  <2> QED BY <1>0, <1>7, <2>1, EndsFit
<1>10. timer' \in Nat \cup {None} /\ TimerIsSet'
  BY <1>0, <1>7, Scheduled DEF Succeeds, AttemptOver
<1>11. TypeOK'
  BY <1>0, <1>7, <1>8, <1>9, <1>10 DEF TypeOK, AttemptOver
<1>12. GoneTogether'
  BY <1>2, <1>4, <1>5, <1>6, <1>7 DEF IInv, GoneTogether, RowsFit, Fits
<1>13. Counts'
  <2>1. CASE row[d].status = "gone"
    BY <1>5, <1>7, <2>1, CountsKept DEF IInv
  <2>2. CASE row[d].status # "gone"
    <3>1. ~ Over(row[d]) /\ ~ Over(row[d])
      BY <1>4, <2>2 DEF Over, Waits
    <3>2. \A k \in Hooks : Good(k)' = (IF k = h THEN Good(k) \cup {d} ELSE Good(k)) /\ d \notin Good(k)
      BY <1>2, <1>7, <2>2, <3>1 DEF Good, Over
    <3>3. \A k \in Hooks : Bad(k)' = Bad(k)
      BY <1>2, <1>7, <2>2, <3>1 DEF Bad, Over
    <3>4. \A k \in Hooks : Good(k) \subseteq Deliveries
      BY DEF Good
    <3>5. h \in Hooks /\ hook' = [hook EXCEPT ![h] = H]
      BY <1>4, <1>5, <2>2
    <3>6. \A k \in Hooks \ {h} : hook'[k] = hook[k]
      BY <1>0, <3>5
    <3>7. hook'[h] = H
      BY <1>0, <3>5
    <3>8. ASSUME NEW k \in Hooks, hook'[k].there
          PROVE  hook'[k].delivered = Cardinality(Good(k)') /\ hook'[k].failures = Cardinality(Bad(k)')
      <4>1. CASE k # h
        BY <3>2, <3>3, <3>6, <3>8, <4>1 DEF IInv, Counts
      <4>2. CASE k = h
        <5>1. hook[h].delivered = Cardinality(Good(h)) /\ hook[h].failures = Cardinality(Bad(h))
          BY <1>6, <3>5, <3>7, <3>8, <4>2 DEF IInv, Counts
        <5>2. Cardinality(Good(h) \cup {d}) = Cardinality(Good(h)) + 1
          BY <3>2, <3>4, <3>5, OneCounted
        <5> QED BY <1>6, <3>2, <3>3, <3>5, <3>7, <4>2, <5>1, <5>2
      <4> QED BY <4>1, <4>2
    <3> QED BY <3>8 DEF Counts
  <2> QED BY <2>1, <2>2
<1> QED BY <1>9, <1>10, <1>11, <1>12, <1>13 DEF IInv

LEMMA FailsStep ==
  ASSUME IInv, NEW d \in Deliveries, Fails(d)
  PROVE  IInv'
<1> DEFINE A == sending[d]
           h == row[d].hook
           H == [hook[h] EXCEPT !.failures = hook[h].failures + 1]
<1>0. TypeOK /\ row \in [Deliveries -> RowType] /\ row[d] \in RowType /\ sending[d] # None
      /\ hook \in [Hooks -> HookType] /\ Fits(d) /\ AttemptOver(d)
  BY DEF IInv, TypeOK, RowsFit, Fails, AttemptOver
<1>1. A \in Attempt /\ A.attempts + 1 \in Nat /\ A.attempts \in Nat /\ A.retries \in 0..MaxRetries
  <2>1. sending[d] \in Attempt
    BY <1>0 DEF TypeOK
  <2> QED BY <2>1 DEF Attempt
<1>2. PICK wait \in 0..RetryCap : row' = [row EXCEPT ![d] = Written(d, Failed(row[d], A, wait))]
  BY <1>0 DEF Fails
<1> DEFINE S == Failed(row[d], A, wait)
<1>w. wait \in Nat
  BY TimesAssumption
<1>3. /\ S \in RowType /\ S.hook = h /\ S.status \in {"dead", "failed"} /\ S.attempts = A.attempts + 1
      /\ S.status = "dead" => S.due = None
      /\ Again(A) => S.status = "failed" /\ S.due = wait
      /\ ~ Again(A) => S.due = None
  <2> DEFINE z == IF A.mode = "queue" /\ ~ Again(A) THEN "dead" ELSE "failed"
             u == IF Again(A) THEN wait ELSE None
             n == A.attempts + 1
  <2>1. z \in {"dead", "failed"} /\ u \in Nat \cup {None} /\ n \in Nat
    BY <1>1, <1>w
  <2>2. S = [row[d] EXCEPT !.status = z, !.due = u, !.attempts = n]
    BY DEF Failed
  <2>3. (z = "dead" => u = None) /\ (Again(A) => z = "failed" /\ u = wait) /\ (~ Again(A) => u = None)
    OBVIOUS
  <2> HIDE DEF z, u, n, S
  <2>4. S \in RowType /\ S.hook = h /\ S.status = z /\ S.due = u /\ S.attempts = n
    BY <1>0, <2>1, <2>2 DEF RowType
  <2> QED BY <2>1, <2>3, <2>4 DEF n
<1>4. row' = [row EXCEPT ![d] = IF row[d].status = "gone" THEN row[d] ELSE S]
  BY <1>2 DEF Written
<1>5. row[d].status # "gone" => Waits(row[d]) /\ h \in Hooks /\ A.attempts = row[d].attempts
  BY <1>0 DEF Fits, Waits
<1>6. hook' = IF row[d].status = "gone" \/ Again(A) THEN hook ELSE [hook EXCEPT ![h] = H]
  BY <1>0, <1>5 DEF Fails, FailureOf, Counted
<1>7. h \in Hooks => /\ H \in HookType /\ H.failures = hook[h].failures + 1
                     /\ H.delivered = hook[h].delivered /\ H.there = hook[h].there
  <2> SUFFICES ASSUME h \in Hooks
               PROVE  /\ H \in HookType /\ H.failures = hook[h].failures + 1
                      /\ H.delivered = hook[h].delivered /\ H.there = hook[h].there
    OBVIOUS
  <2>1. hook[h] \in HookType
    BY <1>0
  <2> QED BY <2>1 DEF HookType
<1>8. Again(A) => A.attempts + 1 <= MaxRetries
  BY <1>1, BoundsAssumption DEF Again
<1> HIDE DEF S, H, A
<1>9. /\ row' \in [Deliveries -> RowType] /\ \A e \in Deliveries \ {d} : row'[e] = row[e]
      /\ row[d].status = "gone" => row'[d] = row[d]
      /\ row[d].status # "gone" => row'[d] = S
  BY <1>0, <1>3, <1>4
<1>10. hook' \in [Hooks -> HookType]
  BY <1>0, <1>5, <1>6, <1>7
<1>11. RowsFit' /\ sending' \in [Deliveries -> Attempt \cup {None}]
  <2>1. row[d].status # "gone" =>
           /\ row'[d].status \notin {"none", "gone"} /\ row'[d].hook = row[d].hook
           /\ row'[d].status \in {"delivered", "dead"} => row'[d].due = None
           /\ Waits(row'[d]) => /\ row'[d].attempts = row[d].attempts + 1
                                /\ row'[d].attempts <= MaxRetries
    BY <1>3, <1>5, <1>8, <1>9 DEF Waits
  <2> QED BY <1>0, <1>9, <2>1, EndsFit
<1>12. timer' \in Nat \cup {None} /\ TimerIsSet'
  BY <1>0, <1>9, Scheduled DEF Fails, AttemptOver
<1>13. TypeOK'
  BY <1>0, <1>9, <1>10, <1>11, <1>12 DEF TypeOK, AttemptOver
<1>14. GoneTogether'
  BY <1>3, <1>5, <1>6, <1>7, <1>9 DEF IInv, GoneTogether, RowsFit, Fits
<1>15. Counts'
  <2>1. CASE row[d].status = "gone"
    BY <1>6, <1>9, <2>1, CountsKept DEF IInv
  <2>2. CASE row[d].status # "gone" /\ Again(A)
    <3>1. ~ Over(row[d]) /\ ~ Over(S)
      BY <1>3, <1>5, <1>w, <2>2, NoneIsNothing DEF Over, Waits
    <3>2. \A e \in Deliveries : Over(row[e]) \/ Over(row'[e]) => row'[e] = row[e]
      BY <1>9, <2>2, <3>1
    <3> QED BY <1>6, <2>2, <3>2, CountsKept DEF IInv
  <2>3. CASE row[d].status # "gone" /\ ~ Again(A)
    <3>1. ~ Over(row[d]) /\ Over(S) /\ S.status # "delivered"
      BY <1>3, <1>5, <2>3 DEF Over, Waits
    <3>2. \A k \in Hooks : Bad(k)' = (IF k = h THEN Bad(k) \cup {d} ELSE Bad(k)) /\ d \notin Bad(k)
      BY <1>3, <1>9, <2>3, <3>1 DEF Bad
    <3>3. \A k \in Hooks : Good(k)' = Good(k)
      BY <1>3, <1>9, <2>3, <3>1 DEF Good, Over
    <3>4. \A k \in Hooks : Bad(k) \subseteq Deliveries
      BY DEF Bad
    <3>5. h \in Hooks /\ hook' = [hook EXCEPT ![h] = H]
      BY <1>5, <1>6, <2>3
    <3>6. \A k \in Hooks \ {h} : hook'[k] = hook[k]
      BY <1>0, <3>5
    <3>7. hook'[h] = H
      BY <1>0, <3>5
    <3>8. ASSUME NEW k \in Hooks, hook'[k].there
          PROVE  hook'[k].delivered = Cardinality(Good(k)') /\ hook'[k].failures = Cardinality(Bad(k)')
      <4>1. CASE k # h
        BY <3>2, <3>3, <3>6, <3>8, <4>1 DEF IInv, Counts
      <4>2. CASE k = h
        <5>1. hook[h].delivered = Cardinality(Good(h)) /\ hook[h].failures = Cardinality(Bad(h))
          BY <1>7, <3>5, <3>7, <3>8, <4>2 DEF IInv, Counts
        <5>2. Cardinality(Bad(h) \cup {d}) = Cardinality(Bad(h)) + 1
          BY <3>2, <3>4, <3>5, OneCounted
        <5> QED BY <1>7, <3>2, <3>3, <3>5, <3>7, <4>2, <5>1, <5>2
      <4> QED BY <4>1, <4>2
    <3> QED BY <3>8 DEF Counts
  <2> QED BY <2>1, <2>2, <2>3
<1> QED BY <1>11, <1>12, <1>13, <1>14, <1>15 DEF IInv

-----------------------------------------------------------------------------
(* People, the process and time.                                             *)

LEMMA UpdateStep ==
  ASSUME IInv, NEW h \in Hooks, NEW on \in BOOLEAN, NEW retries \in 0..MaxRetries,
         Update(h, on, retries)
  PROVE  IInv'
<1> DEFINE H == [hook[h] EXCEPT !.on = on, !.retries = retries]
<1>0. TypeOK /\ hook \in [Hooks -> HookType] /\ hook[h] \in HookType
  BY DEF IInv, TypeOK
<1>1. H \in HookType /\ H.there = hook[h].there /\ H.delivered = hook[h].delivered /\ H.failures = hook[h].failures
  BY <1>0 DEF HookType
<1>2. hook' = [hook EXCEPT ![h] = H] /\ UNCHANGED <<row, sending, timer, phase, posts, lost>>
  BY DEF Update
<1> HIDE DEF H
<1>3. hook' \in [Hooks -> HookType] /\ \A k \in Hooks : /\ hook'[k].there = hook[k].there
        /\ hook'[k].delivered = hook[k].delivered /\ hook'[k].failures = hook[k].failures
  BY <1>0, <1>1, <1>2
<1>4. TypeOK'
  BY <1>0, <1>2, <1>3 DEF TypeOK, Update, Edits
<1>5. RowsFit' /\ TimerIsSet'
  BY <1>2 DEF IInv, RowsFit, Fits, Flying, TimerIsSet, Waiting, InFlight
<1>6. GoneTogether'
  BY <1>2, <1>3 DEF IInv, GoneTogether, RowsFit, Fits
<1>7. Counts'
  BY <1>2, <1>3, CountsKept DEF IInv
<1> QED BY <1>4, <1>5, <1>6, <1>7 DEF IInv

LEMMA DeleteHookStep ==
  ASSUME IInv, NEW h \in Hooks, DeleteHook(h)
  PROVE  IInv'
<1> DEFINE H == [hook[h] EXCEPT !.there = FALSE]
<1>0. TypeOK /\ hook \in [Hooks -> HookType] /\ hook[h] \in HookType /\ row \in [Deliveries -> RowType]
      /\ UNCHANGED <<sending, timer, phase, posts, lost>>
  BY DEF IInv, TypeOK, DeleteHook
<1>1. H \in HookType /\ ~ H.there
  BY <1>0 DEF HookType
<1>2. hook' = [hook EXCEPT ![h] = H]
  BY DEF DeleteHook
<1> HIDE DEF H
<1>3. /\ hook' \in [Hooks -> HookType] /\ ~ hook'[h].there
      /\ \A k \in Hooks \ {h} : hook'[k] = hook[k]
  BY <1>0, <1>1, <1>2
<1>4. \A R \in RowType : LET S == [R EXCEPT !.status = "gone", !.due = None]
                         IN  S \in RowType /\ S.status = "gone" /\ S.due = None /\ S.hook = R.hook
  BY DEF RowType
<1>5. /\ row' \in [Deliveries -> RowType]
      /\ \A e \in Deliveries : /\ row[e].hook # h => row'[e] = row[e]
                               /\ row[e].hook = h => /\ row'[e].status = "gone" /\ row'[e].due = None
                                                     /\ row'[e].hook = h
  BY <1>0, <1>4 DEF DeleteHook
<1>6. TypeOK'
  <2>1. edits' = edits + 1 /\ restarts' = restarts
    BY DEF DeleteHook, Edits
  <2> QED BY <1>0, <1>3, <1>5, <2>1 DEF TypeOK
<1>7. RowsFit'
  <2> SUFFICES ASSUME NEW e \in Deliveries PROVE Fits(e)'
    BY DEF RowsFit
  <2>1. Fits(e)
    BY DEF IInv, RowsFit
  <2>2. sending'[e] = sending[e] /\ posts'[e] = posts[e] /\ lost'[e] = lost[e]
    BY <1>0
  <2>3. CASE row[e].hook # h
    BY <1>5, <2>1, <2>2, <2>3 DEF Fits, Flying
  <2>4. CASE row[e].hook = h
    BY <1>5, <2>1, <2>2, <2>4 DEF Fits, Waits
  <2> QED BY <2>3, <2>4
<1>8. TimerIsSet'
  <2>1. \A e \in Waiting' : e \in Waiting /\ row'[e] = row[e]
    BY <1>5 DEF Waiting, Waits
  <2>2. InFlight' = InFlight
    BY <1>0 DEF InFlight
  <2> QED BY <1>0, <2>1, <2>2 DEF IInv, TimerIsSet
<1>9. GoneTogether'
  BY <1>3, <1>5 DEF IInv, GoneTogether, RowsFit, Fits
<1>10. Counts'
  BY <1>3, <1>5, CountsKept DEF IInv
<1> QED BY <1>6, <1>7, <1>8, <1>9, <1>10 DEF IInv

LEMMA StopStep ==
  ASSUME IInv, Stop
  PROVE  IInv'
<1>1. TypeOK' /\ TimerIsSet'
  BY DEF IInv, TypeOK, Stop, TimerIsSet
<1>2. RowsFit' /\ GoneTogether' /\ Counts'
  BY DEF IInv, Stop, RowsFit, Fits, Flying, GoneTogether, Counts, Good, Bad
<1> QED BY <1>1, <1>2 DEF IInv

\* What was under way is lost: its post was sent, its row does not know.
LEMMA DiesStep ==
  ASSUME IInv, Dies
  PROVE  IInv'
<1>0. TypeOK /\ sending' = [d \in Deliveries |-> None] /\ UNCHANGED <<hook, row, posts, edits>>
      /\ lost \in [Deliveries -> Nat] /\ phase' = "down"
  BY DEF IInv, TypeOK, Dies
<1>1. /\ lost' \in [Deliveries -> Nat]
      /\ \A d \in Deliveries : lost'[d] = lost[d] + Flying(d)
  BY <1>0 DEF Dies, Flying, InFlight
<1>2. TypeOK'
  BY <1>0, <1>1 DEF TypeOK, Dies
<1>3. RowsFit'
  <2> SUFFICES ASSUME NEW e \in Deliveries PROVE Fits(e)'
    BY DEF RowsFit
  <2>1. Fits(e) /\ posts[e] \in Nat /\ lost[e] \in Nat /\ row[e].attempts \in Nat
    BY <1>0 DEF IInv, RowsFit, TypeOK, RowType
  <2>2. sending'[e] = None /\ posts'[e] = posts[e] /\ row'[e] = row[e] /\ Flying(e)' = 0
    BY <1>0 DEF Flying
  <2>3. lost'[e] = lost[e] + Flying(e) /\ Flying(e) \in 0..1
    BY <1>1 DEF Flying
  <2>4. Waits(row[e]) => row'[e].attempts <= MaxRetries
                         /\ posts'[e] <= row'[e].attempts + lost'[e] + Flying(e)'
    <3> HIDE DEF Flying
    <3> QED BY <2>1, <2>2, <2>3 DEF Fits
  <2>5. posts'[e] <= MaxRetries + 1 + lost'[e]
    BY <2>1, <2>2, <2>3, BoundsAssumption DEF Fits
  <2> QED BY <2>1, <2>2, <2>4, <2>5 DEF Fits
<1>4. TimerIsSet'
  BY <1>0 DEF TimerIsSet
<1>5. GoneTogether' /\ Counts'
  BY <1>0 DEF IInv, GoneTogether, Counts, Good, Bad
<1> QED BY <1>2, <1>3, <1>4, <1>5 DEF IInv

LEMMA BootStep ==
  ASSUME IInv, Boot
  PROVE  IInv'
<1>0. TypeOK /\ UNCHANGED <<hook, row, sending, posts, lost, edits, restarts>> /\ phase' = "up"
      /\ row' \in [Deliveries -> RowType] /\ ScheduleFrom(None)
  BY DEF IInv, TypeOK, Boot
<1>1. timer' \in Nat \cup {None} /\ (Waiting' # {} => Awake')
  BY <1>0, ScheduledFrom
<1>2. TypeOK' /\ TimerIsSet'
  BY <1>0, <1>1 DEF TypeOK, TimerIsSet, Awake
<1>3. RowsFit' /\ GoneTogether' /\ Counts'
  BY <1>0 DEF IInv, RowsFit, Fits, Flying, GoneTogether, Counts, Good, Bad
<1> QED BY <1>2, <1>3 DEF IInv

LEMMA LessTime ==
  ASSUME NEW t \in Nat \cup {None}
  PROVE  /\ Less(t) \in Nat \cup {None} /\ (Less(t) = None <=> t = None)
         /\ \A u \in Nat : t # None /\ t <= u => Less(t) <= Less(u)
BY NoneIsNothing DEF Less

LEMMA TimePassesStep ==
  ASSUME IInv, TimePasses
  PROVE  IInv'
<1>0. TypeOK /\ row \in [Deliveries -> RowType] /\ timer \in Nat \cup {None} /\ timer' = Less(timer)
      /\ UNCHANGED <<hook, sending, phase, posts, lost, edits, restarts>>
  BY DEF IInv, TypeOK, TimePasses
<1>1. \A R \in RowType, u \in Nat \cup {None} :
        LET S == [R EXCEPT !.due = u]
        IN  /\ S \in RowType /\ S.status = R.status /\ S.hook = R.hook /\ S.attempts = R.attempts
            /\ S.due = u /\ (u = R.due => S = R)
  BY DEF RowType
<1>2. \A e \in Deliveries : row[e] \in RowType /\ row[e].due \in Nat \cup {None}
                            /\ Less(row[e].due) \in Nat \cup {None}
                            /\ (Less(row[e].due) = None <=> row[e].due = None)
  BY <1>0, LessTime DEF RowType
<1>3. row' = [e \in Deliveries |-> [row[e] EXCEPT !.due = Less(row[e].due)]]
  BY DEF TimePasses
<1>4. /\ row' \in [Deliveries -> RowType]
      /\ \A e \in Deliveries :
           /\ row'[e].status = row[e].status /\ row'[e].hook = row[e].hook
           /\ row'[e].attempts = row[e].attempts /\ row'[e].due = Less(row[e].due)
           /\ row[e].due = None => row'[e] = row[e]
  <2>1. row' \in [Deliveries -> RowType]
    BY <1>1, <1>2, <1>3
  <2>2. ASSUME NEW e \in Deliveries
        PROVE  /\ row'[e].status = row[e].status /\ row'[e].hook = row[e].hook
               /\ row'[e].attempts = row[e].attempts /\ row'[e].due = Less(row[e].due)
               /\ Less(row[e].due) = row[e].due => row'[e] = row[e]
    <3>1. row'[e] = [row[e] EXCEPT !.due = Less(row[e].due)]
      BY <1>3
    <3> QED BY <1>1, <1>2, <3>1
  <2>3. Less(None) = None
    BY DEF Less
  <2> QED BY <2>1, <2>2, <2>3
<1>5. timer' \in Nat \cup {None}
  BY <1>0, LessTime
<1>6. TypeOK'
  BY <1>0, <1>4, <1>5 DEF TypeOK
<1>7. \A e \in Deliveries : Waits(row'[e]) = Waits(row[e])
  BY <1>2, <1>4 DEF Waits
<1>8. RowsFit'
  <2> SUFFICES ASSUME NEW e \in Deliveries PROVE Fits(e)'
    BY DEF RowsFit
  <2>1. Fits(e) /\ sending'[e] = sending[e] /\ posts'[e] = posts[e] /\ lost'[e] = lost[e]
        /\ Waits(row'[e]) = Waits(row[e]) /\ (Less(row[e].due) = None <=> row[e].due = None)
    BY <1>0, <1>2, <1>7 DEF IInv, RowsFit
  <2> QED BY <1>4, <2>1 DEF Fits, Flying
<1>9. TimerIsSet'
  <2>1. Waiting' = Waiting /\ InFlight' = InFlight
    BY <1>0, <1>7 DEF Waiting, InFlight
  <2>2. \A e \in Waiting : e \in Deliveries /\ row[e].due \in Nat
    BY <1>2 DEF Waiting, Waits
  <2>3. ASSUME timer # None, \A e \in Waiting : timer <= row[e].due
        PROVE  timer' # None /\ \A e \in Waiting : timer' <= row'[e].due
    BY <1>0, <1>4, <2>2, <2>3, LessTime
  <2> QED BY <1>0, <2>1, <2>3 DEF IInv, TimerIsSet
<1>10. GoneTogether'
  BY <1>0, <1>4 DEF IInv, GoneTogether
<1>11. Counts'
  <2>1. \A e \in Deliveries : Over(row[e]) \/ Over(row'[e]) => row'[e] = row[e]
    BY <1>2, <1>4 DEF IInv, RowsFit, Fits, Over
  <2> QED BY <1>0, <2>1, CountsKept DEF IInv
<1> QED BY <1>6, <1>8, <1>9, <1>10, <1>11 DEF IInv

-----------------------------------------------------------------------------
(* A tick.                                                                   *)

\* What a tick takes: rows that wait, and that nobody sends.
LEMMA TakenRows ==
  ASSUME IInv, NEW batch \in SUBSET Due, NEW d \in Taken(batch)
  PROVE  /\ d \in Deliveries /\ d \in batch /\ Waits(row[d]) /\ ~ Over(row[d]) /\ sending[d] = None
         /\ row[d].hook \in Hooks /\ row[d].status \notin {"none", "gone"}
<1>1. d \in Deliveries /\ d \in batch /\ Waits(row[d]) /\ sending[d] = None
  BY DEF Taken, InFlight, Due, Waiting
<1>2. Fits(d)
  BY <1>1 DEF IInv, RowsFit
<1> QED BY <1>1, <1>2 DEF Fits, Waits, Over

\* The counts of a tick: the rows of webhooks switched off are over.
LEMMA TickCounts ==
  ASSUME IInv, NEW batch \in SUBSET Due, Tick(batch)
  PROVE  /\ hook' \in [Hooks -> HookType]
         /\ \A h \in Hooks :
              LET off == {d \in SwitchedOff(batch) : row[d].hook = h}
              IN  /\ hook'[h].there = hook[h].there /\ hook'[h].delivered = hook[h].delivered
                  /\ hook'[h].failures = hook[h].failures + Cardinality(off)
<1> DEFINE Off(h) == {d \in SwitchedOff(batch) : row[d].hook = h}
           n(h) == hook[h].failures + Cardinality(Off(h))
<1>0. hook \in [Hooks -> HookType]
  BY DEF IInv, TypeOK
<1>1. hook' = [h \in Hooks |-> [hook[h] EXCEPT !.failures = n(h)]]
  BY DEF Tick
<1>2. \A h \in Hooks : n(h) \in Nat
  <2> TAKE h \in Hooks
  <2>1. Off(h) \subseteq Deliveries
    BY DEF SwitchedOff, Taken, Due, Waiting
  <2>2. Cardinality(Off(h)) \in Nat
    BY <2>1, DeliveriesAssumption, FS_Subset, FS_CardinalityType
  <2>3. hook[h].failures \in Nat
    BY <1>0 DEF HookType
  <2> HIDE DEF Off
  <2> QED BY <2>2, <2>3
<1>3. \A H \in HookType, k \in Nat :
        LET G == [H EXCEPT !.failures = k]
        IN  G \in HookType /\ G.there = H.there /\ G.delivered = H.delivered /\ G.failures = k
  BY DEF HookType
<1>4. \A h \in Hooks : /\ hook'[h] \in HookType /\ hook'[h].there = hook[h].there
                       /\ hook'[h].delivered = hook[h].delivered /\ hook'[h].failures = n(h)
  <2> HIDE DEF n
  <2> QED BY <1>0, <1>1, <1>2, <1>3
<1>5. hook' \in [Hooks -> HookType]
  <2> HIDE DEF n
  <2> QED BY <1>0, <1>1, <1>2, <1>3
<1> QED BY <1>4, <1>5

LEMMA TickStep ==
  ASSUME IInv, NEW batch \in SUBSET Due, Tick(batch)
  PROVE  IInv'
<1> DEFINE off  == SwitchedOff(batch)
           sent == Taken(batch) \ off
<1>0. /\ TypeOK /\ row \in [Deliveries -> RowType] /\ sending \in [Deliveries -> Attempt \cup {None}]
      /\ posts \in [Deliveries -> Nat] /\ lost \in [Deliveries -> Nat] /\ phase = "up"
      /\ UNCHANGED <<phase, lost, edits, restarts>>
  BY DEF IInv, TypeOK, Tick
<1>1. /\ off \subseteq Taken(batch) /\ sent \subseteq Taken(batch) /\ off \cap sent = {}
      /\ Taken(batch) = off \cup sent /\ Taken(batch) \subseteq Deliveries
  BY DEF SwitchedOff, Taken, Due, Waiting
<1>2. /\ row' = [d \in Deliveries |->
                  IF d \in off
                  THEN [row[d] EXCEPT !.status = "failed", !.attempts = row[d].attempts + 1, !.due = None]
                  ELSE IF d \in sent THEN [row[d] EXCEPT !.due = Lease] ELSE row[d]]
      /\ sending' = [d \in Deliveries |->
                       IF d \in sent THEN Reads(d, "queue", row[d].hook) ELSE sending[d]]
      /\ posts' = [d \in Deliveries |-> IF d \in sent THEN posts[d] + 1 ELSE posts[d]]
  BY DEF Tick
<1>3. TickSchedules(batch)
  BY DEF Tick
<1> HIDE DEF off, sent
<1>4. ASSUME NEW d \in off
      PROVE  /\ row'[d] \in RowType /\ row'[d].status = "failed" /\ row'[d].due = None
             /\ row'[d].hook = row[d].hook /\ sending'[d] = sending[d] /\ posts'[d] = posts[d]
  <2>1. d \in Deliveries /\ row[d] \in RowType /\ d \notin sent /\ row[d].attempts + 1 \in Nat
    BY <1>0, <1>1 DEF RowType
  <2> DEFINE S == [row[d] EXCEPT !.status = "failed", !.attempts = row[d].attempts + 1, !.due = None]
  <2>2. S \in RowType /\ S.status = "failed" /\ S.due = None /\ S.hook = row[d].hook
    BY <2>1 DEF RowType
  <2>3. row'[d] = S /\ sending'[d] = sending[d] /\ posts'[d] = posts[d]
    BY <1>2, <2>1
  <2> HIDE DEF S
  <2> QED BY <2>2, <2>3
<1>5. ASSUME NEW d \in sent
      PROVE  /\ row'[d] \in RowType /\ row'[d].status = row[d].status /\ row'[d].due = Lease
             /\ row'[d].hook = row[d].hook /\ row'[d].attempts = row[d].attempts
             /\ sending'[d] \in Attempt /\ sending'[d] # None /\ sending'[d].attempts = row[d].attempts
             /\ posts'[d] = posts[d] + 1
  <2>1. d \in Deliveries /\ row[d] \in RowType /\ d \notin off /\ row[d].hook \in Hooks
    BY <1>0, <1>1, TakenRows
  <2> DEFINE S == [row[d] EXCEPT !.due = Lease]
  <2>2. S \in RowType /\ S.status = row[d].status /\ S.due = Lease /\ S.hook = row[d].hook
        /\ S.attempts = row[d].attempts
    BY <2>1, TimesAssumption DEF RowType
  <2>3. row'[d] = S /\ sending'[d] = Reads(d, "queue", row[d].hook) /\ posts'[d] = posts[d] + 1
    BY <1>2, <2>1
  <2> HIDE DEF S
  <2>4. /\ Reads(d, "queue", row[d].hook) \in Attempt /\ Reads(d, "queue", row[d].hook) # None
        /\ Reads(d, "queue", row[d].hook).attempts = row[d].attempts
    BY <1>0, <2>1, ReadsRow
  <2> QED BY <2>2, <2>3, <2>4
<1>6. \A d \in Deliveries \ (off \cup sent) :
        row'[d] = row[d] /\ sending'[d] = sending[d] /\ posts'[d] = posts[d]
  BY <1>2
<1>7. /\ row' \in [Deliveries -> RowType] /\ sending' \in [Deliveries -> Attempt \cup {None}]
      /\ posts' \in [Deliveries -> Nat]
  <2>1. \A d \in Deliveries : /\ row'[d] \in RowType /\ sending'[d] \in Attempt \cup {None}
                              /\ posts'[d] \in Nat
    BY <1>0, <1>1, <1>4, <1>5, <1>6
  <2>2. /\ row' = [d \in Deliveries |-> row'[d]] /\ sending' = [d \in Deliveries |-> sending'[d]]
        /\ posts' = [d \in Deliveries |-> posts'[d]]
    BY <1>2
  <2> QED BY <2>1, <2>2
<1>8. RowsFit'
  <2> SUFFICES ASSUME NEW d \in Deliveries PROVE Fits(d)'
    BY DEF RowsFit
  <2>0. Fits(d) /\ lost'[d] = lost[d] /\ lost[d] \in Nat /\ posts[d] \in Nat /\ row[d].attempts \in Nat
    BY <1>0 DEF IInv, RowsFit, RowType
  <2>1. ASSUME d \in off PROVE Fits(d)'
    <3>1. row[d].hook \in Hooks /\ sending[d] = None
      BY <1>1, <2>1, TakenRows
    <3> QED BY <1>4, <2>0, <2>1, <3>1 DEF Fits, Waits
  <2>2. ASSUME d \in sent PROVE Fits(d)'
    <3>1. row[d].hook \in Hooks /\ sending[d] = None /\ Waits(row[d]) /\ row[d].status \notin {"none", "gone"}
      BY <1>1, <2>2, TakenRows
    <3>2. row[d].attempts <= MaxRetries /\ posts[d] <= row[d].attempts + lost[d]
      BY <2>0, <3>1 DEF Fits, Flying
    <3>3. Flying(d)' = 1
      BY <1>5, <2>2 DEF Flying
    <3>4. Waits(row'[d])
      BY <1>5, <2>2, <3>1, TimesAssumption, NoneIsNothing DEF Waits
    <3>5. /\ posts'[d] <= row'[d].attempts + lost'[d] + Flying(d)'
          /\ posts'[d] <= MaxRetries + 1 + lost'[d]
      BY <1>5, <2>0, <2>2, <3>2, <3>3, BoundsAssumption
    <3> QED BY <1>5, <2>2, <3>1, <3>2, <3>4, <3>5 DEF Fits, Waits
  <2>3. ASSUME d \notin off \cup sent PROVE Fits(d)'
    BY <1>6, <2>0, <2>3 DEF Fits, Flying
  <2> QED BY <2>1, <2>2, <2>3
<1>9. timer' \in Nat \cup {None} /\ TimerIsSet'
  <2>1. ASSUME ScheduleFrom(None) PROVE timer' \in Nat \cup {None} /\ TimerIsSet'
    <3>1. timer' \in Nat \cup {None} /\ (Waiting' # {} => Awake')
      BY <1>7, <2>1, ScheduledFrom
    <3> QED BY <3>1 DEF TimerIsSet, Awake
  <2>2. ASSUME timer' = 0 PROVE timer' \in Nat \cup {None} /\ TimerIsSet'
    <3>1. \A d \in Waiting' : row'[d].due \in Nat
      BY <1>7 DEF Waiting, Waits, RowType
    <3>2. \A d \in Waiting' : timer' <= row'[d].due
      BY <2>2, <3>1
    <3> QED BY <2>2, <3>2, NoneIsNothing DEF TimerIsSet
  <2>3. ASSUME batch # {}, off = {}, timer' = None PROVE timer' \in Nat \cup {None} /\ TimerIsSet'
    <3>1. PICK d \in batch : TRUE
      BY <2>3
    <3>2. d \in Deliveries
      BY DEF Due, Waiting
    <3>3. CASE sending[d] # None
      <4>1. d \notin Taken(batch)
        BY <3>2, <3>3 DEF Taken, InFlight
      <4>2. sending'[d] = sending[d]
        BY <1>1, <1>6, <3>2, <4>1
      <4>3. d \in InFlight'
        BY <3>2, <3>3, <4>2 DEF InFlight
      <4> QED BY <2>3, <4>3 DEF TimerIsSet
    <3>4. CASE sending[d] = None
      <4>1. d \in Taken(batch)
        BY <3>1, <3>4 DEF Taken, InFlight
      <4>2. d \in sent
        BY <1>1, <2>3, <4>1
      <4>3. d \in InFlight'
        BY <1>5, <3>2, <4>2 DEF InFlight
      <4> QED BY <2>3, <4>3 DEF TimerIsSet
    <3> QED BY <3>3, <3>4
  <2> QED BY <1>3, <2>1, <2>2, <2>3 DEF TickSchedules, off
<1>10. hook' \in [Hooks -> HookType]
  BY TickCounts
<1>11. TypeOK'
  BY <1>0, <1>7, <1>9, <1>10 DEF TypeOK
<1>12. GoneTogether'
  <2> SUFFICES ASSUME NEW d \in Deliveries, row'[d].status = "gone"
               PROVE  ~ hook'[row'[d].hook].there
    BY DEF GoneTogether
  <2>1. d \notin off /\ d \notin sent
    BY <1>1, <1>4, <1>5, TakenRows
  <2>2. row'[d] = row[d]
    BY <1>6, <2>1
  <2>3. row[d].hook \in Hooks /\ ~ hook[row[d].hook].there
    BY <2>2 DEF IInv, GoneTogether, RowsFit, Fits
  <2> QED BY <2>2, <2>3, TickCounts
<1>13. Counts'
  <2> SUFFICES ASSUME NEW h \in Hooks, hook'[h].there
               PROVE  /\ hook'[h].delivered = Cardinality(Good(h)')
                      /\ hook'[h].failures = Cardinality(Bad(h)')
    BY DEF Counts
  <2> DEFINE mine == {d \in SwitchedOff(batch) : row[d].hook = h}
  <2>1. /\ hook'[h].there = hook[h].there /\ hook'[h].delivered = hook[h].delivered
        /\ hook'[h].failures = hook[h].failures + Cardinality(mine)
    BY TickCounts
  <2>2. hook[h].delivered = Cardinality(Good(h)) /\ hook[h].failures = Cardinality(Bad(h))
    BY <2>1 DEF IInv, Counts
  <2>3. mine = {d \in off : row[d].hook = h}
    BY DEF off
  <2> HIDE DEF mine
  <2>4. ASSUME NEW d \in off PROVE ~ Over(row[d]) /\ Over(row'[d]) /\ row'[d].status # "delivered"
    <3>1. ~ Over(row[d])
      BY <1>1, TakenRows
    <3> QED BY <1>4, <3>1 DEF Over
  <2>5. ASSUME NEW d \in sent PROVE ~ Over(row[d]) /\ ~ Over(row'[d])
    <3>1. ~ Over(row[d])
      BY <1>1, TakenRows
    <3> QED BY <1>5, <3>1, TimesAssumption, NoneIsNothing DEF Over
  <2>6. Good(h)' = Good(h)
    BY <1>6, <2>4, <2>5 DEF Good, Over
  <2>7. Bad(h)' = Bad(h) \cup mine
    BY <1>1, <1>4, <1>6, <2>3, <2>4, <2>5 DEF Bad
  <2>8. Bad(h) \cap mine = {}
    BY <2>3, <2>4 DEF Bad
  <2>9. IsFiniteSet(Bad(h)) /\ IsFiniteSet(mine) /\ Cardinality(Bad(h)) \in Nat /\ Cardinality(mine) \in Nat
    <3>1. mine \subseteq Deliveries
      BY <1>1, <2>3
    <3> QED BY <3>1, CountedSets, DeliveriesAssumption, FS_Subset, FS_CardinalityType
  <2>10. Cardinality(Bad(h) \cup mine) = Cardinality(Bad(h)) + Cardinality(mine)
    <3>1. Cardinality(Bad(h) \cap mine) = 0
      BY <2>8, FS_EmptySet
    <3>2. Cardinality(Bad(h) \cup mine) = Cardinality(Bad(h)) + Cardinality(mine) - Cardinality(Bad(h) \cap mine)
      BY <2>9, FS_Union
    <3> QED BY <2>9, <3>1, <3>2
  <2> QED BY <2>1, <2>2, <2>6, <2>7, <2>10
<1> QED BY <1>8, <1>9, <1>11, <1>12, <1>13 DEF IInv

-----------------------------------------------------------------------------
LEMMA StepHolds == IInv /\ [Next]_vars => IInv'
<1> SUFFICES ASSUME IInv, [Next]_vars PROVE IInv'
  OBVIOUS
<1>1. CASE People
  <2>1. CASE \E h \in Hooks, on \in BOOLEAN, retries \in 0..MaxRetries : Update(h, on, retries)
    BY <2>1, UpdateStep
  <2>2. CASE \E h \in Hooks : DeleteHook(h)
    BY <2>2, DeleteHookStep
  <2>3. CASE \E d \in Deliveries, h \in Hooks : Test(d, h)
    BY <2>3, TestStep
  <2>4. CASE \E d, new \in Deliveries : Redeliver(d, new)
    BY <2>4, RedeliverStep
  <2> QED BY <1>1, <2>1, <2>2, <2>3, <2>4 DEF People
<1>2. CASE \E d \in Deliveries, h \in Hooks : Dispatch(d, h)
  BY <1>2, DispatchStep
<1>3. CASE Ticks
  BY <1>3, TickStep DEF Ticks
<1>4. CASE \E d \in Deliveries : Succeeds(d) \/ Fails(d)
  BY <1>4, SucceedsStep, FailsStep
<1>5. CASE Stop \/ Dies \/ Boot
  BY <1>5, StopStep, DiesStep, BootStep
<1>6. CASE TimePasses
  BY <1>6, TimePassesStep
<1>7. CASE UNCHANGED vars
  <2>1. UNCHANGED <<hook, row, sending, timer, phase, posts, lost, edits, restarts>>
    BY <1>7 DEF vars
  <2>2. TypeOK' /\ TimerIsSet'
    BY <2>1 DEF IInv, TypeOK, TimerIsSet, Waiting, InFlight
  <2>3. RowsFit' /\ GoneTogether' /\ Counts'
    BY <2>1 DEF IInv, RowsFit, Fits, Flying, GoneTogether, Counts, Good, Bad
  <2> QED BY <2>2, <2>3 DEF IInv
<1> QED BY <1>1, <1>2, <1>3, <1>4, <1>5, <1>6, <1>7 DEF Next

\* No step writes or sends what is over.
LEMMA OverStays ==
  ASSUME IInv, [Next]_vars, NEW d \in Deliveries, Over(row[d])
  PROVE  (row'[d] = row[d] \/ row'[d].status = "gone") /\ posts'[d] = posts[d]
<1>0. TypeOK /\ row \in [Deliveries -> RowType] /\ posts \in [Deliveries -> Nat] /\ Fits(d)
  BY DEF IInv, TypeOK, RowsFit
<1>1. row[d] # NoRow /\ ~ Waits(row[d]) /\ sending[d] = None /\ row[d].due = None
  BY <1>0 DEF Fits, Over, Waits, NoRow
<1>2. ASSUME NEW e \in Deliveries, NEW h \in Hooks, Dispatch(e, h) \/ Test(e, h) PROVE row'[d] = row[d] /\ posts'[d] = posts[d]
  <2>1. e # d
    BY <1>1, <1>2 DEF Dispatch, Test
  <2>2. row'[d] = row[d]
    BY <1>0, <1>2, <2>1 DEF Dispatch, Test
  <2>3. posts'[d] = posts[d]
    BY <1>0, <1>2, <2>1 DEF Dispatch, Test
  <2> QED BY <2>2, <2>3
<1>3. ASSUME NEW e \in Deliveries, NEW new \in Deliveries, Redeliver(e, new) PROVE row'[d] = row[d] /\ posts'[d] = posts[d]
  <2>1. new # d
    BY <1>1, <1>3 DEF Redeliver
  <2> QED BY <1>0, <1>3, <2>1 DEF Redeliver
<1>4. ASSUME NEW batch \in SUBSET Due, Tick(batch) PROVE row'[d] = row[d] /\ posts'[d] = posts[d]
  <2>1. d \notin batch
    BY <1>1, <1>4 DEF Due, Waiting
  <2>2. d \notin Taken(batch) /\ d \notin SwitchedOff(batch)
    BY <2>1 DEF Taken, SwitchedOff
  <2> QED BY <1>4, <2>2 DEF Tick
<1>5. ASSUME NEW e \in Deliveries, Succeeds(e) \/ Fails(e) PROVE row'[d] = row[d] /\ posts'[d] = posts[d]
  <2>1. e # d /\ posts' = posts
    BY <1>1, <1>5 DEF Succeeds, Fails, AttemptOver
  <2>2. row'[d] = row[d]
    BY <1>0, <1>5, <2>1 DEF Succeeds, Fails
  <2> QED BY <2>1, <2>2
<1>6. ASSUME NEW h \in Hooks, DeleteHook(h) PROVE (row'[d] = row[d] \/ row'[d].status = "gone") /\ posts'[d] = posts[d]
  <2>1. \A R \in RowType : [R EXCEPT !.status = "gone", !.due = None].status = "gone"
    BY DEF RowType
  <2> QED BY <1>0, <1>6, <2>1 DEF DeleteHook
<1>7. ASSUME TimePasses PROVE row'[d] = row[d] /\ posts'[d] = posts[d]
  <2>1. row'[d] = [row[d] EXCEPT !.due = Less(row[d].due)] /\ posts' = posts
    BY <1>7 DEF TimePasses
  <2>2. Less(row[d].due) = row[d].due
    BY <1>1 DEF Less
  <2>3. \A R \in RowType : \A u \in {R.due} : [R EXCEPT !.due = u] = R
    BY DEF RowType
  <2>4. row'[d] = row[d]
    BY <1>0, <2>1, <2>2, <2>3
  <2> QED BY <2>1, <2>4
<1>8. ASSUME \/ Stop \/ Dies \/ Boot \/ UNCHANGED vars
             \/ \E h \in Hooks, on \in BOOLEAN, retries \in 0..MaxRetries : Update(h, on, retries)
      PROVE  row'[d] = row[d] /\ posts'[d] = posts[d]
  BY <1>8 DEF Stop, Dies, Boot, vars, Update
<1>9. CASE People
  BY <1>2, <1>3, <1>6, <1>8, <1>9 DEF People
<1>10. CASE Ticks
  BY <1>4, <1>10 DEF Ticks
<1> QED BY <1>2, <1>5, <1>7, <1>8, <1>9, <1>10 DEF Next

-----------------------------------------------------------------------------
(* The queue is an outbox.                                                   *)

\* What an answer is to was posted, and what is kept has a webhook that is.
Attended(d) ==
  /\ sending[d] # None => posts[d] > 0
  /\ row[d].status \notin {"none", "gone"} => hook[row[d].hook].there

Outbound == \A d \in Deliveries : Attended(d)

\* How one delivery goes on, for its owner.
GoesOn(d) ==
  \/ Promised!Same(d) \/ Promised!Posted(d) \/ Promised!Retried(d) \/ Promised!Arrived(d)
  \/ Promised!Abandoned(d) \/ Promised!Deleted(d)

Carried(d) == Promised!Accepted(d) \/ (GoesOn(d) /\ row'[d].hook = row[d].hook)

Delivers == \A d \in Deliveries : Attended(d)' /\ Carried(d)

USE DEF Promised!Same, Promised!Moves, Promised!Counts

\* What did not change goes on.
LEMMA NothingHappens ==
  ASSUME IInv, NEW d \in Deliveries, row'[d] = row[d], posts'[d] = posts[d]
  PROVE  Carried(d)
BY DEF IInv, TypeOK, RowType, Carried, GoesOn

LEMMA QueuedDelivers ==
  ASSUME IInv, Outbound, NEW d \in Deliveries, NEW h \in Hooks, row[d] = NoRow, hook[h].there,
         row' = [row EXCEPT ![d] = Queued(h)], UNCHANGED <<hook, sending, posts>>
  PROVE  Delivers
<1>0. row \in [Deliveries -> RowType] /\ posts \in [Deliveries -> Nat]
  BY DEF IInv, TypeOK
<1>1. row'[d] = Queued(h) /\ \A e \in Deliveries \ {d} : row'[e] = row[e]
  BY <1>0
<1>2. \A e \in Deliveries : Attended(e)'
  BY <1>1, QueuedRow DEF Outbound, Attended
<1>3. Seen(row[d]) = "none" /\ row[d].attempts = 0
  BY DEF Seen, NoRow
<1>4. Seen(row'[d]) = "waiting" /\ row'[d].attempts = 0 /\ row'[d].hook \in Hooks
  BY <1>1, QueuedRow DEF Seen
<1>5. Carried(d)
  BY <1>0, <1>3, <1>4 DEF Carried, Promised!Accepted
<1> QED BY <1>1, <1>2, <1>5, NothingHappens DEF Delivers

LEMMA TestDelivers ==
  ASSUME IInv, Outbound, NEW d \in Deliveries, NEW h \in Hooks, Test(d, h)
  PROVE  Delivers
<1> DEFINE S == [Queued(h) EXCEPT !.due = Lease]
<1>0. row \in [Deliveries -> RowType] /\ posts \in [Deliveries -> Nat] /\ sending \in [Deliveries -> Attempt \cup {None}]
  BY DEF IInv, TypeOK
<1>1. S.status = "queued" /\ S.hook = h /\ S.attempts = 0 /\ S.due = Lease /\ Lease # None
  BY TimesAssumption, NoneIsNothing DEF Queued
<1>2. /\ row' = [row EXCEPT ![d] = S] /\ posts' = [posts EXCEPT ![d] = posts[d] + 1]
      /\ row[d] = NoRow /\ hook[h].there /\ hook' = hook
      /\ sending' = [sending EXCEPT ![d] = Reads(d, "test", h)]
  BY DEF Test
<1> HIDE DEF S
<1>3. /\ row'[d] = S /\ posts'[d] = posts[d] + 1
      /\ \A e \in Deliveries \ {d} : row'[e] = row[e] /\ posts'[e] = posts[e] /\ sending'[e] = sending[e]
  BY <1>0, <1>2
<1>4. \A e \in Deliveries : Attended(e)'
  BY <1>0, <1>1, <1>2, <1>3 DEF Outbound, Attended
<1>5. Seen(row[d]) = "none" /\ row[d].attempts = 0
  BY <1>2 DEF Seen, NoRow
<1>6. Seen(row'[d]) = "waiting"
  BY <1>1, <1>3 DEF Seen, Over
<1>7. Carried(d)
  BY <1>0, <1>1, <1>3, <1>5, <1>6 DEF Carried, Promised!Accepted
<1> QED BY <1>3, <1>4, <1>7, NothingHappens DEF Delivers

\* An attempt ends: its row is as it was, deleted, or the try is counted.
LEMMA EndDelivers ==
  ASSUME IInv, Outbound, NEW d \in Deliveries, AttemptOver(d), NEW S \in RowType,
         row' = [row EXCEPT ![d] = Written(d, S)],
         S.status \in {"delivered", "failed", "dead"}, S.hook = row[d].hook,
         row[d].status # "gone" => S.attempts = row[d].attempts + 1,
         \A h \in Hooks : hook'[h].there = hook[h].there
  PROVE  Delivers
<1>0. /\ row \in [Deliveries -> RowType] /\ posts \in [Deliveries -> Nat]
      /\ sending \in [Deliveries -> Attempt \cup {None}] /\ Fits(d) /\ Attended(d)
  BY DEF IInv, TypeOK, RowsFit, Outbound
<1>1. sending[d] # None /\ sending' = [sending EXCEPT ![d] = None] /\ posts' = posts
  BY DEF AttemptOver
<1>2. /\ row'[d] = Written(d, S) /\ sending'[d] = None
      /\ \A e \in Deliveries \ {d} : row'[e] = row[e] /\ sending'[e] = sending[e]
  BY <1>0, <1>1
<1>3. \A e \in Deliveries : row[e].status # "none" => row[e].hook \in Hooks
  BY DEF IInv, RowsFit, Fits
<1>4. \A e \in Deliveries \ {d} : Attended(e)'
  BY <1>1, <1>2, <1>3 DEF Outbound, Attended
<1>5. CASE row[d].status = "gone"
  BY <1>1, <1>2, <1>4, <1>5, NothingHappens DEF Written, Attended, Delivers
<1>6. CASE row[d].status # "gone"
  <2>1. row'[d] = S /\ Waits(row[d]) /\ row[d].attempts \in Nat /\ posts[d] > 0
    BY <1>0, <1>1, <1>2, <1>6 DEF Written, Fits, Attended, RowType
  <2>2. Attended(d)'
    BY <1>0, <1>2, <1>3, <2>1 DEF Attended, Waits
  <2>3. Seen(row[d]) = "waiting"
    BY <2>1 DEF Seen, Waits, Over
  <2>4. Seen(S) \in {"arrived", "abandoned", "waiting"}
    BY DEF Seen
  <2>5. Carried(d)
    BY <1>0, <1>1, <1>6, <2>1, <2>3, <2>4
    DEF Carried, GoesOn, Promised!Retried, Promised!Arrived, Promised!Abandoned
  <2> QED BY <1>1, <1>2, <1>4, <2>2, <2>5, NothingHappens DEF Delivers
<1> QED BY <1>5, <1>6

\* What an attempt counts leaves the webhooks where they are.
LEMMA CountedThere ==
  ASSUME TypeOK, NEW d \in Deliveries, NEW field \in {"delivered", "failures"},
         row[d].status # "gone" => row[d].hook \in Hooks
  PROVE  \A h \in Hooks : Counted(d, field)[h].there = hook[h].there
<1> SUFFICES ASSUME row[d].status # "gone" PROVE \A h \in Hooks : Counted(d, field)[h].there = hook[h].there
  BY DEF Counted
<1>1. \A H \in HookType, n \in Nat : /\ [H EXCEPT !.delivered = n].there = H.there
                                     /\ [H EXCEPT !.failures = n].there = H.there
  BY DEF HookType
<1>2. hook \in [Hooks -> HookType] /\ row[d].hook \in Hooks
  BY DEF TypeOK
<1>3. hook[row[d].hook].delivered + 1 \in Nat /\ hook[row[d].hook].failures + 1 \in Nat
  BY <1>2 DEF HookType
<1> QED BY <1>1, <1>2, <1>3 DEF Counted

LEMMA SucceedsDelivers ==
  ASSUME IInv, Outbound, NEW d \in Deliveries, Succeeds(d)
  PROVE  Delivers
<1> DEFINE n == sending[d].attempts + 1
           S == [row[d] EXCEPT !.status = "delivered", !.due = None, !.attempts = n]
<1>0. TypeOK /\ row[d] \in RowType /\ sending[d] \in Attempt /\ Fits(d)
  BY DEF IInv, TypeOK, RowsFit, Succeeds, AttemptOver
<1>1. n \in Nat /\ (row[d].status # "gone" => n = row[d].attempts + 1 /\ row[d].hook \in Hooks)
  BY <1>0 DEF Attempt, Fits, Succeeds, AttemptOver, Waits
<1>2. row' = [row EXCEPT ![d] = Written(d, S)] /\ hook' = Counted(d, "delivered")
  BY DEF Succeeds
<1> HIDE DEF n
<1>3. S \in RowType /\ S.status = "delivered" /\ S.hook = row[d].hook /\ S.attempts = n
  BY <1>0, <1>1 DEF RowType
<1> HIDE DEF S
<1>4. \A h \in Hooks : hook'[h].there = hook[h].there
  BY <1>0, <1>1, <1>2, CountedThere
<1> QED BY <1>1, <1>2, <1>3, <1>4, EndDelivers DEF Succeeds

LEMMA FailsDelivers ==
  ASSUME IInv, Outbound, NEW d \in Deliveries, Fails(d)
  PROVE  Delivers
<1>0. TypeOK /\ row[d] \in RowType /\ sending[d] \in Attempt /\ Fits(d)
  BY DEF IInv, TypeOK, RowsFit, Fails, AttemptOver
<1>1. PICK wait \in 0..RetryCap : row' = [row EXCEPT ![d] = Written(d, Failed(row[d], sending[d], wait))]
  BY DEF Fails
<1> DEFINE n == sending[d].attempts + 1
           u == IF Again(sending[d]) THEN wait ELSE None
           z == IF sending[d].mode = "queue" /\ ~ Again(sending[d]) THEN "dead" ELSE "failed"
           S == [row[d] EXCEPT !.status = z, !.due = u, !.attempts = n]
<1>2. /\ n \in Nat /\ u \in Nat \cup {None} /\ z \in {"dead", "failed"}
      /\ row[d].status # "gone" => n = row[d].attempts + 1 /\ row[d].hook \in Hooks
  BY <1>0, TimesAssumption DEF Attempt, Fits, Fails, AttemptOver, Waits
<1>3. Failed(row[d], sending[d], wait) = S
  BY DEF Failed
<1> HIDE DEF n, u, z
<1>4. S \in RowType /\ S.status = z /\ S.hook = row[d].hook /\ S.attempts = n
  BY <1>0, <1>2 DEF RowType
<1> HIDE DEF S
<1>5. \A h \in Hooks : hook'[h].there = hook[h].there
  BY <1>0, <1>2, CountedThere DEF Fails, FailureOf
<1> QED BY <1>1, <1>2, <1>3, <1>4, <1>5, EndDelivers DEF Fails

LEMMA DeleteHookDelivers ==
  ASSUME IInv, Outbound, NEW h \in Hooks, DeleteHook(h)
  PROVE  Delivers
<1>0. row \in [Deliveries -> RowType] /\ hook \in [Hooks -> HookType] /\ posts \in [Deliveries -> Nat]
  BY DEF IInv, TypeOK
<1>1. \A R \in RowType : LET S == [R EXCEPT !.status = "gone", !.due = None]
                         IN  S.status = "gone" /\ S.hook = R.hook /\ S.attempts = R.attempts
  BY DEF RowType
<1>2. /\ hook' = [hook EXCEPT ![h].there = FALSE] /\ sending' = sending /\ posts' = posts
      /\ \A d \in Deliveries :
           row'[d] = IF row[d].hook = h THEN [row[d] EXCEPT !.status = "gone", !.due = None] ELSE row[d]
  BY DEF DeleteHook
<1>3. \A g \in Hooks \ {h} : hook'[g] = hook[g]
  BY <1>0, <1>2
<1> SUFFICES ASSUME NEW d \in Deliveries PROVE Attended(d)' /\ Carried(d)
  BY DEF Delivers
<1>4. Attended(d) /\ Fits(d)
  BY DEF IInv, RowsFit, Outbound
<1>5. CASE row[d].hook # h
  <2>1. row'[d] = row[d] /\ (row[d].status # "none" => row[d].hook \in Hooks \ {h})
    BY <1>2, <1>4, <1>5 DEF Fits
  <2> QED BY <1>2, <1>3, <1>4, <2>1, NothingHappens DEF Attended
<1>6. CASE row[d].hook = h
  <2> DEFINE S == [row[d] EXCEPT !.status = "gone", !.due = None]
  <2>0. row'[d] = S /\ row[d] \in RowType
    BY <1>0, <1>2, <1>6
  <2>1. row'[d].status = "gone" /\ row'[d].hook = row[d].hook /\ row'[d].attempts = row[d].attempts
    BY <1>1, <2>0
  <2>2. row[d].status # "none"
    BY <1>4, <1>6, NoneIsNothing DEF Fits
  <2>3. Seen(row'[d]) = "deleted"
    BY <2>1 DEF Seen
  <2>4. Seen(row[d]) \in {"waiting", "arrived", "abandoned", "deleted"}
    BY <1>0, <2>2 DEF Seen, RowType
  <2> HIDE DEF S
  <2>5. posts'[d] = posts[d] + 0 /\ row'[d].attempts = row[d].attempts + 0
    <3>1. row[d].attempts \in Nat /\ posts[d] \in Nat /\ posts' = posts
      BY <1>0, <1>2, <2>0 DEF RowType
    <3> QED BY <2>1, <3>1
  <2>6. ASSUME NEW from \in {"waiting", "arrived", "abandoned"}, Seen(row[d]) = from
        PROVE  Promised!Moves(d, from, "deleted")
    BY <2>3, <2>6
  <2>7. Promised!Same(d) \/ Promised!Deleted(d)
    <3>1. CASE Seen(row[d]) = "deleted"
      BY <2>3, <2>5, <3>1
    <3>2. CASE Seen(row[d]) # "deleted"
      <4> HIDE DEF Promised!Moves
      <4> QED BY <2>4, <2>5, <2>6, <3>2 DEF Promised!Deleted
    <3> QED BY <3>1, <3>2
  <2>8. Carried(d)
    BY <2>1, <2>7 DEF Carried, GoesOn
  <2> QED BY <1>2, <1>4, <2>1, <2>8 DEF Attended
<1> QED BY <1>5, <1>6

LEMMA TickDelivers ==
  ASSUME IInv, Outbound, NEW batch \in SUBSET Due, Tick(batch)
  PROVE  Delivers
<1> DEFINE off  == SwitchedOff(batch)
           sent == Taken(batch) \ off
<1>0. /\ row \in [Deliveries -> RowType] /\ posts \in [Deliveries -> Nat] /\ hook \in [Hooks -> HookType]
      /\ sending \in [Deliveries -> Attempt \cup {None}]
  BY DEF IInv, TypeOK
<1>1. /\ \A d \in Deliveries :
           /\ row'[d] = IF d \in off
                        THEN [row[d] EXCEPT !.status = "failed", !.attempts = row[d].attempts + 1, !.due = None]
                        ELSE IF d \in sent THEN [row[d] EXCEPT !.due = Lease] ELSE row[d]
           /\ sending'[d] = IF d \in sent THEN Reads(d, "queue", row[d].hook) ELSE sending[d]
           /\ posts'[d] = IF d \in sent THEN posts[d] + 1 ELSE posts[d]
      /\ hook' = [h \in Hooks |-> [hook[h] EXCEPT !.failures = @ + Cardinality({d \in off : row[d].hook = h})]]
  BY DEF Tick
<1>2. \A d \in off \cup sent : d \in Deliveries /\ Waits(row[d]) /\ sending[d] = None
  BY DEF SwitchedOff, Taken, Due, Waiting, InFlight
<1>3. \A h \in Hooks : hook'[h].there = hook[h].there
  <2>1. \A H \in HookType : \A k : [H EXCEPT !.failures = k].there = H.there
    BY DEF HookType
  <2> QED BY <1>0, <1>1, <2>1
<1> HIDE DEF off, sent
<1>4. off \cap sent = {}
  BY DEF off, sent
<1> SUFFICES ASSUME NEW d \in Deliveries PROVE Attended(d)' /\ Carried(d)
  BY DEF Delivers
<1>5. Attended(d) /\ Fits(d) /\ row[d] \in RowType /\ posts[d] \in Nat
  BY <1>0 DEF IInv, RowsFit, Outbound
<1>6. row[d].status # "none" => row[d].hook \in Hooks
  BY <1>5 DEF Fits
<1>7. CASE d \in off
  <2> DEFINE S == [row[d] EXCEPT !.status = "failed", !.attempts = row[d].attempts + 1, !.due = None]
  <2>1. S.status = "failed" /\ S.attempts = row[d].attempts + 1 /\ S.due = None /\ S.hook = row[d].hook
    BY <1>5 DEF RowType
  <2>2. row'[d] = S /\ sending'[d] = sending[d] /\ posts'[d] = posts[d]
    BY <1>1, <1>4, <1>7
  <2> HIDE DEF S
  <2>3. Seen(row[d]) = "waiting" /\ Seen(row'[d]) = "abandoned"
    BY <1>2, <1>7, <2>1, <2>2 DEF Seen, Over, Waits
  <2>4. Carried(d)
    BY <1>5, <2>1, <2>2, <2>3 DEF Carried, GoesOn, Promised!Abandoned
  <2> QED BY <1>2, <1>3, <1>5, <1>6, <1>7, <2>1, <2>2, <2>4 DEF Attended, Waits
<1>8. CASE d \in sent
  <2> DEFINE S == [row[d] EXCEPT !.due = Lease]
  <2>1. S.status = row[d].status /\ S.attempts = row[d].attempts /\ S.due = Lease /\ S.hook = row[d].hook
    BY <1>5 DEF RowType
  <2>2. row'[d] = S /\ posts'[d] = posts[d] + 1
    BY <1>1, <1>4, <1>8
  <2> HIDE DEF S
  <2>3. Seen(row[d]) = "waiting" /\ Seen(row'[d]) = "waiting"
    BY <1>2, <1>8, <2>1, <2>2, TimesAssumption, NoneIsNothing DEF Seen, Over, Waits
  <2>4. Carried(d)
    BY <1>5, <2>1, <2>2, <2>3 DEF Carried, GoesOn, Promised!Posted, RowType
  <2> QED BY <1>2, <1>3, <1>5, <1>6, <1>8, <2>1, <2>2, <2>4 DEF Attended, Waits
<1>9. CASE d \notin off \cup sent
  <2>1. row'[d] = row[d] /\ sending'[d] = sending[d] /\ posts'[d] = posts[d]
    BY <1>1, <1>9
  <2> QED BY <1>3, <1>5, <1>6, <2>1, NothingHappens DEF Attended
<1> QED BY <1>7, <1>8, <1>9

LEMMA TimePassesDelivers ==
  ASSUME IInv, Outbound, TimePasses
  PROVE  Delivers
<1> SUFFICES ASSUME NEW d \in Deliveries PROVE Attended(d)' /\ Carried(d)
  BY DEF Delivers
<1>0. row[d] \in RowType /\ posts[d] \in Nat /\ Attended(d)
  BY DEF IInv, TypeOK, Outbound
<1> DEFINE u == Less(row[d].due)
           S == [row[d] EXCEPT !.due = u]
<1>1. row'[d] = S /\ posts' = posts /\ sending' = sending /\ hook' = hook
  BY DEF TimePasses
<1>2. u = None <=> row[d].due = None
  BY <1>0, NoneIsNothing, LessTime DEF Less, RowType
<1> HIDE DEF u
<1>3. S.status = row[d].status /\ S.attempts = row[d].attempts /\ S.due = u /\ S.hook = row[d].hook
  BY <1>0 DEF RowType
<1> HIDE DEF S
<1>4. Seen(row'[d]) = Seen(row[d])
  BY <1>1, <1>2, <1>3 DEF Seen, Over
<1>5. Carried(d)
  BY <1>0, <1>1, <1>3, <1>4 DEF Carried, GoesOn, RowType
<1> QED BY <1>0, <1>1, <1>3, <1>5 DEF Attended

\* Every step carries every delivery on.
LEMMA DeliversStep ==
  ASSUME IInv, Outbound, [Next]_vars
  PROVE  Delivers
<1>0. hook \in [Hooks -> HookType] /\ row \in [Deliveries -> RowType] /\ posts \in [Deliveries -> Nat]
      /\ \A d \in Deliveries : row[d].status # "none" => row[d].hook \in Hooks
  BY DEF IInv, TypeOK, RowsFit, Fits
<1>1. ASSUME NEW d \in Deliveries, NEW h \in Hooks, Dispatch(d, h) PROVE Delivers
  BY <1>1, QueuedDelivers DEF Dispatch
<1>2. ASSUME NEW d \in Deliveries, NEW new \in Deliveries, Redeliver(d, new) PROVE Delivers
  <2>1. row[d].status \in {"dead", "failed"}
    BY <1>2 DEF Redeliver, Over
  <2>2. row[d].hook \in Hooks /\ hook[row[d].hook].there
    BY <1>0, <2>1 DEF Outbound, Attended
  <2> QED BY <1>2, <2>2, QueuedDelivers DEF Redeliver
<1>3. ASSUME NEW h \in Hooks, NEW on \in BOOLEAN, NEW retries \in 0..MaxRetries, Update(h, on, retries)
      PROVE  Delivers
  <2>1. \A H \in HookType : [[H EXCEPT !.on = on] EXCEPT !.retries = retries].there = H.there
    BY DEF HookType
  <2>2. \A g \in Hooks : hook'[g].there = hook[g].there
    BY <1>0, <1>3, <2>1 DEF Update
  <2>3. row' = row /\ posts' = posts /\ sending' = sending
    BY <1>3 DEF Update
  <2> QED BY <1>0, <2>2, <2>3, NothingHappens DEF Delivers, Outbound, Attended
<1>4. ASSUME Stop \/ Boot \/ UNCHANGED vars PROVE Delivers
  <2>1. row' = row /\ posts' = posts /\ sending' = sending /\ hook' = hook
    BY <1>4 DEF Stop, Boot, vars
  <2> QED BY <2>1, NothingHappens DEF Delivers, Outbound, Attended
<1>5. ASSUME Dies PROVE Delivers
  <2>1. row' = row /\ posts' = posts /\ hook' = hook /\ \A d \in Deliveries : sending'[d] = None
    BY <1>5 DEF Dies
  <2> QED BY <2>1, NothingHappens DEF Delivers, Outbound, Attended
<1>6. CASE People
  BY <1>2, <1>3, <1>6, TestDelivers, DeleteHookDelivers DEF People
<1>7. CASE Ticks
  BY <1>7, TickDelivers DEF Ticks
<1> QED BY <1>1, <1>4, <1>5, <1>6, <1>7, SucceedsDelivers, FailsDelivers, TimePassesDelivers DEF Next

-----------------------------------------------------------------------------
(* What follows, for FairSpec as for Spec: fairness adds nothing to safety.  *)

\* A row being sent is one that waits, its posts are its tries, the timer is set and the
\* counts are those of the rows, in every reachable state of the queue (webhook-queue.ts).
THEOREM QueueInvariance == Spec => []IInv
<1>1. Init => IInv
  BY InitHolds
<1>2. IInv /\ [Next]_vars => IInv'
  BY StepHolds
<1> QED BY <1>1, <1>2, PTL DEF Spec

\* The rows, the attempts and the timer are always of their types.
THEOREM QueueTypes == Spec => []TypeOK
<1>1. IInv => TypeOK
  BY DEF IInv
<1> QED BY <1>1, QueueInvariance, PTL

\* schedule, tick and finish: no queue sleeps with something due.
THEOREM NothingSleeps == Spec => []TimerIsSet
<1>1. IInv => TimerIsSet
  BY DEF IInv
<1> QED BY <1>1, QueueInvariance, PTL

\* run and finish: no delivery is sent more often than its retries and the stops allow.
THEOREM PostsBounded == Spec => []PostsAreBounded
<1>1. IInv => PostsAreBounded
  BY DEF IInv, RowsFit, Fits, PostsAreBounded
<1> QED BY <1>1, QueueInvariance, PTL

\* finish: a webhook's counts are what its rows say.
THEOREM CountsAreRows == Spec => []CountsMatchRows
<1>1. ASSUME IInv PROVE CountsMatchRows
  <2> SUFFICES ASSUME NEW h \in Hooks, hook[h].there
      PROVE  LET mine == {d \in Deliveries : row[d].hook = h}
             IN  /\ hook[h].delivered = Cardinality({d \in mine : row[d].status = "delivered"})
                 /\ hook[h].failures  = Cardinality({d \in mine : row[d].status # "delivered" /\ Over(row[d])})
    BY DEF CountsMatchRows
  <2> DEFINE mine == {d \in Deliveries : row[d].hook = h}
  <2>1. /\ {d \in mine : row[d].status = "delivered"} = Good(h)
        /\ {d \in mine : row[d].status # "delivered" /\ Over(row[d])} = Bad(h)
    BY DEF Good, Bad
  <2>2. hook[h].delivered = Cardinality(Good(h)) /\ hook[h].failures = Cardinality(Bad(h))
    BY <1>1 DEF IInv, Counts
  <2> QED BY <2>1, <2>2
<1>2. IInv => CountsMatchRows
  BY <1>1
<1> QED BY <1>2, QueueInvariance, PTL

\* What is over is neither sent nor written again, only deleted with its webhook.
THEOREM OverIsKept == Spec => OverIsOver
<1>1. IInv /\ [Next]_vars =>
        [\A d \in Deliveries : Over(row[d]) =>
           /\ row'[d] = row[d] \/ row'[d].status = "gone"
           /\ posts'[d] = posts[d]]_vars
  BY OverStays
<1> QED BY <1>1, QueueInvariance, PTL DEF Spec, OverIsOver

\* The queue implements Outbox: a delivery arrives only after it was posted, each try is
\* counted at most once, what is over is left alone, and nothing of a deleted webhook stays or
\* comes, whatever attempts answer late, ticks overlap and restarts forget.
THEOREM QueueKeepsOutbox == Spec => KeepsOutbox
<1>1. Init => Outbound /\ Promised!Init
  BY DEF Init, Outbound, Attended, Promised!Init, Seen, NoRow
<1>2. IInv /\ Outbound /\ [Next]_vars => Outbound' /\ [Promised!Next]_(Promised!outboxVars)
  <2> SUFFICES ASSUME IInv, Outbound, [Next]_vars PROVE Outbound' /\ Promised!Next
    OBVIOUS
  <2>1. Delivers /\ IInv'
    BY DeliversStep, StepHolds
  <2>2. Outbound'
    BY <2>1 DEF Delivers, Outbound
  <2>3. Promised!GoneWithHook'
    <3> SUFFICES ASSUME NEW d \in Deliveries, NEW e \in Deliveries,
                        row'[d].hook # None, row'[d].hook = row'[e].hook, Seen(row'[d]) = "deleted"
                 PROVE  Seen(row'[e]) = "deleted"
      BY DEF Promised!GoneWithHook
    <3>1. row'[d] \in RowType /\ row'[e] \in RowType /\ Fits(e)' /\ Attended(e)'
      BY <2>1, <2>2 DEF IInv, TypeOK, RowsFit, Outbound
    <3>2. row'[d].status = "gone"
      BY <3>1 DEF Seen, RowType
    <3>3. ~ hook'[row'[e].hook].there
      BY <2>1, <3>2 DEF IInv, GoneTogether
    <3>4. row'[e].status = "gone"
      BY <3>1, <3>3 DEF Attended, Fits
    <3> QED BY <3>4 DEF Seen
  <2> QED BY <2>1, <2>2, <2>3 DEF Delivers, Carried, GoesOn, Promised!Next
<1> QED BY <1>1, <1>2, QueueInvariance, PTL DEF Spec, KeepsOutbox, Promised!Spec
===============================================================================
