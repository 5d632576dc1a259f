----------------------------- MODULE WebhookQueue -----------------------------
(***************************************************************************)
(* The hub's events on their way to the webhooks that asked for them       *)
(* (packages/server/src/modules/notify: webhook-queue.ts and the webhook   *)
(* routes of index.ts).                                                    *)
(*                                                                         *)
(* The queue is a table: one row per event and webhook, due at a time.     *)
(* One timer sends what is due.  An attempt reads the row and its webhook, *)
(* pushes the row past the attempt's deadline (the lease), posts, and      *)
(* writes how it went from what it read before; meanwhile people switch    *)
(* the webhook off, change its retries, delete it, and the hub may stop.   *)
(*                                                                         *)
(* A time is kept as what remains of it: 0 is due.                         *)
(***************************************************************************)
EXTENDS Integers, FiniteSets

CONSTANTS
  None,         \* no time, no attempt
  Hooks,        \* the webhooks
  Deliveries,   \* the rows of the queue, by their ids
  Batch,        \* BATCH: due deliveries one tick sends
  Lease,        \* how far an attempt pushes its row: the deadline and five seconds more
  RetryBase,    \* retryBaseMs
  RetryCap,     \* retryCapMs
  MaxRetries,   \* the most retries a person may give a webhook
  MaxEdits,     \* bound: changes of the webhooks
  MaxRestarts   \* bound: times the hub is stopped

ASSUME NoneAssumption == None \notin Nat \cup Hooks
ASSUME DeliveriesAssumption == IsFiniteSet(Deliveries)
ASSUME BatchAssumption == Batch \in Nat \ {0}
ASSUME TimesAssumption == Lease \in Nat \ {0} /\ RetryBase \in Nat \ {0} /\ RetryCap \in Nat
ASSUME BoundsAssumption == {MaxRetries, MaxEdits, MaxRestarts} \subseteq Nat

VARIABLES
  hook,       \* per webhook: its row
  row,        \* per delivery: its row
  sending,    \* inFlight: per delivery, what its attempt read before it posted
  timer,      \* the one timer: what remains of it
  phase,      \* the process: up, closing (stop was called), down
  posts,      \* observed: the requests the endpoint was sent
  lost,       \* observed: the attempts a stop of the hub cut short
  edits, restarts

vars == <<hook, row, sending, timer, phase, posts, lost, edits, restarts>>

HookType == [there : BOOLEAN, on : BOOLEAN, retries : 0..MaxRetries,
             delivered : Nat, failures : Nat]

RowType ==
  [status   : {"none", "queued", "delivered", "failed", "dead", "gone"},
                                \* "none": not written yet; "gone": deleted with its webhook
   hook     : Hooks \cup {None},
   attempts : Nat,
   due      : Nat \cup {None}]  \* nextAttemptAt

Attempt == [mode : {"queue", "test"}, attempts : Nat, retries : 0..MaxRetries]

ASSUME NoAttemptAssumption == None \notin Attempt

NoRow == [status |-> "none", hook |-> None, attempts |-> 0, due |-> None]

TypeOK ==
  /\ hook     \in [Hooks -> HookType]
  /\ row      \in [Deliveries -> RowType]
  /\ sending  \in [Deliveries -> Attempt \cup {None}]
  /\ timer    \in Nat \cup {None}
  /\ phase    \in {"up", "closing", "down"}
  /\ posts    \in [Deliveries -> Nat]
  /\ lost     \in [Deliveries -> Nat]
  /\ edits \in Nat /\ restarts \in Nat

\* createWebhook: any switch and any number of retries; nothing is queued.
Init ==
  /\ hook \in [Hooks -> [there : {TRUE}, on : BOOLEAN, retries : 0..MaxRetries,
                         delivered : {0}, failures : {0}]]
  /\ row     = [d \in Deliveries |-> NoRow]
  /\ sending = [d \in Deliveries |-> None]
  /\ timer   = None
  /\ phase   = "up"
  /\ posts   = [d \in Deliveries |-> 0]
  /\ lost    = [d \in Deliveries |-> 0]
  /\ edits = 0 /\ restarts = 0

-----------------------------------------------------------------------------
InFlight   == {d \in Deliveries : sending[d] # None}
Waits(R)   == R.status \in {"queued", "failed"} /\ R.due # None
Waiting    == {d \in Deliveries : Waits(row[d])}
Due        == {d \in Waiting : row[d].due = 0}

\* Nothing more is sent for it: delivered, given up, or failed with no time of its own.
Over(R) == \/ R.status \in {"delivered", "dead"}
           \/ R.status = "failed" /\ R.due = None

ScheduleOnce(was) ==
  \/ Waiting' = {} /\ timer' = was
  \/ \E d \in Waiting' :
       /\ \A e \in Waiting' : row'[d].due <= row'[e].due
       /\ timer' = IF was # None THEN was ELSE row'[d].due

\* schedule: the timer is brought forward to the earliest row that waits, never put back.
ScheduleFrom(was) ==
  \/ Waiting' = {} /\ timer' = was
  \/ \E d \in Waiting' :
       LET at == row'[d].due
       IN  /\ \A e \in Waiting' : at <= row'[e].due
           /\ timer' = IF was # None /\ was <= at THEN was ELSE at

Schedule == IF phase = "up" THEN ScheduleFrom(timer) ELSE UNCHANGED timer

Queued(h) == [status |-> "queued", hook |-> h, attempts |-> 0, due |-> 0]

RetryDelay(n) ==
  LET doubled == RetryBase * 2 ^ (n - 1)
  IN  IF doubled < RetryCap THEN doubled ELSE RetryCap

-----------------------------------------------------------------------------
(* In.                                                                       *)

\* dispatch, for one of the webhooks the event is for: it is switched on, subscribed, and its
\* owner may still enter the event's profile.
Dispatch(d, h) ==
  /\ phase = "up"
  /\ row[d] = NoRow
  /\ hook[h].there /\ hook[h].on
  /\ row' = [row EXCEPT ![d] = Queued(h)]
  /\ Schedule
  /\ UNCHANGED <<hook, sending, phase, posts, lost, edits, restarts>>

RedeliverSame(d, new) ==
  /\ phase = "up"
  /\ Over(row[d]) /\ row[d].status # "delivered" /\ row[new] = NoRow
  /\ row' = [row EXCEPT ![d] = Queued(row[d].hook)]
  /\ Schedule
  /\ UNCHANGED <<hook, sending, phase, posts, lost, edits, restarts>>

\* The same body under a new id, of a delivery that is over and did not arrive.
Redeliver(d, new) ==
  /\ phase = "up"
  /\ Over(row[d]) /\ row[d].status # "delivered"
  /\ row[new] = NoRow
  /\ row' = [row EXCEPT ![new] = Queued(row[d].hook)]
  /\ Schedule
  /\ UNCHANGED <<hook, sending, phase, posts, lost, edits, restarts>>

-----------------------------------------------------------------------------
(* Out.                                                                      *)

Reads(d, mode, h) == [mode |-> mode, attempts |-> row[d].attempts, retries |-> hook[h].retries]

\* "Send test": a row nobody else sends, and its one attempt, also of a webhook switched off.
Test(d, h) ==
  /\ phase = "up"
  /\ row[d] = NoRow
  /\ hook[h].there
  /\ row'     = [row EXCEPT ![d] = [Queued(h) EXCEPT !.due = Lease]]
  /\ sending' = [sending EXCEPT ![d] = Reads(d, "test", h)]
  /\ posts'   = [posts EXCEPT ![d] = @ + 1]
  /\ UNCHANGED <<hook, timer, phase, lost, edits, restarts>>

\* The rows of a tick that are not in flight already.
Taken(batch) == batch \ InFlight

SwitchedOff(batch) == {d \in Taken(batch) : ~ hook[row[d].hook].on}

\* The timer of a tick. An attempt that ends at once schedules before the rows after it in
\* the batch have their leases, so it may find one of them due.
TickSchedules(batch) ==
  \/ (batch = {} \/ SwitchedOff(batch) # {}) /\ ScheduleFrom(None)
  \/ \E d \in SwitchedOff(batch) : batch # {d} /\ timer' = 0
  \/ batch # {} /\ SwitchedOff(batch) = {} /\ timer' = None

\* tick: an attempt for each row of the batch. The one of a webhook switched off is over; the
\* others take their lease and post.
Tick(batch) ==
  LET off  == SwitchedOff(batch)
      sent == Taken(batch) \ off
  IN
  /\ phase = "up" /\ timer = 0
  /\ batch = Due \/ (batch \subseteq Due /\ Cardinality(batch) = Batch)
  /\ row' = [d \in Deliveries |->
               IF d \in off
               THEN [row[d] EXCEPT !.status = "failed", !.attempts = @ + 1, !.due = None]
               ELSE IF d \in sent THEN [row[d] EXCEPT !.due = Lease] ELSE row[d]]
  /\ hook' = [h \in Hooks |->
               [hook[h] EXCEPT !.failures = @ + Cardinality({d \in off : row[d].hook = h})]]
  /\ sending' = [d \in Deliveries |->
                   IF d \in sent THEN Reads(d, "queue", row[d].hook) ELSE sending[d]]
  /\ posts' = [d \in Deliveries |-> IF d \in sent THEN posts[d] + 1 ELSE posts[d]]
  /\ TickSchedules(batch)
  /\ UNCHANGED <<phase, lost, edits, restarts>>

\* The row is written only if it is still there.
Written(d, R) == IF row[d].status = "gone" THEN row[d] ELSE R

Counted(d, field) ==
  LET h == row[d].hook
      H == IF field = "delivered" THEN [hook[h] EXCEPT !.delivered = @ + 1]
                                  ELSE [hook[h] EXCEPT !.failures = @ + 1]
  IN  IF row[d].status = "gone" THEN hook ELSE [hook EXCEPT ![h] = H]

AttemptOver(d) ==
  /\ phase # "down"
  /\ sending[d] # None
  /\ sending' = [sending EXCEPT ![d] = None]
  /\ UNCHANGED <<phase, posts, lost, edits, restarts>>

\* finish, the endpoint said 2xx.
Succeeds(d) ==
  /\ AttemptOver(d)
  /\ row'  = [row EXCEPT ![d] =
                Written(d, [@ EXCEPT !.status = "delivered", !.due = None,
                                     !.attempts = sending[d].attempts + 1])]
  /\ hook' = Counted(d, "delivered")
  /\ Schedule

AgainOnceMore(A) == A.mode = "queue" /\ A.attempts <= A.retries

\* `attempts - 1` retries have been used; one more is allowed while that is under the cap.
Again(A) == A.mode = "queue" /\ A.attempts < A.retries

FailureOfEachTry(d) == Counted(d, "failures")

\* "A delivery counts as failed once, when it is over - not once per attempt."
FailureOf(d) == IF Again(sending[d]) THEN hook ELSE Counted(d, "failures")

\* What the row says of the failure: tried again later, given up, or a test that failed.
Failed(R, A, wait) ==
  [R EXCEPT !.status   = IF A.mode = "queue" /\ ~ Again(A) THEN "dead" ELSE "failed",
            !.due      = IF Again(A) THEN wait ELSE None,
            !.attempts = A.attempts + 1]

\* finish, it said something else or nothing in time.
Fails(d) ==
  /\ AttemptOver(d)
  /\ \E wait \in 0..RetryCap :
       /\ wait = RetryDelay(sending[d].attempts + 1)
       /\ row' = [row EXCEPT ![d] = Written(d, Failed(@, sending[d], wait))]
  /\ hook' = FailureOf(d)
  /\ Schedule

-----------------------------------------------------------------------------
(* People and the process.                                                   *)

Edits(h) == phase = "up" /\ hook[h].there /\ edits < MaxEdits /\ edits' = edits + 1

\* updateWebhook: the switch, the retries.
Update(h, on, retries) ==
  /\ Edits(h)
  /\ hook' = [hook EXCEPT ![h].on = on, ![h].retries = retries]
  /\ UNCHANGED <<row, sending, timer, phase, posts, lost, restarts>>

\* deleteWebhook: its rows go with it.
DeleteHook(h) ==
  /\ Edits(h)
  /\ hook' = [hook EXCEPT ![h].there = FALSE]
  /\ row' = [d \in Deliveries |->
               IF row[d].hook = h THEN [row[d] EXCEPT !.status = "gone", !.due = None] ELSE row[d]]
  /\ UNCHANGED <<sending, timer, phase, posts, lost, restarts>>

\* stop: no timer any more. What is being sent may still be written.
Stop ==
  /\ phase = "up" /\ restarts < MaxRestarts
  /\ phase' = "closing" /\ timer' = None
  /\ UNCHANGED <<hook, row, sending, posts, lost, edits, restarts>>

\* The process ends, stopped or killed: what was in memory is gone.
Dies ==
  /\ phase = "closing" \/ (phase = "up" /\ restarts < MaxRestarts)
  /\ restarts' = restarts + 1
  /\ phase' = "down" /\ timer' = None
  /\ sending' = [d \in Deliveries |-> None]
  /\ lost' = [d \in Deliveries |-> IF d \in InFlight THEN lost[d] + 1 ELSE lost[d]]
  /\ UNCHANGED <<hook, row, posts, edits>>

BootAsleep ==
  /\ phase = "down" /\ phase' = "up"
  /\ UNCHANGED <<hook, row, sending, timer, posts, lost, edits, restarts>>

\* onReady: what was due is still due.
Boot ==
  /\ phase = "down"
  /\ phase' = "up"
  /\ UNCHANGED <<hook, row, sending, posts, lost, edits, restarts>>
  /\ ScheduleFrom(None)

\* What remains of a time; it never goes below "due now" (schedule's Math.max).
Less(t) == IF t = None \/ t = 0 THEN t ELSE t - 1

TimePasses ==
  /\ row'   = [d \in Deliveries |-> [row[d] EXCEPT !.due = Less(@)]]
  /\ timer' = Less(timer)
  /\ <<row', timer'>> # <<row, timer>>
  /\ UNCHANGED <<hook, sending, phase, posts, lost, edits, restarts>>

People ==
  \/ \E h \in Hooks, on \in BOOLEAN, retries \in 0..MaxRetries : Update(h, on, retries)
  \/ \E h \in Hooks : DeleteHook(h)
  \/ \E d \in Deliveries, h \in Hooks : Test(d, h)
  \/ \E d, new \in Deliveries : Redeliver(d, new)

Ticks == \E batch \in SUBSET Due : Tick(batch)

Next ==
  \/ People
  \/ \E d \in Deliveries, h \in Hooks : Dispatch(d, h)
  \/ Ticks
  \/ \E d \in Deliveries : Succeeds(d) \/ Fails(d)
  \/ Stop \/ Dies \/ Boot
  \/ TimePasses

Spec == Init /\ [][Next]_vars

\* Time passes, a timer that is due fires, a request has its deadline, a hub that is closing
\* ends, and a hub that is down is started again.
Fairness ==
  /\ WF_vars(TimePasses) /\ WF_vars(Ticks) /\ WF_vars(Boot)
  /\ WF_vars(phase = "closing" /\ Dies)
  /\ \A d \in Deliveries : WF_vars(Succeeds(d) \/ Fails(d))

FairSpec == Spec /\ Fairness

-----------------------------------------------------------------------------
\* While the hub is up and a row waits, the one timer is set no later than the earliest row,
\* or an attempt is in flight that will set it: no event, edit, end or restart leaves the
\* queue asleep with something due.
TimerIsSet ==
  phase = "up" /\ Waiting # {} =>
    \/ InFlight # {}
    \/ timer # None /\ \A d \in Waiting : timer <= row[d].due

\* The endpoint is sent a delivery once and MaxRetries times more at most, but for the
\* attempts that a stop of the hub cut short, which nobody counted.
PostsAreBounded == \A d \in Deliveries : posts[d] <= MaxRetries + 1 + lost[d]

\* A webhook's counts are its rows: a delivery counts once, when it is over, however often it
\* was tried, and whatever was switched meanwhile.
CountsMatchRows ==
  \A h \in Hooks : hook[h].there =>
    LET mine == {d \in Deliveries : row[d].hook = h}
    IN  /\ hook[h].delivered = Cardinality({d \in mine : row[d].status = "delivered"})
        /\ hook[h].failures  = Cardinality({d \in mine : row[d].status # "delivered" /\ Over(row[d])})

\* A delivery that is over is never sent and never written again, only deleted with its
\* webhook: an attempt never answers over another one's end.
OverIsOver ==
  [][\A d \in Deliveries : Over(row[d]) =>
       /\ row'[d] = row[d] \/ row'[d].status = "gone"
       /\ posts'[d] = posts[d]]_vars

\* A delivery as its webhook's owner sees it.
Seen(R) ==
  CASE R.status = "none"      -> "none"
    [] R.status = "gone"      -> "deleted"
    [] R.status = "delivered" -> "arrived"
    [] R.status \in {"queued", "failed", "dead"} -> IF Over(R) THEN "abandoned" ELSE "waiting"

Promised ==
  INSTANCE Outbox WITH
    state <- [d \in Deliveries |-> Seen(row[d])],
    of    <- [d \in Deliveries |-> row[d].hook],
    sent  <- posts,
    tries <- [d \in Deliveries |-> row[d].attempts]

\* The queue is an outbox: a delivery arrives only after it was posted, every try is counted
\* once, what is over is never posted or counted again, and a deleted webhook is sent nothing,
\* whatever attempts answer late, ticks overlap and restarts forget.
KeepsOutbox == Promised!Spec

\* "A restart loses nothing": whatever waits is delivered or given up in the end, across
\* restarts, batches that are full, and webhooks switched off.
EveryDeliveryEnds ==
  \A d \in Deliveries : row[d].status # "none" ~> Over(row[d]) \/ row[d].status = "gone"
=============================================================================
