-------------------------- MODULE WorkflowRunProofs --------------------------
(***************************************************************************)
(* The runs of a workflow, proved for any drawing, any limits and any      *)
(* number of runs and deliveries: each step works once, each end is told   *)
(* once, a run that waits is asked about, the budget holds, and the        *)
(* trigger's log says what became of its runs.                             *)
(*                                                                         *)
(* What the engine does between two awaits is a function of the run's      *)
(* record, so the first part is about records (Fits, and Follows for what  *)
(* a stretch may change), and the second about the steps of the system.    *)
(***************************************************************************)
EXTENDS WorkflowRun, SequenceTheorems, FiniteSetTheorems, WellFoundedInduction, TLAPS

-----------------------------------------------------------------------------
(* What is always true of a run.                                             *)

NoStep == [n \in Nodes |-> "none"]

\* The place says what the run used, and knows every step that worked.
At(R, at) ==
  /\ at \in Places
  /\ at.used = R.paid
  /\ \A n \in Nodes : R.worked[n] > 0 => n \in at.ran

\* A walk belongs to a run that works, or that was cancelled or deleted under it; until then
\* nothing was said of its end.
WalkFits(R) ==
  R.walk # None =>
    /\ R.place = None
    /\ R.status \in {"running", "cancelled", "gone"}
    /\ R.status = "running" => ~ R.walk.cancelled
    /\ R.status = "cancelled" => R.walk.cancelled
    /\ ~ R.walk.cancelled => R.told = 0 /\ At(R, R.walk.at)
    /\ R.status # "gone" => R.step[R.walk.node] # "none"

\* A run that waits has its place written down, at the one step that waits, which has not
\* worked; nobody else is asked about anything.
WaitFits(R) ==
  /\ R.status = "waiting_approval" <=> R.place # None
  /\ R.place # None =>
       /\ R.walk = None
       /\ At(R, R.place)
       /\ \E n \in Nodes :
            /\ n \in R.place.ran /\ R.worked[n] = 0 /\ R.step[n] = "waiting_approval"
            /\ \A m \in Nodes : m # n => R.step[m] # "waiting_approval" /\ R.gate[m] # "pending"
  /\ R.place = None => \A n \in Nodes : R.step[n] # "waiting_approval" /\ R.gate[n] # "pending"

\* An end is told once; a deleted run has no steps; a run that was not started has nothing.
TellFits(R) ==
  /\ R.told <= 1
  /\ R.status \in {"none", "running", "waiting_approval"} => R.told = 0
  /\ R.status \in {"succeeded", "failed", "cancelled"} => R.told = 1
  /\ R.status = "gone" => R.step = NoStep
  /\ R.status = "none" => R = NoRun
  /\ \A n \in Nodes : R.worked[n] <= 1

Fits(R) == R \in RunType /\ WalkFits(R) /\ WaitFits(R) /\ TellFits(R)

\* A run that says it is going has a walk, and one that waits has its question.
Walked(R) == R.status = "running" => R.walk # None
Asked(R)  == R.status = "waiting_approval" => \E n \in Nodes : R.gate[n] = "pending"

\* What a stretch of code may make of a run.
Follows(R, Q) ==
  /\ R.status \in Over \cup {"gone"} =>
       /\ Q.status \in {R.status, "gone"} /\ Q.worked = R.worked /\ Q.gate = R.gate
  /\ (\E n \in Nodes : R.step[n] = "none" /\ Q.step[n] # "none") => Q.paid < MaxCost
  /\ Q.told # R.told => Q.status \in Over \cup {"gone"}
  /\ R.told > 0 /\ R.step = NoStep => Q.step = NoStep

\* What the world sees of a stretch: a step's work begins, or a person is asked about a step
\* that has not worked, or the end is told.
WorkBegins(R, Q) ==
  /\ Q.status = "running" /\ Going(Q) /\ Pending(Q) = {} /\ Q.told = R.told
  /\ \E n \in Nodes : R.worked[n] = 0 /\ Q.worked = [R.worked EXCEPT ![n] = 1]

PersonAsked(R, Q) ==
  /\ Q.status = "waiting_approval" /\ ~ Going(Q) /\ Q.told = R.told /\ Q.worked = R.worked
  /\ \E n \in Nodes : R.worked[n] = 0 /\ Pending(Q) = {n}

EndTold(R, Q) ==
  R.told = 0 /\ Q.told = 1 /\ ~ Going(Q) /\ Pending(Q) = {} /\ Q.worked = R.worked

Looks(R, Q) ==
  /\ Q.status = R.status /\ Going(Q) = Going(R) /\ Pending(Q) = Pending(R)
  /\ Q.told = R.told /\ Q.worked = R.worked

\* What a step of the system, short of a stop or a start of the hub, shows of a run.
Turned(R, Q) ==
  \/ Looks(R, Q)
  \/ /\ R.status \in {"none", "running", "waiting_approval"}
     /\ \/ WorkBegins(R, Q) \/ PersonAsked(R, Q)
        \/ EndTold(R, Q) /\ Q.status \in {"succeeded", "failed"}
        \/ EndTold(R, Q) /\ Q.status \in {"cancelled", "gone"} /\ R.status # "none"
  \/ /\ R.status = "waiting_approval" /\ Q.status = R.status /\ ~ Going(Q) /\ Pending(Q) = {}
     /\ Q.told = R.told /\ Q.worked = R.worked
  \/ /\ R.status \in Over \cup {"running"} /\ Q.status = "gone"
     /\ Going(Q) = Going(R) /\ Pending(Q) = Pending(R) /\ Q.told = R.told /\ Q.worked = R.worked
  \/ R.status = "gone" /\ Going(R) /\ Q.status = "gone" /\ EndTold(R, Q)

\* Between two steps the walk holds the run by itself: no place, no question, no end.
Free(R, at) ==
  /\ R \in RunType
  /\ R.walk = None /\ R.place = None /\ R.told = 0
  /\ R.status \in {"none", "running", "waiting_approval", "gone"}
  /\ R.status = "gone" => R.step = NoStep
  /\ \A n \in Nodes : R.step[n] # "waiting_approval" /\ R.gate[n] # "pending" /\ R.worked[n] <= 1
  /\ At(R, at)

\* What the loop leaves of it: a run that fits, whose new steps are paid for.
Leaves(R, Q) ==
  /\ Fits(Q) /\ Walked(Q) /\ Asked(Q)
  /\ R.status = "gone" => Q.status = "gone" /\ Q.worked = R.worked /\ Q.gate = R.gate /\ Q.step = R.step
  /\ (\E n \in Nodes : R.step[n] = "none" /\ Q.step[n] # "none") => Q.paid < MaxCost
  /\ Q.told # 0 => Q.status \in Over \cup {"gone"} /\ Q.step = R.step
  /\ \/ R.status # "gone" /\ (WorkBegins(R, Q) \/ PersonAsked(R, Q))
     \/ EndTold(R, Q) /\ Q.status \in {"succeeded", "failed", "gone"}
                      /\ (Q.status = "gone" <=> R.status = "gone")

-----------------------------------------------------------------------------
(* The loop of the engine.                                                   *)

\* Every set of positions has a first one.
LEMMA Least ==
  ASSUME NEW T, T \subseteq Nat, T # {}
  PROVE  \E i \in T : \A j \in T : i <= j
<1> DEFINE less == OpToRel(<, Nat)
<1>1. IsWellFoundedOn(less, Nat)
  BY NatLessThanWellFounded
<1>2. \A i, j \in Nat : i < j => <<i, j>> \in less
  BY DEF OpToRel
<1> HIDE DEF less
<1>3. PICK i \in T : \A j \in T : ~ (<<j, i>> \in less)
  BY <1>1, WFMin
<1>4. \A j \in T : ~ (j < i)
  BY <1>2, <1>3
<1>5. \A j \in T : i <= j
  BY <1>4
<1> QED BY <1>5

\* The run ends.
LEMMA EndedAsLeaves ==
  ASSUME NEW R, NEW at, Free(R, at), NEW end \in {"succeeded", "failed"}
  PROVE  Leaves(R, EndedAs(R, end))
<1> DEFINE Q == EndedAs(R, end)
<1>1. R \in RunType /\ R.told = 0
  BY DEF Free
<1>2. /\ Q.status = IF R.status = "gone" THEN "gone" ELSE end
      /\ Q.walk = None /\ Q.told = 1
      /\ Q.place = R.place /\ Q.step = R.step /\ Q.gate = R.gate
      /\ Q.worked = R.worked /\ Q.paid = R.paid
  BY <1>1 DEF EndedAs, RunType
<1>a. Q \in RunType
  <2> DEFINE st == IF R.status = "gone" THEN R.status ELSE end
             t  == R.told + 1
  <2>1. Q = [R EXCEPT !.status = st, !.walk = None, !.told = t]
    BY DEF EndedAs
  <2>2. st \in {"gone", "succeeded", "failed"} /\ t \in Nat
    BY <1>1
  <2> HIDE DEF st, t, Q
  <2> QED BY <1>1, <2>1, <2>2 DEF RunType, Over
<1> HIDE DEF Q
<1>3. WalkFits(Q) /\ WaitFits(Q) /\ TellFits(Q)
  BY <1>2 DEF Free, WalkFits, WaitFits, TellFits, NoRun
<1>4. EndTold(R, Q)
  BY <1>1, <1>2 DEF EndTold, Free, Going, Pending
<1> QED BY <1>1, <1>2, <1>3, <1>4, <1>a DEF Leaves, Fits, Walked, Asked, Over, Q

\* The work of a step begins.
LEMMA WorksOnLeaves ==
  ASSUME NEW R, NEW at, Free(R, at), NEW n \in Nodes, n \in at.ran, R.worked[n] = 0,
         R.status # "gone", at.used < MaxCost \/ R.step[n] # "none"
  PROVE  Leaves(R, WorksOn(R, n, at))
<1> DEFINE Q == WorksOn(R, n, at)
<1>1. R \in RunType /\ R.told = 0 /\ at \in Places /\ at.used = R.paid
  BY DEF Free, At
<1>2. [at |-> at, node |-> n, cancelled |-> FALSE] \in Walks
  BY <1>1, Zenon DEF Walks
<1>a. Q \in RunType
  <2> DEFINE W == [at |-> at, node |-> n, cancelled |-> FALSE]
             w == [R.worked EXCEPT ![n] = R.worked[n] + 1]
             S == [R.step EXCEPT ![n] = "running"]
  <2>1. Q = [R EXCEPT !.status = "running", !.step = S, !.worked = w, !.walk = W]
    BY <1>1 DEF WorksOn, RunType
  <2>2. /\ w \in [Nodes -> Nat] /\ W \in Walks
        /\ S \in [Nodes -> {"none", "running", "waiting_approval", "succeeded", "failed", "cancelled"}]
    BY <1>1, <1>2 DEF RunType
  <2> HIDE DEF W, w, S, Q
  <2> QED BY <1>1, <2>1, <2>2 DEF RunType
<1>3. /\ Q.status = "running"
      /\ Q.walk = [at |-> at, node |-> n, cancelled |-> FALSE]
      /\ Q.place = R.place /\ Q.gate = R.gate /\ Q.told = R.told /\ Q.paid = R.paid
      /\ Q.step = [R.step EXCEPT ![n] = "running"]
      /\ Q.worked = [R.worked EXCEPT ![n] = @ + 1]
  BY <1>1, <1>2 DEF WorksOn, RunType
<1> HIDE DEF Q
<1>4. \A m \in Nodes : /\ Q.step[m] = IF m = n THEN "running" ELSE R.step[m]
                       /\ Q.worked[m] = IF m = n THEN 1 ELSE R.worked[m]
  BY <1>1, <1>3 DEF RunType
<1>5. Q.walk # None /\ Q.walk.at = at /\ Q.walk.node = n /\ ~ Q.walk.cancelled
  <2>1. Q.walk # None
    BY <1>2, <1>3, NoPlaceAssumption, Zenon
  <2>2. Q.walk.at = at /\ Q.walk.node = n
    BY <1>3
  <2>3. Q.walk.cancelled = FALSE
    BY <1>3
  <2> QED BY <2>1, <2>2, <2>3
<1>6. At(Q, at)
  BY <1>1, <1>3, <1>4 DEF Free, At
<1>7. WalkFits(Q)
  BY <1>1, <1>3, <1>4, <1>5, <1>6 DEF WalkFits, Free
<1>8. WaitFits(Q) /\ TellFits(Q)
  BY <1>3, <1>4 DEF Free, WaitFits, TellFits
<1>9. \A m \in Nodes : R.step[m] = "none" /\ Q.step[m] # "none" => Q.paid < MaxCost
  BY <1>1, <1>3, <1>4
<1>10. WorkBegins(R, Q)
  <2>1. Q.worked = [R.worked EXCEPT ![n] = 1]
    BY <1>1, <1>3 DEF RunType
  <2>2. Going(Q) /\ Pending(Q) = {}
    BY <1>3, <1>5 DEF Free, Going, Pending
  <2> QED BY <1>3, <2>1, <2>2 DEF WorkBegins
<1> QED BY <1>1, <1>a, <1>3, <1>5, <1>7, <1>8, <1>9, <1>10 DEF Leaves, Fits, Walked, Asked, Q

\* The run waits at a gate.
LEMMA WaitsAtLeaves ==
  ASSUME NEW R, NEW at, Free(R, at), NEW n \in Nodes, n \in at.ran, R.worked[n] = 0,
         R.status # "gone", at.used < MaxCost
  PROVE  Leaves(R, WaitsAt(R, n, at))
<1> DEFINE Q == WaitsAt(R, n, at)
<1>1. R \in RunType /\ R.told = 0 /\ at \in Places /\ at.used = R.paid /\ at # None
  BY NoPlaceAssumption DEF Free, At
<1>2. /\ Q \in RunType
      /\ Q.status = "waiting_approval"
      /\ Q.walk = None
      /\ Q.place = at /\ Q.told = R.told /\ Q.paid = R.paid
      /\ Q.worked = R.worked
      /\ Q.step = [R.step EXCEPT ![n] = "waiting_approval"]
      /\ Q.gate = [R.gate EXCEPT ![n] = "pending"]
  BY <1>1 DEF WaitsAt, RunType
<1> HIDE DEF Q
<1>3. \A m \in Nodes : /\ Q.step[m] = IF m = n THEN "waiting_approval" ELSE R.step[m]
                       /\ Q.gate[m] = IF m = n THEN "pending" ELSE R.gate[m]
  BY <1>1, <1>2 DEF RunType
<1>4. At(Q, at)
  BY <1>1, <1>2 DEF Free, At
<1>5. WalkFits(Q) /\ TellFits(Q)
  BY <1>1, <1>2 DEF WalkFits, TellFits, Free
<1>6. WaitFits(Q)
  BY <1>1, <1>2, <1>3, <1>4 DEF Free, WaitFits
<1>7. Asked(Q)
  BY <1>3 DEF Asked
<1>8. PersonAsked(R, Q)
  <2>1. Pending(Q) = {n}
    BY <1>3 DEF Free, Pending
  <2> QED BY <1>2, <2>1 DEF PersonAsked, Going
<1> QED BY <1>1, <1>2, <1>5, <1>6, <1>7, <1>8 DEF Leaves, Fits, Walked, Q

\* The loop goes on from a place, to the next await, gate or end.
LEMMA WalksOnLeaves ==
  ASSUME NEW R, NEW at, Free(R, at)
  PROVE  Leaves(R, WalksOn(R, at))
<1> DEFINE i    == CHOOSE i \in Ahead(at) : \A j \in Ahead(at) : i <= j
           n    == at.queue[i]
           next == [at EXCEPT !.queue = SubSeq(at.queue, i + 1, Len(at.queue)),
                              !.ran = at.ran \cup {n}]
<1>0. at \in Places /\ at.used = R.paid /\ at.queue \in Seq(Nodes)
  BY DEF Free, At, Places
<1>1. CASE Ahead(at) = {}
  BY <1>1, EndedAsLeaves DEF WalksOn
<1>2. CASE Ahead(at) # {}
  <2>1. DOMAIN at.queue = 1..Len(at.queue) /\ Len(at.queue) \in Nat
    BY <1>0, LenProperties
  <2>2. Ahead(at) \subseteq Nat
    BY <2>1 DEF Ahead
  <2>3. i \in Ahead(at)
    BY <1>2, <2>2, Least
  <2>4. i \in 1..Len(at.queue) /\ n \notin at.ran
    BY <2>1, <2>3 DEF Ahead
  <2> HIDE DEF i
  <2>5. n \in Nodes
    BY <1>0, <2>4, ElementOfSeq
  <2>6. SubSeq(at.queue, i + 1, Len(at.queue)) \in Seq(Nodes)
    <3>1. \A j \in (i + 1)..Len(at.queue) : at.queue[j] \in Nodes
      BY <1>0, <2>1, <2>4, ElementOfSeq
    <3> QED BY <2>1, <2>4, <3>1, SubSeqProperties
  <2>7. R.worked[n] = 0
    BY <2>4, <2>5 DEF Free, At, RunType
  <2> HIDE DEF n
  <2>8. next \in Places /\ next.ran = at.ran \cup {n} /\ next.used = at.used
    BY <1>0, <2>5, <2>6 DEF Places
  <2> HIDE DEF next
  <2>9. Free(R, next)
    BY <2>8 DEF Free, At
  <2>10. CASE R.status = "gone" \/ Cardinality(at.ran) >= MaxSteps \/ at.used >= MaxCost
    <3>1. WalksOn(R, at) = EndedAs(R, "failed")
      BY <1>2, <2>10 DEF WalksOn
    <3> QED BY <3>1, EndedAsLeaves
  <2>11. CASE ~ (R.status = "gone" \/ Cardinality(at.ran) >= MaxSteps \/ at.used >= MaxCost)
    <3>1. WalksOn(R, at) = IF n \in Gated THEN WaitsAt(R, n, next) ELSE WorksOn(R, n, next)
      BY <1>2, <2>11 DEF WalksOn, i, n, next
    <3>2. next.used < MaxCost
      BY <1>0, <2>8, <2>11, NumbersAssumption DEF Places
    <3>3. n \in next.ran
      BY <2>8
    <3> QED BY <2>5, <2>7, <2>9, <2>11, <3>1, <3>2, <3>3, WaitsAtLeaves, WorksOnLeaves
  <2> QED BY <2>10, <2>11
<1> QED BY <1>1, <1>2

\* What follows a step.
LEMMA AdvancedLeaves ==
  ASSUME NEW R, NEW at, Free(R, at), NEW n \in Nodes, NEW route \in Routes, NEW ok \in BOOLEAN
  PROVE  Leaves(R, Advanced(R, n, at, ok, route))
<1> DEFINE next == [at EXCEPT !.queue = at.queue \o Arrows[n][route]]
<1>1. at \in Places /\ Arrows[n][route] \in Seq(Nodes)
  BY DrawingAssumption DEF Free, At
<1>2. at.queue \o Arrows[n][route] \in Seq(Nodes)
  BY <1>1, ConcatProperties DEF Places
<1>3. next \in Places /\ next.used = at.used /\ next.ran = at.ran
  BY <1>1, <1>2 DEF Places
<1> HIDE DEF next
<1>4. Free(R, next)
  BY <1>3 DEF Free, At
<1>5. Advanced(R, n, at, ok, route) \in {EndedAs(R, "failed"), WalksOn(R, next)}
  BY DEF Advanced, next
<1> QED BY <1>4, <1>5, EndedAsLeaves, WalksOnLeaves

\* A run that starts.
LEMMA NewLeaves ==
  ASSUME NEW queue \in Starts
  PROVE  Leaves(NoRun, New(queue))
<1> DEFINE at == [queue |-> queue, ran |-> {}, used |-> 0]
<1>1. queue \in Seq(Nodes)
  BY DrawingAssumption
<1>2. at \in Places /\ at.used = 0
  BY <1>1 DEF Places
<1>3. NoRun \in RunType
  BY DEF NoRun, RunType
<1> HIDE DEF at
<1>4. Free(NoRun, at)
  BY <1>2, <1>3 DEF Free, At, NoRun
<1> QED BY <1>4, WalksOnLeaves DEF New, at

-----------------------------------------------------------------------------
(* A run of the system between two awaits.                                   *)

\* finish, and the loop after it.
LEMMA FinishedFits ==
  ASSUME NEW R, Fits(R), R.walk # None,
         NEW end \in {"success", "failure", "stop"}, NEW cost \in 0..1
  PROVE  LET Q == Finished(R, end, cost)
         IN  Fits(Q) /\ Walked(Q) /\ Asked(Q) /\ Follows(R, Q) /\ Turned(R, Q)
<1> DEFINE n  == R.walk.node
           at == [R.walk.at EXCEPT !.used = R.walk.at.used + cost]
           ok == end = "success" \/ (end = "failure" /\ n \in Conditions)
           wrote == IF R.status = "gone" THEN R.step[n]
                    ELSE IF R.walk.cancelled \/ end = "stop" THEN "cancelled"
                    ELSE IF ok THEN "succeeded" ELSE "failed"
           step == [R.step EXCEPT ![n] = wrote]
           paid == R.paid + cost
           S  == [R EXCEPT !.paid = paid, !.walk = None, !.step = step]
           Q  == Finished(R, end, cost)
<1>1. /\ R \in RunType /\ R.walk \in Walks /\ n \in Nodes /\ R.paid \in Nat
      /\ R.walk.at \in Places /\ R.walk.cancelled \in BOOLEAN
  BY DEF Fits, RunType, Walks
<1>2. /\ R.place = None /\ R.status \in {"running", "cancelled", "gone"}
      /\ R.status = "running" => ~ R.walk.cancelled
      /\ R.status = "cancelled" => R.walk.cancelled
      /\ ~ R.walk.cancelled => R.told = 0 /\ At(R, R.walk.at)
      /\ R.status # "gone" => R.step[n] # "none"
      /\ \A m \in Nodes : R.step[m] # "waiting_approval" /\ R.gate[m] # "pending"
  BY DEF Fits, WalkFits, WaitFits
<1>3. /\ step \in [Nodes -> {"none", "running", "waiting_approval", "succeeded", "failed", "cancelled"}]
      /\ \A m \in Nodes : step[m] = IF m = n THEN wrote ELSE R.step[m]
      /\ R.status = "gone" => step = R.step
      /\ wrote # "waiting_approval"
  BY <1>1, <1>2 DEF RunType
<1>4. Q = IF R.walk.cancelled THEN S
          ELSE IF end = "stop" THEN EndedAs(S, "failed") ELSE Advanced(S, n, at, ok, end)
  BY <1>1 DEF Finished, RunType
<1>b. paid \in Nat
  BY <1>1
<1> HIDE DEF wrote, step, Q, paid
<1>5. S \in RunType
  BY <1>1, <1>3, <1>b DEF RunType
<1>6. /\ S.status = R.status /\ S.walk = None /\ S.place = R.place /\ S.told = R.told
      /\ S.gate = R.gate /\ S.worked = R.worked /\ S.paid = R.paid + cost /\ S.step = step
  BY <1>1 DEF RunType, paid
<1> HIDE DEF S
<1>7. \A m \in Nodes : R.step[m] = "none" => S.step[m] = "none"
  BY <1>2, <1>3, <1>6
<1>a. TellFits(R)
  BY DEF Fits
<1>8. CASE R.walk.cancelled
  <2>1. Q = S /\ R.status \in {"cancelled", "gone"}
    BY <1>2, <1>4, <1>8
  <2>2. WalkFits(S)
    BY <1>6 DEF WalkFits
  <2>3. WaitFits(S)
    BY <1>2, <1>3, <1>6, <2>1 DEF WaitFits
  <2>4. TellFits(S)
    BY <1>3, <1>6, <1>a, <2>1 DEF TellFits
  <2>5. Follows(R, S)
    <3>1. R.step = NoStep => S.step = NoStep
      BY <1>1, <1>2, <1>3, <1>6 DEF NoStep
    <3> QED BY <1>6, <1>7, <3>1 DEF Follows
  <2>6. Turned(R, S)
    <3>1. Looks(R, S)
      BY <1>6, <1>8 DEF Looks, Going, Pending
    <3> QED BY <3>1 DEF Turned
  <2> QED BY <1>5, <1>6, <2>1, <2>2, <2>3, <2>4, <2>5, <2>6 DEF Fits, Walked, Asked, Q
<1>9. CASE ~ R.walk.cancelled
  <2>1. at \in Places /\ at.used = R.walk.at.used + cost /\ at.ran = R.walk.at.ran
    BY <1>1 DEF Places
  <2> HIDE DEF at
  <2>2. At(S, at)
    BY <1>2, <1>6, <1>9, <2>1 DEF At
  <2>3. Free(S, at)
    BY <1>2, <1>3, <1>5, <1>6, <1>9, <1>a, <2>2 DEF Free, TellFits
  <2>4. Leaves(S, Q)
    BY <1>1, <1>4, <1>9, <2>3, EndedAsLeaves, AdvancedLeaves DEF Routes
  <2>5. Follows(R, Q)
    BY <1>2, <1>6, <1>7, <1>9, <1>3, <2>4 DEF Leaves, Follows, Over
  <2>6. Turned(R, Q)
    <3>1. Going(R) /\ R.status \in {"running", "gone"}
      BY <1>2, <1>9 DEF Going
    <3>2. CASE R.status # "gone" /\ (WorkBegins(S, Q) \/ PersonAsked(S, Q))
      <4>1. WorkBegins(R, Q) \/ PersonAsked(R, Q)
        BY <1>6, <3>2 DEF WorkBegins, PersonAsked
      <4> QED BY <3>1, <3>2, <4>1 DEF Turned
    <3>3. CASE EndTold(S, Q) /\ Q.status \in {"succeeded", "failed", "gone"}
                             /\ (Q.status = "gone" <=> R.status = "gone")
      <4>1. EndTold(R, Q)
        BY <1>6, <3>3 DEF EndTold
      <4> QED BY <3>1, <3>3, <4>1 DEF Turned
    <3> QED BY <1>6, <2>4, <3>2, <3>3 DEF Leaves
  <2> QED BY <2>4, <2>5, <2>6 DEF Leaves, Q
<1> QED BY <1>8, <1>9

\* An answer, while nobody takes it: the run waits on.
LEMMA AnsweredFits ==
  ASSUME NEW R, Fits(R), NEW n \in Nodes, R.gate[n] = "pending", NEW answer \in {"approved", "denied"}
  PROVE  LET Q == [R EXCEPT !.gate[n] = answer]
         IN  Fits(Q) /\ Walked(Q) /\ Follows(R, Q) /\ Turned(R, Q)
<1> DEFINE gate == [R.gate EXCEPT ![n] = answer]
           Q == [R EXCEPT !.gate = gate]
<1>1. R \in RunType /\ WalkFits(R) /\ WaitFits(R) /\ TellFits(R)
  BY DEF Fits
<1>2. /\ gate \in [Nodes -> {"none", "pending", "approved", "denied", "cancelled"}]
      /\ \A m \in Nodes : gate[m] = IF m = n THEN answer ELSE R.gate[m]
  BY <1>1 DEF RunType
<1> HIDE DEF gate
<1>3. /\ Q \in RunType
      /\ Q.status = R.status /\ Q.walk = R.walk /\ Q.place = R.place /\ Q.told = R.told
      /\ Q.step = R.step /\ Q.worked = R.worked /\ Q.paid = R.paid /\ Q.gate = gate
  BY <1>1, <1>2 DEF RunType
<1> HIDE DEF Q
<1>4. R.status = "waiting_approval" /\ R.walk = None
  BY <1>1 DEF WaitFits
<1>5. WalkFits(Q) /\ TellFits(Q) /\ Walked(Q)
  BY <1>1, <1>3, <1>4 DEF WalkFits, TellFits, Walked
<1>6. WaitFits(Q)
  BY <1>1, <1>2, <1>3, <1>4 DEF WaitFits, At
<1>7. Follows(R, Q)
  BY <1>3, <1>4 DEF Follows, Over
<1>8. Turned(R, Q)
  <2>1. Pending(Q) = {}
    BY <1>1, <1>2, <1>3 DEF Pending, WaitFits
  <2>2. ~ Going(Q)
    BY <1>3, <1>4 DEF Going
  <2> QED BY <1>3, <1>4, <2>1, <2>2 DEF Turned
<1> QED BY <1>3, <1>5, <1>6, <1>7, <1>8 DEF Fits, Q, gate

\* resume: a new walk goes on from the place written down.
LEMMA ResumedFits ==
  ASSUME NEW R, Fits(R), NEW n \in Nodes, R.gate[n] = "pending", NEW yes \in BOOLEAN
  PROVE  LET A == [R EXCEPT !.gate[n] = IF yes THEN "approved" ELSE "denied"]
             Q == Resumed(A, n, yes)
         IN  Fits(Q) /\ Walked(Q) /\ Asked(Q) /\ Follows(R, Q) /\ Turned(R, Q)
<1> DEFINE answer == IF yes THEN "approved" ELSE "denied"
           done   == IF yes THEN "succeeded" ELSE "failed"
           gate == [R.gate EXCEPT ![n] = answer]
           step == [R.step EXCEPT ![n] = done]
           A == [R EXCEPT !.gate[n] = answer]
           at == R.place
           S == [R EXCEPT !.gate = gate, !.place = None]
           T == [R EXCEPT !.gate = gate, !.place = None, !.step = step]
           Q == Resumed(A, n, yes)
<1>1. R \in RunType /\ WalkFits(R) /\ WaitFits(R) /\ TellFits(R)
  BY DEF Fits
<1>2. /\ R.status = "waiting_approval" /\ R.walk = None /\ R.told = 0 /\ At(R, at)
      /\ n \in at.ran /\ R.worked[n] = 0 /\ R.step[n] = "waiting_approval"
      /\ \A m \in Nodes : m # n => R.step[m] # "waiting_approval" /\ R.gate[m] # "pending"
  BY <1>1 DEF WaitFits, TellFits
<1>3. /\ gate \in [Nodes -> {"none", "pending", "approved", "denied", "cancelled"}]
      /\ step \in [Nodes -> {"none", "running", "waiting_approval", "succeeded", "failed", "cancelled"}]
      /\ \A m \in Nodes : /\ gate[m] = IF m = n THEN answer ELSE R.gate[m]
                          /\ step[m] = IF m = n THEN done ELSE R.step[m]
  BY <1>1 DEF RunType
<1>4. A.place = at /\ [A EXCEPT !.place = None] = S /\ [S EXCEPT !.step[n] = done] = T
  BY <1>1 DEF RunType
<1>5. WorksOn(S, n, at) = WorksOn(T, n, at)
  <2> DEFINE W == [at |-> at, node |-> n, cancelled |-> FALSE]
             works(X) == [X EXCEPT !.status = "running", !.step = [X.step EXCEPT ![n] = "running"],
                                   !.worked = [X.worked EXCEPT ![n] = X.worked[n] + 1], !.walk = W]
  <2>1. WorksOn(S, n, at) = works(S) /\ WorksOn(T, n, at) = works(T)
    BY DEF WorksOn
  <2>2. T.worked = S.worked /\ S.step = R.step /\ T.step = step
    BY <1>1 DEF RunType
  <2>3. [step EXCEPT ![n] = "running"] = [R.step EXCEPT ![n] = "running"]
    BY <1>1 DEF RunType
  <2> HIDE DEF W, gate, step
  <2>4. works(S) = works(T)
    BY <1>1, <2>2, <2>3 DEF RunType
  <2> QED BY <2>1, <2>4
<1>6. Q = IF yes /\ n \notin Approvals THEN WorksOn(T, n, at)
          ELSE Advanced(T, n, at, yes, IF yes THEN "success" ELSE "failure")
  <2> HIDE DEF A, S, T
  <2>1. CASE yes /\ n \notin Approvals
    BY <1>4, <1>5, <2>1 DEF Resumed
  <2>2. CASE ~ (yes /\ n \notin Approvals)
    <3>1. Q = Advanced([[A EXCEPT !.place = None] EXCEPT !.step[n] = done], n, A.place, yes,
                       IF yes THEN "success" ELSE "failure")
      BY <2>2, Zenon DEF Resumed
    <3> QED BY <1>4, <2>2, <3>1
  <2> QED BY <2>1, <2>2
<1> HIDE DEF gate, step, A, S, Q
<1>7. /\ T \in RunType
      /\ T.status = R.status /\ T.walk = R.walk /\ T.place = None /\ T.told = R.told
      /\ T.step = step /\ T.worked = R.worked /\ T.paid = R.paid /\ T.gate = gate
  BY <1>1, <1>3 DEF RunType
<1> HIDE DEF T
<1>8. Free(T, at)
  BY <1>1, <1>2, <1>3, <1>7 DEF Free, At, TellFits
<1>9. Leaves(T, Q)
  <2>1. T.step[n] # "none" /\ T.worked[n] = 0 /\ T.status # "gone"
    BY <1>2, <1>3, <1>7
  <2> QED BY <1>2, <1>6, <1>8, <2>1, WorksOnLeaves, AdvancedLeaves DEF Routes
<1>10. Follows(R, Q)
  BY <1>2, <1>3, <1>7, <1>9 DEF Leaves, Follows, Over
<1>11. Turned(R, Q)
  <2>1. CASE WorkBegins(T, Q) \/ PersonAsked(T, Q)
    <3>1. WorkBegins(R, Q) \/ PersonAsked(R, Q)
      BY <1>7, <2>1 DEF WorkBegins, PersonAsked
    <3> QED BY <1>2, <3>1 DEF Turned
  <2>2. CASE EndTold(T, Q) /\ Q.status \in {"succeeded", "failed"}
    <3>1. EndTold(R, Q)
      BY <1>7, <2>2 DEF EndTold
    <3> QED BY <1>2, <2>2, <3>1 DEF Turned
  <2> QED BY <1>2, <1>7, <1>9, <2>1, <2>2 DEF Leaves
<1> QED BY <1>9, <1>10, <1>11 DEF Leaves, Q, A

\* What stays as it is follows itself.
LEMMA SameFollows == ASSUME NEW R PROVE Follows(R, R) /\ Turned(R, R)
BY DEF Follows, Turned, Looks

\* cancel and closeGates leave no step open and nobody asked.
LEMMA StoppedFields ==
  ASSUME NEW R, R \in RunType
  PROVE  LET S == Stopped(R)
         IN  /\ S \in RunType
             /\ S.status = R.status /\ S.place = R.place /\ S.told = R.told
             /\ S.worked = R.worked /\ S.paid = R.paid
             /\ R.walk = None => S.walk = None
             /\ R.walk # None => S.walk # None /\ S.walk.cancelled = TRUE /\ S.walk.node = R.walk.node
             /\ \A n \in Nodes :
                  /\ S.step[n] = IF R.step[n] \in {"running", "waiting_approval"}
                                 THEN "cancelled" ELSE R.step[n]
                  /\ S.gate[n] = IF R.gate[n] = "pending" THEN "cancelled" ELSE R.gate[n]
<1> DEFINE W == IF R.walk = None THEN None ELSE [R.walk EXCEPT !.cancelled = TRUE]
           step == [n \in Nodes |-> IF R.step[n] \in {"running", "waiting_approval"}
                                    THEN "cancelled" ELSE R.step[n]]
           gate == [n \in Nodes |-> IF R.gate[n] = "pending" THEN "cancelled" ELSE R.gate[n]]
           S == [R EXCEPT !.walk = W, !.step = step, !.gate = gate]
<1>1. Stopped(R) = S
  BY DEF Stopped
<1>2. R.walk # None => R.walk \in Walks
  BY DEF RunType
<1>3. /\ R.walk = None => W = None
      /\ R.walk # None => W \in Walks /\ W.node = R.walk.node /\ W.cancelled = TRUE
  BY <1>2 DEF Walks
<1>4. W \in Walks => W # None
  BY NoPlaceAssumption, Zenon
<1>5. /\ step \in [Nodes -> {"none", "running", "waiting_approval", "succeeded", "failed", "cancelled"}]
      /\ gate \in [Nodes -> {"none", "pending", "approved", "denied", "cancelled"}]
  BY DEF RunType
<1>6. \A n \in Nodes :
        /\ step[n] = IF R.step[n] \in {"running", "waiting_approval"} THEN "cancelled" ELSE R.step[n]
        /\ gate[n] = IF R.gate[n] = "pending" THEN "cancelled" ELSE R.gate[n]
  OBVIOUS
<1>7. W \in Walks \cup {None}
  BY <1>3
<1> HIDE DEF W, step, gate
<1>8. S \in RunType
  BY <1>5, <1>7 DEF RunType
<1>9. /\ S.status = R.status /\ S.place = R.place /\ S.told = R.told /\ S.worked = R.worked
      /\ S.paid = R.paid /\ S.walk = W /\ S.step = step /\ S.gate = gate
  BY DEF RunType
<1> HIDE DEF S
<1> QED BY <1>1, <1>3, <1>4, <1>6, <1>8, <1>9

\* cancelWorkflowRunNow.
LEMMA CancelledFits ==
  ASSUME NEW R, Fits(R), R.status \in {"running", "waiting_approval"}
  PROVE  LET Q == [Stopped(R) EXCEPT !.status = "cancelled", !.place = None, !.told = @ + 1]
         IN  Fits(Q) /\ Walked(Q) /\ Asked(Q) /\ Follows(R, Q) /\ Turned(R, Q)
<1> DEFINE S == Stopped(R)
           t == S.told + 1
           Q == [S EXCEPT !.status = "cancelled", !.place = None, !.told = t]
<1>1. R \in RunType /\ WalkFits(R) /\ WaitFits(R) /\ TellFits(R) /\ R.told = 0
  BY DEF Fits, TellFits
<1>2. /\ S \in RunType /\ S.told = R.told
      /\ S.worked = R.worked /\ S.paid = R.paid
      /\ R.walk = None => S.walk = None
      /\ R.walk # None => S.walk # None /\ S.walk.cancelled = TRUE /\ S.walk.node = R.walk.node
      /\ \A n \in Nodes :
           /\ S.step[n] = IF R.step[n] \in {"running", "waiting_approval"}
                          THEN "cancelled" ELSE R.step[n]
           /\ S.gate[n] = IF R.gate[n] = "pending" THEN "cancelled" ELSE R.gate[n]
  BY <1>1, StoppedFields
<1> HIDE DEF S
<1>a. t = 1
  BY <1>1, <1>2
<1> HIDE DEF t
<1>3. /\ Q \in RunType
      /\ Q.status = "cancelled" /\ Q.place = None /\ Q.told = 1 /\ Q.walk = S.walk
      /\ Q.step = S.step /\ Q.gate = S.gate /\ Q.worked = S.worked /\ Q.paid = S.paid
  BY <1>2, <1>a DEF RunType, Over
<1> HIDE DEF Q
<1>4. WalkFits(Q)
  <2>1. R.walk # None => R.walk.node \in Nodes
    BY <1>1 DEF RunType, Walks
  <2> QED BY <1>1, <1>2, <1>3, <2>1 DEF WalkFits
<1>5. WaitFits(Q)
  BY <1>2, <1>3 DEF WaitFits
<1>6. TellFits(Q)
  BY <1>1, <1>2, <1>3 DEF TellFits
<1>7. Follows(R, Q)
  BY <1>1, <1>2, <1>3 DEF Follows, Over
<1>8. Turned(R, Q)
  <2>1. EndTold(R, Q)
    BY <1>1, <1>2, <1>3 DEF EndTold, Going, Pending
  <2> QED BY <1>3, <2>1 DEF Turned
<1> QED BY <1>3, <1>4, <1>5, <1>6, <1>7, <1>8 DEF Fits, Walked, Asked, Q, S, t

\* The rows of a run deleted; its walk, if it has one, is nobody's.
LEMMA DeletedFits ==
  ASSUME NEW R, R \in RunType, R.told <= 1, \A n \in Nodes : R.worked[n] <= 1,
         \A n \in Nodes : R.gate[n] # "pending",
         R.walk # None /\ ~ R.walk.cancelled => R.told = 0 /\ At(R, R.walk.at)
  PROVE  LET Q == Deleted(R)
         IN  /\ Fits(Q) /\ Q.status = "gone" /\ Q.step = NoStep /\ Q.told = R.told
             /\ Q.worked = R.worked /\ Q.gate = R.gate /\ Q.walk = R.walk
<1> DEFINE Q == Deleted(R)
<1>1. NoRun.step = NoStep /\ NoStep \in [Nodes -> {"none"}]
  BY DEF NoRun, NoStep
<1>2. Q = [R EXCEPT !.status = "gone", !.place = None, !.step = NoStep]
  BY <1>1 DEF Deleted
<1>3. /\ Q.status = "gone" /\ Q.place = None /\ Q.told = R.told /\ Q.walk = R.walk
      /\ Q.step = NoStep /\ Q.gate = R.gate /\ Q.worked = R.worked /\ Q.paid = R.paid
  BY <1>2 DEF RunType
<1>4. Q \in RunType
  <2> HIDE DEF Q
  <2> QED BY <1>1, <1>2 DEF RunType
<1> HIDE DEF Q
<1>5. WalkFits(Q)
  BY <1>3 DEF WalkFits, At
<1>6. WaitFits(Q)
  BY <1>1, <1>3 DEF WaitFits
<1>7. TellFits(Q)
  BY <1>3 DEF TellFits
<1> QED BY <1>3, <1>4, <1>5, <1>6, <1>7 DEF Fits, Q

\* A run deleted once it is over, or by its workflow while it works.
LEMMA DeletedAsItIs ==
  ASSUME NEW R, Fits(R), R.status \notin {"none", "waiting_approval"}
  PROVE  LET Q == Deleted(R)
         IN  Fits(Q) /\ Follows(R, Q) /\ Turned(R, Q) /\ Q.status = "gone"
<1>1. R \in RunType /\ WalkFits(R) /\ WaitFits(R) /\ TellFits(R)
  BY DEF Fits
<1>2. R.place = None /\ \A n \in Nodes : R.gate[n] # "pending"
  BY <1>1 DEF WaitFits
<1>3. /\ R.told <= 1 /\ \A n \in Nodes : R.worked[n] <= 1
      /\ R.walk # None /\ ~ R.walk.cancelled => R.told = 0 /\ At(R, R.walk.at)
  BY <1>1 DEF TellFits, WalkFits
<1> DEFINE Q == Deleted(R)
<1>4. /\ Fits(Q) /\ Q.status = "gone" /\ Q.step = NoStep /\ Q.told = R.told
      /\ Q.worked = R.worked /\ Q.gate = R.gate /\ Q.walk = R.walk
  BY <1>1, <1>2, <1>3, DeletedFits
<1> HIDE DEF Q
<1>5. Follows(R, Q)
  BY <1>4 DEF Follows, NoStep
<1>6. Turned(R, Q)
  <2>1. Going(Q) = Going(R) /\ Pending(Q) = Pending(R)
    BY <1>4 DEF Going, Pending
  <2>2. R.status \in Over \cup {"running", "gone"}
    BY <1>1 DEF RunType
  <2> QED BY <1>4, <2>1, <2>2 DEF Turned, Looks
<1> QED BY <1>4, <1>5, <1>6 DEF Q

\* A run stopped, deleted and told of.
LEMMA DeletedUnderWay ==
  ASSUME NEW R, Fits(R), R.status \in {"running", "waiting_approval"}
  PROVE  LET Q == [Deleted(Stopped(R)) EXCEPT !.told = @ + 1]
         IN  Fits(Q) /\ Follows(R, Q) /\ Turned(R, Q) /\ Q.status = "gone"
<1> DEFINE S == Stopped(R)
           t == S.told + 1
           U == [S EXCEPT !.told = t]
           D == Deleted(S)
           Q == [D EXCEPT !.told = D.told + 1]
<1>1. R \in RunType /\ WalkFits(R) /\ WaitFits(R) /\ TellFits(R) /\ R.told = 0
  BY DEF Fits, TellFits
<1>2. /\ S \in RunType /\ S.told = R.told /\ S.worked = R.worked
      /\ R.walk = None => S.walk = None
      /\ R.walk # None => S.walk # None /\ S.walk.cancelled = TRUE
      /\ \A n \in Nodes : S.gate[n] = IF R.gate[n] = "pending" THEN "cancelled" ELSE R.gate[n]
  BY <1>1, StoppedFields
<1> HIDE DEF S
<1>3. t = 1
  BY <1>1, <1>2
<1>4. Q = Deleted(U)
  BY <1>2 DEF Deleted, RunType
<1>5. /\ U \in RunType /\ U.told = 1
      /\ U.worked = R.worked /\ U.walk = S.walk /\ U.gate = S.gate
  BY <1>2, <1>3 DEF RunType
<1> HIDE DEF U, Q
<1>6. /\ Fits(Q) /\ Q.status = "gone" /\ Q.step = NoStep /\ Q.told = 1
      /\ Q.worked = R.worked /\ Q.walk = S.walk /\ Q.gate = S.gate
  BY <1>1, <1>2, <1>4, <1>5, DeletedFits DEF TellFits
<1>7. Follows(R, Q)
  BY <1>6 DEF Follows, Over, NoStep
<1>8. Turned(R, Q)
  <2>1. EndTold(R, Q)
    BY <1>1, <1>2, <1>6 DEF EndTold, Going, Pending
  <2> QED BY <1>6, <2>1 DEF Turned
<1> QED BY <1>6, <1>7, <1>8 DEF Q, D, S

\* The process of a run is gone; its rows stay.
LEMMA CrashedFits ==
  ASSUME NEW R, Fits(R)
  PROVE  LET Q == [R EXCEPT !.walk = None]
         IN  Fits(Q) /\ Follows(R, Q) /\ Q.walk = None /\ Q.told = R.told /\ (Asked(R) => Asked(Q))
<1> DEFINE Q == [R EXCEPT !.walk = None]
<1>1. R \in RunType /\ WalkFits(R) /\ WaitFits(R) /\ TellFits(R)
  BY DEF Fits
<1>2. /\ Q \in RunType
      /\ Q.status = R.status /\ Q.walk = None /\ Q.place = R.place /\ Q.told = R.told
      /\ Q.step = R.step /\ Q.gate = R.gate /\ Q.worked = R.worked /\ Q.paid = R.paid
  BY <1>1 DEF RunType
<1>3. R.status = "none" => Q = R
  BY <1>1 DEF TellFits, NoRun
<1> HIDE DEF Q
<1>4. WalkFits(Q) /\ WaitFits(Q)
  BY <1>1, <1>2 DEF WalkFits, WaitFits, At
<1>5. TellFits(Q)
  BY <1>1, <1>2, <1>3 DEF TellFits
<1>6. Follows(R, Q) /\ (Asked(R) => Asked(Q))
  BY <1>2 DEF Follows, Asked
<1> QED BY <1>2, <1>4, <1>5, <1>6 DEF Fits, Q

\* failInterruptedRuns.
LEMMA InterruptedFits ==
  ASSUME NEW R, Fits(R), R.walk = None
  PROVE  LET Q == Interrupted(R)
         IN  Fits(Q) /\ Walked(Q) /\ Follows(R, Q) /\ Q.told = R.told /\ (Asked(R) => Asked(Q))
<1>1. R \in RunType /\ WaitFits(R) /\ TellFits(R)
  BY DEF Fits
<1>2. CASE R.status # "running"
  <2>1. Interrupted(R) = R
    BY <1>2 DEF Interrupted
  <2> QED BY <1>2, <2>1, SameFollows DEF Walked
<1>3. CASE R.status = "running"
  <2> DEFINE step == [n \in Nodes |-> IF R.step[n] \in {"running", "waiting_approval"}
                                      THEN "failed" ELSE R.step[n]]
             Q == [R EXCEPT !.status = "interrupted", !.step = step]
  <2>1. Interrupted(R) = Q
    BY <1>3 DEF Interrupted
  <2>2. /\ step \in [Nodes -> {"none", "running", "waiting_approval", "succeeded", "failed", "cancelled"}]
        /\ \A n \in Nodes : step[n] = IF R.step[n] \in {"running", "waiting_approval"}
                                      THEN "failed" ELSE R.step[n]
    BY <1>1 DEF RunType
  <2> HIDE DEF step
  <2>3. /\ Q \in RunType
        /\ Q.status = "interrupted" /\ Q.walk = None /\ Q.place = R.place /\ Q.told = R.told
        /\ Q.step = step /\ Q.gate = R.gate /\ Q.worked = R.worked /\ Q.paid = R.paid
    BY <1>1, <2>2 DEF RunType, Over
  <2> HIDE DEF Q
  <2>4. R.place = None /\ R.told = 0
    BY <1>1, <1>3 DEF WaitFits, TellFits
  <2>5. WalkFits(Q) /\ WaitFits(Q)
    BY <1>1, <2>2, <2>3, <2>4 DEF WalkFits, WaitFits
  <2>6. TellFits(Q)
    BY <1>1, <2>3, <2>4 DEF TellFits
  <2>7. Follows(R, Q)
    BY <1>3, <2>2, <2>3, <2>4 DEF Follows, Over
  <2> QED BY <1>3, <2>1, <2>3, <2>5, <2>6, <2>7 DEF Fits, Walked, Asked
<1> QED BY <1>2, <1>3

-----------------------------------------------------------------------------
(* The system.                                                               *)

\* What a line of the log says of its run is so, as far as it says anything.
Tells(L, R) ==
  /\ L.status = "run_succeeded" => R.status \in {"succeeded", "gone"}
  /\ L.status = "run_failed" => R.status \in {"failed", "interrupted", "cancelled", "gone"}
  /\ L.status = "run_started" /\ R.told > 0 => R.step = NoStep

RunsFit ==
  \A r \in Runs :
    /\ Fits(run[r])
    /\ up => Walked(run[r])
    /\ ~ up => run[r].walk = None
    /\ owner => Asked(run[r])

LinesTell == \A l \in Lines : line[l].run # None => Tells(line[l], run[line[l].run])

\* The log has no gaps, and a key that started a run is remembered at least since.
LogFits ==
  /\ \A l \in Lines :
       /\ line[l].status = "none" => line[l] = NoLine
       /\ line[l].status = "run_started" => line[l].run # None
       /\ line[l].run # None =>
            line[l].key \in Keys /\ seen[line[l].key] # None /\ line[l].at <= seen[line[l].key]
  /\ \A k, l \in Lines : k < l /\ line[l].status # "none" => line[k].status # "none"
  /\ \A k \in Keys : seen[k] # None => seen[k] <= clock

IInv == TypeOK /\ RunsFit /\ LinesTell /\ LogFits /\ OneRunPerEvent

\* Every run follows itself.
RunsFollow == \A r \in Runs : Follows(run[r], run'[r])

\* Every run shows a turn of its life.
RunsTurn == \A r \in Runs : Turned(run[r], run'[r])

\* Lines whose status alone changes keep the log as it is.
SameLog ==
  /\ line' \in [Lines -> LineType]
  /\ \A l \in Lines :
       /\ line'[l].key = line[l].key /\ line'[l].run = line[l].run /\ line'[l].at = line[l].at
       /\ line[l].status = "none" => line'[l] = line[l]
       /\ line'[l].status \in {"none", "run_started"} => line[l].status = line'[l].status

LEMMA LogKept ==
  ASSUME TypeOK, LogFits, OneRunPerEvent, SameLog, seen' = seen, clock' \in Nat, clock <= clock'
  PROVE  LogFits' /\ OneRunPerEvent'
<1>1. /\ line \in [Lines -> LineType] /\ seen \in [Keys -> Nat \cup {None}] /\ clock \in Nat
      /\ Lines \subseteq Nat
  BY DEF TypeOK, Lines
<1>2. \A k \in Keys : seen[k] # None => seen'[k] <= clock'
  BY <1>1, NothingAssumption DEF LogFits
<1>3. LogFits'
  BY <1>1, <1>2 DEF LogFits, SameLog
<1>4. OneRunPerEvent'
  BY <1>1 DEF OneRunPerEvent, SameLog
<1> QED BY <1>3, <1>4

\* settleRun writes the status of one run's lines.
LEMMA LinesAfterSame ==
  ASSUME TypeOK, LogFits, NEW r \in Runs, NEW R, line' = LinesAfter(r, R)
  PROVE  /\ SameLog
         /\ \A l \in Lines :
              \/ line'[l] = line[l] /\ (line[l].run # r \/ R.status = "gone")
              \/ /\ line[l].run = r /\ R.status # "gone"
                 /\ line'[l].status = IF R.status = "succeeded" THEN "run_succeeded" ELSE "run_failed"
<1>1. line \in [Lines -> LineType] /\ r # None
  BY NothingAssumption DEF TypeOK, Runs
<1>2. \A l \in Lines :
        line'[l] = IF line[l].run = r /\ R.status # "gone"
                   THEN [line[l] EXCEPT !.status = IF R.status = "succeeded"
                                                   THEN "run_succeeded" ELSE "run_failed"]
                   ELSE line[l]
  BY DEF LinesAfter
<1>3. line' \in [Lines -> LineType]
  BY <1>1 DEF LinesAfter, LineType, Settled
<1>4. \A l \in Lines : line[l].status = "none" => line[l].run = None
  BY DEF LogFits, NoLine
<1> QED BY <1>1, <1>2, <1>3, <1>4 DEF SameLog, LineType

\* What a line says stays true of a run whose end is not told just now.
LEMMA TellsOn ==
  ASSUME NEW L, NEW R, NEW Q, Tells(L, R), Follows(R, Q), TellFits(Q),
         Q.told = R.told \/ Q.status = "gone"
  PROVE  Tells(L, Q)
BY DEF Tells, Follows, TellFits, Over

\* One run goes on, and its line with it.
LEMMA BecomesStep ==
  ASSUME IInv, up, NEW r \in Runs, NEW Q, Fits(Q), Walked(Q), owner => Asked(Q),
         Follows(run[r], Q), Turned(run[r], Q), Becomes(r, Q),
         UNCHANGED <<seen, kept, owner, worldVars>>
  PROVE  IInv' /\ RunsFollow /\ RunsTurn
<1>0. TypeOK /\ RunsFit /\ LinesTell /\ LogFits /\ OneRunPerEvent
  BY DEF IInv
<1>1. run' = [run EXCEPT ![r] = Q] /\ run \in [Runs -> RunType] /\ clock' = clock
  BY <1>0 DEF Becomes, TypeOK, worldVars
<1>2. \A q \in Runs : run'[q] = IF q = r THEN Q ELSE run[q]
  BY <1>1
<1>3. RunsFollow /\ RunsTurn
  BY <1>2, SameFollows DEF RunsFollow, RunsTurn
<1>4. RunsFit'
  BY <1>0, <1>2 DEF RunsFit, worldVars
<1>5. CASE Q.told = run[r].told
  <2>1. line' = line
    BY <1>5 DEF Becomes
  <2>2. LinesTell'
    <3> SUFFICES ASSUME NEW l \in Lines, line[l].run # None
                 PROVE  Tells(line[l], run'[line[l].run])
      BY <2>1 DEF LinesTell
    <3>1. line[l].run \in Runs /\ Tells(line[l], run[line[l].run])
      BY <1>0 DEF LinesTell, TypeOK, LineType
    <3>2. CASE line[l].run = r
      BY <1>2, <1>5, <3>1, <3>2, TellsOn DEF Fits
    <3>3. CASE line[l].run # r
      BY <1>2, <3>1, <3>3
    <3> QED BY <3>2, <3>3
  <2>3. TypeOK'
    BY <1>0, <1>1, <2>1 DEF TypeOK, Fits, worldVars
  <2>4. LogFits' /\ OneRunPerEvent'
    BY <1>0, <1>1, <2>1 DEF LogFits, OneRunPerEvent
  <2> QED BY <1>3, <1>4, <2>2, <2>3, <2>4 DEF IInv
<1>6. CASE Q.told # run[r].told
  <2>1. line' = LinesAfter(r, Q)
    BY <1>6 DEF Becomes
  <2>2. /\ SameLog
        /\ \A l \in Lines :
             \/ line'[l] = line[l] /\ (line[l].run # r \/ Q.status = "gone")
             \/ /\ line[l].run = r /\ Q.status # "gone"
                /\ line'[l].status = IF Q.status = "succeeded" THEN "run_succeeded" ELSE "run_failed"
    BY <1>0, <2>1, LinesAfterSame
  <2>3. TypeOK'
    BY <1>0, <1>1, <2>2 DEF TypeOK, Fits, worldVars, SameLog
  <2>4. LogFits' /\ OneRunPerEvent'
    BY <1>0, <1>1, <2>2, LogKept DEF TypeOK
  <2>5. Q.status \in Over \cup {"gone"} /\ TellFits(Q)
    BY <1>6 DEF Follows, Fits
  <2>6. LinesTell'
    <3> SUFFICES ASSUME NEW l \in Lines, line'[l].run # None
                 PROVE  Tells(line'[l], run'[line'[l].run])
      BY DEF LinesTell
    <3>1. line'[l].run = line[l].run /\ line[l].run \in Runs
      BY <1>0, <2>2 DEF SameLog, TypeOK, LineType
    <3>2. Tells(line[l], run[line[l].run])
      BY <1>0, <3>1 DEF LinesTell
    <3>3. CASE line[l].run # r
      BY <1>2, <2>2, <3>1, <3>2, <3>3
    <3>4. CASE line[l].run = r /\ Q.status = "gone"
      BY <1>2, <2>2, <2>5, <3>1, <3>2, <3>4, TellsOn
    <3>5. CASE line[l].run = r /\ Q.status # "gone"
      <4>1. line'[l].status = IF Q.status = "succeeded" THEN "run_succeeded" ELSE "run_failed"
        BY <2>2, <3>5
      <4> QED BY <1>2, <2>5, <3>1, <3>5, <4>1 DEF Tells, Over
    <3> QED BY <3>3, <3>4, <3>5
  <2> QED BY <1>3, <1>4, <2>3, <2>4, <2>6 DEF IInv
<1> QED BY <1>5, <1>6

\* A person, a schedule starts a run.
LEMMA StartStep == ASSUME IInv, up, NEW r \in Runs, Start(r)
PROVE  IInv' /\ RunsFollow /\ RunsTurn
<1>1. PICK queue \in Starts : Becomes(r, New(queue))
  BY DEF Start
<1>2. run[r] = NoRun
  BY DEF IInv, RunsFit, Fits, TellFits, Start, FreshRun
<1>3. Leaves(NoRun, New(queue))
  BY NewLeaves
<1>4. Follows(NoRun, New(queue)) /\ Turned(NoRun, New(queue))
  BY <1>3 DEF Leaves, Follows, Turned, NoRun, Over
<1> QED BY <1>1, <1>2, <1>3, <1>4, BecomesStep DEF Start, Leaves

\* The work of a step ends.
LEMMA StepEndsStep == ASSUME IInv, up, NEW r \in Runs, StepEnds(r)
PROVE  IInv' /\ RunsFollow /\ RunsTurn
<1>1. PICK end \in {"success", "failure", "stop"}, cost \in Costs(run[r].walk.node) :
        Becomes(r, Finished(run[r], end, cost))
  BY DEF StepEnds
<1>2. cost \in 0..1
  BY <1>1 DEF Costs
<1>3. Fits(run[r]) /\ run[r].walk # None
  BY DEF IInv, RunsFit, StepEnds
<1> DEFINE Q == Finished(run[r], end, cost)
<1>4. Fits(Q) /\ Walked(Q) /\ Asked(Q) /\ Follows(run[r], Q) /\ Turned(run[r], Q)
  BY <1>2, <1>3, FinishedFits
<1> HIDE DEF Q
<1>5. Becomes(r, Q)
  BY <1>1 DEF Q
<1> QED BY <1>4, <1>5, BecomesStep DEF StepEnds

\* A gate is answered.
LEMMA AnswerStep ==
  ASSUME IInv, up, NEW r \in Runs, NEW n \in Nodes, NEW yes \in BOOLEAN, Answer(r, n, yes)
  PROVE  IInv' /\ RunsFollow /\ RunsTurn
<1> DEFINE answer == IF yes THEN "approved" ELSE "denied"
           A == [run[r] EXCEPT !.gate[n] = IF yes THEN "approved" ELSE "denied"]
           Q == IF owner /\ A.status = "waiting_approval" THEN Resumed(A, n, yes) ELSE A
<1>1. Fits(run[r]) /\ run[r].gate[n] = "pending" /\ run[r] \in RunType
  BY DEF IInv, RunsFit, Answer, Fits
<1>2. Becomes(r, Q)
  BY DEF Answer
<1>3. A.status = "waiting_approval"
  BY <1>1 DEF Fits, WaitFits, RunType
<1>4. answer \in {"approved", "denied"}
  OBVIOUS
<1>5. Fits(A) /\ Walked(A) /\ Follows(run[r], A) /\ Turned(run[r], A)
  BY <1>1, <1>4, AnsweredFits
<1>6. LET P == Resumed(A, n, yes)
      IN  Fits(P) /\ Walked(P) /\ Asked(P) /\ Follows(run[r], P) /\ Turned(run[r], P)
  BY <1>1, ResumedFits
<1> HIDE DEF A
<1>7. Fits(Q) /\ Walked(Q) /\ (owner => Asked(Q)) /\ Follows(run[r], Q) /\ Turned(run[r], Q)
  BY <1>3, <1>5, <1>6
<1> HIDE DEF Q
<1> QED BY <1>2, <1>7, BecomesStep DEF Answer

\* A run is cancelled.
LEMMA CancelStep == ASSUME IInv, up, NEW r \in Runs, Cancel(r)
PROVE  IInv' /\ RunsFollow /\ RunsTurn
<1> DEFINE Q == [Stopped(run[r]) EXCEPT !.status = "cancelled", !.place = None, !.told = @ + 1]
<1>1. Fits(run[r]) /\ run[r].status \in {"running", "waiting_approval"} /\ Becomes(r, Q)
  BY DEF IInv, RunsFit, Cancel
<1>2. Fits(Q) /\ Walked(Q) /\ Asked(Q) /\ Follows(run[r], Q) /\ Turned(run[r], Q)
  BY <1>1, CancelledFits
<1> HIDE DEF Q
<1> QED BY <1>1, <1>2, BecomesStep DEF Cancel

\* A run is deleted, told of as its row was.
LEMMA DeleteRunStep == ASSUME IInv, up, NEW r \in Runs, DeleteRun(r)
PROVE  IInv' /\ RunsFollow /\ RunsTurn
<1> DEFINE R == run[r]
           over == R.status \in Over
           Q == IF over THEN Deleted(R) ELSE [Deleted(Stopped(R)) EXCEPT !.told = @ + 1]
<1>0. TypeOK /\ RunsFit /\ LinesTell /\ LogFits /\ OneRunPerEvent
  BY DEF IInv
<1>a. Fits(R) /\ R \in RunType /\ run \in [Runs -> RunType]
  BY <1>0 DEF RunsFit, Fits, TypeOK
<1>1. R.status \in Over \cup {"running", "waiting_approval"}
  BY <1>a DEF DeleteRun, RunType
<1>2. run' = [run EXCEPT ![r] = Q] /\ line' = IF over THEN line ELSE LinesAfter(r, R)
  <2>1. CASE over
    BY <2>1 DEF DeleteRun
  <2>2. CASE ~ over
    BY <2>2 DEF DeleteRun
  <2> QED BY <2>1, <2>2
<1>3. Fits(Q) /\ Follows(R, Q) /\ Turned(R, Q) /\ Q.status = "gone"
  BY <1>a, <1>1, DeletedAsItIs, DeletedUnderWay DEF Over
<1> HIDE DEF Q
<1>4. \A q \in Runs : run'[q] = IF q = r THEN Q ELSE run[q]
  BY <1>a, <1>2
<1>5. RunsFollow /\ RunsTurn
  BY <1>3, <1>4, SameFollows DEF RunsFollow, RunsTurn
<1>6. RunsFit'
  BY <1>0, <1>3, <1>4 DEF RunsFit, Walked, Asked, DeleteRun, worldVars
<1>7. /\ SameLog
      /\ \A l \in Lines : line'[l] = line[l] \/ (line[l].run = r /\ line'[l].status = "run_failed")
  <2>1. CASE over
    BY <1>0, <1>2, <2>1 DEF SameLog, TypeOK
  <2>2. CASE ~ over
    <3>1. line' = LinesAfter(r, R) /\ R.status # "succeeded"
      BY <1>2, <2>2 DEF Over
    <3> QED BY <1>0, <3>1, LinesAfterSame
  <2> QED BY <2>1, <2>2
<1>8. TypeOK'
  BY <1>0, <1>a, <1>2, <1>3, <1>7 DEF TypeOK, Fits, worldVars, SameLog, DeleteRun
<1>9. LogFits' /\ OneRunPerEvent'
  BY <1>0, <1>7, LogKept DEF TypeOK, DeleteRun, worldVars
<1>10. LinesTell'
  <2> SUFFICES ASSUME NEW l \in Lines, line'[l].run # None
               PROVE  Tells(line'[l], run'[line'[l].run])
    BY DEF LinesTell
  <2>1. line'[l].run = line[l].run /\ line[l].run \in Runs
    BY <1>0, <1>7 DEF SameLog, TypeOK, LineType
  <2>2. Tells(line[l], run[line[l].run])
    BY <1>0, <2>1 DEF LinesTell
  <2>3. CASE line'[l] = line[l] /\ line[l].run # r
    BY <1>4, <2>1, <2>2, <2>3
  <2>4. CASE line'[l] = line[l] /\ line[l].run = r
    BY <1>3, <1>4, <2>1, <2>2, <2>4, TellsOn DEF Fits
  <2>5. CASE line[l].run = r /\ line'[l].status = "run_failed"
    BY <1>3, <1>4, <2>1, <2>5 DEF Tells
  <2> QED BY <1>7, <2>3, <2>4, <2>5
<1> QED BY <1>5, <1>6, <1>8, <1>9, <1>10 DEF IInv

\* The workflow is deleted, with its trigger.
LEMMA DeleteWorkflowStep == ASSUME IInv, up, DeleteWorkflow PROVE IInv' /\ RunsFollow /\ RunsTurn
<1>0. TypeOK /\ RunsFit
  BY DEF IInv
<1>1. \A r \in Runs :
        /\ Fits(run'[r]) /\ Follows(run[r], run'[r]) /\ Turned(run[r], run'[r])
        /\ run'[r].status \in {"none", "gone"}
  <2> SUFFICES ASSUME NEW r \in Runs
               PROVE  /\ Fits(run'[r]) /\ Follows(run[r], run'[r]) /\ Turned(run[r], run'[r])
                      /\ run'[r].status \in {"none", "gone"}
    OBVIOUS
  <2>1. Fits(run[r])
    BY <1>0 DEF RunsFit
  <2>2. CASE run[r].status = "none"
    BY <2>1, <2>2, SameFollows DEF DeleteWorkflow
  <2>3. CASE run[r].status = "waiting_approval"
    <3>1. run'[r] = [Deleted(Stopped(run[r])) EXCEPT !.told = @ + 1]
      BY <2>3 DEF DeleteWorkflow
    <3> QED BY <2>1, <2>3, <3>1, DeletedUnderWay
  <2>4. CASE run[r].status \notin {"none", "waiting_approval"}
    <3>1. run'[r] = Deleted(run[r])
      BY <2>4 DEF DeleteWorkflow
    <3> QED BY <2>1, <2>4, <3>1, DeletedAsItIs
  <2> QED BY <2>2, <2>3, <2>4
<1>2. run' \in [Runs -> RunType]
  <2>1. \A r \in Runs : run'[r] \in RunType
    BY <1>1 DEF Fits
  <2>2. run' = [r \in Runs |-> run'[r]]
    BY DEF DeleteWorkflow
  <2> QED BY <2>1, <2>2
<1>3. /\ seen' = [k \in Keys |-> None] /\ line' = [l \in Lines |-> NoLine]
      /\ kept' = FALSE /\ owner' = owner /\ up' = up /\ clock' = clock /\ restarts' = restarts
  BY DEF DeleteWorkflow, worldVars
<1>4. NoLine \in LineType
  BY DEF NoLine, LineType
<1>5. TypeOK'
  BY <1>0, <1>2, <1>3, <1>4 DEF TypeOK
<1>6. RunsFit'
  BY <1>1, <1>3 DEF RunsFit, Walked, Asked
<1>7. LinesTell' /\ LogFits' /\ OneRunPerEvent'
  BY <1>3 DEF LinesTell, LogFits, OneRunPerEvent, NoLine
<1> QED BY <1>1, <1>5, <1>6, <1>7 DEF IInv, RunsFollow, RunsTurn

\* The owner leaves the hub.
LEMMA RemoveOwnerStep == ASSUME IInv, RemoveOwner PROVE IInv' /\ RunsFollow
<1>1. UNCHANGED <<run, seen, line, kept, up, clock, restarts>> /\ owner' = FALSE
  BY DEF RemoveOwner, deskVars, worldVars
<1>2. TypeOK'
  BY <1>1 DEF IInv, TypeOK
<1>3. RunsFit'
  BY <1>1 DEF IInv, RunsFit
<1>4. LinesTell' /\ LogFits' /\ OneRunPerEvent'
  BY <1>1 DEF IInv, LinesTell, LogFits, OneRunPerEvent
<1> QED BY <1>1, <1>2, <1>3, <1>4, SameFollows DEF IInv, RunsFollow

\* The log grows by a line; only a key that was forgotten starts a run.
LEMMA LogGrows ==
  ASSUME TypeOK, LogFits, OneRunPerEvent, NEW k \in Keys, NEW l \in FreshLine,
         NEW how \in {"duplicate", "filtered_out", "run_failed", "run_started"},
         NEW r \in Runs \cup {None}, Logged(l, how, k, r), clock' = clock,
         how = "run_started" => r # None,
         \/ seen' = seen /\ r = None
         \/ ~ Known(k) /\ seen' = [seen EXCEPT ![k] = clock]
  PROVE  /\ line' \in [Lines -> LineType] /\ seen' \in [Keys -> Nat \cup {None}]
         /\ LogFits' /\ OneRunPerEvent'
<1> DEFINE L == [status |-> how, key |-> k, run |-> r, at |-> clock]
<1>1. /\ line \in [Lines -> LineType] /\ seen \in [Keys -> Nat \cup {None}] /\ clock \in Nat
      /\ Lines \subseteq Nat /\ None \notin Int /\ Memory \in Nat
      /\ \A m \in Lines : line[m].at \in Nat
  BY NothingAssumption, NumbersAssumption DEF TypeOK, Lines, LineType
<1>2. L \in LineType
  BY <1>1 DEF LineType, Settled
<1>3. L.status = how /\ L.key = k /\ L.run = r /\ L.at = clock
  OBVIOUS
<1>4. line' = [line EXCEPT ![l] = L]
  BY DEF Logged
<1> HIDE DEF L
<1>5. /\ l \in Lines /\ line[l].status = "none"
      /\ \A m \in Lines : m < l => line[m].status # "none"
  BY DEF FreshLine
<1>6. \A m \in Lines : line'[m] = IF m = l THEN L ELSE line[m]
  BY <1>1, <1>4
<1>7. \A m \in Lines : line[m].run # None => line[m].status # "none"
  BY DEF LogFits, NoLine
<1>8. \A m \in Lines : line[m].status # "none" => m < l
  BY <1>1, <1>5 DEF LogFits
<1>9. /\ seen' \in [Keys -> Nat \cup {None}]
      /\ r # None => seen'[k] = clock
      /\ \A j \in Keys : /\ seen[j] # None => seen'[j] # None /\ seen[j] <= seen'[j]
                         /\ seen'[j] # None => seen'[j] <= clock
  BY <1>1 DEF LogFits
<1>10. line' \in [Lines -> LineType]
  BY <1>1, <1>2, <1>4
<1>11. LogFits'
  <2>1. \A m \in Lines :
          /\ line'[m].status = "none" => line'[m] = NoLine
          /\ line'[m].status = "run_started" => line'[m].run # None
    BY <1>3, <1>6 DEF LogFits
  <2>2. ASSUME NEW m \in Lines, line'[m].run # None
        PROVE  /\ line'[m].key \in Keys /\ seen'[line'[m].key] # None
               /\ line'[m].at <= seen'[line'[m].key]
    <3>1. CASE m = l
      BY <1>1, <1>3, <1>6, <1>9, <2>2, <3>1
    <3>2. CASE m # l
      <4>1. /\ line[m].key \in Keys /\ seen[line[m].key] # None
            /\ line[m].at <= seen[line[m].key] /\ line'[m] = line[m]
        BY <1>6, <2>2, <3>2 DEF LogFits
      <4>2. /\ seen[line[m].key] \in Nat /\ seen'[line[m].key] \in Nat
            /\ seen'[line[m].key] # None /\ seen[line[m].key] <= seen'[line[m].key]
        BY <1>1, <1>9, <4>1
      <4> QED BY <1>1, <4>1, <4>2
    <3> QED BY <3>1, <3>2
  <2>3. \A j, m \in Lines : j < m /\ line'[m].status # "none" => line'[j].status # "none"
    BY <1>1, <1>3, <1>5, <1>6, <1>8
  <2> QED BY <1>9, <2>1, <2>2, <2>3 DEF LogFits
<1>12. OneRunPerEvent'
  <2> SUFFICES ASSUME NEW j \in Lines, NEW m \in Lines, j < m,
                      line'[j].run # None, line'[m].run # None, line'[j].key = line'[m].key
               PROVE  line'[m].at - line'[j].at > Memory
    BY DEF OneRunPerEvent
  <2>1. CASE m # l /\ j # l
    BY <1>6, <2>1 DEF OneRunPerEvent
  <2>2. CASE j = l
    <3>1. m # l /\ line[m].run # None
      BY <1>1, <1>6, <2>2
    <3> QED BY <1>1, <1>7, <1>8, <2>2, <3>1
  <2>3. CASE m = l /\ j # l
    <3>1. /\ line'[m] = L /\ line'[j] = line[j] /\ line[j].run # None
          /\ r # None /\ line[j].key = k
      BY <1>3, <1>6, <2>3
    <3>2. seen[k] # None /\ line[j].at <= seen[k]
      BY <3>1 DEF LogFits
    <3>3. seen[k] \in Nat /\ ~ (clock - seen[k] <= Memory)
      BY <1>1, <3>1, <3>2 DEF Known
    <3> QED BY <1>1, <1>3, <3>1, <3>2, <3>3
  <2> QED BY <2>1, <2>2, <2>3
<1> QED BY <1>9, <1>10, <1>11, <1>12

\* A delivery comes.
LEMMA ReceiveStep ==
  ASSUME IInv, up, NEW k \in Keys, Receive(k)
  PROVE  IInv' /\ RunsFollow /\ RunsTurn
<1>0. /\ TypeOK /\ RunsFit /\ LinesTell /\ LogFits /\ OneRunPerEvent
      /\ run \in [Runs -> RunType] /\ line \in [Lines -> LineType]
  BY DEF IInv, TypeOK
<1>1. kept' = kept /\ owner' = owner /\ up' = up /\ clock' = clock /\ restarts' = restarts
  BY DEF Receive, worldVars
<1>2. PICK l \in FreshLine :
        \/ Known(k) /\ Logged(l, "duplicate", k, None) /\ UNCHANGED <<run, seen>>
        \/ /\ ~ Known(k)
           /\ seen' = [seen EXCEPT ![k] = clock]
           /\ \/ Logged(l, "filtered_out", k, None) /\ UNCHANGED run
              \/ ~ owner /\ Logged(l, "run_failed", k, None) /\ UNCHANGED run
              \/ /\ owner
                 /\ \E r \in FreshRun, queue \in Roots :
                      /\ run' = [run EXCEPT ![r] = New(queue)]
                      /\ Logged(l, "run_started", k, r)
  BY DEF Receive
<1>3. ASSUME NEW how \in {"duplicate", "filtered_out", "run_failed"}, run' = run,
             Logged(l, how, k, None),
             seen' = seen \/ (~ Known(k) /\ seen' = [seen EXCEPT ![k] = clock])
      PROVE  IInv' /\ RunsFollow /\ RunsTurn
  <2>1. /\ line' \in [Lines -> LineType] /\ seen' \in [Keys -> Nat \cup {None}]
        /\ LogFits' /\ OneRunPerEvent'
    BY <1>0, <1>1, <1>3, LogGrows
  <2>2. LinesTell'
    <3>1. \A m \in Lines : line'[m] = line[m] \/ line'[m].run = None
      BY <1>0, <1>3 DEF Logged
    <3> QED BY <1>0, <1>3, <3>1 DEF LinesTell
  <2>3. TypeOK' /\ RunsFit'
    BY <1>0, <1>1, <1>3, <2>1 DEF TypeOK, RunsFit
  <2> QED BY <1>3, <2>1, <2>2, <2>3, SameFollows DEF IInv, RunsFollow, RunsTurn
<1>4. ASSUME NEW r \in FreshRun, NEW queue \in Roots,
             run' = [run EXCEPT ![r] = New(queue)], Logged(l, "run_started", k, r),
             ~ Known(k), seen' = [seen EXCEPT ![k] = clock]
      PROVE  IInv' /\ RunsFollow /\ RunsTurn
  <2> DEFINE Q == New(queue)
  <2>1. r \in Runs /\ run[r] = NoRun
    BY <1>0 DEF FreshRun, RunsFit, Fits, TellFits
  <2>2. Leaves(NoRun, Q)
    BY NewLeaves DEF Roots
  <2> HIDE DEF Q
  <2>3. \A q \in Runs : run'[q] = IF q = r THEN Q ELSE run[q]
    BY <1>0, <1>4 DEF Q
  <2>4. Follows(NoRun, Q) /\ Turned(NoRun, Q)
    BY <2>2 DEF Leaves, Follows, Turned, NoRun, Over
  <2>5. RunsFollow /\ RunsTurn
    BY <2>1, <2>3, <2>4, SameFollows DEF RunsFollow, RunsTurn
  <2>6. /\ line' \in [Lines -> LineType] /\ seen' \in [Keys -> Nat \cup {None}]
        /\ LogFits' /\ OneRunPerEvent'
    <3>1. r # None
      BY <2>1, NothingAssumption DEF Runs
    <3> QED BY <1>0, <1>1, <1>4, <2>1, <3>1, LogGrows
  <2>7. TypeOK'
    <3>1. Q \in RunType /\ run' = [run EXCEPT ![r] = Q]
      BY <1>4, <2>2 DEF Leaves, Fits, Q
    <3> QED BY <1>0, <1>1, <2>6, <3>1 DEF TypeOK
  <2>8. RunsFit'
    BY <1>0, <1>1, <2>2, <2>3 DEF RunsFit, Leaves
  <2>9. LinesTell'
    <3>1. NoRun.status = "none" /\ NoRun.step = NoStep /\ (Q.told # 0 => Q.step = NoStep)
      BY <2>2 DEF Leaves, NoRun, NoStep
    <3>2. Q.told \in Nat
      BY <2>2 DEF Leaves, Fits, RunType
    <3> SUFFICES ASSUME NEW m \in Lines, line'[m].run # None
                 PROVE  Tells(line'[m], run'[line'[m].run])
      BY DEF LinesTell
    <3>3. CASE line'[m] # line[m]
      <4>1. line'[m].status = "run_started" /\ line'[m].run = r
        BY <1>0, <1>4, <3>3 DEF Logged
      <4> QED BY <2>1, <2>3, <3>1, <3>2, <4>1 DEF Tells
    <3>4. CASE line'[m] = line[m]
      <4>1. line[m].run \in Runs /\ Tells(line[m], run[line[m].run])
        BY <1>0, <3>4 DEF LinesTell, LineType
      <4>2. CASE line[m].run # r
        BY <2>3, <3>4, <4>1, <4>2
      <4>3. CASE line[m].run = r
        BY <2>1, <2>3, <3>1, <3>2, <3>4, <4>1, <4>3 DEF Tells
      <4> QED BY <4>2, <4>3
    <3> QED BY <3>3, <3>4
  <2> QED BY <2>5, <2>6, <2>7, <2>8, <2>9 DEF IInv
<1> QED BY <1>2, <1>3, <1>4

\* The log is read.
LEMMA ReadLogStep == ASSUME IInv, ReadLog PROVE IInv' /\ RunsFollow
<1>0. /\ TypeOK /\ RunsFit /\ LinesTell /\ LogFits /\ OneRunPerEvent
      /\ line \in [Lines -> LineType]
  BY DEF IInv, TypeOK
<1>1. run' = run /\ seen' = seen /\ kept' = kept /\ owner' = owner
      /\ up' = up /\ clock' = clock /\ restarts' = restarts
  BY DEF ReadLog, worldVars
<1>2. \A l \in Lines :
        \/ line'[l] = line[l]
        \/ /\ line[l].status = "run_started" /\ line[l].run \in Runs
           /\ run[line[l].run].status \in Over \cup {"gone"}
           /\ line'[l] = [line[l] EXCEPT !.status = IF run[line[l].run].status = "succeeded"
                                                    THEN "run_succeeded" ELSE "run_failed"]
  <2> SUFFICES ASSUME NEW l \in Lines, line'[l] # line[l]
               PROVE  /\ line[l].status = "run_started" /\ line[l].run \in Runs
                      /\ run[line[l].run].status \in Over \cup {"gone"}
                      /\ line'[l] = [line[l] EXCEPT !.status = IF run[line[l].run].status = "succeeded"
                                                               THEN "run_succeeded" ELSE "run_failed"]
    OBVIOUS
  <2> DEFINE r == line[l].run
  <2>1. line[l].status = "run_started" /\ r \in Runs
    BY <1>0 DEF ReadLog, LogFits, LineType
  <2>2. CASE run[r].status = "gone"
    BY <2>1, <2>2 DEF ReadLog
  <2>3. CASE run[r].status \in Over
    <3>1. line'[l] = LinesAfter(r, run[r])[l] /\ run[r].status # "gone"
      BY <2>1, <2>3 DEF ReadLog, Over
    <3> QED BY <2>1, <2>3, <3>1 DEF LinesAfter
  <2> QED BY <2>1, <2>2, <2>3 DEF ReadLog
<1>3. SameLog
  <2>1. \A l \in Lines : line'[l] \in LineType
    <3> SUFFICES ASSUME NEW l \in Lines PROVE line'[l] \in LineType
      OBVIOUS
    <3>1. line[l] \in LineType
      BY <1>0
    <3>2. ASSUME NEW st \in Settled PROVE [line[l] EXCEPT !.status = st] \in LineType
      BY <3>1, <3>2 DEF LineType
    <3>3. "run_succeeded" \in Settled /\ "run_failed" \in Settled
      BY DEF Settled
    <3> DEFINE st == IF run[line[l].run].status = "succeeded" THEN "run_succeeded" ELSE "run_failed"
    <3>4. line'[l] = line[l] \/ line'[l] = [line[l] EXCEPT !.status = st]
      BY <1>2
    <3>5. st \in Settled
      BY <3>3
    <3> HIDE DEF st
    <3> QED BY <3>1, <3>2, <3>4, <3>5
  <2>2. line' \in [Lines -> LineType]
    BY <2>1 DEF ReadLog
  <2> QED BY <1>0, <1>2, <2>2 DEF SameLog, LineType
<1>4. LinesTell'
  <2> SUFFICES ASSUME NEW l \in Lines, line'[l].run # None
               PROVE  Tells(line'[l], run[line'[l].run])
    BY <1>1 DEF LinesTell
  <2>1. line'[l].run = line[l].run /\ Tells(line[l], run[line[l].run])
    BY <1>0, <1>3 DEF SameLog, LinesTell
  <2>2. CASE line'[l] = line[l]
    BY <2>1, <2>2
  <2>3. CASE line'[l] # line[l]
    <3> DEFINE R == run[line[l].run]
    <3>1. /\ R.status \in Over \cup {"gone"}
          /\ line'[l].status = IF R.status = "succeeded" THEN "run_succeeded" ELSE "run_failed"
      <4>1. line[l] \in LineType
        BY <1>0
      <4>2. /\ R.status \in Over \cup {"gone"}
            /\ line'[l] = [line[l] EXCEPT !.status = IF R.status = "succeeded"
                                                     THEN "run_succeeded" ELSE "run_failed"]
        BY <1>2, <2>3
      <4> HIDE DEF R
      <4> QED BY <4>1, <4>2 DEF LineType
    <3> HIDE DEF R
    <3>2. Tells(line'[l], R)
      BY <3>1 DEF Tells, Over
    <3> QED BY <2>1, <3>2 DEF R
  <2> QED BY <2>2, <2>3
<1>5. LogFits' /\ OneRunPerEvent'
  BY <1>0, <1>1, <1>3, LogKept DEF TypeOK
<1>6. TypeOK' /\ RunsFit'
  BY <1>0, <1>1, <1>3 DEF TypeOK, RunsFit, SameLog
<1> QED BY <1>1, <1>4, <1>5, <1>6, SameFollows DEF IInv, RunsFollow

\* A step of all the runs that tells of no end: the log is as it was.
LEMMA AllStep ==
  ASSUME IInv, run' = [r \in Runs |-> run'[r]], UNCHANGED <<seen, line, kept, owner, clock>>,
         up' \in BOOLEAN, restarts' \in Nat,
         \A r \in Runs :
           /\ Fits(run'[r]) /\ Follows(run[r], run'[r]) /\ run'[r].told = run[r].told
           /\ up' => Walked(run'[r])
           /\ ~ up' => run'[r].walk = None
           /\ Asked(run[r]) => Asked(run'[r])
  PROVE  IInv' /\ RunsFollow
<1>0. TypeOK /\ RunsFit /\ LinesTell /\ LogFits /\ OneRunPerEvent
  BY DEF IInv
<1>1. run' \in [Runs -> RunType]
  BY DEF Fits
<1>2. TypeOK'
  BY <1>0, <1>1 DEF TypeOK
<1>3. RunsFit'
  BY <1>0 DEF RunsFit
<1>4. LinesTell'
  <2> SUFFICES ASSUME NEW l \in Lines, line[l].run # None
               PROVE  Tells(line[l], run'[line[l].run])
    BY DEF LinesTell
  <2>1. line[l].run \in Runs /\ Tells(line[l], run[line[l].run])
    BY <1>0 DEF LinesTell, TypeOK, LineType
  <2> QED BY <2>1, TellsOn DEF Fits
<1>5. LogFits' /\ OneRunPerEvent'
  BY <1>0 DEF LogFits, OneRunPerEvent
<1> QED BY <1>2, <1>3, <1>4, <1>5 DEF IInv, RunsFollow

\* The hub stops.
LEMMA CrashStep == ASSUME IInv, Crash PROVE IInv' /\ RunsFollow
<1>1. /\ run' = [r \in Runs |-> [run[r] EXCEPT !.walk = None]]
      /\ UNCHANGED <<seen, line, kept, owner, clock>> /\ up' = FALSE /\ restarts' \in Nat
  BY DEF Crash, deskVars, IInv, TypeOK
<1>2. \A r \in Runs : Fits(run[r])
  BY DEF IInv, RunsFit
<1>3. \A r \in Runs :
        /\ Fits(run'[r]) /\ Follows(run[r], run'[r]) /\ run'[r].told = run[r].told
        /\ run'[r].walk = None /\ (Asked(run[r]) => Asked(run'[r]))
  BY <1>1, <1>2, CrashedFits
<1> QED BY <1>1, <1>3, AllStep

\* The hub starts.
LEMMA BootStep == ASSUME IInv, Boot PROVE IInv' /\ RunsFollow
<1>1. /\ run' = [r \in Runs |-> Interrupted(run[r])]
      /\ UNCHANGED <<seen, line, kept, owner, clock>> /\ up' = TRUE /\ restarts' \in Nat
  BY DEF Boot, deskVars, IInv, TypeOK
<1>2. \A r \in Runs : Fits(run[r]) /\ run[r].walk = None
  BY DEF IInv, RunsFit, Boot
<1>3. \A r \in Runs :
        /\ Fits(run'[r]) /\ Follows(run[r], run'[r]) /\ run'[r].told = run[r].told
        /\ Walked(run'[r]) /\ (Asked(run[r]) => Asked(run'[r]))
  BY <1>1, <1>2, InterruptedFits
<1> QED BY <1>1, <1>3, AllStep

\* Time passes.
LEMMA TickStep == ASSUME IInv, Tick PROVE IInv' /\ RunsFollow
<1>0. TypeOK /\ RunsFit /\ LinesTell /\ LogFits /\ OneRunPerEvent
  BY DEF IInv
<1>1. /\ UNCHANGED <<run, seen, line, kept, owner, up, restarts>>
      /\ clock' = clock + 1 /\ clock \in Nat
  BY <1>0 DEF Tick, deskVars, TypeOK
<1>2. SameLog /\ clock' \in Nat /\ clock <= clock'
  BY <1>0, <1>1 DEF SameLog, TypeOK
<1>3. LogFits' /\ OneRunPerEvent'
  BY <1>0, <1>1, <1>2, LogKept
<1>4. TypeOK' /\ RunsFit' /\ LinesTell'
  BY <1>0, <1>1, <1>2 DEF TypeOK, RunsFit, LinesTell
<1> QED BY <1>1, <1>3, <1>4, SameFollows DEF IInv, RunsFollow

-----------------------------------------------------------------------------
(* The invariant, and what it says.                                          *)

LEMMA IInvInit == Init => IInv
<1> SUFFICES ASSUME Init PROVE IInv
  OBVIOUS
<1>1. NoRun \in RunType /\ NoLine \in LineType
  BY DEF NoRun, RunType, NoLine, LineType
<1>2. TypeOK
  BY <1>1 DEF Init, TypeOK
<1>3. Fits(NoRun)
  BY <1>1 DEF Fits, WalkFits, WaitFits, TellFits, NoRun
<1>4. RunsFit
  BY <1>3 DEF RunsFit, Init, NoRun, Walked, Asked
<1>5. LinesTell /\ LogFits /\ OneRunPerEvent
  BY DEF Init, LinesTell, LogFits, OneRunPerEvent, NoLine
<1> QED BY <1>2, <1>4, <1>5 DEF IInv

LEMMA IInvStep == IInv /\ [Next]_vars => IInv' /\ RunsFollow
<1> SUFFICES ASSUME IInv, [Next]_vars PROVE IInv' /\ RunsFollow
  OBVIOUS
<1>1. ASSUME NEW r \in Runs, up, OfRun(r) PROVE IInv' /\ RunsFollow
  BY <1>1, StartStep, StepEndsStep, CancelStep, DeleteRunStep, AnswerStep DEF OfRun
<1>2. ASSUME NEW k \in Keys, up, Receive(k) PROVE IInv' /\ RunsFollow
  BY <1>2, ReceiveStep
<1>3. ASSUME up, ReadLog \/ DeleteWorkflow \/ RemoveOwner PROVE IInv' /\ RunsFollow
  BY <1>3, ReadLogStep, DeleteWorkflowStep, RemoveOwnerStep
<1>4. ASSUME Crash \/ Boot \/ Tick PROVE IInv' /\ RunsFollow
  BY <1>4, CrashStep, BootStep, TickStep
<1>5. ASSUME UNCHANGED vars PROVE IInv' /\ RunsFollow
  <2>1. UNCHANGED <<run, seen, line, kept, owner, up, clock, restarts>>
    BY <1>5 DEF vars, deskVars, worldVars
  <2>2. TypeOK' /\ RunsFit' /\ LinesTell' /\ LogFits' /\ OneRunPerEvent'
    BY <2>1 DEF IInv, TypeOK, RunsFit, LinesTell, LogFits, OneRunPerEvent
  <2> QED BY <2>1, <2>2, SameFollows DEF IInv, RunsFollow
<1> QED BY <1>1, <1>2, <1>3, <1>4, <1>5 DEF Next, Work

\* The state of every run, line and key fits together always.
THEOREM WorkflowInvariance == Spec => []IInv
<1>1. IInv /\ [Next]_vars => IInv'
  BY IInvStep
<1> QED BY <1>1, IInvInit, PTL DEF Spec

\* Rows, walks and lines have their types.
THEOREM WorkflowTypes == Spec => []TypeOK
<1>1. IInv => TypeOK
  BY DEF IInv
<1> QED BY <1>1, WorkflowInvariance, PTL

\* A step does its work once, whatever arrows, gates and restarts lead to it.
THEOREM StepsWorkOnce == Spec => []NodeWorksOnce
<1>1. IInv => NodeWorksOnce
  BY DEF IInv, RunsFit, Fits, TellFits, NodeWorksOnce
<1> QED BY <1>1, WorkflowInvariance, PTL

\* No run is left `running` with nothing that goes on.
THEOREM RunningHasWalk == Spec => []RunningIsWalked
<1>1. IInv => RunningIsWalked
  BY DEF IInv, RunsFit, Fits, WalkFits, Walked, RunningIsWalked
<1> QED BY <1>1, WorkflowInvariance, PTL

\* A run's end is announced once.
THEOREM EndsToldOnce == Spec => []EndIsToldOnce
<1>1. IInv => EndIsToldOnce
  BY DEF IInv, RunsFit, Fits, WalkFits, TellFits, EndIsToldOnce
<1> QED BY <1>1, WorkflowInvariance, PTL

\* Who waits is asked, at one gate, and who is asked is waited for.
THEOREM GatesMatch == Spec => []GateMatchesRun
<1>1. IInv => GateMatchesRun
  <2> SUFFICES ASSUME IInv, NEW r \in Runs
               PROVE  LET asked == {n \in Nodes : run[r].gate[n] = "pending"}
                      IN  /\ asked # {} => run[r].status = "waiting_approval"
                          /\ run[r].status = "waiting_approval" =>
                               /\ run[r].place # None /\ run[r].walk = None
                               /\ Cardinality({n \in Nodes : run[r].step[n] = "waiting_approval"}) = 1
                               /\ \A n \in asked : run[r].step[n] = "waiting_approval"
                               /\ owner => asked # {}
    BY DEF GateMatchesRun
  <2> DEFINE asked == {n \in Nodes : run[r].gate[n] = "pending"}
             waits == {n \in Nodes : run[r].step[n] = "waiting_approval"}
  <2>1. WaitFits(run[r]) /\ (owner => Asked(run[r]))
    BY DEF IInv, RunsFit, Fits
  <2>2. asked # {} => run[r].status = "waiting_approval"
    BY <2>1 DEF WaitFits
  <2>3. ASSUME run[r].status = "waiting_approval"
        PROVE  /\ run[r].place # None /\ run[r].walk = None
               /\ Cardinality(waits) = 1
               /\ \A n \in asked : run[r].step[n] = "waiting_approval"
               /\ owner => asked # {}
    <3>1. PICK n \in Nodes :
            /\ run[r].step[n] = "waiting_approval"
            /\ \A m \in Nodes : m # n => run[r].step[m] # "waiting_approval" /\ run[r].gate[m] # "pending"
      BY <2>1, <2>3 DEF WaitFits
    <3>2. waits = {n}
      BY <3>1
    <3>3. Cardinality(waits) = 1
      BY <3>2, FS_Singleton
    <3> QED BY <2>1, <2>3, <3>1, <3>3 DEF WaitFits, Asked
  <2> QED BY <2>2, <2>3
<1> QED BY <1>1, WorkflowInvariance, PTL

\* A line of the trigger's log tells what became of its run.
THEOREM LogTellsTheTruth == Spec => []LineTellsTheTruth
<1>1. IInv => LineTellsTheTruth
  BY DEF IInv, LinesTell, Tells, LineTellsTheTruth, NoStep
<1> QED BY <1>1, WorkflowInvariance, PTL

\* Two deliveries of one event start two runs only when the first was forgotten.
THEOREM EventsStartOnce == Spec => []OneRunPerEvent
<1>1. IInv => OneRunPerEvent
  BY DEF IInv
<1> QED BY <1>1, WorkflowInvariance, PTL

\* A run that is over stays as it ended, until it is deleted.
THEOREM OverStays == Spec => OverIsOver
<1>1. IInv /\ [Next]_vars =>
        [\A r \in Runs :
           run[r].status \in Over \cup {"gone"} =>
             /\ run'[r].status \in {run[r].status, "gone"}
             /\ run'[r].worked = run[r].worked
             /\ run'[r].gate = run[r].gate]_vars
  BY IInvStep DEF RunsFollow, Follows
<1> QED BY <1>1, WorkflowInvariance, PTL DEF Spec, OverIsOver

\* No step begins, or asks, once the run has cost what it may.
THEOREM BudgetKept == Spec => BudgetHolds
<1>1. IInv /\ [Next]_vars =>
        [\A r \in Runs :
           (\E n \in Nodes : run[r].step[n] = "none" /\ run'[r].step[n] # "none") =>
             run'[r].paid < MaxCost]_vars
  BY IInvStep DEF RunsFollow, Follows
<1> QED BY <1>1, WorkflowInvariance, PTL DEF Spec, BudgetHolds

-----------------------------------------------------------------------------
(* The runs keep what WorkflowLife promises.                                 *)

\* While the hub runs every run takes a turn of its life, or none.
LEMMA WorkTurns == IInv /\ up /\ up' /\ [Next]_vars => RunsTurn
<1> SUFFICES ASSUME IInv, up, up', [Next]_vars PROVE RunsTurn
  OBVIOUS
<1>1. ASSUME NEW r \in Runs, OfRun(r) PROVE RunsTurn
  BY <1>1, StartStep, StepEndsStep, CancelStep, DeleteRunStep, AnswerStep DEF OfRun
<1>2. ASSUME NEW k \in Keys, Receive(k) PROVE RunsTurn
  BY <1>2, ReceiveStep
<1>3. CASE DeleteWorkflow
  BY <1>3, DeleteWorkflowStep
<1>4. CASE run' = run
  BY <1>4, SameFollows DEF RunsTurn
<1>5. ReadLog \/ RemoveOwner \/ Tick \/ UNCHANGED vars => run' = run
  BY DEF ReadLog, RemoveOwner, Tick, vars
<1>6. ~ Crash /\ ~ Boot
  BY DEF Crash, Boot
<1> QED BY <1>1, <1>2, <1>3, <1>4, <1>5, <1>6 DEF Next, Work

LEMMA LifeInit == Init => Life!Init
<1> SUFFICES ASSUME Init PROVE Life!Init
  OBVIOUS
<1>1. Going(NoRun) = FALSE /\ Pending(NoRun) = {}
  BY DEF NoRun, Going, Pending
<1>2. /\ NoRun.status = "none" /\ NoRun.told = 0 /\ NoRun.worked = [n \in Nodes |-> 0]
  BY DEF NoRun
<1>3. \A r \in Runs : run[r] = NoRun
  BY DEF Init
<1>4. [r \in Runs |-> Going(run[r])] = [r \in Runs |-> FALSE]
  BY <1>1, <1>3
<1> QED BY <1>1, <1>2, <1>3, <1>4 DEF Init, Life!Init

LEMMA LifeWork == up /\ up' /\ RunsTurn => Life!Work
<1> SUFFICES ASSUME up, up', RunsTurn, NEW r \in Runs
             PROVE  \/ Life!Stays(r) \/ Life!Begins(r) \/ Life!Asks(r) \/ Life!Unheard(r)
                    \/ Life!Ends(r) \/ Life!Goes(r) \/ Life!ToldLate(r)
  BY DEF Life!Work
<1> DEFINE R == run[r]
           Q == run'[r]
<1> USE DEF Life!SameEnd, Life!SameWork
<1>1. Turned(R, Q)
  BY DEF RunsTurn
<1>2. CASE Looks(R, Q)
  BY <1>2 DEF Looks, Life!Stays
<1>3. CASE R.status \in Life!Alive /\ WorkBegins(R, Q)
  BY <1>3 DEF WorkBegins, Life!Begins
<1>4. CASE R.status \in Life!Alive /\ PersonAsked(R, Q)
  BY <1>4 DEF PersonAsked, Life!Asks
<1>5. EndTold(R, Q) => Life!Tells(r)
  BY DEF EndTold, Life!Tells
<1>6. CASE /\ R.status \in Life!Alive /\ EndTold(R, Q)
           /\ Q.status \in {"succeeded", "failed"} \/ (Q.status = "cancelled" /\ R.status # "none")
  BY <1>5, <1>6 DEF Life!Ends
<1>7. CASE /\ R.status \in Life!Alive \ {"none"} /\ EndTold(R, Q) /\ Q.status = "gone"
  BY <1>5, <1>7 DEF Life!Goes, Life!Alive
<1>8. CASE /\ R.status = "waiting_approval" /\ Q.status = R.status /\ ~ Going(Q)
           /\ Pending(Q) = {} /\ Q.told = R.told /\ Q.worked = R.worked
  BY <1>8 DEF Life!Unheard
<1>9. CASE /\ R.status \in Over \cup {"running"} /\ Q.status = "gone"
           /\ Going(Q) = Going(R) /\ Pending(Q) = Pending(R)
           /\ Q.told = R.told /\ Q.worked = R.worked
  BY <1>9 DEF Life!Goes, Life!Over, Over
<1>10. CASE R.status = "gone" /\ Going(R) /\ Q.status = "gone" /\ EndTold(R, Q)
  BY <1>5, <1>10 DEF Life!ToldLate
<1> HIDE DEF R, Q
<1> QED BY <1>1, <1>2, <1>3, <1>4, <1>6, <1>7, <1>8, <1>9, <1>10 DEF Turned, Life!Alive

\* A stop takes the walks and nothing else; a start cuts off what worked, and no more.
LEMMA LifeStop == TypeOK /\ Crash => Life!Stop
<1> SUFFICES ASSUME TypeOK, Crash PROVE Life!Stop
  OBVIOUS
<1>1. ASSUME NEW r \in Runs
      PROVE  /\ run'[r].status = run[r].status /\ ~ Going(run'[r])
             /\ Pending(run'[r]) = Pending(run[r])
             /\ run'[r].told = run[r].told /\ run'[r].worked = run[r].worked
  BY DEF Crash, TypeOK, RunType, Going, Pending
<1>2. \A r \in Runs : Going(run'[r]) = FALSE
  BY <1>1 DEF Going
<1>3. [r \in Runs |-> Going(run'[r])] = [r \in Runs |-> FALSE]
  BY <1>2
<1> QED BY <1>1, <1>3 DEF Life!Stop, Crash

LEMMA LifeStart == TypeOK /\ Boot => Life!Start
<1> SUFFICES ASSUME TypeOK, Boot PROVE Life!Start
  OBVIOUS
<1>1. ASSUME NEW r \in Runs
      PROVE  /\ run'[r].status = IF run[r].status = "running" THEN "interrupted" ELSE run[r].status
             /\ Going(run'[r]) = Going(run[r]) /\ Pending(run'[r]) = Pending(run[r])
             /\ run'[r].told = run[r].told /\ run'[r].worked = run[r].worked
  <2>1. run[r] \in RunType /\ run'[r] = Interrupted(run[r])
    BY DEF Boot, TypeOK
  <2>2. CASE run[r].status # "running"
    BY <2>1, <2>2 DEF Interrupted
  <2>3. CASE run[r].status = "running"
    <3>1. /\ run'[r].status = "interrupted" /\ run'[r].walk = run[r].walk
          /\ run'[r].gate = run[r].gate
          /\ run'[r].told = run[r].told /\ run'[r].worked = run[r].worked
      BY <2>1, <2>3 DEF Interrupted, RunType
    <3> QED BY <2>3, <3>1 DEF Going, Pending
  <2> QED BY <2>2, <2>3
<1> QED BY <1>1 DEF Life!Start, Boot

\* A run works, asks and ends as one that is alive, ends once, tells it once, and is cut
\* off by a restart alone: the runs implement WorkflowLife.
THEOREM RunsKeepLife == Spec => KeepsLife
<1>1. IInv /\ [Next]_vars => [Life!Next]_(Life!lifeVars)
  <2> SUFFICES ASSUME IInv, [Next]_vars PROVE Life!Next \/ UNCHANGED Life!lifeVars
    OBVIOUS
  <2>1. TypeOK /\ up \in BOOLEAN
    BY DEF IInv, TypeOK
  <2>2. CASE up /\ up'
    BY <2>2, WorkTurns, LifeWork DEF Life!Next
  <2>3. CASE up /\ ~ up'
    <3>1. Crash
      BY <2>3 DEF Next, Work, OfRun, Start, StepEnds, Cancel, DeleteRun, Answer, Receive, ReadLog,
                  DeleteWorkflow, RemoveOwner, Boot, Tick, vars, worldVars
    <3> QED BY <2>1, <3>1, LifeStop DEF Life!Next
  <2>4. CASE ~ up /\ Boot
    BY <2>1, <2>4, LifeStart DEF Life!Next
  <2>5. CASE ~ up /\ ~ Boot
    <3>1. run' = run /\ up' = up
      BY <2>5 DEF Next, Work, Crash, Tick, vars, worldVars
    <3> QED BY <3>1 DEF Life!lifeVars
  <2> QED BY <2>1, <2>2, <2>3, <2>4, <2>5
<1> QED BY <1>1, LifeInit, WorkflowInvariance, PTL DEF Spec, KeepsLife, Life!Spec
=============================================================================
