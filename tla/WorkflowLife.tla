---------------------------- MODULE WorkflowLife ----------------------------
(***************************************************************************)
(* What the runs of a workflow promise, whatever walks, answers,           *)
(* cancellations, deletions and restarts move them                         *)
(* (schedules/workflow-engine.ts, service.ts): while a run is alive each   *)
(* of its steps may work once, and one at a time may ask; it ends once,    *)
(* says so once, and neither works nor asks again; and a restart cuts off  *)
(* the runs that worked, and no other.                                     *)
(***************************************************************************)
EXTENDS Naturals

CONSTANTS Runs, Nodes

VARIABLES
  phase,    \* per run: where it stands, or how it ended
  going,    \* a process goes on with it
  told,     \* how often its end was told
  worked,   \* per step: how often its work began
  asked,    \* the steps that ask a person
  up        \* the hub runs

lifeVars == <<phase, going, told, worked, asked, up>>

Alive == {"none", "running", "waiting_approval"}
Over  == {"succeeded", "failed", "cancelled", "interrupted"}

SameEnd(r)  == told'[r] = told[r]
SameWork(r) == worked'[r] = worked[r]

Begins(r) ==
  /\ phase[r] \in Alive /\ phase'[r] = "running"
  /\ going'[r] /\ asked'[r] = {} /\ SameEnd(r)
  /\ \E n \in Nodes : worked[r][n] = 0 /\ worked'[r] = [worked[r] EXCEPT ![n] = 1]

Asks(r) ==
  /\ phase[r] \in Alive /\ phase'[r] = "waiting_approval"
  /\ ~ going'[r] /\ SameEnd(r) /\ SameWork(r)
  /\ \E n \in Nodes : worked[r][n] = 0 /\ asked'[r] = {n}

\* The answer comes when there is nobody to go on as.
Unheard(r) ==
  /\ phase[r] = "waiting_approval" /\ phase'[r] = phase[r]
  /\ ~ going'[r] /\ asked'[r] = {} /\ SameEnd(r) /\ SameWork(r)

\* The end is told, once; nobody goes on, and nobody is asked.
Tells(r) == told[r] = 0 /\ told'[r] = 1 /\ ~ going'[r] /\ asked'[r] = {} /\ SameWork(r)

Ends(r) ==
  /\ phase[r] \in Alive
  /\ phase'[r] \in {"succeeded", "failed"} \/ (phase'[r] = "cancelled" /\ phase[r] # "none")
  /\ Tells(r)

\* A run is deleted: told of as it goes, or as it is, over or with its process.
Goes(r) ==
  /\ phase[r] \notin {"none", "gone"} /\ phase'[r] = "gone"
  /\ \/ phase[r] \in Alive /\ Tells(r)
     \/ /\ phase[r] \in Over \cup {"running"}
        /\ going'[r] = going[r] /\ asked'[r] = asked[r] /\ SameEnd(r) /\ SameWork(r)

ToldLate(r) == phase[r] = "gone" /\ going[r] /\ phase'[r] = phase[r] /\ Tells(r)

Stays(r) ==
  /\ phase'[r] = phase[r] /\ going'[r] = going[r] /\ asked'[r] = asked[r]
  /\ SameEnd(r) /\ SameWork(r)

Work ==
  /\ up /\ up'
  /\ \A r \in Runs :
       Stays(r) \/ Begins(r) \/ Asks(r) \/ Unheard(r) \/ Ends(r) \/ Goes(r) \/ ToldLate(r)

Stop ==
  /\ up /\ ~ up'
  /\ going' = [r \in Runs |-> FALSE]
  /\ UNCHANGED <<phase, told, worked, asked>>

\* The runs that worked are over, and those that wait go on waiting.
Start ==
  /\ ~ up /\ up'
  /\ phase' = [r \in Runs |-> IF phase[r] = "running" THEN "interrupted" ELSE phase[r]]
  /\ UNCHANGED <<going, told, worked, asked>>

Init ==
  /\ phase  = [r \in Runs |-> "none"]
  /\ going  = [r \in Runs |-> FALSE]
  /\ told   = [r \in Runs |-> 0]
  /\ worked = [r \in Runs |-> [n \in Nodes |-> 0]]
  /\ asked  = [r \in Runs |-> {}]
  /\ up = TRUE

Next == Work \/ Stop \/ Start

Spec == Init /\ [][Next]_lifeVars
=============================================================================
