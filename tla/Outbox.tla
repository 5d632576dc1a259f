-------------------------------- MODULE Outbox --------------------------------
(***************************************************************************)
(* What the webhook queue promises of a delivery, whatever timers, leases, *)
(* batches, edits and restarts do to keep it (notify/webhook-queue.ts, "a  *)
(* restart loses nothing"): once accepted it is posted again and again     *)
(* until one try of it arrives or it is given up; each try is counted at   *)
(* most once, and what is over is left alone.  The rows of a webhook go    *)
(* together, and none comes after.                                         *)
(*                                                                         *)
(* One step may move several deliveries (a tick, a deletion), each of them *)
(* in one of these ways.                                                   *)
(***************************************************************************)
EXTENDS Naturals

CONSTANTS None, Hooks, Deliveries

VARIABLES
  state,      \* per delivery: none, waiting, arrived, abandoned, deleted
  of,         \* its webhook
  sent,       \* how often the endpoint was sent it
  tries       \* how many tries of it were counted

outboxVars == <<state, of, sent, tries>>

Moves(d, from, to)   == state[d] = from /\ state'[d] = to
Counts(d, s, n)      == sent'[d] = sent[d] + s /\ tries'[d] = tries[d] + n

\* An event is for the webhook; a test is sent at once.
Accepted(d) ==
  /\ Moves(d, "none", "waiting")
  /\ Counts(d, 0, 0) \/ Counts(d, 1, 0)
  /\ of'[d] \in Hooks

Posted(d)    == Moves(d, "waiting", "waiting") /\ Counts(d, 1, 0)
Retried(d)   == Moves(d, "waiting", "waiting") /\ Counts(d, 0, 1)
Arrived(d)   == Moves(d, "waiting", "arrived") /\ Counts(d, 0, 1) /\ sent[d] > 0
Abandoned(d) == Moves(d, "waiting", "abandoned") /\ Counts(d, 0, 1)

Deleted(d) ==
  /\ \E from \in {"waiting", "arrived", "abandoned"} : Moves(d, from, "deleted")
  /\ Counts(d, 0, 0)

Same(d) == state'[d] = state[d] /\ Counts(d, 0, 0)

\* A webhook that is deleted has no row left, and is given none.
GoneWithHook ==
  \A d, e \in Deliveries :
    of[d] # None /\ of[d] = of[e] /\ state[d] = "deleted" => state[e] = "deleted"

Init ==
  /\ state = [d \in Deliveries |-> "none"]
  /\ of    = [d \in Deliveries |-> None]
  /\ sent  = [d \in Deliveries |-> 0]
  /\ tries = [d \in Deliveries |-> 0]

Next ==
  /\ \A d \in Deliveries :
       \/ Accepted(d)
       \/ /\ Same(d) \/ Posted(d) \/ Retried(d) \/ Arrived(d) \/ Abandoned(d) \/ Deleted(d)
          /\ of'[d] = of[d]
  /\ GoneWithHook'

Spec == Init /\ [][Next]_outboxVars
===============================================================================
