----------------------------- MODULE Settlement -----------------------------
(***************************************************************************)
(* What asking a device promises, whatever timers, readers, cancellations  *)
(* and restarts settle it (devices/requests.ts, audit/jobs.ts): a request  *)
(* ends once, as the device said in time or as nobody said in time, and    *)
(* whoever waits for it learns that end once, and no other, unless a       *)
(* restart took the waiting away.                                          *)
(***************************************************************************)
EXTENDS Naturals

CONSTANTS
  Functions,    \* the jobs: each waits for something, and learns how it ended
  Requests      \* those that wait for a device

VARIABLES
  fate,         \* per request: none, pending, or how it ended
  learned,      \* per job: none, waiting, cut, or how it ended
  late,         \* the requests whose time has come
  stopped,      \* the jobs somebody asked to stop
  paired        \* there is a device to ask

settlementVars == <<fate, learned, late, stopped, paired>>

Answers == {"fulfilled", "denied", "failed"}

Turns(r, from, to)  == fate[r] = from /\ fate'[r] = to
Learns(j, from, to) == learned[j] = from /\ learned'[j] = to

\* The hub itself may refuse what the device was not set up for.
Asked(r) ==
  /\ paired
  /\ \E to \in {"pending", "denied", "failed"} : Turns(r, "none", to)
  /\ Learns(r, "none", "waiting")

Answered(r)  == (\E to \in Answers : Turns(r, "pending", to)) /\ paired /\ r \notin late
Expired(r)   == Turns(r, "pending", "expired") /\ r \in late
Withdrawn(r) == Turns(r, "pending", "cancelled") /\ r \in stopped /\ learned[r] = "waiting"

Started(j) == Learns(j, "none", "waiting") /\ j \notin Requests
Cut(j)     == Learns(j, "waiting", "cut")

\* The job says what became of the request, or that it was asked to stop: then it is no
\* success, though the device did what it was asked (jobs.ts, start).
Heard(r) ==
  \/ Learns(r, "waiting", "succeeded") /\ fate[r] = "fulfilled" /\ r \notin stopped
  \/ Learns(r, "waiting", "failed")    /\ fate[r] \in {"denied", "failed", "expired"}
  \/ Learns(r, "waiting", "cancelled") /\ fate[r] \in {"fulfilled", "cancelled"} /\ r \in stopped

Ended(j) ==
  \/ Learns(j, "waiting", "succeeded") /\ j \notin stopped
  \/ Learns(j, "waiting", "failed")
  \/ Learns(j, "waiting", "cancelled") /\ j \in stopped

Init ==
  /\ fate    = [r \in Requests |-> "none"]
  /\ learned = [j \in Functions |-> "none"]
  /\ late = {} /\ stopped = {} /\ paired = TRUE

Next ==
  /\ \A r \in Requests :
       fate'[r] = fate[r] \/ Asked(r) \/ Answered(r) \/ Expired(r) \/ Withdrawn(r)
  /\ \A j \in Functions :
       \/ learned'[j] = learned[j]
       \/ Started(j) \/ Cut(j)
       \/ IF j \in Requests THEN Asked(j) \/ Heard(j) ELSE Ended(j)
  /\ late \subseteq late' /\ stopped \subseteq stopped'

Spec == Init /\ [][Next]_settlementVars
=============================================================================
