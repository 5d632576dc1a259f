---------------------------- MODULE RunLifecycle -----------------------------
(***************************************************************************)
(* What the sessions module promises of a run, whatever the engine does to *)
(* keep it: the machine of docs/domain/README.md §run, as the code takes   *)
(* it, and one turn at a time in a session.                                *)
(*                                                                         *)
(* One step may move several runs (a restart fails them all, a deletion    *)
(* takes a whole session), each of them along one arrow.                   *)
(***************************************************************************)
CONSTANTS Sessions, Runs, None

VARIABLES
  status,     \* per run: "none" before it is accepted, "gone" once deleted
  home,       \* per run: its session
  closing     \* sessions being deleted

lifecycleVars == <<status, home, closing>>

Working == {"starting", "streaming", "waiting_approval", "waiting_input"}
Ended   == {"succeeded", "failed", "cancelled", "timed_out"}

\* The arrows of the machine.  Beyond the document's: a run still queued fails when its
\* agent is unavailable, refuses it, or the hub restarts, and a turn may end, or ask a
\* person again, before or after anything else it does.
Arrow(from, to, deleting) ==
  \/ from = "none"    /\ to = "queued"
  \/ from = "queued"  /\ to \in {"starting", "failed", "cancelled"}
  \/ from = "starting" /\ to \in (Working \cup Ended)
  \/ from \in Working /\ to \in (Working \ {"starting"}) \cup Ended
  \/ from \in Ended   /\ to = "cancelled" /\ deleting
  \/ from # "none"    /\ to = "gone"

\* One turn at a time in a session.
Serial ==
  \A q, r \in Runs :
    status[q] \in Working /\ status[r] \in Working /\ home[q] = home[r] => q = r

Init ==
  /\ status = [r \in Runs |-> "none"]
  /\ home = [r \in Runs |-> None]
  /\ closing = {}

Next ==
  /\ closing' \subseteq Sessions
  /\ \A r \in Runs :
       /\ status'[r] = status[r] \/ Arrow(status[r], status'[r], home[r] \in closing)
       /\ home'[r] = home[r] \/ home[r] = None
  /\ Serial'

Spec == Init /\ [][Next]_lifecycleVars
=============================================================================
