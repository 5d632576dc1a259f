------------------------------ MODULE Handoffs ------------------------------
(***************************************************************************)
(* What a room promises of the turns its agents pass on (rooms/context.ts, *)
(* conductor.ts), whatever people stop, continue and change meanwhile: a   *)
(* reply is opened and closed once; an agent passes the turn with a reply  *)
(* that is complete, on a chain that is active, the way it was not passed  *)
(* before and no oftener than the depth; a chain ends for a cause; and a   *)
(* person lets a stopped one go on once.                                   *)
(***************************************************************************)
EXTENDS Integers, FiniteSets

CONSTANTS None, Seats, Turns, Chains

VARIABLES
  reply,    \* per turn: its reply in the room
  pass,     \* per turn: the seat that passed it on and the seat it came to
  on,       \* per turn: the chain that made it
  stands,   \* per chain: none, active, or how it ended
  cap,      \* per chain: how many passes it may make
  lifted    \* per chain: a person let it go on

handoffVars == <<reply, pass, on, stands, cap, lifted>>

Absent == <<None, None>>

Of(c)   == {t \in Turns : on[t] = c}
More(c) == Cardinality(Of(c)) + 1

Says(t, from, to)  == reply[t] = from /\ reply'[t] = to
Stand(c, from, to) == stands[c] = from /\ stands'[c] = to
SameRules(c)       == cap'[c] = cap[c] /\ lifted'[c] = lifted[c]

\* A reply is opened, or could not be; an open one is closed.
Speaks(t) ==
  \/ reply'[t] = reply[t]
  \/ Says(t, "none", "streaming") \/ Says(t, "none", "failed")
  \/ \E how \in {"complete", "interrupted", "failed"} : Says(t, "streaming", how)

\* A chain completes with the reply that passes nothing on, and fails with one that failed.
Ends(c) ==
  /\ SameRules(c)
  /\ \/ Stand(c, "active", "stopped")
     \/ Stand(c, "active", "completed") /\ \E t \in Of(c) : Says(t, "streaming", "complete")
     \/ /\ stands[c] # "none" /\ stands'[c] = "failed"
        /\ \E t \in Of(c) : reply[t] # "failed" /\ reply'[t] = "failed"

Stays(c) == stands'[c] = stands[c] /\ SameRules(c)

\* No turn comes: chains end, or stay.
Rests == UNCHANGED <<pass, on>> /\ \A c \in Chains : Stays(c) \/ Ends(c)

Comes(t, c) ==
  /\ pass[t] = Absent /\ on'[t] = c
  /\ \A u \in Turns \ {t} : pass'[u] = pass[u] /\ on'[u] = on[u]

\* The turn a person asks for.
Asked(t) ==
  /\ Comes(t, None)
  /\ \E s \in Seats : pass'[t] = <<None, s>>
  /\ \A c \in Chains : Stays(c)

\* The reply of turn `u` passes the turn on to another seat.
PassedBy(u, t) ==
  /\ Says(u, "streaming", "complete")
  /\ \E s \in Seats : s # pass[u][2] /\ pass'[t] = <<pass[u][2], s>>

Opens(t, c) ==
  /\ Stand(c, "none", "active") /\ Of(c) = {} /\ ~ lifted'[c]
  /\ \E u \in Of(None) : PassedBy(u, t)

GoesOn(t, c) ==
  /\ Stand(c, "active", "active") /\ SameRules(c)
  /\ \E u \in Of(c) : PassedBy(u, t)
  /\ \A u \in Of(c) : pass[u] # pass'[t]
  /\ cap[c] # None => More(c) <= cap[c]

LetGo(t, c) ==
  /\ Stand(c, "stopped", "active")
  /\ ~ lifted[c] /\ lifted'[c]
  /\ pass'[t] \in Seats \X Seats
  /\ cap'[c] = IF cap[c] # None /\ cap[c] < More(c) THEN More(c) ELSE cap[c]

Passed(t, c) ==
  /\ Comes(t, c)
  /\ Opens(t, c) \/ GoesOn(t, c) \/ LetGo(t, c)
  /\ \A d \in Chains \ {c} : Stays(d)

Init ==
  /\ reply  = [t \in Turns |-> "none"]
  /\ pass   = [t \in Turns |-> Absent]
  /\ on     = [t \in Turns |-> None]
  /\ stands = [c \in Chains |-> "none"]
  /\ cap    = [c \in Chains |-> None]
  /\ lifted = [c \in Chains |-> FALSE]

Next ==
  /\ \A t \in Turns : Speaks(t)
  /\ Rests \/ (\E t \in Turns : Asked(t)) \/ (\E t \in Turns, c \in Chains : Passed(t, c))

Spec == Init /\ [][Next]_handoffVars
=============================================================================
