--------------------------- MODULE ScheduleHistory ---------------------------
(***************************************************************************)
(* What the history of a schedule promises its reader, whatever looks,     *)
(* stops, starts, edits and restarts write it (schedules/service.ts): its  *)
(* lines are written in order, the schedule's own for ever later times and *)
(* none once the limit is reached; a line ends once; and a time is held    *)
(* back only behind a run, and opened only when no run is open.            *)
(***************************************************************************)
EXTENDS Integers, FiniteSets

CONSTANTS None, Lines, RepeatLimit

VARIABLES
  state,        \* per line: none, held, open, or how it ended
  own,          \* it is for a due time of the schedule, not for a person
  time          \* the instant it is for; None: a person's second one

historyVars == <<state, own, time>>

Ended == {"succeeded", "failed", "cancelled"}

In(s)  == {l \in Lines : state[l] = s}
Full   == RepeatLimit # None /\ Cardinality(In("succeeded")) >= RepeatLimit

Moves(l, from, to) == state[l] = from /\ state'[l] = to

OfThePerson(l) == ~ own'[l] /\ state'[l] = "open"

OfTheSchedule(l) ==
  /\ own'[l] /\ time'[l] # None
  /\ ~ Full
  /\ \A k \in Lines : own[k] => time[k] < time'[l]
  /\ \/ state'[l] \in {"open", "skipped"}
     \/ state'[l] = "held" /\ In("open") # {} /\ In("held") = {}

Written(l) ==
  /\ \A k \in Lines : k < l <=> state[k] # "none"
  /\ time'[l] # None => \A k \in Lines : time[k] # time'[l]
  /\ OfThePerson(l) \/ OfTheSchedule(l)
  /\ \A k \in Lines \ {l} : state'[k] = state[k] /\ own'[k] = own[k] /\ time'[k] = time[k]

Ends(l)   == \E s \in Ended : Moves(l, "open", s)
Passed(l) == Moves(l, "held", "skipped")
Opened(l) == Moves(l, "held", "open") /\ \A k \in Lines : state'[k] = "open" => k = l

\* Lines end together, and the one held back is opened, or given up, with them.
Goes(l) ==
  /\ own'[l] = own[l] /\ time'[l] = time[l]
  /\ state'[l] = state[l] \/ Ends(l) \/ Passed(l) \/ Opened(l)

Init ==
  /\ state = [l \in Lines |-> "none"]
  /\ own   = [l \in Lines |-> FALSE]
  /\ time  = [l \in Lines |-> None]

Next == (\E l \in Lines : Written(l)) \/ (\A l \in Lines : Goes(l))

Spec == Init /\ [][Next]_historyVars
=============================================================================
