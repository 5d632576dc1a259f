------------------------------- MODULE RoomTurns -------------------------------
(***************************************************************************)
(* The agents' turns in a room and the chains of handoffs they make        *)
(* (packages/server/src/modules/rooms: conductor.ts, the guard of          *)
(* context.ts, the routes of index.ts).                                    *)
(*                                                                         *)
(* A turn awaits the start of its run, then its reply is open in the room  *)
(* until the run ends.  A finished reply that mentions another seat passes *)
(* the turn to it: a chain, which ends when a reply mentions nobody and is *)
(* stopped by the guard, by a person or by a restart.  A person may let a  *)
(* stopped chain go one more round, while turns of before are still going. *)
(***************************************************************************)
EXTENDS Integers, FiniteSets

CONSTANTS
  None,         \* no seat, no chain, no cap
  Seats,        \* the seats of the room
  Caps,         \* the depths people give the room (handoffMaxDepth); None: no cap
  MaxTurns,     \* bound: turns
  MaxPosts,     \* bound: turns people ask for
  MaxChains,    \* bound: chains
  MaxEdits,     \* bound: what people change of the room
  MaxRestarts   \* bound: restarts of the hub

Turns  == 1..MaxTurns
Chains == 1..MaxChains

ASSUME NoneAssumption == None \notin Seats \cup Int
ASSUME CapsAssumption == Caps \subseteq (Nat \ {0}) \cup {None}
ASSUME BoundsAssumption == {MaxTurns, MaxPosts, MaxChains, MaxEdits, MaxRestarts} \subseteq Nat

VARIABLES
  room,       \* its handoff rules
  seat,       \* per seat: in the room, or left it (the row stays)
  turn,       \* per turn: its start, its run, its reply
  chain,      \* per chain: its row
  held,       \* Conductor.runs: the turns this process follows
  edits, restarts

vars == <<room, seat, turn, chain, held, edits, restarts>>

Ends == {"succeeded", "failed", "cancelled"}

TurnType ==
  [state : {"none", "asked", "live", "ended", "settled"},
                                  \* "asked": port.start awaited; "ended": finish has not run
   seat  : Seats \cup {None},
   from  : Seats \cup {None},     \* the seat whose reply passed the turn (replyToId)
   chain : Chains \cup {None},
   end   : Ends \cup {None},       \* until finish has seen it
   reply : {"none", "streaming", "complete", "interrupted", "failed"}]

ChainType ==
  [status  : {"none", "active", "stopped", "completed", "failed"},
   reason  : {"none", "max_depth", "loop_detected", "interrupted", "error"},
   from    : Seats \cup {None},
   to      : Seats \cup {None},
   depth   : Nat,
   cap     : Nat \cup {None},
   used    : BOOLEAN,                   \* continueUsed
   visited : SUBSET (Seats \X Seats)]

NoTurn  == [state |-> "none", seat |-> None, from |-> None, chain |-> None, end |-> None,
            reply |-> "none"]
NoChain == [status |-> "none", reason |-> "none", from |-> None, to |-> None, depth |-> 0,
            cap |-> None, used |-> FALSE, visited |-> {}]

TypeOK ==
  /\ room  \in [handoffs : BOOLEAN, cap : Caps]
  /\ seat  \in [Seats -> {"in", "left"}]
  /\ turn  \in [Turns -> TurnType]
  /\ chain \in [Chains -> ChainType]
  /\ held  \in SUBSET Turns
  /\ edits \in Nat /\ restarts \in Nat

Init ==
  /\ room  \in [handoffs : BOOLEAN, cap : Caps]
  /\ seat  = [s \in Seats |-> "in"]
  /\ turn  = [t \in Turns |-> NoTurn]
  /\ chain = [c \in Chains |-> NoChain]
  /\ held  = {}
  /\ edits = 0 /\ restarts = 0

-----------------------------------------------------------------------------
(* Turns and chains are numbered as they come.                               *)
FreshTurn(t)  == t \in Turns /\ turn[t] = NoTurn /\ \A u \in 1..(t - 1) : turn[u] # NoTurn
FreshChain(c) == c \in Chains /\ chain[c] = NoChain /\ \A d \in 1..(c - 1) : chain[d] # NoChain

\* startTurn up to its await.
Asked(s, from, c) == [NoTurn EXCEPT !.state = "asked", !.seat = s, !.from = from, !.chain = c]

Active(c) == c # None /\ chain[c].status = "active"

\* stopChain, endChain.
Ended(C, status, reason) == [C EXCEPT !.status = status, !.reason = reason]

JudgeDeeper(C, from, to, once) ==
  IF once THEN "go"
  ELSE IF <<from, to>> \in C.visited THEN "loop_detected"
  ELSE IF C.cap # None /\ C.depth > C.cap THEN "max_depth" ELSE "go"

\* judgeHandoff: the same pass twice is a loop, more than `cap` passes are too deep.
Judge(C, from, to, once) ==
  IF once THEN "go"
  ELSE IF <<from, to>> \in C.visited THEN "loop_detected"
  ELSE IF C.cap # None /\ C.depth + 1 > C.cap THEN "max_depth" ELSE "go"

\* The chain after one more pass.
Passed(C, from, to) ==
  [C EXCEPT !.from = from, !.to = to, !.depth = @ + 1, !.visited = @ \cup {<<from, to>>}]

-----------------------------------------------------------------------------
\* A person's message to a seat (postMessage, dispatch for one of its targets).
Post(t, s) ==
  /\ FreshTurn(t)
  /\ Cardinality({u \in 1..(t - 1) : turn[u].chain = None}) < MaxPosts
  /\ seat[s] = "in"
  /\ turn' = [turn EXCEPT ![t] = Asked(s, None, None)]
  /\ UNCHANGED <<room, seat, chain, held, edits, restarts>>

\* startTurn after its await: the reply is open and the run is followed.
Started(t) ==
  /\ turn[t].state = "asked"
  /\ turn' = [turn EXCEPT ![t].state = "live", ![t].reply = "streaming"]
  /\ held' = held \cup {t}
  /\ UNCHANGED <<room, seat, chain, edits, restarts>>

\* dispatch, the seat could not take its turn: a failed reply says so, and the chain failed.
StartFails(t) ==
  /\ turn[t].state = "asked"
  /\ turn' = [turn EXCEPT ![t].state = "settled", ![t].reply = "failed"]
  /\ chain' = [c \in Chains |-> IF c = turn[t].chain THEN Ended(chain[c], "failed", "error")
                                                      ELSE chain[c]]
  /\ UNCHANGED <<room, seat, held, edits, restarts>>

\* The run of a turn ends in sessions; a person who stops the seat cancels it.
RunEnds(t, end) ==
  /\ turn[t].state = "live"
  /\ turn' = [turn EXCEPT ![t].state = "ended", ![t].end = end]
  /\ UNCHANGED <<room, seat, chain, held, edits, restarts>>

Reply(end) == CASE end = "succeeded" -> "complete"
                [] end = "cancelled" -> "interrupted"
                [] end = "failed"    -> "failed"

\* finish: the reply holds the agent's words, or says how it ended.
Closed(t) ==
  [turn EXCEPT ![t].state = "settled", ![t].end = None, ![t].reply = Reply(turn[t].end)]

EndsChainIfItGotThere(t) ==
  IF Active(turn[t].chain) /\ turn[t].end # "failed"
  THEN [chain EXCEPT ![turn[t].chain] =
          Ended(@, IF turn[t].end = "succeeded" THEN "completed" ELSE "stopped", "interrupted")]
  ELSE chain

\* afterReply of a turn that passes nothing on: its chain, while it is active, ends.
EndsChain(t) ==
  LET c      == turn[t].chain
      status == CASE turn[t].end = "succeeded" -> "completed"
                  [] turn[t].end = "cancelled" -> "stopped"
                  [] turn[t].end = "failed"    -> "failed"
      reason == CASE turn[t].end = "succeeded" -> "none"
                  [] turn[t].end = "cancelled" -> "interrupted"
                  [] turn[t].end = "failed"    -> "error"
  IN  IF Active(c) THEN [chain EXCEPT ![c] = Ended(@, status, reason)] ELSE chain

Finishes(t) ==
  /\ turn[t].state = "ended" /\ t \in held
  /\ held' = held \ {t}
  /\ UNCHANGED <<room, seat, edits, restarts>>

\* It failed, was stopped, mentions nobody, handoffs are off, or its chain is over.
FinishQuietly(t) ==
  /\ Finishes(t)
  /\ turn' = Closed(t)
  /\ chain' = EndsChain(t)

MentionsAnyway(t, s) ==
  /\ turn[t].end = "succeeded" /\ room.handoffs
  /\ seat[s] = "in" /\ s # turn[t].seat

\* A seat in the room that the reply mentions, of a turn whose chain may still go on.
Mentions(t, s) ==
  /\ turn[t].end = "succeeded" /\ room.handoffs
  /\ seat[s] = "in" /\ s # turn[t].seat
  /\ turn[t].chain = None \/ Active(turn[t].chain)

\* The first pass from a turn a person started.
FinishOpensChain(t, s, c, next) ==
  /\ Finishes(t)
  /\ Mentions(t, s) /\ turn[t].chain = None
  /\ FreshChain(c) /\ FreshTurn(next)
  /\ turn' = [Closed(t) EXCEPT ![next] = Asked(s, turn[t].seat, c)]
  /\ chain' = [chain EXCEPT ![c] = [Passed(NoChain, turn[t].seat, s)
                                      EXCEPT !.status = "active", !.cap = room.cap]]

\* One more pass of the chain that carried the turn, or the guard stops it.
FinishPasses(t, s, next) ==
  LET c       == turn[t].chain
      verdict == Judge(chain[c], turn[t].seat, s, FALSE)
  IN
  /\ Finishes(t)
  /\ Mentions(t, s) /\ c # None
  /\ \/ /\ verdict = "go"
        /\ FreshTurn(next)
        /\ turn' = [Closed(t) EXCEPT ![next] = Asked(s, turn[t].seat, c)]
        /\ chain' = [chain EXCEPT ![c] = Passed(@, turn[t].seat, s)]
     \/ /\ verdict # "go"
        /\ turn' = Closed(t)
        /\ chain' = [chain EXCEPT ![c] = [Ended(@, "stopped", verdict)
                                            EXCEPT !.from = turn[t].seat, !.to = s]]

\* continueChain: the pass the chain stopped at goes through the guard, once.
Continue(c, next) ==
  LET passed == Passed(chain[c], chain[c].from, chain[c].to)
      cap    == IF passed.cap # None /\ passed.cap < passed.depth THEN passed.depth ELSE passed.cap
  IN
  /\ chain[c].status = "stopped" /\ ~ chain[c].used
  /\ seat[chain[c].to] = "in"
  /\ FreshTurn(next)
  /\ turn' = [turn EXCEPT ![next] = Asked(chain[c].to, chain[c].from, c)]
  /\ chain' = [chain EXCEPT ![c] = [passed EXCEPT !.status = "active", !.reason = "none",
                                                  !.used = TRUE, !.cap = cap]]
  /\ UNCHANGED <<room, seat, held, edits, restarts>>

-----------------------------------------------------------------------------
Edits == edits < MaxEdits /\ edits' = edits + 1

StoppedOf(s) ==
  [c \in Chains |-> IF Active(c) /\ s \in {chain[c].from, chain[c].to}
                    THEN Ended(chain[c], "stopped", "interrupted") ELSE chain[c]]

\* stopSeat, when its cancels are answered: the chains the seat is in are stopped. The runs it
\* cancelled end on their own; a turn that still awaits its start is not among them.
StopSeat(s) ==
  /\ Edits /\ seat[s] = "in"
  /\ chain' = StoppedOf(s)
  /\ UNCHANGED <<room, seat, turn, held, restarts>>

\* removeSeat: stopped, and gone from the room.
RemoveSeat(s) ==
  /\ Edits /\ seat[s] = "in"
  /\ chain' = StoppedOf(s)
  /\ seat' = [seat EXCEPT ![s] = "left"]
  /\ UNCHANGED <<room, turn, held, restarts>>

\* rooms.update: the handoff rules, for the chains that come.
SetRules(on, cap) ==
  /\ Edits
  /\ room' = [handoffs |-> on, cap |-> cap]
  /\ UNCHANGED <<seat, turn, chain, held, restarts>>

SettledByOutcome(T) ==
  CASE T.state = "none"  -> T
    [] T.state = "ended" -> [T EXCEPT !.state = "settled", !.end = None,
                                      !.reply = IF T.end = "succeeded" THEN "complete"
                                                                       ELSE "interrupted"]
    [] OTHER             -> [T EXCEPT !.state = "settled", !.end = None]

\* settle: a reply left streaming is closed with how its run stands.
Settled(T) ==
  IF T.state = "none" THEN T
  ELSE [T EXCEPT !.state = "settled", !.end = None,
                 !.reply = IF @ # "streaming" THEN @
                           ELSE IF T.end = "succeeded" THEN "complete" ELSE "interrupted"]

\* A restart: the open replies are settled, an active chain is stopped, and the turns that
\* awaited their start are forgotten.
Restart ==
  /\ restarts < MaxRestarts
  /\ restarts' = restarts + 1
  /\ held' = {}
  /\ turn' = [t \in Turns |-> Settled(turn[t])]
  /\ chain' = [c \in Chains |-> IF Active(c) THEN Ended(chain[c], "stopped", "interrupted")
                                             ELSE chain[c]]
  /\ UNCHANGED <<room, seat, edits>>

People ==
  \/ \E t \in Turns, s \in Seats : Post(t, s)
  \/ \E c \in Chains, t \in Turns : Continue(c, t)
  \/ \E s \in Seats : StopSeat(s) \/ RemoveSeat(s)
  \/ \E on \in BOOLEAN, cap \in Caps : SetRules(on, cap)

Finish(t) ==
  \/ FinishQuietly(t)
  \/ \E s \in Seats, c \in Chains, next \in Turns : FinishOpensChain(t, s, c, next)
  \/ \E s \in Seats, next \in Turns : FinishPasses(t, s, next)

Start(t) == Started(t) \/ StartFails(t)
Run(t)   == \E end \in Ends : RunEnds(t, end)

Next ==
  \/ People
  \/ \E t \in Turns : Start(t) \/ Run(t) \/ Finish(t)
  \/ Restart

Spec == Init /\ [][Next]_vars

-----------------------------------------------------------------------------
Carries(t, c) == turn[t].chain = c /\ turn[t].state \in {"asked", "live", "ended"}
Passes(c)     == {t \in Turns : turn[t].chain = c}
Pairs(c)      == {<<turn[t].from, turn[t].seat>> : t \in Passes(c)}

\* An active chain has somebody to carry it on: a turn that will end, pass or stop it. None is
\* left active with nobody, whatever people stop and continue while turns go on.
ActiveIsCarried == \A c \in Chains : Active(c) => \E t \in Turns : Carries(t, c)

\* The agents pass a turn no more often than the room's depth allows and never the same way
\* twice, but for the one pass a person lets through, though two turns may carry one chain.
ChainIsBounded ==
  \A c \in Chains :
    /\ chain[c].cap # None => Cardinality(Passes(c)) <= chain[c].cap
    /\ Cardinality(Passes(c)) <= Cardinality(Pairs(c)) + IF chain[c].used THEN 1 ELSE 0

\* A reply is open only while this process follows its run: nothing streams for ever.
OpenReplyIsHeld == \A t \in Turns : turn[t].reply = "streaming" => t \in held

\* What the room shows of its turns and chains, whatever it still awaits.
Room == INSTANCE Handoffs WITH
  reply  <- [t \in Turns |-> turn[t].reply],
  pass   <- [t \in Turns |-> <<turn[t].from, turn[t].seat>>],
  on     <- [t \in Turns |-> turn[t].chain],
  stands <- [c \in Chains |-> chain[c].status],
  cap    <- [c \in Chains |-> chain[c].cap],
  lifted <- [c \in Chains |-> chain[c].used]

\* The room keeps what Handoffs promises (conductor.ts, context.ts): an agent's turn comes of
\* one reply that mentions it, let through by the guard as the chain then stands, or of one
\* continuation by a person; a chain ends for a cause, and each reply is closed once.
KeepsHandoffs == Room!Spec
=============================================================================
