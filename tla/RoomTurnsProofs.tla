---------------------------- MODULE RoomTurnsProofs ----------------------------
(***************************************************************************)
(* The turns and chains of a room, for any seats, caps and bounds: IInv is *)
(* kept by every step, and the properties of RoomTurns follow from it.     *)
(*                                                                         *)
(* A chain's row keeps the depth and the pairs that the guard judges by;   *)
(* IInv says that they are the turns the chain made.  Two lemmas carry     *)
(* this: a step that passes no turn on (NothingPassed) and one that does   *)
(* (OnePassed).  Each lemma of an action shows, with IInv', that the step  *)
(* is one of Handoffs: the guard's answer, in the row, is then a fact of   *)
(* the turns, which is why the refinement needs IInv.                      *)
(***************************************************************************)
EXTENDS RoomTurns, FiniteSetTheorems, TLAPS

\* A turn that is asked for has its seat, a chain the seats of its last pass.
SeatsKnown ==
  /\ \A t \in Turns  : turn[t].state # "none" => turn[t].seat \in Seats
  /\ \A c \in Chains : chain[c].status # "none" => chain[c].from \in Seats /\ chain[c].to \in Seats

\* A run that ended has its end until `finish` has seen it; a reply is open from the start of its
\* turn's run until then.
EndsKnown ==
  \A t \in Turns : /\ turn[t].state = "ended" => turn[t].end \in Ends
                   /\ turn[t].reply = "streaming" <=> turn[t].state \in {"live", "ended"}
                   /\ turn[t].state \in {"none", "asked"} => turn[t].reply = "none"

\* A turn that a chain made was asked for, and the chain was begun.
ChainsKnown ==
  \A t \in Turns : turn[t].chain # None =>
    turn[t].state # "none" /\ chain[turn[t].chain].status # "none"

\* The row of a chain counts its passes, and knows their pairs.
RowKnowsPasses ==
  \A c \in Chains :
    /\ chain[c].depth = Cardinality(Passes(c))
    /\ chain[c].visited = Pairs(c)
    /\ IsFiniteSet(chain[c].visited)

\* What the guard lets through.
DepthHolds ==
  \A c \in Chains :
    /\ chain[c].cap # None => chain[c].depth <= chain[c].cap
    /\ chain[c].depth <= Cardinality(chain[c].visited) + IF chain[c].used THEN 1 ELSE 0

IInv ==
  /\ TypeOK /\ SeatsKnown /\ EndsKnown /\ ChainsKnown /\ RowKnowsPasses /\ DepthHolds
  /\ ActiveIsCarried /\ OpenReplyIsHeld

USE DEF Turns, Chains, Ends

LEMMA NothingIsNew ==
  /\ None \notin Seats /\ None \notin Int /\ Caps \subseteq Nat \cup {None}
  /\ \A c \in Chains : c # None
<1>1. None \notin Seats /\ None \notin Int /\ Caps \subseteq Nat \cup {None}
  BY NoneAssumption, CapsAssumption
<1>2. \A c \in Chains : c \in Int
  BY BoundsAssumption
<1> QED BY <1>1, <1>2, Zenon

\* The turns a chain made are finitely many.
LEMMA PassesFinite ==
  \A c \in Chains : IsFiniteSet(Passes(c)) /\ Cardinality(Passes(c)) \in Nat
<1> SUFFICES ASSUME NEW c \in Chains
             PROVE  IsFiniteSet(Passes(c)) /\ Cardinality(Passes(c)) \in Nat
  OBVIOUS
<1>1. IsFiniteSet(1..MaxTurns)
  BY FS_Interval, BoundsAssumption
<1>2. Passes(c) \in SUBSET (1..MaxTurns)
  BY DEF Passes
<1> QED BY <1>1, <1>2, FS_Subset, FS_CardinalityType

\* The pass that a turn is: from a seat, to a seat.
Pair(t) == <<turn[t].from, turn[t].seat>>

\* A step that passes no turn on leaves the passes of every chain, and what its row knows.
LEMMA NothingPassed ==
  ASSUME IInv,
         \A t \in Turns : /\ turn'[t].chain = turn[t].chain
                          /\ turn[t].chain # None => /\ turn'[t].seat = turn[t].seat
                                                     /\ turn'[t].from = turn[t].from,
         \A c \in Chains : /\ chain'[c].depth = chain[c].depth /\ chain'[c].cap = chain[c].cap
                           /\ chain'[c].visited = chain[c].visited
                           /\ chain'[c].used = chain[c].used
  PROVE  RowKnowsPasses' /\ DepthHolds'
<1>1. \A c \in Chains : Passes(c)' = Passes(c) /\ Pairs(c)' = Pairs(c)
  BY NothingIsNew DEF Passes, Pairs
<1> QED BY <1>1 DEF IInv, RowKnowsPasses, DepthHolds

\* A step that passes one turn, from a seat to a seat, on a chain whose row takes it down.
LEMMA OnePassed ==
  ASSUME IInv, NEW c \in Chains, NEW next \in Turns,
         turn[next].chain = None, turn'[next].chain = c,
         \A t \in Turns \ {next} : turn'[t].chain = turn[t].chain
                                   /\ turn'[t].seat = turn[t].seat /\ turn'[t].from = turn[t].from,
         chain'[c].depth = chain[c].depth + 1,
         chain'[c].visited = chain[c].visited \cup {Pair(next)'},
         \A d \in Chains \ {c} : chain'[d] = chain[d]
  PROVE  /\ RowKnowsPasses'
         /\ Cardinality(chain[c].visited) \in Nat
         /\ Cardinality(chain'[c].visited) >= Cardinality(chain[c].visited)
         /\ Pair(next)' \notin chain[c].visited =>
              Cardinality(chain'[c].visited) = Cardinality(chain[c].visited) + 1
<1>1. Passes(c)' = Passes(c) \cup {next} /\ next \notin Passes(c)
  BY NothingIsNew DEF Passes
<1>2. Cardinality(Passes(c)') = Cardinality(Passes(c)) + 1
  BY ZenonT(30), <1>1, PassesFinite, FS_AddElement
<1>3. Pairs(c)' = Pairs(c) \cup {Pair(next)'}
  <2>1. Pairs(c)' = {<<turn'[t].from, turn'[t].seat>> : t \in Passes(c) \cup {next}}
    BY <1>1 DEF Pairs
  <2>2. \A t \in Passes(c) : turn'[t].from = turn[t].from /\ turn'[t].seat = turn[t].seat
    BY <1>1 DEF Passes
  <2> QED BY <2>1, <2>2 DEF Pairs, Pair
<1>4. \A d \in Chains \ {c} : Passes(d)' = Passes(d) /\ Pairs(d)' = Pairs(d)
  <2> SUFFICES ASSUME NEW d \in Chains \ {c}
               PROVE  Passes(d)' = Passes(d) /\ Pairs(d)' = Pairs(d)
    OBVIOUS
  <2>1. Passes(d)' = Passes(d) /\ next \notin Passes(d)
    BY NothingIsNew DEF Passes
  <2>2. \A t \in Passes(d) : turn'[t].from = turn[t].from /\ turn'[t].seat = turn[t].seat
    BY <2>1 DEF Passes
  <2> QED BY <2>1, <2>2 DEF Pairs
<1>5. /\ chain[c].depth = Cardinality(Passes(c)) /\ chain[c].visited = Pairs(c)
      /\ IsFiniteSet(chain[c].visited)
  BY DEF IInv, RowKnowsPasses
<1>6. /\ IsFiniteSet(chain'[c].visited) /\ Cardinality(chain[c].visited) \in Nat
      /\ Cardinality(chain'[c].visited) = IF Pair(next)' \in chain[c].visited
           THEN Cardinality(chain[c].visited) ELSE Cardinality(chain[c].visited) + 1
  <2>1. \A S, x : IsFiniteSet(S) =>
          /\ IsFiniteSet(S \cup {x}) /\ Cardinality(S) \in Nat
          /\ Cardinality(S \cup {x}) = IF x \in S THEN Cardinality(S) ELSE Cardinality(S) + 1
    BY FS_AddElement, FS_CardinalityType
  <2> DEFINE V == chain[c].visited
             p == Pair(next)'
  <2>2. IsFiniteSet(V) /\ chain'[c].visited = V \cup {p}
    BY <1>5
  <2> HIDE DEF V, p
  <2>3. /\ IsFiniteSet(chain'[c].visited) /\ Cardinality(V) \in Nat
        /\ Cardinality(chain'[c].visited) = IF p \in V THEN Cardinality(V) ELSE Cardinality(V) + 1
    <3>1. IsFiniteSet(V)
      BY <2>2
    <3>2. /\ IsFiniteSet(V \cup {p}) /\ Cardinality(V) \in Nat
          /\ Cardinality(V \cup {p}) = IF p \in V THEN Cardinality(V) ELSE Cardinality(V) + 1
      BY <2>1, <3>1
    <3> QED BY <2>2, <3>2, Zenon
  <2> QED BY <2>3 DEF V, p
<1>7. RowKnowsPasses'
  BY ZenonT(30), <1>2, <1>3, <1>4, <1>5, <1>6 DEF IInv, RowKnowsPasses
<1> QED BY <1>6, <1>7

-----------------------------------------------------------------------------
(* What a step is to Handoffs: no turn comes (Resting), or one does          *)
(* (Coming). RoomReads says what the operators of Handoffs say of the rows.   *)

Kept(t) == /\ turn'[t].chain = turn[t].chain /\ turn'[t].seat = turn[t].seat
           /\ turn'[t].from = turn[t].from

LEMMA RoomReads ==
  /\ \A t \in Turns : \A a, b : Room!Says(t, a, b) <=> turn[t].reply = a /\ turn'[t].reply = b
  /\ \A t \in Turns :
       \/ turn'[t].reply = turn[t].reply
       \/ turn[t].reply = "none" /\ turn'[t].reply \in {"streaming", "failed"}
       \/ turn[t].reply = "streaming" /\ turn'[t].reply \in {"complete", "interrupted", "failed"}
       => Room!Speaks(t)
  /\ \A c \in Chains : \A a, b : Room!Stand(c, a, b) <=> chain[c].status = a /\ chain'[c].status = b
  /\ \A c \in Chains : Room!SameRules(c) <=> chain'[c].cap = chain[c].cap
                                            /\ chain'[c].used = chain[c].used
  /\ \A c \in Chains : Room!Stays(c) <=> /\ chain'[c].status = chain[c].status
                                        /\ chain'[c].cap = chain[c].cap
                                        /\ chain'[c].used = chain[c].used
  /\ \A c : Room!Of(c) = {t \in Turns : turn[t].chain = c}
  /\ \A c \in Chains : Room!Of(c) = Passes(c) /\ Room!More(c) = Cardinality(Passes(c)) + 1
<1>1. \A t \in Turns : \A a, b : Room!Says(t, a, b) <=> turn[t].reply = a /\ turn'[t].reply = b
  BY DEF Room!Says
<1>2. \A t \in Turns :
        \/ turn'[t].reply = turn[t].reply
        \/ turn[t].reply = "none" /\ turn'[t].reply \in {"streaming", "failed"}
        \/ turn[t].reply = "streaming" /\ turn'[t].reply \in {"complete", "interrupted", "failed"}
        => Room!Speaks(t)
  BY DEF Room!Speaks, Room!Says
<1>3. \A c \in Chains : \A a, b : Room!Stand(c, a, b) <=> chain[c].status = a /\ chain'[c].status = b
  BY DEF Room!Stand
<1>4. \A c \in Chains : Room!SameRules(c) <=> chain'[c].cap = chain[c].cap
                                            /\ chain'[c].used = chain[c].used
  BY Zenon DEF Room!SameRules
<1>5. \A c \in Chains : Room!Stays(c) <=> /\ chain'[c].status = chain[c].status
                                        /\ Room!SameRules(c)
  BY Zenon DEF Room!Stays
<1>6. \A c : Room!Of(c) = {t \in Turns : turn[t].chain = c}
  BY DEF Room!Of
<1>7. \A S : Room!Cardinality(S) = Cardinality(S)
  BY Zenon DEF Room!Cardinality, Cardinality
<1>8. \A c \in Chains : Room!Of(c) = Passes(c) /\ Room!More(c) = Cardinality(Passes(c)) + 1
  BY <1>6, <1>7 DEF Passes, Room!More
<1> QED BY <1>1, <1>2, <1>3, <1>4, <1>5, <1>6, <1>8, Zenon

\* A step that lets no turn come, and in which each chain stays or ends.
LEMMA Resting ==
  ASSUME \A t \in Turns : Kept(t) /\ Room!Speaks(t),
         \A c \in Chains : Room!Stays(c) \/ Room!Ends(c)
  PROVE  Room!Next
<1>1. /\ \A t \in Turns : <<turn'[t].from, turn'[t].seat>> = <<turn[t].from, turn[t].seat>>
      /\ \A t \in Turns : turn'[t].chain = turn[t].chain
  BY DEF Kept
<1>2. Room!Rests
  BY <1>1 DEF Room!Rests
<1> QED BY <1>2 DEF Room!Next

\* A step in which one turn comes, of a person or a chain.
LEMMA Coming ==
  ASSUME \A t \in Turns : Room!Speaks(t), NEW next \in Turns, turn[next] = NoTurn,
         \A t \in Turns \ {next} : Kept(t), NEW c \in Chains \cup {None}, turn'[next].chain = c,
         \A d \in Chains \ {c} : Room!Stays(d),
         \/ c = None /\ turn'[next].from = None /\ turn'[next].seat \in Seats
         \/ c \in Chains /\ (Room!Opens(next, c) \/ Room!GoesOn(next, c) \/ Room!LetGo(next, c))
  PROVE  Room!Next
<1>1. Room!Comes(next, c)
  BY DEF Room!Comes, Room!Absent, Kept, NoTurn
<1>2. CASE c = None /\ turn'[next].from = None /\ turn'[next].seat \in Seats
  <2>1. \E s \in Seats : <<turn'[next].from, turn'[next].seat>> = <<None, s>>
    BY <1>2
  <2>2. Chains \ {c} = Chains
    BY <1>2, NothingIsNew
  <2>3. Room!Asked(next)
    BY <1>1, <1>2, <2>1, <2>2 DEF Room!Asked
  <2> QED BY <2>3 DEF Room!Next
<1>3. CASE c \in Chains /\ (Room!Opens(next, c) \/ Room!GoesOn(next, c) \/ Room!LetGo(next, c))
  BY <1>1, <1>3, Zenon DEF Room!Passed, Room!Next
<1> QED BY <1>2, <1>3

\* A reply that passes the turn on to another seat.
LEMMA PassesOn ==
  ASSUME NEW u \in Turns, NEW next \in Turns, NEW s \in Seats,
         turn[u].reply = "streaming", turn'[u].reply = "complete", s # turn[u].seat,
         turn'[next].from = turn[u].seat, turn'[next].seat = s
  PROVE  Room!PassedBy(u, next)
BY RoomReads DEF Room!PassedBy

-----------------------------------------------------------------------------
LEMMA InitHolds == Init => IInv
<1> SUFFICES ASSUME Init PROVE IInv
  OBVIOUS
<1> USE DEF Init, NoTurn, NoChain
<1>1. TypeOK
  BY DEF TypeOK, TurnType, ChainType
<1>2. SeatsKnown /\ EndsKnown /\ ChainsKnown /\ ActiveIsCarried /\ OpenReplyIsHeld
  BY DEF SeatsKnown, EndsKnown, ChainsKnown, ActiveIsCarried, OpenReplyIsHeld, Active
<1>3. \A c \in Chains : Passes(c) = {} /\ Pairs(c) = {}
  BY NothingIsNew DEF Passes, Pairs
<1>4. RowKnowsPasses /\ DepthHolds
  <2>1. \A c \in Chains : /\ chain[c].depth = 0 /\ chain[c].visited = {} /\ chain[c].cap = None
                          /\ ~ chain[c].used
    OBVIOUS
  <2>2. IsFiniteSet({}) /\ Cardinality({}) = 0
    BY FS_EmptySet
  <2> HIDE DEF Init
  <2>3. RowKnowsPasses
    BY <1>3, <2>1, <2>2 DEF RowKnowsPasses
  <2>4. DepthHolds
    <3> SUFFICES ASSUME NEW c \in Chains
                 PROVE  /\ chain[c].cap # None => chain[c].depth <= chain[c].cap
                        /\ chain[c].depth <= Cardinality(chain[c].visited)
                                             + (IF chain[c].used THEN 1 ELSE 0)
      BY Zenon DEF DepthHolds
    <3>1. Cardinality(chain[c].visited) = 0
      BY <2>1, <2>2, Zenon
    <3> QED BY <2>1, <3>1
  <2> QED BY <2>3, <2>4
<1> QED BY <1>1, <1>2, <1>4 DEF IInv

\* A person's message.
LEMMA PostStep ==
  ASSUME IInv, NEW t \in Turns, NEW s \in Seats, Post(t, s)
  PROVE  IInv' /\ Room!Next
<1> USE DEF IInv
<1>0. /\ turn[t] = NoTurn /\ turn' = [turn EXCEPT ![t] = Asked(s, None, None)]
      /\ UNCHANGED <<room, seat, chain, held, edits, restarts>>
  BY DEF Post, FreshTurn
<1>1. Asked(s, None, None) \in TurnType
  BY DEF Asked, NoTurn, TurnType
<1>2. TypeOK'
  BY <1>0, <1>1 DEF TypeOK
<1>3. /\ turn'[t] = Asked(s, None, None) /\ \A u \in Turns \ {t} : turn'[u] = turn[u]
      /\ turn'[t].chain = None /\ turn'[t].state = "asked" /\ turn'[t].reply = "none"
      /\ turn'[t].seat = s /\ turn[t].chain = None /\ turn[t].state = "none"
  BY <1>0, <1>1 DEF TypeOK, Asked, NoTurn
<1>4. SeatsKnown' /\ EndsKnown' /\ ChainsKnown' /\ OpenReplyIsHeld'
  BY <1>0, <1>3 DEF SeatsKnown, EndsKnown, ChainsKnown, OpenReplyIsHeld
<1>5. RowKnowsPasses' /\ DepthHolds'
  BY <1>0, <1>3, NothingPassed
<1>6. ActiveIsCarried'
  BY <1>0, <1>3 DEF ActiveIsCarried, Carries, Active
<1>7. Room!Next
  <2>1. \A u \in Turns : Room!Speaks(u)
    BY <1>0, <1>3, RoomReads DEF NoTurn
  <2>2. \A d \in Chains : Room!Stays(d)
    BY <1>0, RoomReads
  <2>3. turn'[t].from = None
    BY <1>3 DEF Asked, NoTurn
  <2> QED BY <1>0, <1>3, <2>1, <2>2, <2>3, Coming DEF Kept
<1> QED BY <1>2, <1>4, <1>5, <1>6, <1>7

\* The start of a turn was answered.
LEMMA StartedStep ==
  ASSUME IInv, NEW t \in Turns, Started(t)
  PROVE  IInv' /\ Room!Next
<1> USE DEF IInv, Started
<1>2. TypeOK'
  BY ZenonT(30) DEF TypeOK, TurnType
<1>3. /\ \A u \in Turns \ {t} : turn'[u] = turn[u]
      /\ turn'[t].chain = turn[t].chain /\ turn'[t].seat = turn[t].seat
      /\ turn'[t].from = turn[t].from /\ turn'[t].state = "live" /\ turn'[t].reply = "streaming"
  BY DEF TypeOK, TurnType
<1>4. SeatsKnown' /\ EndsKnown' /\ ChainsKnown' /\ OpenReplyIsHeld'
  <2>1. turn[t].state = "asked" /\ held' = held \cup {t} /\ UNCHANGED chain
    OBVIOUS
  <2> HIDE DEF Started
  <2>2. EndsKnown' /\ OpenReplyIsHeld'
    BY <1>3, <2>1 DEF EndsKnown, OpenReplyIsHeld
  <2>3. SeatsKnown' /\ ChainsKnown'
    BY ZenonT(30), <1>3, <2>1 DEF SeatsKnown, ChainsKnown
  <2> QED BY <2>2, <2>3
<1>5. RowKnowsPasses' /\ DepthHolds'
  BY <1>3, NothingPassed
<1>6. ActiveIsCarried'
  <2>1. \A c \in Chains, u \in Turns : Carries(u, c) => Carries(u, c)'
    BY <1>3 DEF Carries
  <2>2. \A c \in Chains : Active(c)' => Active(c)
    BY DEF Active
  <2> QED BY <2>1, <2>2 DEF ActiveIsCarried
<1>7. Room!Next
  <2>1. turn[t].reply = "none"
    BY DEF EndsKnown
  <2>2. \A u \in Turns : Kept(u) /\ Room!Speaks(u)
    BY <1>3, <2>1, RoomReads DEF Kept
  <2>3. \A c \in Chains : Room!Stays(c)
    BY RoomReads
  <2> QED BY <2>2, <2>3, Resting
<1> QED BY <1>2, <1>4, <1>5, <1>6, <1>7

\* A seat that could not take its turn.
LEMMA StartFailsStep ==
  ASSUME IInv, NEW t \in Turns, StartFails(t)
  PROVE  IInv' /\ Room!Next
<1> USE DEF IInv, StartFails, Ended
<1>2. TypeOK'
  <2>1. turn' \in [Turns -> TurnType]
    <3>1. \A T \in TurnType : [T EXCEPT !.state = "settled", !.reply = "failed"] \in TurnType
      BY DEF TurnType
    <3>2. /\ turn \in [Turns -> TurnType]
          /\ turn' = [turn EXCEPT ![t] = [@ EXCEPT !.state = "settled", !.reply = "failed"]]
      BY DEF TypeOK
    <3> HIDE DEF StartFails, IInv
    <3> QED BY <3>1, <3>2
  <2>2. chain' \in [Chains -> ChainType]
    <3>1. \A C \in ChainType : [C EXCEPT !.status = "failed", !.reason = "error"] \in ChainType
      BY DEF ChainType
    <3>2. chain \in [Chains -> ChainType]
      BY DEF TypeOK
    <3> QED BY <3>1, <3>2
  <2> QED BY <2>1, <2>2 DEF TypeOK
<1>3. /\ \A u \in Turns \ {t} : turn'[u] = turn[u]
      /\ turn'[t].chain = turn[t].chain /\ turn'[t].seat = turn[t].seat
      /\ turn'[t].from = turn[t].from /\ turn'[t].state = "settled" /\ turn'[t].reply = "failed"
  BY DEF TypeOK, TurnType
<1>c. \A c \in Chains :
        /\ chain'[c].depth = chain[c].depth /\ chain'[c].cap = chain[c].cap
        /\ chain'[c].visited = chain[c].visited /\ chain'[c].used = chain[c].used
        /\ chain'[c].from = chain[c].from /\ chain'[c].to = chain[c].to
        /\ IF c = turn[t].chain THEN chain'[c].status = "failed" ELSE chain'[c] = chain[c]
  BY ZenonT(30) DEF TypeOK, ChainType
<1>4. SeatsKnown' /\ EndsKnown' /\ ChainsKnown' /\ OpenReplyIsHeld'
  <2>1. \A u \in Turns : turn[u].chain \in Chains \cup {None}
    BY DEF TypeOK, TurnType
  <2>2. \A c \in Chains : chain'[c].status # "none" => chain[c].status # "none"
    <3> SUFFICES ASSUME NEW c \in Chains, c = turn[t].chain PROVE chain[c].status # "none"
      BY <1>c
    <3>1. turn[t].chain # None
      BY NothingIsNew
    <3>2. chain[turn[t].chain].status # "none"
      BY <3>1 DEF ChainsKnown
    <3> QED BY <3>2
  <2>3. \A c \in Chains : chain[c].status # "none" => chain'[c].status # "none"
    BY <1>c
  <2>4. SeatsKnown'
    BY ZenonT(30), <1>3, <1>c, <2>2 DEF SeatsKnown, StartFails
  <2>5. EndsKnown' /\ OpenReplyIsHeld'
    <3> HIDE DEF StartFails, Ended
    <3>1. UNCHANGED held
      BY DEF StartFails
    <3> QED BY <1>3, <3>1 DEF EndsKnown, OpenReplyIsHeld
  <2>6. ChainsKnown'
    BY ZenonT(30), <1>3, <2>1, <2>3 DEF ChainsKnown
  <2> QED BY <2>4, <2>5, <2>6
<1>5. RowKnowsPasses' /\ DepthHolds'
  BY <1>3, <1>c, NothingPassed
<1>6. ActiveIsCarried'
  <2>1. \A c \in Chains, u \in Turns : c # turn[t].chain /\ Carries(u, c) => Carries(u, c)'
    BY <1>3 DEF Carries
  <2>2. \A c \in Chains : Active(c)' => Active(c) /\ c # turn[t].chain
    BY <1>c DEF Active
  <2> QED BY <2>1, <2>2 DEF ActiveIsCarried
<1>7. Room!Next
  <2> HIDE DEF StartFails, Ended
  <2>1. turn[t].reply = "none"
    BY DEF EndsKnown, StartFails
  <2>2. \A u \in Turns : Kept(u) /\ Room!Speaks(u)
    BY <1>3, <2>1, RoomReads DEF Kept
  <2>3. \A c \in Chains : c # turn[t].chain => Room!Stays(c)
    BY <1>c, RoomReads
  <2>4. ASSUME NEW c \in Chains, c = turn[t].chain PROVE Room!Ends(c)
    <3>1. chain[c].status # "none" /\ chain'[c].status = "failed"
      BY <1>c, <2>4, NothingIsNew DEF ChainsKnown
    <3>2. t \in Room!Of(c)
      BY <2>4, RoomReads
    <3> QED BY <1>3, <1>c, <2>1, <3>1, <3>2, RoomReads DEF Room!Ends
  <2> QED BY <2>2, <2>3, <2>4, Resting
<1> QED BY <1>2, <1>4, <1>5, <1>6, <1>7

\* The run of a turn ends.
LEMMA RunEndsStep ==
  ASSUME IInv, NEW t \in Turns, NEW end \in Ends, RunEnds(t, end)
  PROVE  IInv' /\ Room!Next
<1> USE DEF IInv, RunEnds
<1>2. TypeOK'
  BY ZenonT(30) DEF TypeOK, TurnType
<1>3. /\ \A u \in Turns \ {t} : turn'[u] = turn[u]
      /\ turn'[t].chain = turn[t].chain /\ turn'[t].seat = turn[t].seat
      /\ turn'[t].from = turn[t].from /\ turn'[t].state = "ended" /\ turn'[t].end = end
      /\ turn'[t].reply = turn[t].reply
  BY DEF TypeOK, TurnType
<1>4. SeatsKnown' /\ EndsKnown' /\ ChainsKnown' /\ OpenReplyIsHeld'
  BY ZenonT(30), <1>3 DEF SeatsKnown, EndsKnown, ChainsKnown, OpenReplyIsHeld
<1>5. RowKnowsPasses' /\ DepthHolds'
  BY <1>3, NothingPassed
<1>6. ActiveIsCarried'
  <2>1. \A c \in Chains, u \in Turns : Carries(u, c) => Carries(u, c)'
    BY <1>3 DEF Carries
  <2>2. \A c \in Chains : Active(c)' => Active(c)
    BY DEF Active
  <2> QED BY <2>1, <2>2 DEF ActiveIsCarried
<1>7. Room!Next
  <2>1. \A u \in Turns : Kept(u) /\ Room!Speaks(u)
    BY <1>3, RoomReads DEF Kept
  <2>2. \A c \in Chains : Room!Stays(c)
    BY RoomReads
  <2> QED BY <2>1, <2>2, Resting
<1> QED BY <1>2, <1>4, <1>5, <1>6, <1>7

\* A turn that `finish` deals with is closed, the others are left.
LEMMA ClosedEffect ==
  ASSUME IInv, NEW t \in Turns, Finishes(t)
  PROVE  /\ Closed(t) \in [Turns -> TurnType] /\ turn[t].end \in Ends /\ turn[t].seat \in Seats
         /\ turn[t].chain \in Chains \cup {None}
         /\ \A u \in Turns \ {t} : Closed(t)[u] = turn[u]
         /\ Closed(t)[t].state = "settled" /\ Closed(t)[t].reply = Reply(turn[t].end)
         /\ Reply(turn[t].end) \in {"complete", "interrupted", "failed"}
         /\ turn[t].reply = "streaming"
         /\ Closed(t)[t].chain = turn[t].chain /\ Closed(t)[t].seat = turn[t].seat
         /\ Closed(t)[t].from = turn[t].from
<1>1. turn[t].end \in Ends /\ turn[t].seat \in Seats
  BY DEF IInv, Finishes, EndsKnown, SeatsKnown
<1>s. turn[t].reply = "streaming"
  BY DEF IInv, Finishes, EndsKnown
<1>2. Reply(turn[t].end) \in {"complete", "interrupted", "failed"}
  BY <1>1 DEF Reply
<1> DEFINE r == Reply(turn[t].end)
<1>3. turn \in [Turns -> TurnType] /\ turn[t].chain \in Chains \cup {None}
  BY DEF IInv, TypeOK, TurnType
<1>4. Closed(t) = [turn EXCEPT ![t] = [@ EXCEPT !.state = "settled", !.end = None, !.reply = r]]
  BY <1>3 DEF Closed
<1> HIDE DEF r
<1>5. [turn[t] EXCEPT !.state = "settled", !.end = None, !.reply = r] \in TurnType
  BY <1>2, <1>3 DEF TurnType, r
<1>6. LET T == [turn[t] EXCEPT !.state = "settled", !.end = None, !.reply = r]
      IN  T.state = "settled" /\ T.reply = r /\ T.chain = turn[t].chain /\ T.seat = turn[t].seat
          /\ T.from = turn[t].from
  BY <1>3 DEF TurnType
<1> QED BY <1>1, <1>s, <1>2, <1>3, <1>4, <1>5, <1>6 DEF r

\* The chain of a turn that passes nothing on.
LEMMA EndsChainEffect ==
  ASSUME IInv, NEW t \in Turns, turn[t].end \in Ends
  PROVE  /\ EndsChain(t) \in [Chains -> ChainType]
         /\ \A c \in Chains :
              /\ EndsChain(t)[c].depth = chain[c].depth /\ EndsChain(t)[c].cap = chain[c].cap
              /\ EndsChain(t)[c].visited = chain[c].visited /\ EndsChain(t)[c].used = chain[c].used
              /\ EndsChain(t)[c].from = chain[c].from /\ EndsChain(t)[c].to = chain[c].to
              /\ EndsChain(t)[c].status # "none" <=> chain[c].status # "none"
              /\ EndsChain(t)[c].status = "active" =>
                   chain[c].status = "active" /\ c # turn[t].chain
              /\ \/ EndsChain(t)[c].status = chain[c].status
                 \/ /\ c = turn[t].chain /\ chain[c].status = "active"
                    /\ EndsChain(t)[c].status =
                         CASE turn[t].end = "succeeded" -> "completed"
                           [] turn[t].end = "cancelled" -> "stopped"
                           [] turn[t].end = "failed"    -> "failed"
<1> DEFINE S == CASE turn[t].end = "succeeded" -> "completed"
                  [] turn[t].end = "cancelled" -> "stopped"
                  [] turn[t].end = "failed"    -> "failed"
           R == CASE turn[t].end = "succeeded" -> "none"
                  [] turn[t].end = "cancelled" -> "interrupted"
                  [] turn[t].end = "failed"    -> "error"
           k == turn[t].chain
<1>1. S \in {"completed", "stopped", "failed"} /\ R \in {"none", "interrupted", "error"}
  OBVIOUS
<1>2. EndsChain(t) = IF Active(k) THEN [chain EXCEPT ![k] = [@ EXCEPT !.status = S, !.reason = R]]
                                  ELSE chain
  BY DEF EndsChain, Ended
<1>3. chain \in [Chains -> ChainType] /\ k \in Chains \cup {None}
  BY DEF IInv, TypeOK, TurnType
<1> HIDE DEF S, R, k
<1>4. \A C \in ChainType :
        LET D == [C EXCEPT !.status = S, !.reason = R]
        IN  /\ D \in ChainType /\ D.status = S /\ D.depth = C.depth /\ D.cap = C.cap
            /\ D.visited = C.visited /\ D.used = C.used /\ D.from = C.from /\ D.to = C.to
  BY ZenonT(30), <1>1 DEF ChainType
<1>5. CASE Active(k)
  <2>1. k \in Chains /\ chain[k].status = "active"
    BY <1>3, <1>5 DEF Active
  <2> DEFINE D == [chain[k] EXCEPT !.status = S, !.reason = R]
  <2>2. /\ D \in ChainType /\ D.status = S /\ D.depth = chain[k].depth /\ D.cap = chain[k].cap
        /\ D.visited = chain[k].visited /\ D.used = chain[k].used
        /\ D.from = chain[k].from /\ D.to = chain[k].to
    BY <1>3, <1>4, <2>1
  <2>3. EndsChain(t) = [chain EXCEPT ![k] = D]
    BY <1>2, <1>5
  <2> HIDE DEF D
  <2>4. /\ EndsChain(t) \in [Chains -> ChainType] /\ EndsChain(t)[k] = D
        /\ \A c \in Chains : c # k => EndsChain(t)[c] = chain[c]
    BY <1>3, <2>1, <2>2, <2>3
  <2>5. k = turn[t].chain /\ S = CASE turn[t].end = "succeeded" -> "completed"
                                  [] turn[t].end = "cancelled" -> "stopped"
                                  [] turn[t].end = "failed"    -> "failed"
    BY DEF k, S
  <2> QED BY <1>1, <2>1, <2>2, <2>4, <2>5
<1>6. CASE ~ Active(k)
  BY <1>2, <1>3, <1>6, NothingIsNew DEF k, Active
<1> QED BY <1>5, <1>6

\* A reply that passes nothing on.
LEMMA FinishQuietlyStep ==
  ASSUME IInv, NEW t \in Turns, FinishQuietly(t)
  PROVE  IInv' /\ Room!Next
<1>0. Finishes(t) /\ turn' = Closed(t) /\ chain' = EndsChain(t)
  BY DEF FinishQuietly
<1>f. held' = held \ {t} /\ UNCHANGED <<room, seat, edits, restarts>>
  BY <1>0 DEF Finishes
<1>t. /\ turn' \in [Turns -> TurnType] /\ turn[t].end \in Ends
      /\ \A u \in Turns \ {t} : turn'[u] = turn[u]
      /\ turn'[t].state = "settled" /\ turn'[t].reply = Reply(turn[t].end)
      /\ Reply(turn[t].end) \in {"complete", "interrupted", "failed"}
      /\ turn[t].reply = "streaming"
      /\ turn'[t].chain = turn[t].chain /\ turn'[t].seat = turn[t].seat
      /\ turn'[t].from = turn[t].from
  BY <1>0, ClosedEffect
<1>c. /\ chain' \in [Chains -> ChainType]
      /\ \A c \in Chains :
            /\ chain'[c].depth = chain[c].depth /\ chain'[c].cap = chain[c].cap
            /\ chain'[c].visited = chain[c].visited /\ chain'[c].used = chain[c].used
            /\ chain'[c].from = chain[c].from /\ chain'[c].to = chain[c].to
            /\ chain'[c].status # "none" <=> chain[c].status # "none"
            /\ chain'[c].status = "active" => chain[c].status = "active" /\ c # turn[t].chain
            /\ \/ chain'[c].status = chain[c].status
               \/ /\ c = turn[t].chain /\ chain[c].status = "active"
                  /\ chain'[c].status = CASE turn[t].end = "succeeded" -> "completed"
                                          [] turn[t].end = "cancelled" -> "stopped"
                                          [] turn[t].end = "failed"    -> "failed"
  BY <1>0, <1>t, EndsChainEffect
<1>u. turn[t].state = "ended" /\ \A u \in Turns : turn[u].chain \in Chains \cup {None}
  BY <1>0 DEF Finishes, IInv, TypeOK, TurnType
<1>1. TypeOK'
  BY <1>f, <1>t, <1>c DEF IInv, TypeOK
<1>2. SeatsKnown'
  BY <1>t, <1>c, <1>u DEF IInv, SeatsKnown
<1>3. EndsKnown' /\ OpenReplyIsHeld'
  BY <1>f, <1>t DEF IInv, EndsKnown, OpenReplyIsHeld
<1>4. ChainsKnown'
  BY <1>t, <1>c, <1>u DEF IInv, ChainsKnown
<1>5. RowKnowsPasses' /\ DepthHolds'
  BY <1>t, <1>c, NothingPassed
<1>6. ActiveIsCarried'
  <2>1. \A c \in Chains, u \in Turns : c # turn[t].chain /\ Carries(u, c) => Carries(u, c)'
    BY <1>t DEF Carries
  <2>2. \A c \in Chains : Active(c)' => Active(c) /\ c # turn[t].chain
    BY <1>c DEF Active
  <2> QED BY <2>1, <2>2 DEF IInv, ActiveIsCarried
<1>7. Room!Next
  <2>1. \A u \in Turns : Kept(u) /\ Room!Speaks(u)
    BY <1>t, RoomReads DEF Kept
  <2>2. ASSUME NEW c \in Chains PROVE Room!Stays(c) \/ Room!Ends(c)
    <3>1. CASE chain'[c].status = chain[c].status
      BY <1>c, <3>1, RoomReads
    <3>2. CASE /\ c = turn[t].chain /\ chain[c].status = "active"
               /\ chain'[c].status = CASE turn[t].end = "succeeded" -> "completed"
                                       [] turn[t].end = "cancelled" -> "stopped"
                                       [] turn[t].end = "failed"    -> "failed"
      <4>1. Room!SameRules(c) /\ t \in Room!Of(c)
        BY <1>c, <3>2, RoomReads
      <4>2. CASE turn[t].end = "succeeded"
        <5>1. Room!Says(t, "streaming", "complete") /\ Room!Stand(c, "active", "completed")
          BY <1>t, <3>2, <4>2, RoomReads DEF Reply
        <5> QED BY <4>1, <5>1 DEF Room!Ends
      <4>3. CASE turn[t].end = "cancelled"
        <5>1. Room!Stand(c, "active", "stopped")
          BY <3>2, <4>3, RoomReads
        <5> QED BY <4>1, <5>1 DEF Room!Ends
      <4>4. CASE turn[t].end = "failed"
        <5>1. /\ turn[t].reply # "failed" /\ turn'[t].reply = "failed"
              /\ chain[c].status # "none" /\ chain'[c].status = "failed"
          BY <1>t, <3>2, <4>4 DEF Reply
        <5> QED BY <4>1, <5>1 DEF Room!Ends
      <4> QED BY <1>t, <4>2, <4>3, <4>4
    <3> QED BY <1>c, <3>1, <3>2
  <2> QED BY <2>1, <2>2, Resting
<1> QED BY <1>1, <1>2, <1>3, <1>4, <1>5, <1>6, <1>7 DEF IInv

\* The turn a pass asks for.
LEMMA AskedRow ==
  \A to, from \in Seats, c \in Chains :
    LET A == Asked(to, from, c)
    IN  /\ A \in TurnType /\ A.chain = c /\ A.from = from /\ A.seat = to /\ A.state = "asked"
        /\ A.reply = "none"
BY ZenonT(30) DEF Asked, NoTurn, TurnType

\* What passing a turn on leaves of the turns and the chains.
LEMMA PassedOn ==
  ASSUME IInv, NEW c \in Chains, NEW next \in Turns,
         turn'[next].state = "asked", turn'[next].reply = "none", turn'[next].chain = c,
         turn'[next].seat \in Seats,
         \A u \in Turns \ {next} :
           /\ turn'[u].chain = turn[u].chain /\ turn'[u].seat = turn[u].seat
           /\ \/ turn'[u] = turn[u]
              \/ turn'[u].state = "settled" /\ turn[u].state # "none"
                 /\ turn'[u].reply # "streaming"
           /\ turn'[u].reply = "streaming" => u \in held',
         chain'[c].status = "active", chain'[c].from \in Seats, chain'[c].to \in Seats,
         \A d \in Chains \ {c} : chain'[d] = chain[d]
  PROVE  SeatsKnown' /\ EndsKnown' /\ ChainsKnown' /\ OpenReplyIsHeld'
<1>5. \A d \in Chains : chain[d].status # "none" => chain'[d].status # "none"
  OBVIOUS
<1>6. SeatsKnown'
  BY DEF IInv, SeatsKnown
<1>7. EndsKnown' /\ OpenReplyIsHeld'
  BY DEF IInv, EndsKnown, OpenReplyIsHeld
<1>8. ChainsKnown'
  <2>1. \A u \in Turns : turn[u].chain \in Chains \cup {None}
    BY DEF IInv, TypeOK, TurnType
  <2> QED BY <1>5, <2>1 DEF IInv, ChainsKnown
<1> QED BY <1>6, <1>7, <1>8

\* The row of a chain after one more pass.
LEMMA PassedRow ==
  ASSUME NEW C \in ChainType, NEW from \in Seats, NEW to \in Seats
  PROVE  LET D == Passed(C, from, to)
         IN  /\ D \in ChainType /\ D.status = C.status /\ D.cap = C.cap /\ D.used = C.used
             /\ D.from = from /\ D.to = to /\ D.depth = C.depth + 1
             /\ D.visited = C.visited \cup {<<from, to>>}
<1> DEFINE V == C.visited \cup {<<from, to>>}
           n == C.depth + 1
<1>1. V \in SUBSET (Seats \X Seats) /\ n \in Nat
  BY DEF ChainType
<1>2. Passed(C, from, to) = [C EXCEPT !.from = from, !.to = to, !.depth = n, !.visited = V]
  BY DEF Passed, ChainType
<1> HIDE DEF V, n
<1>3. LET D == [C EXCEPT !.from = from, !.to = to, !.depth = n, !.visited = V]
      IN  /\ D \in ChainType /\ D.status = C.status /\ D.cap = C.cap /\ D.used = C.used
          /\ D.from = from /\ D.to = to /\ D.depth = n /\ D.visited = V
  BY <1>1 DEF ChainType
<1> QED BY <1>2, <1>3 DEF V, n

\* The first pass of a chain.
LEMMA FinishOpensChainStep ==
  ASSUME IInv, NEW t \in Turns, NEW s \in Seats, NEW c \in Chains, NEW next \in Turns,
         FinishOpensChain(t, s, c, next)
  PROVE  IInv' /\ Room!Next
<1>0. /\ Finishes(t) /\ FreshChain(c) /\ FreshTurn(next) /\ turn[t].chain = None
      /\ turn' = [Closed(t) EXCEPT ![next] = Asked(s, turn[t].seat, c)]
      /\ chain' = [chain EXCEPT ![c] = [Passed(NoChain, turn[t].seat, s)
                                          EXCEPT !.status = "active", !.cap = room.cap]]
  BY DEF FinishOpensChain
<1>f. /\ held' = held \ {t} /\ UNCHANGED <<room, seat, edits, restarts>>
      /\ turn[t].state = "ended" /\ turn[next] = NoTurn /\ turn[next].state = "none" /\ next # t
      /\ chain[c] = NoChain
  BY <1>0 DEF Finishes, FreshTurn, FreshChain, NoTurn
<1>m. turn[t].end = "succeeded" /\ s # turn[t].seat
  BY DEF FinishOpensChain, Mentions
<1>t. /\ Closed(t) \in [Turns -> TurnType] /\ turn[t].seat \in Seats
      /\ \A u \in Turns \ {t} : Closed(t)[u] = turn[u]
      /\ Closed(t)[t].state = "settled" /\ Closed(t)[t].reply = Reply(turn[t].end)
      /\ Reply(turn[t].end) \in {"complete", "interrupted", "failed"}
      /\ turn[t].reply = "streaming"
      /\ Closed(t)[t].chain = turn[t].chain /\ Closed(t)[t].seat = turn[t].seat
      /\ Closed(t)[t].from = turn[t].from
  BY <1>0, ClosedEffect
<1> DEFINE P == Passed(NoChain, turn[t].seat, s)
           D == [P EXCEPT !.status = "active", !.cap = room.cap]
<1>n. /\ NoChain \in ChainType /\ NoChain.used = FALSE /\ NoChain.depth = 0
      /\ NoChain.visited = {} /\ NoChain.cap = None
  BY DEF NoChain, ChainType
<1>p. /\ P \in ChainType /\ P.used = FALSE /\ P.from = turn[t].seat /\ P.to = s /\ P.depth = 1
      /\ P.visited = {<<turn[t].seat, s>>}
  BY SMTT(30), <1>n, <1>t, PassedRow
<1>r. room.cap \in Caps /\ (room.cap # None => room.cap \in Nat \ {0})
  BY CapsAssumption DEF IInv, TypeOK
<1> HIDE DEF P
<1>d. /\ D \in ChainType /\ D.used = FALSE /\ D.from = turn[t].seat /\ D.to = s /\ D.depth = 1
      /\ D.visited = {<<turn[t].seat, s>>} /\ D.status = "active" /\ D.cap = room.cap
  BY <1>p, <1>r, CapsAssumption DEF ChainType
<1>x. chain' = [chain EXCEPT ![c] = D] /\ chain \in [Chains -> ChainType]
  BY <1>0 DEF P, IInv, TypeOK
<1> HIDE DEF D
<1>c. /\ chain' \in [Chains -> ChainType] /\ chain'[c] = D
      /\ \A d \in Chains \ {c} : chain'[d] = chain[d]
  BY <1>d, <1>x
<1>1. /\ turn' \in [Turns -> TurnType] /\ turn[next].chain = None
      /\ turn'[next].chain = c /\ turn'[next].from = turn[t].seat /\ turn'[next].seat = s
      /\ turn'[next].state = "asked" /\ turn'[next].reply = "none"
      /\ \A u \in Turns \ {next} : turn'[u] = Closed(t)[u]
  <2> DEFINE A == Asked(s, turn[t].seat, c)
             T == Closed(t)
  <2>1. /\ A \in TurnType /\ A.chain = c /\ A.from = turn[t].seat /\ A.seat = s
        /\ A.state = "asked" /\ A.reply = "none"
    BY <1>t, AskedRow
  <2>2. turn' = [T EXCEPT ![next] = A] /\ T \in [Turns -> TurnType] /\ turn[next].chain = None
    BY <1>0, <1>f, <1>t DEF NoTurn
  <2> HIDE DEF T, A
  <2>3. turn' \in [Turns -> TurnType] /\ turn'[next] = A /\ \A u \in Turns \ {next} : turn'[u] = T[u]
    BY <2>1, <2>2
  <2> QED BY <2>1, <2>2, <2>3 DEF T
<1>o. \A u \in Turns \ {next} :
        /\ turn'[u].chain = turn[u].chain /\ turn'[u].seat = turn[u].seat
        /\ turn'[u].from = turn[u].from
        /\ \/ turn'[u] = turn[u]
           \/ turn'[u].state = "settled" /\ turn[u].state # "none"
              /\ turn'[u].reply # "streaming"
        /\ turn'[u].reply = "streaming" => u \in held'
  BY <1>f, <1>t, <1>1 DEF IInv, OpenReplyIsHeld
<1>k. SeatsKnown' /\ EndsKnown' /\ ChainsKnown' /\ OpenReplyIsHeld'
  BY <1>1, <1>o, <1>c, <1>d, <1>t, PassedOn
<1>2. TypeOK'
  BY <1>1, <1>c, <1>f DEF IInv, TypeOK
<1>3. RowKnowsPasses' /\ Cardinality(chain'[c].visited) = 1
  <2>1. /\ chain'[c].depth = chain[c].depth + 1 /\ chain[c].visited = {}
        /\ chain'[c].visited = chain[c].visited \cup {Pair(next)'}
    BY <1>1, <1>f, <1>n, <1>c, <1>d DEF Pair
  <2>2. RowKnowsPasses'
    BY <1>1, <1>o, <1>c, <2>1, OnePassed
  <2>3. chain'[c].visited = {Pair(next)'}
    BY <2>1
  <2> QED BY <2>2, <2>3, FS_Singleton
<1>4. DepthHolds'
  <2>1. chain'[c].cap # None => chain'[c].depth <= chain'[c].cap
    BY <1>c, <1>d, <1>r
  <2>2. chain'[c].depth <= Cardinality(chain'[c].visited) + IF chain'[c].used THEN 1 ELSE 0
    BY <1>3, <1>c, <1>d
  <2> QED BY <1>c, <2>1, <2>2 DEF IInv, DepthHolds
<1>5. ActiveIsCarried'
  <2>1. Carries(next, c)'
    BY <1>1 DEF Carries
  <2>2. \A d \in Chains \ {c}, u \in Turns : Carries(u, d) => Carries(u, d)'
    BY <1>0, <1>1, <1>f, <1>t, NothingIsNew DEF Carries, NoTurn
  <2>3. \A d \in Chains \ {c} : Active(d)' => Active(d)
    BY <1>c DEF Active
  <2> QED BY <2>1, <2>2, <2>3 DEF IInv, ActiveIsCarried
<1>6. Room!Next
  <2>1. \A u \in Turns \ {next} : Kept(u) /\ Room!Speaks(u)
    BY <1>o, <1>t, <1>1, RoomReads DEF Kept
  <2>2. Room!Speaks(next)
    BY <1>1, <1>f, RoomReads DEF NoTurn
  <2>3. \A d \in Chains \ {c} : Room!Stays(d)
    BY <1>c, RoomReads
  <2>4. Room!PassedBy(t, next)
    BY <1>m, <1>t, <1>f, <1>1, PassesOn DEF Reply
  <2>5. Room!Stand(c, "none", "active") /\ ~ chain'[c].used
    BY <1>c, <1>d, <1>f, RoomReads DEF NoChain
  <2>6. Room!Of(c) = {} /\ t \in Room!Of(None)
    <3>1. chain[c].status = "none"
      BY <1>f DEF NoChain
    <3>2. \A u \in Turns : turn[u].chain # c
      BY <3>1, NothingIsNew DEF IInv, ChainsKnown
    <3> QED BY <1>0, <3>2, RoomReads
  <2>7. Room!Opens(next, c)
    BY <2>4, <2>5, <2>6 DEF Room!Opens
  <2> QED BY <1>1, <1>f, <2>1, <2>2, <2>3, <2>7, Coming
<1> QED BY <1>k, <1>2, <1>3, <1>4, <1>5, <1>6 DEF IInv

\* A pass the guard lets through.
LEMMA FinishPassesOn ==
  ASSUME IInv, NEW t \in Turns, NEW s \in Seats, NEW next \in Turns, NEW c \in Chains,
         Finishes(t), Mentions(t, s), c = turn[t].chain, Active(c), FreshTurn(next),
         Judge(chain[c], turn[t].seat, s, FALSE) = "go",
         turn' = [Closed(t) EXCEPT ![next] = Asked(s, turn[t].seat, c)],
         chain' = [chain EXCEPT ![c] = Passed(@, turn[t].seat, s)]
  PROVE  IInv' /\ Room!Next
<1>f. /\ held' = held \ {t} /\ UNCHANGED <<room, seat, edits, restarts>>
      /\ turn[t].state = "ended" /\ turn[next] = NoTurn /\ turn[next].state = "none" /\ next # t
  BY DEF Finishes, FreshTurn, NoTurn
<1>m. turn[t].end = "succeeded" /\ s # turn[t].seat
  BY DEF Mentions
<1>t. /\ Closed(t) \in [Turns -> TurnType] /\ turn[t].seat \in Seats
      /\ \A u \in Turns \ {t} : Closed(t)[u] = turn[u]
      /\ Closed(t)[t].state = "settled" /\ Closed(t)[t].reply = Reply(turn[t].end)
      /\ Reply(turn[t].end) \in {"complete", "interrupted", "failed"}
      /\ turn[t].reply = "streaming"
      /\ Closed(t)[t].chain = turn[t].chain /\ Closed(t)[t].seat = turn[t].seat
      /\ Closed(t)[t].from = turn[t].from
  BY ClosedEffect
<1> DEFINE D == Passed(chain[c], turn[t].seat, s)
<1>g. /\ <<turn[t].seat, s>> \notin chain[c].visited
      /\ chain[c].cap # None => chain[c].depth + 1 <= chain[c].cap
  <2>1. chain[c].cap # None => chain[c].cap \in Nat /\ chain[c].depth \in Nat
    BY DEF IInv, TypeOK, ChainType
  <2> QED BY <2>1 DEF Judge
<1>x. chain' = [chain EXCEPT ![c] = D] /\ chain \in [Chains -> ChainType] /\ chain[c].status = "active"
  BY DEF IInv, TypeOK, Active
<1>d. /\ D \in ChainType /\ D.used = chain[c].used /\ D.from = turn[t].seat /\ D.to = s
      /\ D.depth = chain[c].depth + 1 /\ D.visited = chain[c].visited \cup {<<turn[t].seat, s>>}
      /\ D.status = "active" /\ D.cap = chain[c].cap
  BY <1>x, <1>t, PassedRow
<1> HIDE DEF D
<1>c. /\ chain' \in [Chains -> ChainType] /\ chain'[c] = D
      /\ \A d \in Chains \ {c} : chain'[d] = chain[d]
  BY <1>d, <1>x
<1>1. /\ turn' \in [Turns -> TurnType] /\ turn[next].chain = None
      /\ turn'[next].chain = c /\ turn'[next].from = turn[t].seat /\ turn'[next].seat = s
      /\ turn'[next].state = "asked" /\ turn'[next].reply = "none"
      /\ \A u \in Turns \ {next} : turn'[u] = Closed(t)[u]
  <2> DEFINE A == Asked(s, turn[t].seat, c)
             T == Closed(t)
  <2>1. /\ A \in TurnType /\ A.chain = c /\ A.from = turn[t].seat /\ A.seat = s
        /\ A.state = "asked" /\ A.reply = "none"
    BY <1>t, AskedRow
  <2>2. turn' = [T EXCEPT ![next] = A] /\ T \in [Turns -> TurnType] /\ turn[next].chain = None
    BY <1>f, <1>t DEF NoTurn
  <2> HIDE DEF T, A
  <2>3. turn' \in [Turns -> TurnType] /\ turn'[next] = A /\ \A u \in Turns \ {next} : turn'[u] = T[u]
    BY <2>1, <2>2
  <2> QED BY <2>1, <2>2, <2>3 DEF T
<1>o. \A u \in Turns \ {next} :
        /\ turn'[u].chain = turn[u].chain /\ turn'[u].seat = turn[u].seat
        /\ turn'[u].from = turn[u].from
        /\ \/ turn'[u] = turn[u]
           \/ turn'[u].state = "settled" /\ turn[u].state # "none"
              /\ turn'[u].reply # "streaming"
        /\ turn'[u].reply = "streaming" => u \in held'
  BY <1>f, <1>t, <1>1 DEF IInv, OpenReplyIsHeld
<1>k. SeatsKnown' /\ EndsKnown' /\ ChainsKnown' /\ OpenReplyIsHeld'
  BY SMTT(30), <1>1, <1>o, <1>c, <1>d, <1>t, PassedOn
<1>2. TypeOK'
  BY <1>1, <1>c, <1>f DEF IInv, TypeOK
<1>3. /\ RowKnowsPasses' /\ Cardinality(chain[c].visited) \in Nat
      /\ Cardinality(chain'[c].visited) = Cardinality(chain[c].visited) + 1
  <2>1. /\ chain'[c].depth = chain[c].depth + 1
        /\ chain'[c].visited = chain[c].visited \cup {Pair(next)'}
        /\ Pair(next)' \notin chain[c].visited
    BY <1>1, <1>c, <1>d, <1>g DEF Pair
  <2> QED BY <1>1, <1>o, <1>c, <2>1, OnePassed
<1>4. DepthHolds'
  <2>1. chain'[c].cap # None => chain'[c].depth <= chain'[c].cap
    BY <1>c, <1>d, <1>g
  <2>2. chain'[c].depth <= Cardinality(chain'[c].visited) + IF chain'[c].used THEN 1 ELSE 0
    <3>1. /\ chain[c].depth <= Cardinality(chain[c].visited) + IF chain[c].used THEN 1 ELSE 0
          /\ chain[c].depth \in Nat
      BY <1>x DEF IInv, DepthHolds, ChainType
    <3>2. chain'[c].depth = chain[c].depth + 1 /\ chain'[c].used = chain[c].used
      BY <1>c, <1>d
    <3>3. CASE chain[c].used
      <4>1. chain'[c].used
        BY <3>2, <3>3
      <4>2. chain[c].depth <= Cardinality(chain[c].visited) + 1
        BY <3>1, <3>3
      <4>3. chain'[c].depth <= Cardinality(chain'[c].visited) + 1
        BY <1>3, <3>1, <3>2, <4>2
      <4> QED BY <4>1, <4>3
    <3>4. CASE ~ chain[c].used
      BY <1>3, <3>1, <3>2, <3>4
    <3> QED BY <3>3, <3>4
  <2> QED BY <1>c, <2>1, <2>2 DEF IInv, DepthHolds
<1>5. ActiveIsCarried'
  <2>1. Carries(next, c)'
    BY <1>1 DEF Carries
  <2>2. \A d \in Chains \ {c}, u \in Turns : Carries(u, d) => Carries(u, d)'
    BY <1>1, <1>f, <1>t, NothingIsNew DEF Carries, NoTurn
  <2>3. \A d \in Chains \ {c} : Active(d)' => Active(d)
    BY <1>c DEF Active
  <2> QED BY <2>1, <2>2, <2>3 DEF IInv, ActiveIsCarried
<1>6. Room!Next
  <2>1. \A u \in Turns \ {next} : Kept(u) /\ Room!Speaks(u)
    BY <1>o, <1>t, <1>1, RoomReads DEF Kept
  <2>2. Room!Speaks(next)
    BY <1>1, <1>f, RoomReads DEF NoTurn
  <2>3. \A d \in Chains \ {c} : Room!Stays(d)
    BY <1>c, RoomReads
  <2>4. Room!PassedBy(t, next)
    BY <1>m, <1>t, <1>f, <1>1, PassesOn DEF Reply
  <2>5. Room!Stand(c, "active", "active") /\ Room!SameRules(c)
    BY <1>x, <1>c, <1>d, RoomReads
  <2>6. t \in Room!Of(c) /\ Room!Of(c) = Passes(c) /\ Room!More(c) = chain[c].depth + 1
    BY RoomReads DEF IInv, RowKnowsPasses
  <2>7. \A u \in Room!Of(c) : <<turn[u].from, turn[u].seat>> # <<turn'[next].from, turn'[next].seat>>
    BY <1>1, <1>g, <2>6 DEF IInv, RowKnowsPasses, Pairs
  <2>8. chain[c].cap # None => Room!More(c) <= chain[c].cap
    BY <1>g, <2>6
  <2>9. Room!GoesOn(next, c)
    <3>1. \A u \in Room!Of(c) : u \in Turns
      BY RoomReads
    <3> QED BY <2>4, <2>5, <2>6, <2>7, <2>8, <3>1 DEF Room!GoesOn
  <2> QED BY <1>1, <1>f, <2>1, <2>2, <2>3, <2>9, Coming
<1> QED BY <1>k, <1>2, <1>3, <1>4, <1>5, <1>6 DEF IInv

\* A pass the guard stops: the chain remembers where.
LEMMA FinishPassesStopped ==
  ASSUME IInv, NEW t \in Turns, NEW s \in Seats, NEW c \in Chains, NEW verdict,
         Finishes(t), c = turn[t].chain, Active(c), verdict \in {"loop_detected", "max_depth"},
         turn' = Closed(t),
         chain' = [chain EXCEPT ![c] = [Ended(@, "stopped", verdict)
                                          EXCEPT !.from = turn[t].seat, !.to = s]]
  PROVE  IInv' /\ Room!Next
<1>f. held' = held \ {t} /\ UNCHANGED <<room, seat, edits, restarts>>
  BY DEF Finishes
<1>t. /\ turn' \in [Turns -> TurnType] /\ turn[t].seat \in Seats
      /\ \A u \in Turns \ {t} : turn'[u] = turn[u]
      /\ turn'[t].state = "settled" /\ turn'[t].reply = Reply(turn[t].end)
      /\ Reply(turn[t].end) \in {"complete", "interrupted", "failed"}
      /\ turn[t].reply = "streaming"
      /\ turn'[t].chain = turn[t].chain /\ turn'[t].seat = turn[t].seat
      /\ turn'[t].from = turn[t].from
  BY ClosedEffect
<1> DEFINE D == [chain[c] EXCEPT !.status = "stopped", !.reason = verdict,
                                 !.from = turn[t].seat, !.to = s]
<1>x. chain' = [chain EXCEPT ![c] = D] /\ chain \in [Chains -> ChainType] /\ chain[c] \in ChainType
  BY DEF IInv, TypeOK, Ended, ChainType
<1>d. /\ D \in ChainType /\ D.used = chain[c].used /\ D.from = turn[t].seat /\ D.to = s
      /\ D.depth = chain[c].depth /\ D.visited = chain[c].visited
      /\ D.status = "stopped" /\ D.cap = chain[c].cap
  BY <1>x, <1>t DEF ChainType
<1> HIDE DEF D
<1>c. /\ chain' \in [Chains -> ChainType] /\ chain'[c] = D
      /\ \A d \in Chains \ {c} : chain'[d] = chain[d]
  BY <1>d, <1>x
<1>u. turn[t].state = "ended" /\ \A u \in Turns : turn[u].chain \in Chains \cup {None}
  BY DEF Finishes, IInv, TypeOK, TurnType
<1>1. TypeOK'
  BY <1>f, <1>t, <1>c DEF IInv, TypeOK
<1>2. SeatsKnown'
  BY <1>t, <1>c, <1>d, <1>u DEF IInv, SeatsKnown
<1>3. EndsKnown' /\ OpenReplyIsHeld'
  BY <1>f, <1>t DEF IInv, EndsKnown, OpenReplyIsHeld
<1>4. ChainsKnown'
  <2>1. \A d \in Chains : chain[d].status # "none" => chain'[d].status # "none"
    BY <1>c, <1>d
  <2> QED BY <1>t, <1>u, <2>1 DEF IInv, ChainsKnown
<1>5. RowKnowsPasses' /\ DepthHolds'
  BY <1>t, <1>c, <1>d, NothingPassed
<1>6. ActiveIsCarried'
  <2>1. \A d \in Chains, u \in Turns : d # c /\ Carries(u, d) => Carries(u, d)'
    BY <1>t DEF Carries
  <2>2. \A d \in Chains : Active(d)' => Active(d) /\ d # c
    BY <1>c, <1>d DEF Active
  <2> QED BY <2>1, <2>2 DEF IInv, ActiveIsCarried
<1>7. Room!Next
  <2>1. \A u \in Turns : Kept(u) /\ Room!Speaks(u)
    BY <1>t, RoomReads DEF Kept
  <2>2. Room!SameRules(c) /\ Room!Stand(c, "active", "stopped")
    BY <1>c, <1>d, RoomReads DEF Active
  <2>3. Room!Ends(c)
    BY <2>2 DEF Room!Ends
  <2>4. \A d \in Chains \ {c} : Room!Stays(d)
    BY <1>c, RoomReads
  <2> QED BY <2>1, <2>3, <2>4, Resting
<1> QED BY <1>1, <1>2, <1>3, <1>4, <1>5, <1>6, <1>7 DEF IInv

\* One more pass of a chain, or its guard.
LEMMA FinishPassesStep ==
  ASSUME IInv, NEW t \in Turns, NEW s \in Seats, NEW next \in Turns, FinishPasses(t, s, next)
  PROVE  IInv' /\ Room!Next
<1>1. turn[t].chain \in Chains \cup {None} /\ turn[t].chain # None
  BY DEF FinishPasses, IInv, TypeOK, TurnType
<1> PICK c \in Chains : c = turn[t].chain
  BY <1>1
<1> DEFINE verdict == Judge(chain[c], turn[t].seat, s, FALSE)
<1>2. Finishes(t) /\ Active(c) /\ Mentions(t, s)
  BY <1>1 DEF FinishPasses, Mentions
<1>3. verdict \in {"loop_detected", "max_depth", "go"}
  BY DEF Judge
<1>4. CASE /\ verdict = "go" /\ FreshTurn(next)
           /\ turn' = [Closed(t) EXCEPT ![next] = Asked(s, turn[t].seat, c)]
           /\ chain' = [chain EXCEPT ![c] = Passed(@, turn[t].seat, s)]
  BY <1>2, <1>4, FinishPassesOn
<1>5. CASE /\ verdict # "go" /\ turn' = Closed(t)
           /\ chain' = [chain EXCEPT ![c] = [Ended(@, "stopped", verdict)
                                                EXCEPT !.from = turn[t].seat, !.to = s]]
  <2>1. verdict \in {"loop_detected", "max_depth"}
    BY <1>3, <1>5
  <2> HIDE DEF verdict
  <2> QED BY <1>2, <1>5, <2>1, FinishPassesStopped
<1> QED BY <1>4, <1>5 DEF FinishPasses

\* A person lets a stopped chain pass once more.
LEMMA ContinueStep ==
  ASSUME IInv, NEW c \in Chains, NEW next \in Turns, Continue(c, next)
  PROVE  IInv' /\ Room!Next
<1> DEFINE from == chain[c].from
           to   == chain[c].to
           P    == Passed(chain[c], from, to)
           cap  == IF P.cap # None /\ P.cap < P.depth THEN P.depth ELSE P.cap
           D    == [P EXCEPT !.status = "active", !.reason = "none", !.used = TRUE, !.cap = cap]
<1>0. /\ chain[c].status = "stopped" /\ chain[c].used = FALSE /\ FreshTurn(next)
      /\ UNCHANGED <<room, seat, held, edits, restarts>>
      /\ chain \in [Chains -> ChainType] /\ chain[c] \in ChainType /\ turn \in [Turns -> TurnType]
  BY DEF Continue, IInv, TypeOK, ChainType
<1>f. turn[next] = NoTurn /\ turn[next].state = "none" /\ turn[next].chain = None
  BY <1>0 DEF FreshTurn, NoTurn
<1>t. from \in Seats /\ to \in Seats
  BY <1>0 DEF IInv, SeatsKnown
<1>p. /\ P \in ChainType /\ P.from = from /\ P.to = to /\ P.depth = chain[c].depth + 1
      /\ P.visited = chain[c].visited \cup {<<from, to>>} /\ P.cap = chain[c].cap
  BY <1>0, <1>t, PassedRow
<1>r. /\ cap \in Nat \cup {None} /\ chain[c].depth \in Nat
      /\ cap # None => chain[c].depth + 1 <= cap
  <2>1. P.cap \in Nat \cup {None} /\ P.depth \in Nat /\ chain[c].depth \in Nat
    BY <1>0, <1>p DEF ChainType
  <2> HIDE DEF P
  <2> QED BY <1>p, <2>1
<1>x. chain' = [chain EXCEPT ![c] = D]
  BY DEF Continue
<1>y. turn' = [turn EXCEPT ![next] = Asked(to, from, c)]
  BY DEF Continue
<1> HIDE DEF P, cap, from, to
<1>d. /\ D \in ChainType /\ D.used = TRUE /\ D.from = from /\ D.to = to
      /\ D.depth = chain[c].depth + 1 /\ D.visited = chain[c].visited \cup {<<from, to>>}
      /\ D.status = "active" /\ D.cap = cap
  BY <1>p, <1>r DEF ChainType
<1> HIDE DEF D
<1>c. /\ chain' \in [Chains -> ChainType] /\ chain'[c] = D
      /\ \A d \in Chains \ {c} : chain'[d] = chain[d]
  BY <1>0, <1>d, <1>x
<1>1. /\ turn' \in [Turns -> TurnType]
      /\ turn'[next].chain = c /\ turn'[next].from = from /\ turn'[next].seat = to
      /\ turn'[next].state = "asked" /\ turn'[next].reply = "none"
      /\ \A u \in Turns \ {next} : turn'[u] = turn[u]
  <2> DEFINE A == Asked(to, from, c)
  <2>1. /\ A \in TurnType /\ A.chain = c /\ A.from = from /\ A.seat = to
        /\ A.state = "asked" /\ A.reply = "none"
    BY <1>t, AskedRow
  <2>2. turn' = [turn EXCEPT ![next] = A]
    BY <1>y
  <2> HIDE DEF A
  <2> QED BY <1>0, <2>1, <2>2
<1>o. \A u \in Turns \ {next} : turn'[u].reply = "streaming" => u \in held'
  BY <1>0, <1>1 DEF IInv, OpenReplyIsHeld
<1>k. SeatsKnown' /\ EndsKnown' /\ ChainsKnown' /\ OpenReplyIsHeld'
  BY <1>1, <1>o, <1>c, <1>d, <1>t, PassedOn
<1>2. TypeOK'
  BY <1>0, <1>1, <1>c DEF IInv, TypeOK
<1>3. /\ RowKnowsPasses' /\ Cardinality(chain[c].visited) \in Nat
      /\ Cardinality(chain'[c].visited) >= Cardinality(chain[c].visited)
      /\ Cardinality(chain'[c].visited) \in Nat
  <2>1. /\ chain'[c].depth = chain[c].depth + 1
        /\ chain'[c].visited = chain[c].visited \cup {Pair(next)'}
    BY <1>1, <1>c, <1>d DEF Pair
  <2>2. /\ RowKnowsPasses' /\ Cardinality(chain[c].visited) \in Nat
        /\ Cardinality(chain'[c].visited) >= Cardinality(chain[c].visited)
    BY <1>1, <1>f, <1>c, <2>1, OnePassed
  <2>3. IsFiniteSet(chain'[c].visited)
    BY <2>2 DEF RowKnowsPasses
  <2> QED BY <2>2, <2>3, FS_CardinalityType
<1>4. DepthHolds'
  <2>1. chain'[c].cap # None => chain'[c].depth <= chain'[c].cap
    BY <1>c, <1>d, <1>r
  <2>2. chain'[c].depth <= Cardinality(chain'[c].visited) + 1 /\ chain'[c].used
    <3>1. chain[c].depth <= Cardinality(chain[c].visited) + 0
      BY <1>0 DEF IInv, DepthHolds
    <3>2. chain'[c].depth = chain[c].depth + 1 /\ chain'[c].used
      BY <1>c, <1>d
    <3> QED BY <1>3, <1>r, <3>1, <3>2
  <2> QED BY <1>c, <2>1, <2>2 DEF IInv, DepthHolds
<1>5. ActiveIsCarried'
  <2>1. Carries(next, c)'
    BY <1>1 DEF Carries
  <2>2. \A d \in Chains \ {c}, u \in Turns : Carries(u, d) => Carries(u, d)'
    BY <1>1, <1>f, NothingIsNew DEF Carries
  <2>3. \A d \in Chains \ {c} : Active(d)' => Active(d)
    BY <1>c DEF Active
  <2> QED BY <2>1, <2>2, <2>3 DEF IInv, ActiveIsCarried
<1>6. Room!Next
  <2>1. \A u \in Turns \ {next} : Kept(u) /\ Room!Speaks(u)
    BY <1>1, RoomReads DEF Kept
  <2>2. Room!Speaks(next)
    BY <1>1, <1>f, RoomReads DEF NoTurn
  <2>3. \A d \in Chains \ {c} : Room!Stays(d)
    BY <1>c, RoomReads
  <2>4. Room!Stand(c, "stopped", "active") /\ ~ chain[c].used /\ chain'[c].used
    BY <1>0, <1>c, <1>d, RoomReads
  <2>5. Room!More(c) = chain[c].depth + 1
    BY RoomReads DEF IInv, RowKnowsPasses
  <2>6. chain'[c].cap = IF chain[c].cap # None /\ chain[c].cap < Room!More(c)
                        THEN Room!More(c) ELSE chain[c].cap
    BY <1>c, <1>d, <1>p, <2>5 DEF cap
  <2>7. <<turn'[next].from, turn'[next].seat>> \in Seats \X Seats
    BY <1>1, <1>t
  <2>8. Room!LetGo(next, c)
    BY <2>4, <2>6, <2>7 DEF Room!LetGo
  <2> QED BY <1>1, <1>f, <2>1, <2>2, <2>3, <2>8, Coming
<1> QED BY <1>k, <1>2, <1>3, <1>4, <1>5, <1>6 DEF IInv

\* Stopping chains, whichever, leaves what their rows know.
LEMMA ChainsStopped ==
  ASSUME IInv, NEW S \in SUBSET Chains, UNCHANGED <<turn, held, room>>,
         seat' \in [Seats -> {"in", "left"}], edits' \in Nat, restarts' \in Nat,
         \A c \in S : chain[c].status = "active",
         chain' = [c \in Chains |-> IF c \in S THEN Ended(chain[c], "stopped", "interrupted")
                                               ELSE chain[c]]
  PROVE  IInv' /\ Room!Next
<1>1. \A C \in ChainType :
        LET D == Ended(C, "stopped", "interrupted")
        IN  /\ D \in ChainType /\ D.status = "stopped" /\ D.depth = C.depth /\ D.cap = C.cap
            /\ D.visited = C.visited /\ D.used = C.used /\ D.from = C.from /\ D.to = C.to
  BY DEF Ended, ChainType
<1>2. /\ chain \in [Chains -> ChainType] /\ \A c \in Chains : chain[c] \in ChainType
      /\ \A u \in Turns : turn[u].chain \in Chains \cup {None}
  BY DEF IInv, TypeOK, TurnType
<1>3. /\ chain' \in [Chains -> ChainType]
      /\ \A c \in Chains :
           /\ chain'[c].depth = chain[c].depth /\ chain'[c].cap = chain[c].cap
           /\ chain'[c].visited = chain[c].visited /\ chain'[c].used = chain[c].used
           /\ chain'[c].from = chain[c].from /\ chain'[c].to = chain[c].to
           /\ chain'[c].status # "none" <=> chain[c].status # "none"
           /\ chain'[c].status = "active" => chain[c].status = "active"
           /\ \/ chain'[c].status = chain[c].status
              \/ chain[c].status = "active" /\ chain'[c].status = "stopped"
  BY <1>1, <1>2
<1>4. TypeOK'
  BY <1>3 DEF IInv, TypeOK
<1>5. SeatsKnown' /\ EndsKnown' /\ OpenReplyIsHeld'
  BY <1>3 DEF IInv, SeatsKnown, EndsKnown, OpenReplyIsHeld
<1>6. ChainsKnown'
  BY <1>2, <1>3 DEF IInv, ChainsKnown
<1>7. RowKnowsPasses' /\ DepthHolds'
  BY <1>3, NothingPassed
<1>8. ActiveIsCarried'
  BY <1>3 DEF IInv, ActiveIsCarried, Active, Carries
<1>9. Room!Next
  <2>1. \A u \in Turns : Kept(u) /\ Room!Speaks(u)
    BY RoomReads DEF Kept
  <2>2. \A c \in Chains : Room!Stays(c) \/ Room!Ends(c)
    BY <1>3, RoomReads DEF Room!Ends
  <2> QED BY <2>1, <2>2, Resting
<1> QED BY <1>4, <1>5, <1>6, <1>7, <1>8, <1>9 DEF IInv

\* A seat is stopped, or stopped and removed.
LEMMA StopStep ==
  ASSUME IInv, NEW s \in Seats, StopSeat(s) \/ RemoveSeat(s)
  PROVE  IInv' /\ Room!Next
<1> DEFINE S == {c \in Chains : Active(c) /\ s \in {chain[c].from, chain[c].to}}
<1>1. S \in SUBSET Chains /\ \A c \in S : chain[c].status = "active"
  BY DEF Active
<1>2. chain' = [c \in Chains |-> IF c \in S THEN Ended(chain[c], "stopped", "interrupted")
                                            ELSE chain[c]]
  BY DEF StopSeat, RemoveSeat, StoppedOf
<1>3. /\ UNCHANGED <<turn, held, room>> /\ seat' \in [Seats -> {"in", "left"}]
      /\ edits' \in Nat /\ restarts' \in Nat
  BY DEF StopSeat, RemoveSeat, Edits, IInv, TypeOK
<1> HIDE DEF S
<1> QED BY <1>1, <1>2, <1>3, ChainsStopped

\* The rules of the room.
LEMMA SetRulesStep ==
  ASSUME IInv, NEW on \in BOOLEAN, NEW cap \in Caps, SetRules(on, cap)
  PROVE  IInv' /\ Room!Next
<1> USE DEF IInv, SetRules
<1>1. TypeOK'
  BY DEF TypeOK, Edits
<1>2. SeatsKnown' /\ EndsKnown' /\ ChainsKnown' /\ OpenReplyIsHeld'
  BY DEF SeatsKnown, EndsKnown, ChainsKnown, OpenReplyIsHeld
<1>3. RowKnowsPasses' /\ DepthHolds'
  BY NothingPassed
<1>4. ActiveIsCarried'
  BY DEF ActiveIsCarried, Active, Carries
<1>5. Room!Next
  <2>1. (\A t \in Turns : Kept(t) /\ Room!Speaks(t)) /\ \A c \in Chains : Room!Stays(c)
    BY RoomReads DEF Kept
  <2> QED BY <2>1, Resting
<1> QED BY <1>1, <1>2, <1>3, <1>4, <1>5

\* A restart settles every turn and stops every active chain.
LEMMA RestartStep ==
  ASSUME IInv, Restart
  PROVE  IInv' /\ Room!Next
<1>0. /\ turn \in [Turns -> TurnType] /\ chain \in [Chains -> ChainType]
      /\ turn' = [t \in Turns |-> Settled(turn[t])]
      /\ chain' = [c \in Chains |-> IF Active(c) THEN Ended(chain[c], "stopped", "interrupted")
                                                 ELSE chain[c]]
      /\ held' = {} /\ UNCHANGED <<room, seat, edits>> /\ restarts' = restarts + 1
  BY DEF Restart, IInv, TypeOK
<1>1. \A T \in TurnType :
        LET U == Settled(T)
        IN  /\ U \in TurnType /\ U.chain = T.chain /\ U.seat = T.seat /\ U.from = T.from
            /\ T.state = "none" => U = T
            /\ T.state # "none" => /\ U.state = "settled"
                                   /\ \/ U.reply = T.reply /\ T.reply # "streaming"
                                      \/ /\ T.reply = "streaming"
                                         /\ U.reply \in {"complete", "interrupted"}
  <2> SUFFICES ASSUME NEW T \in TurnType, T.state # "none"
               PROVE  LET U == Settled(T)
                      IN  /\ U \in TurnType /\ U.chain = T.chain /\ U.seat = T.seat
                          /\ U.from = T.from /\ U.state = "settled"
                          /\ \/ U.reply = T.reply /\ T.reply # "streaming"
                             \/ /\ T.reply = "streaming"
                                /\ U.reply \in {"complete", "interrupted"}
    BY DEF Settled
  <2> DEFINE r == IF T.reply # "streaming" THEN T.reply
                  ELSE IF T.end = "succeeded" THEN "complete" ELSE "interrupted"
  <2>1. Settled(T) = [T EXCEPT !.state = "settled", !.end = None, !.reply = r]
    BY DEF Settled, TurnType
  <2>2. /\ r \in {"none", "complete", "interrupted", "failed"}
        /\ \/ r = T.reply /\ T.reply # "streaming"
           \/ T.reply = "streaming" /\ r \in {"complete", "interrupted"}
    BY DEF TurnType
  <2> HIDE DEF r
  <2>3. LET U == [T EXCEPT !.state = "settled", !.end = None, !.reply = r]
        IN  /\ U \in TurnType /\ U.chain = T.chain /\ U.seat = T.seat
            /\ U.from = T.from /\ U.state = "settled" /\ U.reply = r
    BY <2>2 DEF TurnType
  <2> HIDE DEF Settled
  <2> QED BY <2>1, <2>2, <2>3
<1>2. /\ turn' \in [Turns -> TurnType]
      /\ \A t \in Turns :
           /\ turn'[t].chain = turn[t].chain /\ turn'[t].seat = turn[t].seat
           /\ turn'[t].from = turn[t].from
           /\ turn[t].state = "none" => turn'[t] = turn[t]
           /\ turn[t].state # "none" => /\ turn'[t].state = "settled"
                                        /\ \/ turn'[t].reply = turn[t].reply
                                              /\ turn[t].reply # "streaming"
                                           \/ /\ turn[t].reply = "streaming"
                                              /\ turn'[t].reply \in {"complete", "interrupted"}
  BY <1>0, <1>1
<1>3. \A C \in ChainType :
        LET D == Ended(C, "stopped", "interrupted")
        IN  /\ D \in ChainType /\ D.status = "stopped" /\ D.depth = C.depth /\ D.cap = C.cap
            /\ D.visited = C.visited /\ D.used = C.used /\ D.from = C.from /\ D.to = C.to
  BY DEF Ended, ChainType
<1>4. /\ chain' \in [Chains -> ChainType]
      /\ \A c \in Chains :
           /\ chain'[c].depth = chain[c].depth /\ chain'[c].cap = chain[c].cap
           /\ chain'[c].visited = chain[c].visited /\ chain'[c].used = chain[c].used
           /\ chain'[c].from = chain[c].from /\ chain'[c].to = chain[c].to
           /\ chain'[c].status # "none" <=> chain[c].status # "none"
           /\ chain'[c].status # "active"
           /\ \/ chain'[c].status = chain[c].status
              \/ chain[c].status = "active" /\ chain'[c].status = "stopped"
  <2>1. \A c \in Chains : Active(c) <=> chain[c].status = "active"
    BY NothingIsNew DEF Active
  <2> QED BY <1>0, <1>3, <2>1
<1>5. TypeOK'
  BY <1>0, <1>2, <1>4 DEF IInv, TypeOK
<1>6. SeatsKnown' /\ EndsKnown'
  BY <1>2, <1>4 DEF IInv, SeatsKnown, EndsKnown
<1>7. ChainsKnown'
  <2>1. \A u \in Turns : turn[u].chain \in Chains \cup {None}
    BY <1>0 DEF TurnType
  <2> QED BY <1>2, <1>4, <2>1 DEF IInv, ChainsKnown
<1>8. OpenReplyIsHeld'
  BY <1>2, <1>0 DEF IInv, EndsKnown, OpenReplyIsHeld
<1>9. RowKnowsPasses' /\ DepthHolds'
  BY <1>2, <1>4, NothingPassed
<1>10. ActiveIsCarried'
  BY <1>4 DEF ActiveIsCarried, Active
<1>11. Room!Next
  <2>1. \A u \in Turns : Kept(u) /\ Room!Speaks(u)
    BY <1>2, RoomReads DEF Kept
  <2>2. \A c \in Chains : Room!Stays(c) \/ Room!Ends(c)
    BY <1>4, RoomReads DEF Room!Ends
  <2> QED BY <2>1, <2>2, Resting
<1> QED BY <1>5, <1>6, <1>7, <1>8, <1>9, <1>10, <1>11 DEF IInv

-----------------------------------------------------------------------------
LEMMA StepHolds ==
  ASSUME IInv, [Next]_vars
  PROVE  IInv' /\ (Room!Next \/ UNCHANGED Room!handoffVars)
<1>1. ASSUME NEW t \in Turns, NEW s \in Seats, Post(t, s) PROVE IInv' /\ Room!Next
  BY <1>1, PostStep
<1>2. ASSUME NEW c \in Chains, NEW t \in Turns, Continue(c, t) PROVE IInv' /\ Room!Next
  BY <1>2, ContinueStep
<1>3. ASSUME NEW s \in Seats, StopSeat(s) \/ RemoveSeat(s) PROVE IInv' /\ Room!Next
  BY <1>3, StopStep
<1>4. ASSUME NEW on \in BOOLEAN, NEW cap \in Caps, SetRules(on, cap) PROVE IInv' /\ Room!Next
  BY <1>4, SetRulesStep
<1>5. ASSUME NEW t \in Turns, Start(t) PROVE IInv' /\ Room!Next
  BY <1>5, StartedStep, StartFailsStep DEF Start
<1>6. ASSUME NEW t \in Turns, Run(t) PROVE IInv' /\ Room!Next
  BY <1>6, RunEndsStep DEF Run
<1>7. ASSUME NEW t \in Turns, Finish(t) PROVE IInv' /\ Room!Next
  BY <1>7, FinishQuietlyStep, FinishOpensChainStep, FinishPassesStep DEF Finish
<1>8. CASE Restart
  BY <1>8, RestartStep
<1>9. CASE UNCHANGED vars
  <2> USE <1>9 DEF vars, IInv
  <2>1. TypeOK'
    BY DEF TypeOK
  <2>2. SeatsKnown' /\ EndsKnown' /\ ChainsKnown' /\ OpenReplyIsHeld'
    BY DEF SeatsKnown, EndsKnown, ChainsKnown, OpenReplyIsHeld
  <2>3. RowKnowsPasses' /\ DepthHolds'
    BY NothingPassed
  <2>4. ActiveIsCarried'
    BY DEF ActiveIsCarried, Active, Carries
  <2>5. UNCHANGED Room!handoffVars
    BY DEF Room!handoffVars
  <2> QED BY <2>1, <2>2, <2>3, <2>4, <2>5
<1> QED BY <1>1, <1>2, <1>3, <1>4, <1>5, <1>6, <1>7, <1>8, <1>9 DEF Next, People

\* The rows of the chains agree with the turns, in every reachable state of the room.
THEOREM RoomInvariance == Spec => []IInv
<1>1. Init => IInv
  BY InitHolds
<1>2. IInv /\ [Next]_vars => IInv'
  BY StepHolds
<1> QED BY <1>1, <1>2, PTL DEF Spec

\* The types, for any seats, depths and bounds.
THEOREM RoomTypes == Spec => []TypeOK
<1>1. IInv => TypeOK
  BY DEF IInv
<1> QED BY <1>1, RoomInvariance, PTL

\* No chain is left active with nobody to carry it on.
THEOREM NoChainIsOrphaned == Spec => []ActiveIsCarried
<1>1. IInv => ActiveIsCarried
  BY DEF IInv
<1> QED BY <1>1, RoomInvariance, PTL

\* No reply streams for ever: an open one has its run followed.
THEOREM NoReplyStreamsForEver == Spec => []OpenReplyIsHeld
<1>1. IInv => OpenReplyIsHeld
  BY DEF IInv
<1> QED BY <1>1, RoomInvariance, PTL

\* The guard of the handoffs holds, whoever passes, continues or restarts.
THEOREM TheGuardHolds == Spec => []ChainIsBounded
<1>1. IInv => ChainIsBounded
  BY DEF IInv, RowKnowsPasses, DepthHolds, ChainIsBounded
<1> QED BY <1>1, RoomInvariance, PTL

\* The room keeps what Handoffs promises, for any seats, depths and bounds (conductor.ts,
\* context.ts): every step of the room is a step of it, or shows nothing.
THEOREM RoomKeepsHandoffs == Spec => KeepsHandoffs
<1>1. Init => Room!Init
  BY DEF Init, NoTurn, NoChain, Room!Init, Room!Absent
<1>2. IInv /\ [Next]_vars => [Room!Next]_(Room!handoffVars)
  BY StepHolds
<1> QED BY <1>1, <1>2, RoomInvariance, PTL DEF Spec, KeepsHandoffs, Room!Spec
=============================================================================
