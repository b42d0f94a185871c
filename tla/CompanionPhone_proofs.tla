------------------------ MODULE CompanionPhone_proofs ------------------------
(***************************************************************************)
(* Proofs about the companion: first its server, for every set of sessions *)
(* and messages and every size of the map, the log and the history; then   *)
(* the page and the server together, for any network and any number of     *)
(* snapshots on their way.                                                 *)
(***************************************************************************)
EXTENDS CompanionPhone, FiniteSetTheorems, SequenceTheorems, TLAPS

\* LastOf keeps the end of a sequence.
LEMMA LastOfIsSuffix ==
  ASSUME NEW S, NEW q \in Seq(S), NEW n \in Nat \ {0}
  PROVE  /\ LastOf(q, n) \in Seq(S)
         /\ Len(LastOf(q, n)) <= Len(q)
         /\ \A i \in 1..Len(LastOf(q, n)) :
              LastOf(q, n)[i] = q[i + Len(q) - Len(LastOf(q, n))]
<1>1. CASE Len(q) <= n
  BY <1>1 DEF LastOf
<1>2. CASE ~(Len(q) <= n)
  <2>1. LastOf(q, n) = SubSeq(q, Len(q) - n + 1, Len(q))
    BY <1>2 DEF LastOf
  <2>2. Len(q) - n + 1 \in 1..Len(q)
    BY <1>2
  <2>3. /\ SubSeq(q, Len(q) - n + 1, Len(q)) \in Seq(S)
        /\ Len(SubSeq(q, Len(q) - n + 1, Len(q))) = n
        /\ \A i \in 1..n : SubSeq(q, Len(q) - n + 1, Len(q))[i] = q[i + Len(q) - n]
    BY <2>2
  <2>4. QED
    BY <1>2, <2>1, <2>3
<1>3. QED
  BY <1>1, <1>2

\* LastOf of a concatenation, element by element.
LEMMA LastOfConcat ==
  ASSUME NEW S, NEW q \in Seq(S), NEW p \in Seq(S), NEW n \in Nat \ {0}
  PROVE  \E d \in Nat :
           /\ Len(LastOf(q \o p, n)) + d = Len(q) + Len(p)
           /\ \A i \in 1..Len(LastOf(q \o p, n)) :
                /\ i + d <= Len(q) => LastOf(q \o p, n)[i] = q[i + d]
                /\ i + d > Len(q) => /\ LastOf(q \o p, n)[i] = p[i + d - Len(q)]
                                     /\ i + d - Len(q) \in 1..Len(p)
<1>1. /\ q \o p \in Seq(S) /\ Len(q \o p) = Len(q) + Len(p)
      /\ \A i \in 1..(Len(q) + Len(p)) :
           (q \o p)[i] = IF i <= Len(q) THEN q[i] ELSE p[i - Len(q)]
  BY ConcatProperties, Zenon
<1>2. PICK r : r = q \o p
  OBVIOUS
<1>3. PICK l : l = LastOf(r, n)
  OBVIOUS
<1>4. /\ l \in Seq(S) /\ Len(l) <= Len(r)
      /\ \A i \in 1..Len(l) : l[i] = r[i + Len(r) - Len(l)]
  BY <1>1, <1>2, <1>3, LastOfIsSuffix
<1>5. /\ r \in Seq(S) /\ Len(r) = Len(q) + Len(p)
      /\ \A i \in 1..Len(r) : r[i] = IF i <= Len(q) THEN q[i] ELSE p[i - Len(q)]
  BY <1>1, <1>2
<1>6. \E d \in Nat :
        /\ Len(l) + d = Len(q) + Len(p)
        /\ \A i \in 1..Len(l) :
             /\ i + d <= Len(q) => l[i] = q[i + d]
             /\ i + d > Len(q) => l[i] = p[i + d - Len(q)] /\ i + d - Len(q) \in 1..Len(p)
  <2>1. Len(r) - Len(l) \in Nat /\ Len(l) + (Len(r) - Len(l)) = Len(q) + Len(p)
    BY <1>4, <1>5
  <2>2. ASSUME NEW i \in 1..Len(l), NEW d \in Nat, d = Len(r) - Len(l)
        PROVE  /\ i + d <= Len(q) => l[i] = q[i + d]
               /\ i + d > Len(q) => l[i] = p[i + d - Len(q)] /\ i + d - Len(q) \in 1..Len(p)
    <3>1. l[i] = r[i + d] /\ i + d \in 1..Len(r)
      BY <1>4, <1>5, <2>2
    <3>2. QED
      BY <1>5, <2>2, <3>1
  <2>3. QED
    BY <2>1, <2>2
<1>7. QED
  BY <1>2, <1>3, <1>6, Zenon

LEMMA LastOfLength ==
  ASSUME NEW S, NEW q \in Seq(S), NEW n \in Nat \ {0}
  PROVE  Len(LastOf(q, n)) = IF Len(q) <= n THEN Len(q) ELSE n
<1>1. Len(q) \in Nat
  OBVIOUS
<1>2. CASE ~(Len(q) <= n)
  <2>1. Len(SubSeq(q, Len(q) - n + 1, Len(q))) = n
    BY <1>1, <1>2, SubSeqProperties
  <2>2. QED
    BY <1>2, <2>1 DEF LastOf
<1>3. QED
  BY <1>2 DEF LastOf

LEMMA OpenCount == TypeOK => Cardinality(Open) \in Nat
BY SessionsAssumption, FS_Subset, FS_CardinalityType DEF Open

LEMMA TouchType ==
  ASSUME TypeOK, NEW s \in Sessions
  PROVE  Touch(s) \in [Sessions -> Nat]
BY OpenCount DEF Touch, TypeOK

LEMMA AbortedType ==
  ASSUME TypeOK, NEW D
  PROVE  /\ Aborted(D) \in [Turns -> Turn]
         /\ \A t \in Turns : /\ Aborted(D)[t].stage = turn[t].stage
                             /\ Aborted(D)[t].session = turn[t].session
                             /\ Aborted(D)[t].said = turn[t].said
BY DEF TypeOK, Aborted, Turn

LEMMA EventsFromType ==
  ASSUME NEW first \in Nat, NEW types \in Seq(EventType), NEW t \in Turns
  PROVE  /\ EventsFrom(first, types, t) \in Seq(Event)
         /\ Len(EventsFrom(first, types, t)) = Len(types)
         /\ \A i \in 1..Len(types) :
              EventsFrom(first, types, t)[i] = [id |-> first + i - 1, type |-> types[i], turn |-> t]
<1>1. \A i \in 1..Len(types) : [id |-> first + i - 1, type |-> types[i], turn |-> t] \in Event
  BY DEF Event
<1>2. QED
  BY <1>1 DEF EventsFrom

(***************************************************************************)
(* What push() does to the log of a session, element by element: d events  *)
(* were trimmed, the rest moved to the front, the new ones follow.         *)
(***************************************************************************)
LEMMA PushedLog ==
  ASSUME TypeOK, NEW s \in Sessions, NEW types \in Seq(EventType), NEW t \in Turns,
         Push(s, types, t)
  PROVE  /\ log' \in [Sessions -> Seq(Event)] /\ next' \in [Sessions -> Nat \ {0}]
         /\ next'[s] = next[s] + Len(types)
         /\ \A r \in Sessions \ {s} : log'[r] = log[r] /\ next'[r] = next[r]
         /\ \E d \in Nat :
              /\ Len(log'[s]) + d = Len(log[s]) + Len(types)
              /\ \A i \in 1..Len(log'[s]) :
                   log'[s][i] = IF i + d <= Len(log[s]) THEN log[s][i + d]
                                ELSE [id |-> next[s] + (i + d - Len(log[s])) - 1,
                                      type |-> types[i + d - Len(log[s])], turn |-> t]
<1>1. log[s] \in Seq(Event) /\ next[s] \in Nat \ {0} /\ Len(types) \in Nat
  BY DEF TypeOK
<1>2. PICK new : new = EventsFrom(next[s], types, t)
  OBVIOUS
<1>3. /\ new \in Seq(Event) /\ Len(new) = Len(types)
      /\ \A i \in 1..Len(types) :
           new[i] = [id |-> next[s] + i - 1, type |-> types[i], turn |-> t]
  BY <1>1, <1>2, EventsFromType
<1>4. PICK l : l = LastOf(log[s] \o new, MaxEvents)
  OBVIOUS
<1>5. log' = [log EXCEPT ![s] = l] /\ next' = [next EXCEPT ![s] = @ + Len(types)]
  BY <1>2, <1>4 DEF Push
<1>6. l \in Seq(Event)
  <2>1. log[s] \o new \in Seq(Event)
    BY <1>1, <1>3, ConcatProperties, Zenon
  <2>2. QED
    BY <1>4, <2>1, LastOfIsSuffix, BoundsAssumption
<1>7. PICK d \in Nat :
        /\ Len(l) + d = Len(log[s]) + Len(new)
        /\ \A i \in 1..Len(l) :
             /\ i + d <= Len(log[s]) => l[i] = log[s][i + d]
             /\ i + d > Len(log[s]) => /\ l[i] = new[i + d - Len(log[s])]
                                       /\ i + d - Len(log[s]) \in 1..Len(new)
  <2>1. MaxEvents \in Nat \ {0}
    BY BoundsAssumption
  <2>2. QED
    BY <1>1, <1>3, <1>4, <2>1, LastOfConcat, Zenon
<1>8. log'[s] = l
  BY <1>5 DEF TypeOK
<1>9. ASSUME NEW i \in 1..Len(l)
      PROVE  l[i] = IF i + d <= Len(log[s]) THEN log[s][i + d]
                    ELSE [id |-> next[s] + (i + d - Len(log[s])) - 1,
                          type |-> types[i + d - Len(log[s])], turn |-> t]
  <2>1. Len(log[s]) \in Nat /\ i \in Nat
    BY <1>1, <1>6
  <2>2. CASE i + d <= Len(log[s])
    BY <1>7, <2>2
  <2>3. CASE i + d > Len(log[s])
    <3>1. i + d - Len(log[s]) \in 1..Len(types) /\ l[i] = new[i + d - Len(log[s])]
      BY <1>3, <1>7, <2>3
    <3>2. new[i + d - Len(log[s])]
            = [id |-> next[s] + (i + d - Len(log[s])) - 1,
               type |-> types[i + d - Len(log[s])], turn |-> t]
      BY <1>3, <3>1
    <3>3. ~(i + d <= Len(log[s]))
      BY <2>1, <2>3
    <3>4. QED
      BY <3>1, <3>2, <3>3, Zenon
  <2>4. QED
    BY <2>1, <2>2, <2>3
<1>10. log' \in [Sessions -> Seq(Event)] /\ next' \in [Sessions -> Nat \ {0}]
  BY <1>1, <1>5, <1>6 DEF TypeOK
<1>11. /\ next'[s] = next[s] + Len(types)
       /\ \A r \in Sessions \ {s} : log'[r] = log[r] /\ next'[r] = next[r]
  BY <1>5 DEF TypeOK
<1>12. QED
  BY <1>3, <1>7, <1>8, <1>9, <1>10, <1>11

LEMMA PushedLength ==
  ASSUME TypeOK, NEW s \in Sessions, NEW types \in Seq(EventType), NEW t \in Turns,
         Push(s, types, t)
  PROVE  Len(log'[s]) = IF Len(log[s]) + Len(types) <= MaxEvents THEN Len(log[s]) + Len(types)
                        ELSE MaxEvents
<1>1. log[s] \in Seq(Event) /\ next[s] \in Nat
  BY DEF TypeOK
<1>2. PICK new : new = EventsFrom(next[s], types, t)
  OBVIOUS
<1>3. new \in Seq(Event) /\ Len(new) = Len(types)
  BY <1>1, <1>2, EventsFromType
<1>4. log[s] \o new \in Seq(Event) /\ Len(log[s] \o new) = Len(log[s]) + Len(new)
  BY <1>1, <1>3, ConcatProperties, Zenon
<1>5. PICK all : all = log[s] \o new
  OBVIOUS
<1>6. log'[s] = LastOf(all, MaxEvents)
  BY <1>2, <1>5 DEF Push, TypeOK
<1>7. all \in Seq(Event) /\ Len(all) = Len(log[s]) + Len(types)
  BY <1>3, <1>4, <1>5
<1>8. MaxEvents \in Nat \ {0}
  BY BoundsAssumption
<1>9. QED
  BY <1>6, <1>7, <1>8, LastOfLength

LEMMA PushType ==
  ASSUME TypeOK, NEW s \in Sessions, NEW types \in Seq(EventType), NEW t \in Turns,
         Push(s, types, t)
  PROVE  log' \in [Sessions -> Seq(Event)] /\ next' \in [Sessions -> Nat \ {0}]
BY PushedLog

LEMMA RememberType ==
  ASSUME TypeOK, NEW s \in Sessions, NEW role \in {"user", "assistant"}, NEW t \in Turns,
         NEW size \in Nat, Remember(s, role, t, size)
  PROVE  history' \in [Sessions -> Seq(Message)]
<1>1. history[s] \in Seq(Message)
  BY DEF TypeOK
<1>2. [role |-> role, turn |-> t, size |-> size] \in Message
  BY DEF Message
<1> DEFINE longer == Append(history[s], [role |-> role, turn |-> t, size |-> size])
<1>3. longer \in Seq(Message)
  BY <1>1, <1>2
<1>4. history' = [history EXCEPT ![s] = LastOf(longer, MaxHistory)]
  BY DEF Remember
<1> HIDE DEF longer
<1>5. LastOf(longer, MaxHistory) \in Seq(Message)
  BY <1>3, LastOfIsSuffix, BoundsAssumption
<1>6. QED
  BY <1>4, <1>5 DEF TypeOK

-----------------------------------------------------------------------------
\* A message that was posted has a session.
Posted == \A t \in Turns : turn[t].stage # "unused" => turn[t].session \in Sessions

LEMMA StreamEndsType ==
  ASSUME TypeOK, Posted, NEW t \in Turns, NEW type \in Terminal, StreamEnds(t, type)
  PROVE  TypeOK' /\ Posted'
<1>1. /\ turn[t].session \in Sessions /\ turn[t].said \in Nat /\ type \in EventType
  BY DEF StreamEnds, Posted, TypeOK, Turn, Terminal, EventType
<1>2. history' \in [Sessions -> Seq(Message)]
  BY <1>1, RememberType DEF StreamEnds, KeepAnswer, TypeOK
<1>3. log' \in [Sessions -> Seq(Event)] /\ next' \in [Sessions -> Nat \ {0}]
  <2>1. <<type>> \in Seq(EventType)
    BY <1>1
  <2>2. QED
    BY <1>1, <2>1, PushType DEF StreamEnds
<1>4. rank' \in [Sessions -> Nat]
  BY <1>1, TouchType DEF StreamEnds
<1>5. turn' \in [Turns -> Turn] /\ Posted'
  BY DEF StreamEnds, TypeOK, Turn, Stage, Posted
<1>6. QED
  BY <1>1, <1>2, <1>3, <1>4, <1>5 DEF StreamEnds, Release, TypeOK

LEMMA TurnStepType ==
  ASSUME TypeOK, Posted, NEW t \in Turns, TurnStep(t)
  PROVE  TypeOK' /\ Posted'
<1>1. CASE \E s \in Sessions : PostMessage(t, s)
  <2>1. PICK s \in Sessions : PostMessage(t, s)
    BY <1>1
  <2>2. turn' \in [Turns -> Turn] /\ Posted'
    <3>1. turn' = [turn EXCEPT ![t].stage = "body", ![t].session = s]
      BY <2>1 DEF PostMessage
    <3>2. turn \in [Turns -> Turn] /\ turn[t] \in Turn
      BY DEF TypeOK
    <3>3. turn'[t] \in Turn /\ turn'[t].session = s
      BY <3>1, <3>2 DEF Turn, Stage
    <3>4. turn' \in [Turns -> Turn] /\ \A u \in Turns \ {t} : turn'[u] = turn[u]
      BY <3>1, <3>2, <3>3
    <3>5. QED
      BY <3>3, <3>4 DEF Posted
  <2>3. QED
    BY <2>1, <2>2, TouchType DEF PostMessage, TypeOK, chats
<1>2. CASE BodyArrives(t)
  <2>1. turn[t].session \in Sessions
    BY <1>2 DEF BodyArrives, Posted
  <2>2. history' \in [Sessions -> Seq(Message)]
    BY <1>2, <2>1, RememberType DEF BodyArrives
  <2>3. log' \in [Sessions -> Seq(Event)] /\ next' \in [Sessions -> Nat \ {0}]
    <3>1. <<"user", "start">> \in Seq(EventType)
      BY DEF EventType
    <3>2. QED
      BY <1>2, <2>1, <3>1, PushType DEF BodyArrives
  <2>4. turn' \in [Turns -> Turn] /\ Posted'
    <3>1. PICK o \in BOOLEAN : o = (turn[t].session \notin Open)
      OBVIOUS
    <3>2. turn' = [turn EXCEPT ![t].stage = "streaming", ![t].orphan = o]
      BY <1>2, <3>1 DEF BodyArrives
    <3>3. turn[t].stage = "body" /\ turn[t] \in Turn
      BY <1>2 DEF BodyArrives, TypeOK
    <3>4. turn'[t] \in Turn /\ turn'[t].session = turn[t].session
      BY <3>2, <3>3 DEF TypeOK, Turn, Stage
    <3>5. turn' \in [Turns -> Turn] /\ \A u \in Turns \ {t} : turn'[u] = turn[u]
      BY <3>2, <3>4 DEF TypeOK
    <3>6. QED
      BY <2>1, <3>4, <3>5 DEF Posted
  <2>5. QED
    BY <1>2, <2>1, <2>2, <2>3, <2>4 DEF BodyArrives, TypeOK, sessions
<1>3. CASE BodyRefused(t)
  <2>1. turn' \in [Turns -> Turn] /\ Posted'
    BY <1>3 DEF BodyRefused, TypeOK, Turn, Stage, Posted
  <2>2. QED
    BY <1>3, <2>1 DEF BodyRefused, TypeOK, sessions, chats
<1>4. CASE Delta(t)
  <2>1. turn[t].session \in Sessions
    BY <1>4 DEF Delta, Posted
  <2>2. log' \in [Sessions -> Seq(Event)] /\ next' \in [Sessions -> Nat \ {0}]
    <3>1. <<"delta">> \in Seq(EventType)
      BY DEF EventType
    <3>2. QED
      BY <1>4, <2>1, <3>1, PushType DEF Delta
  <2>3. turn' = [turn EXCEPT ![t].said = turn[t].said + 1]
    BY <1>4 DEF Delta
  <2>4. turn[t] \in Turn /\ turn[t].said + 1 \in Nat
    BY DEF TypeOK, Turn
  <2>5. turn' \in [Turns -> Turn]
    BY <2>3, <2>4 DEF TypeOK, Turn
  <2>6. Posted'
    BY <2>3 DEF TypeOK, Posted
  <2>7. QED
    BY <1>4, <2>2, <2>5, <2>6 DEF Delta, TypeOK, sessions
<1>5. CASE Done(t) \/ Fails(t) \/ Cancelled(t)
  BY <1>5, StreamEndsType DEF Done, Fails, Cancelled, Terminal
<1>6. QED
  BY <1>1, <1>2, <1>3, <1>4, <1>5 DEF TurnStep

LEMMA CreateType ==
  ASSUME TypeOK, Posted, NEW s \in Sessions, CreateSession(s)
  PROVE  TypeOK' /\ Posted'
<1>1. PICK n \in 0..Cardinality(Open) :
        /\ rank' = [r \in Sessions |->
                      IF r = s THEN Cardinality(Open) - Evicted(n) + 1
                      ELSE IF rank[r] <= Evicted(n) THEN 0 ELSE rank[r] - Evicted(n)]
        /\ turn' = Aborted({r \in Open : rank[r] <= Evicted(n)})
  BY DEF CreateSession
<1>2. Evicted(n) \in 0..Cardinality(Open)
  BY OpenCount, BoundsAssumption DEF Evicted
<1>3. rank' \in [Sessions -> Nat]
  BY <1>1, <1>2, OpenCount DEF TypeOK
<1>4. turn' \in [Turns -> Turn] /\ Posted'
  BY <1>1, AbortedType DEF Posted
<1>5. QED
  BY <1>3, <1>4 DEF CreateSession, TypeOK, chats

LEMMA SessionStepType ==
  ASSUME TypeOK, Posted, NEW s \in Sessions, SessionStep(s)
  PROVE  TypeOK' /\ Posted'
<1>1. CASE CreateSession(s)
  BY <1>1, CreateType
<1>2. CASE Visit(s) \/ RefuseMessage(s)
  BY <1>2, TouchType DEF Visit, RefuseMessage, TypeOK, Posted, chats
<1>3. CASE CancelMessage(s)
  <2>1. turn' \in [Turns -> Turn] /\ Posted'
    BY <1>3, AbortedType DEF CancelMessage, AbortStream, Posted
  <2>2. QED
    BY <1>3, <2>1, TouchType DEF CancelMessage, TypeOK, chats
<1>4. QED
  BY <1>1, <1>2, <1>3 DEF SessionStep

LEMMA PruneType ==
  ASSUME TypeOK, Posted, Prune
  PROVE  TypeOK' /\ Posted'
<1>1. PICK n \in 1..Cardinality(Open) : DestroyOldest(n)
  BY DEF Prune
<1>2. rank' \in [Sessions -> Nat]
  BY <1>1, OpenCount DEF DestroyOldest, TypeOK
<1>3. turn' \in [Turns -> Turn] /\ Posted'
  BY <1>1, AbortedType DEF DestroyOldest, Posted
<1>4. QED
  BY <1>2, <1>3 DEF Prune, TypeOK, chats

LEMMA InitType == Init => TypeOK /\ Posted
BY DEF Init, NoMessages, TypeOK, Posted, UnusedTurn, Turn, Stage

LEMMA NextType == TypeOK /\ Posted /\ [Next]_vars => (TypeOK /\ Posted)'
<1>1. SUFFICES ASSUME TypeOK, Posted, [Next]_vars PROVE TypeOK' /\ Posted'
  OBVIOUS
<1>2. CASE UNCHANGED vars
  BY <1>1, <1>2 DEF vars, TypeOK, Posted
<1>3. QED
  BY <1>1, <1>2, TurnStepType, SessionStepType, PruneType DEF Next

\* Every reachable state of the companion server is well-typed.
THEOREM TypeCorrect == Spec => []TypeOK
<1>1. Spec => [](TypeOK /\ Posted)
  BY InitType, NextType, PTL DEF Spec
<1>2. QED
  BY <1>1, PTL

-----------------------------------------------------------------------------
(***************************************************************************)
(* The log.  AnswersEndOnce is inductive together with the fact that a log *)
(* tells only of turns of its session whose stream has begun: a new event  *)
(* is pushed by a stream that has not ended, so no terminal event of its   *)
(* turn can be there.                                                      *)
(***************************************************************************)
EventsOfSession ==
  \A s \in Sessions : \A i \in 1..Len(log[s]) :
    /\ turn[log[s][i].turn].session = s
    /\ turn[log[s][i].turn].stage \in {"streaming", "ended"}

LogInv == LogIsGapless /\ EventsOfSession /\ AnswersEndOnce

LEMMA EventTurn ==
  ASSUME TypeOK, NEW s \in Sessions, NEW i \in 1..Len(log[s])
  PROVE  log[s][i] \in Event /\ log[s][i].turn \in Turns
<1>1. log[s] \in Seq(Event)
  BY DEF TypeOK
<1>2. log[s][i] \in Event
  BY <1>1
<1>3. QED
  BY <1>2 DEF Event

\* Trimming d of l + k events leaves the last id where it belongs.
LEMMA Shift ==
  ASSUME NEW n \in Nat, NEW n2 \in Nat, NEW l \in Nat, NEW l2 \in Nat, NEW k \in Nat,
         NEW d \in Nat, NEW i \in Nat, n2 = n + k, l2 + d = l + k
  PROVE  /\ n - l + (i + d) - 1 = n2 - l2 + i - 1
         /\ n + (i + d - l) - 1 = n2 - l2 + i - 1
OBVIOUS

LEMMA PushKeepsIds ==
  ASSUME TypeOK, LogIsGapless, NEW s \in Sessions, NEW types \in Seq(EventType),
         NEW t \in Turns, Push(s, types, t)
  PROVE  LogIsGapless'
<1>1. PICK d \in Nat :
        /\ Len(log'[s]) + d = Len(log[s]) + Len(types)
        /\ \A i \in 1..Len(log'[s]) :
             log'[s][i] = IF i + d <= Len(log[s]) THEN log[s][i + d]
                          ELSE [id |-> next[s] + (i + d - Len(log[s])) - 1,
                                type |-> types[i + d - Len(log[s])], turn |-> t]
  BY PushedLog
<1>2. /\ next'[s] = next[s] + Len(types)
      /\ \A r \in Sessions \ {s} : log'[r] = log[r] /\ next'[r] = next[r]
  BY PushedLog
<1>3. /\ Len(log[s]) \in Nat /\ Len(log'[s]) \in Nat /\ Len(types) \in Nat
      /\ next[s] \in Nat /\ next'[s] \in Nat
  <2>1. log[s] \in Seq(Event) /\ log'[s] \in Seq(Event) /\ next[s] \in Nat /\ next'[s] \in Nat
    BY PushedLog DEF TypeOK
  <2>2. QED
    BY <2>1
<1>4. PICK l \in Nat, l2 \in Nat, k \in Nat, n \in Nat, n2 \in Nat :
        l = Len(log[s]) /\ l2 = Len(log'[s]) /\ k = Len(types) /\ n = next[s] /\ n2 = next'[s]
  BY <1>3
<1>5. n2 = n + k /\ l2 + d = l + k
  BY <1>1, <1>2, <1>4
<1>6. ASSUME NEW i \in 1..l2 PROVE log'[s][i].id = n2 - l2 + i - 1
  <2>1. /\ i \in Nat
        /\ n - l + (i + d) - 1 = n2 - l2 + i - 1
        /\ n + (i + d - l) - 1 = n2 - l2 + i - 1
    BY <1>5, Shift
  <2>2. CASE i + d <= l
    <3>1. log'[s][i] = log[s][i + d]
      BY <1>1, <1>4, <2>2
    <3>2. i + d \in 1..l
      BY <2>1, <2>2
    <3>3. log[s][i + d].id = n - l + (i + d) - 1
      BY <1>4, <3>2 DEF LogIsGapless
    <3>4. QED
      BY <2>1, <3>1, <3>3, Zenon
  <2>3. CASE ~(i + d <= l)
    <3>1. log'[s][i] = [id |-> n + (i + d - l) - 1, type |-> types[i + d - l], turn |-> t]
      BY <1>1, <1>4, <2>3, Zenon
    <3>2. log'[s][i].id = n + (i + d - l) - 1
      BY <3>1
    <3>3. QED
      BY <2>1, <3>2, Zenon
  <2>4. QED
    BY <2>2, <2>3
<1>7. QED
  BY <1>2, <1>4, <1>6 DEF LogIsGapless

\* Pushing events of a stream that has not ended keeps the log in order.
LEMMA PushKeepsLog ==
  ASSUME TypeOK, LogInv, NEW s \in Sessions, NEW types \in Seq(EventType), NEW t \in Turns,
         Push(s, types, t), turn[t].session = s, turn[t].stage # "ended",
         turn'[t].session = s, turn'[t].stage \in {"streaming", "ended"},
         \A u \in Turns \ {t} : turn'[u] = turn[u],
         \A k \in 1..Len(types) :
           types[k] \in Terminal => k = Len(types) /\ turn'[t].stage = "ended"
  PROVE  LogInv'
<1>1. PICK d \in Nat :
        /\ Len(log'[s]) + d = Len(log[s]) + Len(types)
        /\ \A i \in 1..Len(log'[s]) :
             log'[s][i] = IF i + d <= Len(log[s]) THEN log[s][i + d]
                          ELSE [id |-> next[s] + (i + d - Len(log[s])) - 1,
                                type |-> types[i + d - Len(log[s])], turn |-> t]
  BY PushedLog
<1>2. /\ next'[s] = next[s] + Len(types)
      /\ \A r \in Sessions \ {s} : log'[r] = log[r] /\ next'[r] = next[r]
  BY PushedLog
<1>3. /\ Len(log[s]) \in Nat /\ Len(log'[s]) \in Nat /\ Len(types) \in Nat /\ next[s] \in Nat
  <2>1. log[s] \in Seq(Event) /\ log'[s] \in Seq(Event) /\ next[s] \in Nat
    BY PushedLog DEF TypeOK
  <2>2. QED
    BY <2>1
\* An event of the new log is an old one or one of those pushed.
<1>4. ASSUME NEW i \in 1..Len(log'[s])
      PROVE  \/ /\ i + d \in 1..Len(log[s])
                /\ log'[s][i] = log[s][i + d]
             \/ /\ i + d > Len(log[s]) /\ i + d - Len(log[s]) \in 1..Len(types)
                /\ log'[s][i].id = next[s] + (i + d - Len(log[s])) - 1
                /\ log'[s][i].type = types[i + d - Len(log[s])]
                /\ log'[s][i].turn = t
  <2>1. CASE i + d <= Len(log[s])
    <3>1. log'[s][i] = log[s][i + d]
      BY <1>1, <2>1, Zenon
    <3>2. i + d \in 1..Len(log[s])
      BY <1>3, <2>1
    <3>3. QED
      BY <3>1, <3>2
  <2>2. CASE ~(i + d <= Len(log[s]))
    <3>1. log'[s][i] = [id |-> next[s] + (i + d - Len(log[s])) - 1,
                        type |-> types[i + d - Len(log[s])], turn |-> t]
      BY <1>1, <2>2, Zenon
    <3>2. i + d > Len(log[s]) /\ i + d - Len(log[s]) \in 1..Len(types)
      BY <1>1, <1>3, <2>2
    <3>3. QED
      BY <3>1, <3>2
  <2>3. QED
    BY <2>1, <2>2
\* No terminal event of t was in the log, and other logs do not mention t.
<1>5. \A i \in 1..Len(log[s]) : log[s][i].turn = t => log[s][i].type \notin Terminal
  BY DEF LogInv, AnswersEndOnce
<1>6. \A r \in Sessions \ {s} : \A i \in 1..Len(log[r]) :
        log[r][i].turn # t /\ log[r][i].turn \in Turns
  BY EventTurn DEF LogInv, EventsOfSession
<1>7. LogIsGapless'
  BY PushKeepsIds DEF LogInv
<1>8. EventsOfSession'
  <2>1. ASSUME NEW i \in 1..Len(log'[s])
        PROVE  /\ turn'[log'[s][i].turn].session = s
               /\ turn'[log'[s][i].turn].stage \in {"streaming", "ended"}
    <3>1. CASE i + d \in 1..Len(log[s]) /\ log'[s][i] = log[s][i + d]
      BY <3>1, EventTurn DEF LogInv, EventsOfSession
    <3>2. CASE log'[s][i].turn = t
      BY <3>2
    <3>3. QED
      BY <1>4, <3>1, <3>2
  <2>2. ASSUME NEW r \in Sessions \ {s}, NEW i \in 1..Len(log'[r])
        PROVE  /\ turn'[log'[r][i].turn].session = r
               /\ turn'[log'[r][i].turn].stage \in {"streaming", "ended"}
    BY <1>2, <1>6, <2>2 DEF LogInv, EventsOfSession
  <2>3. QED
    BY <2>1, <2>2 DEF EventsOfSession
<1>9. AnswersEndOnce'
  <2>1. ASSUME NEW i \in 1..Len(log'[s]), log'[s][i].type \in Terminal
        PROVE  /\ turn'[log'[s][i].turn].stage = "ended"
               /\ \A j \in (i + 1)..Len(log'[s]) : log'[s][j].turn # log'[s][i].turn
    <3>1. CASE i + d \in 1..Len(log[s]) /\ log'[s][i] = log[s][i + d]
      <4>1. log[s][i + d].turn \in Turns \ {t}
        BY <1>5, <2>1, <3>1, EventTurn
      <4>2. turn'[log'[s][i].turn].stage = "ended"
        BY <2>1, <3>1, <4>1 DEF LogInv, AnswersEndOnce
      <4>3. ASSUME NEW j \in (i + 1)..Len(log'[s]) PROVE log'[s][j].turn # log'[s][i].turn
        <5>1. j \in 1..Len(log'[s]) /\ j + d > i + d
          BY <1>3, <4>3
        <5>2. CASE j + d \in 1..Len(log[s]) /\ log'[s][j] = log[s][j + d]
          <6>1. j + d \in ((i + d) + 1)..Len(log[s])
            BY <1>3, <3>1, <5>1, <5>2
          <6>2. QED
            BY <2>1, <3>1, <5>2, <6>1 DEF LogInv, AnswersEndOnce
        <5>3. CASE log'[s][j].turn = t
          BY <3>1, <4>1, <5>3
        <5>4. QED
          BY <1>4, <5>1, <5>2, <5>3
      <4>4. QED
        BY <4>2, <4>3
    <3>2. CASE /\ i + d > Len(log[s]) /\ i + d - Len(log[s]) \in 1..Len(types)
               /\ log'[s][i].type = types[i + d - Len(log[s])]
               /\ log'[s][i].turn = t
      <4>1. i + d - Len(log[s]) = Len(types) /\ turn'[t].stage = "ended"
        BY <2>1, <3>2
      <4>2. i = Len(log'[s])
        BY <1>1, <1>3, <4>1
      <4>3. QED
        BY <1>3, <3>2, <4>1, <4>2
    <3>3. QED
      BY <1>4, <3>1, <3>2
  <2>2. ASSUME NEW r \in Sessions \ {s}, NEW i \in 1..Len(log'[r]),
               log'[r][i].type \in Terminal
        PROVE  /\ turn'[log'[r][i].turn].stage = "ended"
               /\ \A j \in (i + 1)..Len(log'[r]) : log'[r][j].turn # log'[r][i].turn
    <3>1. log'[r] = log[r]
      BY <1>2
    <3>2. turn'[log[r][i].turn] = turn[log[r][i].turn]
      BY <1>6, <2>2, <3>1
    <3>3. QED
      BY <2>2, <3>1, <3>2 DEF LogInv, AnswersEndOnce
  <2>3. QED
    BY <2>1, <2>2 DEF AnswersEndOnce
<1>10. QED
  BY <1>7, <1>8, <1>9 DEF LogInv

\* The log looks at no more of the turns than their stage and session.
LEMMA UntouchedLog ==
  ASSUME TypeOK, LogInv, UNCHANGED <<log, next>>,
         \A u \in Turns : \/ turn[u].stage \in {"unused", "body"}
                          \/ /\ turn'[u].stage = turn[u].stage
                             /\ turn'[u].session = turn[u].session
  PROVE  LogInv'
<1>1. \A s \in Sessions : \A i \in 1..Len(log[s]) :
        /\ turn'[log[s][i].turn].stage = turn[log[s][i].turn].stage
        /\ turn'[log[s][i].turn].session = turn[log[s][i].turn].session
  BY EventTurn DEF LogInv, EventsOfSession
<1>2. QED
  BY <1>1 DEF LogInv, LogIsGapless, EventsOfSession, AnswersEndOnce

LEMMA StreamEndsKeepsLog ==
  ASSUME TypeOK, Posted, LogInv, NEW t \in Turns, NEW type \in Terminal, StreamEnds(t, type)
  PROVE  LogInv'
<1>1. turn[t].session \in Sessions /\ turn[t].stage = "streaming" /\ turn[t] \in Turn
  BY DEF StreamEnds, Posted, TypeOK
<1>2. PICK s \in Sessions : s = turn[t].session
  BY <1>1
<1>3. Push(s, <<type>>, t) /\ <<type>> \in Seq(EventType) /\ Len(<<type>>) = 1
  BY <1>2 DEF StreamEnds, Terminal, EventType
<1>4. turn' = [turn EXCEPT ![t].stage = "ended"]
  BY DEF StreamEnds
<1>5. /\ turn'[t].session = s /\ turn'[t].stage = "ended"
      /\ \A u \in Turns \ {t} : turn'[u] = turn[u]
  BY <1>1, <1>2, <1>4 DEF TypeOK, Turn
<1>6. \A k \in 1..Len(<<type>>) :
        <<type>>[k] \in Terminal => k = Len(<<type>>) /\ turn'[t].stage = "ended"
  BY <1>3, <1>5
<1>7. turn[t].session = s /\ turn[t].stage # "ended" /\ turn'[t].stage \in {"streaming", "ended"}
  BY <1>1, <1>2, <1>5
<1>8. QED
  BY <1>3, <1>5, <1>6, <1>7, PushKeepsLog

LEMMA TurnStepKeepsLog ==
  ASSUME TypeOK, Posted, LogInv, NEW t \in Turns, TurnStep(t)
  PROVE  LogInv'
<1>0. turn[t] \in Turn
  BY DEF TypeOK
<1>1. CASE \E s \in Sessions : PostMessage(t, s)
  BY <1>1, UntouchedLog DEF PostMessage, TypeOK, Turn, chats
<1>2. CASE BodyArrives(t)
  <2>1. PICK s \in Sessions : s = turn[t].session
    BY <1>2 DEF BodyArrives, Posted
  <2>2. /\ Push(s, <<"user", "start">>, t)
        /\ turn[t].stage = "body"
        /\ turn' = [turn EXCEPT ![t].stage = "streaming", ![t].orphan = s \notin Open]
    BY <1>2, <2>1 DEF BodyArrives
  <2>3. /\ <<"user", "start">> \in Seq(EventType)
        /\ \A k \in 1..Len(<<"user", "start">>) : <<"user", "start">>[k] \notin Terminal
    BY DEF EventType, Terminal
  <2>4. /\ turn'[t].session = s /\ turn'[t].stage = "streaming"
        /\ \A u \in Turns \ {t} : turn'[u] = turn[u]
    BY <1>0, <2>1, <2>2 DEF TypeOK, Turn
  <2>5. QED
    BY <2>1, <2>2, <2>3, <2>4, PushKeepsLog
<1>3. CASE BodyRefused(t)
  BY <1>3, UntouchedLog DEF BodyRefused, TypeOK, Turn, chats
<1>4. CASE Delta(t)
  <2>1. PICK s \in Sessions : s = turn[t].session
    BY <1>4 DEF Delta, Posted
  <2>2. /\ Push(s, <<"delta">>, t)
        /\ turn[t].stage = "streaming" /\ turn' = [turn EXCEPT ![t].said = turn[t].said + 1]
    BY <1>4, <2>1 DEF Delta
  <2>3. /\ <<"delta">> \in Seq(EventType)
        /\ \A k \in 1..Len(<<"delta">>) : <<"delta">>[k] \notin Terminal
    BY DEF EventType, Terminal
  <2>4. /\ turn'[t].session = s /\ turn'[t].stage = "streaming"
        /\ \A u \in Turns \ {t} : turn'[u] = turn[u]
    BY <1>0, <2>1, <2>2 DEF TypeOK, Turn
  <2>5. QED
    BY <2>1, <2>2, <2>3, <2>4, PushKeepsLog
<1>5. CASE Done(t) \/ Fails(t) \/ Cancelled(t)
  BY <1>5, StreamEndsKeepsLog DEF Done, Fails, Cancelled, Terminal
<1>6. QED
  BY <1>1, <1>2, <1>3, <1>4, <1>5 DEF TurnStep

LEMMA SessionStepKeepsLog ==
  ASSUME TypeOK, LogInv, (\E s \in Sessions : SessionStep(s)) \/ Prune
  PROVE  LogInv'
<1>1. UNCHANGED <<log, next>>
  BY DEF SessionStep, CreateSession, Visit, RefuseMessage, CancelMessage, Prune, chats
<1>2. UNCHANGED turn \/ \E D : turn' = Aborted(D)
  BY DEF SessionStep, CreateSession, Visit, RefuseMessage, CancelMessage, AbortStream, Prune,
         DestroyOldest
<1>3. \A u \in Turns : /\ turn'[u].stage = turn[u].stage
                      /\ turn'[u].session = turn[u].session
  <2>1. CASE UNCHANGED turn
    BY <2>1
  <2>2. CASE \E D : turn' = Aborted(D)
    BY <2>2, AbortedType
  <2>3. QED
    BY <1>2, <2>1, <2>2
<1>4. QED
  BY <1>1, <1>3, UntouchedLog

LEMMA InitLog == Init => LogInv
BY DEF Init, NoMessages, LogInv, LogIsGapless, EventsOfSession, AnswersEndOnce

LEMMA NextLog == TypeOK /\ Posted /\ LogInv /\ [Next]_vars => LogInv'
<1>1. SUFFICES ASSUME TypeOK, Posted, LogInv, [Next]_vars PROVE LogInv'
  OBVIOUS
<1>2. CASE UNCHANGED vars
  BY <1>1, <1>2, UntouchedLog DEF vars
<1>3. QED
  BY <1>1, <1>2, TurnStepKeepsLog, SessionStepKeepsLog DEF Next

(***************************************************************************)
(* However often the log is trimmed, and also when two streams of one      *)
(* session interleave, the cursors in it are consecutive up to the next    *)
(* one and every answer in it ends once (push, startMessage).              *)
(***************************************************************************)
THEOREM LogOrder == Spec => [](LogIsGapless /\ AnswersEndOnce)
<1>1. Spec => [](TypeOK /\ Posted /\ LogInv)
  BY InitType, NextType, InitLog, NextLog, PTL DEF Spec
<1>2. LogInv => LogIsGapless /\ AnswersEndOnce
  BY DEF LogInv
<1>3. QED
  BY <1>1, <1>2, PTL

(***************************************************************************)
(* Completion, failure, cancellation and eviction never end an answer      *)
(* twice, and nothing of it follows its end (startMessage), for every      *)
(* number of sessions and messages and every size of the log.              *)
(***************************************************************************)
THEOREM AnswersEnd == Spec => []AnswersEndOnce
BY LogOrder, PTL

-----------------------------------------------------------------------------
(***************************************************************************)
(* One stream per session, when no two POSTs of a session have unread      *)
(* bodies at once.  The flag alone is not inductive: that a stream may     *)
(* start when a body is complete follows from the test made before the     *)
(* body was awaited only because nothing else could set busy meanwhile.    *)
(***************************************************************************)
Holds(s, t) == turn[t].stage = "streaming" /\ turn[t].session = s

Reads(s, t) == turn[t].stage = "body" /\ turn[t].session = s

StreamInv ==
  /\ \A s \in Sessions : \A t \in Turns : Holds(s, t) => busy[s] /\ controller[s] = t
  /\ \A s \in Sessions : busy[s] => \E t \in Turns : Holds(s, t)
  /\ \A s \in Sessions : \A t, u \in Turns : Reads(s, t) /\ Reads(s, u) => t = u
  /\ \A s \in Sessions : \A t \in Turns : Reads(s, t) => ~busy[s]
  /\ StopReachesStreams
  /\ \A t \in Turns : turn[t].stage \in {"unused", "body"} => ~turn[t].stopped

\* Using a session takes none out of the map.
LEMMA TouchKeepsOpen ==
  ASSUME TypeOK, NEW r \in Sessions, rank' = Touch(r), NEW s \in Open
  PROVE  s \in Open'
<1>1. CASE r \notin Open
  BY <1>1 DEF Touch, Open
<1>2. CASE r \in Open
  <2>1. Cardinality(Open) \in Nat \ {0}
    BY <1>2, OpenCount, SessionsAssumption, FS_Subset, FS_EmptySet DEF Open
  <2>2. rank[r] \in Nat \ {0} /\ rank[s] \in Nat \ {0} /\ s \in Sessions
    BY <1>2 DEF Open, TypeOK
  <2>3. rank'[s] = IF s = r THEN Cardinality(Open)
                   ELSE IF rank[s] > rank[r] THEN rank[s] - 1 ELSE rank[s]
    BY <1>2, <2>2 DEF Touch
  <2>4. rank'[s] # 0
    BY <2>1, <2>2, <2>3
  <2>5. QED
    BY <2>2, <2>4 DEF Open
<1>3. QED
  BY <1>1, <1>2

LEMMA AbortKeepsStreams ==
  ASSUME TypeOK, StreamInv, NEW D \in SUBSET Sessions, turn' = Aborted(D),
         \A s \in Open : s \in Open' \/ s \in D,
         UNCHANGED <<busy, controller>>
  PROVE  StreamInv'
<1>1. \A t \in Turns :
        /\ turn'[t].stage = turn[t].stage /\ turn'[t].session = turn[t].session
        /\ turn'[t].aborted = (turn[t].aborted \/ \E s \in D : controller[s] = t)
        /\ turn'[t].stopped = (turn[t].stopped \/ \E s \in D : t \in Streaming(s))
        /\ turn'[t].orphan = turn[t].orphan
  BY DEF Aborted, TypeOK, Turn
<1>2. \A s \in Sessions : \A t \in Turns :
        (Holds(s, t) <=> Holds(s, t)') /\ (Reads(s, t) <=> Reads(s, t)')
  BY <1>1 DEF Holds, Reads
<1>3. StopReachesStreams'
  <2>1. ASSUME NEW t \in Turns, turn'[t].stage = "streaming", turn'[t].stopped
        PROVE  turn'[t].aborted
    <3>1. CASE turn[t].stopped
      BY <1>1, <2>1, <3>1 DEF StreamInv, StopReachesStreams
    <3>2. CASE \E s \in D : t \in Streaming(s)
      <4>1. PICK s \in D : t \in Streaming(s)
        BY <3>2
      <4>2. s \in Sessions /\ Holds(s, t)
        BY <4>1 DEF Streaming, Holds
      <4>3. controller[s] = t
        BY <4>2 DEF StreamInv
      <4>4. QED
        BY <1>1, <4>1, <4>3
    <3>3. QED
      BY <1>1, <2>1, <3>1, <3>2
  <2>2. ASSUME NEW t \in Turns, turn'[t].stage = "streaming", turn'[t].session \notin Open'
        PROVE  turn'[t].aborted \/ turn'[t].orphan
    <3>1. PICK s : s = turn[t].session
      OBVIOUS
    <3>2. CASE s \notin Open
      BY <1>1, <2>2, <3>1, <3>2 DEF StreamInv, StopReachesStreams
    <3>3. CASE s \in Open
      <4>1. s \in D /\ s \in Sessions /\ Holds(s, t)
        BY <1>1, <2>2, <3>1, <3>3 DEF Holds
      <4>2. controller[s] = t
        BY <4>1 DEF StreamInv
      <4>3. QED
        BY <1>1, <4>1, <4>2
    <3>4. QED
      BY <3>2, <3>3
  <2>3. QED
    BY <2>1, <2>2 DEF StopReachesStreams
<1>4. \A t \in Turns : turn'[t].stage \in {"unused", "body"} => ~turn'[t].stopped
  BY <1>1 DEF Streaming, StreamInv
<1>5. QED
  BY <1>2, <1>3, <1>4 DEF StreamInv

LEMMA StreamEndsKeepsStreams ==
  ASSUME TypeOK, Posted, StreamInv, NEW t \in Turns, NEW type, StreamEnds(t, type)
  PROVE  StreamInv'
<1>1. PICK s \in Sessions : s = turn[t].session
  BY DEF StreamEnds, Posted
<1>2. /\ Holds(s, t) /\ busy' = [busy EXCEPT ![s] = FALSE]
      /\ controller' = [controller EXCEPT ![s] = None]
      /\ turn' = [turn EXCEPT ![t].stage = "ended"]
  BY <1>1 DEF StreamEnds, Release, Holds
<1>3. /\ \A u \in Turns \ {t} : turn'[u] = turn[u]
      /\ turn'[t].stage = "ended"
      /\ ~busy'[s] /\ \A r \in Sessions \ {s} : busy'[r] = busy[r] /\ controller'[r] = controller[r]
  BY <1>2 DEF TypeOK, Turn
<1>4. \A u \in Turns \ {t} : ~Holds(s, u)
  BY <1>2 DEF StreamInv
<1>5. \A r \in Sessions : \A u \in Turns :
        /\ Reads(r, u)' <=> Reads(r, u)
        /\ Holds(r, u)' <=> (Holds(r, u) /\ u # t)
  BY <1>2, <1>3 DEF Holds, Reads
<1>6. \A r \in Sessions \ {s} : ~Holds(r, t)
  BY <1>1 DEF Holds
<1>7. StopReachesStreams' /\ \A u \in Turns : turn'[u].stage \in {"unused", "body"} => ~turn'[u].stopped
  <2>1. \A r \in Open : r \in Open'
    BY <1>1, TouchKeepsOpen DEF StreamEnds
  <2>2. QED
    BY <1>3, <2>1 DEF StreamInv, StopReachesStreams
<1>8. QED
  BY <1>3, <1>4, <1>5, <1>6, <1>7 DEF StreamInv

LEMMA TurnStepKeepsStreams ==
  ASSUME ~Pipelining, TypeOK, Posted, StreamInv, NEW t \in Turns, TurnStep(t)
  PROVE  StreamInv'
<1>0. turn[t] \in Turn
  BY DEF TypeOK
<1>1. CASE \E s \in Sessions : PostMessage(t, s)
  <2>1. PICK s \in Sessions : PostMessage(t, s)
    BY <1>1
  <2>2. /\ turn[t].stage = "unused" /\ ~busy[s] /\ \A u \in Turns : ~Reads(s, u)
        /\ turn' = [turn EXCEPT ![t].stage = "body", ![t].session = s]
        /\ UNCHANGED <<busy, controller>> /\ \A r \in Open : r \in Open'
    BY <2>1, TouchKeepsOpen DEF PostMessage, Accepts, Reads, chats
  <2>3. /\ \A u \in Turns \ {t} : turn'[u] = turn[u]
        /\ turn'[t].stage = "body" /\ turn'[t].session = s /\ turn'[t].stopped = turn[t].stopped
    BY <1>0, <2>2 DEF TypeOK, Turn
  <2>4. \A r \in Sessions : \A u \in Turns :
          /\ Holds(r, u)' <=> Holds(r, u)
          /\ Reads(r, u)' <=> (Reads(r, u) \/ (u = t /\ r = s))
    BY <2>2, <2>3 DEF Holds, Reads
  <2>5. StopReachesStreams' /\ \A u \in Turns : turn'[u].stage \in {"unused", "body"} => ~turn'[u].stopped
    BY <2>2, <2>3 DEF StreamInv, StopReachesStreams
  <2>6. \A r \in Sessions : \A u, v \in Turns : Reads(r, u)' /\ Reads(r, v)' => u = v
    BY <2>2, <2>4 DEF StreamInv
  <2>7. \A r \in Sessions : \A u \in Turns : Reads(r, u)' => ~busy'[r]
    BY <2>2, <2>4 DEF StreamInv
  <2>8. /\ \A r \in Sessions : \A u \in Turns : Holds(r, u)' => busy'[r] /\ controller'[r] = u
        /\ \A r \in Sessions : busy'[r] => \E u \in Turns : Holds(r, u)'
    BY <2>2, <2>4 DEF StreamInv
  <2>9. QED
    BY <2>5, <2>6, <2>7, <2>8 DEF StreamInv
<1>2. CASE BodyArrives(t)
  <2>1. PICK s \in Sessions : s = turn[t].session
    BY <1>2 DEF BodyArrives, Posted
  <2>2. /\ Reads(s, t) /\ turn[t].stage = "body" /\ Open' = Open
        /\ busy' = [busy EXCEPT ![s] = TRUE] /\ controller' = [controller EXCEPT ![s] = t]
        /\ turn' = [turn EXCEPT ![t].stage = "streaming", ![t].orphan = s \notin Open]
    BY <1>2, <2>1 DEF BodyArrives, Reads, sessions, Open
  <2>3. /\ \A u \in Turns \ {t} : turn'[u] = turn[u]
        /\ turn'[t].stage = "streaming" /\ turn'[t].session = s
        /\ turn'[t].stopped = turn[t].stopped /\ (turn'[t].orphan <=> s \notin Open)
        /\ busy'[s] /\ controller'[s] = t
        /\ \A r \in Sessions \ {s} : busy'[r] = busy[r] /\ controller'[r] = controller[r]
    <3>1. PICK o \in BOOLEAN : o = (s \notin Open)
      OBVIOUS
    <3>2. turn' = [turn EXCEPT ![t].stage = "streaming", ![t].orphan = o]
      BY <2>2, <3>1
    <3>3. turn'[t].orphan = o
      BY <1>0, <3>2 DEF TypeOK, Turn
    <3>4. /\ \A u \in Turns \ {t} : turn'[u] = turn[u]
          /\ turn'[t].stage = "streaming" /\ turn'[t].session = s
          /\ turn'[t].stopped = turn[t].stopped
      BY <1>0, <2>1, <3>2 DEF TypeOK, Turn
    <3>5. /\ busy'[s] /\ controller'[s] = t
          /\ \A r \in Sessions \ {s} : busy'[r] = busy[r] /\ controller'[r] = controller[r]
      BY <2>2 DEF TypeOK
    <3>6. QED
      BY <3>1, <3>3, <3>4, <3>5
  <2>4. \A r \in Sessions : \A u \in Turns :
          /\ Holds(r, u)' <=> (Holds(r, u) \/ (u = t /\ r = s))
          /\ Reads(r, u)' <=> (Reads(r, u) /\ u # t)
    BY <2>1, <2>2, <2>3 DEF Holds, Reads
  <2>5. \A u \in Turns : ~Holds(s, u)
    BY <2>2 DEF StreamInv
  <2>6. StopReachesStreams' /\ \A u \in Turns : turn'[u].stage \in {"unused", "body"} => ~turn'[u].stopped
    <3>1. ~turn[t].stopped
      BY <2>2 DEF StreamInv
    <3>2. Open' = Open
      BY <2>2
    <3>3. turn'[t].session \notin Open' => turn'[t].orphan
      BY <2>3, <3>2
    <3>4. ASSUME NEW u \in Turns \ {t}, turn'[u].stage = "streaming"
          PROVE  /\ turn'[u].stopped => turn'[u].aborted
                 /\ turn'[u].session \notin Open' => turn'[u].aborted \/ turn'[u].orphan
      BY <2>3, <3>2, <3>4 DEF StreamInv, StopReachesStreams
    <3>5. StopReachesStreams'
      BY <2>3, <3>1, <3>3, <3>4 DEF StopReachesStreams
    <3>6. QED
      BY <2>3, <3>5 DEF StreamInv
  <2>7. \A u \in Turns : ~Reads(s, u)'
    BY <2>2, <2>4 DEF StreamInv
  <2>8. QED
    BY <2>3, <2>4, <2>5, <2>6, <2>7 DEF StreamInv
<1>3. CASE BodyRefused(t)
  <2>1. /\ turn[t].stage = "body" /\ turn' = [turn EXCEPT ![t].stage = "ended"]
        /\ Open' = Open /\ UNCHANGED <<busy, controller>>
    BY <1>3 DEF BodyRefused, chats, sessions, Open
  <2>2. (\A u \in Turns \ {t} : turn'[u] = turn[u]) /\ turn'[t].stage = "ended"
    BY <1>0, <2>1 DEF TypeOK, Turn
  <2>3. \A r \in Sessions : \A u \in Turns :
          (Holds(r, u)' <=> Holds(r, u)) /\ (Reads(r, u)' => Reads(r, u))
    BY <2>1, <2>2 DEF Holds, Reads
  <2>4. StopReachesStreams' /\ \A u \in Turns : turn'[u].stage \in {"unused", "body"} => ~turn'[u].stopped
    BY <2>1, <2>2 DEF StreamInv, StopReachesStreams
  <2>5. QED
    BY <2>1, <2>3, <2>4 DEF StreamInv
<1>4. CASE Delta(t)
  <2>1. /\ turn' = [turn EXCEPT ![t].said = turn[t].said + 1]
        /\ Open' = Open /\ UNCHANGED <<busy, controller>>
    BY <1>4 DEF Delta, sessions, Open
  <2>2. \A u \in Turns : /\ turn'[u].stage = turn[u].stage /\ turn'[u].session = turn[u].session
                         /\ turn'[u].aborted = turn[u].aborted /\ turn'[u].stopped = turn[u].stopped
                         /\ turn'[u].orphan = turn[u].orphan
    BY <2>1 DEF TypeOK, Turn
  <2>3. QED
    BY <2>1, <2>2 DEF StreamInv, StopReachesStreams, Holds, Reads
<1>5. CASE Done(t) \/ Fails(t) \/ Cancelled(t)
  BY <1>5, StreamEndsKeepsStreams DEF Done, Fails, Cancelled
<1>6. QED
  BY <1>1, <1>2, <1>3, <1>4, <1>5 DEF TurnStep

LEMMA StepAborts ==
  ASSUME (\E s \in Sessions : SessionStep(s)) \/ Prune
  PROVE  UNCHANGED turn \/ \E D \in SUBSET Sessions : turn' = Aborted(D)
<1>1. \A n : {s \in Open : rank[s] <= n} \in SUBSET Sessions
  BY DEF Open
<1>2. \A s \in Sessions : {s} \in SUBSET Sessions
  OBVIOUS
<1>3. CASE Prune
  BY <1>1, <1>3 DEF Prune, DestroyOldest
<1>4. ASSUME NEW s \in Sessions, SessionStep(s)
      PROVE  UNCHANGED turn \/ \E D \in SUBSET Sessions : turn' = Aborted(D)
  BY <1>1, <1>2, <1>4 DEF SessionStep, CreateSession, Visit, RefuseMessage, CancelMessage, AbortStream
<1>5. QED
  BY <1>3, <1>4

\* A step that takes sessions out of the map aborts what streams in them.
LEMMA LeavingAborts ==
  ASSUME TypeOK, (\E s \in Sessions : SessionStep(s)) \/ Prune
  PROVE  \/ UNCHANGED turn /\ \A r \in Open : r \in Open'
         \/ \E D \in SUBSET Sessions : /\ turn' = Aborted(D)
                                       /\ \A r \in Open : r \in Open' \/ r \in D
<1>1. \A n : {s \in Open : rank[s] <= n} \in SUBSET Sessions
  BY DEF Open
<1>2. CASE Prune
  <2>1. PICK n \in 1..Cardinality(Open) : DestroyOldest(n)
    BY <1>2 DEF Prune
  <2>2. n \in Nat
    BY <2>1, OpenCount
  <2>3. \A r \in Open : r \in Open' \/ rank[r] <= n
    BY <2>1, <2>2 DEF DestroyOldest, Open, TypeOK
  <2>4. turn' = Aborted({s \in Open : rank[s] <= n})
    BY <2>1 DEF DestroyOldest
  <2>5. QED
    BY <1>1, <2>3, <2>4
<1>3. ASSUME NEW s \in Sessions, CreateSession(s)
      PROVE  \E D \in SUBSET Sessions : /\ turn' = Aborted(D)
                                        /\ \A r \in Open : r \in Open' \/ r \in D
  <2>1. PICK n \in 0..Cardinality(Open) :
          /\ rank' = [r \in Sessions |-> IF r = s THEN Cardinality(Open) - Evicted(n) + 1
                                         ELSE IF rank[r] <= Evicted(n) THEN 0
                                         ELSE rank[r] - Evicted(n)]
          /\ turn' = Aborted({r \in Open : rank[r] <= Evicted(n)})
    BY <1>3 DEF CreateSession
  <2>2. PICK g \in 0..Cardinality(Open) : g = Evicted(n)
    BY OpenCount, BoundsAssumption DEF Evicted
  <2>3. \A r \in Open : r \in Open' \/ rank[r] <= g
    BY <2>1, <2>2, OpenCount DEF Open, TypeOK
  <2>4. QED
    BY <1>1, <2>1, <2>2, <2>3
<1>4. ASSUME NEW s \in Sessions, Visit(s) \/ RefuseMessage(s) \/ CancelMessage(s)
      PROVE  /\ \A r \in Open : r \in Open'
             /\ UNCHANGED turn \/ \E D \in SUBSET Sessions : turn' = Aborted(D)
  <2>1. \A r \in Open : r \in Open'
    BY <1>4, TouchKeepsOpen DEF Visit, RefuseMessage, CancelMessage
  <2>2. UNCHANGED turn \/ turn' = Aborted({s})
    BY <1>4 DEF Visit, RefuseMessage, CancelMessage, AbortStream
  <2>3. {s} \in SUBSET Sessions
    OBVIOUS
  <2>4. QED
    BY <2>1, <2>2, <2>3
<1>5. QED
  BY <1>2, <1>3, <1>4 DEF SessionStep

LEMMA SessionStepKeepsStreams ==
  ASSUME TypeOK, StreamInv, (\E s \in Sessions : SessionStep(s)) \/ Prune
  PROVE  StreamInv'
<1>1. UNCHANGED <<busy, controller>>
  BY DEF SessionStep, CreateSession, Visit, RefuseMessage, CancelMessage, Prune, chats
<1>2. CASE UNCHANGED turn /\ \A r \in Open : r \in Open'
  BY <1>1, <1>2 DEF StreamInv, StopReachesStreams, Holds, Reads
<1>3. CASE \E D \in SUBSET Sessions : /\ turn' = Aborted(D)
                                      /\ \A r \in Open : r \in Open' \/ r \in D
  BY <1>1, <1>3, AbortKeepsStreams
<1>4. QED
  BY <1>2, <1>3, LeavingAborts

LEMMA InitStreams == Init => StreamInv
BY DEF Init, NoMessages, UnusedTurn, StreamInv, StopReachesStreams, Holds, Reads

LEMMA NextStreams == ~Pipelining /\ TypeOK /\ Posted /\ StreamInv /\ [Next]_vars => StreamInv'
<1>1. SUFFICES ASSUME ~Pipelining, TypeOK, Posted, StreamInv, [Next]_vars PROVE StreamInv'
  OBVIOUS
<1>2. CASE UNCHANGED vars
  BY <1>1, <1>2 DEF vars, StreamInv, StopReachesStreams, Holds, Reads, Open
<1>3. QED
  BY <1>1, <1>2, TurnStepKeepsStreams, SessionStepKeepsStreams DEF Next

(***************************************************************************)
(* As long as no two POSTs of a session have unread bodies at once, at     *)
(* most one response streams in a session, busy and controller tell of it, *)
(* and a cancel or the end of the session while it streams aborts it       *)
(* (startMessage, cancelMessage, destroySession).                          *)
(***************************************************************************)
THEOREM OneStream ==
  ~Pipelining => (Spec => [](OneStreamPerSession /\ BusyTellsTruth /\ StopReachesStreams))
<1>1. CASE ~Pipelining
  <2>1. Init => TypeOK /\ Posted /\ StreamInv
    BY InitType, InitStreams
  <2>2. TypeOK /\ Posted /\ StreamInv /\ [Next]_vars => (TypeOK /\ Posted /\ StreamInv)'
    BY <1>1, NextType, NextStreams
  <2>3. TypeOK /\ StreamInv => OneStreamPerSession /\ BusyTellsTruth /\ StopReachesStreams
    BY DEF TypeOK, StreamInv, OneStreamPerSession, BusyTellsTruth, Streaming, Holds
  <2>4. QED
    BY <2>1, <2>2, <2>3, PTL DEF Spec
<1>2. QED
  BY <1>1

(***************************************************************************)
(* As long as no two POSTs of a session have unread bodies at once, every  *)
(* response that was cancelled and every one whose session is gone has     *)
(* been aborted, except one that began only after its session was gone     *)
(* (cancelMessage, destroySession; startMessage after the body).           *)
(***************************************************************************)
THEOREM StopWorks == ~Pipelining => (Spec => []StopReachesStreams)
<1>1. CASE ~Pipelining
  <2>1. Spec => [](OneStreamPerSession /\ BusyTellsTruth /\ StopReachesStreams)
    BY <1>1, OneStream
  <2>2. QED
    BY <2>1, PTL
<1>2. QED
  BY <1>1

-----------------------------------------------------------------------------
(***************************************************************************)
(* The server implements Conversation.  What is kept of a log is the       *)
(* newest events by their ids because the log is gapless; what is said is  *)
(* said by the answer that the controller belongs to because there is one  *)
(* stream in a session; and where nothing streams no controller is left.   *)
(***************************************************************************)
Released == \A s \in Sessions : busy[s] \/ controller[s] = None

LEMMA InitReleased == NoMessages => Released
BY DEF NoMessages, Released

LEMMA NextReleased == TypeOK /\ Posted /\ Released /\ [Next]_vars => Released'
<1> SUFFICES ASSUME TypeOK, Posted, Released, [Next]_vars PROVE Released'
  OBVIOUS
<1>1. ASSUME NEW t \in Turns, TurnStep(t) PROVE Released'
  <2>1. CASE (\E s \in Sessions : PostMessage(t, s)) \/ BodyRefused(t) \/ Delta(t)
    BY <2>1 DEF PostMessage, BodyRefused, Delta, chats, Released
  <2>2. CASE BodyArrives(t)
    BY <2>2 DEF BodyArrives, Posted, Released, TypeOK
  <2>3. CASE Done(t) \/ Fails(t) \/ Cancelled(t)
    BY <2>3 DEF Done, Fails, Cancelled, StreamEnds, Release, Posted, Released, TypeOK
  <2>4. QED
    BY <1>1, <2>1, <2>2, <2>3 DEF TurnStep
<1>2. CASE UNCHANGED vars \/ (\E s \in Sessions : SessionStep(s)) \/ Prune
  BY <1>2 DEF vars, chats, SessionStep, CreateSession, Visit, RefuseMessage, CancelMessage, Prune,
     Released
<1>3. QED
  BY <1>1, <1>2 DEF Next

\* What a push leaves in the log is the newest events, by their ids.
LEMMA PushTells ==
  ASSUME TypeOK, LogIsGapless, NEW s \in Sessions, NEW types \in Seq(EventType),
         NEW t \in Turns, Push(s, types, t)
  PROVE  Talk!Tell(s, types, t)
<1>1. PICK d \in Nat :
        /\ Len(log'[s]) + d = Len(log[s]) + Len(types)
        /\ \A i \in 1..Len(log'[s]) :
             log'[s][i] = IF i + d <= Len(log[s]) THEN log[s][i + d]
                          ELSE [id |-> next[s] + (i + d - Len(log[s])) - 1,
                                type |-> types[i + d - Len(log[s])], turn |-> t]
  BY PushedLog
<1>2. /\ log[s] \in Seq(Event) /\ log'[s] \in Seq(Event) /\ next[s] \in Nat
      /\ next'[s] = next[s] + Len(types)
      /\ log' \in [Sessions -> Seq(Event)] /\ next' \in [Sessions -> Nat \ {0}]
      /\ \A r \in Sessions \ {s} : log'[r] = log[r] /\ next'[r] = next[r]
  BY PushedLog DEF TypeOK
<1>3. PICK l \in Nat, l2 \in Nat, k \in Nat, n \in Nat, n2 \in Nat :
        l = Len(log[s]) /\ l2 = Len(log'[s]) /\ k = Len(types) /\ n = next[s] /\ n2 = next'[s]
  BY <1>2
<1>4. /\ n2 = n + k /\ l2 + d = l + k /\ DOMAIN types = 1..k
      /\ l2 = IF l + k <= MaxEvents THEN l + k ELSE MaxEvents
      /\ MaxEvents \in Nat
  BY <1>1, <1>2, <1>3, PushedLength, BoundsAssumption
<1>5. PICK q, q2 : q = log[s] /\ q2 = log'[s]
  OBVIOUS
<1>6. /\ \A i \in 1..l : q[i].id = n - l + i - 1
      /\ \A i \in 1..l2 : q2[i].id = n2 - l2 + i - 1
  BY <1>3, <1>5, PushKeepsIds DEF LogIsGapless
<1> DEFINE N(i) == [id |-> n - 1 + i, type |-> types[i], turn |-> t]
<1>7. \A i \in 1..l2 : q2[i] = IF i + d <= l THEN q[i + d] ELSE N(i + d - l)
  <2> SUFFICES ASSUME NEW i \in 1..l2 PROVE q2[i] = IF i + d <= l THEN q[i + d] ELSE N(i + d - l)
    OBVIOUS
  <2>1. n + (i + d - l) - 1 = n - 1 + (i + d - l)
    OBVIOUS
  <2>2. QED
    BY <1>1, <1>3, <1>5, <2>1
<1>8. \A i \in 1..k : N(i).id = n - 1 + i
  OBVIOUS
<1> HIDE DEF N
<1> DEFINE Old == {q[i] : i \in 1..l}
           New == {N(i) : i \in DOMAIN types}
           After == {q2[i] : i \in 1..l2}
<1>9. \A e \in After : e \in Old \cup New /\ e.id + MaxEvents > n2 - 1
  <2> SUFFICES ASSUME NEW i \in 1..l2 PROVE q2[i] \in Old \cup New /\ q2[i].id + MaxEvents > n2 - 1
    OBVIOUS
  <2>1. q2[i].id + MaxEvents > n2 - 1
    <3>1. q2[i].id = n2 - l2 + i - 1
      BY <1>6
    <3>2. n2 - l2 + i - 1 + MaxEvents > n2 - 1
      BY <1>4
    <3>3. QED
      BY <3>1, <3>2
  <2>2. CASE i + d <= l
    <3>1. i + d \in 1..l /\ q2[i] = q[i + d]
      BY <1>7, <2>2
    <3>2. QED
      BY <2>1, <3>1
  <2>3. CASE ~(i + d <= l)
    <3>1. i + d - l \in DOMAIN types /\ q2[i] = N(i + d - l)
      BY <1>4, <1>7, <2>3
    <3>2. QED
      BY <2>1, <3>1
  <2>4. QED
    BY <2>2, <2>3
<1>10. ASSUME NEW j \in 1..l, q[j].id + MaxEvents > n2 - 1 PROVE q[j] \in After
  <2>1. n - l + j - 1 + MaxEvents > n2 - 1
    BY <1>6, <1>10
  <2>2. j - d \in 1..l2 /\ (j - d) + d = j
    BY <1>4, <2>1
  <2>3. q2[j - d] = q[j]
    BY <1>7, <2>2
  <2>4. QED
    BY <2>2, <2>3
<1>11. ASSUME NEW j \in 1..k, N(j).id + MaxEvents > n2 - 1 PROVE N(j) \in After
  <2>1. n - 1 + j + MaxEvents > n2 - 1
    BY <1>8, <1>11
  <2>2. /\ l + j - d \in 1..l2 /\ (l + j - d) + d - l = j
        /\ ~((l + j - d) + d <= l)
    BY <1>4, <2>1
  <2>3. q2[l + j - d] = N(j)
    BY <1>7, <2>2
  <2>4. QED
    BY <2>2, <2>3
<1>12. After = {e \in Old \cup New : e.id + MaxEvents > n2 - 1}
  BY <1>4, <1>9, <1>10, <1>11
<1>13. /\ Old = {log[s][i] : i \in 1..Len(log[s])}
       /\ After = {log'[s][i] : i \in 1..Len(log'[s])}
       /\ New = {[id |-> (next[s] - 1) + i, type |-> types[i], turn |-> t] : i \in DOMAIN types}
       /\ n2 - 1 = next'[s] - 1 /\ next'[s] - 1 = (next[s] - 1) + Len(types)
  BY <1>2, <1>3, <1>5 DEF N
<1> HIDE DEF Old, New, After
<1>14. {log'[s][i] : i \in 1..Len(log'[s])}
         = {e \in {log[s][i] : i \in 1..Len(log[s])}
                  \cup {[id |-> (next[s] - 1) + i, type |-> types[i], turn |-> t] : i \in DOMAIN types} :
              e.id + MaxEvents > (next[s] - 1) + Len(types)}
  BY <1>12, <1>13, Zenon
<1> DEFINE feeds == [r \in Sessions |-> {log[r][i] : i \in 1..Len(log[r])}]
           lasts == [r \in Sessions |-> next[r] - 1]
<1>15. feeds' = [feeds EXCEPT ![s] = {log'[s][i] : i \in 1..Len(log'[s])}]
  BY <1>2
<1>16. lasts' = [lasts EXCEPT ![s] = (next[s] - 1) + Len(types)]
  BY <1>2, <1>13
<1>17. feeds[s] = {log[s][i] : i \in 1..Len(log[s])} /\ lasts[s] = next[s] - 1
  OBVIOUS
<1>18. /\ lasts' = [lasts EXCEPT ![s] = lasts[s] + Len(types)]
       /\ feeds' = [feeds EXCEPT ![s] =
            {e \in feeds[s] \cup {[id |-> lasts[s] + i, type |-> types[i], turn |-> t] : i \in DOMAIN types} :
               e.id + MaxEvents > lasts[s] + Len(types)}]
  <2> HIDE DEF feeds, lasts
  <2>1. QED
    BY <1>14, <1>15, <1>16, <1>17
<1>19. QED
  BY <1>18, Zenon DEF Talk!Tell

\* The turn that streams in s, if one does, was stopped.
Silenced(s) == \E t \in Turns : Holds(s, t) /\ turn[t].stopped

LEMMA SilencedIs ==
  /\ {s \in Sessions : \E t \in Streaming(s) : turn[t].stopped} = {s \in Sessions : Silenced(s)}
  /\ {s \in Sessions : \E t \in Streaming(s) : turn[t].stopped}' = {s \in Sessions : Silenced(s)'}
BY DEF Streaming, Silenced, Holds

\* A stream starts: the message is taken.
LEMMA BodyTalks ==
  ASSUME TypeOK, Posted, LogIsGapless, StreamInv, Released, NEW t \in Turns, BodyArrives(t)
  PROVE  Talk!Next
<1>1. PICK s \in Sessions : s = turn[t].session
  BY DEF BodyArrives, Posted
<1>2. /\ turn[t].stage = "body" /\ turn' = [turn EXCEPT ![t].stage = "streaming", ![t].orphan = s \notin Open]
      /\ controller' = [controller EXCEPT ![s] = t] /\ Push(s, <<"user", "start">>, t)
  BY <1>1 DEF BodyArrives
<1>3. <<"user", "start">> \in Seq(EventType)
  BY DEF EventType
<1>4. Talk!Tell(s, <<"user", "start">>, t)
  BY <1>2, <1>3, PushTells
<1>5. controller[s] = None
  BY <1>1, <1>2 DEF StreamInv, Released, Reads
<1>6. /\ turn'[t].stage = "streaming" /\ turn'[t].session = s /\ ~turn'[t].stopped
      /\ \A u \in Turns \ {t} : turn'[u] = turn[u]
  BY <1>1, <1>2 DEF TypeOK, Turn, StreamInv
<1>7. \A r \in Sessions : Silenced(r)' <=> Silenced(r)
  BY <1>2, <1>6 DEF Silenced, Holds
<1>8. {u \in Turns : turn'[u].stage \in {"streaming", "ended"}}
        = {u \in Turns : turn[u].stage \in {"streaming", "ended"}} \cup {t}
  BY <1>6
<1>9. t \notin {u \in Turns : turn[u].stage \in {"streaming", "ended"}}
  BY <1>2
<1>10. Talk!Take(t, s)
  BY <1>2, <1>4, <1>5, <1>7, <1>8, <1>9, SilencedIs DEF Talk!Take
<1>11. QED
  BY <1>10 DEF Talk!Next

\* Only an answer that nobody stopped says more.
LEMMA DeltaTalks ==
  ASSUME TypeOK, Posted, LogIsGapless, StreamInv, NEW t \in Turns, Delta(t)
  PROVE  Talk!Next
<1>1. PICK s \in Sessions : s = turn[t].session
  BY DEF Delta, Posted
<1>2. /\ Holds(s, t) /\ ~turn[t].aborted /\ Push(s, <<"delta">>, t)
      /\ turn' = [turn EXCEPT ![t].said = turn[t].said + 1] /\ UNCHANGED controller
  BY <1>1 DEF Delta, Holds
<1>3. <<"delta">> \in Seq(EventType)
  BY DEF EventType
<1>4. controller[s] = t /\ t # None
  BY <1>2, NoneAssumption DEF StreamInv
<1>5. Talk!Tell(s, <<"delta">>, t)
  BY <1>2, <1>3, PushTells
<1>6. \A u \in Turns : /\ turn'[u].stage = turn[u].stage /\ turn'[u].session = turn[u].session
                       /\ turn'[u].stopped = turn[u].stopped
  BY <1>2 DEF TypeOK, Turn
<1>7. \A r \in Sessions : Silenced(r)' <=> Silenced(r)
  BY <1>6 DEF Silenced, Holds
<1>8. ~Silenced(s)
  BY <1>2, <1>4 DEF Silenced, StreamInv, StopReachesStreams, Holds
<1>9. {u \in Turns : turn'[u].stage \in {"streaming", "ended"}}
        = {u \in Turns : turn[u].stage \in {"streaming", "ended"}}
  BY <1>6
<1>10. /\ s \notin {r \in Sessions : \E u \in Streaming(r) : turn[u].stopped}
       /\ UNCHANGED {r \in Sessions : \E u \in Streaming(r) : turn[u].stopped}
  BY <1>7, <1>8, SilencedIs
<1>11. Talk!Say(t, s)
  BY <1>2, <1>4, <1>5, <1>9, <1>10, Zenon DEF Talk!Say
<1>12. QED
  BY <1>11 DEF Talk!Next

\* An answer ends, and one that was stopped not as done.
LEMMA EndTalks ==
  ASSUME TypeOK, Posted, LogIsGapless, StreamInv, NEW t \in Turns, NEW type \in Terminal,
         StreamEnds(t, type), type = "done" => ~turn[t].aborted
  PROVE  Talk!Next
<1>1. PICK s \in Sessions : s = turn[t].session
  BY DEF StreamEnds, Posted
<1>2. /\ Holds(s, t) /\ Push(s, <<type>>, t)
      /\ turn' = [turn EXCEPT ![t].stage = "ended"]
      /\ controller' = [controller EXCEPT ![s] = None]
  BY <1>1 DEF StreamEnds, Release, Holds
<1>3. <<type>> \in Seq(EventType)
  BY DEF EventType, Terminal
<1>4. controller[s] = t /\ t # None
  BY <1>2, NoneAssumption DEF StreamInv
<1>5. Talk!Tell(s, <<type>>, t)
  BY <1>2, <1>3, PushTells
<1>6. /\ turn'[t].stage = "ended" /\ turn[t].stage = "streaming"
      /\ \A u \in Turns \ {t} : turn'[u] = turn[u]
  BY <1>2 DEF TypeOK, Turn, Holds
<1>7. \A r \in Sessions : Silenced(r)' <=> Silenced(r) /\ r # s
  BY <1>1, <1>2, <1>4, <1>6 DEF Silenced, Holds, StreamInv
<1>8. Silenced(s) => type # "done"
  BY <1>2, <1>4 DEF Silenced, StreamInv, StopReachesStreams, Holds
<1>9. {u \in Turns : turn'[u].stage \in {"streaming", "ended"}}
        = {u \in Turns : turn[u].stage \in {"streaming", "ended"}}
  BY <1>6
<1>10. {r \in Sessions : Silenced(r)'} = {r \in Sessions : Silenced(r)} \ {s}
  BY <1>7
<1>11. /\ s \in {r \in Sessions : \E u \in Streaming(r) : turn[u].stopped} => type # "done"
       /\ {r \in Sessions : \E u \in Streaming(r) : turn[u].stopped}'
            = {r \in Sessions : \E u \in Streaming(r) : turn[u].stopped} \ {s}
  BY <1>8, <1>10, SilencedIs
<1>12. Talk!Finish(t, s, type)
  BY <1>2, <1>4, <1>5, <1>9, <1>11, Zenon DEF Talk!Finish
<1>13. QED
  BY <1>12 DEF Talk!Next, Terminal

\* A cancel, or the end of sessions, stops the answers that stream in them.
LEMMA AbortTalks ==
  ASSUME TypeOK, StreamInv, Released, NEW D \in SUBSET Sessions, turn' = Aborted(D),
         UNCHANGED <<log, next, controller>>
  PROVE  Talk!Next
<1>1. \A t \in Turns :
        /\ turn'[t].stage = turn[t].stage /\ turn'[t].session = turn[t].session
        /\ turn'[t].stopped = (turn[t].stopped \/ \E s \in D : t \in Streaming(s))
  BY DEF Aborted, TypeOK, Turn
<1>2. \A s \in Sessions : controller[s] # None => \E t \in Turns : Holds(s, t)
  BY DEF Released, StreamInv
<1>3. \A s \in Sessions, t \in Turns : Holds(s, t) => controller[s] # None
  BY NoneAssumption DEF StreamInv
<1>4. ASSUME NEW s \in Sessions
      PROVE  Silenced(s)' <=> Silenced(s) \/ (s \in D /\ controller[s] # None)
  <2>1. \A t \in Turns : Holds(s, t)' <=> Holds(s, t)
    BY <1>1 DEF Holds
  <2>2. \A t \in Turns : Holds(s, t) => ((\E r \in D : t \in Streaming(r)) <=> s \in D)
    BY DEF Holds, Streaming
  <2>3. \A t \in Turns : Holds(s, t) => (turn'[t].stopped <=> turn[t].stopped \/ s \in D)
    BY <1>1, <2>2
  <2>4. Silenced(s)' <=> \E t \in Turns : Holds(s, t) /\ turn'[t].stopped
    BY <2>1 DEF Silenced
  <2>5. QED
    BY <1>2, <1>3, <2>3, <2>4 DEF Silenced
<1>5. {s \in Sessions : Silenced(s)'}
        = {s \in Sessions : Silenced(s)} \cup {s \in D : controller[s] # None}
  BY <1>4
<1>6. {u \in Turns : turn'[u].stage \in {"streaming", "ended"}}
        = {u \in Turns : turn[u].stage \in {"streaming", "ended"}}
  BY <1>1
<1>7. Talk!Stop(D)
  BY <1>5, <1>6, SilencedIs DEF Talk!Stop
<1>8. QED
  BY <1>7 DEF Talk!Next

\* What is not heard of outside.
LEMMA NothingTalks ==
  ASSUME UNCHANGED <<log, next, controller>>,
         \A t \in Turns :
           /\ turn'[t].stage \in {"streaming", "ended"} <=> turn[t].stage \in {"streaming", "ended"}
           /\ turn[t].stage = "streaming" \/ turn'[t].stage = "streaming" => turn'[t] = turn[t]
  PROVE  UNCHANGED Talk!conversation
<1>1. \A s \in Sessions : Silenced(s)' <=> Silenced(s)
  BY DEF Silenced, Holds
<1>2. {u \in Turns : turn'[u].stage \in {"streaming", "ended"}}
        = {u \in Turns : turn[u].stage \in {"streaming", "ended"}}
  OBVIOUS
<1>3. QED
  BY <1>1, <1>2, SilencedIs DEF Talk!conversation

LEMMA TurnStepTalks ==
  ASSUME TypeOK, Posted, LogIsGapless, StreamInv, Released, NEW t \in Turns, TurnStep(t)
  PROVE  Talk!Next \/ UNCHANGED Talk!conversation
<1>1. CASE \E s \in Sessions : PostMessage(t, s)
  <2>1. PICK s \in Sessions : PostMessage(t, s)
    BY <1>1
  <2>2. /\ turn[t].stage = "unused" /\ turn' = [turn EXCEPT ![t].stage = "body", ![t].session = s]
        /\ UNCHANGED <<log, next, controller>>
    BY <2>1 DEF PostMessage, chats
  <2>3. turn'[t].stage = "body" /\ \A u \in Turns \ {t} : turn'[u] = turn[u]
    BY <2>2 DEF TypeOK, Turn
  <2>4. QED
    BY <2>2, <2>3, NothingTalks
<1>2. CASE BodyRefused(t)
  <2>1. /\ turn[t].stage = "body" /\ turn' = [turn EXCEPT ![t].stage = "ended"]
        /\ UNCHANGED <<log, next, controller>>
    BY <1>2 DEF BodyRefused, chats
  <2>2. turn'[t].stage = "ended" /\ \A u \in Turns \ {t} : turn'[u] = turn[u]
    BY <2>1 DEF TypeOK, Turn
  <2>3. \A s \in Sessions : Silenced(s)' <=> Silenced(s)
    BY <2>1, <2>2 DEF Silenced, Holds
  <2>4. /\ {u \in Turns : turn'[u].stage \in {"streaming", "ended"}}
             = {u \in Turns : turn[u].stage \in {"streaming", "ended"}} \cup {t}
        /\ t \notin {u \in Turns : turn[u].stage \in {"streaming", "ended"}}
    BY <2>1, <2>2
  <2>5. Talk!Refuse(t)
    BY <2>1, <2>3, <2>4, SilencedIs DEF Talk!Refuse
  <2>6. QED
    BY <2>5 DEF Talk!Next
<1>3. CASE Done(t) \/ Fails(t) \/ Cancelled(t)
  BY <1>3, EndTalks DEF Done, Fails, Cancelled, Terminal
<1>4. QED
  BY <1>1, <1>2, <1>3, BodyTalks, DeltaTalks DEF TurnStep

LEMMA SessionStepTalks ==
  ASSUME TypeOK, StreamInv, Released, (\E s \in Sessions : SessionStep(s)) \/ Prune
  PROVE  Talk!Next \/ UNCHANGED Talk!conversation
<1>1. UNCHANGED <<log, next, controller>>
  BY DEF SessionStep, CreateSession, Visit, RefuseMessage, CancelMessage, Prune, chats
<1>2. UNCHANGED turn \/ \E D \in SUBSET Sessions : turn' = Aborted(D)
  BY StepAborts
<1>3. CASE UNCHANGED turn
  BY <1>1, <1>3, NothingTalks
<1>4. CASE \E D \in SUBSET Sessions : turn' = Aborted(D)
  BY <1>1, <1>4, AbortTalks
<1>5. QED
  BY <1>2, <1>3, <1>4

TalkInv == TypeOK /\ Posted /\ LogInv /\ StreamInv /\ Released

LEMMA InitTalks == NoMessages => Talk!Init
<1> SUFFICES ASSUME NoMessages PROVE Talk!Init
  OBVIOUS
<1>1. /\ \A s \in Sessions : log[s] = <<>> /\ next[s] = 1
      /\ \A t \in Turns : turn[t].stage = "unused"
      /\ controller = [s \in Sessions |-> None]
  BY DEF NoMessages, UnusedTurn
<1>2. /\ [s \in Sessions |-> {log[s][i] : i \in 1..Len(log[s])}] = [s \in Sessions |-> {}]
      /\ [s \in Sessions |-> next[s] - 1] = [s \in Sessions |-> 0]
  BY <1>1
<1>3. /\ {s \in Sessions : \E t \in Streaming(s) : turn[t].stopped} = {}
      /\ {t \in Turns : turn[t].stage \in {"streaming", "ended"}} = {}
  BY <1>1 DEF Streaming
<1>4. QED
  BY <1>1, <1>2, <1>3 DEF Talk!Init

LEMMA NextTalks == TalkInv /\ [Next]_vars => [Talk!Next]_(Talk!conversation)
<1> SUFFICES ASSUME TalkInv, [Next]_vars PROVE Talk!Next \/ UNCHANGED Talk!conversation
  OBVIOUS
<1>1. TypeOK /\ Posted /\ LogIsGapless /\ StreamInv /\ Released
  BY DEF TalkInv, LogInv
<1>2. CASE UNCHANGED vars
  BY <1>2, NothingTalks DEF vars
<1>3. QED
  BY <1>1, <1>2, TurnStepTalks, SessionStepTalks DEF Next

LEMMA NextTalkInv == ~Pipelining /\ TalkInv /\ [Next]_vars => TalkInv'
BY NextType, NextLog, NextStreams, NextReleased DEF TalkInv

(***************************************************************************)
(* As long as no two POSTs of a session have unread bodies at once, the    *)
(* sessions of the server are conversations: CompanionSession implements   *)
(* Conversation, whatever is cancelled, evicted or trimmed (startMessage,  *)
(* push, cancelMessage, destroySession).                                   *)
(***************************************************************************)
THEOREM Refinement == ~Pipelining => (Spec => KeepsConversation)
<1>1. CASE ~Pipelining
  <2>1. Init => TalkInv /\ Talk!Init
    BY InitType, InitLog, InitStreams, InitReleased, InitTalks DEF Init, TalkInv
  <2>2. TalkInv /\ [Next]_vars => TalkInv'
    BY <1>1, NextTalkInv
  <2>3. QED
    BY <2>1, <2>2, NextTalks, PTL DEF Spec, KeepsConversation, Talk!Spec
<1>2. QED
  BY <1>1

-----------------------------------------------------------------------------
(***************************************************************************)
(* The session map.  Its order is a numbering: f numbers the sessions it   *)
(* does not map to 0 from 1 to k.                                          *)
(***************************************************************************)
Used(f) == {s \in Sessions : f[s] # 0}

Numbers(f, k) ==
  /\ f \in [Sessions -> Nat]
  /\ \A s \in Sessions : f[s] <= k
  /\ \A s, r \in Used(f) : f[s] = f[r] => s = r
  /\ \A i \in 1..k : \E s \in Sessions : f[s] = i

LEMMA NumberingCounts ==
  ASSUME NEW f, NEW k \in Nat, Numbers(f, k)
  PROVE  Cardinality(Used(f)) = k /\ {f[s] : s \in Used(f)} = 1..k
<1> DEFINE g == [s \in Used(f) |-> f[s]]
<1>1. g \in [Used(f) -> 1..k]
  BY DEF Numbers, Used
<1>2. \A i \in 1..k : \E s \in Used(f) : g[s] = i
  BY DEF Numbers, Used
<1>3. \A s, r \in Used(f) : g[s] = g[r] => s = r
  BY DEF Numbers
<1>4. g \in Bijection(Used(f), 1..k)
  BY <1>1, <1>2, <1>3 DEF Bijection, Injection, Surjection, IsInjective
<1>5. IsFiniteSet(Used(f))
  BY SessionsAssumption, FS_Subset DEF Used
<1>6. Cardinality(1..k) = Cardinality(Used(f))
  BY <1>4, <1>5, FS_Bijection DEF ExistsBijection
<1>7. Cardinality(1..k) = k
  BY FS_Interval
<1>8. {f[s] : s \in Used(f)} = 1..k
  BY <1>1, <1>2
<1>9. QED
  BY <1>6, <1>7, <1>8

\* The sessions in the map, in the order of their last use.
MapInv == \E k \in 0..MaxSessions : Numbers(rank, k)

LEMMA OpenIsUsed == Open = Used(rank)
BY DEF Open, Used

\* Using a session makes it the last.
LEMMA TouchKeepsOrder ==
  ASSUME NEW k \in Nat, Numbers(rank, k), NEW s \in Sessions
  PROVE  Numbers(Touch(s), k)
<1>1. CASE s \notin Open
  BY <1>1 DEF Touch
<1>2. CASE s \in Open
  <2>1. Cardinality(Open) = k
    BY NumberingCounts, OpenIsUsed
  <2> DEFINE f == [r \in Sessions |-> IF r = s THEN k
                                      ELSE IF rank[r] > rank[s] THEN rank[r] - 1 ELSE rank[r]]
  <2>2. Touch(s) = f
    BY <1>2, <2>1 DEF Touch
  <2>3. /\ rank \in [Sessions -> Nat]
        /\ rank[s] \in 1..k
        /\ \A r \in Sessions : rank[r] <= k
        /\ \A r, q \in Sessions : rank[r] # 0 /\ rank[r] = rank[q] => r = q
    BY <1>2 DEF Numbers, Open, Used
  <2>4. f \in [Sessions -> Nat] /\ \A r \in Sessions : f[r] <= k
    BY <2>3
  <2>5. \A r \in Sessions \ {s} : rank[r] # 0 => rank[r] # rank[s]
    BY <2>3
  <2>6. \A r \in Sessions : r # s => f[r] < k
    BY <2>3, <2>5
  <2>7. \A r, q \in Used(f) : f[r] = f[q] => r = q
    <3> SUFFICES ASSUME NEW r \in Sessions, NEW q \in Sessions, f[r] # 0, f[r] = f[q]
                 PROVE  r = q
      BY DEF Used
    <3>1. CASE r = s \/ q = s
      BY <2>3, <2>6, <3>1
    <3>2. CASE r # s /\ q # s
      <4>1. rank[r] # 0 /\ rank[q] # 0
        BY <2>3, <3>2
      <4>2. rank[r] = rank[q]
        BY <2>3, <2>5, <3>2, <4>1
      <4>3. QED
        BY <2>3, <4>1, <4>2
    <3>3. QED
      BY <3>1, <3>2
  <2>8. \A i \in 1..k : \E r \in Sessions : f[r] = i
    <3> SUFFICES ASSUME NEW i \in 1..k PROVE \E r \in Sessions : f[r] = i
      OBVIOUS
    <3>1. CASE i = k
      BY <3>1
    <3>2. CASE i < k /\ i < rank[s]
      <4>1. PICK r \in Sessions : rank[r] = i
        BY DEF Numbers
      <4>2. QED
        BY <2>3, <3>2, <4>1
    <3>3. CASE i < k /\ i >= rank[s]
      <4>1. i + 1 \in 1..k
        BY <3>3
      <4>2. PICK r \in Sessions : rank[r] = i + 1
        BY <4>1 DEF Numbers
      <4>3. QED
        BY <2>3, <3>3, <4>2
    <3>4. QED
      BY <2>3, <3>1, <3>2, <3>3
  <2> HIDE DEF f
  <2>9. QED
    BY <2>2, <2>4, <2>7, <2>8 DEF Numbers
<1>3. QED
  BY <1>1, <1>2

\* Without the n oldest sessions the others are numbered from 1 again.
LEMMA DropKeepsOrder ==
  ASSUME NEW k \in Nat, Numbers(rank, k), NEW n \in 0..k
  PROVE  Numbers([s \in Sessions |-> IF rank[s] <= n THEN 0 ELSE rank[s] - n], k - n)
<1> DEFINE f == [s \in Sessions |-> IF rank[s] <= n THEN 0 ELSE rank[s] - n]
<1>1. /\ rank \in [Sessions -> Nat]
      /\ \A r \in Sessions : rank[r] <= k
      /\ \A r, q \in Sessions : rank[r] # 0 /\ rank[r] = rank[q] => r = q
  BY DEF Numbers, Used
<1>2. f \in [Sessions -> Nat] /\ \A s \in Sessions : f[s] <= k - n
  BY <1>1
<1>3. \A s, r \in Used(f) : f[s] = f[r] => s = r
  BY <1>1 DEF Used
<1>4. \A i \in 1..(k - n) : \E s \in Sessions : f[s] = i
  <2> SUFFICES ASSUME NEW i \in 1..(k - n) PROVE \E s \in Sessions : f[s] = i
    OBVIOUS
  <2>1. i + n \in 1..k
    OBVIOUS
  <2>2. PICK s \in Sessions : rank[s] = i + n
    BY <2>1 DEF Numbers
  <2>3. QED
    BY <1>1, <2>2
<1> HIDE DEF f
<1>5. Numbers(f, k - n)
  BY <1>2, <1>3, <1>4 DEF Numbers
<1>6. QED
  BY <1>5 DEF f

\* A new session is the last; its id was not in the map.
LEMMA CreateKeepsOrder ==
  ASSUME TypeOK, MapInv, \A s \in Sessions : s \notin created => rank[s] = 0,
         NEW s \in Sessions, CreateSession(s)
  PROVE  MapInv'
<1>1. PICK k \in 0..MaxSessions : Numbers(rank, k)
  BY DEF MapInv
<1>2. Cardinality(Open) = k
  BY <1>1, NumberingCounts, OpenIsUsed, BoundsAssumption
<1>3. PICK n \in 0..k :
        rank' = [r \in Sessions |-> IF r = s THEN k - Evicted(n) + 1
                                    ELSE IF rank[r] <= Evicted(n) THEN 0
                                    ELSE rank[r] - Evicted(n)]
  BY <1>2 DEF CreateSession
<1>4. Evicted(n) \in 0..k /\ k - Evicted(n) + 1 \in 1..MaxSessions
  BY <1>2, BoundsAssumption DEF Evicted
<1> DEFINE f == [r \in Sessions |-> IF rank[r] <= Evicted(n) THEN 0 ELSE rank[r] - Evicted(n)]
           m == k - Evicted(n)
<1>5. Numbers(f, m)
  BY <1>1, <1>4, DropKeepsOrder, BoundsAssumption
<1>6. rank[s] = 0
  BY DEF CreateSession
<1>7. f[s] = 0
  BY <1>4, <1>6
<1>8. rank' = [f EXCEPT ![s] = m + 1]
  BY <1>3
<1>9. m \in Nat /\ m + 1 \in 0..MaxSessions
  BY <1>4
<1> HIDE DEF f, m
<1>10. Numbers(rank', m + 1)
  <2>1. /\ f \in [Sessions -> Nat]
        /\ \A r \in Sessions : f[r] <= m
        /\ \A r, q \in Sessions : f[r] # 0 /\ f[r] = f[q] => r = q
        /\ \A i \in 1..m : \E r \in Sessions : f[r] = i
    BY <1>5 DEF Numbers, Used
  <2>2. \A r \in Sessions : rank'[r] = IF r = s THEN m + 1 ELSE f[r]
    BY <1>8, <2>1
  <2>3. rank' \in [Sessions -> Nat] /\ \A r \in Sessions : rank'[r] <= m + 1
    BY <1>8, <1>9, <2>1, <2>2
  <2>4. \A r, q \in Used(rank') : rank'[r] = rank'[q] => r = q
    BY <1>9, <2>1, <2>2 DEF Used
  <2>5. \A i \in 1..(m + 1) : \E r \in Sessions : rank'[r] = i
    <3> SUFFICES ASSUME NEW i \in 1..(m + 1) PROVE \E r \in Sessions : rank'[r] = i
      OBVIOUS
    <3>1. CASE i = m + 1
      BY <2>2, <3>1
    <3>2. CASE i # m + 1
      <4>1. i \in 1..m
        BY <1>9, <3>2
      <4>2. PICK r \in Sessions : f[r] = i
        BY <2>1, <4>1
      <4>3. r # s
        BY <1>7, <4>1, <4>2
      <4>4. QED
        BY <2>2, <4>2, <4>3
    <3>3. QED
      BY <3>1, <3>2
  <2>6. QED
    BY <2>3, <2>4, <2>5 DEF Numbers
<1>11. QED
  BY <1>9, <1>10 DEF MapInv

\* What a step does to the map.
LEMMA MapSteps ==
  ASSUME Posted, [Next]_vars
  PROVE  \/ UNCHANGED <<rank, created>>
         \/ (\E s \in Sessions : rank' = Touch(s)) /\ UNCHANGED created
         \/ Prune
         \/ \E s \in Sessions : CreateSession(s)
<1>1. CASE \E t \in Turns : TurnStep(t)
  BY <1>1 DEF Posted, TurnStep, PostMessage, BodyArrives, BodyRefused, Delta, Done, Fails,
     Cancelled, StreamEnds, sessions
<1>2. CASE \E s \in Sessions : SessionStep(s)
  BY <1>2 DEF SessionStep, Visit, RefuseMessage, CancelMessage
<1>3. CASE UNCHANGED vars
  BY <1>3 DEF vars
<1>4. QED
  BY <1>1, <1>2, <1>3 DEF Next

\* Ids that were never drawn are not in the map.
Drawn == \A s \in Sessions : s \notin created => rank[s] = 0

LEMMA TouchKeepsDrawn ==
  ASSUME TypeOK, Drawn, NEW s \in Sessions, rank' = Touch(s), UNCHANGED created
  PROVE  Drawn'
<1>1. \A r \in Sessions : r \notin created => Touch(s)[r] = 0
  BY DEF TypeOK, Drawn, Touch, Open
<1>2. QED
  BY <1>1 DEF Drawn

LEMMA NextDrawn == TypeOK /\ Posted /\ Drawn /\ [Next]_vars => Drawn'
<1> SUFFICES ASSUME TypeOK, Posted, Drawn, [Next]_vars PROVE Drawn'
  OBVIOUS
<1>1. CASE UNCHANGED <<rank, created>>
  BY <1>1 DEF Drawn
<1>2. CASE (\E s \in Sessions : rank' = Touch(s)) /\ UNCHANGED created
  BY <1>2, TouchKeepsDrawn
<1>3. CASE Prune
  <2>1. PICK n \in 1..Cardinality(Open) : DestroyOldest(n)
    BY <1>3 DEF Prune
  <2>2. UNCHANGED created
    BY <1>3 DEF Prune
  <2>3. n \in Nat
    BY <2>1, OpenCount
  <2>4. QED
    BY <2>1, <2>2, <2>3 DEF DestroyOldest, Drawn, TypeOK
<1>4. ASSUME NEW s \in Sessions, CreateSession(s) PROVE Drawn'
  <2>1. PICK n \in 0..Cardinality(Open) :
          rank' = [r \in Sessions |-> IF r = s THEN Cardinality(Open) - Evicted(n) + 1
                                      ELSE IF rank[r] <= Evicted(n) THEN 0
                                      ELSE rank[r] - Evicted(n)]
    BY <1>4 DEF CreateSession
  <2>2. Evicted(n) \in Nat /\ created' = created \cup {s}
    BY <1>4, OpenCount, BoundsAssumption DEF Evicted, CreateSession
  <2>3. QED
    BY <2>1, <2>2 DEF Drawn, TypeOK
<1>5. QED
  BY <1>1, <1>2, <1>3, <1>4, MapSteps

LEMMA NextMap == TypeOK /\ Posted /\ Drawn /\ MapInv /\ [Next]_vars => MapInv'
<1> SUFFICES ASSUME TypeOK, Posted, Drawn, MapInv, [Next]_vars PROVE MapInv'
  OBVIOUS
<1>1. PICK k \in 0..MaxSessions : Numbers(rank, k)
  BY DEF MapInv
<1>2. k \in Nat
  BY <1>1, BoundsAssumption
<1>3. CASE UNCHANGED rank
  BY <1>1, <1>3 DEF MapInv
<1>4. CASE \E s \in Sessions : rank' = Touch(s)
  BY <1>1, <1>2, <1>4, TouchKeepsOrder DEF MapInv
<1>5. CASE Prune
  <2>1. PICK n \in 1..k : rank' = [s \in Sessions |-> IF rank[s] <= n THEN 0 ELSE rank[s] - n]
    BY <1>1, <1>2, <1>5, NumberingCounts, OpenIsUsed DEF Prune, DestroyOldest
  <2>2. n \in 0..k /\ k - n \in 0..MaxSessions
    BY <1>1, <1>2, <2>1, BoundsAssumption
  <2>3. Numbers(rank', k - n)
    BY <1>1, <1>2, <2>1, <2>2, DropKeepsOrder, Zenon
  <2>4. QED
    BY <2>2, <2>3 DEF MapInv
<1>6. CASE \E s \in Sessions : CreateSession(s)
  BY <1>6, CreateKeepsOrder DEF Drawn
<1>7. QED
  BY <1>3, <1>4, <1>5, <1>6, MapSteps

LEMMA MapIsOrdered == MapInv => SessionsBounded
<1> SUFFICES ASSUME MapInv PROVE SessionsBounded
  OBVIOUS
<1>1. PICK k \in 0..MaxSessions : Numbers(rank, k)
  BY DEF MapInv
<1>2. Cardinality(Open) = k /\ {rank[s] : s \in Open} = 1..k
  BY <1>1, NumberingCounts, OpenIsUsed, BoundsAssumption
<1>3. QED
  BY <1>1, <1>2, BoundsAssumption DEF SessionsBounded

(***************************************************************************)
(* The session map keeps to MAX_SESSIONS and to the order of last use, for *)
(* every limit and every number of sessions (createSession, prune,         *)
(* destroySession).                                                        *)
(***************************************************************************)
THEOREM MapIsBounded == Spec => []SessionsBounded
<1>1. Init => TypeOK /\ Posted /\ Drawn /\ MapInv
  <2>1. Init => Drawn
    BY DEF Init, Drawn
  <2>2. Init => Numbers(rank, 0)
    BY DEF Init, Numbers, Used
  <2>3. 0 \in 0..MaxSessions
    BY BoundsAssumption
  <2>4. Init => MapInv
    BY <2>2, <2>3 DEF MapInv
  <2>5. QED
    BY InitType, <2>1, <2>4
<1>2. TypeOK /\ Posted /\ Drawn /\ MapInv /\ [Next]_vars
        => (TypeOK /\ Posted /\ Drawn /\ MapInv)'
  BY NextType, NextDrawn, NextMap
<1>3. QED
  BY <1>1, <1>2, MapIsOrdered, PTL DEF Spec
-----------------------------------------------------------------------------
(***************************************************************************)
(* The history.  K are the places of a log whose events are kept as        *)
(* messages, f what each is shown as: a history records them if it is as   *)
(* long as they are many, or as it may be, and each message has as many    *)
(* behind it in both.                                                      *)
(***************************************************************************)
After(K, i) == Cardinality({k \in K : k > i})

Records(h, K, f) ==
  /\ Len(h) = IF Cardinality(K) <= MaxHistory THEN Cardinality(K) ELSE MaxHistory
  /\ \A i \in K : After(K, i) < MaxHistory => h[Len(h) - After(K, i)] = f[i]

\* The messages before a place are fewer by one than those up to it.
LEMMA AfterCounts ==
  ASSUME NEW K, IsFiniteSet(K), NEW i \in K, i \in Nat
  PROVE  After(K, i) \in Nat /\ After(K, i) < Cardinality(K)
<1> DEFINE A == {k \in K : k > i}
<1>1. A \in SUBSET K /\ A # K
  <2>1. i \notin A
    OBVIOUS
  <2>2. QED
    BY <2>1
<1> HIDE DEF A
<1>2. /\ IsFiniteSet(A) /\ Cardinality(A) <= Cardinality(K)
      /\ Cardinality(K) = Cardinality(A) => K = A
  BY <1>1, FS_Subset, Zenon
<1>3. Cardinality(A) \in Nat /\ Cardinality(K) \in Nat
  BY <1>2, FS_CardinalityType
<1>4. Cardinality(A) < Cardinality(K)
  BY <1>1, <1>2, <1>3
<1>5. After(K, i) = Cardinality(A)
  BY DEF After, A
<1>6. QED
  BY <1>3, <1>4, <1>5

(***************************************************************************)
(* Appending a message keeps the record: it is the last one, and all the   *)
(* others have one more behind them.                                       *)
(***************************************************************************)
LEMMA AppendRecords ==
  ASSUME NEW h \in Seq(Message), NEW m \in Message, NEW K \in SUBSET Nat, IsFiniteSet(K),
         NEW f, Records(h, K, f), NEW x \in Nat, \A k \in K : k < x,
         NEW g, g[x] = m, \A i \in K : g[i] = f[i]
  PROVE  Records(LastOf(Append(h, m), MaxHistory), K \cup {x}, g)
<1>1. MaxHistory \in Nat \ {0} /\ Cardinality(K) \in Nat
  BY BoundsAssumption, FS_CardinalityType
<1>2. PICK n \in Nat, c \in Nat : n = MaxHistory /\ n # 0 /\ c = Cardinality(K)
  BY <1>1
<1>3. PICK a \in Seq(Message) :
        /\ a = Append(h, m) /\ Len(a) = Len(h) + 1
        /\ a[Len(a)] = m /\ \A i \in 1..Len(h) : a[i] = h[i]
  <2>1. /\ Append(h, m) \in Seq(Message) /\ Len(Append(h, m)) = Len(h) + 1
        /\ \A i \in 1..Len(h) : Append(h, m)[i] = h[i]
        /\ Append(h, m)[Len(h) + 1] = m
    BY AppendProperties
  <2>2. QED
    BY <2>1
<1>4. PICK q : q = LastOf(a, n)
  OBVIOUS
<1>5. q \in Seq(Message) /\ \A i \in 1..Len(q) : q[i] = a[i + Len(a) - Len(q)]
  <2>1. n \in Nat \ {0}
    BY <1>2
  <2>2. QED
    BY <1>4, <2>1, LastOfIsSuffix
<1>6. Len(q) = IF Len(a) <= n THEN Len(a) ELSE n
  <2>1. CASE Len(a) <= n
    BY <1>4, <2>1 DEF LastOf
  <2>2. CASE ~(Len(a) <= n)
    <3>1. q = SubSeq(a, Len(a) - n + 1, Len(a))
      BY <1>4, <2>2 DEF LastOf
    <3>2. Len(a) - n + 1 \in 1..Len(a)
      BY <1>2, <1>3, <2>2
    <3>3. Len(q) = n
      BY <1>2, <1>3, <2>2, <3>1, <3>2
    <3>4. QED
      BY <2>2, <3>3
  <2>3. QED
    BY <2>1, <2>2
<1>7. Len(h) = IF c <= n THEN c ELSE n
  BY <1>2 DEF Records
<1>8. PICK lh \in Nat, la \in Nat, lq \in Nat : lh = Len(h) /\ la = Len(a) /\ lq = Len(q)
  BY <1>5
<1>9. x \notin K /\ Cardinality(K \cup {x}) = c + 1
  <2>1. x \notin K
    OBVIOUS
  <2>2. QED
    BY <1>2, <2>1, FS_AddElement
<1>10. lq = IF c + 1 <= n THEN c + 1 ELSE n
  BY <1>2, <1>3, <1>6, <1>7, <1>8
<1>11. q[lq - After(K \cup {x}, x)] = g[x]
  <2>1. {k \in K \cup {x} : k > x} = {}
    <3>1. ~(x > x) /\ \A k \in K : k \in Nat /\ ~(k > x)
      OBVIOUS
    <3>2. QED
      BY <3>1
  <2>2. After(K \cup {x}, x) = 0
    BY <2>1, FS_EmptySet DEF After
  <2>3. lq \in 1..lq /\ lq + la - lq = la
    BY <1>2, <1>10
  <2>4. q[lq] = a[la]
    BY <1>5, <1>8, <2>3
  <2>5. lq - 0 = lq
    OBVIOUS
  <2>6. QED
    BY <1>3, <1>8, <2>2, <2>4, <2>5
<1>12. ASSUME NEW i \in K, After(K \cup {x}, i) < n
       PROVE  q[lq - After(K \cup {x}, i)] = g[i]
  <2>1. PICK b \in Nat : b = After(K, i) /\ b < c
    BY <1>2, AfterCounts
  <2>2. After(K \cup {x}, i) = b + 1
    <3> DEFINE A == {k \in K : k > i}
    <3>1. {k \in K \cup {x} : k > i} = A \cup {x}
      OBVIOUS
    <3>2. IsFiniteSet(A) /\ x \notin A
      <4>1. A \in SUBSET K
        OBVIOUS
      <4>2. QED
        BY <1>9, <4>1, FS_Subset
    <3>3. Cardinality(A \cup {x}) = Cardinality(A) + 1
      BY <3>2, FS_AddElement
    <3>4. QED
      BY <2>1, <3>1, <3>3 DEF After
  <2>3. b + 1 < n
    BY <1>12, <2>2
  <2>4. /\ lq - (b + 1) \in 1..lq /\ lh - b \in 1..lh
        /\ (lq - (b + 1)) + la - lq = lh - b
    <3>1. la = lh + 1 /\ lh = (IF c <= n THEN c ELSE n)
      BY <1>3, <1>7, <1>8
    <3>2. b + 1 < lq /\ b < lh
      BY <1>2, <1>10, <2>1, <2>3, <3>1
    <3>3. QED
      BY <3>1, <3>2
  <2>5. q[lq - (b + 1)] = a[lh - b]
    BY <1>5, <1>8, <2>4
  <2>6. a[lh - b] = h[lh - b]
    BY <1>3, <1>8, <2>4
  <2>7. h[lh - b] = f[i]
    BY <1>2, <1>8, <2>1, <2>3 DEF Records
  <2>8. QED
    BY <2>2, <2>5, <2>6, <2>7
<1>13. q = LastOf(Append(h, m), MaxHistory)
  BY <1>2, <1>3, <1>4
<1>14. Records(q, K \cup {x}, g)
  BY <1>2, <1>8, <1>9, <1>10, <1>11, <1>12 DEF Records
<1>15. QED
  BY <1>13, <1>14

(***************************************************************************)
(* The log of a session that was never trimmed tells how much each answer  *)
(* has said, and its kept events are recorded in the history.              *)
(***************************************************************************)
Counted(s) ==
  /\ Len(log[s]) = next[s] - 1
  /\ \A t \in Turns : Deltas(s, t) = IF turn[t].session = s THEN turn[t].said ELSE 0

Recorded(s) == Records(history[s], Kept(s), [i \in Kept(s) |-> ShownAs(s, i)])

Faithful(s) == next[s] - 1 <= MaxEvents => Counted(s) /\ Recorded(s)

HistoryInv ==
  /\ \A s \in Sessions : Faithful(s)
  /\ \A t \in Turns : turn[t].stage \in {"unused", "body"} => turn[t].said = 0

LEMMA KeptAreFinite ==
  ASSUME TypeOK, NEW s \in Sessions
  PROVE  /\ Len(log[s]) \in Nat
         /\ Kept(s) \subseteq 1..Len(log[s]) /\ Kept(s) \in SUBSET Nat /\ IsFiniteSet(Kept(s))
<1>1. log[s] \in Seq(Event)
  BY DEF TypeOK
<1>2. Len(log[s]) \in Nat
  BY <1>1
<1>3. Kept(s) \subseteq 1..Len(log[s])
  BY DEF Kept
<1>4. IsFiniteSet(1..Len(log[s])) /\ 1..Len(log[s]) \subseteq Nat
  BY <1>2, FS_Interval
<1>5. QED
  BY <1>2, <1>3, <1>4, FS_Subset

LEMMA DeltasAreFinite ==
  ASSUME TypeOK, NEW s \in Sessions, NEW t
  PROVE  /\ IsFiniteSet({i \in 1..Len(log[s]) : log[s][i].type = "delta" /\ log[s][i].turn = t})
         /\ Deltas(s, t) \in Nat
<1> DEFINE D == {i \in 1..Len(log[s]) : log[s][i].type = "delta" /\ log[s][i].turn = t}
<1>1. IsFiniteSet(1..Len(log[s])) /\ D \in SUBSET (1..Len(log[s]))
  BY KeptAreFinite, FS_Interval
<1>2. IsFiniteSet(D)
  BY <1>1, FS_Subset
<1>3. QED
  BY <1>2, FS_CardinalityType DEF Deltas

\* A session whose log, history and answers stay the same stays faithful.
LEMMA Elsewhere ==
  ASSUME NEW s \in Sessions, Faithful(s),
         log'[s] = log[s], next'[s] = next[s], history'[s] = history[s],
         \A t \in Turns : (IF turn'[t].session = s THEN turn'[t].said ELSE 0)
                            = (IF turn[t].session = s THEN turn[t].said ELSE 0)
  PROVE  Faithful(s)'
<1>1. \A t : Deltas(s, t)' = Deltas(s, t)
  BY DEF Deltas
<1>2. Kept(s)' = Kept(s)
  BY <1>1, Zenon DEF Kept
<1>3. \A i : ShownAs(s, i)' = ShownAs(s, i)
  BY <1>1, Zenon DEF ShownAs
<1>4. [i \in Kept(s) |-> ShownAs(s, i)]' = [i \in Kept(s) |-> ShownAs(s, i)]
  BY <1>2, <1>3
<1>5. Counted(s) => Counted(s)'
  BY <1>1 DEF Counted
<1>6. Recorded(s) => Recorded(s)'
  BY <1>2, <1>4, Zenon DEF Recorded
<1>7. QED
  BY <1>5, <1>6 DEF Faithful

(***************************************************************************)
(* Pushing to a log that stays untrimmed only appends.                     *)
(***************************************************************************)
Appended(s, types, t) ==
  /\ Len(log'[s]) = Len(log[s]) + Len(types)
  /\ Len(log'[s]) = next'[s] - 1
  /\ \A i \in 1..Len(log[s]) : log'[s][i] = log[s][i]
  /\ \A i \in 1..Len(types) : /\ log'[s][Len(log[s]) + i].type = types[i]
                              /\ log'[s][Len(log[s]) + i].turn = t

LEMMA PushAppends ==
  ASSUME TypeOK, NEW s \in Sessions, NEW types \in Seq(EventType), NEW t \in Turns,
         Push(s, types, t), Faithful(s), next'[s] - 1 <= MaxEvents
  PROVE  Counted(s) /\ Recorded(s) /\ Appended(s, types, t)
<1>1. log[s] \in Seq(Event) /\ next[s] \in Nat \ {0} /\ next'[s] = next[s] + Len(types)
  BY PushedLog DEF TypeOK
<1>2. PICK l \in Nat, k \in Nat, n \in Nat : l = Len(log[s]) /\ k = Len(types) /\ n = next[s]
  BY <1>1
<1>3. MaxEvents \in Nat
  BY BoundsAssumption
<1>4. n - 1 <= MaxEvents
  BY <1>1, <1>2, <1>3
<1>5. Counted(s) /\ Recorded(s)
  BY <1>2, <1>4 DEF Faithful
<1>6. l = n - 1
  BY <1>2, <1>5 DEF Counted
<1>7. PICK new \in Seq(Event) : new = EventsFrom(next[s], types, t) /\ Len(new) = k
  BY <1>1, <1>2, EventsFromType
<1>8. Len(log[s] \o new) = l + k
  <2>1. Len(log[s] \o new) = Len(log[s]) + Len(new)
    BY <1>1, <1>7, ConcatProperties, Zenon
  <2>2. QED
    BY <1>2, <1>7, <2>1
<1>9. l + k <= MaxEvents
  BY <1>1, <1>2, <1>6
<1>10. LastOf(log[s] \o new, MaxEvents) = log[s] \o new
  BY <1>8, <1>9 DEF LastOf
<1>11. log' = [log EXCEPT ![s] = log[s] \o new]
  BY <1>7, <1>10 DEF Push
<1>12. Len(log'[s]) = l + k
  BY <1>8, <1>11 DEF TypeOK
<1>13. PICK d \in Nat :
         /\ Len(log'[s]) + d = Len(log[s]) + Len(types)
         /\ \A i \in 1..Len(log'[s]) :
              log'[s][i] = IF i + d <= Len(log[s]) THEN log[s][i + d]
                           ELSE [id |-> next[s] + (i + d - Len(log[s])) - 1,
                                 type |-> types[i + d - Len(log[s])], turn |-> t]
  BY PushedLog
<1>14. d = 0
  BY <1>2, <1>12, <1>13
<1>15. ASSUME NEW i \in 1..Len(log[s]) PROVE log'[s][i] = log[s][i]
  <2>1. i \in 1..Len(log'[s]) /\ i + d <= Len(log[s]) /\ i + d = i
    BY <1>2, <1>12, <1>14
  <2>2. QED
    BY <1>13, <2>1
<1>16. ASSUME NEW i \in 1..Len(types)
       PROVE  log'[s][Len(log[s]) + i].type = types[i] /\ log'[s][Len(log[s]) + i].turn = t
  <2>1. PICK j \in Nat : j = l + i
    BY <1>2
  <2>2. j \in 1..(l + k) /\ ~(j + 0 <= l) /\ j + 0 - l = i
    BY <1>2, <2>1
  <2>3. log'[s][j] = [id |-> next[s] + (j + d - Len(log[s])) - 1,
                      type |-> types[j + d - Len(log[s])], turn |-> t]
    BY <1>2, <1>12, <1>13, <1>14, <2>2, Zenon
  <2>4. QED
    BY <1>2, <1>14, <2>1, <2>2, <2>3
<1>17. Len(log'[s]) = next'[s] - 1
  BY <1>1, <1>2, <1>6, <1>12
<1>18. QED
  BY <1>2, <1>5, <1>12, <1>15, <1>16, <1>17 DEF Appended

\* Where no text was pushed, every answer has said what it had said.
LEMMA SameDeltas ==
  ASSUME TypeOK, NEW s \in Sessions, NEW types \in Seq(EventType), NEW t \in Turns,
         Appended(s, types, t), \A i \in 1..Len(types) : types[i] # "delta"
  PROVE  \A u : Deltas(s, u)' = Deltas(s, u)
<1>1. PICK l \in Nat, k \in Nat : l = Len(log[s]) /\ k = Len(types)
  BY KeptAreFinite
<1>2. Len(log'[s]) = l + k /\ \A i \in 1..l : log'[s][i] = log[s][i]
  BY <1>1 DEF Appended
<1>3. ASSUME NEW i \in 1..(l + k), ~(i \in 1..l) PROVE log'[s][i].type # "delta"
  <2>1. PICK j \in 1..k : i = l + j
    <3>1. i - l \in 1..k /\ i = l + (i - l)
      BY <1>3
    <3>2. QED
      BY <3>1
  <2>2. log'[s][l + j].type = types[j]
    BY <1>1 DEF Appended
  <2>3. QED
    BY <1>1, <2>1, <2>2
<1>4. 1..l \subseteq 1..(l + k)
  OBVIOUS
<1>5. \A u : {i \in 1..(l + k) : log'[s][i].type = "delta" /\ log'[s][i].turn = u}
              = {i \in 1..l : log[s][i].type = "delta" /\ log[s][i].turn = u}
  BY <1>2, <1>3, <1>4
<1>6. QED
  BY <1>1, <1>2, <1>5 DEF Deltas

\* What was kept stays kept and is shown as before, if no answer that ended says more.
LEMMA SameKept ==
  ASSUME TypeOK, NEW s \in Sessions, NEW types, NEW t, Appended(s, types, t), Len(types) \in Nat,
         \A i \in 1..Len(log[s]) : log[s][i].type \in Terminal =>
           \A u : u = log[s][i].turn => Deltas(s, u)' = Deltas(s, u)
  PROVE  /\ \A i \in 1..Len(log[s]) : i \in Kept(s)' <=> i \in Kept(s)
         /\ \A i \in Kept(s) : ShownAs(s, i)' = ShownAs(s, i)
<1>1. ASSUME NEW i \in 1..Len(log[s])
      PROVE  i \in 1..Len(log'[s]) /\ log'[s][i] = log[s][i]
  BY KeptAreFinite DEF Appended
<1>2. ASSUME NEW i \in 1..Len(log[s])
      PROVE  /\ i \in Kept(s)' <=> i \in Kept(s)
             /\ i \in Kept(s) => ShownAs(s, i)' = ShownAs(s, i)
  <2>1. PICK e, u : e = log[s][i] /\ e = log'[s][i] /\ u = e.turn
    BY <1>1
  <2>2. e.type \in {"done", "cancelled", "error"} => Deltas(s, u)' = Deltas(s, u)
    BY <2>1 DEF Terminal
  <2>3. /\ i \in Kept(s) <=> \/ e.type \in {"user", "done"}
                             \/ e.type \in {"cancelled", "error"} /\ Deltas(s, u) > 0
        /\ i \in Kept(s)' <=> \/ e.type \in {"user", "done"}
                              \/ e.type \in {"cancelled", "error"} /\ Deltas(s, u)' > 0
    BY <1>1, <2>1 DEF Kept
  <2>4. /\ ShownAs(s, i) = IF e.type = "user"
                           THEN [role |-> "user", turn |-> u, size |-> 1]
                           ELSE [role |-> "assistant", turn |-> u, size |-> Deltas(s, u)]
        /\ ShownAs(s, i)' = IF e.type = "user"
                            THEN [role |-> "user", turn |-> u, size |-> 1]
                            ELSE [role |-> "assistant", turn |-> u, size |-> Deltas(s, u)']
    BY <2>1 DEF ShownAs
  <2>5. i \in Kept(s)' <=> i \in Kept(s)
    BY <2>2, <2>3
  <2>6. ASSUME i \in Kept(s) PROVE ShownAs(s, i)' = ShownAs(s, i)
    <3>1. e.type = "user" \/ Deltas(s, u)' = Deltas(s, u)
      BY <2>2, <2>3, <2>6
    <3>2. QED
      BY <2>4, <3>1
  <2>7. QED
    BY <2>5, <2>6
<1>3. Kept(s) \subseteq 1..Len(log[s])
  BY DEF Kept
<1>4. QED
  BY <1>2, <1>3

\* A kept event and its message arrive together.
LEMMA MessageIsRecorded ==
  ASSUME TypeOK, NEW s \in Sessions, Recorded(s), NEW m \in Message,
         history'[s] = LastOf(Append(history[s], m), MaxHistory),
         NEW x \in Nat, x = Len(log[s]) + 1, Kept(s)' = Kept(s) \cup {x}, ShownAs(s, x)' = m,
         \A i \in Kept(s) : ShownAs(s, i)' = ShownAs(s, i)
  PROVE  Recorded(s)'
<1>1. PICK l \in Nat : l = Len(log[s]) /\ x = l + 1
  BY KeptAreFinite
<1>2. PICK K \in SUBSET Nat : K = Kept(s) /\ IsFiniteSet(K) /\ \A k \in K : k < x
  BY <1>1, KeptAreFinite
<1>3. PICK f : f = [i \in Kept(s) |-> ShownAs(s, i)]
  OBVIOUS
<1>4. PICK g : g = [i \in K \cup {x} |-> ShownAs(s, i)']
  OBVIOUS
<1>5. g[x] = m /\ \A i \in K : g[i] = f[i]
  <2>1. g[x] = m
    BY <1>4
  <2>2. \A i \in K : g[i] = ShownAs(s, i)' /\ f[i] = ShownAs(s, i)
    BY <1>2, <1>3, <1>4
  <2>3. QED
    BY <1>2, <2>1, <2>2
<1>6. history[s] \in Seq(Message) /\ Records(history[s], K, f)
  BY <1>2, <1>3 DEF TypeOK, Recorded
<1>7. Records(LastOf(Append(history[s], m), MaxHistory), K \cup {x}, g)
  BY <1>2, <1>5, <1>6, AppendRecords
<1>8. Kept(s)' = K \cup {x}
  BY <1>1, <1>2
<1>9. [i \in Kept(s) |-> ShownAs(s, i)]' = g
  BY <1>4, <1>8
<1>10. QED
  BY <1>7, <1>8, <1>9, Zenon DEF Recorded

\* Nothing kept, nothing remembered.
LEMMA RecordStays ==
  ASSUME NEW s \in Sessions, Recorded(s), history'[s] = history[s], Kept(s)' = Kept(s),
         \A i \in Kept(s) : ShownAs(s, i)' = ShownAs(s, i)
  PROVE  Recorded(s)'
<1>1. [i \in Kept(s) |-> ShownAs(s, i)]' = [i \in Kept(s) |-> ShownAs(s, i)]
  <2>1. [i \in Kept(s)' |-> ShownAs(s, i)'] = [i \in Kept(s) |-> ShownAs(s, i)]
    OBVIOUS
  <2>2. QED
    BY <2>1
<1>2. QED
  BY <1>1, Zenon DEF Recorded

LEMMA BodyKeepsHistory ==
  ASSUME TypeOK, NEW t \in Turns, NEW s \in Sessions, s = turn[t].session,
         BodyArrives(t), Faithful(s), next'[s] - 1 <= MaxEvents
  PROVE  /\ Recorded(s)' /\ Len(log'[s]) = next'[s] - 1
         /\ \A u : Deltas(s, u)' = Deltas(s, u)
<1> DEFINE types == <<"user", "start">>
<1>1. types \in Seq(EventType) /\ Len(types) = 2 /\ types[1] = "user" /\ types[2] = "start"
  BY DEF EventType
<1>2. Push(s, types, t)
  BY DEF BodyArrives
<1> HIDE DEF types
<1>3. Counted(s) /\ Recorded(s) /\ Appended(s, types, t)
  BY <1>1, <1>2, PushAppends
<1>4. \A u : Deltas(s, u)' = Deltas(s, u)
  <2>1. \A i \in 1..Len(types) : types[i] # "delta"
    BY <1>1
  <2>2. QED
    BY <1>1, <1>3, <2>1, SameDeltas
<1>5. /\ \A i \in 1..Len(log[s]) : i \in Kept(s)' <=> i \in Kept(s)
      /\ \A i \in Kept(s) : ShownAs(s, i)' = ShownAs(s, i)
  BY <1>1, <1>3, <1>4, SameKept
<1>6. PICK l \in Nat : l = Len(log[s])
  BY KeptAreFinite
<1>7. /\ Len(log'[s]) = l + 2
      /\ log'[s][l + 1].type = "user" /\ log'[s][l + 1].turn = t
      /\ log'[s][l + 2].type = "start"
  BY <1>1, <1>3, <1>6 DEF Appended
<1>8. Kept(s)' = Kept(s) \cup {l + 1}
  <2>1. Kept(s)' \subseteq 1..(l + 2) /\ Kept(s) \subseteq 1..l
    BY <1>6, <1>7 DEF Kept
  <2>2. l + 1 \in Kept(s)' /\ l + 2 \notin Kept(s)'
    <3>1. l + 1 \in 1..Len(log'[s])
      BY <1>7
    <3>2. QED
      BY <1>7, <3>1 DEF Kept
  <2>3. ASSUME NEW i PROVE i \in Kept(s)' <=> i \in Kept(s) \cup {l + 1}
    <3>1. i \in 1..(l + 2) => i \in 1..l \/ i = l + 1 \/ i = l + 2
      OBVIOUS
    <3>2. l + 1 \notin 1..l /\ l + 2 \notin 1..l /\ l + 1 # l + 2
      OBVIOUS
    <3>3. QED
      BY <1>5, <1>6, <2>1, <2>2, <3>1, <3>2, Zenon
  <2>4. QED
    BY <2>3
<1>9. PICK m \in Message : m = [role |-> "user", turn |-> t, size |-> 1]
  BY DEF Message
<1>10. ShownAs(s, l + 1)' = m
  BY <1>7, <1>9 DEF ShownAs
<1>11. history'[s] = LastOf(Append(history[s], m), MaxHistory)
  BY <1>9 DEF BodyArrives, Remember, TypeOK
<1>12. Recorded(s)'
  BY <1>3, <1>5, <1>6, <1>8, <1>10, <1>11, MessageIsRecorded
<1>13. QED
  BY <1>3, <1>4, <1>12 DEF Appended

LEMMA DeltaKeepsHistory ==
  ASSUME TypeOK, LogInv, NEW t \in Turns, NEW s \in Sessions, s = turn[t].session,
         Delta(t), Faithful(s), next'[s] - 1 <= MaxEvents
  PROVE  /\ Recorded(s)' /\ Len(log'[s]) = next'[s] - 1
         /\ Deltas(s, t)' = Deltas(s, t) + 1 /\ \A u : u # t => Deltas(s, u)' = Deltas(s, u)
<1> DEFINE types == <<"delta">>
<1>1. types \in Seq(EventType) /\ Len(types) = 1 /\ types[1] = "delta"
  BY DEF EventType
<1>2. Push(s, types, t)
  BY DEF Delta
<1> HIDE DEF types
<1>3. Counted(s) /\ Recorded(s) /\ Appended(s, types, t)
  BY <1>1, <1>2, PushAppends
<1>4. PICK l \in Nat : l = Len(log[s])
  BY KeptAreFinite
<1>5. /\ Len(log'[s]) = l + 1 /\ \A i \in 1..l : log'[s][i] = log[s][i]
      /\ log'[s][l + 1].type = "delta" /\ log'[s][l + 1].turn = t
  BY <1>1, <1>3, <1>4 DEF Appended
<1>6. 1..(l + 1) = (1..l) \cup {l + 1} /\ l + 1 \notin 1..l
  OBVIOUS
<1> DEFINE Places(u) == {i \in 1..l : log[s][i].type = "delta" /\ log[s][i].turn = u}
           Places2(u) == {i \in 1..(l + 1) : log'[s][i].type = "delta" /\ log'[s][i].turn = u}
<1>7. \A u : u # t => Places2(u) = Places(u)
  BY <1>5, <1>6
<1>8. Places2(t) = Places(t) \cup {l + 1}
  BY <1>5, <1>6
<1>9. \A u : Deltas(s, u) = Cardinality(Places(u)) /\ Deltas(s, u)' = Cardinality(Places2(u))
  BY <1>4, <1>5 DEF Deltas
<1>10. IsFiniteSet(Places(t)) /\ l + 1 \notin Places(t)
  BY <1>4, <1>6, DeltasAreFinite
<1> HIDE DEF Places, Places2
<1>11. Deltas(s, t)' = Deltas(s, t) + 1 /\ \A u : u # t => Deltas(s, u)' = Deltas(s, u)
  BY <1>7, <1>8, <1>9, <1>10, FS_AddElement
<1>12. \A i \in 1..Len(log[s]) : log[s][i].type \in Terminal => log[s][i].turn # t
  BY DEF Delta, LogInv, AnswersEndOnce
<1>13. /\ \A i \in 1..Len(log[s]) : i \in Kept(s)' <=> i \in Kept(s)
       /\ \A i \in Kept(s) : ShownAs(s, i)' = ShownAs(s, i)
  BY <1>1, <1>3, <1>11, <1>12, SameKept
<1>14. Kept(s)' = Kept(s)
  <2>1. Kept(s)' \subseteq 1..(l + 1) /\ Kept(s) \subseteq 1..l /\ l + 1 \notin Kept(s)'
    BY <1>4, <1>5 DEF Kept
  <2>2. QED
    BY <1>4, <1>6, <1>13, <2>1
<1>15. history'[s] = history[s]
  BY DEF Delta
<1>16. Recorded(s)'
  BY <1>3, <1>13, <1>14, <1>15, RecordStays
<1>17. QED
  BY <1>3, <1>11, <1>16 DEF Appended

LEMMA EndKeepsHistory ==
  ASSUME TypeOK, LogInv, NEW t \in Turns, NEW s \in Sessions, s = turn[t].session,
         NEW type \in Terminal, StreamEnds(t, type), Faithful(s), next'[s] - 1 <= MaxEvents
  PROVE  /\ Recorded(s)' /\ Len(log'[s]) = next'[s] - 1
         /\ \A u : Deltas(s, u)' = Deltas(s, u)
<1> DEFINE types == <<type>>
<1>1. types \in Seq(EventType) /\ Len(types) = 1 /\ types[1] = type
  BY DEF EventType, Terminal
<1>2. Push(s, types, t)
  BY DEF StreamEnds
<1> HIDE DEF types
<1>3. Counted(s) /\ Recorded(s) /\ Appended(s, types, t)
  BY <1>1, <1>2, PushAppends
<1>4. \A u : Deltas(s, u)' = Deltas(s, u)
  <2>1. \A i \in 1..Len(types) : types[i] # "delta"
    BY <1>1 DEF Terminal
  <2>2. QED
    BY <1>1, <1>3, <2>1, SameDeltas
<1>5. /\ \A i \in 1..Len(log[s]) : i \in Kept(s)' <=> i \in Kept(s)
      /\ \A i \in Kept(s) : ShownAs(s, i)' = ShownAs(s, i)
  BY <1>1, <1>3, <1>4, SameKept
<1>6. PICK l \in Nat, x \in Nat : l = Len(log[s]) /\ x = l + 1
  BY KeptAreFinite
<1>7. Len(log'[s]) = x /\ log'[s][x].type = type /\ log'[s][x].turn = t
  BY <1>1, <1>3, <1>6 DEF Appended
<1>8. PICK said \in Nat : said = turn[t].said /\ said = Deltas(s, t) /\ said = Deltas(s, t)'
  BY <1>3, <1>4 DEF Counted, TypeOK, Turn
<1>9. Kept(s)' \subseteq (1..l) \cup {x} /\ Kept(s) \subseteq 1..l
  BY <1>6, <1>7 DEF Kept
<1>10. x \in Kept(s)' <=> type = "done" \/ said > 0
  <2>1. x \in 1..Len(log'[s])
    BY <1>6, <1>7
  <2>2. x \in Kept(s)' <=> \/ type \in {"user", "done"}
                           \/ type \in {"cancelled", "error"} /\ said > 0
    BY <1>7, <1>8, <2>1 DEF Kept
  <2>3. QED
    BY <2>2 DEF Terminal
<1>11. Kept(s)' \ {x} = Kept(s) /\ x \notin Kept(s)
  BY <1>5, <1>6, <1>9
<1>12. CASE type = "done" \/ said > 0
  <2>1. Kept(s)' = Kept(s) \cup {x}
    BY <1>10, <1>11, <1>12
  <2>2. PICK m \in Message : m = [role |-> "assistant", turn |-> t, size |-> said]
    BY DEF Message
  <2>3. ShownAs(s, x)' = m
    BY <1>7, <1>8, <2>2 DEF ShownAs, Terminal
  <2>4. Remember(s, "assistant", t, said)
    BY <1>8, <1>12 DEF StreamEnds, KeepAnswer
  <2>5. history'[s] = LastOf(Append(history[s], m), MaxHistory)
    BY <2>2, <2>4 DEF Remember, TypeOK
  <2>6. Recorded(s)'
    BY <1>3, <1>5, <1>6, <2>1, <2>3, <2>5, MessageIsRecorded
  <2>7. QED
    BY <1>3, <1>4, <2>6 DEF Appended
<1>13. CASE ~(type = "done" \/ said > 0)
  <2>1. Kept(s)' = Kept(s)
    BY <1>10, <1>11, <1>13
  <2>2. history' = history
    BY <1>8, <1>13 DEF StreamEnds, KeepAnswer
  <2>3. Recorded(s)'
    BY <1>3, <1>5, <2>1, <2>2, RecordStays
  <2>4. QED
    BY <1>3, <1>4, <2>3 DEF Appended
<1>14. QED
  BY <1>12, <1>13

\* A push only takes a log further from what was never trimmed.
LEMMA PushGoesOn ==
  ASSUME TypeOK, NEW s \in Sessions, NEW types \in Seq(EventType), NEW t \in Turns,
         Push(s, types, t), next'[s] - 1 <= MaxEvents
  PROVE  next[s] - 1 <= MaxEvents
<1>1. PICK n \in Nat, k \in Nat : n = next[s] /\ k = Len(types) /\ next'[s] = n + k
  BY PushedLog DEF TypeOK
<1>2. QED
  BY <1>1, BoundsAssumption

\* Pushing for a turn leaves the other sessions alone.
LEMMA OthersStay ==
  ASSUME TypeOK, NEW s \in Sessions, NEW t \in Turns, turn[t].session = s,
         NEW types \in Seq(EventType), Push(s, types, t),
         turn'[t].session = s, \A u \in Turns \ {t} : turn'[u] = turn[u],
         \A r \in Sessions \ {s} : history'[r] = history[r],
         \A r \in Sessions : Faithful(r)
  PROVE  \A r \in Sessions \ {s} : Faithful(r)'
<1> SUFFICES ASSUME NEW r \in Sessions \ {s} PROVE Faithful(r)'
  OBVIOUS
<1>1. log'[r] = log[r] /\ next'[r] = next[r] /\ history'[r] = history[r]
  BY PushedLog
<1>2. \A u \in Turns : (IF turn'[u].session = r THEN turn'[u].said ELSE 0)
                         = (IF turn[u].session = r THEN turn[u].said ELSE 0)
  OBVIOUS
<1>3. QED
  BY <1>1, <1>2, Elsewhere

LEMMA StreamEndsKeepsHistory ==
  ASSUME TypeOK, Posted, LogInv, HistoryInv, NEW t \in Turns, NEW type \in Terminal,
         StreamEnds(t, type)
  PROVE  HistoryInv'
<1>1. PICK s \in Sessions : s = turn[t].session
  BY DEF StreamEnds, Posted
<1>2. turn' = [turn EXCEPT ![t].stage = "ended"] /\ turn[t] \in Turn
  BY DEF StreamEnds, TypeOK
<1>3. /\ \A u \in Turns \ {t} : turn'[u] = turn[u]
      /\ turn'[t].session = s /\ turn'[t].said = turn[t].said /\ turn'[t].stage = "ended"
  BY <1>1, <1>2 DEF TypeOK, Turn
<1>4. Push(s, <<type>>, t) /\ <<type>> \in Seq(EventType)
  BY <1>1 DEF StreamEnds, Terminal, EventType
<1>5. \A r \in Sessions \ {s} : history'[r] = history[r]
  BY <1>1 DEF StreamEnds, KeepAnswer, Remember, TypeOK
<1>6. \A r \in Sessions : Faithful(r)
  BY DEF HistoryInv
<1>7. \A r \in Sessions \ {s} : Faithful(r)'
  BY <1>1, <1>3, <1>4, <1>5, <1>6, OthersStay
<1>8. Faithful(s)'
  <2>1. ASSUME next'[s] - 1 <= MaxEvents
        PROVE  /\ Recorded(s)' /\ Len(log'[s]) = next'[s] - 1
               /\ \A u \in Turns :
                    Deltas(s, u)' = IF turn'[u].session = s THEN turn'[u].said ELSE 0
    <3>1. next[s] - 1 <= MaxEvents
      BY <1>4, <2>1, PushGoesOn
    <3>2. Counted(s)
      BY <1>6, <3>1 DEF Faithful
    <3>3. /\ Recorded(s)' /\ Len(log'[s]) = next'[s] - 1
          /\ \A u : Deltas(s, u)' = Deltas(s, u)
      BY <1>1, <1>6, <2>1, EndKeepsHistory
    <3>4. QED
      BY <1>1, <1>3, <3>2, <3>3 DEF Counted
  <2>2. QED
    BY <2>1 DEF Faithful, Counted
<1>9. QED
  BY <1>3, <1>7, <1>8 DEF HistoryInv

LEMMA BodyArrivesKeepsHistory ==
  ASSUME TypeOK, Posted, LogInv, HistoryInv, NEW t \in Turns, BodyArrives(t)
  PROVE  HistoryInv'
<1>1. PICK s \in Sessions : s = turn[t].session
  BY DEF BodyArrives, Posted
<1>2. /\ turn' = [turn EXCEPT ![t].stage = "streaming", ![t].orphan = s \notin Open]
      /\ turn[t] \in Turn
  BY <1>1 DEF BodyArrives, TypeOK
<1>3. /\ \A u \in Turns \ {t} : turn'[u] = turn[u]
      /\ turn'[t].session = s /\ turn'[t].said = turn[t].said /\ turn'[t].stage = "streaming"
  BY <1>1, <1>2 DEF TypeOK, Turn
<1>4. Push(s, <<"user", "start">>, t) /\ <<"user", "start">> \in Seq(EventType)
  BY <1>1 DEF BodyArrives, EventType
<1>5. \A r \in Sessions \ {s} : history'[r] = history[r]
  BY <1>1 DEF BodyArrives, Remember, TypeOK
<1>6. \A r \in Sessions : Faithful(r)
  BY DEF HistoryInv
<1>7. \A r \in Sessions \ {s} : Faithful(r)'
  BY <1>1, <1>3, <1>4, <1>5, <1>6, OthersStay
<1>8. Faithful(s)'
  <2>1. ASSUME next'[s] - 1 <= MaxEvents
        PROVE  /\ Recorded(s)' /\ Len(log'[s]) = next'[s] - 1
               /\ \A u \in Turns :
                    Deltas(s, u)' = IF turn'[u].session = s THEN turn'[u].said ELSE 0
    <3>1. next[s] - 1 <= MaxEvents
      BY <1>4, <2>1, PushGoesOn
    <3>2. Counted(s)
      BY <1>6, <3>1 DEF Faithful
    <3>3. /\ Recorded(s)' /\ Len(log'[s]) = next'[s] - 1
          /\ \A u : Deltas(s, u)' = Deltas(s, u)
      BY <1>1, <1>6, <2>1, BodyKeepsHistory
    <3>4. QED
      BY <1>1, <1>3, <3>2, <3>3 DEF Counted
  <2>2. QED
    BY <2>1 DEF Faithful, Counted
<1>9. \A u \in Turns : turn'[u].stage \in {"unused", "body"} => turn'[u].said = 0
  BY <1>3 DEF HistoryInv
<1>10. QED
  BY <1>7, <1>8, <1>9 DEF HistoryInv

LEMMA DeltaStepKeepsHistory ==
  ASSUME TypeOK, Posted, LogInv, HistoryInv, NEW t \in Turns, Delta(t)
  PROVE  HistoryInv'
<1>1. PICK s \in Sessions : s = turn[t].session
  BY DEF Delta, Posted
<1>2. turn' = [turn EXCEPT ![t].said = turn[t].said + 1] /\ turn[t] \in Turn
  BY DEF Delta, TypeOK
<1>3. /\ \A u \in Turns \ {t} : turn'[u] = turn[u]
      /\ turn'[t].session = s /\ turn'[t].said = turn[t].said + 1
      /\ turn'[t].stage = "streaming"
  BY <1>1, <1>2 DEF Delta, TypeOK, Turn
<1>4. Push(s, <<"delta">>, t) /\ <<"delta">> \in Seq(EventType)
  BY <1>1 DEF Delta, EventType
<1>5. \A r \in Sessions \ {s} : history'[r] = history[r]
  BY DEF Delta
<1>6. \A r \in Sessions : Faithful(r)
  BY DEF HistoryInv
<1>7. \A r \in Sessions \ {s} : Faithful(r)'
  BY <1>1, <1>3, <1>4, <1>5, <1>6, OthersStay
<1>8. Faithful(s)'
  <2>1. ASSUME next'[s] - 1 <= MaxEvents
        PROVE  /\ Recorded(s)' /\ Len(log'[s]) = next'[s] - 1
               /\ \A u \in Turns :
                    Deltas(s, u)' = IF turn'[u].session = s THEN turn'[u].said ELSE 0
    <3>1. next[s] - 1 <= MaxEvents
      BY <1>4, <2>1, PushGoesOn
    <3>2. Counted(s)
      BY <1>6, <3>1 DEF Faithful
    <3>3. /\ Recorded(s)' /\ Len(log'[s]) = next'[s] - 1
          /\ Deltas(s, t)' = Deltas(s, t) + 1 /\ \A u : u # t => Deltas(s, u)' = Deltas(s, u)
      BY <1>1, <1>6, <2>1, DeltaKeepsHistory
    <3>4. ASSUME NEW u \in Turns
          PROVE  Deltas(s, u)' = IF turn'[u].session = s THEN turn'[u].said ELSE 0
      <4>1. CASE u = t
        BY <1>1, <1>3, <3>2, <3>3, <4>1 DEF Counted
      <4>2. CASE u # t
        BY <1>3, <3>2, <3>3, <4>2 DEF Counted
      <4>3. QED
        BY <4>1, <4>2
    <3>5. QED
      BY <3>3, <3>4
  <2>2. QED
    BY <2>1 DEF Faithful, Counted
<1>9. \A u \in Turns : turn'[u].stage \in {"unused", "body"} => turn'[u].said = 0
  BY <1>3 DEF HistoryInv
<1>10. QED
  BY <1>7, <1>8, <1>9 DEF HistoryInv

\* The history looks at no more of the turns than their session and what they said.
LEMMA UntouchedHistory ==
  ASSUME HistoryInv, UNCHANGED <<log, next, history>>,
         \A u \in Turns : /\ turn'[u].said = turn[u].said
                          /\ turn'[u].session = turn[u].session \/ turn[u].said = 0
                          /\ turn'[u].stage \in {"unused", "body"} =>
                               turn[u].stage \in {"unused", "body"}
  PROVE  HistoryInv'
<1>1. ASSUME NEW s \in Sessions PROVE Faithful(s)'
  <2>1. \A u \in Turns : (IF turn'[u].session = s THEN turn'[u].said ELSE 0)
                           = (IF turn[u].session = s THEN turn[u].said ELSE 0)
    OBVIOUS
  <2>2. QED
    BY <2>1, Elsewhere DEF HistoryInv
<1>2. QED
  BY <1>1 DEF HistoryInv

LEMMA TurnStepKeepsHistory ==
  ASSUME TypeOK, Posted, LogInv, HistoryInv, NEW t \in Turns, TurnStep(t)
  PROVE  HistoryInv'
<1>0. turn[t] \in Turn
  BY DEF TypeOK
<1>1. CASE \E s \in Sessions : PostMessage(t, s)
  <2>1. PICK s \in Sessions : PostMessage(t, s)
    BY <1>1
  <2>2. /\ turn' = [turn EXCEPT ![t].stage = "body", ![t].session = s]
        /\ turn[t].stage = "unused" /\ UNCHANGED <<log, next, history>>
    BY <2>1 DEF PostMessage, chats
  <2>3. /\ \A u \in Turns \ {t} : turn'[u] = turn[u]
        /\ turn'[t].said = turn[t].said /\ turn[t].said = 0
    BY <1>0, <2>2 DEF TypeOK, Turn, HistoryInv
  <2>4. QED
    BY <2>2, <2>3, UntouchedHistory
<1>2. CASE BodyArrives(t)
  BY <1>2, BodyArrivesKeepsHistory
<1>3. CASE BodyRefused(t)
  <2>1. turn' = [turn EXCEPT ![t].stage = "ended"] /\ UNCHANGED <<log, next, history>>
    BY <1>3 DEF BodyRefused, chats
  <2>2. /\ \A u \in Turns \ {t} : turn'[u] = turn[u]
        /\ turn'[t].said = turn[t].said /\ turn'[t].session = turn[t].session
        /\ turn'[t].stage = "ended"
    BY <1>0, <2>1 DEF TypeOK, Turn
  <2>3. QED
    BY <2>1, <2>2, UntouchedHistory
<1>4. CASE Delta(t)
  BY <1>4, DeltaStepKeepsHistory
<1>5. CASE Done(t) \/ Fails(t) \/ Cancelled(t)
  BY <1>5, StreamEndsKeepsHistory DEF Done, Fails, Cancelled, Terminal
<1>6. QED
  BY <1>1, <1>2, <1>3, <1>4, <1>5 DEF TurnStep

LEMMA SessionStepKeepsHistory ==
  ASSUME TypeOK, HistoryInv, (\E s \in Sessions : SessionStep(s)) \/ Prune
  PROVE  HistoryInv'
<1>1. UNCHANGED <<log, next, history>>
  BY DEF SessionStep, CreateSession, Visit, RefuseMessage, CancelMessage, Prune, chats
<1>2. UNCHANGED turn \/ \E D : turn' = Aborted(D)
  <2>1. CASE Prune
    BY <2>1 DEF Prune, DestroyOldest
  <2>2. ASSUME NEW s \in Sessions, SessionStep(s)
        PROVE  UNCHANGED turn \/ \E D : turn' = Aborted(D)
    BY <2>2 DEF SessionStep, CreateSession, Visit, RefuseMessage, CancelMessage, AbortStream
  <2>3. QED
    BY <2>1, <2>2
<1>3. \A u \in Turns : /\ turn'[u].said = turn[u].said /\ turn'[u].session = turn[u].session
                       /\ turn'[u].stage = turn[u].stage
  BY <1>2, AbortedType
<1>4. QED
  BY <1>1, <1>3, UntouchedHistory

LEMMA InitHistory == NoMessages => HistoryInv
<1> SUFFICES ASSUME NoMessages PROVE HistoryInv
  OBVIOUS
<1>1. \A t \in Turns : turn[t].said = 0
  BY DEF NoMessages, UnusedTurn
<1>2. ASSUME NEW s \in Sessions PROVE Faithful(s)
  <2>1. log[s] = <<>> /\ next[s] = 1 /\ history[s] = <<>>
    BY DEF NoMessages
  <2>2. Len(log[s]) = 0 /\ Len(history[s]) = 0 /\ 1..0 = {}
    BY <2>1
  <2>3. Kept(s) = {} /\ \A t : Deltas(s, t) = Cardinality({})
    BY <2>2 DEF Kept, Deltas
  <2>4. Counted(s)
    BY <1>1, <2>1, <2>2, <2>3, FS_EmptySet DEF Counted
  <2>5. Recorded(s)
    BY <2>2, <2>3, FS_EmptySet, BoundsAssumption DEF Recorded, Records
  <2>6. QED
    BY <2>4, <2>5 DEF Faithful
<1>3. QED
  BY <1>1, <1>2 DEF HistoryInv

LEMMA NextHistory == TypeOK /\ Posted /\ LogInv /\ HistoryInv /\ [Next]_vars => HistoryInv'
<1> SUFFICES ASSUME TypeOK, Posted, LogInv, HistoryInv, [Next]_vars PROVE HistoryInv'
  OBVIOUS
<1>1. CASE UNCHANGED vars
  <2>1. UNCHANGED <<log, next, history, turn>>
    BY <1>1 DEF vars
  <2>2. QED
    BY <2>1, UntouchedHistory
<1>2. QED
  BY <1>1, TurnStepKeepsHistory, SessionStepKeepsHistory DEF Next

LEMMA HistoryIsFaithful == HistoryInv => HistoryIsWhatWasShown
<1> SUFFICES ASSUME HistoryInv, NEW s \in Sessions, next[s] - 1 <= MaxEvents
             PROVE  Recorded(s) =>
                      /\ Len(history[s]) = IF Cardinality(Kept(s)) <= MaxHistory
                                           THEN Cardinality(Kept(s)) ELSE MaxHistory
                      /\ \A i \in Kept(s) : KeptAfter(s, i) < MaxHistory =>
                           history[s][Len(history[s]) - KeptAfter(s, i)] = ShownAs(s, i)
  BY DEF HistoryInv, Faithful, HistoryIsWhatWasShown
<1>1. \A i : KeptAfter(s, i) = After(Kept(s), i)
  BY DEF KeptAfter, After
<1>2. QED
  BY <1>1 DEF Recorded, Records

(***************************************************************************)
(* The context of the next request is the conversation the user saw, its   *)
(* partial answers included, however turns of a session interleave, as     *)
(* long as the log shows it whole (streamFromAdapter, KeepAnswer).         *)
(***************************************************************************)
THEOREM HistoryIsKept == Spec => []HistoryIsWhatWasShown
<1>1. Init => TypeOK /\ Posted /\ LogInv /\ HistoryInv
  BY InitType, InitLog, InitHistory DEF Init
<1>2. TypeOK /\ Posted /\ LogInv /\ HistoryInv /\ [Next]_vars
        => (TypeOK /\ Posted /\ LogInv /\ HistoryInv)'
  BY NextType, NextLog, NextHistory
<1>3. QED
  BY <1>1, <1>2, HistoryIsFaithful, PTL DEF Spec

-----------------------------------------------------------------------------
(***************************************************************************)
(* The page with its server.                                               *)
(***************************************************************************)

LEMMA PhoneStepsServer == PhoneNext => [Next]_vars
<1> SUFFICES ASSUME PhoneNext PROVE Next \/ UNCHANGED vars
  OBVIOUS
<1>1. ASSUME NEW t \in Turns, PostReaches(t) PROVE Next \/ UNCHANGED vars
  BY <1>1 DEF PostReaches, PostMessage, RefuseMessage, Accepts, Open, Next, TurnStep, SessionStep
<1>2. ASSUME NEW t \in Turns, BodyEnds(t) \/ Stream(t) PROVE Next
  BY <1>2 DEF BodyEnds, Stream, Next, TurnStep
<1>3. ASSUME NEW f \in Fetches, TakeSnapshot(f) PROVE Next \/ UNCHANGED vars
  BY <1>3 DEF TakeSnapshot, Visit, Open, Next, SessionStep
<1>4. CASE Subscribe \/ Stop
  BY <1>4 DEF Subscribe, Stop, Visit, CancelMessage, Open, Next, SessionStep
<1>5. CASE Expire \/ \E s \in Sessions : AskNewChat(s)
  BY <1>5 DEF Expire, AskNewChat, Next, SessionStep
<1>6. CASE PageStep \/ SourceEnds \/ NetworkStep
  BY <1>6 DEF PageStep, Send, HearReply, SnapshotArrives, SnapshotMissing, Dispatch, TimerFires,
     NewChatOpens, SourceEnds, NetworkStep, Fault, LoseSnapshot, LoseReply, LoseNewChat,
     BreakSource, GoOffline, GoOnline
<1>7. QED
  BY <1>1, <1>2, <1>3, <1>4, <1>5, <1>6 DEF PhoneNext, ServerStep

LEMMA BootChat == AnyOf(Sessions) \in Sessions
BY PhoneAssumption DEF AnyOf

\* The session that exists when the page has booted is the only one in the map.
LEMMA BootServer == PhoneInit => TypeOK /\ Posted /\ LogInv /\ Drawn /\ MapInv /\ StreamInv
<1> SUFFICES ASSUME PhoneInit
             PROVE  TypeOK /\ Posted /\ LogInv /\ Drawn /\ MapInv /\ StreamInv
  OBVIOUS
<1>1. chat \in Sessions
  BY BootChat DEF PhoneInit
<1>2. TypeOK /\ Posted
  BY <1>1 DEF PhoneInit, NoMessages, TypeOK, Posted, UnusedTurn, Turn, Stage
<1>3. LogInv
  BY DEF PhoneInit, NoMessages, LogInv, LogIsGapless, EventsOfSession, AnswersEndOnce
<1>4. Drawn
  BY DEF PhoneInit, Drawn
<1>5. Numbers(rank, 1)
  BY <1>1 DEF PhoneInit, Numbers, Used
<1>6. MapInv
  BY <1>5, BoundsAssumption DEF MapInv
<1>7. StreamInv
  BY DEF PhoneInit, NoMessages, UnusedTurn, StreamInv, StopReachesStreams, Holds, Reads
<1>8. QED
  BY <1>2, <1>3, <1>4, <1>6, <1>7

\* Consecutive events.
Run(q) == \A i \in 1..Len(q) : q[i].id = q[1].id + i - 1

\* Events of one session, whose streams have begun.
Belongs(q, s) ==
  \A i \in 1..Len(q) : /\ turn[q[i].turn].session = s
                       /\ turn[q[i].turn].stage \in {"streaming", "ended"}

Calm(q) == \A i \in 1..Len(q) : q[i].type \notin Terminal

\* Somebody who applies the events of q, waiting or not, is waiting then.
EndsWaiting(w, q) ==
  \/ w /\ Calm(q)
  \/ \E i \in 1..Len(q) : /\ q[i].type = "start"
                          /\ \A j \in i..Len(q) : q[j].type \notin Terminal

Trimmed(s, c) == next[s] - Len(log[s]) > c + 1

\* Somebody who has applied the events of s up to c will be waiting when the
\* rest of the log is applied, if s is busy, or will notice a gap.
Sound(s, c, w) ==
  busy[s] => \/ Trimmed(s, c)
             \/ w /\ \A i \in 1..Len(log[s]) : log[s][i].id > c => log[s][i].type \notin Terminal
             \/ \E i \in 1..Len(log[s]) :
                  /\ log[s][i].id > c /\ log[s][i].type = "start"
                  /\ \A j \in i..Len(log[s]) : log[s][j].type \notin Terminal

LogKept == \A s \in Sessions : next[s] = 1 \/ log[s] # <<>>

InFlight(f) == fetch[f].stage # "idle"

\* Something is under way that ends in a new subscription, or sets the timer again.
Repairing == timer \/ ~online \/ \E f \in Fetches : InFlight(f) /\ fetch[f].retry

NamesInv ==
  /\ chat \in created
  /\ source.stage # "closed" => source.session \in created
  /\ \A f \in Fetches : InFlight(f) => fetch[f].session \in created
  /\ newborn # None => /\ newborn \in created
                       /\ source.stage # "closed" => source.session # newborn

FetchOK(f) ==
  InFlight(f) =>
    LET s == fetch[f].session IN
    /\ s = chat
    /\ fetch[f].stage = "missing" => s \notin Open
    /\ fetch[f].stage = "answered" =>
         /\ Belongs(fetch[f].events, s)
         /\ Cursor(fetch[f].events) < next[s]
         /\ Sound(s, Cursor(fetch[f].events), fetch[f].busy)

FetchInv == \A f \in Fetches : FetchOK(f)

ScreenInv == Run(screen)

ClosedInv == source.stage # "open" => wire = <<>>

AskedInv ==
  source.stage = "asked" =>
    /\ Cursor(screen) <= source.after
    /\ source.after < next[source.session]
    /\ source.session = chat => /\ source.after = Cursor(screen)
                                /\ Sound(chat, source.after, waiting)

WireInv ==
  source.stage = "open" =>
    LET n == next[source.session] IN
    /\ Run(wire)
    /\ Belongs(wire, source.session)
    /\ Cursor(screen) < n
    /\ \A i \in 1..Len(wire) : Cursor(screen) < wire[i].id /\ wire[i].id < n
    /\ source.session \in Open /\ wire # <<>> => wire[Len(wire)].id = n - 1

\* Once drawn, the page shows and follows its chat; until then it follows another.
OwnInv ==
  /\ drawn => Belongs(screen, chat)
  /\ source.stage # "closed" => (drawn <=> source.session = chat)

\* Nothing is fetched while the id of a new chat is on its way.
NewbornInv == newborn # None => \A f \in Fetches : ~InFlight(f)

CurrentInv ==
  source.stage = "open" /\ source.session = chat /\ chat \in Open /\ ~Repairing =>
    /\ wire = <<>> => Cursor(screen) + 1 = next[chat]
    /\ busy[chat] => \/ EndsWaiting(waiting, wire)
                     \/ wire # <<>> /\ wire[1].id > Cursor(screen) + 1

PageInv ==
  /\ NamesInv /\ FetchInv /\ ScreenInv /\ ClosedInv /\ AskedInv
  /\ WireInv /\ OwnInv /\ NewbornInv /\ CurrentInv

-----------------------------------------------------------------------------
\* Runs of events.

LEMMA MaxIs ==
  ASSUME NEW S \in SUBSET Nat, NEW m \in S, \A x \in S : m >= x
  PROVE  Max(S) = m
<1>1. \E x \in S : \A y \in S : x >= y
  OBVIOUS
<1>2. Max(S) \in S /\ \A y \in S : Max(S) >= y
  BY <1>1 DEF Max
<1>3. Max(S) \in Nat /\ m \in Nat /\ m >= Max(S) /\ Max(S) >= m
  BY <1>2
<1>4. \A x, y \in Nat : x >= y /\ y >= x => x = y
  OBVIOUS
<1>5. QED
  BY <1>3, <1>4

LEMMA EmptyCursor == Cursor(<<>>) = 0
<1>1. DOMAIN <<>> = {}
  OBVIOUS
<1>2. {0} \cup {<<>>[i].id : i \in DOMAIN <<>>} = {0}
  BY <1>1, Zenon
<1>3. QED
  BY <1>2, MaxIs DEF Cursor

LEMMA RunCursor ==
  ASSUME NEW q \in Seq(Event), Run(q), q # <<>>
  PROVE  /\ Len(q) \in Nat \ {0}
         /\ q[1] \in Event /\ q[Len(q)] \in Event
         /\ Cursor(q) = q[Len(q)].id
<1>1. Len(q) \in Nat \ {0}
  OBVIOUS
<1>2. \A i \in 1..Len(q) : q[i] \in Event /\ q[i].id \in Nat
  <2>1. \A i \in 1..Len(q) : q[i] \in Event
    OBVIOUS
  <2>2. QED
    BY <2>1 DEF Event
<1>3. q[1].id \in Nat /\ \A i \in 1..Len(q) : q[i].id = q[1].id + i - 1
  BY <1>1, <1>2 DEF Run
<1> DEFINE S == {0} \cup {q[i].id : i \in DOMAIN q}
<1>4. S \in SUBSET Nat /\ q[Len(q)].id \in S
  BY <1>1, <1>2
<1>5. \A i \in 1..Len(q) : q[Len(q)].id >= q[i].id
  BY <1>1, <1>3
<1>6. \A x \in S : q[Len(q)].id >= x
  BY <1>1, <1>2, <1>5
<1>7. Cursor(q) = Max(S)
  BY DEF Cursor
<1> HIDE DEF S
<1>8. Max(S) = q[Len(q)].id
  BY <1>4, <1>6, MaxIs
<1>9. QED
  BY <1>1, <1>2, <1>7, <1>8

LEMMA CursorNat == \A q \in Seq(Event) : Run(q) => Cursor(q) \in Nat
<1> SUFFICES ASSUME NEW q \in Seq(Event), Run(q) PROVE Cursor(q) \in Nat
  OBVIOUS
<1>1. CASE q = <<>>
  BY <1>1, EmptyCursor
<1>2. CASE q # <<>>
  BY <1>2, RunCursor DEF Event
<1>3. QED
  BY <1>1, <1>2

LEMMA RunAppend ==
  ASSUME NEW q \in Seq(Event), Run(q), NEW e \in Event, q # <<>> => e.id = Cursor(q) + 1
  PROVE  Append(q, e) \in Seq(Event) /\ Run(Append(q, e)) /\ Cursor(Append(q, e)) = e.id
<1> DEFINE p == Append(q, e)
<1>1. /\ p \in Seq(Event) /\ Len(p) = Len(q) + 1 /\ p # <<>>
      /\ \A i \in 1..Len(q) : p[i] = q[i]
      /\ p[Len(q) + 1] = e
  BY AppendProperties
<1> HIDE DEF p
<1>2. Run(p)
  <2>1. CASE q = <<>>
    BY <1>1, <2>1 DEF Run, Event
  <2>2. CASE q # <<>>
    <3>1. /\ Len(q) \in Nat \ {0} /\ q[1].id \in Nat /\ e.id = q[Len(q)].id + 1
      BY <2>2, RunCursor DEF Event
    <3>2. q[Len(q)].id = q[1].id + Len(q) - 1
      BY <3>1 DEF Run
    <3>3. \A i \in 1..Len(q) : p[i].id = p[1].id + i - 1
      BY <1>1, <3>1 DEF Run
    <3>4. p[Len(q) + 1].id = p[1].id + (Len(q) + 1) - 1
      BY <1>1, <3>1, <3>2
    <3>5. ASSUME NEW i \in 1..Len(p)
          PROVE  p[i].id = p[1].id + i - 1
      <4>1. i \in 1..Len(q) \/ i = Len(q) + 1
        BY <1>1, <3>1
      <4>2. CASE i \in 1..Len(q)
        BY <4>2, <3>3
      <4>3. CASE i = Len(q) + 1
        BY <4>3, <3>4
      <4>4. QED
        BY <4>1, <4>2, <4>3
    <3>6. QED
      BY <3>5 DEF Run
  <2>3. QED
    BY <2>1, <2>2
<1>3. Cursor(p) = e.id
  BY <1>1, <1>2, RunCursor
<1>4. QED
  BY <1>1, <1>2, <1>3 DEF p

-----------------------------------------------------------------------------
\* What the server's steps do to the log that the page follows.

LEMMA LogRun ==
  ASSUME TypeOK, LogIsGapless, NEW s \in Sessions
  PROVE  /\ log[s] \in Seq(Event) /\ Len(log[s]) \in Nat /\ next[s] \in Nat \ {0}
         /\ \A i \in 1..Len(log[s]) : /\ log[s][i] \in Event
                                      /\ log[s][i].id = next[s] - Len(log[s]) + i - 1
         /\ Run(log[s])
         /\ log[s] # <<>> => Cursor(log[s]) = next[s] - 1
<1>1. log[s] \in Seq(Event) /\ next[s] \in Nat \ {0}
  BY DEF TypeOK
<1>2. Len(log[s]) \in Nat
  BY <1>1
<1>3. \A i \in 1..Len(log[s]) : log[s][i].id = next[s] - Len(log[s]) + i - 1
  BY DEF LogIsGapless
<1>4. Run(log[s])
  BY <1>1, <1>2, <1>3 DEF Run
<1>5. log[s] # <<>> => Cursor(log[s]) = next[s] - 1
  <2> SUFFICES ASSUME log[s] # <<>> PROVE Cursor(log[s]) = next[s] - 1
    OBVIOUS
  <2>1. Len(log[s]) \in Nat \ {0} /\ Cursor(log[s]) = log[s][Len(log[s])].id
    BY <1>1, <1>4, RunCursor
  <2>2. QED
    BY <1>1, <1>3, <2>1
<1>6. \A i \in 1..Len(log[s]) : log[s][i] \in Event
  BY <1>1
<1>7. QED
  BY <1>1, <1>2, <1>3, <1>4, <1>5, <1>6

\* The end of p is q.
LEMMA LastOfTail ==
  ASSUME NEW S, NEW p \in Seq(S), NEW q \in Seq(S), Len(q) <= Len(p),
         \A i \in 1..Len(q) : q[i] = p[i + Len(p) - Len(q)]
  PROVE  LastOf(p, Len(q)) = q
<1>1. Len(p) \in Nat /\ Len(q) \in Nat
  OBVIOUS
<1>2. CASE Len(p) = Len(q)
  <2>1. \A i \in 1..Len(q) : q[i] = p[i]
    BY <1>1, <1>2
  <2>2. p = q
    BY <1>2, <2>1, SeqEqual
  <2>3. QED
    BY <1>1, <1>2, <2>2 DEF LastOf
<1>3. CASE Len(q) < Len(p)
  <2>1. LastOf(p, Len(q)) = SubSeq(p, Len(p) - Len(q) + 1, Len(p))
    BY <1>1, <1>3 DEF LastOf
  <2> DEFINE r == SubSeq(p, Len(p) - Len(q) + 1, Len(p))
  <2>2. /\ r \in Seq(S) /\ Len(r) = Len(q)
        /\ \A i \in 1..Len(q) : r[i] = p[i + Len(p) - Len(q)]
    BY <1>1, <1>3, SubSeqProperties
  <2> HIDE DEF r
  <2>3. r = q
    BY <2>2, SeqEqual
  <2>4. QED
    BY <2>1, <2>3 DEF r
<1>4. QED
  BY <1>1, <1>2, <1>3

(***************************************************************************)
(* The events new are pushed to s: the others keep theirs, the log of s    *)
(* may lose some at its front, and a session is not busy after a terminal  *)
(* event.                                                                  *)
(***************************************************************************)
Retains(old, new, all) ==
  /\ Len(new) <= Len(all)
  /\ \E d \in Nat : /\ Len(all) + d = Len(old) + Len(new)
                    /\ \A i \in 1..Len(all) :
                         /\ i + d <= Len(old) => all[i] = old[i + d]
                         /\ i + d > Len(old) => all[i] = new[i + d - Len(old)]

Extends(s, new) ==
  /\ new # <<>>
  /\ \A r \in Sessions \ {s} : log'[r] = log[r] /\ next'[r] = next[r] /\ busy'[r] = busy[r]
  /\ next'[s] = next[s] + Len(new)
  /\ \A i \in 1..Len(new) : new[i].id = next[s] + i - 1
  /\ Retains(log[s], new, log'[s])
  /\ busy'[s] => \/ busy[s] /\ Calm(new)
                 \/ new[Len(new)].type = "start"

LEMMA PushExtends ==
  ASSUME TypeOK, NEW s \in Sessions, NEW types \in Seq(EventType), NEW t \in Turns,
         Push(s, types, t), Len(types) <= MaxEvents, types # <<>>,
         \A r \in Sessions \ {s} : busy'[r] = busy[r],
         busy'[s] => \/ busy[s] /\ \A i \in 1..Len(types) : types[i] \notin Terminal
                     \/ types[Len(types)] = "start"
  PROVE  \E new \in Seq(Event) :
           Extends(s, new) /\ \A i \in 1..Len(new) : new[i].turn = t
<1>1. log[s] \in Seq(Event) /\ next[s] \in Nat \ {0} /\ Len(types) \in Nat \ {0}
  BY DEF TypeOK
<1> DEFINE new == EventsFrom(next[s], types, t)
<1>2. /\ new \in Seq(Event) /\ Len(new) = Len(types)
      /\ \A i \in 1..Len(types) :
           new[i] = [id |-> next[s] + i - 1, type |-> types[i], turn |-> t]
  BY <1>1, EventsFromType
<1>3. /\ log' \in [Sessions -> Seq(Event)]
      /\ next'[s] = next[s] + Len(types)
      /\ \A r \in Sessions \ {s} : log'[r] = log[r] /\ next'[r] = next[r]
  BY PushedLog
<1>4. log'[s] = LastOf(log[s] \o new, MaxEvents)
  BY DEF Push, TypeOK
<1> HIDE DEF new
<1>5. log[s] \o new \in Seq(Event) /\ Len(log[s] \o new) = Len(log[s]) + Len(new)
  BY <1>1, <1>2, ConcatProperties, Zenon
<1>6. Len(new) <= Len(log'[s])
  <2>1. Len(log'[s]) = IF Len(log[s]) + Len(types) <= MaxEvents THEN Len(log[s]) + Len(types)
                       ELSE MaxEvents
    BY PushedLength
  <2>2. Len(log[s]) \in Nat
    BY <1>1
  <2>3. QED
    BY <1>1, <1>2, <2>1, <2>2
<1>7. Retains(log[s], new, log'[s])
  <2>1. PICK d \in Nat :
          /\ Len(LastOf(log[s] \o new, MaxEvents)) + d = Len(log[s]) + Len(new)
          /\ \A i \in 1..Len(LastOf(log[s] \o new, MaxEvents)) :
               /\ i + d <= Len(log[s]) => LastOf(log[s] \o new, MaxEvents)[i] = log[s][i + d]
               /\ i + d > Len(log[s]) =>
                    /\ LastOf(log[s] \o new, MaxEvents)[i] = new[i + d - Len(log[s])]
                    /\ i + d - Len(log[s]) \in 1..Len(new)
    <3>1. MaxEvents \in Nat \ {0}
      BY BoundsAssumption
    <3>2. QED
      BY <1>1, <1>2, <3>1, LastOfConcat, Zenon
  <2>2. /\ Len(log'[s]) + d = Len(log[s]) + Len(new)
        /\ \A i \in 1..Len(log'[s]) :
             /\ i + d <= Len(log[s]) => log'[s][i] = log[s][i + d]
             /\ i + d > Len(log[s]) => log'[s][i] = new[i + d - Len(log[s])]
    BY <1>4, <2>1, Zenon
  <2>3. QED
    BY <1>6, <2>2, Zenon DEF Retains
<1>8. \A i \in 1..Len(new) :
        new[i].id = next[s] + i - 1 /\ new[i].type = types[i] /\ new[i].turn = t
  <2> SUFFICES ASSUME NEW i \in 1..Len(new)
               PROVE  new[i].id = next[s] + i - 1 /\ new[i].type = types[i] /\ new[i].turn = t
    OBVIOUS
  <2>1. new[i] = [id |-> next[s] + i - 1, type |-> types[i], turn |-> t]
    BY <1>2
  <2>2. QED
    BY <2>1
<1>9. busy'[s] => \/ busy[s] /\ Calm(new)
                  \/ new[Len(new)].type = "start"
  <2>1. new # <<>> /\ Len(new) \in 1..Len(new)
    BY <1>1, <1>2
  <2>2. new[Len(new)].type = types[Len(types)]
    BY <1>2, <1>8, <2>1
  <2>3. (\A i \in 1..Len(types) : types[i] \notin Terminal) => Calm(new)
    BY <1>2, <1>8 DEF Calm
  <2>4. QED
    BY <2>1, <2>2, <2>3
<1>10. Extends(s, new)
  BY <1>1, <1>2, <1>3, <1>7, <1>8, <1>9 DEF Extends
<1>11. QED
  BY <1>2, <1>8, <1>10

\* The events new will belong to s.
Adopts(s, new) ==
  \A i \in 1..Len(new) : /\ turn'[new[i].turn].session = s
                         /\ turn'[new[i].turn].stage \in {"streaming", "ended"}

\* Every event that is pushed belongs to a stream of the session.
LEMMA TurnExtends ==
  ASSUME TypeOK, Posted, NEW t \in Turns,
         BodyArrives(t) \/ Delta(t) \/ Done(t) \/ Fails(t) \/ Cancelled(t)
  PROVE  \E s \in Sessions, new \in Seq(Event) : Extends(s, new) /\ Adopts(s, new)
<1>0. turn[t] \in Turn
  BY DEF TypeOK
<1>1. PICK s \in Sessions : s = turn[t].session
  BY DEF BodyArrives, Delta, Done, Fails, Cancelled, StreamEnds, Posted
<1>2. ASSUME NEW types \in Seq(EventType), types # <<>>, Len(types) <= 2,
             Push(s, types, t),
             \A r \in Sessions \ {s} : busy'[r] = busy[r],
             busy'[s] => \/ busy[s] /\ \A i \in 1..Len(types) : types[i] \notin Terminal
                         \/ types[Len(types)] = "start",
             turn'[t].session = s, turn'[t].stage \in {"streaming", "ended"}
      PROVE  \E new \in Seq(Event) : Extends(s, new) /\ Adopts(s, new)
  <2>1. Len(types) <= MaxEvents
    BY <1>2, PhoneAssumption, BoundsAssumption
  <2>2. PICK new \in Seq(Event) : Extends(s, new) /\ \A i \in 1..Len(new) : new[i].turn = t
    BY <1>2, <2>1, PushExtends
  <2>3. Adopts(s, new)
    BY <1>2, <2>2 DEF Adopts
  <2>4. QED
    BY <2>2, <2>3
<1>3. CASE BodyArrives(t)
  <2>1. /\ Push(s, <<"user", "start">>, t)
        /\ busy' = [busy EXCEPT ![s] = TRUE]
        /\ turn' = [turn EXCEPT ![t].stage = "streaming", ![t].orphan = s \notin Open]
    BY <1>1, <1>3 DEF BodyArrives
  <2>2. <<"user", "start">> \in Seq(EventType)
    BY DEF EventType
  <2>3. PICK types \in Seq(EventType) : types = <<"user", "start">>
    BY <2>2, Zenon
  <2>4. Push(s, types, t) /\ types # <<>> /\ Len(types) <= 2 /\ types[Len(types)] = "start"
    BY <2>1, <2>3
  <2>5. \A r \in Sessions \ {s} : busy'[r] = busy[r]
    BY <2>1 DEF TypeOK
  <2>6. turn'[t].session = s /\ turn'[t].stage \in {"streaming", "ended"}
    BY <1>0, <1>1, <2>1 DEF TypeOK, Turn
  <2>7. QED
    BY <1>2, <2>4, <2>5, <2>6, Zenon
<1>4. CASE Delta(t)
  <2>1. /\ Push(s, <<"delta">>, t) /\ busy' = busy /\ turn[t].stage = "streaming"
        /\ turn' = [turn EXCEPT ![t].said = turn[t].said + 1]
    BY <1>1, <1>4 DEF Delta
  <2>2. <<"delta">> \in Seq(EventType)
    BY DEF EventType
  <2>3. PICK types \in Seq(EventType) : types = <<"delta">>
    BY <2>2, Zenon
  <2>4. /\ Push(s, types, t) /\ types # <<>> /\ Len(types) <= 2
        /\ \A i \in 1..Len(types) : types[i] \notin Terminal
    BY <2>1, <2>3 DEF Terminal
  <2>5. (busy'[s] => busy[s]) /\ \A r \in Sessions \ {s} : busy'[r] = busy[r]
    BY <2>1
  <2>6. turn'[t].session = s /\ turn'[t].stage \in {"streaming", "ended"}
    BY <1>0, <1>1, <2>1 DEF TypeOK, Turn
  <2>7. QED
    BY <1>2, <2>4, <2>5, <2>6, Zenon
<1>5. CASE Done(t) \/ Fails(t) \/ Cancelled(t)
  <2>1. PICK type \in Terminal : StreamEnds(t, type)
    BY <1>5 DEF Done, Fails, Cancelled, Terminal
  <2>2. /\ Push(s, <<type>>, t) /\ busy' = [busy EXCEPT ![s] = FALSE]
        /\ turn' = [turn EXCEPT ![t].stage = "ended"]
    BY <1>1, <2>1 DEF StreamEnds, Release
  <2>3. <<type>> \in Seq(EventType)
    BY DEF EventType, Terminal
  <2>4. PICK types \in Seq(EventType) : types = <<type>>
    BY <2>3, Zenon
  <2>5. Push(s, types, t) /\ types # <<>> /\ Len(types) <= 2
    BY <2>2, <2>4
  <2>6. (\A r \in Sessions \ {s} : busy'[r] = busy[r]) /\ ~busy'[s]
    BY <2>2 DEF TypeOK
  <2>7. turn'[t].session = s /\ turn'[t].stage \in {"streaming", "ended"}
    BY <1>0, <1>1, <2>2 DEF TypeOK, Turn
  <2>8. QED
    BY <1>2, <2>5, <2>6, <2>7, Zenon
<1>6. QED
  BY <1>3, <1>4, <1>5

\* Where the i-th of the last k elements was before d were trimmed.
LEMMA TailShift ==
  ASSUME NEW l \in Nat, NEW l2 \in Nat, NEW k \in Nat, NEW d \in Nat, l2 + d = l + k, k <= l2,
         NEW i \in 1..k
  PROVE  i + l2 - k \in 1..l2 /\ (i + l2 - k) + d > l /\ (i + l2 - k) + d - l = i
OBVIOUS

LEMMA ExtendsTail ==
  ASSUME TypeOK, TypeOK', NEW s \in Sessions, NEW new \in Seq(Event), Extends(s, new)
  PROVE  LastOf(log'[s], next'[s] - next[s]) = new
<1>1. PICK old \in Seq(Event), all \in Seq(Event) : old = log[s] /\ all = log'[s]
  BY DEF TypeOK
<1>2. PICK l \in Nat, l2 \in Nat, k \in Nat : l = Len(old) /\ l2 = Len(all) /\ k = Len(new)
  OBVIOUS
<1>3. Retains(old, new, all) /\ next'[s] = next[s] + k /\ next[s] \in Nat
  BY <1>1, <1>2 DEF Extends, TypeOK
<1>4. PICK d \in Nat :
        /\ l2 + d = l + k /\ k <= l2
        /\ \A i \in 1..l2 : i + d > l => all[i] = new[i + d - l]
  BY <1>2, <1>3 DEF Retains
<1>5. \A i \in 1..k : new[i] = all[i + l2 - k]
  <2> SUFFICES ASSUME NEW i \in 1..k PROVE new[i] = all[i + l2 - k]
    OBVIOUS
  <2>1. PICK j \in 1..l2 : j = i + l2 - k /\ j + d > l /\ j + d - l = i
    BY <1>4, TailShift
  <2>2. QED
    BY <1>4, <2>1
<1>6. LastOf(all, k) = new
  BY <1>2, <1>4, <1>5, LastOfTail
<1>7. next'[s] - next[s] = k
  BY <1>3
<1>8. QED
  BY <1>1, <1>6, <1>7

\* What Relay does with a step that pushes.
Relayed(s, new) ==
  wire' = IF source.stage = "open" /\ source.session \in Open /\ source.session = s
          THEN wire \o new ELSE wire

LEMMA NoTail == \A q \in Seq(Event) : LastOf(q, 0) = <<>>
<1> SUFFICES ASSUME NEW q \in Seq(Event) PROVE LastOf(q, 0) = <<>>
  OBVIOUS
<1>1. Len(q) \in Nat
  OBVIOUS
<1>2. CASE Len(q) = 0
  BY <1>2 DEF LastOf
<1>3. CASE Len(q) # 0
  <2>1. LastOf(q, 0) = SubSeq(q, Len(q) + 1, Len(q))
    BY <1>1, <1>3 DEF LastOf
  <2>2. QED
    BY <1>1, <2>1
<1>4. QED
  BY <1>2, <1>3

LEMMA RelayPushes ==
  ASSUME TypeOK, TypeOK', NEW s \in Sessions, NEW new \in Seq(Event), Extends(s, new),
         wire \in Seq(Event), Relay
  PROVE  Relayed(s, new)
<1>1. CASE ~(source.stage = "open" /\ source.session \in Open)
  BY <1>1 DEF Relay, Relayed
<1>2. CASE source.stage = "open" /\ source.session \in Open
  <2>1. wire' = wire \o LastOf(log'[source.session], next'[source.session] - next[source.session])
    BY <1>2 DEF Relay
  <2>2. CASE source.session = s
    BY <1>2, <2>1, <2>2, ExtendsTail DEF Relayed
  <2>3. CASE source.session # s
    <3>1. source.session \in Sessions \ {s}
      BY <1>2, <2>3 DEF Open
    <3>2. next'[source.session] - next[source.session] = 0 /\ log'[source.session] \in Seq(Event)
      BY <3>1 DEF Extends, TypeOK
    <3>3. wire' = wire \o <<>>
      BY <2>1, <3>2, NoTail
    <3>4. wire' = wire
      BY <3>3, ConcatEmptySeq
    <3>5. QED
      BY <2>3, <3>4 DEF Relayed
  <2>4. QED
    BY <2>2, <2>3
<1>3. QED
  BY <1>1, <1>2

LEMMA RelayNothing ==
  ASSUME TypeOK, UNCHANGED <<log, next>>, wire \in Seq(Event), Relay
  PROVE  wire' = wire
<1>1. CASE ~(source.stage = "open" /\ source.session \in Open)
  BY <1>1 DEF Relay
<1>2. CASE source.stage = "open" /\ source.session \in Open
  <2>1. PICK s \in Sessions : s = source.session
    BY <1>2 DEF Open
  <2>2. wire' = wire \o LastOf(log[s], next[s] - next[s])
    BY <1>2, <2>1 DEF Relay
  <2>3. next[s] - next[s] = 0 /\ log[s] \in Seq(Event)
    BY DEF TypeOK
  <2>4. wire' = wire \o <<>>
    BY <2>2, <2>3, NoTail
  <2>5. QED
    BY <2>4, ConcatEmptySeq
<1>3. QED
  BY <1>1, <1>2

-----------------------------------------------------------------------------
\* What no step of the server undoes.

LEMMA ServerMoves ==
  ASSUME TypeOK, Posted, [Next]_vars
  PROVE  \/ UNCHANGED <<log, next, busy>>
         \/ \E s \in Sessions, new \in Seq(Event) : Extends(s, new) /\ Adopts(s, new)
<1>1. ASSUME NEW t \in Turns, TurnStep(t)
      PROVE  \/ UNCHANGED <<log, next, busy>>
             \/ \E s \in Sessions, new \in Seq(Event) : Extends(s, new) /\ Adopts(s, new)
  <2>1. CASE (\E s \in Sessions : PostMessage(t, s)) \/ BodyRefused(t)
    BY <2>1 DEF PostMessage, BodyRefused, chats
  <2>2. CASE BodyArrives(t) \/ Delta(t) \/ Done(t) \/ Fails(t) \/ Cancelled(t)
    BY <2>2, TurnExtends, Zenon
  <2>3. QED
    BY <1>1, <2>1, <2>2 DEF TurnStep
<1>2. CASE Prune \/ UNCHANGED vars \/ \E s \in Sessions : SessionStep(s)
  BY <1>2 DEF Prune, vars, chats, SessionStep, CreateSession, Visit, RefuseMessage, CancelMessage
<1>3. QED
  BY <1>1, <1>2 DEF Next

\* A session that has left the map does not come back, nor is an id forgotten.
LEMMA NoReturn ==
  ASSUME TypeOK, Posted, [Next]_vars
  PROVE  created \subseteq created' /\ \A s \in created : s \in Open' => s \in Open
<1>1. CASE UNCHANGED <<rank, created>>
  BY <1>1 DEF Open
<1>2. CASE (\E s \in Sessions : rank' = Touch(s)) /\ UNCHANGED created
  BY <1>2 DEF Open, Touch, TypeOK
<1>3. CASE Prune
  <2>1. PICK n \in 1..Cardinality(Open) : DestroyOldest(n)
    BY <1>3 DEF Prune
  <2>2. n \in Nat /\ UNCHANGED created
    BY <1>3, <2>1, OpenCount DEF Prune
  <2>3. QED
    BY <2>1, <2>2 DEF DestroyOldest, Open, TypeOK
<1>4. ASSUME NEW s \in Sessions, CreateSession(s)
      PROVE  created \subseteq created' /\ \A r \in created : r \in Open' => r \in Open
  <2>1. PICK n \in 0..Cardinality(Open) :
          rank' = [r \in Sessions |-> IF r = s THEN Cardinality(Open) - Evicted(n) + 1
                                      ELSE IF rank[r] <= Evicted(n) THEN 0
                                      ELSE rank[r] - Evicted(n)]
    BY <1>4 DEF CreateSession
  <2>2. Evicted(n) \in Nat /\ s \notin created /\ created' = created \cup {s}
    BY <1>4, OpenCount, BoundsAssumption DEF Evicted, CreateSession
  <2>3. QED
    BY <2>1, <2>2 DEF Open, TypeOK
<1>5. QED
  BY <1>1, <1>2, <1>3, <1>4, MapSteps

\* A stream that has begun keeps its session.
Begun(t) == turn[t].stage \in {"streaming", "ended"}

LEMMA BegunStays ==
  ASSUME TypeOK, [Next]_vars, NEW t \in Turns, Begun(t)
  PROVE  turn'[t].session = turn[t].session /\ turn'[t].stage \in {"streaming", "ended"}
<1>0. \A u \in Turns : turn[u] \in Turn
  BY DEF TypeOK
<1>1. ASSUME NEW u \in Turns, TurnStep(u)
      PROVE  turn'[t].session = turn[t].session /\ turn'[t].stage \in {"streaming", "ended"}
  <2>1. CASE \E s \in Sessions : PostMessage(u, s)
    BY <2>1 DEF PostMessage, TypeOK, Begun
  <2>2. CASE BodyArrives(u) \/ BodyRefused(u)
    BY <1>0, <2>2 DEF BodyArrives, BodyRefused, TypeOK, Turn, Begun
  <2>3. CASE Delta(u)
    BY <1>0, <2>3 DEF Delta, TypeOK, Turn, Begun
  <2>4. CASE Done(u) \/ Fails(u) \/ Cancelled(u)
    <3>1. turn' = [turn EXCEPT ![u].stage = "ended"]
      BY <2>4 DEF Done, Fails, Cancelled, StreamEnds
    <3>2. QED
      BY <1>0, <3>1 DEF TypeOK, Turn, Begun
  <2>5. QED
    BY <1>1, <2>1, <2>2, <2>3, <2>4 DEF TurnStep
<1>2. CASE UNCHANGED vars
  BY <1>2 DEF vars, Begun
<1>3. CASE Prune \/ \E s \in Sessions : SessionStep(s)
  <2>1. UNCHANGED turn \/ \E D : turn' = Aborted(D)
    BY <1>3 DEF SessionStep, CreateSession, Visit, RefuseMessage, CancelMessage, AbortStream,
       Prune, DestroyOldest
  <2>2. QED
    BY <2>1, AbortedType DEF Begun
<1>4. QED
  BY <1>1, <1>2, <1>3 DEF Next

LEMMA BelongsStays ==
  ASSUME TypeOK, [Next]_vars, NEW q \in Seq(Event), NEW s, Belongs(q, s)
  PROVE  Adopts(s, q)
<1>1. \A i \in 1..Len(q) : q[i].turn \in Turns
  <2>1. \A i \in 1..Len(q) : q[i] \in Event
    OBVIOUS
  <2>2. QED
    BY <2>1 DEF Event
<1>2. QED
  BY <1>1, BegunStays DEF Belongs, Begun, Adopts

LEMMA AdoptsIs == \A q, s : Adopts(s, q) => Belongs(q, s)'
BY DEF Adopts, Belongs

LEMMA KeptNext ==
  ASSUME TypeOK, Posted, [Next]_vars, TypeOK'
  PROVE  /\ \A s \in Sessions : next'[s] >= next[s]
         /\ LogKept => LogKept'
<1>1. CASE UNCHANGED <<log, next, busy>>
  BY <1>1 DEF LogKept, TypeOK
<1>2. ASSUME NEW s \in Sessions, NEW new \in Seq(Event), Extends(s, new)
      PROVE  (\A r \in Sessions : next'[r] >= next[r]) /\ (LogKept => LogKept')
  <2>1. next'[s] = next[s] + Len(new) /\ Len(new) \in Nat \ {0} /\ Len(new) <= Len(log'[s])
    BY <1>2 DEF Extends, Retains
  <2>2. \A r \in Sessions \ {s} : log'[r] = log[r] /\ next'[r] = next[r]
    BY <1>2 DEF Extends
  <2>3. \A r \in Sessions : next[r] \in Nat \ {0} /\ log[r] \in Seq(Event) /\ log'[r] \in Seq(Event)
    BY DEF TypeOK
  <2>4. ASSUME LogKept PROVE next'[s] = 1 \/ log'[s] # <<>>
    BY <2>1, <2>3
  <2>5. LogKept => LogKept'
    BY <2>2, <2>4 DEF LogKept
  <2>6. \A r \in Sessions : next'[r] >= next[r]
    <3>1. next'[s] >= next[s]
      BY <2>1, <2>3
    <3>2. \A r \in Sessions \ {s} : next'[r] >= next[r]
      BY <2>2, <2>3
    <3>3. QED
      BY <3>1, <3>2
  <2>7. QED
    BY <2>5, <2>6
<1>3. QED
  BY <1>1, <1>2, ServerMoves

\* A view of a session that was sound stays so, whatever is pushed and trimmed.
LEMMA SoundStays ==
  ASSUME TypeOK, LogIsGapless, TypeOK', LogIsGapless', Posted, [Next]_vars,
         NEW s \in Sessions, NEW c \in Nat, NEW w \in BOOLEAN, c < next[s], Sound(s, c, w)
  PROVE  Sound(s, c, w)'
<1>1. CASE log'[s] = log[s] /\ next'[s] = next[s] /\ busy'[s] = busy[s]
  BY <1>1 DEF Sound, Trimmed
<1>2. ASSUME NEW new \in Seq(Event), Extends(s, new), busy'[s]
      PROVE  Sound(s, c, w)'
  <2>1. PICK old \in Seq(Event), all \in Seq(Event) : old = log[s] /\ all = log'[s]
    BY DEF TypeOK
  <2>2. PICK l \in Nat, l2 \in Nat, k \in Nat \ {0}, n \in Nat, n2 \in Nat :
          l = Len(old) /\ l2 = Len(all) /\ k = Len(new) /\ n = next[s] /\ n2 = next'[s]
    <3>1. new # <<>> /\ next[s] \in Nat /\ next'[s] \in Nat
      BY <1>2 DEF Extends, TypeOK
    <3>2. QED
      BY <3>1
  <2>3. PICK d \in Nat :
          /\ l2 + d = l + k /\ k <= l2
          /\ \A i \in 1..l2 : /\ i + d <= l => all[i] = old[i + d]
                              /\ i + d > l => all[i] = new[i + d - l]
    <3>1. Retains(old, new, all)
      BY <1>2, <2>1 DEF Extends
    <3>2. QED
      BY <2>2, <3>1 DEF Retains
  <2>4. n2 = n + k /\ c < n
    BY <1>2, <2>2 DEF Extends
  <2>5. /\ \A i \in 1..l : old[i].id = n - l + i - 1
        /\ \A i \in 1..l2 : all[i].id = n2 - l2 + i - 1
    BY <2>1, <2>2 DEF LogIsGapless
  <2> DEFINE Blind == n2 - l2 > c + 1
             Waits == w /\ \A i \in 1..l2 : all[i].id > c => all[i].type \notin Terminal
             Starts == \E i \in 1..l2 : /\ all[i].id > c /\ all[i].type = "start"
                                        /\ \A j \in i..l2 : all[j].type \notin Terminal
  <2>6. CASE new[k].type = "start"
    <3>1. l2 \in 1..l2 /\ l2 + d > l /\ l2 + d - l = k
      BY <2>3
    <3>2. all[l2].type = "start"
      BY <2>3, <2>6, <3>1
    <3>3. all[l2].id > c
      BY <2>3, <2>4, <2>5
    <3>4. \A j \in l2..l2 : all[j].type \notin Terminal
      BY <3>2 DEF Terminal
    <3>5. Starts
      BY <3>1, <3>2, <3>3, <3>4
    <3>6. QED
      BY <2>1, <2>2, <3>5 DEF Sound
  <2>7. CASE busy[s] /\ Calm(new)
    <3>1. \A i \in 1..k : new[i].type \notin Terminal
      BY <2>2, <2>7 DEF Calm
    \* An event of the new log is an old one, d further on, or a new one.
    <3>2. ASSUME NEW i \in 1..l2
          PROVE  \/ i + d \in 1..l /\ all[i] = old[i + d]
                 \/ i + d > l /\ all[i].type \notin Terminal
      <4>1. CASE i + d <= l
        BY <2>3, <4>1
      <4>2. CASE i + d > l
        <5>1. i + d - l \in 1..k
          BY <2>3, <4>2
        <5>2. QED
          BY <2>3, <3>1, <4>2, <5>1
      <4>3. QED
        BY <4>1, <4>2
    <3>3. CASE n - l > c + 1
      <4>1. Blind
        BY <2>3, <2>4, <3>3
      <4>2. QED
        BY <2>1, <2>2, <4>1 DEF Sound, Trimmed
    <3>4. CASE w /\ \A i \in 1..l : old[i].id > c => old[i].type \notin Terminal
      <4>1. Waits
        BY <3>2, <3>4
      <4>2. QED
        BY <2>1, <2>2, <4>1 DEF Sound
    <3>5. ASSUME NEW i \in 1..l, old[i].id > c, old[i].type = "start",
                 \A j \in i..l : old[j].type \notin Terminal
          PROVE  Sound(s, c, w)'
      <4>1. CASE i <= d
        <5>1. n - l + i - 1 > c
          BY <2>5, <3>5
        <5>2. Blind
          BY <2>3, <2>4, <4>1, <5>1
        <5>3. QED
          BY <2>1, <2>2, <5>2 DEF Sound, Trimmed
      <4>2. CASE i > d
        <5>1. PICK m \in 1..l2 : m = i - d /\ m + d = i /\ m + d <= l
          BY <2>3, <4>2
        <5>2. all[m] = old[i]
          BY <2>3, <5>1
        <5>3. ASSUME NEW j \in m..l2 PROVE all[j].type \notin Terminal
          <6>1. j \in 1..l2 /\ j + d >= i
            BY <5>1
          <6>2. CASE j + d \in 1..l /\ all[j] = old[j + d]
            BY <3>5, <6>1, <6>2
          <6>3. QED
            BY <3>2, <6>1, <6>2
        <5>4. Starts
          BY <3>5, <5>2, <5>3
        <5>5. QED
          BY <2>1, <2>2, <5>4 DEF Sound
      <4>3. QED
        BY <4>1, <4>2
    <3>6. QED
      BY <2>1, <2>2, <2>7, <3>3, <3>4, <3>5 DEF Sound, Trimmed
  <2>8. QED
    BY <1>2, <2>2, <2>6, <2>7 DEF Extends
<1>3. CASE UNCHANGED <<log, next, busy>>
  BY <1>1, <1>3
<1>4. ASSUME NEW r \in Sessions, NEW new \in Seq(Event), Extends(r, new)
      PROVE  Sound(s, c, w)'
  <2>1. CASE r # s
    <3>1. log'[s] = log[s] /\ next'[s] = next[s] /\ busy'[s] = busy[s]
      BY <1>4, <2>1 DEF Extends
    <3>2. QED
      BY <1>1, <3>1
  <2>2. CASE r = s
    <3>1. CASE busy'[s]
      BY <1>2, <1>4, <2>2, <3>1
    <3>2. CASE ~busy'[s]
      BY <3>2 DEF Sound
    <3>3. QED
      BY <3>1, <3>2
  <2>3. QED
    BY <2>1, <2>2
<1>5. QED
  BY <1>3, <1>4, ServerMoves

-----------------------------------------------------------------------------
\* Types of the page.

\* A snapshot is a log, and a log has no gap.
SnapshotRuns == \A f \in Fetches : Run(fetch[f].events)

PhoneTyped == PhoneTypeOK /\ Posted /\ LogInv /\ SnapshotRuns

LEMMA AnyOfIn == \A S : S # {} => AnyOf(S) \in S
BY DEF AnyOf

LEMMA OpenTyped == \A s : s \in Open => s \in Sessions
BY DEF Open

LEMMA ReplayType ==
  ASSUME NEW q \in Seq(Event), NEW c
  PROVE  /\ Replay(q, c) \in Seq(Event)
         /\ Cardinality({i \in DOMAIN q : q[i].id <= c}) \in 0..Len(q)
         /\ Len(Replay(q, c)) = Len(q) - Cardinality({i \in DOMAIN q : q[i].id <= c})
         /\ \A i \in 1..Len(Replay(q, c)) :
              Replay(q, c)[i] = q[i + Cardinality({j \in DOMAIN q : q[j].id <= c})]
<1> DEFINE K == {i \in DOMAIN q : q[i].id <= c}
<1>1. PICK n \in Nat : n = Len(q) /\ DOMAIN q = 1..n
  OBVIOUS
<1>2. K \in SUBSET (1..n)
  BY <1>1, Zenon
<1>3. Replay(q, c) = SubSeq(q, Cardinality(K) + 1, n)
  BY <1>1 DEF Replay
<1> HIDE DEF K
<1>4. PICK k \in 0..n : k = Cardinality(K)
  <2>1. IsFiniteSet(1..n) /\ Cardinality(1..n) = n
    BY FS_Interval
  <2>2. IsFiniteSet(K) /\ Cardinality(K) <= n
    BY <1>2, <2>1, FS_Subset
  <2>3. Cardinality(K) \in Nat
    BY <2>2, FS_CardinalityType
  <2>4. QED
    BY <2>2, <2>3
<1>5. PICK m \in Nat : m = k + 1 /\ m <= n + 1
  BY <1>3
<1>6. \A i \in m..n : q[i] \in Event
  BY <1>1, <1>5
<1>7. /\ SubSeq(q, m, n) \in Seq(Event)
      /\ Len(SubSeq(q, m, n)) = IF m <= n THEN n - m + 1 ELSE 0
      /\ \A i \in 1..(n - m + 1) : SubSeq(q, m, n)[i] = q[m + i - 1]
  BY <1>6, SubSeqProperties
<1>8. n - m + 1 = n - k /\ \A i \in 1..(n - k) : m + i - 1 = i + k
  BY <1>5
<1>9. Len(SubSeq(q, m, n)) = n - k
  BY <1>3, <1>5, <1>7, <1>8
<1>10. \A i \in 1..(n - k) : SubSeq(q, m, n)[i] = q[i + k]
  BY <1>7, <1>8
<1>11. /\ Replay(q, c) \in Seq(Event) /\ Cardinality(K) \in 0..Len(q)
       /\ Len(Replay(q, c)) = Len(q) - Cardinality(K)
       /\ \A i \in 1..Len(Replay(q, c)) : Replay(q, c)[i] = q[i + Cardinality(K)]
  BY <1>1, <1>3, <1>4, <1>5, <1>7, <1>9, <1>10
<1>12. QED
  BY <1>11 DEF K

LEMMA AskTyped ==
  ASSUME PhoneTyped, NEW s \in Sessions, NEW retry \in BOOLEAN, AskSnapshot(s, retry)
  PROVE  fetch' \in [Fetches -> Fetch] /\ SnapshotRuns'
<1>1. AnyOf(IdleFetches) \in Fetches
  BY AnyOfIn DEF AskSnapshot, IdleFetches
<1> DEFINE r == [stage |-> "asked", session |-> s, retry |-> retry, events |-> <<>>, busy |-> FALSE]
<1>2. r \in Fetch /\ Run(r.events)
  BY DEF Fetch, Run
<1>3. fetch' = [fetch EXCEPT ![AnyOf(IdleFetches)] = r]
  BY DEF AskSnapshot
<1> HIDE DEF r
<1>4. QED
  BY <1>1, <1>2, <1>3 DEF PhoneTyped, PhoneTypeOK, SnapshotRuns

\* A step of the page or the network that leaves the server alone.
LEMMA PageStepTyped ==
  ASSUME PhoneTyped, PageStep
  PROVE  PhoneTypeOK' /\ SnapshotRuns'
<1>0. TypeOK'
  <2>1. UNCHANGED vars
    BY DEF PageStep, Send, HearReply, SnapshotArrives, SnapshotMissing, Dispatch, TimerFires,
       NewChatOpens
  <2>2. QED
    BY <2>1 DEF TypeOK, vars, PhoneTyped, PhoneTypeOK
<1> USE DEF PhoneTyped
<1>1. ASSUME NEW t \in Turns, Send(t) PROVE PhoneTypeOK' /\ SnapshotRuns'
  BY <1>0, <1>1 DEF Send, PhoneTypeOK, Reply, page, network, SnapshotRuns
<1>2. ASSUME NEW t \in Turns, HearReply(t) PROVE PhoneTypeOK' /\ SnapshotRuns'
  <2>1. reply' \in [Turns -> Reply]
    BY <1>2 DEF HearReply, PhoneTypeOK, Reply
  <2>2. QED
    BY <1>0, <1>2, <2>1 DEF HearReply, PhoneTypeOK, network, SnapshotRuns
<1>3. ASSUME NEW f \in Fetches, SnapshotArrives(f) PROVE PhoneTypeOK' /\ SnapshotRuns'
  <2>1. fetch[f] \in Fetch /\ Cursor(fetch[f].events) \in Nat
    BY CursorNat DEF PhoneTypeOK, Fetch, SnapshotRuns
  <2>2. source' \in Source
    BY <1>3, <2>1 DEF SnapshotArrives, Resubscribe, Source, PhoneTypeOK
  <2>3. IdleFetch \in Fetch /\ Run(IdleFetch.events)
    BY DEF IdleFetch, Fetch, Run
  <2>4. fetch' \in [Fetches -> Fetch] /\ SnapshotRuns'
    BY <1>3, <2>3 DEF SnapshotArrives, PhoneTypeOK, SnapshotRuns
  <2>5. QED
    BY <1>0, <1>3, <2>1, <2>2, <2>4 DEF SnapshotArrives, PhoneTypeOK, Fetch
<1>4. ASSUME NEW f \in Fetches, SnapshotMissing(f) PROVE PhoneTypeOK' /\ SnapshotRuns'
  <2>1. IdleFetch \in Fetch /\ Run(IdleFetch.events)
    BY DEF IdleFetch, Fetch, Run
  <2>2. fetch' \in [Fetches -> Fetch] /\ SnapshotRuns'
    BY <1>4, <2>1 DEF SnapshotMissing, FetchFails, PhoneTypeOK, SnapshotRuns
  <2>3. timer' \in BOOLEAN
    BY <1>4 DEF SnapshotMissing, FetchFails
  <2>4. QED
    BY <1>0, <1>4, <2>2, <2>3 DEF SnapshotMissing, PhoneTypeOK, network
<1>5. CASE Dispatch
  <2>1. /\ Head(wire) \in Event /\ Tail(wire) \in Seq(Event)
        /\ Append(screen, Head(wire)) \in Seq(Event)
    BY <1>5, HeadTailProperties, AppendProperties DEF Dispatch, PhoneTypeOK
  <2>2. screen' \in Seq(Event) /\ waiting' \in BOOLEAN /\ timer' \in BOOLEAN /\ wire' \in Seq(Event)
    BY <1>5, <2>1 DEF Dispatch, Apply, ScheduleReconnect, PhoneTypeOK
  <2>3. QED
    BY <1>0, <1>5, <2>2 DEF Dispatch, PhoneTypeOK, SnapshotRuns
<1>6. CASE TimerFires
  BY <1>0, <1>6, AskTyped DEF TimerFires, PhoneTypeOK, network
<1>7. CASE NewChatOpens
  <2>1. newborn \in Sessions
    BY <1>7 DEF NewChatOpens, PhoneTypeOK
  <2>2. fetch' \in [Fetches -> Fetch] /\ SnapshotRuns'
    BY <1>7, <2>1, AskTyped DEF NewChatOpens
  <2>3. <<>> \in Seq(Event)
    OBVIOUS
  <2>4. QED
    BY <1>0, <1>7, <2>1, <2>2, <2>3 DEF NewChatOpens, PhoneTypeOK, network
<1>8. QED
  BY <1>1, <1>2, <1>3, <1>4, <1>5, <1>6, <1>7 DEF PageStep

LEMMA NetworkStepTyped ==
  ASSUME PhoneTyped, NetworkStep
  PROVE  PhoneTypeOK' /\ SnapshotRuns'
<1>0. TypeOK'
  <2>1. UNCHANGED vars
    BY DEF NetworkStep, LoseSnapshot, LoseReply, LoseNewChat, BreakSource, GoOffline, GoOnline,
       Fault
  <2>2. QED
    BY <2>1 DEF TypeOK, vars, PhoneTyped, PhoneTypeOK
<1> USE DEF PhoneTyped
<1>1. Fault => outages' \in 0..MaxOutages
  BY PhoneAssumption DEF Fault, PhoneTypeOK
<1>2. ASSUME NEW f \in Fetches, LoseSnapshot(f) PROVE PhoneTypeOK' /\ SnapshotRuns'
  <2>1. IdleFetch \in Fetch /\ Run(IdleFetch.events)
    BY DEF IdleFetch, Fetch, Run
  <2>2. fetch' \in [Fetches -> Fetch] /\ SnapshotRuns'
    BY <1>2, <2>1 DEF LoseSnapshot, FetchFails, PhoneTypeOK, SnapshotRuns
  <2>3. timer' \in BOOLEAN
    BY <1>2 DEF LoseSnapshot, FetchFails
  <2>4. QED
    BY <1>0, <1>1, <1>2, <2>2, <2>3 DEF LoseSnapshot, Fault, PhoneTypeOK
<1>3. ASSUME NEW t \in Turns, LoseReply(t) PROVE PhoneTypeOK' /\ SnapshotRuns'
  <2>1. reply' \in [Turns -> Reply]
    BY <1>3 DEF LoseReply, PhoneTypeOK, Reply
  <2>2. QED
    BY <1>0, <1>1, <1>3, <2>1 DEF LoseReply, Fault, PhoneTypeOK, SnapshotRuns
<1>4. CASE BreakSource
  <2>1. ClosedSource \in Source /\ <<>> \in Seq(Event)
    BY DEF ClosedSource, Source
  <2>2. QED
    BY <1>0, <1>1, <1>4, <2>1 DEF BreakSource, HangUp, ScheduleReconnect, Fault, PhoneTypeOK,
       SnapshotRuns
<1>5. CASE LoseNewChat \/ GoOffline \/ GoOnline
  BY <1>0, <1>1, <1>5 DEF LoseNewChat, GoOffline, GoOnline, Fault, PhoneTypeOK, SnapshotRuns
<1>6. QED
  BY <1>2, <1>3, <1>4, <1>5 DEF NetworkStep

\* What the page's stream gets from a step that may push.
LEMMA RelayStep ==
  ASSUME TypeOK, Posted, TypeOK', wire \in Seq(Event), NEW t \in Turns, BodyEnds(t) \/ Stream(t)
  PROVE  \/ UNCHANGED <<log, next, busy, wire>>
         \/ \E s \in Sessions, new \in Seq(Event) :
              Extends(s, new) /\ Adopts(s, new) /\ Relayed(s, new)
<1>1. Relay
  BY DEF BodyEnds, Stream
<1>2. CASE BodyRefused(t)
  <2>1. UNCHANGED <<log, next, busy>>
    BY <1>2 DEF BodyRefused, chats
  <2>2. QED
    BY <1>1, <2>1, RelayNothing
<1>3. CASE BodyArrives(t) \/ Delta(t) \/ Done(t) \/ Fails(t) \/ Cancelled(t)
  <2>1. PICK s \in Sessions, new \in Seq(Event) : Extends(s, new) /\ Adopts(s, new)
    BY <1>3, TurnExtends, Zenon
  <2>2. Relayed(s, new)
    BY <1>1, <2>1, RelayPushes
  <2>3. QED
    BY <2>1, <2>2, Zenon
<1>4. QED
  BY <1>2, <1>3 DEF BodyEnds, Stream

LEMMA RelayTyped ==
  ASSUME TypeOK, Posted, TypeOK', wire \in Seq(Event), NEW t \in Turns, BodyEnds(t) \/ Stream(t)
  PROVE  wire' \in Seq(Event)
<1>1. ASSUME NEW s \in Sessions, NEW new \in Seq(Event), Relayed(s, new)
      PROVE  wire' \in Seq(Event)
  <2>1. wire \o new \in Seq(Event)
    BY ConcatProperties
  <2>2. QED
    BY <1>1, <2>1 DEF Relayed
<1>2. QED
  BY <1>1, RelayStep

LEMMA ServerStepTyped ==
  ASSUME PhoneTyped, TypeOK', ServerStep
  PROVE  PhoneTypeOK' /\ SnapshotRuns'
<1> USE DEF PhoneTyped
<1>1. ASSUME NEW t \in Turns, PostReaches(t) PROVE PhoneTypeOK' /\ SnapshotRuns'
  <2>1. reply' \in [Turns -> Reply]
    BY <1>1 DEF PostReaches, PhoneTypeOK, Reply
  <2>2. UNCHANGED <<page, network, fetch, newborn>>
    BY <1>1 DEF PostReaches
  <2>3. QED
    BY <2>1, <2>2 DEF PhoneTypeOK, page, network, SnapshotRuns
<1>2. ASSUME NEW t \in Turns, BodyEnds(t) \/ Stream(t) PROVE PhoneTypeOK' /\ SnapshotRuns'
  <2>1. wire' \in Seq(Event)
    BY <1>2, RelayTyped DEF PhoneTypeOK
  <2>2. reply' \in [Turns -> Reply]
    BY <1>2 DEF BodyEnds, Stream, Answer, PhoneTypeOK, Reply
  <2>3. UNCHANGED <<page, online, source, outages, fetch, newborn>>
    BY <1>2 DEF BodyEnds, Stream
  <2>4. QED
    BY <2>1, <2>2, <2>3 DEF PhoneTypeOK, page, SnapshotRuns
<1>3. ASSUME NEW f \in Fetches, TakeSnapshot(f) PROVE PhoneTypeOK' /\ SnapshotRuns'
  <2>1. UNCHANGED <<page, network, reply, newborn>>
    BY <1>3 DEF TakeSnapshot
  <2>2. fetch[f] \in Fetch
    BY DEF PhoneTypeOK
  <2>3. CASE fetch' = [fetch EXCEPT ![f].stage = "missing"]
    BY <2>1, <2>2, <2>3 DEF PhoneTypeOK, Fetch, page, network, SnapshotRuns
  <2>4. CASE /\ Visit(fetch[f].session)
             /\ fetch' = [fetch EXCEPT ![f].stage = "answered",
                                       ![f].events = log[fetch[f].session],
                                       ![f].busy = busy[fetch[f].session]]
    <3>1. PICK s \in Sessions : s = fetch[f].session
      BY <2>4 DEF Visit, Open
    <3>2. log[s] \in Seq(Event) /\ busy[s] \in BOOLEAN /\ Run(log[s])
      BY LogRun DEF LogInv, PhoneTypeOK, TypeOK
    <3>3. fetch' \in [Fetches -> Fetch]
      BY <2>2, <2>4, <3>1, <3>2 DEF PhoneTypeOK, Fetch
    <3>4. SnapshotRuns'
      BY <2>2, <2>4, <3>1, <3>2 DEF SnapshotRuns, PhoneTypeOK, Fetch
    <3>5. QED
      BY <2>1, <3>3, <3>4 DEF PhoneTypeOK, page, network
  <2>5. QED
    BY <1>3, <2>3, <2>4 DEF TakeSnapshot
<1>4. CASE Subscribe
  <2>1. source.session \in Sessions /\ log[source.session] \in Seq(Event)
    BY <1>4, OpenTyped DEF Subscribe, Visit, PhoneTypeOK, TypeOK
  <2>2. wire' \in Seq(Event)
    BY <1>4, <2>1, ReplayType DEF Subscribe
  <2>3. source' \in Source
    BY <1>4 DEF Subscribe, PhoneTypeOK, Source
  <2>4. QED
    BY <1>4, <2>2, <2>3 DEF Subscribe, PhoneTypeOK, page, SnapshotRuns
<1>5. CASE SourceEnds
  <2>1. ClosedSource \in Source /\ <<>> \in Seq(Event)
    BY DEF ClosedSource, Source
  <2>2. QED
    BY <1>5, <2>1 DEF SourceEnds, HangUp, ScheduleReconnect, PhoneTypeOK, SnapshotRuns
<1>6. CASE Stop \/ Expire
  BY <1>6 DEF Stop, Expire, phoneVars, page, network, PhoneTypeOK, SnapshotRuns
<1>7. ASSUME NEW s \in Sessions, AskNewChat(s) PROVE PhoneTypeOK' /\ SnapshotRuns'
  BY <1>7 DEF AskNewChat, page, network, PhoneTypeOK, SnapshotRuns
<1>8. QED
  BY <1>1, <1>2, <1>3, <1>4, <1>5, <1>6, <1>7 DEF ServerStep

LEMMA PhoneInitTyped == PhoneInit => PhoneTyped
<1> SUFFICES ASSUME PhoneInit PROVE PhoneTyped
  OBVIOUS
<1>1. TypeOK /\ Posted /\ LogInv
  BY BootServer
<1>2. chat \in Sessions
  BY BootChat DEF PhoneInit
<1>3. IdleFetch \in Fetch /\ Run(IdleFetch.events) /\ <<>> \in Seq(Event)
  BY DEF IdleFetch, Fetch, Run
<1>4. fetch \in [Fetches -> Fetch] /\ SnapshotRuns
  BY <1>3 DEF PhoneInit, SnapshotRuns
<1>5. source \in Source /\ reply \in [Turns -> Reply] /\ outages \in 0..MaxOutages
  BY <1>2, PhoneAssumption DEF PhoneInit, Source, Reply
<1>6. QED
  BY <1>1, <1>2, <1>3, <1>4, <1>5 DEF PhoneInit, PhoneTyped, PhoneTypeOK

LEMMA PhoneNextTyped == PhoneTyped /\ [PhoneNext]_<<vars, phoneVars>> => PhoneTyped'
<1> SUFFICES ASSUME PhoneTyped, [PhoneNext]_<<vars, phoneVars>> PROVE PhoneTyped'
  OBVIOUS
<1>1. [Next]_vars
  BY PhoneStepsServer
<1>2. TypeOK' /\ Posted'
  BY <1>1, NextType DEF PhoneTyped, PhoneTypeOK
<1>3. LogInv'
  BY <1>1, NextLog DEF PhoneTyped, PhoneTypeOK
<1>4. CASE PhoneNext
  BY <1>2, <1>3, <1>4, PageStepTyped, ServerStepTyped, NetworkStepTyped DEF PhoneNext, PhoneTyped
<1>5. CASE UNCHANGED <<vars, phoneVars>>
  BY <1>2, <1>3, <1>5 DEF PhoneTyped, PhoneTypeOK, phoneVars, page, network, SnapshotRuns
<1>6. QED
  BY <1>4, <1>5

(***************************************************************************)
(* Every reachable state of the page and its server is well-typed, however *)
(* the user, the network and the pruning clock behave.                     *)
(***************************************************************************)
THEOREM PhoneTypeCorrect == PhoneSpec => []PhoneTypeOK
<1>1. PhoneTyped => PhoneTypeOK
  BY DEF PhoneTyped
<1>2. QED
  BY <1>1, PhoneInitTyped, PhoneNextTyped, PTL DEF PhoneSpec

(***************************************************************************)
(* The page asks of its server nothing but what the server is specified    *)
(* for: every step of the two and the network is one of CompanionSession.  *)
(***************************************************************************)
THEOREM PageDrivesServer == PhoneSpec => [][Next]_vars
<1>1. [PhoneNext]_<<vars, phoneVars>> => [Next]_vars
  BY PhoneStepsServer
<1>2. QED
  BY <1>1, PTL DEF PhoneSpec

(***************************************************************************)
(* What the server promises holds when a page drives it over a network     *)
(* that fails: gapless logs, one end per answer, a bounded session map, a  *)
(* history that is what was shown.                                         *)
(***************************************************************************)
THEOREM ServerKeepsPromises ==
  PhoneSpec => [](/\ LogIsGapless /\ AnswersEndOnce /\ SessionsBounded
                  /\ HistoryIsWhatWasShown)
<1>1. PhoneInit => TypeOK /\ Posted /\ LogInv /\ Drawn /\ MapInv /\ HistoryInv
  BY BootServer, InitHistory DEF PhoneInit
<1>2. TypeOK /\ Posted /\ LogInv /\ Drawn /\ MapInv /\ HistoryInv
        /\ [PhoneNext]_<<vars, phoneVars>>
          => (TypeOK /\ Posted /\ LogInv /\ Drawn /\ MapInv /\ HistoryInv)'
  BY PhoneStepsServer, NextType, NextLog, NextDrawn, NextMap, NextHistory
<1>3. LogInv /\ MapInv /\ HistoryInv
        => LogIsGapless /\ AnswersEndOnce /\ SessionsBounded /\ HistoryIsWhatWasShown
  BY MapIsOrdered, HistoryIsFaithful DEF LogInv
<1>4. QED
  BY <1>1, <1>2, <1>3, PTL DEF PhoneSpec

(***************************************************************************)
(* The sessions are conversations also when a page drives the server over  *)
(* a network that fails (startMessage, cancelMessage, ui.js).              *)
(***************************************************************************)
THEOREM PageHasConversation == ~Pipelining => (PhoneSpec => KeepsConversation)
<1>1. CASE ~Pipelining
  <2>1. PhoneInit => TalkInv /\ Talk!Init
    BY BootServer, InitReleased, InitTalks DEF PhoneInit, TalkInv
  <2>2. [PhoneNext]_<<vars, phoneVars>> => [Next]_vars
    BY PhoneStepsServer
  <2>3. TalkInv /\ [PhoneNext]_<<vars, phoneVars>> => TalkInv' /\ [Talk!Next]_(Talk!conversation)
    BY <1>1, <2>2, NextTalkInv, NextTalks
  <2>4. QED
    BY <2>1, <2>3, PTL DEF PhoneSpec, KeepsConversation, Talk!Spec
<1>2. QED
  BY <1>1

-----------------------------------------------------------------------------
\* What a step of anybody leaves as it was.

Whole == PhoneTyped /\ Drawn /\ LogKept /\ PageInv

\* A step from a state where everything holds.
Steps == Whole /\ PhoneTyped' /\ [Next]_vars

LEMMA NamesStay ==
  ASSUME Steps, UNCHANGED <<chat, source, fetch, newborn>>
  PROVE  NamesInv'
<1>1. created \subseteq created'
  BY NoReturn DEF Steps, Whole, PhoneTyped, PhoneTypeOK
<1>2. QED
  BY <1>1 DEF Steps, Whole, PageInv, NamesInv, InFlight

LEMMA FetchStays ==
  ASSUME Steps, NEW f \in Fetches, fetch'[f] = fetch[f], chat' = chat
  PROVE  FetchOK(f)'
<1>1. SUFFICES ASSUME InFlight(f) PROVE FetchOK(f)'
  BY DEF FetchOK, InFlight
<1>2. /\ TypeOK /\ TypeOK' /\ Posted /\ LogIsGapless /\ LogIsGapless' /\ [Next]_vars
      /\ fetch[f] \in Fetch /\ Run(fetch[f].events) /\ FetchOK(f)
      /\ fetch[f].session \in created /\ created \subseteq Sessions
  BY <1>1 DEF Steps, Whole, PhoneTyped, PhoneTypeOK, TypeOK, LogInv, SnapshotRuns, PageInv,
     FetchInv, NamesInv
<1>3. PICK s \in created : s = fetch[f].session
  BY <1>2
<1>4. PICK q \in Seq(Event) : q = fetch[f].events /\ Run(q)
  BY <1>2 DEF Fetch
<1>5. PICK w \in BOOLEAN : w = fetch[f].busy
  BY <1>2 DEF Fetch
<1>6. s \in Sessions /\ (s \in Open' => s \in Open)
  BY <1>2, <1>3, NoReturn
<1>7. next'[s] >= next[s] /\ next[s] \in Nat /\ next'[s] \in Nat
  BY <1>2, <1>6, KeptNext DEF TypeOK
<1>8. CASE fetch[f].stage = "answered"
  <2>1. Belongs(q, s) /\ Cursor(q) < next[s] /\ Sound(s, Cursor(q), w) /\ s = chat
    BY <1>1, <1>2, <1>3, <1>4, <1>5, <1>8 DEF FetchOK
  <2>2. Cursor(q) \in Nat
    BY <1>4, CursorNat
  <2>3. Adopts(s, q)
    BY <1>2, <2>1, BelongsStays
  <2>4. Cursor(q) < next'[s]
    BY <1>7, <2>1, <2>2
  <2>5. Sound(s, Cursor(q), w)'
    <3>1. PICK c \in Nat : c = Cursor(q)
      BY <2>2
    <3>2. Sound(s, c, w)'
      BY <1>2, <1>6, <2>1, <3>1, SoundStays
    <3>3. QED
      BY <3>1, <3>2
  <2>6. QED
    BY <1>1, <1>3, <1>4, <1>5, <1>8, <2>1, <2>3, <2>4, <2>5 DEF FetchOK, Adopts, Belongs, Sound, Trimmed
<1>9. CASE fetch[f].stage # "answered"
  BY <1>1, <1>2, <1>3, <1>6, <1>9 DEF FetchOK
<1>10. QED
  BY <1>8, <1>9

LEMMA AskedStays ==
  ASSUME Steps, UNCHANGED <<chat, screen, source>>, waiting => waiting'
  PROVE  AskedInv'
<1>1. SUFFICES ASSUME source.stage = "asked" PROVE AskedInv'
  BY DEF AskedInv
<1>2. /\ TypeOK /\ TypeOK' /\ Posted /\ LogIsGapless /\ LogIsGapless' /\ [Next]_vars
      /\ source \in Source /\ AskedInv /\ Run(screen) /\ screen \in Seq(Event)
      /\ source.session \in created /\ created \subseteq Sessions
      /\ waiting \in BOOLEAN /\ waiting' \in BOOLEAN
  BY <1>1 DEF Steps, Whole, PhoneTyped, PhoneTypeOK, TypeOK, LogInv, PageInv, NamesInv, ScreenInv
<1>3. PICK s \in Sessions : s = source.session
  BY <1>2
<1>4. PICK c \in Nat : c = source.after
  BY <1>2 DEF Source
<1>5. next'[s] >= next[s] /\ next[s] \in Nat /\ next'[s] \in Nat /\ c < next[s]
  BY <1>1, <1>2, <1>3, <1>4, KeptNext DEF TypeOK, AskedInv
<1>6. c < next'[s]
  BY <1>5
<1>7. CASE s = chat
  <2>1. Sound(s, c, waiting)
    BY <1>1, <1>2, <1>3, <1>4, <1>7 DEF AskedInv
  <2>2. Sound(s, c, waiting')
    BY <2>1 DEF Sound
  <2>3. PICK w \in BOOLEAN : w = waiting'
    BY <1>2
  <2>4. Sound(s, c, w)'
    BY <1>2, <1>5, <2>2, <2>3, SoundStays
  <2>5. QED
    BY <1>1, <1>2, <1>3, <1>4, <1>6, <1>7, <2>3, <2>4 DEF AskedInv, Sound, Trimmed
<1>8. CASE s # chat
  BY <1>1, <1>2, <1>3, <1>4, <1>6, <1>8 DEF AskedInv
<1>9. QED
  BY <1>7, <1>8

\* Without a push the stream of the page is what it was.
LEMMA WireStays ==
  ASSUME Steps, UNCHANGED <<log, next, screen, source, wire>>
  PROVE  WireInv'
<1>1. SUFFICES ASSUME source.stage = "open" PROVE WireInv'
  BY DEF WireInv
<1>2. /\ TypeOK /\ Posted /\ [Next]_vars /\ WireInv /\ wire \in Seq(Event)
      /\ source.session \in created
  BY <1>1 DEF Steps, Whole, PhoneTyped, PhoneTypeOK, PageInv, NamesInv
<1>3. PICK s \in created : s = source.session
  BY <1>2
<1>4. s \in Open' => s \in Open
  BY <1>2, <1>3, NoReturn
<1>5. Adopts(s, wire)
  BY <1>1, <1>2, <1>3, BelongsStays DEF WireInv
<1>6. QED
  BY <1>1, <1>2, <1>3, <1>4, <1>5 DEF WireInv, Adopts, Belongs

LEMMA OwnStays ==
  ASSUME Steps, UNCHANGED <<chat, screen, drawn>>,
         source'.stage # "closed" =>
           source.stage # "closed" /\ source'.session = source.session
  PROVE  OwnInv'
<1>1. /\ TypeOK /\ [Next]_vars /\ OwnInv /\ screen \in Seq(Event)
  BY DEF Steps, Whole, PhoneTyped, PhoneTypeOK, PageInv
<1>2. PICK s : s = chat
  OBVIOUS
<1>3. drawn => Adopts(s, screen)
  BY <1>1, <1>2, BelongsStays DEF OwnInv
<1>4. QED
  BY <1>1, <1>2, <1>3 DEF OwnInv, Adopts, Belongs

\* Without a new fetch, "New chat" is as it was.
LEMMA NewbornStays ==
  ASSUME Steps, newborn' # None => newborn # None,
         \A f \in Fetches : fetch'[f].stage # "idle" => InFlight(f)
  PROVE  NewbornInv'
<1>1. NewbornInv
  BY DEF Steps, Whole, PageInv
<1>2. QED
  BY <1>1 DEF NewbornInv, InFlight

LEMMA CurrentStays ==
  ASSUME Steps, UNCHANGED <<log, next, busy, chat, screen, source, wire>>, waiting => waiting',
         Repairing => Repairing'
  PROVE  CurrentInv'
<1>1. /\ TypeOK /\ Posted /\ [Next]_vars /\ CurrentInv /\ chat \in created
  BY DEF Steps, Whole, PhoneTyped, PhoneTypeOK, PageInv, NamesInv
<1>2. chat \in Open' => chat \in Open
  BY <1>1, NoReturn
<1>3. EndsWaiting(waiting, wire) => EndsWaiting(waiting', wire)
  BY DEF EndsWaiting
<1>4. QED
  BY <1>1, <1>2, <1>3 DEF CurrentInv

-----------------------------------------------------------------------------
\* The steps one by one.

LEMMA WholeHas ==
  Steps => /\ TypeOK /\ TypeOK' /\ Posted /\ [Next]_vars
           /\ LogInv /\ LogIsGapless /\ EventsOfSession
           /\ PhoneTypeOK /\ PhoneTypeOK' /\ SnapshotRuns /\ LogKept
           /\ NamesInv /\ FetchInv /\ ScreenInv /\ ClosedInv /\ AskedInv
           /\ WireInv /\ OwnInv /\ NewbornInv /\ CurrentInv
           /\ created \subseteq created' /\ \A s \in created : s \in Open' => s \in Open
BY NoReturn DEF Steps, Whole, PhoneTyped, PhoneTypeOK, LogInv, PageInv

\* Steps that change nothing on the page but reply, or show Stop.
LEMMA AwayKeeps ==
  ASSUME Steps, waiting => waiting',
         UNCHANGED <<log, next, busy, chat, screen, timer, drawn, online, source, wire, fetch>>,
         newborn' # None => newborn' = newborn
  PROVE  PageInv'
<1>1. NamesInv'
  BY WholeHas DEF NamesInv, InFlight
<1>2. AskedInv' /\ WireInv' /\ OwnInv'
  BY AskedStays, WireStays, OwnStays
<1>3. FetchInv'
  BY FetchStays DEF FetchInv
<1>4. ScreenInv' /\ ClosedInv'
  BY WholeHas DEF ScreenInv, ClosedInv
<1>5. NewbornInv'
  BY NewbornStays DEF InFlight
<1>6. CurrentInv'
  BY CurrentStays DEF Repairing, InFlight
<1>7. QED
  BY <1>1, <1>2, <1>3, <1>4, <1>5, <1>6 DEF PageInv

\* A new chat is asked for only when no snapshot is.
LEMMA AskNewChatKeeps ==
  ASSUME ~ResumesCross, Steps, NEW s \in Sessions, AskNewChat(s)
  PROVE  PageInv'
<1>1. /\ s \notin created /\ created' = created \cup {s} /\ newborn' = s
      /\ IdleFetches = Fetches
      /\ UNCHANGED <<log, next, busy, chat, screen, waiting, timer, drawn, online, source, wire,
                     fetch>>
  BY DEF AskNewChat, CreateSession, chats, page, network
<1>2. NamesInv'
  BY <1>1, WholeHas DEF NamesInv, InFlight
<1>3. FetchInv'
  BY <1>1, FetchStays DEF FetchInv
<1>4. AskedInv' /\ WireInv' /\ OwnInv'
  BY <1>1, AskedStays, WireStays, OwnStays
<1>5. ScreenInv' /\ ClosedInv'
  BY <1>1, WholeHas DEF ScreenInv, ClosedInv
<1>6. NewbornInv'
  BY <1>1 DEF IdleFetches, NewbornInv, InFlight
<1>7. CurrentInv'
  BY <1>1, CurrentStays DEF Repairing, InFlight
<1>8. QED
  BY <1>2, <1>3, <1>4, <1>5, <1>6, <1>7 DEF PageInv

\* A snapshot is sound at the moment it is taken.
LEMMA SnapshotSound ==
  ASSUME TypeOK, LogIsGapless, EventsOfSession, NEW s \in Sessions
  PROVE  Belongs(log[s], s) /\ Cursor(log[s]) < next[s] /\ Sound(s, Cursor(log[s]), busy[s])
<1>1. Belongs(log[s], s)
  BY DEF EventsOfSession, Belongs
<1>2. PICK q \in Seq(Event), n \in Nat \ {0} : q = log[s] /\ n = next[s] /\ Run(q)
  BY LogRun
<1>3. Cursor(q) < n
  <2>1. CASE q = <<>>
    BY <1>2, <2>1, EmptyCursor
  <2>2. CASE q # <<>>
    BY <1>2, <2>2, LogRun
  <2>3. QED
    BY <2>1, <2>2
<1>4. \A i \in 1..Len(q) : ~(q[i].id > Cursor(q))
  <2> SUFFICES ASSUME NEW i \in 1..Len(q) PROVE ~(q[i].id > Cursor(q))
    OBVIOUS
  <2>1. q # <<>> /\ Len(q) \in Nat /\ i <= Len(q)
    OBVIOUS
  <2>2. Cursor(q) = n - 1 /\ q[i].id = n - Len(q) + i - 1
    BY <1>2, <2>1, LogRun
  <2>3. QED
    BY <2>1, <2>2
<1>5. Sound(s, Cursor(log[s]), busy[s])
  BY <1>2, <1>4 DEF Sound
<1>6. QED
  BY <1>1, <1>2, <1>3, <1>5

LEMMA TakeSnapshotKeeps ==
  ASSUME Steps, NEW f \in Fetches, TakeSnapshot(f)
  PROVE  PageInv'
<1>0. /\ fetch[f].stage = "asked" /\ fetch[f] \in Fetch /\ fetch \in [Fetches -> Fetch]
      /\ UNCHANGED <<log, next, busy, turn, chat, screen, waiting, timer, drawn, online, source,
                     wire, newborn>>
  BY WholeHas DEF TakeSnapshot, Visit, vars, chats, page, network, PhoneTypeOK
<1>1. /\ fetch'[f].session = fetch[f].session /\ fetch'[f].retry = fetch[f].retry
      /\ \/ /\ fetch[f].session \in Open /\ fetch'[f].stage = "answered"
            /\ fetch'[f].events = log[fetch[f].session]
            /\ fetch'[f].busy = busy[fetch[f].session]
         \/ fetch[f].session \notin Open /\ fetch'[f].stage = "missing"
  BY <1>0 DEF TakeSnapshot, Visit, Fetch
<1>2. \A g \in Fetches \ {f} : fetch'[g] = fetch[g]
  BY <1>0 DEF TakeSnapshot
<1>3. \A g \in Fetches : /\ fetch'[g].session = fetch[g].session
                         /\ fetch'[g].retry = fetch[g].retry
                         /\ fetch'[g].stage # "idle" <=> fetch[g].stage # "idle"
  BY <1>0, <1>1, <1>2
<1>4. NamesInv'
  <2>1. chat \in created' /\ (source.stage # "closed" => source.session \in created')
    BY WholeHas DEF NamesInv
  <2>2. newborn # None => /\ newborn \in created'
                          /\ source.stage # "closed" => source.session # newborn
    BY WholeHas DEF NamesInv
  <2>3. \A g \in Fetches : fetch'[g].stage # "idle" => fetch'[g].session \in created'
    <3> SUFFICES ASSUME NEW g \in Fetches, fetch'[g].stage # "idle"
                 PROVE  fetch'[g].session \in created'
      OBVIOUS
    <3>1. fetch[g].session \in created
      BY <1>3, WholeHas DEF NamesInv, InFlight
    <3>2. QED
      BY <1>3, <3>1, WholeHas
  <2>4. QED
    BY <1>0, <2>1, <2>2, <2>3 DEF NamesInv, InFlight
<1>5. FetchInv'
  <2>1. \A g \in Fetches \ {f} : FetchOK(g)'
    BY <1>0, <1>2, FetchStays
  <2>2. InFlight(f) /\ FetchOK(f) /\ fetch[f].session \in created
    BY <1>0, WholeHas DEF InFlight, FetchInv, NamesInv
  <2>3. CASE fetch[f].session \in Open
    <3>1. PICK s \in Sessions : s = fetch[f].session /\ s = chat
      BY <2>2, <2>3, OpenTyped DEF FetchOK
    <3>2. Belongs(log[s], s) /\ Cursor(log[s]) < next[s] /\ Sound(s, Cursor(log[s]), busy[s])
      BY SnapshotSound, WholeHas
    <3>3. /\ fetch'[f].stage = "answered" /\ fetch'[f].events = log[s] /\ fetch'[f].busy = busy[s]
          /\ fetch'[f].session = s
      BY <1>1, <2>3, <3>1
    <3>4. FetchOK(f)'
      BY <1>0, <3>1, <3>2, <3>3 DEF FetchOK, Belongs, Sound, Trimmed
    <3>5. QED
      BY <2>1, <3>4 DEF FetchInv
  <2>4. CASE fetch[f].session \notin Open
    <3>1. fetch[f].session \notin Open'
      BY <2>2, <2>4, WholeHas
    <3>2. FetchOK(f)'
      BY <1>0, <1>1, <2>2, <2>4, <3>1 DEF FetchOK
    <3>3. QED
      BY <2>1, <3>2 DEF FetchInv
  <2>5. QED
    BY <2>3, <2>4
<1>6. AskedInv' /\ WireInv'
  BY <1>0, AskedStays, WireStays
<1>7. ScreenInv' /\ ClosedInv'
  BY <1>0, WholeHas DEF ScreenInv, ClosedInv
<1>8. OwnInv'
  BY <1>0, OwnStays
<1>9. NewbornInv'
  BY <1>0, <1>3, NewbornStays DEF InFlight
<1>10. CurrentInv'
  BY <1>0, <1>3, CurrentStays DEF Repairing, InFlight
<1>11. QED
  BY <1>4, <1>5, <1>6, <1>7, <1>8, <1>9, <1>10 DEF PageInv

\* The end of the event stream, by the server or by the network.
LEMMA HangUpKeeps ==
  ASSUME Steps, HangUp, UNCHANGED <<log, next, busy, chat, screen, waiting, drawn, fetch, newborn>>
  PROVE  PageInv'
<1>1. source' = ClosedSource /\ wire' = <<>>
  BY DEF HangUp
<1>2. source'.stage = "closed"
  BY <1>1 DEF ClosedSource
<1>3. NamesInv'
  BY <1>2, WholeHas DEF NamesInv, InFlight
<1>4. FetchInv'
  BY FetchStays DEF FetchInv
<1>5. AskedInv' /\ WireInv' /\ CurrentInv'
  BY <1>2 DEF AskedInv, WireInv, CurrentInv
<1>6. ScreenInv' /\ ClosedInv'
  BY <1>1, WholeHas DEF ScreenInv, ClosedInv
<1>7. OwnInv'
  BY <1>2, OwnStays
<1>8. NewbornInv'
  BY NewbornStays DEF InFlight
<1>9. QED
  BY <1>3, <1>4, <1>5, <1>6, <1>7, <1>8 DEF PageInv

LEMMA SourceEndsKeeps ==
  ASSUME Steps, SourceEnds
  PROVE  PageInv'
BY HangUpKeeps DEF SourceEnds, vars, chats

LEMMA BreakSourceKeeps ==
  ASSUME Steps, BreakSource
  PROVE  PageInv'
BY HangUpKeeps DEF BreakSource, Fault, vars, chats

-----------------------------------------------------------------------------
\* The page asks for a snapshot, gets it or does without.

\* resumeSession() starts one more fetch, of the session it names.
LEMMA AskEffect ==
  ASSUME PhoneTypeOK, NEW s \in Sessions, NEW retry \in BOOLEAN, AskSnapshot(s, retry)
  PROVE  \E f0 \in Fetches :
           /\ ~InFlight(f0)
           /\ fetch'[f0].stage = "asked" /\ fetch'[f0].session = s /\ fetch'[f0].retry = retry
           /\ \A g \in Fetches \ {f0} : fetch'[g] = fetch[g]
<1>1. PICK f0 \in IdleFetches : f0 = AnyOf(IdleFetches)
  BY AnyOfIn DEF AskSnapshot
<1>2. f0 \in Fetches /\ ~InFlight(f0)
  BY <1>1 DEF IdleFetches, InFlight
<1>3. fetch' = [fetch EXCEPT ![f0] =
         [stage |-> "asked", session |-> s, retry |-> retry, events |-> <<>>, busy |-> FALSE]]
  BY <1>1 DEF AskSnapshot
<1>4. QED
  BY <1>2, <1>3 DEF PhoneTypeOK

LEMMA TimerFiresKeeps ==
  ASSUME ~ResumesCross, Steps, TimerFires
  PROVE  PageInv'
<1>1. /\ timer /\ AskSnapshot(chat, TRUE) /\ chat \in Sessions /\ newborn = None
      /\ UNCHANGED <<vars, log, next, busy, turn, chat, screen, waiting, drawn, online, source,
                     wire, newborn>>
  BY WholeHas DEF TimerFires, vars, chats, network, PhoneTypeOK
<1>2. PICK f0 \in Fetches :
        /\ ~InFlight(f0)
        /\ fetch'[f0].stage = "asked" /\ fetch'[f0].session = chat /\ fetch'[f0].retry = TRUE
        /\ \A g \in Fetches \ {f0} : fetch'[g] = fetch[g]
  BY <1>1, AskEffect, WholeHas
<1>3. NamesInv'
  BY <1>1, <1>2, WholeHas DEF NamesInv, InFlight
<1>4. FetchInv'
  <2>1. \A g \in Fetches \ {f0} : FetchOK(g)'
    BY <1>1, <1>2, FetchStays
  <2>2. FetchOK(f0)'
    BY <1>1, <1>2 DEF FetchOK
  <2>3. QED
    BY <2>1, <2>2 DEF FetchInv
<1>5. AskedInv' /\ WireInv' /\ OwnInv'
  BY <1>1, AskedStays, WireStays, OwnStays
<1>6. ScreenInv' /\ ClosedInv'
  BY <1>1, WholeHas DEF ScreenInv, ClosedInv
<1>7. NewbornInv'
  BY <1>1 DEF NewbornInv
<1>8. CurrentInv'
  BY <1>1, <1>2 DEF CurrentInv, Repairing, InFlight
<1>9. QED
  BY <1>3, <1>4, <1>5, <1>6, <1>7, <1>8 DEF PageInv

LEMMA NewChatOpensKeeps ==
  ASSUME Steps, NewChatOpens
  PROVE  PageInv'
<1>1. /\ newborn # None /\ newborn \in Sessions /\ AskSnapshot(newborn, FALSE)
      /\ chat' = newborn /\ screen' = <<>> /\ newborn' = None /\ drawn' = FALSE
      /\ newborn \in created
      /\ source.stage # "closed" => source.session # newborn
      /\ UNCHANGED <<log, next, busy, turn, waiting, timer, online, source, wire>>
  BY WholeHas DEF NewChatOpens, vars, chats, network, PhoneTypeOK, NamesInv
<1>2. PICK f0 \in Fetches :
        /\ ~InFlight(f0)
        /\ fetch'[f0].stage = "asked" /\ fetch'[f0].session = newborn /\ fetch'[f0].retry = FALSE
        /\ \A g \in Fetches \ {f0} : fetch'[g] = fetch[g]
  BY <1>1, AskEffect, WholeHas
<1>3. created \subseteq created' /\ \A s \in created : s \in Open' => s \in Open
  BY WholeHas
<1>4. NamesInv'
  BY <1>1, <1>2, <1>3, WholeHas DEF NamesInv, InFlight
<1>5. FetchInv'
  <2>1. ASSUME NEW g \in Fetches \ {f0}
        PROVE  FetchOK(g)'
    <3>1. ~InFlight(g)
      BY <1>1, WholeHas DEF NewbornInv
    <3>2. QED
      BY <1>2, <3>1 DEF FetchOK, InFlight
  <2>2. FetchOK(f0)'
    BY <1>1, <1>2 DEF FetchOK
  <2>3. QED
    BY <2>1, <2>2 DEF FetchInv
<1>6. ScreenInv' /\ ClosedInv'
  BY <1>1, WholeHas DEF ScreenInv, Run, ClosedInv
<1>7. Cursor(<<>>) = 0
  BY EmptyCursor
<1>8. Cursor(screen) \in Nat
  BY CursorNat, WholeHas DEF PhoneTypeOK, ScreenInv
<1>9. AskedInv'
  <2>1. SUFFICES ASSUME source.stage = "asked" PROVE AskedInv'
    BY <1>1 DEF AskedInv
  <2>2. source.after \in Nat /\ source.after < next[source.session]
    BY <2>1, WholeHas DEF AskedInv, PhoneTypeOK, Source
  <2>3. source'.session # chat' /\ Cursor(screen') = 0
    BY <1>1, <1>7, <2>1
  <2>4. QED
    BY <1>1, <2>2, <2>3 DEF AskedInv
<1>10. WireInv'
  <2>1. SUFFICES ASSUME source.stage = "open" PROVE WireInv'
    BY <1>1 DEF WireInv
  <2>2. PICK s \in created : s = source.session
    BY <2>1, WholeHas DEF NamesInv
  <2>3. /\ Run(wire) /\ Belongs(wire, s) /\ Cursor(screen) < next[s]
        /\ \A i \in 1..Len(wire) : Cursor(screen) < wire[i].id /\ wire[i].id < next[s]
        /\ s \in Open /\ wire # <<>> => wire[Len(wire)].id = next[s] - 1
    BY <2>1, <2>2, WholeHas DEF WireInv
  <2>4. wire \in Seq(Event) /\ next[s] \in Nat
    BY <2>2, WholeHas DEF PhoneTypeOK, TypeOK
  <2>5. \A i \in 1..Len(wire) : wire[i].id \in Nat
    <3>1. \A i \in 1..Len(wire) : wire[i] \in Event
      BY <2>4
    <3>2. QED
      BY <3>1 DEF Event
  <2>6. 0 < next[s] /\ \A i \in 1..Len(wire) : 0 < wire[i].id
    BY <1>8, <2>3, <2>4, <2>5
  <2>7. Belongs(wire, s)' /\ (s \in Open' => s \in Open)
    BY <1>1, <1>3, <2>2, <2>3 DEF Belongs
  <2>8. Cursor(screen') = 0
    BY <1>1, <1>7
  <2>9. QED
    BY <1>1, <2>2, <2>3, <2>6, <2>7, <2>8 DEF WireInv, Run, Belongs
<1>11. OwnInv' /\ NewbornInv' /\ CurrentInv'
  BY <1>1 DEF OwnInv, NewbornInv, CurrentInv
<1>12. QED
  BY <1>4, <1>5, <1>6, <1>9, <1>10, <1>11 DEF PageInv

LEMMA SnapshotArrivesKeeps ==
  ASSUME Steps, NEW f \in Fetches, SnapshotArrives(f)
  PROVE  PageInv'
<1>1. /\ fetch[f].stage = "answered" /\ InFlight(f) /\ fetch[f] \in Fetch
      /\ chat \in created /\ chat \in Sessions
      /\ UNCHANGED <<log, next, busy, turn, chat, created, newborn>>
  BY WholeHas DEF SnapshotArrives, vars, chats, InFlight, PhoneTypeOK, NamesInv
<1>2. PICK q \in Seq(Event), w \in BOOLEAN : q = fetch[f].events /\ w = fetch[f].busy
  BY <1>1 DEF Fetch
<1>3. PICK c \in Nat : c = Cursor(q)
  BY <1>1, <1>2, CursorNat, WholeHas DEF SnapshotRuns
<1>4. /\ screen' = q /\ waiting' = w /\ wire' = <<>> /\ drawn' = TRUE
      /\ source' = [stage |-> "asked", session |-> chat, after |-> c]
      /\ fetch'[f] = IdleFetch /\ \A g \in Fetches \ {f} : fetch'[g] = fetch[g]
  BY <1>2, <1>3, WholeHas DEF SnapshotArrives, Resubscribe, PhoneTypeOK
<1>5. /\ source'.stage = "asked" /\ source'.session = chat /\ source'.after = c
      /\ fetch'[f].stage = "idle"
  BY <1>4 DEF IdleFetch
<1>6. fetch[f].session = chat /\ Belongs(q, chat) /\ c < next[chat] /\ Sound(chat, c, w)
  BY <1>1, <1>2, <1>3, WholeHas DEF FetchInv, FetchOK
<1>7. newborn = None
  BY <1>1, WholeHas DEF NewbornInv
<1>8. Run(q)
  BY <1>1, <1>2, WholeHas DEF SnapshotRuns
<1>9. NamesInv'
  BY <1>1, <1>4, <1>5, <1>7, WholeHas DEF NamesInv, InFlight
<1>10. FetchInv'
  <2>1. \A g \in Fetches \ {f} : FetchOK(g)'
    BY <1>1, <1>4, FetchStays
  <2>2. FetchOK(f)'
    BY <1>5 DEF FetchOK, InFlight
  <2>3. QED
    BY <2>1, <2>2 DEF FetchInv
<1>11. ScreenInv' /\ ClosedInv'
  BY <1>4, <1>8 DEF ScreenInv, ClosedInv, Run
<1>12. AskedInv'
  BY <1>1, <1>3, <1>4, <1>5, <1>6 DEF AskedInv, Sound, Trimmed
<1>13. OwnInv'
  BY <1>1, <1>4, <1>5, <1>6 DEF OwnInv, Belongs
<1>14. WireInv' /\ NewbornInv' /\ CurrentInv'
  BY <1>1, <1>5, <1>7 DEF WireInv, NewbornInv, CurrentInv
<1>15. QED
  BY <1>9, <1>10, <1>11, <1>12, <1>13, <1>14 DEF PageInv

\* The timer's own fetch is asked for again; any other repairs nothing that was
\* not whole before.
LEMMA FetchFailsKeeps ==
  ASSUME Steps, NEW f \in Fetches, InFlight(f), FetchFails(f),
         UNCHANGED <<log, next, busy, chat, screen, waiting, drawn, online, source, wire, newborn>>
  PROVE  PageInv'
<1>1. /\ fetch'[f] = IdleFetch /\ fetch'[f].stage = "idle"
      /\ \A g \in Fetches \ {f} : fetch'[g] = fetch[g]
      /\ timer' = (timer \/ (fetch[f].retry /\ online))
  BY WholeHas DEF FetchFails, PhoneTypeOK, IdleFetch
<1>2. NamesInv'
  BY <1>1, WholeHas DEF NamesInv, InFlight
<1>3. FetchInv'
  <2>1. \A g \in Fetches \ {f} : FetchOK(g)'
    BY <1>1, FetchStays
  <2>2. FetchOK(f)'
    BY <1>1 DEF FetchOK, InFlight
  <2>3. QED
    BY <2>1, <2>2 DEF FetchInv
<1>4. AskedInv' /\ WireInv' /\ OwnInv'
  BY AskedStays, WireStays, OwnStays
<1>5. ScreenInv' /\ ClosedInv'
  BY WholeHas DEF ScreenInv, ClosedInv
<1>6. NewbornInv'
  BY <1>1, NewbornStays DEF InFlight
<1>7. CurrentInv'
  <2>1. CASE fetch[f].retry
    <3>1. Repairing'
      BY <1>1, <2>1 DEF Repairing
    <3>2. QED
      BY <3>1 DEF CurrentInv
  <2>2. CASE ~fetch[f].retry
    <3>1. Repairing => Repairing'
      BY <1>1, <2>2 DEF Repairing, InFlight
    <3>2. QED
      BY <3>1, CurrentStays
  <2>3. QED
    BY <2>1, <2>2
<1>8. QED
  BY <1>2, <1>3, <1>4, <1>5, <1>6, <1>7 DEF PageInv

LEMMA SnapshotMissingKeeps ==
  ASSUME Steps, NEW f \in Fetches, SnapshotMissing(f)
  PROVE  PageInv'
<1>1. InFlight(f)
  BY DEF SnapshotMissing, InFlight
<1>2. QED
  BY <1>1, FetchFailsKeeps DEF SnapshotMissing, vars, chats, network

LEMMA LoseSnapshotKeeps ==
  ASSUME Steps, NEW f \in Fetches, LoseSnapshot(f)
  PROVE  PageInv'
<1>1. InFlight(f)
  BY DEF LoseSnapshot, InFlight
<1>2. QED
  BY <1>1, FetchFailsKeeps DEF LoseSnapshot, Fault, vars, chats

\* The phone leaves its network or finds it again.
LEMMA LineKeeps ==
  ASSUME Steps, timer' \/ ~online',
         UNCHANGED <<log, next, busy, chat, screen, waiting, drawn, source, wire, fetch, newborn>>
  PROVE  PageInv'
<1>1. NamesInv' /\ AskedInv' /\ WireInv' /\ OwnInv'
  BY NamesStay, AskedStays, WireStays, OwnStays
<1>2. FetchInv'
  BY FetchStays DEF FetchInv
<1>3. ScreenInv' /\ ClosedInv'
  BY WholeHas DEF ScreenInv, ClosedInv
<1>4. NewbornInv'
  BY NewbornStays DEF InFlight
<1>5. CurrentInv'
  BY DEF CurrentInv, Repairing
<1>6. QED
  BY <1>1, <1>2, <1>3, <1>4, <1>5 DEF PageInv

LEMMA GoOfflineKeeps ==
  ASSUME Steps, GoOffline
  PROVE  PageInv'
BY LineKeeps DEF GoOffline, Fault, vars, chats

LEMMA GoOnlineKeeps ==
  ASSUME Steps, GoOnline
  PROVE  PageInv'
BY LineKeeps DEF GoOnline, vars, chats

-----------------------------------------------------------------------------
\* The page subscribes.

\* q may be the log of a session whose next event gets the id n.
Logged(q, n) ==
  /\ \A i \in 1..Len(q) : q[i] \in Event /\ q[i].id = n - Len(q) + i - 1
  /\ q = <<>> => n = 1

LEMMA IntervalCount == \A k \in Nat : Cardinality(1..k) = k
BY FS_Interval

\* The first k of l events with ids up to n - 1 have an id up to a.
Below(k, l, n, a) ==
  /\ a + 1 + l <= n => k = 0
  /\ a + 1 + l > n => k = a + 1 + l - n
  /\ \A i \in 1..l : n - l + i - 1 <= a <=> i <= k

LEMMA LeftOut ==
  ASSUME NEW n \in Nat, NEW l \in Nat, NEW a \in Nat, a < n
  PROVE  \E k \in 0..l : Below(k, l, n, a)
<1>1. CASE a + 1 + l <= n
  BY <1>1 DEF Below
<1>2. CASE a + 1 + l > n
  <2>1. PICK k \in 0..l : k = a + 1 + l - n
    BY <1>2
  <2>2. QED
    BY <1>2, <2>1 DEF Below
<1>3. QED
  BY <1>1, <1>2

\* openEvents() skips the first k events of the log q: those with an id up to a.
Skips(k, q, n, a) ==
  /\ a + 1 + Len(q) <= n => k = 0
  /\ a + 1 + Len(q) > n => k = a + 1 + Len(q) - n
  /\ Replay(q, a) \in Seq(Event)
  /\ Len(Replay(q, a)) = Len(q) - k
  /\ \A i \in 1..Len(Replay(q, a)) : Replay(q, a)[i] = q[i + k]

LEMMA ReplayRun ==
  ASSUME NEW q \in Seq(Event), NEW n \in Nat, Logged(q, n), NEW a \in Nat, a < n
  PROVE  \E k \in 0..Len(q) : Skips(k, q, n, a)
<1> DEFINE K == {i \in DOMAIN q : q[i].id <= a}
<1>1. PICK l \in Nat : l = Len(q) /\ DOMAIN q = 1..l
  OBVIOUS
<1>2. PICK k \in 0..l : Below(k, l, n, a)
  BY LeftOut
<1>3. \A i \in 1..l : q[i].id = n - l + i - 1
  BY <1>1 DEF Logged
<1>4. K = 1..k
  <2>1. \A i \in 1..l : q[i].id <= a <=> i <= k
    BY <1>2, <1>3 DEF Below
  <2>2. \A i : i \in K <=> i \in 1..l /\ i <= k
    BY <1>1, <2>1
  <2>3. \A i : i \in 1..k <=> i \in 1..l /\ i <= k
    BY <1>2
  <2> HIDE DEF K
  <2>4. QED
    BY <2>2, <2>3
<1>5. /\ Replay(q, a) \in Seq(Event)
      /\ Len(Replay(q, a)) = Len(q) - Cardinality(K)
      /\ \A i \in 1..Len(Replay(q, a)) : Replay(q, a)[i] = q[i + Cardinality(K)]
  BY ReplayType
<1> HIDE DEF K
<1>6. Cardinality(K) = k
  BY <1>4, IntervalCount
<1>7. QED
  BY <1>1, <1>2, <1>5, <1>6 DEF Skips, Below

\* w is what is left of the log q after its first k events, those with an id
\* up to a, and starts after a unless the log does not reach back so far.
Rest(w, k, q, n, a) ==
  /\ w = Replay(q, a)
  /\ Len(w) + k = Len(q)
  /\ \A i \in 1..Len(w) : i + k \in 1..Len(q) /\ w[i] = q[i + k]
  /\ Run(w)
  /\ \A i \in 1..Len(w) : a < w[i].id /\ w[i].id < n
  /\ w # <<>> => w[Len(w)].id = n - 1
  /\ w = <<>> => a + 1 = n
  /\ n - Len(q) > a + 1 => w # <<>> /\ w[1].id > a + 1
  /\ \A i \in 1..Len(q) : q[i].id > a => i > k

\* The stream starts where the page asked it to, or with a gap it will notice.
LEMMA SubscribeFollows ==
  ASSUME NEW q \in Seq(Event), NEW n \in Nat \ {0}, NEW a \in Nat, a < n, Logged(q, n)
  PROVE  \E w \in Seq(Event), k \in Nat : Rest(w, k, q, n, a)
<1>1. PICK l \in Nat : l = Len(q)
  OBVIOUS
<1>2. PICK k \in 0..Len(q) : Skips(k, q, n, a)
  BY ReplayRun
<1>3. PICK w \in Seq(Event) : w = Replay(q, a)
  BY <1>2 DEF Skips
<1>4. PICK m \in Nat : m = Len(w) /\ m + k = l
  BY <1>1, <1>2, <1>3 DEF Skips
<1>5. /\ a + 1 + l <= n => k = 0
      /\ a + 1 + l > n => k = a + 1 + l - n
      /\ k \in 0..l
  BY <1>1, <1>2 DEF Skips
<1>6. \A i \in 1..m : i + k \in 1..l /\ w[i] = q[i + k]
  BY <1>2, <1>3, <1>4, <1>5 DEF Skips
<1>7. \A i \in 1..l : q[i].id = n - l + i - 1
  BY <1>1 DEF Logged
<1>8. \A i \in 1..m : w[i].id = n - l + i + k - 1
  BY <1>5, <1>6, <1>7
<1>9. Run(w)
  <2>1. \A i \in 1..m : w[i].id = w[1].id + i - 1
    BY <1>8
  <2>2. QED
    BY <1>4, <2>1 DEF Run
<1>10. \A i \in 1..m : a < w[i].id /\ w[i].id < n
  BY <1>4, <1>5, <1>8
<1>11. w # <<>> <=> m > 0
  BY <1>4
<1>12. m > 0 => w[m].id = n - 1
  <2>1. m > 0 => m \in 1..m
    OBVIOUS
  <2>2. n - l + m + k - 1 = n - 1
    BY <1>4, <1>5
  <2>3. QED
    BY <1>8, <2>1, <2>2
<1>13. l = 0 => n = 1
  <2>1. l = 0 => q = <<>>
    BY <1>1, EmptySeq
  <2>2. QED
    BY <2>1 DEF Logged
<1>14. m = 0 => a + 1 = n
  BY <1>4, <1>5, <1>13
<1>15. n - l > a + 1 => m > 0 /\ w[1].id > a + 1
  BY <1>4, <1>5, <1>8, <1>13
<1>16. \A i \in 1..l : q[i].id > a => i > k
  BY <1>5, <1>7
<1>17. k \in Nat /\ Len(w) + k = Len(q)
  BY <1>1, <1>4, <1>5
<1>18. \A i \in 1..Len(w) : i + k \in 1..Len(q) /\ w[i] = q[i + k]
  BY <1>1, <1>4, <1>6
<1>19. QED
  <2>1. Rest(w, k, q, n, a)
    BY <1>1, <1>3, <1>4, <1>9, <1>10, <1>11, <1>12, <1>14, <1>15, <1>16, <1>17, <1>18 DEF Rest
  <2>2. QED
    BY <1>17, <2>1

LEMMA SubscribeKeeps ==
  ASSUME Steps, Subscribe
  PROVE  PageInv'
<1>1. /\ source.stage = "asked" /\ source.session \in created /\ source \in Source
      /\ source.session \in Open
      /\ UNCHANGED <<log, next, busy, turn, chat, screen, waiting, timer, drawn, online, fetch,
                     newborn>>
  BY WholeHas DEF Subscribe, Visit, chats, page, PhoneTypeOK, NamesInv
<1>2. PICK s \in Sessions, a \in Nat : s = source.session /\ a = source.after
  BY <1>1, OpenTyped DEF Source
<1>3. /\ source'.stage = "open" /\ source'.session = s /\ wire' = Replay(log[s], a)
  BY <1>1, <1>2 DEF Subscribe, Source
<1>4. PICK q \in Seq(Event), n \in Nat \ {0} :
        q = log[s] /\ n = next[s] /\ Logged(q, n)
  BY LogRun, WholeHas DEF LogKept, Logged
<1>5. PICK c \in Nat : c = Cursor(screen)
  BY CursorNat, WholeHas DEF PhoneTypeOK, ScreenInv
<1>6. /\ c <= a /\ a < n
      /\ s = chat => a = c /\ Sound(s, a, waiting)
  BY <1>1, <1>2, <1>4, <1>5, WholeHas DEF AskedInv
<1>7. PICK w \in Seq(Event), k \in Nat : Rest(w, k, q, n, a)
  BY <1>4, <1>6, SubscribeFollows
<1>8. wire' = w
  BY <1>3, <1>4, <1>7 DEF Rest
<1>9. NamesInv'
  BY <1>1, <1>2, <1>3, WholeHas DEF NamesInv, InFlight
<1>10. FetchInv'
  BY <1>1, FetchStays DEF FetchInv
<1>11. ScreenInv' /\ ClosedInv' /\ AskedInv'
  BY <1>1, <1>3, WholeHas DEF ScreenInv, ClosedInv, AskedInv
<1>12. WireInv'
  <2>1. Belongs(w, s)
    <3>1. Belongs(q, s)
      BY <1>4, SnapshotSound, WholeHas
    <3>2. QED
      BY <1>7, <3>1 DEF Rest, Belongs
  <2>2. \A i \in 1..Len(w) : c < w[i].id /\ w[i].id < n
    <3>1. \A i \in 1..Len(w) : w[i] \in Event
      OBVIOUS
    <3>2. \A i \in 1..Len(w) : w[i].id \in Nat
      BY <3>1 DEF Event
    <3>3. QED
      BY <1>6, <1>7, <3>2 DEF Rest
  <2>3. c < n
    BY <1>6
  <2>4. Run(w) /\ (w # <<>> => w[Len(w)].id = n - 1)
    BY <1>7 DEF Rest
  <2>5. QED
    BY <1>1, <1>3, <1>4, <1>5, <1>8, <2>1, <2>2, <2>3, <2>4 DEF WireInv, Run, Belongs
<1>13. OwnInv'
  BY <1>1, <1>2, <1>3, OwnStays
<1>14. NewbornInv'
  BY <1>1, NewbornStays DEF InFlight
<1>15. CurrentInv'
  <2>1. SUFFICES ASSUME s = chat
                 PROVE  /\ w = <<>> => c + 1 = n
                        /\ busy[s] => \/ EndsWaiting(waiting, w)
                                      \/ w # <<>> /\ w[1].id > c + 1
    BY <1>1, <1>3, <1>4, <1>5, <1>8 DEF CurrentInv, EndsWaiting, Calm
  <2>2. a = c /\ Sound(s, a, waiting)
    BY <1>6, <2>1
  <2>3. SUFFICES ASSUME busy[s] PROVE EndsWaiting(waiting, w) \/ (w # <<>> /\ w[1].id > c + 1)
    BY <1>7, <2>2 DEF Rest
  <2>4. CASE Trimmed(s, a)
    BY <1>4, <1>7, <2>2, <2>4 DEF Trimmed, Rest
  <2>5. CASE waiting /\ \A i \in 1..Len(q) : q[i].id > a => q[i].type \notin Terminal
    BY <1>7, <2>5 DEF EndsWaiting, Calm, Rest
  <2>6. CASE \E i \in 1..Len(q) : /\ q[i].id > a /\ q[i].type = "start"
                                  /\ \A j \in i..Len(q) : q[j].type \notin Terminal
    <3>1. PICK i \in 1..Len(q) : /\ q[i].id > a /\ q[i].type = "start"
                                 /\ \A j \in i..Len(q) : q[j].type \notin Terminal
      BY <2>6
    <3>2. PICK l \in Nat, m \in Nat : l = Len(q) /\ m = Len(w) /\ m + k = l
      BY <1>7 DEF Rest
    <3>3. i > k /\ i <= l /\ i \in Nat
      BY <1>7, <3>1, <3>2 DEF Rest
    <3>4. PICK h \in 1..m : h + k = i
      BY <3>2, <3>3
    <3>5. w[h] = q[i]
      BY <1>7, <3>2, <3>4 DEF Rest
    <3>6. \A j \in h..m : w[j].type \notin Terminal
      <4> SUFFICES ASSUME NEW j \in h..m PROVE w[j].type \notin Terminal
        OBVIOUS
      <4>1. j \in 1..m /\ j + k \in i..l
        BY <3>2, <3>4
      <4>2. w[j] = q[j + k]
        BY <1>7, <3>2, <4>1 DEF Rest
      <4>3. QED
        BY <3>1, <3>2, <4>1, <4>2
    <3>7. QED
      BY <3>1, <3>2, <3>4, <3>5, <3>6 DEF EndsWaiting
  <2>7. QED
    BY <1>4, <2>2, <2>3, <2>4, <2>5, <2>6 DEF Sound
<1>16. QED
  BY <1>9, <1>10, <1>11, <1>12, <1>13, <1>14, <1>15 DEF PageInv

-----------------------------------------------------------------------------
\* The server pushes, and the stream of the page grows.

\* r is p, of length k, followed by q, of length l.
Joined(r, p, k, q, l) ==
  /\ r = p \o q /\ k = Len(p) /\ l = Len(q) /\ Len(r) = k + l
  /\ \A i \in 1..k : r[i] = p[i]
  /\ \A i \in 1..l : r[i + k] = q[i]
  /\ \A i \in 1..(k + l) : i <= k \/ (i - k \in 1..l /\ r[i] = q[i - k])

LEMMA ConcatIs ==
  ASSUME NEW p \in Seq(Event), NEW q \in Seq(Event)
  PROVE  \E r \in Seq(Event), k \in Nat, l \in Nat : Joined(r, p, k, q, l)
<1>1. PICK k \in Nat, l \in Nat : k = Len(p) /\ l = Len(q)
  OBVIOUS
<1>2. PICK r \in Seq(Event) : r = p \o q
  BY ConcatProperties
<1>3. Len(r) = k + l
  BY <1>1, <1>2, ConcatProperties
<1>4. \A i \in 1..(k + l) : r[i] = IF i <= k THEN p[i] ELSE q[i - k]
  BY <1>1, <1>2, ConcatProperties
<1>5. \A i \in 1..k : r[i] = p[i]
  BY <1>4
<1>6. \A i \in 1..l : r[i + k] = q[i]
  <2> SUFFICES ASSUME NEW i \in 1..l PROVE r[i + k] = q[i]
    OBVIOUS
  <2>1. i + k \in 1..(k + l) /\ ~(i + k <= k) /\ (i + k) - k = i
    OBVIOUS
  <2>2. QED
    BY <1>4, <2>1
<1>7. \A i \in 1..(k + l) : i <= k \/ (i - k \in 1..l /\ r[i] = q[i - k])
  BY <1>4
<1>8. QED
  BY <1>1, <1>2, <1>3, <1>5, <1>6, <1>7 DEF Joined

LEMMA IdsNatural == \A q \in Seq(Event) : \A i \in 1..Len(q) : q[i].id \in Nat
<1> SUFFICES ASSUME NEW q \in Seq(Event), NEW i \in 1..Len(q) PROVE q[i].id \in Nat
  OBVIOUS
<1>1. q[i] \in Event
  OBVIOUS
<1>2. QED
  BY <1>1 DEF Event

LEMMA RunGrows ==
  ASSUME NEW p \in Seq(Event), Run(p), NEW q \in Seq(Event), q # <<>>, NEW n \in Nat,
         \A i \in 1..Len(q) : q[i].id = n + i - 1,
         p # <<>> => p[Len(p)].id = n - 1
  PROVE  /\ Run(p \o q)
         /\ p \o q # <<>>
         /\ (p \o q)[Len(p \o q)].id = n + Len(q) - 1
         /\ (p \o q)[1].id = IF p = <<>> THEN n ELSE p[1].id
<1>0. PICK r \in Seq(Event), k \in Nat, l \in Nat : Joined(r, p, k, q, l)
  BY ConcatIs
<1>1. /\ r = p \o q /\ k = Len(p) /\ l = Len(q) /\ Len(r) = k + l
      /\ \A i \in 1..k : r[i] = p[i]
      /\ \A i \in 1..l : r[i + k] = q[i]
      /\ \A i \in 1..(k + l) : i <= k \/ (i - k \in 1..l /\ r[i] = q[i - k])
  BY <1>0 DEF Joined
<1>2. l > 0 /\ (p = <<>> <=> k = 0)
  BY <1>1
<1>3. PICK b \in Int : b = n - k
  OBVIOUS
<1>4. \A i \in 1..k : p[i].id = b + i - 1
  <2> SUFFICES ASSUME NEW i \in 1..k PROVE p[i].id = b + i - 1
    OBVIOUS
  <2>1. p # <<>> /\ k \in 1..k /\ 1 \in 1..k
    BY <1>2
  <2>2. p[i].id = p[1].id + i - 1 /\ p[k].id = p[1].id + k - 1 /\ p[k].id = n - 1
    BY <1>1, <2>1 DEF Run
  <2>3. PICK x \in Nat : x = p[1].id
    BY <1>1, <2>1, IdsNatural
  <2>4. x + k - 1 = n - 1 /\ p[i].id = x + i - 1
    BY <2>2, <2>3
  <2>5. x = b
    BY <1>3, <2>4
  <2>6. QED
    BY <2>4, <2>5
<1>5. \A i \in 1..l : q[i].id = n + i - 1
  BY <1>1
<1>6. \A i \in 1..(k + l) : r[i].id = b + i - 1
  <2> SUFFICES ASSUME NEW i \in 1..(k + l) PROVE r[i].id = b + i - 1
    OBVIOUS
  <2>1. CASE i <= k
    BY <1>1, <1>4, <2>1
  <2>2. CASE ~(i <= k)
    <3>1. PICK j \in 1..l : j = i - k /\ r[i] = q[j]
      BY <1>1, <2>2
    <3>2. QED
      BY <1>3, <1>5, <3>1
  <2>3. QED
    BY <2>1, <2>2
<1>7. Run(r)
  <2>1. 1 \in 1..(k + l)
    BY <1>2
  <2>2. r[1].id = b
    BY <1>6, <2>1
  <2>3. \A i \in 1..(k + l) : r[i].id = r[1].id + i - 1
    BY <1>6, <2>2
  <2>4. QED
    BY <1>1, <2>3 DEF Run
<1>8. r[k + l].id = n + l - 1
  <2>1. k + l \in 1..(k + l)
    BY <1>2
  <2>2. QED
    BY <1>3, <1>6, <2>1
<1>9. r[1].id = IF p = <<>> THEN n ELSE p[1].id
  <2>1. r[1].id = b
    BY <1>2, <1>6
  <2>2. p # <<>> => p[1].id = b
    BY <1>2, <1>4
  <2>3. QED
    BY <1>2, <1>3, <2>1, <2>2
<1>10. r # <<>>
  BY <1>1, <1>2
<1>11. QED
  BY <1>1, <1>7, <1>8, <1>9, <1>10

LEMMA WaitGrows ==
  ASSUME NEW p \in Seq(Event), NEW q \in Seq(Event), NEW w \in BOOLEAN,
         EndsWaiting(w, p), Calm(q)
  PROVE  EndsWaiting(w, p \o q)
<1>0. PICK r \in Seq(Event), k \in Nat, l \in Nat : Joined(r, p, k, q, l)
  BY ConcatIs
<1>1. /\ r = p \o q /\ k = Len(p) /\ l = Len(q) /\ Len(r) = k + l
      /\ \A i \in 1..k : r[i] = p[i]
      /\ \A i \in 1..l : r[i + k] = q[i]
      /\ \A i \in 1..(k + l) : i <= k \/ (i - k \in 1..l /\ r[i] = q[i - k])
  BY <1>0 DEF Joined
<1>2. ASSUME NEW i \in 1..(k + l), i <= k => p[i].type \notin Terminal
      PROVE  r[i].type \notin Terminal
  <2>1. CASE i <= k
    BY <1>1, <1>2, <2>1
  <2>2. CASE ~(i <= k)
    BY <1>1, <2>2 DEF Calm
  <2>3. QED
    BY <2>1, <2>2
<1>3. CASE w /\ Calm(p)
  BY <1>1, <1>2, <1>3 DEF Calm, EndsWaiting
<1>4. CASE \E i \in 1..Len(p) : /\ p[i].type = "start"
                                /\ \A j \in i..Len(p) : p[j].type \notin Terminal
  <2>1. PICK i \in 1..k : p[i].type = "start" /\ \A j \in i..k : p[j].type \notin Terminal
    BY <1>1, <1>4
  <2>2. i \in 1..(k + l) /\ r[i].type = "start"
    BY <1>1, <2>1
  <2>3. \A j \in i..(k + l) : r[j].type \notin Terminal
    BY <1>2, <2>1
  <2>4. QED
    BY <1>1, <2>2, <2>3 DEF EndsWaiting
<1>5. QED
  BY <1>3, <1>4 DEF EndsWaiting

LEMMA StartEnds ==
  ASSUME NEW p \in Seq(Event), NEW q \in Seq(Event), q # <<>>, q[Len(q)].type = "start", NEW w
  PROVE  EndsWaiting(w, p \o q)
<1>0. PICK r \in Seq(Event), k \in Nat, l \in Nat : Joined(r, p, k, q, l)
  BY ConcatIs
<1>1. /\ r = p \o q /\ k = Len(p) /\ l = Len(q) /\ Len(r) = k + l
      /\ \A i \in 1..k : r[i] = p[i]
      /\ \A i \in 1..l : r[i + k] = q[i]
      /\ \A i \in 1..(k + l) : i <= k \/ (i - k \in 1..l /\ r[i] = q[i - k])
  BY <1>0 DEF Joined
<1>2. l \in 1..l /\ l + k = k + l
  BY <1>1
<1>3. r[k + l].type = "start" /\ k + l \in 1..(k + l)
  BY <1>1, <1>2
<1>4. \A j \in (k + l)..(k + l) : r[j].type \notin Terminal
  BY <1>3 DEF Terminal
<1>5. QED
  BY <1>1, <1>3, <1>4 DEF EndsWaiting

\* A push to the session of the page's stream, or to another.
LEMMA PushWire ==
  ASSUME Steps, NEW s \in Sessions, NEW new \in Seq(Event), Extends(s, new), Adopts(s, new),
         Relayed(s, new), UNCHANGED <<screen, source>>
  PROVE  WireInv'
<1>1. SUFFICES ASSUME source.stage = "open" PROVE WireInv'
  BY DEF WireInv
<1>2. PICK p \in Seq(Event), c \in Nat : p = wire /\ c = Cursor(screen)
  BY CursorNat, WholeHas DEF PhoneTypeOK, ScreenInv
<1>3. PICK r \in created : r = source.session
  BY <1>1, WholeHas DEF NamesInv
<1>4. r \in Sessions /\ (r \in Open' => r \in Open)
  BY WholeHas DEF TypeOK
<1>5. PICK n \in Nat : n = next[r]
  BY <1>4, WholeHas DEF TypeOK
<1>6. /\ Run(p) /\ Belongs(p, r) /\ c < n
      /\ \A i \in 1..Len(p) : c < p[i].id /\ p[i].id < n
      /\ r \in Open /\ p # <<>> => p[Len(p)].id = n - 1
  BY <1>1, <1>2, <1>3, <1>5, WholeHas DEF WireInv
<1>7. Adopts(r, p)
  BY <1>6, BelongsStays, WholeHas
<1>8. CASE r # s
  <2>1. wire' = p /\ next'[r] = n
    BY <1>2, <1>3, <1>4, <1>5, <1>8 DEF Relayed, Extends
  <2>2. QED
    BY <1>1, <1>2, <1>3, <1>4, <1>6, <1>7, <2>1 DEF WireInv, Belongs, Adopts
<1>9. CASE r = s
  <2>1. PICK l \in Nat \ {0} : l = Len(new)
    BY DEF Extends
  <2>2. /\ next'[r] = n + l /\ new # <<>>
        /\ \A i \in 1..Len(new) : new[i].id = n + i - 1
    BY <1>5, <1>9, <2>1 DEF Extends
  <2>3. CASE r \notin Open
    <3>1. wire' = p
      BY <1>2, <1>3, <2>3 DEF Relayed
    <3>2. c < n + l /\ \A i \in 1..Len(p) : c < p[i].id /\ p[i].id < n + l
      BY <1>6, <2>1, IdsNatural
    <3>3. QED
      BY <1>1, <1>2, <1>3, <1>4, <1>6, <1>7, <2>2, <2>3, <3>1, <3>2 DEF WireInv, Belongs, Adopts
  <2>4. CASE r \in Open
    <3>1. wire' = p \o new
      BY <1>1, <1>2, <1>3, <1>9, <2>4 DEF Relayed
    <3>2. /\ Run(p \o new) /\ p \o new # <<>>
          /\ (p \o new)[Len(p \o new)].id = n + Len(new) - 1
      BY <1>6, <2>2, <2>4, RunGrows
    <3>3. PICK w \in Seq(Event), k \in Nat, m \in Nat : Joined(w, p, k, new, m)
      BY ConcatIs
    <3>4. /\ w = p \o new /\ k = Len(p) /\ m = l /\ Len(w) = k + m
          /\ \A i \in 1..k : w[i] = p[i]
          /\ \A i \in 1..(k + m) : i <= k \/ (i - k \in 1..m /\ w[i] = new[i - k])
      BY <2>1, <3>3 DEF Joined
    <3>5. Run(w) /\ w # <<>> /\ w[Len(w)].id = (n + l) - 1
      <4>1. w = p \o new
        BY <3>4
      <4>2. Run(w) /\ w # <<>> /\ w[Len(w)].id = n + Len(new) - 1
        BY <3>2, <4>1, Zenon
      <4>3. QED
        BY <2>1, <4>2
    <3>6. ASSUME NEW i \in 1..Len(w)
          PROVE  /\ c < w[i].id /\ w[i].id < n + l
                 /\ turn'[w[i].turn].session = r
                 /\ turn'[w[i].turn].stage \in {"streaming", "ended"}
      <4>1. CASE i <= k
        <5>1. i \in 1..Len(p) /\ w[i] = p[i] /\ p[i].id \in Nat
          BY <3>4, <4>1, IdsNatural
        <5>2. c < p[i].id /\ p[i].id < n
          BY <1>6, <5>1
        <5>3. p[i].id < n + l
          BY <5>1, <5>2
        <5>4. QED
          BY <1>7, <5>1, <5>2, <5>3 DEF Adopts
      <4>2. CASE ~(i <= k)
        <5>1. PICK j \in 1..Len(new) : w[i] = new[j] /\ j <= l
          BY <2>1, <3>4, <4>2
        <5>2. new[j].id = n + j - 1
          BY <2>2
        <5>3. QED
          BY <1>6, <1>9, <5>1, <5>2 DEF Adopts
      <4>3. QED
        BY <4>1, <4>2
    <3>7. c < n + l
      BY <1>6, <2>1
    <3>8. wire' = w
      BY <3>1, <3>4
    <3>9. QED
      BY <1>1, <1>2, <1>3, <2>2, <3>5, <3>6, <3>7, <3>8 DEF WireInv, Belongs
  <2>5. QED
    BY <2>3, <2>4
<1>10. QED
  BY <1>8, <1>9

\* What the page receives next is the first of wire, before and after.
LEMMA PushHead ==
  ASSUME Steps, NEW s \in Sessions, NEW new \in Seq(Event), Extends(s, new), Relayed(s, new),
         source.stage = "open", source.session = chat, chat \in Open
  PROVE  /\ s # chat => wire' = wire
         /\ s = chat => wire' = wire \o new
         /\ wire # <<>> => wire' # <<>> /\ wire'[1].id = wire[1].id
         /\ wire = <<>> /\ s = chat => wire' # <<>> /\ wire'[1].id = next[chat]
<1>1. PICK p \in Seq(Event) : p = wire
  BY WholeHas DEF PhoneTypeOK
<1>2. PICK n \in Nat : n = next[s]
  BY WholeHas DEF TypeOK
<1>3. s # chat => wire' = p
  BY <1>1 DEF Relayed
<1>4. s = chat => wire' = p \o new
  BY <1>1 DEF Relayed
<1>5. ASSUME s = chat
      PROVE  p \o new # <<>> /\ (p \o new)[1].id = IF p = <<>> THEN n ELSE p[1].id
  <2>1. Run(p) /\ (p # <<>> => p[Len(p)].id = n - 1)
    BY <1>1, <1>2, <1>5, WholeHas DEF WireInv
  <2>2. new # <<>> /\ \A i \in 1..Len(new) : new[i].id = n + i - 1
    BY <1>2 DEF Extends
  <2>3. QED
    BY <2>1, <2>2, RunGrows
<1>6. QED
  BY <1>1, <1>2, <1>3, <1>4, <1>5

LEMMA PushCurrent ==
  ASSUME Steps, NEW s \in Sessions, NEW new \in Seq(Event), Extends(s, new), Relayed(s, new),
         UNCHANGED <<chat, screen, waiting, timer, online, source, fetch>>
  PROVE  CurrentInv'
<1>1. SUFFICES ASSUME source.stage = "open", source.session = chat, chat \in Open', ~Repairing'
               PROVE  /\ wire' = <<>> => Cursor(screen) + 1 = next'[chat]
                      /\ busy'[chat] => \/ EndsWaiting(waiting, wire')
                                        \/ wire' # <<>> /\ wire'[1].id > Cursor(screen) + 1
  BY DEF CurrentInv, EndsWaiting, Calm
<1>2. chat \in Open /\ ~Repairing
  BY <1>1, WholeHas DEF NamesInv, Repairing, InFlight
<1>3. /\ wire = <<>> => Cursor(screen) + 1 = next[chat]
      /\ busy[chat] => \/ EndsWaiting(waiting, wire)
                       \/ wire # <<>> /\ wire[1].id > Cursor(screen) + 1
  BY <1>1, <1>2, WholeHas DEF CurrentInv
<1>4. CASE s # chat
  <2>1. chat \in Sessions \ {s}
    BY <1>4, WholeHas DEF PhoneTypeOK
  <2>2. wire' = wire /\ next'[chat] = next[chat] /\ busy'[chat] = busy[chat]
    BY <1>1, <1>2, <1>4, <2>1, PushHead DEF Extends
  <2>3. QED
    BY <1>3, <2>2
<1>5. CASE s = chat
  <2>1. /\ wire' = wire \o new /\ wire' # <<>>
        /\ wire # <<>> => wire'[1].id = wire[1].id
    BY <1>1, <1>2, <1>5, PushHead
  <2>2. /\ wire \in Seq(Event) /\ waiting \in BOOLEAN /\ new # <<>>
        /\ busy'[chat] => \/ busy[chat] /\ Calm(new)
                          \/ new[Len(new)].type = "start"
    BY <1>5, WholeHas DEF PhoneTypeOK, Extends
  <2>3. CASE busy[chat] /\ Calm(new) /\ EndsWaiting(waiting, wire)
    BY <2>1, <2>2, <2>3, WaitGrows
  <2>4. CASE new[Len(new)].type = "start"
    BY <2>1, <2>2, <2>4, StartEnds
  <2>5. QED
    BY <1>3, <2>1, <2>2, <2>3, <2>4
<1>6. QED
  BY <1>4, <1>5

LEMMA PushKeeps ==
  ASSUME Steps, NEW s \in Sessions, NEW new \in Seq(Event), Extends(s, new), Adopts(s, new),
         Relayed(s, new),
         UNCHANGED <<chat, screen, waiting, timer, drawn, online, source, fetch, newborn>>
  PROVE  PageInv'
<1>1. NamesInv' /\ AskedInv'
  BY NamesStay, AskedStays
<1>2. FetchInv'
  BY FetchStays DEF FetchInv
<1>3. ScreenInv' /\ ClosedInv'
  BY WholeHas DEF ScreenInv, ClosedInv, Relayed
<1>4. OwnInv' /\ NewbornInv'
  BY OwnStays, NewbornStays DEF InFlight
<1>5. WireInv' /\ CurrentInv'
  BY PushWire, PushCurrent
<1>6. QED
  BY <1>1, <1>2, <1>3, <1>4, <1>5 DEF PageInv

LEMMA ServerPushKeeps ==
  ASSUME Steps, NEW t \in Turns, BodyEnds(t) \/ Stream(t)
  PROVE  PageInv'
<1>1. UNCHANGED <<chat, screen, waiting, timer, drawn, online, source, fetch, newborn>>
  BY DEF BodyEnds, Stream, page
<1>2. CASE UNCHANGED <<log, next, busy, wire>>
  BY <1>1, <1>2, AwayKeeps
<1>3. CASE \E s \in Sessions, new \in Seq(Event) :
             Extends(s, new) /\ Adopts(s, new) /\ Relayed(s, new)
  BY <1>1, <1>3, PushKeeps
<1>4. wire \in Seq(Event)
  BY WholeHas DEF PhoneTypeOK
<1>5. QED
  BY <1>2, <1>3, <1>4, RelayStep, WholeHas

-----------------------------------------------------------------------------
\* The page receives an event.

\* t is what is left of the run p without its first event.
Beheaded(t, p) ==
  /\ t = Tail(p) /\ Len(t) + 1 = Len(p)
  /\ \A i \in 1..Len(t) : i + 1 \in 1..Len(p) /\ t[i] = p[i + 1] /\ p[1].id < t[i].id
  /\ Run(t)
  /\ t # <<>> => t[Len(t)] = p[Len(p)] /\ t[1].id = p[1].id + 1

LEMMA RunTail ==
  ASSUME NEW p \in Seq(Event), Run(p), p # <<>>
  PROVE  \E t \in Seq(Event) : Beheaded(t, p)
<1>1. PICK l \in Nat : l + 1 = Len(p)
  OBVIOUS
<1>2. PICK t \in Seq(Event) : t = Tail(p)
  BY HeadTailProperties
<1>3. Len(t) = l /\ \A i \in 1..l : t[i] = p[i + 1]
  BY <1>1, <1>2
<1>4. PICK x \in Nat : x = p[1].id
  <2>1. 1 \in 1..Len(p)
    BY <1>1
  <2>2. QED
    BY <2>1, IdsNatural
<1>5. \A i \in 1..l : i + 1 \in 1..(l + 1)
  OBVIOUS
<1>6. \A i \in 1..(l + 1) : p[i].id = x + i - 1
  BY <1>1, <1>4 DEF Run
<1>7. \A i \in 1..l : t[i].id = x + i
  <2> SUFFICES ASSUME NEW i \in 1..l PROVE t[i].id = x + i
    OBVIOUS
  <2>1. p[i + 1].id = x + (i + 1) - 1
    BY <1>5, <1>6
  <2>2. x + (i + 1) - 1 = x + i
    OBVIOUS
  <2>3. QED
    BY <1>3, <2>1, <2>2
<1>8. t # <<>> => 1 \in 1..l /\ l \in 1..l
  BY <1>3
<1>9. Run(t)
  <2>1. \A i \in 1..l : t[i].id = t[1].id + i - 1
    <3> SUFFICES ASSUME NEW i \in 1..l PROVE t[i].id = t[1].id + i - 1
      OBVIOUS
    <3>1. 1 \in 1..l
      OBVIOUS
    <3>2. t[1].id = x + 1
      BY <1>7, <3>1
    <3>3. QED
      BY <1>7, <3>2
  <2>2. QED
    BY <1>3, <2>1 DEF Run
<1>10. t # <<>> => t[l] = p[l + 1] /\ t[1].id = x + 1
  BY <1>3, <1>7, <1>8
<1>11. \A i \in 1..l : x < t[i].id
  BY <1>7
<1>12. QED
  BY <1>1, <1>2, <1>3, <1>4, <1>5, <1>9, <1>10, <1>11 DEF Beheaded

LEMMA WaitTail ==
  ASSUME NEW p \in Seq(Event), NEW t \in Seq(Event), Beheaded(t, p), NEW w \in BOOLEAN,
         EndsWaiting(w, p)
  PROVE  EndsWaiting(p[1].type = "start" \/ (w /\ p[1].type \notin Terminal), t)
<1>1. PICK l \in Nat : l = Len(t) /\ Len(p) = l + 1
  BY DEF Beheaded
<1>2. \A i \in 1..l : t[i] = p[i + 1]
  BY <1>1 DEF Beheaded
<1>3. ASSUME NEW i \in 1..l, \A j \in 2..(l + 1) : p[j].type \notin Terminal
      PROVE  t[i].type \notin Terminal
  <2>1. i + 1 \in 2..(l + 1)
    OBVIOUS
  <2>2. QED
    BY <1>2, <1>3, <2>1
<1>4. 1 \in 1..(l + 1) /\ \A j \in 2..(l + 1) : j \in 1..(l + 1)
  OBVIOUS
<1>5. CASE w /\ Calm(p)
  BY <1>1, <1>3, <1>4, <1>5 DEF Calm, EndsWaiting
<1>6. CASE \E i \in 1..Len(p) : /\ p[i].type = "start"
                                /\ \A j \in i..Len(p) : p[j].type \notin Terminal
  <2>1. PICK i \in 1..(l + 1) : /\ p[i].type = "start"
                                /\ \A j \in i..(l + 1) : p[j].type \notin Terminal
    BY <1>1, <1>6
  <2>2. CASE i = 1
    BY <1>1, <1>3, <1>4, <2>1, <2>2 DEF Calm, EndsWaiting
  <2>3. CASE i # 1
    <3>1. PICK h \in 1..l : h + 1 = i
      BY <2>3
    <3>2. t[h].type = "start"
      BY <1>2, <2>1, <3>1
    <3>3. \A j \in h..l : t[j].type \notin Terminal
      <4> SUFFICES ASSUME NEW j \in h..l PROVE t[j].type \notin Terminal
        OBVIOUS
      <4>1. j \in 1..l /\ j + 1 \in i..(l + 1)
        BY <3>1
      <4>2. QED
        BY <1>2, <2>1, <4>1
    <3>4. QED
      BY <1>1, <3>2, <3>3 DEF EndsWaiting
  <2>4. QED
    BY <2>2, <2>3
<1>7. QED
  BY <1>5, <1>6 DEF EndsWaiting

\* The stream without its first event, applied or not.
LEMMA TailWire ==
  ASSUME Steps, UNCHANGED <<next, turn, source>>, source.stage = "open", wire # <<>>,
         wire' = Tail(wire), Cursor(screen)' = Cursor(screen) \/ Cursor(screen)' = wire[1].id
  PROVE  WireInv'
<1>1. PICK p \in Seq(Event) : p = wire /\ p # <<>>
  BY WholeHas DEF PhoneTypeOK
<1>2. PICK r \in created : r = source.session /\ (r \in Open' => r \in Open)
  BY WholeHas DEF NamesInv
<1>3. PICK n \in Nat : n = next[r]
  BY <1>2, WholeHas DEF TypeOK
<1>4. PICK c \in Nat : c = Cursor(screen)
  BY CursorNat, WholeHas DEF PhoneTypeOK, ScreenInv
<1>5. /\ Run(p) /\ Belongs(p, r) /\ c < n
      /\ \A i \in 1..Len(p) : c < p[i].id /\ p[i].id < n
      /\ r \in Open => p[Len(p)].id = n - 1
  BY <1>1, <1>2, <1>3, <1>4, WholeHas DEF WireInv
<1>6. PICK t \in Seq(Event) : Beheaded(t, p)
  BY <1>1, <1>5, RunTail
<1>7. wire' = t /\ Run(t) /\ (t # <<>> => t[Len(t)] = p[Len(p)])
  BY <1>1, <1>6 DEF Beheaded
<1>8. PICK x \in Nat : x = p[1].id /\ c < x /\ x < n
  <2>1. 1 \in 1..Len(p)
    BY <1>1
  <2>2. QED
    BY <1>5, <2>1, IdsNatural
<1>9. PICK d \in Nat : d = Cursor(screen)' /\ d <= x /\ d < n
  BY <1>1, <1>4, <1>8
<1>10. ASSUME NEW i \in 1..Len(t)
       PROVE  /\ d < t[i].id /\ t[i].id < n
              /\ turn[t[i].turn].session = r
              /\ turn[t[i].turn].stage \in {"streaming", "ended"}
  <2>1. PICK j \in 1..Len(p) : t[i] = p[j] /\ x < t[i].id /\ t[i].id \in Nat
    BY <1>6, <1>8, IdsNatural DEF Beheaded
  <2>2. p[j].id < n
    BY <1>5
  <2>3. QED
    BY <1>5, <1>9, <2>1, <2>2 DEF Belongs
<1>11. QED
  BY <1>2, <1>3, <1>5, <1>7, <1>9, <1>10 DEF WireInv, Belongs, Run

\* An event that is one too late is not applied, and starts a repair.
LEMMA GapKeeps ==
  ASSUME Steps, Dispatch, Head(wire).id > Cursor(screen) + 1
  PROVE  PageInv'
<1>1. PICK p \in Seq(Event), c \in Nat : p = wire /\ c = Cursor(screen) /\ p # <<>>
  BY CursorNat, WholeHas DEF Dispatch, PhoneTypeOK, ScreenInv
<1>2. /\ source.stage = "open" /\ wire' = Tail(p) /\ timer' = (timer \/ online)
      /\ UNCHANGED <<log, next, busy, turn, chat, screen, waiting, drawn, online, source, fetch,
                     newborn>>
  BY <1>1 DEF Dispatch, ScheduleReconnect, vars, chats
<1>3. NamesInv' /\ AskedInv'
  BY <1>2, NamesStay, AskedStays
<1>4. FetchInv'
  BY <1>2, FetchStays DEF FetchInv
<1>5. ScreenInv' /\ ClosedInv'
  BY <1>2, WholeHas DEF ScreenInv, ClosedInv
<1>6. OwnInv'
  BY <1>2, OwnStays
<1>7. WireInv'
  BY <1>1, <1>2, TailWire
<1>8. NewbornInv'
  BY <1>2, NewbornStays DEF InFlight
<1>9. CurrentInv'
  BY <1>2 DEF CurrentInv, Repairing
<1>10. QED
  BY <1>3, <1>4, <1>5, <1>6, <1>7, <1>8, <1>9 DEF PageInv

\* What the page applies is the very next event of its session.
LEMMA ApplyKeeps ==
  ASSUME Steps, Dispatch, ~(Head(wire).id > Cursor(screen) + 1)
  PROVE  PageInv'
<1>1. PICK p \in Seq(Event), c \in Nat, q \in Seq(Event) :
        p = wire /\ c = Cursor(screen) /\ p # <<>> /\ q = screen /\ Run(q)
  BY CursorNat, WholeHas DEF Dispatch, PhoneTypeOK, ScreenInv
<1>2. PICK e \in Event : e = Head(p) /\ e = p[1]
  BY <1>1
<1>3. /\ source.stage = "open" /\ wire' = Tail(p) /\ screen' = Append(q, e)
      /\ waiting' = (e.type = "start" \/ (waiting /\ e.type \notin Terminal))
      /\ UNCHANGED <<log, next, busy, turn, chat, timer, drawn, online, source, fetch, newborn>>
  BY <1>1, <1>2 DEF Dispatch, Apply, vars, chats
<1>4. e.id = c + 1
  <2>1. 1 \in 1..Len(p)
    BY <1>1
  <2>2. c < e.id
    BY <1>1, <1>2, <1>3, <2>1, WholeHas DEF WireInv
  <2>3. e.id \in Nat /\ ~(e.id > c + 1)
    BY <1>1, <1>2 DEF Event
  <2>4. QED
    BY <2>2, <2>3
<1>5. screen' \in Seq(Event) /\ Run(Append(q, e)) /\ Cursor(Append(q, e)) = c + 1
  BY <1>1, <1>2, <1>3, <1>4, RunAppend
<1>6. PICK t \in Seq(Event) : Beheaded(t, p)
  BY <1>1, <1>3, RunTail, WholeHas DEF WireInv
<1>7. /\ wire' = t
      /\ t # <<>> => t[1].id = c + 1 + 1
      /\ t = <<>> => Len(p) = 1
  <2>1. wire' = t /\ Len(t) + 1 = Len(p) /\ (t # <<>> => t[1].id = e.id + 1)
    BY <1>2, <1>3, <1>6 DEF Beheaded
  <2>2. t = <<>> => Len(t) = 0
    OBVIOUS
  <2>3. QED
    BY <1>4, <2>1, <2>2
<1>8. NamesInv'
  BY <1>3, NamesStay
<1>9. FetchInv'
  BY <1>3, FetchStays DEF FetchInv
<1>10. ScreenInv' /\ ClosedInv' /\ AskedInv'
  BY <1>3, <1>5 DEF ScreenInv, Run, ClosedInv, AskedInv
<1>11. WireInv'
  BY <1>1, <1>2, <1>3, <1>4, <1>5, TailWire
<1>12. chat \in Open' => chat \in Open
  BY WholeHas DEF NamesInv
<1>13. OwnInv'
  <2>1. source.session = chat <=> drawn
    BY <1>3, WholeHas DEF OwnInv
  <2>2. SUFFICES ASSUME drawn PROVE Belongs(screen, chat)'
    BY <1>3, <2>1 DEF OwnInv
  <2>3. Belongs(q, chat) /\ source.session = chat
    BY <1>1, <2>1, <2>2, WholeHas DEF OwnInv
  <2>4. turn[e.turn].session = chat /\ turn[e.turn].stage \in {"streaming", "ended"}
    <3>1. 1 \in 1..Len(p) /\ Belongs(p, chat)
      BY <1>1, <1>3, <2>3, WholeHas DEF WireInv
    <3>2. QED
      BY <1>2, <3>1 DEF Belongs
  <2>5. ASSUME NEW i \in 1..Len(screen')
        PROVE  /\ turn[screen'[i].turn].session = chat
               /\ turn[screen'[i].turn].stage \in {"streaming", "ended"}
    <3>1. \/ i \in 1..Len(q) /\ screen'[i] = q[i]
          \/ screen'[i] = e
      BY <1>1, <1>3
    <3>2. QED
      BY <2>3, <2>4, <3>1 DEF Belongs
  <2>6. QED
    BY <1>3, <2>5 DEF Belongs
<1>14. NewbornInv'
  BY <1>3, NewbornStays DEF InFlight
<1>15. CurrentInv'
  <2>1. SUFFICES ASSUME source.session = chat, chat \in Open, ~Repairing
                 PROVE  /\ t = <<>> => c + 1 + 1 = next[chat]
                        /\ busy[chat] => EndsWaiting(waiting', t)
    BY <1>3, <1>5, <1>7, <1>12 DEF CurrentInv, Repairing, InFlight, EndsWaiting, Calm
  <2>2. t = <<>> => c + 1 + 1 = next[chat]
    <3> SUFFICES ASSUME t = <<>> PROVE c + 1 + 1 = next[chat]
      OBVIOUS
    <3>1. p[Len(p)].id = next[chat] - 1 /\ next[chat] \in Nat
      BY <1>1, <1>3, <2>1, WholeHas DEF WireInv, TypeOK, PhoneTypeOK
    <3>2. c + 1 = next[chat] - 1
      BY <1>2, <1>4, <1>7, <3>1
    <3>3. QED
      BY <3>1, <3>2
  <2>3. ASSUME busy[chat] PROVE EndsWaiting(waiting', t)
    <3>1. EndsWaiting(waiting, p)
      BY <1>1, <1>2, <1>3, <1>4, <2>1, <2>3, WholeHas DEF CurrentInv
    <3>2. waiting \in BOOLEAN
      BY WholeHas DEF PhoneTypeOK
    <3>3. EndsWaiting(p[1].type = "start" \/ (waiting /\ p[1].type \notin Terminal), t)
      BY <1>6, <3>1, <3>2, WaitTail
    <3>4. waiting' <=> (p[1].type = "start" \/ (waiting /\ p[1].type \notin Terminal))
      BY <1>2, <1>3
    <3>5. QED
      BY <3>3, <3>4 DEF EndsWaiting
  <2>4. QED
    BY <2>2, <2>3
<1>16. QED
  BY <1>8, <1>9, <1>10, <1>11, <1>13, <1>14, <1>15 DEF PageInv

LEMMA DispatchKeeps ==
  ASSUME Steps, Dispatch
  PROVE  PageInv'
BY GapKeeps, ApplyKeeps

-----------------------------------------------------------------------------
\* All steps together.

\* What the page, the server or a lost answer change of reply, or of the turns.
LEMMA ElsewhereKeeps ==
  ASSUME Steps,
         \/ \E t \in Turns : Send(t) \/ HearReply(t) \/ PostReaches(t) \/ LoseReply(t)
         \/ Stop \/ Expire \/ LoseNewChat \/ UNCHANGED <<vars, phoneVars>>
  PROVE  PageInv'
<1>1. CASE \E t \in Turns : Send(t) \/ LoseReply(t)
  BY <1>1, AwayKeeps DEF Send, LoseReply, Fault, vars, chats, page, network
<1>2. CASE \E t \in Turns : HearReply(t)
  <2>1. waiting => waiting'
    BY <1>2 DEF HearReply
  <2>2. UNCHANGED <<log, next, busy, chat, screen, timer, drawn, online, source, wire, fetch,
                    newborn>>
    BY <1>2 DEF HearReply, vars, chats, network
  <2>3. QED
    BY <2>1, <2>2, AwayKeeps
<1>3. CASE \E t \in Turns : PostReaches(t)
  BY <1>3, AwayKeeps DEF PostReaches, PostMessage, RefuseMessage, vars, chats, page, network
<1>4. CASE Stop
  BY <1>4, AwayKeeps DEF Stop, CancelMessage, vars, chats, phoneVars, page, network
<1>5. CASE Expire
  BY <1>5, AwayKeeps DEF Expire, Prune, vars, chats, phoneVars, page, network
<1>6. CASE UNCHANGED <<vars, phoneVars>>
  BY <1>6, AwayKeeps DEF vars, chats, phoneVars, page, network
<1>7. CASE LoseNewChat
  BY <1>7, AwayKeeps DEF LoseNewChat, Fault, vars, chats
<1>8. QED
  BY <1>1, <1>2, <1>3, <1>4, <1>5, <1>6, <1>7

LEMMA PageInit == PhoneInit => Whole
<1> SUFFICES ASSUME PhoneInit PROVE Whole
  OBVIOUS
<1>1. PhoneTyped /\ Drawn
  BY PhoneInitTyped, BootServer
<1>2. /\ next = [s \in Sessions |-> 1] /\ busy = [s \in Sessions |-> FALSE]
      /\ chat \in Sessions /\ created = {chat} /\ screen = <<>> /\ wire = <<>>
      /\ source.stage = "asked" /\ source.session = chat /\ source.after = 0
      /\ newborn = None /\ drawn = TRUE
      /\ \A f \in Fetches : fetch[f].stage = "idle"
  BY BootChat DEF PhoneInit, NoMessages, IdleFetch
<1>3. Cursor(screen) = 0 /\ Run(screen) /\ Belongs(screen, chat)
  BY <1>2, EmptyCursor DEF Run, Belongs
<1>4. Sound(chat, 0, waiting)
  BY <1>2 DEF Sound
<1>5. LogKept /\ NamesInv /\ FetchInv /\ ScreenInv /\ ClosedInv
  BY <1>2, <1>3 DEF LogKept, NamesInv, InFlight, FetchInv, FetchOK, ScreenInv, ClosedInv
<1>6. AskedInv
  BY <1>2, <1>3, <1>4 DEF AskedInv
<1>7. WireInv /\ OwnInv /\ NewbornInv /\ CurrentInv
  BY <1>2, <1>3 DEF WireInv, OwnInv, NewbornInv, CurrentInv
<1>8. QED
  BY <1>1, <1>5, <1>6, <1>7 DEF Whole, PageInv

LEMMA PageNext ==
  ASSUME ~ResumesCross, Whole, [PhoneNext]_<<vars, phoneVars>>
  PROVE  Whole'
<1>1. [Next]_vars /\ PhoneTyped'
  BY PhoneStepsServer, PhoneNextTyped DEF Whole
<1>2. Steps
  BY <1>1 DEF Steps
<1>3. Drawn' /\ LogKept'
  BY <1>1, NextDrawn, KeptNext DEF Whole, PhoneTyped, PhoneTypeOK, LogInv
<1> SUFFICES PageInv'
  BY <1>1, <1>3 DEF Whole
<1>4. CASE PageStep
  <2>1. ASSUME NEW f \in Fetches, SnapshotArrives(f) \/ SnapshotMissing(f) PROVE PageInv'
    BY <1>2, <2>1, SnapshotArrivesKeeps, SnapshotMissingKeeps
  <2>2. QED
    BY <1>2, <1>4, <2>1, ElsewhereKeeps, DispatchKeeps, TimerFiresKeeps, NewChatOpensKeeps
       DEF PageStep
<1>5. CASE ServerStep
  <2>1. ASSUME NEW t \in Turns, BodyEnds(t) \/ Stream(t) PROVE PageInv'
    BY <1>2, <2>1, ServerPushKeeps
  <2>2. ASSUME NEW f \in Fetches, TakeSnapshot(f) PROVE PageInv'
    BY <1>2, <2>2, TakeSnapshotKeeps
  <2>3. ASSUME NEW s \in Sessions, AskNewChat(s) PROVE PageInv'
    BY <1>2, <2>3, AskNewChatKeeps
  <2>4. QED
    BY <1>2, <1>5, <2>1, <2>2, <2>3, ElsewhereKeeps, SubscribeKeeps, SourceEndsKeeps
       DEF ServerStep
<1>6. CASE NetworkStep
  <2>1. ASSUME NEW f \in Fetches, LoseSnapshot(f) PROVE PageInv'
    BY <1>2, <2>1, LoseSnapshotKeeps
  <2>2. QED
    BY <1>2, <1>6, <2>1, ElsewhereKeeps, BreakSourceKeeps, GoOfflineKeeps, GoOnlineKeeps
       DEF NetworkStep
<1>7. CASE UNCHANGED <<vars, phoneVars>>
  BY <1>2, <1>7, ElsewhereKeeps
<1>8. QED
  BY <1>4, <1>5, <1>6, <1>7 DEF PhoneNext

(***************************************************************************)
(* The inductive invariant of the page: what each snapshot, stream and     *)
(* screen may hold, whichever of them arrives first.                       *)
(***************************************************************************)
THEOREM PageHolds == ~ResumesCross => (PhoneSpec => []Whole)
<1> SUFFICES ASSUME ~ResumesCross PROVE PhoneSpec => []Whole
  OBVIOUS
<1>1. Whole /\ [PhoneNext]_<<vars, phoneVars>> => Whole'
  BY PageNext
<1>2. QED
  BY <1>1, PageInit, PTL DEF PhoneSpec

(***************************************************************************)
(* What is on the screen is one unbroken run of events, and once a chat    *)
(* has been drawn, a run of that chat: for any number of sessions,         *)
(* messages, fetches and outages, whatever answer or connection is lost,   *)
(* if no resume of one chat is under way while another is opened.          *)
(***************************************************************************)
THEOREM ScreenIsUnbroken == ~ResumesCross => (PhoneSpec => []ScreenIsOneRun)
<1>1. Whole => ScreenIsOneRun
  BY DEF Whole, PageInv, ScreenInv, Run, OwnInv, Belongs, ScreenIsOneRun
<1>2. QED
  BY <1>1, PageHolds, PTL

(***************************************************************************)
(* With nothing in flight a page that listens to its chat has applied the  *)
(* last event and offers Stop while a response streams: the repairs of     *)
(* ui.js leave no gap, if no resume of one chat is under way while another *)
(* is opened.                                                              *)
(***************************************************************************)
THEOREM QuietPageHasAll == ~ResumesCross => (PhoneSpec => []QuietPageIsCurrent)
<1>1. Whole => QuietPageIsCurrent
  <2> SUFFICES ASSUME Whole, Quiet
               PROVE  Cursor(screen) = next[chat] - 1 /\ (busy[chat] => waiting)
    BY DEF QuietPageIsCurrent
  <2>1. ~Repairing /\ wire = <<>> /\ CurrentInv /\ chat \in Sessions
    BY DEF Quiet, Repairing, InFlight, Whole, PageInv, PhoneTyped, PhoneTypeOK
  <2>2. Cursor(screen) + 1 = next[chat] /\ (busy[chat] => EndsWaiting(waiting, <<>>))
    BY <2>1 DEF CurrentInv, Quiet
  <2>3. Cursor(screen) \in Nat /\ next[chat] \in Nat
    BY <2>1, CursorNat DEF Whole, PhoneTyped, PhoneTypeOK, TypeOK, PageInv, ScreenInv
  <2>4. EndsWaiting(waiting, <<>>) => waiting
    BY DEF EndsWaiting
  <2>5. QED
    BY <2>2, <2>3, <2>4
<1>2. QED
  BY <1>1, PageHolds, PTL

(***************************************************************************)
(* A new chat shows nothing of the old one once nothing is in flight, if   *)
(* no resume of the old one was under way while it was opened.             *)
(***************************************************************************)
THEOREM NewChatIsNew == ~ResumesCross => (PhoneSpec => []NewChatShowsNoOther)
<1>1. Whole => NewChatShowsNoOther
  BY DEF Whole, PageInv, OwnInv, Belongs, Quiet, NewChatShowsNoOther
<1>2. QED
  BY <1>1, PageHolds, PTL
=============================================================================
