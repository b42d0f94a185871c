-------------------------- MODULE CompanionSession --------------------------
(***************************************************************************)
(* The Remote Companion server (remote-companion/server.js): chat sessions *)
(* held in memory, each with a bounded event log, a bounded history and at *)
(* most one response streaming from the adapter; POSTs whose body is still *)
(* being read; cancellation, idle pruning and eviction.                    *)
(*                                                                         *)
(* One action is one stretch of JavaScript between two awaits.  A request  *)
(* handler keeps its session object across the await of the body, and the  *)
(* stream started by it outlives the request.                              *)
(***************************************************************************)
EXTENDS Integers, Sequences, FiniteSets

CONSTANTS
  Sessions,     \* session ids that may be drawn
  Turns,        \* message POSTs that may be made
  None,         \* no AbortController, no session
  MaxSessions,  \* MAX_SESSIONS
  MaxEvents,    \* MAX_EVENTS
  MaxHistory,   \* MAX_HISTORY_MESSAGES and MAX_HISTORY_CHARS, in messages
  MaxDeltas,    \* bound: text chunks of one response
  Pipelining    \* may two POSTs of a session have unread bodies at once?

ASSUME NoneAssumption == None \notin Turns /\ None \notin Sessions
ASSUME SessionsAssumption == IsFiniteSet(Sessions)
ASSUME BoundsAssumption ==
  /\ MaxSessions \in Nat \ {0}
  /\ MaxEvents \in Nat \ {0}
  /\ MaxHistory \in Nat \ {0}
  /\ MaxDeltas \in Nat
  /\ Pipelining \in BOOLEAN

VARIABLES
  created,     \* the session ids drawn so far
  rank,        \* order of touchedAt: 0 not in the map, 1 the oldest
  log,         \* session.events
  next,        \* session.nextEventId
  history,     \* session.history
  busy,        \* session.busy
  controller,  \* session.controller, as the turn whose signal it is
  turn         \* the message POSTs and the streams they started

sessions == <<created, rank>>
chats == <<log, next, history, busy, controller>>
vars == <<created, rank, log, next, history, busy, controller, turn>>

EventType == {"user", "start", "delta", "done", "cancelled", "error"}

Terminal == {"done", "cancelled", "error"}

Event == [id : Nat, type : EventType, turn : Turns]

\* A message of the history; size counts the text chunks it was made of.
Message == [role : {"user", "assistant"}, turn : Turns, size : Nat]

Stage == {"unused", "body", "streaming", "ended"}

(***************************************************************************)
(* said is the length of assistantText; aborted, whether the signal of the *)
(* turn's own controller fired.  Two are history: stopped, that the user   *)
(* cancelled, or the session was destroyed, while this turn was streaming; *)
(* orphan, that its session was gone before its body was complete.         *)
(***************************************************************************)
Turn == [stage : Stage, session : Sessions \cup {None}, said : Nat,
         aborted : BOOLEAN, stopped : BOOLEAN, orphan : BOOLEAN]

UnusedTurn == [stage |-> "unused", session |-> None, said |-> 0,
               aborted |-> FALSE, stopped |-> FALSE, orphan |-> FALSE]

TypeOK ==
  /\ created \subseteq Sessions
  /\ rank \in [Sessions -> Nat]
  /\ log \in [Sessions -> Seq(Event)]
  /\ next \in [Sessions -> Nat \ {0}]
  /\ history \in [Sessions -> Seq(Message)]
  /\ busy \in [Sessions -> BOOLEAN]
  /\ controller \in [Sessions -> Turns \cup {None}]
  /\ turn \in [Turns -> Turn]

\* Sessions as createSession() makes them, and no message posted yet.
NoMessages ==
  /\ log = [s \in Sessions |-> <<>>]
  /\ next = [s \in Sessions |-> 1]
  /\ history = [s \in Sessions |-> <<>>]
  /\ busy = [s \in Sessions |-> FALSE]
  /\ controller = [s \in Sessions |-> None]
  /\ turn = [t \in Turns |-> UnusedTurn]

Init ==
  /\ created = {}
  /\ rank = [s \in Sessions |-> 0]
  /\ NoMessages

-----------------------------------------------------------------------------
\* The session map.

Open == {s \in Sessions : rank[s] # 0}

Streaming(s) == {t \in Turns : turn[t].stage = "streaming" /\ turn[t].session = s}

\* session.touchedAt = now(), which matters only while s is in the map.
Touch(s) ==
  IF s \notin Open THEN rank
  ELSE [r \in Sessions |-> IF r = s THEN Cardinality(Open)
                           ELSE IF rank[r] > rank[s] THEN rank[r] - 1 ELSE rank[r]]

\* The turns after the sessions in D had their controllers aborted.
Aborted(D) ==
  [t \in Turns |->
     [turn[t] EXCEPT !.aborted = @ \/ \E s \in D : controller[s] = t,
                     !.stopped = @ \/ \E s \in D : t \in Streaming(s)]]

\* destroySession() of the n oldest sessions.
DestroyOldest(n) ==
  /\ rank' = [s \in Sessions |-> IF rank[s] <= n THEN 0 ELSE rank[s] - n]
  /\ turn' = Aborted({s \in Open : rank[s] <= n})

\* prune(): any number of the oldest sessions have been idle long enough.
\* close() is the case of all of them.
Prune ==
  /\ \E n \in 1..Cardinality(Open) : DestroyOldest(n)
  /\ UNCHANGED <<created, chats>>

\* How many sessions go when one is created and n are idle.
EvictNone(n) == n

Evicted(n) == IF Cardinality(Open) - n >= MaxSessions THEN n + 1 ELSE n

CreateSession(s) ==
  /\ s \notin created
  /\ created' = created \cup {s}
  /\ \E n \in 0..Cardinality(Open) :
       LET gone == Evicted(n) IN
       /\ rank' = [r \in Sessions |->
                     IF r = s THEN Cardinality(Open) - gone + 1
                     ELSE IF rank[r] <= gone THEN 0 ELSE rank[r] - gone]
       /\ turn' = Aborted({r \in Open : rank[r] <= gone})
  /\ UNCHANGED chats

\* GET of the snapshot or of the event stream: only touchedAt changes here.
Visit(s) ==
  /\ s \in Open
  /\ rank' = Touch(s)
  /\ UNCHANGED <<created, chats, turn>>

-----------------------------------------------------------------------------
\* The event log and the history.

\* The last n elements of a sequence.
LastOf(seq, n) == IF Len(seq) <= n THEN seq ELSE SubSeq(seq, Len(seq) - n + 1, Len(seq))

\* The events that push() makes of these types, one after the other.
EventsFrom(first, types, t) ==
  [i \in 1..Len(types) |-> [id |-> first + i - 1, type |-> types[i], turn |-> t]]

RestartIds(s, types, t) ==
  /\ log' = [log EXCEPT ![s] =
       LastOf(@ \o EventsFrom(Len(@) + 1, types, t), MaxEvents)]
  /\ next' = [next EXCEPT ![s] = @ + Len(types)]

Push(s, types, t) ==
  /\ log' = [log EXCEPT ![s] = LastOf(@ \o EventsFrom(next[s], types, t), MaxEvents)]
  /\ next' = [next EXCEPT ![s] = @ + Len(types)]

Remember(s, role, t, size) ==
  history' = [history EXCEPT ![s] =
    LastOf(Append(@, [role |-> role, turn |-> t, size |-> size]), MaxHistory)]

-----------------------------------------------------------------------------
\* Messages.

\* The checks of startMessage() before the body is awaited.
Accepts(s) == s \in Open /\ ~busy[s]

PostMessage(t, s) ==
  /\ turn[t].stage = "unused"
  /\ Accepts(s)
  /\ Pipelining \/ \A u \in Turns : ~(turn[u].stage = "body" /\ turn[u].session = s)
  /\ turn' = [turn EXCEPT ![t].stage = "body", ![t].session = s]
  /\ rank' = Touch(s)
  /\ UNCHANGED <<created, chats>>

\* 409: a response is already streaming.
RefuseMessage(s) ==
  /\ s \in Open
  /\ busy[s]
  /\ rank' = Touch(s)
  /\ UNCHANGED <<created, chats, turn>>

\* A valid body is complete, whatever became of the session meanwhile.
BodyArrives(t) ==
  LET s == turn[t].session IN
  /\ turn[t].stage = "body"
  /\ Remember(s, "user", t, 1)
  /\ Push(s, <<"user", "start">>, t)
  /\ busy' = [busy EXCEPT ![s] = TRUE]
  /\ controller' = [controller EXCEPT ![s] = t]
  /\ turn' = [turn EXCEPT ![t].stage = "streaming", ![t].orphan = s \notin Open]
  /\ UNCHANGED sessions

\* An invalid or oversized body, or a connection lost before its end.
BodyRefused(t) ==
  /\ turn[t].stage = "body"
  /\ turn' = [turn EXCEPT ![t].stage = "ended"]
  /\ UNCHANGED <<sessions, chats>>

Delta(t) ==
  /\ turn[t].stage = "streaming"
  /\ ~turn[t].aborted
  /\ turn[t].said < MaxDeltas
  /\ Push(turn[t].session, <<"delta">>, t)
  /\ turn' = [turn EXCEPT ![t].said = @ + 1]
  /\ UNCHANGED <<sessions, history, busy, controller>>

ForgetPartial(t, type) ==
  IF type = "done" THEN Remember(turn[t].session, "assistant", t, turn[t].said)
  ELSE UNCHANGED history

\* The history after a stream ended: an answer is kept whole after its end,
\* and after an error or a cancellation as far as it was shown.
KeepAnswer(t, type) ==
  IF type = "done" \/ turn[t].said > 0
  THEN Remember(turn[t].session, "assistant", t, turn[t].said)
  ELSE UNCHANGED history

StayBusy(s) == UNCHANGED <<busy, controller>>

\* The finally clause of startMessage().
Release(s) ==
  /\ busy' = [busy EXCEPT ![s] = FALSE]
  /\ controller' = [controller EXCEPT ![s] = None]

EndsButGoesOn(t, type) ==
  /\ turn[t].stage = "streaming"
  /\ KeepAnswer(t, type)
  /\ Push(turn[t].session, <<type>>, t)
  /\ Release(turn[t].session)
  /\ UNCHANGED <<sessions, turn>>

StreamEnds(t, type) ==
  /\ turn[t].stage = "streaming"
  /\ KeepAnswer(t, type)
  /\ Push(turn[t].session, <<type>>, t)
  /\ Release(turn[t].session)
  /\ rank' = Touch(turn[t].session)
  /\ turn' = [turn EXCEPT ![t].stage = "ended"]
  /\ UNCHANGED created

Done(t) == ~turn[t].aborted /\ StreamEnds(t, "done")

\* A network or gateway error; an abort too ends this way while the body of
\* an error response is being read.
Fails(t) == (turn[t].aborted => turn[t].said = 0) /\ StreamEnds(t, "error")

Cancelled(t) == turn[t].aborted /\ StreamEnds(t, "cancelled")

AbortNothing(s) ==
  turn' = [t \in Turns |-> [turn[t] EXCEPT !.stopped = @ \/ t \in Streaming(s)]]

\* cancelMessage(): abort() on the controller of the moment, if any.
AbortStream(s) == turn' = Aborted({s})

CancelMessage(s) ==
  /\ s \in Open
  /\ AbortStream(s)
  /\ rank' = Touch(s)
  /\ UNCHANGED <<created, chats>>

TurnStep(t) ==
  \/ \E s \in Sessions : PostMessage(t, s)
  \/ BodyArrives(t)
  \/ BodyRefused(t)
  \/ Delta(t)
  \/ Done(t)
  \/ Fails(t)
  \/ Cancelled(t)

SessionStep(s) ==
  \/ CreateSession(s)
  \/ Visit(s)
  \/ RefuseMessage(s)
  \/ CancelMessage(s)

Next ==
  \/ \E t \in Turns : TurnStep(t)
  \/ \E s \in Sessions : SessionStep(s)
  \/ Prune

Spec == Init /\ [][Next]_vars

-----------------------------------------------------------------------------
\* Properties.

(***************************************************************************)
(* At most one response streams in a session: a second message is answered *)
(* 409 "a response is already streaming" (startMessage).  The busy flag is *)
(* read before the body is awaited and set after, so this holds only when  *)
(* no two bodies of a session are being read at once.                      *)
(***************************************************************************)
OneStreamPerSession ==
  \A s \in Sessions : \A t, u \in Streaming(s) : t = u

(***************************************************************************)
(* busy and controller of a session tell of its stream: busy exactly while *)
(* a response is streaming, and the controller is the one that aborts it,  *)
(* also for a session that was destroyed meanwhile (startMessage).         *)
(***************************************************************************)
BusyTellsTruth ==
  \A s \in Sessions :
    /\ busy[s] <=> Streaming(s) # {}
    /\ \A t \in Streaming(s) : controller[s] = t

(***************************************************************************)
(* A response that the user cancelled has been aborted, and so has every   *)
(* one whose session is gone, cancelled, pruned or evicted at any moment   *)
(* (cancelMessage, destroySession).  One kind is excepted: the response    *)
(* that began after its session was gone, because the session ended while  *)
(* the body of the message was awaited.                                    *)
(***************************************************************************)
StopReachesStreams ==
  \A t \in Turns : turn[t].stage = "streaming" =>
    /\ turn[t].stopped => turn[t].aborted
    /\ turn[t].session \notin Open => turn[t].aborted \/ turn[t].orphan

(***************************************************************************)
(* The same without the exception, which does not hold: startMessage()     *)
(* does not look whether the session is still in the map once the body is  *)
(* there, and nothing can abort what it then starts.                       *)
(***************************************************************************)
NoStreamUnheard ==
  \A t \in Turns :
    turn[t].stage = "streaming" /\ turn[t].session \notin Open => turn[t].aborted

(***************************************************************************)
(* The retained log is a gapless suffix of all events: cursors that a      *)
(* browser compares with "id > after" and "id > cursor + 1" never skip an  *)
(* event that is still there, whatever was trimmed (push, MAX_EVENTS).     *)
(***************************************************************************)
LogIsGapless ==
  \A s \in Sessions : \A i \in 1..Len(log[s]) : log[s][i].id = next[s] - Len(log[s]) + i - 1

(***************************************************************************)
(* Every answer ends once: nothing follows its terminal event, and the     *)
(* log of an ended stream says so, though completion, failure, cancel and  *)
(* eviction race for it (the catch and finally of startMessage).           *)
(***************************************************************************)
AnswersEndOnce ==
  \A s \in Sessions : \A i \in 1..Len(log[s]) :
    log[s][i].type \in Terminal =>
      /\ turn[log[s][i].turn].stage = "ended"
      /\ \A j \in (i + 1)..Len(log[s]) : log[s][j].turn # log[s][i].turn

\* The conversation as the events of a session's log show it.
Deltas(s, t) ==
  Cardinality({i \in 1..Len(log[s]) : log[s][i].type = "delta" /\ log[s][i].turn = t})

\* The events that end up as messages: an answer that broke off counts as far
\* as it was shown.
Kept(s) ==
  {i \in 1..Len(log[s]) :
     \/ log[s][i].type \in {"user", "done"}
     \/ log[s][i].type \in {"cancelled", "error"} /\ Deltas(s, log[s][i].turn) > 0}

ShownAs(s, i) ==
  IF log[s][i].type = "user"
  THEN [role |-> "user", turn |-> log[s][i].turn, size |-> 1]
  ELSE [role |-> "assistant", turn |-> log[s][i].turn, size |-> Deltas(s, log[s][i].turn)]

KeptAfter(s, i) == Cardinality({k \in Kept(s) : k > i})

(***************************************************************************)
(* The next request's context is the conversation the user saw, partial    *)
(* answers included: "Preserve the exact partial response the user already *)
(* saw so a cancelled or interrupted turn does not make the next request's *)
(* context diverge" (streamFromAdapter).  The history is as long as the    *)
(* messages that were shown, or as it may be, and each message has as many *)
(* behind it in the history as on the screen.  Compared while no event has *)
(* been trimmed from the log.                                              *)
(***************************************************************************)
HistoryIsWhatWasShown ==
  \A s \in Sessions : next[s] - 1 <= MaxEvents =>
    /\ Len(history[s]) =
         IF Cardinality(Kept(s)) <= MaxHistory THEN Cardinality(Kept(s)) ELSE MaxHistory
    /\ \A i \in Kept(s) : KeptAfter(s, i) < MaxHistory =>
         history[s][Len(history[s]) - KeptAfter(s, i)] = ShownAs(s, i)

(***************************************************************************)
(* The session map never outgrows MAX_SESSIONS, and eviction and pruning   *)
(* take sessions in the order of their last use: the ranks of the open     *)
(* sessions are 1 to their number (createSession, prune).                  *)
(***************************************************************************)
SessionsBounded ==
  /\ Cardinality(Open) <= MaxSessions
  /\ {rank[s] : s \in Open} = 1..Cardinality(Open)

(***************************************************************************)
(* Sessions, seen from outside, are the conversations of Conversation, as  *)
(* long as no two bodies of a session are read at once: messages are       *)
(* answered one at a time, what is kept of them is the newest MAX_EVENTS   *)
(* events with consecutive ids, and Stop, eviction and pruning leave an    *)
(* answer nothing but its end (startMessage, streamFromAdapter, push,      *)
(* cancelMessage, destroySession).                                         *)
(***************************************************************************)
Talk == INSTANCE Conversation WITH
  feed <- [s \in Sessions |-> {log[s][i] : i \in 1..Len(log[s])}],
  last <- [s \in Sessions |-> next[s] - 1],
  answered <- controller,
  stopped <- {s \in Sessions : \E t \in Streaming(s) : turn[t].stopped},
  settled <- {t \in Turns : turn[t].stage \in {"streaming", "ended"}}

KeepsConversation == Talk!Spec
=============================================================================
