---------------------------- MODULE Conversation ----------------------------
(***************************************************************************)
(* What a client of the companion server may rely on: the conversation of  *)
(* a session is one numbered series of events of which the newest are      *)
(* kept; its messages are answered one at a time; an answer that was       *)
(* stopped says nothing more than how it ended; and nothing is ever added  *)
(* to a message that was refused or answered.                              *)
(***************************************************************************)
EXTENDS Naturals, Sequences

CONSTANTS
  Sessions,
  Turns,      \* messages, with their answers
  None,       \* no message
  MaxEvents   \* how many events of a session are kept

VARIABLES
  feed,      \* per session, the events that are kept
  last,      \* per session, the id of its newest event
  answered,  \* per session, the message that is being answered, or None
  stopped,   \* the sessions whose answer the user has stopped
  settled    \* the messages that were taken or refused

conversation == <<feed, last, answered, stopped, settled>>

Init ==
  /\ feed = [s \in Sessions |-> {}]
  /\ last = [s \in Sessions |-> 0]
  /\ answered = [s \in Sessions |-> None]
  /\ stopped = {}
  /\ settled = {}

\* The events of these types come next in session s, and the oldest may go.
Tell(s, types, t) ==
  LET newest == last[s] + Len(types)
      new == {[id |-> last[s] + i, type |-> types[i], turn |-> t] : i \in DOMAIN types}
  IN /\ last' = [last EXCEPT ![s] = newest]
     /\ feed' = [feed EXCEPT ![s] = {e \in @ \cup new : e.id + MaxEvents > newest}]

Take(t, s) ==
  /\ t \notin settled
  /\ answered[s] = None
  /\ Tell(s, <<"user", "start">>, t)
  /\ answered' = [answered EXCEPT ![s] = t]
  /\ settled' = settled \cup {t}
  /\ UNCHANGED stopped

Refuse(t) ==
  /\ t \notin settled
  /\ settled' = settled \cup {t}
  /\ UNCHANGED <<feed, last, answered, stopped>>

Say(t, s) ==
  /\ answered[s] = t
  /\ s \notin stopped
  /\ Tell(s, <<"delta">>, t)
  /\ UNCHANGED <<answered, stopped, settled>>

\* A session, or several that are given up at once.
Stop(D) ==
  /\ stopped' = stopped \cup {s \in D : answered[s] # None}
  /\ UNCHANGED <<feed, last, answered, settled>>

Finish(t, s, type) ==
  /\ answered[s] = t
  /\ s \in stopped => type # "done"
  /\ Tell(s, <<type>>, t)
  /\ answered' = [answered EXCEPT ![s] = None]
  /\ stopped' = stopped \ {s}
  /\ UNCHANGED settled

Next ==
  \/ \E t \in Turns : Refuse(t)
  \/ \E t \in Turns, s \in Sessions :
       \/ Take(t, s)
       \/ Say(t, s)
       \/ \E type \in {"done", "cancelled", "error"} : Finish(t, s, type)
  \/ \E D \in SUBSET Sessions : Stop(D)

Spec == Init /\ [][Next]_conversation
=============================================================================
