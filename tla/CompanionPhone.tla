--------------------------- MODULE CompanionPhone ---------------------------
(***************************************************************************)
(* The Remote Companion seen from the phone: the page of ui.js composed    *)
(* with the server of CompanionSession over a network that may break.  The *)
(* page POSTs messages, follows an EventSource, and repairs every gap or   *)
(* broken connection by reading the whole session again.                   *)
(*                                                                         *)
(* Requests of the page and their answers travel independently; only the   *)
(* events of one EventSource stay in order.                                *)
(***************************************************************************)
EXTENDS CompanionSession, FiniteSetsExt

CONSTANTS
  Fetches,       \* bound: snapshots being fetched at once
  MaxOutages,    \* bound: broken connections, lost answers, offline periods
  MaxRequests,   \* bound: messages and new chats together
  ResumesCross   \* may a resume of one chat be under way while another is opened?

ASSUME PhoneAssumption ==
  /\ Sessions # {}
  /\ MaxEvents > 1
  /\ MaxOutages \in Nat
  /\ MaxRequests \in Nat
  /\ ResumesCross \in BOOLEAN

VARIABLES
  chat,       \* sessionId
  screen,     \* the events applied since clearConversation()
  waiting,    \* busy, as the page believes it
  timer,      \* reconnectTimer is set
  online,     \* navigator.onLine
  source,     \* the EventSource
  wire,       \* events written to it and not yet dispatched
  fetch,      \* the snapshots resumeSession() is fetching
  reply,      \* the POSTs of messages, as the page sees them
  newborn,    \* a session created for "New chat" whose id is on its way
  outages,    \* how many times the network has failed
  drawn       \* history: a snapshot has been drawn since the chat was opened

page == <<chat, screen, waiting, timer, drawn>>
network == <<online, source, wire, outages>>
phoneVars == <<page, network, fetch, reply, newborn>>

Source == [stage : {"closed", "asked", "open"}, session : Sessions \cup {None}, after : Nat]

ClosedSource == [stage |-> "closed", session |-> None, after |-> 0]

\* retry: asked for by the reconnect timer, whose failure sets the timer again.
Fetch == [stage : {"idle", "asked", "answered", "missing"}, session : Sessions \cup {None},
          retry : BOOLEAN, events : Seq(Event), busy : BOOLEAN]

IdleFetch == [stage |-> "idle", session |-> None, retry |-> FALSE, events |-> <<>>,
              busy |-> FALSE]

Reply == [stage : {"unused", "sent", "posted", "accepted", "refused", "heard"},
          session : Sessions \cup {None}]

PhoneTypeOK ==
  /\ TypeOK
  /\ chat \in Sessions
  /\ screen \in Seq(Event)
  /\ waiting \in BOOLEAN
  /\ timer \in BOOLEAN
  /\ online \in BOOLEAN
  /\ source \in Source
  /\ wire \in Seq(Event)
  /\ fetch \in [Fetches -> Fetch]
  /\ reply \in [Turns -> Reply]
  /\ newborn \in Sessions \cup {None}
  /\ outages \in 0..MaxOutages
  /\ drawn \in BOOLEAN

\* Names that do not matter are chosen once, which keeps the instances small.
AnyOf(S) == CHOOSE x \in S : TRUE

\* The page has booted: its session is new and drawn, and it is about to subscribe.
PhoneInit ==
  /\ NoMessages
  /\ chat = AnyOf(Sessions)
  /\ created = {chat}
  /\ rank = [s \in Sessions |-> IF s = chat THEN 1 ELSE 0]
  /\ screen = <<>>
  /\ waiting = FALSE
  /\ timer = FALSE
  /\ online = TRUE
  /\ source = [stage |-> "asked", session |-> chat, after |-> 0]
  /\ wire = <<>>
  /\ fetch = [f \in Fetches |-> IdleFetch]
  /\ reply = [t \in Turns |-> [stage |-> "unused", session |-> None]]
  /\ newborn = None
  /\ outages = 0
  /\ drawn = TRUE

-----------------------------------------------------------------------------
\* The page.

\* cursor: the highest event id applied, reset by clearConversation().
Cursor(events) == Max({0} \cup {events[i].id : i \in DOMAIN events})

DropTheGap == UNCHANGED timer

\* scheduleReconnect(): nothing while the timer is set or the phone offline.
ScheduleReconnect == timer' = (timer \/ online)

\* applyEvent()
Apply(e) ==
  /\ screen' = Append(screen, e)
  /\ waiting' = (e.type = "start" \/ (waiting /\ e.type \notin Terminal))

ForgetSource ==
  /\ source' = None
  /\ wire' = <<>>
  /\ ScheduleReconnect

\* The error handler of the EventSource.
HangUp ==
  /\ source' = ClosedSource
  /\ wire' = <<>>
  /\ ScheduleReconnect

\* Nothing is on its way between the page and the server.
Quiet ==
  /\ source.stage = "open" /\ source.session = chat /\ chat \in Open
  /\ wire = <<>> /\ online /\ ~timer /\ newborn = None
  /\ \A f \in Fetches : fetch[f].stage = "idle"
  /\ \A t \in Turns : reply[t].stage \in {"unused", "heard"}

UnusedTurns == {t \in Turns : reply[t].stage = "unused"}

IdleFetches == {f \in Fetches : fetch[f].stage = "idle"}

Requests == Cardinality(Turns \ UnusedTurns) + Cardinality(created) - 1

\* The page submits a message: the Send button is enabled unless waiting.
Send(t) ==
  /\ UnusedTurns # {}
  /\ t = AnyOf(UnusedTurns)
  /\ Requests < MaxRequests
  /\ ~waiting
  /\ reply' = [reply EXCEPT ![t] = [stage |-> "sent", session |-> chat]]
  /\ UNCHANGED <<vars, page, network, fetch, newborn>>

HearReply(t) ==
  /\ reply[t].stage \in {"accepted", "refused"}
  /\ waiting' = (waiting \/ reply[t].stage = "accepted")
  /\ reply' = [reply EXCEPT ![t].stage = "heard"]
  /\ UNCHANGED <<vars, chat, screen, timer, drawn, network, fetch, newborn>>

\* The companion listener of the EventSource.
Dispatch ==
  /\ source.stage = "open"
  /\ wire # <<>>
  /\ IF Head(wire).id > Cursor(screen) + 1
     THEN ScheduleReconnect /\ UNCHANGED <<screen, waiting>>
     ELSE Apply(Head(wire)) /\ UNCHANGED timer
  /\ wire' = Tail(wire)
  /\ UNCHANGED <<vars, chat, drawn, online, source, outages, fetch, reply, newborn>>

\* resumeSession() up to its request.
AskSnapshot(s, retry) ==
  /\ IdleFetches # {}
  /\ fetch' = [fetch EXCEPT ![AnyOf(IdleFetches)] =
       [stage |-> "asked", session |-> s, retry |-> retry, events |-> <<>>, busy |-> FALSE]]

(***************************************************************************)
(* The callback of the timer.  Unless resumes cross, the id of a new chat  *)
(* is there before the delay of the timer, 700 ms at least, has passed.    *)
(***************************************************************************)
TimerFires ==
  /\ timer
  /\ ResumesCross \/ newborn = None
  /\ timer' = FALSE
  /\ AskSnapshot(chat, TRUE)
  /\ UNCHANGED <<vars, chat, screen, waiting, drawn, network, reply, newborn>>

ResubscribeFromStart(events) ==
  source' = [stage |-> "asked", session |-> chat, after |-> 0]

\* resumeSession() once the snapshot is there: rebuild the conversation, then
\* subscribe after its last event, in the session that is current by now.
Resubscribe(events) ==
  source' = [stage |-> "asked", session |-> chat, after |-> Cursor(events)]

SnapshotArrives(f) ==
  /\ fetch[f].stage = "answered"
  /\ screen' = fetch[f].events
  /\ drawn' = TRUE
  /\ waiting' = fetch[f].busy
  /\ Resubscribe(fetch[f].events)
  /\ wire' = <<>>
  /\ fetch' = [fetch EXCEPT ![f] = IdleFetch]
  /\ UNCHANGED <<vars, chat, timer, online, outages, reply, newborn>>

\* A snapshot that cannot be had: only the timer's own attempt is repeated, and
\* the first one of a new chat is not.
FetchFails(f) ==
  /\ fetch' = [fetch EXCEPT ![f] = IdleFetch]
  /\ timer' = (timer \/ (fetch[f].retry /\ online))

SnapshotMissing(f) ==
  /\ fetch[f].stage = "missing"
  /\ FetchFails(f)
  /\ UNCHANGED <<vars, chat, screen, waiting, drawn, network, reply, newborn>>

\* The answer to "New chat": ensureSession(true) up to its resumeSession().  The
\* EventSource of the old chat stays.
NewChatOpens ==
  /\ newborn # None
  /\ chat' = newborn
  /\ screen' = <<>>
  /\ drawn' = FALSE
  /\ newborn' = None
  /\ AskSnapshot(newborn, FALSE)
  /\ UNCHANGED <<vars, waiting, timer, network, reply>>

-----------------------------------------------------------------------------
\* Requests that reach the server, and what the server does by itself.

PostReaches(t) ==
  LET s == reply[t].session IN
  /\ reply[t].stage = "sent"
  /\ \/ /\ PostMessage(t, s)
        /\ reply' = [reply EXCEPT ![t].stage = "posted"]
     \/ /\ RefuseMessage(s) \/ (s \notin Open /\ UNCHANGED vars)
        /\ reply' = [reply EXCEPT ![t].stage = "refused"]
  /\ UNCHANGED <<page, network, fetch, newborn>>

\* What push() writes to the subscriber, unless its response has ended.
Relay ==
  wire' = IF source.stage = "open" /\ source.session \in Open
          THEN LET s == source.session IN wire \o LastOf(log'[s], next'[s] - next[s])
          ELSE wire

\* The answer to a POST, which the page may have given up on.
Answer(t, stage) ==
  reply' = [reply EXCEPT ![t].stage = IF @ = "posted" THEN stage ELSE @]

BodyEnds(t) ==
  /\ \/ BodyArrives(t) /\ Answer(t, "accepted")
     \/ BodyRefused(t) /\ Answer(t, "refused")
  /\ Relay
  /\ UNCHANGED <<page, online, source, outages, fetch, newborn>>

Stream(t) ==
  /\ Delta(t) \/ Done(t) \/ Fails(t) \/ Cancelled(t)
  /\ Relay
  /\ UNCHANGED <<page, online, source, outages, fetch, reply, newborn>>

\* openEvents(): the events after the cursor, then those pushed from now on.
\* Their ids ascend, so that the ones to leave out come first.
ReplayAll(events, after) == events

Replay(events, after) ==
  SubSeq(events, Cardinality({i \in DOMAIN events : events[i].id <= after}) + 1, Len(events))

Subscribe ==
  /\ source.stage = "asked"
  /\ Visit(source.session)
  /\ source' = [source EXCEPT !.stage = "open"]
  /\ wire' = Replay(log[source.session], source.after)
  /\ UNCHANGED <<page, online, outages, fetch, reply, newborn>>

\* 404, or the end of the response after what was written before it.
SourceEnds ==
  /\ source.stage # "closed"
  /\ source.session \notin Open
  /\ wire = <<>>
  /\ HangUp
  /\ UNCHANGED <<vars, chat, screen, waiting, drawn, online, outages, fetch, reply, newborn>>

TakeSnapshot(f) ==
  LET s == fetch[f].session IN
  /\ fetch[f].stage = "asked"
  /\ \/ /\ Visit(s)
        /\ fetch' = [fetch EXCEPT ![f].stage = "answered", ![f].events = log[s],
                                  ![f].busy = busy[s]]
     \/ /\ s \notin Open
        /\ fetch' = [fetch EXCEPT ![f].stage = "missing"]
        /\ UNCHANGED vars
  /\ UNCHANGED <<page, network, reply, newborn>>

\* "Stop", whose request may arrive when the answer has already ended.
Stop ==
  /\ waiting \/ \E i \in DOMAIN screen : screen[i].type \in Terminal
  /\ CancelMessage(chat)
  /\ UNCHANGED phoneVars

AskNewChat(s) ==
  /\ Requests < MaxRequests
  /\ ~waiting
  /\ newborn = None
  /\ ResumesCross \/ IdleFetches = Fetches
  /\ CreateSession(s)
  /\ newborn' = s
  /\ UNCHANGED <<page, network, fetch, reply>>

Expire == Prune /\ UNCHANGED phoneVars

-----------------------------------------------------------------------------
\* The network.

Fault ==
  /\ outages < MaxOutages
  /\ outages' = outages + 1
  /\ UNCHANGED <<vars, chat, screen, waiting, drawn>>

BreakSource ==
  /\ Fault
  /\ source.stage # "closed"
  /\ HangUp
  /\ UNCHANGED <<online, fetch, reply, newborn>>

LoseSnapshot(f) ==
  /\ Fault
  /\ fetch[f].stage # "idle"
  /\ FetchFails(f)
  /\ UNCHANGED <<online, source, wire, reply, newborn>>

\* A POST or its answer is lost: the page shows an error.
LoseReply(t) ==
  /\ Fault
  /\ reply[t].stage \notin {"unused", "heard"}
  /\ reply' = [reply EXCEPT ![t].stage = "heard"]
  /\ UNCHANGED <<timer, online, source, wire, fetch, newborn>>

\* The answer to "New chat" is lost: nobody learns of the new session.
LoseNewChat ==
  /\ Fault
  /\ newborn # None
  /\ newborn' = None
  /\ UNCHANGED <<timer, online, source, wire, fetch, reply>>

GoOffline ==
  /\ Fault
  /\ online
  /\ online' = FALSE
  /\ UNCHANGED <<timer, source, wire, fetch, reply, newborn>>

\* The online event: scheduleReconnect(250).
GoOnline ==
  /\ ~online
  /\ online' = TRUE
  /\ timer' = TRUE
  /\ UNCHANGED <<vars, chat, screen, waiting, drawn, source, wire, outages, fetch, reply,
                 newborn>>

PageStep ==
  \/ \E t \in Turns : Send(t) \/ HearReply(t)
  \/ \E f \in Fetches : SnapshotArrives(f) \/ SnapshotMissing(f)
  \/ Dispatch
  \/ TimerFires
  \/ NewChatOpens

ServerStep ==
  \/ \E t \in Turns : PostReaches(t) \/ BodyEnds(t) \/ Stream(t)
  \/ \E f \in Fetches : TakeSnapshot(f)
  \/ Subscribe
  \/ SourceEnds
  \/ Stop
  \/ \E s \in Sessions : AskNewChat(s)
  \/ Expire

NetworkStep ==
  \/ \E f \in Fetches : LoseSnapshot(f)
  \/ \E t \in Turns : LoseReply(t)
  \/ LoseNewChat
  \/ BreakSource
  \/ GoOffline
  \/ GoOnline

PhoneNext == PageStep \/ ServerStep \/ NetworkStep

PhoneSpec == PhoneInit /\ [][PhoneNext]_<<vars, phoneVars>>

(***************************************************************************)
(* Requests that are not lost arrive and are answered, timers fire, what   *)
(* was written is dispatched, and a phone gets back online.  Nothing is    *)
(* assumed of the user, of the gateway or of the pruning clock.            *)
(***************************************************************************)
PhoneFairness ==
  /\ WF_<<vars, phoneVars>>(Dispatch)
  /\ WF_<<vars, phoneVars>>(TimerFires)
  /\ WF_<<vars, phoneVars>>(Subscribe)
  /\ WF_<<vars, phoneVars>>(SourceEnds)
  /\ WF_<<vars, phoneVars>>(GoOnline)
  /\ WF_<<vars, phoneVars>>(NewChatOpens)
  /\ \A f \in Fetches :
       /\ WF_<<vars, phoneVars>>(TakeSnapshot(f))
       /\ WF_<<vars, phoneVars>>(SnapshotArrives(f))
       /\ WF_<<vars, phoneVars>>(SnapshotMissing(f))
  /\ \A t \in Turns : WF_<<vars, phoneVars>>(HearReply(t))

FairPhoneSpec == PhoneSpec /\ PhoneFairness

-----------------------------------------------------------------------------
\* Properties.

(***************************************************************************)
(* What is on the screen is one unbroken run of events: none is missing in *)
(* between or shown twice, although snapshots, subscriptions and trimming  *)
(* of the log overlap; and once a chat has been drawn from a snapshot, it  *)
(* is a run of that chat (the gap test of the companion listener and       *)
(* resumeSession in ui.js).                                                *)
(***************************************************************************)
ScreenIsOneRun ==
  \A i \in 1..Len(screen) :
    /\ screen[i].id = screen[1].id + i - 1
    /\ chat \in Open /\ drawn => turn[screen[i].turn].session = chat

(***************************************************************************)
(* With nothing in flight the page has applied the last event of its       *)
(* session and, while a response streams, offers Stop: no gap, outage or   *)
(* overlapping resume of a page that listens to its chat goes unrepaired   *)
(* with nothing left to repair it (cursor and busy of ui.js against        *)
(* nextEventId and session.busy).  The converse does not hold: a 202 heard *)
(* after its answer has ended leaves the page with a Stop button until its *)
(* next resume.                                                            *)
(***************************************************************************)
QuietPageIsCurrent ==
  Quiet => Cursor(screen) = next[chat] - 1 /\ (busy[chat] => waiting)

(***************************************************************************)
(* A new chat shows nothing of the old one once nothing is in flight:      *)
(* docs/REMOTE-COMPANION.md:49 says that creating a new chat starts a new  *)
(* in-memory conversation.                                                 *)
(***************************************************************************)
NewChatShowsNoOther ==
  Quiet => \A i \in 1..Len(screen) : turn[screen[i].turn].session = chat

\* The chat is new and not drawn, and nothing is under way that would draw it:
\* its first snapshot was lost, which ensureSession(true) reports to nobody.
Abandoned == ~drawn /\ ~timer /\ IdleFetches = Fetches

(***************************************************************************)
(* The page catches up: while its session exists and the network fails     *)
(* finitely often, it keeps coming back to having applied the last event   *)
(* (scheduleReconnect, resumeSession; docs/REMOTE-COMPANION.md, "Reconnect *)
(* behavior").  Two pages are excepted, and the two properties below show  *)
(* that they exist: that of a new chat whose first snapshot was lost, as   *)
(* long as the connection of the old chat lasts, and that of a session     *)
(* that has expired.                                                       *)
(***************************************************************************)
PageCatchesUp == []<>(chat \in Open /\ ~Abandoned => Cursor(screen) = next[chat] - 1)

(***************************************************************************)
(* docs/REMOTE-COMPANION.md:47 of a phone that loses connectivity: "On     *)
(* reconnect, the browser first rebuilds the conversation".  A lost first  *)
(* snapshot of a new chat is not asked for again.                          *)
(***************************************************************************)
NewChatIsDrawn == ~Abandoned

(***************************************************************************)
(* docs/REMOTE-COMPANION.md:49: session expiration "starts a new in-memory *)
(* conversation".  The page goes on asking for the session that is gone.   *)
(***************************************************************************)
ExpiredPageStartsAnew == []<>(chat \in Open)
=============================================================================
