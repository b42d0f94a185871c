----------------------------- MODULE UsageWidget -----------------------------
(***************************************************************************)
(* How account usage gets from the gateway to the screen: the publisher of *)
(* main.js, which asks GET /usage and writes a snapshot file every five    *)
(* seconds, and the usage widget in the client (z-usage-widget.js), which  *)
(* reads that file on a timer and for its Refresh button.                  *)
(*                                                                         *)
(* Neither timer waits for its previous run, so refreshes of the publisher *)
(* and reads of the widget overlap; one action is one stretch of           *)
(* JavaScript between two awaits.  The clock counts intervals of the       *)
(* polling timer.                                                          *)
(***************************************************************************)
EXTENDS Naturals, FiniteSets

CONSTANTS
  Ticks,        \* refreshes of the publisher that may overlap
  Polls,        \* refreshes the widget's timer may have in flight
  Clicks,       \* refreshes of its Refresh button, too
  StaleAfter,   \* STALE_MS
  Deadline,     \* how long a manual refresh waits for a newer snapshot
  MaxAccount,   \* bound: credentials the user stores, one after the other
  MaxTime       \* bound: where the clock of the model stops

ASSUME ReadersAssumption == Polls \cap Clicks = {}
ASSUME BoundsAssumption ==
  /\ {MaxAccount, MaxTime} \subseteq Nat \ {0}
  /\ {StaleAfter, Deadline} \subseteq Nat

VARIABLES
  now,     \* the clock
  up,      \* the adapter runs
  account, \* the account of the active connection
  tick,    \* the publisher's refreshes in flight
  file,    \* co-usage-session.json
  shown,   \* lastUsage of the widget
  reader,  \* the widget's refreshes in flight
  stale    \* whether the pill said "stale" when it was last drawn

adapter == <<up, account, tick>>
widget == <<shown, reader, stale>>
widgetVars == <<now, up, account, tick, file, shown, reader, stale>>

Accounts == 1 .. MaxAccount

Readers == Polls \cup Clicks

None == 0

Times == 0 .. MaxTime

(***************************************************************************)
(* What of a snapshot the widget goes by: the account whose data it holds  *)
(* (None when neither endpoint answered) and gateway.fetchedAt.            *)
(***************************************************************************)
Snapshot == [data : Accounts \cup {None}, at : Times]

NoSnapshot == [data |-> None, at |-> 0]

(***************************************************************************)
(* A refresh of the publisher, up to its last write: data is the account   *)
(* whose plan and usage are asked for, and then what came.                 *)
(***************************************************************************)
Tick == [stage : {"idle", "account", "answered"}, data : Accounts \cup {None},
         at : Times]

IdleTick == [stage |-> "idle", data |-> None, at |-> 0]

\* A refresh of the widget: before is waitForNewerThan, until its deadline.
Reader == [stage : {"idle", "fetching", "read", "checking", "waiting"},
           before : Times, until : Times, seen : Snapshot]

IdleReader == [stage |-> "idle", before |-> 0, until |-> 0, seen |-> NoSnapshot]

WidgetTypeOK ==
  /\ now \in 1 .. MaxTime
  /\ up \in BOOLEAN
  /\ account \in Accounts
  /\ tick \in [Ticks -> Tick]
  /\ file \in Snapshot
  /\ shown \in Snapshot
  /\ reader \in [Readers -> Reader]
  /\ stale \in BOOLEAN

WidgetInit ==
  /\ now = 1
  /\ up = TRUE
  /\ account = 1
  /\ tick = [i \in Ticks |-> IdleTick]
  /\ file = NoSnapshot
  /\ shown = NoSnapshot
  /\ reader = [r \in Readers |-> IdleReader]
  /\ stale = FALSE

-----------------------------------------------------------------------------
\* The adapter.

\* ensureConnectionScope() notices another credential (ConnectionScope has the
\* delay with which it does).
ChangeAccount ==
  /\ up
  /\ account < MaxAccount
  /\ account' = account + 1
  /\ UNCHANGED <<now, up, tick, file, widget>>

AskAsFirstAccount(i) ==
  /\ up
  /\ tick[i].stage = "idle"
  /\ tick' = [tick EXCEPT ![i].stage = "account", ![i].data = 1]
  /\ UNCHANGED <<now, up, account, file, widget>>

\* refreshWidget() asks /usage, which asks the gateway for plan and usage.
TakeSnapshot(i) ==
  /\ up
  /\ tick[i].stage = "idle"
  /\ tick' = [tick EXCEPT ![i].stage = "account", ![i].data = account]
  /\ UNCHANGED <<now, up, account, file, widget>>

\* Plan and usage have come, failed, or run into usageTimeoutMs; the answer is
\* dated and serialised.
AccountAnswers(i, ok) ==
  /\ tick[i].stage = "account"
  /\ tick' = [tick EXCEPT ![i].stage = "answered", ![i].at = now,
                          ![i].data = IF ok THEN @ ELSE None]
  /\ UNCHANGED <<now, up, account, file, widget>>

\* Both local answers are there: writeSnapshot() replaces the file.
Publish(i) ==
  /\ tick[i].stage = "answered"
  /\ file' = [data |-> tick[i].data, at |-> tick[i].at]
  /\ tick' = [tick EXCEPT ![i] = IdleTick]
  /\ UNCHANGED <<now, up, account, widget>>

\* /v1/models fails or the file cannot be replaced: the old snapshot stays.
PublishFails(i) ==
  /\ tick[i].stage = "answered"
  /\ tick' = [tick EXCEPT ![i] = IdleTick]
  /\ UNCHANGED <<now, up, account, file, widget>>

\* The adapter ends; the bound leaves time for its last snapshot to go stale.
Stop ==
  /\ up
  /\ now + StaleAfter < MaxTime
  /\ up' = FALSE
  /\ tick' = [i \in Ticks |-> IdleTick]
  /\ UNCHANGED <<now, account, file, widget>>

Restart ==
  /\ ~up
  /\ up' = TRUE
  /\ UNCHANGED <<now, account, tick, file, widget>>

-----------------------------------------------------------------------------
\* The widget.

IsStale(snapshot) == snapshot.data # None /\ now - snapshot.at > StaleAfter

StartReadWithDeadline(r, before) ==
  /\ reader[r].stage = "idle"
  /\ reader' = [reader EXCEPT ![r] = [IdleReader EXCEPT
                  !.stage = "fetching", !.before = before, !.until = now + Deadline]]
  /\ UNCHANGED <<now, adapter, file, shown, stale>>

StartRead(r, before) ==
  /\ reader[r].stage = "idle"
  /\ reader' = [reader EXCEPT ![r] = [IdleReader EXCEPT
                  !.stage = "fetching", !.before = before,
                  !.until = IF before = 0 THEN 0 ELSE now + Deadline]]
  /\ UNCHANGED <<now, adapter, file, shown, stale>>

\* setInterval(refresh, POLL_MS).
Poll(r) == r \in Polls /\ StartRead(r, 0)

(***************************************************************************)
(* The Refresh button.  Any redrawing enables it again, so clicks can      *)
(* overlap; without a fetchedAt to compare it is a poll.                   *)
(***************************************************************************)
Click(r) ==
  /\ r \in Clicks
  /\ shown.at > 0
  /\ now + Deadline <= MaxTime
  /\ StartRead(r, shown.at)

\* The asset server answers with the file of this moment.
FileServed(r) ==
  /\ reader[r].stage = "fetching"
  /\ file # NoSnapshot
  /\ reader' = [reader EXCEPT ![r].stage = "read", ![r].seen = file]
  /\ UNCHANGED <<now, adapter, file, shown, stale>>

\* No file yet, or no answer: readSnapshots() keeps the last good snapshot.
ReadFails(r) ==
  /\ reader[r].stage = "fetching"
  /\ reader' = [reader EXCEPT ![r].stage = "checking"]
  /\ UNCHANGED <<now, adapter, file, shown, stale>>

\* lastUsage is assigned, and the models file is still being parsed.
Show(r) ==
  /\ reader[r].stage = "read"
  /\ shown' = reader[r].seen
  /\ reader' = [reader EXCEPT ![r].stage = "checking", ![r].seen = NoSnapshot]
  /\ UNCHANGED <<now, adapter, file, stale>>

Newer(r) == reader[r].before = 0 \/ shown.at > reader[r].before

RedrawWhenAsked(r) ==
  /\ stale' = IF reader[r].before = 0 THEN stale ELSE IsStale(shown)
  /\ reader' = [reader EXCEPT ![r] = IdleReader]
  /\ UNCHANGED <<now, adapter, file, shown>>

\* The tail of refresh(): render().
Finish(r) ==
  /\ stale' = IsStale(shown)
  /\ reader' = [reader EXCEPT ![r] = IdleReader]
  /\ UNCHANGED <<now, adapter, file, shown>>

\* A poll ends here, and a manual refresh with "Gateway refreshed at".
FoundNewer(r) == reader[r].stage = "checking" /\ Newer(r) /\ Finish(r)

\* Not newer: try again in 750 ms, which may be past the deadline.
Wait(r) ==
  /\ reader[r].stage = "checking"
  /\ ~Newer(r)
  /\ reader' = [reader EXCEPT ![r].stage = "waiting"]
  /\ UNCHANGED <<now, adapter, file, shown, stale>>

TryForEver(r) ==
  /\ reader[r].stage = "waiting"
  /\ reader' = [reader EXCEPT ![r].stage = "fetching"]
  /\ UNCHANGED <<now, adapter, file, shown, stale>>

TryAgain(r) ==
  /\ reader[r].stage = "waiting"
  /\ now < reader[r].until
  /\ reader' = [reader EXCEPT ![r].stage = "fetching"]
  /\ UNCHANGED <<now, adapter, file, shown, stale>>

\* "Refresh failed: the live gateway snapshot did not advance."
GiveUp(r) ==
  /\ reader[r].stage = "waiting"
  /\ now >= reader[r].until
  /\ Finish(r)

\* The panel is opened or closed, or another model was selected.
Redraw ==
  /\ stale' = IsStale(shown)
  /\ UNCHANGED <<now, adapter, file, shown, reader>>

-----------------------------------------------------------------------------
Pass ==
  /\ now < MaxTime
  /\ now' = now + 1
  /\ UNCHANGED <<adapter, file, widget>>

TickStep(i) ==
  \/ TakeSnapshot(i)
  \/ \E ok \in BOOLEAN : AccountAnswers(i, ok)
  \/ Publish(i)
  \/ PublishFails(i)

ReaderStep(r) ==
  \/ Poll(r)
  \/ Click(r)
  \/ FileServed(r)
  \/ ReadFails(r)
  \/ Show(r)
  \/ FoundNewer(r)
  \/ Wait(r)
  \/ TryAgain(r)
  \/ GiveUp(r)

WidgetNext ==
  \/ ChangeAccount
  \/ \E i \in Ticks : TickStep(i)
  \/ \E r \in Readers : ReaderStep(r)
  \/ Redraw
  \/ Stop \/ Restart
  \/ Pass

WidgetSpec == WidgetInit /\ [][WidgetNext]_widgetVars

(***************************************************************************)
(* The timers keep firing (setInterval), every fetch ends because both     *)
(* upstream calls carry a timeout and the others stay in the machine, and  *)
(* time passes.  A file that could not be replaced or read once can be     *)
(* replaced or read another time.  Nobody has to press Refresh, store a    *)
(* credential, send a message or start the adapter again.                  *)
(***************************************************************************)
Fairness ==
  /\ WF_widgetVars(Pass)
  /\ \A i \in Ticks : WF_widgetVars(TickStep(i))
  /\ SF_widgetVars(\E i \in Ticks : Publish(i))
  /\ \A r \in Readers : WF_widgetVars(ReaderStep(r))
  /\ SF_widgetVars(\E r \in Polls : FileServed(r))

FairSpec == WidgetSpec /\ Fairness

-----------------------------------------------------------------------------
\* Properties.

(***************************************************************************)
(* After the last rotation the data of an earlier account leaves the       *)
(* screen for good, although refreshes of the publisher and reads of the   *)
(* widget that began before it may still finish after newer ones, unless   *)
(* the adapter stays down (CHANGELOG.md:7).                                *)
(***************************************************************************)
OldAccountLeavesScreen == <>[](up => shown.data \in {None, account})

(***************************************************************************)
(* Account data of an adapter that is gone does not stay on the screen as  *)
(* if it were current: the pill comes to say "stale" and keeps saying it   *)
(* (render() of z-usage-widget.js, whichever of its overlapping reads      *)
(* draws last).                                                            *)
(***************************************************************************)
DeadAdapterIsSeen == <>[](~up /\ shown.data # None => stale)

(***************************************************************************)
(* The Refresh button never spins for ever: a manual refresh ends and      *)
(* redraws, whether or not anything newer is published (the deadline in    *)
(* refresh()).                                                             *)
(***************************************************************************)
RefreshEnds ==
  \A r \in Readers : reader[r].before > 0 ~> reader[r].before = 0
=============================================================================
