# Claude Open: TLA+ specifications and proofs

TLA+ modules of the parts of Claude Open in which order, concurrency and failure
matter, the TLC configurations that check them, and TLAPS proofs of the results that
matter most. Paths below are relative to the repository root.

## 1. The system

Claude Open lets a separately installed Claude client talk to a gateway of the
user's choice. A Windows **launcher** (`apps/launcher/ClaudeOpen.cs`) starts a Node
**adapter** (`apps/adapter-server`) on a loopback port, writes a configuration profile
for the client and starts the client in it. The adapter answers the Anthropic API and
forwards to the gateway with the credential it reads from Windows Credential Manager.
The optional **Remote Companion** (`apps/remote-companion`) is a second loopback
server in the adapter's process: a phone's browser talks to it, and it talks to the
adapter like any other client.

| Component | State it keeps | Operations | Interaction | Hard behaviour |
|---|---|---|---|---|
| Connection scope (`server.js`) | active fingerprint, catalog cache, probe cache, usage telemetry | `ensureConnectionScope`, `getCatalog`, `recordUsage`, HTTP routes | reads the secret store in every handler; calls the gateway | handlers are suspended at awaits while another handler notices a rotated credential |
| Secret store | cached secret, time of reading | `current`, `fingerprint`, `refresh` | PowerShell/Credential Manager | a stale secret within the TTL |
| Catalog cache | models, etag, fetchedAt, stale | `recordFresh`, `recordNotModified`, `recordFailure`, `serve`, `clear` | `getCatalog` | TTL, 304, last-known-good after failures |
| Alias map | alias to real id, both ways, on disk | `aliasFor`, `realFor`, load/persist | catalog normalisation, message routing | collisions, order of first sight, lost file |
| Effort / conformance store | probe results, preferences, on disk | `record`, `enforce`, `mapThinkingToUpstream` | probe route, `/v1/messages` | a preference outlives its probe |
| Stream translation | open blocks, tool accumulator | `translateChatStream`, `translateResponsesStream` | gateway SSE to client SSE | block order, errors in mid-stream |
| Router, retry, health | none | `resolveRoute`, `fetchWithRetry`, `runHealthChecks` | message handler | bounded retry, precedence |
| Usage telemetry | per-model totals | `record`, `snapshot` | adapter, widget | charged at the end of a response |
| Adapter startup (`main.js`) | runtime.json, the published usage snapshot | listen, warm-up, companion start, `refreshWidget` | launcher polls the file, widget polls the snapshot | port fallback, late start, overlapping refreshes |
| Usage widget (`z-usage-widget.js`) | `lastUsage`, what the pill says | poll, Refresh, redraw | reads the published snapshot | reads that overlap, a snapshot that stops coming |
| Companion server | sessions, events, history, busy, controller, subscribers, devices | pair, create, message, cancel, snapshot, events, prune | page, adapter | awaits, eviction, aborts, log trimming |
| Companion page (`ui.js`) | sessionId, cursor, busy, timer, EventSource | submit, stop, new chat, resume, reconnect | companion server | outages, gaps, overlapping resumes |
| Identity harness, profile writer | profile files and backups | purge, replace, rollback | launcher, installer | a failure between two file operations |
| Launcher (`ClaudeOpen.cs`) | process handles, `activePort`, `clientToken`, `stopping`, `restartAttempts` | launch, `PollReadiness`, `LaunchClaudeClient`, monitor tick, `StopProcesses` | adapter, client, runtime.json | exits at any moment, stale files, a port lost to another program |
| Installer / uninstaller | target, staging, backup directories, package registration | stage, swap, verify, register, roll back | file system, Windows packages | a failure or an end between any two operations |
| Ion patcher, package identity, build and verification scripts | - | - | - | all-or-nothing patching; the rest is maintenance |

What makes the modelled components correct:

* **Connection scope.** Whatever the adapter remembers belongs to the account it is
  working for; changing the account forgets all of it at once; a rotation is noticed;
  nobody waits for the catalog for ever.
* **Alias map.** One alias per model and one model per alias, none that the client
  hides, and an alias that was ever shown keeps its meaning over restarts.
* **Effort.** No control value goes upstream that a probe has not observed, a proven
  choice does go upstream, and enabling never turns into disabling (which the code does not keep).
* **Stream translation.** The client can rely on blocks that are open when they are written
  to and closed at the end, on order within each channel and on completeness, whatever the
  gateway interleaves.
* **Companion server.** One answer at a time per session, which `busy` and Stop really
  refer to; a log that cursors can rely on; a history equal to what was shown; bounded
  sessions. **Page.** An unbroken conversation, current whenever nothing is in flight,
  and on the way back to being current while its session lives.
* **Profile.** Settings are never lost for good, a completed run is whole, a candidate
  run that fails or dies is harmless.
* **Usage widget.** What an earlier account used leaves the screen, data of an adapter that
  is gone is marked stale, and the Refresh button always ends.
* **Launcher.** No adapter is lost sight of, nothing comes back after Stop, the client meets
  the adapter it was configured for, and one whose adapter died is served again or closed; all of
  it as far as kills succeed and the button does not start a second client.
* **Installer.** A working version is on the disk at every moment of an update, and the end
  of a run tells what is there.

The hazards behind these properties are listed in `PROJECT.json`, each at its line.

## 2. Modules

| Module | Models | Extends / composes |
|---|---|---|
| `AccountScope` | abstract promise: one account at a time | - |
| `ConnectionScope` | adapter scope, secret store, catalog cache, telemetry, request handlers | refines `AccountScope` (`Promise`) |
| `ConnectionScope_proofs` | TLAPS proofs about it | `ConnectionScope`, `TLAPS` |
| `Conversation` | abstract promise: numbered events, one answer at a time, a Stop that leaves nothing but an end | - |
| `CompanionSession` | companion server | refines `Conversation` (`Talk`) |
| `CompanionPhone` | the page and the network | composes with `CompanionSession` |
| `CompanionPhone_proofs` | TLAPS proofs about the server by itself, and about server, network and page | `CompanionPhone`, `TLAPS` |
| `AliasMap`, `AliasMap_proofs` | aliases, discovery and persistence around them; proofs | - |
| `EffortConformance`, `EffortConformance_proofs` | conformance store, preferences, effort mapping; proofs | - |
| `MessageStream` | abstract promise: the stream a client of the Messages API may rely on | - |
| `StreamTranslate`, `StreamTranslate_proofs` | both stream translators; proofs | refines `MessageStream` (`Client`) |
| `ProfileWorkspace`, `ProfileWorkspace_proofs` | file operations of the identity harness; proofs | - |
| `UsageWidget` | publisher of usage snapshots and the widget that shows them | - |
| `Launcher`, `Launcher_proofs` | launcher, start of the adapter, runtime.json, client; proofs | - |
| `Installer` | installer and uninstaller | - |
| `InstallerWidget_proofs` | TLAPS proofs about the installer, and about publisher and widget | `Installer`, `UsageWidget`, `TLAPS` |
| `MC_*` | constant values and symmetry sets for TLC | the module after the prefix |

In the adapter and the companion **one action is one stretch of JavaScript between two
awaits** (or one event of the environment), because that is where Node can interleave
handlers. What a handler still holds in local variables across an await is a record of
its own (`task`, `turn`, `fetch`, `reply`, `probe`). `ProfileWorkspace` and
`Installer` are cut at file operations instead, because their process can end there,
`StreamTranslate` at frames, and `Launcher`, whose handlers block the only thread of its
window, where a handler looks at the adapter or at runtime.json.

### ConnectionScope

| Model | Code |
|---|---|
| `stored`, `Rotate` | what `doResolve` finds: the entry in Credential Manager, else the environment's, else none |
| `held`, `live`, `Current`, `SecretTtlLapses` | `createSecretStore`: cached value and `cacheTtlMs` |
| `active`, `EnsureConnectionScope`, `Scoped`, `ScopedUsage` | `activeConnectionFingerprint`, `ensureConnectionScope` |
| `cache` | `CatalogCache`; a model list is the account that was asked for it (`account`), the details merged into it are `extra` |
| `telemetry`, `RecordUsage` | `UsageTelemetry`: the set of accounts whose tokens are in the totals |
| `task[h]` | one request: `began` is `requestConnectionFingerprint`, `asked` is `catalogConnectionFingerprint`, `cred` the secret in the headers of the outstanding call |
| `Get`, `PostMessage`, `BodyRead`, `GetCatalog`, `Discovery*`, `DetailsReturn`, `ListUnusable`, `Upstream*`, `Health` | routes and `getCatalog`, cut at their awaits |

Abstractions: the fingerprint is identified with the credential (it is a hash of it), and no
credential, whose fingerprint is `<none>`, is one of the `Accounts`;
within one stretch the secret is read once (`upstreamHeaders` reads fingerprint and
secret one statement apart; the TTL is not made to lapse between them). The probe
cache is cleared with the catalog and not shown separately. `/control/probe-effort`
and `/control/set-effort` are, for this state, messages whose answer is not counted;
the stretches of `count_tokens` and `/diagnostics` are `Health`. A message that
fails or reports no usage is `UpstreamFails`. `epoch` and `born` are history only,
used by bounds and proofs; `by` in the cache is history, used by
`VerdictOfActiveAccount` alone. Nothing states whose 304 or failure may decide the
freshness of a catalog, so `VerdictOfActiveAccount` is no promise of the code;
`ConnectionScopeVerdict.cfg` yields a trace in which the old account's does.

### CompanionSession

| Model | Code |
|---|---|
| `rank` | the map `sessions` with the order of `touchedAt`; 0 is "not in the map". A tie of timestamps is a total order chosen by the action |
| `log`, `next`, `Push` | `events`, `nextEventId`, `push` with `MAX_EVENTS` |
| `history`, `Remember` | `history`, `trimHistory`; the character limit is counted in messages |
| `busy`, `controller` | the same; a controller is named by the turn whose signal it is |
| `turn[t]` | one POST of a message: `body` while `readJson` is awaited, `streaming` while `streamFromAdapter` runs, with the length of `assistantText` and its abort signal |
| `PostMessage`, `BodyArrives`, `BodyRefused`, `Delta`, `Done`, `Fails`, `Cancelled` | `startMessage`, `streamFromAdapter`, its `catch` and `finally` |
| `CreateSession`, `Prune`, `CancelMessage`, `Visit`, `RefuseMessage` | the remaining session routes; `close()` is the case of `Prune` that takes all sessions |

A session's object outlives its place in the map, as in the code: `log`, `busy` and
the stream of a destroyed session go on changing, since `BodyArrives` and
`StreamEnds` hold the object and not the id. So a session that ends while the body of its message
is awaited leaves a stream that nobody hears and nothing aborts: `BodyArrives` does not look at
`Open`, as line 154 was the last to do so. `orphan` marks such streams (history),
`StopReachesStreams` and `StopWorks` except them, and `CompanionOrphan.cfg` yields a trace
(`NoStreamUnheard`). The `catch` and the `finally` of
`startMessage` run in consecutive microtasks and are one action. Errors of an
adapter's HTTP 200 stream are not distinguished by the code and end as `Done`.
Pairing, devices and rate limiting are not modelled.

`Talk` is what of this a client can rely on. A session's events are its feed and the last id
given out is `last`; the message being answered is the one whose controller the session has;
a session is stopped when one of its streams was; a message is settled once its body was read or
refused. Ranks, histories, subscriptions and the lengths of answers do not appear, so steps
that touch only these stutter.

### CompanionPhone

| Model | Code (`ui.js`) |
|---|---|
| `chat`, `screen`, `waiting`, `timer` | `sessionId`, the applied events (`cursor` is the highest id), `busy`, `reconnectTimer` |
| `source`, `wire` | the `EventSource` and what the server wrote to it and was not yet dispatched |
| `fetch[f]` | one running `resumeSession()`; `retry` if the timer started it |
| `reply[t]` | one message POST as the page sees it |
| `newborn` | a session made for "New chat" whose id is on its way |
| `drawn` | history: a snapshot was drawn since the chat was opened |
| `Dispatch`, `HangUp`, `ScheduleReconnect`, `TimerFires`, `SnapshotArrives`, `SnapshotMissing`, `NewChatOpens`, `Send`, `HearReply`, `GoOnline` | the listeners and functions of the page |
| `PostReaches`, `BodyEnds`, `Stream`, `Subscribe`, `TakeSnapshot`, `Stop`, `AskNewChat`, `Expire` | the actions of `CompanionSession`, with what they write to the page |
| `BreakSource`, `LoseSnapshot`, `LoseReply`, `LoseNewChat`, `GoOffline` | the network, which may fail at any moment |

Only the events of one `EventSource` are ordered; the answers of requests arrive in
any order, also after events that were sent later. The request of the
"New chat" button is merged with its arrival, and the click on Stop with its request.
A reload of the page and the pairing view are not modelled.

Two pages never catch up. One stays open over the expiry of its session and goes on
asking for it, although `docs/REMOTE-COMPANION.md:49` says that expiration starts a new
conversation (`ExpiredPageStartsAnew`, `CompanionPhoneExpired.cfg`). The other has opened a new
chat and lost its first snapshot: `ensureSession(true)` has made the chat current, lets
the failure through and sets no timer, so the chat stays undrawn until something else
starts a resume (`NewChatIsDrawn`, `CompanionPhoneLost.cfg`, against line 47 of the same
document). The model has both, and `PageCatchesUp` excuses exactly these: a page
whose session is gone, and one that is `Abandoned`.

### AliasMap

| Model | Code |
|---|---|
| `realToAlias`, `aliasToReal`, `Bind` | the two maps of `AliasMap` and `_bind` |
| `Derive`, `Free`, `AliasFor` | `deriveAlias` with its nonce, the collision and denied-token tests of `aliasFor` |
| `aliasFile`, `Saved`, `Restored` | `toJSON`/`fromJSON`, `persistAliases`; a torn file reads as no file |
| `listed`, `unnamed`, `StartDiscovery`, `NameModel`, `DropDiscovery`, `FinishDiscovery` | `getCatalog` with `normalizeCatalog`: each listed model is named, then the map is saved and the list shown |
| `NameByMessage` | `/v1/messages` naming a model without saving |
| `Restart`, `Dies` | a new process; a death in the middle |
| `shown`, `forgotten` | history: pairs ever given to a client; whether a restart came up without one of them |

`Derive` is any function that leaves each model some clean alias of its own, so nothing
rests on the quality of the hash; the salt does not change over restarts. Models that keep
their own id are left out. Names given one after the other in one synchronous loop are
steps of their own because the process may die between them; nothing else happens then.

### EffortConformance

| Model | Code |
|---|---|
| `store`, `storeFile`, `Record` | `ConformanceStore`: results by value, in the order first probed (a `Map` keeps a key's place), and the file |
| `probe[p]`, `StartProbe`, `ProbeEnds` | `/control/probe-effort` and its await; what `probe.js` concludes is any result |
| `choice`, `SetEffort`, `ClearEffort` | `effortPreferences` and `/control/set-effort` |
| `Proven`, `Leading` | `enforce()` and `isEnabled()`; `values[0]` of the enforced control |
| `WithChoice`, `WithValue` | `applyEffortPreference`, `applyVerifiedEffortValue` |
| `Positive`, `Negative`, `Wanted`, `Mapped`, `Native`, `Sent` | `mapThinkingToUpstream`, and what each route sends |
| `latest`, `reverted` | history: the true result of the last probe; whether a restart read older records |

There is one control per model, of one gateway and registry version: the rest of the
store's key only separates records. The companion's per-request effort goes through
the same `applyVerifiedEffortValue` and is the case of a choice. One oddity of the code
is a named exception of `ChosenEffortIsSent`: a boolean control with "disabled" as its only
proven value is accepted by `set-effort` and then not sent. Another is no exception but a
violation: once both values of a boolean control are proven, whichever was **probed first** is
taken for "enabled", so probing "disabled" first inverts thinking, against
`packages/gateway-adapter/test/effort.test.js:21-29`, whose control has the other
order. `ThinkingKeepsItsSense` says what the test expects, and `EffortSense.cfg` yields the
trace. `NothingUnprovenIsSent` compares with the result that was recorded last, whichever of
two overlapping probes began last, and holds up to a restart that reads older records. A boolean
control on the native route, possible only by a hand-written override, is excluded
(`BooleanAssumption`), as is an override without a `field`, which is not enforced at all.

### StreamTranslate

| Model | Code |
|---|---|
| `lines`, `ReadLine`, `GatewayEnds`, `GatewayEndsInLine`, `GatewayBreaks` | `SseLineParser.push` over the body; its end, its end in a line without newline, its failure |
| `todo` | what the loop over one parsed event has still to emit |
| `textOpen`, `textIndex`, `nextBlock`, `toolBlock` | the translator's variables; `toolBlock` is `toolBlockIndex` and stands for the accumulator's map, whose keys are the same |
| `blocks`, `end` | what the client was told |
| `OpenText`, `SendText`, `CloseText`, `StartTool`, `SendArguments`, `StopTool`, `Finish`, `SendError` | the frames |
| `sent`, `dropped` | history: pieces of the gateway per channel; a last line was dropped |

One module has both dialects, chosen at the start; the responses dialect has one text
block and knows no function calls, so a call of the gateway vanishes from a streamed
answer (`Translated` names what is promised). `ping`, `message_delta` and the usage
charged before `message_stop` have no state here and belong to `Begin` and `Finish`; what
the charge does to the totals is in `ConnectionScope`. A line that does not parse is a
line without pieces. The native route copies bytes and is not modelled.

`MessageStream` is what the frames do keep: no block starts inside an open text block, a tool call
is one block, a closed block is not written to, and a completed stream leaves none open. It is
weaker than the order at the head of `stream.js` (lines 5-7: start, deltas, stop, then the
next): tool calls stay open until the end, so blocks of several calls, or of a call and a later
text, are open together, and an error leaves them open. `OneOpenBlock` states that order, and
`StreamOrder.cfg` yields a trace that breaks it.

### ProfileWorkspace

| Model | Code (`identity-harness/src/index.js`) |
|---|---|
| `run`, `production`, `stage` | one process of `createCandidateWorkspace`/`createProductionWorkspace`; `configurationId` is the run's number, fresh because only tests supply one |
| `Begin`, `PurgeFile` | `purgeConfigLibrary` over the names that `readdir` gave |
| `BackUp`, `PriorUnreadable` | reading and backing up the originals; torn preferences make `JSON.parse` throw |
| `Replace`, `ReplaceFails`, `Restore`, `RestoreBreaks`, `RollbackEnds` | the guarded loop over three targets, and its rollback |
| `WriteManifest` | the manifest, last |
| `Stops` | the process is killed, or an operation outside the guarded loop throws |
| `ClientSaves` | the client, launched only after a run that succeeded |
| `before`, `saved` | history: the profile when the run began; settings ever saved |

A temporary file and its rename are one step, and temporary files left behind are not part
of the profile. Replacement of preferences in the rollback is in place, without a rename,
so it can be torn (`RestoreBreaks`); from then on every launch throws at
`PriorUnreadable` before its first write, and the settings live in a backup only. The
backup of `_meta.json` is left out because the last target is never rolled back, and
`failAfterReplace` because only tests set it.

### UsageWidget

| Model | Code |
|---|---|
| `account`, `ChangeAccount` | the active connection, of which `ConnectionScope` has the detail |
| `tick[i]`, `TakeSnapshot`, `AccountAnswers`, `Publish`, `PublishFails` | one `refreshWidget()` of `main.js` with the `GET /usage` it makes |
| `file` | `co-usage-session.json`, replaced by a rename |
| `reader[r]`, `Poll`, `Click`, `FileServed`, `ReadFails`, `Show` | one `refresh()` of the widget and the `readSnapshots()` in it, cut at its two awaits |
| `FoundNewer`, `Wait`, `TryAgain`, `GiveUp` | the loop of a manual refresh with its deadline |
| `shown`, `stale`, `Redraw` | `lastUsage`, and what the pill said when it was last drawn |
| `now`, `Pass` | the clock, in intervals of the polling timer |

A snapshot is the account whose plan and usage it holds and its `fetchedAt`. The session's own
token sums, which `ConnectionScope` has, and the model list are left out.

### Launcher

| Model | Code |
|---|---|
| `ui`, `recovery` | where the thread is: idle, in the loop of `PollReadiness`, at its deep check, or in `LaunchClaudeClient`; for a launch or for a recovery |
| `ours`, `known`, `stopping`, `attempts` | `adapterProcess`; `activePort` with `clientToken`; `stopping`; `restartAttempts` |
| `LaunchClick`, `StopClick`, `CloseWindow` | the button and `OnFormClosing` |
| `Recover`, `RecoveryCannotStart`, `GiveUp` | the branches of `ProcessMonitorTimer_Tick` on an exited adapter |
| `Poll`, `PollFails`, `CheckFails`, `CheckPasses`, `RecoveryPasses` | `PollReadiness` |
| `ActivateClient`, `ActivationFails` | `LaunchClaudeClient` |
| `StartRefresh`, `Refresh` | `RefreshLiveDashboard` on a pool thread |
| `adapter[s]`, `Listen`, `WriteRuntime`, `AdapterExits` | an adapter process in `start()`, with `tryListen` |
| `runtime` | runtime.json; deleting and writing it may fail, as the code only logs that |
| `client[n]` | the client that launch `n` started: the configuration it was started with, or that it does not run |
| `KillClients`, `KillAdapter`, `KillAll`, `Retire` | `StopProcesses` and `KillClientByProfile`, any part of which may fail |
| `spared`, `strays` | history: clients and adapters that outlived a kill |
| `taken`, `TakePort` | other programs on the loopback interface |

The times that count loop turns or seconds are nondeterministic: any poll may be the last,
any check may fail. Also left out: a Node that cannot be started at all; a client that appears
after its activation was given up; the death of the launcher itself, after which its
adapter goes on unseen; message boxes, during which a modal loop dispatches the timer. The
button asks only whether the adapter runs, so a launch between the adapter's
death and the next tick starts a second client: `LauncherOneClient.cfg` (`OneClient`) yields that
trace, and `LauncherOutdated.cfg` (`NoClientOutdated`) one in which the older client is left with a port
and a token that nobody serves and the monitor does not know of it. `ClientMeetsAdapter` and
`ClientIsLookedAfter` are about the client of the latest launch. What `Kill()` throws is
swallowed, and a failed WMI query, a root that is not found or a failed taskkill is logged at most:
`KillAll` may miss any client and the adapter. `StopIsFinal` and `NoStrayAdapter`
except what was missed; the comment "so Stop never leaves it running" is
`StopLeavesNoClient`, and `LauncherStop.cfg` yields a trace to the opposite.

### Installer

| Model | Code |
|---|---|
| `target`, `staging`, `backup` | the three directories of a run: absent, a whole version, or the rest of one |
| `inside` | the backup after `Move-Item` put it into a target that could not be removed |
| `identity` | the version for which the package `ClaudeOpen` is registered |
| `Begin`, `Stage`, `Fail`, `Abort` | preparation, and the outer `catch` |
| `SetAside`, `PutInPlace`, `Register`, `SwapFails` | the swap, verification and registration |
| `Restore`, `RemoveAll`, `RestoreFails`, `Reregister` | the inner `catch` |
| `Commit`, `CommitFails` | the removal of the backup, and the shortcuts |
| `Killed`, `Uninstall` | the end of the script at any point; the uninstaller |

Directories of earlier runs have names of their own and are never looked at again, so only those
of the current run are variables. The marker may or may not survive in the rest of a
version: `Begin` does not ask, which allows more than the code. A run that fails behind the swap
ends as "incomplete": it reports a failure, with the new version in place. Certificates and the
stopping of running processes are left out.

## 3. Runs

| Run | Question | Instance |
|---|---|---|
| `ConnectionScope` | isolation of accounts; refinement of `AccountScope`; liveness | 2 accounts, 2 handlers, 1 rotation, both optional endpoints |
| `CompanionSession` | everything about the server with one POST body at a time per session; refinement of `Conversation` | 3 sessions for 2 places, 3 turns, log of 6, history of 3, 2 chunks |
| `CompanionRace` | *violated*: two bodies at once | 1 session, 2 turns |
| `CompanionPhone` | what the page shows, and when it catches up | 2 sessions, 2 turns, log of 3, 2 fetches, 1 failure |
| `CompanionPhoneNewChat` | *violated*: a stale resume after "New chat" | 2 sessions, 1 turn |
| `AliasMap` | one-to-one, and stable meaning | 3 colliding models, 6 aliases, 1 denied, any number of restarts |
| `EffortConformance` | proven, and as chosen | one control of each kind on each route, 2 probers, 3 probes |
| `StreamTranslate` | order and completeness; refinement of `MessageStream` | text and 2 tool calls, 4 lines of up to 3 pieces |
| `ProfileWorkspace` | failures and deaths at every file operation | 4 runs, 2 settings |
| `ProfileRollback` | *violated*: rollback of a production run | 2 runs |
| `UsageWidget` | old data leaves, dead adapters are seen, Refresh ends | 2 accounts, 2 publisher refreshes, a poll and a click in flight, a clock of 2 intervals |
| `Launcher` | one adapter, final Stop, clients served | 2 launches, 2 recoveries in a row, 3 ports, 1 of which may be taken, 1 kill that fails |

More configurations stand beside these. `Installer.cfg` (3 runs of the installer) has no
violation, and its two properties are also proved. Each of the others yields the trace to a state
that a reader of the code or its documents might rule out, explained in section 2:

| Configuration | Violated | Said by | Code |
|---|---|---|---|
| `EffortSense.cfg` | `ThinkingKeepsItsSense` | `packages/gateway-adapter/test/effort.test.js:21-29` | `conformance-store.js:126`, `effort.js:77` |
| `StreamOrder.cfg` | `OneOpenBlock` | `packages/gateway-adapter/src/stream.js:5-7` | `stream.js:94-118` |
| `LauncherStop.cfg` | `StopLeavesNoClient` | `ClaudeOpen.cs:2191` | `ClaudeOpen.cs:2178-2204`, 2461-2489 |
| `LauncherOneClient.cfg` | `OneClient` | `ClaudeOpen.cs:2134` (of the recovery) | `ClaudeOpen.cs:1317` |
| `LauncherOutdated.cfg` | `NoClientOutdated` | nobody | `ClaudeOpen.cs:1317`, 1334-1339 |
| `CompanionPhoneLost.cfg` | `NewChatIsDrawn` | `docs/REMOTE-COMPANION.md:47` | `ui.js:88` |
| `CompanionPhoneExpired.cfg` | `ExpiredPageStartsAnew` | `docs/REMOTE-COMPANION.md:49` | `ui.js:84` |
| `CompanionOrphan.cfg` | `NoStreamUnheard` | nobody | `remote-companion/src/server.js:252` |
| `ConnectionScopeVerdict.cfg` | `VerdictOfActiveAccount` | nobody | `adapter-server/src/server.js:348-355` |

**Why the bounds are enough to be interesting.** Two handlers let one request notice a rotation
while the other is suspended at any of its awaits; more rotations, and credentials that return,
are covered by the theorems, which hold for any number (`CatalogIsolation` without any
assumption). Three turns in two places of three sessions give eviction of a busy session, a
reused place and a predecessor that has not ended. A log of 6 is shorter than two answers and a
history of 3 shorter than two exchanges, so both trim. In the page's runs a log of 3 is shorter
than the events of two answers, so a resume meets a trimmed log and a gap; two fetches let two
resumes overlap, and `MaxRequests = 2` gives two messages in one chat, or a message and a new
chat. The three models of `AliasMap` derive the same first alias, two of them the same second
one and the third a denied second one, so every order of naming assigns differently. Three
probes suffice to prove, refute and prove again, or to prove both values of the boolean control
in either order while one is overtaken. Four lines allow text, a call, text again and a second
call. Four launches allow a run that fails on top of one that died on top of one that succeeded.
Two refreshes of the publisher and two of the widget overlap in every order; a clock of two
intervals separates a snapshot that is current from one that is stale, and a click before its
deadline from one after it. A second launch meets what the first one left (a stale runtime.json,
a client, an adapter's port), and two recoveries in a row the same of each other; with three
ports there is one to fall back to when the old one is taken; one kill that fails leaves a client or
an adapter behind in any stop, and the theorems bound neither. `MaxEpoch`, `MaxDeltas`,
`MaxOutages`, `MaxRequests`, `MaxProbes`, `MaxLines`, `MaxOps`, `MaxRuns`, `MaxAccount`,
`MaxTime`, `MaxLaunches`, `MaxTaken`, `MaxMissed`, `Turns`, `Sessions`, `Fetches`, `Ticks`,
`Polls`, `Clicks` and `Slots` bound counters or what is in flight; the other constants are limits of the code
(`MAX_SESSIONS`, `MAX_EVENTS`, `MAX_HISTORY_*`, `STALE_MS`, the five restarts). Deadlock is not
checked for the companion, which stops when sessions and turns are used up, nor for the profile,
the launcher and the widget, which stop when launches or time are.

**Configuration constants that carry an assumption.** `CredentialsReturn`: may a
replaced credential be stored again. `Pipelining`: may two bodies of one session be
read at once; the page's Send button is disabled while a response runs but not
between the click and the 202, so the assumption `FALSE` is about users and other
clients. `ResumesCross`: may a resume be under way while a new chat is opened. In the
passing runs of the page it is `FALSE`, which is about timing: "New chat" is pressed while no
snapshot is being fetched, and its answer arrives before the timer, whose delay is 700 ms at
least, starts a fetch. Everything else may be in flight, and the network may fail at any moment.
`CompanionPhoneNewChat` shows what happens otherwise.

**Fairness.** `ConnectionScope!Fairness`: the secret's TTL lapses (a clock); some
request keeps arriving (`Health`; with the widget installed every five seconds, else
whenever the client asks); a discovery or details fetch ends, because each carries
an abort timeout (`COLD_DISCOVERY_TIMEOUT_MS`, `modelDetailsTimeoutMs`) on the Node
versions that have `AbortSignal.timeout`. Nothing is assumed of users or of the
gateway's answers. `PhoneFairness`: requests that are not lost arrive and are answered,
timers fire, written events are dispatched and an offline phone gets online again;
failures are bounded by `MaxOutages`. Nothing is assumed of the user, the gateway or
pruning. `UsageWidget!Fairness`: both interval timers go on firing, and each of
their fetches ends (the upstream ones by `usageTimeoutMs`, the others stay in the
machine); a file that cannot be replaced or read now can be some other time, hence the two
strong conditions. Nobody has to press Refresh or start the adapter again.
`Launcher!Fairness`: the monitor timer fires while the thread is free, polling has forty
turns, every request and the activation have a deadline, and an adapter that starts comes
to listen or exits. A health check need never pass and an adapter may always die again.

**What the violated runs show** (see `findings` in `PROJECT.json`): two concurrent POSTs start
two streams in one session; a stale resume repaints the old conversation in a new chat; a
production run that fails while replacing files does not bring back the library it purged before
it read the prior bytes.

**Mutants.** Beside the definitions stand mutated forms of some of them
(`AdmitAnyAnswer`, `ForgetPartial`, `DropTheGap`, ...): the plausible mistakes that the
properties were tried against. No specification uses them.

## 4. Proofs

All theorems hold for every value of the constants that satisfies the modules' `ASSUME`s.

`ConnectionScope_proofs`

* `TypeCorrect`: `Spec => []TypeOK`.
* `CatalogIsolation`: `Spec => []CatalogOfActiveAccount`. The property is not
  inductive: the answer that is admitted comes from a suspended handler, so
  `IsolationInv` adds what a handler in `fetch` or `details` holds: the list it will
  deliver is from the account `asked`, which is what `Admit` compares with `active`.
* `UsageIsolation`, `NoBlend`, `Refinement`: `UsageOfActiveAccount`,
  `DetailsOfCatalogAccount` and the refinement of `AccountScope`, under
  `~CredentialsReturn`. Here a handler's fingerprint and the credential it used later
  are different reads, and equality with `active` proves that they agree only if an
  account never comes back. `AgeInv` orders all of them in time: each credential has a
  birth (`BirthOrder`), and what a handler read earlier is no younger than what it
  read later, which is no younger than `active` (`TaskAges`). The account in between
  is then squeezed to equality.
* `AnswersInOrder`: `AnswersAreNotOlder`, under the same assumption and from the same
  ages: what a `/usage` shows under a label is never older than the label.
* `OnlyOvertakenVerdictsStray`: what holds in place of `VerdictOfActiveAccount`. As long as no
  discovery in flight outlives a change of the account (`CleanSwitch`), every discovery in flight,
  at its list or at its details, is of the active account (`FetchesAreCurrent`), so its 304 or
  failure is too.

`CompanionPhone_proofs`, about the server by itself (`Spec` of `CompanionSession`)

* `TypeCorrect`: `Spec => []TypeOK`.
* `LogOrder`: `Spec => [](LogIsGapless /\ AnswersEndOnce)`, for every bound on the log;
  `AnswersEnd` is its second half.
* `OneStream`: under `~Pipelining`,
  `Spec => [](OneStreamPerSession /\ BusyTellsTruth /\ StopReachesStreams)`. The
  inductive invariant (`StreamInv`) adds that a turn whose body is awaited belongs to a
  session without a stream: that is what makes the test of `busy` before the await
  still valid after it. Without the assumption the property is false (`CompanionRace`).
  `StopWorks` is its last conjunct, which says of every stream that it was aborted if it was
  stopped or if its session ended while it ran.
* `Refinement`: under `~Pipelining`, `Spec => KeepsConversation`. It needs the gapless log (what
  `push` keeps are exactly the newest events by id), one stream per session (so the
  controller names who speaks, and a stopped session has nobody else who may go on) and, as one
  more invariant, that no controller is left where nothing streams (`Released`). Then each
  action maps to one abstract step or to a stutter: `PushTells` is the step common to all
  that add events, `BodyTalks`, `DeltaTalks`, `EndTalks` and `AbortTalks` are the cases.
* `MapIsBounded`: `SessionsBounded`. `MapInv` numbers the sessions of the map by their
  ranks, one each from 1 on: touching one draws it to the end, evicting takes the first,
  and either keeps the numbering; so the highest rank is the size of the map, and the test
  before `createSession` adds one bounds it.
* `HistoryIsKept`: `Spec => []HistoryIsWhatWasShown`, also when bodies are pipelined and two
  answers interleave in one log. `HistoryInv` adds two counts to it: a log that was never
  trimmed is as long as `next` says, and it holds as many deltas of a turn as that turn has
  said, which is what `KeepAnswer` writes down when the turn ends. `AppendRecords` is the
  step common to all messages: with one more message in a history of bounded length, each
  earlier one has one more behind it. A terminal event says that its turn has ended
  (`AnswersEndOnce`), so no later delta changes what it is shown as.

`CompanionPhone_proofs`, about page, network and server (`PhoneSpec` of `CompanionPhone`)

* `PageDrivesServer`: `PhoneSpec => [][Next]_vars`. The page's actions reach the server only
  through the server's own, so the inductive steps above are used again, from the state the
  page boots in: `ServerKeepsPromises` (`LogIsGapless`, `AnswersEndOnce`, `SessionsBounded`,
  `HistoryIsWhatWasShown`) and `PhoneTypeCorrect` (`PhoneTypeOK`). None needs an assumption
  about the user or the network. `PageHasConversation` (`KeepsConversation`) needs `~Pipelining`
  as before.
* `PageHolds`: under `~ResumesCross`, `PhoneSpec => []Whole`, the inductive invariant of the
  page. It says of everything that may still reach the screen how it relates to the log:
  a snapshot on its way is a run of its session's events that ends before `next`
  (`FetchInv`); a subscription that was asked for continues the screen (`AskedInv`); what is
  on the wire is a run, later than the screen, that ends with the last event while the
  session is there (`WireInv`); the screen is a run (`ScreenInv`), and the page's chat's
  unless its first snapshot is still out (`OwnInv`); and when nothing is left to repair the
  page, screen and wire together have all of the log (`CurrentInv`). `NewbornInv` says what
  a page looks like when "New chat" was pressed on it. Busy is followed in the same way:
  whoever applies the rest of the log will be waiting if the session is busy, or will notice
  a gap (`Sound` for a snapshot or a subscription, `EndsWaiting` for the wire).
* `ScreenIsUnbroken` (`ScreenIsOneRun`), `QuietPageHasAll` (`QuietPageIsCurrent`) and
  `NewChatIsNew` (`NewChatShowsNoOther`) follow from `Whole`, for any number of sessions,
  messages, snapshots and failures, the loss of a new chat's first snapshot among them. Bodies may
  be pipelined. `~ResumesCross` is needed:
  without it `NewChatShowsNoOther` is false (`CompanionPhoneNewChat`).

`AliasMap_proofs`

* `TypeCorrect`, `Exact` (`AliasesAreExact`), `Stable` (`AliasKeepsMeaning`). The inductive
  invariant `AliasInv` adds that every name in memory and in the file was derived for its
  model and is clean, that the file is itself one to one, and that, while nothing was
  forgotten, the map holds every pair that was ever shown. That a free nonce exists
  follows from `DeriveAssumption`; that the search takes the least one needs
  well-founded induction on numbers, cited from the library.

`EffortConformance_proofs`

* `TypeCorrect`, `OnlyProvenIsSent`, `ChoiceIsSent`: the two properties of
  its run. `EffortInv` adds that only candidate values of a control are probed and recorded
  and that the records agree with the last results unless reverted; the theorems then
  are about the mapping functions, case by case over kinds and routes.

`StreamTranslate_proofs`

* `TypeCorrect`, `InOrder`, `Complete` (`NothingLost`), `OneBlock`, `Refinement`
  (`ClientReadsAStream`). `StreamInv` relates the translator's memory to the blocks of the
  client: the open text is the last text block and the only open one (`TextIsTracked`), a
  tool's index is its only block, open while the stream is read (`ToolsAreTracked`), and
  what is still to be sent of a line is newer than all that was shown (`TodoIsNew`). The
  refinement follows: what is extended or stopped is open, where a block starts no text is
  open and no other block of the call exists, and what `Finish` finds closed is everything.

`ProfileWorkspace_proofs`

* `TypeCorrect`, `Recoverable`, `Whole`, `Restored`, `AppliedKept`: the properties of its
  run. `ProfileInv` says, stage by stage, that the profile is a function of what it was when
  the run began and of how far the run has come, and that a backup holds the settings
  whenever the preferences file may be torn. `RolledBackProduction` says what is true in place
  of `ProductionRollbackRestores`, which `ProfileRollback` violates: the settings are as before
  and the library is empty.

`Launcher_proofs`

* `TypeCorrect`, `NoneAstray` (`NoStrayAdapter`), `StopLasts` (`StopIsFinal`),
  `ClientConfigured` (`ClientMeetsAdapter`), with any number of kills that fail. The invariant adds
  `ClientSettled`: as long as no adapter has outlived its kill, from the activation of a client
  until the launcher starts anew, whatever can tell the launcher or a recovered adapter an address
  (`known`, runtime.json if it is there, the port and token an adapter was started with) tells
  that client's. It begins to hold because the activation passed only with an adapter that served,
  of which there is one, and it outlasts recoveries because they start from `known` and
  `tryListen()` moves away only from a port that is taken.
* `OnlyTheButtonDuplicates`: `OneClient`, which is false (`LauncherOneClient.cfg`), holds if the
  button is never pressed while a client runs (`ButtonPressedAlone`): a launch under way has no
  client, and a recovery activates none (`NoneWhileLaunching`).

`InstallerWidget_proofs`, two components that do not meet

* Installer: `TypeCorrect`, `VersionsSurvive` (`NothingLost`), `EndIsHonest` (`EndTellsTruth`).
  `Whereabouts` says step by step where the previous and the new version are.
* Publisher and widget: `WidgetTypeCorrect` (`WidgetTypeOK`); `NothingFromLater`, no snapshot
  is of a later account or dated later than it is read; and `OldDataDriesUp`, the safety half
  of `OldAccountLeavesScreen`: a place on the way publisher, file, read, screen that has none of
  an old account's data, like all that could still fill it, never has it again without a rotation.
  `TickMoves` and `ReaderMoves` say what one refresh of either can change.

`TypeOK` of `ConnectionScope`, `CompanionSession`, `ProfileWorkspace`, `AliasMap`,
`EffortConformance` and `Launcher` is proved and in no configuration of its own (that of
`CompanionSession` is the first part of `PhoneTypeOK`).

**Model-checked only.** All liveness (`RotationTakesEffect`, `CatalogWaitEnds`,
`PageCatchesUp`, `OldAccountLeavesScreen`, `DeadAdapterIsSeen`, `RefreshEnds`,
`ClientIsLookedAfter`): the prover has no rules for fairness with `ENABLED`. Every other property
of the passing runs is stated by a theorem.

## 5. Not modelled, and why

* **Router, retry, health, field conversion, redaction, catalog normalisation, model registry,
  configuration.** Functions of one request or one file, without memory or concurrency: a
  model would repeat their text. What they do to shared state is in the modules above.
* **Pairing and devices of the companion.** They decide who may use the companion and touch
  nothing of what it does with sessions; the models begin with a paired browser. `/api/models`
  and `/api/usage` pass on one answer of the adapter.
* **Ion patcher and third-party profile writer.** One pass that succeeds or throws; both
  outcomes are in `Installer` (`Fail`) and `Launcher` (`ActivationFails`), and the
  files the writer replaces are in `ProfileWorkspace`.
* **Rest of the launcher.** SSH bridges, window identity, settings, the control token (read
  with the other two), modal message loops, the window of twenty seconds in
  which `CLAUDE_USER_DATA_DIR` is set for the user, and the launcher's own death.
* **Package identity, build, verification and evidence scripts.** They do not take part in
  the running program.

## 6. What is left

1. `Launcher` with the death of the launcher and an adapter that outlives it, and with the
   timer that fires during message boxes.
2. `ConnectionScope` composed with `UsageWidget`, so that the account of a snapshot is read
   from the cache and telemetry instead of `account`.
3. A boolean control on the native route, once a registry record has one.

## 7. Running

    tlc -config ConnectionScope.cfg MC_ConnectionScope
    tlapm ConnectionScope_proofs.tla

Each run's module and configuration are listed in `PROJECT.json`, which also maps every
definition to the lines it models.
