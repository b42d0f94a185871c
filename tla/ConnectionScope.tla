--------------------------- MODULE ConnectionScope ---------------------------
(***************************************************************************)
(* The connection scope of the loopback adapter (adapter-server/server.js):*)
(* the secret store with its short cache, the lazily noticed credential    *)
(* rotation, the model catalog cache, the session usage counters, and the  *)
(* HTTP handlers that are suspended at an await while all of that changes. *)
(*                                                                         *)
(* One action is one stretch of JavaScript between two awaits, so handlers *)
(* interleave exactly where the event loop lets them.  Within a stretch    *)
(* the secret is read once: its cache does not lapse between two           *)
(* statements that follow each other without an await.                     *)
(***************************************************************************)
EXTENDS Naturals

CONSTANTS
  Accounts,           \* credentials, identified with the account they open
  Handlers,           \* HTTP requests the adapter may be serving at once
  None,               \* no account
  MaxEpoch,           \* bound: how many credentials are ever stored
  CredentialsReturn,  \* may a replaced credential be stored again?
  DetailsEndpoint,    \* config.modelDetailsEndpoint is set
  UsageEndpoint       \* config.usage maps a plan or usage endpoint

ASSUME NoneAssumption == None \notin Accounts
ASSUME EpochAssumption == MaxEpoch \in Nat
ASSUME ConfigAssumption ==
  /\ CredentialsReturn \in BOOLEAN
  /\ DetailsEndpoint \in BOOLEAN
  /\ UsageEndpoint \in BOOLEAN

VARIABLES
  stored,     \* what doResolve() finds: the credential in Windows Credential Manager,
              \* else the one in the environment, else none, which is an account too
  epoch,      \* history: how many times a credential was stored
  born,       \* history: the epoch in which each credential was last stored
  held,       \* the secret store's cached value
  live,       \* whether that value is still within cacheTtlMs
  active,     \* activeConnectionFingerprint
  cache,      \* the CatalogCache
  telemetry,  \* the accounts whose tokens UsageTelemetry has added up
  task        \* what each handler is awaiting

scope == <<held, live, active, telemetry>>
credential == <<stored, epoch, born>>
vars == <<stored, epoch, born, held, live, active, cache, telemetry, task>>

Account == Accounts \cup {None}

(***************************************************************************)
(* account is whose models the cache holds and extra whose details were    *)
(* merged into them; within is the TTL window since fetchedAt; by records  *)
(* whose answer last decided within and stale.                             *)
(***************************************************************************)
Cache == [account : Account, extra : Account, etag : BOOLEAN,
          within : BOOLEAN, stale : BOOLEAN, by : Account]

EmptyCache == [account |-> None, extra |-> None, etag |-> FALSE,
               within |-> FALSE, stale |-> FALSE, by |-> None]

Kind == {"models", "deep", "usage", "messages"}

Stage == {"idle", "body", "fetch", "details", "upstream"}

(***************************************************************************)
(* began is requestConnectionFingerprint; asked is                         *)
(* catalogConnectionFingerprint; cred is the secret in the headers of the  *)
(* upstream call that is outstanding; tagged says it carried an etag; list *)
(* is the account whose model list a 200 delivered.                        *)
(***************************************************************************)
Task == [stage : Stage, kind : Kind, began : Account, asked : Account,
         cred : Account, tagged : BOOLEAN, list : Account]

IdleTask == [stage |-> "idle", kind |-> "models", began |-> None,
             asked |-> None, cred |-> None, tagged |-> FALSE, list |-> None]

TypeOK ==
  /\ stored \in Accounts
  /\ epoch \in Nat
  /\ born \in [Accounts -> Nat]
  /\ held \in Accounts
  /\ live \in BOOLEAN
  /\ active \in Accounts
  /\ cache \in Cache
  /\ telemetry \subseteq Accounts
  /\ task \in [Handlers -> Task]

Init ==
  /\ stored \in Accounts
  /\ epoch = 1
  /\ born = [a \in Accounts |-> IF a = stored THEN 1 ELSE 0]
  /\ held = stored
  /\ live = TRUE
  /\ active = stored
  /\ cache = EmptyCache
  /\ telemetry = {}
  /\ task = [h \in Handlers |-> IdleTask]

-----------------------------------------------------------------------------
\* The secret store and the connection scope.

\* current(): the cached secret within its TTL, the stored one after it.
Current == IF live THEN held ELSE stored

\* The cache after ensureConnectionScope(): cleared when the secret changed.
Scoped(c) == IF Current = active THEN c ELSE EmptyCache

KeepUsage == telemetry

ScopedUsage == IF Current = active THEN telemetry ELSE {}

ForgetToSwitch ==
  /\ held' = Current
  /\ live' = TRUE
  /\ UNCHANGED <<active, telemetry>>

\* ensureConnectionScope(), but for the catalog cache (see Scoped).
EnsureConnectionScope ==
  /\ held' = Current
  /\ live' = TRUE
  /\ active' = Current
  /\ telemetry' = ScopedUsage

-----------------------------------------------------------------------------
\* The catalog cache.

IsFresh(c) == c.account # None /\ c.within

RecordFresh(list, extra, etag) ==
  [account |-> list, extra |-> extra, etag |-> etag,
   within |-> TRUE, stale |-> FALSE, by |-> list]

RecordNotModified(c, who) ==
  IF c.account = None THEN c
  ELSE [c EXCEPT !.within = TRUE, !.stale = FALSE, !.by = who]

RecordFailure(c, who) == [c EXCEPT !.stale = TRUE, !.by = who]

-----------------------------------------------------------------------------
\* Request handlers.

\* The handlers that call the gateway themselves once they have the catalog.
CallsUpstream(kind) == kind \in {"messages", "deep"} \/ (kind = "usage" /\ UsageEndpoint)

\* The handler's continuation after getCatalog() has returned.
Served(t) ==
  IF CallsUpstream(t.kind)
  THEN [t EXCEPT !.stage = "upstream", !.cred = Current, !.asked = None,
                 !.tagged = FALSE, !.list = None]
  ELSE IdleTask

\* getCatalog() up to its first await, for the handler described by t.
GetCatalog(h, t) ==
  /\ EnsureConnectionScope
  /\ cache' = Scoped(cache)
  /\ task' = [task EXCEPT ![h] =
       IF t.kind # "deep" /\ IsFresh(Scoped(cache))
       THEN Served(t)
       ELSE [t EXCEPT !.stage = "fetch", !.asked = Current, !.cred = Current,
                      !.tagged = Scoped(cache).etag]]
  /\ UNCHANGED credential

LabelAsStored(h, kind) ==
  /\ task[h].stage = "idle"
  /\ kind # "messages"
  /\ GetCatalog(h, [IdleTask EXCEPT !.kind = kind, !.began = stored])

\* GET /v1/models, /usage and /health/deep.
Get(h, kind) ==
  /\ task[h].stage = "idle"
  /\ kind # "messages"
  /\ GetCatalog(h, [IdleTask EXCEPT !.kind = kind, !.began = Current])

\* POST /v1/messages up to readBody().
PostMessage(h) ==
  /\ task[h].stage = "idle"
  /\ EnsureConnectionScope
  /\ cache' = Scoped(cache)
  /\ task' = [task EXCEPT ![h] = [IdleTask EXCEPT
                !.stage = "body", !.kind = "messages", !.began = Current]]
  /\ UNCHANGED credential

BodyRead(h) ==
  /\ task[h].stage = "body"
  /\ GetCatalog(h, task[h])

\* A body over the cap, or one that is not JSON: the handler answers and ends.
BodyRefused(h) ==
  /\ task[h].stage = "body"
  /\ task' = [task EXCEPT ![h] = IdleTask]
  /\ UNCHANGED <<scope, cache, credential>>

\* GET /health, /diagnostics, and each stretch of count_tokens: nothing but
\* ensureConnectionScope() touches the state.
Health ==
  /\ EnsureConnectionScope
  /\ cache' = Scoped(cache)
  /\ UNCHANGED <<task, credential>>

\* getCatalog() returns to handler h with the cache in state c.
CatalogReturns(h, c) ==
  /\ task' = [task EXCEPT ![h] = Served(@)]
  /\ IF CallsUpstream(task[h].kind)
     THEN EnsureConnectionScope /\ cache' = Scoped(c)
     ELSE UNCHANGED scope /\ cache' = c
  /\ UNCHANGED credential

DiscoveryNotModified(h) ==
  /\ task[h].stage = "fetch"
  /\ task[h].tagged
  /\ CatalogReturns(h, RecordNotModified(cache, task[h].cred))

\* Not ok, an unreadable body, a network error, or COLD_DISCOVERY_TIMEOUT_MS.
NeverTimesOut(h) == FALSE

DiscoveryFails(h) ==
  /\ task[h].stage = "fetch"
  /\ CatalogReturns(h, RecordFailure(cache, task[h].cred))

AdmitAnyAnswer(t, list, extra, etag) == RecordFresh(list, extra, etag)

\* A completed 200: kept only if the connection it was asked for is still active.
Admit(t, list, extra, etag) ==
  IF t.asked # active THEN cache ELSE RecordFresh(list, extra, etag)

\* A 200, and no details: their endpoint is not configured, or is refused
\* because it is not a URL of the gateway's origin.
DiscoverySucceeds(h, etag) ==
  /\ task[h].stage = "fetch"
  /\ CatalogReturns(h, Admit(task[h], task[h].cred, None, etag))

\* A 200 followed by the request for the optional model details.
DiscoveryAsksDetails(h, etag) ==
  /\ task[h].stage = "fetch"
  /\ DetailsEndpoint
  /\ EnsureConnectionScope
  /\ cache' = Scoped(cache)
  /\ task' = [task EXCEPT ![h].stage = "details", ![h].tagged = etag,
                          ![h].list = task[h].cred, ![h].cred = Current]
  /\ UNCHANGED credential

\* The details are merged, or left out after an error or their timeout.
DetailsReturn(h, extra) ==
  /\ task[h].stage = "details"
  /\ extra \in {None, task[h].cred}
  /\ CatalogReturns(h, Admit(task[h], task[h].list, extra, task[h].tagged))

\* normalizeCatalog() throws for a list that is none, whatever the details were.
ListUnusable(h) ==
  /\ task[h].stage = "details"
  /\ CatalogReturns(h, RecordFailure(cache, task[h].list))

CountForAnyone(t) == IF t.kind = "messages" THEN telemetry \cup {t.cred} ELSE telemetry

\* recordUsage(): dropped unless the request began under the active connection.
RecordUsage(t) ==
  IF t.kind = "messages" /\ t.began = active THEN telemetry \cup {t.cred} ELSE telemetry

\* The upstream call of a message, a deep check or a mapped usage read is over.
UpstreamSucceeds(h) ==
  /\ task[h].stage = "upstream"
  /\ telemetry' = RecordUsage(task[h])
  /\ task' = [task EXCEPT ![h] = IdleTask]
  /\ UNCHANGED <<held, live, active, cache, credential>>

UpstreamFails(h) ==
  /\ task[h].stage = "upstream"
  /\ task' = [task EXCEPT ![h] = IdleTask]
  /\ UNCHANGED <<scope, cache, credential>>

-----------------------------------------------------------------------------
\* The user and the clock.

\* The user stores or deletes a credential.
Rotate(a) ==
  /\ a # stored
  /\ epoch < MaxEpoch
  /\ CredentialsReturn \/ born[a] = 0
  /\ stored' = a
  /\ epoch' = epoch + 1
  /\ born' = [born EXCEPT ![a] = epoch + 1]
  /\ UNCHANGED <<scope, cache, task>>

SecretTtlLapses ==
  /\ live
  /\ live' = FALSE
  /\ UNCHANGED <<held, active, telemetry, cache, task, credential>>

CatalogTtlLapses ==
  /\ cache.within
  /\ cache' = [cache EXCEPT !.within = FALSE]
  /\ UNCHANGED <<scope, task, credential>>

HandlerStep(h) ==
  \/ \E kind \in Kind : Get(h, kind)
  \/ PostMessage(h)
  \/ BodyRead(h)
  \/ BodyRefused(h)
  \/ DiscoveryNotModified(h)
  \/ DiscoveryFails(h)
  \/ \E etag \in BOOLEAN : DiscoverySucceeds(h, etag)
  \/ \E etag \in BOOLEAN : DiscoveryAsksDetails(h, etag)
  \/ \E extra \in Account : DetailsReturn(h, extra)
  \/ ListUnusable(h)
  \/ UpstreamSucceeds(h)
  \/ UpstreamFails(h)

Next ==
  \/ \E h \in Handlers : HandlerStep(h)
  \/ Health
  \/ \E a \in Accounts : Rotate(a)
  \/ SecretTtlLapses
  \/ CatalogTtlLapses

Spec == Init /\ [][Next]_vars

(***************************************************************************)
(* The clock makes the secret's TTL lapse; requests keep coming (the       *)
(* widget refresh of main.js asks every five seconds), and Health stands   *)
(* for the first stretch of any of them; discovery and details fetches     *)
(* carry an abort timeout.  Nothing else is bound to happen.               *)
(***************************************************************************)
Fairness ==
  /\ WF_vars(SecretTtlLapses)
  /\ WF_vars(Health)
  /\ \A h \in Handlers : WF_vars(DiscoveryFails(h))
  /\ \A h \in Handlers : WF_vars(DetailsReturn(h, None))

FairSpec == Spec /\ Fairness

-----------------------------------------------------------------------------
\* Properties.

(***************************************************************************)
(* The cached catalog, and so every model list served from it, was fetched *)
(* with the credential of the active connection, however many rotations    *)
(* overtook the discoveries in flight (server.js getCatalog, "Discard that *)
(* completed response instead of placing old-account models into the new   *)
(* connection's cache").                                                   *)
(***************************************************************************)
CatalogOfActiveAccount == cache.account # None => cache.account = active

(***************************************************************************)
(* A catalog is never a blend of two accounts: details fetched by a second *)
(* request, after another await, are merged only into a list of the same   *)
(* account (mergeModelDetails between the two checks of getCatalog).       *)
(***************************************************************************)
DetailsOfCatalogAccount == cache.extra # None => cache.extra = cache.account

(***************************************************************************)
(* The session totals hold tokens spent with the active credential only,   *)
(* although a message is charged when its response ends, long after its    *)
(* handler looked at the connection, and is sent with the credential of a  *)
(* later moment (recordUsage).                                             *)
(***************************************************************************)
UsageOfActiveAccount == telemetry \subseteq {active}

(***************************************************************************)
(* GET /usage is labelled with the connection of its entry and asks the    *)
(* account endpoints after an await, with the secret of that later moment: *)
(* under its label there can be a later account's data, but never an       *)
(* earlier one's.  The same holds for a message and its charge.            *)
(***************************************************************************)
AnswersAreNotOlder ==
  \A h \in Handlers : task[h].stage = "upstream" => born[task[h].began] <= born[task[h].cred]

(***************************************************************************)
(* Freshness and failure of the cached catalog are judged by answers to    *)
(* requests of the account it belongs to (recordNotModified and            *)
(* recordFailure in getCatalog, and "the last-known-good is still current" *)
(* in cache.js).                                                           *)
(***************************************************************************)
VerdictOfActiveAccount == cache.account # None => cache.by = cache.account

(***************************************************************************)
(* A rotated credential takes effect without a restart: unless the user    *)
(* rotates again, the adapter ends up working for the stored one           *)
(* (secretStore TTL and ensureConnectionScope).                            *)
(***************************************************************************)
RotationTakesEffect == \A a \in Accounts : stored = a ~> (active = a \/ stored # a)

(***************************************************************************)
(* No handler waits for the catalog for ever: every discovery in flight    *)
(* ends, whatever the gateway does (the bounded fetches of getCatalog).    *)
(***************************************************************************)
CatalogWaitEnds ==
  \A h \in Handlers :
    task[h].stage \in {"fetch", "details"} ~> task[h].stage \notin {"fetch", "details"}

(***************************************************************************)
(* The adapter implements the one-account-at-a-time promise of             *)
(* AccountScope: what it remembers appears only by learning for the active *)
(* account, and a change of account forgets everything in the same step.   *)
(***************************************************************************)
Promise == INSTANCE AccountScope
             WITH current <- active, catalog <- cache.account, usage <- telemetry

KeepsPromise == Promise!ScopeSpec
=============================================================================
