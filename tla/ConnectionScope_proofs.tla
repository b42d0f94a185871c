----------------------- MODULE ConnectionScope_proofs -----------------------
(***************************************************************************)
(* Proofs about the connection scope for every set of accounts and         *)
(* handlers, every bound on rotations and every configuration.             *)
(***************************************************************************)
EXTENDS ConnectionScope, TLAPS

LEMMA CurrentType == TypeOK => Current \in Accounts
BY DEF TypeOK, Current

LEMMA ScopedType ==
  ASSUME TypeOK, NEW c \in Cache
  PROVE  Scoped(c) \in Cache
BY NoneAssumption DEF Scoped, Cache, EmptyCache, Account

LEMMA EnsureType ==
  ASSUME TypeOK, EnsureConnectionScope
  PROVE  /\ held' \in Accounts /\ live' \in BOOLEAN /\ active' \in Accounts
         /\ telemetry' \subseteq Accounts
BY CurrentType DEF TypeOK, EnsureConnectionScope, ScopedUsage

LEMMA ServedType ==
  ASSUME TypeOK, NEW t \in Task
  PROVE  Served(t) \in Task
BY CurrentType DEF Served, Task, IdleTask, Stage, Kind, Account

LEMMA AdmitType ==
  ASSUME TypeOK, NEW t, NEW list \in Account, NEW extra \in Account, NEW etag \in BOOLEAN
  PROVE  Admit(t, list, extra, etag) \in Cache
BY DEF TypeOK, Admit, RecordFresh, Cache

LEMMA VerdictType ==
  ASSUME TypeOK, NEW who \in Account
  PROVE  /\ RecordNotModified(cache, who) \in Cache
         /\ RecordFailure(cache, who) \in Cache
BY DEF TypeOK, RecordNotModified, RecordFailure, Cache

LEMMA GetCatalogType ==
  ASSUME TypeOK, NEW h \in Handlers, NEW t \in Task, GetCatalog(h, t)
  PROVE  TypeOK'
<1>1. cache' \in Cache
  BY ScopedType DEF GetCatalog, TypeOK
<1>2. Scoped(cache).etag \in BOOLEAN
  BY ScopedType DEF Cache, TypeOK
<1>3. [t EXCEPT !.stage = "fetch", !.asked = Current, !.cred = Current,
                !.tagged = Scoped(cache).etag] \in Task
  BY <1>2, CurrentType DEF Task, Stage, Account
<1>4. task' \in [Handlers -> Task]
  BY <1>3, ServedType DEF GetCatalog, TypeOK
<1>5. QED
  BY <1>1, <1>4, EnsureType DEF GetCatalog, TypeOK, credential

LEMMA CatalogReturnsType ==
  ASSUME TypeOK, NEW h \in Handlers, NEW c \in Cache, CatalogReturns(h, c)
  PROVE  TypeOK'
<1>1. task' \in [Handlers -> Task]
  BY ServedType DEF CatalogReturns, TypeOK
<1>2. CASE CallsUpstream(task[h].kind)
  BY <1>1, <1>2, EnsureType, ScopedType DEF CatalogReturns, TypeOK, credential
<1>3. CASE ~CallsUpstream(task[h].kind)
  BY <1>1, <1>3 DEF CatalogReturns, TypeOK, credential, scope
<1>4. QED
  BY <1>2, <1>3

LEMMA IdleTaskType == IdleTask \in Task
BY DEF IdleTask, Task, Stage, Kind, Account

(***************************************************************************)
(* What a suspended handler remembers.  A discovery in flight carries the  *)
(* credential of the connection it was asked for (fetch), or has a list of *)
(* that account (details): this is what the check in Admit relies on.      *)
(***************************************************************************)
InFlight(t) ==
  /\ t.stage # "idle" => t.began \in Accounts
  /\ t.stage = "fetch" => t.asked \in Accounts /\ t.cred = t.asked
  /\ t.stage = "details" => t.asked \in Accounts /\ t.list = t.asked /\ t.cred \in Accounts
  /\ t.stage = "upstream" => t.cred \in Accounts

TasksInFlight == \A h \in Handlers : InFlight(task[h])

LEMMA HandlerStepType ==
  ASSUME TypeOK, TasksInFlight, NEW h \in Handlers, HandlerStep(h)
  PROVE  TypeOK'
<1>0. task[h] \in Task
  BY DEF TypeOK
<1>1. CASE \E kind \in Kind : Get(h, kind)
  <2>1. PICK kind \in Kind : Get(h, kind)
    BY <1>1
  <2>2. [IdleTask EXCEPT !.kind = kind, !.began = Current] \in Task
    BY CurrentType DEF IdleTask, Task, Stage, Kind, Account
  <2>3. QED
    BY <2>1, <2>2, GetCatalogType DEF Get
<1>2. CASE PostMessage(h)
  <2>1. [IdleTask EXCEPT !.stage = "body", !.kind = "messages", !.began = Current] \in Task
    BY CurrentType DEF IdleTask, Task, Stage, Kind, Account
  <2>2. task' \in [Handlers -> Task]
    BY <1>2, <2>1 DEF PostMessage, TypeOK
  <2>3. QED
    BY <1>2, <2>2, EnsureType, ScopedType DEF PostMessage, TypeOK, credential
<1>3. CASE BodyRead(h)
  BY <1>0, <1>3, GetCatalogType DEF BodyRead
<1>4. CASE BodyRefused(h)
  BY <1>4, IdleTaskType DEF BodyRefused, TypeOK, scope, credential
<1>5. CASE DiscoveryNotModified(h)
  BY <1>0, <1>5, VerdictType, CatalogReturnsType DEF DiscoveryNotModified, Task
<1>6. CASE DiscoveryFails(h) \/ ListUnusable(h)
  BY <1>0, <1>6, VerdictType, CatalogReturnsType DEF DiscoveryFails, ListUnusable, Task
<1>7. CASE \E etag \in BOOLEAN : DiscoverySucceeds(h, etag)
  BY <1>0, <1>7, AdmitType, CatalogReturnsType DEF DiscoverySucceeds, Task, Account
<1>8. CASE \E etag \in BOOLEAN : DiscoveryAsksDetails(h, etag)
  <2>1. PICK etag \in BOOLEAN : DiscoveryAsksDetails(h, etag)
    BY <1>8
  <2>2. task' \in [Handlers -> Task]
    BY <1>0, <2>1, CurrentType DEF DiscoveryAsksDetails, TypeOK, Task, Stage, Account
  <2>3. QED
    BY <2>1, <2>2, EnsureType, ScopedType DEF DiscoveryAsksDetails, TypeOK, credential
<1>9. CASE \E extra \in Account : DetailsReturn(h, extra)
  BY <1>0, <1>9, AdmitType, CatalogReturnsType DEF DetailsReturn, Task
<1>10. CASE UpstreamSucceeds(h)
  <2>1. task[h].cred \in Accounts
    BY <1>10 DEF UpstreamSucceeds, TasksInFlight, InFlight
  <2>2. QED
    BY <1>10, <2>1, IdleTaskType DEF UpstreamSucceeds, RecordUsage, TypeOK, credential
<1>11. CASE UpstreamFails(h)
  BY <1>11, IdleTaskType DEF UpstreamFails, TypeOK, scope, credential
<1>12. QED
  BY <1>1, <1>2, <1>3, <1>4, <1>5, <1>6, <1>7, <1>8, <1>9, <1>10, <1>11 DEF HandlerStep

LEMMA NextType ==
  ASSUME TypeOK, TasksInFlight, [Next]_vars
  PROVE  TypeOK'
<1>1. ASSUME NEW h \in Handlers, HandlerStep(h) PROVE TypeOK'
  BY <1>1, HandlerStepType
<1>2. CASE Health
  BY <1>2, EnsureType, ScopedType DEF Health, TypeOK, credential
<1>3. ASSUME NEW a \in Accounts, Rotate(a) PROVE TypeOK'
  BY <1>3 DEF Rotate, TypeOK, scope
<1>4. CASE SecretTtlLapses
  BY <1>4 DEF SecretTtlLapses, TypeOK, credential
<1>5. CASE CatalogTtlLapses
  BY <1>5 DEF CatalogTtlLapses, TypeOK, Cache, scope, credential
<1>6. CASE UNCHANGED vars
  BY <1>6 DEF vars, TypeOK
<1>7. QED
  BY <1>1, <1>2, <1>3, <1>4, <1>5, <1>6 DEF Next

-----------------------------------------------------------------------------
LEMMA IdleInFlight == InFlight(IdleTask)
BY DEF InFlight, IdleTask

LEMMA ServedInFlight ==
  ASSUME TypeOK, NEW t \in Task, InFlight(t), t.stage # "idle" \/ t.began \in Accounts
  PROVE  InFlight(Served(t))
BY CurrentType, IdleInFlight DEF Served, InFlight, Task

\* Every handler step leaves the other handlers' tasks alone.
LEMMA HandlerStepFlight ==
  ASSUME TypeOK, TasksInFlight, NEW h \in Handlers, HandlerStep(h)
  PROVE  TasksInFlight'
<1>0. task[h] \in Task /\ InFlight(task[h])
  BY DEF TypeOK, TasksInFlight
<1>1. SUFFICES ASSUME NEW t, task' = [task EXCEPT ![h] = t], InFlight(t)
               PROVE  TasksInFlight'
  <2>1. ASSUME NEW u \in Task, InFlight(u), u.began \in Accounts, GetCatalog(h, u)
        PROVE  \E t : task' = [task EXCEPT ![h] = t] /\ InFlight(t)
    <3> DEFINE sent == [u EXCEPT !.stage = "fetch", !.asked = Current, !.cred = Current,
                                 !.tagged = Scoped(cache).etag]
    <3>1. InFlight(sent)
      BY <2>1, CurrentType DEF InFlight, Task
    <3>2. InFlight(Served(u))
      BY <2>1, ServedInFlight
    <3>3. task' = [task EXCEPT ![h] = sent] \/ task' = [task EXCEPT ![h] = Served(u)]
      BY <2>1 DEF GetCatalog
    <3> HIDE DEF sent
    <3>4. QED
      BY <3>1, <3>2, <3>3
  <2>2. ASSUME NEW c, CatalogReturns(h, c), task[h].stage # "idle"
        PROVE  \E t : task' = [task EXCEPT ![h] = t] /\ InFlight(t)
    BY <1>0, <2>2, ServedInFlight DEF CatalogReturns
  <2>3. CASE \E kind \in Kind : Get(h, kind)
    <3>1. PICK kind \in Kind : Get(h, kind)
      BY <2>3
    <3>2. /\ [IdleTask EXCEPT !.kind = kind, !.began = Current] \in Task
          /\ InFlight([IdleTask EXCEPT !.kind = kind, !.began = Current])
          /\ [IdleTask EXCEPT !.kind = kind, !.began = Current].began \in Accounts
      BY CurrentType DEF IdleTask, Task, Stage, Kind, Account, InFlight
    <3>3. QED
      BY <1>1, <2>1, <3>1, <3>2 DEF Get
  <2>4. CASE PostMessage(h)
    <3>1. InFlight([IdleTask EXCEPT !.stage = "body", !.kind = "messages", !.began = Current])
      BY CurrentType DEF IdleTask, InFlight
    <3>2. QED
      BY <1>1, <2>4, <3>1 DEF PostMessage
  <2>5. CASE BodyRead(h)
    BY <1>0, <1>1, <2>1, <2>5 DEF BodyRead, InFlight
  <2>6. CASE BodyRefused(h) \/ UpstreamSucceeds(h) \/ UpstreamFails(h)
    BY <1>1, <2>6, IdleInFlight DEF BodyRefused, UpstreamSucceeds, UpstreamFails
  <2>7. CASE DiscoveryNotModified(h)
    BY <1>1, <2>2, <2>7 DEF DiscoveryNotModified
  <2>8. CASE DiscoveryFails(h) \/ ListUnusable(h)
    BY <1>1, <2>2, <2>8 DEF DiscoveryFails, ListUnusable
  <2>9. CASE \E etag \in BOOLEAN : DiscoverySucceeds(h, etag)
    BY <1>1, <2>2, <2>9 DEF DiscoverySucceeds
  <2>10. CASE \E etag \in BOOLEAN : DiscoveryAsksDetails(h, etag)
    <3>1. PICK etag \in BOOLEAN : DiscoveryAsksDetails(h, etag)
      BY <2>10
    <3>2. InFlight([task[h] EXCEPT !.stage = "details", !.tagged = etag,
                                   !.list = task[h].cred, !.cred = Current])
      BY <1>0, <3>1, CurrentType DEF DiscoveryAsksDetails, InFlight, Task
    <3>3. task' = [task EXCEPT ![h] = [task[h] EXCEPT !.stage = "details", !.tagged = etag,
                                   !.list = task[h].cred, !.cred = Current]]
      BY <1>0, <3>1 DEF DiscoveryAsksDetails, TypeOK, Task
    <3>4. QED
      BY <1>1, <3>2, <3>3
  <2>11. CASE \E extra \in Account : DetailsReturn(h, extra)
    BY <1>1, <2>2, <2>11 DEF DetailsReturn
  <2>12. QED
    BY <2>3, <2>4, <2>5, <2>6, <2>7, <2>8, <2>9, <2>10, <2>11 DEF HandlerStep
<1>2. QED
  BY <1>1 DEF TasksInFlight, TypeOK

-----------------------------------------------------------------------------
(***************************************************************************)
(* The inductive invariant of catalog isolation.  CatalogOfActiveAccount   *)
(* alone is not inductive: a 200 is recorded when the connection it was    *)
(* asked for is active, so the credential in the headers of a fetch must   *)
(* be the one of the connection it was asked for.                          *)
(***************************************************************************)
IsolationInv == TypeOK /\ TasksInFlight /\ CatalogOfActiveAccount

OfAccount(c, a) == c.account # None => c.account = a

LEMMA ScopedCatalog ==
  ASSUME EnsureConnectionScope, NEW c, OfAccount(c, active)
  PROVE  OfAccount(Scoped(c), active')
BY DEF EnsureConnectionScope, Scoped, EmptyCache, OfAccount

LEMMA CatalogReturnsIsolated ==
  ASSUME NEW h \in Handlers, NEW c, OfAccount(c, active), CatalogReturns(h, c)
  PROVE  OfAccount(cache', active')
BY ScopedCatalog DEF CatalogReturns, scope

LEMMA AdmitIsolated ==
  ASSUME OfAccount(cache, active), NEW t, NEW list, NEW extra, NEW etag, list = t.asked
  PROVE  OfAccount(Admit(t, list, extra, etag), active)
BY DEF Admit, RecordFresh, OfAccount

LEMMA HandlerStepIsolated ==
  ASSUME IsolationInv, NEW h \in Handlers, HandlerStep(h)
  PROVE  CatalogOfActiveAccount'
<1>0. OfAccount(cache, active) /\ InFlight(task[h])
  BY DEF IsolationInv, TasksInFlight, CatalogOfActiveAccount, OfAccount
<1>1. SUFFICES OfAccount(cache', active')
  BY DEF CatalogOfActiveAccount, OfAccount
<1>2. ASSUME NEW t, GetCatalog(h, t) PROVE OfAccount(cache', active')
  BY <1>0, <1>2, ScopedCatalog DEF GetCatalog
<1>3. CASE \E kind \in Kind : Get(h, kind)
  BY <1>2, <1>3 DEF Get
<1>4. CASE PostMessage(h)
  BY <1>0, <1>4, ScopedCatalog DEF PostMessage
<1>5. CASE BodyRead(h)
  BY <1>2, <1>5 DEF BodyRead
<1>6. CASE BodyRefused(h) \/ UpstreamSucceeds(h) \/ UpstreamFails(h)
  BY <1>0, <1>6 DEF BodyRefused, UpstreamSucceeds, UpstreamFails, scope
<1>7. CASE DiscoveryNotModified(h)
  <2>1. OfAccount(RecordNotModified(cache, task[h].cred), active)
    BY <1>0 DEF IsolationInv, TypeOK, Cache, OfAccount, RecordNotModified
  <2>2. QED
    BY <1>7, <2>1, CatalogReturnsIsolated DEF DiscoveryNotModified
<1>8. CASE DiscoveryFails(h) \/ ListUnusable(h)
  <2>1. \A who : OfAccount(RecordFailure(cache, who), active)
    BY <1>0 DEF IsolationInv, TypeOK, Cache, OfAccount, RecordFailure
  <2>2. QED
    BY <1>8, <2>1, CatalogReturnsIsolated DEF DiscoveryFails, ListUnusable
<1>9. CASE \E etag \in BOOLEAN : DiscoverySucceeds(h, etag)
  <2>1. PICK etag \in BOOLEAN : DiscoverySucceeds(h, etag)
    BY <1>9
  <2>2. OfAccount(Admit(task[h], task[h].cred, None, etag), active)
    BY <1>0, <2>1, AdmitIsolated DEF DiscoverySucceeds, InFlight
  <2>3. QED
    BY <2>1, <2>2, CatalogReturnsIsolated DEF DiscoverySucceeds
<1>10. CASE \E etag \in BOOLEAN : DiscoveryAsksDetails(h, etag)
  BY <1>0, <1>10, ScopedCatalog DEF DiscoveryAsksDetails
<1>11. CASE \E extra \in Account : DetailsReturn(h, extra)
  <2>1. PICK extra \in Account : DetailsReturn(h, extra)
    BY <1>11
  <2>2. OfAccount(Admit(task[h], task[h].list, extra, task[h].tagged), active)
    BY <1>0, <2>1, AdmitIsolated DEF DetailsReturn, InFlight
  <2>3. QED
    BY <2>1, <2>2, CatalogReturnsIsolated DEF DetailsReturn
<1>12. QED
  BY <1>3, <1>4, <1>5, <1>6, <1>7, <1>8, <1>9, <1>10, <1>11 DEF HandlerStep

LEMMA InitIsolation == Init => IsolationInv
<1>1. SUFFICES ASSUME Init PROVE IsolationInv
  OBVIOUS
<1>2. EmptyCache \in Cache
  BY DEF EmptyCache, Cache, Account
<1>3. TypeOK
  BY <1>1, <1>2, IdleTaskType DEF Init, TypeOK
<1>4. TasksInFlight
  BY <1>1, IdleInFlight DEF Init, TasksInFlight
<1>5. CatalogOfActiveAccount
  BY <1>1 DEF Init, CatalogOfActiveAccount, EmptyCache
<1>6. QED
  BY <1>3, <1>4, <1>5 DEF IsolationInv

LEMMA NextIsolation == IsolationInv /\ [Next]_vars => IsolationInv'
<1>1. SUFFICES ASSUME IsolationInv, [Next]_vars PROVE IsolationInv'
  OBVIOUS
<1>2. TypeOK'
  BY <1>1, NextType DEF IsolationInv
<1>3. ASSUME NEW h \in Handlers, HandlerStep(h) PROVE IsolationInv'
  BY <1>1, <1>2, <1>3, HandlerStepFlight, HandlerStepIsolated DEF IsolationInv
<1>4. CASE Health
  <2>1. CatalogOfActiveAccount'
    BY <1>1, <1>4, ScopedCatalog DEF Health, IsolationInv, CatalogOfActiveAccount, OfAccount
  <2>2. QED
    BY <1>1, <1>2, <1>4, <2>1 DEF Health, IsolationInv, TasksInFlight
<1>5. ASSUME NEW a \in Accounts, Rotate(a) PROVE IsolationInv'
  BY <1>1, <1>2, <1>5 DEF Rotate, IsolationInv, TasksInFlight, CatalogOfActiveAccount, scope
<1>6. CASE SecretTtlLapses
  BY <1>1, <1>2, <1>6 DEF SecretTtlLapses, IsolationInv, TasksInFlight, CatalogOfActiveAccount
<1>7. CASE CatalogTtlLapses
  BY <1>1, <1>2, <1>7 DEF CatalogTtlLapses, IsolationInv, TypeOK, Cache, TasksInFlight,
                          CatalogOfActiveAccount, scope
<1>8. CASE UNCHANGED vars
  BY <1>1, <1>2, <1>8 DEF vars, IsolationInv, TasksInFlight, CatalogOfActiveAccount
<1>9. QED
  BY <1>1, <1>3, <1>4, <1>5, <1>6, <1>7, <1>8 DEF Next

\* Every reachable state of the adapter's scope is well-typed.
THEOREM TypeCorrect == Spec => []TypeOK
<1>1. Spec => []IsolationInv
  BY InitIsolation, NextIsolation, PTL DEF Spec
<1>2. IsolationInv => TypeOK
  BY DEF IsolationInv
<1>3. QED
  BY <1>1, <1>2, PTL

(***************************************************************************)
(* However many handlers are in flight and however often the credential is *)
(* replaced, even by an earlier one, the cached catalog belongs to the     *)
(* active account (getCatalog, ensureConnectionScope).                     *)
(***************************************************************************)
THEOREM CatalogIsolation == Spec => []CatalogOfActiveAccount
<1>1. Spec => []IsolationInv
  BY InitIsolation, NextIsolation, PTL DEF Spec
<1>2. IsolationInv => CatalogOfActiveAccount
  BY DEF IsolationInv
<1>3. QED
  BY <1>1, <1>2, PTL

-----------------------------------------------------------------------------
(***************************************************************************)
(* What else the adapter remembers, when no replaced credential is ever    *)
(* stored again.  Credentials are then ordered by the epoch in which they  *)
(* were stored, and every credential a handler remembers lies between two  *)
(* others in that order: the request began under one no newer than the     *)
(* one its upstream call carries, which is no newer than the active one.   *)
(* Equality of the two ends, which is all the code compares, then forces   *)
(* the credential in the middle.                                           *)
(***************************************************************************)
Older(x, y) == 1 <= born[x] /\ born[x] <= born[y]

Ages(t, a) ==
  /\ t.stage # "idle" => Older(t.began, a)
  /\ t.stage \in {"fetch", "details"} => Older(t.asked, t.cred) /\ Older(t.cred, a)
  /\ t.stage = "upstream" => Older(t.began, t.cred) /\ Older(t.cred, a)

BirthOrder ==
  /\ held = active
  /\ born[stored] = epoch
  /\ \A a \in Accounts : born[a] <= epoch
  /\ \A a, b \in Accounts : born[a] = born[b] /\ born[a] # 0 => a = b
  /\ Older(active, stored)

TaskAges == \A h \in Handlers : Ages(task[h], active)

AgeInv == IsolationInv /\ BirthOrder /\ TaskAges

LEMMA CurrentOlder ==
  ASSUME AgeInv
  PROVE  Older(active, Current) /\ Older(Current, Current) /\ Current \in Accounts
BY CurrentType DEF AgeInv, IsolationInv, TypeOK, BirthOrder, Older, Current

LEMMA AgesGrow ==
  ASSUME TypeOK, NEW t \in Task, InFlight(t), NEW a \in Accounts, NEW b \in Accounts,
         Ages(t, a), Older(a, b)
  PROVE  Ages(t, b)
<1>1. ASSUME NEW x \in Accounts, Older(x, a) PROVE Older(x, b)
  BY <1>1 DEF TypeOK, Older
<1>2. QED
  BY <1>1 DEF InFlight, Ages

LEMMA IdleAges == \A a : Ages(IdleTask, a)
BY DEF Ages, IdleTask

LEMMA ServedAges ==
  ASSUME AgeInv, NEW t \in Task, InFlight(t), Older(t.began, active), t.began \in Accounts
  PROVE  CallsUpstream(t.kind) => Ages(Served(t), Current)
<1>1. Older(t.began, Current)
  BY CurrentOlder DEF AgeInv, IsolationInv, TypeOK, Older
<1>2. QED
  BY <1>1, CurrentOlder DEF Ages, Served, Task

LEMMA HandlerStepAges ==
  ASSUME AgeInv, NEW h \in Handlers, HandlerStep(h)
  PROVE  TaskAges'
<1>0. /\ task[h] \in Task /\ InFlight(task[h]) /\ Ages(task[h], active)
      /\ TypeOK /\ active \in Accounts /\ Current \in Accounts
  BY CurrentType DEF AgeInv, IsolationInv, TypeOK, TasksInFlight, TaskAges
<1>1. SUFFICES ASSUME NEW t, NEW b \in Accounts, Older(active, b), active' = b,
                      task' = [task EXCEPT ![h] = t], Ages(t, b), UNCHANGED born
               PROVE  TaskAges'
  <2>0. Older(active, active)
    BY DEF AgeInv, IsolationInv, TypeOK, BirthOrder, Older
  <2>1. ASSUME NEW u \in Task, InFlight(u), u.began \in Accounts, Older(u.began, Current),
               GetCatalog(h, u)
        PROVE  TaskAges'
    <3> DEFINE sent == [u EXCEPT !.stage = "fetch", !.asked = Current, !.cred = Current,
                                 !.tagged = Scoped(cache).etag]
    <3>1. Ages(sent, Current)
      BY <2>1, CurrentOlder DEF Ages, Task
    <3>2. Ages(Served(u), Current)
      BY <2>1, CurrentOlder, IdleAges DEF Served, Ages, Task
    <3>3. task' = [task EXCEPT ![h] = sent] \/ task' = [task EXCEPT ![h] = Served(u)]
      BY <2>1 DEF GetCatalog
    <3>4. active' = Current /\ UNCHANGED born
      BY <2>1 DEF GetCatalog, EnsureConnectionScope, credential
    <3> HIDE DEF sent
    <3>5. QED
      BY <1>0, <1>1, <3>1, <3>2, <3>3, <3>4, CurrentOlder
  <2>2. ASSUME NEW c, CatalogReturns(h, c), task[h].stage # "idle"
        PROVE  TaskAges'
    <3>1. task' = [task EXCEPT ![h] = Served(task[h])] /\ UNCHANGED born
      BY <2>2 DEF CatalogReturns, credential
    <3>2. CASE CallsUpstream(task[h].kind)
      <4>1. Ages(Served(task[h]), Current)
        BY <1>0, <2>2, <3>2, ServedAges DEF Ages, InFlight
      <4>2. active' = Current
        BY <2>2, <3>2 DEF CatalogReturns, EnsureConnectionScope
      <4>3. QED
        BY <1>0, <1>1, <3>1, <4>1, <4>2, CurrentOlder
    <3>3. CASE ~CallsUpstream(task[h].kind)
      <4>1. Ages(Served(task[h]), active)
        BY <3>3, IdleAges DEF Served
      <4>2. active' = active
        BY <2>2, <3>3 DEF CatalogReturns, scope
      <4>3. QED
        BY <1>0, <1>1, <2>0, <3>1, <4>1, <4>2
    <3>4. QED
      BY <3>2, <3>3
  <2>3. CASE \E kind \in Kind : Get(h, kind)
    <3>1. PICK kind \in Kind : Get(h, kind)
      BY <2>3
    <3>2. /\ [IdleTask EXCEPT !.kind = kind, !.began = Current] \in Task
          /\ InFlight([IdleTask EXCEPT !.kind = kind, !.began = Current])
          /\ [IdleTask EXCEPT !.kind = kind, !.began = Current].began = Current
      BY <1>0 DEF IdleTask, Task, Stage, Kind, Account, InFlight
    <3>3. QED
      BY <1>0, <2>1, <3>1, <3>2, CurrentOlder DEF Get
  <2>4. CASE PostMessage(h)
    <3>1. Ages([IdleTask EXCEPT !.stage = "body", !.kind = "messages", !.began = Current],
               Current)
      BY CurrentOlder DEF IdleTask, Ages
    <3>2. QED
      BY <1>0, <1>1, <2>4, <3>1, CurrentOlder
      DEF PostMessage, EnsureConnectionScope, credential
  <2>5. CASE BodyRead(h)
    <3>1. Older(task[h].began, Current)
      BY <1>0, <2>5, CurrentOlder DEF BodyRead, Ages, InFlight, Older, TypeOK
    <3>2. QED
      BY <1>0, <2>1, <2>5, <3>1 DEF BodyRead, InFlight
  <2>6. CASE BodyRefused(h) \/ UpstreamSucceeds(h) \/ UpstreamFails(h)
    BY <1>0, <1>1, <2>0, <2>6, IdleAges
    DEF BodyRefused, UpstreamSucceeds, UpstreamFails, scope, credential
  <2>7. CASE DiscoveryNotModified(h)
    BY <2>2, <2>7 DEF DiscoveryNotModified
  <2>8. CASE DiscoveryFails(h) \/ ListUnusable(h)
    BY <2>2, <2>8 DEF DiscoveryFails, ListUnusable
  <2>9. CASE \E etag \in BOOLEAN : DiscoverySucceeds(h, etag)
    BY <2>2, <2>9 DEF DiscoverySucceeds
  <2>10. CASE \E etag \in BOOLEAN : DiscoveryAsksDetails(h, etag)
    <3>1. PICK etag \in BOOLEAN : DiscoveryAsksDetails(h, etag)
      BY <2>10
    <3> DEFINE next == [task[h] EXCEPT !.stage = "details", !.tagged = etag,
                                       !.list = task[h].cred, !.cred = Current]
    <3>2. task[h].asked \in Accounts /\ task[h].began \in Accounts
          /\ Older(task[h].asked, Current) /\ Older(task[h].began, Current)
      BY <1>0, <3>1, CurrentOlder DEF DiscoveryAsksDetails, InFlight, Ages, Older, TypeOK
    <3>3. Ages(next, Current)
      BY <1>0, <3>2, CurrentOlder DEF Ages, Task
    <3>4. task' = [task EXCEPT ![h] = next]
      BY <1>0, <3>1 DEF DiscoveryAsksDetails, TypeOK, Task
    <3>5. active' = Current /\ UNCHANGED born
      BY <3>1 DEF DiscoveryAsksDetails, EnsureConnectionScope, credential
    <3> HIDE DEF next
    <3>6. QED
      BY <1>0, <1>1, <3>3, <3>4, <3>5, CurrentOlder
  <2>11. CASE \E extra \in Account : DetailsReturn(h, extra)
    BY <2>2, <2>11 DEF DetailsReturn
  <2>12. QED
    BY <2>3, <2>4, <2>5, <2>6, <2>7, <2>8, <2>9, <2>10, <2>11 DEF HandlerStep
<1>2. ASSUME NEW g \in Handlers PROVE Ages(task'[g], b)
  <2>1. CASE g = h
    BY <1>0, <1>1, <2>1 DEF TypeOK
  <2>2. CASE g # h
    <3>1. task'[g] = task[g]
      BY <1>0, <1>1, <2>2 DEF TypeOK
    <3>2. task[g] \in Task /\ InFlight(task[g]) /\ Ages(task[g], active)
      BY DEF AgeInv, IsolationInv, TypeOK, TasksInFlight, TaskAges
    <3>3. QED
      BY <1>0, <1>1, <3>1, <3>2, AgesGrow
  <2>3. QED
    BY <2>1, <2>2
<1>3. QED
  BY <1>1, <1>2 DEF TaskAges, Ages, Older

\* A handler step leaves the credential alone and moves active at most to Current.
LEMMA HandlerStepScope ==
  ASSUME NEW h \in Handlers, HandlerStep(h)
  PROVE  UNCHANGED credential /\ (EnsureConnectionScope \/ UNCHANGED <<held, live, active>>)
<1>1. ASSUME NEW t, GetCatalog(h, t) PROVE UNCHANGED credential /\ EnsureConnectionScope
  BY <1>1 DEF GetCatalog
<1>2. ASSUME NEW c, CatalogReturns(h, c)
      PROVE  UNCHANGED credential /\ (EnsureConnectionScope \/ UNCHANGED <<held, live, active>>)
  BY <1>2 DEF CatalogReturns, scope
<1>3. QED
  BY <1>1, <1>2 DEF HandlerStep, Get, PostMessage, BodyRead, BodyRefused, DiscoveryNotModified,
     DiscoveryFails, DiscoverySucceeds, DiscoveryAsksDetails, DetailsReturn, ListUnusable,
     UpstreamSucceeds, UpstreamFails, scope

LEMMA ScopeBirthOrder ==
  ASSUME AgeInv, UNCHANGED credential, EnsureConnectionScope \/ UNCHANGED <<held, live, active>>
  PROVE  BirthOrder'
<1>1. CASE EnsureConnectionScope
  BY <1>1, CurrentOlder DEF EnsureConnectionScope, credential, AgeInv, IsolationInv, TypeOK,
                            BirthOrder, Older, Current
<1>2. CASE UNCHANGED <<held, live, active>>
  BY <1>2 DEF credential, AgeInv, BirthOrder, Older
<1>3. QED
  BY <1>1, <1>2

\* A fresh credential is younger than all that are remembered.
LEMMA RotateAges ==
  ASSUME AgeInv, ~CredentialsReturn, NEW a \in Accounts, Rotate(a)
  PROVE  BirthOrder' /\ TaskAges'
<1>1. /\ stored' = a /\ epoch' = epoch + 1 /\ born[a] = 0
      /\ born' = [born EXCEPT ![a] = epoch + 1]
      /\ held' = held /\ active' = active /\ task' = task
  BY DEF Rotate, scope
<1>2. /\ TypeOK /\ BirthOrder /\ born \in [Accounts -> Nat] /\ epoch \in Nat
      /\ active \in Accounts /\ stored \in Accounts
  BY DEF AgeInv, IsolationInv, TypeOK
<1>3. ASSUME NEW x \in Accounts, NEW y \in Accounts, Older(x, y) PROVE Older(x, y)'
  BY <1>1, <1>2, <1>3 DEF Older
<1>4. BirthOrder'
  <2>1. Older(active, a)'
    BY <1>1, <1>2 DEF BirthOrder, Older
  <2>2. \A x, y \in Accounts : born'[x] = born'[y] /\ born'[x] # 0 => x = y
    BY <1>1, <1>2 DEF BirthOrder
  <2>3. QED
    BY <1>1, <1>2, <2>1, <2>2 DEF BirthOrder, Older
<1>5. TaskAges'
  <2>1. ASSUME NEW h \in Handlers PROVE Ages(task[h], active)'
    <3>1. InFlight(task[h]) /\ Ages(task[h], active)
      BY DEF AgeInv, IsolationInv, TasksInFlight, TaskAges
    <3>2. QED
      BY <1>1, <1>2, <1>3, <3>1 DEF Ages, InFlight
  <2>2. QED
    BY <1>1, <2>1 DEF TaskAges
<1>6. QED
  BY <1>4, <1>5

LEMMA InitAges == Init => AgeInv
<1>1. SUFFICES ASSUME Init PROVE AgeInv
  OBVIOUS
<1>2. IsolationInv
  BY <1>1, InitIsolation
<1>3. BirthOrder
  BY <1>1 DEF Init, BirthOrder, Older
<1>4. TaskAges
  BY <1>1, IdleAges DEF Init, TaskAges
<1>5. QED
  BY <1>2, <1>3, <1>4 DEF AgeInv

LEMMA NextAges == ~CredentialsReturn /\ AgeInv /\ [Next]_vars => AgeInv'
<1>1. SUFFICES ASSUME ~CredentialsReturn, AgeInv, [Next]_vars PROVE AgeInv'
  OBVIOUS
<1>2. IsolationInv'
  BY <1>1, NextIsolation DEF AgeInv
<1>3. ASSUME NEW h \in Handlers, HandlerStep(h) PROVE AgeInv'
  BY <1>1, <1>2, <1>3, HandlerStepScope, ScopeBirthOrder, HandlerStepAges DEF AgeInv
<1>4. CASE Health
  <2>1. BirthOrder'
    BY <1>1, <1>4, ScopeBirthOrder DEF Health
  <2>2. active' = Current /\ task' = task /\ born' = born /\ active \in Accounts
    BY <1>1, <1>4 DEF Health, EnsureConnectionScope, credential, AgeInv, IsolationInv, TypeOK
  <2>3. ASSUME NEW h \in Handlers PROVE Ages(task[h], Current)
    BY <1>1, <2>2, CurrentOlder, AgesGrow
    DEF AgeInv, IsolationInv, TypeOK, TasksInFlight, TaskAges
  <2>4. TaskAges'
    BY <2>2, <2>3 DEF TaskAges, Ages, Older
  <2>5. QED
    BY <1>2, <2>1, <2>4 DEF AgeInv
<1>5. ASSUME NEW a \in Accounts, Rotate(a) PROVE AgeInv'
  BY <1>1, <1>2, <1>5, RotateAges DEF AgeInv
<1>6. CASE SecretTtlLapses \/ CatalogTtlLapses \/ UNCHANGED vars
  <2>1. UNCHANGED <<stored, epoch, born, held, active, task>>
    BY <1>6 DEF SecretTtlLapses, CatalogTtlLapses, vars, scope, credential
  <2>2. QED
    BY <1>1, <1>2, <2>1 DEF AgeInv, BirthOrder, TaskAges, Ages, Older
<1>7. QED
  BY <1>1, <1>3, <1>4, <1>5, <1>6 DEF Next

\* What the code compares is enough: equal ends force the credential between them.
LEMMA Between ==
  ASSUME AgeInv, NEW x \in Accounts, Older(active, x), Older(x, active)
  PROVE  x = active
BY DEF AgeInv, IsolationInv, TypeOK, BirthOrder, Older

-----------------------------------------------------------------------------
(***************************************************************************)
(* The steps of the adapter under the refinement mapping.  Every catalog   *)
(* the handlers can leave behind is the old one or one of the active       *)
(* account, and ensureConnectionScope then keeps it or forgets everything. *)
(***************************************************************************)
ScopeStep == [Promise!ScopeNext]_(Promise!scopeVars)

Remembers(c) == c.account \in {cache.account, active}

LEMMA EnsureImplements ==
  ASSUME AgeInv, EnsureConnectionScope, NEW c, Remembers(c), cache' = Scoped(c)
  PROVE  ScopeStep
<1>1. CASE Current = active
  <2>1. active' = active /\ telemetry' = telemetry /\ cache' = c
    BY <1>1 DEF EnsureConnectionScope, Scoped, ScopedUsage
  <2>2. QED
    BY <2>1 DEF ScopeStep, Remembers, Promise!ScopeNext, Promise!Learn, Promise!scopeVars
<1>2. CASE Current # active
  <2>1. active' = Current /\ telemetry' = {} /\ cache'.account = None
    BY <1>2 DEF EnsureConnectionScope, Scoped, ScopedUsage, EmptyCache
  <2>2. QED
    BY <1>2, <2>1, CurrentOlder DEF ScopeStep, Promise!ScopeNext, Promise!Switch
<1>3. QED
  BY <1>1, <1>2

LEMMA CatalogReturnsImplements ==
  ASSUME AgeInv, NEW h \in Handlers, NEW c, Remembers(c), CatalogReturns(h, c)
  PROVE  ScopeStep
<1>1. CASE EnsureConnectionScope /\ cache' = Scoped(c)
  BY <1>1, EnsureImplements
<1>2. CASE UNCHANGED scope /\ cache' = c
  BY <1>2 DEF scope, ScopeStep, Remembers, Promise!ScopeNext, Promise!Learn, Promise!scopeVars
<1>3. QED
  BY <1>1, <1>2 DEF CatalogReturns

LEMMA HandlerStepImplements ==
  ASSUME AgeInv, NEW h \in Handlers, HandlerStep(h)
  PROVE  ScopeStep
<1>0. /\ task[h] \in Task /\ InFlight(task[h]) /\ Ages(task[h], active)
      /\ TypeOK /\ Remembers(cache)
  BY DEF AgeInv, IsolationInv, TypeOK, TasksInFlight, TaskAges, Remembers
<1>1. ASSUME NEW t, GetCatalog(h, t) PROVE ScopeStep
  BY <1>0, <1>1, EnsureImplements DEF GetCatalog
<1>2. CASE \E kind \in Kind : Get(h, kind)
  BY <1>1, <1>2 DEF Get
<1>3. CASE PostMessage(h)
  BY <1>0, <1>3, EnsureImplements DEF PostMessage
<1>4. CASE BodyRead(h)
  BY <1>1, <1>4 DEF BodyRead
<1>5. CASE BodyRefused(h) \/ UpstreamFails(h)
  BY <1>5 DEF BodyRefused, UpstreamFails, scope, ScopeStep, Promise!scopeVars
<1>6. CASE DiscoveryNotModified(h)
  <2>1. Remembers(RecordNotModified(cache, task[h].cred))
    BY <1>0 DEF RecordNotModified, Remembers, TypeOK, Cache
  <2>2. QED
    BY <1>6, <2>1, CatalogReturnsImplements DEF DiscoveryNotModified
<1>7. CASE DiscoveryFails(h) \/ ListUnusable(h)
  <2>1. \A who : Remembers(RecordFailure(cache, who))
    BY <1>0 DEF RecordFailure, Remembers, TypeOK, Cache
  <2>2. QED
    BY <1>7, <2>1, CatalogReturnsImplements DEF DiscoveryFails, ListUnusable
<1>8. CASE \E etag \in BOOLEAN : DiscoverySucceeds(h, etag)
  <2>1. PICK etag \in BOOLEAN : DiscoverySucceeds(h, etag)
    BY <1>8
  <2>2. Remembers(Admit(task[h], task[h].cred, None, etag))
    BY <1>0, <2>1 DEF DiscoverySucceeds, InFlight, Admit, RecordFresh, Remembers
  <2>3. QED
    BY <2>1, <2>2, CatalogReturnsImplements DEF DiscoverySucceeds
<1>9. CASE \E etag \in BOOLEAN : DiscoveryAsksDetails(h, etag)
  BY <1>0, <1>9, EnsureImplements DEF DiscoveryAsksDetails
<1>10. CASE \E extra \in Account : DetailsReturn(h, extra)
  <2>1. PICK extra \in Account : DetailsReturn(h, extra)
    BY <1>10
  <2>2. Remembers(Admit(task[h], task[h].list, extra, task[h].tagged))
    BY <1>0, <2>1 DEF DetailsReturn, InFlight, Admit, RecordFresh, Remembers
  <2>3. QED
    BY <2>1, <2>2, CatalogReturnsImplements DEF DetailsReturn
<1>11. CASE UpstreamSucceeds(h)
  <2>1. active' = active /\ cache' = cache /\ telemetry' = RecordUsage(task[h])
    BY <1>11 DEF UpstreamSucceeds
  <2>2. task[h].began = active => task[h].cred = active
    BY <1>0, <1>11, Between DEF UpstreamSucceeds, InFlight, Ages
  <2>3. QED
    BY <2>1, <2>2 DEF RecordUsage, ScopeStep, Promise!ScopeNext, Promise!Count, Promise!scopeVars
<1>12. QED
  BY <1>2, <1>3, <1>4, <1>5, <1>6, <1>7, <1>8, <1>9, <1>10, <1>11 DEF HandlerStep

LEMMA NextImplements == AgeInv /\ [Next]_vars => ScopeStep
<1>1. SUFFICES ASSUME AgeInv, [Next]_vars PROVE ScopeStep
  OBVIOUS
<1>2. ASSUME NEW h \in Handlers, HandlerStep(h) PROVE ScopeStep
  BY <1>1, <1>2, HandlerStepImplements
<1>3. CASE Health
  BY <1>1, <1>3, EnsureImplements DEF Health, Remembers
<1>4. CASE (\E a \in Accounts : Rotate(a)) \/ SecretTtlLapses \/ CatalogTtlLapses \/ UNCHANGED vars
  <2>1. UNCHANGED <<active, telemetry>> /\ cache'.account = cache.account
    BY <1>1, <1>4 DEF Rotate, SecretTtlLapses, CatalogTtlLapses, vars, scope, AgeInv, IsolationInv,
                      TypeOK, Cache
  <2>2. QED
    BY <2>1 DEF ScopeStep, Promise!scopeVars
<1>5. QED
  BY <1>1, <1>2, <1>3, <1>4 DEF Next

LEMMA InitImplements == Init => Promise!ScopeInit
BY DEF Init, Promise!ScopeInit, EmptyCache

(***************************************************************************)
(* Unless a replaced credential is stored again, the adapter implements    *)
(* the abstract one-account-at-a-time scope: no handler suspended across   *)
(* rotations can make it learn, or charge, for an account other than the   *)
(* active one (getCatalog, recordUsage, ensureConnectionScope).            *)
(***************************************************************************)
THEOREM Refinement == ~CredentialsReturn => (Spec => KeepsPromise)
<1>1. ~CredentialsReturn => (Spec => []AgeInv)
  <2>1. CASE ~CredentialsReturn
    <3>1. AgeInv /\ [Next]_vars => AgeInv'
      BY <2>1, NextAges
    <3>2. QED
      BY <3>1, InitAges, PTL DEF Spec
  <2>2. QED
    BY <2>1
<1>2. AgeInv /\ [Next]_vars => [Promise!ScopeNext]_(Promise!scopeVars)
  BY NextImplements DEF ScopeStep
<1>3. QED
  BY <1>1, <1>2, InitImplements, PTL DEF Spec, KeepsPromise, Promise!ScopeSpec

\* Any step of the abstract scope keeps the totals on the current account.
LEMMA ScopeStepUsage ==
  ASSUME UsageOfActiveAccount, ScopeStep
  PROVE  UsageOfActiveAccount'
BY DEF UsageOfActiveAccount, ScopeStep, Promise!ScopeNext, Promise!Switch, Promise!Learn,
       Promise!Count, Promise!scopeVars

(***************************************************************************)
(* Unless a replaced credential is stored again, tokens are charged to the *)
(* session of the credential that paid for them, whatever rotation happens *)
(* between the request and the end of its response (recordUsage).          *)
(***************************************************************************)
THEOREM UsageIsolation == ~CredentialsReturn => (Spec => []UsageOfActiveAccount)
<1>1. CASE ~CredentialsReturn
  <2>1. Init => AgeInv /\ UsageOfActiveAccount
    BY InitAges DEF Init, UsageOfActiveAccount
  <2>2. AgeInv /\ UsageOfActiveAccount /\ [Next]_vars => (AgeInv /\ UsageOfActiveAccount)'
    BY <1>1, NextAges, NextImplements, ScopeStepUsage
  <2>3. QED
    BY <2>1, <2>2, PTL DEF Spec
<1>2. QED
  BY <1>1

(***************************************************************************)
(* Unless a replaced credential is stored again, no answer of /usage and   *)
(* no message goes upstream with a credential older than the connection    *)
(* the handler was entered under, however long it waited for the catalog.  *)
(***************************************************************************)
THEOREM AnswersInOrder == ~CredentialsReturn => (Spec => []AnswersAreNotOlder)
<1>1. CASE ~CredentialsReturn
  <2>1. AgeInv /\ [Next]_vars => AgeInv'
    BY <1>1, NextAges
  <2>2. AgeInv => AnswersAreNotOlder
    BY DEF AgeInv, TaskAges, Ages, Older, AnswersAreNotOlder
  <2>3. QED
    BY <2>1, <2>2, InitAges, PTL DEF Spec
<1>2. QED
  BY <1>1

-----------------------------------------------------------------------------
OfOneAccount(c) == c.extra # None => c.extra = c.account

LEMMA ScopedOfOneAccount ==
  ASSUME NEW c, OfOneAccount(c)
  PROVE  OfOneAccount(Scoped(c))
BY DEF Scoped, EmptyCache, OfOneAccount

LEMMA CatalogReturnsOfOneAccount ==
  ASSUME NEW h \in Handlers, NEW c, OfOneAccount(c), CatalogReturns(h, c)
  PROVE  OfOneAccount(cache')
BY ScopedOfOneAccount DEF CatalogReturns

LEMMA HandlerStepOfOneAccount ==
  ASSUME AgeInv, DetailsOfCatalogAccount, NEW h \in Handlers, HandlerStep(h)
  PROVE  DetailsOfCatalogAccount'
<1>0. /\ InFlight(task[h]) /\ Ages(task[h], active) /\ OfOneAccount(cache) /\ cache \in Cache
  BY DEF AgeInv, IsolationInv, TypeOK, TasksInFlight, TaskAges, DetailsOfCatalogAccount,
         OfOneAccount
<1>1. SUFFICES OfOneAccount(cache')
  BY DEF DetailsOfCatalogAccount, OfOneAccount
<1>2. CASE \/ \E kind \in Kind : Get(h, kind)
           \/ PostMessage(h)
           \/ BodyRead(h)
           \/ \E etag \in BOOLEAN : DiscoveryAsksDetails(h, etag)
  BY <1>0, <1>2, ScopedOfOneAccount DEF Get, PostMessage, BodyRead, DiscoveryAsksDetails, GetCatalog
<1>3. CASE BodyRefused(h) \/ UpstreamSucceeds(h) \/ UpstreamFails(h)
  BY <1>0, <1>3 DEF BodyRefused, UpstreamSucceeds, UpstreamFails
<1>4. CASE DiscoveryNotModified(h)
  <2>1. OfOneAccount(RecordNotModified(cache, task[h].cred))
    BY <1>0 DEF RecordNotModified, OfOneAccount, Cache
  <2>2. QED
    BY <1>4, <2>1, CatalogReturnsOfOneAccount DEF DiscoveryNotModified
<1>5. CASE DiscoveryFails(h) \/ ListUnusable(h)
  <2>1. \A who : OfOneAccount(RecordFailure(cache, who))
    BY <1>0 DEF RecordFailure, OfOneAccount, Cache
  <2>2. QED
    BY <1>5, <2>1, CatalogReturnsOfOneAccount DEF DiscoveryFails, ListUnusable
<1>6. CASE \E etag \in BOOLEAN : DiscoverySucceeds(h, etag)
  <2>1. PICK etag \in BOOLEAN : DiscoverySucceeds(h, etag)
    BY <1>6
  <2>2. OfOneAccount(Admit(task[h], task[h].cred, None, etag))
    BY <1>0 DEF Admit, RecordFresh, OfOneAccount
  <2>3. QED
    BY <2>1, <2>2, CatalogReturnsOfOneAccount DEF DiscoverySucceeds
<1>7. CASE \E extra \in Account : DetailsReturn(h, extra)
  <2>1. PICK extra \in Account : DetailsReturn(h, extra)
    BY <1>7
  <2>2. task[h].asked = active => task[h].cred = active /\ task[h].list = active
    BY <1>0, <2>1, Between DEF DetailsReturn, InFlight, Ages
  <2>3. OfOneAccount(Admit(task[h], task[h].list, extra, task[h].tagged))
    BY <1>0, <2>1, <2>2 DEF DetailsReturn, Admit, RecordFresh, OfOneAccount
  <2>4. QED
    BY <2>1, <2>3, CatalogReturnsOfOneAccount DEF DetailsReturn
<1>8. QED
  BY <1>2, <1>3, <1>4, <1>5, <1>6, <1>7 DEF HandlerStep

LEMMA NextOfOneAccount ==
  AgeInv /\ DetailsOfCatalogAccount /\ [Next]_vars => DetailsOfCatalogAccount'
<1>1. SUFFICES ASSUME AgeInv, DetailsOfCatalogAccount, [Next]_vars
               PROVE  DetailsOfCatalogAccount'
  OBVIOUS
<1>2. ASSUME NEW h \in Handlers, HandlerStep(h) PROVE DetailsOfCatalogAccount'
  BY <1>1, <1>2, HandlerStepOfOneAccount
<1>3. CASE Health
  BY <1>1, <1>3, ScopedOfOneAccount DEF Health, DetailsOfCatalogAccount, OfOneAccount
<1>4. CASE (\E a \in Accounts : Rotate(a)) \/ SecretTtlLapses \/ CatalogTtlLapses \/ UNCHANGED vars
  BY <1>1, <1>4 DEF Rotate, SecretTtlLapses, CatalogTtlLapses, vars, AgeInv, IsolationInv, TypeOK,
                    Cache, DetailsOfCatalogAccount
<1>5. QED
  BY <1>1, <1>2, <1>3, <1>4 DEF Next

(***************************************************************************)
(* Unless a replaced credential is stored again, the cached catalog is     *)
(* never a model list of one account with the details of another, although *)
(* the two come from two requests with an await between them and only the  *)
(* connection of the first is compared (getCatalog).                       *)
(***************************************************************************)
THEOREM NoBlend == ~CredentialsReturn => (Spec => []DetailsOfCatalogAccount)
<1>1. CASE ~CredentialsReturn
  <2>1. Init => AgeInv /\ DetailsOfCatalogAccount
    BY InitAges DEF Init, DetailsOfCatalogAccount, EmptyCache
  <2>2. AgeInv /\ DetailsOfCatalogAccount /\ [Next]_vars
          => (AgeInv /\ DetailsOfCatalogAccount)'
    BY <1>1, NextAges, NextOfOneAccount
  <2>3. QED
    BY <2>1, <2>2, PTL DEF Spec
<1>2. QED
  BY <1>1

-----------------------------------------------------------------------------
(***************************************************************************)
(* When answers of an earlier account decide about the catalog.  A switch  *)
(* of the account is clean if it leaves no discovery in flight that was    *)
(* asked for under another account.                                        *)
(***************************************************************************)
Discovering(t) == t.stage \in {"fetch", "details"}

CleanSwitch ==
  active' # active => \A h \in Handlers : Discovering(task'[h]) => task'[h].asked = active'

FetchesAreCurrent ==
  \A h \in Handlers : Discovering(task[h]) => task[h].asked = active

JudgedByOwn(c) == c.account # None => c.by = c.account

LEMMA ScopedJudged ==
  ASSUME NEW c, JudgedByOwn(c)
  PROVE  JudgedByOwn(Scoped(c))
BY DEF Scoped, EmptyCache, JudgedByOwn

LEMMA CatalogReturnsJudged ==
  ASSUME NEW h \in Handlers, NEW c, JudgedByOwn(c), CatalogReturns(h, c)
  PROVE  JudgedByOwn(cache')
BY ScopedJudged DEF CatalogReturns

LEMMA HandlerStepJudged ==
  ASSUME IsolationInv, FetchesAreCurrent, JudgedByOwn(cache), NEW h \in Handlers, HandlerStep(h)
  PROVE  JudgedByOwn(cache')
<1>0. cache \in Cache /\ OfAccount(cache, active) /\ InFlight(task[h])
  BY DEF IsolationInv, TypeOK, TasksInFlight, CatalogOfActiveAccount, OfAccount
<1>1. CASE \/ \E kind \in Kind : Get(h, kind)
           \/ PostMessage(h)
           \/ BodyRead(h)
           \/ \E etag \in BOOLEAN : DiscoveryAsksDetails(h, etag)
  BY <1>1, ScopedJudged DEF Get, PostMessage, BodyRead, DiscoveryAsksDetails, GetCatalog
<1>2. CASE BodyRefused(h) \/ UpstreamSucceeds(h) \/ UpstreamFails(h)
  BY <1>2 DEF BodyRefused, UpstreamSucceeds, UpstreamFails
<1>3. CASE DiscoveryNotModified(h)
  <2>1. JudgedByOwn(RecordNotModified(cache, task[h].cred))
    BY <1>0, <1>3 DEF DiscoveryNotModified, FetchesAreCurrent, Discovering, InFlight,
                      RecordNotModified, JudgedByOwn, OfAccount, Cache
  <2>2. QED
    BY <1>3, <2>1, CatalogReturnsJudged DEF DiscoveryNotModified
<1>4. CASE DiscoveryFails(h) \/ ListUnusable(h)
  <2>1. PICK who : CatalogReturns(h, RecordFailure(cache, who)) /\ who = active
    BY <1>0, <1>4 DEF DiscoveryFails, ListUnusable, FetchesAreCurrent, Discovering, InFlight
  <2>2. JudgedByOwn(RecordFailure(cache, who))
    BY <1>0, <2>1 DEF RecordFailure, JudgedByOwn, OfAccount, Cache
  <2>3. QED
    BY <2>1, <2>2, CatalogReturnsJudged
<1>5. ASSUME NEW t, NEW list, NEW extra, NEW etag
      PROVE  JudgedByOwn(Admit(t, list, extra, etag))
  BY DEF Admit, RecordFresh, JudgedByOwn
<1>6. CASE \E etag \in BOOLEAN : DiscoverySucceeds(h, etag)
  <2>1. PICK etag \in BOOLEAN : DiscoverySucceeds(h, etag)
    BY <1>6
  <2>2. JudgedByOwn(Admit(task[h], task[h].cred, None, etag))
    BY <1>5
  <2>3. QED
    BY <2>1, <2>2, CatalogReturnsJudged DEF DiscoverySucceeds
<1>7. CASE \E extra \in Account : DetailsReturn(h, extra)
  <2>1. PICK extra \in Account : DetailsReturn(h, extra)
    BY <1>7
  <2>2. JudgedByOwn(Admit(task[h], task[h].list, extra, task[h].tagged))
    BY <1>5
  <2>3. QED
    BY <2>1, <2>2, CatalogReturnsJudged DEF DetailsReturn
<1>8. QED
  BY <1>1, <1>2, <1>3, <1>4, <1>6, <1>7 DEF HandlerStep

LEMMA GetCatalogAsks ==
  ASSUME TypeOK, NEW h \in Handlers, NEW t \in Task, GetCatalog(h, t)
  PROVE  \A g \in Handlers : Discovering(task'[g]) => task'[g] = task[g] \/ task'[g].asked = active'
<1>1. task' = [task EXCEPT ![h] = task'[h]] /\ active' = Current /\ task \in [Handlers -> Task]
  BY DEF GetCatalog, EnsureConnectionScope, TypeOK
<1>2. ~Discovering(Served(t))
  BY DEF Served, IdleTask, Task, Discovering
<1>3. Discovering(task'[h]) => task'[h].asked = Current
  BY <1>2 DEF GetCatalog, TypeOK, Task
<1>4. QED
  BY <1>1, <1>3

LEMMA CatalogReturnsAsks ==
  ASSUME TypeOK, NEW h \in Handlers, NEW c, CatalogReturns(h, c)
  PROVE  \A g \in Handlers : Discovering(task'[g]) => task'[g] = task[g]
<1>1. task[h] \in Task /\ task' = [task EXCEPT ![h] = Served(task[h])]
  BY DEF TypeOK, CatalogReturns
<1>2. ~Discovering(Served(task[h]))
  BY <1>1 DEF Served, IdleTask, Task, Discovering
<1>3. QED
  BY <1>1, <1>2 DEF TypeOK

\* What is asked for after a step was so before, or is of the account of now.
Continues(g) ==
  Discovering(task'[g]) =>
    \/ task'[g].asked = active'
    \/ Discovering(task[g]) /\ task'[g].asked = task[g].asked

LEMMA HandlerStepAsks ==
  ASSUME TypeOK, NEW h \in Handlers, HandlerStep(h)
  PROVE  \A g \in Handlers : Continues(g)
<1>0. task \in [Handlers -> Task] /\ task[h] \in Task
  BY DEF TypeOK
<1>1. CASE \E kind \in Kind : Get(h, kind)
  <2>1. PICK kind \in Kind : Get(h, kind)
    BY <1>1
  <2>2. [IdleTask EXCEPT !.kind = kind, !.began = Current] \in Task
    BY IdleTaskType, CurrentType DEF Task, Account
  <2>3. QED
    BY <2>1, <2>2, GetCatalogAsks DEF Get, Continues
<1>2. CASE BodyRead(h)
  BY <1>0, <1>2, GetCatalogAsks DEF BodyRead, Continues
<1>3. CASE PostMessage(h) \/ BodyRefused(h) \/ UpstreamSucceeds(h) \/ UpstreamFails(h)
  <2>1. PICK t : task' = [task EXCEPT ![h] = t] /\ ~Discovering(t)
    <3>1. CASE PostMessage(h)
      <4>1. ~Discovering([IdleTask EXCEPT !.stage = "body", !.kind = "messages", !.began = Current])
        BY DEF IdleTask, Discovering
      <4>2. QED
        BY <3>1, <4>1 DEF PostMessage
    <3>2. CASE ~PostMessage(h)
      <4>1. ~Discovering(IdleTask)
        BY DEF IdleTask, Discovering
      <4>2. QED
        BY <1>3, <3>2, <4>1 DEF BodyRefused, UpstreamSucceeds, UpstreamFails
    <3>3. QED
      BY <3>1, <3>2
  <2>2. QED
    BY <1>0, <2>1 DEF Continues
<1>4. CASE \E etag \in BOOLEAN : DiscoveryAsksDetails(h, etag)
  BY <1>0, <1>4 DEF DiscoveryAsksDetails, Task, Continues, Discovering
<1>5. CASE \/ DiscoveryNotModified(h) \/ DiscoveryFails(h) \/ ListUnusable(h)
           \/ \E etag \in BOOLEAN : DiscoverySucceeds(h, etag)
           \/ \E extra \in Account : DetailsReturn(h, extra)
  BY <1>5, CatalogReturnsAsks DEF DiscoveryNotModified, DiscoveryFails, DiscoverySucceeds,
     DetailsReturn, ListUnusable, Continues
<1>6. QED
  BY <1>1, <1>2, <1>3, <1>4, <1>5 DEF HandlerStep

LEMMA NextJudged ==
  ASSUME IsolationInv, FetchesAreCurrent, JudgedByOwn(cache), [Next]_vars, [CleanSwitch]_vars
  PROVE  FetchesAreCurrent' /\ JudgedByOwn(cache')
<1>1. TypeOK /\ cache \in Cache
  BY DEF IsolationInv, TypeOK
<1>2. \A g \in Handlers : Continues(g)
  <2>1. ASSUME NEW h \in Handlers, HandlerStep(h) PROVE  \A g \in Handlers : Continues(g)
    BY <1>1, <2>1, HandlerStepAsks
  <2>2. CASE UNCHANGED task
    BY <2>2 DEF Continues
  <2>3. QED
    BY <2>1, <2>2 DEF Next, Health, Rotate, SecretTtlLapses, CatalogTtlLapses, vars
<1>3. active' # active => \A g \in Handlers : Discovering(task'[g]) => task'[g].asked = active'
  BY DEF CleanSwitch, vars
<1>4. FetchesAreCurrent'
  BY <1>2, <1>3 DEF FetchesAreCurrent, Continues
<1>5. JudgedByOwn(cache')
  <2>1. CASE Health
    BY <2>1, ScopedJudged DEF Health
  <2>2. CASE (\E a \in Accounts : Rotate(a)) \/ SecretTtlLapses \/ CatalogTtlLapses \/ UNCHANGED vars
    BY <1>1, <2>2 DEF Rotate, SecretTtlLapses, CatalogTtlLapses, vars, Cache, JudgedByOwn
  <2>3. QED
    BY <2>1, <2>2, HandlerStepJudged DEF Next
<1>6. QED
  BY <1>4, <1>5

(***************************************************************************)
(* The catalog's freshness and failures are judged by its own account as   *)
(* long as no discovery outlives a change of the account: the only way to  *)
(* a foreign verdict is a 304, a failure or an unusable list that comes in *)
(* after the switch (getCatalog, which compares the connection for a 200   *)
(* only, and after it has read the list).                                  *)
(***************************************************************************)
THEOREM OnlyOvertakenVerdictsStray ==
  Spec /\ [][CleanSwitch]_vars => []VerdictOfActiveAccount
<1> DEFINE Inv == IsolationInv /\ FetchesAreCurrent /\ JudgedByOwn(cache)
<1>1. Init => Inv
  BY InitIsolation DEF Init, FetchesAreCurrent, Discovering, IdleTask, JudgedByOwn, EmptyCache
<1>2. Inv /\ [Next]_vars /\ [CleanSwitch]_vars => Inv'
  BY NextIsolation, NextJudged DEF JudgedByOwn
<1>3. Inv => VerdictOfActiveAccount
  BY DEF JudgedByOwn, VerdictOfActiveAccount
<1>4. QED
  BY <1>1, <1>2, <1>3, PTL DEF Spec
=============================================================================
