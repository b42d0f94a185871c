--------------------------- MODULE Launcher_proofs ---------------------------
(***************************************************************************)
(* Proofs about the launcher for every number of recoveries, launches,     *)
(* ports, and processes.                                                   *)
(***************************************************************************)
EXTENDS Launcher, TLAPS

(***************************************************************************)
(* The inductive invariant.  Its last part holds from the activation of a  *)
(* client until the launcher stops or starts anew: everything that can     *)
(* tell the launcher or a recovered adapter an address tells the client's. *)
(***************************************************************************)
BusyWithOurs == ui # "idle" => ours \in Slots

RealPorts == \A s \in Slots : Listens(s) => adapter[s].at.port \in Ports

ClientsKnown ==
  /\ \A n \in Clients : Runs(n) => n <= launches
  /\ \A n \in spared : Runs(n)
  /\ launches \in spared => stopping

Settled ==
  /\ strays = {}
  /\ launches \in Clients \ spared
  /\ Runs(launches)
  /\ client[launches].port \notin taken
  /\ ui = "idle" \/ recovery

ClientSettled ==
  Settled =>
    /\ client[launches].port \in Ports
    /\ known = client[launches]
    /\ runtime \in {Nowhere, client[launches]}
    /\ \A s \in Slots : Alive(s) => adapter[s].at = client[launches]

LauncherInv ==
  /\ TypeOK
  /\ NoStrayAdapter
  /\ StopIsFinal
  /\ BusyWithOurs
  /\ RealPorts
  /\ ClientsKnown
  /\ ClientSettled

-----------------------------------------------------------------------------
\* What the operators shared by several actions do.

LEMMA NowhereIsAddress == Nowhere \in Address
BY LauncherAssumption DEF Nowhere, Address, Tokens

LEMMA ReadIsAddress == TypeOK => ReadRuntimeState \in Address
BY DEF TypeOK, ReadRuntimeState

LEMMA InitLauncher == Init => LauncherInv
<1> SUFFICES ASSUME Init PROVE LauncherInv
  OBVIOUS
<1>1. adapter \in [Slots -> Adapter]
  <2>1. [stage |-> "gone", at |-> Nowhere] \in Adapter
    BY NowhereIsAddress DEF Adapter
  <2>2. QED
    BY <2>1 DEF Init
<1>2. TypeOK
  <2>1. attempts \in 0 .. MaxRestarts /\ launches \in Tokens
    BY LauncherAssumption DEF Init, Tokens
  <2>2. recovery \in BOOLEAN /\ stopping \in BOOLEAN /\ refreshing \in BOOLEAN
    BY DEF Init
  <2>3. /\ ui \in {"idle", "polling", "checking", "activating"}
        /\ ours \in Slots \cup {None}
        /\ taken \in SUBSET Ports
        /\ spared \in SUBSET Clients
        /\ strays \in SUBSET Slots
    BY DEF Init
  <2>4. known \in Address /\ runtime \in Address /\ client \in [Clients -> Address]
    BY NowhereIsAddress DEF Init
  <2>5. QED
    BY <1>1, <2>1, <2>2, <2>3, <2>4 DEF TypeOK
<1>3. \A s \in Slots : adapter[s].stage = "gone"
  BY DEF Init
<1>4. \A s \in Slots : ~Alive(s) /\ ~Listens(s)
  BY <1>3 DEF Alive, Listens
<1>5. \A n \in Clients : ~Runs(n)
  BY DEF Init, Runs
<1>6. QED
  BY <1>2, <1>4, <1>5 DEF Init, LauncherInv, NoStrayAdapter, StopIsFinal, BusyWithOurs,
     RealPorts, ClientsKnown, ClientSettled, Settled

\* While the client is settled, reading the file changes nothing.
LEMMA ReadIsKnown == ClientSettled /\ Settled => ReadRuntimeState = known
BY DEF ClientSettled, ReadRuntimeState

\* What a stop leaves, whatever its kills miss.
LEMMA KillLeaves ==
  ASSUME TypeOK, NoStrayAdapter, RealPorts, ClientsKnown, KillAll
  PROVE  /\ adapter' \in [Slots -> Adapter]
         /\ strays' \in SUBSET Slots
         /\ \A s \in Slots : (Alive(s))' => s \in strays'
         /\ \A s \in Slots : (Listens(s))' => adapter'[s].at.port \in Ports
         /\ client' \in [Clients -> Address]
         /\ spared' \in SUBSET Clients
         /\ \A n \in Clients : (Runs(n))' <=> n \in spared'
         /\ \A n \in Clients : (Runs(n))' => n <= launches
<1>1. PICK left \in SUBSET {n \in Clients : Runs(n)} :
        /\ client' = [n \in Clients |-> IF n \in left THEN client[n] ELSE Nowhere]
        /\ spared' = left
  BY DEF KillAll, KillClients
<1>2. \A n \in Clients : client'[n] = IF n \in left THEN client[n] ELSE Nowhere
  BY <1>1
<1>3. \A n \in Clients : (Runs(n))' <=> n \in spared'
  BY <1>1, <1>2 DEF Runs
<1>4. client' \in [Clients -> Address]
  BY <1>1, <1>2, NowhereIsAddress DEF TypeOK
<1>5. \A n \in Clients : (Runs(n))' => n <= launches
  BY <1>1, <1>3 DEF ClientsKnown
<1>6. /\ adapter' \in [Slots -> Adapter]
      /\ strays' \in SUBSET Slots
      /\ \A s \in Slots : (Alive(s))' => s \in strays'
      /\ \A s \in Slots : (Listens(s))' => adapter'[s].at.port \in Ports
  <2>1. CASE /\ adapter' = [s \in Slots |-> IF s = ours THEN [adapter[s] EXCEPT !.stage = "gone"]
                                            ELSE adapter[s]]
             /\ UNCHANGED strays
    <3>1. \A s \in Slots : adapter'[s] \in Adapter
      BY <2>1 DEF TypeOK, Adapter
    <3>2. \A s \in Slots : (Alive(s))' => s # ours /\ adapter'[s] = adapter[s]
      BY <2>1 DEF TypeOK, Adapter, Alive
    <3>3. \A s \in Slots : (Listens(s))' => (Alive(s))' /\ adapter'[s] = adapter[s]
      BY <3>2 DEF Listens, Alive
    <3>4. \A s \in Slots : (Alive(s))' => s \in strays'
      BY <2>1, <3>2 DEF NoStrayAdapter, Alive
    <3>5. \A s \in Slots : (Listens(s))' => adapter'[s].at.port \in Ports
      BY <3>3 DEF RealPorts, Listens
    <3>6. QED
      BY <2>1, <3>1, <3>4, <3>5 DEF TypeOK
  <2>2. CASE /\ ours \in {s \in Slots : Alive(s)}
             /\ strays' = strays \cup {ours}
             /\ UNCHANGED adapter
    BY <2>2 DEF TypeOK, NoStrayAdapter, RealPorts, Alive, Listens
  <2>3. QED
    BY <2>1, <2>2 DEF KillAll, KillAdapter
<1>7. QED
  BY <1>1, <1>3, <1>4, <1>5, <1>6

\* Stopping re-establishes the invariant from anywhere.
LEMMA RetireSound ==
  ASSUME LauncherInv, Retire, attempts' \in 0 .. MaxRestarts
  PROVE  LauncherInv'
<1>1. TypeOK /\ NoStrayAdapter /\ RealPorts /\ ClientsKnown /\ KillAll
  BY DEF LauncherInv, Retire
<1>2. /\ adapter' \in [Slots -> Adapter]
      /\ strays' \in SUBSET Slots
      /\ \A s \in Slots : (Alive(s))' => s \in strays'
      /\ \A s \in Slots : (Listens(s))' => adapter'[s].at.port \in Ports
      /\ client' \in [Clients -> Address]
      /\ spared' \in SUBSET Clients
      /\ \A n \in Clients : (Runs(n))' <=> n \in spared'
      /\ \A n \in Clients : (Runs(n))' => n <= launches
  BY <1>1, KillLeaves
<1>3. TypeOK'
  BY <1>1, <1>2, NowhereIsAddress DEF TypeOK, Retire, DeleteRuntime
<1>4. NoStrayAdapter' /\ StopIsFinal'
  BY <1>2 DEF Retire, NoStrayAdapter, StopIsFinal
<1>5. BusyWithOurs' /\ RealPorts'
  BY <1>2 DEF Retire, BusyWithOurs, RealPorts
<1>6. ClientsKnown'
  BY <1>2 DEF Retire, ClientsKnown
<1>7. ClientSettled'
  BY <1>2 DEF ClientSettled, Settled
<1>8. QED
  BY <1>3, <1>4, <1>5, <1>6, <1>7 DEF LauncherInv

LEMMA StopSound == LauncherInv /\ StopProcesses => LauncherInv'
BY RetireSound DEF StopProcesses, LauncherInv, TypeOK

\* With none but missed adapters alive, one more is ours.
LEMMA StartSound ==
  ASSUME TypeOK, NoStrayAdapter, Exited, RealPorts,
         NEW port \in Ports \cup {0}, NEW token \in Tokens, StartAdapter(port, token)
  PROVE  /\ adapter' \in [Slots -> Adapter]
         /\ runtime' \in Address
         /\ runtime' \in {Nowhere, runtime}
         /\ ours' \in Slots
         /\ strays' = strays => NoStrayAdapter'
         /\ RealPorts'
         /\ \A s \in Slots :
              (Alive(s))' /\ s \notin strays => adapter'[s].at = [port |-> port, token |-> token]
<1>1. \A s \in Slots : Alive(s) => s \in strays
  BY DEF NoStrayAdapter, Exited
<1> DEFINE new == [stage |-> "starting", at |-> [port |-> port, token |-> token]]
<1>2. PICK s \in Slots : ours' = s /\ adapter' = [adapter EXCEPT ![s] = new]
  BY DEF StartAdapter
<1>3. new \in Adapter
  BY DEF Adapter, Address
<1>4. runtime' \in {Nowhere, runtime} /\ runtime' \in Address
  BY NowhereIsAddress DEF StartAdapter, DeleteRuntime, TypeOK
<1>5. \A r \in Slots : adapter'[r] = IF r = s THEN new ELSE adapter[r]
  BY <1>2 DEF TypeOK
<1>6. adapter' \in [Slots -> Adapter]
  BY <1>2, <1>3 DEF TypeOK
<1>7. \A r \in Slots : (Alive(r))' => r = s \/ r \in strays
  BY <1>1, <1>5 DEF Alive
<1>8. \A r \in Slots : (Listens(r))' => Listens(r) /\ adapter'[r] = adapter[r]
  BY <1>5 DEF Listens
<1>9. QED
  BY <1>2, <1>4, <1>5, <1>6, <1>7, <1>8 DEF NoStrayAdapter, RealPorts

-----------------------------------------------------------------------------
\* The steps of the launcher.

LEMMA LaunchSound == LauncherInv /\ LaunchClick => LauncherInv'
<1> SUFFICES ASSUME LauncherInv, LaunchClick PROVE LauncherInv'
  OBVIOUS
<1>1. FreshToken \in Tokens /\ 0 \in Ports \cup {0}
  BY LauncherAssumption DEF LauncherInv, TypeOK, LaunchClick, FreshToken, Tokens
<1>2. TypeOK /\ NoStrayAdapter /\ Exited /\ RealPorts /\ StartAdapter(0, FreshToken)
  BY DEF LauncherInv, LaunchClick
<1>3. /\ adapter' \in [Slots -> Adapter]
      /\ runtime' \in Address
      /\ ours' \in Slots
      /\ strays' = strays => NoStrayAdapter'
      /\ RealPorts'
  BY <1>1, <1>2, StartSound
<1>4. known' \in Address
  BY <1>1, <1>2 DEF LaunchClick, TypeOK, Address
<1>5. TypeOK'
  BY <1>1, <1>2, <1>3, <1>4 DEF LaunchClick, TypeOK, others, missed
<1>6. NoStrayAdapter' /\ StopIsFinal' /\ BusyWithOurs' /\ ClientSettled'
  BY <1>3 DEF LaunchClick, StopIsFinal, BusyWithOurs, ClientSettled, Settled, others, missed
<1>7. ClientsKnown'
  <2>1. /\ launches \in Nat /\ launches' = launches + 1
        /\ client' = client /\ spared' = spared /\ spared \subseteq Clients
    BY LauncherAssumption DEF LauncherInv, TypeOK, LaunchClick, FreshToken, others, missed, Tokens
  <2>2. \A n \in Clients : Runs(n) => n <= launches
    BY DEF LauncherInv, ClientsKnown
  <2>3. \A n \in Clients : n <= launches => n <= launches + 1 /\ n # launches + 1
    BY <2>1 DEF Clients
  <2>4. \A n \in spared : Runs(n)
    BY DEF LauncherInv, ClientsKnown
  <2>5. QED
    BY <2>1, <2>2, <2>3, <2>4 DEF ClientsKnown, Runs
<1>8. QED
  BY <1>3, <1>5, <1>6, <1>7 DEF LauncherInv

LEMMA RecoverSound == LauncherInv /\ Recover => LauncherInv'
<1> SUFFICES ASSUME LauncherInv, Recover PROVE LauncherInv'
  OBVIOUS
<1>1. known.port \in Ports \cup {0} /\ known.token \in Tokens
      /\ known = [port |-> known.port, token |-> known.token]
  BY DEF LauncherInv, TypeOK, Address
<1>2. TypeOK /\ NoStrayAdapter /\ RealPorts /\ StartAdapter(known.port, known.token)
  BY DEF LauncherInv, Recover, RestartAddress
<1>3. Exited
  BY DEF Recover, Exited
<1>4. /\ adapter' \in [Slots -> Adapter]
      /\ runtime' \in Address
      /\ runtime' \in {Nowhere, runtime}
      /\ ours' \in Slots
      /\ strays' = strays => NoStrayAdapter'
      /\ RealPorts'
      /\ \A s \in Slots : (Alive(s))' /\ s \notin strays => adapter'[s].at = known
  BY <1>1, <1>2, <1>3, StartSound
<1>5. attempts' \in 0 .. MaxRestarts
  BY LauncherAssumption DEF Recover, LauncherInv, TypeOK
<1>6. TypeOK'
  BY <1>2, <1>4, <1>5 DEF Recover, TypeOK, others, missed
<1>7. NoStrayAdapter' /\ StopIsFinal' /\ BusyWithOurs' /\ ClientsKnown'
  BY <1>4 DEF LauncherInv, Recover, StopIsFinal, BusyWithOurs, ClientsKnown, Runs, others, missed
<1>8. ClientSettled'
  BY <1>4 DEF Recover, LauncherInv, ClientSettled, Settled, Runs, others, missed
<1>9. QED
  BY <1>4, <1>6, <1>7, <1>8 DEF LauncherInv

LEMMA RecoveryCannotStartSound == LauncherInv /\ RecoveryCannotStart => LauncherInv'
<1> SUFFICES ASSUME LauncherInv, RecoveryCannotStart PROVE LauncherInv'
  OBVIOUS
<1>1. \A s \in Slots : Alive(s) => s \in strays
  BY DEF LauncherInv, NoStrayAdapter, RecoveryCannotStart
<1>2. attempts' \in 0 .. MaxRestarts
  BY LauncherAssumption DEF RecoveryCannotStart, LauncherInv, TypeOK
<1>3. TypeOK'
  BY <1>2, NowhereIsAddress
     DEF RecoveryCannotStart, LauncherInv, TypeOK, DeleteRuntime, others, missed
<1>4. NoStrayAdapter' /\ RealPorts' /\ StopIsFinal' /\ BusyWithOurs' /\ ClientsKnown'
  BY <1>1 DEF RecoveryCannotStart, LauncherInv, NoStrayAdapter, RealPorts, StopIsFinal,
     BusyWithOurs, ClientsKnown, Runs, Alive, Listens, others, missed
<1>5. ClientSettled'
  BY DEF RecoveryCannotStart, LauncherInv, ClientSettled, Settled, Runs, DeleteRuntime, Alive,
     others, missed
<1>6. QED
  BY <1>3, <1>4, <1>5 DEF LauncherInv

LEMMA NotReadySound == LauncherInv /\ ui # "idle" /\ NotReady => LauncherInv'
<1> SUFFICES ASSUME LauncherInv, ui # "idle", NotReady PROVE LauncherInv'
  OBVIOUS
<1>1. CASE ~recovery
  BY <1>1, StopSound DEF NotReady, LauncherInv
<1>2. CASE recovery
  <2>1. TypeOK'
    BY <1>2 DEF NotReady, LauncherInv, TypeOK, others, missed
  <2>2. NoStrayAdapter' /\ RealPorts'
    BY <1>2 DEF NotReady, LauncherInv, NoStrayAdapter, RealPorts, Alive, Listens, others,
       missed
  <2>3. StopIsFinal' /\ BusyWithOurs' /\ ClientsKnown'
    BY <1>2 DEF NotReady, LauncherInv, StopIsFinal, BusyWithOurs, ClientsKnown, Runs, others,
       missed
  <2>4. ClientSettled'
    BY <1>2 DEF NotReady, LauncherInv, ClientSettled, Settled, Runs, Alive, others, missed
  <2>5. QED
    BY <2>1, <2>2, <2>3, <2>4 DEF LauncherInv
<1>3. QED
  BY <1>1, <1>2

LEMMA PollSound == LauncherInv /\ Poll => LauncherInv'
<1> SUFFICES ASSUME LauncherInv, Poll PROVE LauncherInv'
  OBVIOUS
<1>1. TypeOK'
  BY ReadIsAddress DEF LauncherInv, Poll, TypeOK, others, missed
<1>2. NoStrayAdapter' /\ RealPorts' /\ StopIsFinal' /\ BusyWithOurs' /\ ClientsKnown'
  BY DEF Poll, LauncherInv, NoStrayAdapter, RealPorts, StopIsFinal, BusyWithOurs,
     ClientsKnown, Runs, Alive, Listens, others, missed
<1>3. ClientSettled'
  BY ReadIsKnown DEF Poll, LauncherInv, ClientSettled, Settled, Runs, Alive, others, missed
<1>4. QED
  BY <1>1, <1>2, <1>3 DEF LauncherInv

LEMMA PassesSound == LauncherInv /\ (CheckPasses \/ RecoveryPasses) => LauncherInv'
<1> SUFFICES ASSUME LauncherInv, CheckPasses \/ RecoveryPasses PROVE LauncherInv'
  OBVIOUS
<1>1. attempts' \in 0 .. MaxRestarts
  BY LauncherAssumption DEF LauncherInv, TypeOK, CheckPasses, RecoveryPasses
<1>2. TypeOK'
  BY <1>1 DEF LauncherInv, TypeOK, CheckPasses, RecoveryPasses, others, missed
<1>3. NoStrayAdapter' /\ RealPorts' /\ StopIsFinal' /\ BusyWithOurs' /\ ClientsKnown'
  BY DEF CheckPasses, RecoveryPasses, LauncherInv, NoStrayAdapter, RealPorts, StopIsFinal,
     BusyWithOurs, ClientsKnown, Runs, Alive, Listens, others, missed
<1>4. ClientSettled'
  BY DEF CheckPasses, RecoveryPasses, LauncherInv, ClientSettled, Settled, Runs, Alive, others, missed
<1>5. QED
  BY <1>2, <1>3, <1>4 DEF LauncherInv

\* The activated client is configured for an adapter that serves, which is ours
\* if none was missed, and the file, if there is one, has just told the launcher
\* the same.
LEMMA ActivateSound == LauncherInv /\ ActivateClient => LauncherInv'
<1> SUFFICES ASSUME LauncherInv, ActivateClient PROVE LauncherInv'
  OBVIOUS
<1>1. PICK s \in Slots : Listens(s) /\ adapter[s].at = known'
  BY DEF ActivateClient, Serves
<1>2. strays = {} => \A r \in Slots : Alive(r) => r = s
  BY <1>1 DEF LauncherInv, NoStrayAdapter, Listens, Alive
<1>3. known'.port \in Ports
  BY <1>1 DEF LauncherInv, RealPorts
<1>4. /\ known' \in Address
      /\ client' = [client EXCEPT ![launches] = known']
      /\ UNCHANGED <<stopping, launches, adapter, runtime, taken, spared, strays, ours>>
      /\ ui = "activating" /\ ui' = "idle"
  BY ReadIsAddress DEF LauncherInv, ActivateClient, missed
<1>5. \A n \in Clients : client'[n] = IF n = launches THEN known' ELSE client[n]
  BY <1>4 DEF LauncherInv, TypeOK
<1>6. TypeOK'
  <2>1. client' \in [Clients -> Address]
    BY <1>4 DEF LauncherInv, TypeOK
  <2>2. QED
    BY <1>4, <2>1 DEF LauncherInv, ActivateClient, TypeOK
<1>7. NoStrayAdapter' /\ RealPorts' /\ BusyWithOurs'
  BY <1>4 DEF LauncherInv, NoStrayAdapter, RealPorts, BusyWithOurs, Alive, Listens
<1>8. StopIsFinal'
  BY <1>4 DEF LauncherInv, StopIsFinal
<1>9. ClientsKnown'
  <2>1. known' # Nowhere
    BY <1>3, LauncherAssumption DEF Nowhere
  <2>2. \A n \in Clients : (Runs(n))' <=> Runs(n) \/ n = launches
    BY <1>5, <2>1 DEF Runs
  <2>3. launches \in Nat /\ spared \subseteq Clients
    BY DEF LauncherInv, TypeOK, Tokens
  <2>4. QED
    BY <1>4, <2>2, <2>3 DEF LauncherInv, ClientsKnown
<1>10. runtime' \in {Nowhere, known'}
  BY DEF ActivateClient, ReadRuntimeState
<1>11. strays = {} => \A r \in Slots : (Alive(r))' => adapter'[r].at = known'
  BY <1>1, <1>2, <1>4 DEF Alive
<1>12. ClientSettled'
  BY <1>3, <1>4, <1>5, <1>10, <1>11 DEF ClientSettled, Settled
<1>13. QED
  BY <1>6, <1>7, <1>8, <1>9, <1>12 DEF LauncherInv

LEMMA RefreshSound == LauncherInv /\ (StartRefresh \/ Refresh) => LauncherInv'
<1> SUFFICES ASSUME LauncherInv, StartRefresh \/ Refresh PROVE LauncherInv'
  OBVIOUS
<1>1. TypeOK'
  BY ReadIsAddress DEF LauncherInv, StartRefresh, Refresh, TypeOK, others, missed
<1>2. NoStrayAdapter' /\ RealPorts' /\ StopIsFinal' /\ BusyWithOurs' /\ ClientsKnown'
  BY DEF StartRefresh, Refresh, LauncherInv, NoStrayAdapter, RealPorts, StopIsFinal,
     BusyWithOurs, ClientsKnown, Runs, Alive, Listens, others, missed
<1>3. ClientSettled'
  BY ReadIsKnown DEF StartRefresh, Refresh, LauncherInv, ClientSettled, Settled, Runs, Alive,
     others, missed
<1>4. QED
  BY <1>1, <1>2, <1>3 DEF LauncherInv

-----------------------------------------------------------------------------
\* The steps of the adapter and of the rest of the machine.

\* An adapter started for the client's port gets it while nobody else has it.
LEMMA ListenSound ==
  ASSUME LauncherInv, NEW s \in Slots, Listen(s)
  PROVE  LauncherInv'
<1>1. PICK p \in Ports :
        ListenOn(s, p)
        /\ adapter' = [adapter EXCEPT ![s].stage = "listening", ![s].at.port = p]
  BY DEF Listen
<1>2. TypeOK /\ NoStrayAdapter /\ StopIsFinal /\ BusyWithOurs /\ RealPorts /\ ClientsKnown
      /\ ClientSettled
  BY DEF LauncherInv
<1>3. Alive(s) /\ adapter[s] \in Adapter
  BY <1>2 DEF Listen, Alive, TypeOK
<1>4. /\ \A r \in Slots : r # s => adapter'[r] = adapter[r]
      /\ adapter'[s] = [stage |-> "listening",
                        at |-> [port |-> p, token |-> adapter[s].at.token]]
  BY <1>1, <1>2, <1>3 DEF TypeOK, Adapter, Address
<1>5. adapter'[s] \in Adapter
  BY <1>3, <1>4 DEF Adapter, Address
<1>6. UNCHANGED <<ui, recovery, ours, known, stopping, launches, runtime, client, taken, spared,
                  strays>>
  BY DEF Listen, form, others, missed
<1>7. TypeOK'
  BY <1>1, <1>2, <1>5, <1>6 DEF TypeOK, Listen, form
<1>8. \A r \in Slots : (Alive(r))' <=> Alive(r)
  BY <1>3, <1>4 DEF Alive
<1>9. NoStrayAdapter' /\ StopIsFinal' /\ BusyWithOurs' /\ ClientsKnown'
  BY <1>2, <1>6, <1>8 DEF NoStrayAdapter, StopIsFinal, BusyWithOurs, ClientsKnown, Runs
<1>10. RealPorts'
  BY <1>2, <1>4 DEF RealPorts, Listens
<1>11. ClientSettled'
  <2> SUFFICES ASSUME Settled PROVE ClientSettled'
    BY <1>6 DEF ClientSettled, Settled, Runs
  <2>1. \A r \in Slots : Alive(r) => r = s
    BY <1>2, <1>3 DEF Settled, NoStrayAdapter
  <2>2. /\ adapter[s].at = client[launches]
        /\ client[launches].port \in Ports \ taken
    BY <1>2, <1>3 DEF ClientSettled, Settled
  <2>3. Free(client[launches].port)
    BY <2>1, <2>2 DEF Free, Listens, Alive, Listen
  <2>4. p = client[launches].port
    BY <1>1, <2>2, <2>3, LauncherAssumption DEF ListenOn
  <2>5. adapter'[s].at = client[launches]
    BY <1>2, <1>3, <1>4, <2>2, <2>4 DEF Adapter, Address
  <2>6. \A r \in Slots : (Alive(r))' => adapter'[r].at = client[launches]
    BY <1>8, <2>1, <2>5
  <2>7. QED
    BY <1>2, <1>6, <2>6 DEF ClientSettled, Settled, Runs
<1>12. QED
  BY <1>7, <1>9, <1>10, <1>11 DEF LauncherInv

LEMMA AdapterSound ==
  ASSUME LauncherInv, NEW s \in Slots, WriteRuntime(s) \/ AdapterExits(s)
  PROVE  LauncherInv'
<1>1. TypeOK /\ NoStrayAdapter /\ StopIsFinal /\ BusyWithOurs /\ RealPorts /\ ClientsKnown
      /\ ClientSettled
  BY DEF LauncherInv
<1>2. PICK stage \in {"gone", "started"} :
        /\ adapter' = [adapter EXCEPT ![s].stage = stage]
        /\ stage = "started" => adapter[s].stage = "listening"
  BY DEF WriteRuntime, AdapterExits
<1>3. Alive(s) /\ adapter[s] \in Adapter
  BY <1>1 DEF WriteRuntime, AdapterExits, Alive, TypeOK
<1>4. \A r \in Slots : adapter'[r] =
        IF r = s THEN [stage |-> stage, at |-> adapter[s].at] ELSE adapter[r]
  BY <1>1, <1>2, <1>3 DEF TypeOK, Adapter
<1>5. runtime' \in {runtime, adapter[s].at} /\ runtime' \in Address
  BY <1>1, <1>3 DEF WriteRuntime, AdapterExits, TypeOK, Adapter
<1>6. TypeOK'
  <2>1. adapter'[s] \in Adapter
    BY <1>3, <1>4 DEF Adapter
  <2>2. adapter' \in [Slots -> Adapter]
    BY <1>1, <1>2, <2>1 DEF TypeOK
  <2>3. QED
    BY <1>1, <1>5, <2>2 DEF TypeOK, WriteRuntime, AdapterExits, form, others, missed
<1>7. \A r \in Slots : ((Alive(r))' => Alive(r)) /\ ((Listens(r))' => Listens(r))
                       /\ adapter'[r].at = adapter[r].at
  BY <1>2, <1>3, <1>4 DEF Alive, Listens
<1>8. NoStrayAdapter' /\ RealPorts' /\ StopIsFinal' /\ BusyWithOurs' /\ ClientsKnown'
  BY <1>1, <1>7 DEF WriteRuntime, AdapterExits, NoStrayAdapter, RealPorts, StopIsFinal,
     BusyWithOurs, ClientsKnown, Runs, Alive, form, others, missed
<1>9. ClientSettled'
  BY <1>1, <1>3, <1>5, <1>7 DEF WriteRuntime, AdapterExits, ClientSettled, Settled, Runs, form,
     others, missed
<1>10. QED
  BY <1>6, <1>8, <1>9 DEF LauncherInv

LEMMA CloseSound ==
  ASSUME LauncherInv, NEW n \in Clients, CloseClient(n)
  PROVE  LauncherInv'
<1>1. /\ client' = [client EXCEPT ![n] = Nowhere]
      /\ spared' = spared \ {n}
      /\ UNCHANGED <<ui, recovery, ours, known, stopping, launches, adapter, runtime, taken,
                     strays>>
  BY DEF CloseClient, form
<1>2. \A m \in Clients : client'[m] = IF m = n THEN Nowhere ELSE client[m]
  BY <1>1 DEF LauncherInv, TypeOK
<1>3. \A m \in Clients : (Runs(m))' <=> Runs(m) /\ m # n
  BY <1>2 DEF Runs
<1>4. TypeOK'
  <2>1. client' \in [Clients -> Address]
    BY <1>1, NowhereIsAddress DEF LauncherInv, TypeOK
  <2>2. QED
    BY <1>1, <2>1 DEF LauncherInv, TypeOK, CloseClient, form
<1>5. NoStrayAdapter' /\ RealPorts' /\ BusyWithOurs'
  BY <1>1 DEF LauncherInv, NoStrayAdapter, RealPorts, BusyWithOurs, Alive, Listens
<1>6. StopIsFinal'
  BY <1>1, <1>3 DEF LauncherInv, StopIsFinal, Alive
<1>7. ClientsKnown'
  <2>1. \A m \in spared' : m \in Clients /\ m \in spared /\ m # n
    BY <1>1 DEF LauncherInv, TypeOK
  <2>2. QED
    BY <1>1, <1>3, <2>1 DEF LauncherInv, ClientsKnown
<1>8. ClientSettled'
  BY <1>1, <1>2, <1>3 DEF LauncherInv, ClientSettled, Settled, Alive
<1>9. QED
  BY <1>4, <1>5, <1>6, <1>7, <1>8 DEF LauncherInv

LEMMA MachineSound ==
  ASSUME LauncherInv, NEW p \in Ports, TakePort(p)
  PROVE  LauncherInv'
<1>1. TypeOK'
  BY NowhereIsAddress DEF LauncherInv, TypeOK, TakePort, form, missed
<1>2. NoStrayAdapter' /\ RealPorts' /\ StopIsFinal' /\ BusyWithOurs' /\ ClientsKnown'
  BY DEF LauncherInv, TakePort, NoStrayAdapter, RealPorts, StopIsFinal,
     BusyWithOurs, ClientsKnown, Runs, Alive, Listens, form, missed
<1>3. ClientSettled'
  BY DEF LauncherInv, TakePort, ClientSettled, Settled, Runs, Alive, form, missed
<1>4. QED
  BY <1>1, <1>2, <1>3 DEF LauncherInv

-----------------------------------------------------------------------------
LEMMA NextLauncher == LauncherInv /\ [Next]_vars => LauncherInv'
<1> SUFFICES ASSUME LauncherInv, [Next]_vars PROVE LauncherInv'
  OBVIOUS
<1> USE DEF LauncherInv
<1>1. CASE StopClick \/ LaunchCannotStart \/ GiveUp \/ ActivationFails
  BY <1>1, StopSound DEF StopClick, LaunchCannotStart, GiveUp, ActivationFails
<1>2. CASE CloseWindow
  BY <1>2, RetireSound, LauncherAssumption DEF CloseWindow
<1>3. CASE LaunchClick
  BY <1>3, LaunchSound
<1>4. CASE Recover
  BY <1>4, RecoverSound
<1>5. CASE RecoveryCannotStart
  BY <1>5, RecoveryCannotStartSound
<1>6. CASE PollFails \/ CheckFails
  BY <1>6, NotReadySound DEF PollFails, CheckFails
<1>7. CASE Poll
  BY <1>7, PollSound
<1>8. CASE CheckPasses \/ RecoveryPasses
  BY <1>8, PassesSound
<1>9. CASE ActivateClient
  BY <1>9, ActivateSound
<1>10. CASE StartRefresh \/ Refresh
  BY <1>10, RefreshSound
<1>11. ASSUME NEW s \in Slots, AdapterStep(s) PROVE LauncherInv'
  BY <1>11, ListenSound, AdapterSound DEF AdapterStep
<1>12. ASSUME NEW n \in Clients, CloseClient(n) PROVE LauncherInv'
  BY <1>12, CloseSound
<1>13. ASSUME NEW p \in Ports, TakePort(p) PROVE LauncherInv'
  BY <1>13, MachineSound
<1>14. CASE UNCHANGED vars
  BY <1>14 DEF vars, form, others, missed, TypeOK, NoStrayAdapter, StopIsFinal, BusyWithOurs,
     RealPorts, ClientsKnown, ClientSettled, Settled, Runs, Alive, Listens
<1>15. QED
  BY <1>1, <1>2, <1>3, <1>4, <1>5, <1>6, <1>7, <1>8, <1>9, <1>10, <1>11, <1>12, <1>13, <1>14
     DEF Next, Tick, Wait, Activate

LEMMA Invariance == Spec => []LauncherInv
BY InitLauncher, NextLauncher, PTL DEF Spec

(***************************************************************************)
(* Every reachable state of the launcher is one its variables can have:    *)
(* tokens, ports and the count of recoveries stay in their ranges.         *)
(***************************************************************************)
THEOREM TypeCorrect == Spec => []TypeOK
<1>1. LauncherInv => TypeOK
  BY DEF LauncherInv
<1>2. QED
  BY <1>1, Invariance, PTL

(***************************************************************************)
(* No launch, recovery, failure or stop leaves an adapter running that the *)
(* launcher does not hold, but for those whose kill has failed.            *)
(***************************************************************************)
THEOREM NoneAstray == Spec => []NoStrayAdapter
<1>1. LauncherInv => NoStrayAdapter
  BY DEF LauncherInv
<1>2. QED
  BY <1>1, Invariance, PTL

(***************************************************************************)
(* From a stop to the next launch nothing comes back, and nothing runs but *)
(* what its kills have missed, however many those are.                     *)
(***************************************************************************)
THEOREM StopLasts == Spec => []StopIsFinal
<1>1. LauncherInv => StopIsFinal
  BY DEF LauncherInv
<1>2. QED
  BY <1>1, Invariance, PTL

(***************************************************************************)
(* Whatever runtime file was read, late, or missing: as long as no stop    *)
(* has missed an adapter, the adapter that listens does so at the port and *)
(* for the token of the client of the latest launch, if no other program   *)
(* has that port.                                                          *)
(***************************************************************************)
THEOREM ClientConfigured == Spec => []ClientMeetsAdapter
<1>1. ASSUME LauncherInv PROVE ClientMeetsAdapter
  <2> SUFFICES ASSUME ui = "idle", strays = {},
                      NEW n \in Clients, Runs(n), n = launches, client[n].port \notin taken,
                      NEW s \in Slots, Listens(s)
               PROVE  adapter[s].at = client[n]
    BY DEF ClientMeetsAdapter
  <2>1. Alive(s)
    BY DEF Listens, Alive
  <2>2. CASE launches \in spared
    BY <1>1, <2>1, <2>2 DEF LauncherInv, ClientsKnown, StopIsFinal
  <2>3. CASE launches \notin spared
    BY <1>1, <2>1, <2>3 DEF LauncherInv, ClientSettled, Settled
  <2>4. QED
    BY <2>2, <2>3
<1>2. QED
  BY <1>1, Invariance, PTL

(***************************************************************************)
(* What keeps clients from being started beside each other: while a launch *)
(* is under way there is none, and recoveries activate none.               *)
(***************************************************************************)
NoClient == \A n \in Clients : ~Runs(n)

NoneWhileLaunching ==
  /\ ui # "idle" /\ ~recovery => NoClient
  /\ ui = "activating" => ~recovery

ButtonPressedAlone == LaunchClick => NoClient

LEMMA StopStartsNone ==
  ASSUME StopProcesses \/ CloseWindow
  PROVE  ui' = "idle" /\ \A n \in Clients : (Runs(n))' => Runs(n)
BY DEF StopProcesses, CloseWindow, Retire, KillAll, KillClients, Runs

\* What starts no client while the thread is idle.
LEMMA NoneStarted ==
  ASSUME OneClient, NoneWhileLaunching, ui' = "idle",
         \A n \in Clients : (Runs(n))' => Runs(n)
  PROVE  (OneClient /\ NoneWhileLaunching)'
BY DEF OneClient, NoneWhileLaunching

LEMMA NextClients ==
  ASSUME OneClient, NoneWhileLaunching, [Next]_vars, [ButtonPressedAlone]_vars
  PROVE  (OneClient /\ NoneWhileLaunching)'
<1> USE DEF OneClient, NoneWhileLaunching, NoClient, Runs
<1>1. CASE StopClick \/ CloseWindow \/ LaunchCannotStart \/ GiveUp \/ ActivationFails
  BY <1>1, StopStartsNone, NoneStarted
     DEF StopClick, LaunchCannotStart, GiveUp, ActivationFails
<1>2. CASE LaunchClick
  <2>1. \A n \in Clients : ~Runs(n)
    BY <1>2 DEF ButtonPressedAlone, LaunchClick, vars, form
  <2>2. QED
    BY <1>2, <2>1 DEF LaunchClick, others
<1>3. CASE Recover \/ RecoveryCannotStart
  BY <1>3 DEF Recover, RecoveryCannotStart, others
<1>4. CASE Poll \/ CheckPasses \/ RecoveryPasses
  BY <1>4 DEF Poll, CheckPasses, RecoveryPasses, others
<1>5. CASE PollFails \/ CheckFails
  BY <1>5, StopStartsNone, NoneStarted DEF PollFails, CheckFails, NotReady, others
<1>6. CASE ActivateClient
  <2>1. /\ \A n \in Clients : client[n] = Nowhere
        /\ client' = [client EXCEPT ![launches] = known']
        /\ ui' = "idle"
    BY <1>6 DEF ActivateClient
  <2>2. \A n \in Clients : n # launches => client'[n] = Nowhere
    BY <2>1
  <2>3. QED
    BY <2>1, <2>2
<1>7. CASE StartRefresh \/ Refresh
  BY <1>7 DEF StartRefresh, Refresh, others
<1>8. ASSUME NEW s \in Slots, AdapterStep(s) PROVE UNCHANGED <<ui, recovery, client>>
  BY <1>8 DEF AdapterStep, Listen, WriteRuntime, AdapterExits, form, others
<1>9. ASSUME NEW n \in Clients, CloseClient(n) PROVE (OneClient /\ NoneWhileLaunching)'
  BY <1>9 DEF CloseClient, form
<1>10. ASSUME NEW p \in Ports, TakePort(p) PROVE UNCHANGED <<ui, recovery, client>>
  BY <1>10 DEF TakePort, form
<1>11. CASE UNCHANGED vars
  BY <1>11 DEF vars, form, others
<1>12. QED
  BY <1>1, <1>2, <1>3, <1>4, <1>5, <1>6, <1>7, <1>8, <1>9, <1>10, <1>11
     DEF Next, Tick, Wait, Activate

(***************************************************************************)
(* Recoveries, however many and however they end, and launches that fail   *)
(* or are stopped never start a client beside a running one; only the      *)
(* button does, pressed while a client runs whose adapter is gone or that  *)
(* a stop has missed (ProcessMonitorTimer_Tick, LaunchButton_Click).       *)
(***************************************************************************)
THEOREM OnlyTheButtonDuplicates == Spec /\ [][ButtonPressedAlone]_vars => []OneClient
<1>1. Init => OneClient /\ NoneWhileLaunching
  BY DEF Init, OneClient, NoneWhileLaunching, Runs
<1>2. OneClient /\ NoneWhileLaunching /\ [Next]_vars /\ [ButtonPressedAlone]_vars
        => (OneClient /\ NoneWhileLaunching)'
  BY NextClients
<1>3. QED
  BY <1>1, <1>2, PTL DEF Spec
=============================================================================
