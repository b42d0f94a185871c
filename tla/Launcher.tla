------------------------------ MODULE Launcher ------------------------------
(***************************************************************************)
(* The lifecycle of the desktop product: the launcher (ClaudeOpen.cs),     *)
(* which starts the adapter, waits for it, starts the client configured    *)
(* for it and watches over it, and the start of the adapter (start() of    *)
(* main.js), which tells the launcher where it listens through             *)
(* runtime.json.                                                           *)
(*                                                                         *)
(* The launcher's handlers block its only thread, so one of its actions is *)
(* what happens between two looks at the adapter or at the file; the       *)
(* adapter, the client and other programs do not wait for it.              *)
(***************************************************************************)
EXTENDS Naturals, FiniteSets

CONSTANTS
  Slots,        \* places for adapter processes
  None,         \* no process
  Ports,        \* loopback ports
  MaxRestarts,  \* recoveries in a row
  MaxLaunches,  \* bound: how often the user presses Launch
  MaxTaken,     \* bound: ports that other programs take
  MaxMissed     \* bound: processes that stops miss

ASSUME LauncherAssumption ==
  /\ None \notin Slots
  /\ Ports \subseteq Nat \ {0}
  /\ {MaxRestarts, MaxLaunches, MaxTaken, MaxMissed} \subseteq Nat

VARIABLES
  ui,        \* what the launcher's thread is doing
  recovery,  \* whether it does so for a recovery, and not for a launch
  ours,      \* adapterProcess
  known,     \* activePort and clientToken
  stopping,  \* stopping
  attempts,  \* restartAttempts
  launches,  \* how many tokens have been created
  refreshing, \* a refresh of the dashboard is in flight
  adapter,   \* the adapter processes
  runtime,   \* runtime.json
  client,    \* the client that each launch has started, by its configuration
  taken,     \* ports held by other programs
  spared,    \* history: clients that a stop has missed
  strays     \* history: adapters that a stop has missed

form == <<ui, recovery, ours, known, stopping, attempts, launches, refreshing>>
missed == <<spared, strays>>
others == <<client, taken, missed>>
vars == <<form, adapter, runtime, others>>

Tokens == 0 .. MaxLaunches

\* A port and the bearer token of whoever listens there; 0 and 0 for neither.
Address == [port : Ports \cup {0}, token : Tokens]

Nowhere == [port |-> 0, token |-> 0]

\* Every launch starts one client at most and is its name.
Clients == 1 .. MaxLaunches

\* The client runs on the profile.
Runs(n) == client[n] # Nowhere

(***************************************************************************)
(* An adapter process: its address, whose port is the preferred one until  *)
(* it listens, and how far start() has come.                               *)
(***************************************************************************)
Adapter == [stage : {"gone", "starting", "listening", "started"}, at : Address]

Alive(s) == adapter[s].stage # "gone"

Listens(s) == adapter[s].stage \in {"listening", "started"}

TypeOK ==
  /\ ui \in {"idle", "polling", "checking", "activating"}
  /\ recovery \in BOOLEAN
  /\ ours \in Slots \cup {None}
  /\ known \in Address
  /\ stopping \in BOOLEAN
  /\ attempts \in 0 .. MaxRestarts
  /\ launches \in Tokens
  /\ refreshing \in BOOLEAN
  /\ adapter \in [Slots -> Adapter]
  /\ runtime \in Address
  /\ client \in [Clients -> Address]
  /\ taken \in SUBSET Ports
  /\ spared \in SUBSET Clients
  /\ strays \in SUBSET Slots

Init ==
  /\ ui = "idle"
  /\ recovery = FALSE
  /\ ours = None
  /\ known = Nowhere
  /\ stopping = FALSE
  /\ attempts = 0
  /\ launches = 0
  /\ refreshing = FALSE
  /\ adapter = [s \in Slots |-> [stage |-> "gone", at |-> Nowhere]]
  /\ runtime = Nowhere
  /\ client = [n \in Clients |-> Nowhere]
  /\ taken = {}
  /\ spared = {}
  /\ strays = {}

-----------------------------------------------------------------------------
\* The launcher.

\* HasExited, or no process.
Exited == ours \notin {s \in Slots : Alive(s)}

\* File.Delete(), whose failure is ignored.
DeleteRuntime == runtime' \in {Nowhere, runtime}

\* StartAdapter(): the process inherits the preferred port and the token.
StartAdapter(port, token) ==
  /\ DeleteRuntime
  /\ \E s \in Slots :
       /\ ~Alive(s) /\ s \notin strays
       /\ ours' = s
       /\ adapter' = [adapter EXCEPT ![s] =
            [stage |-> "starting", at |-> [port |-> port, token |-> token]]]

(***************************************************************************)
(* The handle of the client, every process on its profile, the handle of   *)
(* the adapter.  What Kill() throws is swallowed, and a failed query for   *)
(* the processes, a root that is not found, and a failed taskkill are      *)
(* logged at most, so that any of them may go on.  A place whose adapter   *)
(* goes on is not used again.                                              *)
(***************************************************************************)
KillClients ==
  \E left \in SUBSET {n \in Clients : Runs(n)} :
    /\ client' = [n \in Clients |-> IF n \in left THEN client[n] ELSE Nowhere]
    /\ spared' = left

KillAdapter ==
  \/ /\ adapter' = [s \in Slots |-> IF s = ours THEN [adapter[s] EXCEPT !.stage = "gone"]
                                    ELSE adapter[s]]
     /\ UNCHANGED strays
  \/ /\ ours \in {s \in Slots : Alive(s)}
     /\ strays' = strays \cup {ours}
     /\ UNCHANGED adapter

KillClientOnly == KillClients /\ UNCHANGED <<adapter, strays>>

KillAdapterOnly == KillAdapter /\ UNCHANGED <<client, spared>>

KillAll ==
  /\ KillClients
  /\ KillAdapter
  /\ Cardinality(spared') + Cardinality(strays') <= MaxMissed

Retire ==
  /\ stopping' = TRUE
  /\ KillAll
  /\ ours' = None
  /\ DeleteRuntime
  /\ known' = Nowhere
  /\ ui' = "idle"
  /\ recovery' = FALSE
  /\ UNCHANGED <<launches, refreshing, taken>>

StopProcesses == Retire /\ UNCHANGED attempts

\* The button while the adapter runs, whatever its label.
StopClick ==
  /\ ui = "idle"
  /\ ~Exited
  /\ StopProcesses

\* OnFormClosing(), and the start of the next launcher, whose flag is not read
\* before it launches something.
CloseWindow ==
  /\ ui = "idle"
  /\ Retire
  /\ attempts' = 0

FreshToken == launches + 1

\* The button while no adapter runs: also when the client still does.
LaunchClick ==
  /\ ui = "idle"
  /\ Exited
  /\ launches < MaxLaunches
  /\ launches' = FreshToken
  /\ known' = [known EXCEPT !.token = FreshToken]
  /\ stopping' = FALSE
  /\ StartAdapter(0, FreshToken)
  /\ ui' = "polling"
  /\ recovery' = FALSE
  /\ UNCHANGED <<attempts, refreshing, others>>

\* StartAdapter() throws, out of a launch.
LaunchCannotStart ==
  /\ ui = "idle"
  /\ Exited
  /\ launches < MaxLaunches
  /\ StopProcesses

RestartOnAnyPort == [known EXCEPT !.port = 0]

\* What the recovered adapter is started with.
RestartAddress == known

\* ProcessMonitorTimer_Tick() after the adapter exited.
Recover ==
  /\ ui = "idle"
  /\ ours # None
  /\ ~Alive(ours)
  /\ ~stopping
  /\ attempts < MaxRestarts
  /\ attempts' = attempts + 1
  /\ StartAdapter(RestartAddress.port, RestartAddress.token)
  /\ ui' = "polling"
  /\ recovery' = TRUE
  /\ UNCHANGED <<known, stopping, launches, refreshing, others>>

(***************************************************************************)
(* StartAdapter() throws, out of a recovery, as the adapter is not there:  *)
(* adapterProcess is null by then.  That Node.js cannot be started, which  *)
(* leaves a Process object without a process, is left out.                 *)
(***************************************************************************)
RecoveryCannotStart ==
  /\ ui = "idle"
  /\ ours # None
  /\ ~Alive(ours)
  /\ ~stopping
  /\ attempts < MaxRestarts
  /\ attempts' = attempts + 1
  /\ ours' = None
  /\ DeleteRuntime
  /\ UNCHANGED <<ui, recovery, known, stopping, launches, refreshing, adapter, others>>

GiveUpSilently ==
  /\ ui = "idle"
  /\ ours # None
  /\ ~Alive(ours)
  /\ stopping \/ attempts >= MaxRestarts
  /\ UNCHANGED vars

\* Too many recoveries: the same tick stops everything.
GiveUp ==
  /\ ui = "idle"
  /\ ours # None
  /\ ~Alive(ours)
  /\ stopping \/ attempts >= MaxRestarts
  /\ StopProcesses

\* ReadRuntimeState(): without a file everything stays as it was.
ReadRuntimeState == IF runtime = Nowhere THEN known ELSE runtime

\* GET /health answers, to anyone who asks at the right port.
Answers(port) == \E s \in Slots : Listens(s) /\ adapter[s].at.port = port

\* Any other request wants the token as well.
Serves(at) == \E s \in Slots : Listens(s) /\ adapter[s].at = at

\* One turn of the loop in PollReadiness(), up to the turn that finds it live.
Poll ==
  /\ ui = "polling"
  /\ Alive(ours)
  /\ known' = ReadRuntimeState
  /\ ui' = IF known'.token # 0 /\ Answers(known'.port) THEN "checking" ELSE ui
  /\ UNCHANGED <<recovery, ours, stopping, attempts, launches, refreshing, adapter,
                 runtime, others>>

NotReady ==
  IF recovery
  THEN /\ ui' = "idle"
       /\ recovery' = FALSE
       /\ UNCHANGED <<ours, known, stopping, attempts, launches, refreshing, adapter,
                      runtime, others>>
  ELSE StopProcesses

\* The adapter has exited, or forty turns are over.
PollFails == ui = "polling" /\ NotReady

\* GET /health/deep: not well, not authorised, not there, or too slow.
CheckFails == ui = "checking" /\ NotReady

CheckPasses ==
  /\ ui = "checking"
  /\ ~recovery
  /\ Serves(known)
  /\ ui' = "activating"
  /\ UNCHANGED <<recovery, ours, known, stopping, attempts, launches, refreshing, adapter,
                 runtime, others>>

\* The recovery is over; the count is cleared if it took over thirty seconds.
RecoveryPasses ==
  /\ ui = "checking"
  /\ recovery
  /\ Serves(known)
  /\ ui' = "idle"
  /\ recovery' = FALSE
  /\ attempts' \in {0, attempts}
  /\ UNCHANGED <<ours, known, stopping, launches, refreshing, adapter, runtime, others>>

(***************************************************************************)
(* LaunchClaudeClient(): the catalog is read, the profile is written with  *)
(* the port and the token, and the client is activated.                    *)
(***************************************************************************)
ActivateClient ==
  /\ ui = "activating"
  /\ known' = ReadRuntimeState
  /\ Serves(known')
  /\ client' = [client EXCEPT ![launches] = known']
  /\ ui' = "idle"
  /\ UNCHANGED <<recovery, ours, stopping, attempts, launches, refreshing, adapter, runtime,
                 taken, missed>>

\* No or no usable catalog, no profile, no runtime, or no client in time.  A
\* client that comes up after it was waited for in vain is left out.
ActivationFails == ui = "activating" /\ StopProcesses

\* RefreshLiveDashboard(): two requests of a pool thread, each of which reads
\* the file again, maybe after everything was stopped.  What lies between the
\* reading of the file and the assignments is left out.
StartRefresh ==
  /\ ui = "idle"
  /\ ~refreshing
  /\ known.port # 0 /\ known.token # 0
  /\ refreshing' = TRUE
  /\ UNCHANGED <<ui, recovery, ours, known, stopping, attempts, launches, adapter,
                 runtime, others>>

Refresh ==
  /\ refreshing
  /\ known' = ReadRuntimeState
  /\ refreshing' \in BOOLEAN
  /\ UNCHANGED <<ui, recovery, ours, stopping, attempts, launches, adapter, runtime,
                 others>>

-----------------------------------------------------------------------------
\* The adapter and the rest of the machine.

Free(p) == p \notin taken /\ \A s \in Slots : ~(Listens(s) /\ adapter[s].at.port = p)

\* tryListen(): the preferred port, or any other if that is busy.
ListenOn(s, p) ==
  /\ Free(p)
  /\ adapter[s].at.port # 0 /\ Free(adapter[s].at.port) => p = adapter[s].at.port

Listen(s) ==
  /\ adapter[s].stage = "starting"
  /\ \E p \in Ports :
       /\ ListenOn(s, p)
       /\ adapter' = [adapter EXCEPT ![s].stage = "listening", ![s].at.port = p]
  /\ UNCHANGED <<form, runtime, others>>

\* The end of start(), after the catalog and the first usage snapshot; that the
\* file cannot be written is only logged.
WriteRuntime(s) ==
  /\ adapter[s].stage = "listening"
  /\ adapter' = [adapter EXCEPT ![s].stage = "started"]
  /\ runtime' \in {adapter[s].at, runtime}
  /\ UNCHANGED <<form, others>>

\* An invalid configuration, or a crash.
AdapterExits(s) ==
  /\ Alive(s)
  /\ adapter' = [adapter EXCEPT ![s].stage = "gone"]
  /\ UNCHANGED <<form, runtime, others>>

\* The user closes a client, which the launcher does not look at.
CloseClient(n) ==
  /\ Runs(n)
  /\ client' = [client EXCEPT ![n] = Nowhere]
  /\ spared' = spared \ {n}
  /\ UNCHANGED <<form, adapter, runtime, taken, strays>>

TakePort(p) ==
  /\ Free(p)
  /\ Cardinality(taken) < MaxTaken
  /\ taken' = taken \cup {p}
  /\ UNCHANGED <<form, adapter, runtime, client, missed>>

Tick == Recover \/ RecoveryCannotStart \/ GiveUp

Wait == Poll \/ PollFails \/ CheckFails \/ CheckPasses \/ RecoveryPasses

Activate == ActivateClient \/ ActivationFails

AdapterStep(s) == Listen(s) \/ WriteRuntime(s) \/ AdapterExits(s)

Next ==
  \/ StopClick \/ CloseWindow \/ LaunchClick \/ LaunchCannotStart
  \/ Tick \/ Wait \/ Activate
  \/ StartRefresh \/ Refresh
  \/ \E s \in Slots : AdapterStep(s)
  \/ \E n \in Clients : CloseClient(n)
  \/ \E p \in Ports : TakePort(p)

Spec == Init /\ [][Next]_vars

(***************************************************************************)
(* The monitor timer fires every two seconds while the thread is free, the *)
(* loop of PollReadiness() has forty turns, every request and the          *)
(* activation have a deadline, and an adapter that starts comes to listen  *)
(* or exits.  A check need never pass.                                     *)
(***************************************************************************)
Fairness ==
  /\ WF_vars(Tick)
  /\ WF_vars(PollFails)
  /\ WF_vars(CheckFails \/ CheckPasses \/ RecoveryPasses)
  /\ WF_vars(Activate)
  /\ \A s \in Slots : WF_vars(Listen(s) \/ AdapterExits(s))

FairSpec == Spec /\ Fairness

-----------------------------------------------------------------------------
\* Properties.

(***************************************************************************)
(* No adapter runs that the launcher has lost sight of: through launches,  *)
(* recoveries and failures there is at most one, and it is the one that    *)
(* Stop kills and the monitor watches (adapterProcess), but for those that *)
(* a stop has tried to kill in vain.                                       *)
(***************************************************************************)
NoStrayAdapter == \A s \in Slots : Alive(s) => s = ours \/ s \in strays

(***************************************************************************)
(* A stop brings everything to an end that its kills reach, and nothing    *)
(* comes back: from then until the next launch nothing is waited for or    *)
(* recovered, and what runs is what a kill that failed has missed          *)
(* (StopProcesses, whose failures are swallowed or logged).                *)
(***************************************************************************)
StopIsFinal ==
  stopping => /\ ui = "idle"
              /\ \A n \in Clients : Runs(n) => n \in spared
              /\ \A s \in Slots : Alive(s) => s \in strays

(***************************************************************************)
(* What the code says of a stop, "so Stop never leaves it running"         *)
(* (StopProcesses): it does when a kill fails.                             *)
(***************************************************************************)
StopLeavesNoClient == stopping => \A n \in Clients : ~Runs(n)

(***************************************************************************)
(* The client of the latest launch is configured for the adapter that      *)
(* runs, also after recoveries, stale or missing runtime files and tokens  *)
(* of earlier launches: unless another program has taken its port, an      *)
(* adapter that listens does so at the client's port and takes the         *)
(* client's token ("Restart only the adapter on the same port/token").     *)
(* Nothing of the kind holds for a client over whose head Launch has been  *)
(* pressed again, nor once an adapter goes on that a stop has missed: that *)
(* one may still write the runtime file.                                   *)
(***************************************************************************)
ClientMeetsAdapter ==
  ui = "idle" /\ strays = {} =>
    \A n \in Clients : Runs(n) /\ n = launches /\ client[n].port \notin taken =>
      \A s \in Slots : Listens(s) => adapter[s].at = client[n]

(***************************************************************************)
(* A client whose adapter died is not left in the lurch while the launcher *)
(* watches: it comes to be served again or is closed (the recoveries of    *)
(* ProcessMonitorTimer_Tick, and its StopProcesses after the last).        *)
(* Excepted are the loss of the port to another program, a restart that    *)
(* throws and a stop, after which the launcher watches no longer, a later  *)
(* press of Launch, which forgets the client (LaunchButton_Click), and     *)
(* adapters that a stop has missed.                                        *)
(***************************************************************************)
Forgotten(n) ==
  ours = None \/ client[n].port \in taken \/ launches > n \/ strays # {}

ClientIsLookedAfter ==
  \A n \in Clients : Runs(n) ~> ~Runs(n) \/ Serves(client[n]) \/ Forgotten(n)

(***************************************************************************)
(* A client is never started beside a running one: "Relaunching the full   *)
(* client would duplicate Electron processes and orphan the original       *)
(* window" (ProcessMonitorTimer_Tick).                                     *)
(***************************************************************************)
OneClient == \A m, n \in Clients : Runs(m) /\ Runs(n) => m = n

(***************************************************************************)
(* A client that runs can be served by whatever adapter the launcher       *)
(* watches: not the one whose adapter died and that Launch, pressed before *)
(* the next tick, leaves with the old port and token.                      *)
(***************************************************************************)
NoClientOutdated ==
  ui = "idle" =>
    \A n \in Clients : Runs(n) /\ client[n].port \notin taken =>
      \A s \in Slots : Listens(s) /\ s = ours => adapter[s].at = client[n]
=============================================================================
