------------------------ MODULE InstallerWidget_proofs ------------------------
(***************************************************************************)
(* Proofs about the two parts of the system that are told of the adapter   *)
(* by nothing but files: the installer, for any number of runs, and the    *)
(* usage widget with its publisher, for any number of overlapping          *)
(* refreshes, rotations and stops.                                         *)
(***************************************************************************)
EXTENDS Installer, UsageWidget, TLAPS

(***************************************************************************)
(* The inductive invariant: where every directory of the run is, from step *)
(* to step.                                                                *)
(***************************************************************************)
Whereabouts ==
  /\ step \in {"staging", "staged"} => target = before /\ backup = Absent
  /\ step = "staged" => staging = run
  /\ step = "aside" => target = Absent /\ backup = before /\ staging = run
  /\ step \in {"placed", "registered"} =>
       target = run /\ backup = before /\ staging = Absent
  /\ step = "registered" => identity = run
  /\ step = "undo" => backup = before
  /\ step = "undone" =>
       /\ backup = Absent
       /\ before \in Versions => before \in {target, inside}
       /\ ~hindered => target = before
  /\ step # "idle" => ended = "not"

InstallerInv == TypeOK /\ Whereabouts /\ NothingLost /\ EndTellsTruth

LEMMA InitInstaller == MaxRuns \in Nat /\ Init => InstallerInv
<1> SUFFICES ASSUME MaxRuns \in Nat, Init PROVE InstallerInv
  OBVIOUS
<1>1. run \in 0 .. MaxRuns /\ identity \in 0 .. MaxRuns
  BY DEF Init
<1>2. Absent \in Directory
  BY DEF Absent, Directory
<1>3. TypeOK
  BY <1>1, <1>2 DEF Init, TypeOK
<1>4. Whereabouts /\ NothingLost /\ EndTellsTruth
  BY DEF Init, Whereabouts, NothingLost, EndTellsTruth, Absent, Versions
<1>5. QED
  BY <1>3, <1>4 DEF InstallerInv

LEMMA DirectoriesAre ==
  ASSUME MaxRuns \in Nat
  PROVE  /\ Absent \in Directory /\ Rest \in Directory
         /\ 0 .. MaxRuns \subseteq Directory
BY DEF Absent, Rest, Directory

LEMMA StepTypeOK == MaxRuns \in Nat /\ TypeOK /\ Next => TypeOK'
<1> SUFFICES ASSUME MaxRuns \in Nat, TypeOK, Next PROVE TypeOK'
  OBVIOUS
<1>1. run' \in 0 .. MaxRuns
  BY DEF Next, TypeOK, Begin, Stage, Fail, SetAside, PutInPlace, Register, SwapFails, Restore,
     RemoveAll, RestoreFails, Reregister, Commit, CommitFails, Killed, Uninstall
<1>2. identity' \in 0 .. MaxRuns
  BY DEF Next, TypeOK, Versions, Begin, Stage, Fail, SetAside, PutInPlace, Register, SwapFails,
     Restore, RemoveAll, RestoreFails, Reregister, Commit, CommitFails, Killed, Uninstall
<1>3. /\ before' \in Directory /\ target' \in Directory /\ staging' \in Directory
      /\ backup' \in Directory /\ inside' \in Directory
  <2>1. Absent \in Directory /\ Rest \in Directory /\ run \in Directory
    BY DirectoriesAre DEF TypeOK
  <2>2. QED
    BY <2>1 DEF Next, TypeOK, directories, Begin, Stage, Fail, Abort, SetAside, PutInPlace,
       Register, SwapFails, Restore, RemoveAll, RestoreFails, Reregister, Commit, CommitFails,
       Killed, Uninstall
<1>4. /\ step' \in {"idle", "staging", "staged", "aside", "placed", "registered", "undo", "undone"}
      /\ ended' \in {"not", "installed", "incomplete", "failed", "killed"}
  BY DEF Next, TypeOK, Begin, Stage, Fail, Abort, SetAside, PutInPlace, Register, SwapFails,
     Restore, RemoveAll, RestoreFails, Reregister, Commit, CommitFails, Killed, Uninstall
<1>5. hindered' \in BOOLEAN
  BY DEF Next, TypeOK, Begin, Stage, Fail, Abort, SetAside, PutInPlace, Register, SwapFails,
     Restore, RemoveAll, RestoreFails, Reregister, Commit, CommitFails, Killed, Uninstall
<1>6. QED
  BY <1>1, <1>2, <1>3, <1>4, <1>5 DEF TypeOK

\* The way to success: the previous version goes aside before the new one comes.
LEMMA ForwardSound ==
  ASSUME MaxRuns \in Nat, InstallerInv,
         Begin \/ Stage \/ SetAside \/ PutInPlace \/ Register \/ Commit
  PROVE  Whereabouts' /\ NothingLost' /\ EndTellsTruth'
<1> USE DEF InstallerInv, TypeOK, Whereabouts, NothingLost, EndTellsTruth, Absent, Directory,
            Versions, Rest, directories
<1>1. CASE Begin
  BY <1>1 DEF Begin
<1>2. CASE Stage
  BY <1>2 DEF Stage
<1>3. CASE SetAside
  BY <1>3 DEF SetAside
<1>4. CASE PutInPlace
  BY <1>4 DEF PutInPlace
<1>5. CASE Register
  BY <1>5 DEF Register
<1>6. CASE Commit
  BY <1>6 DEF Commit
<1>7. QED
  BY <1>1, <1>2, <1>3, <1>4, <1>5, <1>6

\* The ways back: before the swap, out of it, and after it.
LEMMA BackwardSound ==
  ASSUME MaxRuns \in Nat, InstallerInv,
         Fail \/ SwapFails \/ Restore \/ RemoveAll \/ RestoreFails \/ Reregister \/ CommitFails
  PROVE  Whereabouts' /\ NothingLost' /\ EndTellsTruth'
<1> USE DEF InstallerInv, TypeOK, Whereabouts, NothingLost, EndTellsTruth, Absent, Directory,
            Versions, Rest, directories
<1>1. CASE Fail
  BY <1>1 DEF Fail, Abort
<1>2. CASE SwapFails
  BY <1>2 DEF SwapFails
<1>3. CASE Restore
  BY <1>3 DEF Restore
<1>4. CASE RemoveAll
  BY <1>4 DEF RemoveAll
<1>5. CASE RestoreFails
  BY <1>5 DEF RestoreFails
<1>6. CASE Reregister
  BY <1>6 DEF Reregister, Abort
<1>7. CASE CommitFails
  BY <1>7 DEF CommitFails
<1>8. QED
  BY <1>1, <1>2, <1>3, <1>4, <1>5, <1>6, <1>7

LEMMA OutsideSound ==
  ASSUME MaxRuns \in Nat, InstallerInv, Killed \/ Uninstall
  PROVE  Whereabouts' /\ NothingLost' /\ EndTellsTruth'
<1> USE DEF InstallerInv, TypeOK, Whereabouts, NothingLost, EndTellsTruth, Absent, Directory,
            Versions, Rest, directories
<1>1. CASE Killed
  BY <1>1 DEF Killed
<1>2. CASE Uninstall
  BY <1>2 DEF Uninstall
<1>3. QED
  BY <1>1, <1>2

LEMMA StepInstaller == MaxRuns \in Nat /\ InstallerInv /\ [Next]_vars => InstallerInv'
<1> SUFFICES ASSUME MaxRuns \in Nat, InstallerInv, [Next]_vars PROVE InstallerInv'
  OBVIOUS
<1>1. CASE Next
  <2>1. TypeOK'
    BY <1>1, StepTypeOK DEF InstallerInv
  <2>2. Whereabouts' /\ NothingLost' /\ EndTellsTruth'
    BY <1>1, ForwardSound, BackwardSound, OutsideSound DEF Next
  <2>3. QED
    BY <2>1, <2>2 DEF InstallerInv
<1>2. CASE UNCHANGED vars
  BY <1>2 DEF vars, directories, InstallerInv, TypeOK, Whereabouts, NothingLost,
     EndTellsTruth
<1>3. QED
  BY <1>1, <1>2

LEMMA InstallerInvariant ==
  ASSUME MaxRuns \in Nat
  PROVE  Spec => []InstallerInv
<1>1. Init => InstallerInv
  BY InitInstaller
<1>2. InstallerInv /\ [Next]_vars => InstallerInv'
  BY StepInstaller
<1>3. QED
  BY <1>1, <1>2, PTL DEF Spec

(***************************************************************************)
(* The variables of the installer keep their types, for any number of runs *)
(* (Install-ClaudeOpen.ps1).                                               *)
(***************************************************************************)
THEOREM TypeCorrect ==
  ASSUME MaxRuns \in Nat
  PROVE  Spec => []TypeOK
<1>1. InstallerInv => TypeOK
  BY DEF InstallerInv
<1>2. QED
  BY <1>1, InstallerInvariant, PTL

(***************************************************************************)
(* At every moment of every update the whole previous version is on the    *)
(* disk or the new one is in place and registered, wherever runs fail or   *)
(* are ended (the swap and its inner catch).                               *)
(***************************************************************************)
THEOREM VersionsSurvive ==
  ASSUME MaxRuns \in Nat
  PROVE  Spec => []NothingLost
<1>1. InstallerInv => NothingLost
  BY DEF InstallerInv
<1>2. QED
  BY <1>1, InstallerInvariant, PTL

(***************************************************************************)
(* A run that succeeds, or fails behind the swap, has installed its        *)
(* version; any other that fails has left the target as it found it unless *)
(* its clearing up was hindered (the two catch blocks).                    *)
(***************************************************************************)
THEOREM EndIsHonest ==
  ASSUME MaxRuns \in Nat
  PROVE  Spec => []EndTellsTruth
<1>1. InstallerInv => EndTellsTruth
  BY DEF InstallerInv
<1>2. QED
  BY <1>1, InstallerInvariant, PTL

-----------------------------------------------------------------------------
(***************************************************************************)
(* The usage widget.                                                       *)
(***************************************************************************)
LEMMA SnapshotsAre ==
  /\ NoSnapshot \in Snapshot /\ IdleTick \in Tick /\ IdleReader \in Reader
  /\ NoSnapshot.data = None /\ NoSnapshot.at = 0
  /\ IdleTick.data = None /\ IdleTick.at = 0
  /\ IdleReader.seen = NoSnapshot
BY BoundsAssumption DEF NoSnapshot, Snapshot, IdleTick, Tick, IdleReader, Reader, Times, None

LEMMA InitWidget == WidgetInit => WidgetTypeOK
<1>1. 1 \in 1 .. MaxTime /\ 1 \in Accounts
  BY BoundsAssumption DEF Accounts
<1>2. QED
  BY <1>1, SnapshotsAre DEF WidgetInit, WidgetTypeOK

LEMMA TickTyped ==
  ASSUME WidgetTypeOK, NEW i \in Ticks, TickStep(i)
  PROVE  WidgetTypeOK'
<1>0. tick[i] \in Tick /\ now \in Times /\ account \in Accounts /\ IdleTick \in Tick
  BY SnapshotsAre DEF WidgetTypeOK, Times
<1>1. CASE TakeSnapshot(i)
  <2>1. [tick[i] EXCEPT !.stage = "account", !.data = account] \in Tick
    BY <1>0 DEF Tick
  <2>2. QED
    BY <1>1, <2>1 DEF TakeSnapshot, WidgetTypeOK, widget
<1>2. ASSUME NEW ok \in BOOLEAN, AccountAnswers(i, ok) PROVE WidgetTypeOK'
  <2>1. tick' = [tick EXCEPT ![i] = [tick[i] EXCEPT !.stage = "answered", !.at = now,
                                       !.data = IF ok THEN tick[i].data ELSE None]]
    BY <1>2 DEF AccountAnswers
  <2>2. [tick[i] EXCEPT !.stage = "answered", !.at = now,
                        !.data = IF ok THEN tick[i].data ELSE None] \in Tick
    BY <1>0 DEF Tick
  <2>3. QED
    BY <1>2, <2>1, <2>2 DEF AccountAnswers, WidgetTypeOK, widget
<1>3. CASE Publish(i)
  BY <1>0, <1>3 DEF Publish, WidgetTypeOK, widget, Tick, Snapshot
<1>4. CASE PublishFails(i)
  BY <1>0, <1>4 DEF PublishFails, WidgetTypeOK, widget
<1>5. QED
  BY <1>1, <1>2, <1>3, <1>4 DEF TickStep

LEMMA ReaderTyped ==
  ASSUME WidgetTypeOK, NEW r \in Readers, ReaderStep(r)
  PROVE  WidgetTypeOK'
<1>0. /\ reader[r] \in Reader /\ IdleReader \in Reader /\ file \in Snapshot /\ shown \in Snapshot
      /\ NoSnapshot \in Snapshot
  BY SnapshotsAre DEF WidgetTypeOK
<1>1. CASE \E b \in {0, shown.at} : StartRead(r, b) /\ (b = 0 \/ now + Deadline <= MaxTime)
  <2>1. PICK since \in {0, shown.at} :
          StartRead(r, since) /\ (since = 0 \/ now + Deadline <= MaxTime)
    BY <1>1
  <2>2. PICK until : until = IF since = 0 THEN 0 ELSE now + Deadline
    OBVIOUS
  <2>3. until \in Times /\ since \in Times
    BY <1>0, <2>1, <2>2, BoundsAssumption DEF Times, WidgetTypeOK, Snapshot
  <2>4. [IdleReader EXCEPT !.stage = "fetching", !.before = since, !.until = until] \in Reader
    BY <1>0, <2>3 DEF Reader
  <2>5. QED
    BY <2>1, <2>2, <2>4 DEF StartRead, WidgetTypeOK, adapter
<1>2. CASE Poll(r) \/ Click(r)
  BY <1>1, <1>2 DEF Poll, Click
<1>3. CASE FileServed(r)
  <2>1. [reader[r] EXCEPT !.stage = "read", !.seen = file] \in Reader
    BY <1>0 DEF Reader
  <2>2. QED
    BY <1>3, <2>1 DEF FileServed, WidgetTypeOK, adapter
<1>4. CASE Show(r)
  <2>1. [reader[r] EXCEPT !.stage = "checking", !.seen = NoSnapshot] \in Reader
        /\ reader[r].seen \in Snapshot
    BY <1>0 DEF Reader
  <2>2. QED
    BY <1>4, <2>1 DEF Show, WidgetTypeOK, adapter
<1>5. CASE ReadFails(r) \/ Wait(r) \/ TryAgain(r)
  <2>1. \A g \in {"checking", "waiting", "fetching"} : [reader[r] EXCEPT !.stage = g] \in Reader
    BY <1>0 DEF Reader
  <2>2. QED
    BY <1>5, <2>1 DEF ReadFails, Wait, TryAgain, WidgetTypeOK, adapter
<1>6. CASE FoundNewer(r) \/ GiveUp(r)
  BY <1>0, <1>6 DEF FoundNewer, GiveUp, Finish, IsStale, WidgetTypeOK, adapter
<1>7. QED
  BY <1>2, <1>3, <1>4, <1>5, <1>6 DEF ReaderStep

LEMMA NextWidget == WidgetTypeOK /\ [WidgetNext]_widgetVars => WidgetTypeOK'
<1> SUFFICES ASSUME WidgetTypeOK, [WidgetNext]_widgetVars PROVE WidgetTypeOK'
  OBVIOUS
<1>1. CASE UNCHANGED widgetVars
  BY <1>1 DEF widgetVars, WidgetTypeOK
<1>2. CASE ChangeAccount
  BY <1>2, BoundsAssumption DEF ChangeAccount, widget, WidgetTypeOK, Accounts
<1>3. CASE Redraw
  BY <1>3 DEF Redraw, IsStale, adapter, WidgetTypeOK
<1>4. CASE Stop \/ Restart
  BY <1>4, SnapshotsAre DEF Stop, Restart, widget, WidgetTypeOK
<1>5. CASE Pass
  BY <1>5, BoundsAssumption DEF Pass, adapter, widget, WidgetTypeOK
<1>6. QED
  BY <1>1, <1>2, <1>3, <1>4, <1>5, TickTyped, ReaderTyped DEF WidgetNext

(***************************************************************************)
(* The variables of publisher and widget keep their types, for any number  *)
(* of refreshes in flight (refreshWidget, refresh).                        *)
(***************************************************************************)
THEOREM WidgetTypeCorrect == WidgetSpec => []WidgetTypeOK
BY InitWidget, NextWidget, PTL DEF WidgetSpec

(***************************************************************************)
(* Every snapshot on its way to the screen is of the present or an earlier *)
(* account and was dated in the past.                                      *)
(***************************************************************************)
Past(x) == x.data <= account /\ x.at <= now

FromThePast ==
  /\ Past(file) /\ Past(shown)
  /\ \A i \in Ticks : Past(tick[i])
  /\ \A r \in Readers : Past(reader[r].seen)

LEMMA SnapshotNumbers ==
  ASSUME WidgetTypeOK
  PROVE  /\ now \in Nat /\ account \in Nat
         /\ file.data \in Nat /\ file.at \in Nat /\ shown.data \in Nat /\ shown.at \in Nat
         /\ \A i \in Ticks : tick[i].data \in Nat /\ tick[i].at \in Nat
         /\ \A r \in Readers : reader[r].seen.data \in Nat /\ reader[r].seen.at \in Nat
BY BoundsAssumption DEF WidgetTypeOK, Accounts, Times, Snapshot, Tick, Reader, None

LEMMA TickMoves ==
  ASSUME WidgetTypeOK, NEW i \in Ticks, TickStep(i)
  PROVE  /\ UNCHANGED <<now, account, shown, reader>>
         /\ \A j \in Ticks \ {i} : tick'[j] = tick[j]
         /\ tick'[i].data \in {tick[i].data, None, account} /\ tick'[i].at \in {tick[i].at, now, 0}
         /\ \/ file' = file
            \/ file'.data = tick[i].data /\ file'.at = tick[i].at
<1>0. tick[i] \in Tick /\ tick \in [Ticks -> Tick]
  BY DEF WidgetTypeOK
<1>1. CASE TakeSnapshot(i)
  BY <1>0, <1>1 DEF TakeSnapshot, widget, Tick
<1>2. ASSUME NEW ok \in BOOLEAN, AccountAnswers(i, ok)
      PROVE  /\ UNCHANGED <<now, account, shown, reader, file>>
             /\ \A j \in Ticks \ {i} : tick'[j] = tick[j]
             /\ tick'[i].data \in {tick[i].data, None} /\ tick'[i].at = now
  BY <1>0, <1>2 DEF AccountAnswers, widget, Tick
<1>3. CASE Publish(i) \/ PublishFails(i)
  BY <1>0, <1>3, SnapshotsAre DEF Publish, PublishFails, widget
<1>4. QED
  BY <1>1, <1>2, <1>3 DEF TickStep

LEMMA ReaderMoves ==
  ASSUME WidgetTypeOK, NEW r \in Readers, ReaderStep(r)
  PROVE  /\ UNCHANGED <<now, account, tick, file>>
         /\ \A q \in Readers \ {r} : reader'[q] = reader[q]
         /\ reader'[r].seen \in {reader[r].seen, NoSnapshot, file}
         /\ shown' \in {shown, reader[r].seen}
<1>0. reader[r] \in Reader /\ reader \in [Readers -> Reader] /\ IdleReader \in Reader
  BY SnapshotsAre DEF WidgetTypeOK
<1>1. CASE Poll(r) \/ Click(r)
  BY <1>0, <1>1, SnapshotsAre DEF Poll, Click, StartRead, adapter, Reader
<1>2. CASE FileServed(r) \/ ReadFails(r) \/ Show(r)
  BY <1>0, <1>2 DEF FileServed, ReadFails, Show, adapter, Reader
<1>3. CASE Wait(r) \/ TryAgain(r)
  BY <1>0, <1>3 DEF Wait, TryAgain, adapter, Reader
<1>4. CASE FoundNewer(r) \/ GiveUp(r)
  BY <1>0, <1>4, SnapshotsAre DEF FoundNewer, GiveUp, Finish, adapter
<1>5. QED
  BY <1>1, <1>2, <1>3, <1>4 DEF ReaderStep

LEMMA OtherMoves ==
  ASSUME WidgetTypeOK, ChangeAccount \/ Redraw \/ Stop \/ Restart \/ Pass \/ UNCHANGED widgetVars
  PROVE  /\ UNCHANGED <<file, shown, reader>>
         /\ account \in Nat /\ account' \in Nat /\ now \in Nat /\ now' \in Nat
         /\ account <= account' /\ now <= now'
         /\ \A i \in Ticks : tick'[i] \in {tick[i], IdleTick}
<1>1. account \in Nat /\ now \in Nat
  BY SnapshotNumbers
<1>2. UNCHANGED <<file, shown, reader>> /\ \A i \in Ticks : tick'[i] \in {tick[i], IdleTick}
  BY DEF ChangeAccount, Redraw, Stop, Restart, Pass, widgetVars, adapter, widget
<1>3. account' \in {account, account + 1} /\ now' \in {now, now + 1}
  BY DEF ChangeAccount, Redraw, Stop, Restart, Pass, widgetVars, adapter, widget
<1>4. QED
  BY <1>1, <1>2, <1>3

LEMMA NextPast == WidgetTypeOK /\ FromThePast /\ [WidgetNext]_widgetVars => FromThePast'
<1> SUFFICES ASSUME WidgetTypeOK, FromThePast, [WidgetNext]_widgetVars PROVE FromThePast'
  OBVIOUS
<1>1. ASSUME NEW i \in Ticks, TickStep(i) PROVE FromThePast'
  <2>1. Past(tick[i])' /\ Past(file)'
    BY <1>1, TickMoves, SnapshotNumbers DEF FromThePast, Past, None
  <2>2. QED
    BY <1>1, <2>1, TickMoves DEF FromThePast, Past
<1>2. ASSUME NEW r \in Readers, ReaderStep(r) PROVE FromThePast'
  <2>1. (reader'[r].seen).data <= account /\ (reader'[r].seen).at <= now
    BY <1>2, ReaderMoves, SnapshotsAre, SnapshotNumbers DEF FromThePast, Past, None
  <2>2. QED
    BY <1>2, <2>1, ReaderMoves DEF FromThePast, Past
<1>3. CASE ChangeAccount \/ Redraw \/ Stop \/ Restart \/ Pass \/ UNCHANGED widgetVars
  <2>1. Past(file)' /\ Past(shown)' /\ \A r \in Readers : Past(reader[r].seen)'
    BY <1>3, OtherMoves, SnapshotNumbers DEF FromThePast, Past
  <2>2. \A i \in Ticks : Past(tick[i])'
    BY <1>3, OtherMoves, SnapshotNumbers, SnapshotsAre DEF FromThePast, Past, None
  <2>3. QED
    BY <2>1, <2>2 DEF FromThePast
<1>4. QED
  BY <1>1, <1>2, <1>3 DEF WidgetNext

(***************************************************************************)
(* No account is shown before the connection became its own, and no        *)
(* snapshot is dated later than it is shown, so the age that render()      *)
(* takes for its stale mark is never negative (refreshWidget, render).     *)
(***************************************************************************)
THEOREM NothingFromLater == WidgetSpec => []FromThePast
<1>1. WidgetInit => FromThePast
  BY SnapshotsAre DEF WidgetInit, FromThePast, Past, None
<1>2. QED
  BY <1>1, InitWidget, NextWidget, NextPast, PTL DEF WidgetSpec

\* An old account's data, place by place on their way to the screen.
Only(x) == x.data \in {None, account}

Sources == \A i \in Ticks : Only(tick[i])

Reads == \A r \in Readers : Only(reader[r].seen)

DriesUp ==
  UNCHANGED account =>
    /\ Sources => Sources'
    /\ Sources /\ Only(file) => Only(file)'
    /\ Only(file) /\ Reads => Reads'
    /\ Reads /\ Only(shown) => Only(shown)'

LEMMA StepDriesUp == WidgetTypeOK /\ [WidgetNext]_widgetVars => DriesUp
<1> SUFFICES ASSUME WidgetTypeOK, [WidgetNext]_widgetVars, UNCHANGED account
             PROVE  /\ Sources => Sources'
                    /\ Sources /\ Only(file) => Only(file)'
                    /\ Only(file) /\ Reads => Reads'
                    /\ Reads /\ Only(shown) => Only(shown)'
  BY DEF DriesUp
<1>1. ASSUME NEW i \in Ticks, TickStep(i) PROVE DriesUp
  BY <1>1, TickMoves DEF DriesUp, Sources, Reads, Only
<1>2. ASSUME NEW r \in Readers, ReaderStep(r) PROVE DriesUp
  BY <1>2, ReaderMoves, SnapshotsAre DEF DriesUp, Sources, Reads, Only
<1>3. CASE ChangeAccount \/ Redraw \/ Stop \/ Restart \/ Pass \/ UNCHANGED widgetVars
  BY <1>3, OtherMoves, SnapshotsAre DEF DriesUp, Sources, Reads, Only
<1>4. QED
  BY <1>1, <1>2, <1>3 DEF WidgetNext, DriesUp

(***************************************************************************)
(* While the account stays, its predecessor's data only move towards the   *)
(* screen: when the refreshes of the publisher have none none comes up,    *)
(* then none comes back into the file, then none into a read of the        *)
(* widget, and then the screen has none for good, although refreshes and   *)
(* reads overtake each other (refreshWidget, readSnapshots).               *)
(***************************************************************************)
THEOREM OldDataDriesUp == WidgetSpec => [][DriesUp]_widgetVars
BY InitWidget, NextWidget, StepDriesUp, PTL DEF WidgetSpec
=============================================================================
