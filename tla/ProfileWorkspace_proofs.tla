---------------------- MODULE ProfileWorkspace_proofs ----------------------
(***************************************************************************)
(* Proofs about the profile workspace for every set of settings and every  *)
(* number of runs.                                                         *)
(***************************************************************************)
EXTENDS ProfileWorkspace, TLAPS

LEMMA TargetsAre ==
  /\ Len(Targets) = 3
  /\ Targets[1] = "config" /\ Targets[2] = "prefs" /\ Targets[3] = "meta"
BY DEF Targets

-----------------------------------------------------------------------------
(***************************************************************************)
(* The inductive invariant: in every stage the profile is a function of    *)
(* what it was when the run began and of how far the run has come.         *)
(***************************************************************************)

\* What purging leaves of the library, then the library with this run's
\* configuration, then the library that applies it.
Base == IF production THEN {} ELSE before.files

WithConfig == Base \cup {<<"config", run>>}

Activated == {f \in WithConfig : f[1] # "meta"} \cup {<<"meta", run>>}

\* A run's number is fresh: no file of the profile it found carries it, and no
\* later run has a backup.
Fresh ==
  /\ stage # "ready" => run \in Runs
  /\ \A f \in files : f[2] <= run
  /\ stage # "ready" => \A f \in before.files : f[2] < run
  /\ \A r \in Runs : r > run => backup[r] = NoPreferences
  /\ stage = "purge" => backup[run] = NoPreferences

Purging ==
  stage = "purge" =>
    /\ prefs = before.prefs
    /\ replaced = 0 /\ restored = 0
    /\ production => doomed = files
    /\ ~production => doomed = {} /\ files = before.files

\* The originals are known and backed up.
BackedUp ==
  stage \in {"replace", "rollback", "manifest"} =>
    /\ doomed = {}
    /\ prior = before.prefs
    /\ backup[run] = prior

Replacing ==
  stage \in {"replace", "manifest"} =>
    /\ restored = 0
    /\ stage = "replace" <=> replaced < 3
    /\ prefs = IF replaced < 2 THEN prior ELSE Merged(prior)
    /\ replaced = 0 => files = Base
    /\ replaced \in {1, 2} => files = WithConfig
    /\ replaced = 3 => files = Activated

RollingBack ==
  stage = "rollback" =>
    /\ replaced < 3
    /\ prefs = IF replaced = 2 /\ restored < 2 THEN Merged(prior) ELSE prior
    /\ files = IF replaced > 0 /\ restored = 0 THEN WithConfig ELSE Base

RolledBack ==
  stage = "rolledback" => prefs = before.prefs /\ files = Base

Done ==
  stage = "done" =>
    /\ files = Activated \cup {<<"manifest", run>>}
    /\ prefs.state = "whole"
    /\ before.prefs.keys \subseteq prefs.keys

ProfileInv ==
  /\ TypeOK
  /\ Fresh
  /\ Purging
  /\ BackedUp
  /\ Replacing
  /\ RollingBack
  /\ RolledBack
  /\ Done
  /\ SettingsRecoverable

LEMMA InitInv == Init => ProfileInv
<1> SUFFICES ASSUME Init PROVE ProfileInv
  OBVIOUS
<1>1. NoPreferences \in Preferences
  BY DEF NoPreferences, Preferences
<1>2. TypeOK
  <2>1. before \in Profile
    BY <1>1 DEF Init, Profile
  <2>2. run \in 0..MaxRuns /\ replaced \in 0..3 /\ restored \in 0..replaced
    BY MaxRunsAssumption DEF Init
  <2>3. backup \in [Runs -> Preferences] /\ stage \in Active \cup Ended
    BY <1>1 DEF Init, Ended
  <2>4. QED
    BY <1>1, <2>1, <2>2, <2>3 DEF Init, TypeOK
<1>3. Fresh
  BY DEF Init, Fresh
<1>4. Purging /\ BackedUp /\ Replacing /\ RollingBack /\ RolledBack /\ Done
  BY DEF Init, Purging, BackedUp, Replacing, RollingBack, RolledBack, Done
<1>5. SettingsRecoverable
  BY DEF Init, SettingsRecoverable
<1>6. QED
  BY <1>2, <1>3, <1>4, <1>5 DEF ProfileInv

-----------------------------------------------------------------------------
(***************************************************************************)
(* One lemma per action.                                                   *)
(***************************************************************************)

LEMMA BeginInv ==
  ASSUME ProfileInv, NEW p \in BOOLEAN, Begin(p)
  PROVE  ProfileInv'
<1> USE MaxRunsAssumption DEF ProfileInv, Begin, disk
<1>1. run \in Nat /\ run' \in Runs
  BY DEF TypeOK, Runs
<1>2. TypeOK'
  BY <1>1 DEF TypeOK, Stale, Runs, Profile, Active, Ended
<1>3. \A f \in files : f \in File /\ f[2] \in Runs /\ f[2] <= run /\ f[2] < run'
  BY <1>1 DEF TypeOK, Fresh, File, Runs
<1>4. Fresh'
  <2>1. \A f \in files' : f[2] <= run'
    BY <1>1, <1>3 DEF Runs
  <2>2. \A f \in before.files' : f[2] < run'
    BY <1>3
  <2>3. \A r \in Runs : r >= run' => backup'[r] = NoPreferences
    BY <1>1 DEF Fresh, Runs
  <2>4. QED
    BY <1>1, <2>1, <2>2, <2>3 DEF Fresh, Runs
<1>5. Purging'
  BY DEF Purging, Stale
<1>6. (BackedUp /\ Replacing /\ RollingBack /\ RolledBack /\ Done)'
  BY DEF BackedUp, Replacing, RollingBack, RolledBack, Done
<1>7. SettingsRecoverable'
  BY DEF SettingsRecoverable
<1>8. QED
  BY <1>2, <1>4, <1>5, <1>6, <1>7

LEMMA PurgeFileInv ==
  ASSUME ProfileInv, NEW f \in File, PurgeFile(f)
  PROVE  ProfileInv'
<1> USE DEF ProfileInv, PurgeFile
<1>1. TypeOK'
  BY DEF TypeOK
<1>2. Fresh'
  BY DEF Fresh
<1>3. Purging'
  BY DEF Purging
<1>4. (BackedUp /\ Replacing /\ RollingBack /\ RolledBack /\ Done)'
  BY DEF BackedUp, Replacing, RollingBack, RolledBack, Done
<1>5. SettingsRecoverable'
  BY DEF SettingsRecoverable
<1>6. QED
  BY <1>1, <1>2, <1>3, <1>4, <1>5

LEMMA BackUpInv ==
  ASSUME ProfileInv, BackUp
  PROVE  ProfileInv'
<1> USE DEF ProfileInv, BackUp
<1>1. run \in Runs
  BY DEF Fresh
<1>2. TypeOK'
  BY <1>1 DEF TypeOK, Active
<1>3. Fresh'
  BY <1>1 DEF Fresh, TypeOK, Runs
<1>4. BackedUp'
  BY <1>1 DEF BackedUp, Purging, TypeOK
<1>5. Replacing'
  BY DEF Replacing, Purging, Base
<1>6. (Purging /\ RollingBack /\ RolledBack /\ Done)'
  BY DEF Purging, RollingBack, RolledBack, Done
<1>7. SettingsRecoverable'
  <2>1. backup[run].keys = {}
    BY DEF Fresh, NoPreferences
  <2>2. \A r \in Runs : backup[r].keys \subseteq backup'[r].keys
    BY <1>1, <2>1 DEF TypeOK
  <2>3. QED
    BY <2>2 DEF SettingsRecoverable
<1>8. QED
  BY <1>2, <1>3, <1>4, <1>5, <1>6, <1>7

LEMMA PriorUnreadableInv ==
  ASSUME ProfileInv, PriorUnreadable
  PROVE  ProfileInv'
BY DEF ProfileInv, PriorUnreadable, disk, TypeOK, Ended, Fresh, Purging, BackedUp,
       Replacing, RollingBack, RolledBack, Done, SettingsRecoverable

LEMMA MergedType ==
  ASSUME NEW p \in Preferences
  PROVE  Merged(p) \in Preferences /\ Merged(p).keys = p.keys /\ Merged(p).state = "whole"
BY DEF Merged, Preferences

\* Which target a count of replaced or restored ones leads to.
LEMMA ReplaceCases ==
  ASSUME ProfileInv, Replace
  PROVE  /\ replaced \in 0..2 /\ replaced' = replaced + 1
         /\ \/ replaced = 0 /\ files' = files \cup {<<"config", run>>} /\ prefs' = prefs
            \/ replaced = 1 /\ prefs' = Merged(prior) /\ files' = files
            \/ replaced = 2 /\ files' = Applying /\ prefs' = prefs
         /\ stage' = IF replaced' = 3 THEN "manifest" ELSE "replace"
<1>1. replaced \in 0..2
  BY DEF ProfileInv, TypeOK, Replace, Replacing
<1>2. CASE replaced = 0
  BY <1>2, TargetsAre DEF Replace
<1>3. CASE replaced = 1
  BY <1>3, TargetsAre DEF Replace
<1>4. CASE replaced = 2
  BY <1>4, TargetsAre DEF Replace
<1>5. QED
  BY <1>1, <1>2, <1>3, <1>4

LEMMA ReplaceInv ==
  ASSUME ProfileInv, Replace
  PROVE  ProfileInv'
<1>1. stage = "replace" /\ run \in Runs /\ UNCHANGED <<run, production, doomed, prior,
                                               restored, backup, before, saved>>
  BY DEF ProfileInv, Fresh, Replace
<1>2. prior \in Preferences /\ prefs \in Preferences /\ restored = 0 /\ doomed = {}
  BY <1>1 DEF ProfileInv, TypeOK, Replacing, BackedUp
<1>3. prefs'.keys = prefs.keys /\ prefs' \in Preferences
  <2>1. replaced < 2 => prefs = prior
    BY <1>1 DEF ProfileInv, Replacing
  <2>2. QED
    BY <1>2, <2>1, ReplaceCases, MergedType
<1>4. files' \subseteq files \cup {<<"config", run>>, <<"meta", run>>}
  BY ReplaceCases DEF Applying
<1>5. TypeOK'
  <2>1. files' \subseteq File
    BY <1>1, <1>4 DEF ProfileInv, TypeOK, File
  <2>2. stage' \in Active \cup Ended
    BY ReplaceCases DEF Active
  <2>3. QED
    BY <1>1, <1>2, <1>3, <2>1, <2>2, ReplaceCases DEF ProfileInv, TypeOK
<1>6. Fresh'
  <2>1. \A f \in files' : f[2] <= run
    BY <1>1, <1>4 DEF ProfileInv, Fresh, Runs
  <2>2. QED
    BY <1>1, <2>1, ReplaceCases DEF ProfileInv, Fresh
<1>7. BackedUp'
  BY <1>1, ReplaceCases DEF ProfileInv, BackedUp
<1>8. Replacing'
  <2>1. CASE replaced = 0
    BY <1>1, <1>2, <2>1, ReplaceCases DEF ProfileInv, Replacing, Base, WithConfig
  <2>2. CASE replaced = 1
    BY <1>1, <1>2, <2>2, ReplaceCases DEF ProfileInv, Replacing, Base, WithConfig
  <2>3. CASE replaced = 2
    BY <1>1, <1>2, <2>3, ReplaceCases
       DEF ProfileInv, Replacing, Base, WithConfig, Activated, Applying
  <2>4. QED
    BY <2>1, <2>2, <2>3, ReplaceCases
<1>9. (Purging /\ RollingBack /\ RolledBack /\ Done)'
  BY ReplaceCases DEF Purging, RollingBack, RolledBack, Done
<1>10. SettingsRecoverable'
  BY <1>1, <1>3 DEF ProfileInv, SettingsRecoverable
<1>11. QED
  BY <1>5, <1>6, <1>7, <1>8, <1>9, <1>10 DEF ProfileInv

LEMMA ReplaceFailsInv ==
  ASSUME ProfileInv, ReplaceFails
  PROVE  ProfileInv'
<1> USE DEF ProfileInv, ReplaceFails, disk
<1>1. TypeOK'
  BY DEF TypeOK, Active
<1>2. RollingBack'
  BY DEF RollingBack, Replacing, TypeOK, Base, WithConfig
<1>3. (Fresh /\ BackedUp)'
  BY DEF Fresh, BackedUp
<1>4. (Purging /\ Replacing /\ RolledBack /\ Done)'
  BY DEF Purging, Replacing, RolledBack, Done
<1>5. SettingsRecoverable'
  BY DEF SettingsRecoverable
<1>6. QED
  BY <1>1, <1>2, <1>3, <1>4, <1>5

\* The run's own configuration is not part of what the run found.
LEMMA OwnConfigIsNew ==
  ASSUME ProfileInv, stage # "ready"
  PROVE  WithConfig \ {<<"config", run>>} = Base /\ Base \subseteq WithConfig
BY DEF ProfileInv, TypeOK, Fresh, WithConfig, Base, Runs

LEMMA RestoreCases ==
  ASSUME ProfileInv, Restore
  PROVE  /\ restored \in 0..1 /\ restored' = restored + 1
         /\ \/ restored = 0 /\ files' = files \ {<<"config", run>>} /\ prefs' = prefs
            \/ restored = 1 /\ prefs' = prior /\ files' = files
<1>1. restored \in 0..1 /\ restored < replaced
  BY DEF ProfileInv, TypeOK, Restore, RollingBack
<1>2. CASE restored = 0
  BY <1>2, TargetsAre DEF Restore
<1>3. CASE restored = 1
  BY <1>3, TargetsAre DEF Restore
<1>4. QED
  BY <1>1, <1>2, <1>3

LEMMA RestoreInv ==
  ASSUME ProfileInv, Restore
  PROVE  ProfileInv'
<1>1. stage = "rollback" /\ stage' = stage /\ restored < replaced
      /\ UNCHANGED <<run, production, doomed, prior, replaced, backup, before, saved>>
  BY DEF Restore
<1>2. prior \in Preferences /\ prefs \in Preferences /\ doomed = {}
  BY <1>1 DEF ProfileInv, TypeOK, BackedUp
<1>3. prefs'.keys = prefs.keys /\ prefs' \in Preferences
  <2>1. restored = 1 => prefs = Merged(prior)
    BY <1>1 DEF ProfileInv, TypeOK, RollingBack
  <2>2. QED
    BY <1>2, <2>1, RestoreCases, MergedType
<1>4. files' \subseteq files
  BY RestoreCases
<1>5. TypeOK'
  BY <1>1, <1>2, <1>3, <1>4, RestoreCases DEF ProfileInv, TypeOK
<1>6. (Fresh /\ BackedUp)'
  BY <1>1, <1>4 DEF ProfileInv, Fresh, BackedUp
<1>7. RollingBack'
  <2>1. replaced \in 0..2 /\ Base' = Base /\ WithConfig' = WithConfig
    BY <1>1 DEF ProfileInv, TypeOK, RollingBack, Base, WithConfig
  <2>2. files' = Base
    BY <1>1, <2>1, RestoreCases, OwnConfigIsNew DEF ProfileInv, RollingBack
  <2>3. prefs' = IF replaced = 2 /\ restored' < 2 THEN Merged(prior) ELSE prior
    BY <1>1, <2>1, RestoreCases DEF ProfileInv, RollingBack
  <2>4. QED
    BY <1>1, <2>1, <2>2, <2>3, RestoreCases DEF RollingBack
<1>8. (Purging /\ Replacing /\ RolledBack /\ Done)'
  BY <1>1 DEF Purging, Replacing, RolledBack, Done
<1>9. SettingsRecoverable'
  BY <1>1, <1>3 DEF ProfileInv, SettingsRecoverable
<1>10. QED
  BY <1>5, <1>6, <1>7, <1>8, <1>9 DEF ProfileInv

\* What a rollback may still tear or has just given back is in the backup.
LEMMA BackupCovers ==
  ASSUME ProfileInv, stage \in {"replace", "rollback", "manifest"}
  PROVE  prefs.keys = backup[run].keys /\ prefs.keys = prior.keys /\ run \in Runs
<1>1. prior \in Preferences
  BY DEF ProfileInv, TypeOK
<1>2. QED
  BY <1>1, MergedType DEF ProfileInv, BackedUp, Replacing, RollingBack, Fresh

LEMMA RestoreBreaksInv ==
  ASSUME ProfileInv, RestoreBreaks
  PROVE  ProfileInv'
<1> USE DEF ProfileInv, RestoreBreaks
<1>1. TypeOK'
  BY DEF TypeOK, Ended, TornPreferences, Preferences
<1>2. Fresh'
  BY DEF Fresh
<1>3. (Purging /\ BackedUp /\ Replacing /\ RollingBack /\ RolledBack /\ Done)'
  BY DEF Purging, BackedUp, Replacing, RollingBack, RolledBack, Done
<1>4. SettingsRecoverable'
  BY BackupCovers DEF SettingsRecoverable
<1>5. QED
  BY <1>1, <1>2, <1>3, <1>4

LEMMA RollbackEndsInv ==
  ASSUME ProfileInv, RollbackEnds
  PROVE  ProfileInv'
<1> USE DEF ProfileInv, RollbackEnds
<1>1. run \in Runs /\ prefs.keys = backup[run].keys
  BY BackupCovers
<1>2. TypeOK'
  BY <1>1 DEF TypeOK, Ended, NoPreferences, Preferences
<1>3. Fresh'
  BY <1>1 DEF Fresh, TypeOK
<1>4. RolledBack'
  BY DEF RolledBack, RollingBack, BackedUp, TypeOK, Base
<1>5. (Purging /\ BackedUp /\ Replacing /\ RollingBack /\ Done)'
  BY DEF Purging, BackedUp, Replacing, RollingBack, Done
<1>6. SettingsRecoverable'
  <2>1. \A r \in Runs : r # run => backup'[r] = backup[r]
    BY DEF TypeOK
  <2>2. QED
    BY <1>1, <2>1 DEF SettingsRecoverable
<1>7. QED
  BY <1>2, <1>3, <1>4, <1>5, <1>6

LEMMA WriteManifestInv ==
  ASSUME ProfileInv, WriteManifest
  PROVE  ProfileInv'
<1> USE DEF ProfileInv, WriteManifest
<1>1. run \in Runs
  BY DEF Fresh
<1>2. TypeOK'
  BY <1>1 DEF TypeOK, Ended, File
<1>3. Fresh'
  BY <1>1 DEF Fresh, Runs
<1>4. Done'
  <2>1. prior \in Preferences /\ replaced = 3
    BY DEF TypeOK, Replacing
  <2>2. prefs = Merged(before.prefs) /\ files = Activated
    BY <2>1 DEF Replacing, BackedUp
  <2>3. QED
    BY <2>1, <2>2, MergedType DEF Done, BackedUp, Activated, WithConfig, Base
<1>5. (Purging /\ BackedUp /\ Replacing /\ RollingBack /\ RolledBack)'
  BY DEF Purging, BackedUp, Replacing, RollingBack, RolledBack
<1>6. SettingsRecoverable'
  BY DEF SettingsRecoverable
<1>7. QED
  BY <1>2, <1>3, <1>4, <1>5, <1>6

LEMMA StopsInv ==
  ASSUME ProfileInv, Stops
  PROVE  ProfileInv'
BY DEF ProfileInv, Stops, disk, TypeOK, Active, Ended, Fresh, Purging, BackedUp, Replacing,
       RollingBack, RolledBack, Done, SettingsRecoverable

LEMMA ClientSavesInv ==
  ASSUME ProfileInv, NEW k \in Settings, ClientSaves(k)
  PROVE  ProfileInv'
<1> USE DEF ProfileInv, ClientSaves
<1>1. prefs'.keys = prefs.keys \cup {k} /\ prefs'.state = prefs.state
      /\ prefs' \in Preferences
  BY DEF TypeOK, Preferences
<1>2. TypeOK'
  BY <1>1 DEF TypeOK
<1>3. Fresh'
  BY DEF Fresh
<1>4. Done'
  BY <1>1 DEF Done, Activated, WithConfig, Base
<1>5. (Purging /\ BackedUp /\ Replacing /\ RollingBack /\ RolledBack)'
  BY DEF Purging, BackedUp, Replacing, RollingBack, RolledBack
<1>6. SettingsRecoverable'
  BY <1>1 DEF SettingsRecoverable
<1>7. QED
  BY <1>2, <1>3, <1>4, <1>5, <1>6

LEMMA NextInv ==
  ASSUME ProfileInv, [Next]_vars
  PROVE  ProfileInv'
<1>1. CASE UNCHANGED vars
  BY <1>1 DEF vars, disk, ProfileInv, TypeOK, Fresh, Purging, BackedUp, Replacing,
     RollingBack, RolledBack, Done, SettingsRecoverable, Base, WithConfig, Activated
<1>2. CASE Next
  BY <1>2, BeginInv, PurgeFileInv, BackUpInv, PriorUnreadableInv, ReplaceInv,
     ReplaceFailsInv, RestoreInv, RestoreBreaksInv, RollbackEndsInv, WriteManifestInv,
     StopsInv, ClientSavesInv DEF Next
<1>3. QED
  BY <1>1, <1>2

(***************************************************************************)
(* The inductive invariant holds in every reachable state.                 *)
(***************************************************************************)
THEOREM Invariance == Spec => []ProfileInv
<1>1. Init => ProfileInv
  BY InitInv
<1>2. ProfileInv /\ [Next]_vars => ProfileInv'
  BY NextInv
<1>3. QED
  BY <1>1, <1>2, PTL DEF Spec

-----------------------------------------------------------------------------
(***************************************************************************)
(* Type correctness.                                                       *)
(***************************************************************************)
THEOREM TypeCorrect == Spec => []TypeOK
<1>1. ProfileInv => TypeOK
  BY DEF ProfileInv
<1>2. QED
  BY <1>1, Invariance, PTL

(***************************************************************************)
(* No setting is ever lost for good, over any number of runs that fail or  *)
(* die anywhere.                                                           *)
(***************************************************************************)
THEOREM Recoverable == Spec => []SettingsRecoverable
<1>1. ProfileInv => SettingsRecoverable
  BY DEF ProfileInv
<1>2. QED
  BY <1>1, Invariance, PTL

(***************************************************************************)
(* A run that completes is whole.                                          *)
(***************************************************************************)
THEOREM Whole == Spec => []CompletedRunIsWhole
<1>1. ProfileInv => CompletedRunIsWhole
  <2>1. SUFFICES ASSUME ProfileInv, stage = "done"
                 PROVE  /\ Applied = {run}
                        /\ {<<"config", run>>, <<"manifest", run>>} \subseteq files
                        /\ prefs.state = "whole" /\ before.prefs.keys \subseteq prefs.keys
                        /\ production => \A f \in files : f[2] = run
    BY DEF CompletedRunIsWhole
  <2>2. run \in Runs /\ files = Activated \cup {<<"manifest", run>>}
    BY <2>1 DEF ProfileInv, Fresh, Done
  <2>3. Applied = {run}
    BY <2>2 DEF Applied, Activated
  <2>4. <<"config", run>> \in files /\ <<"manifest", run>> \in files
    BY <2>2 DEF Activated, WithConfig
  <2>5. production => \A f \in files : f[2] = run
    BY <2>2 DEF Activated, WithConfig, Base
  <2>6. QED
    BY <2>1, <2>3, <2>4, <2>5 DEF ProfileInv, Done
<1>2. QED
  BY <1>1, Invariance, PTL

(***************************************************************************)
(* A candidate run that rolls back restores the profile.                   *)
(***************************************************************************)
THEOREM Restored == Spec => []CandidateRollbackRestores
<1>1. ProfileInv => CandidateRollbackRestores
  BY DEF ProfileInv, TypeOK, Profile, RolledBack, Base, CandidateRollbackRestores, AsBefore
<1>2. QED
  BY <1>1, Invariance, PTL

(***************************************************************************)
(* What a production run that rolls back leaves instead: the settings as   *)
(* they were and an empty library, so that the profile is as it was        *)
(* (ProductionRollbackRestores) only if there was no library to purge.     *)
(***************************************************************************)
THEOREM RolledBackProduction ==
  Spec => [](stage = "rolledback" /\ production =>
               /\ prefs = before.prefs /\ files = {}
               /\ AsBefore <=> before.files = {})
<1> DEFINE Emptied == stage = "rolledback" /\ production =>
                        /\ prefs = before.prefs /\ files = {}
                        /\ AsBefore <=> before.files = {}
<1>1. ProfileInv => Emptied
  BY DEF ProfileInv, TypeOK, Profile, RolledBack, Base, AsBefore
<1>2. QED
  BY <1>1, Invariance, PTL

(***************************************************************************)
(* A candidate run never leaves _meta.json applying a configuration that   *)
(* is not there, at whatever operation it ends.                            *)
(***************************************************************************)
THEOREM AppliedKept == Spec => CandidateKeepsApplied
<1>1. ASSUME ProfileInv, Next, ~production', AppliedConfigExists
      PROVE  AppliedConfigExists'
  <2> USE <1>1
  <2>1. CASE UNCHANGED files
    BY <2>1 DEF AppliedConfigExists, Applied
  <2>2. ASSUME NEW f \in File, PurgeFile(f) PROVE FALSE
    BY <2>2 DEF PurgeFile, ProfileInv, Purging
  <2>3. CASE Replace
    <3>1. stage = "replace" /\ run' = run
      BY <2>3 DEF Replace
    <3>2. CASE replaced = 2
      <4>1. <<"config", run>> \in files
        BY <3>1, <3>2 DEF ProfileInv, Replacing, WithConfig
      <4>2. files' = Applying
        BY <2>3, <3>2, ReplaceCases
      <4>3. QED
        BY <4>1, <4>2 DEF Applying, AppliedConfigExists, Applied
    <3>3. CASE replaced # 2
      BY <2>3, <3>3, <2>1, ReplaceCases DEF AppliedConfigExists, Applied
    <3>4. QED
      BY <3>2, <3>3
  <2>4. CASE Restore
    <3>1. CASE restored = 0
      <4>1. files' = Base
        BY <2>4, <3>1, RestoreCases, OwnConfigIsNew
           DEF Restore, ProfileInv, TypeOK, RollingBack
      <4>2. run \in Runs /\ \A f \in files' : f[2] < run
        BY <2>4, <4>1 DEF ProfileInv, Fresh, Base, Restore
      <4>3. files' = files \ {<<"config", run>>}
        BY <2>4, <3>1, RestoreCases
      <4>4. <<"meta", run>> \notin files'
        BY <4>2 DEF Runs
      <4>5. QED
        BY <4>3, <4>4 DEF AppliedConfigExists, Applied
    <3>2. CASE restored # 0
      BY <2>4, <3>2, <2>1, RestoreCases
    <3>3. QED
      BY <3>1, <3>2
  <2>5. CASE WriteManifest
    BY <2>5 DEF WriteManifest, AppliedConfigExists, Applied
  <2>6. CASE \/ \E p \in BOOLEAN : Begin(p)
             \/ BackUp \/ PriorUnreadable \/ ReplaceFails \/ RestoreBreaks
             \/ RollbackEnds \/ Stops \/ \E k \in Settings : ClientSaves(k)
    BY <2>1, <2>6 DEF Begin, BackUp, PriorUnreadable, ReplaceFails, RestoreBreaks,
       RollbackEnds, Stops, ClientSaves, disk
  <2>7. QED
    BY <2>2, <2>3, <2>4, <2>5, <2>6 DEF Next
<1>2. ProfileInv /\ [Next]_vars
        => [~production' /\ AppliedConfigExists => AppliedConfigExists']_vars
  BY <1>1
<1>3. QED
  BY <1>2, Invariance, PTL DEF Spec, CandidateKeepsApplied
=============================================================================
