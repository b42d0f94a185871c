-------------------------- MODULE ProfileWorkspace --------------------------
(***************************************************************************)
(* The profile of the isolated client, as the identity harness writes it   *)
(* on every launch (identity-harness/index.js): stale files are purged,    *)
(* originals are backed up, three files are replaced one after the other,  *)
(* a failure in between is rolled back, and a manifest is written last.    *)
(* The producer is a process of its own that may end between any two file  *)
(* operations; the client runs after a producer that succeeded.            *)
(*                                                                         *)
(* Every run uses a fresh configuration id, here its number.  A temporary  *)
(* file and the rename that puts it in place are one step: the temporary   *)
(* files that a failed run may leave are not part of the profile.          *)
(***************************************************************************)
EXTENDS Naturals, Sequences

CONSTANTS
  Settings,   \* keys of claude_desktop_config.json that the client owns
  MaxRuns     \* bound: how often the producer is started

ASSUME MaxRunsAssumption == MaxRuns \in Nat

VARIABLES
  run,         \* the number of the latest run, its configurationId
  production,  \* whether it is a production run (purgeStaleConfigs)
  stage,       \* where it is
  doomed,      \* listed by readdir, not yet purged
  files,       \* configLibrary; <<"meta", i>> is a _meta.json that applies i
  prefs,       \* claude_desktop_config.json
  prior,       \* what the run read of it
  replaced,    \* how many targets were replaced (written)
  restored,    \* how many of those were rolled back
  backup,      \* .rollback/<configurationId>: the preferences backed up there
  before,      \* history: the profile when the run began
  saved        \* history: every setting the client has saved

disk == <<files, prefs, backup>>
vars == <<run, production, stage, doomed, files, prefs, prior, replaced,
          restored, backup, before, saved>>

Runs == 1..MaxRuns

File == {"config", "manifest", "meta"} \X Runs

\* A file cut short by a write that did not finish is torn: JSON.parse() throws.
Preferences == [state : {"absent", "whole", "torn"}, keys : SUBSET Settings]

NoPreferences == [state |-> "absent", keys |-> {}]

TornPreferences == [state |-> "torn", keys |-> {}]

Profile == [files : SUBSET File, prefs : Preferences]

Active == {"purge", "replace", "rollback", "manifest"}

Ended == {"ready", "done", "rolledback", "stopped"}

TypeOK ==
  /\ run \in 0..MaxRuns
  /\ production \in BOOLEAN
  /\ stage \in Active \cup Ended
  /\ files \subseteq File
  /\ doomed \subseteq files
  /\ prefs \in Preferences
  /\ prior \in Preferences
  /\ replaced \in 0..3
  /\ restored \in 0..replaced
  /\ backup \in [Runs -> Preferences]
  /\ before \in Profile
  /\ saved \subseteq Settings

Init ==
  /\ run = 0
  /\ production = FALSE
  /\ stage = "ready"
  /\ doomed = {}
  /\ files = {}
  /\ prefs = NoPreferences
  /\ prior = NoPreferences
  /\ replaced = 0
  /\ restored = 0
  /\ backup = [r \in Runs |-> NoPreferences]
  /\ before = [files |-> files, prefs |-> prefs]
  /\ saved = {}

Applied == {i \in Runs : <<"meta", i>> \in files}

-----------------------------------------------------------------------------
\* Purging.

StaleConfigs == {f \in files : f[1] # "manifest"}

\* purgeConfigLibrary(): everything, for nothing carries the fresh id yet.
Stale == files

Begin(p) ==
  /\ stage \in Ended
  /\ run < MaxRuns
  /\ run' = run + 1
  /\ production' = p
  /\ stage' = "purge"
  /\ doomed' = IF p THEN Stale ELSE {}
  /\ replaced' = 0
  /\ restored' = 0
  /\ before' = [files |-> files, prefs |-> prefs]
  /\ UNCHANGED <<disk, prior, saved>>

PurgeFile(f) ==
  /\ stage = "purge"
  /\ f \in doomed
  /\ files' = files \ {f}
  /\ doomed' = doomed \ {f}
  /\ UNCHANGED <<run, production, stage, prefs, prior, replaced, restored, backup,
                 before, saved>>

-----------------------------------------------------------------------------
\* Backup, replacement and rollback.

BackUpNothing ==
  /\ stage = "purge"
  /\ doomed = {}
  /\ prefs.state # "torn"
  /\ prior' = prefs
  /\ stage' = "replace"
  /\ UNCHANGED <<run, production, doomed, files, prefs, replaced, restored, backup,
                 before, saved>>

\* Read the prior bytes and back them up.  The backup of _meta.json is left
\* out: the last target is never rolled back.
BackUp ==
  /\ stage = "purge"
  /\ doomed = {}
  /\ prefs.state # "torn"
  /\ prior' = prefs
  /\ backup' = [backup EXCEPT ![run] = prefs]
  /\ stage' = "replace"
  /\ UNCHANGED <<run, production, doomed, files, prefs, replaced, restored, before,
                 saved>>

\* parseJsonBytes() of the prior preferences throws, outside the guarded loop.
PriorUnreadable ==
  /\ stage = "purge"
  /\ doomed = {}
  /\ prefs.state = "torn"
  /\ prior' = prefs
  /\ stage' = "stopped"
  /\ UNCHANGED <<run, production, doomed, disk, replaced, restored, before, saved>>

MetaFirst == <<"meta", "config", "prefs">>

Targets == <<"config", "prefs", "meta">>

\* deepMerge() of the supplied preferences over the prior ones.
Merged(p) == [state |-> "whole", keys |-> p.keys]

\* The library once _meta.json applies this run.
Applying == {f \in files : f[1] # "meta"} \cup {<<"meta", run>>}

Replace ==
  LET target == Targets[replaced + 1] IN
  /\ stage = "replace"
  /\ \/ target = "config" /\ files' = files \cup {<<"config", run>>} /\ UNCHANGED prefs
     \/ target = "prefs" /\ prefs' = Merged(prior) /\ UNCHANGED files
     \/ target = "meta" /\ files' = Applying /\ UNCHANGED prefs
  /\ replaced' = replaced + 1
  /\ stage' = IF replaced' = Len(Targets) THEN "manifest" ELSE "replace"
  /\ UNCHANGED <<run, production, doomed, prior, restored, backup, before, saved>>

\* Writing or renaming a temporary file throws.
ReplaceFails ==
  /\ stage = "replace"
  /\ stage' = "rollback"
  /\ UNCHANGED <<run, production, doomed, disk, prior, replaced, restored, before, saved>>

KeepCreated ==
  LET target == Targets[restored + 1] IN
  /\ stage = "rollback"
  /\ restored < replaced
  /\ \/ target = "config" /\ UNCHANGED <<files, prefs>>
     \/ target = "prefs" /\ prefs' = prior /\ UNCHANGED files
  /\ restored' = restored + 1
  /\ UNCHANGED <<run, production, stage, doomed, prior, replaced, backup, before, saved>>

\* A file that did not exist is removed, one that did gets its bytes back.
Restore ==
  LET target == Targets[restored + 1] IN
  /\ stage = "rollback"
  /\ restored < replaced
  /\ \/ target = "config" /\ files' = files \ {<<"config", run>>} /\ UNCHANGED prefs
     \/ target = "prefs" /\ prefs' = prior /\ UNCHANGED files
  /\ restored' = restored + 1
  /\ UNCHANGED <<run, production, stage, doomed, prior, replaced, backup, before, saved>>

\* The bytes are given back in place, without a rename: the write may stop half way.
RestoreBreaks ==
  /\ stage = "rollback"
  /\ restored < replaced
  /\ Targets[restored + 1] = "prefs"
  /\ prior.state # "absent"
  /\ prefs' = TornPreferences
  /\ stage' = "stopped"
  /\ UNCHANGED <<run, production, doomed, files, prior, replaced, restored, backup,
                 before, saved>>

RollbackEnds ==
  /\ stage = "rollback"
  /\ restored = replaced
  /\ backup' = [backup EXCEPT ![run] = NoPreferences]
  /\ stage' = "rolledback"
  /\ UNCHANGED <<run, production, doomed, files, prefs, prior, replaced, restored,
                 before, saved>>

WriteManifest ==
  /\ stage = "manifest"
  /\ files' = files \cup {<<"manifest", run>>}
  /\ stage' = "done"
  /\ UNCHANGED <<run, production, doomed, prefs, prior, replaced, restored, backup,
                 before, saved>>

\* The process is killed, or an operation outside the guarded loop throws.
Stops ==
  /\ stage \in Active
  /\ stage' = "stopped"
  /\ UNCHANGED <<run, production, doomed, disk, prior, replaced, restored, before, saved>>

\* The client, launched after a run that succeeded, saves a setting.
ClientSaves(k) ==
  /\ stage = "done"
  /\ k \notin prefs.keys
  /\ prefs' = [prefs EXCEPT !.keys = @ \cup {k}]
  /\ saved' = saved \cup {k}
  /\ UNCHANGED <<run, production, stage, doomed, files, prior, replaced, restored,
                 backup, before>>

Next ==
  \/ \E p \in BOOLEAN : Begin(p)
  \/ \E f \in File : PurgeFile(f)
  \/ BackUp
  \/ PriorUnreadable
  \/ Replace
  \/ ReplaceFails
  \/ Restore
  \/ RestoreBreaks
  \/ RollbackEnds
  \/ WriteManifest
  \/ Stops
  \/ \E k \in Settings : ClientSaves(k)

Spec == Init /\ [][Next]_vars

-----------------------------------------------------------------------------
\* Properties.

(***************************************************************************)
(* No setting the client ever saved is lost for good: it is in the         *)
(* preferences file or in a rollback backup, even when the process dies    *)
(* while the rollback rewrites the file in place, and over any number of   *)
(* later runs ("REAL backup BEFORE any replacement").                      *)
(***************************************************************************)
SettingsRecoverable ==
  \A k \in saved : k \in prefs.keys \/ \E r \in Runs : k \in backup[r].keys

(***************************************************************************)
(* A run that completes activates exactly its own configuration, keeps the *)
(* client's settings, and if it is a production run leaves nothing of any  *)
(* earlier run in the library, also of runs that died half way             *)
(* (purgeConfigLibrary: "no stale config ... survives a relaunch").        *)
(***************************************************************************)
CompletedRunIsWhole ==
  stage = "done" =>
    /\ Applied = {run}
    /\ {<<"config", run>>, <<"manifest", run>>} \subseteq files
    /\ prefs.state = "whole" /\ before.prefs.keys \subseteq prefs.keys
    /\ production => \A f \in files : f[2] = run

\* The profile is what it was when the run began.
AsBefore == [files |-> files, prefs |-> prefs] = before

(***************************************************************************)
(* A candidate run that fails while replacing files and rolls back leaves  *)
(* the profile as it found it, whatever earlier runs left there.           *)
(***************************************************************************)
CandidateRollbackRestores == stage = "rolledback" /\ ~production => AsBefore

(***************************************************************************)
(* The same of a production run: createProductionWorkspace says of itself  *)
(* that "atomic writes + rollback ... still hold".                         *)
(***************************************************************************)
ProductionRollbackRestores == stage = "rolledback" /\ production => AsBefore

(***************************************************************************)
(* A candidate run never leaves _meta.json applying a configuration that   *)
(* is not there, at whatever operation it ends: the configuration is in    *)
(* place before _meta.json applies it, and rollback removes it only while  *)
(* _meta.json still applies another one.                                   *)
(***************************************************************************)
AppliedConfigExists == \A i \in Applied : <<"config", i>> \in files

CandidateKeepsApplied ==
  [][~production' /\ AppliedConfigExists => AppliedConfigExists']_vars
=============================================================================
