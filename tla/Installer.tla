------------------------------ MODULE Installer ------------------------------
(***************************************************************************)
(* The installer (Install-ClaudeOpen.ps1) and the uninstaller: how a       *)
(* version is staged, swapped with the installed one, verified, registered *)
(* and, when any of that fails, rolled back.  Each action is one operation *)
(* on a directory or on the package registration, and the script may be    *)
(* ended between any two.                                                  *)
(***************************************************************************)
EXTENDS Naturals

CONSTANT MaxRuns  \* bound: runs of the installer

VARIABLES
  run,       \* the number of the run, which stands for the version it brings
  step,      \* what the run has done
  ended,     \* how the last run ended
  before,    \* what the target directory held when the run began
  hindered,  \* whether anything failed in the clearing up of the run
  target,    \* the installation directory
  staging,   \* .ClaudeOpen.install.<guid> of the run
  backup,    \* .ClaudeOpen.previous.<guid> of the run
  inside,    \* that directory after it was moved into the target directory
  identity   \* the version that the package ClaudeOpen is registered for

directories == <<target, staging, backup, inside>>
vars == <<run, step, ended, before, hindered, directories, identity>>

\* A directory: absent, a whole version with its marker, or what is left of one.
Absent == 0

Versions == 1 .. MaxRuns

Rest == MaxRuns + 1

Directory == 0 .. MaxRuns + 1

TypeOK ==
  /\ run \in 0 .. MaxRuns
  /\ step \in {"idle", "staging", "staged", "aside", "placed", "registered", "undo", "undone"}
  /\ ended \in {"not", "installed", "incomplete", "failed", "killed"}
  /\ hindered \in BOOLEAN
  /\ before \in Directory /\ target \in Directory /\ staging \in Directory
  /\ backup \in Directory /\ inside \in Directory
  /\ identity \in 0 .. MaxRuns

Init ==
  /\ run = 0
  /\ step = "idle"
  /\ ended = "not"
  /\ before = Absent
  /\ hindered = FALSE
  /\ target = Absent
  /\ staging = Absent
  /\ backup = Absent
  /\ inside = Absent
  /\ identity = 0

-----------------------------------------------------------------------------
(***************************************************************************)
(* A target without the marker is refused; in what is left of a version    *)
(* there may be the marker or not.  The directories of earlier runs have   *)
(* other names and are never looked at again.                              *)
(***************************************************************************)
Begin ==
  /\ step = "idle"
  /\ run < MaxRuns
  /\ run' = run + 1
  /\ step' = "staging"
  /\ ended' = "not"
  /\ before' = target
  /\ hindered' = FALSE
  /\ staging' = Rest
  /\ backup' = Absent
  /\ inside' = Absent
  /\ UNCHANGED <<target, identity>>

\* Payload and client are copied, checked and patched, and the marker is written.
Stage ==
  /\ step = "staging"
  /\ step' = "staged"
  /\ staging' = run
  /\ UNCHANGED <<run, ended, before, hindered, target, backup, inside, identity>>

\* The outer catch: the staging directory, where it is left, is removed.
Abort ==
  /\ step' = "idle"
  /\ ended' = "failed"
  /\ \/ staging' = Absent /\ UNCHANGED hindered
     \/ staging # Absent /\ staging' = Rest /\ hindered' = TRUE

\* Nothing was moved yet: copying or patching failed, or the target is in use.
Fail ==
  /\ step \in {"staging", "staged"}
  /\ Abort
  /\ UNCHANGED <<run, before, target, backup, inside, identity>>

\* The processes of the old version are stopped and it is moved away.
SetAside ==
  /\ step = "staged"
  /\ step' = "aside"
  /\ backup' = target
  /\ target' = Absent
  /\ UNCHANGED <<run, ended, before, hindered, staging, inside, identity>>

PutInPlace ==
  /\ step = "aside"
  /\ step' = "placed"
  /\ target' = staging
  /\ staging' = Absent
  /\ UNCHANGED <<run, ended, before, hindered, backup, inside, identity>>

\* The files are verified and the package is registered for them.
Register ==
  /\ step = "placed"
  /\ step' = "registered"
  /\ identity' = run
  /\ UNCHANGED <<run, ended, before, hindered, directories>>

\* The move, the verification or the registration failed.
SwapFails ==
  /\ step \in {"aside", "placed"}
  /\ step' = "undo"
  /\ identity' \in IF step = "placed" THEN {identity, run, 0} ELSE {identity}
  /\ UNCHANGED <<run, ended, before, hindered, directories>>

(***************************************************************************)
(* The inner catch removes the target, which may stop half way without a   *)
(* word, and moves the previous version back: into the target directory    *)
(* where that is still there.                                              *)
(***************************************************************************)
Restore ==
  /\ step = "undo"
  /\ backup # Absent
  /\ step' = "undone"
  /\ backup' = Absent
  /\ \/ target' = backup /\ UNCHANGED <<inside, hindered>>
     \/ /\ target # Absent
        /\ target' \in {target, Rest}
        /\ inside' = backup
        /\ hindered' = TRUE
  /\ UNCHANGED <<run, ended, before, staging, identity>>

\* Without a previous version the registration is removed, where it can be.
RemoveAll ==
  /\ step = "undo"
  /\ backup = Absent
  /\ step' = "undone"
  /\ \/ target' = Absent /\ UNCHANGED hindered
     \/ target # Absent /\ target' \in {target, Rest} /\ hindered' = TRUE
  /\ identity' \in {0, identity}
  /\ UNCHANGED <<run, ended, before, staging, backup, inside>>

\* The previous version cannot be moved back: out of the inner catch.
RestoreFails ==
  /\ step = "undo"
  /\ backup # Absent
  /\ target' \in IF target = Absent THEN {Absent} ELSE {Absent, target, Rest}
  /\ step' = "idle"
  /\ ended' = "failed"
  /\ staging' \in IF staging = Absent THEN {Absent} ELSE {Absent, Rest}
  /\ hindered' = TRUE
  /\ UNCHANGED <<run, before, backup, inside, identity>>

\* Where a version is in place its package is registered again; that this fails
\* is a warning.  Then the run fails.
Reregister ==
  /\ step = "undone"
  /\ identity' \in IF target = Absent THEN {identity}
                   ELSE {identity, 0} \cup ({target} \cap Versions)
  /\ Abort
  /\ UNCHANGED <<run, before, target, backup, inside>>

\* The backup is removed and the shortcuts are written: the run succeeds.
Commit ==
  /\ step = "registered"
  /\ step' = "idle"
  /\ ended' = "installed"
  /\ backup' = Absent
  /\ UNCHANGED <<run, before, hindered, target, staging, inside, identity>>

\* The backup cannot be removed, or after it a shortcut cannot be written: the run
\* fails with the new version in place.
CommitFails ==
  /\ step = "registered"
  /\ step' = "idle"
  /\ ended' = "incomplete"
  /\ backup' \in IF backup = Absent THEN {Absent} ELSE {backup, Rest, Absent}
  /\ UNCHANGED <<run, before, hindered, target, staging, inside, identity>>

\* The script is ended; so is a removal, half way through.
Killed ==
  /\ step # "idle"
  /\ step' = "idle"
  /\ ended' = "killed"
  /\ target' \in IF step = "undo" /\ target # Absent THEN {target, Rest, Absent} ELSE {target}
  /\ backup' \in IF step = "registered" /\ backup # Absent THEN {backup, Rest} ELSE {backup}
  /\ UNCHANGED <<run, before, hindered, staging, inside, identity>>

\* The uninstaller: the registration, then the directory with all that was moved
\* into it; either may fail.
Uninstall ==
  /\ step = "idle"
  /\ target # Absent
  /\ identity' \in {0, identity}
  /\ target' \in {Absent, Rest}
  /\ before' = Absent
  /\ ended' = "not"
  /\ inside' = Absent
  /\ UNCHANGED <<run, step, hindered, staging, backup>>

Next ==
  \/ Begin \/ Stage \/ Fail
  \/ SetAside \/ PutInPlace \/ Register
  \/ SwapFails \/ Restore \/ RemoveAll \/ RestoreFails \/ Reregister
  \/ Commit \/ CommitFails
  \/ Killed
  \/ Uninstall

Spec == Init /\ [][Next]_vars

-----------------------------------------------------------------------------
\* Properties.

(***************************************************************************)
(* No update loses a working version: until the new one is verified and    *)
(* registered in its place, the whole previous version is on the disk, at  *)
(* its place or set aside, wherever the run fails or is ended ("verify the *)
(* swapped-in install BEFORE the prior backup is deleted").                *)
(***************************************************************************)
NothingLost ==
  before \in Versions =>
    \/ before \in {target, backup, inside}
    \/ target = run /\ identity = run

(***************************************************************************)
(* The end of a run tells what is there: after success the new version,    *)
(* registered, and nothing else of the run; after a failure behind the     *)
(* swap the new version all the same; after any other failure what was     *)
(* there before, unless something could not be removed or moved ("so the   *)
(* user is never left with a broken/half installed target").               *)
(***************************************************************************)
EndTellsTruth ==
  /\ ended \in {"installed", "incomplete"} => target = run /\ identity = run /\ staging = Absent
  /\ ended = "installed" => backup = Absent
  /\ ended = "failed" /\ ~hindered =>
       target = before /\ staging = Absent /\ backup = Absent
=============================================================================
