---------------------------- MODULE VenvRebuild ----------------------------
(***************************************************************************)
(* ensure_venv_compatible: before a plugin starts, its persisted virtual   *)
(* environment is rebuilt if it was made for another minor version of      *)
(* Python. The old one is moved aside and a marker names the backup until  *)
(* the new one is validated. The process may be interrupted between any    *)
(* two steps, and inside the removal or the creation of a directory; the   *)
(* next call reconciles what it finds.                                     *)
(***************************************************************************)
CONSTANTS Pythons, None, Partial

ASSUME PythonAssumption == None \notin Pythons /\ Partial \notin Pythons /\ None # Partial

VARIABLES
    python,     \* the minor version the manager runs on
    venv,       \* what is at the venv path: a complete environment for a
                \* Python, part of one, or nothing
    backup,     \* the same for the last backup name used
    marker,     \* is there a .venv-rebuild-in-progress, naming that backup?
    step        \* of ensure_venv_compatible

venvVars == <<python, venv, backup, marker, step>>

Steps == {"idle", "reconcile", "drop", "restore", "clear", "check", "mark", "move", "create",
          "install", "validate", "commit", "clean", "undo", "unmove", "unmark", "done", "raised"}

VenvInit ==
    /\ python \in Pythons /\ venv \in Pythons
    /\ backup = None /\ marker = FALSE /\ step = "idle"

\* From one step to the next, and the paths a step leaves alone.
Go(from, to) == step = from /\ step' = to
Kept(paths)  == UNCHANGED <<python, paths>>

\* Mutant: a marker is not looked for.
Entry_Check == "check"

Entry == IF marker THEN "reconcile" ELSE "check"

Ensure == Go("idle", Entry) /\ Kept(<<venv, backup, marker>>)

---------------------------------------------------------------------------
(* A marker is there: an earlier rebuild was interrupted.                  *)

\* Without a backup the old environment was not moved yet, or is back.
Reconcile ==
    /\ Kept(<<backup, marker>>)
    /\ \/ backup # None /\ venv # None /\ venv' = Partial /\ Go("reconcile", "drop")
       \/ backup # None /\ venv = None /\ UNCHANGED venv /\ Go("reconcile", "restore")
       \/ backup = None /\ UNCHANGED venv /\ Go("reconcile", IF venv = None THEN "raised" ELSE "clear")

Drop    == Go("drop", "restore") /\ venv' = None /\ Kept(<<backup, marker>>)
Restore == Go("restore", "clear") /\ venv' = backup /\ backup' = None /\ Kept(marker)
Clear   == Go("clear", "check") /\ marker' = FALSE /\ Kept(<<venv, backup>>)

---------------------------------------------------------------------------
(* A rebuild, if one is needed and the wheel was kept.                     *)

\* An environment without a readable version is left to the entrypoint check:
\* nothing at the path, or a part that may or may not have its pyvenv.cfg.
Check ==
    /\ Kept(<<venv, backup, marker>>)
    /\ IF venv \in Pythons \ {python} THEN Go("check", "mark") \/ Go("check", "raised")
       ELSE Go("check", "done")

\* Mutant: all backups share one name.
NewBackup_Same == backup

\* A new name every time: nothing is there.
NewBackup == None

Mark   == Go("mark", "move") /\ marker' = TRUE /\ backup' = NewBackup /\ Kept(venv)
Move   == Go("move", "create") /\ backup' = venv /\ venv' = None /\ Kept(marker)
Create == /\ venv' = Partial /\ Kept(<<backup, marker>>)
          /\ Go("create", "install") \/ Go("create", "undo")

\* pip ends with a complete environment, or fails.
Install ==
    /\ Kept(<<backup, marker>>)
    /\ \/ Go("install", "validate") /\ venv' = python
       \/ Go("install", "undo") /\ UNCHANGED venv

Validate == (Go("validate", "commit") \/ Go("validate", "undo")) /\ Kept(<<venv, backup, marker>>)

\* Mutant: the marker outlives the backup.
Commit_Late == Go("commit", "clean") /\ backup' = Partial /\ Kept(<<venv, marker>>)

\* The marker goes first, then the backup, of which an interruption leaves a part.
Commit == Go("commit", "clean") /\ marker' = FALSE /\ backup' \in {backup, Partial} /\ Kept(venv)

Clean  == Go("clean", "done") /\ backup' = None /\ Kept(<<venv, marker>>)

---------------------------------------------------------------------------
(* The rebuild failed: the old environment comes back.                     *)

Undo   == /\ Kept(<<backup, marker>>)
          /\ \/ venv # Partial /\ venv' = Partial /\ Go("undo", "undo")
             \/ venv' = None /\ Go("undo", "unmove")
Unmove == Go("unmove", "unmark") /\ venv' = backup /\ backup' = None /\ Kept(marker)
Unmark == Go("unmark", "raised") /\ marker' = FALSE /\ Kept(<<venv, backup>>)

\* The caller goes on.
Return == step \in {"done", "raised"} /\ step' = "idle" /\ Kept(<<venv, backup, marker>>)

\* A step outside the try raises, or the undoing itself does: the caller sees an
\* error and the next call finds things as they are.
Abandon ==
    /\ step \in Steps \ {"idle", "done", "raised", "create", "install", "validate"}
    /\ step' = "raised" /\ Kept(<<venv, backup, marker>>)

\* The process ends. It may come back in a container with another Python.
Interrupt == step' = "idle" /\ python' \in Pythons /\ UNCHANGED <<venv, backup, marker>>

VenvStep == \/ Reconcile \/ Drop \/ Restore \/ Clear \/ Check \/ Mark \/ Move \/ Create
            \/ Install \/ Validate \/ Commit \/ Clean \/ Undo \/ Unmove \/ Unmark \/ Abandon

VenvNext == Ensure \/ VenvStep \/ Return \/ Interrupt

VenvSpec == VenvInit /\ [][VenvNext]_venvVars

---------------------------------------------------------------------------
(* Properties *)

\* The environment the next call will find or restore.
Usable == IF marker /\ backup # None THEN backup ELSE venv

\* A complete environment survives whatever interrupts a rebuild, a recovery or
\* the removal of a backup.
NeverLost == Usable \in Pythons

\* A plugin is started from a complete environment for this Python or not at all.
ReadyToRun == step = "done" => venv = python

Swap == INSTANCE EnvSwap WITH env <- Usable

\* Seen through Usable, the rebuild is one step from the old environment to a
\* complete one for the Python of the manager.
ImplementsSwap == Swap!Spec
=============================================================================
