--------------------------- MODULE ConfigStore ---------------------------
(***************************************************************************)
(* The configuration: one dictionary that the daemon, the HTTP threads, the *)
(* mesh CLI and the Glass agent share, and config.yaml with its backup. A   *)
(* call changes one key and writes the file in one of three ways:           *)
(*   staged   ConfigManager.update_and_save: the change is written with a   *)
(*            private copy, and published once the file is replaced         *)
(*   direct   the caller changes the dictionary, then save_to_file          *)
(*   synced   the caller changes the dictionary, then config.save_config,   *)
(*            which takes no lock and writes in place after a rename        *)
(* The value a call gives its key is the call itself. A write may fail, the *)
(* process may end at any step, and starts again from what the disk holds.  *)
(***************************************************************************)
EXTENDS Naturals, Functions

CONSTANTS
    Calls, ConfigKeys,
    KindOf,         \* "staged", "direct" or "synced", for each call
    ConfigKeyOf,          \* the key each call changes
    SectionsOf,     \* the keys it has the handlers read again; none when it is
                    \* saved for the restart
    Batches,        \* sets of calls that may be made
    MaxFailures,    \* bound: writes that fail
    MaxEnds,        \* bound: ends of the process
    old,            \* what the file gave a key first
    lost,           \* a key that an empty file left without a value
    gone, torn,     \* a file that is not there; one opened for writing, still empty
    nobody

ASSUME ConfigAssumption ==
    /\ KindOf \in [Calls -> {"staged", "direct", "synced"}] /\ ConfigKeyOf \in [Calls -> ConfigKeys]
    /\ SectionsOf \in [Calls -> SUBSET ConfigKeys]
    /\ Batches \subseteq SUBSET Calls
    /\ {old, lost, nobody} \cap Calls = {} /\ old # lost
    /\ MaxFailures \in Nat /\ MaxEnds \in Nat

VARIABLES
    settings,   \* the shared dictionary
    applied,    \* what the handlers have read of it (reload_runtime_config, ...)
    file, backup,   \* config.yaml and config.yaml.backup
    call,       \* where each call stands; "saved" and "stored" are reported as
                \* success, "stored" with the handlers not told of its change
    staged,     \* the private copy of the call that holds the lock
    writer,     \* who holds _CONFIG_WRITE_LOCK
    replaced,   \* config.yaml was replaced since save_config opened it
    running,    \* "yes", "no", or "refused": load_config raised
    failures, ends,
    overlapped  \* a save_config and a manager's save were under way at once; never read

configVars == <<settings, applied, file, backup, call, staged, writer, replaced,
                running, failures, ends, overlapped>>

Documents == [ConfigKeys -> Calls \cup {old, lost}]
\* A document is told from no file and from an empty one.
ASSUME DocumentAssumption == gone \notin Documents /\ torn \notin Documents

IsDocument(f) == f # gone /\ f # torn
Of(kind) == {c \in Calls : KindOf[c] = kind}
Synced == Of("synced")
SavingInPlace == {c \in Synced : call[c] \in {"renamed", "opened"}}
Over(c) == call[c] \in {"absent", "saved", "stored", "failed", "cut"}

ConfigInit ==
    /\ settings = [k \in ConfigKeys |-> old] /\ applied = settings
    /\ file = settings /\ backup = gone
    /\ \E batch \in Batches : call = [c \in Calls |-> IF c \in batch THEN "new" ELSE "absent"]
    /\ staged = settings /\ writer = nobody /\ replaced = FALSE /\ running = "yes"
    /\ failures = 0 /\ ends = 0 /\ overlapped = FALSE

At(c, place) == running = "yes" /\ call[c] = place
Goes(c, place) == call' = [call EXCEPT ![c] = place]
Fails == failures < MaxFailures /\ failures' = failures + 1
Overlaps(b) == overlapped' = (overlapped \/ b)

\* What handlers have read of the keys of S is the dictionary as this step leaves it.
Reread(S) == applied' = [k \in ConfigKeys |-> IF k \in S THEN settings'[k] ELSE applied[k]]

\* live_update_daemon(sections). It may give up anywhere, or not be called at
\* all; the call reports success whatever it returns.
LiveUpdate(c) == \E S \in SUBSET SectionsOf[c] :
    /\ Reread(S)
    /\ Goes(c, IF ConfigKeyOf[c] \in S THEN "saved" ELSE "stored")

---------------------------------------------------------------------------
(* Under the lock: a copy is taken, written to a temporary file, and moved *)
(* over config.yaml. A failed write removes the temporary file.            *)

\* update_and_save copies the dictionary and puts the change in the copy.
\* Mutant: the copy is shallow, so the change is in the shared sections at once.
Stage_Shared(c) ==
    /\ At(c, "new") /\ KindOf[c] = "staged" /\ writer = nobody
    /\ settings' = [settings EXCEPT ![ConfigKeyOf[c]] = c]
    /\ writer' = c /\ staged' = settings' /\ Goes(c, "staged")
    /\ Overlaps(SavingInPlace # {})
    /\ UNCHANGED <<applied, file, backup, replaced, running, failures, ends>>

\* Mutant: the private copy is written to config.yaml itself.
Stage_InPlace(c) ==
    /\ At(c, "new") /\ KindOf[c] = "staged" /\ writer = nobody
    /\ writer' = c /\ staged' = [settings EXCEPT ![ConfigKeyOf[c]] = c] /\ Goes(c, "staged")
    /\ file' = torn
    /\ Overlaps(SavingInPlace # {})
    /\ UNCHANGED <<settings, applied, backup, replaced, running, failures, ends>>

Stage(c) ==
    /\ At(c, "new") /\ KindOf[c] = "staged" /\ writer = nobody
    /\ writer' = c /\ staged' = [settings EXCEPT ![ConfigKeyOf[c]] = c] /\ Goes(c, "staged")
    /\ Overlaps(SavingInPlace # {})
    /\ UNCHANGED <<settings, applied, file, backup, replaced, running, failures, ends>>

\* A direct or synced caller changes the dictionary first, with no lock.
Change(c) ==
    /\ At(c, "new") /\ KindOf[c] # "staged"
    /\ settings' = [settings EXCEPT ![ConfigKeyOf[c]] = c] /\ Goes(c, "changed")
    /\ UNCHANGED <<applied, file, backup, staged, writer, replaced, running, failures, ends, overlapped>>

\* save_to_file copies the dictionary as it is.
CopyOut(c) ==
    /\ At(c, "changed") /\ KindOf[c] = "direct" /\ writer = nobody
    /\ writer' = c /\ staged' = settings /\ Goes(c, "staged")
    /\ Overlaps(SavingInPlace # {})
    /\ UNCHANGED <<settings, applied, file, backup, replaced, running, failures, ends>>

\* os.replace is the commit point. save_to_file lets the lock go with it.
Replace(c) ==
    /\ At(c, "staged")
    /\ file' = staged /\ replaced' = TRUE
    /\ Goes(c, "written")
    /\ writer' = IF KindOf[c] = "direct" THEN nobody ELSE c
    /\ Overlaps(SavingInPlace # {})
    /\ UNCHANGED <<settings, applied, backup, staged, running, failures, ends>>

\* Some direct callers (the region commands) call live_update_daemon all the same.
FailToReplace(c) ==
    /\ At(c, "staged") /\ Fails
    /\ Goes(c, "failed") /\ writer' = nobody
    /\ UNCHANGED <<settings, file, backup, staged, replaced, running, ends, overlapped>>
    /\ \E S \in SUBSET SectionsOf[c] : (KindOf[c] = "direct" \/ S = {}) /\ Reread(S)

\* The change, and no other part of the copy, goes into the shared dictionary;
\* then the handlers are told, unless live_update is False.
\* Mutant: the whole copy becomes the dictionary.
Publish_Whole(c) ==
    /\ At(c, "written") /\ KindOf[c] = "staged"
    /\ settings' = staged /\ LiveUpdate(c) /\ writer' = nobody
    /\ UNCHANGED <<file, backup, staged, replaced, running, failures, ends, overlapped>>

\* Mutant: the handlers read the dictionary before the change is in it.
Publish_ToldFirst(c) ==
    /\ At(c, "written") /\ KindOf[c] = "staged"
    /\ settings' = [settings EXCEPT ![ConfigKeyOf[c]] = c] /\ writer' = nobody
    /\ applied' = [k \in ConfigKeys |-> IF k \in SectionsOf[c] THEN settings[k] ELSE applied[k]]
    /\ Goes(c, IF ConfigKeyOf[c] \in SectionsOf[c] THEN "saved" ELSE "stored")
    /\ UNCHANGED <<file, backup, staged, replaced, running, failures, ends, overlapped>>

Publish(c) ==
    /\ At(c, "written") /\ KindOf[c] = "staged"
    /\ settings' = [settings EXCEPT ![ConfigKeyOf[c]] = c] /\ LiveUpdate(c) /\ writer' = nobody
    /\ UNCHANGED <<file, backup, staged, replaced, running, failures, ends, overlapped>>

\* After save_to_file the caller calls live_update_daemon, if it names sections.
Apply(c) ==
    /\ At(c, "written") /\ KindOf[c] = "direct"
    /\ UNCHANGED <<settings, file, backup, staged, writer, replaced, running, failures, ends, overlapped>>
    /\ LiveUpdate(c)

---------------------------------------------------------------------------
(* save_config: no lock, no temporary file. Two of them at once are left    *)
(* out.                                                                     *)

\* Mutant: the file is removed where it should be kept as the backup.
Rename_NoBackup(c) ==
    /\ At(c, "changed") /\ KindOf[c] = "synced" /\ SavingInPlace = {}
    /\ Goes(c, "renamed") /\ file' = gone
    /\ Overlaps(writer # nobody)
    /\ UNCHANGED <<settings, applied, backup, staged, writer, replaced, running, failures, ends>>

Rename(c) ==
    /\ At(c, "changed") /\ KindOf[c] = "synced" /\ SavingInPlace = {}
    /\ Goes(c, "renamed")
    /\ IF file = gone THEN UNCHANGED <<file, backup>>
                      ELSE backup' = file /\ file' = gone
    /\ Overlaps(writer # nobody)
    /\ UNCHANGED <<settings, applied, staged, writer, replaced, running, failures, ends>>

Open(c) ==
    /\ At(c, "renamed")
    /\ file' = torn /\ replaced' = FALSE /\ Goes(c, "opened")
    /\ Overlaps(writer # nobody)
    /\ UNCHANGED <<settings, applied, backup, staged, writer, running, failures, ends>>

\* The dictionary is dumped as it is by then, into the file that was opened:
\* if os.replace has put another in its place, nobody sees it. No handler is told.
Dump(c) ==
    /\ At(c, "opened")
    /\ file' = IF replaced THEN file ELSE settings
    /\ Goes(c, "stored")
    /\ Overlaps(writer # nobody)
    /\ UNCHANGED <<settings, applied, backup, staged, writer, replaced, running, failures, ends>>

\* save_config catches the exception and leaves the files as they are.
FailInPlace(c) ==
    /\ At(c, "renamed") \/ At(c, "opened")
    /\ Fails /\ Goes(c, "failed")
    /\ UNCHANGED <<settings, applied, file, backup, staged, writer, replaced, running, ends, overlapped>>

---------------------------------------------------------------------------
End ==
    /\ running = "yes" /\ ends < MaxEnds
    /\ running' = "no" /\ ends' = ends + 1 /\ writer' = nobody
    /\ call' = [c \in Calls |-> IF Over(c) \/ call[c] = "new" THEN call[c] ELSE "cut"]
    /\ UNCHANGED <<settings, applied, file, backup, staged, replaced, failures, overlapped>>

\* load_config raises without a file; an empty one is a configuration of
\* defaults. What is not in the dictionary's file is not in the dictionary. The
\* handlers, made anew, read all of it.
Begin ==
    /\ running = "no"
    /\ IF file = gone
       THEN running' = "refused" /\ UNCHANGED <<settings, applied, call>>
       ELSE /\ running' = "yes"
            /\ settings' = IF file = torn THEN [k \in ConfigKeys |-> lost] ELSE file
            /\ Reread(ConfigKeys)
            /\ call' = [c \in Calls |-> IF call[c] = "stored" THEN "saved" ELSE call[c]]
    /\ UNCHANGED <<file, backup, staged, writer, replaced, failures, ends, overlapped>>

ConfigStep(c) ==
    \/ Stage(c) \/ Change(c) \/ CopyOut(c) \/ Replace(c) \/ FailToReplace(c) \/ Publish(c)
    \/ Apply(c) \/ Rename(c) \/ Open(c) \/ Dump(c) \/ FailInPlace(c)

ConfigNext == End \/ Begin \/ \E c \in Calls : ConfigStep(c)

ConfigSpec == ConfigInit /\ [][ConfigNext]_configVars

---------------------------------------------------------------------------
Quiet == running = "yes" /\ \A c \in Calls : Over(c) \/ call[c] = "new"
Broken == {c \in Synced : call[c] \in {"failed", "cut"}}
Acknowledged(c) == call[c] \in {"saved", "stored"}
KeysOf(S) == {ConfigKeyOf[c] : c \in S}

(* Nothing but save_config ever leaves the disk without a whole config.yaml *)
(* or has the daemon start from an empty one; and as long as no second      *)
(* save_config is cut short, the backup of the first one is whole.          *)
DiskWhole ==
    /\ ~IsDocument(file) \/ lost \in Range(settings) => SavingInPlace \cup Broken # {}
    /\ (\A c, d \in SavingInPlace \cup Broken : c = d) => IsDocument(file) \/ IsDocument(backup)

(* When no call is under way, the handlers go by the dictionary, but for the *)
(* keys of changes that failed and of changes reported as saved that no live *)
(* update has told them of since the process started: it was not asked for, *)
(* or failed, or the caller is save_config, which tells no handler. A change *)
(* reported as saved is in the dictionary unless another call has set its   *)
(* key since, and the file holds the dictionary, but for the keys of failed *)
(* changes; of this there is no promise once a save_config broke off or     *)
(* overlapped a manager's save.                                             *)
SavedStands == Quiet =>
    LET failed == {c \in Calls \ Of("staged") : call[c] = "failed"}
        untold == {c \in Calls : call[c] = "stored"}
    IN  /\ \A k \in ConfigKeys : applied[k] # settings[k] => k \in KeysOf(failed \cup untold)
        /\ ~overlapped /\ Broken = {} =>
              /\ \A c \in Calls : Acknowledged(c) => settings[ConfigKeyOf[c]] # old
              /\ \A k \in ConfigKeys : file[k] # settings[k] => k \in KeysOf(failed)

(* An update that update_and_save refuses is never seen: not in the running *)
(* dictionary at any time, nor on the disk.                                 *)
RefusedUnseen == \A c \in Of("staged") :
    /\ c \in Range(settings) \cup Range(applied) => Acknowledged(c) \/ call[c] = "cut"
    /\ IsDocument(file) /\ c \in Range(file) => Acknowledged(c) \/ call[c] \in {"written", "cut"}
=============================================================================
