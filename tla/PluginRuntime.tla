--------------------------- MODULE PluginRuntime ---------------------------
(***************************************************************************)
(* The plugin manager process and one installed service plugin. Requests   *)
(* run on IPC worker threads, one operation of a plugin at a time; the     *)
(* supervisor thread looks for exited processes twice a second; the main   *)
(* thread starts an enabled plugin at boot and stops it on a signal, with  *)
(* no regard to the operations. They share the lock of PluginRuntime,      *)
(* which a start keeps while the environment is rebuilt (VenvRebuild) and  *)
(* which stop gives up while it waits for the process to end.              *)
(*                                                                         *)
(* The process may end at any step, leaving what is on disk and, where no  *)
(* control group ends them, the plugin's processes.                        *)
(***************************************************************************)
EXTENDS VenvRebuild, Selection, SequencesExt

CONSTANTS
    Workers, Main, Supervisor,  \* threads
    Pids,                       \* processes alive or not yet forgotten
    CrashMax, Window,           \* crash_max_exits, crash_window in ticks
    CgroupKill,                 \* does the end of the manager end its plugins?
    MaxOps, MaxExits, MaxBoots  \* bounds

ASSUME RuntimeAssumption ==
    /\ Main \notin Workers /\ Supervisor \notin Workers /\ Main # Supervisor
    /\ None \notin Workers \cup {Main, Supervisor} \cup Pids
    /\ CrashMax \in Nat \ {0} /\ Window \in Nat /\ CgroupKill \in BOOLEAN

\* A new process is not one that is still alive or waited for: the handle, and
\* those a worker and the main thread are killing.
ASSUME PidAssumption == \A p, q, r \in Pids \cup {None} : Pids \ {p, q, r} # {}

Threads == Workers \cup {Main, Supervisor}

VARIABLES
    enabled,    \* on disk
    manager,    \* "down", "up" or "closing"
    todo,       \* what each thread still does of the call it is in
    operation,  \* the worker whose operation is registered, or None
    lock,       \* the thread inside runtime.start, or None: other holders do
                \* all they do in one step
    state,      \* _runtime_state
    handle,     \* the process of _handles, or None
    caught,     \* the handle a thread's stop read
    alive,      \* processes of the plugin
    crashes,    \* _crash_times, as ages
    revived,    \* never read: ages of the supervisor's restarts
    asked,      \* never read: is the plugin meant to run?
    ops, exits, boots

managerVars == <<enabled, manager, todo, operation, lock, state, handle, caught, alive,
                 crashes, revived, asked, ops, exits, boots>>
vars == <<venvVars, managerVars>>

Init ==
    /\ VenvInit
    /\ enabled \in BOOLEAN /\ manager = "down" /\ asked = FALSE
    /\ todo = [t \in Threads |-> <<>>] /\ operation = None /\ lock = None
    /\ state = "STOPPED" /\ handle = None /\ caught = [t \in Threads |-> None] /\ alive = {}
    /\ crashes = <<>> /\ revived = <<>> /\ ops = 0 /\ exits = 0 /\ boots = 0

---------------------------------------------------------------------------
(* Calls, as the steps they consist of                                     *)

Stop    == <<"mark_stop", "kill", "sweep_stop">>
Disable == <<"mark_off", "kill", "sweep_off", "off">>

Calls ==
    {<<"on", "start">>, Stop, Disable}
    \cup (IF enabled THEN {<<"start">>, Stop \o <<"start">>, Stop \o <<"install", "on", "start">>}
          ELSE {Stop \o <<"install">>})

Doing(t, what) == todo[t] # <<>> /\ Head(todo[t]) = what

\* A call goes on with the steps it has left; an operation ends with its call.
GoOn(t, left) ==
    /\ todo' = [todo EXCEPT ![t] = left]
    /\ operation' = IF left = <<>> /\ operation = t THEN None ELSE operation

GoToNext(t) == GoOn(t, Tail(todo[t]))

Free(t) == lock \in {None, t}

---------------------------------------------------------------------------
(* Operations                                                              *)

\* Mutant: the operations of a plugin are not exclusive.
MayBegin_Any(w) == todo[w] = <<>>

MayBegin(w) == todo[w] = <<>> /\ operation = None

\* The socket is there from the end of the boot to the signal. A connection gets
\* a thread of its own: which one makes no difference.
Request(w) ==
    /\ manager = "up" /\ todo[Main] = <<>> /\ ops < MaxOps
    /\ MayBegin(w) /\ w = CHOOSE u \in Workers : todo[u] = <<>>
    /\ \E call \in Calls : todo' = [todo EXCEPT ![w] = call]
    /\ operation' = w /\ ops' = ops + 1
    /\ UNCHANGED <<venvVars, enabled, manager, lock, state, handle, caught, alive, crashes,
                   revived, asked, exits, boots>>

WriteOn(t) ==
    /\ Doing(t, "on") /\ enabled' = TRUE /\ GoToNext(t)
    /\ UNCHANGED <<venvVars, manager, lock, state, handle, caught, alive, crashes, revived,
                   asked, ops, exits, boots>>

WriteOff(t) ==
    /\ Doing(t, "off") /\ enabled' = FALSE /\ state' = "DISABLED" /\ GoToNext(t)
    /\ UNCHANGED <<venvVars, manager, lock, handle, caught, alive, crashes, revived, asked,
                   ops, exits, boots>>

\* A new release has a directory, and an environment, of its own; if pip fails
\* the state on disk still names the old one.
InstallWheel(t) ==
    /\ Doing(t, "install")
    /\ \/ /\ venv' = python /\ backup' = None /\ marker' = FALSE
          /\ GoToNext(t)
       \/ UNCHANGED <<venv, backup, marker>> /\ GoOn(t, <<>>)
    /\ UNCHANGED <<python, step, enabled, manager, lock, state, handle, caught, alive, crashes,
                   revived, asked, ops, exits, boots>>

---------------------------------------------------------------------------
(* stop                                                                    *)

\* First under the lock: the handle, if there is one, and a state that tells
\* the supervisor that an exit is expected.
Announce(t, token, during, after) ==
    /\ Doing(t, token) /\ Free(t)
    /\ asked' = FALSE
    /\ caught' = [caught EXCEPT ![t] = handle]
    /\ IF handle # None THEN state' = during /\ GoToNext(t)
       ELSE state' = after /\ GoOn(t, SubSeq(todo[t], 4, Len(todo[t])))
    /\ UNCHANGED <<venvVars, enabled, manager, lock, handle, alive, crashes, revived, ops,
                   exits, boots>>

MarkStop(t) == Announce(t, "mark_stop", "STOPPING", "STOPPED")
MarkOff(t)  == Announce(t, "mark_off", "DISABLED", "DISABLED")

\* Then without it: SIGTERM, at most stop_timeout, SIGKILL.
Kill(t) ==
    /\ Doing(t, "kill")
    /\ alive' = alive \ {caught[t]} /\ caught' = [caught EXCEPT ![t] = None]
    /\ GoToNext(t)
    /\ UNCHANGED <<venvVars, enabled, manager, lock, state, handle, crashes, revived, asked,
                   ops, exits, boots>>

\* Mutant: the handle is dropped without a last SIGKILL to its group.
CleanupHandle_Drop == handle' = None /\ UNCHANGED alive

\* The handle that is there now, which need not be the one that was killed.
CleanupHandle == handle' = None /\ alive' = alive \ {handle}

Sweep(t, token, after) ==
    /\ Doing(t, token) /\ Free(t)
    /\ CleanupHandle /\ state' = after /\ GoToNext(t)
    /\ UNCHANGED <<venvVars, enabled, manager, lock, caught, crashes, revived, asked, ops,
                   exits, boots>>

SweepStop(t) == Sweep(t, "sweep_stop", "STOPPED")
SweepOff(t)  == Sweep(t, "sweep_off", "DISABLED")

---------------------------------------------------------------------------
(* start, under the lock from its first step to its last                   *)

\* Mutant: the lock is not given back.
Raise_Locked(t) ==
    /\ GoOn(t, <<>>) /\ lock' = t
    /\ state' = IF t \in Workers THEN state ELSE "FAILED"

\* It raises: boot and supervisor note the failure, an operation answers it.
Raise(t) ==
    /\ GoOn(t, <<>>) /\ lock' = None
    /\ state' = IF t \in Workers THEN state ELSE "FAILED"

BeginStart(t) ==
    /\ Doing(t, "start") /\ Free(t) /\ step = "idle"
    /\ IF enabled THEN /\ Ensure /\ lock' = t /\ asked' = TRUE
                       /\ UNCHANGED <<todo, operation, state>>
       ELSE Raise(t) /\ UNCHANGED <<venvVars, asked>>
    /\ UNCHANGED <<enabled, manager, handle, caught, alive, crashes, revived, ops, exits, boots>>

EnsureVenv(t) == Doing(t, "start") /\ lock = t /\ VenvStep /\ UNCHANGED managerVars

EnsureRaised(t) ==
    /\ Doing(t, "start") /\ lock = t /\ step = "raised" /\ Return /\ Raise(t)
    /\ UNCHANGED <<enabled, manager, handle, caught, alive, crashes, revived, asked, ops,
                   exits, boots>>

Started(t) == state' = "RUNNING" /\ lock' = None /\ GoToNext(t)

AlreadyRunning(t) ==
    /\ Doing(t, "start") /\ lock = t /\ step = "done" /\ Return
    /\ handle \in alive /\ Started(t)
    /\ UNCHANGED <<enabled, manager, handle, caught, alive, crashes, revived, asked, ops,
                   exits, boots>>

Spawn(t) ==
    /\ Doing(t, "start") /\ lock = t /\ step = "done" /\ Return
    /\ handle \notin alive /\ Started(t)
    /\ handle' = CHOOSE p \in Pids : p \notin alive \cup {caught[u] : u \in Threads} \cup {handle}
    /\ alive' = alive \cup {handle'}
    /\ UNCHANGED <<enabled, manager, caught, crashes, revived, asked, ops, exits, boots>>

\* No entrypoint, or Popen raises.
SpawnFails(t) ==
    /\ Doing(t, "start") /\ lock = t /\ step = "done" /\ Return
    /\ handle \notin alive /\ GoOn(t, <<>>) /\ lock' = None
    /\ state' \in (IF t \in Workers THEN {state} ELSE {}) \cup {"FAILED"}
    /\ UNCHANGED <<enabled, manager, handle, caught, alive, crashes, revived, asked, ops,
                   exits, boots>>

---------------------------------------------------------------------------
(* The supervisor                                                          *)

Expected == state \in {"STOPPING", "DISABLED", "STOPPED"}

\* Mutant: one exit more than the limit.
Looping_More(ts) == Len(ts) > CrashMax

Looping(ts) == Len(ts) >= CrashMax

\* Mutant: the exit is read and forgotten.
NoteExit_Keep == UNCHANGED handle

NoteExit == handle' = None

\* Ages within the window.
Within(ages) == OutOf(ages, {age \in ToSet(ages) : age > Window})

Recent == Within(crashes)

\* One round: an exited process is forgotten, and replaced if it should run.
CheckCrashes ==
    /\ manager # "down" /\ todo[Supervisor] = <<>> /\ lock = None
    /\ handle # None /\ handle \notin alive
    /\ NoteExit
    /\ IF ~enabled \/ Expected
       THEN /\ state' = IF ~enabled \/ state = "DISABLED" THEN "DISABLED" ELSE "STOPPED"
            /\ UNCHANGED <<crashes, revived, todo, lock>>
       ELSE /\ crashes' = Append(Recent, 0)
            /\ IF Looping(crashes')
               THEN state' = "FAILED" /\ UNCHANGED <<revived, todo, lock>>
               ELSE /\ state' = "STOPPED" /\ lock' = Supervisor
                    /\ todo' = [todo EXCEPT ![Supervisor] = <<"start">>]
                    /\ revived' = Append(revived, 0)
    /\ UNCHANGED <<venvVars, enabled, manager, operation, caught, alive, asked, ops, exits, boots>>

Age(age) == IF age > Window THEN age ELSE age + 1

Tick ==
    /\ crashes # <<>> \/ revived # <<>>
    /\ crashes' = [i \in DOMAIN crashes |-> Age(crashes[i])]
    /\ revived' = Within([i \in DOMAIN revived |-> revived[i] + 1])
    /\ UNCHANGED <<venvVars, enabled, manager, todo, operation, lock, state, handle, caught,
                   alive, asked, ops, exits, boots>>

---------------------------------------------------------------------------
(* The plugin's process, and the manager's                                 *)

ProcessExits ==
    /\ exits < MaxExits /\ exits' = exits + 1
    /\ \E p \in alive : alive' = alive \ {p}
    /\ UNCHANGED <<venvVars, enabled, manager, todo, operation, lock, state, handle, caught,
                   crashes, revived, asked, ops, boots>>

\* The supervisor, then the plugin if it is enabled, then the socket.
Boot ==
    /\ manager = "down" /\ boots < MaxBoots /\ boots' = boots + 1 /\ manager' = "up"
    /\ todo' = [todo EXCEPT ![Main] = IF enabled THEN <<"start">> ELSE <<>>]
    /\ state' = IF enabled THEN "STOPPED" ELSE "DISABLED"
    /\ asked' = enabled
    /\ UNCHANGED <<venvVars, enabled, operation, lock, handle, caught, alive, crashes, revived,
                   ops, exits>>

\* The socket closes; workers are waited for, but not for long.
Signal ==
    /\ manager = "up" /\ todo[Main] = <<>> /\ manager' = "closing"
    /\ todo' = [todo EXCEPT ![Main] = Stop]
    /\ UNCHANGED <<venvVars, enabled, operation, lock, state, handle, caught, alive, crashes,
                   revived, asked, ops, exits, boots>>

\* What ends with the process: its threads, and all it kept in memory. The next
\* one may run on another Python.
Ends(left) ==
    /\ manager' = "down" /\ alive' = left /\ Interrupt
    /\ todo' = [t \in Threads |-> <<>>] /\ operation' = None /\ lock' = None
    /\ caught' = [t \in Threads |-> None] /\ handle' = None
    /\ state' = "STOPPED" /\ crashes' = <<>> /\ revived' = <<>> /\ asked' = FALSE
    /\ UNCHANGED <<enabled, ops, exits, boots>>

Close == manager = "closing" /\ todo[Main] = <<>> /\ Ends({})
Crash == manager # "down" /\ boots < MaxBoots /\ Ends(IF CgroupKill THEN {} ELSE alive)

---------------------------------------------------------------------------

Step(t) ==
    \/ WriteOn(t) \/ WriteOff(t) \/ InstallWheel(t) \/ MarkStop(t) \/ MarkOff(t) \/ Kill(t)
    \/ SweepStop(t) \/ SweepOff(t) \/ BeginStart(t) \/ EnsureVenv(t) \/ EnsureRaised(t)
    \/ AlreadyRunning(t) \/ Spawn(t) \/ SpawnFails(t)

Next ==
    \/ \E w \in Workers : Request(w)
    \/ \E t \in Threads : Step(t)
    \/ CheckCrashes \/ Tick \/ ProcessExits \/ Boot \/ Signal \/ Close \/ Crash

Spec == Init /\ [][Next]_vars

\* Threads run; nobody keeps the lock for ever, and the supervisor leaves it
\* for half a second between two rounds.
FairSpec ==
    /\ Spec
    /\ \A t \in Threads : SF_vars(Step(t))
    /\ SF_vars(CheckCrashes)

---------------------------------------------------------------------------
(* Properties *)

\* The manager knows every process of the plugin, so there is at most one: none
\* runs twice and none escapes a later stop, whatever stop_all, the supervisor
\* and the operations do to the handle of each other.
Owned == alive \subseteq {handle}

\* container_supervisor.py, when the manager died: "Terminate any plugin
\* descendants left in the old process group" - so that the plugins the next one
\* starts are not started twice.
RunsOnce == Cardinality(alive) <= 1

Settled == manager = "up" /\ \A t \in Threads : todo[t] = <<>>

\* A plugin that was disabled or stopped stays down: no exit it is stopped
\* by is taken for a crash, and no other operation comes between.
StopHolds == Settled /\ (~enabled \/ ~asked) => alive = {}

\* docs/plugins.md: 5 unexpected exits in 60 s and the plugin is left alone. The
\* supervisor never restarts it CrashMax times in a window, whoever else starts
\* and stops it.
CrashBound == Len(revived) < CrashMax

\* An operation does not keep its plugin busy for ever.
OperationsEnd == operation # None ~> operation = None

\* An exit is noticed as long as the manager runs.
ExitNoticed == handle # None /\ handle \notin alive ~> handle = None \/ handle \in alive
=============================================================================
