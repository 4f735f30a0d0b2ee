------------------------ MODULE PluginRuntime_proofs ------------------------
(***************************************************************************)
(* For any threads, processes, Python versions, crash limits and calls: an *)
(* environment is never lost, and a plugin is started from one made for    *)
(* its Python; the supervisor keeps its bound on restarts; and where the   *)
(* end of the manager ends its plugins, the manager knows every process of *)
(* the plugin and a stop holds.                                            *)
(***************************************************************************)
EXTENDS PluginRuntime, Selection_proofs, SequenceTheorems

---------------------------------------------------------------------------
(* The environment: VenvRebuild by itself                                  *)

Contents == Pythons \cup {None, Partial}

VenvType ==
    /\ python \in Pythons /\ venv \in Contents /\ backup \in Contents
    /\ marker \in BOOLEAN /\ step \in Steps

\* The backup that a marker names is the old environment, whole.
Saved == marker /\ backup \in Pythons

\* What is on disk at each step: where an interruption finds it.
AtStep ==
    /\ step \in {"check", "mark", "clean", "done"} => ~marker
    /\ step \in {"mark", "move"} => venv \in Pythons \ {python}
    /\ step \in {"reconcile", "move", "clear", "unmark"} => marker
    /\ step \in {"move", "clear", "unmark"} => backup = None
    /\ step \in {"drop", "restore", "create", "install", "validate", "commit", "undo", "unmove"} => Saved
    /\ step \in {"restore", "create", "unmove"} => venv = None
    /\ step \in {"create", "install", "validate", "commit"} => backup # python
    /\ step \in {"validate", "commit", "clean", "done"} => venv = python

\* NeverLost is not inductive: that the backup is whole when the marker goes, and
\* that nothing else is at the path when it comes back, depends on the step.
VenvInv == VenvType /\ NeverLost /\ AtStep

\* The invariant holds of an installed environment.
LEMMA VenvInitInv == VenvInit => VenvInv
  BY PythonAssumption DEF VenvInit, VenvInv, VenvType, Contents, NeverLost, Usable, AtStep, Saved, Steps

\* Each step of the rebuild keeps it, and so does an interruption of any step.
LEMMA VenvStepInv == VenvInv /\ [VenvNext]_venvVars => VenvInv'
<1> SUFFICES ASSUME VenvInv, [VenvNext]_venvVars PROVE VenvInv'
  OBVIOUS
<1> USE PythonAssumption DEF VenvInv, VenvType, Contents, NeverLost, Usable, AtStep, Saved, Steps, Go, Kept
<1>1. CASE Ensure
  BY <1>1 DEF Ensure, Entry
<1>2. CASE Reconcile
  BY <1>2 DEF Reconcile
<1>3. CASE Drop
  BY <1>3 DEF Drop
<1>4. CASE Restore
  BY <1>4 DEF Restore
<1>5. CASE Clear
  BY <1>5 DEF Clear
<1>6. CASE Check
  BY <1>6 DEF Check
<1>7. CASE Mark
  BY <1>7 DEF Mark, NewBackup
<1>8. CASE Move
  BY <1>8 DEF Move
<1>9. CASE Create
  BY <1>9 DEF Create
<1>10. CASE Install
  BY <1>10 DEF Install
<1>11. CASE Validate
  BY <1>11 DEF Validate
<1>12. CASE Commit
  BY <1>12 DEF Commit
<1>13. CASE Clean
  BY <1>13 DEF Clean
<1>14. CASE Undo
  BY <1>14 DEF Undo
<1>15. CASE Unmove
  BY <1>15 DEF Unmove
<1>16. CASE Unmark
  BY <1>16 DEF Unmark
<1>17. CASE Abandon
  BY <1>17 DEF Abandon
<1>18. CASE Return
  BY <1>18 DEF Return
<1>19. CASE Interrupt
  BY <1>19 DEF Interrupt
<1>20. CASE UNCHANGED venvVars
  BY <1>20 DEF venvVars
<1> QED
  BY <1>1, <1>2, <1>3, <1>4, <1>5, <1>6, <1>7, <1>8, <1>9, <1>10, <1>11, <1>12, <1>13, <1>14,
     <1>15, <1>16, <1>17, <1>18, <1>19, <1>20 DEF VenvNext, VenvStep

LEMMA VenvInvariance == VenvSpec => []VenvInv
<1> QED
  BY VenvInitInv, VenvStepInv, PTL DEF VenvSpec

\* ensure_venv_compatible: whatever interrupts it, as often as it likes, a whole
\* environment is at the path or in the backup the marker names.
THEOREM EnvironmentSurvives == VenvSpec => []NeverLost
<1>1. VenvInv => NeverLost
  BY DEF VenvInv
<1> QED
  BY <1>1, VenvInvariance, PTL

\* runtime.start goes on only with an environment made for its own Python.
THEOREM StartsReady == VenvSpec => []ReadyToRun
<1>1. VenvInv => ReadyToRun
  BY DEF VenvInv, AtStep, ReadyToRun
<1> QED
  BY <1>1, VenvInvariance, PTL

---------------------------------------------------------------------------
(* The refinement: Usable changes in one step, when the marker goes.       *)

LEMMA VenvSimulates ==
  ASSUME VenvInv, VenvInv', [VenvNext]_venvVars
  PROVE  [Swap!Rebuild \/ Swap!Upgrade]_<<Usable, python>>
<1> USE PythonAssumption DEF VenvInv, VenvType, Contents, NeverLost, Usable, AtStep, Saved, Steps, Go, Kept
<1>1. CASE Commit
  BY <1>1 DEF Commit, Swap!Rebuild
<1>2. CASE Interrupt
  BY <1>2 DEF Interrupt, Swap!Upgrade
<1>3. CASE Ensure \/ Return \/ Check \/ Validate \/ Abandon \/ UNCHANGED venvVars
  BY <1>3 DEF Ensure, Return, Check, Validate, Abandon, venvVars
<1>4. CASE Reconcile \/ Drop \/ Restore \/ Clear
  BY <1>4 DEF Reconcile, Drop, Restore, Clear
<1>5. CASE Mark \/ Move \/ Create \/ Install
  BY <1>5 DEF Mark, NewBackup, Move, Create, Install
<1>6. CASE Clean \/ Undo \/ Unmove \/ Unmark
  BY <1>6 DEF Clean, Undo, Unmove, Unmark
<1> QED
  BY <1>1, <1>2, <1>3, <1>4, <1>5, <1>6 DEF VenvNext, VenvStep

\* A rebuild with its interruptions, recoveries and roll-backs looks, from where
\* the next start will look, like the one step of EnvSwap.
THEOREM Refinement == VenvSpec => ImplementsSwap
<1>1. VenvInit => Swap!Init
  BY PythonAssumption DEF VenvInit, Swap!Init, Usable
<1>2. VenvInv /\ VenvInv' /\ [VenvNext]_venvVars => [Swap!Rebuild \/ Swap!Upgrade]_<<Usable, python>>
  BY VenvSimulates
<1> QED
  BY <1>1, <1>2, VenvInvariance, PTL DEF VenvSpec, ImplementsSwap, Swap!Spec

---------------------------------------------------------------------------
(* The steps that threads have left                                        *)

Tokens == {"on", "off", "start", "install", "mark_stop", "mark_off", "kill", "sweep_stop", "sweep_off"}
Marks  == {"mark_stop", "mark_off"}
Sweeps == {"sweep_stop", "sweep_off"}

\* A stop kills and then sweeps; a start comes after the switch, and last.
Plan(p) ==
    \A i \in DOMAIN p :
        /\ p[i] \in Marks => i + 1 \in DOMAIN p /\ p[i + 1] = "kill"
        /\ p[i] = "kill" => i + 1 \in DOMAIN p /\ p[i + 1] \in Sweeps
        /\ p[i] = "on" => i + 1 \in DOMAIN p /\ p[i + 1] = "start"
        /\ p[i] \in {"start", "off"} => i = Len(p)

\* What is left of a call after its first step, or after the three of a stop.
LEMMA TailPlan ==
    ASSUME NEW p \in Seq(Tokens), Plan(p), p # <<>>
    PROVE  /\ Tail(p) \in Seq(Tokens) /\ Plan(Tail(p)) /\ ToSet(Tail(p)) \subseteq ToSet(p)
           /\ Head(p) \in {"start", "off"} => Tail(p) = <<>>
           /\ Head(p) = "on" => Tail(p) # <<>> /\ Head(Tail(p)) = "start"
           /\ Head(p) \in Marks => Tail(p) # <<>> /\ Head(Tail(p)) = "kill"
           /\ Head(p) = "kill" => Tail(p) # <<>> /\ Head(Tail(p)) \in Sweeps
           /\ Head(p) \in ToSet(p) /\ Head(p) \in Tokens
<1>1. /\ Tail(p) \in Seq(Tokens) /\ Len(Tail(p)) = Len(p) - 1 /\ Len(p) \in Nat
      /\ \A i \in DOMAIN Tail(p) : i + 1 \in DOMAIN p /\ Tail(p)[i] = p[i + 1]
      /\ Head(p) = p[1] /\ 1 \in DOMAIN p
      /\ \A i \in DOMAIN p : i = 1 \/ i - 1 \in DOMAIN Tail(p)
  OBVIOUS
<1>2. Plan(Tail(p))
  <2>1. ASSUME NEW i \in DOMAIN Tail(p), i + 2 \in DOMAIN p
        PROVE  i + 1 \in DOMAIN Tail(p) /\ Tail(p)[i + 1] = p[i + 2]
    BY <1>1, <2>1
  <2>2. \A i \in DOMAIN Tail(p) : i \in Nat /\ (i + 1) + 1 = i + 2 /\ (i + 1 = Len(p) => i = Len(Tail(p)))
    BY <1>1
  <2>. QED  BY <1>1, <2>1, <2>2 DEF Plan
<1>3. ToSet(Tail(p)) \subseteq ToSet(p) /\ Head(p) \in ToSet(p) /\ Head(p) \in Tokens
  BY TailFacts
<1>4. 2 \in DOMAIN p => Tail(p) # <<>> /\ Head(Tail(p)) = p[2]
  BY <1>1
<1>5. Len(p) = 1 => Tail(p) = <<>>
  BY <1>1
<1>6. 1 + 1 = 2
  OBVIOUS
<1>. QED  BY <1>1, <1>2, <1>3, <1>4, <1>5, <1>6 DEF Plan

LEMMA SkipPlan ==
    ASSUME NEW p \in Seq(Tokens), Plan(p), p # <<>>, Head(p) \in Marks
    PROVE  LET q == SubSeq(p, 4, Len(p))
           IN  q \in Seq(Tokens) /\ Plan(q) /\ ToSet(q) \subseteq ToSet(p)
<1> DEFINE q == SubSeq(p, 4, Len(p))
<1>1. Len(p) \in Nat /\ Head(p) = p[1] /\ 1 \in DOMAIN p
  OBVIOUS
<1>2. Len(p) >= 3
  <2>1. 1 + 1 \in DOMAIN p /\ p[1 + 1] = "kill"
    BY <1>1 DEF Plan
  <2>2. (1 + 1) + 1 \in DOMAIN p
    BY <2>1 DEF Plan
  <2>. QED  BY <1>1, <2>2
<1>3. /\ q \in Seq(Tokens) /\ Len(q) = Len(p) - 3 /\ DOMAIN q = 1..Len(q)
      /\ \A i \in DOMAIN q : i + 3 \in DOMAIN p /\ q[i] = p[i + 3]
  <2>1. \A i \in 4..Len(p) : p[i] \in Tokens
    BY <1>1
  <2>2. /\ q \in Seq(Tokens) /\ Len(q) = Len(p) - 3
        /\ \A i \in 1..(Len(p) - 4 + 1) : q[i] = p[4 + i - 1]
    <3>1. /\ q \in Seq(Tokens) /\ Len(q) = IF 4 <= Len(p) THEN Len(p) - 4 + 1 ELSE 0
          /\ \A i \in 1..(Len(p) - 4 + 1) : q[i] = p[4 + i - 1]
      BY <1>1, <2>1, SubSeqProperties
    <3>. HIDE DEF q
    <3>2. \A n \in Nat : n >= 3 => (IF 4 <= n THEN n - 4 + 1 ELSE 0) = n - 3
      OBVIOUS
    <3>. QED  BY <1>1, <1>2, <3>1, <3>2, Zenon
  <2>. HIDE DEF q
  <2>3. ASSUME NEW i \in DOMAIN q PROVE i + 3 \in DOMAIN p /\ q[i] = p[i + 3]
    <3>1. i \in 1..(Len(p) - 4 + 1) /\ 4 + i - 1 = i + 3 /\ i + 3 \in DOMAIN p
      BY <1>1, <1>2, <2>2
    <3>. QED  BY <2>2, <3>1
  <2>. QED  BY <2>2, <2>3
<1>. HIDE DEF q
<1>4. Plan(q)
  <2>1. ASSUME NEW i \in DOMAIN q, (i + 3) + 1 \in DOMAIN p
        PROVE  i + 1 \in DOMAIN q /\ q[i + 1] = p[(i + 3) + 1]
    <3>1. i \in Nat /\ i + 1 \in DOMAIN q /\ (i + 1) + 3 = (i + 3) + 1
      BY <1>1, <1>3, <2>1
    <3>. QED  BY <1>3, <3>1
  <2>2. \A i \in DOMAIN q : i + 3 = Len(p) => i = Len(q)
    BY <1>1, <1>3
  <2>. QED  BY <1>3, <2>1, <2>2 DEF Plan
<1>5. ToSet(q) \subseteq ToSet(p)
  BY <1>3 DEF ToSet
<1>. QED  BY <1>3, <1>4, <1>5 DEF q

LEMMA JoinPlan ==
    ASSUME NEW p \in Seq(Tokens), Plan(p), p # <<>>, NEW q \in Seq(Tokens), Plan(q),
           \A i \in DOMAIN p : p[i] \notin {"start", "off"}
    PROVE  p \o q \in Seq(Tokens) /\ Plan(p \o q) /\ p \o q # <<>> /\ Head(p \o q) = Head(p)
<1> DEFINE s == p \o q
<1>1. /\ s \in Seq(Tokens) /\ Len(s) = Len(p) + Len(q) /\ Len(p) \in Nat /\ Len(q) \in Nat
      /\ \A i \in DOMAIN p : i \in DOMAIN s /\ s[i] = p[i]
      /\ \A i \in DOMAIN q : Len(p) + i \in DOMAIN s /\ s[Len(p) + i] = q[i]
      /\ \A i \in DOMAIN s : i \in DOMAIN p \/ (i - Len(p) \in DOMAIN q /\ s[i] = q[i - Len(p)])
      /\ s # <<>> /\ Head(s) = Head(p)
  OBVIOUS
<1>. HIDE DEF s
<1>2. Plan(s)
  <2>1. \A i \in DOMAIN p : i + 1 \in DOMAIN p => i + 1 \in DOMAIN s /\ s[i + 1] = p[i + 1]
    BY <1>1
  <2>2. ASSUME NEW i \in DOMAIN s, i \notin DOMAIN p, NEW j \in DOMAIN q, j = i - Len(p)
        PROVE  /\ j + 1 \in DOMAIN q => i + 1 \in DOMAIN s /\ s[i + 1] = q[j + 1]
               /\ j = Len(q) => i = Len(s)
    <3>1. i \in Nat /\ j \in Nat /\ Len(p) + (j + 1) = i + 1
      BY <1>1, <2>2
    <3>2. j = Len(q) => i = Len(s)
      BY <1>1, <2>2, <3>1
    <3>. QED  BY <1>1, <3>1, <3>2
  <2>. QED  BY <1>1, <2>1, <2>2 DEF Plan
<1>. QED  BY <1>1, <1>2 DEF s

Planned(p) == p \in Seq(Tokens) /\ Plan(p)

LEMMA StopPlan ==
    /\ Planned(Stop) /\ Stop # <<>> /\ Head(Stop) = "mark_stop"
    /\ ToSet(Stop) \subseteq {"mark_stop", "kill", "sweep_stop"}
BY DEF Stop, Planned, Plan, Tokens, Marks, Sweeps, ToSet

LEMMA StartPlan == Planned(<<"start">>) /\ ToSet(<<"start">>) = {"start"}
BY DEF Planned, Plan, Tokens, Marks, Sweeps, ToSet

\* A call is such a list, and opens with a switch, a start or a stop.
LEMMA CallPlan ==
    ASSUME NEW p \in Calls
    PROVE  Planned(p) /\ p # <<>> /\ Head(p) \in {"on", "start", "mark_stop", "mark_off"}
<1>. USE DEF Planned
<1>1. Planned(<<"on", "start">>)
  BY DEF Plan, Tokens, Marks, Sweeps
<1>2. Planned(<<"install">>) /\ Planned(<<>>)
  BY DEF Plan, Tokens, Marks, Sweeps
<1>3. Planned(<<"install", "on", "start">>)
  BY DEF Plan, Tokens, Marks, Sweeps
<1>4. Planned(Disable)
  BY DEF Disable, Plan, Tokens, Marks, Sweeps
<1>5. \A i \in DOMAIN Stop : Stop[i] \notin {"start", "off"}
  BY DEF Stop
<1>6. CASE p \in {Stop \o <<"start">>, Stop \o <<"install", "on", "start">>, Stop \o <<"install">>}
  <2>1. PICK q : q \in {<<"start">>, <<"install", "on", "start">>, <<"install">>} /\ p = Stop \o q
    BY <1>6
  <2>2. Planned(q)
    BY <1>2, <1>3, <2>1, StartPlan
  <2>. HIDE DEF Planned
  <2>3. p \in Seq(Tokens) /\ Plan(p) /\ p # <<>> /\ Head(p) = "mark_stop"
    BY <1>5, <2>1, <2>2, StopPlan, JoinPlan DEF Planned
  <2>. QED  BY <2>3 DEF Planned
<1>7. CASE p = <<"on", "start">>
  BY <1>1, <1>7
<1>8. CASE p = <<"start">>
  BY <1>8, StartPlan
<1>10. CASE p = Stop
  BY <1>10, StopPlan
<1>9. CASE p = Disable
  BY <1>4, <1>9 DEF Disable
<1>. QED  BY <1>6, <1>7, <1>8, <1>9, <1>10 DEF Calls

---------------------------------------------------------------------------
(* The invariant                                                           *)

RuntimeType ==
    /\ enabled \in BOOLEAN /\ asked \in BOOLEAN
    /\ manager \in {"down", "up", "closing"}
    /\ todo \in [Threads -> Seq(Tokens)]
    /\ operation \in Workers \cup {None}
    /\ crashes \in Seq(Nat) /\ revived \in Seq(0..Window)

\* Who may be in which call: one worker at a time; the main thread in the starts
\* of the boot before there are workers, and then in a stop; the supervisor in a
\* start.
PlanInv ==
    /\ \A t \in Threads : Plan(todo[t])
    /\ \A w \in Workers : todo[w] # <<>> => operation = w
    /\ ToSet(todo[Supervisor]) \subseteq {"start"}
    /\ ToSet(todo[Main]) \subseteq {"start", "mark_stop", "kill", "sweep_stop"}
    /\ "start" \in ToSet(todo[Main]) => \A w \in Workers : todo[w] = <<>>
    /\ manager = "down" => \A t \in Threads : todo[t] = <<>>

\* The lock is held by a thread in runtime.start, the environment is touched under
\* it, and by an install only when nobody has it.
LockInv ==
    /\ lock = None => step = "idle"
    /\ lock # None => lock \in Threads /\ Doing(lock, "start")
    /\ todo[Supervisor] # <<>> => lock = Supervisor
    /\ step # "idle" => enabled /\ asked
    /\ \A t \in Threads : Doing(t, "off") \/ Doing(t, "install") => handle = None /\ lock = None

\* The supervisor's restarts are among the exits it counts.
CrashInv == \A k \in 0..Window : Occurs(revived, 0..k) <= Occurs(crashes, 0..k)

\* What a stop read is kept until it has killed it.
HandleInv ==
    /\ handle \in Pids \cup {None} /\ alive \subseteq Pids
    /\ caught \in [Threads -> Pids \cup {None}]
    /\ \A t \in Threads : caught[t] # None => Doing(t, "kill")
    /\ manager = "down" => handle = None

Stopping(t) == \E what \in {"kill"} \cup Sweeps : Doing(t, what)

\* A plugin that was switched off is gone, and one that is not to run is gone or
\* being stopped.
StopInv ==
    /\ ~enabled => alive = {}
    /\ ~asked /\ alive # {} => \E t \in Threads : Stopping(t)

\* A control group is needed for what is said of processes, and for that only.
IInv ==
    /\ VenvInv /\ RuntimeType /\ PlanInv /\ LockInv /\ CrashInv /\ CrashBound
    /\ CgroupKill => HandleInv /\ Owned /\ StopInv

---------------------------------------------------------------------------
(* The bound on restarts                                                   *)

LEMMA Retyped ==
    ASSUME NEW S, NEW T, NEW s \in Seq(S), \A i \in DOMAIN s : s[i] \in T
    PROVE  s \in Seq(T)
BY SeqDef

LEMMA WithinFacts ==
    ASSUME NEW s \in Seq(Nat)
    PROVE  /\ Within(s) \in Seq(0..Window)
           /\ \A k \in 0..Window : Occurs(Within(s), 0..k) = Occurs(s, 0..k)
           /\ Len(Within(s)) = Occurs(s, 0..Window) /\ Len(Within(s)) <= Len(s)
<1> DEFINE gone == {age \in ToSet(s) : age > Window}
<1>1. /\ Window \in Nat /\ \A i \in DOMAIN s : s[i] \in Nat /\ s[i] \in ToSet(s)
      /\ Len(s) \in Nat /\ DOMAIN s = 1..Len(s)
  BY RuntimeAssumption DEF ToSet
<1>2. \A i \in DOMAIN s : s[i] \notin gone <=> s[i] \in 0..Window
  BY <1>1
<1>3. Within(s) = OutOf(s, gone)
  BY DEF Within
<1>4. ASSUME NEW k \in 0..Window PROVE Occurs(s, (0..k) \ gone) = Occurs(s, 0..k)
  <2>1. \A i \in DOMAIN s : s[i] \in (0..k) \ gone <=> s[i] \in 0..k
    BY <1>1
  <2>. HIDE DEF gone
  <2>. QED  BY <2>1 DEF Occurs, Places
<1>5. {i \in DOMAIN s : s[i] \notin gone} = Places(s, 0..Window)
  BY <1>2 DEF Places
<1>. HIDE DEF gone
<1>6. OutOf(s, gone) \in Seq(Nat) /\ ToSet(OutOf(s, gone)) = ToSet(s) \ gone
  BY OutOfFacts
<1>7. Within(s) \in Seq(0..Window)
  <2>1. \A i \in DOMAIN Within(s) : Within(s)[i] \in ToSet(s) \ gone
    BY <1>3, <1>6 DEF ToSet
  <2>2. \A x \in ToSet(s) \ gone : x \in 0..Window
    BY <1>2 DEF ToSet
  <2>3. Within(s) \in Seq(Nat) /\ \A i \in DOMAIN Within(s) : Within(s)[i] \in 0..Window
    BY <1>3, <1>6, <2>1, <2>2
  <2>. QED  BY <2>3, Retyped
<1>8. \A k \in 0..Window : Occurs(Within(s), 0..k) = Occurs(s, 0..k)
  <2>1. ASSUME NEW T PROVE Occurs(OutOf(s, gone), T) = Occurs(s, T \ gone)
    BY <1>1, OutOfOccurs
  <2>. QED  BY <1>3, <1>4, <2>1
<1>9. Len(Within(s)) = Occurs(s, 0..Window)
  <2>1. Len(OutOf(s, gone)) = Cardinality({i \in DOMAIN s : s[i] \notin gone})
    BY <1>1, OutOfLength
  <2>. QED  BY <1>3, <1>5, <2>1 DEF Occurs
<1>. QED  BY <1>7, <1>8, <1>9, OccursType

\* A tick moves every age, of an exit or a restart, the same.
LEMMA TickCounts ==
    ASSUME RuntimeType, CrashInv, CrashBound, Tick
    PROVE  crashes' \in Seq(Nat) /\ revived' \in Seq(0..Window) /\ CrashInv' /\ CrashBound'
<1> DEFINE older == [i \in DOMAIN revived |-> revived[i] + 1]
<1>1. /\ Window \in Nat /\ CrashMax \in Nat /\ crashes \in Seq(Nat) /\ revived \in Seq(0..Window)
      /\ crashes' = [i \in DOMAIN crashes |-> Age(crashes[i])] /\ revived' = Within(older)
      /\ Len(revived) < CrashMax
  BY RuntimeAssumption DEF RuntimeType, CrashBound, Tick
<1>2. /\ older \in Seq(Nat) /\ Len(older) = Len(revived) /\ DOMAIN older = DOMAIN revived
      /\ \A i \in DOMAIN revived : revived[i] \in 0..Window /\ older[i] = revived[i] + 1
  <2>1. \A i \in DOMAIN revived : revived[i] \in 0..Window /\ revived[i] + 1 \in Nat
    BY <1>1
  <2>2. revived \in Seq(0..Window) /\ Len(revived) \in Nat /\ DOMAIN revived = 1..Len(revived)
    BY <1>1
  <2>. QED  BY <2>1, <2>2
<1>. HIDE DEF older
<1>3. crashes' \in Seq(Nat) /\ DOMAIN crashes' = DOMAIN crashes
  <2>1. \A i \in DOMAIN crashes : Age(crashes[i]) \in Nat
    BY <1>1 DEF Age
  <2>2. Len(crashes) \in Nat /\ DOMAIN crashes = 1..Len(crashes)
    BY <1>1
  <2>. QED  BY <1>1, <2>1, <2>2
<1>4. ASSUME NEW k \in 0..Window PROVE Occurs(older, 0..k) <= Occurs(crashes', 0..k)
  <2>1. k \in Nat /\ k - 1 \in Int
    OBVIOUS
  <2>2. Places(older, 0..k) = Places(revived, 0..(k - 1))
    <3>1. ASSUME NEW i \in DOMAIN revived
          PROVE  older[i] \in 0..k <=> revived[i] \in 0..(k - 1)
      <4>1. \A a \in Nat : a + 1 \in 0..k <=> a \in 0..(k - 1)
        BY <2>1
      <4>2. revived[i] \in Nat
        BY <1>2
      <4>. QED  BY <1>2, <4>1, <4>2
    <3>. QED  BY <1>2, <3>1 DEF Places
  <2>3. Places(crashes', 0..k) = Places(crashes, 0..(k - 1))
    <3>1. ASSUME NEW i \in DOMAIN crashes
          PROVE  crashes'[i] \in 0..k <=> crashes[i] \in 0..(k - 1)
      <4>1. crashes[i] \in Nat /\ crashes'[i] = Age(crashes[i])
        BY <1>1, <1>3
      <4>2. \A a \in Nat : Age(a) \in 0..k <=> a \in 0..(k - 1)
        BY <1>1, <2>1 DEF Age
      <4>. QED  BY <4>1, <4>2
    <3>. QED  BY <1>3, <3>1 DEF Places
  <2>4. CASE k = 0
    <3>1. 0..(k - 1) = {}
      BY <2>4
    <3>2. Places(older, 0..k) = {} /\ Places(crashes', 0..k) = {}
      BY <2>2, <2>3, <3>1 DEF Places
    <3>3. Cardinality(Places(older, 0..k)) = 0 /\ Cardinality(Places(crashes', 0..k)) = 0
      BY <3>2, FS_EmptySet
    <3>. QED  BY <3>3 DEF Occurs
  <2>5. CASE k # 0
    <3>1. k - 1 \in 0..Window
      BY <1>1, <2>5
    <3>. QED  BY <2>2, <2>3, <3>1 DEF CrashInv, Occurs
  <2>. QED  BY <2>4, <2>5
<1>5. CrashInv'
  <2>1. \A k \in 0..Window : Occurs(revived', 0..k) = Occurs(older, 0..k)
    BY <1>1, <1>2, WithinFacts
  <2>. QED  BY <1>4, <2>1 DEF CrashInv
<1>6. CrashBound'
  <2>1. revived' \in Seq(0..Window) /\ Len(revived') <= Len(revived)
    BY <1>1, <1>2, WithinFacts
  <2>. QED  BY <1>1, <2>1 DEF CrashBound
<1>. QED  BY <1>1, <1>2, <1>3, <1>5, <1>6, WithinFacts

\* A restart is counted with the exit it follows, and there is none at the limit.
LEMMA RestartCounts ==
    ASSUME RuntimeType, CrashInv, CrashBound, CheckCrashes
    PROVE  crashes' \in Seq(Nat) /\ revived' \in Seq(0..Window) /\ CrashInv' /\ CrashBound'
<1>1. /\ Window \in Nat /\ CrashMax \in Nat /\ crashes \in Seq(Nat) /\ revived \in Seq(0..Window)
      /\ Len(revived) < CrashMax
  BY RuntimeAssumption DEF RuntimeType, CrashBound
<1>2. CASE UNCHANGED <<crashes, revived>>
  BY <1>1, <1>2 DEF CrashInv, CrashBound
<1>3. CASE crashes' = Append(Recent, 0)
  <2>1. /\ Recent \in Seq(0..Window) /\ Recent \in Seq(Nat)
        /\ \A k \in 0..Window : Occurs(Recent, 0..k) = Occurs(crashes, 0..k)
        /\ Len(Recent) = Occurs(crashes, 0..Window)
    BY <1>1, WithinFacts DEF Recent
  <2>. HIDE DEF Recent
  <2>2. ASSUME NEW k \in 0..Window
        PROVE  /\ Occurs(crashes', 0..k) = Occurs(crashes, 0..k) + 1
               /\ Occurs(Append(revived, 0), 0..k) = Occurs(revived, 0..k) + 1
               /\ Occurs(crashes, 0..k) \in Nat /\ Occurs(revived, 0..k) \in Nat
               /\ Occurs(revived, 0..k) <= Occurs(crashes, 0..k)
    <3>1. 0 \in 0..k /\ 0 \in Nat /\ 0 \in 0..Window
      BY <1>1
    <3>2. Occurs(crashes', 0..k) = Occurs(Recent, 0..k) + 1
      BY <1>3, <2>1, <3>1, AppendOccurs
    <3>3. Occurs(Append(revived, 0), 0..k) = Occurs(revived, 0..k) + 1
      BY <1>1, <3>1, AppendOccurs
    <3>4. Occurs(crashes, 0..k) \in Nat /\ Occurs(revived, 0..k) \in Nat
      BY <1>1, OccursType
    <3>. QED  BY <2>1, <3>2, <3>3, <3>4 DEF CrashInv
  <2>3. crashes' \in Seq(Nat)
    BY <1>3, <2>1
  <2>4. CASE revived' = revived
    <3>1. CrashInv'
      BY <2>2, <2>4 DEF CrashInv
    <3>. QED  BY <1>1, <2>3, <2>4, <3>1 DEF CrashBound
  <2>5. CASE ~Looping(crashes') /\ revived' = Append(revived, 0)
    <3>1. CrashInv'
      BY <2>2, <2>5 DEF CrashInv
    <3>2. Len(revived) = Occurs(revived, 0..Window)
      <4>1. Places(revived, 0..Window) = 1..Len(revived)
        BY <1>1 DEF Places
      <4>2. Len(revived) \in Nat /\ Cardinality(1..Len(revived)) = Len(revived)
        <5>1. \A n \in Nat : Cardinality(1..n) = n
          BY FS_Interval
        <5>. QED  BY <1>1, <5>1
      <4>. QED  BY <4>1, <4>2 DEF Occurs
    <3>3. Occurs(revived, 0..Window) <= Occurs(crashes, 0..Window)
      BY <1>1, <2>2
    <3>4. Len(crashes') = Len(Recent) + 1 /\ Len(Recent) \in Nat
      BY <1>3, <2>1
    <3>5. Len(crashes') < CrashMax
      BY <1>1, <2>5, <3>4 DEF Looping
    <3>6. Len(revived') = Len(revived) + 1 /\ Len(revived) \in Nat /\ revived' \in Seq(0..Window)
      BY <1>1, <2>5
    <3>7. CrashBound'
      BY <1>1, <2>1, <3>2, <3>3, <3>4, <3>5, <3>6 DEF CrashBound
    <3>. QED  BY <2>3, <3>1, <3>6, <3>7
  <2>. QED  BY <1>3, <2>4, <2>5 DEF CheckCrashes
<1>. QED  BY <1>2, <1>3 DEF CheckCrashes

---------------------------------------------------------------------------
(* What threads do to the plans                                            *)

\* What a thread may have left of its call.
Rest(t) ==
    {<<>>, Tail(todo[t])}
    \cup (IF Head(todo[t]) \in Marks THEN {SubSeq(todo[t], 4, Len(todo[t]))} ELSE {})

\* A thread in a call, and what follows its step.
LEMMA DoingFacts ==
    ASSUME RuntimeType, PlanInv, NEW t \in Threads, todo[t] # <<>>
    PROVE  /\ todo[t] \in Seq(Tokens) /\ Head(todo[t]) \in Tokens /\ Head(todo[t]) \in ToSet(todo[t])
           /\ \A left \in Rest(t) :
                 left \in Seq(Tokens) /\ Plan(left) /\ ToSet(left) \subseteq ToSet(todo[t])
           /\ Head(todo[t]) \in {"start", "off"} => Tail(todo[t]) = <<>>
           /\ Head(todo[t]) = "on" => Tail(todo[t]) # <<>> /\ Head(Tail(todo[t])) = "start"
           /\ Head(todo[t]) \in Marks => Tail(todo[t]) # <<>> /\ Head(Tail(todo[t])) = "kill"
           /\ Head(todo[t]) = "kill" => Tail(todo[t]) # <<>> /\ Head(Tail(todo[t])) \in Sweeps
           /\ manager # "down"
<1>1. todo[t] \in Seq(Tokens) /\ Plan(todo[t]) /\ manager # "down"
  BY DEF RuntimeType, PlanInv
<1>2. <<>> \in Seq(Tokens) /\ Plan(<<>>) /\ ToSet(<<>>) = {}
  BY DEF Plan, ToSet
<1>3. \A left \in Rest(t) :
         left \in Seq(Tokens) /\ Plan(left) /\ ToSet(left) \subseteq ToSet(todo[t])
  <2>1. CASE Head(todo[t]) \in Marks
    BY <1>1, <1>2, <2>1, TailPlan, SkipPlan DEF Rest
  <2>2. CASE Head(todo[t]) \notin Marks
    BY <1>1, <1>2, <2>2, TailPlan DEF Rest
  <2>. QED  BY <2>1, <2>2
<1>. QED  BY <1>1, <1>3, TailPlan

\* What a thread is in, by its place: a worker alone in an operation, the main
\* thread, the supervisor.
LEMMA WhoDoes ==
    ASSUME RuntimeType, PlanInv, NEW t \in Threads, todo[t] # <<>>
    PROVE  /\ t \in Workers => operation = t
           /\ t = Supervisor => Doing(t, "start")
           /\ t = Main => \E what \in {"start", "mark_stop", "kill", "sweep_stop"} : Doing(t, what)
           /\ Doing(Main, "start") => \A w \in Workers : todo[w] = <<>>
<1>1. Head(todo[t]) \in ToSet(todo[t])
  BY DoingFacts
<1>2. Doing(Main, "start") => "start" \in ToSet(todo[Main])
  <2>1. Main \in Threads
    BY DEF Threads
  <2>. QED  BY <2>1, DoingFacts DEF Doing
<1>. QED  BY <1>1, <1>2 DEF PlanInv, Doing

\* A thread that goes on leaves the others where they are.
LEMMA GoOnKeepsPlans ==
    ASSUME RuntimeType, PlanInv, NEW t \in Threads, todo[t] # <<>>, NEW left \in Rest(t),
           GoOn(t, left), manager' = manager
    PROVE  /\ todo' \in [Threads -> Seq(Tokens)] /\ operation' \in Workers \cup {None}
           /\ todo'[t] = left /\ \A u \in Threads \ {t} : todo'[u] = todo[u]
           /\ PlanInv'
<1>. USE RuntimeAssumption
<1>1. left \in Seq(Tokens) /\ Plan(left) /\ ToSet(left) \subseteq ToSet(todo[t]) /\ manager # "down"
  BY DoingFacts
<1>2. /\ todo' \in [Threads -> Seq(Tokens)] /\ operation' \in Workers \cup {None}
      /\ todo'[t] = left /\ \A u \in Threads \ {t} : todo'[u] = todo[u]
  BY <1>1 DEF RuntimeType, GoOn
<1>3. Main \in Threads /\ Supervisor \in Threads /\ Workers \subseteq Threads
  BY DEF Threads
<1>4. \A u \in Threads : Plan(todo'[u]) /\ ToSet(todo'[u]) \subseteq ToSet(todo[u])
  BY <1>1, <1>2 DEF PlanInv
<1>5. \A w \in Workers : todo'[w] # <<>> => operation' = w
  <2>. SUFFICES ASSUME NEW w \in Workers, todo'[w] # <<>> PROVE operation' = w
    OBVIOUS
  <2>1. operation = w
    BY <1>2, <1>3 DEF PlanInv
  <2>2. left = <<>> => w # t
    BY <1>2
  <2>. QED  BY <2>1, <2>2 DEF GoOn
<1>6. "start" \in ToSet(todo'[Main]) => \A w \in Workers : todo'[w] = <<>>
  <2>. SUFFICES ASSUME "start" \in ToSet(todo'[Main]), NEW w \in Workers PROVE todo'[w] = <<>>
    OBVIOUS
  <2>1. todo[w] = <<>>
    BY <1>3, <1>4 DEF PlanInv
  <2>. QED  BY <1>2, <1>3, <2>1
<1>. QED  BY <1>1, <1>2, <1>3, <1>4, <1>5, <1>6 DEF PlanInv

\* Every step of a thread goes on so, or stays where it is.
LEMMA StepGoesOn ==
    ASSUME NEW t \in Threads, Step(t)
    PROVE  /\ todo[t] # <<>> /\ manager' = manager
           /\ \/ todo' = todo /\ operation' = operation
              \/ \E left \in Rest(t) : GoOn(t, left)
<1>. USE DEF Doing
<1>1. CASE WriteOn(t) \/ WriteOff(t) \/ InstallWheel(t) \/ Kill(t)
  BY <1>1 DEF WriteOn, WriteOff, InstallWheel, Kill, GoToNext, Rest
<1>2. CASE MarkStop(t) \/ MarkOff(t)
  BY <1>2 DEF MarkStop, MarkOff, Announce, GoToNext, Rest, Marks
<1>3. CASE SweepStop(t) \/ SweepOff(t)
  BY <1>3 DEF SweepStop, SweepOff, Sweep, GoToNext, Rest
<1>4. CASE BeginStart(t) \/ EnsureVenv(t) \/ EnsureRaised(t)
  BY <1>4 DEF BeginStart, EnsureVenv, EnsureRaised, managerVars, Raise, Rest
<1>5. CASE AlreadyRunning(t) \/ Spawn(t) \/ SpawnFails(t)
  BY <1>5 DEF AlreadyRunning, Spawn, SpawnFails, Started, GoToNext, Rest
<1>. QED  BY <1>1, <1>2, <1>3, <1>4, <1>5 DEF Step

LEMMA PlanStep ==
    ASSUME RuntimeType, PlanInv, Next
    PROVE  /\ todo' \in [Threads -> Seq(Tokens)] /\ operation' \in Workers \cup {None}
           /\ PlanInv'
<1>. USE RuntimeAssumption
<1>1. /\ Main \in Threads /\ Supervisor \in Threads /\ Workers \subseteq Threads
      /\ todo \in [Threads -> Seq(Tokens)]
  BY DEF Threads, RuntimeType
<1>2. ToSet(<<>>) = {} /\ Plan(<<>>) /\ <<>> \in Seq(Tokens)
  BY DEF ToSet, Plan
<1>3. CASE \E t \in Threads : Step(t)
  <2>1. PICK t \in Threads : Step(t)
    BY <1>3
  <2>2. todo[t] # <<>> /\ manager' = manager
    BY <2>1, StepGoesOn
  <2>3. CASE todo' = todo /\ operation' = operation
    BY <1>1, <2>2, <2>3 DEF PlanInv, RuntimeType
  <2>4. CASE \E left \in Rest(t) : GoOn(t, left)
    BY <2>2, <2>4, GoOnKeepsPlans
  <2>. QED  BY <2>1, <2>3, <2>4, StepGoesOn
<1>4. CASE \E w \in Workers : Request(w)
  <2>1. PICK w \in Workers : Request(w)
    BY <1>4
  <2>2. PICK call \in Calls : todo' = [todo EXCEPT ![w] = call]
    BY <2>1 DEF Request
  <2>3. call \in Seq(Tokens) /\ Plan(call)
    BY CallPlan DEF Planned
  <2>4. /\ operation' = w /\ manager' = manager /\ manager # "down" /\ todo[Main] = <<>>
        /\ operation = None /\ \A u \in Workers : todo[u] = <<>>
    BY <2>1 DEF Request, MayBegin, PlanInv
  <2>5. todo'[w] = call /\ \A t \in Threads \ {w} : todo'[t] = todo[t]
    BY <1>1, <2>2
  <2>6. todo' \in [Threads -> Seq(Tokens)]
    BY <1>1, <2>2, <2>3
  <2>. QED  BY <1>1, <1>2, <2>3, <2>4, <2>5, <2>6 DEF PlanInv
<1>5. CASE CheckCrashes
  <2>1. manager' = manager /\ manager # "down" /\ operation' = operation
    BY <1>5 DEF CheckCrashes
  <2>2. CASE todo' = todo
    BY <1>1, <2>1, <2>2 DEF PlanInv, RuntimeType
  <2>3. CASE todo' = [todo EXCEPT ![Supervisor] = <<"start">>]
    <3>1. todo'[Supervisor] = <<"start">> /\ \A t \in Threads \ {Supervisor} : todo'[t] = todo[t]
      BY <1>1, <2>3
    <3>2. todo' \in [Threads -> Seq(Tokens)]
      BY <1>1, <2>3, StartPlan DEF Planned
    <3>3. \A t \in Threads : Plan(todo'[t])
      BY <3>1, StartPlan DEF Planned, PlanInv
    <3>. QED  BY <1>1, <2>1, <3>1, <3>2, <3>3, StartPlan DEF PlanInv, RuntimeType
  <2>. QED  BY <1>5, <2>2, <2>3 DEF CheckCrashes
<1>6. CASE Boot
  <2>1. PICK p \in {<<"start">>, <<>>} : todo' = [todo EXCEPT ![Main] = p]
    BY <1>6 DEF Boot
  <2>2. p \in Seq(Tokens) /\ Plan(p) /\ ToSet(p) \subseteq {"start"}
    BY <1>2, <2>1, StartPlan DEF Planned
  <2>3. manager' = "up" /\ operation' = operation /\ \A t \in Threads : todo[t] = <<>>
    BY <1>6 DEF Boot, PlanInv
  <2>4. todo'[Main] = p /\ \A t \in Threads \ {Main} : todo'[t] = <<>>
    BY <1>1, <2>1, <2>3
  <2>5. todo' \in [Threads -> Seq(Tokens)]
    BY <1>1, <2>1, <2>2
  <2>. QED  BY <1>1, <1>2, <2>2, <2>3, <2>4, <2>5 DEF PlanInv, RuntimeType
<1>7. CASE Signal
  <2>1. /\ todo' = [todo EXCEPT ![Main] = Stop] /\ manager' = "closing" /\ operation' = operation
    BY <1>7 DEF Signal
  <2>2. todo'[Main] = Stop /\ \A t \in Threads \ {Main} : todo'[t] = todo[t]
    BY <1>1, <2>1
  <2>3. todo' \in [Threads -> Seq(Tokens)]
    BY <1>1, <2>1, StopPlan DEF Planned
  <2>4. \A t \in Threads : Plan(todo'[t])
    BY <2>2, StopPlan DEF Planned, PlanInv
  <2>. QED  BY <1>1, <2>1, <2>2, <2>3, <2>4, StopPlan DEF PlanInv, RuntimeType
<1>8. CASE Close \/ Crash
  <2>1. todo' = [t \in Threads |-> <<>>] /\ operation' = None
    BY <1>8 DEF Close, Crash, Ends
  <2>. QED  BY <1>1, <1>2, <2>1 DEF PlanInv
<1>9. CASE Tick \/ ProcessExits
  BY <1>1, <1>9 DEF Tick, ProcessExits, PlanInv, RuntimeType
<1>. QED  BY <1>3, <1>4, <1>5, <1>6, <1>7, <1>8, <1>9 DEF Next

---------------------------------------------------------------------------
(* The lock and the environment                                            *)

\* Nobody is about to write the switch or to install while a thread starts.
LEMMA StartAlone ==
    ASSUME RuntimeType, PlanInv, LockInv, NEW t \in Threads, Doing(t, "start"), NEW u \in Threads
    PROVE  ~Doing(u, "off") /\ ~Doing(u, "install")
<1>. SUFFICES ASSUME Doing(u, "off") \/ Doing(u, "install") PROVE FALSE
  OBVIOUS
<1>1. todo[u] # <<>> /\ todo[t] # <<>> /\ Head(todo[u]) # "start" /\ lock = None
  BY DEF Doing, LockInv
<1>2. u \in Workers
  BY <1>1, WhoDoes DEF Threads, Doing
<1>3. CASE t \in Workers
  <2>1. u = t
    BY <1>1, <1>2, <1>3, WhoDoes
  <2>. QED  BY <1>1, <2>1 DEF Doing
<1>4. CASE t = Main
  BY <1>1, <1>2, <1>4, WhoDoes
<1>5. CASE t = Supervisor
  BY <1>1, <1>5, RuntimeAssumption DEF LockInv
<1>. QED  BY <1>3, <1>4, <1>5 DEF Threads

\* A step outside runtime.start.
LEMMA OutsideLock ==
    ASSUME RuntimeType, PlanInv, LockInv, NEW t \in Threads, todo[t] # <<>>, Head(todo[t]) # "start",
           \A u \in Threads \ {t} : todo'[u] = todo[u],
           lock' = lock, step' = step, handle' \in {handle, None},
           step # "idle" => enabled' /\ asked',
           todo'[t] # <<>> /\ Head(todo'[t]) \in {"off", "install"} => handle' = None /\ lock = None
    PROVE  LockInv'
<1>1. t # Supervisor /\ lock # t
  BY WhoDoes, RuntimeAssumption DEF LockInv, Doing, Threads
<1>2. Supervisor \in Threads
  BY DEF Threads
<1>. QED  BY <1>1, <1>2 DEF LockInv, Doing

\* The last step of a start.
LEMMA LeaveLock ==
    ASSUME RuntimeType, PlanInv, LockInv, NEW t \in Threads, Doing(t, "start"), Free(t),
           \A u \in Threads \ {t} : todo'[u] = todo[u], todo'[t] = <<>>,
           lock' = None, step' = "idle"
    PROVE  LockInv'
<1>1. \A u \in Threads : ~Doing(u, "off") /\ ~Doing(u, "install")
  BY StartAlone
<1>2. todo'[Supervisor] = <<>>
  BY RuntimeAssumption DEF LockInv, Free, Threads
<1>. QED  BY <1>1, <1>2 DEF LockInv, Doing

LEMMA StepLock ==
    ASSUME RuntimeType, PlanInv, LockInv, NEW t \in Threads, Step(t)
    PROVE  LockInv'
<1>. USE RuntimeAssumption
<1>1. /\ todo[t] # <<>> /\ manager' = manager
      /\ \/ todo' = todo /\ operation' = operation
         \/ \E left \in Rest(t) : GoOn(t, left)
  BY StepGoesOn
<1>2. \A u \in Threads \ {t} : todo'[u] = todo[u]
  BY <1>1, GoOnKeepsPlans
<1>3. ASSUME NEW left \in Rest(t), GoOn(t, left) PROVE todo'[t] = left
  BY <1>1, <1>3, GoOnKeepsPlans
<1>4. ASSUME GoToNext(t) PROVE todo'[t] = Tail(todo[t])
  <2>1. Tail(todo[t]) \in Rest(t)
    BY DEF Rest
  <2>. QED  BY <1>3, <1>4, <2>1 DEF GoToNext
<1>5. ASSUME GoOn(t, <<>>) PROVE todo'[t] = <<>>
  <2>1. <<>> \in Rest(t)
    BY DEF Rest
  <2>. QED  BY <1>3, <1>5, <2>1
<1>6. ASSUME Doing(t, "start"), GoToNext(t) PROVE todo'[t] = <<>>
  BY <1>1, <1>4, <1>6, DoingFacts DEF Doing
<1>7. CASE WriteOn(t)
  BY <1>1, <1>2, <1>4, <1>7, OutsideLock, DoingFacts DEF WriteOn, Doing, venvVars, LockInv
<1>8. CASE WriteOff(t)
  BY <1>1, <1>2, <1>4, <1>8, OutsideLock, DoingFacts DEF WriteOff, Doing, venvVars, LockInv
<1>9. CASE InstallWheel(t)
  BY <1>1, <1>2, <1>4, <1>5, <1>9, OutsideLock, DoingFacts DEF InstallWheel, Doing, LockInv
<1>10. CASE MarkStop(t) \/ MarkOff(t)
  <2>1. PICK token, during, after : token \in Marks /\ Announce(t, token, during, after)
    BY <1>10 DEF MarkStop, MarkOff, Marks
  <2>2. /\ Doing(t, token) /\ token # "start" /\ lock = None /\ lock' = lock /\ step' = step
        /\ handle' = handle
    BY <2>1 DEF Announce, Marks, Doing, Free, LockInv, venvVars
  <2>3. CASE handle = None
    BY <1>1, <1>2, <2>2, <2>3, OutsideLock DEF Doing, LockInv
  <2>4. CASE handle # None
    <3>1. todo'[t] = Tail(todo[t])
      BY <1>4, <2>1, <2>4 DEF Announce
    <3>2. todo'[t] # <<>> /\ Head(todo'[t]) = "kill"
      BY <1>1, <2>1, <2>2, <3>1, DoingFacts DEF Doing
    <3>. QED  BY <1>1, <1>2, <2>2, <3>2, OutsideLock DEF Doing, LockInv
  <2>. QED  BY <2>3, <2>4
<1>11. CASE Kill(t)
  <2>1. todo'[t] # <<>> /\ Head(todo'[t]) \in Sweeps /\ Head(todo[t]) = "kill"
    BY <1>1, <1>4, <1>11, DoingFacts DEF Kill, Doing
  <2>. QED  BY <1>1, <1>2, <1>11, <2>1, OutsideLock DEF Kill, LockInv, Sweeps, venvVars
<1>12. CASE SweepStop(t) \/ SweepOff(t)
  <2>1. PICK token, after : token \in Sweeps /\ Sweep(t, token, after)
    BY <1>12 DEF SweepStop, SweepOff, Sweeps
  <2>2. Head(todo[t]) # "start" /\ lock = None /\ lock' = lock /\ step' = step /\ handle' = None
    BY <2>1 DEF Sweep, CleanupHandle, Sweeps, Doing, Free, LockInv, venvVars
  <2>. QED  BY <1>1, <1>2, <2>2, OutsideLock DEF LockInv
<1>13. CASE BeginStart(t)
  <2>1. CASE enabled
    <3>1. /\ todo' = todo /\ lock' = t /\ enabled' /\ asked' /\ Doing(t, "start") /\ Free(t)
      BY <1>13, <2>1 DEF BeginStart
    <3>2. \A u \in Threads : ~Doing(u, "off") /\ ~Doing(u, "install")
      BY <3>1, StartAlone
    <3>. QED  BY <3>1, <3>2 DEF LockInv, Doing, Free, Threads
  <2>2. CASE ~enabled
    <3>1. Doing(t, "start") /\ Free(t) /\ lock' = None /\ step' = "idle" /\ todo'[t] = <<>>
      BY <1>5, <1>13, <2>2 DEF BeginStart, Raise, venvVars
    <3>. QED  BY <1>2, <3>1, LeaveLock
  <2>. QED  BY <2>1, <2>2
<1>14. CASE EnsureVenv(t)
  <2>1. /\ Doing(t, "start") /\ lock = t /\ UNCHANGED managerVars
        /\ VenvStep
    BY <1>14 DEF EnsureVenv
  <2>2. step # "idle"
    BY <2>1 DEF VenvStep, Go, Reconcile, Drop, Restore, Clear, Check, Mark, Move, Create, Install,
                Validate, Commit, Clean, Undo, Unmove, Unmark, Abandon
  <2>3. \A u \in Threads : ~Doing(u, "off") /\ ~Doing(u, "install")
    BY <2>1, StartAlone
  <2>. QED  BY <2>1, <2>2, <2>3 DEF LockInv, Doing, managerVars
<1>15. CASE EnsureRaised(t) \/ AlreadyRunning(t) \/ Spawn(t) \/ SpawnFails(t)
  <2>1. /\ Doing(t, "start") /\ lock = t /\ step' = "idle" /\ lock' = None
        /\ GoOn(t, <<>>) \/ GoToNext(t)
    BY <1>15 DEF EnsureRaised, AlreadyRunning, Spawn, SpawnFails, Return, Raise, Started
  <2>. QED  BY <1>2, <1>5, <1>6, <2>1, LeaveLock DEF Free
<1>. QED  BY <1>7, <1>8, <1>9, <1>10, <1>11, <1>12, <1>13, <1>14, <1>15 DEF Step

LEMMA LockStep ==
    ASSUME RuntimeType, PlanInv, LockInv, Next
    PROVE  LockInv'
<1>. USE RuntimeAssumption
<1>1. /\ Main \in Threads /\ Supervisor \in Threads /\ Workers \subseteq Threads /\ None \notin Threads
      /\ todo \in [Threads -> Seq(Tokens)]
  BY DEF Threads, RuntimeType
<1>2. CASE \E t \in Threads : Step(t)
  BY <1>2, StepLock
<1>3. CASE \E w \in Workers : Request(w)
  <2>1. PICK w \in Workers : Request(w)
    BY <1>3
  <2>2. PICK call \in Calls : todo' = [todo EXCEPT ![w] = call]
    BY <2>1 DEF Request
  <2>3. Head(call) \notin {"off", "install"}
    BY CallPlan
  <2>4. todo'[w] = call /\ \A t \in Threads \ {w} : todo'[t] = todo[t]
    BY <1>1, <2>2
  <2>5. todo[w] = <<>> /\ UNCHANGED <<lock, step, handle, enabled, asked>>
    BY <2>1 DEF Request, MayBegin, venvVars
  <2>. QED  BY <1>1, <2>3, <2>4, <2>5 DEF LockInv, Doing
<1>4. CASE CheckCrashes
  <2>1. /\ lock = None /\ step' = step /\ handle # None /\ handle' = None
        /\ todo[Supervisor] = <<>> /\ UNCHANGED <<enabled, asked>>
    BY <1>4 DEF CheckCrashes, NoteExit, venvVars
  <2>2. CASE todo' = todo /\ lock' = lock
    BY <2>1, <2>2 DEF LockInv, Doing
  <2>3. CASE todo' = [todo EXCEPT ![Supervisor] = <<"start">>] /\ lock' = Supervisor
    <3>1. todo'[Supervisor] = <<"start">> /\ \A t \in Threads \ {Supervisor} : todo'[t] = todo[t]
      BY <1>1, <2>3
    <3>2. <<"start">> # <<>> /\ Head(<<"start">>) = "start"
      OBVIOUS
    <3>3. \A t \in Threads : ~Doing(t, "off") /\ ~Doing(t, "install")
      BY <2>1 DEF LockInv
    <3>. QED  BY <1>1, <2>1, <2>3, <3>1, <3>2, <3>3 DEF LockInv, Doing
  <2>. QED  BY <1>4, <2>2, <2>3 DEF CheckCrashes
<1>5. CASE Boot
  <2>1. PICK p \in {<<"start">>, <<>>} : todo' = [todo EXCEPT ![Main] = p]
    BY <1>5 DEF Boot
  <2>2. \A t \in Threads : todo[t] = <<>>
    BY <1>5 DEF Boot, PlanInv
  <2>3. todo'[Main] = p /\ \A t \in Threads \ {Main} : todo'[t] = <<>>
    BY <1>1, <2>1, <2>2
  <2>4. lock = None /\ lock' = None /\ step' = step
    BY <1>5, <2>2 DEF Boot, LockInv, Doing, venvVars
  <2>5. p # <<>> => Head(p) = "start"
    BY <2>1
  <2>. QED  BY <1>1, <2>3, <2>4, <2>5 DEF LockInv, Doing
<1>6. CASE Signal
  <2>1. /\ todo' = [todo EXCEPT ![Main] = Stop] /\ todo[Main] = <<>>
        /\ UNCHANGED <<lock, step, handle, enabled, asked>>
    BY <1>6 DEF Signal, venvVars
  <2>2. todo'[Main] = Stop /\ \A t \in Threads \ {Main} : todo'[t] = todo[t]
    BY <1>1, <2>1
  <2>. QED  BY <1>1, <2>1, <2>2, StopPlan DEF LockInv, Doing
<1>7. CASE Close \/ Crash
  BY <1>1, <1>7 DEF Close, Crash, Ends, Interrupt, LockInv, Doing
<1>8. CASE Tick \/ ProcessExits
  BY <1>8 DEF Tick, ProcessExits, LockInv, Doing, venvVars
<1>. QED  BY <1>2, <1>3, <1>4, <1>5, <1>6, <1>7, <1>8 DEF Next

\* The environment is touched by the steps of VenvRebuild, or replaced by an
\* install when no step of a rebuild is due.
LEMMA EnvStep ==
    ASSUME RuntimeType, PlanInv, LockInv, Next
    PROVE  [VenvNext]_venvVars \/ (step = "idle" /\ \E t \in Threads : InstallWheel(t))
<1>1. CASE \E t \in Threads : Step(t)
  <2>1. PICK t \in Threads : Step(t)
    BY <1>1
  <2>2. CASE InstallWheel(t)
    BY <2>2 DEF InstallWheel, LockInv
  <2>3. CASE WriteOn(t) \/ WriteOff(t) \/ MarkStop(t) \/ MarkOff(t) \/ Kill(t) \/ SweepStop(t) \/ SweepOff(t)
    BY <2>3 DEF WriteOn, WriteOff, MarkStop, MarkOff, Announce, Kill, SweepStop, SweepOff, Sweep
  <2>4. CASE BeginStart(t) \/ EnsureVenv(t)
    BY <2>4 DEF BeginStart, EnsureVenv, VenvNext
  <2>5. CASE EnsureRaised(t) \/ AlreadyRunning(t) \/ Spawn(t) \/ SpawnFails(t)
    BY <2>5 DEF EnsureRaised, AlreadyRunning, Spawn, SpawnFails, VenvNext
  <2>. QED  BY <2>1, <2>2, <2>3, <2>4, <2>5 DEF Step
<1>2. CASE Close \/ Crash
  BY <1>2 DEF Close, Crash, Ends, VenvNext
<1>3. CASE \/ \E w \in Workers : Request(w)
           \/ CheckCrashes \/ Tick \/ ProcessExits \/ Boot \/ Signal
  BY <1>3 DEF Request, CheckCrashes, Tick, ProcessExits, Boot, Signal
<1>. QED  BY <1>1, <1>2, <1>3 DEF Next

LEMMA VenvKept ==
    ASSUME VenvInv, RuntimeType, PlanInv, LockInv, Next
    PROVE  /\ VenvInv'
           /\ [Swap!Rebuild \/ Swap!Upgrade]_<<Usable, python>>
<1>1. CASE [VenvNext]_venvVars
  BY <1>1, VenvStepInv, VenvSimulates
<1>2. CASE step = "idle" /\ \E t \in Threads : InstallWheel(t)
  <2>1. /\ python' = python /\ step = "idle" /\ step' = "idle"
        /\ \/ venv' = python /\ backup' = None /\ marker' = FALSE
           \/ UNCHANGED <<venv, backup, marker>>
    BY <1>2 DEF InstallWheel
  <2>2. VenvInv'
    <3>. USE PythonAssumption DEF VenvInv, VenvType, Contents, NeverLost, Usable
    <3>1. VenvType' /\ NeverLost'
      <4>1. CASE venv' = python /\ backup' = None /\ marker' = FALSE
        BY <2>1, <4>1 DEF Steps
      <4>2. CASE UNCHANGED <<venv, backup, marker>>
        BY <2>1, <4>2 DEF Steps
      <4>. QED  BY <2>1, <4>1, <4>2
    <3>2. AtStep'
      BY <2>1 DEF AtStep
    <3>. QED  BY <3>1, <3>2
  <2>3. [Swap!Rebuild \/ Swap!Upgrade]_<<Usable, python>>
    BY <2>1 DEF Usable, Swap!Rebuild
  <2>. QED  BY <2>2, <2>3
<1>. QED  BY <1>1, <1>2, EnvStep

---------------------------------------------------------------------------
(* The processes                                                           *)

\* Two threads at most keep a handle they read, so there is a process number for
\* a new one.
LEMMA FreshPid ==
    ASSUME RuntimeType, PlanInv, HandleInv, Owned, handle \notin alive
    PROVE  \E p \in Pids : p \notin alive \cup {caught[u] : u \in Threads} \cup {handle}
<1>. USE RuntimeAssumption
<1> DEFINE c == IF operation = None THEN None ELSE caught[operation]
           d == caught[Main]
<1>1. Main \in Threads /\ Supervisor \in Threads /\ Workers \subseteq Threads
  BY DEF Threads
<1>2. c \in Pids \cup {None} /\ d \in Pids \cup {None} /\ handle \in Pids \cup {None}
  BY <1>1 DEF RuntimeType, HandleInv
<1>3. \A u \in Threads : caught[u] \in {c, d, None}
  <2>. SUFFICES ASSUME NEW u \in Threads, caught[u] # None PROVE caught[u] \in {c, d}
    OBVIOUS
  <2>1. todo[u] # <<>> /\ Head(todo[u]) = "kill"
    BY DEF HandleInv, Doing
  <2>2. u # Supervisor
    BY <2>1, WhoDoes DEF Doing
  <2>3. CASE u \in Workers
    BY <2>1, <2>3, WhoDoes
  <2>. QED  BY <2>2, <2>3 DEF Threads
<1>4. alive = {}
  BY DEF Owned
<1>. HIDE DEF c, d
<1>5. PICK p \in Pids : p \notin {c, d, handle}
  <2>1. Pids \ {c, d, handle} # {}
    BY <1>2, PidAssumption
  <2>. QED  BY <2>1
<1>. QED  BY <1>3, <1>4, <1>5

OwnInv == HandleInv /\ Owned /\ StopInv

\* A step that is not one of a stop, and touches no process.
LEMMA NoStop ==
    ASSUME RuntimeType, PlanInv, OwnInv, NEW t \in Threads, manager' = manager,
           todo[t] # <<>> => Head(todo[t]) \notin {"kill"} \cup Sweeps,
           \A u \in Threads \ {t} : todo'[u] = todo[u],
           UNCHANGED <<handle, caught, alive>>, asked => asked', ~enabled' => alive = {}
    PROVE  OwnInv'
<1>1. ~Stopping(t) /\ ~Doing(t, "kill")
  BY DEF Stopping, Doing
<1>2. \A u \in Threads \ {t} : (Stopping(u) => Stopping(u)') /\ (Doing(u, "kill") => Doing(u, "kill")')
  BY DEF Stopping, Doing
<1>3. HandleInv' /\ Owned'
  BY <1>1, <1>2 DEF OwnInv, HandleInv, Owned
<1>4. StopInv'
  BY <1>1, <1>2 DEF OwnInv, StopInv
<1>. QED  BY <1>3, <1>4 DEF OwnInv

LEMMA StepOwns ==
    ASSUME RuntimeType, PlanInv, LockInv, OwnInv, NEW t \in Threads, Step(t)
    PROVE  OwnInv'
<1>. USE RuntimeAssumption
<1>1. /\ todo[t] # <<>> /\ manager' = manager
      /\ \/ todo' = todo /\ operation' = operation
         \/ \E left \in Rest(t) : GoOn(t, left)
  BY StepGoesOn
<1>2. \A u \in Threads \ {t} : todo'[u] = todo[u]
  BY <1>1, GoOnKeepsPlans
<1>3. ASSUME GoToNext(t) PROVE todo'[t] = Tail(todo[t])
  <2>1. Tail(todo[t]) \in Rest(t)
    BY DEF Rest
  <2>. QED  BY <1>1, <1>3, <2>1, GoOnKeepsPlans DEF GoToNext
<1>4. manager # "down"
  BY <1>1, DoingFacts
<1>5. \A u \in Threads \ {t} : \A what : Doing(u, what)' <=> Doing(u, what)
  BY <1>2 DEF Doing
<1>6. \A u \in Threads \ {t} : Stopping(u)' <=> Stopping(u)
  BY <1>5 DEF Stopping
<1>7. CASE WriteOn(t)
  BY <1>1, <1>2, <1>7, NoStop DEF WriteOn, Doing, Sweeps
<1>8. CASE WriteOff(t)
  <2>1. alive = {}
    BY <1>8 DEF WriteOff, LockInv, OwnInv, Owned, HandleInv
  <2>. QED  BY <1>1, <1>2, <1>8, <2>1, NoStop DEF WriteOff, Doing, Sweeps
<1>9. CASE InstallWheel(t)
  BY <1>1, <1>2, <1>9, NoStop DEF InstallWheel, Doing, Sweeps, OwnInv, StopInv
<1>10. CASE MarkStop(t) \/ MarkOff(t)
  <2>1. PICK token, during, after : token \in Marks /\ Announce(t, token, during, after)
    BY <1>10 DEF MarkStop, MarkOff, Marks
  <2>2. /\ Head(todo[t]) = token /\ asked' = FALSE /\ caught' = [caught EXCEPT ![t] = handle]
        /\ UNCHANGED <<enabled, handle, alive>>
    BY <2>1 DEF Announce, Doing
  <2>3. /\ caught' \in [Threads -> Pids \cup {None}] /\ caught'[t] = handle
        /\ \A u \in Threads \ {t} : caught'[u] = caught[u]
    BY <2>2 DEF OwnInv, HandleInv
  <2>4. CASE handle = None
    <3>1. alive = {}
      BY <2>4 DEF OwnInv, Owned, HandleInv
    <3>. QED  BY <1>4, <1>5, <2>2, <2>3, <2>4, <3>1, <1>1 DEF OwnInv, HandleInv, Owned, StopInv
  <2>5. CASE handle # None
    <3>1. Doing(t, "kill")'
      BY <1>1, <1>3, <2>1, <2>2, <2>5, DoingFacts DEF Announce, Doing
    <3>2. Stopping(t)'
      BY <3>1 DEF Stopping
    <3>. QED  BY <1>1, <1>4, <1>5, <2>2, <2>3, <3>1, <3>2 DEF OwnInv, HandleInv, Owned, StopInv
  <2>. QED  BY <2>4, <2>5
<1>11. CASE Kill(t)
  <2>1. /\ alive' \subseteq alive /\ caught' = [caught EXCEPT ![t] = None]
        /\ UNCHANGED <<enabled, asked, handle>> /\ Head(todo[t]) = "kill" /\ GoToNext(t)
    BY <1>11 DEF Kill, Doing
  <2>2. Stopping(t)'
    BY <1>1, <1>3, <2>1, DoingFacts DEF Stopping, Doing
  <2>3. /\ caught' \in [Threads -> Pids \cup {None}] /\ caught'[t] = None
        /\ \A u \in Threads \ {t} : caught'[u] = caught[u]
    BY <2>1 DEF OwnInv, HandleInv
  <2>. QED  BY <1>1, <1>4, <1>5, <2>1, <2>2, <2>3 DEF OwnInv, HandleInv, Owned, StopInv
<1>12. CASE SweepStop(t) \/ SweepOff(t)
  <2>1. PICK token, after : token \in Sweeps /\ Sweep(t, token, after)
    BY <1>12 DEF SweepStop, SweepOff, Sweeps
  <2>2. handle' = None /\ alive' = {} /\ caught' = caught /\ UNCHANGED <<enabled, asked>>
    BY <2>1 DEF Sweep, CleanupHandle, OwnInv, Owned
  <2>3. ~Doing(t, "kill")
    BY <2>1 DEF Sweep, Sweeps, Doing
  <2>. QED  BY <1>1, <1>5, <2>2, <2>3 DEF OwnInv, HandleInv, Owned, StopInv
<1>13. CASE BeginStart(t) \/ EnsureVenv(t) \/ EnsureRaised(t) \/ AlreadyRunning(t) \/ SpawnFails(t)
  <2>1. /\ Doing(t, "start") /\ UNCHANGED <<enabled, handle, caught, alive>> /\ (asked => asked')
    <3>1. CASE BeginStart(t)
      BY <3>1 DEF BeginStart
    <3>2. CASE EnsureVenv(t)
      BY <3>2 DEF EnsureVenv, managerVars
    <3>3. CASE EnsureRaised(t) \/ AlreadyRunning(t) \/ SpawnFails(t)
      BY <3>3 DEF EnsureRaised, AlreadyRunning, SpawnFails
    <3>. QED  BY <1>13, <3>1, <3>2, <3>3
  <2>2. Head(todo[t]) \notin {"kill"} \cup Sweeps /\ (~enabled' => alive = {})
    BY <2>1 DEF Doing, Sweeps, OwnInv, StopInv
  <2>3. UNCHANGED <<handle, caught, alive>> /\ (asked => asked')
    BY <2>1
  <2>. QED  BY <1>1, <1>2, <2>2, <2>3, NoStop
<1>14. CASE Spawn(t)
  <2>1. /\ Doing(t, "start") /\ step # "idle" /\ handle \notin alive
        /\ handle' = CHOOSE p \in Pids : p \notin alive \cup {caught[u] : u \in Threads} \cup {handle}
        /\ alive' = alive \cup {handle'} /\ UNCHANGED <<enabled, asked, caught>>
    BY <1>14 DEF Spawn, Return
  <2>2. handle' \in Pids
    BY <2>1, FreshPid DEF OwnInv
  <2>3. alive' = {handle'}
    BY <2>1 DEF OwnInv, Owned
  <2>4. ~Doing(t, "kill")
    BY <2>1 DEF Doing
  <2>. QED  BY <1>1, <1>4, <1>5, <2>1, <2>2, <2>3, <2>4 DEF OwnInv, HandleInv, Owned, StopInv, LockInv
<1>. QED  BY <1>7, <1>8, <1>9, <1>10, <1>11, <1>12, <1>13, <1>14 DEF Step

LEMMA OwnStep ==
    ASSUME CgroupKill, RuntimeType, PlanInv, LockInv, OwnInv, Next
    PROVE  OwnInv'
<1>. USE RuntimeAssumption
<1>1. /\ Main \in Threads /\ Supervisor \in Threads /\ Workers \subseteq Threads
      /\ todo \in [Threads -> Seq(Tokens)]
  BY DEF Threads, RuntimeType
<1>2. CASE \E t \in Threads : Step(t)
  BY <1>2, StepOwns
<1>3. CASE \E w \in Workers : Request(w)
  <2>1. PICK w \in Workers : Request(w)
    BY <1>3
  <2>2. todo[w] = <<>> /\ manager' = manager /\ UNCHANGED <<handle, caught, alive, asked, enabled>>
    BY <2>1 DEF Request, MayBegin
  <2>3. \A t \in Threads \ {w} : todo'[t] = todo[t]
    BY <1>1, <2>1 DEF Request
  <2>. QED  BY <1>1, <2>2, <2>3, NoStop DEF OwnInv, StopInv
<1>4. CASE CheckCrashes
  <2>1. /\ alive' = {} /\ handle' = None /\ UNCHANGED <<caught, manager, asked, enabled>>
        /\ todo[Supervisor] = <<>>
    BY <1>4 DEF CheckCrashes, NoteExit, OwnInv, Owned
  <2>2. \A t \in Threads \ {Supervisor} : todo'[t] = todo[t]
    BY <1>1, <1>4 DEF CheckCrashes
  <2>. QED  BY <1>1, <2>1, <2>2 DEF OwnInv, HandleInv, Owned, StopInv, Doing
<1>5. CASE Boot
  <2>1. alive = {} /\ handle = None /\ UNCHANGED <<alive, handle, caught>> /\ manager' = "up"
    BY <1>5 DEF Boot, OwnInv, HandleInv, Owned
  <2>2. \A t \in Threads : caught[t] = None
    BY <1>5 DEF Boot, PlanInv, OwnInv, HandleInv, Doing
  <2>. QED  BY <2>1, <2>2 DEF OwnInv, HandleInv, Owned, StopInv
<1>6. CASE Signal
  <2>1. /\ todo[Main] = <<>> /\ UNCHANGED <<handle, caught, alive, asked, enabled>>
        /\ manager = "up" /\ manager' = "closing"
    BY <1>6 DEF Signal
  <2>2. \A t \in Threads \ {Main} : todo'[t] = todo[t]
    BY <1>1, <1>6 DEF Signal
  <2>3. \A t \in Threads \ {Main} : \A what : Doing(t, what)' <=> Doing(t, what)
    BY <2>2 DEF Doing
  <2>4. \A what : ~Doing(Main, what)
    BY <2>1 DEF Doing
  <2>. QED  BY <1>1, <2>1, <2>3, <2>4 DEF OwnInv, HandleInv, Owned, StopInv, Stopping
<1>7. CASE Close \/ Crash
  <2>1. Ends({})
    BY <1>7 DEF Close, Crash
  <2>. QED  BY <2>1 DEF Ends, OwnInv, HandleInv, Owned, StopInv
<1>8. CASE Tick
  BY <1>8 DEF Tick, OwnInv, HandleInv, Owned, StopInv, Stopping, Doing
<1>9. CASE ProcessExits
  <2>1. /\ alive' \subseteq alive
        /\ UNCHANGED <<handle, caught, todo, asked, enabled, manager>>
    BY <1>9 DEF ProcessExits
  <2>. QED  BY <2>1 DEF OwnInv, HandleInv, Owned, StopInv, Stopping, Doing
<1>. QED  BY <1>2, <1>3, <1>4, <1>5, <1>6, <1>7, <1>8, <1>9 DEF Next

---------------------------------------------------------------------------
(* The theorems                                                            *)

LEMMA InitInv == Init => IInv
<1>. SUFFICES ASSUME Init PROVE IInv
  OBVIOUS
<1>. USE RuntimeAssumption
<1>1. VenvInv
  BY VenvInitInv DEF Init
<1>2. RuntimeType /\ CrashBound
  <2>1. /\ crashes = <<>> /\ revived = <<>> /\ todo = [t \in Threads |-> <<>>] /\ operation = None
        /\ enabled \in BOOLEAN /\ asked = FALSE /\ manager = "down"
    BY DEF Init
  <2>2. crashes \in Seq(Nat) /\ revived \in Seq(0..Window) /\ Len(revived) = 0
    BY <2>1
  <2>3. todo \in [Threads -> Seq(Tokens)]
    BY <2>1
  <2>4. RuntimeType
    BY <2>1, <2>2, <2>3 DEF RuntimeType
  <2>5. 0 < CrashMax
    OBVIOUS
  <2>. QED  BY <2>2, <2>4, <2>5 DEF CrashBound
<1>3. PlanInv
  <2>1. Plan(<<>>) /\ ToSet(<<>>) = {}
    BY DEF Plan, ToSet
  <2>. QED  BY <2>1 DEF Init, PlanInv, Threads
<1>4. LockInv /\ OwnInv
  BY DEF Init, VenvInit, LockInv, OwnInv, HandleInv, Owned, StopInv, Doing, Threads
<1>5. CrashInv
  <2>1. \A k : Places(revived, 0..k) = {} /\ Places(crashes, 0..k) = {}
    BY DEF Init, Places
  <2>2. Cardinality({}) = 0
    BY FS_EmptySet
  <2>3. \A k : Occurs(revived, 0..k) = 0 /\ Occurs(crashes, 0..k) = 0
    BY <2>1, <2>2 DEF Occurs
  <2>. QED  BY <2>3 DEF CrashInv
<1>. QED  BY <1>1, <1>2, <1>3, <1>4, <1>5 DEF IInv, OwnInv

\* The ages of exits and restarts.
LEMMA CrashStep ==
    ASSUME RuntimeType, CrashInv, CrashBound, Next
    PROVE  crashes' \in Seq(Nat) /\ revived' \in Seq(0..Window) /\ CrashInv' /\ CrashBound'
<1>. USE RuntimeAssumption
<1>1. CASE Tick
  BY <1>1, TickCounts
<1>2. CASE CheckCrashes
  BY <1>2, RestartCounts
<1>3. CASE Close \/ Crash
  <2>1. crashes' = <<>> /\ revived' = <<>>
    BY <1>3 DEF Close, Crash, Ends
  <2>2. \A k : Places(revived', 0..k) = {} /\ Places(crashes', 0..k) = {}
    BY <2>1 DEF Places
  <2>3. Cardinality({}) = 0
    BY FS_EmptySet
  <2>4. CrashInv'
    <3>1. \A k : Occurs(revived', 0..k) = 0 /\ Occurs(crashes', 0..k) = 0
      BY <2>2, <2>3 DEF Occurs
    <3>. QED  BY <3>1 DEF CrashInv
  <2>5. crashes' \in Seq(Nat) /\ revived' \in Seq(0..Window) /\ Len(revived') = 0
    BY <2>1
  <2>. QED  BY <2>4, <2>5 DEF CrashBound
<1>4. CASE UNCHANGED <<crashes, revived>>
  BY <1>4 DEF RuntimeType, CrashInv, CrashBound
<1>5. ASSUME NEW t \in Threads, Step(t) PROVE UNCHANGED <<crashes, revived>>
  BY <1>5 DEF Step, WriteOn, WriteOff, InstallWheel, MarkStop, MarkOff, Announce, Kill, SweepStop,
              SweepOff, Sweep, BeginStart, EnsureVenv, EnsureRaised, AlreadyRunning, Spawn,
              SpawnFails, managerVars
<1>. QED  BY <1>1, <1>2, <1>3, <1>4, <1>5 DEF Next, Request, ProcessExits, Boot, Signal

LEMMA TypeStep ==
    ASSUME RuntimeType, PlanInv, Next
    PROVE  enabled' \in BOOLEAN /\ asked' \in BOOLEAN /\ manager' \in {"down", "up", "closing"}
<1>1. ASSUME NEW t \in Threads, Step(t)
      PROVE  enabled' \in BOOLEAN /\ asked' \in BOOLEAN /\ manager' = manager
  <2>1. CASE WriteOn(t) \/ WriteOff(t) \/ InstallWheel(t) \/ MarkStop(t) \/ MarkOff(t) \/ Kill(t)
    BY <2>1 DEF WriteOn, WriteOff, InstallWheel, MarkStop, MarkOff, Announce, Kill, RuntimeType
  <2>2. CASE SweepStop(t) \/ SweepOff(t) \/ BeginStart(t) \/ EnsureVenv(t)
    BY <2>2 DEF SweepStop, SweepOff, Sweep, BeginStart, EnsureVenv, managerVars, RuntimeType
  <2>3. CASE EnsureRaised(t) \/ AlreadyRunning(t) \/ Spawn(t) \/ SpawnFails(t)
    BY <2>3 DEF EnsureRaised, AlreadyRunning, Spawn, SpawnFails, RuntimeType
  <2>. QED  BY <1>1, <2>1, <2>2, <2>3 DEF Step
<1>. QED  BY <1>1 DEF Next, Request, CheckCrashes, Tick, ProcessExits, Boot, Signal, Close, Crash,
                      Ends, RuntimeType

LEMMA StepInv == IInv /\ [Next]_vars => IInv'
<1>1. ASSUME IInv, Next PROVE IInv'
  <2>1. VenvInv'
    BY <1>1, VenvKept DEF IInv
  <2>2. PlanInv' /\ RuntimeType'
    BY <1>1, PlanStep, CrashStep, TypeStep DEF IInv, RuntimeType
  <2>3. LockInv'
    BY <1>1, LockStep DEF IInv
  <2>4. CrashInv' /\ CrashBound'
    BY <1>1, CrashStep DEF IInv
  <2>5. CgroupKill => OwnInv'
    BY <1>1, OwnStep DEF IInv, OwnInv
  <2>. QED  BY <2>1, <2>2, <2>3, <2>4, <2>5 DEF IInv, OwnInv
<1>2. ASSUME IInv, UNCHANGED vars PROVE IInv'
  <2>1. UNCHANGED venvVars /\ UNCHANGED managerVars
    BY <1>2 DEF vars
  <2>2. VenvInv'
    BY <1>2, <2>1, VenvStepInv DEF IInv
  <2>3. RuntimeType' /\ PlanInv' /\ LockInv' /\ CrashInv' /\ CrashBound'
    BY <1>2, <2>1 DEF IInv, RuntimeType, PlanInv, LockInv, CrashInv, CrashBound, Doing, venvVars, managerVars
  <2>4. CgroupKill => OwnInv'
    BY <1>2, <2>1 DEF IInv, OwnInv, HandleInv, Owned, StopInv, Stopping, Doing, managerVars
  <2>. QED  BY <2>2, <2>3, <2>4 DEF IInv, OwnInv
<1>. QED  BY <1>1, <1>2

\* Type correctness of the runtime, and the inductive invariant of every theorem
\* below.
THEOREM RuntimeInvariance == Spec => []IInv
BY InitInv, StepInv, PTL DEF Spec

\* runtime.py: with a control group to end its plugins, the manager knows every
\* process of the plugin, whoever stops, starts or loses it.
THEOREM AlwaysOwned ==
    ASSUME CgroupKill
    PROVE  Spec => []Owned
<1>1. IInv => Owned
  BY DEF IInv
<1>. QED  BY <1>1, RuntimeInvariance, PTL

\* stop and disable: with a control group, a plugin that was stopped or disabled
\* is gone when the manager settles.
THEOREM StopsStand ==
    ASSUME CgroupKill
    PROVE  Spec => []StopHolds
<1>1. IInv => StopHolds
  BY DEF IInv, StopInv, StopHolds, Settled, Stopping, Doing
<1>. QED  BY <1>1, RuntimeInvariance, PTL

\* _check_crashes: never CrashMax restarts in a window, whatever else starts and
\* stops the plugin.
THEOREM RestartsBounded == Spec => []CrashBound
<1>1. IInv => CrashBound
  BY DEF IInv
<1>. QED  BY <1>1, RuntimeInvariance, PTL

\* ensure_venv_compatible, under the lock of a start and beside installs: whatever
\* interrupts it, a whole environment is at the path or in the backup the marker
\* names.
THEOREM EnvironmentKept == Spec => []NeverLost
<1>1. IInv => NeverLost
  BY DEF IInv, VenvInv
<1>. QED  BY <1>1, RuntimeInvariance, PTL

\* runtime.start goes on only with an environment made for the manager's Python.
THEOREM StartsFromOwnPython == Spec => []ReadyToRun
<1>1. IInv => ReadyToRun
  BY DEF IInv, VenvInv, AtStep, ReadyToRun
<1>. QED  BY <1>1, RuntimeInvariance, PTL

\* Among operations, crashes and reboots, what the next start will find changes in
\* one step, and to an environment for the manager's Python.
THEOREM RuntimeSwaps == Spec => ImplementsSwap
<1>1. Init => Swap!Init
  BY PythonAssumption DEF Init, VenvInit, Swap!Init, Usable
<1>2. IInv /\ [Next]_vars => [Swap!Rebuild \/ Swap!Upgrade]_<<Usable, python>>
  <2>1. IInv /\ Next => [Swap!Rebuild \/ Swap!Upgrade]_<<Usable, python>>
    BY VenvKept DEF IInv
  <2>2. UNCHANGED vars => UNCHANGED <<Usable, python>>
    BY DEF vars, venvVars, Usable
  <2>. QED  BY <2>1, <2>2
<1>. QED  BY <1>1, <1>2, RuntimeInvariance, PTL DEF Spec, ImplementsSwap, Swap!Spec
=============================================================================
