---------------------------- MODULE BrokerLink ----------------------------
(***************************************************************************)
(* One MQTT broker connection while the daemon runs. Three threads look     *)
(* after it: the network loop of the MQTT library, which reconnects by      *)
(* itself and calls _on_connect and _on_disconnect; a timer, one of a       *)
(* series, that reconnects with fresh credentials; and a timer that leaves  *)
(* the broker before the token expires, to come back with a new one.        *)
(*                                                                         *)
(* A step is what a thread does between two points where another can get in *)
(* its way: a callback, the body of _schedule_reconnect, a call into the    *)
(* library. The library is modelled as far as this code relies on it: its   *)
(* loop goes on until loop_stop or disconnect, connect drops the connection *)
(* there was, and raises or leaves a request to connect unanswered.         *)
(***************************************************************************)
EXTENDS Naturals

CONSTANTS
    Timers,         \* bound: reconnect timers alive at once
    MaxSetbacks,      \* bound: failed connects, refusals and drops
    MaxRefreshes    \* bound: tokens about to expire

ASSUME LinkAssumption == Timers \in Nat \ {0} /\ MaxSetbacks \in Nat /\ MaxRefreshes \in Nat

VARIABLES
    start,      \* the first connect: "new", "done", or "raised"
    connected,  \* _running
    timer,      \* each reconnect timer: "free", "armed", "fired", and the steps of
                \* its attempt, "dialling" and "stopped"
    handle,     \* the timer _reconnect_timer holds; 0 for None
    link,       \* "none", "asked" or "up"
    loop,       \* the library's loop runs
    leaving,    \* client.disconnect was called
    refresh,    \* steps of reconnect_for_token_expiry: "none", "checked", "scheduled"
    setbacks, refreshes,
    crossed, expired    \* the two ways to be stranded; never read

linkVars == <<start, connected, timer, handle, link, loop, leaving, refresh,
              setbacks, refreshes, crossed, expired>>

LinkInit ==
    /\ start = "new" /\ connected = FALSE
    /\ timer = [i \in 1..Timers |-> "free"] /\ handle = 0
    /\ link = "none" /\ loop = FALSE /\ leaving = FALSE /\ refresh = "none"
    /\ setbacks = 0 /\ refreshes = 0 /\ crossed = FALSE /\ expired = FALSE

Setback == setbacks < MaxSetbacks /\ setbacks' = setbacks + 1

---------------------------------------------------------------------------
\* A timer that has fired cannot be cancelled any more.
Cancelled(t) == [i \in DOMAIN t |-> IF i = handle /\ t[i] = "armed" THEN "free" ELSE t[i]]

\* _schedule_reconnect: the timer the handle holds gives way to a new one.
Rearmed(t) ==
    \E i \in DOMAIN t :
        /\ Cancelled(t)[i] = "free" /\ \A j \in 1..(i - 1) : Cancelled(t)[j] # "free"
        /\ timer' = [Cancelled(t) EXCEPT ![i] = "armed"] /\ handle' = i

\* connect of the first time: a failure is logged.
Connect ==
    /\ start = "new" /\ start' = "done"
    /\ link' = "asked" /\ loop' = TRUE
    /\ UNCHANGED <<connected, timer, handle, leaving, refresh, setbacks, refreshes, crossed, expired>>

ConnectRaises ==
    /\ start = "new" /\ start' = "raised" /\ Setback
    /\ UNCHANGED <<connected, timer, handle, link, loop, leaving, refresh, refreshes, crossed, expired>>

---------------------------------------------------------------------------
(* The library's loop and the callbacks it makes.                          *)

Accepted ==
    /\ loop /\ link = "asked" /\ ~leaving
    /\ link' = "up" /\ connected' = TRUE
    /\ timer' = Cancelled(timer) /\ handle' = 0
    /\ UNCHANGED <<start, loop, leaving, refresh, setbacks, refreshes, crossed, expired>>

\* _on_connect with an error; the broker closes the connection.
Refused ==
    /\ loop /\ link = "asked" /\ ~leaving /\ Setback
    /\ link' = "none" /\ connected' = FALSE /\ Rearmed(timer)
    /\ UNCHANGED <<start, loop, leaving, refresh, refreshes, crossed, expired>>

\* _on_disconnect with an error: only a connection that was up is scheduled.
Dropped ==
    /\ loop /\ link # "none" /\ ~leaving /\ Setback
    /\ link' = "none" /\ connected' = FALSE
    /\ IF connected THEN Rearmed(timer) ELSE UNCHANGED <<timer, handle>>
    /\ UNCHANGED <<start, loop, leaving, refresh, refreshes, crossed, expired>>

LoopRetries ==
    /\ loop /\ link = "none" /\ ~leaving
    /\ link' = "asked"
    /\ UNCHANGED <<start, connected, timer, handle, loop, leaving, refresh, setbacks, refreshes, crossed, expired>>

\* After disconnect the loop ends, with a clean _on_disconnect.
LoopEnds ==
    /\ loop /\ leaving
    /\ loop' = FALSE /\ link' = "none" /\ connected' = FALSE
    /\ UNCHANGED <<start, timer, handle, leaving, refresh, setbacks, refreshes, crossed, expired>>

---------------------------------------------------------------------------
(* _attempt_reconnect, on the thread of its timer.                         *)

Fires(i) ==
    /\ timer[i] = "armed" /\ timer' = [timer EXCEPT ![i] = "fired"]
    /\ UNCHANGED <<start, connected, handle, link, loop, leaving, refresh, setbacks, refreshes, crossed, expired>>

\* The handle is cleared, whichever timer it holds by now.
Checks(i) ==
    /\ timer[i] = "fired" /\ handle' = 0
    /\ timer' = [timer EXCEPT ![i] = IF connected THEN "free" ELSE "dialling"]
    /\ UNCHANGED <<start, connected, link, loop, leaving, refresh, setbacks, refreshes, crossed, expired>>

\* loop_stop waits for the loop's thread to end.
StopsLoop(i) ==
    /\ timer[i] = "dialling" /\ timer' = [timer EXCEPT ![i] = "stopped"]
    /\ loop' = FALSE
    /\ UNCHANGED <<start, connected, handle, link, leaving, refresh, setbacks, refreshes, crossed, expired>>

Reconnects(i) ==
    /\ timer[i] = "stopped" /\ timer' = [timer EXCEPT ![i] = "free"]
    /\ link' = "asked" /\ loop' = TRUE /\ leaving' = FALSE
    /\ UNCHANGED <<start, connected, handle, refresh, setbacks, refreshes, crossed, expired>>

\* Mutant: a failed attempt is not followed by another.
ReconnectFails_Last(i) ==
    /\ timer[i] = "stopped" /\ Setback
    /\ link' = "none" /\ timer' = [timer EXCEPT ![i] = "free"]
    /\ crossed' = (crossed \/ connected)
    /\ UNCHANGED <<start, connected, handle, loop, leaving, refresh, refreshes, expired>>

\* The connection there was is closed before connect raises.
ReconnectFails(i) ==
    /\ timer[i] = "stopped" /\ Setback
    /\ link' = "none" /\ Rearmed([timer EXCEPT ![i] = "free"])
    /\ crossed' = (crossed \/ connected)
    /\ UNCHANGED <<start, connected, loop, leaving, refresh, refreshes, expired>>

---------------------------------------------------------------------------
(* reconnect_for_token_expiry.                                             *)

ExpiryBegins ==
    /\ connected /\ refresh = "none" /\ refreshes < MaxRefreshes
    /\ refresh' = "checked" /\ refreshes' = refreshes + 1
    /\ UNCHANGED <<start, connected, timer, handle, link, loop, leaving, setbacks, crossed, expired>>

ExpirySchedules ==
    /\ refresh = "checked" /\ refresh' = "scheduled"
    /\ connected' = FALSE /\ Rearmed(timer)
    /\ UNCHANGED <<start, link, loop, leaving, setbacks, refreshes, crossed, expired>>

ExpiryLeaves ==
    /\ refresh = "scheduled" /\ refresh' = "none"
    /\ leaving' = TRUE
    /\ expired' = (expired \/ connected \/ \A i \in DOMAIN timer : timer[i] = "free")
    /\ UNCHANGED <<start, connected, timer, handle, link, loop, setbacks, refreshes, crossed>>

Attempt(i) == Fires(i) \/ Checks(i) \/ StopsLoop(i) \/ Reconnects(i) \/ ReconnectFails(i)

LinkNext ==
    \/ Connect \/ ConnectRaises
    \/ Accepted \/ Refused \/ Dropped \/ LoopRetries \/ LoopEnds
    \/ \E i \in DOMAIN timer : Attempt(i)
    \/ ExpiryBegins \/ ExpirySchedules \/ ExpiryLeaves

LinkSpec == LinkInit /\ [][LinkNext]_linkVars

---------------------------------------------------------------------------
\* Somebody will see to the connection: the loop, an attempt or a refresh that
\* is under way, or a timer that will not find _running set.
Tended ==
    \/ loop /\ ~leaving
    \/ refresh # "none"
    \/ \E i \in DOMAIN timer : timer[i] # "free" /\ (timer[i] \in {"dialling", "stopped"} \/ ~connected)

(* A connection that got through its first connect is never left with       *)
(* nobody to bring it back, whatever the broker, the loop and the timers do *)
(* to each other. Two races are excepted: a token refresh that leaves the   *)
(* broker when the reconnection it scheduled is over, and an attempt that   *)
(* fails after the loop came back between its check and loop_stop: _running *)
(* stays set, and the next timer skips its attempt.                         *)
KeepsTrying == start = "done" => Tended \/ crossed \/ expired
=============================================================================
