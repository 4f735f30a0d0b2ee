---------------------------- MODULE UpdateJobs ----------------------------
(***************************************************************************)
(* The update service: request threads start a check of the versions on the *)
(* selected channel, or an install from it, each on a thread of its own;    *)
(* all share _UpdateState. A step of a thread is what it does between two   *)
(* points where it lets the lock go or leaves the process.                  *)
(*                                                                         *)
(* A version is known by the channel it was fetched for. Whether it is newer *)
(* is not modelled: any install request may be forced. The commands of an   *)
(* install succeed or fail as one.                                          *)
(***************************************************************************)
EXTENDS Naturals, FiniteSets

CONSTANTS
    Channels,
    nothing,        \* None, or no channel
    Jobs,           \* bound: the threads of each kind alive at once
    MaxRequests     \* bound: check, install and channel requests

ASSUME JobsAssumption == Jobs \in Nat \ {0} /\ MaxRequests \in Nat /\ nothing \notin Channels

VARIABLES
    status,     \* _state.state
    channel,    \* the selected channel, saved to a file
    latest,     \* the channel latest_version was fetched for, or nothing
    fresh,      \* last_checked is set, and within CHECK_CACHE_TTL
    held,       \* before rate_limit_until
    check,      \* each check thread: [at, channel], at "none", "started", "working"
                \* or "done"
    install,    \* each install thread, with "restarted" or "stayed" in place of "done"
    restarting, \* the service manager was asked to restart the process
    requests,
    switched,   \* a check worked when the channel was last selected; never read
    raised      \* an install thread has raised since an install last set the state; never read

updateVars == <<status, channel, latest, fresh, held, check, install, restarting, requests,
                switched, raised>>

NoJob == [at |-> "none", channel |-> nothing]
Busy(job) == \E i \in DOMAIN job : job[i].at # "none"
NoJobs == [i \in 1..Jobs |-> NoJob]

UpdateInit ==
    /\ status = "idle" /\ channel \in Channels /\ latest = nothing
    /\ fresh = FALSE /\ held = FALSE
    /\ check = NoJobs /\ install = NoJobs
    /\ restarting = FALSE /\ requests = 0 /\ switched = FALSE /\ raised = FALSE

Requested == requests < MaxRequests /\ requests' = requests + 1
JobFree(job, i) == job[i].at = "none" /\ \A j \in 1..(i - 1) : job[j].at # "none"

---------------------------------------------------------------------------
(* Requests. force drops what is known and the rate-limit hold.            *)

CheckBegins(i, force) ==
    /\ Requested /\ JobFree(check, i) /\ status \in {"idle", "complete", "error"}
    /\ force \/ (~held /\ ~(fresh /\ latest # nothing))
    /\ status' = "checking" /\ check' = [check EXCEPT ![i].at = "started"]
    /\ IF force THEN latest' = nothing /\ fresh' = FALSE /\ held' = FALSE
                ELSE UNCHANGED <<latest, fresh, held>>
    /\ UNCHANGED <<channel, install, restarting, switched, raised>>

\* A forced request drops it also when it then finds an install under way, or a
\* check that began since it looked.
CheckBusy ==
    /\ Requested /\ status \in {"checking", "installing"}
    /\ latest' = nothing /\ fresh' = FALSE /\ held' = FALSE
    /\ UNCHANGED <<status, channel, check, install, restarting, switched, raised>>

\* start_install refuses nothing but an install.
InstallBegins(i) ==
    /\ Requested /\ JobFree(install, i) /\ status # "installing"
    /\ status' = "installing" /\ install' = [install EXCEPT ![i].at = "started"] /\ raised' = FALSE
    /\ UNCHANGED <<channel, latest, fresh, held, check, restarting, switched>>

\* Mutant: what was known of the other channel is kept.
SetChannel_Kept(c) ==
    /\ Requested /\ status # "installing" /\ channel' = c
    /\ switched' = \E i \in DOMAIN check : check[i].at \in {"working", "done"}
    /\ UNCHANGED <<status, latest, fresh, held, check, install, restarting, raised>>

\* The selection is refused during an install; the state is read before the lock
\* is taken, which is one step here.
SetChannel(c) ==
    /\ Requested /\ status # "installing" /\ channel' = c
    /\ latest' = nothing /\ fresh' = FALSE
    /\ switched' = \E i \in DOMAIN check : check[i].at \in {"working", "done"}
    /\ UNCHANGED <<status, held, check, install, restarting, raised>>

---------------------------------------------------------------------------
(* _do_check.                                                              *)

CheckReads(i) ==
    /\ check[i].at = "started"
    /\ check' = [check EXCEPT ![i] = [at |-> "working", channel |-> channel]]
    /\ UNCHANGED <<status, channel, latest, fresh, held, install, restarting, requests, switched, raised>>

CheckFetched(i) ==
    /\ check[i].at = "working" /\ check' = [check EXCEPT ![i].at = "done"]
    /\ held' = FALSE
    /\ UNCHANGED <<status, channel, latest, fresh, install, restarting, requests, switched, raised>>

\* _finish_check.
CheckEnds(i) ==
    /\ check[i].at = "done" /\ check' = [check EXCEPT ![i] = NoJob]
    /\ latest' = check[i].channel /\ fresh' = TRUE /\ status' = "idle"
    /\ UNCHANGED <<channel, held, install, restarting, requests, switched, raised>>

CheckFails(i) ==
    /\ check[i].at = "working" /\ check' = [check EXCEPT ![i] = NoJob]
    /\ fresh' = TRUE /\ status' = "error"
    /\ UNCHANGED <<channel, latest, held, install, restarting, requests, switched, raised>>

\* GitHub may not say when the limit ends.
CheckLimited(i) ==
    /\ check[i].at = "working" /\ check' = [check EXCEPT ![i] = NoJob]
    /\ fresh' = TRUE /\ status' = "idle" /\ held' \in BOOLEAN
    /\ UNCHANGED <<channel, latest, install, restarting, requests, switched, raised>>

---------------------------------------------------------------------------
(* _do_install: the packages, then the restart of the service.             *)

InstallReads(i) ==
    /\ install[i].at = "started"
    /\ install' = [install EXCEPT ![i] = [at |-> "working", channel |-> channel]]
    /\ UNCHANGED <<status, channel, latest, fresh, held, check, restarting, requests, switched, raised>>

\* Mutant: the early return of a missing helper tells nobody.
InstallFails_Silent(i) ==
    /\ install[i].at = "working" /\ install' = [install EXCEPT ![i] = NoJob]
    /\ UNCHANGED <<status, channel, latest, fresh, held, check, restarting, requests, switched, raised>>

InstallFails(i) ==
    /\ install[i].at = "working" /\ install' = [install EXCEPT ![i] = NoJob]
    /\ status' = "error" /\ raised' = FALSE
    /\ UNCHANGED <<channel, latest, fresh, held, check, restarting, requests, switched>>

\* Nobody catches what _disable_legacy_services or _migrate_pymc_install_dir raises.
InstallRaises(i) ==
    /\ install[i].at = "working" /\ install' = [install EXCEPT ![i] = NoJob]
    /\ raised' = TRUE
    /\ UNCHANGED <<status, channel, latest, fresh, held, check, restarting, requests, switched>>

\* The packages are in; the restart of the service is asked for, or cannot be.
InstallDone(i) ==
    /\ install[i].at = "working"
    /\ \E asked \in BOOLEAN :
          /\ install' = [install EXCEPT ![i].at = IF asked THEN "restarted" ELSE "stayed"]
          /\ restarting' = (restarting \/ asked)
    /\ UNCHANGED <<status, channel, latest, fresh, held, check, requests, switched, raised>>

InstallEnds(i) ==
    /\ install[i].at \in {"restarted", "stayed"} /\ install' = [install EXCEPT ![i] = NoJob]
    /\ status' = IF install[i].at = "restarted" THEN "complete" ELSE "error"
    /\ raised' = FALSE
    /\ UNCHANGED <<channel, latest, fresh, held, check, restarting, requests, switched>>

---------------------------------------------------------------------------
\* The threads end with the process; the channel is read from its file.
Restart ==
    /\ restarting /\ restarting' = FALSE
    /\ status' = "idle" /\ latest' = nothing /\ fresh' = FALSE /\ held' = FALSE
    /\ check' = NoJobs /\ install' = NoJobs /\ switched' = FALSE /\ raised' = FALSE
    /\ UNCHANGED <<channel, requests>>

TimePasses ==
    /\ fresh \/ held
    /\ fresh' \in {fresh, FALSE} /\ held' \in {held, FALSE}
    /\ UNCHANGED <<status, channel, latest, check, install, restarting, requests, switched, raised>>

CheckStep(i) == CheckReads(i) \/ CheckFetched(i) \/ CheckEnds(i) \/ CheckFails(i) \/ CheckLimited(i)
InstallStep(i) ==
    InstallReads(i) \/ InstallFails(i) \/ InstallRaises(i) \/ InstallDone(i) \/ InstallEnds(i)

UpdateNext ==
    \/ CheckBusy \/ Restart \/ TimePasses
    \/ \E c \in Channels : SetChannel(c)
    \/ \E i \in 1..Jobs : InstallBegins(i) \/ CheckStep(i) \/ InstallStep(i)
    \/ \E i \in 1..Jobs, force \in BOOLEAN : CheckBegins(i, force)

UpdateSpec == UpdateInit /\ [][UpdateNext]_updateVars

---------------------------------------------------------------------------
(* While the state says that a check or an install is under way, and refuses *)
(* requests for it, one is, although each thread sets it as if it were      *)
(* alone; and the version on offer is of the selected channel. Two cases    *)
(* are excepted, each refuted below: an install thread that raised leaves   *)
(* "installing" behind, for good if no check was under way, and a check     *)
(* that read the channel before a switch reports the other channel's        *)
(* version, which the cache keeps.                                          *)
StateTrue ==
    /\ status = "checking" => Busy(check)
    /\ status = "installing" => Busy(install) \/ raised
    /\ latest \in {nothing, channel} \/ switched

(* The claim of the answer that refuses an install, "An update is already   *)
(* in progress": it is. An install thread that raises leaves the state as   *)
(* it was, and every later install is refused with this answer.             *)
InstallUnderWay == status = "installing" => Busy(install)

(* The claim of set_channel, which drops the cached check so that the next  *)
(* call checks against the new channel. A check that had read the old one   *)
(* puts its version into the cache afterwards.                              *)
LatestOfChannel == latest \in {nothing, channel}

(* The claim over _UpdateState: one update at a time. An install may start  *)
(* during a check; the end of the check then sets the state to idle, and a  *)
(* second install is let in.                                                *)
OneUpdate == Cardinality({i \in DOMAIN install : install[i].at \in {"started", "working"}}) <= 1
=============================================================================
