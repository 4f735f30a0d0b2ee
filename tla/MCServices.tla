---------------------------- MODULE MCServices ----------------------------
(***************************************************************************)
(* Small instances of the services beside the packet path, for TLC. They    *)
(* share nothing, so a behaviour is one of one of them, `part`, while the   *)
(* others stay as they begin.                                               *)
(***************************************************************************)
EXTENDS NeighborCycle, BrokerLink, ConfigStore, UpdateJobs, CompanionQueue

VARIABLE part

servicesVars == <<part, cycleVars, linkVars, configVars, updateVars, queueVars>>

---------------------------------------------------------------------------
(* NeighborCycle: two neighbours undisturbed, one neighbour with events.    *)
CONSTANTS n1, n2

MCLoads == {[near |-> {n1, n2}, asked |-> 2, events |-> 0], [near |-> {n1}, asked |-> 1, events |-> 2],
            [near |-> {n1}, asked |-> 3, events |-> 1]}

(* ConfigStore: calls of each kind on two keys, up to three at once.        *)
CONSTANTS s1, s2, d1, d2, p1, p2, k1, k2

MCCalls == {s1, s2, d1, d2, p1, p2}
MCKindOf == [c \in MCCalls |->
    CASE c \in {s1, s2} -> "staged" [] c \in {d1, d2} -> "direct" [] c \in {p1, p2} -> "synced"]
MCKeyOf == [c \in MCCalls |-> IF c \in {s1, d1, p1} THEN k1 ELSE k2]
\* d2 is saved for the restart; d1 and s2 have more read than they change.
MCSectionsOf == [c \in MCCalls |->
    CASE c = s1 -> {k1} [] c \in {s2, d1} -> {k1, k2} [] c \in {d2, p1, p2} -> {}]
MCBatches == {{s1, s2, d1}, {s1, d1, d2}, {s1, d2, p2}, {s2, p1, p2}}

(* CompanionQueue: two direct messages, a direct message that comes again   *)
(* with the same packet hash, and one direct with two of a channel.         *)
CONSTANTS m1, m2, again, c1, c2

MCMessages == {m1, m2, again, c1, c2}
MCChannel == {c1, c2}
MCHashOf == [m \in MCMessages |-> IF m = again THEN m1 ELSE m]
MCArrivals == {[heard |-> {m1, m2}, faults |-> 1], [heard |-> {m1, again}, faults |-> 1],
               [heard |-> {m1, c1, c2}, faults |-> 0]}

\* OutOf keeps what SelectSeq keeps.
ASSUME SelectsTheRest ==
    \A s \in BoundedSeq(MCMessages, 3), taken \in SUBSET MCMessages :
        OutOf(s, taken) = SelectSeq(s, LAMBDA m : m \notin taken)

---------------------------------------------------------------------------
ServicesInit ==
    /\ part \in {"neighbors", "broker", "config", "update", "companion"}
    /\ CycleInit /\ LinkInit /\ ConfigInit /\ UpdateInit /\ QueueInit
    /\ part = "neighbors" \/ load = CHOOSE l \in Loads : TRUE
    /\ part = "config" \/ \A c \in MCCalls : call[c] = "absent" \/ c \in (CHOOSE b \in Batches : TRUE)
    /\ part = "update" \/ channel = CHOOSE c \in Channels : TRUE
    /\ \/ part = "companion"
       \/ size = (CHOOSE n \in Sizes : TRUE) /\ \A m \in MCMessages : persist[m] = "absent" \/ m \in {m1, m2}

ServicesNext ==
    \/ part = "neighbors" /\ CycleNext /\ UNCHANGED <<part, linkVars, configVars, updateVars, queueVars>>
    \/ part = "broker" /\ LinkNext /\ UNCHANGED <<part, cycleVars, configVars, updateVars, queueVars>>
    \/ part = "config" /\ ConfigNext /\ UNCHANGED <<part, cycleVars, linkVars, updateVars, queueVars>>
    \/ part = "update" /\ UpdateNext /\ UNCHANGED <<part, cycleVars, linkVars, configVars, queueVars>>
    \/ part = "companion" /\ QueueNext /\ UNCHANGED <<part, cycleVars, linkVars, configVars, updateVars>>

\* The other parts are checked for safety only.
ServicesSpec == ServicesInit /\ [][ServicesNext]_servicesVars /\ CycleFairness
=============================================================================
