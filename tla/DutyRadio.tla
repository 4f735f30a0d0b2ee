----------------------------- MODULE DutyRadio -----------------------------
(***************************************************************************)
(* What the transmit path promises to the rest of the repeater: a radio    *)
(* that carries one packet at a time, never more airtime in a window than  *)
(* the duty cycle grants, and one final verdict for each packet.           *)
(***************************************************************************)
EXTENDS Integers, FiniteSets

CONSTANTS Tasks, Air, NoTask, Budget, Enforced

VARIABLES channel,  \* the packet on the radio, or NoTask
          verdict,  \* "pending", "sent" or "lost"
          live      \* the packets whose airtime the current window still holds

vars == <<channel, verdict, live>>

Airtime(S) == Cardinality(UNION {{k} \X (1..Air[k]) : k \in S})

Init == /\ channel = NoTask
        /\ verdict = [k \in Tasks |-> "pending"]
        /\ live = {}

Key(k) ==
    /\ channel = NoTask /\ verdict[k] = "pending"
    /\ Enforced /\ Air[k] > 0 => Airtime(live) + Air[k] <= Budget
    /\ channel' = k
    /\ UNCHANGED <<verdict, live>>

\* The packet went out.
Complete(k) ==
    /\ channel = k
    /\ channel' = NoTask
    /\ verdict' = [verdict EXCEPT ![k] = "sent"]
    /\ live' = live \cup {k}

\* It did not: it may be keyed again, or be lost.
Abort(k) ==
    /\ channel = k
    /\ channel' = NoTask
    /\ verdict' \in {verdict, [verdict EXCEPT ![k] = "lost"]}
    /\ UNCHANGED live

\* A packet is given up without reaching the radio.
GiveUp(k) ==
    /\ channel # k /\ verdict[k] = "pending"
    /\ verdict' = [verdict EXCEPT ![k] = "lost"]
    /\ UNCHANGED <<channel, live>>

\* Packets leave the window as time passes.
Expire == /\ live' \in SUBSET live
          /\ UNCHANGED <<channel, verdict>>

Next == \/ \E k \in Tasks : Key(k) \/ Complete(k) \/ Abort(k) \/ GiveUp(k)
        \/ Expire

Spec == Init /\ [][Next]_vars
=============================================================================
