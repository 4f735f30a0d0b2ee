------------------------------ MODULE MCMesh ------------------------------
(* Small meshes for TLC. *)
EXTENDS Mesh

CONSTANTS a, b, c, e,   \* repeaters
          s, d          \* stations

Packet(i, t, r, path) ==
    [id |-> i, type |-> t, route |-> r, scope |-> "region", size |-> 1, path |-> path, dnr |-> FALSE]

\* The public keys of a and e begin with the same bytes.
Hashes == [n \in {a, b, c, e} |-> [w \in 1..3 |-> IF n = e THEN a ELSE n]]

LoopModes == [w \in 1..3 |-> IF w = 1 THEN 1 ELSE 2]

World(links, from, pkts, size) ==
    [neighbours |-> [n \in Nodes |-> {m \in Nodes : {n, m} \in links}],
     sends |-> {[from |-> x, pkt |-> p] : x \in {from}, p \in pkts}, cache |-> size]

Flood  == Packet(1, "data", "flood", <<>>)
Scoped == Packet(2, "data", "tflood", <<>>)
Ack    == Packet(5, "ack", "direct", <<a, b>>)

\* A chain of repeaters with a station at its head; a flood from either end.
Chain == [World({{s, a}, {a, b}, {b, c}}, s, {Flood}, 2) EXCEPT !.sends = @ \cup {[from |-> b, pkt |-> Scoped]}]

\* Two repeaters that hear each other but remember one packet, and a station
\* beside one of them: its two floods go round between them.
Pair == World({{s, a}, {a, b}}, s, {[Packet(2 + w, "data", "flood", <<>>) EXCEPT !.size = w] : w \in 1..2}, 1)

\* A line from station s to station d.
Line == World({{s, a}, {a, b}, {b, d}}, s, {Ack}, 4)

\* Every repeater hears station s, and two of the three share a hash.
Diamond == [World({{s, a}, {s, b}, {s, e}, {a, b}, {e, b}, {b, d}}, s,
                  {Packet(6, "data", "tdirect", <<a, b>>)}, 4)
            EXCEPT !.sends = @ \cup {[from |-> d, pkt |-> Packet(7, "multiack", "flood", <<>>)]}]

MeshWorlds == {Chain, Pair, Line, Diamond}
AllTraffic == UNION {w.sends : w \in MeshWorlds}
=============================================================================
