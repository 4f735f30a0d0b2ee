---------------------------- MODULE MCRoomServer ----------------------------
(***************************************************************************)
(* Instances of RoomServer.                                                *)
(***************************************************************************)
EXTENDS RoomServer

CONSTANTS a, b, r1, r2

OneRoom == [x \in Clients |-> r1]

\* Two clients of one room, one of which posts.
Turns == [room |-> OneRoom, sends |-> (a :> <<"login", "post">>) @@ (b :> <<"login">>),
          notices |-> (r1 :> 1) @@ (r2 :> 0), asks |-> {"all"}, keep |-> 2,
          crashes |-> 0, idle |-> FALSE, faults |-> FALSE]

\* One client that logs in twice, in a room that keeps one post.
Again == [room |-> OneRoom, sends |-> (a :> <<"login", "post", "login">>) @@ (b :> <<>>),
          notices |-> (r1 :> 2) @@ (r2 :> 0), asks |-> {"all", "new"}, keep |-> 1,
          crashes |-> 0, idle |-> FALSE, faults |-> FALSE]

\* Two rooms with a client each.
Apart == [room |-> (a :> r1) @@ (b :> r2), sends |-> [x \in Clients |-> <<"login">>],
          notices |-> [r \in Rooms |-> 1], asks |-> {"all"}, keep |-> 2,
          crashes |-> 0, idle |-> FALSE, faults |-> FALSE]

\* One client that posts and may go idle, and a restart at any point.
Restart == [room |-> OneRoom, sends |-> (a :> <<"login", "post">>) @@ (b :> <<>>),
            notices |-> (r1 :> 1) @@ (r2 :> 0), asks |-> {"all", "new"}, keep |-> 2,
            crashes |-> 1, idle |-> TRUE, faults |-> FALSE]

\* Writes that fail.
Faulty == [room |-> OneRoom, sends |-> (a :> <<"login", "login">>) @@ (b :> <<>>),
           notices |-> (r1 :> 1) @@ (r2 :> 0), asks |-> {"all"}, keep |-> 2,
           crashes |-> 0, idle |-> TRUE, faults |-> TRUE]

AllLoads   == {Turns, Again, Apart, Restart, Faulty}
RaceLoads  == {Again}
=============================================================================
