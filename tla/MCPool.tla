------------------------------- MODULE MCPool -------------------------------
(***************************************************************************)
(* Instances of Pool for TLC.                                              *)
(***************************************************************************)
EXTENDS Pool

Case(members, master, users, limit, request, kinds) ==
    [members |-> members, primary |-> master, clients |-> users, limit |-> limit,
     request |-> request, faults |-> 1, kinds |-> kinds]

\* Two clients, with room for one connection and for both; a member that stops between two
\* operations of a request; an election; a connection lost between two operations; and two
\* lost when there is room for no other.
Shared == {Case({1}, 1, {3, 4}, n, <<"write">>, {}) : n \in 1 .. 2}
Stop == Case({1}, 1, {3}, 3, <<"read", "write">>, {"down"})
Election == Case({1, 2}, 1, {3}, 3, <<"write">>, {"elect"})
Lost == Case({1, 2}, 1, {3}, 3, <<"read", "write">>, {"cut"})
Tight == [Case({1}, 1, {3}, 1, <<"write">>, {"cut"}) EXCEPT !.faults = 2]
Requests == Shared \cup {Stop, Election, Lost, Tight}

\* The expiry loop, and one connection that is lost.
Expiry == {Case({1}, 1, {5}, 3, <<"read", "write">>, {"cut"})}

=============================================================================
