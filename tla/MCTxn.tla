------------------------------- MODULE MCTxn --------------------------------
(***************************************************************************)
(* Instances of Txn for TLC.                                               *)
(***************************************************************************)
EXTENDS Txn, Tarjan

\* Client i runs transaction i.
Own == <<1, 2>>

Operation(d, kind, assert, min, n) ==
    [d |-> d, kind |-> kind, assert |-> assert, min |-> min, n |-> n]
Transfer(d, e) == <<Operation(d, "update", "atLeast", 1, -1), Operation(e, "update", "exists", 0, 1)>>
Move(d, e) == <<Operation(d, "remove", "atLeast", 1, 0), Operation(e, "insert", "missing", 0, 1)>>

Bump(d) == <<Operation(d, "update", "exists", 0, 1)>>
Put(d) == <<Operation(d, "insert", "missing", 0, 1)>>
Drop(d) == <<Operation(d, "remove", "exists", 0, 0)>>

\* n: how often client 1 may be interrupted.
Scenario(a, b, docs, n) == [ops |-> <<a, b>>, docs |-> docs, kills |-> <<n, 0>>]

\* Transfers between two accounts, both ways and twice the same way; an account moved while
\* another transaction changes it; with a client that is interrupted, a document removed
\* and put back, a transfer beside a deposit on its second account, and a transaction
\* without operations, which Run accepts; and a document that one inserts and the other
\* removes.
Orders == {Scenario(Transfer(1, 2), Transfer(2, 1), <<1, 1>>, 0),
           Scenario(Transfer(1, 2), Transfer(1, 2), <<1, 1>>, 0),
           Scenario(Move(1, 2), Transfer(1, 2), <<1>>, 0),
           Scenario(Drop(1), Put(1), <<1>>, 1),
           Scenario(Transfer(1, 2), Bump(2), <<1, 1>>, 1),
           Scenario(<<>>, Bump(1), <<1>>, 1),
           Scenario(Put(1), Drop(1), <<>>, 0)}

=============================================================================
