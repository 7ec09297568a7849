------------------------------- MODULE Tarjan -------------------------------
(***************************************************************************)
(* tarjanSort (labix.org/v2/mgo/txn/tarjan.go): the strongly connected     *)
(* components of a graph, each after the components it leads to.  The      *)
(* nodes are the ids of transactions: numbers, as only their order matters.*)
(***************************************************************************)
EXTENDS Integers, SequencesExt

\* data.index is the position of a node in nodes; low and stacked are kept by id.
NoNodes == [nodes |-> <<>>, low |-> <<>>, stacked |-> {}, stack |-> <<>>, output |-> <<>>]

Index(data, id) == CHOOSE i \in DOMAIN data.nodes : data.nodes[i] = id
Lower(data, id, n) == [data EXCEPT !.low[Index(data, id)] = IF n < @ THEN n ELSE @]

\* The root of a component: everything above it on the stack is popped, the top first.
Pop(data, id) ==
    LET i == CHOOSE j \in DOMAIN data.stack : data.stack[j] = id
        scc == Reverse(SubSeq(data.stack, i, Len(data.stack)))
    IN  [data EXCEPT !.stack = SubSeq(@, 1, i - 1), !.stacked = @ \ ToSet(scc),
                     !.output = Append(@, scc)]

RECURSIVE strongConnect(_, _, _)
strongConnect(successors, data, id) ==
    LET index == Len(data.nodes) + 1
        entered == [data EXCEPT !.nodes = Append(@, id), !.low = Append(@, index),
                                !.stack = Append(@, id), !.stacked = @ \cup {id}]
        Visit(d, succid) ==
            IF succid \notin ToSet(d.nodes)
            THEN LET after == strongConnect(successors, d, succid)
                 IN  Lower(after, id, after.low[Index(after, succid)])
            ELSE IF succid \in d.stacked THEN Lower(d, id, Index(d, succid)) ELSE d
        visited == FoldLeft(Visit, entered, SetToSortSeq(successors[id], <))
    IN  IF visited.low[index] = index THEN Pop(visited, id) ELSE visited

TarjanSort(successors) ==
    LET Visit(d, id) == IF id \in ToSet(d.nodes) THEN d ELSE strongConnect(successors, d, id)
    IN  FoldLeft(Visit, NoNodes, SetToSortSeq(DOMAIN successors, <)).output

=============================================================================
