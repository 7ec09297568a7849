--------------------------- MODULE MCPollService ---------------------------
(***************************************************************************)
(* Instances of PollService for TLC.                                       *)
(***************************************************************************)
EXTENDS PollService

CONSTANTS c1, m1, g, t1, t2, d1, d2

\* Two polls that overlap, with requests and writes that fail.
TwoPolls == [posts |-> {m1}, expires |-> FALSE, faults |-> {"io", "answer", "disk"}, lists |-> {},
             polls |-> 2, calls |-> 0, joins |-> 0, crashes |-> 0, ids |-> 2]

\* A poll beside a screen, with expiry, a message that does not decrypt, and every
\* failure of a request and of the disk.
PollAndScreen == [posts |-> {m1, g}, expires |-> TRUE,
                  faults |-> {"tor", "io", "answer", "disk"}, lists |-> {d1},
                  polls |-> 1, calls |-> 1, joins |-> 0, crashes |-> 0, ids |-> 2]

\* Two screens, with objects of two generations and a death of the process.
TwoScreens == [posts |-> {m1}, expires |-> FALSE, faults |-> {"io"}, lists |-> {d1, d2},
               polls |-> 0, calls |-> 3, joins |-> 1, crashes |-> 1, ids |-> 1]

PlansInUse == {TwoPolls, PollAndScreen, TwoScreens}

=============================================================================
