----------------------------- MODULE MessageLog -----------------------------
(***************************************************************************)
(* What the Muteswan server promises of a circle, whatever back-end keeps  *)
(* its messages: the contract behind the interface MtsnStore of server.go. *)
(*                                                                         *)
(* A circle is a log that only grows at its end.  A post first takes the   *)
(* next id (Reserve) and later puts its message there (Publish); until     *)
(* then, and forever when the server dies in between, the entry is Blank.  *)
(* A message is published at most once and never replaced.  A back-end may *)
(* stop serving an old message (Expire), and its id is not used again.     *)
(*                                                                         *)
(* FileStore, MongoStore and TiedotStore are shown to implement this.      *)
(***************************************************************************)
EXTENDS Naturals, Sequences

CONSTANTS
    Circles,    \* the circles of the server (the hashes in the URLs)
    Posts,      \* the messages posted; two posts of one text are two members
    Blank       \* an id without a message, not a member of Posts

VARIABLES
    log,        \* log[c][i]: the message with id i of circle c, or Blank
    expired     \* expired[c]: the ids of c whose message is no longer served

vars == <<log, expired>>

TypeOK ==
    /\ log \in [Circles -> Seq(Posts \cup {Blank})]
    /\ expired \in [Circles -> SUBSET (Nat \ {0})]

Occurs(m) == \E c \in Circles : \E i \in DOMAIN log[c] : log[c][i] = m

-----------------------------------------------------------------------------

Init ==
    /\ log = [c \in Circles |-> <<>>]
    /\ expired = [c \in Circles |-> {}]

Reserve(c) ==
    /\ log' = [log EXCEPT ![c] = Append(@, Blank)]
    /\ UNCHANGED expired

Publish(c, i, m) ==
    /\ i \in DOMAIN log[c]
    /\ log[c][i] = Blank
    /\ ~ Occurs(m)
    /\ log' = [log EXCEPT ![c][i] = m]
    /\ UNCHANGED expired

Expire(c, i) ==
    /\ i \in DOMAIN log[c]
    /\ log[c][i] # Blank
    /\ expired' = [expired EXCEPT ![c] = @ \cup {i}]
    /\ UNCHANGED log

Next ==
    \E c \in Circles :
        \/ Reserve(c)
        \/ \E i \in DOMAIN log[c] :
              \/ \E m \in Posts : Publish(c, i, m)
              \/ Expire(c, i)

Spec == Init /\ [][Next]_vars

=============================================================================
