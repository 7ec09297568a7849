----------------------------- MODULE TiedotStore -----------------------------
(***************************************************************************)
(* The tiedot back-end of the Muteswan server (server.go, TiedotStore).  A *)
(* circle is a collection; one document in it, marked "last", holds the    *)
(* last id, the others are the messages.  A post takes the server's one    *)
(* lock, raises the last id and inserts its message, but gives the lock    *)
(* back only when all of this succeeds: an error returns, and a panic in   *)
(* updateCounter unwinds, with the lock held.  net/http recovers the panic *)
(* and closes the connection, so the server lives on.                      *)
(*                                                                         *)
(* The database is outside the program: each use of it is one step.  It    *)
(* keeps its state when the server restarts.                               *)
(***************************************************************************)
EXTENDS Naturals, Sequences, FiniteSets, Functions

CONSTANTS
    Clients,        \* open connections, each served by one goroutine
    Readers,        \* the clients that read
    Writers,        \* the clients that post
    Circles,
    Posts,          \* the messages posted; two posts of one text differ
    Blank,          \* "": no message, no circle
    NeedIndex,      \* does EvalQuery refuse a path that has no index?
    RangeLimit,     \* largest top - bottom of a range request (30)
    Faults,         \* the database calls that may fail
    MaxCrashes      \* bound: restarts of the server in a behaviour

FaultKinds == {"query", "update", "insert"}

ASSUME ClientsAssumption == Readers \subseteq Clients /\ Writers \subseteq Clients
ASSUME PostsAssumption == Blank \notin Posts \cup Circles /\ IsFiniteSet(Posts)
ASSUME LimitsAssumption == RangeLimit \in Nat /\ MaxCrashes \in Nat
ASSUME FaultsAssumption == Faults \subseteq FaultKinds /\ NeedIndex \in BOOLEAN

VARIABLES
    cols,       \* the circles that have a collection
    indexed,    \* indexed[c]: the paths of c's collection with an index
    last,       \* last[c]: lastMessage of the "last" document, 0 without one
    docs,       \* docs[c]: id -> message
    tokens,     \* goroutines blocked in Unlock: 1 when the lock is free
    pc,         \* pc[p]: where the handler of p stands, "idle" without one
    circle,     \* circle[p]: the circle p posts to, or posted to last
    post,       \* post[p]: the message p posts, or posted last
    mid,        \* mid[p]: msgw.Id, once the "last" document was read
    range,      \* range[p]: the circle p reads, and the ids from top to bottom
    got,        \* got[p]: what GetMsgs has read of them, or the last answer
    sent,       \* the posts whose request reached the server
    acked,      \* the posts answered with 200, each with its circle and id
    lost,       \* was a handler left with the lock held, since the last start?
    crashes     \* restarts so far

database == <<cols, indexed, last, docs>>
request == <<circle, post, mid>>
reading == <<range, got>>
vars == <<cols, indexed, last, docs, tokens, pc, circle, post, mid, range, got,
          sent, acked, lost, crashes>>

Ids == 1 .. Cardinality(Posts)
InLock == {"count", "update", "insert"}
PCs == {"idle", "create", "lock", "range"} \cup InLock
NoMsgs == Restrict(<<>>, {})
NoRange == [circle |-> Blank, top |-> 0, bottom |-> 0]

-----------------------------------------------------------------------------

Init ==
    /\ cols = {}
    /\ indexed = [c \in Circles |-> {}]
    /\ last = [c \in Circles |-> 0]
    /\ docs = [c \in Circles |-> NoMsgs]
    /\ tokens = 1
    /\ pc = [p \in Clients |-> "idle"]
    /\ circle = [p \in Clients |-> Blank]
    /\ post = [p \in Clients |-> Blank]
    /\ mid = [p \in Clients |-> 0]
    /\ range = [p \in Clients |-> NoRange]
    /\ got = [p \in Clients |-> <<>>]
    /\ sent = {}
    /\ acked = {}
    /\ lost = FALSE
    /\ crashes = 0

Goto(p, label) == pc' = [pc EXCEPT ![p] = label]

\* createDB: Create fails for a collection that is there, and only then is the
\* path "Id" given an index.  (The test of err is the wrong way round.)
createDB(c, paths) ==
    /\ cols' = cols \cup {c}
    /\ indexed' = [indexed EXCEPT ![c] =
                      @ \cup paths \cup (IF c \in cols THEN {"Id"} ELSE {})]

CanQuery(c, path) == ~ NeedIndex \/ path \in indexed'[c]

(***************************************************************************)
(* POST /hash.                                                             *)
(***************************************************************************)
StartPost(p, c, m) ==
    /\ pc[p] = "idle"
    /\ m \notin sent
    /\ Goto(p, "create")
    /\ circle' = [circle EXCEPT ![p] = c]
    /\ post' = [post EXCEPT ![p] = m]
    /\ sent' = sent \cup {m}
    /\ UNCHANGED <<database, tokens, mid, reading, acked, lost, crashes>>

CreateDB(p) ==
    /\ pc[p] = "create"
    /\ createDB(circle[p], {})
    /\ Goto(p, "lock")
    /\ UNCHANGED <<last, docs, tokens, request, reading, sent, acked, lost, crashes>>

\* Mutant of Lock: the post does not wait for the token.
LockAlways(p) ==
    /\ pc[p] = "lock"
    /\ Goto(p, "count")
    /\ UNCHANGED <<database, tokens, request, reading, sent, acked, lost, crashes>>

Lock(p) ==
    /\ pc[p] = "lock"
    /\ tokens > 0
    /\ tokens' = tokens - 1
    /\ Goto(p, "count")
    /\ UNCHANGED <<database, request, reading, sent, acked, lost, crashes>>

\* updateCounter, first part: the "last" document is found and read.
QueryLast(p) ==
    /\ pc[p] = "count"
    /\ createDB(circle[p], {})
    /\ CanQuery(circle[p], "last")
    /\ mid' = [mid EXCEPT ![p] = last[circle[p]] + 1]
    /\ Goto(p, "update")
    /\ UNCHANGED <<last, docs, tokens, circle, post, reading, sent, acked, lost, crashes>>

QueryLastPanics(p) ==
    /\ pc[p] = "count"
    /\ createDB(circle[p], {})
    /\ ~ CanQuery(circle[p], "last") \/ "query" \in Faults
    /\ lost' = TRUE
    /\ Goto(p, "idle")
    /\ UNCHANGED <<last, docs, tokens, request, reading, sent, acked, crashes>>

\* Second part: it is updated, or inserted with lastMessage 1.
SetLast(p) == last' = [last EXCEPT ![circle[p]] = mid[p]]

UpdateLast(p) ==
    /\ pc[p] = "update"
    /\ SetLast(p)
    /\ Goto(p, "insert")
    /\ UNCHANGED <<cols, indexed, docs, tokens, request, reading, sent, acked, lost, crashes>>

UpdateLastPanics(p) ==
    /\ pc[p] = "update"
    /\ "update" \in Faults
    /\ SetLast(p) \/ UNCHANGED last
    /\ lost' = TRUE
    /\ Goto(p, "idle")
    /\ UNCHANGED <<cols, indexed, docs, tokens, request, reading, sent, acked, crashes>>

InsertDoc(p) ==
    docs' = [docs EXCEPT ![circle[p]] =
                [i \in DOMAIN @ \cup {mid[p]} |-> IF i = mid[p] THEN post[p] ELSE @[i]]]

\* Mutant of Insert: go Unlock is missing on the good path too.
InsertKeepsLock(p) ==
    /\ pc[p] = "insert"
    /\ InsertDoc(p)
    /\ acked' = acked \cup {[circle |-> circle[p], id |-> mid[p], post |-> post[p]]}
    /\ Goto(p, "idle")
    /\ UNCHANGED <<cols, indexed, last, tokens, request, reading, sent, lost, crashes>>

\* The message is in the collection: go Unlock, return nil, 200.
Insert(p) ==
    /\ pc[p] = "insert"
    /\ InsertDoc(p)
    /\ tokens' = tokens + 1
    /\ acked' = acked \cup {[circle |-> circle[p], id |-> mid[p], post |-> post[p]]}
    /\ Goto(p, "idle")
    /\ UNCHANGED <<cols, indexed, last, request, reading, sent, lost, crashes>>

\* return err, 500: before Unlock.
InsertFails(p) ==
    /\ pc[p] = "insert"
    /\ "insert" \in Faults
    /\ InsertDoc(p) \/ UNCHANGED docs
    /\ lost' = TRUE
    /\ Goto(p, "idle")
    /\ UNCHANGED <<cols, indexed, last, tokens, request, reading, sent, acked, crashes>>

(***************************************************************************)
(* GET /hash, GET /hash/id and GET /hash/top-bottom.                       *)
(***************************************************************************)
\* GetLastMsg answers last[c].  It alone gives the path "last" its index.
GetLastMsg(p, c) ==
    /\ pc[p] = "idle"
    /\ createDB(c, {"last"})
    /\ UNCHANGED <<last, docs, tokens, pc, request, reading, sent, acked, lost, crashes>>

GetMsgRange(p, c, top, bottom) ==
    /\ pc[p] = "idle"
    /\ bottom <= top
    /\ top - bottom <= RangeLimit
    /\ Goto(p, "range")
    /\ range' = [range EXCEPT ![p] = [circle |-> c, top |-> top, bottom |-> bottom]]
    /\ got' = [got EXCEPT ![p] = <<>>]
    /\ UNCHANGED <<database, tokens, request, sent, acked, lost, crashes>>

\* One GetMsg of the loop of GetMsgs, or the only one of GetOneMsg.
NextId(p) == range[p].top - Len(got[p])

GetMsg(p) ==
    /\ pc[p] = "range"
    /\ NextId(p) >= range[p].bottom
    /\ createDB(range[p].circle, {})
    /\ CanQuery(range[p].circle, "Id")
    /\ NextId(p) \in DOMAIN docs[range[p].circle]
    /\ got' = [got EXCEPT ![p] = Append(@, docs[range[p].circle][NextId(p)])]
    /\ UNCHANGED <<last, docs, tokens, pc, request, range, sent, acked, lost, crashes>>

\* One missing message fails the whole range: the client gets none of it.
GetMsgFails(p) ==
    /\ pc[p] = "range"
    /\ NextId(p) >= range[p].bottom
    /\ createDB(range[p].circle, {})
    /\ \/ ~ CanQuery(range[p].circle, "Id")
       \/ NextId(p) \notin DOMAIN docs[range[p].circle]
       \/ "query" \in Faults
    /\ got' = [got EXCEPT ![p] = <<>>]
    /\ Goto(p, "idle")
    /\ UNCHANGED <<last, docs, tokens, request, range, sent, acked, lost, crashes>>

EndRange(p) ==
    /\ pc[p] = "range"
    /\ NextId(p) < range[p].bottom
    /\ Goto(p, "idle")
    /\ UNCHANGED <<database, tokens, request, reading, sent, acked, lost, crashes>>

\* The server dies and is started again, with a new lock.
Crash ==
    /\ crashes < MaxCrashes
    /\ crashes' = crashes + 1
    /\ tokens' = 1
    /\ lost' = FALSE
    /\ pc' = [p \in Clients |-> "idle"]
    /\ got' = [p \in Clients |-> IF pc[p] = "range" THEN <<>> ELSE got[p]]
    /\ UNCHANGED <<database, request, range, sent, acked>>

-----------------------------------------------------------------------------

PostStep(p) ==
    \/ CreateDB(p) \/ Lock(p) \/ QueryLast(p) \/ QueryLastPanics(p)
    \/ UpdateLast(p) \/ UpdateLastPanics(p) \/ Insert(p) \/ InsertFails(p)

ReadStep(p) == GetMsg(p) \/ GetMsgFails(p) \/ EndRange(p)

Next ==
    \/ \E p \in Writers, c \in Circles, m \in Posts : StartPost(p, c, m)
    \/ \E p \in Clients : PostStep(p) \/ ReadStep(p)
    \/ \E p \in Readers, c \in Circles :
          GetLastMsg(p, c) \/ \E top, bottom \in Ids : GetMsgRange(p, c, top, bottom)
    \/ Crash

\* As for the file store: goroutines are scheduled, receivers served in turn.
Fairness ==
    \A p \in Clients : WF_vars(PostStep(p)) /\ SF_vars(Lock(p)) /\ WF_vars(ReadStep(p))

Spec == Init /\ [][Next]_vars
FairSpec == Spec /\ Fairness

-----------------------------------------------------------------------------

(***************************************************************************)
(* Properties.                                                             *)
(***************************************************************************)
\* Every variable has its type.
TypeOK ==
    /\ cols \subseteq Circles
    /\ indexed \in [Circles -> SUBSET {"Id", "last"}]
    /\ last \in [Circles -> Nat]
    /\ DOMAIN docs = Circles
    /\ \A c \in Circles :
          docs[c] \in [DOMAIN docs[c] -> Posts] /\ DOMAIN docs[c] \subseteq Nat \ {0}
    /\ tokens \in Nat
    /\ pc \in [Clients -> PCs]
    /\ circle \in [Clients -> Circles \cup {Blank}]
    /\ post \in [Clients -> Posts \cup {Blank}]
    /\ mid \in [Clients -> Nat]
    /\ range \in [Clients -> [circle : Circles \cup {Blank}, top : Nat, bottom : Nat]]
    /\ got \in [Clients -> Seq(Posts)]
    /\ sent \subseteq Posts
    /\ acked \subseteq [circle : Circles, id : Nat \ {0}, post : Posts]
    /\ lost \in BOOLEAN
    /\ crashes \in Nat

\* An error or a panic under the lock stops all posting, to every circle, until
\* the server is restarted: not one post is answered with 200 after it.
LostLockIsFinal ==
    [][lost => acked' = acked /\ docs' = docs /\ (lost' \/ crashes' # crashes)]_vars

\* Every request ends, unless an error or a panic has lost the lock: no other path
\* of the handlers leaves one waiting for ever.
EveryRequestEnds == \A p \in Clients : pc[p] # "idle" ~> pc[p] = "idle" \/ lost

\* The tiedot store is a message log: UpdateLast reserves, Insert publishes.
entries == [c \in Circles |-> [i \in 1 .. last[c] |->
                IF i \in DOMAIN docs[c] THEN docs[c][i] ELSE Blank]]
Log == INSTANCE MessageLog WITH log <- entries, expired <- [c \in Circles |-> {}]
ImplementsMessageLog == Log!Spec

-----------------------------------------------------------------------------

(***************************************************************************)
(* The inductive invariant behind the theorems of TiedotStoreProofs.       *)
(***************************************************************************)
Holders == {p \in Clients : pc[p] \in InLock}
Posting == {"create", "lock"} \cup InLock
Stored(m) == \E c \in Circles : \E i \in DOMAIN docs[c] : docs[c][i] = m

\* One handler holds the lock, or one Unlock waits, or a failed post took the lock
\* with it: then nobody holds it and nobody ever will.
LockInv ==
    /\ \A p, q \in Holders : p = q
    /\ tokens = IF Holders = {} /\ ~ lost THEN 1 ELSE 0
    /\ lost => Holders = {}

\* What the handler of p has read and written is still so: nobody else has the lock.
HandlerOK(p) ==
    /\ pc[p] = "range" => range[p].circle \in Circles
    /\ pc[p] \in Posting =>
          /\ circle[p] \in Circles
          /\ post[p] \in sent /\ ~ Stored(post[p])
          /\ \A q \in Clients \ {p} : pc[q] \in Posting => post[q] # post[p]
    /\ pc[p] = "update" => mid[p] = last[circle[p]] + 1
    /\ pc[p] = "insert" => /\ mid[p] = last[circle[p]]
                           /\ mid[p] \notin DOMAIN docs[circle[p]] \cup {0}

HandlerInv == \A p \in Clients : HandlerOK(p)

\* Every message has an id up to the last one and was posted.
StoreInv ==
    \A c \in Circles :
        /\ DOMAIN docs[c] \subseteq 1 .. last[c]
        /\ \A i \in DOMAIN docs[c] : docs[c][i] \in sent

\* A post answered with 200 is in the collection under its own id.
AckedIsStored ==
    \A a \in acked : a.id \in DOMAIN docs[a.circle] /\ docs[a.circle][a.id] = a.post

IndInv == TypeOK /\ LockInv /\ HandlerInv /\ StoreInv /\ AckedIsStored

-----------------------------------------------------------------------------

\* docs/technical-overview.txt: "The Muteswan server ... saves messages that are
\* posted to circles": a post that waits for its turn is served in the end.
DocPostsAreServed == \A p \in Clients : pc[p] = "lock" ~> pc[p] = "idle"

=============================================================================
