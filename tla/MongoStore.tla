----------------------------- MODULE MongoStore -----------------------------
(***************************************************************************)
(* The MongoDB back-end of the Muteswan server (server.go, MongoStore) and *)
(* the goroutine that deletes messages three months old (ExpireMessageLoop)*)
(* A post increments the counter of its circle in one call to the database *)
(* and inserts its document under the value returned in a second one: no   *)
(* lock, so posts overtake each other between the two.                     *)
(*                                                                         *)
(* The database is outside the program: each call to it is one step, which *)
(* may fail, before or after taking effect, when Faults says so.  It keeps *)
(* its state when the server restarts.                                     *)
(***************************************************************************)
EXTENDS Naturals, Sequences, FiniteSets, Functions

CONSTANTS
    Clients,        \* open connections, each served by one goroutine
    Readers,        \* the clients that read
    Writers,        \* the clients that post
    Circles,
    Posts,          \* the messages posted; two posts of one text differ
    Blank,          \* "": no message, no circle
    RangeLimit,     \* largest top - bottom of a range request (30)
    Faults,         \* the database calls that may fail
    MaxCrashes      \* bound: restarts of the server in a behaviour

FaultKinds == {"inc", "insert", "find", "remove"}

ASSUME ClientsAssumption == Readers \subseteq Clients /\ Writers \subseteq Clients
ASSUME PostsAssumption == Blank \notin Posts \cup Circles /\ IsFiniteSet(Posts)
ASSUME LimitsAssumption == RangeLimit \in Nat /\ MaxCrashes \in Nat
ASSUME FaultsAssumption == Faults \subseteq FaultKinds

VARIABLES
    counter,    \* counter[c]: field n of the document of c in "counters"
    docs,       \* docs[c]: id -> message, the documents of collection "C" + c
    old,        \* the documents, as [circle, id], at least 2160 hours old
    pc,         \* pc[p]: where the handler of p stands, "idle" without one
    circle,     \* circle[p]: the circle p posts to, or posted to last
    post,       \* post[p]: the message p posts, or posted last
    mid,        \* mid[p]: msgw.Id, once updateCounter has returned
    told,       \* told[p][c]: the last id the server gave p for c
    answer,     \* answer[p]: the circle p read last and the messages it got
    pass,       \* the collections ExpireMessageLoop has still to visit
    batch,      \* the documents of one collection it has still to remove
    expirer,    \* the line of ExpireMessageLoop: "list", or "visit" until it sleeps
    sent,       \* the posts whose request reached the server
    acked,      \* the posts answered with 200, each with its circle and id
    written,    \* written[c]: id -> message of all documents ever inserted
    crashes     \* restarts so far

database == <<counter, docs, written>>
request == <<circle, post, mid>>
replies == <<told, answer>>
loop == <<pass, batch, expirer>>
vars == <<counter, docs, old, pc, circle, post, mid, told, answer, pass, batch,
          expirer, sent, acked, written, crashes>>

Ids == 1 .. Cardinality(Posts)
PCs == {"idle", "count", "insert"}
Docs == [circle : Circles, id : Nat \ {0}]

Put(f, i, m) == [j \in DOMAIN f \cup {i} |-> IF j = i THEN m ELSE f[j]]
NoMsgs == Restrict(<<>>, {})

-----------------------------------------------------------------------------

Init ==
    /\ counter = [c \in Circles |-> 0]
    /\ docs = [c \in Circles |-> NoMsgs]
    /\ old = {}
    /\ pc = [p \in Clients |-> "idle"]
    /\ circle = [p \in Clients |-> Blank]
    /\ post = [p \in Clients |-> Blank]
    /\ mid = [p \in Clients |-> 0]
    /\ told = [p \in Clients |-> [c \in Circles |-> 0]]
    /\ answer = [p \in Clients |-> [circle |-> Blank, msgs |-> NoMsgs]]
    /\ pass = {}
    /\ batch = {}
    /\ expirer = "list"
    /\ sent = {}
    /\ acked = {}
    /\ written = [c \in Circles |-> NoMsgs]
    /\ crashes = 0

Goto(p, label) == pc' = [pc EXCEPT ![p] = label]

(***************************************************************************)
(* POST /hash.                                                             *)
(***************************************************************************)
StartPost(p, c, m) ==
    /\ pc[p] = "idle"
    /\ m \notin sent
    /\ Goto(p, "count")
    /\ circle' = [circle EXCEPT ![p] = c]
    /\ post' = [post EXCEPT ![p] = m]
    /\ sent' = sent \cup {m}
    /\ UNCHANGED <<database, old, mid, replies, loop, acked, crashes>>

\* One findAndModify with $inc and upsert.
Increment(p) == counter' = [counter EXCEPT ![circle[p]] = @ + 1]

\* Mutant of updateCounter: the documents are counted, there is no counter.
updateCounterByDocs(p) ==
    /\ pc[p] = "count"
    /\ Increment(p)
    /\ mid' = [mid EXCEPT ![p] = Cardinality(DOMAIN docs[circle[p]]) + 1]
    /\ Goto(p, "insert")
    /\ UNCHANGED <<docs, written, old, circle, post, replies, loop, sent, acked, crashes>>

updateCounter(p) ==
    /\ pc[p] = "count"
    /\ Increment(p)
    /\ mid' = [mid EXCEPT ![p] = counter[circle[p]] + 1]
    /\ Goto(p, "insert")
    /\ UNCHANGED <<docs, written, old, circle, post, replies, loop, sent, acked, crashes>>

\* The handler panics: the connection is closed without an answer.
updateCounterFails(p) ==
    /\ pc[p] = "count"
    /\ "inc" \in Faults
    /\ Increment(p) \/ UNCHANGED counter
    /\ Goto(p, "idle")
    /\ UNCHANGED <<docs, written, old, request, replies, loop, sent, acked, crashes>>

\* _id is a unique key: the database refuses a second document with one id.
InsertDoc(p) ==
    /\ mid[p] \notin DOMAIN docs[circle[p]]
    /\ docs' = [docs EXCEPT ![circle[p]] = Put(@, mid[p], post[p])]
    /\ written' = [written EXCEPT ![circle[p]] = Put(@, mid[p], post[p])]

Insert(p) ==
    /\ pc[p] = "insert"
    /\ InsertDoc(p)
    /\ acked' = acked \cup {[circle |-> circle[p], id |-> mid[p], post |-> post[p]]}
    /\ Goto(p, "idle")
    /\ UNCHANGED <<counter, old, request, replies, loop, sent, crashes>>

\* 500 to the client, for a duplicate key or any other error of the call.
InsertFails(p) ==
    /\ pc[p] = "insert"
    /\ "insert" \in Faults \/ mid[p] \in DOMAIN docs[circle[p]]
    /\ InsertDoc(p) \/ UNCHANGED <<docs, written>>
    /\ Goto(p, "idle")
    /\ UNCHANGED <<counter, old, request, replies, loop, sent, acked, crashes>>

(***************************************************************************)
(* GET /hash, GET /hash/id and GET /hash/top-bottom: one query each.       *)
(***************************************************************************)
\* getCounter returns 0 for any error.
GetLastMsg(p, c) ==
    /\ pc[p] = "idle"
    /\ \E n \in {counter[c]} \cup (IF "find" \in Faults THEN {0} ELSE {}) :
          told' = [told EXCEPT ![p][c] = n]
    /\ UNCHANGED <<database, old, pc, request, answer, loop, sent, acked, crashes>>

\* The documents there are from top down to bottom.  (When the query fails the
\* client reads 500 and no message: no step.)  With top = bottom this is also
\* GetOneMsg, except that it answers 404 for none and for a failed query.
GetMsgs(p, c, top, bottom) ==
    /\ pc[p] = "idle"
    /\ bottom <= top
    /\ top - bottom <= RangeLimit
    /\ answer' = [answer EXCEPT ![p] =
                    [circle |-> c, msgs |-> Restrict(docs[c], bottom .. top \cap DOMAIN docs[c])]]
    /\ UNCHANGED <<database, old, pc, request, told, loop, sent, acked, crashes>>

(***************************************************************************)
(* ExpireMessageLoop: list the collections; in each one find the documents *)
(* old enough and remove them one at a time; sleep an hour; start again.   *)
(***************************************************************************)
Age(c, i) ==
    /\ i \in DOMAIN docs[c]
    /\ old' = old \cup {[circle |-> c, id |-> i]}
    /\ UNCHANGED <<database, pc, request, replies, loop, sent, acked, crashes>>

\* A collection exists from its first insert on.
ListCollections ==
    /\ expirer = "list"
    /\ expirer' = "visit"
    /\ pass' = {c \in Circles : DOMAIN written[c] # {}}
    /\ UNCHANGED <<database, old, pc, request, replies, batch, sent, acked, crashes>>

\* The error of CollectionNames is dropped: there is nothing to visit.
ListCollectionsFails ==
    /\ "find" \in Faults
    /\ expirer = "list"
    /\ expirer' = "visit"
    /\ UNCHANGED <<database, old, pc, request, replies, pass, batch, sent, acked, crashes>>

\* Mutant of FindExpired: the query does not look at the time.
FindAll(c) ==
    /\ batch = {}
    /\ c \in pass
    /\ pass' = pass \ {c}
    /\ batch' = {[circle |-> c, id |-> i] : i \in DOMAIN docs[c]}
    /\ UNCHANGED <<database, old, pc, request, replies, expirer, sent, acked, crashes>>

Expired(c) == {d \in old : d.circle = c /\ d.id \in DOMAIN docs[c]}

FindExpired(c) ==
    /\ batch = {}
    /\ c \in pass
    /\ pass' = pass \ {c}
    /\ batch' = Expired(c)
    /\ UNCHANGED <<database, old, pc, request, replies, expirer, sent, acked, crashes>>

\* The error of All is dropped: what it has read before is removed, the others
\* are left to the next pass.
FindExpiredFails(c) ==
    /\ "find" \in Faults
    /\ batch = {}
    /\ c \in pass
    /\ pass' = pass \ {c}
    /\ batch' \in SUBSET Expired(c)
    /\ UNCHANGED <<database, old, pc, request, replies, expirer, sent, acked, crashes>>

Remove(d) ==
    /\ d \in batch
    /\ batch' = batch \ {d}
    /\ docs' = [docs EXCEPT ![d.circle] = Restrict(@, DOMAIN @ \ {d.id})]
    /\ UNCHANGED <<counter, written, old, pc, request, replies, pass, expirer, sent, acked,
                   crashes>>

\* The error is printed and the loop continues: the next pass finds it again.
RemoveFails(d) ==
    /\ d \in batch
    /\ "remove" \in Faults
    /\ batch' = batch \ {d}
    /\ UNCHANGED <<database, old, pc, request, replies, pass, expirer, sent, acked, crashes>>

\* Mutant of Sleep: the loop is left after one pass.
SleepForEver ==
    /\ expirer = "visit"
    /\ pass = {}
    /\ batch = {}
    /\ expirer' = "over"
    /\ UNCHANGED <<database, old, pc, request, replies, pass, batch, sent, acked, crashes>>

\* The pass is over; an hour later the next one starts.
Sleep ==
    /\ expirer = "visit"
    /\ pass = {}
    /\ batch = {}
    /\ expirer' = "list"
    /\ UNCHANGED <<database, old, pc, request, replies, pass, batch, sent, acked, crashes>>

\* The server dies and is started again; the database does not notice.
Crash ==
    /\ crashes < MaxCrashes
    /\ crashes' = crashes + 1
    /\ pc' = [p \in Clients |-> "idle"]
    /\ pass' = {}
    /\ batch' = {}
    /\ expirer' = "list"
    /\ UNCHANGED <<database, old, request, replies, sent, acked>>

-----------------------------------------------------------------------------

PostStep(p) ==
    updateCounter(p) \/ updateCounterFails(p) \/ Insert(p) \/ InsertFails(p)

ExpireStep ==
    \/ ListCollections \/ ListCollectionsFails \/ Sleep
    \/ \E c \in Circles : FindExpired(c) \/ FindExpiredFails(c)
    \/ \E d \in batch : Remove(d) \/ RemoveFails(d)

Next ==
    \/ \E p \in Writers, c \in Circles, m \in Posts : StartPost(p, c, m)
    \/ \E p \in Clients : PostStep(p)
    \/ \E p \in Readers, c \in Circles :
          GetLastMsg(p, c) \/ \E top, bottom \in Ids : GetMsgs(p, c, top, bottom)
    \/ \E c \in Circles : \E i \in DOMAIN docs[c] : Age(c, i)
    \/ ExpireStep
    \/ Crash

(***************************************************************************)
(* Goroutines that can run are scheduled, and the loop, which never        *)
(* returns, wakes from its sleep.  Nothing says that a call to the         *)
(* database ever succeeds.                                                 *)
(***************************************************************************)
Fairness ==
    /\ \A p \in Clients : WF_vars(PostStep(p))
    /\ WF_vars(ExpireStep)

Spec == Init /\ [][Next]_vars
FairSpec == Spec /\ Fairness

-----------------------------------------------------------------------------

(***************************************************************************)
(* Properties.                                                             *)
(***************************************************************************)
Messages(f) == /\ f \in [DOMAIN f -> Posts]
              /\ DOMAIN f \subseteq Nat \ {0}

\* Every variable has its type; documents have positive ids.
TypeOK ==
    /\ counter \in [Circles -> Nat]
    /\ DOMAIN docs = Circles /\ DOMAIN written = Circles
    /\ \A c \in Circles : Messages(docs[c]) /\ Messages(written[c])
    /\ old \subseteq Docs
    /\ pc \in [Clients -> PCs]
    /\ circle \in [Clients -> Circles \cup {Blank}]
    /\ post \in [Clients -> Posts \cup {Blank}]
    /\ mid \in [Clients -> Nat]
    /\ told \in [Clients -> [Circles -> Nat]]
    /\ DOMAIN answer = Clients
    /\ \A p \in Clients :
          answer[p].circle \in Circles \cup {Blank} /\ Messages(answer[p].msgs)
    /\ pass \subseteq Circles
    /\ batch \subseteq Docs
    /\ expirer \in {"list", "visit"}
    /\ sent \subseteq Posts
    /\ acked \subseteq [circle : Circles, id : Nat \ {0}, post : Posts]
    /\ crashes \in Nat

\* Although posts overtake each other between the counter and the insert, no two
\* of them get one id, an id is not given again when its message has expired or
\* its insert failed, and so no insert is refused for a duplicate key.
IdsAreUnique ==
    \A p \in Clients : pc[p] = "insert" =>
        /\ mid[p] \notin DOMAIN written[circle[p]]
        /\ mid[p] <= counter[circle[p]]
        /\ \A q \in Clients \ {p} :
              pc[q] = "insert" /\ circle[q] = circle[p] => mid[q] # mid[p]

\* A post answered with 200 is served under its id until it is three months old,
\* whatever the expiry loop, working on an older snapshot, removes meanwhile.
AckedIsKept ==
    \A a \in acked :
        \/ a.id \in DOMAIN docs[a.circle] /\ docs[a.circle][a.id] = a.post
        \/ [circle |-> a.circle, id |-> a.id] \in old

\* What a client was told holds on: no id it knows of is given again, and what it has read
\* of an id is what the store has for it, as long as it has anything.
AnswersStayTrue ==
    \A p \in Clients :
        /\ \A c \in Circles : told[p][c] <= counter[c]
        /\ \A i \in DOMAIN answer[p].msgs :
              LET c == answer[p].circle
              IN  i \in DOMAIN docs[c] => docs[c][i] = answer[p].msgs[i]

\* A message that has expired is not served again.
ExpiredStaysGone ==
    [][\A c \in Circles : \A i \in DOMAIN written[c] \ DOMAIN docs[c] :
          i \notin DOMAIN docs'[c]]_vars

\* A call of the loop fails that had to succeed for message i of c to be removed.
PassFails(c, i) ==
    LET d == [circle |-> c, id |-> i]
    IN  \/ ListCollectionsFails
        \/ FindExpiredFails(c) /\ d \notin batch'
        \/ RemoveFails(d)

\* A message that becomes three months old is removed, unless one of the calls that
\* find and remove this message fails again and again for ever.  No other failure
\* keeps it: not those of other circles and messages, not a restart in the middle
\* of the pass that has found it, not a post or a reader.
OldIsRemoved ==
    \A c \in Circles, i \in Ids :
        \/ []<><<PassFails(c, i)>>_vars
        \/ [circle |-> c, id |-> i] \in old ~> i \notin DOMAIN docs[c]

\* The MongoDB store is a message log: $inc reserves an id, Insert publishes there
\* and Remove expires.
published == [c \in Circles |-> [i \in 1 .. counter[c] |->
                 IF i \in DOMAIN written[c] THEN written[c][i] ELSE Blank]]
removed == [c \in Circles |-> DOMAIN written[c] \ DOMAIN docs[c]]
Log == INSTANCE MessageLog WITH log <- published, expired <- removed
ImplementsMessageLog == Log!Spec

-----------------------------------------------------------------------------

(***************************************************************************)
(* The inductive invariant behind the theorems of MongoStoreProofs.        *)
(***************************************************************************)

\* Every document was inserted, as it is now, under an id the counter has given.
StoreInv ==
    \A c \in Circles :
        /\ DOMAIN docs[c] \subseteq DOMAIN written[c]
        /\ DOMAIN written[c] \subseteq 1 .. counter[c]
        /\ \A i \in DOMAIN docs[c] : docs[c][i] = written[c][i]

\* A handler has a circle and a post of its own, which it has not inserted before.
Written(m) == \E c \in Circles : \E i \in DOMAIN written[c] : written[c][i] = m
HandlerInv ==
    /\ \A p \in Clients : pc[p] # "idle" =>
          /\ circle[p] \in Circles
          /\ post[p] \in sent
          /\ pc[p] = "insert" => mid[p] # 0
          /\ ~ Written(post[p])
          /\ \A q \in Clients \ {p} : pc[q] # "idle" => post[q] # post[p]
    /\ \A c \in Circles : \A i \in DOMAIN written[c] : written[c][i] \in sent

\* What the loop removes is a document three months old.
LoopInv ==
    /\ \A d \in old : d.id \in DOMAIN written[d.circle]
    /\ batch \subseteq old

\* What the server said was so, and its documents are still there or old.
RepliesInv ==
    /\ \A a \in acked :
          /\ a.id \in DOMAIN written[a.circle] /\ written[a.circle][a.id] = a.post
          /\ a.id \in DOMAIN docs[a.circle] \/ [circle |-> a.circle, id |-> a.id] \in old
    /\ \A p \in Clients :
          /\ \A c \in Circles : told[p][c] <= counter[c]
          /\ \A i \in DOMAIN answer[p].msgs :
                /\ answer[p].circle \in Circles
                /\ i \in DOMAIN written[answer[p].circle]
                /\ written[answer[p].circle][i] = answer[p].msgs[i]

IndInv == TypeOK /\ StoreInv /\ HandlerInv /\ IdsAreUnique /\ LoopInv /\ RepliesInv

=============================================================================
