------------------------------ MODULE FileStore ------------------------------
(***************************************************************************)
(* The file back-end of the Muteswan server (server.go, type FileStore) as *)
(* its HTTP handlers drive it.  A circle is a directory and message i of   *)
(* it the file named i.  There is no counter: a post lists the directory,  *)
(* takes the largest name plus one, creates that file, writes it, and all  *)
(* of this under one lock shared by every circle, a channel in which a     *)
(* goroutine waits to send while the lock is free.  Readers take no lock.  *)
(*                                                                         *)
(* A client has one request open at a time; pc[p] is the next line of the  *)
(* handler that serves client p.  sent, acked and refused are history.     *)
(***************************************************************************)
EXTENDS Naturals, Sequences, FiniteSets

CONSTANTS
    Clients,        \* open connections, each served by one goroutine
    Readers,        \* the clients that read
    Writers,        \* the clients that post
    Circles,
    Posts,          \* the messages posted; two posts of one text differ
    Blank,          \* "": an empty file, and what a handler has not set yet
    ReaddirLimit,   \* Readdirnames(10000): names read from a directory
    RangeLimit,     \* largest top - bottom of a range request (30)
    Faults,         \* the file system calls that may fail
    MaxCrashes      \* bound: restarts of the server in a behaviour

\* os.Stat and os.Mkdir of a directory, os.Open of a directory or of a message
\* file, os.Create of a message file, Write or Flush to it.
FaultKinds == {"stat", "mkdir", "open", "create", "write"}

ASSUME ClientsAssumption == Readers \subseteq Clients /\ Writers \subseteq Clients
ASSUME PostsAssumption == Blank \notin Posts \cup Circles /\ IsFiniteSet(Posts)
ASSUME LimitsAssumption ==
    ReaddirLimit \in Nat /\ RangeLimit \in Nat /\ MaxCrashes \in Nat
ASSUME FaultsAssumption == Faults \subseteq FaultKinds

VARIABLES
    dirs,       \* the circles that have a directory
    files,      \* files[c]: id -> content of the files in c's directory
    tokens,     \* goroutines blocked in Unlock: 1 when the lock is free
    pc,         \* pc[p]: where the handler of p stands, "idle" without one
    circle,     \* circle[p]: the circle p posts to, or posted to last
    post,       \* post[p]: the message p posts, or posted last
    mid,        \* mid[p]: msgId, once updateCounter has returned
    told,       \* told[p][c]: the last id the server gave p for c
    range,      \* range[p]: the circle p reads, and the ids from top to bottom
    got,        \* got[p]: what GetMsgs has read of them, or the last answer
    sent,       \* the posts whose request reached the server
    acked,      \* the posts answered with 200, each with its circle and id
    refused,    \* the posts answered with 500
    crashes     \* restarts so far

disk == <<dirs, files>>
history == <<sent, acked, refused>>
vars == <<dirs, files, tokens, pc, circle, post, mid, told, range, got,
          sent, acked, refused, crashes>>

Ids == 1 .. Cardinality(Posts)
Content == Posts \cup {Blank}
InLock == {"count", "create", "write", "release"}
Posting == {"stat", "mkdir", "lock"} \cup InLock
PCs == {"idle", "range"} \cup Posting

NoRange == [circle |-> Blank, top |-> 0, bottom |-> 0]
reading == <<range, got>>

(***************************************************************************)
(* GetLastMsg: 0 when the directory cannot be opened, whatever the reason; *)
(* else the largest, or 0, of at most ReaddirLimit names, which the file   *)
(* system lists in any order.                                              *)
(***************************************************************************)
Size(c) == Cardinality(DOMAIN files[c])
SmallDir(c) == Size(c) <= ReaddirLimit

Listings(c) ==
    IF SmallDir(c) THEN {DOMAIN files[c]}
    ELSE {S \in SUBSET DOMAIN files[c] : Cardinality(S) = ReaddirLimit}

IsLargest(n, S) == n \in S \cup {0} /\ \A i \in S : i <= n

\* Mutant of LastMsgs: the loop keeps the name it saw last, not the largest.
LastMsgsUnordered(c) == DOMAIN files[c] \cup {0}

LastMsgs(c) ==
    {n \in DOMAIN files[c] \cup {0} :
        \/ \E S \in Listings(c) : IsLargest(n, S)
        \/ n = 0 /\ "open" \in Faults}

-----------------------------------------------------------------------------

Init ==
    /\ dirs = {}
    /\ files = [c \in Circles |-> <<>>]
    /\ tokens = 1
    /\ pc = [p \in Clients |-> "idle"]
    /\ circle = [p \in Clients |-> Blank]
    /\ post = [p \in Clients |-> Blank]
    /\ mid = [p \in Clients |-> 0]
    /\ told = [p \in Clients |-> [c \in Circles |-> 0]]
    /\ range = [p \in Clients |-> NoRange]
    /\ got = [p \in Clients |-> <<>>]
    /\ sent = {}
    /\ acked = {}
    /\ refused = {}
    /\ crashes = 0

Goto(p, label) == pc' = [pc EXCEPT ![p] = label]

\* The handler answers 500: the client knows its post was not taken.
Refuse(p) == refused' = refused \cup {post[p]}

(***************************************************************************)
(* POST /hash.                                                             *)
(***************************************************************************)
StartPost(p, c, m) ==
    /\ pc[p] = "idle"
    /\ m \notin sent
    /\ Goto(p, "stat")
    /\ circle' = [circle EXCEPT ![p] = c]
    /\ post' = [post EXCEPT ![p] = m]
    /\ sent' = sent \cup {m}
    /\ UNCHANGED <<disk, tokens, mid, told, reading, acked, refused, crashes>>

\* Any error of os.Stat leads to Mkdir, which refuses a directory that is there.
Stat(p) ==
    /\ pc[p] = "stat"
    /\ \/ circle[p] \in dirs /\ Goto(p, "lock")
       \/ (circle[p] \notin dirs \/ "stat" \in Faults) /\ Goto(p, "mkdir")
    /\ UNCHANGED <<disk, tokens, circle, post, mid, told, reading, history, crashes>>

Mkdir(p) ==
    /\ pc[p] = "mkdir"
    /\ circle[p] \notin dirs
    /\ dirs' = dirs \cup {circle[p]}
    /\ Goto(p, "lock")
    /\ UNCHANGED <<files, tokens, circle, post, mid, told, reading, history, crashes>>

\* Mutant of MkdirFails: no return after the error.
MkdirFailsGoesOn(p) ==
    /\ pc[p] = "mkdir"
    /\ circle[p] \in dirs \/ "mkdir" \in Faults
    /\ Refuse(p)
    /\ Goto(p, "lock")
    /\ UNCHANGED <<disk, tokens, circle, post, mid, told, reading, sent, acked, crashes>>

\* The directory is there, made by another post since Stat or not seen by a Stat
\* that failed, or the call failed.
MkdirFails(p) ==
    /\ pc[p] = "mkdir"
    /\ circle[p] \in dirs \/ "mkdir" \in Faults
    /\ Refuse(p)
    /\ Goto(p, "idle")
    /\ UNCHANGED <<disk, tokens, circle, post, mid, told, reading, sent, acked, crashes>>

\* Mutant of Lock: the post does not wait for the token.
LockAlways(p) ==
    /\ pc[p] = "lock"
    /\ Goto(p, "count")
    /\ UNCHANGED <<disk, tokens, circle, post, mid, told, reading, history, crashes>>

Lock(p) ==
    /\ pc[p] = "lock"
    /\ tokens > 0
    /\ tokens' = tokens - 1
    /\ Goto(p, "count")
    /\ UNCHANGED <<disk, circle, post, mid, told, reading, history, crashes>>

\* Mutant of updateCounter: it returns the last id, not the next.
updateCounterNoInc(p) ==
    /\ pc[p] = "count"
    /\ \E n \in LastMsgs(circle[p]) : mid' = [mid EXCEPT ![p] = n]
    /\ Goto(p, "create")
    /\ UNCHANGED <<disk, tokens, circle, post, told, reading, history, crashes>>

updateCounter(p) ==
    /\ pc[p] = "count"
    /\ \E n \in LastMsgs(circle[p]) : mid' = [mid EXCEPT ![p] = n + 1]
    /\ Goto(p, "create")
    /\ UNCHANGED <<disk, tokens, circle, post, told, reading, history, crashes>>

\* os.Create empties a file that is already there.
Create(p) ==
    /\ pc[p] = "create"
    /\ files' = [files EXCEPT ![circle[p]] =
                    [i \in DOMAIN @ \cup {mid[p]} |-> IF i = mid[p] THEN Blank ELSE @[i]]]
    /\ Goto(p, "write")
    /\ UNCHANGED <<dirs, tokens, circle, post, mid, told, reading, history, crashes>>

\* Mutant of CreateFails: it returns without Unlock.
CreateFailsLocked(p) ==
    /\ pc[p] = "create"
    /\ "create" \in Faults
    /\ Refuse(p)
    /\ Goto(p, "idle")
    /\ UNCHANGED <<disk, tokens, circle, post, mid, told, reading, sent, acked, crashes>>

CreateFails(p) ==
    /\ pc[p] = "create"
    /\ "create" \in Faults
    /\ tokens' = tokens + 1
    /\ Refuse(p)
    /\ Goto(p, "idle")
    /\ UNCHANGED <<disk, circle, post, mid, told, reading, sent, acked, crashes>>

\* Mutant of Write: Flush is forgotten.
WriteBuffered(p) ==
    /\ pc[p] = "write"
    /\ Goto(p, "release")
    /\ UNCHANGED <<disk, tokens, circle, post, mid, told, reading, history, crashes>>

Write(p) ==
    /\ pc[p] = "write"
    /\ files' = [files EXCEPT ![circle[p]][mid[p]] = post[p]]
    /\ Goto(p, "release")
    /\ UNCHANGED <<dirs, tokens, circle, post, mid, told, reading, history, crashes>>

\* The errors of Write and Flush are dropped: the post goes on as if written.
WriteFails(p) ==
    /\ pc[p] = "write"
    /\ "write" \in Faults
    /\ Goto(p, "release")
    /\ UNCHANGED <<disk, tokens, circle, post, mid, told, reading, history, crashes>>

\* Close, go Unlock, return nil: the client reads 200.
Release(p) ==
    /\ pc[p] = "release"
    /\ tokens' = tokens + 1
    /\ acked' = acked \cup {[circle |-> circle[p], id |-> mid[p], post |-> post[p]]}
    /\ Goto(p, "idle")
    /\ UNCHANGED <<disk, circle, post, mid, told, reading, sent, refused, crashes>>

(***************************************************************************)
(* GET /hash, GET /hash/id and GET /hash/top-bottom.                       *)
(***************************************************************************)
GetLastMsg(p, c) ==
    /\ pc[p] = "idle"
    /\ \E n \in LastMsgs(c) : told' = [told EXCEPT ![p][c] = n]
    /\ UNCHANGED <<disk, tokens, pc, circle, post, mid, reading, history, crashes>>

\* A missing file makes the handler panic: the client gets no answer.
GetOneMsg(p, c, i) ==
    /\ pc[p] = "idle"
    /\ i \in DOMAIN files[c]
    /\ range' = [range EXCEPT ![p] = [circle |-> c, top |-> i, bottom |-> i]]
    /\ got' = [got EXCEPT ![p] = <<files[c][i]>>]
    /\ UNCHANGED <<disk, tokens, pc, circle, post, mid, told, history, crashes>>

GetMsgRange(p, c, top, bottom) ==
    /\ pc[p] = "idle"
    /\ bottom <= top
    /\ top - bottom <= RangeLimit
    /\ Goto(p, "range")
    /\ range' = [range EXCEPT ![p] = [circle |-> c, top |-> top, bottom |-> bottom]]
    /\ got' = [got EXCEPT ![p] = <<>>]
    /\ UNCHANGED <<disk, tokens, circle, post, mid, told, history, crashes>>

\* The id that GetMsgs opens next, from top down to bottom.
NextId(p) == range[p].top - Len(got[p])
\* Mutant of RangeDone: the loop ends before bottom.
RangeDoneEarly(p) ==
    \/ NextId(p) <= range[p].bottom
    \/ NextId(p) \notin DOMAIN files[range[p].circle]

RangeDone(p) ==
    \/ NextId(p) < range[p].bottom
    \/ NextId(p) \notin DOMAIN files[range[p].circle]

ReadFile(p) ==
    /\ pc[p] = "range"
    /\ ~ RangeDone(p)
    /\ got' = [got EXCEPT ![p] = Append(@, files[range[p].circle][NextId(p)])]
    /\ UNCHANGED <<disk, tokens, pc, circle, post, mid, told, range, history, crashes>>

\* After bottom, or at the first file that is missing or that os.Open fails to
\* open for another reason, what was read is the answer: 200 in every case.
EndRange(p) ==
    /\ pc[p] = "range"
    /\ RangeDone(p) \/ "open" \in Faults
    /\ Goto(p, "idle")
    /\ UNCHANGED <<disk, tokens, circle, post, mid, told, reading, history, crashes>>

(***************************************************************************)
(* The server dies and is started again: the requests in progress end      *)
(* without an answer, main makes a new lock, the disk stays.               *)
(***************************************************************************)
Crash ==
    /\ crashes < MaxCrashes
    /\ crashes' = crashes + 1
    /\ tokens' = 1
    /\ pc' = [p \in Clients |-> "idle"]
    /\ got' = [p \in Clients |-> IF pc[p] = "range" THEN <<>> ELSE got[p]]
    /\ UNCHANGED <<disk, circle, post, mid, told, range, history>>

-----------------------------------------------------------------------------

PostStep(p) ==
    \/ Stat(p) \/ Mkdir(p) \/ MkdirFails(p) \/ Lock(p) \/ updateCounter(p)
    \/ Create(p) \/ CreateFails(p) \/ Write(p) \/ WriteFails(p) \/ Release(p)

Read(p) ==
    \E c \in Circles :
        \/ GetLastMsg(p, c)
        \/ \E i \in Ids : GetOneMsg(p, c, i)
        \/ \E top, bottom \in Ids : GetMsgRange(p, c, top, bottom)

Next ==
    \/ \E p \in Writers, c \in Circles, m \in Posts : StartPost(p, c, m)
    \/ \E p \in Clients : PostStep(p)
    \/ \E p \in Readers : Read(p)
    \/ \E p \in Clients : ReadFile(p) \/ EndRange(p)
    \/ Crash

(***************************************************************************)
(* A goroutine that can run is scheduled.  Receivers blocked on a channel  *)
(* are served in the order they came, hence strong fairness of Lock.       *)
(***************************************************************************)
Fairness ==
    \A p \in Clients :
        /\ WF_vars(PostStep(p))
        /\ SF_vars(Lock(p))
        /\ WF_vars(ReadFile(p) \/ EndRange(p))

Spec == Init /\ [][Next]_vars
FairSpec == Spec /\ Fairness

-----------------------------------------------------------------------------

(***************************************************************************)
(* Properties.                                                             *)
(***************************************************************************)
Ranges == [circle : Circles \cup {Blank}, top : Nat, bottom : Nat]
Acks == [circle : Circles, id : Nat \ {0}, post : Posts]

\* Every variable has its type; a file's name is a positive number.
TypeOK ==
    /\ dirs \subseteq Circles
    /\ DOMAIN files = Circles
    /\ \A c \in Circles :
          /\ files[c] \in [DOMAIN files[c] -> Content]
          /\ DOMAIN files[c] \subseteq Nat \ {0}
          /\ IsFiniteSet(DOMAIN files[c])
    /\ tokens \in Nat
    /\ pc \in [Clients -> PCs]
    /\ circle \in [Clients -> Circles \cup {Blank}]
    /\ post \in [Clients -> Posts \cup {Blank}]
    /\ mid \in [Clients -> Nat]
    /\ told \in [Clients -> [Circles -> Nat]]
    /\ range \in [Clients -> Ranges]
    /\ got \in [Clients -> Seq(Content)]
    /\ sent \subseteq Posts
    /\ acked \subseteq Acks
    /\ refused \subseteq Posts
    /\ crashes \in Nat

Stored(m) == \E c \in Circles : \E i \in DOMAIN files[c] : files[c][i] = m

Holders == {p \in Clients : pc[p] \in InLock}

\* PostMsg's channel is a lock: exactly one Unlock waits to send, or exactly one
\* post is between receiving the token and starting the next Unlock.  No early
\* return loses the token or starts a second Unlock.
LockToken ==
    /\ \A p, q \in Holders : p = q
    /\ tokens = IF Holders = {} THEN 1 ELSE 0

\* The ids of a circle are 1, 2, ..., n without a gap, whatever fails, so the
\* loop of GetMsgs that stops at the first missing file stops only below 1 or
\* above the last message.
Dense == \A c \in Circles : DOMAIN files[c] = 1 .. Size(c)

\* Every directory is small enough for GetLastMsg to list all of it.
Small == \A c \in Circles : SmallDir(c)

\* A message that was written is never emptied or replaced while the directories
\* are small: os.Create, which truncates, is never given the id of another post.
Immutable ==
    [][\A c \in Circles : \A i \in DOMAIN files[c] :
          Small /\ files[c][i] # Blank => files'[c][i] = files[c][i]]_vars

\* A post answered with 200 is in the store under its own id, now and after any
\* number of later posts and restarts.
AckedIsStored ==
    \A a \in acked : a.id \in DOMAIN files[a.circle] /\ files[a.circle][a.id] = a.post

\* A post answered with 500 was not stored, nor will it be: a client that sends
\* it again does not post it twice.
RefusedIsNotStored ==
    \A m \in refused : ~ Stored(m) /\ \A p \in Clients : pc[p] \in Posting => post[p] # m

\* Unless the server was killed, an empty file is one that a post holding the
\* lock has created and is about to write.
BlankIsInFlight ==
    crashes = 0 =>
        \A c \in Circles : \A i \in DOMAIN files[c] :
            files[c][i] = Blank =>
                \E p \in Clients : pc[p] = "write" /\ circle[p] = c /\ mid[p] = i

\* What a client has read of a message stays what the server keeps, so that
\* the client may keep it and never ask again (an empty answer is excepted), and
\* the id it was told is the last one is never beyond what the server has.
AnswersStayTrue ==
    \A p \in Clients :
        /\ \A k \in DOMAIN got[p] :
              LET i == range[p].top - k + 1 IN
              got[p][k] # Blank =>
                  i \in DOMAIN files[range[p].circle] /\ files[range[p].circle][i] = got[p][k]
        /\ \A c \in Circles : told[p][c] <= Size(c)

\* A range that starts at an id the client was told is the last one, or below
\* it, is answered in full, though files are created and written meanwhile, as
\* long as no file that is there fails to open: GetMsgs takes any error of os.Open
\* for the end of the range.
RangeIsComplete ==
    [][\A p \in Readers :
          pc[p] = "range" /\ pc'[p] = "idle" /\ crashes' = crashes
             /\ range[p].top <= told[p][range[p].circle]
          => Len(got[p]) = range[p].top - range[p].bottom + 1]_vars

\* Every request ends: no handler waits for ever for the lock or the disk.
EveryRequestEnds == \A p \in Clients : pc[p] # "idle" ~> pc[p] = "idle"

\* The file store is a message log: Create reserves an id, Write publishes.
Log == INSTANCE MessageLog WITH log <- files, expired <- [c \in Circles |-> {}]
ImplementsMessageLog == Log!Spec

-----------------------------------------------------------------------------

(***************************************************************************)
(* The inductive invariant of FileStoreProofs, besides TypeOK, LockToken   *)
(* and Dense: what a handler knows at each line, and where its post is.    *)
(***************************************************************************)
HandlerOK(p) ==
    /\ pc[p] \in Posting => circle[p] \in Circles /\ post[p] \in sent
    /\ pc[p] = "range" => range[p].circle \in Circles
    /\ pc[p] = "create" => mid[p] \in 1 .. Size(circle[p]) + 1
    /\ pc[p] \in {"write", "release"} => mid[p] \in DOMAIN files[circle[p]]
    /\ pc[p] = "write" => files[circle[p]][mid[p]] = Blank

HandlerInv == \A p \in Clients : HandlerOK(p)

\* Nobody else creates a file between updateCounter and Create.
FreshIdInv ==
    "open" \notin Faults =>
        \A p \in Clients : pc[p] = "create" /\ SmallDir(circle[p]) => mid[p] = Size(circle[p]) + 1

PostInv ==
    /\ \A c \in Circles : \A i \in DOMAIN files[c] : files[c][i] \in sent \cup {Blank}
    /\ \A p, q \in Clients :
          pc[p] \in Posting /\ pc[q] \in Posting /\ p # q => post[p] # post[q]
    /\ \A p \in Clients : pc[p] \in Posting \ {"release"} => ~ Stored(post[p])
    /\ refused \subseteq sent
    /\ RefusedIsNotStored

\* What Release is about to acknowledge is in the file.
WrittenInv ==
    "write" \notin Faults =>
        \A p \in Clients : pc[p] = "release" => files[circle[p]][mid[p]] = post[p]

IndInv == TypeOK /\ LockToken /\ Dense /\ HandlerInv /\ FreshIdInv /\ PostInv /\ WrittenInv

-----------------------------------------------------------------------------

\* docs/technical-overview.txt: "message 1 through Last-Message are available".
DocMessagesAvailable ==
    \A p \in Clients, c \in Circles : \A i \in 1 .. told[p][c] : files[c][i] # Blank

\* docs/technical-overview.txt: "all messages are sequential and immutable".
DocMessagesImmutable ==
    [][\A c \in Circles : \A i \in DOMAIN files[c] :
          files[c][i] # Blank => files'[c][i] = files[c][i]]_vars

\* docs/technical-overview.txt: "if the container does not exist, than the
\* container is created": a post to a new circle is not refused for want of one.
DocContainerCreated == refused = {}

=============================================================================
