--------------------------- MODULE FileStoreProofs ---------------------------
(***************************************************************************)
(* Theorems about FileStore, for every value of its constants.             *)
(***************************************************************************)
EXTENDS FileStore, Integers, FiniteSetTheorems, TLAPS

USE ClientsAssumption, PostsAssumption, LimitsAssumption

(***************************************************************************)
(* The listing of a directory.                                             *)
(***************************************************************************)

\* A set 1..n has n members.
LEMMA IntervalSize ==
    ASSUME NEW n \in Nat
    PROVE  Cardinality(1 .. n) = n
BY FS_Interval

\* What GetLastMsg may return for a circle whose ids are 1, 2, ..., n: a number
\* up to n, and n itself when it can open the directory and list all of it.
LEMMA LastMsgsBounded ==
    ASSUME Dense, NEW c \in Circles, Size(c) \in Nat
    PROVE  /\ LastMsgs(c) \subseteq 0 .. Size(c)
           /\ SmallDir(c) /\ "open" \notin Faults => LastMsgs(c) = {Size(c)}
<1>1. LastMsgs(c) \subseteq 0 .. Size(c)
  BY DEF LastMsgs, Dense
<1>2. ASSUME SmallDir(c), "open" \notin Faults
      PROVE  LastMsgs(c) = {Size(c)}
  <2>1. Listings(c) = {1 .. Size(c)}
    BY <1>2 DEF Listings, Dense
  <2>2. \A n \in 0 .. Size(c) : IsLargest(n, 1 .. Size(c)) <=> n = Size(c)
    BY DEF IsLargest
  <2>3. QED
    BY <1>2, <2>1, <2>2 DEF LastMsgs, Dense
<1>3. QED
  BY <1>1, <1>2

(***************************************************************************)
(* IndInv is inductive: one lemma per conjunct that takes an argument.     *)
(***************************************************************************)

\* Every handler leaves every variable in its type.
LEMMA TypeStep == IndInv /\ [Next]_vars => TypeOK'
<1> SUFFICES ASSUME IndInv, [Next]_vars
             PROVE  TypeOK'
  OBVIOUS
<1> USE DEF IndInv, TypeOK, Content, PCs, Posting, InLock, disk, history, reading, Goto, Refuse
<1>1. ASSUME NEW p \in Writers, NEW c \in Circles, NEW m \in Posts, StartPost(p, c, m)
      PROVE  TypeOK'
  BY <1>1 DEF StartPost
<1>2. ASSUME NEW p \in Clients, Stat(p)
      PROVE  TypeOK'
  BY <1>2 DEF Stat
<1>3. ASSUME NEW p \in Clients, Mkdir(p)
      PROVE  TypeOK'
  BY <1>3 DEF Mkdir, HandlerInv, HandlerOK
<1>4. ASSUME NEW p \in Clients, MkdirFails(p)
      PROVE  TypeOK'
  BY <1>4 DEF MkdirFails, HandlerInv, HandlerOK
<1>5. ASSUME NEW p \in Clients, Lock(p)
      PROVE  TypeOK'
  BY <1>5 DEF Lock
<1>6. ASSUME NEW p \in Clients, updateCounter(p)
      PROVE  TypeOK'
  <2>1. LastMsgs(circle[p]) \subseteq Nat
    BY <1>6 DEF updateCounter, LastMsgs, HandlerInv, HandlerOK
  <2>2. QED
    BY <1>6, <2>1 DEF updateCounter
<1>7. ASSUME NEW p \in Clients, Create(p)
      PROVE  TypeOK'
  <2>1. circle[p] \in Circles /\ mid[p] \in Nat \ {0}
    BY <1>7 DEF Create, HandlerInv, HandlerOK
  <2>2. IsFiniteSet(DOMAIN files[circle[p]] \cup {mid[p]})
    BY <2>1, FS_AddElement
  <2>3. QED
    BY <1>7, <2>1, <2>2 DEF Create
<1>8. ASSUME NEW p \in Clients, CreateFails(p)
      PROVE  TypeOK'
  BY <1>8 DEF CreateFails, HandlerInv, HandlerOK
<1>9. ASSUME NEW p \in Clients, Write(p)
      PROVE  TypeOK'
  <2>1. circle[p] \in Circles /\ mid[p] \in DOMAIN files[circle[p]] /\ post[p] \in Posts
    BY <1>9 DEF Write, HandlerInv, HandlerOK
  <2>2. QED
    BY <1>9, <2>1 DEF Write
<1>10. ASSUME NEW p \in Clients, WriteFails(p)
       PROVE  TypeOK'
  BY <1>10 DEF WriteFails
<1>11. ASSUME NEW p \in Clients, Release(p)
       PROVE  TypeOK'
  <2>1. circle[p] \in Circles /\ mid[p] \in Nat \ {0} /\ post[p] \in Posts
    BY <1>11 DEF Release, HandlerInv, HandlerOK
  <2>2. QED
    BY <1>11, <2>1 DEF Release, Acks
<1>12. ASSUME NEW p \in Readers, NEW c \in Circles, GetLastMsg(p, c)
       PROVE  TypeOK'
  <2>1. LastMsgs(c) \subseteq Nat
    BY DEF LastMsgs
  <2>2. QED
    BY <1>12, <2>1 DEF GetLastMsg
<1>13. ASSUME NEW p \in Readers, NEW c \in Circles, NEW i \in Ids, GetOneMsg(p, c, i)
       PROVE  TypeOK'
  <2>1. i \in Nat /\ files[c][i] \in Content
    BY <1>13 DEF GetOneMsg
  <2>2. [circle |-> c, top |-> i, bottom |-> i] \in Ranges
    BY <2>1 DEF Ranges
  <2>3. QED
    BY <1>13, <2>1, <2>2 DEF GetOneMsg
<1>14. ASSUME NEW p \in Readers, NEW c \in Circles, NEW top \in Ids, NEW bottom \in Ids,
              GetMsgRange(p, c, top, bottom)
       PROVE  TypeOK'
  <2>1. [circle |-> c, top |-> top, bottom |-> bottom] \in Ranges
    BY DEF Ranges, Ids
  <2>2. QED
    BY <1>14, <2>1 DEF GetMsgRange
<1>15. ASSUME NEW p \in Clients, ReadFile(p)
       PROVE  TypeOK'
  <2>1. files[range[p].circle][NextId(p)] \in Content
    BY <1>15 DEF ReadFile, RangeDone, HandlerInv, HandlerOK
  <2>2. QED
    BY <1>15, <2>1 DEF ReadFile
<1>16. ASSUME NEW p \in Clients, EndRange(p)
       PROVE  TypeOK'
  BY <1>16 DEF EndRange
<1>17. CASE Crash
  BY <1>17 DEF Crash
<1>18. CASE UNCHANGED vars
  BY <1>18 DEF vars
<1>19. QED
  BY <1>1, <1>2, <1>3, <1>4, <1>5, <1>6, <1>7, <1>8, <1>9, <1>10, <1>11, <1>12, <1>13,
     <1>14, <1>15, <1>16, <1>17, <1>18 DEF Next, PostStep, Read
\* The token of the lock channel is passed on, never lost or doubled.
LEMMA LockStep == IndInv /\ [Next]_vars => LockToken'
<1> SUFFICES ASSUME IndInv, [Next]_vars
             PROVE  LockToken'
  OBVIOUS
<1> USE DEF IndInv, LockToken, Holders
<1>p. pc \in [Clients -> PCs]
  BY DEF TypeOK
<1>1. ASSUME Holders' = Holders, UNCHANGED tokens
      PROVE  LockToken'
  BY <1>1
<1>2. ASSUME NEW p \in Clients, pc[p] \notin InLock, UNCHANGED tokens,
             NEW l \in PCs \ InLock, Goto(p, l)
      PROVE  LockToken'
  BY <1>1, <1>2, <1>p DEF Goto
<1>3. ASSUME NEW p \in Clients, pc[p] \in InLock, UNCHANGED tokens,
             NEW l \in InLock, Goto(p, l)
      PROVE  LockToken'
  BY <1>1, <1>3, <1>p DEF Goto
<1>4. ASSUME NEW p \in Clients, pc[p] \in InLock, tokens' = tokens + 1, Goto(p, "idle")
      PROVE  LockToken'
  <2>1. Holders = {p} /\ tokens = 0
    BY <1>4
  <2>2. Holders' = {}
    BY <1>4, <1>p, <2>1 DEF Goto, InLock
  <2>3. QED
    BY <1>4, <2>1, <2>2
<1>5. ASSUME NEW p \in Clients, Lock(p)
      PROVE  LockToken'
  <2>1. Holders = {} /\ tokens = 1
    BY <1>5 DEF Lock
  <2>2. Holders' = {p}
    BY <1>5, <1>p, <2>1 DEF Lock, Goto, InLock
  <2>3. QED
    BY <1>5, <2>1, <2>2 DEF Lock
<1>6. ASSUME NEW p \in Clients,
             \/ \E c \in Circles, m \in Posts : StartPost(p, c, m)
             \/ Stat(p) \/ Mkdir(p) \/ MkdirFails(p)
             \/ \E c \in Circles, top, bottom \in Ids : GetMsgRange(p, c, top, bottom)
             \/ EndRange(p)
      PROVE  LockToken'
  <2>1. \E l \in PCs \ InLock : pc[p] \notin InLock /\ UNCHANGED tokens /\ Goto(p, l)
    BY <1>6 DEF StartPost, Stat, Mkdir, MkdirFails, GetMsgRange, EndRange, PCs, Posting, InLock
  <2>2. QED
    BY <1>2, <2>1
<1>7. ASSUME NEW p \in Clients,
             updateCounter(p) \/ Create(p) \/ Write(p) \/ WriteFails(p)
      PROVE  LockToken'
  <2>1. \E l \in InLock : pc[p] \in InLock /\ UNCHANGED tokens /\ Goto(p, l)
    BY <1>7 DEF updateCounter, Create, Write, WriteFails, InLock
  <2>2. QED
    BY <1>3, <2>1
<1>8. ASSUME NEW p \in Clients, CreateFails(p) \/ Release(p)
      PROVE  LockToken'
  BY <1>4, <1>8 DEF CreateFails, Release, InLock
<1>9. ASSUME NEW p \in Clients,
             \/ \E c \in Circles : GetLastMsg(p, c)
             \/ \E c \in Circles, i \in Ids : GetOneMsg(p, c, i)
             \/ ReadFile(p)
      PROVE  LockToken'
  <2>1. UNCHANGED <<pc, tokens>>
    BY <1>9 DEF GetLastMsg, GetOneMsg, ReadFile
  <2>2. QED
    BY <1>1, <2>1
<1>10. CASE Crash
  BY <1>10 DEF Crash, InLock
<1>11. CASE UNCHANGED vars
  BY <1>1, <1>11 DEF vars
<1>12. QED
  BY <1>5, <1>6, <1>7, <1>8, <1>9, <1>10, <1>11 DEF Next, PostStep, Read
\* What Create does to the directory of its circle: the file is new and empty,
\* or it was there and is emptied, and the ids stay 1, 2, ..., n.
LEMMA CreateEffect ==
    ASSUME IndInv, NEW p \in Clients, Create(p)
    PROVE  /\ circle[p] \in Circles
           /\ mid[p] \in 1 .. Size(circle[p]) + 1
           /\ \A d \in Circles \ {circle[p]} : files'[d] = files[d]
           /\ DOMAIN files'[circle[p]] = DOMAIN files[circle[p]] \cup {mid[p]}
           /\ files'[circle[p]][mid[p]] = Blank
           /\ \A i \in DOMAIN files[circle[p]] \ {mid[p]} :
                 files'[circle[p]][i] = files[circle[p]][i]
           /\ Dense'
<1> DEFINE c == circle[p]
           n == Size(c)
<1>1. c \in Circles /\ mid[p] \in 1 .. n + 1
  BY DEF IndInv, HandlerInv, HandlerOK, Create, Posting, InLock
<1>2. DOMAIN files = Circles /\ DOMAIN files' = Circles
  BY DEF IndInv, TypeOK, Create
<1>3. files'[c] = [i \in DOMAIN files[c] \cup {mid[p]} |->
                     IF i = mid[p] THEN Blank ELSE files[c][i]]
  BY <1>1, <1>2 DEF Create
<1>4. \A d \in Circles \ {c} : files'[d] = files[d]
  BY <1>1, <1>2 DEF Create
<1>5. n \in Nat /\ DOMAIN files[c] = 1 .. n
  BY <1>1, FS_CardinalityType DEF IndInv, TypeOK, Dense, Size
<1>6. \E k \in Nat : DOMAIN files'[c] = 1 .. k
  <2>1. CASE mid[p] \in 1 .. n
    BY <1>3, <1>5, <2>1
  <2>2. CASE mid[p] = n + 1
    BY <1>3, <1>5, <2>2
  <2>3. QED
    BY <1>1, <1>5, <2>1, <2>2
<1>7. DOMAIN files'[c] = 1 .. Cardinality(DOMAIN files'[c])
  BY <1>6, IntervalSize
<1>8. Dense'
  BY <1>4, <1>7 DEF IndInv, Dense, Size
<1>9. QED
  BY <1>1, <1>3, <1>4, <1>8
\* Write replaces the content of one file, which was empty.
LEMMA WriteEffect ==
    ASSUME IndInv, NEW p \in Clients, Write(p)
    PROVE  /\ circle[p] \in Circles
           /\ mid[p] \in DOMAIN files[circle[p]]
           /\ files[circle[p]][mid[p]] = Blank
           /\ \A c \in Circles : DOMAIN files'[c] = DOMAIN files[c]
           /\ \A c \in Circles : \A i \in DOMAIN files[c] :
                 files'[c][i] = IF c = circle[p] /\ i = mid[p] THEN post[p] ELSE files[c][i]
<1>1. circle[p] \in Circles /\ mid[p] \in DOMAIN files[circle[p]]
         /\ files[circle[p]][mid[p]] = Blank
  BY DEF IndInv, HandlerInv, HandlerOK, Write, Posting, InLock
<1>2. DOMAIN files = Circles
  BY DEF IndInv, TypeOK
<1>3. files' = [files EXCEPT ![circle[p]] = [files[circle[p]] EXCEPT ![mid[p]] = post[p]]]
  BY DEF Write
<1>4. files'[circle[p]] = [files[circle[p]] EXCEPT ![mid[p]] = post[p]]
  BY <1>1, <1>2, <1>3
<1>5. \A c \in Circles \ {circle[p]} : files'[c] = files[c]
  BY <1>2, <1>3
<1>6. QED
  BY <1>1, <1>4, <1>5

\* No other step touches the files.
LEMMA FilesChange ==
    ASSUME [Next]_vars, ~ \E q \in Clients : Create(q) \/ Write(q)
    PROVE  UNCHANGED files
BY DEF Next, PostStep, Read, vars, disk, StartPost, Stat, Mkdir, MkdirFails, Lock,
       updateCounter, CreateFails, WriteFails, Release, GetLastMsg, GetOneMsg,
       GetMsgRange, ReadFile, EndRange, Crash

\* How a handler comes to Create, Write and the release of the lock, and leaves Write.
LEMMA HandlerMoves ==
    ASSUME IndInv, [Next]_vars, NEW q \in Clients
    PROVE  \/ pc'[q] = pc[q] /\ circle'[q] = circle[q] /\ mid'[q] = mid[q] /\ post'[q] = post[q]
           \/ Crash \/ updateCounter(q) \/ Create(q) \/ Write(q) \/ WriteFails(q)
           \/ pc[q] # "write" /\ pc'[q] \notin {"create", "write", "release"}
<1> DEFINE Same == /\ pc'[q] = pc[q] /\ circle'[q] = circle[q]
                   /\ mid'[q] = mid[q] /\ post'[q] = post[q]
           Else == pc[q] # "write" /\ pc'[q] \notin {"create", "write", "release"}
<1>t. /\ pc \in [Clients -> PCs] /\ circle \in [Clients -> Circles \cup {Blank}]
      /\ mid \in [Clients -> Nat] /\ post \in [Clients -> Posts \cup {Blank}]
  BY DEF IndInv, TypeOK
<1>1. ASSUME NEW p \in Writers, NEW c \in Circles, NEW m \in Posts, StartPost(p, c, m)
      PROVE  Same \/ Else
  BY <1>1, <1>t, ClientsAssumption DEF StartPost, Goto
<1>2. ASSUME NEW p \in Clients, p # q, PostStep(p)
      PROVE  Same
  BY <1>2, <1>t DEF PostStep, Goto, Stat, Mkdir, MkdirFails, Lock, updateCounter, Create,
     CreateFails, Write, WriteFails, Release
<1>3. CASE Stat(q) \/ Mkdir(q) \/ MkdirFails(q) \/ Lock(q) \/ CreateFails(q) \/ Release(q)
  BY <1>3, <1>t DEF Goto, Stat, Mkdir, MkdirFails, Lock, CreateFails, Release
<1>4. ASSUME NEW p \in Readers, Read(p)
      PROVE  Same \/ Else
  BY <1>4, <1>t, ClientsAssumption DEF Read, Goto, GetLastMsg, GetOneMsg, GetMsgRange
<1>5. ASSUME NEW p \in Clients, ReadFile(p) \/ EndRange(p)
      PROVE  Same \/ Else
  BY <1>5, <1>t DEF ReadFile, EndRange, Goto
<1>6. CASE UNCHANGED vars
  BY <1>6 DEF vars
<1>7. QED
  BY <1>1, <1>2, <1>3, <1>4, <1>5, <1>6 DEF Next, PostStep

\* The ids of every circle stay 1, 2, ..., n.
LEMMA DenseStep == IndInv /\ [Next]_vars => Dense'
<1> SUFFICES ASSUME IndInv, [Next]_vars
             PROVE  Dense'
  OBVIOUS
<1>1. CASE \E p \in Clients : Create(p)
  BY <1>1, CreateEffect
<1>2. CASE \E p \in Clients : Write(p)
  BY <1>2, WriteEffect DEF IndInv, Dense, Size
<1>3. CASE UNCHANGED files
  BY <1>3 DEF IndInv, Dense, Size
<1>4. QED
  BY <1>1, <1>2, <1>3, FilesChange
\* A step that leaves the files alone, and is not updateCounter, takes its
\* handler only to a line whose conditions it has checked.
LEMMA HandlerStep == IndInv /\ [Next]_vars => HandlerInv'
<1> SUFFICES ASSUME IndInv, [Next]_vars
             PROVE  HandlerInv'
  OBVIOUS
<1> USE DEF IndInv, HandlerInv, HandlerOK, Goto
<1>t. /\ pc \in [Clients -> PCs] /\ circle \in [Clients -> Circles \cup {Blank}]
      /\ post \in [Clients -> Posts \cup {Blank}] /\ mid \in [Clients -> Nat]
      /\ range \in [Clients -> Ranges]
  BY DEF TypeOK
<1>1. ASSUME NEW p \in Clients, NEW c \in Circles, NEW m \in Posts, StartPost(p, c, m)
      PROVE  HandlerInv'
  BY <1>1, <1>t DEF StartPost, disk, reading, Posting, InLock, Size
<1>2. ASSUME NEW p \in Clients,
             \/ Stat(p) \/ Mkdir(p) \/ MkdirFails(p) \/ Lock(p)
             \/ CreateFails(p) \/ WriteFails(p) \/ Release(p) \/ EndRange(p)
      PROVE  HandlerInv'
  <2>1. UNCHANGED <<files, circle, post, mid, range, sent>>
    BY <1>2 DEF Stat, Mkdir, MkdirFails, Lock, CreateFails, WriteFails, Release, EndRange,
                disk, reading, history
  <2>2. \E l \in {"idle", "mkdir", "lock", "count", "release"} :
           /\ Goto(p, l)
           /\ l # "idle" => pc[p] \in Posting
           /\ l = "release" => pc[p] = "write"
    <3>1. CASE Stat(p)
      <4>1. Goto(p, "lock") \/ Goto(p, "mkdir")
        BY <3>1 DEF Stat
      <4>2. QED
        BY <3>1, <4>1 DEF Stat, Posting
    <3>2. CASE Mkdir(p) \/ MkdirFails(p) \/ Lock(p)
      BY <3>2 DEF Mkdir, MkdirFails, Lock, Posting
    <3>3. CASE CreateFails(p) \/ WriteFails(p) \/ Release(p) \/ EndRange(p)
      BY <3>3 DEF CreateFails, WriteFails, Release, EndRange, Posting, InLock
    <3>4. QED
      BY <1>2, <3>1, <3>2, <3>3
  <2>3. QED
    BY <2>1, <2>2, <1>t DEF Posting, InLock, Size
<1>3. ASSUME NEW p \in Clients, updateCounter(p)
      PROVE  HandlerInv'
  <2>1. circle[p] \in Circles
    BY <1>3 DEF updateCounter, Posting, InLock
  <2>2. Size(circle[p]) \in Nat
    BY <2>1, FS_CardinalityType DEF TypeOK, Size
  <2>3. mid'[p] \in 1 .. Size(circle[p]) + 1
    BY <1>3, <1>t, <2>1, <2>2, LastMsgsBounded DEF updateCounter
  <2>4. QED
    BY <1>3, <1>t, <2>1, <2>3 DEF updateCounter, disk, reading, history, Posting, InLock, Size
<1>4. ASSUME NEW p \in Clients, Create(p)
      PROVE  HandlerInv'
  <2>1. \A q \in Clients \ {p} : pc[q] \notin InLock
    BY <1>4 DEF Create, LockToken, Holders, InLock
  <2>2. /\ pc' = [pc EXCEPT ![p] = "write"]
        /\ UNCHANGED <<circle, post, mid, range, sent>>
    BY <1>4 DEF Create, reading, history
  <2>3. mid[p] \in DOMAIN files'[circle[p]] /\ files'[circle[p]][mid[p]] = Blank
    BY <1>4, CreateEffect
  <2>4. ASSUME NEW q \in Clients, q # p
        PROVE  HandlerOK(q)'
    BY <2>1, <2>2, <2>4, <1>t DEF InLock
  <2>5. HandlerOK(p)'
    BY <1>4, <2>2, <2>3, <1>t DEF Create, Posting, InLock
  <2>6. QED
    BY <2>4, <2>5
<1>5. ASSUME NEW p \in Clients, Write(p)
      PROVE  HandlerInv'
  <2>1. \A q \in Clients \ {p} : pc[q] \notin InLock
    BY <1>5 DEF Write, LockToken, Holders, InLock
  <2>2. QED
    BY <1>5, <1>t, <2>1, WriteEffect DEF Write, reading, history, Posting, InLock
<1>6. ASSUME NEW p \in Clients, NEW c \in Circles,
             \/ GetLastMsg(p, c)
             \/ \E i \in Ids : GetOneMsg(p, c, i)
             \/ \E top, bottom \in Ids : GetMsgRange(p, c, top, bottom)
      PROVE  HandlerInv'
  <2>1. UNCHANGED <<files, circle, post, mid, sent>>
    BY <1>6 DEF GetLastMsg, GetOneMsg, GetMsgRange, disk, history
  <2>2. \/ UNCHANGED <<pc, range>>
        \/ pc[p] = "idle" /\ UNCHANGED pc /\ \E r : range' = [range EXCEPT ![p] = r]
        \/ \E l, h : Goto(p, "range")
              /\ range' = [range EXCEPT ![p] = [circle |-> c, top |-> h, bottom |-> l]]
    BY <1>6 DEF GetLastMsg, GetOneMsg, GetMsgRange, reading
  <2>3. QED
    BY <2>1, <2>2, <1>t DEF Posting, InLock, Size
<1>7. ASSUME NEW p \in Clients, ReadFile(p)
      PROVE  HandlerInv'
  BY <1>7 DEF ReadFile, disk, history, Size
<1>8. CASE Crash
  BY <1>8 DEF Crash, Posting, InLock
<1>9. CASE UNCHANGED vars
  BY <1>9 DEF vars, Size
<1>10. QED
  BY <1>1, <1>2, <1>3, <1>4, <1>5, <1>6, <1>7, <1>8, <1>9, ClientsAssumption
     DEF Next, PostStep, Read
\* Apart from updateCounter nothing takes a handler to Create, and the id it has
\* taken stays the next one until then, since every other post waits for the lock.
LEMMA FreshIdStep == IndInv /\ [Next]_vars => FreshIdInv'
<1> SUFFICES ASSUME IndInv, [Next]_vars, "open" \notin Faults, NEW q \in Clients,
                    pc'[q] = "create", SmallDir(circle[q])'
             PROVE  (mid[q] = Size(circle[q]) + 1)'
  BY DEF FreshIdInv
<1>t. pc \in [Clients -> PCs] /\ circle \in [Clients -> Circles \cup {Blank}]
         /\ mid \in [Clients -> Nat]
  BY DEF IndInv, TypeOK
<1>1. CASE updateCounter(q)
  <2>1. circle[q] \in Circles /\ UNCHANGED <<files, circle>>
    BY <1>1 DEF IndInv, HandlerInv, HandlerOK, updateCounter, disk, Posting, InLock
  <2>2. Size(circle[q]) \in Nat
    BY <2>1, FS_CardinalityType DEF IndInv, TypeOK, Size
  <2>3. LastMsgs(circle[q]) = {Size(circle[q])}
    BY <2>1, <2>2, LastMsgsBounded DEF IndInv, SmallDir, Size
  <2>4. QED
    BY <1>1, <1>t, <2>1, <2>3 DEF updateCounter, Size
<1>2. CASE ~ updateCounter(q)
  <2>1. pc[q] = "create" /\ circle'[q] = circle[q] /\ mid'[q] = mid[q]
    BY <1>2, <1>t, HandlerMoves DEF Goto, Create, Write, WriteFails, Crash
  <2>2. circle[q] \in Circles
    BY <2>1 DEF IndInv, HandlerInv, HandlerOK, Posting, InLock
  <2>3. \A p \in Clients : ~ Create(p) /\ ~ Write(p)
    <3>1. ASSUME NEW p \in Clients, Create(p) \/ Write(p)
          PROVE  FALSE
      <4>1. p = q
        BY <2>1, <3>1 DEF IndInv, LockToken, Holders, Create, Write, InLock
      <4>2. QED
        BY <1>t, <2>1, <3>1, <4>1 DEF Create, Write, Goto
    <3>2. QED
      BY <3>1
  <2>4. UNCHANGED files
    BY <2>3, FilesChange
  <2>5. QED
    BY <2>1, <2>2, <2>4 DEF IndInv, FreshIdInv, SmallDir, Size
<1>3. QED
  BY <1>1, <1>2
\* A message comes into the store by the Write of its own post only.
LEMMA StoredChange ==
    ASSUME IndInv, [Next]_vars, NEW c \in Circles, NEW i \in DOMAIN files'[c]
    PROVE  \/ files'[c][i] = Blank
           \/ i \in DOMAIN files[c] /\ files'[c][i] = files[c][i]
           \/ \E p \in Clients : Write(p) /\ files'[c][i] = post[p]
<1>1. ASSUME NEW p \in Clients, Create(p)
      PROVE  files'[c][i] = Blank \/ (i \in DOMAIN files[c] /\ files'[c][i] = files[c][i])
  <2>1. c # circle[p] => files'[c] = files[c]
    BY <1>1, CreateEffect
  <2>2. c = circle[p] /\ i # mid[p] => i \in DOMAIN files[c] /\ files'[c][i] = files[c][i]
    BY <1>1, CreateEffect
  <2>3. c = circle[p] /\ i = mid[p] => files'[c][i] = Blank
    BY <1>1, CreateEffect
  <2>4. QED
    BY <2>1, <2>2, <2>3
<1>2. ASSUME NEW p \in Clients, Write(p)
      PROVE  files'[c][i] = post[p] \/ (i \in DOMAIN files[c] /\ files'[c][i] = files[c][i])
  <2>1. i \in DOMAIN files[c]
           /\ files'[c][i] = IF c = circle[p] /\ i = mid[p] THEN post[p] ELSE files[c][i]
    BY <1>2, WriteEffect
  <2>2. QED
    BY <2>1
<1>3. QED
  BY <1>1, <1>2, FilesChange

\* Where the posts are: each in one handler at a time, in no file before its
\* Write, and in none at all once it is refused.
LEMMA PostInvStep == IndInv /\ [Next]_vars => PostInv'
<1> SUFFICES ASSUME IndInv, [Next]_vars
             PROVE  PostInv'
  OBVIOUS
<1> USE DEF PostInv, RefusedIsNotStored
<1>t. /\ PostInv /\ TypeOK /\ HandlerInv
      /\ pc \in [Clients -> PCs] /\ post \in [Clients -> Posts \cup {Blank}]
      /\ \A p \in Clients : pc[p] \in Posting => post[p] \in sent /\ post[p] \in Posts
  BY DEF IndInv, TypeOK, HandlerInv, HandlerOK
<1>u. \A m \in Posts : Stored(m)' => Stored(m) \/ \E p \in Clients : Write(p) /\ post[p] = m
  BY StoredChange DEF Stored
<1>1. ASSUME NEW p \in Clients, NEW c \in Circles, NEW m \in Posts, StartPost(p, c, m)
      PROVE  PostInv'
  <2>1. /\ m \notin sent /\ sent' = sent \cup {m}
        /\ pc' = [pc EXCEPT ![p] = "stat"] /\ post' = [post EXCEPT ![p] = m]
        /\ UNCHANGED <<files, refused>>
    BY <1>1 DEF StartPost, Goto, disk
  <2>2. ~ Stored(m)
    BY <1>t, <2>1 DEF Stored
  <2>3. \A q \in Clients : pc[q] \in Posting => post[q] # m
    BY <1>t, <2>1
  <2>4. \A x : Stored(x)' <=> Stored(x)
    BY <2>1 DEF Stored
  <2>5. refused' \subseteq sent' /\ m \notin refused'
    BY <1>t, <2>1
  <2>6. \A q \in Clients \ {p} : pc'[q] = pc[q] /\ post'[q] = post[q]
    BY <1>t, <2>1
  <2>7. post'[p] = m /\ pc[p] = "idle" /\ pc'[p] = "stat"
    BY <1>1, <1>t, <2>1 DEF StartPost
  <2>8. \A q, r \in Clients :
           pc'[q] \in Posting /\ pc'[r] \in Posting /\ q # r => post'[q] # post'[r]
    BY <1>t, <2>3, <2>6, <2>7
  <2>9. \A q \in Clients : pc'[q] \in Posting \ {"release"} => ~ Stored(post[q])'
    BY <1>t, <2>2, <2>4, <2>6, <2>7
  <2>10. RefusedIsNotStored'
    BY <1>t, <2>1, <2>4, <2>5, <2>6, <2>7
  <2>11. QED
    BY <1>t, <2>1, <2>5, <2>8, <2>9, <2>10
<1>2. ASSUME UNCHANGED <<post, sent>>,
             \A q \in Clients : Write(q) => FALSE,
             \A q \in Clients : pc'[q] \in Posting => pc[q] \in Posting,
             \A q \in Clients : pc'[q] \in Posting \ {"release"} => pc[q] # "release",
             \/ UNCHANGED refused
             \/ \E p \in Clients : /\ pc[p] \in Posting \ {"release"} /\ pc'[p] = "idle"
                                   /\ refused' = refused \cup {post[p]}
      PROVE  PostInv'
  <2>1. \A c \in Circles : \A i \in DOMAIN files'[c] : files'[c][i] \in sent' \cup {Blank}
    BY <1>2, <1>t, StoredChange
  <2>2. \A m \in Posts : Stored(m)' => Stored(m)
    BY <1>2, <1>u
  <2>3. \A q \in Clients : pc'[q] \in Posting \ {"release"} => ~ Stored(post[q])'
    BY <1>2, <1>t, <2>2
  <2>4. refused \subseteq Posts /\ refused' \subseteq sent'
    BY <1>2, <1>t DEF TypeOK
  <2>5. CASE UNCHANGED refused
    BY <1>2, <1>t, <2>1, <2>2, <2>3, <2>4, <2>5
  <2>6. CASE \E p \in Clients : /\ pc[p] \in Posting \ {"release"} /\ pc'[p] = "idle"
                                /\ refused' = refused \cup {post[p]}
    <3>1. PICK p \in Clients : /\ pc[p] \in Posting \ {"release"} /\ pc'[p] = "idle"
                              /\ refused' = refused \cup {post[p]}
      BY <2>6
    <3>2. post[p] \in sent /\ post[p] \in Posts /\ ~ Stored(post[p])
      BY <1>t, <3>1
    <3>3. \A q \in Clients : pc'[q] \in Posting => q # p /\ post'[q] # post[p]
      BY <1>2, <1>t, <3>1 DEF Posting, InLock
    <3>4. QED
      BY <1>2, <1>t, <2>1, <2>2, <2>3, <2>4, <3>1, <3>2, <3>3
  <2>7. QED
    BY <1>2, <2>5, <2>6
<1>3. ASSUME NEW p \in Clients, Write(p)
      PROVE  PostInv'
  <2>1. /\ pc[p] = "write" /\ pc' = [pc EXCEPT ![p] = "release"]
        /\ UNCHANGED <<post, sent, refused>>
    BY <1>3 DEF Write, Goto, history
  <2>2. pc[p] \in Posting \ {"release"} /\ post[p] \in sent /\ post[p] \in Posts
    BY <1>t, <2>1 DEF Posting, InLock
  <2>3. \A q \in Clients : Write(q) => q = p
    BY <2>1 DEF Write, IndInv, LockToken, Holders, InLock
  <2>4. \A m \in Posts : Stored(m)' => Stored(m) \/ m = post[p]
    BY <1>u, <2>3
  <2>5. \A c \in Circles : \A i \in DOMAIN files'[c] : files'[c][i] \in sent' \cup {Blank}
    BY <1>t, <2>1, <2>2, <2>3, StoredChange
  <2>6. \A q \in Clients \ {p} : pc'[q] = pc[q] /\ (pc[q] \in Posting => post[q] # post[p])
    BY <1>t, <2>1, <2>2
  <2>7. \A q \in Clients : pc'[q] \in Posting => pc[q] \in Posting
    BY <1>t, <2>1, <2>2
  <2>8. \A q \in Clients : pc'[q] \in Posting \ {"release"} => ~ Stored(post[q])'
    BY <1>t, <2>1, <2>4, <2>6
  <2>9. post[p] \notin refused /\ refused \subseteq Posts
    BY <1>t, <2>2 DEF TypeOK
  <2>10. RefusedIsNotStored'
    BY <1>t, <2>1, <2>4, <2>7, <2>9
  <2>11. QED
    BY <1>t, <2>1, <2>5, <2>7, <2>8, <2>10
<1>4. ASSUME NEW p \in Clients, MkdirFails(p) \/ CreateFails(p)
      PROVE  PostInv'
  <2>1. /\ pc[p] \in Posting \ {"release", "write"} /\ pc' = [pc EXCEPT ![p] = "idle"]
        /\ refused' = refused \cup {post[p]} /\ UNCHANGED <<post, sent, files>>
    BY <1>4 DEF MkdirFails, CreateFails, Goto, Refuse, disk, Posting, InLock
  <2>2. \A q \in Clients : ~ Write(q)
    BY <1>4, <1>t, <2>1 DEF Write, MkdirFails, CreateFails, Goto
  <2>3. QED
    BY <1>2, <1>t, <2>1, <2>2 DEF Posting, InLock
<1>5. ASSUME \A q \in Clients : ~ Write(q), UNCHANGED <<post, sent, refused>>,
             \/ UNCHANGED pc
             \/ \E p \in Clients, l \in PCs :
                   /\ Goto(p, l)
                   /\ l \in Posting => pc[p] \in Posting \ {"release"}
             \/ pc' = [p \in Clients |-> "idle"]
      PROVE  PostInv'
  BY <1>2, <1>5, <1>t DEF Goto, Posting, InLock
<1>6. ASSUME NEW p \in Clients,
             \/ Stat(p) \/ Mkdir(p) \/ Lock(p) \/ updateCounter(p) \/ Create(p)
             \/ WriteFails(p) \/ Release(p) \/ EndRange(p)
             \/ \E c \in Circles, top, bottom \in Ids : GetMsgRange(p, c, top, bottom)
      PROVE  PostInv'
  <2>1. UNCHANGED <<post, sent, refused>>
    BY <1>6 DEF Stat, Mkdir, Lock, updateCounter, Create, WriteFails, Release, EndRange,
                GetMsgRange, history
  <2>2. \E l \in PCs : Goto(p, l) /\ (l \in Posting => pc[p] \in Posting \ {"release"})
    BY <1>6 DEF Stat, Mkdir, Lock, updateCounter, Create, WriteFails, Release, EndRange,
                GetMsgRange, PCs, Posting, InLock
  <2>3. CASE \E q \in Clients : Write(q)
    BY <1>3, <2>3
  <2>4. QED
    BY <1>5, <2>1, <2>2, <2>3
<1>7. ASSUME NEW p \in Clients,
             \/ ReadFile(p)
             \/ \E c \in Circles : GetLastMsg(p, c)
             \/ \E c \in Circles, i \in Ids : GetOneMsg(p, c, i)
      PROVE  PostInv'
  <2>1. UNCHANGED <<pc, post, sent, refused>>
    BY <1>7 DEF ReadFile, GetLastMsg, GetOneMsg, history
  <2>2. QED
    BY <1>3, <1>5, <2>1
<1>8. CASE Crash
  BY <1>3, <1>5, <1>8 DEF Crash, history
<1>9. CASE UNCHANGED vars
  BY <1>3, <1>5, <1>9 DEF vars
<1>10. QED
  BY <1>1, <1>3, <1>4, <1>6, <1>7, <1>8, <1>9 DEF Next, PostStep, Read

\* What Write put in the file is still there when the lock is released.
LEMMA WrittenStep == IndInv /\ [Next]_vars => WrittenInv'
<1> SUFFICES ASSUME IndInv, [Next]_vars, "write" \notin Faults, NEW q \in Clients,
                    pc'[q] = "release"
             PROVE  (files[circle[q]][mid[q]] = post[q])'
  BY DEF WrittenInv
<1>t. /\ pc \in [Clients -> PCs] /\ circle \in [Clients -> Circles \cup {Blank}]
      /\ mid \in [Clients -> Nat] /\ post \in [Clients -> Posts \cup {Blank}]
  BY DEF IndInv, TypeOK
<1>1. CASE Write(q)
  <2>1. UNCHANGED <<circle, mid, post>>
    BY <1>1 DEF Write
  <2>2. files'[circle[q]][mid[q]] = post[q]
    BY <1>1, WriteEffect
  <2>3. QED
    BY <2>1, <2>2
<1>2. CASE ~ Write(q)
  <2>1. pc[q] = "release" /\ circle'[q] = circle[q] /\ mid'[q] = mid[q] /\ post'[q] = post[q]
    BY <1>2, <1>t, HandlerMoves DEF Goto, updateCounter, Create, WriteFails, Crash
  <2>2. \A p \in Clients : ~ Create(p) /\ ~ Write(p)
    BY <2>1 DEF IndInv, LockToken, Holders, Create, Write, InLock
  <2>3. UNCHANGED files
    BY <2>2, FilesChange
  <2>4. QED
    BY <2>1, <2>3 DEF IndInv, WrittenInv
<1>3. QED
  BY <1>1, <1>2

\* At the start there is no file and no handler, and the token is in the channel.
LEMMA IndInvInit == Init => IndInv
<1> SUFFICES ASSUME Init
             PROVE  IndInv
  OBVIOUS
<1> USE DEF Init
<1>1. Holders = {} /\ \A p \in Clients : pc[p] = "idle"
  BY DEF Holders, InLock
<1>2. \A c \in Circles : files[c] = <<>> /\ DOMAIN files[c] = {}
  OBVIOUS
<1>3. TypeOK
  <2>1. \A c \in Circles : files[c] \in [DOMAIN files[c] -> Content]
    BY <1>2
  <2>2. [p \in Clients |-> <<>>] \in [Clients -> Seq(Content)]
    OBVIOUS
  <2>3. NoRange \in Ranges
    BY DEF NoRange, Ranges
  <2>4. QED
    BY <1>2, <2>1, <2>2, <2>3, FS_EmptySet DEF TypeOK, PCs
<1>4. Dense
  BY <1>2, FS_EmptySet DEF Dense, Size
<1>5. LockToken /\ HandlerInv /\ FreshIdInv /\ WrittenInv
  BY <1>1 DEF LockToken, HandlerInv, HandlerOK, FreshIdInv, WrittenInv, Posting, InLock
<1>6. PostInv
  BY <1>1, <1>2 DEF PostInv, RefusedIsNotStored, Posting, InLock
<1>7. QED
  BY <1>3, <1>4, <1>5, <1>6 DEF IndInv

(***************************************************************************)
(* The theorems.                                                           *)
(***************************************************************************)

\* The invariant that all the others rest on holds of every behaviour of the file
\* store, with any faults and any number of restarts.
THEOREM Invariance == Spec => []IndInv
<1>1. IndInv /\ [Next]_vars => IndInv'
  BY TypeStep, LockStep, DenseStep, HandlerStep, FreshIdStep, PostInvStep, WrittenStep DEF IndInv
<1>2. QED
  BY IndInvInit, <1>1, PTL DEF Spec
\* Every variable keeps its type.
THEOREM TypeCorrect == Spec => []TypeOK
BY Invariance, PTL DEF IndInv

\* Whatever fails and whenever the server restarts, the lock has one token: posts
\* number and create their files one at a time, and the lock is never lost.
THEOREM MutualExclusion == Spec => []LockToken
BY Invariance, PTL DEF IndInv

\* Whatever fails, the ids of a circle are 1, 2, ..., n.
THEOREM SequentialIds == Spec => []Dense
BY Invariance, PTL DEF IndInv

\* Whatever fails, a post answered with 500 is not in the store and never will be.
THEOREM RefusedNeverStored == Spec => []RefusedIsNotStored
BY Invariance, PTL DEF IndInv, PostInv

\* A step changes no message that was written, if all of its directory is listed.
LEMMA KeepsMessages ==
    ASSUME IndInv, [Next]_vars, "open" \notin Faults,
           NEW c \in Circles, SmallDir(c), NEW i \in DOMAIN files[c], files[c][i] # Blank
    PROVE  i \in DOMAIN files'[c] /\ files'[c][i] = files[c][i]
<1>1. CASE \E p \in Clients : Create(p)
  <2>1. PICK p \in Clients : Create(p)
    BY <1>1
  <2>2. c # circle[p] => files'[c] = files[c]
    BY <2>1, CreateEffect
  <2>3. CASE c = circle[p]
    <3>1. pc[p] = "create"
      BY <2>1 DEF Create
    <3>2. mid[p] = Size(c) + 1
      BY <2>3, <3>1 DEF IndInv, FreshIdInv
    <3>3. Size(c) \in Nat /\ DOMAIN files[c] = 1 .. Size(c)
      BY FS_CardinalityType DEF IndInv, TypeOK, Dense, Size
    <3>4. i \in DOMAIN files[c] \ {mid[p]}
      BY <3>2, <3>3
    <3>5. QED
      BY <2>1, <2>3, <3>4, CreateEffect
  <2>4. QED
    BY <2>2, <2>3
<1>2. CASE \E p \in Clients : Write(p)
  BY <1>2, WriteEffect
<1>3. CASE UNCHANGED files
  BY <1>3
<1>4. QED
  BY <1>1, <1>2, <1>3, FilesChange

\* If a directory that exists can be opened, no post empties or replaces a message
\* while the directories have at most ReaddirLimit files.
THEOREM MessagesImmutable ==
    ASSUME "open" \notin Faults
    PROVE  Spec => Immutable
<1>1. ASSUME IndInv, [Next]_vars
      PROVE  [\A c \in Circles : \A i \in DOMAIN files[c] :
                Small /\ files[c][i] # Blank => files'[c][i] = files[c][i]]_vars
  BY <1>1, KeepsMessages DEF Small
<1>2. QED
  BY <1>1, Invariance, PTL DEF Immutable, Spec

\* If, besides, no write fails, a post answered with 200 stays in the store under
\* the id it was given.
THEOREM AckedStaysStored ==
    ASSUME "open" \notin Faults, "write" \notin Faults
    PROVE  Spec /\ []Small => []AckedIsStored
<1>1. Init => AckedIsStored
  BY DEF Init, AckedIsStored
<1>2. ASSUME IndInv, Small, AckedIsStored, [Next]_vars
      PROVE  AckedIsStored'
  <2>1. ASSUME NEW a \in acked
        PROVE  a.id \in DOMAIN files'[a.circle] /\ files'[a.circle][a.id] = a.post
    <3>1. a.circle \in Circles /\ a.post # Blank
      BY <1>2, <2>1, PostsAssumption DEF IndInv, TypeOK, Acks
    <3>2. a.id \in DOMAIN files[a.circle] /\ files[a.circle][a.id] = a.post
      BY <1>2, <2>1 DEF AckedIsStored
    <3>3. QED
      BY <1>2, <3>1, <3>2, KeepsMessages DEF Small
  <2>2. ASSUME NEW p \in Clients, Release(p)
        PROVE  AckedIsStored'
    <3>1. pc[p] = "release" /\ UNCHANGED files
      BY <2>2 DEF Release, disk
    <3>2. acked' = acked \cup {[circle |-> circle[p], id |-> mid[p], post |-> post[p]]}
      BY <2>2 DEF Release
    <3>3. mid[p] \in DOMAIN files[circle[p]] /\ files[circle[p]][mid[p]] = post[p]
      BY <1>2, <3>1 DEF IndInv, HandlerInv, HandlerOK, WrittenInv
    <3>4. QED
      BY <2>1, <3>1, <3>2, <3>3 DEF AckedIsStored
  <2>3. CASE UNCHANGED acked
    BY <2>1, <2>3 DEF AckedIsStored
  <2>4. QED
    BY <1>2, <2>2, <2>3 DEF Next, PostStep, Read, vars, history, StartPost, Stat, Mkdir,
       MkdirFails, Lock, updateCounter, Create, CreateFails, Write, WriteFails, GetLastMsg,
       GetOneMsg, GetMsgRange, ReadFile, EndRange, Crash
<1>3. QED
  BY <1>1, <1>2, Invariance, PTL DEF Spec
\* A directory whose ids are 1, 2, ..., n is a sequence of contents.
LEMMA DirIsSequence ==
    ASSUME IndInv, NEW c \in Circles
    PROVE  /\ Size(c) \in Nat
           /\ DOMAIN files[c] = 1 .. Size(c)
           /\ files[c] \in Seq(Content)
           /\ Len(files[c]) = Size(c)
<1>1. Size(c) \in Nat /\ DOMAIN files[c] = 1 .. Size(c)
  BY FS_CardinalityType DEF IndInv, TypeOK, Dense, Size
<1>2. files[c] \in [1 .. Size(c) -> Content]
  BY <1>1 DEF IndInv, TypeOK
<1>3. QED
  BY <1>1, <1>2

\* While directories are small, Create reserves the next id of the abstract log,
\* Write publishes the post there, and no other step changes the log.
LEMMA StepRefines ==
    ASSUME IndInv, Small, "open" \notin Faults, [Next]_vars
    PROVE  [Log!Next]_(Log!vars)
<1>t. DOMAIN files = Circles
  BY DEF IndInv, TypeOK
<1>1. ASSUME NEW p \in Clients, Create(p)
      PROVE  Log!Next
  <2> DEFINE c == circle[p]
  <2>1. c \in Circles /\ pc[p] = "create"
    BY <1>1, CreateEffect DEF Create
  <2>2. mid[p] = Size(c) + 1
    BY <2>1 DEF IndInv, FreshIdInv, Small
  <2>3. files' = [files EXCEPT ![c] = [i \in DOMAIN files[c] \cup {mid[p]} |->
                                         IF i = mid[p] THEN Blank ELSE files[c][i]]]
    BY <1>1, <1>t, <2>1 DEF Create
  <2>4. [i \in DOMAIN files[c] \cup {mid[p]} |-> IF i = mid[p] THEN Blank ELSE files[c][i]]
            = Append(files[c], Blank)
    <3>1. DOMAIN files[c] \cup {mid[p]} = 1 .. Size(c) + 1
      BY <2>1, <2>2, DirIsSequence
    <3>2. QED
      BY <2>1, <2>2, <3>1, DirIsSequence DEF Content
  <2>5. Log!Reserve(c)
    BY <2>3, <2>4 DEF Log!Reserve
  <2>6. QED
    BY <2>1, <2>5 DEF Log!Next
<1>2. ASSUME NEW p \in Clients, Write(p)
      PROVE  Log!Next
  <2>1. /\ circle[p] \in Circles /\ mid[p] \in DOMAIN files[circle[p]]
        /\ files[circle[p]][mid[p]] = Blank
    BY <1>2, WriteEffect
  <2>2. post[p] \in Posts /\ ~ Stored(post[p])
    BY <1>2 DEF IndInv, TypeOK, HandlerInv, HandlerOK, PostInv, Write, Posting, InLock
  <2>3. Log!Publish(circle[p], mid[p], post[p])
    BY <1>2, <2>1, <2>2 DEF Log!Publish, Log!Occurs, Stored, Write
  <2>4. QED
    BY <2>1, <2>2, <2>3 DEF Log!Next
<1>3. CASE UNCHANGED files
  BY <1>3 DEF Log!vars
<1>4. QED
  BY <1>1, <1>2, <1>3, FilesChange

\* The file store implements the message log: in behaviours whose directories stay
\* small enough to be listed, and where a directory that exists can be opened.
THEOREM RefinesMessageLog ==
    ASSUME "open" \notin Faults
    PROVE  Spec /\ []Small => ImplementsMessageLog
<1>1. Init => Log!Init
  BY DEF Init, Log!Init
<1>2. IndInv /\ Small /\ [Next]_vars => [Log!Next]_(Log!vars)
  BY StepRefines
<1>3. QED
  BY <1>1, <1>2, Invariance, PTL DEF Spec, ImplementsMessageLog, Log!Spec

(***************************************************************************)
(* What readers see.                                                       *)
(***************************************************************************)

\* While no write fails, a file is empty only between the Create and the Write of
\* the post that holds the lock, until the first restart.
THEOREM BlankOnlyInFlight ==
    ASSUME "write" \notin Faults
    PROVE  Spec => []BlankIsInFlight
<1>1. Init => BlankIsInFlight
  BY DEF Init, BlankIsInFlight
<1>2. ASSUME IndInv, BlankIsInFlight, [Next]_vars
      PROVE  BlankIsInFlight'
  <2> SUFFICES ASSUME crashes' = 0, NEW c \in Circles, NEW i \in DOMAIN files'[c],
                      files'[c][i] = Blank
               PROVE  \E p \in Clients : pc'[p] = "write" /\ circle'[p] = c /\ mid'[p] = i
    BY DEF BlankIsInFlight
  <2>t. /\ pc \in [Clients -> PCs] /\ circle \in [Clients -> Circles \cup {Blank}]
        /\ mid \in [Clients -> Nat] /\ crashes \in Nat
    BY <1>2 DEF IndInv, TypeOK
  <2>1. crashes = 0 /\ ~ Crash
    <3>1. Crash \/ UNCHANGED crashes
      BY <1>2 DEF Next, PostStep, Read, vars, StartPost, Stat, Mkdir, MkdirFails, Lock,
         updateCounter, Create, CreateFails, Write, WriteFails, Release, GetLastMsg, GetOneMsg,
         GetMsgRange, ReadFile, EndRange
    <3>2. QED
      BY <2>t, <3>1 DEF Crash
  <2>2. ASSUME NEW p \in Clients, Create(p)
        PROVE  c = circle[p] /\ i = mid[p]
    <3>1. \A q \in Clients : pc[q] # "write"
      BY <1>2, <2>2 DEF IndInv, LockToken, Holders, InLock, Create
    <3>2. \A d \in Circles : \A j \in DOMAIN files[d] : files[d][j] # Blank
      BY <1>2, <2>1, <3>1 DEF BlankIsInFlight
    <3>3. c # circle[p] => files'[c] = files[c]
      BY <1>2, <2>2, CreateEffect
    <3>4. c = circle[p] /\ i # mid[p] => i \in DOMAIN files[c] /\ files'[c][i] = files[c][i]
      BY <1>2, <2>2, CreateEffect
    <3>5. QED
      BY <3>2, <3>3, <3>4
  <2>3. ASSUME NEW p \in Clients, Write(p)
        PROVE  FALSE
    <3>1. i \in DOMAIN files[c] /\ post[p] # Blank
      BY <1>2, <2>3, WriteEffect, PostsAssumption
         DEF IndInv, TypeOK, HandlerInv, HandlerOK, Write, Posting, InLock
    <3>2. files[c][i] = Blank /\ ~ (c = circle[p] /\ i = mid[p])
      BY <1>2, <2>3, <3>1, WriteEffect
    <3>3. PICK q \in Clients : pc[q] = "write" /\ circle[q] = c /\ mid[q] = i
      BY <1>2, <2>1, <3>1, <3>2 DEF BlankIsInFlight
    <3>4. q = p
      BY <1>2, <2>3, <3>3 DEF IndInv, LockToken, Holders, InLock, Write
    <3>5. QED
      BY <3>2, <3>3, <3>4
  <2>4. ASSUME UNCHANGED files
        PROVE  \E p \in Clients : pc'[p] = "write" /\ circle'[p] = c /\ mid'[p] = i
    <3>1. PICK q \in Clients : pc[q] = "write" /\ circle[q] = c /\ mid[q] = i
      BY <1>2, <2>1, <2>4 DEF BlankIsInFlight
    <3>2. ~ Write(q) /\ ~ WriteFails(q)
      BY <2>3 DEF WriteFails
    <3>3. pc'[q] = pc[q] /\ circle'[q] = circle[q] /\ mid'[q] = mid[q]
      BY <1>2, <2>1, <3>1, <3>2, HandlerMoves DEF updateCounter, Create
    <3>4. QED
      BY <3>1, <3>3
  <2>5. ASSUME NEW p \in Clients, Create(p)
        PROVE  pc'[p] = "write" /\ circle'[p] = c /\ mid'[p] = i
    BY <2>2, <2>5, <2>t DEF Create, Goto
  <2>6. QED
    BY <1>2, <2>3, <2>4, <2>5, FilesChange
<1>3. QED
  BY <1>1, <1>2, Invariance, PTL DEF Spec

\* A directory never loses a file.
LEMMA SizeGrows ==
    ASSUME IndInv, [Next]_vars, NEW c \in Circles
    PROVE  Size(c) \in Nat /\ Size(c)' \in Nat /\ Size(c) <= Size(c)'
<1>1. TypeOK' /\ Dense'
  BY TypeStep, DenseStep
<1>2. /\ Size(c) \in Nat /\ DOMAIN files[c] = 1 .. Size(c)
      /\ Size(c)' \in Nat /\ DOMAIN files'[c] = 1 .. Size(c)'
  BY <1>1, FS_CardinalityType DEF IndInv, TypeOK, Dense, Size
<1>3. DOMAIN files[c] \subseteq DOMAIN files'[c]
  BY FilesChange, CreateEffect, WriteEffect
<1>4. Size(c) <= Size(c)'
  <2> DEFINE n == Size(c)
             k == Size(c)'
  <2>1. n \in Nat /\ k \in Nat /\ 1 .. n \subseteq 1 .. k
    BY <1>2, <1>3
  <2> HIDE DEF n, k
  <2>2. n <= k
    BY <2>1
  <2>3. QED
    BY <2>2 DEF n, k
<1>5. QED
  BY <1>2, <1>4

\* What a client was told is no more than there is; a range being read starts above
\* 0, and no more of it was read than it asks for.
RangeInv ==
    /\ \A p \in Clients, c \in Circles : told[p][c] <= Size(c)
    /\ \A p \in Clients : pc[p] = "range" =>
          /\ range[p].bottom # 0
          /\ Len(got[p]) <= range[p].top - range[p].bottom + 1

\* RangeInv is an invariant, whatever fails.
LEMMA RangeInvariance == Spec => []RangeInv
<1>1. ASSUME Init
      PROVE  RangeInv
  <2>1. \A p \in Clients, c \in Circles : told[p][c] = 0 /\ Size(c) \in Nat
    BY <1>1, IndInvInit, FS_CardinalityType DEF Init, IndInv, TypeOK, Size
  <2>2. QED
    BY <1>1, <2>1 DEF Init, RangeInv
<1>2. ASSUME IndInv, RangeInv, [Next]_vars
      PROVE  RangeInv'
  <2>t. /\ pc \in [Clients -> PCs] /\ range \in [Clients -> Ranges]
        /\ got \in [Clients -> Seq(Content)] /\ told \in [Clients -> [Circles -> Nat]]
    BY <1>2 DEF IndInv, TypeOK
  <2>1. \A p \in Clients, c \in Circles : told'[p][c] <= Size(c)'
    <3>1. ASSUME NEW p \in Readers, NEW d \in Circles, GetLastMsg(p, d),
                 NEW q \in Clients, NEW c \in Circles
          PROVE  told'[q][c] <= Size(c)'
      <4>1. PICK n \in LastMsgs(d) : told' = [told EXCEPT ![p][d] = n]
        BY <3>1 DEF GetLastMsg
      <4>2. n \in 0 .. Size(d)
        BY <1>2, <4>1, LastMsgsBounded, SizeGrows DEF IndInv
      <4>3. told'[q][c] = IF q = p /\ c = d THEN n ELSE told[q][c]
        BY <2>t, <4>1
      <4>4. told[q][c] \in Nat /\ told[q][c] <= Size(c)
        BY <1>2, <2>t DEF RangeInv
      <4>5. /\ Size(c) \in Nat /\ Size(c)' \in Nat /\ Size(c) <= Size(c)'
        BY <1>2, SizeGrows
      <4>6. QED
        BY <4>2, <4>3, <4>4, <4>5
    <3>2. ASSUME UNCHANGED told, NEW q \in Clients, NEW c \in Circles
          PROVE  told'[q][c] <= Size(c)'
      <4>1. told[q][c] \in Nat /\ told[q][c] <= Size(c)
        BY <1>2, <2>t DEF RangeInv
      <4>2. /\ Size(c) \in Nat /\ Size(c)' \in Nat /\ Size(c) <= Size(c)'
        BY <1>2, SizeGrows
      <4>3. QED
        BY <3>2, <4>1, <4>2
    <3>3. UNCHANGED told \/ \E p \in Readers, d \in Circles : GetLastMsg(p, d)
      BY <1>2 DEF Next, PostStep, Read, vars, StartPost, Stat, Mkdir, MkdirFails, Lock,
         updateCounter, Create, CreateFails, Write, WriteFails, Release, GetOneMsg, GetMsgRange,
         ReadFile, EndRange, Crash
    <3>4. QED
      BY <3>1, <3>2, <3>3
  <2> DEFINE Bounded(q) == pc'[q] = "range" =>
                /\ range'[q].bottom # 0
                /\ Len(got'[q]) <= range'[q].top - range'[q].bottom + 1
  <2>2. ASSUME NEW q \in Clients, range'[q] = range[q], got'[q] = got[q],
               pc'[q] = "range" => pc[q] = "range"
        PROVE  Bounded(q)
    BY <1>2, <2>2 DEF RangeInv
  <2>3. ASSUME NEW p \in Clients, NEW c \in Circles, NEW top \in Ids, NEW bottom \in Ids,
               GetMsgRange(p, c, top, bottom), NEW q \in Clients
        PROVE  Bounded(q)
    <3>1. /\ bottom <= top /\ bottom # 0 /\ bottom \in Nat /\ top \in Nat
          /\ range' = [range EXCEPT ![p] = [circle |-> c, top |-> top, bottom |-> bottom]]
          /\ got' = [got EXCEPT ![p] = <<>>]
          /\ pc' = [pc EXCEPT ![p] = "range"]
      BY <2>3 DEF GetMsgRange, Goto, Ids
    <3>2. CASE q = p
      BY <2>t, <3>1, <3>2
    <3>3. CASE q # p
      BY <2>2, <2>t, <3>1, <3>3
    <3>4. QED
      BY <3>2, <3>3
  <2>4. ASSUME NEW p \in Clients, ReadFile(p), NEW q \in Clients
        PROVE  Bounded(q)
    <3>1. /\ pc[p] = "range" /\ ~ NextId(p) < range[p].bottom /\ UNCHANGED <<pc, range>>
          /\ got' = [got EXCEPT ![p] = Append(got[p], files[range[p].circle][NextId(p)])]
      BY <2>4 DEF ReadFile, RangeDone
    <3>2. CASE q = p
      <4>1. /\ range[p].top \in Nat /\ range[p].bottom \in Nat /\ range[p].bottom # 0
            /\ Len(got[p]) \in Nat /\ got[p] \in Seq(Content)
        BY <1>2, <2>t, <3>1 DEF RangeInv, Ranges
      <4>2. Len(got'[p]) = Len(got[p]) + 1
        BY <2>t, <3>1, <4>1
      <4>3. QED
        BY <3>1, <3>2, <4>1, <4>2 DEF NextId
    <3>3. CASE q # p
      BY <2>2, <2>t, <3>1, <3>3
    <3>4. QED
      BY <3>2, <3>3
  <2>5. ASSUME NEW p \in Clients, NEW c \in Circles, NEW i \in Ids, GetOneMsg(p, c, i),
               NEW q \in Clients
        PROVE  Bounded(q)
    <3>1. UNCHANGED pc /\ pc[p] = "idle"
      BY <2>5 DEF GetOneMsg
    <3>2. q # p => range'[q] = range[q] /\ got'[q] = got[q]
      BY <2>5, <2>t DEF GetOneMsg
    <3>3. QED
      BY <2>2, <3>1, <3>2
  <2>6. ASSUME Crash, NEW q \in Clients
        PROVE  Bounded(q)
    BY <2>6 DEF Crash
  <2>7. ASSUME UNCHANGED <<range, got>>, NEW q \in Clients, pc'[q] = "range" => pc[q] = "range"
        PROVE  Bounded(q)
    BY <2>2, <2>7
  <2>8. ASSUME NEW q \in Clients
        PROVE  Bounded(q)
    <3>1. CASE \/ \E p \in Readers : Read(p)
               \/ \E p \in Clients : ReadFile(p)
               \/ Crash
      <4>1. ASSUME NEW p \in Readers, NEW c \in Circles, GetLastMsg(p, c)
            PROVE  Bounded(q)
        BY <2>7, <4>1 DEF GetLastMsg, reading
      <4>2. QED
        BY <2>3, <2>4, <2>5, <2>6, <3>1, <4>1, ClientsAssumption DEF Read
    <3>2. CASE ~ (\/ \E p \in Readers : Read(p)
                  \/ \E p \in Clients : ReadFile(p)
                  \/ Crash)
      <4>1. UNCHANGED <<range, got>> /\ (pc'[q] = "range" => pc[q] = "range")
        BY <1>2, <2>t, <3>2 DEF Next, PostStep, vars, reading, Goto, StartPost, Stat, Mkdir,
           MkdirFails, Lock, updateCounter, Create, CreateFails, Write, WriteFails, Release,
           EndRange
      <4>2. QED
        BY <2>7, <4>1
    <3>3. QED
      BY <3>1, <3>2
  <2>9. QED
    BY <2>1, <2>8 DEF RangeInv
<1>3. QED
  BY <1>1, <1>2, Invariance, PTL DEF Spec

\* What a client has read of a message is what the server keeps; the answers are of
\* circles the server has.
AnswerInv ==
    /\ \A p \in Clients : \A k \in DOMAIN got[p] :
          LET i == range[p].top - k + 1 IN
          got[p][k] # Blank =>
              i \in DOMAIN files[range[p].circle] /\ files[range[p].circle][i] = got[p][k]
    /\ \A p \in Clients : got[p] # <<>> => range[p].circle \in Circles

\* If a directory that exists can be opened, a message a client has read stays what
\* the server keeps under its id while the directories can be listed, and the last
\* id it was told of a circle stays within what the server has.
THEOREM AnswersHold ==
    ASSUME "open" \notin Faults
    PROVE  Spec /\ []Small => []AnswersStayTrue
<1>1. Init => AnswerInv
  BY DEF Init, AnswerInv
<1>2. ASSUME IndInv, Small, AnswerInv, [Next]_vars
      PROVE  AnswerInv'
  <2>t. /\ pc \in [Clients -> PCs] /\ range \in [Clients -> Ranges]
        /\ got \in [Clients -> Seq(Content)]
    BY <1>2 DEF IndInv, TypeOK
  <2> DEFINE Kept(q) ==
        /\ got'[q] # <<>> => range'[q].circle \in Circles
        /\ \A k \in DOMAIN got'[q] :
              LET i == range'[q].top - k + 1 IN
              got'[q][k] # Blank => i \in DOMAIN files'[range'[q].circle]
                                       /\ files'[range'[q].circle][i] = got'[q][k]
  <2>1. ASSUME NEW q \in Clients, got'[q] = <<>>
        PROVE  Kept(q)
    BY <2>1
  <2>2. ASSUME NEW q \in Clients, got'[q] = got[q], range'[q] = range[q]
        PROVE  Kept(q)
    <3> SUFFICES ASSUME NEW k \in DOMAIN got[q], got[q][k] # Blank
                 PROVE  LET i == range[q].top - k + 1 IN
                        i \in DOMAIN files'[range[q].circle]
                           /\ files'[range[q].circle][i] = got[q][k]
      BY <1>2, <2>2 DEF AnswerInv
    <3> DEFINE i == range[q].top - k + 1
               c == range[q].circle
    <3>1. c \in Circles
      BY <1>2, <2>t DEF AnswerInv
    <3>2. i \in DOMAIN files[c] /\ files[c][i] = got[q][k]
      BY <1>2 DEF AnswerInv
    <3>3. i \in DOMAIN files'[c] /\ files'[c][i] = files[c][i]
      BY <1>2, <3>1, <3>2, KeepsMessages DEF Small
    <3>4. QED
      BY <3>2, <3>3
  <2>3. ASSUME NEW p \in Clients, NEW c \in Circles, NEW i \in Ids, GetOneMsg(p, c, i)
        PROVE  \A q \in Clients : Kept(q)
    <3>1. /\ i \in DOMAIN files[c] /\ got'[p] = <<files[c][i]>> /\ UNCHANGED files
          /\ range'[p].circle = c /\ range'[p].top = i
          /\ \A q \in Clients \ {p} : got'[q] = got[q] /\ range'[q] = range[q]
      BY <2>3, <2>t DEF GetOneMsg, disk
    <3>2. Kept(p)
      BY <3>1 DEF Ids
    <3>3. QED
      BY <2>2, <3>1, <3>2
  <2>4. ASSUME NEW p \in Clients, ReadFile(p)
        PROVE  \A q \in Clients : Kept(q)
    <3> DEFINE c == range[p].circle
    <3>1. /\ pc[p] = "range" /\ NextId(p) \in DOMAIN files[c] /\ UNCHANGED <<files, range>>
          /\ got'[p] = Append(got[p], files[c][NextId(p)])
          /\ \A q \in Clients \ {p} : got'[q] = got[q]
      BY <2>4, <2>t DEF ReadFile, RangeDone, disk
    <3>2. c \in Circles /\ range[p].top \in Nat /\ got[p] \in Seq(Content)
      BY <1>2, <2>t, <3>1 DEF IndInv, HandlerInv, HandlerOK, Ranges
    <3>3. files[c][NextId(p)] \in Content
      BY <1>2, <3>1, <3>2 DEF IndInv, TypeOK
    <3>4. ASSUME NEW k \in DOMAIN got'[p], got'[p][k] # Blank
          PROVE  range[p].top - k + 1 \in DOMAIN files[c]
                    /\ files[c][range[p].top - k + 1] = got'[p][k]
      <4>1. CASE k \in DOMAIN got[p]
        <5>1. got'[p][k] = got[p][k]
          BY <3>1, <3>2, <3>3, <4>1
        <5>2. QED
          BY <1>2, <3>4, <4>1, <5>1 DEF AnswerInv
      <4>2. CASE k = Len(got[p]) + 1
        <5>1. got'[p][k] = files[c][NextId(p)]
          BY <3>1, <3>2, <3>3, <4>2
        <5>2. range[p].top - k + 1 = NextId(p)
          <6>1. Len(got[p]) \in Nat
            BY <3>2
          <6>2. QED
            BY <3>2, <4>2, <6>1 DEF NextId
        <5>3. QED
          BY <3>1, <5>1, <5>2
      <4>3. QED
        BY <3>1, <3>2, <3>3, <4>1, <4>2
    <3>5. Kept(p)
      BY <3>1, <3>2, <3>4
    <3>6. QED
      BY <2>2, <3>1, <3>5
  <2>5. ASSUME NEW p \in Clients, NEW c \in Circles, NEW top \in Ids, NEW bottom \in Ids,
               GetMsgRange(p, c, top, bottom)
        PROVE  \A q \in Clients : Kept(q)
    <3>1. got'[p] = <<>> /\ \A q \in Clients \ {p} : got'[q] = got[q] /\ range'[q] = range[q]
      BY <2>5, <2>t DEF GetMsgRange
    <3>2. QED
      BY <2>1, <2>2, <3>1
  <2>6. ASSUME Crash
        PROVE  \A q \in Clients : Kept(q)
    <3>1. UNCHANGED range /\ \A q \in Clients : got'[q] = <<>> \/ got'[q] = got[q]
      BY <2>6, <2>t DEF Crash
    <3>2. QED
      BY <2>1, <2>2, <3>1
  <2>7. ASSUME UNCHANGED <<range, got>>
        PROVE  \A q \in Clients : Kept(q)
    BY <2>2, <2>7
  <2>8. \A q \in Clients : Kept(q)
    BY <1>2, <2>3, <2>4, <2>5, <2>6, <2>7, ClientsAssumption DEF Next, PostStep, Read, vars,
       reading, StartPost, Stat, Mkdir, MkdirFails, Lock, updateCounter, Create, CreateFails,
       Write, WriteFails, Release, GetLastMsg, EndRange
  <2>9. QED
    BY <2>8 DEF AnswerInv
<1>3. AnswerInv /\ RangeInv => AnswersStayTrue
  BY DEF AnswerInv, RangeInv, AnswersStayTrue
<1>4. QED
  BY <1>1, <1>2, <1>3, Invariance, RangeInvariance, PTL DEF Spec

\* If a file that exists can be opened, a range that starts at the last id a client
\* was told, or below it, is answered in full, whatever else fails: the loop of
\* GetMsgs meets no missing file.  (An os.Open that fails ends the answer early.)
THEOREM RangesComplete ==
    ASSUME "open" \notin Faults
    PROVE  Spec => RangeIsComplete
<1>1. ASSUME IndInv, RangeInv, [Next]_vars, NEW p \in Readers,
             pc[p] = "range", pc'[p] = "idle", crashes' = crashes,
             range[p].top <= told[p][range[p].circle]
      PROVE  Len(got[p]) = range[p].top - range[p].bottom + 1
  <2> DEFINE c == range[p].circle
  <2>t. /\ pc \in [Clients -> PCs] /\ p \in Clients /\ crashes \in Nat
        /\ c \in Circles /\ range[p].top \in Nat /\ range[p].bottom \in Nat
        /\ Len(got[p]) \in Nat /\ told[p][c] \in Nat
    BY <1>1, ClientsAssumption DEF IndInv, TypeOK, HandlerInv, HandlerOK, Ranges
  <2>1. EndRange(p)
    <3>1. ~ Crash
      BY <1>1, <2>t DEF Crash
    <3>2. QED
      BY <1>1, <2>t, <3>1 DEF Next, PostStep, Read, vars, Goto, StartPost, Stat, Mkdir,
         MkdirFails, Lock, updateCounter, Create, CreateFails, Write, WriteFails, Release,
         GetLastMsg, GetOneMsg, GetMsgRange, ReadFile, EndRange
  <2>2. /\ Size(c) \in Nat /\ DOMAIN files[c] = 1 .. Size(c) /\ told[p][c] <= Size(c)
        /\ range[p].bottom # 0 /\ Len(got[p]) <= range[p].top - range[p].bottom + 1
    BY <1>1, <2>t, FS_CardinalityType DEF IndInv, TypeOK, Dense, Size, RangeInv
  <2>3. NextId(p) < range[p].bottom \/ NextId(p) \notin DOMAIN files[c]
    BY <2>1 DEF EndRange, RangeDone
  <2> DEFINE next == range[p].top - Len(got[p])
  <2>4. next \in Int /\ next <= Size(c)
    BY <1>1, <2>t, <2>2
  <2>5. next < range[p].bottom
    BY <2>t, <2>2, <2>3, <2>4 DEF NextId
  <2>6. QED
    BY <2>t, <2>2, <2>5
<1>2. IndInv /\ RangeInv /\ [Next]_vars =>
         [\A p \in Readers :
             pc[p] = "range" /\ pc'[p] = "idle" /\ crashes' = crashes
                /\ range[p].top <= told[p][range[p].circle]
             => Len(got[p]) = range[p].top - range[p].bottom + 1]_vars
  BY <1>1
<1>3. QED
  BY <1>2, Invariance, RangeInvariance, PTL DEF RangeIsComplete, Spec

=============================================================================
