-------------------------- MODULE TiedotStoreProofs -------------------------
(***************************************************************************)
(* Theorems about TiedotStore, for every value of its constants: any       *)
(* number of clients, circles, posts and restarts, and any faults.         *)
(***************************************************************************)
EXTENDS TiedotStore, TLAPS

USE ClientsAssumption, PostsAssumption, LimitsAssumption, FaultsAssumption

(***************************************************************************)
(* The steps that change a collection.                                     *)
(***************************************************************************)

\* A collection without messages.
LEMMA NoMsgsEmpty == NoMsgs \in [{} -> Posts] /\ DOMAIN NoMsgs = {}
BY DEF NoMsgs, Restrict

\* Two handlers that hold the lock are one.
LEMMA HolderAlone ==
    ASSUME IndInv, NEW p \in Clients, NEW q \in Clients, pc[p] \in InLock, pc[q] \in InLock
    PROVE  p = q
BY DEF IndInv, LockInv, Holders

\* What an insert does to the collections: the id is new, the others are kept.
LEMMA InsertEffect ==
    ASSUME IndInv, NEW p \in Clients, pc[p] = "insert", InsertDoc(p)
    PROVE  /\ circle[p] \in Circles /\ post[p] \in sent /\ post[p] \in Posts
           /\ mid[p] = last[circle[p]] /\ mid[p] \in Nat \ {0}
           /\ mid[p] \notin DOMAIN docs[circle[p]]
           /\ DOMAIN docs' = Circles
           /\ \A c \in Circles \ {circle[p]} : docs'[c] = docs[c]
           /\ DOMAIN docs'[circle[p]] = DOMAIN docs[circle[p]] \cup {mid[p]}
           /\ docs'[circle[p]][mid[p]] = post[p]
           /\ \A i \in DOMAIN docs[circle[p]] : docs'[circle[p]][i] = docs[circle[p]][i]
           /\ docs'[circle[p]] \in [DOMAIN docs'[circle[p]] -> Posts]
<1> DEFINE c == circle[p]
           i == mid[p]
<1>1. /\ c \in Circles /\ post[p] \in sent /\ post[p] \in Posts
      /\ i = last[c] /\ i \in Nat \ {0} /\ i \notin DOMAIN docs[c]
  BY DEF IndInv, HandlerInv, HandlerOK, TypeOK, Posting, InLock
<1>2. DOMAIN docs = Circles /\ docs[c] \in [DOMAIN docs[c] -> Posts]
  BY <1>1 DEF IndInv, TypeOK
<1>3. docs' = [docs EXCEPT ![c] = [j \in DOMAIN docs[c] \cup {i} |->
                                     IF j = i THEN post[p] ELSE docs[c][j]]]
  BY DEF InsertDoc
<1>4. docs'[c] = [j \in DOMAIN docs[c] \cup {i} |-> IF j = i THEN post[p] ELSE docs[c][j]]
  BY <1>1, <1>2, <1>3
<1>5. \A d \in Circles \ {c} : docs'[d] = docs[d]
  BY <1>2, <1>3
<1>6. DOMAIN docs' = Circles
  BY <1>2, <1>3
<1>7. QED
  BY <1>1, <1>2, <1>4, <1>5, <1>6

\* Only Insert, and InsertFails when the error comes late, touch the messages.
LEMMA DocsChange ==
    ASSUME [Next]_vars
    PROVE  \/ UNCHANGED docs
           \/ \E p \in Clients : /\ pc[p] = "insert" /\ InsertDoc(p) /\ Goto(p, "idle")
                                 /\ UNCHANGED <<last, request, reading, sent>>
BY DEF Next, PostStep, ReadStep, vars, database, StartPost, CreateDB, Lock, QueryLast,
       QueryLastPanics, UpdateLast, UpdateLastPanics, Insert, InsertFails, GetLastMsg,
       GetMsgRange, GetMsg, GetMsgFails, EndRange, Crash

\* The last id is changed by the second half of updateCounter alone.
LEMMA LastChange ==
    ASSUME [Next]_vars
    PROVE  \/ UNCHANGED last
           \/ \E p \in Clients : pc[p] = "update" /\ SetLast(p) /\ UNCHANGED <<docs, request, sent>>
BY DEF Next, PostStep, ReadStep, vars, database, StartPost, CreateDB, Lock, QueryLast,
       QueryLastPanics, UpdateLast, UpdateLastPanics, Insert, InsertFails, GetLastMsg,
       GetMsgRange, GetMsg, GetMsgFails, EndRange, Crash

\* What it does: the last id of the circle of the post goes up by one.
LEMMA SetLastEffect ==
    ASSUME IndInv, NEW p \in Clients, pc[p] = "update", SetLast(p)
    PROVE  /\ circle[p] \in Circles /\ last[circle[p]] \in Nat
           /\ mid[p] = last[circle[p]] + 1
           /\ last' \in [Circles -> Nat]
           /\ last'[circle[p]] = mid[p]
           /\ \A c \in Circles \ {circle[p]} : last'[c] = last[c]
<1>1. circle[p] \in Circles /\ mid[p] = last[circle[p]] + 1
  BY DEF IndInv, HandlerInv, HandlerOK, Posting, InLock
<1>2. last \in [Circles -> Nat]
  BY DEF IndInv, TypeOK
<1>3. last' = [last EXCEPT ![circle[p]] = mid[p]]
  BY DEF SetLast
<1>4. QED
  BY <1>1, <1>2, <1>3

(***************************************************************************)
(* IndInv is inductive: one lemma per conjunct.                            *)
(***************************************************************************)

\* Every step leaves every variable in its type.
LEMMA TypeStep == IndInv /\ [Next]_vars => TypeOK'
<1> SUFFICES ASSUME IndInv, [Next]_vars
             PROVE  TypeOK'
  OBVIOUS
<1>t. TypeOK
  BY DEF IndInv
<1>u. last' \in [Circles -> Nat]
  BY <1>t, LastChange, SetLastEffect DEF TypeOK
<1>v. /\ DOMAIN docs' = Circles
      /\ \A c \in Circles : docs'[c] \in [DOMAIN docs'[c] -> Posts] /\ DOMAIN docs'[c] \subseteq Nat \ {0}
  <2>1. CASE UNCHANGED docs
    BY <1>t, <2>1 DEF TypeOK
  <2>2. ASSUME NEW p \in Clients, pc[p] = "insert", InsertDoc(p), NEW c \in Circles
        PROVE  /\ DOMAIN docs' = Circles
               /\ docs'[c] \in [DOMAIN docs'[c] -> Posts] /\ DOMAIN docs'[c] \subseteq Nat \ {0}
    <3>1. docs[c] \in [DOMAIN docs[c] -> Posts] /\ DOMAIN docs[c] \subseteq Nat \ {0}
      BY <1>t DEF TypeOK
    <3>2. CASE c = circle[p]
      BY <2>2, <3>1, <3>2, InsertEffect
    <3>3. CASE c # circle[p]
      BY <2>2, <3>1, <3>3, InsertEffect
    <3>4. QED
      BY <3>2, <3>3
  <2>3. QED
    BY <2>1, <2>2, InsertEffect, DocsChange
<1>w. ASSUME NEW c \in Circles, NEW P \in SUBSET {"Id", "last"}, createDB(c, P)
      PROVE  cols' \subseteq Circles /\ indexed' \in [Circles -> SUBSET {"Id", "last"}]
  <2> DEFINE S == indexed[c] \cup P \cup (IF c \in cols THEN {"Id"} ELSE {})
  <2>1. S \in SUBSET {"Id", "last"}
    BY <1>t DEF TypeOK
  <2>2. indexed' = [indexed EXCEPT ![c] = S] /\ cols' = cols \cup {c}
    BY <1>w DEF createDB
  <2> HIDE DEF S
  <2>3. QED
    BY <1>t, <2>1, <2>2 DEF TypeOK
<1>x. \A p \in Clients : /\ pc[p] \in Posting => circle[p] \in Circles
                         /\ pc[p] = "range" => range[p].circle \in Circles
  BY DEF IndInv, HandlerInv, HandlerOK
<1> USE DEF TypeOK, PCs, Posting, InLock, Goto, database, request, reading
<1>1. ASSUME NEW p \in Writers, NEW c \in Circles, NEW m \in Posts, StartPost(p, c, m)
      PROVE  TypeOK'
  BY <1>1, <1>t DEF StartPost
<1>2. ASSUME NEW p \in Clients, CreateDB(p) \/ QueryLastPanics(p)
      PROVE  TypeOK'
  BY <1>2, <1>t, <1>w, <1>x DEF CreateDB, QueryLastPanics
<1>3. ASSUME NEW p \in Clients, Lock(p)
      PROVE  TypeOK'
  BY <1>3, <1>t DEF Lock
<1>4. ASSUME NEW p \in Clients, QueryLast(p)
      PROVE  TypeOK'
  <2>1. last[circle[p]] + 1 \in Nat /\ circle[p] \in Circles
    BY <1>4, <1>t, <1>x DEF QueryLast
  <2>2. QED
    BY <1>4, <1>t, <1>w, <2>1 DEF QueryLast
<1>5. ASSUME NEW p \in Clients, UpdateLast(p) \/ UpdateLastPanics(p)
      PROVE  TypeOK'
  BY <1>5, <1>t, <1>u DEF UpdateLast, UpdateLastPanics
<1>6. ASSUME NEW p \in Clients, Insert(p)
      PROVE  TypeOK'
  <2>1. circle[p] \in Circles /\ mid[p] \in Nat \ {0} /\ post[p] \in Posts
    BY <1>6, InsertEffect DEF Insert
  <2>2. QED
    BY <1>6, <1>t, <1>v, <2>1 DEF Insert
<1>7. ASSUME NEW p \in Clients, InsertFails(p)
      PROVE  TypeOK'
  BY <1>7, <1>t, <1>v DEF InsertFails
<1>8. ASSUME NEW p \in Readers, NEW c \in Circles, GetLastMsg(p, c)
      PROVE  TypeOK'
  BY <1>8, <1>t, <1>w DEF GetLastMsg
<1>9. ASSUME NEW p \in Readers, NEW c \in Circles, NEW top \in Ids, NEW bottom \in Ids,
             GetMsgRange(p, c, top, bottom)
      PROVE  TypeOK'
  <2>1. [circle |-> c, top |-> top, bottom |-> bottom]
            \in [circle : Circles \cup {Blank}, top : Nat, bottom : Nat]
    BY DEF Ids
  <2>2. /\ pc' = [pc EXCEPT ![p] = "range"] /\ got' = [got EXCEPT ![p] = <<>>]
        /\ range' = [range EXCEPT ![p] = [circle |-> c, top |-> top, bottom |-> bottom]]
        /\ UNCHANGED <<database, tokens, request, sent, acked, lost, crashes>>
    BY <1>9 DEF GetMsgRange, Goto
  <2>3. /\ range' \in [Clients -> [circle : Circles \cup {Blank}, top : Nat, bottom : Nat]]
        /\ got' \in [Clients -> Seq(Posts)] /\ pc' \in [Clients -> PCs]
    BY <1>t, <2>1, <2>2 DEF TypeOK
  <2>4. QED
    BY <1>t, <2>2, <2>3 DEF TypeOK, database, request
<1>10. ASSUME NEW p \in Clients, GetMsg(p)
       PROVE  TypeOK'
  <2>1. range[p].circle \in Circles /\ docs[range[p].circle][NextId(p)] \in Posts
    BY <1>10, <1>t, <1>x DEF GetMsg
  <2>2. QED
    BY <1>10, <1>t, <1>w, <2>1 DEF GetMsg
<1>11. ASSUME NEW p \in Clients, GetMsgFails(p)
       PROVE  TypeOK'
  <2>1. cols' \subseteq Circles /\ indexed' \in [Circles -> SUBSET {"Id", "last"}]
    BY <1>11, <1>w, <1>x DEF GetMsgFails
  <2>2. <<>> \in Seq(Posts)
    OBVIOUS
  <2>3. QED
    BY <1>11, <1>t, <2>1, <2>2 DEF GetMsgFails
<1>12. ASSUME NEW p \in Clients, EndRange(p)
       PROVE  TypeOK'
  BY <1>12, <1>t DEF EndRange
<1>13. CASE Crash
  <2>1. <<>> \in Seq(Posts)
    OBVIOUS
  <2>2. got' \in [Clients -> Seq(Posts)]
    BY <1>13, <1>t, <2>1 DEF Crash
  <2>3. /\ UNCHANGED <<cols, indexed, last, docs, circle, post, mid, range, sent, acked>>
        /\ tokens' = 1 /\ lost' = FALSE /\ crashes' = crashes + 1
        /\ pc' = [p \in Clients |-> "idle"]
    BY <1>13 DEF Crash
  <2>4. tokens' \in Nat /\ crashes' \in Nat
    BY <1>t, <2>3
  <2>5. pc' \in [Clients -> PCs]
    BY <2>3
  <2>6. lost' \in BOOLEAN
    BY <2>3
  <2>7. QED
    BY <1>t, <2>2, <2>3, <2>4, <2>5, <2>6
<1>14. CASE UNCHANGED vars
  BY <1>14, <1>t DEF vars
<1>15. QED
  BY <1>1, <1>2, <1>3, <1>4, <1>5, <1>6, <1>7, <1>8, <1>9, <1>10, <1>11, <1>12, <1>13, <1>14
     DEF Next, PostStep, ReadStep

\* The token of the lock channel goes to one handler at a time; a failure under the
\* lock takes it away for good.
LEMMA LockStep == IndInv /\ [Next]_vars => LockInv'
<1> SUFFICES ASSUME IndInv, [Next]_vars
             PROVE  LockInv'
  OBVIOUS
<1>t. pc \in [Clients -> PCs] /\ lost \in BOOLEAN /\ LockInv
  BY DEF IndInv, TypeOK
<1> USE DEF LockInv, Holders
<1>1. ASSUME Holders' = Holders, UNCHANGED <<tokens, lost>>
      PROVE  LockInv'
  BY <1>1, <1>t
<1>2. ASSUME NEW p \in Clients, pc[p] \notin InLock, NEW l \in PCs \ InLock, Goto(p, l),
             UNCHANGED <<tokens, lost>>
      PROVE  LockInv'
  BY <1>1, <1>2, <1>t DEF Goto
<1>3. ASSUME NEW p \in Clients, pc[p] \in InLock, NEW l \in InLock, Goto(p, l),
             UNCHANGED <<tokens, lost>>
      PROVE  LockInv'
  BY <1>1, <1>3, <1>t DEF Goto
<1>4. ASSUME NEW p \in Clients, pc[p] \in InLock, Goto(p, "idle"),
             \/ tokens' = tokens + 1 /\ UNCHANGED lost
             \/ UNCHANGED tokens /\ lost' = TRUE
      PROVE  LockInv'
  <2>1. Holders = {p} /\ tokens = 0 /\ lost = FALSE
    BY <1>4, <1>t
  <2>2. Holders' = {}
    BY <1>4, <1>t, <2>1 DEF Goto, InLock
  <2>3. QED
    BY <1>4, <2>1, <2>2
<1>5. ASSUME NEW p \in Clients, Lock(p)
      PROVE  LockInv'
  <2>1. Holders = {} /\ tokens = 1 /\ ~ lost
    BY <1>5, <1>t DEF Lock
  <2>2. Holders' = {p}
    BY <1>5, <1>t, <2>1 DEF Lock, Goto, InLock
  <2>3. QED
    BY <1>5, <2>1, <2>2 DEF Lock
<1>6. ASSUME NEW p \in Clients,
             \/ \E c \in Circles, m \in Posts : StartPost(p, c, m)
             \/ CreateDB(p)
             \/ \E c \in Circles, top, bottom \in Ids : GetMsgRange(p, c, top, bottom)
             \/ GetMsgFails(p) \/ EndRange(p)
      PROVE  LockInv'
  <2>1. \E l \in PCs \ InLock : pc[p] \notin InLock /\ Goto(p, l) /\ UNCHANGED <<tokens, lost>>
    BY <1>6 DEF StartPost, CreateDB, GetMsgRange, GetMsgFails, EndRange, PCs, InLock
  <2>2. QED
    BY <1>2, <2>1
<1>7. ASSUME NEW p \in Clients, QueryLast(p) \/ UpdateLast(p)
      PROVE  LockInv'
  <2>1. \E l \in InLock : pc[p] \in InLock /\ Goto(p, l) /\ UNCHANGED <<tokens, lost>>
    BY <1>7 DEF QueryLast, UpdateLast, InLock
  <2>2. QED
    BY <1>3, <2>1
<1>8. ASSUME NEW p \in Clients,
             QueryLastPanics(p) \/ UpdateLastPanics(p) \/ Insert(p) \/ InsertFails(p)
      PROVE  LockInv'
  BY <1>4, <1>8 DEF QueryLastPanics, UpdateLastPanics, Insert, InsertFails, InLock
<1>9. ASSUME UNCHANGED <<pc, tokens, lost>>
      PROVE  LockInv'
  BY <1>1, <1>9
<1>10. CASE Crash
  BY <1>10 DEF Crash, InLock
<1>11. QED
  BY <1>5, <1>6, <1>7, <1>8, <1>9, <1>10, ClientsAssumption DEF Next, PostStep, ReadStep, vars,
     GetLastMsg, GetMsg

\* Ids stay below the last one, and what is stored was posted.
LEMMA StoreStep == IndInv /\ [Next]_vars => StoreInv' /\ AckedIsStored'
<1> SUFFICES ASSUME IndInv, [Next]_vars
             PROVE  StoreInv' /\ AckedIsStored'
  OBVIOUS
<1>t. /\ TypeOK /\ StoreInv /\ AckedIsStored
      /\ \A c \in Circles : last[c] \in Nat
  BY DEF IndInv, TypeOK
<1>s. sent \subseteq sent'
  BY DEF Next, PostStep, ReadStep, vars, StartPost, CreateDB, Lock, QueryLast, QueryLastPanics,
     UpdateLast, UpdateLastPanics, Insert, InsertFails, GetLastMsg, GetMsgRange, GetMsg,
     GetMsgFails, EndRange, Crash
<1>1. \A c \in Circles : last'[c] \in Nat /\ last[c] <= last'[c]
  <2>1. ASSUME NEW p \in Clients, pc[p] = "update", SetLast(p), NEW c \in Circles
        PROVE  last'[c] \in {last[c], last[c] + 1}
    BY <2>1, SetLastEffect
  <2>2. \A c \in Circles : last'[c] \in {last[c], last[c] + 1}
    BY <2>1, LastChange
  <2>3. QED
    BY <1>t, <2>2
<1>2. \A c \in Circles : \A i \in DOMAIN docs[c] :
         i \in DOMAIN docs'[c] /\ docs'[c][i] = docs[c][i]
  BY DocsChange, InsertEffect
<1>3. ASSUME UNCHANGED docs
      PROVE  StoreInv'
  BY <1>1, <1>3, <1>s, <1>t DEF StoreInv
<1>4. ASSUME NEW p \in Clients, pc[p] = "insert", InsertDoc(p), UNCHANGED last
      PROVE  StoreInv'
  <2> SUFFICES ASSUME NEW c \in Circles
               PROVE  /\ DOMAIN docs'[c] \subseteq 1 .. last'[c]
                      /\ \A i \in DOMAIN docs'[c] : docs'[c][i] \in sent'
    BY DEF StoreInv
  <2>1. DOMAIN docs[c] \subseteq 1 .. last[c] /\ \A i \in DOMAIN docs[c] : docs[c][i] \in sent'
    BY <1>s, <1>t DEF StoreInv
  <2>2. CASE c # circle[p]
    BY <1>4, <2>1, <2>2, InsertEffect
  <2>3. CASE c = circle[p]
    <3>1. /\ post[p] \in sent' /\ mid[p] \in 1 .. last[c]
          /\ DOMAIN docs'[c] = DOMAIN docs[c] \cup {mid[p]} /\ docs'[c][mid[p]] = post[p]
          /\ \A i \in DOMAIN docs[c] : docs'[c][i] = docs[c][i]
      BY <1>4, <1>s, <2>3, InsertEffect
    <3>2. QED
      BY <1>4, <2>1, <3>1
  <2>4. QED
    BY <2>2, <2>3
<1>5. StoreInv'
  BY <1>3, <1>4, DocsChange
<1>6. \A a \in acked : a.id \in DOMAIN docs'[a.circle] /\ docs'[a.circle][a.id] = a.post
  <2> SUFFICES ASSUME NEW a \in acked
               PROVE  a.id \in DOMAIN docs'[a.circle] /\ docs'[a.circle][a.id] = a.post
    OBVIOUS
  <2>1. a.circle \in Circles
    BY <1>t DEF TypeOK
  <2>2. a.id \in DOMAIN docs[a.circle] /\ docs[a.circle][a.id] = a.post
    BY <1>t DEF AckedIsStored
  <2>3. QED
    BY <1>2, <2>1, <2>2
<1>7. ASSUME NEW p \in Clients, Insert(p)
      PROVE  AckedIsStored'
  <2>1. mid[p] \in DOMAIN docs'[circle[p]] /\ docs'[circle[p]][mid[p]] = post[p]
    BY <1>7, InsertEffect DEF Insert
  <2>2. acked' = acked \cup {[circle |-> circle[p], id |-> mid[p], post |-> post[p]]}
    BY <1>7 DEF Insert
  <2>3. QED
    BY <1>6, <2>1, <2>2 DEF AckedIsStored
<1>8. ASSUME UNCHANGED acked
      PROVE  AckedIsStored'
  BY <1>6, <1>8 DEF AckedIsStored
<1>9. UNCHANGED acked \/ \E p \in Clients : Insert(p)
  BY DEF Next, PostStep, ReadStep, vars, StartPost, CreateDB, Lock, QueryLast, QueryLastPanics,
     UpdateLast, UpdateLastPanics, InsertFails, GetLastMsg, GetMsgRange, GetMsg, GetMsgFails,
     EndRange, Crash
<1>10. QED
  BY <1>5, <1>7, <1>8, <1>9

\* What a handler that holds the lock has read stays so until it lets go, and no
\* two handlers have one post.
LEMMA HandlerStep == IndInv /\ [Next]_vars => HandlerInv'
<1> SUFFICES ASSUME IndInv, [Next]_vars
             PROVE  HandlerInv'
  OBVIOUS
<1>t. /\ HandlerInv /\ StoreInv
      /\ pc \in [Clients -> PCs] /\ circle \in [Clients -> Circles \cup {Blank}]
      /\ post \in [Clients -> Posts \cup {Blank}] /\ mid \in [Clients -> Nat]
      /\ last \in [Circles -> Nat] /\ DOMAIN range = Clients
  BY DEF IndInv, TypeOK
<1> USE DEF HandlerInv, HandlerOK, Goto, Posting, InLock
<1>1. ASSUME NEW p \in Writers, NEW c \in Circles, NEW m \in Posts, StartPost(p, c, m)
      PROVE  HandlerInv'
  <2>1. /\ m \notin sent /\ sent' = sent \cup {m} /\ pc' = [pc EXCEPT ![p] = "create"]
        /\ circle' = [circle EXCEPT ![p] = c] /\ post' = [post EXCEPT ![p] = m]
        /\ UNCHANGED <<last, docs, mid, range>>
    BY <1>1 DEF StartPost, database, reading
  <2>2. ~ Stored(m) /\ \A q \in Clients : pc[q] \in Posting => post[q] # m
    BY <1>t, <2>1 DEF Stored, StoreInv
  <2>3. \A q \in Clients \ {p} : pc'[q] = pc[q] /\ circle'[q] = circle[q] /\ post'[q] = post[q]
    BY <1>t, <2>1
  <2>4. pc'[p] = "create" /\ circle'[p] = c /\ post'[p] = m
    BY <1>t, <2>1
  <2>5. \A x : Stored(x)' <=> Stored(x)
    BY <2>1 DEF Stored
  <2>6. QED
    BY <1>t, <2>1, <2>2, <2>3, <2>4, <2>5
<1>2. ASSUME UNCHANGED <<docs, circle, post, sent>>,
             \A q \in Clients :
                /\ pc'[q] = "range" => range'[q].circle \in Circles
                /\ pc'[q] \in Posting => pc[q] \in Posting
                /\ pc'[q] = "update" => mid'[q] = last'[circle[q]] + 1
                /\ pc'[q] = "insert" => /\ mid'[q] = last'[circle[q]]
                                        /\ mid'[q] \notin DOMAIN docs[circle[q]] \cup {0}
      PROVE  HandlerInv'
  <2>1. \A x : Stored(x)' <=> Stored(x)
    BY <1>2 DEF Stored
  <2>2. QED
    BY <1>2, <1>t, <2>1
<1>3. ASSUME UNCHANGED <<last, docs, request, sent>>,
             \A q \in Clients :
                /\ pc'[q] = "range" => range'[q].circle \in Circles
                /\ pc'[q] \in Posting => pc[q] \in Posting
                /\ pc'[q] \in {"update", "insert"} => pc'[q] = pc[q]
      PROVE  HandlerInv'
  BY <1>2, <1>3, <1>t DEF request
<1>4. ASSUME NEW p \in Clients, CreateDB(p) \/ Lock(p) \/ QueryLastPanics(p)
      PROVE  HandlerInv'
  <2>1. UNCHANGED <<last, docs, request, sent, range>>
    BY <1>4 DEF CreateDB, Lock, QueryLastPanics, database, reading
  <2>2. \E l \in {"lock", "count", "idle"} : Goto(p, l) /\ pc[p] \in Posting
    BY <1>4 DEF CreateDB, Lock, QueryLastPanics
  <2>3. QED
    BY <1>3, <1>t, <2>1, <2>2
<1>5. ASSUME NEW p \in Clients, QueryLast(p)
      PROVE  HandlerInv'
  <2>1. /\ pc[p] = "count" /\ pc' = [pc EXCEPT ![p] = "update"]
        /\ mid' = [mid EXCEPT ![p] = last[circle[p]] + 1]
        /\ UNCHANGED <<last, docs, circle, post, range, sent>>
    BY <1>5 DEF QueryLast, reading
  <2>2. QED
    BY <1>2, <1>t, <2>1
<1>6. ASSUME NEW p \in Clients, UpdateLast(p) \/ UpdateLastPanics(p)
      PROVE  HandlerInv'
  <2>1. /\ pc[p] = "update" /\ UNCHANGED <<docs, request, range, sent>>
        /\ (SetLast(p) /\ Goto(p, "insert")) \/ Goto(p, "idle")
    BY <1>6 DEF UpdateLast, UpdateLastPanics, reading
  <2>2. \A q \in Clients \ {p} : pc[q] \notin InLock /\ pc'[q] = pc[q]
    BY <1>t, <2>1, HolderAlone
  <2>3. CASE SetLast(p) /\ Goto(p, "insert")
    <3>1. /\ circle[p] \in Circles /\ last[circle[p]] \in Nat /\ last'[circle[p]] = mid[p]
          /\ mid[p] = last[circle[p]] + 1
      BY <2>1, <2>3, SetLastEffect
    <3>2. mid[p] \notin DOMAIN docs[circle[p]] \cup {0}
      BY <1>t, <3>1 DEF StoreInv
    <3>3. QED
      BY <1>2, <1>t, <2>1, <2>2, <2>3, <3>1, <3>2 DEF request
  <2>4. CASE Goto(p, "idle")
    BY <1>2, <1>t, <2>1, <2>2, <2>4 DEF request
  <2>5. QED
    BY <2>1, <2>3, <2>4
<1>7. ASSUME NEW p \in Clients, Insert(p) \/ InsertFails(p)
      PROVE  HandlerInv'
  <2>1. /\ pc[p] = "insert" /\ pc' = [pc EXCEPT ![p] = "idle"]
        /\ UNCHANGED <<last, circle, post, mid, range, sent>>
        /\ InsertDoc(p) \/ UNCHANGED docs
    BY <1>7 DEF Insert, InsertFails, request, reading
  <2>2. \A q \in Clients \ {p} : pc[q] \notin InLock /\ pc'[q] = pc[q]
    BY <1>t, <2>1, HolderAlone
  <2>3. CASE UNCHANGED docs
    BY <1>3, <1>t, <2>1, <2>3 DEF request
  <2>4. CASE InsertDoc(p)
    <3>1. \A c \in Circles : \A i \in DOMAIN docs'[c] :
             docs'[c][i] = post[p] \/ (i \in DOMAIN docs[c] /\ docs'[c][i] = docs[c][i])
      <4> SUFFICES ASSUME NEW c \in Circles, NEW i \in DOMAIN docs'[c]
                   PROVE  docs'[c][i] = post[p] \/ (i \in DOMAIN docs[c] /\ docs'[c][i] = docs[c][i])
        OBVIOUS
      <4>1. CASE c = circle[p]
        BY <2>1, <2>4, <4>1, InsertEffect
      <4>2. CASE c # circle[p]
        BY <2>1, <2>4, <4>2, InsertEffect
      <4>3. QED
        BY <4>1, <4>2
    <3>2. \A m : Stored(m)' => Stored(m) \/ m = post[p]
      BY <3>1 DEF Stored
    <3>3. \A q \in Clients : pc'[q] \in Posting => q # p /\ pc'[q] = pc[q] /\ post[q] # post[p]
      BY <1>t, <2>1, <2>2
    <3>4. QED
      BY <1>t, <2>1, <2>2, <3>2, <3>3
  <2>5. QED
    BY <2>1, <2>3, <2>4
<1>8. ASSUME NEW p \in Readers, NEW c \in Circles, NEW top \in Ids, NEW bottom \in Ids,
             GetMsgRange(p, c, top, bottom)
      PROVE  HandlerInv'
  <2>1. /\ UNCHANGED <<last, docs, request, sent>> /\ pc' = [pc EXCEPT ![p] = "range"]
        /\ range' = [range EXCEPT ![p] = [circle |-> c, top |-> top, bottom |-> bottom]]
    BY <1>8 DEF GetMsgRange, database
  <2>2. QED
    BY <1>3, <1>t, <2>1
<1>9. ASSUME UNCHANGED <<last, docs, request, range, sent>>,
             UNCHANGED pc \/ \E p \in Clients : Goto(p, "idle")
      PROVE  HandlerInv'
  BY <1>3, <1>9, <1>t
<1>10. ASSUME NEW p \in Clients, GetMsg(p) \/ GetMsgFails(p) \/ EndRange(p)
       PROVE  HandlerInv'
  BY <1>9, <1>10 DEF GetMsg, GetMsgFails, EndRange, database, reading
<1>11. ASSUME NEW p \in Clients, NEW c \in Circles, GetLastMsg(p, c)
       PROVE  HandlerInv'
  BY <1>9, <1>11 DEF GetLastMsg, reading
<1>12. CASE Crash
  BY <1>3, <1>12 DEF Crash, database
<1>13. CASE UNCHANGED vars
  BY <1>9, <1>13 DEF vars, request
<1>14. QED
  BY <1>1, <1>4, <1>5, <1>6, <1>7, <1>8, <1>10, <1>11, <1>12, <1>13, ClientsAssumption
     DEF Next, PostStep, ReadStep

\* At the start there is no document and no handler, and the lock is free.
LEMMA IndInvInit == Init => IndInv
<1> SUFFICES ASSUME Init
             PROVE  IndInv
  OBVIOUS
<1>1. Holders = {} /\ \A p \in Clients : pc[p] = "idle"
  BY DEF Init, Holders, InLock
<1>2. \A c \in Circles : docs[c] = NoMsgs /\ DOMAIN docs[c] = {}
  BY NoMsgsEmpty DEF Init
<1>3. TypeOK
  <2>1. NoRange \in [circle : Circles \cup {Blank}, top : Nat, bottom : Nat]
    BY DEF NoRange
  <2>2. [p \in Clients |-> <<>>] \in [Clients -> Seq(Posts)]
    OBVIOUS
  <2>3. QED
    BY <2>1, <2>2, NoMsgsEmpty DEF Init, TypeOK, PCs
<1>4. LockInv /\ HandlerInv
  BY <1>1 DEF Init, LockInv, HandlerInv, HandlerOK, Posting, InLock
<1>5. StoreInv /\ AckedIsStored
  BY <1>2 DEF Init, StoreInv, AckedIsStored
<1>6. QED
  BY <1>3, <1>4, <1>5 DEF IndInv

(***************************************************************************)
(* The theorems.                                                           *)
(***************************************************************************)

\* The invariant that all the others rest on holds of every behaviour of the store,
\* whatever fails and whenever the server restarts.
THEOREM Invariance == Spec => []IndInv
<1>1. IndInv /\ [Next]_vars => IndInv'
  BY TypeStep, LockStep, HandlerStep, StoreStep DEF IndInv
<1>2. QED
  BY IndInvInit, <1>1, PTL DEF Spec

\* Every variable keeps its type.
THEOREM TypeCorrect == Spec => []TypeOK
BY Invariance, PTL DEF IndInv

\* Whatever fails, a post answered with 200 stays in the store under its id.
THEOREM AckedStaysStored == Spec => []AckedIsStored
BY Invariance, PTL DEF IndInv

\* An error or a panic under the lock ends all posting until the next restart.
THEOREM LostLockStaysLost == Spec => LostLockIsFinal
<1>1. ASSUME IndInv, [Next]_vars, lost
      PROVE  acked' = acked /\ docs' = docs /\ (lost' \/ crashes' # crashes)
  <2>1. \A p \in Clients : pc[p] # "insert"
    BY <1>1 DEF IndInv, LockInv, Holders, InLock
  <2>2. acked' = acked /\ docs' = docs
    BY <1>1, <2>1 DEF Next, PostStep, ReadStep, vars, database, StartPost, CreateDB, Lock,
       QueryLast, QueryLastPanics, UpdateLast, UpdateLastPanics, Insert, InsertFails, GetLastMsg,
       GetMsgRange, GetMsg, GetMsgFails, EndRange, Crash
  <2>3. Crash \/ UNCHANGED lost \/ lost' = TRUE
    BY <1>1 DEF Next, PostStep, ReadStep, vars, StartPost, CreateDB, Lock, QueryLast,
       QueryLastPanics, UpdateLast, UpdateLastPanics, Insert, InsertFails, GetLastMsg,
       GetMsgRange, GetMsg, GetMsgFails, EndRange
  <2>4. Crash => crashes' # crashes
    <3>1. crashes \in Nat
      BY <1>1 DEF IndInv, TypeOK
    <3>2. QED
      BY <3>1 DEF Crash
  <2>5. QED
    BY <1>1, <2>2, <2>3, <2>4
<1>2. IndInv /\ [Next]_vars =>
         [lost => acked' = acked /\ docs' = docs /\ (lost' \/ crashes' # crashes)]_vars
  BY <1>1
<1>3. QED
  BY <1>2, Invariance, PTL DEF LostLockIsFinal, Spec

(***************************************************************************)
(* The message log.                                                        *)
(***************************************************************************)

\* The log of a circle has as many entries as its last id says; one is Blank until
\* its message is inserted.
LEMMA EntriesLog ==
    ASSUME IndInv, NEW c \in Circles
    PROVE  /\ last[c] \in Nat
           /\ entries[c] \in Seq(Posts \cup {Blank})
           /\ Len(entries[c]) = last[c]
           /\ DOMAIN entries[c] = 1 .. last[c]
           /\ \A i \in 1 .. last[c] :
                 entries[c][i] = IF i \in DOMAIN docs[c] THEN docs[c][i] ELSE Blank
<1>1. last[c] \in Nat /\ docs[c] \in [DOMAIN docs[c] -> Posts]
  BY DEF IndInv, TypeOK
<1>2. entries[c] = [i \in 1 .. last[c] |-> IF i \in DOMAIN docs[c] THEN docs[c][i] ELSE Blank]
  BY DEF entries
<1>3. \A i \in DOMAIN docs[c] : docs[c][i] \in Posts
  BY <1>1
<1>4. entries[c] \in [1 .. last[c] -> Posts \cup {Blank}]
  BY <1>2, <1>3
<1>5. QED
  BY <1>1, <1>2, <1>4

\* The second half of updateCounter reserves the next entry.
LEMMA SetLastReserves ==
    ASSUME IndInv, NEW p \in Clients, pc[p] = "update", SetLast(p), UNCHANGED docs
    PROVE  Log!Reserve(circle[p])
<1> DEFINE c == circle[p]
           n == last[c]
<1>1. c \in Circles /\ n \in Nat /\ last'[c] = n + 1 /\ \A d \in Circles \ {c} : last'[d] = last[d]
  BY SetLastEffect
<1>2. n + 1 \notin DOMAIN docs[c]
  BY <1>1 DEF IndInv, StoreInv
<1>3. entries'[c] = Append(entries[c], Blank)
  <2>1. entries'[c] = [i \in 1 .. n + 1 |-> IF i \in DOMAIN docs[c] THEN docs[c][i] ELSE Blank]
    BY <1>1 DEF entries
  <2>2. entries[c] = [i \in 1 .. n |-> IF i \in DOMAIN docs[c] THEN docs[c][i] ELSE Blank]
    BY <1>1 DEF entries
  <2>3. QED
    BY <1>1, <1>2, <2>1, <2>2, EntriesLog
<1>4. \A d \in Circles \ {c} : entries'[d] = entries[d]
  BY <1>1 DEF entries
<1>5. entries' = [entries EXCEPT ![c] = Append(entries[c], Blank)]
  BY <1>3, <1>4 DEF entries
<1>6. QED
  BY <1>5 DEF Log!Reserve

\* Insert publishes the post in that entry.
LEMMA InsertPublishes ==
    ASSUME IndInv, NEW p \in Clients, pc[p] = "insert", InsertDoc(p), UNCHANGED last
    PROVE  /\ mid[p] \in DOMAIN entries[circle[p]]
           /\ Log!Publish(circle[p], mid[p], post[p])
<1> DEFINE c == circle[p]
           i == mid[p]
           m == post[p]
<1>1. /\ c \in Circles /\ i \in Nat \ {0} /\ i = last[c] /\ i \notin DOMAIN docs[c]
      /\ m \in Posts
  BY InsertEffect
<1>2. i \in 1 .. last[c] /\ i \in DOMAIN entries[c] /\ entries[c][i] = Blank
  BY <1>1, EntriesLog
<1>3. ~ Log!Occurs(m)
  <2>1. \A d \in Circles : \A j \in DOMAIN docs[d] : docs[d][j] # m
    BY DEF IndInv, HandlerInv, HandlerOK, Stored, Posting, InLock
  <2>2. m # Blank
    BY <1>1
  <2>3. \A d \in Circles : \A j \in DOMAIN entries[d] : entries[d][j] # m
    BY <2>1, <2>2, EntriesLog
  <2>4. QED
    BY <2>3 DEF Log!Occurs
<1>4. \A d \in Circles \ {c} : entries'[d] = entries[d]
  <2> SUFFICES ASSUME NEW d \in Circles \ {c}
               PROVE  entries'[d] = entries[d]
    OBVIOUS
  <2>1. docs'[d] = docs[d]
    BY InsertEffect
  <2>2. QED
    BY <2>1 DEF entries
<1>5. entries'[c] = [entries[c] EXCEPT ![i] = m]
  <2>1. /\ DOMAIN docs'[c] = DOMAIN docs[c] \cup {i} /\ docs'[c][i] = m
        /\ \A j \in DOMAIN docs[c] : docs'[c][j] = docs[c][j]
    BY InsertEffect
  <2>2. entries'[c] = [j \in 1 .. last[c] |->
                         IF j \in DOMAIN docs[c] \cup {i} THEN docs'[c][j] ELSE Blank]
    BY <1>1, <2>1 DEF entries
  <2>3. entries[c] = [j \in 1 .. last[c] |-> IF j \in DOMAIN docs[c] THEN docs[c][j] ELSE Blank]
    BY <1>1 DEF entries
  <2>4. \A j \in 1 .. last[c] :
           (IF j \in DOMAIN docs[c] \cup {i} THEN docs'[c][j] ELSE Blank)
              = (IF j = i THEN m ELSE entries[c][j])
    BY <1>2, <2>1, <2>3
  <2>5. entries'[c] = [j \in 1 .. last[c] |-> IF j = i THEN m ELSE entries[c][j]]
    BY <2>2, <2>4
  <2>6. QED
    BY <2>3, <2>5
<1>6. entries' = [entries EXCEPT ![c] = [entries[c] EXCEPT ![i] = m]]
  <2>1. entries' = [d \in Circles |-> entries'[d]] /\ DOMAIN entries = Circles
    BY DEF entries
  <2>2. QED
    BY <1>4, <1>5, <2>1
<1>7. QED
  BY <1>2, <1>3, <1>6 DEF Log!Publish

\* Every step of the store is one step of the message log, or none.
LEMMA StepRefines ==
    ASSUME IndInv, [Next]_vars
    PROVE  [Log!Next]_(Log!vars)
<1>1. ASSUME NEW p \in Clients, pc[p] = "update", SetLast(p), UNCHANGED docs
      PROVE  [Log!Next]_(Log!vars)
  BY <1>1, SetLastEffect, SetLastReserves DEF Log!Next
<1>2. ASSUME NEW p \in Clients, pc[p] = "insert", InsertDoc(p), UNCHANGED last
      PROVE  [Log!Next]_(Log!vars)
  <2>1. circle[p] \in Circles /\ post[p] \in Posts
    BY <1>2, InsertEffect
  <2>2. QED
    BY <1>2, <2>1, InsertPublishes DEF Log!Next
<1>3. CASE UNCHANGED <<last, docs>>
  BY <1>3 DEF Log!vars, entries
<1>4. QED
  BY <1>1, <1>2, <1>3, LastChange, DocsChange

\* The tiedot store implements the message log, whatever fails: what an error under
\* the lock breaks is that posts are served, not what the store holds.
THEOREM RefinesMessageLog == Spec => ImplementsMessageLog
<1>1. Init => Log!Init
  BY NoMsgsEmpty DEF Init, Log!Init, entries
<1>2. IndInv /\ [Next]_vars => [Log!Next]_(Log!vars)
  BY StepRefines
<1>3. QED
  BY <1>1, <1>2, Invariance, PTL DEF Spec, ImplementsMessageLog, Log!Spec

=============================================================================
