-------------------------- MODULE MongoStoreProofs --------------------------
(***************************************************************************)
(* Theorems about MongoStore, for every value of its constants: any number *)
(* of clients, circles, posts and restarts, and any faults.                *)
(***************************************************************************)
EXTENDS MongoStore, TLAPS

USE ClientsAssumption, PostsAssumption, LimitsAssumption

\* A collection without documents.
LEMMA NoMsgsEmpty == Messages(NoMsgs) /\ DOMAIN NoMsgs = {}
BY DEF NoMsgs, Messages, Restrict

(***************************************************************************)
(* The steps that change the collections, one document at a time.          *)
(***************************************************************************)

\* What an insert does to the collections.
LEMMA InsertEffect ==
    ASSUME IndInv, NEW p \in Clients, pc[p] = "insert", InsertDoc(p)
    PROVE  /\ circle[p] \in Circles /\ mid[p] \in Nat \ {0} /\ post[p] \in Posts
           /\ DOMAIN docs' = Circles /\ DOMAIN written' = Circles
           /\ \A c \in Circles \ {circle[p]} : docs'[c] = docs[c] /\ written'[c] = written[c]
           /\ docs'[circle[p]] = Put(docs[circle[p]], mid[p], post[p])
           /\ written'[circle[p]] = Put(written[circle[p]], mid[p], post[p])
BY DEF IndInv, TypeOK, HandlerInv, InsertDoc

\* The same, document by document.
LEMMA InsertDocs ==
    ASSUME IndInv, NEW p \in Clients, pc[p] = "insert", InsertDoc(p), NEW c \in Circles
    PROVE  /\ Messages(docs'[c]) /\ Messages(written'[c])
           /\ DOMAIN docs'[c] = DOMAIN docs[c] \cup (IF c = circle[p] THEN {mid[p]} ELSE {})
           /\ DOMAIN written'[c] = DOMAIN written[c] \cup (IF c = circle[p] THEN {mid[p]} ELSE {})
           /\ \A i \in DOMAIN docs[c] : docs'[c][i] = docs[c][i]
           /\ \A i \in DOMAIN written[c] : written'[c][i] = written[c][i]
           /\ c = circle[p] => docs'[c][mid[p]] = post[p] /\ written'[c][mid[p]] = post[p]
<1>1. Messages(docs[c]) /\ Messages(written[c])
  BY DEF IndInv, TypeOK
<1>2. CASE c # circle[p]
  BY <1>1, <1>2, InsertEffect
<1>3. CASE c = circle[p]
  <2>1. mid[p] \notin DOMAIN docs[c] /\ mid[p] \notin DOMAIN written[c]
    BY <1>3 DEF InsertDoc, IndInv, IdsAreUnique
  <2>2. /\ mid[p] \in Nat \ {0} /\ post[p] \in Posts
        /\ docs'[c] = Put(docs[c], mid[p], post[p])
        /\ written'[c] = Put(written[c], mid[p], post[p])
    BY <1>3, InsertEffect
  <2> DEFINE D == Put(docs[c], mid[p], post[p])
             W == Put(written[c], mid[p], post[p])
  <2>3. /\ Messages(D) /\ DOMAIN D = DOMAIN docs[c] \cup {mid[p]} /\ D[mid[p]] = post[p]
        /\ \A i \in DOMAIN docs[c] \ {mid[p]} : D[i] = docs[c][i]
    BY <1>1, <2>2 DEF Put, Messages
  <2>4. /\ Messages(W) /\ DOMAIN W = DOMAIN written[c] \cup {mid[p]} /\ W[mid[p]] = post[p]
        /\ \A i \in DOMAIN written[c] \ {mid[p]} : W[i] = written[c][i]
    BY <1>1, <2>2 DEF Put, Messages
  <2> HIDE DEF D, W
  <2>5. QED
    BY <1>3, <2>1, <2>2, <2>3, <2>4 DEF D, W
<1>4. QED
  BY <1>2, <1>3

\* What a removal does to the collections.
LEMMA RemoveDocs ==
    ASSUME IndInv, NEW d \in batch, Remove(d)
    PROVE  /\ DOMAIN docs' = Circles /\ written' = written
           /\ \A c \in Circles :
                 /\ Messages(docs'[c])
                 /\ DOMAIN docs'[c] = DOMAIN docs[c] \ (IF c = d.circle THEN {d.id} ELSE {})
                 /\ \A i \in DOMAIN docs'[c] : docs'[c][i] = docs[c][i]
<1>1. DOMAIN docs = Circles /\ \A c \in Circles : Messages(docs[c])
  BY DEF IndInv, TypeOK
<1>2. docs' = [docs EXCEPT ![d.circle] = Restrict(docs[d.circle], DOMAIN docs[d.circle] \ {d.id})]
        /\ written' = written
  BY DEF Remove
<1>3. \A c \in Circles : docs'[c] = IF c = d.circle THEN Restrict(docs[c], DOMAIN docs[c] \ {d.id})
                                    ELSE docs[c]
  BY <1>1, <1>2
<1>4. QED
  BY <1>1, <1>2, <1>3 DEF Restrict, Messages

\* No other step touches the collections.
LEMMA CollectionsChange ==
    ASSUME [Next]_vars
    PROVE  \/ UNCHANGED <<docs, written>>
           \/ \E p \in Clients : /\ pc[p] = "insert" /\ InsertDoc(p) /\ Goto(p, "idle")
                                 /\ UNCHANGED <<counter, old, request, replies, loop, sent>>
           \/ \E d \in batch : Remove(d)
BY DEF Next, PostStep, ExpireStep, vars, database, StartPost, updateCounter, updateCounterFails,
       Insert, InsertFails, GetLastMsg, GetMsgs, Age, ListCollections,
       ListCollectionsFails, Sleep, FindExpired,
       FindExpiredFails, RemoveFails, Crash

(***************************************************************************)
(* IndInv is inductive: one lemma per conjunct.                            *)
(***************************************************************************)

\* Every step leaves every variable in its type.
LEMMA TypeStep == IndInv /\ [Next]_vars => TypeOK'
<1> SUFFICES ASSUME IndInv, [Next]_vars
             PROVE  TypeOK'
  OBVIOUS
<1>t. TypeOK
  BY DEF IndInv
<1>u. \A c \in Circles : Messages(docs'[c]) /\ Messages(written'[c])
  BY <1>t, CollectionsChange, InsertDocs, RemoveDocs DEF TypeOK
<1>v. DOMAIN docs' = Circles /\ DOMAIN written' = Circles
  BY <1>t, CollectionsChange, InsertEffect, RemoveDocs DEF TypeOK
<1> USE DEF TypeOK, PCs, Docs, Goto, database, request, replies, loop
<1>1. ASSUME NEW p \in Writers, NEW c \in Circles, NEW m \in Posts, StartPost(p, c, m)
      PROVE  TypeOK'
  BY <1>1, <1>t DEF StartPost
<1>2. ASSUME NEW p \in Clients, updateCounter(p) \/ updateCounterFails(p)
      PROVE  TypeOK'
  <2>1. circle[p] \in Circles
    BY <1>2 DEF IndInv, HandlerInv, updateCounter, updateCounterFails
  <2>2. counter[circle[p]] + 1 \in Nat
    BY <1>t, <2>1
  <2>3. counter' \in [Circles -> Nat]
    <3>1. counter' = [counter EXCEPT ![circle[p]] = counter[circle[p]] + 1] \/ UNCHANGED counter
      BY <1>2 DEF updateCounter, updateCounterFails, Increment
    <3>2. QED
      BY <1>t, <2>2, <3>1
  <2>4. CASE updateCounter(p)
    BY <1>t, <1>u, <1>v, <2>2, <2>3, <2>4 DEF updateCounter
  <2>5. CASE updateCounterFails(p)
    BY <1>t, <1>u, <1>v, <2>3, <2>5 DEF updateCounterFails
  <2>6. QED
    BY <1>2, <2>4, <2>5
<1>3. ASSUME NEW p \in Clients, Insert(p)
      PROVE  TypeOK'
  <2>1. circle[p] \in Circles /\ mid[p] \in Nat \ {0} /\ post[p] \in Posts
    BY <1>3, InsertEffect DEF Insert
  <2>2. QED
    BY <1>3, <1>t, <1>u, <1>v, <2>1 DEF Insert
<1>4. ASSUME NEW p \in Clients, InsertFails(p)
      PROVE  TypeOK'
  BY <1>4, <1>t, <1>u, <1>v DEF InsertFails
<1>5. ASSUME NEW p \in Readers, NEW c \in Circles, GetLastMsg(p, c)
      PROVE  TypeOK'
  <2>1. \E n \in Nat : told' = [told EXCEPT ![p][c] = n]
    BY <1>5, <1>t DEF GetLastMsg
  <2>2. told' \in [Clients -> [Circles -> Nat]]
    BY <1>t, <2>1
  <2>3. QED
    BY <1>5, <1>t, <2>2 DEF GetLastMsg
<1>6. ASSUME NEW p \in Readers, NEW c \in Circles, NEW top \in Ids, NEW bottom \in Ids,
             GetMsgs(p, c, top, bottom)
      PROVE  TypeOK'
  <2> DEFINE f == Restrict(docs[c], bottom .. top \cap DOMAIN docs[c])
  <2>1. Messages(f)
    BY <1>t DEF Messages, Restrict
  <2>2. answer' = [answer EXCEPT ![p] = [circle |-> c, msgs |-> f]]
    BY <1>6 DEF GetMsgs
  <2> HIDE DEF f
  <2>3. \A q \in Clients : answer'[q] = IF q = p THEN [circle |-> c, msgs |-> f] ELSE answer[q]
    BY <1>t, <2>2
  <2>4. /\ DOMAIN answer' = Clients
        /\ \A q \in Clients : answer'[q].circle \in Circles \cup {Blank} /\ Messages(answer'[q].msgs)
    BY <1>t, <2>1, <2>2, <2>3
  <2>5. QED
    BY <1>6, <1>t, <2>4 DEF GetMsgs
<1>7. ASSUME NEW c \in Circles, NEW i \in DOMAIN docs[c], Age(c, i)
      PROVE  TypeOK'
  <2>1. i \in Nat \ {0}
    BY <1>t DEF Messages
  <2>2. QED
    BY <1>7, <1>t, <2>1 DEF Age
<1>8. CASE ListCollections \/ ListCollectionsFails \/ Sleep
  BY <1>8, <1>t DEF ListCollections, ListCollectionsFails, Sleep
<1>9. ASSUME NEW c \in Circles, FindExpired(c) \/ FindExpiredFails(c)
      PROVE  TypeOK'
  BY <1>9, <1>t DEF FindExpired, FindExpiredFails, Expired
<1>10. ASSUME NEW d \in batch, Remove(d) \/ RemoveFails(d)
       PROVE  TypeOK'
  BY <1>10, <1>t, <1>u, <1>v DEF Remove, RemoveFails
<1>11. CASE Crash
  BY <1>11, <1>t DEF Crash
<1>12. CASE UNCHANGED vars
  BY <1>12, <1>t DEF vars
<1>13. QED
  BY <1>1, <1>2, <1>3, <1>4, <1>5, <1>6, <1>7, <1>8, <1>9, <1>10, <1>11, <1>12
     DEF Next, PostStep, ExpireStep

\* A step takes no id back: the counters only grow.
LEMMA CounterGrows ==
    ASSUME TypeOK, [Next]_vars, NEW c \in Circles
    PROVE  counter[c] \in Nat /\ counter'[c] \in {counter[c], counter[c] + 1}
<1>1. ASSUME NEW p \in Clients, Increment(p)
      PROVE  counter'[c] \in {counter[c], counter[c] + 1}
  BY <1>1 DEF TypeOK, Increment
<1>2. UNCHANGED counter \/ \E p \in Clients : Increment(p)
  BY DEF Next, PostStep, ExpireStep, vars, database, StartPost, updateCounter,
         updateCounterFails, Insert, InsertFails, GetLastMsg, GetMsgs, Age,
         ListCollections, ListCollectionsFails, Sleep,
         FindExpired, FindExpiredFails, Remove, RemoveFails, Crash
<1>3. QED
  BY <1>1, <1>2 DEF TypeOK

\* What the collections hold was inserted, under an id the counter has given.
LEMMA StoreStep == IndInv /\ [Next]_vars => StoreInv'
<1> SUFFICES ASSUME IndInv, [Next]_vars, NEW c \in Circles
             PROVE  /\ DOMAIN docs'[c] \subseteq DOMAIN written'[c]
                    /\ DOMAIN written'[c] \subseteq 1 .. counter'[c]
                    /\ \A i \in DOMAIN docs'[c] : docs'[c][i] = written'[c][i]
  BY DEF StoreInv
<1>1. counter[c] \in Nat /\ counter'[c] \in Nat /\ counter[c] <= counter'[c]
  BY CounterGrows DEF IndInv
<1>2. /\ DOMAIN docs[c] \subseteq DOMAIN written[c]
      /\ DOMAIN written[c] \subseteq 1 .. counter'[c]
      /\ \A i \in DOMAIN docs[c] : docs[c][i] = written[c][i]
  BY <1>1 DEF IndInv, StoreInv
<1>3. CASE UNCHANGED <<docs, written>>
  BY <1>2, <1>3
<1>4. ASSUME NEW p \in Clients, pc[p] = "insert", InsertDoc(p), UNCHANGED counter
      PROVE  /\ DOMAIN docs'[c] \subseteq DOMAIN written'[c]
             /\ DOMAIN written'[c] \subseteq 1 .. counter'[c]
             /\ \A i \in DOMAIN docs'[c] : docs'[c][i] = written'[c][i]
  <2>1. c = circle[p] => mid[p] \in 1 .. counter'[c]
    BY <1>4, <1>1, InsertEffect DEF IndInv, IdsAreUnique
  <2>2. /\ DOMAIN docs'[c] = DOMAIN docs[c] \cup (IF c = circle[p] THEN {mid[p]} ELSE {})
        /\ DOMAIN written'[c] = DOMAIN written[c] \cup (IF c = circle[p] THEN {mid[p]} ELSE {})
        /\ \A i \in DOMAIN docs[c] : docs'[c][i] = docs[c][i]
        /\ \A i \in DOMAIN written[c] : written'[c][i] = written[c][i]
        /\ c = circle[p] => docs'[c][mid[p]] = written'[c][mid[p]]
    BY <1>4, InsertDocs
  <2>3. QED
    BY <1>2, <2>1, <2>2
<1>5. ASSUME NEW d \in batch, Remove(d)
      PROVE  /\ DOMAIN docs'[c] \subseteq DOMAIN written'[c]
             /\ DOMAIN written'[c] \subseteq 1 .. counter'[c]
             /\ \A i \in DOMAIN docs'[c] : docs'[c][i] = written'[c][i]
  BY <1>2, <1>5, RemoveDocs
<1>6. QED
  BY <1>3, <1>4, <1>5, CollectionsChange

\* A handler keeps its circle and its post, and no two have the same post.
LEMMA HandlerStep == IndInv /\ [Next]_vars => HandlerInv'
<1> SUFFICES ASSUME IndInv, [Next]_vars
             PROVE  HandlerInv'
  OBVIOUS
<1>t. /\ HandlerInv /\ pc \in [Clients -> PCs] /\ post \in [Clients -> Posts \cup {Blank}]
      /\ circle \in [Clients -> Circles \cup {Blank}] /\ mid \in [Clients -> Nat]
  BY DEF IndInv, TypeOK
<1> USE DEF HandlerInv, Written, Goto
<1>1. ASSUME NEW p \in Writers, NEW c \in Circles, NEW m \in Posts, StartPost(p, c, m)
      PROVE  HandlerInv'
  <2>1. /\ m \notin sent /\ sent' = sent \cup {m} /\ pc' = [pc EXCEPT ![p] = "count"]
        /\ circle' = [circle EXCEPT ![p] = c] /\ post' = [post EXCEPT ![p] = m]
        /\ UNCHANGED <<written, mid>>
    BY <1>1 DEF StartPost, database
  <2>2. ~ Written(m) /\ \A q \in Clients : pc[q] # "idle" => post[q] # m
    BY <1>t, <2>1
  <2>3. \A q \in Clients \ {p} : pc'[q] = pc[q] /\ circle'[q] = circle[q] /\ post'[q] = post[q]
    BY <1>t, <2>1
  <2>4. pc'[p] = "count" /\ circle'[p] = c /\ post'[p] = m
    BY <1>t, <2>1
  <2>5. QED
    BY <1>t, <2>1, <2>2, <2>3, <2>4
<1>2. ASSUME UNCHANGED <<circle, post, written, sent>>,
             \A q \in Clients : /\ pc'[q] # "idle" => pc[q] # "idle"
                                /\ pc'[q] = "insert" => mid'[q] # 0
      PROVE  HandlerInv'
  BY <1>2, <1>t
<1>3. ASSUME NEW p \in Clients, updateCounter(p)
      PROVE  HandlerInv'
  <2>1. counter[circle[p]] \in Nat
    BY <1>3, <1>t DEF updateCounter, IndInv, TypeOK
  <2>2. UNCHANGED <<circle, post, written, sent>>
    BY <1>3 DEF updateCounter
  <2>3. /\ pc[p] = "count" /\ pc' = [pc EXCEPT ![p] = "insert"]
        /\ mid' = [mid EXCEPT ![p] = counter[circle[p]] + 1]
    BY <1>3 DEF updateCounter
  <2>4. \A q \in Clients : /\ pc'[q] # "idle" => pc[q] # "idle"
                           /\ pc'[q] = "insert" => mid'[q] # 0
    BY <1>t, <2>1, <2>3
  <2>5. QED
    BY <1>2, <2>2, <2>4
<1>4. ASSUME NEW p \in Clients, pc[p] = "insert", InsertDoc(p), Goto(p, "idle"),
             UNCHANGED <<circle, post, mid, sent>>
      PROVE  HandlerInv'
  <2>1. \A c \in Circles : \A i \in DOMAIN written'[c] :
           \/ written'[c][i] = post[p]
           \/ i \in DOMAIN written[c] /\ written'[c][i] = written[c][i]
    BY <1>4, InsertDocs
  <2>2. \A q \in Clients : pc'[q] # "idle" => pc'[q] = pc[q] /\ post[q] # post[p]
    BY <1>4, <1>t
  <2>3. \A c \in Circles : \A i \in DOMAIN written'[c] : written'[c][i] \in sent'
    BY <1>4, <1>t, <2>1
  <2>4. \A q \in Clients : pc'[q] # "idle" => ~ Written(post[q])'
    BY <1>4, <1>t, <2>1, <2>2
  <2>5. QED
    BY <1>4, <1>t, <2>2, <2>3, <2>4
<1>5. ASSUME NEW p \in Clients, updateCounterFails(p)
      PROVE  HandlerInv'
  BY <1>2, <1>5, <1>t DEF updateCounterFails, request
<1>6. ASSUME NEW p \in Clients, Insert(p)
      PROVE  HandlerInv'
  BY <1>4, <1>6 DEF Insert, request
<1>7. ASSUME NEW p \in Clients, InsertFails(p)
      PROVE  HandlerInv'
  BY <1>2, <1>4, <1>7, <1>t DEF InsertFails, request
<1>8. ASSUME UNCHANGED <<pc, request, written, sent>>
      PROVE  HandlerInv'
  BY <1>2, <1>8, <1>t DEF request
<1>9. CASE Crash
  BY <1>2, <1>9, <1>t DEF Crash, database, request
<1>10. QED
  BY <1>1, <1>3, <1>5, <1>6, <1>7, <1>8, <1>9 DEF Next, PostStep, ExpireStep, vars, database,
     request, GetLastMsg, GetMsgs, Age, ListCollections, ListCollectionsFails, Sleep,
     FindExpired, FindExpiredFails, Remove,
     RemoveFails

\* The ids of the posts on their way are new, and stay so until they are used.
LEMMA IdsStep == IndInv /\ [Next]_vars => IdsAreUnique'
<1> SUFFICES ASSUME IndInv, [Next]_vars
             PROVE  IdsAreUnique'
  OBVIOUS
<1>t. /\ IdsAreUnique /\ StoreInv /\ HandlerInv /\ counter \in [Circles -> Nat]
      /\ pc \in [Clients -> PCs] /\ mid \in [Clients -> Nat]
      /\ circle \in [Clients -> Circles \cup {Blank}]
  BY DEF IndInv, TypeOK
<1> USE DEF IdsAreUnique, Goto
<1>1. ASSUME UNCHANGED <<mid, written>>,
             \A q \in Clients : pc'[q] = "insert" => pc[q] = "insert" /\ circle'[q] = circle[q]
      PROVE  IdsAreUnique'
  <2>1. \A q \in Clients : pc[q] = "insert" =>
           /\ circle[q] \in Circles
           /\ counter[circle[q]] \in Nat /\ counter'[circle[q]] \in Nat
           /\ counter[circle[q]] <= counter'[circle[q]]
    BY <1>t, CounterGrows DEF IndInv, HandlerInv
  <2>2. QED
    BY <1>1, <1>t, <2>1
<1>2. ASSUME NEW p \in Clients, updateCounter(p)
      PROVE  IdsAreUnique'
  <2> DEFINE c == circle[p]
  <2>1. /\ pc[p] = "count" /\ pc' = [pc EXCEPT ![p] = "insert"]
        /\ counter' = [counter EXCEPT ![c] = counter[c] + 1]
        /\ mid' = [mid EXCEPT ![p] = counter[c] + 1]
        /\ UNCHANGED <<circle, written>>
    BY <1>2 DEF updateCounter, Increment
  <2>2. c \in Circles /\ counter[c] \in Nat /\ DOMAIN written[c] \subseteq 1 .. counter[c]
    BY <1>t, <2>1 DEF HandlerInv, StoreInv
  <2>3. /\ mid'[p] = counter[c] + 1 /\ counter'[c] = counter[c] + 1
        /\ \A q \in Clients \ {p} : pc'[q] = pc[q] /\ mid'[q] = mid[q]
        /\ \A d \in Circles \ {c} : counter'[d] = counter[d]
    BY <1>t, <2>1, <2>2
  <2>4. mid'[p] \notin DOMAIN written'[c] /\ mid'[p] <= counter'[c]
    BY <2>1, <2>2, <2>3
  <2>5. ASSUME NEW q \in Clients \ {p}, pc[q] = "insert"
        PROVE  /\ mid'[q] \notin DOMAIN written'[circle'[q]] /\ mid'[q] <= counter'[circle'[q]]
               /\ circle[q] = c => mid'[q] # mid'[p]
    <3>1. /\ mid[q] \in Nat /\ mid[q] \notin DOMAIN written[circle[q]]
          /\ circle[q] \in Circles /\ mid[q] <= counter[circle[q]]
          /\ counter[circle[q]] \in Nat
      BY <1>t, <2>5 DEF HandlerInv
    <3>2. QED
      BY <2>1, <2>2, <2>3, <2>5, <3>1
  <2>6. ASSUME NEW q \in Clients, NEW r \in Clients \ {q}, pc'[q] = "insert", pc'[r] = "insert",
               circle'[r] = circle'[q]
        PROVE  mid'[r] # mid'[q]
    BY <1>t, <2>1, <2>3, <2>5, <2>6
  <2>7. \A q \in Clients : pc'[q] = "insert" =>
           mid'[q] \notin DOMAIN written'[circle'[q]] /\ mid'[q] <= counter'[circle'[q]]
    BY <2>1, <2>3, <2>4, <2>5
  <2>8. QED
    BY <2>6, <2>7
<1>3. ASSUME NEW p \in Clients, pc[p] = "insert", InsertDoc(p), Goto(p, "idle"),
             UNCHANGED <<counter, circle, mid>>
      PROVE  IdsAreUnique'
  <2>1. \A c \in Circles :
           DOMAIN written'[c] = DOMAIN written[c] \cup (IF c = circle[p] THEN {mid[p]} ELSE {})
    BY <1>3, InsertDocs
  <2>2. \A q \in Clients : pc'[q] = "insert" => q # p /\ pc[q] = "insert" /\ circle[q] \in Circles
    BY <1>3, <1>t DEF HandlerInv
  <2>3. QED
    BY <1>3, <1>t, <2>1, <2>2
<1>4. ASSUME NEW p \in Writers, NEW c \in Circles, NEW m \in Posts, StartPost(p, c, m)
      PROVE  IdsAreUnique'
  BY <1>1, <1>4, <1>t DEF StartPost, database
<1>5. ASSUME NEW p \in Clients, updateCounterFails(p)
      PROVE  IdsAreUnique'
  BY <1>1, <1>5, <1>t DEF updateCounterFails, request
<1>6. ASSUME NEW p \in Clients, Insert(p) \/ InsertFails(p)
      PROVE  IdsAreUnique'
  BY <1>1, <1>3, <1>6, <1>t DEF Insert, InsertFails, request
<1>7. ASSUME UNCHANGED <<pc, request, written>>
      PROVE  IdsAreUnique'
  BY <1>1, <1>7, <1>t DEF request
<1>8. CASE Crash
  BY <1>1, <1>8, <1>t DEF Crash, database, request
<1>9. QED
  BY <1>2, <1>4, <1>5, <1>6, <1>7, <1>8 DEF Next, PostStep, ExpireStep, vars, database,
     request, GetLastMsg, GetMsgs, Age, ListCollections, ListCollectionsFails, Sleep,
     FindExpired, FindExpiredFails, Remove,
     RemoveFails

\* What is in the batch of the loop is old, and what is old was inserted.
LEMMA LoopStep == IndInv /\ [Next]_vars => LoopInv'
<1> SUFFICES ASSUME IndInv, [Next]_vars
             PROVE  LoopInv'
  OBVIOUS
<1>t. TypeOK /\ StoreInv /\ LoopInv
  BY DEF IndInv
<1>1. \A c \in Circles : DOMAIN written[c] \subseteq DOMAIN written'[c]
  BY CollectionsChange, InsertDocs, RemoveDocs
<1>2. \A d \in old : d.circle \in Circles /\ d.id \in DOMAIN written'[d.circle]
  BY <1>1, <1>t DEF LoopInv, TypeOK, Docs
<1>3. ASSUME NEW c \in Circles, NEW i \in DOMAIN docs[c], Age(c, i)
      PROVE  LoopInv'
  BY <1>2, <1>3, <1>t DEF Age, LoopInv, StoreInv, database, loop
<1>4. ASSUME UNCHANGED old, batch' \subseteq batch
      PROVE  LoopInv'
  BY <1>2, <1>4, <1>t DEF LoopInv
<1>5. ASSUME NEW c \in Circles, FindExpired(c) \/ FindExpiredFails(c)
      PROVE  LoopInv'
  BY <1>2, <1>5, <1>t DEF FindExpired, FindExpiredFails, Expired, LoopInv
<1>6. ASSUME NEW d \in batch, Remove(d) \/ RemoveFails(d)
      PROVE  LoopInv'
  BY <1>4, <1>6 DEF Remove, RemoveFails
<1>7. CASE Crash
  BY <1>4, <1>7 DEF Crash
<1>8. QED
  BY <1>3, <1>4, <1>5, <1>6, <1>7 DEF Next, PostStep, ExpireStep, vars, database, request,
     replies, loop, StartPost, updateCounter, updateCounterFails, Insert, InsertFails, GetLastMsg,
     GetMsgs, ListCollections, ListCollectionsFails, Sleep, FindExpiredFails

\* What the server has said stays so: an insert keeps what is there, and a removal
\* takes an old document.
LEMMA RepliesStep == IndInv /\ [Next]_vars => RepliesInv'
<1> SUFFICES ASSUME IndInv, [Next]_vars
             PROVE  RepliesInv'
  OBVIOUS
<1>t. TypeOK /\ StoreInv /\ LoopInv /\ RepliesInv
  BY DEF IndInv
<1>1. \A c \in Circles : \A i \in DOMAIN written[c] :
         i \in DOMAIN written'[c] /\ written'[c][i] = written[c][i]
  BY CollectionsChange, InsertDocs, RemoveDocs
<1>2. old \subseteq old'
  BY DEF Next, PostStep, ExpireStep, vars, StartPost, updateCounter, updateCounterFails, Insert,
         InsertFails, GetLastMsg, GetMsgs, Age, ListCollections, ListCollectionsFails,
         Sleep, FindExpired, FindExpiredFails,
         Remove, RemoveFails, Crash
<1>3. \A c \in Circles : \A i \in DOMAIN docs[c] :
         i \in DOMAIN docs'[c] \/ [circle |-> c, id |-> i] \in old'
  <2>1. ASSUME NEW d \in batch, Remove(d), NEW c \in Circles, NEW i \in DOMAIN docs[c],
               i \notin DOMAIN docs'[c]
        PROVE  [circle |-> c, id |-> i] \in old
    <3>1. c = d.circle /\ i = d.id
      BY <2>1, RemoveDocs
    <3>2. d \in old /\ d = [circle |-> d.circle, id |-> d.id]
      BY <1>t DEF LoopInv, TypeOK, Docs
    <3>3. QED
      BY <3>1, <3>2
  <2>2. ASSUME NEW p \in Clients, pc[p] = "insert", InsertDoc(p)
        PROVE  \A c \in Circles : DOMAIN docs[c] \subseteq DOMAIN docs'[c]
    BY <2>2, InsertDocs
  <2>3. QED
    BY <1>2, <2>1, <2>2, CollectionsChange
<1>4. ASSUME NEW a \in acked
      PROVE  /\ a.id \in DOMAIN written'[a.circle] /\ written'[a.circle][a.id] = a.post
             /\ a.id \in DOMAIN docs'[a.circle] \/ [circle |-> a.circle, id |-> a.id] \in old'
  <2>1. a.circle \in Circles
    BY <1>t DEF TypeOK
  <2>2. QED
    BY <1>1, <1>2, <1>3, <1>t, <2>1 DEF RepliesInv
<1>5. \A p \in Clients : \A c \in Circles : told[p][c] <= counter'[c]
  <2> SUFFICES ASSUME NEW p \in Clients, NEW c \in Circles
               PROVE  told[p][c] <= counter'[c]
    OBVIOUS
  <2>1. counter[c] \in Nat /\ counter'[c] \in {counter[c], counter[c] + 1}
    BY <1>t, CounterGrows
  <2>2. told[p][c] \in Nat /\ told[p][c] <= counter[c]
    BY <1>t DEF TypeOK, RepliesInv
  <2>3. QED
    BY <2>1, <2>2
<1>6. \A p \in Clients : \A i \in DOMAIN answer[p].msgs :
         /\ answer[p].circle \in Circles
         /\ i \in DOMAIN written'[answer[p].circle]
         /\ written'[answer[p].circle][i] = answer[p].msgs[i]
  BY <1>1, <1>t DEF RepliesInv
<1>7. CASE UNCHANGED <<acked, replies>>
  BY <1>4, <1>5, <1>6, <1>7 DEF RepliesInv, replies
<1>8. ASSUME NEW p \in Clients, Insert(p)
      PROVE  RepliesInv'
  <2>1. /\ pc[p] = "insert" /\ InsertDoc(p) /\ UNCHANGED replies
        /\ acked' = acked \cup {[circle |-> circle[p], id |-> mid[p], post |-> post[p]]}
    BY <1>8 DEF Insert
  <2>2. circle[p] \in Circles
    BY <2>1, InsertEffect
  <2>3. /\ mid[p] \in DOMAIN written'[circle[p]] /\ written'[circle[p]][mid[p]] = post[p]
        /\ mid[p] \in DOMAIN docs'[circle[p]]
    BY <2>1, <2>2, InsertDocs
  <2>4. QED
    BY <1>4, <1>5, <1>6, <2>1, <2>3 DEF RepliesInv, replies
<1>9. ASSUME NEW p \in Readers, NEW c \in Circles, GetLastMsg(p, c)
      PROVE  RepliesInv'
  <2>1. \E n \in {counter[c], 0} : told' = [told EXCEPT ![p][c] = n]
    BY <1>9 DEF GetLastMsg
  <2>2. UNCHANGED <<acked, answer, counter>> /\ counter \in [Circles -> Nat]
    BY <1>9, <1>t DEF GetLastMsg, database, TypeOK
  <2>3. \A q \in Clients : \A d \in Circles : told'[q][d] <= counter'[d]
    BY <1>5, <1>t, <2>1, <2>2 DEF TypeOK
  <2>4. QED
    BY <1>4, <1>6, <2>2, <2>3 DEF RepliesInv
<1>10. ASSUME NEW p \in Readers, NEW c \in Circles, NEW top \in Ids, NEW bottom \in Ids,
              GetMsgs(p, c, top, bottom)
       PROVE  RepliesInv'
  <2> DEFINE S == bottom .. top \cap DOMAIN docs[c]
  <2>1. /\ answer' = [answer EXCEPT ![p] = [circle |-> c, msgs |-> Restrict(docs[c], S)]]
        /\ UNCHANGED <<acked, told, docs, written>>
    BY <1>10 DEF GetMsgs, database
  <2>2. \A q \in Clients : answer'[q] = IF q = p THEN [circle |-> c, msgs |-> Restrict(docs[c], S)]
                                       ELSE answer[q]
    BY <1>t, <2>1 DEF TypeOK
  <2>3. \A i \in S : /\ i \in DOMAIN written[c] /\ written[c][i] = docs[c][i]
                     /\ Restrict(docs[c], S)[i] = docs[c][i]
    BY <1>t DEF StoreInv, Restrict
  <2>4. DOMAIN Restrict(docs[c], S) = S
    BY DEF Restrict
  <2>5. \A i \in DOMAIN answer'[p].msgs :
           /\ answer'[p].circle \in Circles
           /\ i \in DOMAIN written'[answer'[p].circle]
           /\ written'[answer'[p].circle][i] = answer'[p].msgs[i]
    <3>1. answer'[p].circle = c /\ answer'[p].msgs = Restrict(docs[c], S)
      BY <2>2, ClientsAssumption
    <3>2. QED
      BY <2>1, <2>3, <2>4, <3>1
  <2>6. \A q \in Clients \ {p} : answer'[q] = answer[q]
    BY <2>2
  <2>7. \A q \in Clients : \A i \in DOMAIN answer'[q].msgs :
           /\ answer'[q].circle \in Circles
           /\ i \in DOMAIN written'[answer'[q].circle]
           /\ written'[answer'[q].circle][i] = answer'[q].msgs[i]
    BY <1>6, <2>5, <2>6
  <2>8. QED
    BY <1>4, <1>5, <2>1, <2>7 DEF RepliesInv
<1>11. QED
  BY <1>7, <1>8, <1>9, <1>10 DEF Next, PostStep, ExpireStep, vars, replies, StartPost,
     updateCounter, updateCounterFails, InsertFails, Age, ListCollections,
     ListCollectionsFails, Sleep, FindExpired,
     FindExpiredFails, Remove, RemoveFails, Crash

\* At the start there is no document, no id and no handler.
LEMMA IndInvInit == Init => IndInv
<1> SUFFICES ASSUME Init
             PROVE  IndInv
  OBVIOUS
<1>1. TypeOK
  BY NoMsgsEmpty DEF Init, TypeOK, PCs
<1>2. StoreInv /\ HandlerInv /\ IdsAreUnique /\ LoopInv
  BY NoMsgsEmpty DEF Init, StoreInv, HandlerInv, IdsAreUnique, LoopInv
<1>3. RepliesInv
  BY NoMsgsEmpty DEF Init, RepliesInv
<1>4. QED
  BY <1>1, <1>2, <1>3 DEF IndInv

(***************************************************************************)
(* The theorems.                                                           *)
(***************************************************************************)

\* The invariant that all the others rest on holds of every behaviour of the store,
\* whatever calls of the database fail and whenever the server restarts.
THEOREM Invariance == Spec => []IndInv
<1>1. IndInv /\ [Next]_vars => IndInv'
  BY TypeStep, StoreStep, HandlerStep, IdsStep, LoopStep, RepliesStep DEF IndInv
<1>2. QED
  BY IndInvInit, <1>1, PTL DEF Spec

\* Every variable keeps its type.
THEOREM TypeCorrect == Spec => []TypeOK
BY Invariance, PTL DEF IndInv

\* Posts that overtake each other between updateCounter and the insert never get
\* one id, and no insert ever meets a document, or an expired one, with its id.
THEOREM NoIdTwice == Spec => []IdsAreUnique
BY Invariance, PTL DEF IndInv

\* A post answered with 200 is served under its id until it is old.
THEOREM AckedKept == Spec => []AckedIsKept
<1>1. IndInv => AckedIsKept
  <2> SUFFICES ASSUME IndInv, NEW a \in acked, a.id \in DOMAIN docs[a.circle]
               PROVE  docs[a.circle][a.id] = a.post
    BY DEF IndInv, RepliesInv, AckedIsKept
  <2>1. a.circle \in Circles
    BY DEF IndInv, TypeOK
  <2>2. QED
    BY <2>1 DEF IndInv, RepliesInv, StoreInv
<1>2. QED
  BY Invariance, <1>1, PTL

\* What a client was told of a circle and has read of it stays true.
THEOREM AnswersHold == Spec => []AnswersStayTrue
<1>1. IndInv => AnswersStayTrue
  BY DEF IndInv, RepliesInv, StoreInv, AnswersStayTrue
<1>2. QED
  BY Invariance, <1>1, PTL

\* A step brings no removed message back: the only step that adds a document,
\* Insert, uses an id that no document had before.
THEOREM ExpiredNeverReturns == Spec => ExpiredStaysGone
<1>1. IndInv /\ [Next]_vars =>
         [\A c \in Circles : \A i \in DOMAIN written[c] \ DOMAIN docs[c] :
            i \notin DOMAIN docs'[c]]_vars
  <2> SUFFICES ASSUME IndInv, [Next]_vars, NEW c \in Circles,
                      NEW i \in DOMAIN written[c] \ DOMAIN docs[c]
               PROVE  i \notin DOMAIN docs'[c]
    OBVIOUS
  <2>1. ASSUME NEW p \in Clients, pc[p] = "insert", InsertDoc(p)
        PROVE  i \notin DOMAIN docs'[c]
    <3>1. c = circle[p] => mid[p] # i
      BY <2>1 DEF IndInv, IdsAreUnique
    <3>2. QED
      BY <2>1, <3>1, InsertDocs
  <2>2. ASSUME NEW d \in batch, Remove(d)
        PROVE  i \notin DOMAIN docs'[c]
    BY <2>2, RemoveDocs
  <2>3. QED
    BY <2>1, <2>2, CollectionsChange
<1>2. QED
  BY <1>1, Invariance, PTL DEF ExpiredStaysGone, Spec

(***************************************************************************)
(* The message log.                                                        *)
(***************************************************************************)

\* The log of a circle has as many entries as its counter says; one is Blank until
\* its post is inserted.
LEMMA PublishedLog ==
    ASSUME IndInv, NEW c \in Circles
    PROVE  /\ counter[c] \in Nat
           /\ published[c] \in Seq(Posts \cup {Blank})
           /\ Len(published[c]) = counter[c]
           /\ DOMAIN published[c] = 1 .. counter[c]
           /\ \A i \in 1 .. counter[c] :
                 /\ i \in DOMAIN written[c] => published[c][i] = written[c][i]
                 /\ published[c][i] = Blank <=> i \notin DOMAIN written[c]
<1>1. counter[c] \in Nat /\ Messages(written[c])
  BY DEF IndInv, TypeOK
<1>2. published[c] = [i \in 1 .. counter[c] |->
                        IF i \in DOMAIN written[c] THEN written[c][i] ELSE Blank]
  BY DEF published
<1>3. \A i \in DOMAIN written[c] : written[c][i] \in Posts /\ written[c][i] # Blank
  BY <1>1 DEF Messages
<1>4. published[c] \in [1 .. counter[c] -> Posts \cup {Blank}]
  BY <1>2, <1>3
<1>5. QED
  BY <1>1, <1>2, <1>3, <1>4

\* $inc reserves the next entry.
LEMMA IncrementReserves ==
    ASSUME IndInv, NEW p \in Clients, circle[p] \in Circles, Increment(p),
           UNCHANGED <<docs, written>>
    PROVE  Log!Reserve(circle[p])
<1> DEFINE c == circle[p]
           n == counter[c]
<1>1. n \in Nat /\ counter' = [counter EXCEPT ![c] = n + 1] /\ counter \in [Circles -> Nat]
  BY DEF IndInv, TypeOK, Increment
<1>2. n + 1 \notin DOMAIN written[c]
  BY <1>1 DEF IndInv, StoreInv
<1>3. published'[c] = Append(published[c], Blank)
  <2>1. published'[c] = [i \in 1 .. n + 1 |->
                           IF i \in DOMAIN written[c] THEN written[c][i] ELSE Blank]
    BY <1>1 DEF published
  <2>2. published[c] = [i \in 1 .. n |->
                          IF i \in DOMAIN written[c] THEN written[c][i] ELSE Blank]
    BY DEF published
  <2>3. QED
    BY <1>1, <1>2, <2>1, <2>2, PublishedLog
<1>4. \A d \in Circles \ {c} : published'[d] = published[d]
  BY <1>1 DEF published
<1>5. published' = [published EXCEPT ![c] = Append(published[c], Blank)]
  BY <1>3, <1>4 DEF published
<1>6. UNCHANGED removed
  BY DEF removed
<1>7. QED
  BY <1>5, <1>6 DEF Log!Reserve

\* An insert publishes the post in the entry reserved for it.
LEMMA InsertPublishes ==
    ASSUME IndInv, NEW p \in Clients, pc[p] = "insert", InsertDoc(p), UNCHANGED counter
    PROVE  /\ mid[p] \in DOMAIN published[circle[p]]
           /\ Log!Publish(circle[p], mid[p], post[p])
<1> DEFINE c == circle[p]
           i == mid[p]
           m == post[p]
<1>1. c \in Circles /\ i \in Nat \ {0} /\ m \in Posts
  BY InsertEffect
<1>2. i \notin DOMAIN written[c] /\ i \in 1 .. counter[c]
  BY <1>1 DEF IndInv, IdsAreUnique, TypeOK
<1>3. i \in DOMAIN published[c] /\ published[c][i] = Blank
  BY <1>1, <1>2, PublishedLog
<1>4. ~ Log!Occurs(m)
  <2>1. \A d \in Circles : \A j \in DOMAIN written[d] : written[d][j] # m
    BY DEF IndInv, HandlerInv, Written
  <2>2. m # Blank
    BY <1>1
  <2>3. \A d \in Circles : \A j \in DOMAIN published[d] : published[d][j] # m
    BY <2>1, <2>2, PublishedLog
  <2>4. QED
    BY <2>3 DEF Log!Occurs
<1>5. \A d \in Circles : /\ DOMAIN written'[d] = DOMAIN written[d] \cup (IF d = c THEN {i} ELSE {})
                         /\ DOMAIN docs'[d] = DOMAIN docs[d] \cup (IF d = c THEN {i} ELSE {})
                         /\ \A j \in DOMAIN written[d] : written'[d][j] = written[d][j]
  BY InsertDocs
<1>6. written'[c][i] = m
  BY <1>1, InsertDocs
<1>7. \A d \in Circles \ {c} : published'[d] = published[d]
  <2> SUFFICES ASSUME NEW d \in Circles \ {c}
               PROVE  published'[d] = published[d]
    OBVIOUS
  <2>1. written'[d] = written[d]
    BY InsertEffect
  <2>2. QED
    BY <2>1 DEF published
<1>8. published'[c] = [published[c] EXCEPT ![i] = m]
  <2>1. published'[c] = [j \in 1 .. counter[c] |->
                           IF j \in DOMAIN written[c] \cup {i} THEN written'[c][j] ELSE Blank]
    BY <1>1, <1>5 DEF published
  <2>2. published[c] = [j \in 1 .. counter[c] |->
                          IF j \in DOMAIN written[c] THEN written[c][j] ELSE Blank]
    BY <1>1 DEF published
  <2>3. \A j \in DOMAIN written[c] : written'[c][j] = written[c][j]
    BY <1>1, <1>5
  <2>4. \A j \in 1 .. counter[c] :
           (IF j \in DOMAIN written[c] \cup {i} THEN written'[c][j] ELSE Blank)
              = (IF j = i THEN m ELSE published[c][j])
    BY <1>2, <1>6, <2>2, <2>3
  <2>5. published'[c] = [j \in 1 .. counter[c] |-> IF j = i THEN m ELSE published[c][j]]
    BY <2>1, <2>4
  <2>6. QED
    BY <2>2, <2>5
<1>9. published' = [published EXCEPT ![c] = [published[c] EXCEPT ![i] = m]]
  <2>1. published' = [d \in Circles |-> published'[d]]
    BY DEF published
  <2>2. DOMAIN published = Circles
    BY DEF published
  <2>3. QED
    BY <1>7, <1>8, <2>1, <2>2
<1>10. UNCHANGED removed
  <2>1. \A d \in Circles : DOMAIN written'[d] \ DOMAIN docs'[d] = DOMAIN written[d] \ DOMAIN docs[d]
    BY <1>2, <1>5 DEF IndInv, StoreInv
  <2>2. QED
    BY <2>1 DEF removed
<1>11. QED
  BY <1>3, <1>4, <1>9, <1>10 DEF Log!Publish

\* A removal expires the message of its document, if that is still there.
LEMMA RemoveExpires ==
    ASSUME IndInv, NEW d \in batch, Remove(d)
    PROVE  [Log!Next]_(Log!vars)
<1> DEFINE c == d.circle
           i == d.id
<1>1. c \in Circles /\ i \in DOMAIN written[c]
  BY DEF IndInv, TypeOK, Docs, LoopInv
<1>2. i \in DOMAIN published[c] /\ published[c][i] # Blank
  BY <1>1, PublishedLog DEF IndInv, StoreInv
<1>3. UNCHANGED published
  BY DEF Remove, published
<1>4. \A e \in Circles : DOMAIN written'[e] \ DOMAIN docs'[e]
         = (DOMAIN written[e] \ DOMAIN docs[e]) \cup (IF e = c THEN {i} ELSE {})
  BY <1>1, RemoveDocs
<1>5. removed' = [removed EXCEPT ![c] = removed[c] \cup {i}]
  <2>1. \A e \in Circles : removed'[e] = removed[e] \cup (IF e = c THEN {i} ELSE {})
    BY <1>4 DEF removed
  <2>2. removed' = [e \in Circles |-> removed'[e]] /\ DOMAIN removed = Circles
    BY DEF removed
  <2>3. QED
    BY <2>1, <2>2
<1>6. Log!Expire(c, i)
  BY <1>2, <1>3, <1>5 DEF Log!Expire
<1>7. QED
  BY <1>1, <1>2, <1>6 DEF Log!Next

\* Every step of the store is one step of the message log, or none.
LEMMA StepRefines ==
    ASSUME IndInv, [Next]_vars
    PROVE  [Log!Next]_(Log!vars)
<1>1. ASSUME NEW p \in Clients, updateCounter(p) \/ updateCounterFails(p)
      PROVE  [Log!Next]_(Log!vars)
  <2>1. circle[p] \in Circles
    BY <1>1 DEF IndInv, HandlerInv, updateCounter, updateCounterFails
  <2>2. UNCHANGED <<docs, written>> /\ (Increment(p) \/ UNCHANGED counter)
    BY <1>1 DEF updateCounter, updateCounterFails
  <2>3. CASE Increment(p)
    BY <2>1, <2>2, <2>3, IncrementReserves DEF Log!Next
  <2>4. CASE UNCHANGED counter
    BY <2>2, <2>4 DEF Log!vars, published, removed
  <2>5. QED
    BY <2>2, <2>3, <2>4
<1>2. ASSUME NEW p \in Clients, pc[p] = "insert", InsertDoc(p), UNCHANGED counter
      PROVE  [Log!Next]_(Log!vars)
  <2>1. circle[p] \in Circles /\ post[p] \in Posts
    BY <1>2, InsertEffect
  <2>2. QED
    BY <1>2, <2>1, InsertPublishes DEF Log!Next
<1>3. CASE UNCHANGED database
  BY <1>3 DEF database, Log!vars, published, removed
<1>4. ASSUME NEW p \in Clients, Insert(p) \/ InsertFails(p)
      PROVE  [Log!Next]_(Log!vars)
  BY <1>2, <1>3, <1>4 DEF Insert, InsertFails, database
<1>5. QED
  BY <1>1, <1>3, <1>4, RemoveExpires DEF Next, PostStep, ExpireStep, vars, database, StartPost,
     GetLastMsg, GetMsgs, Age, ListCollections, ListCollectionsFails, Sleep, FindExpired,
     FindExpiredFails, RemoveFails, Crash

\* The MongoDB store implements the message log, whatever fails: $inc reserves an
\* id, the insert publishes the post there, the expiry loop expires it.
THEOREM RefinesMessageLog == Spec => ImplementsMessageLog
<1>1. Init => Log!Init
  BY NoMsgsEmpty DEF Init, Log!Init, published, removed
<1>2. IndInv /\ [Next]_vars => [Log!Next]_(Log!vars)
  BY StepRefines
<1>3. QED
  BY <1>1, <1>2, Invariance, PTL DEF Spec, ImplementsMessageLog, Log!Spec

=============================================================================
