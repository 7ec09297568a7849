--------------------------- MODULE TxnOnceProofs ---------------------------
(***************************************************************************)
(* Proofs about Txn: no change is made unless it was decided to apply its  *)
(* transaction, and none is made twice as long as its document was not     *)
(* both inserted and removed.                                              *)
(***************************************************************************)
EXTENDS TxnProofs

-----------------------------------------------------------------------------
(* What the flushers know of the revnos.                                   *)

\* A copy of a decided transaction has the revnos that were saved, and these stay.
LEMMA SameKept ==
    ASSUME StoredInv, Moves, NEW t \in Txns, NEW c, Agrees(c, t, tc), SameRevnos(c, t, tc)
    PROVE  SameRevnos(c, t, tc')
<1>1. c.s \in Decided => tc[t].s \in {"applying", "applied"} BY DEF Agrees, Later, Decided
<1> QED BY <1>1 DEF Moves, SameRevnos

\* So do the copies of a flusher and what a ResumeAll has still to flush.
LEMMA CopiesSame ==
    ASSUME StoredInv, FlusherInv, Moves, KnowledgeInv, NEW p \in Runners
    PROVE  CopiesKnow(copy[p], tc') /\ PendingKnow(pending[p], tc')
<1>1. CopiesFit(copy[p], tc) /\ PendingFits(pending[p], tc) BY DEF FlusherInv
<1>2. CopiesKnow(copy[p], tc) /\ PendingKnow(pending[p], tc) BY DEF KnowledgeInv
<1>3. CopiesKnow(copy[p], tc') BY <1>1, <1>2, SameKept DEF CopiesFit, CopiesKnow
<1>4. PendingKnow(pending[p], tc') BY <1>1, <1>2, SameKept DEF PendingFits, PendingKnow
<1> QED BY <1>3, <1>4

\* When one flusher goes on with what it knows, the others know no less.
LEMMA FlusherKnows ==
    ASSUME StoredInv, FlusherInv, Moves, KnowledgeInv, NEW p \in Runners, ops' = ops,
           NEW n, stack' = [stack EXCEPT ![p] = n], NEW c, copy' = [copy EXCEPT ![p] = c],
           NEW w, pending' = [pending EXCEPT ![p] = w],
           CallsKnow(n, c, ops), CopiesKnow(c, tc'), PendingKnow(w, tc')
    PROVE  KnowledgeInv'
<1>1. ASSUME NEW q \in Runners
      PROVE  /\ CallsKnow(stack'[q], copy'[q], ops) /\ CopiesKnow(copy'[q], tc')
             /\ PendingKnow(pending'[q], tc')
  <2>1. CASE q = p BY <2>1 DEF FlusherInv
  <2>2. CASE q # p
    <3>1. stack'[q] = stack[q] /\ copy'[q] = copy[q] /\ pending'[q] = pending[q]
      BY <2>2 DEF FlusherInv
    <3>2. CallsKnow(stack[q], copy[q], ops) BY DEF KnowledgeInv
    <3> QED BY <3>1, <3>2, CopiesSame
  <2> QED BY <2>1, <2>2
<1>2. ASSUME NEW q \in Runners
      PROVE  /\ CallsKnow(stack[q], copy[q], ops)' /\ CopiesKnow(copy[q], tc)'
             /\ PendingKnow(pending[q], tc)'
  <2>1. CallsKnow(stack[q], copy[q], ops)'
    <3>1. CallsKnow(stack'[q], copy'[q], ops') BY <1>1
    <3> QED BY <3>1, Zenon DEF CallsKnow, CallKnows, TopKnows, Numbers, ChangePcs
  <2>2. CopiesKnow(copy[q], tc)' BY <1>1 DEF CopiesKnow, SameRevnos
  <2>3. PendingKnow(pending[q], tc)' BY <1>1 DEF PendingKnow, SameRevnos
  <2> QED BY <2>1, <2>2, <2>3
<1> QED BY <1>2 DEF KnowledgeInv

\* A call that neither tests nor applies knows enough when it counts revisions.
Plain(fr) == CallKnows(fr) /\ fr.pc \notin ApplyingPcs \cup TestingPcs
LEMMA PlainTop ==
    ASSUME NEW fr, Plain(fr)
    PROVE  \A c, os : TopKnows(fr, c, os)
BY DEF Plain, TopKnows

\* The calls of a flusher that is in some.
LEMMA CallsKnown ==
    ASSUME FlusherInv, KnowledgeInv, NEW p \in Runners, stack[p] # <<>>
    PROVE  /\ CallKnows(Top(p)) /\ TopKnows(Top(p), T(p), ops[Id(p)])
           /\ \A i \in 2..Len(stack[p]) : Plain(stack[p][i])
<1>1. /\ DOMAIN stack[p] = 1..Len(stack[p]) /\ Len(stack[p]) \in Nat \ {0}
      /\ Top(p) = stack[p][1]
  BY StackType
<1>2. T(p) = copy[p][Top(p).h] /\ Id(p) = Top(p).h[1] BY TopType
<1>3. CallsKnow(stack[p], copy[p], ops) BY DEF KnowledgeInv
<1> QED BY <1>1, <1>2, <1>3 DEF CallsKnow, Plain

\* Goto: the call at the top goes on as x.
LEMMA GoesOnKnowing ==
    ASSUME StoredInv, FlusherInv, Moves, KnowledgeInv, NEW p \in Runners, ops' = ops,
           pending' = pending, stack[p] # <<>>, NEW x, Goto(p, x),
           NEW c, copy' = [copy EXCEPT ![p] = c], CopiesKnow(c, tc'),
           CallKnows(x), TopKnows(x, c[x.h], ops[x.h[1]])
    PROVE  KnowledgeInv'
<1>1. PICK s : s = stack[p] OBVIOUS
<1>2. s \in Seq(ToSet(s)) /\ Len(s) \in Nat \ {0} BY <1>1, StackType
<1>3. PICK n : /\ n = Push(x, Tail(s))
               /\ n \in Seq(ToSet(n)) /\ Len(n) = Len(s) /\ n[1] = x
               /\ \A i \in 2..Len(s) : n[i] = s[i]
  BY <1>2, Replaced
<1>4. stack' = [stack EXCEPT ![p] = n] BY <1>1, <1>3 DEF Goto, Push
<1>5. DOMAIN n = 1..Len(s) BY <1>3
<1>6. \A i \in 2..Len(s) : Plain(n[i]) BY <1>1, <1>3, CallsKnown
<1>7. CallsKnow(n, c, ops)
  <2>1. ASSUME NEW i \in DOMAIN n, i # 1 PROVE Plain(n[i])
    <3>1. i \in 2..Len(s) BY <1>2, <1>5, <2>1
    <3> QED BY <1>6, <3>1
  <2> QED BY <1>3, <2>1 DEF CallsKnow, Plain
<1>8. PendingKnow(pending[p], tc') /\ pending' = [pending EXCEPT ![p] = pending[p]]
  BY CopiesSame DEF FlusherInv
<1> QED BY <1>4, <1>7, <1>8, FlusherKnows

\* Call: the call at the top goes on as x once the call y returns.
LEMMA CallsOnKnowing ==
    ASSUME StoredInv, FlusherInv, Moves, KnowledgeInv, NEW p \in Runners, ops' = ops,
           pending' = pending, stack[p] # <<>>, NEW x, NEW y, Call(p, x, y),
           NEW c, copy' = [copy EXCEPT ![p] = c], CopiesKnow(c, tc'), Plain(x), Plain(y)
    PROVE  KnowledgeInv'
<1>1. PICK s : s = stack[p] OBVIOUS
<1>2. s \in Seq(ToSet(s)) /\ Len(s) \in Nat \ {0} BY <1>1, StackType
<1>3. PICK n : /\ n = PushTwo(y, x, Tail(s))
               /\ n \in Seq(ToSet(n)) /\ Len(n) = Len(s) + 1 /\ n[1] = y /\ n[2] = x
               /\ \A i \in 3..(Len(s) + 1) : n[i] = s[i - 1]
  BY <1>2, Called
<1>4. stack' = [stack EXCEPT ![p] = n] BY <1>1, <1>3 DEF Call, PushTwo
<1>5. DOMAIN n = 1..(Len(s) + 1) BY <1>2, <1>3
<1>6. ASSUME NEW i \in DOMAIN n PROVE Plain(n[i])
  <2>1. CASE i \in {1, 2} BY <1>3, <2>1
  <2>2. CASE i \notin {1, 2}
    <3>1. i \in 3..(Len(s) + 1) /\ i - 1 \in 2..Len(s) BY <1>2, <1>5, <2>2
    <3> QED BY <1>1, <1>3, <3>1, CallsKnown
  <2> QED BY <2>1, <2>2
<1>7. CallsKnow(n, c, ops) BY <1>6, PlainTop DEF CallsKnow, Plain
<1>8. PendingKnow(pending[p], tc') /\ pending' = [pending EXCEPT ![p] = pending[p]]
  BY CopiesSame DEF FlusherInv
<1> QED BY <1>4, <1>7, <1>8, FlusherKnows

\* Return: the call below goes on.
LEMMA ReturnsKnowing ==
    ASSUME StoredInv, FlusherInv, Moves, KnowledgeInv, NEW p \in Runners, ops' = ops,
           pending' = pending, stack[p] # <<>>, Top(p).pc \notin RunPcs, NEW err, Return(p, err),
           NEW c, copy' = [copy EXCEPT ![p] = c], CopiesKnow(c, tc')
    PROVE  KnowledgeInv'
<1>1. PICK s : s = stack[p] OBVIOUS
<1>2. /\ s \in Seq(ToSet(s)) /\ Len(s) \in Nat \ {0}
      /\ \A i \in 1..Len(s) : Fits(s[i], Len(s) - i, DOMAIN copy[p], tc)
      /\ Top(p) = s[1]
  BY <1>1, StackType
<1>3. Len(s) >= 2 BY <1>2 DEF Fits, RunFits
<1>4. PICK x : x = IF "err" \in DOMAIN s[2] THEN [s[2] EXCEPT !.err = err] ELSE s[2] OBVIOUS
<1>5. PICK n : /\ n = Push(x, Tail(Tail(s)))
               /\ n \in Seq(ToSet(n)) /\ Len(n) = Len(s) - 1 /\ n[1] = x
               /\ \A i \in 2..(Len(s) - 1) : n[i] = s[i + 1]
  <2>1. s \in Seq(ToSet(s)) BY <1>2
  <2> QED BY <1>3, <2>1, Returned
<1>6. stack' = [stack EXCEPT ![p] = n] BY <1>1, <1>4, <1>5 DEF Return, Push
<1>7. \A i \in 2..Len(s) : Plain(s[i]) BY <1>1, CallsKnown
<1>8. Plain(x)
  <2>1. Plain(s[2]) BY <1>2, <1>3, <1>7
  <2>2. /\ DOMAIN x = DOMAIN s[2] /\ x.pc = s[2].pc
        /\ "revno" \in DOMAIN x => x.revno = s[2].revno
    BY <1>4
  <2> QED BY <2>1, <2>2 DEF Plain, CallKnows
<1>9. ASSUME NEW i \in DOMAIN n PROVE Plain(n[i])
  <2>1. DOMAIN n = 1..(Len(s) - 1) BY <1>2, <1>3, <1>5
  <2>2. CASE i = 1 BY <1>5, <1>8, <2>2
  <2>3. CASE i # 1
    <3>1. i \in 2..(Len(s) - 1) /\ i + 1 \in 2..Len(s) BY <1>2, <2>1, <2>3
    <3> QED BY <1>5, <1>7, <3>1
  <2> QED BY <2>2, <2>3
<1>10. CallsKnow(n, c, ops) BY <1>9, PlainTop DEF CallsKnow, Plain
<1>11. PendingKnow(pending[p], tc') /\ pending' = [pending EXCEPT ![p] = pending[p]]
  BY CopiesSame DEF FlusherInv
<1> QED BY <1>6, <1>10, <1>11, FlusherKnows

-----------------------------------------------------------------------------
(* The steps of advance that neither test nor apply.                       *)

\* A call of advance counts revisions.
LEMMA AdvanceKnows ==
    ASSUME FlusherInv, KnowledgeInv, NEW p \in Runners, stack[p] # <<>>, Top(p).pc \in AdvancePcs
    PROVE  /\ DOMAIN Top(p) = AdvanceFields /\ Top(p).revno \in [Docs -> Int]
           /\ TopKnows(Top(p), T(p), ops[Id(p)])
<1>1. DOMAIN Top(p) = AdvanceFields BY AdvanceTop
<1>2. CallKnows(Top(p)) /\ TopKnows(Top(p), T(p), ops[Id(p)]) BY CallsKnown
<1> QED BY <1>1, <1>2 DEF CallKnows, AdvanceFields

\* The copies of a flusher stay, or that of the transaction being advanced is replaced by
\* another that has the revnos that were saved.
LEMMA CopyKnown ==
    ASSUME StoredInv, FlusherInv, Moves, KnowledgeInv, NEW p \in Runners, stack[p] # <<>>,
           NEW c, SameRevnos(c, Id(p), tc'), SetCopy(p, c)
    PROVE  \E cs : copy' = [copy EXCEPT ![p] = cs] /\ CopiesKnow(cs, tc') /\ cs[Top(p).h] = c
<1> DEFINE cs == [copy[p] EXCEPT ![Top(p).h] = c]
<1>1. copy' = [copy EXCEPT ![p] = cs] BY DEF SetCopy, FlusherInv
<1>2. CopiesKnow(copy[p], tc') BY CopiesSame
<1>3. Top(p).h \in DOMAIN copy[p] /\ Id(p) = Top(p).h[1] BY TopType
<1>4. CopiesKnow(cs, tc') /\ cs[Top(p).h] = c BY <1>2, <1>3 DEF CopiesKnow
<1> QED BY <1>1, <1>4

\* The transaction being advanced goes on at x, and not with its operations.
LEMMA AdvancesKnowing ==
    ASSUME StoredInv, FlusherInv, Moves, KnowledgeInv, NEW p \in Runners, ops' = ops,
           pending' = pending, stack[p] # <<>>, NEW x, Goto(p, x), Plain(x),
           copy' = copy \/ \E c : SameRevnos(c, Id(p), tc') /\ SetCopy(p, c)
    PROVE  KnowledgeInv'
<1>1. \E cs : copy' = [copy EXCEPT ![p] = cs] /\ CopiesKnow(cs, tc')
  <2>1. CASE copy' = copy BY <2>1, CopiesSame DEF FlusherInv
  <2>2. CASE copy' # copy BY <2>2, CopyKnown
  <2> QED BY <2>1, <2>2
<1>2. PICK cs : copy' = [copy EXCEPT ![p] = cs] /\ CopiesKnow(cs, tc') BY <1>1
<1>3. CallKnows(x) /\ TopKnows(x, cs[x.h], ops[x.h[1]]) BY PlainTop DEF Plain
<1> QED BY <1>2, <1>3, GoesOnKnowing

\* Where advance neither tests nor applies.
PlainPcs == AdvancePcs \ (ApplyingPcs \cup TestingPcs)
LEMMA PlainAre ==
    PlainPcs = {"advance", "setPrepared", "lostPrepared", "prepared", "popped", "rescanned",
                "setAborting", "lostAborting", "lostApplying"} \cup KeyPcs \cup AbortingPcs
BY DEF PlainPcs, AdvancePcs, ApplyingPcs, TestingPcs, KeyPcs, AbortingPcs

\* A call of advance at another place counts as before.
LEMMA PlainElsewhere ==
    ASSUME FlusherInv, KnowledgeInv, NEW p \in Runners, stack[p] # <<>>, Top(p).pc \in AdvancePcs,
           NEW x, DOMAIN x = AdvanceFields, x.pc \in PlainPcs,
           x.revno = Top(p).revno \/ x.revno = [d \in Docs |-> 0]
    PROVE  Plain(x)
BY AdvanceKnows DEF Plain, CallKnows, PlainPcs

\* advance goes on elsewhere.
LEMMA JumpsKnowing ==
    ASSUME StoredInv, FlusherInv, Moves, KnowledgeInv, NEW p \in Runners, ops' = ops,
           pending' = pending, stack[p] # <<>>, Top(p).pc \in AdvancePcs,
           NEW pc \in PlainPcs, To(p, pc),
           copy' = copy \/ \E c : SameRevnos(c, Id(p), tc') /\ SetCopy(p, c)
    PROVE  KnowledgeInv'
<1>1. PICK x : x = [Top(p) EXCEPT !.pc = pc] OBVIOUS
<1>2. DOMAIN x = AdvanceFields /\ x.pc = pc /\ x.revno = Top(p).revno
  BY <1>1, AdvanceTop DEF AdvanceFields
<1>3. Goto(p, x) BY <1>1 DEF To
<1>4. Plain(x) BY <1>2, PlainElsewhere
<1> QED BY <1>3, <1>4, AdvancesKnowing

\* A queue and a revno were read.
LEMMA SawKnowing ==
    ASSUME StoredInv, FlusherInv, Moves, KnowledgeInv, NEW p \in Runners, ops' = ops,
           pending' = pending, copy' = copy, stack[p] # <<>>, Top(p).pc \in KeyPcs,
           NEW q, NEW revno \in Int, NEW pc \in PlainPcs, NEW end \in PlainPcs,
           Saw(p, q, revno, pc, end)
    PROVE  KnowledgeInv'
<1>1. Top(p).pc \in AdvancePcs BY DEF AdvancePcs
<1>2. DOMAIN Top(p) = AdvanceFields /\ Top(p).revno \in [Docs -> Int] BY <1>1, AdvanceKnows
<1>3. Key(p) \in Docs BY KeyType
<1>4. PICK x : x = [Top(p) EXCEPT !.revno[Key(p)] = revno,
                        !.pc = IF Top(p).k = Len(docKeys(Id(p))) THEN end ELSE pc,
                        !.k = IF Top(p).k = Len(docKeys(Id(p))) THEN 1 ELSE @ + 1]
  OBVIOUS
<1>5. /\ DOMAIN x = AdvanceFields /\ x.pc \in PlainPcs
      /\ x.revno = [Top(p).revno EXCEPT ![Key(p)] = revno]
  BY <1>2, <1>4 DEF AdvanceFields
<1>6. Goto(p, x) BY <1>4 DEF Saw
<1>7. x.revno \in [Docs -> Int] BY <1>2, <1>3, <1>5
<1>8. Plain(x) BY <1>5, <1>7 DEF Plain, CallKnows, PlainPcs
<1> QED BY <1>6, <1>8, AdvancesKnowing

\* The copy of a transaction as it is now.
LEMMA NewCopy ==
    ASSUME StoredInv, FlusherInv, Moves, KnowledgeInv, NEW p \in Runners, tc' = tc,
           NEW t \in Txns, NEW n
    PROVE  LET cs == Holding(copy[p], <<t, n>>, tc[t])
           IN  /\ [copy EXCEPT ![p] = Holding(@, <<t, n>>, tc[t])] = [copy EXCEPT ![p] = cs]
               /\ CopiesKnow(cs, tc')
<1> DEFINE h == <<t, n>>
<1>1. PICK cs : cs = Holding(copy[p], h, tc[t]) OBVIOUS
<1>2. /\ DOMAIN cs = DOMAIN copy[p] \cup {h} /\ cs[h] = tc[t]
      /\ \A g \in DOMAIN copy[p] : g # h => cs[g] = copy[p][g]
  BY <1>1 DEF Holding
<1>3. CopiesKnow(copy[p], tc') BY CopiesSame
<1>4. SameRevnos(tc[t], t, tc') /\ h[1] = t BY DEF SameRevnos
<1>5. CopiesKnow(cs, tc') BY <1>2, <1>3, <1>4 DEF CopiesKnow
<1>6. [copy EXCEPT ![p] = Holding(@, h, tc[t])] = [copy EXCEPT ![p] = cs] BY <1>1 DEF FlusherInv
<1> QED BY <1>1, <1>5, <1>6

\* A call of advance or recurse that starts is plain.
LEMMA NewPlain ==
    \A h, pull, force : Plain(AdvanceFrame(h, pull, force)) /\ Plain(RecurseFrame(h))
                        /\ Plain(RunFrame(h))
<1>1. {"advance", "recurse", "run"} \cap (ApplyingPcs \cup TestingPcs) = {}
  BY DEF ApplyingPcs, TestingPcs
<1>2. \A h, pull, force : /\ AdvanceFrame(h, pull, force).pc = "advance"
                          /\ AdvanceFrame(h, pull, force).revno = [d \in Docs |-> 0]
                          /\ RecurseFrame(h).pc = "recurse" /\ RunFrame(h).pc = "run"
                          /\ "revno" \notin DOMAIN RecurseFrame(h)
                          /\ "revno" \notin DOMAIN RunFrame(h)
  BY DEF AdvanceFrame, RecurseFrame, RunFrame
<1>3. [d \in Docs |-> 0] \in [Docs -> Int] OBVIOUS
<1> QED BY <1>1, <1>2, <1>3 DEF Plain, CallKnows

\* Another transaction is applied first.
LEMMA LoadsKnowing ==
    ASSUME StoredInv, FlusherInv, Moves, KnowledgeInv, NEW p \in Runners, ops' = ops,
           pending' = pending, tc' = tc, stack[p] # <<>>, Top(p).pc \in KeyPcs,
           NEW pc \in PlainPcs, NEW t \in Txns, loadAndApply(p, t, pc)
    PROVE  KnowledgeInv'
<1> DEFINE h == <<t, Len(stack[p])>>
<1>1. PICK x : x = [Top(p) EXCEPT !.pc = pc] OBVIOUS
<1>2. Top(p).pc \in AdvancePcs BY DEF AdvancePcs
<1>3. DOMAIN x = AdvanceFields /\ x.pc = pc /\ x.revno = Top(p).revno
  BY <1>1, <1>2, AdvanceTop DEF AdvanceFields
<1>4. Plain(x) BY <1>2, <1>3, PlainElsewhere
<1>5. PICK y : y = AdvanceFrame(h, Self(h), TRUE) OBVIOUS
<1>6. Plain(y) BY <1>5, NewPlain
<1>7. PICK cs : copy' = [copy EXCEPT ![p] = cs] /\ CopiesKnow(cs, tc')
  BY NewCopy DEF loadAndApply
<1>8. Call(p, x, y) BY <1>1, <1>5 DEF loadAndApply
<1> QED BY <1>4, <1>6, <1>7, <1>8, CallsOnKnowing

\* prepare and rescan: the queues and the revnos of the documents.
LEMMA PrepareKnowing ==
    ASSUME StoredInv, FlusherInv, Moves, KnowledgeInv, NumbersInv, NEW p \in Runners, ops' = ops,
           pending' = pending,
           \/ prepareDoc(p) \/ prepareStash(p) \/ confirmDoc(p) \/ confirmStash(p)
           \/ unstashToken(p) \/ rescanDoc(p) \/ rescanStash(p)
    PROVE  KnowledgeInv'
<1> DEFINE d == Key(p)
<1>1. stack[p] # <<>> /\ Top(p).pc \in KeyPcs /\ tc' = tc
  BY DEF prepareDoc, prepareStash, confirmDoc, confirmStash, unstashToken, rescanDoc, rescanStash,
         At, KeyPcs, db
<1>2. Top(p).pc \in AdvancePcs BY <1>1 DEF AdvancePcs
<1>3. d \in Docs BY <1>1, KeyType
<1>4. /\ doc[d].rm \in Txns \cup {None} /\ stash[d].ins \in Txns \cup {None}
      /\ doc[d].revno \in Int /\ StashRevno(d) \in Int
  BY <1>3 DEF StoredInv, NumbersInv, StashRevno
<1>5. {"prepare", "prepareStash", "confirmDoc", "confirmStash", "unstash", "rescan", "rescanStash",
       "missing", "setPrepared", "popped", "rescanned"} \subseteq PlainPcs
  BY PlainAre DEF KeyPcs
<1>6. ASSUME NEW pc \in {"prepareStash", "confirmDoc", "confirmStash", "unstash", "prepare",
                         "rescanStash", "missing"},
             To(p, pc), copy' = copy
      PROVE  KnowledgeInv'
  BY <1>1, <1>2, <1>5, <1>6, JumpsKnowing
<1>7. ASSUME NEW q, NEW revno \in Int, NEW pc \in PlainPcs, NEW end \in PlainPcs,
             Saw(p, q, revno, pc, end), copy' = copy
      PROVE  KnowledgeInv'
  BY <1>1, <1>7, SawKnowing
<1>8. ASSUME NEW t \in Txns, NEW pc \in {"prepare", "rescan"}, loadAndApply(p, t, pc)
      PROVE  KnowledgeInv'
  BY <1>1, <1>5, <1>8, LoadsKnowing
<1>9. CASE prepareDoc(p) BY <1>4, <1>5, <1>6, <1>7, <1>8, <1>9 DEF prepareDoc
<1>10. CASE prepareStash(p)
  <2>1. Upserted(d).ins # None => stash[d].ins \in Txns BY <1>3, UpsertedType
  <2> QED BY <1>6, <1>8, <1>10, <2>1 DEF prepareStash
<1>11. CASE confirmDoc(p) BY <1>4, <1>5, <1>6, <1>7, <1>11 DEF confirmDoc
<1>12. CASE confirmStash(p) BY <1>4, <1>5, <1>6, <1>7, <1>12 DEF confirmStash
<1>13. CASE unstashToken(p) BY <1>6, <1>13 DEF unstashToken
<1>14. ASSUME NEW q, NEW revno \in Int, NEW c,
              Saw(p, q, revno, IF c THEN "rescan" ELSE "popped", IF c THEN "rescanned" ELSE "popped"),
              copy' = copy
       PROVE  KnowledgeInv'
  BY <1>5, <1>7, <1>14
<1>15. CASE rescanDoc(p) BY <1>4, <1>6, <1>8, <1>14, <1>15 DEF rescanDoc
<1>16. CASE rescanStash(p) BY <1>4, <1>6, <1>8, <1>14, <1>16 DEF rescanStash
<1> QED BY <1>9, <1>10, <1>11, <1>12, <1>13, <1>15, <1>16

\* What a flusher reloads has the revnos that were saved.
LEMMA ReloadKnown ==
    ASSUME NEW p \in Runners, tc' = tc, reload(p)
    PROVE  \E c : SameRevnos(c, Id(p), tc') /\ SetCopy(p, c)
<1>1. SameRevnos(tc[Id(p)], Id(p), tc') BY DEF SameRevnos
<1> QED BY <1>1 DEF reload

\* setPrepared, and the calls of a flusher that lost a race or its token.
LEMMA ReloadKnowing ==
    ASSUME StoredInv, FlusherInv, Moves, KnowledgeInv, NEW p \in Runners, ops' = ops,
           pending' = pending,
           setPrepared(p) \/ lostPrepared(p) \/ missing(p) \/ popped(p) \/ lostApplying(p)
    PROVE  KnowledgeInv'
<1>1. stack[p] # <<>> /\ Top(p).pc \in AdvancePcs
  BY DEF setPrepared, lostPrepared, missing, popped, lostApplying, At, AdvancePcs, KeyPcs
<1>2. {"prepared", "lostPrepared", "advance", "rescan"} \subseteq PlainPcs BY PlainAre DEF KeyPcs
<1>3. DOMAIN Top(p) = AdvanceFields BY <1>1, AdvanceTop
<1>4. CASE setPrepared(p)
  <2>1. CASE tc[Id(p)].s = "preparing"
    <3>1. PICK m : m = [T(p) EXCEPT !.s = "prepared", !.n = Top(p).tt[2]] OBVIOUS
    <3>2. DOMAIN T(p) = {"s", "n", "r"} BY <1>1, TopType DEF Agrees, NewTxn
    <3>3. m.s = "prepared" BY <3>1, <3>2
    <3>4. SameRevnos(m, Id(p), tc') BY <3>3 DEF SameRevnos, Decided
    <3>5. SetCopy(p, m) /\ To(p, "prepared") BY <1>4, <2>1, <3>1 DEF setPrepared
    <3> QED BY <1>1, <1>2, <3>4, <3>5, JumpsKnowing
  <2>2. CASE tc[Id(p)].s # "preparing"
    <3>1. copy' = copy /\ To(p, "lostPrepared") BY <1>4, <2>2 DEF setPrepared
    <3> QED BY <1>1, <1>2, <3>1, JumpsKnowing
  <2> QED BY <2>1, <2>2
<1>5. CASE lostPrepared(p) \/ missing(p) \/ popped(p) \/ lostApplying(p)
  <2>1. \E c : SameRevnos(c, Id(p), tc') /\ SetCopy(p, c)
    BY <1>5, ReloadKnown DEF lostPrepared, missing, popped, lostApplying, db
  <2>2. CASE lostPrepared(p)
    <3>1. PICK x : x = [Top(p) EXCEPT !.pc = IF tc[Id(p)].s = "prepared" THEN "prepared" ELSE "advance",
                                      !.tt = <<Id(p), tc[Id(p)].n>>]
      OBVIOUS
    <3>2. DOMAIN x = AdvanceFields /\ x.pc \in {"prepared", "advance"} /\ x.revno = Top(p).revno
      BY <1>3, <3>1 DEF AdvanceFields
    <3>3. Goto(p, x) BY <2>2, <3>1 DEF lostPrepared
    <3>4. Plain(x) BY <1>1, <1>2, <3>2, PlainElsewhere
    <3> QED BY <1>1, <2>1, <3>3, <3>4, AdvancesKnowing
  <2>3. CASE missing(p)
    <3>1. PICK x : x = [Top(p) EXCEPT !.pc = IF tc[Id(p)].s = "prepared" THEN "rescan" ELSE "advance",
                                      !.tries = IF tc[Id(p)].s = "prepared" THEN @ + 1 ELSE @]
      OBVIOUS
    <3>2. DOMAIN x = AdvanceFields /\ x.pc \in {"rescan", "advance"} /\ x.revno = Top(p).revno
      BY <1>3, <3>1 DEF AdvanceFields
    <3>3. Goto(p, x) BY <2>3, <3>1 DEF missing
    <3>4. Plain(x) BY <1>1, <1>2, <3>2, PlainElsewhere
    <3> QED BY <1>1, <2>1, <3>3, <3>4, AdvancesKnowing
  <2>4. CASE popped(p) \/ lostApplying(p)
    <3>1. To(p, "advance") BY <2>4 DEF popped, lostApplying
    <3> QED BY <1>1, <1>2, <2>1, <3>1, JumpsKnowing
  <2> QED BY <1>5, <2>2, <2>3, <2>4
<1> QED BY <1>4, <1>5

\* The tokens that are pulled next, or the end of the abort.
LEMMA PullingKnowing ==
    ASSUME StoredInv, FlusherInv, Moves, KnowledgeInv, NEW p \in Runners, ops' = ops,
           pending' = pending, stack[p] # <<>>, Top(p).pc \in AdvancePcs,
           NEW k, Goto(p, Pulling(p, k)),
           copy' = copy \/ \E c : SameRevnos(c, Id(p), tc') /\ SetCopy(p, c)
    PROVE  KnowledgeInv'
<1>1. PICK x : x = Pulling(p, k) OBVIOUS
<1>2. DOMAIN Top(p) = AdvanceFields BY AdvanceTop
<1>3. DOMAIN x = AdvanceFields /\ x.pc \in AbortingPcs BY <1>1, <1>2, PullingType
<1>4. x.revno = Top(p).revno BY <1>1, <1>2 DEF Pulling, AdvanceFields
<1>5. x.pc \in PlainPcs BY <1>3, PlainAre
<1>6. Plain(x) BY <1>3, <1>4, <1>5, PlainElsewhere
<1> QED BY <1>1, <1>6, AdvancesKnowing

\* The abort.
LEMMA AbortKnowing ==
    ASSUME StoredInv, FlusherInv, Moves, KnowledgeInv, NEW p \in Runners, ops' = ops,
           pending' = pending,
           setAborting(p) \/ lostAborting(p) \/ pullDoc(p) \/ setAborted(p)
    PROVE  KnowledgeInv'
<1>1. stack[p] # <<>> /\ Top(p).pc \in AdvancePcs
  BY DEF setAborting, lostAborting, pullDoc, setAborted, At, AdvancePcs, AbortingPcs
<1>2. {"lostAborting", "advance"} \subseteq PlainPcs BY PlainAre
<1>3. DOMAIN T(p) = {"s", "n", "r"} BY <1>1, TopType DEF Agrees, NewTxn
<1>4. ASSUME NEW s \in {"aborting", "aborted"}, NEW m, m = [T(p) EXCEPT !.s = s]
      PROVE  SameRevnos(m, Id(p), tc')
  BY <1>3, <1>4 DEF SameRevnos, Decided
<1>5. CASE setAborting(p) /\ tc[Id(p)].s = "prepared"
  <2>1. PICK m : m = [T(p) EXCEPT !.s = "aborting"] OBVIOUS
  <2>2. SetCopy(p, m) /\ Goto(p, Pulling(p, 1)) BY <1>5, <2>1 DEF setAborting
  <2>3. SameRevnos(m, Id(p), tc') BY <1>4, <2>1
  <2> QED BY <1>1, <2>2, <2>3, PullingKnowing
<1>6. CASE setAborting(p) /\ tc[Id(p)].s # "prepared"
  <2>1. copy' = copy /\ To(p, "lostAborting") BY <1>6 DEF setAborting
  <2> QED BY <1>1, <1>2, <2>1, JumpsKnowing
<1>7. CASE lostAborting(p)
  <2>1. \E c : SameRevnos(c, Id(p), tc') /\ SetCopy(p, c) BY <1>7, ReloadKnown DEF lostAborting, db
  <2>2. Goto(p, Pulling(p, 1)) \/ To(p, "advance") BY <1>7 DEF lostAborting, To
  <2> QED BY <1>1, <1>2, <2>1, <2>2, PullingKnowing, JumpsKnowing
<1>8. CASE pullDoc(p)
  <2>1. copy' = copy /\ Goto(p, Pulling(p, Top(p).k + 1)) BY <1>8 DEF pullDoc
  <2> QED BY <1>1, <2>1, PullingKnowing
<1>9. CASE setAborted(p)
  <2>1. PICK m : m = [T(p) EXCEPT !.s = "aborted"] OBVIOUS
  <2>2. SetCopy(p, m) /\ To(p, "advance") BY <1>9, <2>1 DEF setAborted
  <2>3. SameRevnos(m, Id(p), tc') BY <1>4, <2>1
  <2> QED BY <1>1, <1>2, <2>2, <2>3, JumpsKnowing
<1> QED BY <1>5, <1>6, <1>7, <1>8, <1>9

-----------------------------------------------------------------------------
(* The steps that test and decide.                                         *)

\* The operation that is tested next has the revnos of those before it.
LEMMA TestedKeeps ==
    ASSUME NEW p, NEW fr, NEW k, DOMAIN fr = AdvanceFields
    PROVE  Tested(p, fr, k).revnos = fr.revnos /\ Tested(p, fr, k).revno = fr.revno
BY DEF Tested, AdvanceFields

\* advance goes on with the next test, or with the decision.
LEMMA TestsKnowing ==
    ASSUME StoredInv, FlusherInv, Moves, KnowledgeInv, NEW p \in Runners, ops' = ops,
           pending' = pending, copy' = copy, stack[p] # <<>>, Top(p).pc \in AdvancePcs,
           NEW x, Goto(p, x), DOMAIN x = AdvanceFields, x.h = Top(p).h, x.revno = Top(p).revno,
           x.pc \in {"setApplying", "setAborting", "assertDoc"}, Numbers(x.revnos, ops[Id(p)])
    PROVE  KnowledgeInv'
<1>1. CallKnows(x) BY AdvanceKnows DEF CallKnows
<1>2. x.pc \notin ApplyingPcs BY DEF ApplyingPcs
<1>3. TopKnows(x, copy[p][x.h], ops[x.h[1]]) BY <1>2, TopType DEF TopKnows
<1>4. copy' = [copy EXCEPT ![p] = copy[p]] BY DEF FlusherInv
<1> QED BY <1>1, <1>3, <1>4, CopiesSame, GoesOnKnowing

\* The revnos of the operations follow from those of the documents.
LEMMA RevnosType ==
    ASSUME StoredInv, NEW t \in Txns, NEW revno \in [Docs -> Int]
    PROVE  Numbers(Revnos(t, revno), ops[t])
<1>1. PICK os : os = ops[t] OBVIOUS
<1>2. Len(os) \in Nat /\ DOMAIN os = 1..Len(os) /\ \A i \in DOMAIN os : os[i].d \in Docs
  <2>1. os \in Seq(Op) BY <1>1 DEF StoredInv
  <2>2. Len(os) \in Nat /\ DOMAIN os = 1..Len(os) /\ \A i \in DOMAIN os : os[i] \in Op BY <2>1
  <2> QED BY <2>2 DEF Op
<1>3. ASSUME NEW i \in DOMAIN os PROVE Revnos(t, revno)[i] \in Int
  <2>1. PICK before : before = {j \in 1..(i - 1) : os[j].d = os[i].d /\ isChange(os[j])} OBVIOUS
  <2>2. before \subseteq 1..(i - 1) /\ i - 1 \in Int BY <1>2, <2>1
  <2>3. IsFiniteSet(before)
    <3>1. PICK W : W = 1..(i - 1) OBVIOUS
    <3>2. IsFiniteSet(W) BY <2>2, <3>1, FS_Interval
    <3> QED BY <2>2, <3>1, <3>2, FS_Subset
  <2>4. Cardinality(before) \in Nat BY <2>3, FS_CardinalityType
  <2>5. revno[os[i].d] \in Int BY <1>2
  <2>6. Revnos(t, revno)[i] = revno[os[i].d] + Cardinality(before) BY <1>1, <2>1 DEF Revnos
  <2> QED BY <2>4, <2>5, <2>6
<1> QED BY <1>1, <1>3 DEF Numbers

\* assert: one query.
LEMMA AssertKnowing ==
    ASSUME StoredInv, FlusherInv, Moves, KnowledgeInv, NEW p \in Runners, ops' = ops,
           pending' = pending, assertDoc(p)
    PROVE  KnowledgeInv'
<1>1. stack[p] # <<>> /\ Top(p).pc \in AdvancePcs /\ Top(p).pc \in TestingPcs /\ copy' = copy
  BY DEF assertDoc, At, AdvancePcs, TestingPcs
<1>2. DOMAIN Top(p) = AdvanceFields BY <1>1, AdvanceTop
<1>3. Numbers(Top(p).revnos, ops[Id(p)]) BY <1>1, AdvanceKnows DEF TopKnows
<1>4. PICK x : /\ Goto(p, x)
               /\ x = Tested(p, Top(p), Top(p).k + 1) \/ x = [Top(p) EXCEPT !.pc = "setAborting"]
  BY DEF assertDoc
<1>5. /\ DOMAIN x = AdvanceFields /\ x.h = Top(p).h /\ x.revno = Top(p).revno
      /\ x.revnos = Top(p).revnos /\ x.pc \in {"setApplying", "setAborting", "assertDoc"}
  <2>1. CASE x = Tested(p, Top(p), Top(p).k + 1) BY <2>1, <1>2, TestedType, TestedKeeps
  <2>2. CASE x = [Top(p) EXCEPT !.pc = "setAborting"] BY <2>2, <1>2 DEF AdvanceFields
  <2> QED BY <1>4, <2>1, <2>2
<1>6. Numbers(x.revnos, ops[Id(p)]) BY <1>3, <1>5
<1> QED BY <1>1, <1>4, <1>5, <1>6, TestsKnowing

\* prepare and rescan end.
LEMMA CollectedKnowing ==
    ASSUME StoredInv, FlusherInv, Moves, KnowledgeInv, NEW p \in Runners, ops' = ops,
           pending' = pending, collected(p)
    PROVE  KnowledgeInv'
<1>1. stack[p] # <<>> /\ Top(p).pc \in AdvancePcs /\ Top(p).pc \notin RunPcs /\ copy' = copy
  BY DEF collected, At, AdvancePcs, RunPcs
<1>2. CASE Return(p, "preReqs")
  <2>1. copy' = [copy EXCEPT ![p] = copy[p]] /\ CopiesKnow(copy[p], tc')
    BY <1>1, CopiesSame DEF FlusherInv
  <2> QED BY <1>1, <1>2, <2>1, ReturnsKnowing
<1>3. CASE Goto(p, Tested(p, [Top(p) EXCEPT !.revnos = Revnos(Id(p), Top(p).revno)], 1))
  <2>1. PICK r : r = Revnos(Id(p), Top(p).revno) OBVIOUS
  <2>2. PICK fr : fr = [Top(p) EXCEPT !.revnos = r] OBVIOUS
  <2>3. DOMAIN fr = AdvanceFields /\ fr.h = Top(p).h /\ fr.revnos = r /\ fr.revno = Top(p).revno
    BY <1>1, <2>2, AdvanceTop DEF AdvanceFields
  <2>4. Numbers(r, ops[Id(p)])
    BY <1>1, <2>1, AdvanceKnows, TopType, RevnosType
  <2>5. PICK x : x = Tested(p, fr, 1) OBVIOUS
  <2>6. /\ DOMAIN x = AdvanceFields /\ x.h = Top(p).h /\ x.revnos = r /\ x.revno = Top(p).revno
        /\ x.pc \in {"setApplying", "setAborting", "assertDoc"}
    BY <2>3, <2>5, TestedType, TestedKeeps
  <2>7. Goto(p, x) BY <1>3, <2>1, <2>2, <2>5
  <2>8. Numbers(x.revnos, ops[Id(p)]) BY <2>4, <2>6
  <2> QED BY <1>1, <2>6, <2>7, <2>8, TestsKnowing
<1>4. CASE Goto(p, [AdvanceFrame(Top(p).h, Top(p).pull, Top(p).force)
                      EXCEPT !.pc = "rescan", !.tt = Top(p).tt])
  <2>1. PICK x : x = [AdvanceFrame(Top(p).h, Top(p).pull, Top(p).force)
                        EXCEPT !.pc = "rescan", !.tt = Top(p).tt]
    OBVIOUS
  <2>2. DOMAIN x = AdvanceFields /\ x.pc = "rescan" /\ x.revno = [d \in Docs |-> 0]
    BY <2>1 DEF AdvanceFrame, AdvanceFields
  <2>3. "rescan" \in PlainPcs BY PlainAre DEF KeyPcs
  <2>4. Plain(x) BY <1>1, <2>2, <2>3, PlainElsewhere
  <2> QED BY <1>1, <1>4, <2>1, <2>4, AdvancesKnowing
<1> QED BY <1>2, <1>3, <1>4 DEF collected

\* checkpoint saves the revnos that were tested.
LEMMA CheckpointKnowing ==
    ASSUME StoredInv, FlusherInv, Moves, KnowledgeInv, NumbersInv, NEW p \in Runners, ops' = ops,
           pending' = pending, checkpoint(p)
    PROVE  /\ KnowledgeInv'
           /\ \A t \in Txns : tc'[t].s \in Decided => Numbers(tc'[t].r, ops[t])
<1> DEFINE t == Id(p)
<1>1. stack[p] # <<>> /\ Top(p).pc \in AdvancePcs /\ Top(p).pc \in TestingPcs
  BY DEF checkpoint, At, AdvancePcs, TestingPcs
<1>2. {"advance", "lostApplying"} \subseteq PlainPcs BY PlainAre
<1>3. /\ t \in Txns /\ DOMAIN T(p) = {"s", "n", "r"} /\ DOMAIN tc[t] = {"s", "n", "r"}
      /\ DOMAIN tc = Txns
  BY <1>1, TopType DEF Agrees, NewTxn, StoredInv
<1>4. Numbers(Top(p).revnos, ops[t]) BY <1>1, AdvanceKnows DEF TopKnows
<1>5. CASE tc[t].s = "prepared"
  <2>1. PICK r : r = Top(p).revnos OBVIOUS
  <2>2. PICK m : m = [T(p) EXCEPT !.s = "applying", !.r = r] OBVIOUS
  <2>3. PICK c : c = [tc[t] EXCEPT !.s = "applying", !.r = r] OBVIOUS
  <2>4. tc' = [tc EXCEPT ![t] = c] /\ SetCopy(p, m) /\ To(p, "advance")
    BY <1>5, <2>1, <2>2, <2>3 DEF checkpoint
  <2>5. m.r = r /\ c.r = r BY <1>3, <2>2, <2>3
  <2>6. tc'[t].r = r /\ \A u \in Txns : u # t => tc'[u] = tc[u] BY <1>3, <2>4, <2>5
  <2>7. SameRevnos(m, t, tc') BY <2>5, <2>6 DEF SameRevnos
  <2>8. KnowledgeInv' BY <1>1, <1>2, <2>4, <2>7, JumpsKnowing
  <2> QED BY <1>4, <2>1, <2>6, <2>8 DEF NumbersInv
<1>6. CASE tc[t].s # "prepared"
  <2>1. tc' = tc /\ copy' = copy /\ To(p, "lostApplying") BY <1>6 DEF checkpoint
  <2>2. KnowledgeInv' BY <1>1, <1>2, <2>1, JumpsKnowing
  <2> QED BY <2>1, <2>2 DEF NumbersInv
<1> QED BY <1>5, <1>6

-----------------------------------------------------------------------------
(* The steps that apply.                                                   *)

\* The operation that is applied next is there, and a change of its kind is next.
LEMMA ApplyingKind ==
    ASSUME StoredInv, NEW p, Id(p) \in Txns, NEW fr, DOMAIN fr = AdvanceFields,
           NEW k \in Nat \ {0}
    PROVE  LET x == Applying(p, fr, k)
           IN  /\ DOMAIN x = AdvanceFields /\ x.h = fr.h /\ x.revno = fr.revno
               /\ x.pc \in ApplyingPcs
               /\ x.pc # "setApplied" => /\ x.k \in DOMAIN ops[Id(p)]
                                         /\ x.pc \in ChangePcs(ops[Id(p)][x.k].kind)
<1>1. PICK t : t = ops[Id(p)] OBVIOUS
<1>2. Len(t) \in Nat /\ DOMAIN t = 1..Len(t) /\ \A i \in 1..Len(t) : t[i] \in Op
  <2>1. t \in Seq(Op) BY <1>1 DEF StoredInv
  <2> QED BY <2>1
<1>3. PICK left : left = {i \in k..Len(t) : isChange(t[i]) /\ (t[i].kind = "insert") = (T(p).r[i] < 0)}
  OBVIOUS
<1>4. PICK j : j = CHOOSE i \in left : \A m \in left : i <= m OBVIOUS
<1>5. PICK x : x = Applying(p, fr, k) OBVIOUS
<1>6. x = IF left = {} THEN [fr EXCEPT !.pc = "setApplied"]
                       ELSE [fr EXCEPT !.k = j, !.pc = t[j].kind]
  BY <1>1, <1>3, <1>4, <1>5 DEF Applying
<1>7. CASE left = {}
  <2>1. x = [fr EXCEPT !.pc = "setApplied"] BY <1>6, <1>7
  <2> QED BY <1>5, <2>1 DEF AdvanceFields, ApplyingPcs
<1>8. CASE left # {}
  <2>1. left \in SUBSET Nat /\ left \subseteq 1..Len(t) BY <1>2, <1>3
  <2>2. \E m \in left : \A i \in left : m <= i BY <1>8, <2>1, Least
  <2>3. j \in left BY <1>4, <2>2
  <2>4. t[j] \in Op /\ t[j].kind # "assert" BY <1>2, <1>3, <2>1, <2>3 DEF isChange
  <2>5. t[j].kind \in {"update", "insert", "remove"} BY <2>4 DEF Op
  <2>6. x = [fr EXCEPT !.k = j, !.pc = t[j].kind] BY <1>6, <1>8
  <2>7. DOMAIN x = AdvanceFields /\ x.h = fr.h /\ x.revno = fr.revno /\ x.k = j /\ x.pc = t[j].kind
    BY <2>6 DEF AdvanceFields
  <2>8. x.pc \in ApplyingPcs /\ x.pc \in ChangePcs(t[j].kind)
    BY <2>5, <2>7 DEF ApplyingPcs, ChangePcs
  <2>9. j \in DOMAIN t BY <1>2, <2>1, <2>3
  <2> QED BY <1>1, <1>5, <2>7, <2>8, <2>9
<1> QED BY <1>7, <1>8

\* The transaction whose copy is being applied goes on with an operation.
LEMMA AppliesKnowing ==
    ASSUME StoredInv, FlusherInv, Moves, KnowledgeInv, NEW p \in Runners, ops' = ops,
           pending' = pending, copy' = copy, stack[p] # <<>>, Top(p).pc \in AdvancePcs,
           T(p).s = "applying",
           NEW x, Goto(p, x), DOMAIN x = AdvanceFields, x.h = Top(p).h,
           x.revno \in [Docs -> Int], x.pc \in ApplyingPcs,
           x.pc # "setApplied" => /\ x.k \in DOMAIN ops[Id(p)]
                                  /\ x.pc \in ChangePcs(ops[Id(p)][x.k].kind)
    PROVE  KnowledgeInv'
<1>1. CallKnows(x) BY DEF CallKnows
<1>2. x.pc \notin TestingPcs BY DEF ApplyingPcs, TestingPcs
<1>3. TopKnows(x, copy[p][x.h], ops[x.h[1]]) BY <1>2, TopType DEF TopKnows
<1>4. copy' = [copy EXCEPT ![p] = copy[p]] BY DEF FlusherInv
<1> QED BY <1>1, <1>3, <1>4, CopiesSame, GoesOnKnowing

\* One operation: on to the next step of it, or to the next operation.
LEMMA ApplyKnowing ==
    ASSUME StoredInv, FlusherInv, Moves, KnowledgeInv, NEW p \in Runners, ops' = ops,
           pending' = pending,
           \/ applyUpdate(p) \/ removeStash(p) \/ removeMark(p) \/ removeSave(p) \/ removeDoc(p)
           \/ insertMark(p) \/ insertDoc(p) \/ insertUnstash(p) \/ insertPull(p)
    PROVE  KnowledgeInv'
<1> DEFINE kind == ops[Id(p)][Top(p).k].kind
<1>1. /\ stack[p] # <<>> /\ Top(p).pc \in ApplyingPcs /\ Top(p).pc # "setApplied"
      /\ copy' = copy
  BY DEF applyUpdate, removeStash, removeMark, removeSave, removeDoc, insertMark, insertDoc,
         insertUnstash, insertPull, At, ApplyingPcs
<1>2. Top(p).pc \in AdvancePcs BY <1>1 DEF AdvancePcs
<1>3. /\ DOMAIN Top(p) = AdvanceFields /\ Top(p).revno \in [Docs -> Int] /\ T(p).s = "applying"
      /\ Top(p).k \in DOMAIN ops[Id(p)] /\ Top(p).pc \in ChangePcs(kind)
  BY <1>1, <1>2, AdvanceKnows DEF TopKnows
<1>4. Id(p) \in Txns /\ Top(p).k \in Nat \ {0} BY <1>1, <1>2, TopType, AdvanceTop DEF AdvanceFits
<1>5. ASSUME NextOp(p) PROVE KnowledgeInv'
  <2>1. PICK k \in Nat \ {0} : k = Top(p).k + 1 BY <1>4
  <2>2. PICK x : x = Applying(p, Top(p), k) OBVIOUS
  <2>3. /\ DOMAIN x = AdvanceFields /\ x.h = Top(p).h /\ x.revno = Top(p).revno
        /\ x.pc \in ApplyingPcs
        /\ x.pc # "setApplied" => /\ x.k \in DOMAIN ops[Id(p)]
                                  /\ x.pc \in ChangePcs(ops[Id(p)][x.k].kind)
    BY <1>3, <1>4, <2>2, ApplyingKind
  <2>4. Goto(p, x) BY <1>5, <2>1, <2>2 DEF NextOp
  <2> QED BY <1>1, <1>2, <1>3, <2>3, <2>4, AppliesKnowing
<1>6. ASSUME NEW pc \in ApplyingPcs \cap ChangePcs(kind), NEW v, NEW x, Goto(p, x),
             \/ x = [Top(p) EXCEPT !.pc = pc]
             \/ x = [Top(p) EXCEPT !.pc = pc, !.q = v]
             \/ x = [Top(p) EXCEPT !.pc = pc, !.stashed = v]
      PROVE  KnowledgeInv'
  <2>1. /\ DOMAIN x = AdvanceFields /\ x.h = Top(p).h /\ x.pc = pc /\ x.k = Top(p).k
        /\ x.revno = Top(p).revno
    BY <1>3, <1>6 DEF AdvanceFields
  <2> QED BY <1>1, <1>2, <1>3, <1>6, <2>1, AppliesKnowing
<1>7. ASSUME Top(p).pc \in {"remove", "removeMark", "removeSave", "removeDoc"}
      PROVE  {"removeMark", "removeSave", "removeDoc"} \subseteq ApplyingPcs \cap ChangePcs(kind)
  BY <1>3, <1>7 DEF ChangePcs, ApplyingPcs
<1>8. ASSUME Top(p).pc \in {"insert", "insertDoc", "insertUnstash", "insertPull"}
      PROVE  {"insertDoc", "insertUnstash", "insertPull"} \subseteq ApplyingPcs \cap ChangePcs(kind)
  BY <1>3, <1>8 DEF ChangePcs, ApplyingPcs
<1> HIDE DEF kind
<1>9. CASE applyUpdate(p) \/ removeDoc(p) \/ insertPull(p)
  BY <1>5, <1>9 DEF applyUpdate, removeDoc, insertPull
<1>10. CASE removeStash(p)
  <2>1. PICK v, x : Goto(p, x) /\ x = [Top(p) EXCEPT !.pc = "removeMark", !.stashed = v]
    BY <1>10 DEF removeStash
  <2> QED BY <1>6, <1>7, <1>10, <2>1 DEF removeStash, At
<1>11. CASE removeMark(p)
  <2>1. CASE NextOp(p) BY <2>1, <1>5
  <2>2. CASE ~NextOp(p)
    <3>1. PICK pc : pc = IF Top(p).stashed THEN "removeDoc" ELSE "removeSave" OBVIOUS
    <3>2. PICK q : q = doc[Oper(p).d].q OBVIOUS
    <3>3. PICK x : x = [Top(p) EXCEPT !.pc = pc, !.q = q] OBVIOUS
    <3>4. [Top(p) EXCEPT !.q = q, !.pc = pc] = x BY <3>3
    <3>5. Goto(p, x) BY <1>11, <2>2, <3>1, <3>2, <3>4 DEF removeMark
    <3>6. pc \in {"removeSave", "removeDoc"} BY <3>1
    <3> QED BY <1>6, <1>7, <1>11, <3>3, <3>5, <3>6 DEF removeMark, At
  <2> QED BY <2>1, <2>2
<1>12. CASE removeSave(p)
  <2>1. PICK x : Goto(p, x) /\ x = [Top(p) EXCEPT !.pc = "removeDoc"] BY <1>12 DEF removeSave, To
  <2> QED BY <1>6, <1>7, <1>12, <2>1 DEF removeSave, At
<1>13. CASE insertMark(p)
  <2>1. CASE NextOp(p) BY <2>1, <1>5
  <2>2. CASE ~NextOp(p)
    <3>1. PICK q, x : Goto(p, x) /\ x = [Top(p) EXCEPT !.pc = "insertDoc", !.q = q]
      BY <1>13, <2>2 DEF insertMark
    <3> QED BY <1>6, <1>8, <1>13, <3>1 DEF insertMark, At
  <2> QED BY <2>1, <2>2
<1>14. CASE insertDoc(p)
  <2>1. PICK x : Goto(p, x) /\ x = [Top(p) EXCEPT !.pc = "insertUnstash"] BY <1>14 DEF insertDoc, To
  <2> QED BY <1>6, <1>8, <1>14, <2>1 DEF insertDoc, At
<1>15. CASE insertUnstash(p)
  <2>1. CASE NextOp(p) BY <2>1, <1>5
  <2>2. CASE ~NextOp(p)
    <3>1. PICK x : Goto(p, x) /\ x = [Top(p) EXCEPT !.pc = "insertPull"]
      BY <1>15, <2>2 DEF insertUnstash, To
    <3> QED BY <1>6, <1>8, <1>15, <3>1 DEF insertUnstash, At
  <2> QED BY <2>1, <2>2
<1> QED BY <1>9, <1>10, <1>11, <1>12, <1>13, <1>14, <1>15

\* The end of apply.
LEMMA SetAppliedKnowing ==
    ASSUME StoredInv, FlusherInv, Moves, KnowledgeInv, NEW p \in Runners, ops' = ops,
           pending' = pending, setApplied(p)
    PROVE  KnowledgeInv'
<1>1. stack[p] # <<>> /\ Top(p).pc \in AdvancePcs /\ Top(p).pc \in ApplyingPcs
  BY DEF setApplied, At, AdvancePcs, ApplyingPcs
<1>2. /\ DOMAIN T(p) = {"s", "n", "r"} /\ T(p) = copy[p][Top(p).h] /\ Top(p).h \in DOMAIN copy[p]
      /\ Id(p) = Top(p).h[1]
  BY <1>1, TopType DEF Agrees, NewTxn
<1>3. T(p).s = "applying" BY <1>1, AdvanceKnows DEF TopKnows
<1>4. SameRevnos(T(p), Id(p), tc') BY <1>2, CopiesSame DEF CopiesKnow
<1>5. PICK m : m = [T(p) EXCEPT !.s = "applied"] OBVIOUS
<1>6. m.r = T(p).r BY <1>2, <1>5
<1>7. SameRevnos(m, Id(p), tc') BY <1>3, <1>4, <1>6 DEF SameRevnos, Decided
<1>8. SetCopy(p, m) /\ To(p, "advance") BY <1>5 DEF setApplied
<1>9. "advance" \in PlainPcs BY PlainAre
<1> QED BY <1>1, <1>7, <1>8, <1>9, JumpsKnowing

-----------------------------------------------------------------------------
(* The steps of a flusher alone, and those of the clients.                 *)

\* advance looks at the state and does what it needs.
LEMMA AdvanceKnowing ==
    ASSUME StoredInv, FlusherInv, Moves, KnowledgeInv, NEW p \in Runners, ops' = ops,
           pending' = pending, tc' = tc, advance(p)
    PROVE  KnowledgeInv'
<1> DEFINE t == T(p)
<1>1. stack[p] # <<>> /\ Top(p).pc \in AdvancePcs /\ Top(p).pc \notin RunPcs
  BY DEF advance, At, AdvancePcs, RunPcs
<1>2. Id(p) \in Txns /\ Agrees(t, Id(p), tc) BY <1>1, TopType
<1>3. ASSUME NEW err, Return(p, err), copy' = copy PROVE KnowledgeInv'
  <2>1. copy' = [copy EXCEPT ![p] = copy[p]] /\ CopiesKnow(copy[p], tc')
    BY <1>3, CopiesSame DEF FlusherInv
  <2> QED BY <1>1, <1>3, <2>1, ReturnsKnowing
<1>4. ASSUME NEW pc \in {"prepare", "setPrepared", "rescan", "rescanned"}, NEW tt, copy' = copy,
             Goto(p, [AdvanceFrame(Top(p).h, Top(p).pull, Top(p).force) EXCEPT !.pc = pc, !.tt = tt])
      PROVE  KnowledgeInv'
  <2>1. PICK x : x = [AdvanceFrame(Top(p).h, Top(p).pull, Top(p).force) EXCEPT !.pc = pc, !.tt = tt]
    OBVIOUS
  <2>2. DOMAIN x = AdvanceFields /\ x.pc = pc /\ x.revno = [d \in Docs |-> 0]
    BY <2>1 DEF AdvanceFrame, AdvanceFields
  <2>3. pc \in PlainPcs BY PlainAre DEF KeyPcs
  <2>4. Plain(x) BY <1>1, <2>2, <2>3, PlainElsewhere
  <2> QED BY <1>1, <1>4, <2>1, <2>4, AdvancesKnowing
<1>5. CASE t.s = "preparing"
  <2>1. PICK pc, tt : /\ Goto(p, [AdvanceFrame(Top(p).h, Top(p).pull, Top(p).force)
                                     EXCEPT !.pc = pc, !.tt = tt])
                      /\ pc = FirstKey(p, "prepare", "setPrepared")
    BY <1>5 DEF advance, done
  <2>2. copy' = copy BY <1>5 DEF advance, done
  <2> QED BY <1>4, <2>1, <2>2 DEF FirstKey
<1>6. CASE t.s = "prepared"
  <2>1. copy' = copy BY <1>6 DEF advance, done
  <2>2. \/ Return(p, "preReqs")
        \/ \E pc, tt : /\ Goto(p, [AdvanceFrame(Top(p).h, Top(p).pull, Top(p).force)
                                      EXCEPT !.pc = pc, !.tt = tt])
                       /\ pc = FirstKey(p, "rescan", "rescanned")
    BY <1>6 DEF advance, done
  <2> QED BY <1>3, <1>4, <2>1, <2>2 DEF FirstKey
<1>7. CASE t.s = "applying"
  <2>1. PICK tt : Goto(p, Applying(p, [AdvanceFrame(Top(p).h, Top(p).pull, Top(p).force)
                                         EXCEPT !.tt = tt], 1))
    BY <1>7 DEF advance, done
  <2>2. copy' = copy BY <1>7 DEF advance, done
  <2>3. PICK fr : fr = [AdvanceFrame(Top(p).h, Top(p).pull, Top(p).force) EXCEPT !.tt = tt]
    OBVIOUS
  <2>4. DOMAIN fr = AdvanceFields /\ fr.h = Top(p).h /\ fr.revno = [d \in Docs |-> 0]
    BY <2>3 DEF AdvanceFrame, AdvanceFields
  <2>5. PICK x : x = Applying(p, fr, 1) OBVIOUS
  <2>6. /\ DOMAIN x = AdvanceFields /\ x.h = Top(p).h /\ x.revno = [d \in Docs |-> 0]
        /\ x.pc \in ApplyingPcs
        /\ x.pc # "setApplied" => /\ x.k \in DOMAIN ops[Id(p)]
                                  /\ x.pc \in ChangePcs(ops[Id(p)][x.k].kind)
    BY <1>2, <2>4, <2>5, ApplyingKind
  <2>7. x.revno \in [Docs -> Int] BY <2>6
  <2>8. Goto(p, x) BY <2>1, <2>3, <2>5
  <2> QED BY <1>1, <1>7, <2>2, <2>6, <2>7, <2>8, AppliesKnowing
<1>8. CASE t.s = "aborting"
  <2>1. To(p, "setAborted") /\ copy' = copy BY <1>8 DEF advance, done
  <2>2. "setAborted" \in PlainPcs BY PlainAre DEF AbortingPcs
  <2> QED BY <1>1, <2>1, <2>2, JumpsKnowing
<1>9. CASE done(t)
  <2>1. PICK c : c = IF Top(p).h[2] = 0 THEN copy[p]
                     ELSE Restrict(copy[p], DOMAIN copy[p] \ {Top(p).h})
    OBVIOUS
  <2>2. Return(p, "ok") /\ copy' = [copy EXCEPT ![p] = c] BY <1>9, <2>1 DEF advance, done, FlusherInv
  <2>3. DOMAIN c \subseteq DOMAIN copy[p] /\ \A h \in DOMAIN c : c[h] = copy[p][h]
    BY <2>1 DEF Restrict
  <2>4. CopiesKnow(c, tc') BY <2>3, CopiesSame DEF CopiesKnow
  <2> QED BY <1>1, <2>2, <2>4, ReturnsKnowing
<1> QED BY <1>5, <1>6, <1>7, <1>8, <1>9 DEF advance

\* A call of recurse or run counts no revisions.
LEMMA PlainOuter ==
    ASSUME NEW x, DOMAIN x = RecurseFields \/ DOMAIN x = RunFields, x.pc \in RecursePcs \cup RunPcs
    PROVE  Plain(x)
<1>1. "revno" \notin DOMAIN x BY DEF RecurseFields, RunFields
<1>2. x.pc \notin ApplyingPcs \cup TestingPcs BY DEF RecursePcs, RunPcs, ApplyingPcs, TestingPcs
<1> QED BY <1>1, <1>2 DEF Plain, CallKnows

\* recurse: the transactions that must go first are looked for, loaded, and recursed into.
LEMMA RecurseKnowing ==
    ASSUME StoredInv, FlusherInv, Moves, KnowledgeInv, NEW p \in Runners, ops' = ops,
           pending' = pending, tc' = tc, recurse(p) \/ load(p)
    PROVE  KnowledgeInv'
<1>1. stack[p] # <<>> /\ Top(p).pc \in RecursePcs /\ Top(p).pc \notin RunPcs
  BY DEF recurse, load, At, RecursePcs, RunPcs
<1>2. DOMAIN Top(p) = RecurseFields BY <1>1, RecurseTop
<1>3. recurse(p) => copy' = [copy EXCEPT ![p] = copy[p]] /\ CopiesKnow(copy[p], tc')
  BY CopiesSame DEF recurse, FlusherInv
<1>4. ASSUME recurse(p), NEW x, Goto(p, x), DOMAIN x = RecurseFields, x.pc \in RecursePcs
      PROVE  KnowledgeInv'
  <2>1. Plain(x) BY <1>4, PlainOuter
  <2>2. copy' = copy BY <1>4 DEF recurse
  <2> QED BY <1>1, <1>4, <2>1, <2>2, AdvancesKnowing
<1>5. ASSUME recurse(p), Return(p, "ok") PROVE KnowledgeInv'
  BY <1>1, <1>3, <1>5, ReturnsKnowing
<1>6. CASE recurse(p) /\ At(p, "recurse")
  <2>1. PICK x : x = [Top(p) EXCEPT !.pc = "advanced"] OBVIOUS
  <2>2. PICK y : y = AdvanceFrame(Top(p).h, Self(Top(p).h), FALSE) OBVIOUS
  <2>3. Call(p, x, y) BY <1>6, <2>1, <2>2 DEF recurse, At
  <2>4. DOMAIN x = RecurseFields /\ x.pc \in RecursePcs
    BY <1>2, <2>1 DEF RecurseFields, RecursePcs
  <2>5. Plain(x) /\ Plain(y) BY <2>2, <2>4, PlainOuter, NewPlain
  <2> QED BY <1>1, <1>3, <1>6, <2>3, <2>5, CallsOnKnowing
<1>7. CASE recurse(p) /\ At(p, "advanced")
  <2>1. CASE Top(p).err # "preReqs" BY <1>5, <1>7, <2>1 DEF recurse, At
  <2>2. CASE Top(p).err = "preReqs"
    <3>1. PICK v : Goto(p, [Top(p) EXCEPT !.pc = "scan", !.toks = v])
      BY <1>7, <2>2 DEF recurse, At
    <3>2. PICK x : x = [Top(p) EXCEPT !.pc = "scan", !.toks = v] OBVIOUS
    <3>3. DOMAIN x = RecurseFields /\ x.pc \in RecursePcs
      BY <1>2, <3>2 DEF RecurseFields, RecursePcs
    <3>4. Goto(p, x) BY <3>1, <3>2
    <3> QED BY <1>4, <1>7, <3>3, <3>4
  <2> QED BY <2>1, <2>2
<1>8. CASE recurse(p) /\ At(p, "scan")
  <2>1. CASE Return(p, "ok") BY <2>1, <1>5, <1>8
  <2>2. CASE ~Return(p, "ok")
    <3>1. \/ \E v, n : Goto(p, [Top(p) EXCEPT !.toks = v, !.next = n, !.pc = "load"])
          \/ \E v, j : Goto(p, [Top(p) EXCEPT !.k = j, !.toks = v])
      <4>1. CASE Unseen(p, Top(p).toks) # {} BY <1>8, <4>1 DEF recurse, At
      <4>2. CASE Unseen(p, Top(p).toks) = {} BY <1>8, <2>2, <4>2 DEF recurse, At
      <4> QED BY <4>1, <4>2
    <3>2. CASE \E v, n : Goto(p, [Top(p) EXCEPT !.toks = v, !.next = n, !.pc = "load"])
      <4>1. PICK v, n : Goto(p, [Top(p) EXCEPT !.toks = v, !.next = n, !.pc = "load"]) BY <3>2
      <4>2. PICK x : x = [Top(p) EXCEPT !.toks = v, !.next = n, !.pc = "load"] OBVIOUS
      <4>3. DOMAIN x = RecurseFields /\ x.pc \in RecursePcs
        BY <1>2, <4>2 DEF RecurseFields, RecursePcs
      <4> QED BY <1>4, <1>8, <4>1, <4>2, <4>3
    <3>3. CASE \E v, j : Goto(p, [Top(p) EXCEPT !.k = j, !.toks = v])
      <4>1. PICK v, j : Goto(p, [Top(p) EXCEPT !.k = j, !.toks = v]) BY <3>3
      <4>2. PICK x : x = [Top(p) EXCEPT !.k = j, !.toks = v] OBVIOUS
      <4>3. DOMAIN x = RecurseFields /\ x.pc = Top(p).pc BY <1>2, <4>2 DEF RecurseFields
      <4> QED BY <1>1, <1>4, <1>8, <4>1, <4>2, <4>3
    <3> QED BY <3>1, <3>2, <3>3
  <2> QED BY <2>1, <2>2
<1>9. CASE load(p)
  <2>1. PICK x : x = [Top(p) EXCEPT !.pc = "scan", !.next = None] OBVIOUS
  <2>2. PICK y : y = RecurseFrame(<<Top(p).next, 0>>) OBVIOUS
  <2>3. Call(p, x, y) BY <1>9, <2>1, <2>2 DEF load
  <2>4. DOMAIN x = RecurseFields /\ x.pc \in RecursePcs
    BY <1>2, <2>1 DEF RecurseFields, RecursePcs
  <2>5. Plain(x) /\ Plain(y) BY <2>2, <2>4, PlainOuter, NewPlain
  <2>6. Top(p).next \in Txns BY <1>1, <1>9, RecurseTop DEF RecurseFits, load, At
  <2>7. PICK cs : copy' = [copy EXCEPT ![p] = cs] /\ CopiesKnow(cs, tc')
    BY <1>9, <2>6, NewCopy DEF load
  <2> QED BY <1>1, <2>3, <2>5, <2>7, CallsOnKnowing
<1> QED BY <1>6, <1>7, <1>8, <1>9 DEF recurse

\* A flusher that stops knows nothing any more.
LEMMA StopsKnowing ==
    ASSUME StoredInv, FlusherInv, Moves, KnowledgeInv, NEW p \in Runners, ops' = ops,
           stack' = [stack EXCEPT ![p] = <<>>], copy' = [copy EXCEPT ![p] = <<>>],
           pending' = [pending EXCEPT ![p] = <<>>] \/ pending' = pending
    PROVE  KnowledgeInv'
<1>1. DOMAIN <<>> = {} OBVIOUS
<1>2. CallsKnow(<<>>, <<>>, ops) /\ CopiesKnow(<<>>, tc') /\ PendingKnow(<<>>, tc')
  BY <1>1 DEF CallsKnow, CopiesKnow, PendingKnow
<1>3. PICK w : pending' = [pending EXCEPT ![p] = w] /\ PendingKnow(w, tc')
  BY <1>2, CopiesSame DEF FlusherInv
<1> QED BY <1>2, <1>3, FlusherKnows

\* run: recurse, plan, flush one transaction after another, answer.
LEMMA RunKnowing ==
    ASSUME StoredInv, FlusherInv, Moves, KnowledgeInv, NEW p \in Runners, run(p)
    PROVE  KnowledgeInv'
<1>1. stack[p] # <<>> /\ Top(p).pc \in RunPcs BY DEF run, At, RunPcs
<1>2. DOMAIN Top(p) = RunFields BY <1>1, RunTop
<1>3. CASE \E a : Finish(p, a)
  <2>1. PICK a : Finish(p, a) BY <1>3
  <2>2. /\ ops' = ops /\ stack' = [stack EXCEPT ![p] = <<>>] /\ copy' = [copy EXCEPT ![p] = <<>>]
        /\ pending' = [pending EXCEPT ![p] = <<>>] \/ pending' = pending
    BY <2>1 DEF Finish, FlusherInv
  <2> QED BY <2>2, StopsKnowing
<1>4. CASE ~\E a : Finish(p, a)
  <2>1. ops' = ops /\ pending' = pending /\ copy' = copy BY <1>4 DEF run, Stay
  <2>2. copy' = [copy EXCEPT ![p] = copy[p]] /\ CopiesKnow(copy[p], tc')
    BY <2>1, CopiesSame DEF FlusherInv
  <2>3. ASSUME NEW x, DOMAIN x = RunFields, x.pc \in RunPcs, NEW y, Plain(y), Call(p, x, y)
        PROVE  KnowledgeInv'
    <3>1. Plain(x) BY <2>3, PlainOuter
    <3> QED BY <1>1, <2>1, <2>2, <2>3, <3>1, CallsOnKnowing
  <2>4. CASE At(p, "run")
    <3>1. PICK x : x = [Top(p) EXCEPT !.pc = "recursed"] OBVIOUS
    <3>2. PICK y : y = RecurseFrame(Top(p).h) OBVIOUS
    <3>3. Call(p, x, y) BY <2>4, <3>1, <3>2 DEF run, At
    <3>4. DOMAIN x = RunFields /\ x.pc \in RunPcs BY <1>2, <3>1 DEF RunFields, RunPcs
    <3> QED BY <2>3, <3>2, <3>3, <3>4, NewPlain
  <2>5. CASE At(p, "recursed")
    <3>1. PICK plan : Goto(p, [Top(p) EXCEPT !.pc = "flush", !.todo = plan])
      BY <1>4, <2>5 DEF run, At
    <3>2. PICK x : x = [Top(p) EXCEPT !.pc = "flush", !.todo = plan] OBVIOUS
    <3>3. DOMAIN x = RunFields /\ x.pc \in RunPcs BY <1>2, <3>2 DEF RunFields, RunPcs
    <3>4. Plain(x) BY <3>3, PlainOuter
    <3> QED BY <1>1, <2>1, <3>1, <3>2, <3>4, AdvancesKnowing
  <2>6. CASE At(p, "flush")
    <3>1. PICK x : x = [Top(p) EXCEPT !.todo = Rest(@)] OBVIOUS
    <3>2. PICK y : Call(p, x, y) /\ \E h, pull : y = AdvanceFrame(h, pull, TRUE)
      BY <1>4, <2>6, <3>1 DEF run, At
    <3>3. DOMAIN x = RunFields /\ x.pc \in RunPcs BY <1>1, <1>2, <3>1 DEF RunFields
    <3> QED BY <2>3, <3>2, <3>3, NewPlain
  <2> QED BY <1>4, <2>4, <2>5, <2>6 DEF run
<1> QED BY <1>3, <1>4

\* A flush begins with a copy of its transaction.
LEMMA BeginKnowing ==
    ASSUME StoredInv, FlusherInv, Moves, KnowledgeInv, NEW p \in Runners, ops' = ops,
           NEW t \in Txns, NEW c, Begin(p, t, c), SameRevnos(c, t, tc'),
           NEW w, pending' = [pending EXCEPT ![p] = w], PendingKnow(w, tc')
    PROVE  KnowledgeInv'
<1> DEFINE h == <<t, 0>>
<1>1. PICK x : x = RunFrame(h) OBVIOUS
<1>2. PICK cs : cs = [g \in {h} |-> c] OBVIOUS
<1>3. PICK calls : calls = <<x>> OBVIOUS
<1>4. stack' = [stack EXCEPT ![p] = calls] /\ copy' = [copy EXCEPT ![p] = cs]
  BY <1>1, <1>2, <1>3 DEF Begin
<1>5. Plain(x) BY <1>1, NewPlain
<1>6. DOMAIN calls = {1} /\ calls[1] = x BY <1>3
<1>7. CallsKnow(calls, cs, ops) BY <1>5, <1>6, PlainTop DEF CallsKnow, Plain
<1>8. DOMAIN cs = {h} /\ cs[h] = c /\ h[1] = t BY <1>2
<1>9. CopiesKnow(cs, tc') BY <1>8 DEF CopiesKnow
<1> QED BY <1>4, <1>7, <1>9, FlusherKnows

\* The clients: a run, a resumption, an interruption.
LEMMA ClientKnowing ==
    ASSUME StoredInv, FlusherInv, Moves, KnowledgeInv, NEW p \in Runners,
           Client(p) \/ ResumeNext(p)
    PROVE  KnowledgeInv'
<1>1. \A t \in Txns : tc' = tc => SameRevnos(tc[t], t, tc') BY DEF SameRevnos
<1>2. PendingKnow(pending[p], tc') /\ pending = [pending EXCEPT ![p] = pending[p]]
  BY CopiesSame DEF FlusherInv
<1>3. CASE Kill(p)
  <2>1. /\ ops' = ops /\ stack' = [stack EXCEPT ![p] = <<>>] /\ copy' = [copy EXCEPT ![p] = <<>>]
        /\ pending' = [pending EXCEPT ![p] = <<>>]
    BY <1>3 DEF Kill
  <2> QED BY <2>1, StopsKnowing
<1>4. CASE ResumeAll(p)
  <2> DEFINE unfinished == {t \in Txns : tc[t].s \in {"preparing", "prepared", "applying"}}
             ids == Ascending(unfinished)
  <2>1. tc' = tc /\ ops' = ops /\ stack' = stack /\ copy' = copy BY <1>4 DEF ResumeAll, db, flusher
  <2>2. PICK w : w = [i \in DOMAIN ids |-> <<ids[i], tc[ids[i]]>>] OBVIOUS
  <2>3. pending' = [pending EXCEPT ![p] = w] BY <1>4, <2>2 DEF ResumeAll
  <2>4. PendingKnow(w, tc') BY <2>1, <2>2 DEF PendingKnow, SameRevnos
  <2>5. stack' = [stack EXCEPT ![p] = stack[p]] /\ copy' = [copy EXCEPT ![p] = copy[p]]
    BY <2>1 DEF FlusherInv
  <2>6. CallsKnow(stack[p], copy[p], ops) BY DEF KnowledgeInv
  <2>7. CopiesKnow(copy[p], tc') BY CopiesSame
  <2> QED BY <2>1, <2>3, <2>4, <2>5, <2>6, <2>7, FlusherKnows
<1>5. CASE \E t \in Txns : Run(p, t)
  <2>1. PICK t \in Txns : Run(p, t) BY <1>5
  <2>2. Begin(p, t, NewTxn) /\ ops' = ops /\ pending' = pending BY <2>1 DEF Run
  <2>3. SameRevnos(NewTxn, t, tc') BY DEF SameRevnos, NewTxn, Decided
  <2> QED BY <1>2, <2>2, <2>3, BeginKnowing
<1>6. CASE \E t \in Txns : Resume(p, t)
  <2>1. PICK t \in Txns : Resume(p, t) BY <1>6
  <2>2. Begin(p, t, tc[t]) /\ ops' = ops /\ pending' = pending /\ tc' = tc BY <2>1 DEF Resume, db
  <2> QED BY <1>1, <1>2, <2>2, BeginKnowing
<1>7. CASE ResumeNext(p)
  <2>1. PICK ts : ts = pending[p] OBVIOUS
  <2>2. PICK w : w = Tail(ts) OBVIOUS
  <2>3. /\ Begin(p, Head(ts)[1], Head(ts)[2]) /\ ops' = ops
        /\ ts # <<>> /\ pending' = [pending EXCEPT ![p] = w]
    BY <1>7, <2>1, <2>2 DEF ResumeNext
  <2>4. PendingFits(ts, tc) /\ PendingKnow(ts, tc') BY <1>2, <2>1 DEF FlusherInv
  <2>5. /\ ts \in Seq(ToSet(ts)) /\ Len(ts) \in Nat /\ Len(ts) >= 1 /\ DOMAIN ts = 1..Len(ts)
        /\ Head(ts) = ts[1]
    <3>1. ASSUME NEW q, q \in Seq(ToSet(q)), q # <<>>
          PROVE  Len(q) \in Nat /\ Len(q) >= 1 /\ DOMAIN q = 1..Len(q) /\ Head(q) = q[1]
      BY <3>1
    <3>2. ts \in Seq(ToSet(ts)) BY <2>4 DEF PendingFits
    <3> QED BY <2>3, <3>1, <3>2
  <2>6. Head(ts)[1] \in Txns /\ SameRevnos(Head(ts)[2], Head(ts)[1], tc')
    BY <2>4, <2>5 DEF PendingFits, PendingKnow
  <2>7. PendingKnow(w, tc')
    <3>1. w \in Seq(ToSet(ts)) /\ Len(w) = Len(ts) - 1 /\ \A i \in 1..(Len(ts) - 1) : w[i] = ts[i + 1]
      BY <2>2, <2>5, Off
    <3>2. DOMAIN w = 1..(Len(ts) - 1) BY <3>1, OwnElements
    <3>3. \A i \in DOMAIN w : w[i] = ts[i + 1] /\ i + 1 \in DOMAIN ts BY <2>5, <3>1, <3>2
    <3> QED BY <2>4, <3>3 DEF PendingKnow
  <2> QED BY <2>3, <2>6, <2>7, BeginKnowing
<1> QED BY <1>3, <1>4, <1>5, <1>6, <1>7 DEF Client

-----------------------------------------------------------------------------
(* The changes, and the revnos of the documents.                           *)

\* A step that makes no change: no document comes or goes or gets another revno.
Changeless ==
    /\ ops' = ops /\ effect' = effect
    /\ \A d \in Docs : /\ doc'[d].here = doc[d].here /\ doc'[d].revno = doc[d].revno
                       /\ stash'[d].revno \in Int
    /\ \A t \in Txns : tc'[t].s \in Decided => tc[t].s \in Decided \/ Numbers(tc'[t].r, ops[t])

\* What was decided stays decided, on the same revnos.
LEMMA DecidedStays ==
    ASSUME Moves, NEW t \in Txns, tc[t].s \in Decided
    PROVE  tc'[t].s \in Decided /\ tc'[t].r = tc[t].r
BY DEF Moves, Later, Decided

\* Such a step keeps what there is to know of the changes.
LEMMA ChangelessKeeps ==
    ASSUME StoredInv, Moves, NumbersInv, EffectsInv, Changeless
    PROVE  NumbersInv' /\ EffectsInv'
<1>1. ASSUME NEW t \in Txns, tc'[t].s \in Decided PROVE Numbers(tc'[t].r, ops'[t])
  <2>1. CASE tc[t].s \in Decided
    <3>1. tc'[t].r = tc[t].r BY <2>1, DecidedStays
    <3> QED BY <2>1, <3>1 DEF NumbersInv, Changeless
  <2>2. CASE tc[t].s \notin Decided BY <1>1, <2>2 DEF Changeless
  <2> QED BY <2>1, <2>2
<1>2. (\A t \in Txns : tc[t].s \in Decided => Numbers(tc[t].r, ops[t]))'
  BY <1>1 DEF Decided, Numbers
<1>3. NumbersInv' BY <1>2 DEF NumbersInv, Changeless
<1>4. \A kind, d : Did(kind, d)' <=> Did(kind, d) BY DEF Did, Changeless
<1>5. ASSUME NEW t \in Txns, NEW i \in DOMAIN ops[t] PROVE ChangeInv(t, i)'
  <2>1. ops[t][i].d \in Docs
    <3>1. ops[t] \in Seq(Op) BY DEF StoredInv
    <3>2. ops[t][i] \in Op BY <3>1
    <3> QED BY <3>2 DEF Op
  <2>2. ChangeInv(t, i) BY DEF EffectsInv
  <2>3. SUFFICES ASSUME effect[t][i] > 0 PROVE ChangeInv(t, i)' BY DEF ChangeInv, Changeless
  <2>4. tc[t].s \in Decided BY <2>2, <2>3 DEF ChangeInv
  <2>5. tc'[t].s \in Decided /\ tc'[t].r = tc[t].r BY <2>4, DecidedStays
  <2>6. (tc[t].s \in Decided)' BY <2>5 DEF Decided
  <2> QED BY <1>4, <2>1, <2>2, <2>3, <2>5, <2>6 DEF ChangeInv, Left, Changeless
<1>6. EffectsInv' BY <1>5 DEF EffectsInv, Changeless
<1> QED BY <1>3, <1>6

\* A step that leaves documents, stashes and changes alone, and applies nothing new.
LEMMA NothingChanges ==
    ASSUME NumbersInv, ops' = ops, effect' = effect, doc' = doc, stash' = stash,
           \A t \in Txns : tc'[t].s \in Decided => tc[t].s \in Decided \/ Numbers(tc'[t].r, ops[t])
    PROVE  Changeless
BY DEF NumbersInv, Changeless

\* A step that changes one document and one stash, but not whether the document is there
\* or its revno.
LEMMA QueuesChange ==
    ASSUME StoredInv, NumbersInv, ops' = ops, effect' = effect, tc' = tc, NEW d, NEW x, NEW y,
           \/ doc' = doc
           \/ /\ doc' = [doc EXCEPT ![d] = x]
              /\ d \in Docs => x.here = doc[d].here /\ x.revno = doc[d].revno,
           \/ stash' = stash
           \/ stash' = [stash EXCEPT ![d] = y] /\ (d \in Docs => y.revno \in Int)
    PROVE  Changeless
<1>1. DOMAIN doc = Docs /\ DOMAIN stash = Docs BY DEF StoredInv
<1>2. \A e \in Docs : doc'[e].here = doc[e].here /\ doc'[e].revno = doc[e].revno BY <1>1
<1>3. \A e \in Docs : stash'[e].revno \in Int BY <1>1 DEF NumbersInv
<1> QED BY <1>2, <1>3 DEF Changeless

\* Documents and stashes with another queue or mark keep their revnos.
LEMMA RevnosKept ==
    ASSUME StoredInv, NEW d \in Docs
    PROVE  /\ \A q : /\ [doc[d] EXCEPT !.q = q].here = doc[d].here
                     /\ [doc[d] EXCEPT !.q = q].revno = doc[d].revno
                     /\ [doc[d] EXCEPT !.rm = q].here = doc[d].here
                     /\ [doc[d] EXCEPT !.rm = q].revno = doc[d].revno
           /\ \A q : /\ [stash[d] EXCEPT !.q = q].revno = stash[d].revno
                     /\ [stash[d] EXCEPT !.ins = q].revno = stash[d].revno
           /\ \A q : /\ [Upserted(d) EXCEPT !.q = q].revno = Upserted(d).revno
                     /\ [Upserted(d) EXCEPT !.n = q].revno = Upserted(d).revno
<1>1. DOMAIN doc[d] = DOMAIN NoDoc /\ DOMAIN stash[d] = DOMAIN NoStash BY DEF StoredInv
<1>2. DOMAIN Upserted(d) = DOMAIN NoStash BY UpsertedType
<1> QED BY <1>1, <1>2 DEF NoDoc, NoStash

\* An upserted stash has a revno.
LEMMA UpsertedRevno ==
    ASSUME NumbersInv, NEW d \in Docs
    PROVE  Upserted(d).revno \in Int
BY DEF NumbersInv, Upserted, EmptyStash, NoStash

\* A call to the database, but for the operations, makes no change.
LEMMA WriteChanges ==
    ASSUME StoredInv, FlusherInv, Moves, KnowledgeInv, NumbersInv, NEW p \in Runners, Write(p)
    PROVE  Changeless
<1>1. ops' = ops /\ effect' = effect BY DEF Write, history
<1>2. CASE /\ doc' = doc /\ stash' = stash
           /\ \A t \in Txns : tc'[t].s \in Decided =>
                                 tc[t].s \in Decided \/ Numbers(tc'[t].r, ops[t])
  BY <1>1, <1>2, NothingChanges
<1>3. CASE doc' = doc /\ stash' = stash /\ tc' = tc BY <1>2, <1>3
<1>4. CASE prepareDoc(p)
  <2>1. PICK d : d = Key(p) OBVIOUS
  <2>2. PICK x : x = [doc[d] EXCEPT !.q = AddToSet(doc[d].q, Top(p).tt)] OBVIOUS
  <2>3. doc' = doc \/ doc' = [doc EXCEPT ![d] = x] BY <1>4, <2>1, <2>2 DEF prepareDoc
  <2>4. tc' = tc /\ stash' = stash BY <1>4 DEF prepareDoc
  <2>5. d \in Docs => x.here = doc[d].here /\ x.revno = doc[d].revno BY <2>2, RevnosKept
  <2> QED BY <1>1, <2>3, <2>4, <2>5, QueuesChange
<1>5. CASE prepareStash(p)
  <2>1. PICK d : d = Key(p) OBVIOUS
  <2>2. PICK y : y = [Upserted(d) EXCEPT !.q = AddToSet(Upserted(d).q, Top(p).tt)] OBVIOUS
  <2>3. stash' = [stash EXCEPT ![d] = y] BY <1>5, <2>1, <2>2 DEF prepareStash
  <2>4. tc' = tc /\ doc' = doc BY <1>5 DEF prepareStash
  <2>5. d \in Docs => y.revno \in Int BY <2>2, RevnosKept, UpsertedRevno
  <2> QED BY <1>1, <2>3, <2>4, <2>5, QueuesChange
<1>6. CASE unstashToken(p)
  <2>1. PICK d : d = Key(p) OBVIOUS
  <2>2. PICK y : y = [stash[d] EXCEPT !.q = PullAll(@, {Top(p).tt})] OBVIOUS
  <2>3. stash' = [stash EXCEPT ![d] = y] BY <1>6, <2>1, <2>2 DEF unstashToken
  <2>4. tc' = tc /\ doc' = doc BY <1>6 DEF unstashToken
  <2>5. d \in Docs => y.revno \in Int BY <2>2, RevnosKept DEF NumbersInv
  <2> QED BY <1>1, <2>3, <2>4, <2>5, QueuesChange
<1>7. CASE pullDoc(p)
  <2>1. PICK d : d = Oper(p).d OBVIOUS
  <2>2. PICK toks : \/ doc' = doc /\ stash' = [stash EXCEPT ![d].q = PullAll(@, toks)]
                    \/ stash' = stash /\ doc' = [doc EXCEPT ![d].q = PullAll(@, toks)]
    BY <1>7, <2>1 DEF pullDoc
  <2>3. PICK x : x = [doc[d] EXCEPT !.q = PullAll(@, toks)] OBVIOUS
  <2>4. PICK y : y = [stash[d] EXCEPT !.q = PullAll(@, toks)] OBVIOUS
  <2>5. \/ doc' = doc /\ stash' = [stash EXCEPT ![d] = y]
        \/ stash' = stash /\ doc' = [doc EXCEPT ![d] = x]
    BY <2>2, <2>3, <2>4
  <2>6. d \in Docs => x.here = doc[d].here /\ x.revno = doc[d].revno BY <2>3, RevnosKept
  <2>7. d \in Docs => y.revno \in Int BY <2>4, RevnosKept DEF NumbersInv
  <2>8. tc' = tc BY <1>7 DEF pullDoc
  <2> QED BY <1>1, <2>5, <2>6, <2>7, <2>8, QueuesChange
<1>8. CASE setPrepared(p) \/ setAborting(p) \/ setAborted(p)
  <2>1. PICK s \in {"prepared", "aborting", "aborted"} :
           tc' = tc \/ tc' = [tc EXCEPT ![Id(p)] = [tc[Id(p)] EXCEPT !.s = s]]
                    \/ tc' = [tc EXCEPT ![Id(p)].s = s, ![Id(p)].n = Top(p).tt[2]]
    BY <1>8 DEF setPrepared, setAborting, setAborted
  <2>2. DOMAIN tc = Txns /\ \A t \in Txns : DOMAIN tc[t] = {"s", "n", "r"}
    BY DEF StoredInv, NewTxn
  <2>3. Id(p) \in Txns
    <3>1. stack[p] # <<>> BY <1>8 DEF setPrepared, setAborting, setAborted, At
    <3> QED BY <3>1, TopType
  <2>4. tc' = tc \/ (tc'[Id(p)].s = s /\ \A t \in Txns : t # Id(p) => tc'[t] = tc[t])
    BY <2>1, <2>2, <2>3
  <2>5. s \notin Decided BY DEF Decided
  <2>6. doc' = doc /\ stash' = stash BY <1>8 DEF setPrepared, setAborting, setAborted
  <2> QED BY <1>2, <2>4, <2>5, <2>6
<1>9. CASE checkpoint(p)
  <2>1. pending' = pending BY DEF Write
  <2>2. \A t \in Txns : tc'[t].s \in Decided => Numbers(tc'[t].r, ops[t])
    BY <1>1, <1>9, <2>1, CheckpointKnowing
  <2>3. doc' = doc /\ stash' = stash BY <1>9 DEF checkpoint
  <2> QED BY <1>2, <2>2, <2>3
<1>10. CASE \/ confirmDoc(p) \/ confirmStash(p) \/ lostPrepared(p) \/ rescanDoc(p) \/ rescanStash(p)
            \/ missing(p) \/ popped(p) \/ assertDoc(p) \/ lostAborting(p) \/ lostApplying(p)
            \/ load(p)
  BY <1>3, <1>10 DEF confirmDoc, confirmStash, lostPrepared, rescanDoc, rescanStash, missing,
                     popped, assertDoc, lostAborting, lostApplying, load, db
<1> QED BY <1>4, <1>5, <1>6, <1>7, <1>8, <1>9, <1>10 DEF Write

\* So do the steps of a flusher alone, its end and those of the clients.
LEMMA OthersChange ==
    ASSUME NumbersInv, StoredInv, FlusherInv, NEW p \in Runners,
           Local(p) \/ missingFails(p) \/ poppedPanics(p) \/ ResumeNext(p) \/ Client(p)
    PROVE  Changeless
<1>1. ASSUME ops' = ops, effect' = effect, doc' = doc, stash' = stash, tc' = tc PROVE Changeless
  BY <1>1, NothingChanges
<1>2. ASSUME NEW a, Finish(p, a) PROVE Changeless BY <1>1, <1>2 DEF Finish, db, history
<1>3. CASE Local(p)
  <2>1. CASE run(p)
    <3>1. CASE Stay BY <1>1, <3>1 DEF Stay, db, history
    <3>2. CASE ~Stay BY <1>2, <2>1, <3>2 DEF run
    <3> QED BY <3>1, <3>2
  <2>2. CASE ~run(p) BY <1>1, <1>3, <2>2 DEF Local, Stay, db, history
  <2> QED BY <2>1, <2>2
<1>4. CASE missingFails(p) \/ poppedPanics(p) BY <1>2, <1>4 DEF missingFails, poppedPanics
<1>5. CASE ResumeNext(p) BY <1>1, <1>5 DEF ResumeNext, db, history
<1>6. CASE Kill(p) \/ ResumeAll(p) BY <1>1, <1>6 DEF Kill, ResumeAll, db, history
<1>7. CASE \E t \in Txns : Resume(p, t) BY <1>1, <1>7 DEF Resume, db, history
<1>8. CASE \E t \in Txns : Run(p, t)
  <2>1. PICK t \in Txns : Run(p, t) BY <1>8
  <2>2. /\ tc' = [tc EXCEPT ![t] = NewTxn] /\ doc' = doc /\ stash' = stash /\ ops' = ops
        /\ effect' = effect
    BY <2>1 DEF Run, history
  <2>3. NewTxn.s \notin Decided BY DEF NewTxn, Decided
  <2>4. \A u \in Txns : tc'[u].s \in Decided => tc[u].s \in Decided
    BY <2>2, <2>3 DEF StoredInv
  <2> QED BY <2>2, <2>4, NothingChanges
<1> QED BY <1>3, <1>4, <1>5, <1>6, <1>7, <1>8 DEF Client

-----------------------------------------------------------------------------
(* The operations.                                                         *)

\* Whoever applies an operation does so on the revno that was saved with the decision.
LEMMA AppliedOperation ==
    ASSUME StoredInv, FlusherInv, KnowledgeInv, NumbersInv, NEW p \in Runners, stack[p] # <<>>,
           Top(p).pc \in ApplyingPcs, Top(p).pc # "setApplied"
    PROVE  /\ Id(p) \in Txns /\ tc[Id(p)].s \in Decided
           /\ Top(p).k \in DOMAIN ops[Id(p)] /\ Oper(p) = ops[Id(p)][Top(p).k]
           /\ Oper(p).d \in Docs /\ Top(p).pc \in ChangePcs(Oper(p).kind)
           /\ Revno(p) = tc[Id(p)].r[Top(p).k] /\ Revno(p) \in Int
<1>1. Top(p).pc \in AdvancePcs BY DEF AdvancePcs
<1>2. /\ Id(p) \in Txns /\ Id(p) = Top(p).h[1] /\ T(p) = copy[p][Top(p).h]
      /\ Top(p).h \in DOMAIN copy[p] /\ Agrees(T(p), Id(p), tc)
  BY TopType
<1>3. /\ T(p).s = "applying" /\ Top(p).k \in DOMAIN ops[Id(p)]
      /\ Top(p).pc \in ChangePcs(ops[Id(p)][Top(p).k].kind)
  BY <1>1, AdvanceKnows DEF TopKnows
<1>4. tc[Id(p)].s \in Decided BY <1>2, <1>3 DEF Agrees, Later, Decided
<1>5. SameRevnos(T(p), Id(p), tc) BY <1>2 DEF KnowledgeInv, CopiesKnow
<1>6. T(p).r = tc[Id(p)].r BY <1>3, <1>5 DEF SameRevnos, Decided
<1>7. tc[Id(p)].r[Top(p).k] \in Int BY <1>2, <1>3, <1>4 DEF NumbersInv, Numbers
<1>8. Oper(p) = ops[Id(p)][Top(p).k] BY DEF Oper
<1>9. Oper(p).d \in Docs
  <2>1. ops[Id(p)] \in Seq(Op) BY <1>2 DEF StoredInv
  <2>2. Oper(p) \in Op BY <1>3, <1>8, <2>1
  <2> QED BY <2>2 DEF Op
<1> QED BY <1>2, <1>3, <1>4, <1>6, <1>7, <1>8, <1>9 DEF Revno

\* The steps in which an operation makes its change, and the others of an operation.
Changing(p) ==
    \/ (applyUpdate(p) \/ removeDoc(p)) /\ DocMatches(p)
    \/ insertDoc(p) /\ ~doc[Oper(p).d].here
LEMMA AppliesNothing ==
    ASSUME StoredInv, FlusherInv, KnowledgeInv, NumbersInv, NEW p \in Runners, Apply(p), ~Changing(p)
    PROVE  Changeless
<1>1. ops' = ops /\ effect' = effect
  BY DEF Apply, Changing, applyUpdate, removeStash, removeMark, removeSave, removeDoc, insertMark,
         insertDoc, insertUnstash, insertPull, setApplied, history
<1> DEFINE d == Oper(p).d
<1>2. CASE applyUpdate(p) \/ removeDoc(p) \/ insertDoc(p)
  <2>1. doc' = doc /\ stash' = stash /\ tc' = tc
    BY <1>2 DEF Changing, applyUpdate, removeDoc, insertDoc
  <2> QED BY <1>1, <2>1, NothingChanges
<1>3. CASE removeStash(p)
  <2>1. PICK y : y = [Upserted(d) EXCEPT !.n = Upserted(d).n \cup {p}] OBVIOUS
  <2>2. stash' = [stash EXCEPT ![d] = y] /\ tc' = tc /\ doc' = doc
    BY <1>3, <2>1 DEF removeStash
  <2>3. d \in Docs => y.revno \in Int BY <2>1, RevnosKept, UpsertedRevno
  <2> QED BY <1>1, <2>2, <2>3, QueuesChange
<1>4. CASE removeMark(p)
  <2>1. PICK x : x = [doc[d] EXCEPT !.rm = Id(p)] OBVIOUS
  <2>2. (doc' = doc \/ doc' = [doc EXCEPT ![d] = x]) /\ tc' = tc /\ stash' = stash
    BY <1>4, <2>1 DEF removeMark
  <2>3. d \in Docs => x.here = doc[d].here /\ x.revno = doc[d].revno BY <2>1, RevnosKept
  <2> QED BY <1>1, <2>2, <2>3, QueuesChange
<1>5. CASE removeSave(p)
  <2>1. PICK r : r = IF Revno(p) = 0 THEN 0 ELSE -Revno(p) - 1 OBVIOUS
  <2>2. r \in Int /\ d \in Docs
    <3>1. stack[p] # <<>> /\ Top(p).pc \in ApplyingPcs /\ Top(p).pc # "setApplied"
      BY <1>5 DEF removeSave, At, ApplyingPcs
    <3>2. Revno(p) \in Int /\ d \in Docs BY <3>1, AppliedOperation
    <3> QED BY <2>1, <3>2
  <2>3. PICK y : y = [stash[d] EXCEPT !.q = Top(p).q, !.n = {}, !.revno = r] OBVIOUS
  <2>4. (stash' = stash \/ stash' = [stash EXCEPT ![d] = y]) /\ tc' = tc /\ doc' = doc
    BY <1>5, <2>1, <2>3 DEF removeSave
  <2>5. y.revno = r BY <2>2, <2>3 DEF StoredInv, NoStash
  <2> QED BY <1>1, <2>2, <2>4, <2>5, QueuesChange
<1>6. CASE insertMark(p)
  <2>1. PICK y : y = [stash[d] EXCEPT !.ins = Id(p)] OBVIOUS
  <2>2. (stash' = stash \/ stash' = [stash EXCEPT ![d] = y]) /\ tc' = tc /\ doc' = doc
    BY <1>6, <2>1 DEF insertMark
  <2>3. d \in Docs => y.revno \in Int BY <2>1, RevnosKept DEF NumbersInv
  <2> QED BY <1>1, <2>2, <2>3, QueuesChange
<1>7. CASE insertUnstash(p)
  <2>1. (stash' = stash \/ stash' = [stash EXCEPT ![d] = NoStash]) /\ tc' = tc /\ doc' = doc
    BY <1>7 DEF insertUnstash
  <2>2. NoStash.revno \in Int BY DEF NoStash
  <2> QED BY <1>1, <2>1, <2>2, QueuesChange
<1>8. CASE insertPull(p)
  <2>1. PICK y : y = [stash[d] EXCEPT !.q = PullAll(@, ToPull(p))] OBVIOUS
  <2>2. stash' = [stash EXCEPT ![d] = y] /\ tc' = tc /\ doc' = doc
    BY <1>8, <2>1 DEF insertPull
  <2>3. d \in Docs => y.revno \in Int BY <2>1, RevnosKept DEF NumbersInv
  <2> QED BY <1>1, <2>2, <2>3, QueuesChange
<1>9. CASE setApplied(p)
  <2>1. Id(p) \in Txns BY <1>9, TopType DEF setApplied, At
  <2>2. doc' = doc /\ stash' = stash BY <1>9 DEF setApplied
  <2>3. tc' = tc \/ (tc[Id(p)].s = "applying" /\ tc' = [tc EXCEPT ![Id(p)].s = "applied"])
    BY <1>9 DEF setApplied
  <2>4. \A t \in Txns : tc'[t].s \in Decided => tc[t].s \in Decided
    BY <2>1, <2>3 DEF StoredInv, Decided
  <2> QED BY <1>1, <2>2, <2>4, NothingChanges
<1> QED BY <1>2, <1>3, <1>4, <1>5, <1>6, <1>7, <1>8, <1>9 DEF Apply

\* Operation k of t makes its change and leaves x of its document d.
Made(t, k, d, x) ==
    /\ t \in Txns /\ tc[t].s \in Decided /\ tc[t].r[k] \in Int
    /\ k \in DOMAIN ops[t] /\ ops[t][k].d = d /\ d \in Docs
    /\ effect' = [effect EXCEPT ![t][k] = @ + 1]
    /\ doc' = [doc EXCEPT ![d] = x]
    /\ LET kind == ops[t][k].kind
       IN  \/ /\ kind = "update" /\ doc[d].here /\ x.here
              /\ doc[d].revno = tc[t].r[k] /\ x.revno = doc[d].revno + 1
           \/ kind = "remove" /\ doc[d].here /\ ~x.here /\ x.revno \in Int
           \/ kind = "insert" /\ ~doc[d].here /\ x.here /\ x.revno \in Int

\* That is what such a step has done.
LEMMA ChangingMakes ==
    ASSUME StoredInv, FlusherInv, KnowledgeInv, NumbersInv, NEW p \in Runners, Apply(p), Changing(p)
    PROVE  /\ \E x : Made(Id(p), Top(p).k, Oper(p).d, x)
           /\ ops' = ops /\ tc' = tc /\ stash' = stash
<1> DEFINE t == Id(p)
           k == Top(p).k
           d == Oper(p).d
<1>1. effect' = [effect EXCEPT ![t][k] = @ + 1] /\ ops' = ops
  BY DEF Changing, applyUpdate, removeDoc, insertDoc, Took, Apply
<1>2. ASSUME stack[p] # <<>>, Top(p).pc \in {"update", "removeDoc", "insertDoc"}
      PROVE  /\ t \in Txns /\ tc[t].s \in Decided /\ tc[t].r[k] \in Int
             /\ k \in DOMAIN ops[t] /\ ops[t][k].d = d /\ d \in Docs
             /\ Revno(p) = tc[t].r[k] /\ Top(p).pc \in ChangePcs(ops[t][k].kind)
  BY <1>2, AppliedOperation DEF ApplyingPcs
<1>3. CASE applyUpdate(p) /\ DocMatches(p)
  <2>1. stack[p] # <<>> /\ Top(p).pc = "update" BY <1>3 DEF applyUpdate, At
  <2>2. ops[t][k].kind = "update" BY <1>2, <2>1 DEF ChangePcs
  <2>3. doc[d].here /\ doc[d].revno = tc[t].r[k] BY <1>2, <1>3, <2>1 DEF DocMatches
  <2>4. PICK v, q : doc' = [doc EXCEPT ![d].val = v, ![d].revno = @ + 1, ![d].q = q]
    BY <1>3 DEF applyUpdate
  <2>5. PICK x : x = [doc[d] EXCEPT !.val = v, !.revno = @ + 1, !.q = q] OBVIOUS
  <2>6. DOMAIN doc = Docs /\ DOMAIN doc[d] = DOMAIN NoDoc BY <1>2, <2>1 DEF StoredInv
  <2>7. x.here = doc[d].here /\ x.revno = doc[d].revno + 1 BY <2>5, <2>6 DEF NoDoc
  <2>8. doc' = [doc EXCEPT ![d] = x] BY <2>4, <2>5, <2>6
  <2>9. tc' = tc /\ stash' = stash BY <1>3 DEF applyUpdate
  <2> QED BY <1>1, <1>2, <2>1, <2>2, <2>3, <2>7, <2>8, <2>9 DEF Made
<1>4. CASE removeDoc(p) /\ DocMatches(p)
  <2>1. stack[p] # <<>> /\ Top(p).pc = "removeDoc" BY <1>4 DEF removeDoc, At
  <2>2. ops[t][k].kind = "remove" BY <1>2, <2>1 DEF ChangePcs
  <2>3. doc[d].here /\ ~NoDoc.here /\ NoDoc.revno \in Int BY <1>4 DEF DocMatches, NoDoc
  <2>4. doc' = [doc EXCEPT ![d] = NoDoc] /\ tc' = tc /\ stash' = stash BY <1>4 DEF removeDoc
  <2> QED BY <1>1, <1>2, <2>1, <2>2, <2>3, <2>4 DEF Made
<1>5. CASE insertDoc(p) /\ ~doc[d].here
  <2>1. stack[p] # <<>> /\ Top(p).pc = "insertDoc" BY <1>5 DEF insertDoc, At
  <2>2. ops[t][k].kind = "insert" BY <1>2, <2>1 DEF ChangePcs
  <2>3. PICK x : x = [here |-> TRUE, val |-> Oper(p).n, rm |-> None, revno |-> -Revno(p) + 1,
                      q |-> Top(p).q]
    OBVIOUS
  <2>4. x.here /\ x.revno \in Int BY <1>2, <2>1, <2>3
  <2>5. doc' = [doc EXCEPT ![d] = x] /\ tc' = tc /\ stash' = stash BY <1>5, <2>3 DEF insertDoc
  <2> QED BY <1>1, <1>2, <1>5, <2>1, <2>2, <2>4, <2>5 DEF Made
<1> QED BY <1>3, <1>4, <1>5 DEF Changing

\* What is known of an operation holds of what there is.
LEMMA OperationType ==
    ASSUME StoredInv, NEW t \in Txns, NEW i \in DOMAIN ops[t]
    PROVE  ops[t][i].d \in Docs /\ ops[t][i].kind \in {"update", "insert", "remove", "assert"}
<1>1. ops[t] \in Seq(Op) BY DEF StoredInv
<1>2. ops[t][i] \in Op BY <1>1
<1> QED BY <1>2 DEF Op

\* A change keeps what there is to know of the changes: it could not have been made before
\* unless its document was both inserted and removed, and what the others have left of the
\* document, or of what has become of it, is still so.
LEMMA MadeKeeps ==
    ASSUME StoredInv, NumbersInv, EffectsInv, NEW t, NEW k, NEW d, NEW x, Made(t, k, d, x),
           ops' = ops, tc' = tc, stash' = stash
    PROVE  NumbersInv' /\ EffectsInv'
<1> DEFINE kind == ops[t][k].kind
           Both == Did("insert", d)' /\ Did("remove", d)'
<1>1. /\ t \in Txns /\ k \in DOMAIN ops[t] /\ d = ops[t][k].d /\ d \in Docs
      /\ tc[t].s \in Decided /\ tc[t].r[k] \in Int
  BY DEF Made
<1>2. /\ doc'[d] = x /\ x.revno \in Int
      /\ \A e \in Docs \ {d} : doc'[e] = doc[e]
      /\ \A e \in Docs : doc'[e].revno \in Int
  BY <1>1 DEF Made, StoredInv, NumbersInv
<1>3. NumbersInv' BY <1>2 DEF NumbersInv, Decided, Numbers
<1>4. /\ DOMAIN effect' = Txns
      /\ \A u \in Txns : effect[u] \in [DOMAIN ops[u] -> Nat] /\ effect'[u] \in [DOMAIN ops[u] -> Nat]
      /\ effect'[t][k] = effect[t][k] + 1
      /\ \A u \in Txns : \A i \in DOMAIN ops[u] :
            u # t \/ i # k => effect'[u][i] = effect[u][i]
  BY <1>1 DEF EffectsInv, Made
<1>5. \A u \in Txns : \A i \in DOMAIN ops[u] :
         effect[u][i] \in Nat /\ effect'[u][i] \in Nat /\ effect'[u][i] >= effect[u][i]
  BY <1>4
<1>6. \A kd, e : Did(kd, e) => Did(kd, e)' BY <1>5 DEF Did
<1>7. Did(kind, d)' BY <1>1, <1>4, <1>5 DEF Did
<1>8. effect[t][k] = 0 \/ Both
  <2>1. SUFFICES ASSUME effect[t][k] > 0, ~Both PROVE FALSE BY <1>1, <1>5
  <2>2. Left(kind, tc[t].r[k], doc[d], Did("remove", d))
    BY <1>1, <1>6, <2>1 DEF EffectsInv, ChangeInv
  <2> QED BY <1>1, <2>2 DEF Left, Made
<1>9. ASSUME NEW u \in Txns, NEW i \in DOMAIN ops[u], effect'[u][i] > 0
      PROVE  /\ tc[u].s \in Decided
             /\ \/ Did("insert", ops[u][i].d)' /\ Did("remove", ops[u][i].d)'
                \/ /\ effect'[u][i] = 1
                   /\ Left(ops[u][i].kind, tc[u].r[i], doc'[ops[u][i].d], Did("remove", ops[u][i].d)')
  <2>1. CASE u = t /\ i = k
    <3>1. CASE Both BY <1>1, <2>1, <3>1
    <3>2. CASE ~Both
      <4>1. effect'[t][k] = 1 BY <1>4, <1>8, <3>2
      <4>2. Left(kind, tc[t].r[k], doc'[d], Did("remove", d)') BY <1>1, <1>2 DEF Left, Made
      <4> QED BY <1>1, <2>1, <4>1, <4>2
    <3> QED BY <3>1, <3>2
  <2>2. CASE u # t \/ i # k
    <3> DEFINE e == ops[u][i].d
    <3>1. effect[u][i] > 0 /\ effect'[u][i] = effect[u][i] BY <1>4, <1>9, <2>2
    <3>2. /\ tc[u].s \in Decided
          /\ \/ Did("insert", e) /\ Did("remove", e)
             \/ effect[u][i] = 1 /\ Left(ops[u][i].kind, tc[u].r[i], doc[e], Did("remove", e))
      BY <3>1 DEF EffectsInv, ChangeInv
    <3>3. CASE Did("insert", e) /\ Did("remove", e) BY <1>6, <3>2, <3>3
    <3>4. CASE e # d /\ effect[u][i] = 1 /\ Left(ops[u][i].kind, tc[u].r[i], doc[e], Did("remove", e))
      <4>1. doc'[e] = doc[e] BY <1>2, <3>4, OperationType
      <4> QED BY <1>6, <3>1, <3>2, <3>4, <4>1 DEF Left
    <3>5. CASE e = d /\ effect[u][i] = 1 /\ Left(ops[u][i].kind, tc[u].r[i], doc[d], Did("remove", d))
      <4>1. tc[u].r[i] \in Int /\ doc[d].revno \in Int BY <1>1, <3>2 DEF NumbersInv, Numbers
      <4>2. Did(ops[u][i].kind, d)' BY <1>6, <3>1, <3>5 DEF Did
      <4>3. ops[u][i].kind \in {"update", "insert", "remove", "assert"} BY OperationType
      <4>4. Both \/ Left(ops[u][i].kind, tc[u].r[i], x, Did("remove", d)')
        <5>1. CASE kind = "update" BY <1>1, <1>6, <3>5, <4>1, <4>3, <5>1 DEF Left, Made
        <5>2. CASE kind = "remove" BY <1>1, <1>7, <3>5, <4>2, <4>3, <5>2 DEF Left, Made
        <5>3. CASE kind = "insert" BY <1>1, <1>6, <1>7, <3>5, <4>2, <4>3, <5>3 DEF Left, Made
        <5> QED BY <5>1, <5>2, <5>3 DEF Made
      <4> QED BY <1>2, <3>1, <3>2, <3>5, <4>4
    <3> QED BY <3>2, <3>3, <3>4, <3>5
  <2> QED BY <2>1, <2>2
<1>10. ASSUME NEW u \in Txns, NEW i \in DOMAIN ops[u] PROVE ChangeInv(u, i)'
  BY <1>9 DEF ChangeInv, Left, Decided
<1>11. EffectsInv' BY <1>4, <1>10 DEF EffectsInv
<1> QED BY <1>3, <1>11

-----------------------------------------------------------------------------
(* The invariant.                                                          *)

\* A call to the database, but for the operations.
LEMMA WriteKnowing ==
    ASSUME StoredInv, FlusherInv, Moves, KnowledgeInv, NumbersInv, NEW p \in Runners, Write(p)
    PROVE  KnowledgeInv'
<1>1. ops' = ops /\ pending' = pending BY DEF Write
<1>2. CASE \/ prepareDoc(p) \/ prepareStash(p) \/ confirmDoc(p) \/ confirmStash(p)
           \/ unstashToken(p) \/ rescanDoc(p) \/ rescanStash(p)
  BY <1>1, <1>2, PrepareKnowing
<1>3. CASE setPrepared(p) \/ lostPrepared(p) \/ missing(p) \/ popped(p) \/ lostApplying(p)
  BY <1>1, <1>3, ReloadKnowing
<1>4. CASE setAborting(p) \/ lostAborting(p) \/ pullDoc(p) \/ setAborted(p)
  BY <1>1, <1>4, AbortKnowing
<1>5. CASE assertDoc(p) BY <1>1, <1>5, AssertKnowing
<1>6. CASE checkpoint(p) BY <1>1, <1>6, CheckpointKnowing
<1>7. CASE load(p)
  <2>1. tc' = tc BY <1>7 DEF load, db
  <2> QED BY <1>1, <1>7, <2>1, RecurseKnowing
<1> QED BY <1>2, <1>3, <1>4, <1>5, <1>6, <1>7 DEF Write

\* A step of an operation.
LEMMA ApplyKeeps ==
    ASSUME StoredInv, FlusherInv, Moves, OnceInv, NEW p \in Runners, Apply(p)
    PROVE  OnceInv'
<1>1. NumbersInv /\ KnowledgeInv /\ EffectsInv BY DEF OnceInv
<1>2. ops' = ops /\ pending' = pending BY DEF Apply
<1>3. KnowledgeInv'
  <2>1. CASE setApplied(p) BY <1>1, <1>2, <2>1, SetAppliedKnowing
  <2>2. CASE ~setApplied(p) BY <1>1, <1>2, <2>2, ApplyKnowing DEF Apply
  <2> QED BY <2>1, <2>2
<1>4. NumbersInv' /\ EffectsInv'
  <2>1. CASE Changing(p) BY <1>1, <2>1, ChangingMakes, MadeKeeps
  <2>2. CASE ~Changing(p) BY <1>1, <2>2, AppliesNothing, ChangelessKeeps
  <2> QED BY <2>1, <2>2
<1> QED BY <1>3, <1>4 DEF OnceInv

\* A step within the calls of a flusher.
LEMMA LocalKnowing ==
    ASSUME StoredInv, FlusherInv, Moves, KnowledgeInv, NEW p \in Runners, Local(p)
    PROVE  KnowledgeInv'
<1>1. CASE run(p) BY <1>1, RunKnowing
<1>2. CASE ~run(p)
  <2>1. ops' = ops /\ pending' = pending /\ tc' = tc BY <1>2 DEF Local, Stay, db
  <2>2. recurse(p) \/ advance(p) \/ collected(p) BY <1>2 DEF Local
  <2> QED BY <2>1, <2>2, RecurseKnowing, AdvanceKnowing, CollectedKnowing
<1> QED BY <1>1, <1>2

\* A flusher that fails forgets what it knew.
LEMMA FailKnowing ==
    ASSUME StoredInv, FlusherInv, Moves, KnowledgeInv, NEW p \in Runners,
           missingFails(p) \/ poppedPanics(p)
    PROVE  KnowledgeInv'
<1>1. PICK a \in {"error", "panic"} : Finish(p, a) BY DEF missingFails, poppedPanics
<1>2. /\ ops' = ops /\ stack' = [stack EXCEPT ![p] = <<>>] /\ copy' = [copy EXCEPT ![p] = <<>>]
      /\ pending' = [pending EXCEPT ![p] = <<>>]
  BY <1>1 DEF Finish
<1> QED BY <1>2, StopsKnowing

\* Every step keeps it.
LEMMA OnceKept ==
    ASSUME DecisionInv, OnceInv, Next
    PROVE  OnceInv'
<1>1. StoredInv /\ FlusherInv /\ Moves BY NextStep DEF DecisionInv
<1>2. NumbersInv /\ KnowledgeInv /\ EffectsInv BY DEF OnceInv
<1>3. PICK p \in Runners : Step(p) \/ Client(p) BY DEF Next
<1>4. CASE Apply(p) BY <1>1, <1>4, ApplyKeeps
<1>5. ASSUME Changeless, KnowledgeInv' PROVE OnceInv'
  BY <1>1, <1>2, <1>5, ChangelessKeeps DEF OnceInv
<1>6. CASE Write(p) BY <1>1, <1>2, <1>5, <1>6, WriteChanges, WriteKnowing
<1>7. CASE Local(p) \/ missingFails(p) \/ poppedPanics(p) \/ ResumeNext(p) \/ Client(p)
  <2>1. Changeless BY <1>1, <1>2, <1>7, OthersChange
  <2>2. KnowledgeInv' BY <1>1, <1>2, <1>7, LocalKnowing, FailKnowing, ClientKnowing
  <2> QED BY <1>5, <2>1, <2>2
<1> QED BY <1>3, <1>4, <1>6, <1>7 DEF Step

\* Nothing is known or changed at first.
LEMMA OnceAtFirst ==
    ASSUME Init
    PROVE  OnceInv
<1>1. NumbersInv
  <2>1. PICK sc \in Scenarios :
          doc = [d \in Docs |-> IF d \in DOMAIN sc.docs
                                THEN [NoDoc EXCEPT !.here = TRUE, !.val = sc.docs[d]]
                                ELSE NoDoc]
    BY DEF Init
  <2>2. ASSUME NEW d \in Docs PROVE doc[d].revno = 0
    <3>1. NoDoc.revno = 0 /\ (\A v : [NoDoc EXCEPT !.here = TRUE, !.val = v].revno = 0) BY DEF NoDoc
    <3> QED BY <2>1, <3>1
  <2>3. ASSUME NEW d \in Docs PROVE stash[d].revno = 0
    <3>1. stash[d] = NoStash BY DEF Init
    <3> QED BY <3>1 DEF NoStash
  <2>4. \A t \in Txns : tc[t].s \notin Decided BY DEF Init, Decided
  <2> QED BY <2>2, <2>3, <2>4 DEF NumbersInv
<1>2. KnowledgeInv
  <2>1. DOMAIN <<>> = {} OBVIOUS
  <2>2. ASSUME NEW p \in Runners PROVE stack[p] = <<>> /\ copy[p] = <<>> /\ pending[p] = <<>>
    BY DEF Init
  <2>3. CallsKnow(<<>>, <<>>, ops) /\ CopiesKnow(<<>>, tc) /\ PendingKnow(<<>>, tc)
    BY <2>1 DEF CallsKnow, CopiesKnow, PendingKnow
  <2> QED BY <2>2, <2>3 DEF KnowledgeInv
<1>3. EffectsInv
  <2>1. effect = [t \in Txns |-> [i \in DOMAIN ops[t] |-> 0]] BY DEF Init
  <2>2. \A t \in Txns : \A i \in DOMAIN ops[t] : ~(effect[t][i] > 0) BY <2>1
  <2>3. \A t \in Txns : effect[t] \in [DOMAIN ops[t] -> Nat] BY <2>1
  <2> QED BY <2>1, <2>2, <2>3 DEF EffectsInv, ChangeInv
<1> QED BY <1>1, <1>2, <1>3 DEF OnceInv

\* Whoever applies a transaction does so on the revnos that were saved with the decision
\* (flusher.go: checkpoint, apply), and a change that was made has left its document past
\* its revno, removed, or inserted -- for any transactions, documents, clients and
\* interruptions.
THEOREM ChangesAreKnown == Spec => []OnceInv
<1>1. ASSUME OnceInv, UNCHANGED vars PROVE OnceInv'
  <2>1. /\ ops' = ops /\ tc' = tc /\ doc' = doc /\ stash' = stash /\ stack' = stack
        /\ copy' = copy /\ pending' = pending /\ effect' = effect
    BY <1>1 DEF vars, db, flusher, history
  <2>2. NumbersInv' BY <1>1, <2>1 DEF OnceInv, NumbersInv, Decided, Numbers
  <2>3. KnowledgeInv'
    <3>1. ASSUME NEW r \in Runners
          PROVE  /\ CallsKnow(stack[r], copy[r], ops)' /\ CopiesKnow(copy[r], tc)'
                 /\ PendingKnow(pending[r], tc)'
      BY <1>1, <2>1 DEF OnceInv, KnowledgeInv, CallsKnow, CallKnows, TopKnows, Numbers, ChangePcs,
                        CopiesKnow, PendingKnow, SameRevnos
    <3> QED BY <3>1 DEF KnowledgeInv
  <2>4. EffectsInv'
    <3>1. \A kind, d : Did(kind, d)' <=> Did(kind, d) BY <2>1 DEF Did
    <3>2. \A t \in Txns : \A i \in DOMAIN ops[t] : ChangeInv(t, i)'
      BY <1>1, <2>1, <3>1 DEF OnceInv, EffectsInv, ChangeInv, Left, Decided
    <3> QED BY <1>1, <2>1, <3>2 DEF OnceInv, EffectsInv
  <2> QED BY <2>2, <2>3, <2>4 DEF OnceInv
<1>2. DecisionInv /\ OnceInv /\ [Next]_vars => OnceInv' BY <1>1, OnceKept
<1>3. Init => OnceInv BY OnceAtFirst
<1> QED BY <1>2, <1>3, DecisionsAreKnown, PTL DEF Spec

\* No change is made unless it was decided to apply its transaction, and none is made twice,
\* however many flushers apply it at once and whoever is interrupted -- as long as the
\* document was not both inserted and removed (flusher.apply).
THEOREM ChangesAreMadeOnce == Spec => []AtMostOnce
<1>1. ASSUME OnceInv PROVE AtMostOnce
  <2>1. ASSUME NEW t \in Txns, NEW i \in DOMAIN ops[t]
        PROVE  /\ effect[t][i] > 0 => tc[t].s \in {"applying", "applied"}
               /\ effect[t][i] > 1 => Did("insert", ops[t][i].d) /\ Did("remove", ops[t][i].d)
    <3>1. ChangeInv(t, i) /\ effect[t][i] \in Nat BY <1>1 DEF OnceInv, EffectsInv
    <3> QED BY <3>1 DEF ChangeInv, Decided
  <2> QED BY <2>1 DEF AtMostOnce
<1> QED BY <1>1, ChangesAreKnown, PTL

=============================================================================
