----------------------------- MODULE TxnProofs -----------------------------
(***************************************************************************)
(* Proofs about Txn: whichever flushers race for a transaction, alone or   *)
(* while they flush others, and whoever is interrupted, it is decided once *)
(* and what a client is answered is the decision.                          *)
(***************************************************************************)
EXTENDS Txn, FiniteSetTheorems, SequenceTheorems, WellFoundedInduction, TLAPS

\* What a step may do to the transactions: what was decided stays decided.
Moves ==
    /\ DOMAIN tc' = Txns
    /\ \A t \in Txns : /\ DOMAIN tc'[t] = DOMAIN NewTxn /\ tc'[t].s \in States
                       /\ tc'[t].s \in Later(tc[t].s)
                       /\ tc[t].s = "applied" => tc'[t].s = "applied"
                       /\ tc[t].s \notin {"new", "preparing"} => tc'[t].n = tc[t].n
                       /\ tc[t].s \in {"applying", "applied"} => tc'[t].r = tc[t].r

-----------------------------------------------------------------------------
(* Ids in their order.                                                     *)

\* A set of ids that is not empty has a least one.
LEMMA Least ==
    ASSUME NEW S \in SUBSET Nat, S # {}
    PROVE  \E m \in S : \A i \in S : m <= i
<1>1. PICK m \in S : \A i \in S : ~(<<i, m>> \in OpToRel(<, Nat))
  BY NatLessThanWellFounded, WFMin
<1>2. \A i \in S : ~(i < m) BY <1>1 DEF OpToRel
<1> QED BY <1>2

IsAscending(q, S) ==
    q \in [1..Cardinality(S) -> S] /\ \A i, j \in DOMAIN q : i < j => q[i] < q[j]

\* Finitely many ids can be put in order: the least first, then the others.
LEMMA AscendingExists ==
    ASSUME NEW S \in SUBSET Nat, IsFiniteSet(S)
    PROVE  \E q : IsAscending(q, S)
<1> DEFINE B == {W \in SUBSET S : ~\E q : IsAscending(q, W)}
<1>1. SUFFICES ASSUME B # {} PROVE FALSE OBVIOUS
<1>2. B \subseteq FiniteSubsetsOf(S) BY FS_FiniteSubsetsOfFinite
<1>3. PICK W \in B : \A U \in B : ~(<<U, W>> \in StrictSubsetOrdering(S))
  <2> HIDE DEF B
  <2> QED BY <1>1, <1>2, FS_StrictSubsetOrderingWellFounded, WFMin
<1>4. W \in SUBSET S /\ ~\E q : IsAscending(q, W) BY <1>3
<1>5. IsFiniteSet(W) /\ Cardinality(W) \in Nat BY <1>4, FS_Subset, FS_CardinalityType
<1>6. W # {}
  <2>1. SUFFICES ASSUME W = {} PROVE FALSE OBVIOUS
  <2>2. Cardinality(W) = 0 BY <2>1, FS_EmptySet
  <2>3. IsAscending([i \in 1..0 |-> 0], W) BY <2>1, <2>2 DEF IsAscending
  <2> QED BY <2>3, <1>4
<1>7. PICK m \in W : \A i \in W : m <= i BY <1>4, <1>6, Least
<1> DEFINE U == W \ {m}
<1>8. U \in SUBSET S /\ U # W /\ U \subseteq W BY <1>4, <1>7
<1>9. \E q : IsAscending(q, U) BY <1>3, <1>4, <1>8 DEF StrictSubsetOrdering
<1>10. PICK q : IsAscending(q, U) BY <1>9
<1>11. Cardinality(U) = Cardinality(W) - 1 /\ Cardinality(U) \in Nat
  BY <1>5, <1>7, FS_RemoveElement, FS_CardinalityType
<1> DEFINE n == Cardinality(U)
           r == [i \in 1..(n + 1) |-> IF i = 1 THEN m ELSE q[i - 1]]
<1>12. q \in [1..n -> U] /\ \A i, j \in 1..n : i < j => q[i] < q[j] BY <1>10 DEF IsAscending
<1>13. Cardinality(W) = n + 1 /\ n \in Nat BY <1>5, <1>11
<1>14. \A i \in 1..n : q[i] \in W /\ q[i] \in Nat /\ m < q[i]
  <2>1. TAKE i \in 1..n
  <2>2. q[i] \in U BY <1>12
  <2>3. q[i] \in W /\ q[i] # m BY <2>2
  <2>4. q[i] \in Nat /\ m \in Nat BY <2>3, <1>4, <1>7
  <2>5. m <= q[i] BY <2>3, <1>7
  <2>6. PICK e : e = q[i] OBVIOUS
  <2>7. m < e
    <3>1. e \in Nat /\ m \in Nat /\ m <= e /\ e # m BY <2>3, <2>4, <2>5, <2>6
    <3> QED BY <3>1
  <2> QED BY <2>3, <2>4, <2>6, <2>7
<1> HIDE DEF n, U
<1>15. r \in [1..(n + 1) -> W] BY <1>13, <1>14, <1>7
<1>16. ASSUME NEW i \in 1..(n + 1), NEW j \in 1..(n + 1), i < j PROVE r[i] < r[j]
  <2>1. r[j] = q[j - 1] /\ j - 1 \in 1..n BY <1>13, <1>16
  <2>2. CASE i = 1 BY <2>1, <2>2, <1>14
  <2>3. CASE i # 1
    <3>1. r[i] = q[i - 1] /\ i - 1 \in 1..n /\ i - 1 < j - 1 BY <1>13, <1>16, <2>3
    <3> HIDE DEF r
    <3> QED BY <3>1, <2>1, <1>12
  <2> QED BY <2>2, <2>3
<1> HIDE DEF r
<1>17. IsAscending(r, W) BY <1>13, <1>15, <1>16 DEF IsAscending
<1> QED BY <1>17, <1>4

\* So the order of a finite set of ids is one.
LEMMA AscendingType ==
    ASSUME NEW S \in SUBSET Nat, IsFiniteSet(S)
    PROVE  Ascending(S) \in [1..Cardinality(S) -> S]
BY AscendingExists DEF IsAscending, Ascending

\* The keys of a transaction are documents.
LEMMA KeysType ==
    ASSUME NEW os \in Seq(Op)
    PROVE  /\ Len(keysOf(os)) \in Nat /\ keysOf(os) \in [1..Len(keysOf(os)) -> Docs]
           /\ \A k \in 1..Len(keysOf(os)) : keysOf(os)[k] \in Docs
<1> DEFINE D == {os[i].d : i \in DOMAIN os}
<1>1. Len(os) \in Nat /\ DOMAIN os = 1..Len(os) /\ \A i \in DOMAIN os : os[i].d \in Docs
  <2>1. Len(os) \in Nat /\ DOMAIN os = 1..Len(os) /\ \A i \in DOMAIN os : os[i] \in Op
    OBVIOUS
  <2>2. \A op \in Op : op.d \in Docs BY DEF Op
  <2> QED BY <2>1, <2>2
<1>2. D \in SUBSET Docs BY <1>1
<1>3. IsFiniteSet(D)
  <2>1. [i \in 1..Len(os) |-> os[i].d] \in Surjection(1..Len(os), D) BY <1>1 DEF Surjection
  <2> QED BY <1>1, <2>1, FS_NatSurjection DEF ExistsSurjection
<1>4. D \in SUBSET Nat BY <1>2, TxnAssumption
<1> HIDE DEF D
<1>5. Cardinality(D) \in Nat BY <1>3, FS_CardinalityType
<1>6. Ascending(D) \in [1..Cardinality(D) -> D] BY <1>3, <1>4, AscendingType
<1>7. keysOf(os) = Ascending(D) BY DEF keysOf, D
<1>8. Len(Ascending(D)) = Cardinality(D) BY <1>5, <1>6, LenProperties
<1> QED BY <1>2, <1>5, <1>6, <1>7, <1>8

-----------------------------------------------------------------------------
(* Stacks of calls.                                                        *)

\* A sequence is one of its own elements.
LEMMA OwnElements ==
    ASSUME NEW W, NEW s \in Seq(W)
    PROVE  /\ DOMAIN s = 1..Len(s) /\ Len(s) \in Nat
           /\ \A i \in DOMAIN s : s[i] \in ToSet(s)
           /\ s \in Seq(ToSet(s))
<1>1. DOMAIN s = 1..Len(s) /\ Len(s) \in Nat OBVIOUS
<1>2. \A i \in DOMAIN s : s[i] \in ToSet(s) BY DEF ToSet
<1>3. s \in [1..Len(s) -> ToSet(s)]
  <2>1. s = [i \in 1..Len(s) |-> s[i]] OBVIOUS
  <2> QED BY <1>1, <1>2, <2>1
<1> HIDE <1>1
<1> QED BY <1>1, <1>2, <1>3, SeqDef

\* A sequence is one over any larger set.
LEMMA MoreElements ==
    ASSUME NEW S, NEW W, S \subseteq W
    PROVE  Seq(S) \subseteq Seq(W)
<1>1. ASSUME NEW x \in Seq(S) PROVE x \in Seq(W)
  <2>1. Len(x) \in Nat /\ x = [i \in 1..Len(x) |-> x[i]] /\ \A i \in 1..Len(x) : x[i] \in W OBVIOUS
  <2>2. x \in [1..Len(x) -> W] BY <2>1
  <2> QED BY <2>1, <2>2, SeqDef
<1> QED BY <1>1

\* The frames of a stack.
Push(x, s) == <<x>> \o s
PushTwo(y, x, s) == <<y, x>> \o s

\* A sequence with one more element in front ...
LEMMA Pushed ==
    ASSUME NEW W, NEW q \in Seq(W), NEW x \in W
    PROVE  /\ Push(x, q) \in Seq(W) /\ Len(Push(x, q)) = Len(q) + 1 /\ Len(q) \in Nat
           /\ Push(x, q)[1] = x /\ \A i \in 2..(Len(q) + 1) : Push(x, q)[i] = q[i - 1]
BY DEF Push

\* ... with two more ...
LEMMA PushedTwo ==
    ASSUME NEW W, NEW q \in Seq(W), NEW x \in W, NEW y \in W
    PROVE  /\ PushTwo(y, x, q) \in Seq(W) /\ Len(PushTwo(y, x, q)) = Len(q) + 2 /\ Len(q) \in Nat
           /\ PushTwo(y, x, q)[1] = y /\ PushTwo(y, x, q)[2] = x
           /\ \A i \in 3..(Len(q) + 2) : PushTwo(y, x, q)[i] = q[i - 2]
BY DEF PushTwo

\* ... without its first element ...
LEMMA Off ==
    ASSUME NEW W, NEW s \in Seq(W), Len(s) >= 1
    PROVE  /\ Tail(s) \in Seq(W) /\ Len(Tail(s)) = Len(s) - 1 /\ Len(s) \in Nat
           /\ \A i \in 1..(Len(s) - 1) : Tail(s)[i] = s[i + 1]
OBVIOUS

\* ... and without its first two.
LEMMA TwoOff ==
    ASSUME NEW W, NEW s \in Seq(W), Len(s) >= 2
    PROVE  /\ Tail(Tail(s)) \in Seq(W) /\ Len(Tail(Tail(s))) = Len(s) - 2
           /\ \A i \in 1..(Len(s) - 2) : Tail(Tail(s))[i] = s[i + 2]
<1>1. Tail(s) \in Seq(W) /\ Len(Tail(s)) = Len(s) - 1 OBVIOUS
<1>2. \A i \in 1..(Len(s) - 1) : Tail(s)[i] = s[i + 1] OBVIOUS
<1>3. ASSUME NEW r \in Seq(W), Len(r) = Len(s) - 1, \A i \in 1..(Len(s) - 1) : r[i] = s[i + 1]
      PROVE  /\ Tail(r) \in Seq(W) /\ Len(Tail(r)) = Len(s) - 2
             /\ \A i \in 1..(Len(s) - 2) : Tail(r)[i] = s[i + 2]
  <2>1. r # <<>> BY <1>3
  <2>2. /\ Tail(r) \in Seq(W) /\ Len(Tail(r)) = Len(r) - 1
        /\ \A i \in 1..(Len(r) - 1) : Tail(r)[i] = r[i + 1]
    BY <2>1
  <2> QED BY <1>3, <2>2
<1> QED BY <1>1, <1>2, <1>3

\* The call at the top of a stack is replaced by x; calls y; returns to the one below it.
LEMMA Replaced ==
    ASSUME NEW s, s \in Seq(ToSet(s)), Len(s) >= 1, NEW x
    PROVE  \E n : /\ n = Push(x, Tail(s))
                /\ n \in Seq(ToSet(n)) /\ Len(n) = Len(s) /\ Len(s) \in Nat
                /\ n[1] = x /\ \A i \in 2..Len(s) : n[i] = s[i]
<1> DEFINE W == ToSet(s) \cup {x}
<1>1. s \in Seq(W) /\ x \in W OBVIOUS
<1> HIDE DEF W
<1>2. PICK q : q = Tail(s) OBVIOUS
<1>3. /\ q \in Seq(W) /\ Len(q) = Len(s) - 1 /\ Len(s) \in Nat
      /\ \A i \in 1..(Len(s) - 1) : q[i] = s[i + 1]
  BY <1>1, <1>2, Off
<1>4. PICK n : n = Push(x, q) OBVIOUS
<1>5. q \in Seq(W) /\ x \in W BY <1>1, <1>3
<1>6. /\ n \in Seq(W) /\ Len(n) = Len(q) + 1 /\ n[1] = x
      /\ \A i \in 2..(Len(q) + 1) : n[i] = q[i - 1]
  <2>1. /\ Push(x, q) \in Seq(W) /\ Len(Push(x, q)) = Len(q) + 1
        /\ Push(x, q)[1] = x /\ \A i \in 2..(Len(q) + 1) : Push(x, q)[i] = q[i - 1]
    BY <1>5, Pushed
  <2> QED BY <1>4, <2>1
<1>7. Len(n) = Len(s) /\ \A i \in 2..Len(s) : n[i] = s[i] BY <1>3, <1>6
<1>8. n \in Seq(ToSet(n)) BY <1>6, OwnElements
<1>9. n = Push(x, Tail(s)) BY <1>2, <1>4
<1> QED BY <1>9, <1>3, <1>6, <1>7, <1>8

\* The frame at the top goes on as x and calls y.
LEMMA Called ==
    ASSUME NEW s, s \in Seq(ToSet(s)), Len(s) >= 1, NEW x, NEW y
    PROVE  \E n : /\ n = PushTwo(y, x, Tail(s))
                /\ n \in Seq(ToSet(n)) /\ Len(n) = Len(s) + 1 /\ Len(s) \in Nat
                /\ n[1] = y /\ n[2] = x /\ \A i \in 3..(Len(s) + 1) : n[i] = s[i - 1]
<1> DEFINE W == ToSet(s) \cup {x, y}
<1>1. s \in Seq(W) /\ x \in W /\ y \in W OBVIOUS
<1> HIDE DEF W
<1>2. PICK q : q = Tail(s) OBVIOUS
<1>3. /\ q \in Seq(W) /\ Len(q) = Len(s) - 1 /\ Len(s) \in Nat
      /\ \A i \in 1..(Len(s) - 1) : q[i] = s[i + 1]
  BY <1>1, <1>2, Off
<1>4. q \in Seq(W) /\ x \in W /\ y \in W BY <1>1, <1>3
<1>5. /\ PushTwo(y, x, q) \in Seq(W) /\ Len(PushTwo(y, x, q)) = Len(q) + 2
      /\ PushTwo(y, x, q)[1] = y /\ PushTwo(y, x, q)[2] = x
      /\ \A i \in 3..(Len(q) + 2) : PushTwo(y, x, q)[i] = q[i - 2]
  BY <1>4, PushedTwo
<1>6. PICK n : /\ n = PushTwo(y, x, q)
               /\ n \in Seq(W) /\ Len(n) = Len(q) + 2 /\ n[1] = y /\ n[2] = x
               /\ \A i \in 3..(Len(q) + 2) : n[i] = q[i - 2]
  BY <1>5
<1>7. Len(n) = Len(s) + 1 /\ \A i \in 3..(Len(s) + 1) : n[i] = s[i - 1]
  <2>1. PICK m \in Nat : m = Len(s) /\ Len(q) = m - 1 BY <1>1, <1>3
  <2>2. ASSUME NEW i \in 3..(m + 1) PROVE n[i] = s[i - 1]
    <3>1. PICK j : j = i - 2 OBVIOUS
    <3>2. j \in 1..(m - 1) /\ i \in 3..((m - 1) + 2) /\ i - 1 = j + 1 BY <3>1
    <3>3. n[i] = q[j] BY <1>6, <2>1, <3>1, <3>2
    <3>4. q[j] = s[j + 1] BY <1>3, <2>1, <3>2
    <3> QED BY <3>2, <3>3, <3>4
  <2>3. Len(n) = m + 1 BY <1>6, <2>1
  <2> QED BY <2>1, <2>2, <2>3
<1>8. n \in Seq(ToSet(n)) BY <1>6, OwnElements
<1>9. n = PushTwo(y, x, Tail(s)) BY <1>2, <1>6
<1> QED BY <1>9, <1>3, <1>6, <1>7, <1>8

\* The frame at the top returns to the one below, which goes on as x.
LEMMA Returned ==
    ASSUME NEW s, s \in Seq(ToSet(s)), Len(s) >= 2, NEW x
    PROVE  \E n : /\ n = Push(x, Tail(Tail(s)))
                /\ n \in Seq(ToSet(n)) /\ Len(n) = Len(s) - 1 /\ Len(s) \in Nat
                /\ n[1] = x /\ \A i \in 2..(Len(s) - 1) : n[i] = s[i + 1]
<1> DEFINE W == ToSet(s) \cup {x}
<1>1. s \in Seq(W) /\ x \in W /\ Len(s) \in Nat OBVIOUS
<1> HIDE DEF W
<1>2. PICK q : q = Tail(Tail(s)) OBVIOUS
<1>3. q \in Seq(W) /\ Len(q) = Len(s) - 2 /\ \A i \in 1..(Len(s) - 2) : q[i] = s[i + 2]
  BY <1>1, <1>2, TwoOff
<1>4. PICK n : n = Push(x, q) OBVIOUS
<1>5. q \in Seq(W) /\ x \in W BY <1>1, <1>3
<1>6. /\ n \in Seq(W) /\ Len(n) = Len(q) + 1 /\ n[1] = x
      /\ \A i \in 2..(Len(q) + 1) : n[i] = q[i - 1]
  <2>1. /\ Push(x, q) \in Seq(W) /\ Len(Push(x, q)) = Len(q) + 1
        /\ Push(x, q)[1] = x /\ \A i \in 2..(Len(q) + 1) : Push(x, q)[i] = q[i - 1]
    BY <1>5, Pushed
  <2> QED BY <1>4, <2>1
<1>7. Len(n) = Len(s) - 1 /\ \A i \in 2..(Len(s) - 1) : n[i] = s[i + 1] BY <1>1, <1>3, <1>6
<1>8. n \in Seq(ToSet(n)) BY <1>6, OwnElements
<1>9. n = Push(x, Tail(Tail(s))) BY <1>2, <1>4
<1> QED BY <1>9, <1>1, <1>6, <1>7, <1>8

-----------------------------------------------------------------------------
(* What a flusher knows while transactions move on.                        *)

\* What has become of a transaction later can have become of it.
LEMMA LaterStates ==
    /\ \A a \in States : a \in Later(a) /\ Later(a) \subseteq States
    /\ \A a, b \in States : b \in Later(a) => Later(b) \subseteq Later(a)
BY DEF Later, States

\* What has become of a transaction since it was seen is still one of the things that can have.
LEMMA LaterKept ==
    ASSUME StoredInv, Moves, NEW t \in Txns, NEW s \in States, tc[t].s \in Later(s)
    PROVE  tc'[t].s \in Later(s)
BY LaterStates DEF StoredInv, Moves

\* An old copy stays an old copy ...
LEMMA AgreesKept ==
    ASSUME StoredInv, Moves, NEW t \in Txns, NEW c, Agrees(c, t, tc)
    PROVE  Agrees(c, t, tc')
BY LaterKept DEF Agrees

\* A call still fits when transactions have moved on and copies were added.
LEMMA FitsKept ==
    ASSUME StoredInv, Moves, NEW fr, NEW depth, NEW hs, NEW hs2,
           hs \subseteq Txns \X Nat, Fits(fr, depth, hs, tc),
           fr.h \in hs2, \A t \in Txns : <<t, 0>> \in hs => <<t, 0>> \in hs2
    PROVE  Fits(fr, depth, hs2, tc')
<1>1. fr.h \in hs /\ fr.h[1] \in Txns BY DEF Fits
<1>2. ASSUME RunFits(fr, hs) PROVE RunFits(fr, hs2)
  <2>1. {t \in Txns : <<t, 0>> \in hs} \subseteq {t \in Txns : <<t, 0>> \in hs2} OBVIOUS
  <2>2. Seq({t \in Txns : <<t, 0>> \in hs}) \subseteq Seq({t \in Txns : <<t, 0>> \in hs2})
    BY <2>1, MoreElements
  <2> QED BY <1>2, <2>2 DEF RunFits
<1>3. ASSUME AdvanceFits(fr, tc) PROVE AdvanceFits(fr, tc')
  <2>1. "aborting" \in States /\ "applying" \in States BY DEF States
  <2> QED BY <1>1, <1>3, <2>1, LaterKept DEF AdvanceFits
<1> QED BY <1>2, <1>3 DEF Fits

\* ... in the memory of a flusher ...
LEMMA CopiesKept ==
    ASSUME StoredInv, Moves, NEW copies, CopiesFit(copies, tc)
    PROVE  CopiesFit(copies, tc')
BY AgreesKept DEF CopiesFit

\* ... and among the transactions a ResumeAll has still to flush.
LEMMA PendingKept ==
    ASSUME StoredInv, Moves, NEW ts, PendingFits(ts, tc)
    PROVE  PendingFits(ts, tc')
BY AgreesKept DEF PendingFits

\* The calls of a flusher that does not move still fit.
LEMMA CallsKept ==
    ASSUME StoredInv, Moves, NEW calls, NEW copies, CallsFit(calls, DOMAIN copies, tc),
           CopiesFit(copies, tc)
    PROVE  CallsFit(calls, DOMAIN copies, tc')
<1>1. DOMAIN copies \subseteq Txns \X Nat BY DEF CopiesFit
<1>2. ASSUME NEW i \in DOMAIN calls PROVE Fits(calls[i], Len(calls) - i, DOMAIN copies, tc')
  <2>1. Fits(calls[i], Len(calls) - i, DOMAIN copies, tc) BY <1>2 DEF CallsFit
  <2>2. calls[i].h \in DOMAIN copies BY <2>1 DEF Fits
  <2> QED BY <1>1, <2>1, <2>2, FitsKept
<1> QED BY <1>2 DEF CallsFit

\* When a flusher goes on with what it knows, the others know no less than before.
LEMMA FlusherMoves ==
    ASSUME StoredInv, FlusherInv, Moves, NEW p \in Runners, ops' = ops,
           NEW n, stack' = [stack EXCEPT ![p] = n], NEW c, copy' = [copy EXCEPT ![p] = c],
           NEW w, pending' = [pending EXCEPT ![p] = w],
           CallsFit(n, DOMAIN c, tc'), CopiesFit(c, tc'), PendingFits(w, tc')
    PROVE  FlusherInv'
<1>1. ASSUME NEW r \in Runners
      PROVE  /\ CallsFit(stack'[r], DOMAIN copy'[r], tc') /\ CopiesFit(copy'[r], tc')
             /\ PendingFits(pending'[r], tc')
  <2>1. CASE r = p BY <2>1 DEF FlusherInv
  <2>2. CASE r # p
    <3>1. stack'[r] = stack[r] /\ copy'[r] = copy[r] /\ pending'[r] = pending[r]
      BY <2>2 DEF FlusherInv
    <3>2. CallsFit(stack[r], DOMAIN copy[r], tc) /\ CopiesFit(copy[r], tc) /\ PendingFits(pending[r], tc)
      BY DEF FlusherInv
    <3> QED BY <3>1, <3>2, CallsKept, CopiesKept, PendingKept
  <2> QED BY <2>1, <2>2
<1>2. /\ stack' \in [Runners -> Range(stack')] /\ copy' \in [Runners -> Range(copy')]
      /\ pending' \in [Runners -> Range(pending')]
  BY DEF FlusherInv, Range
<1>3. ASSUME NEW r \in Runners
      PROVE  /\ CallsFit(stack[r], DOMAIN copy[r], tc)' /\ CopiesFit(copy[r], tc)'
             /\ PendingFits(pending[r], tc)'
  <2>1. CallsFit(stack[r], DOMAIN copy[r], tc)'
    <3>1. CallsFit(stack'[r], DOMAIN copy'[r], tc') BY <1>1
    <3> QED BY <3>1 DEF CallsFit, Fits, RunFits, RecurseFits, AdvanceFits, docKeys
  <2>2. CopiesFit(copy[r], tc)' BY <1>1 DEF CopiesFit, Agrees
  <2>3. PendingFits(pending[r], tc)' BY <1>1 DEF PendingFits, Agrees
  <2> QED BY <2>1, <2>2, <2>3
<1>4. /\ (stack \in [Runners -> Range(stack)])' /\ (copy \in [Runners -> Range(copy)])'
      /\ (pending \in [Runners -> Range(pending)])'
  BY <1>2 DEF Range
<1> QED BY <1>3, <1>4 DEF FlusherInv

-----------------------------------------------------------------------------
(* One flusher goes on in a call, calls or returns.                        *)

\* The calls of a flusher that is in some.
LEMMA StackType ==
    ASSUME FlusherInv, NEW p \in Runners, stack[p] # <<>>
    PROVE  /\ stack[p] \in Seq(ToSet(stack[p])) /\ Len(stack[p]) \in Nat \ {0}
           /\ DOMAIN stack[p] = 1..Len(stack[p])
           /\ \A i \in 1..Len(stack[p]) : Fits(stack[p][i], Len(stack[p]) - i, DOMAIN copy[p], tc)
           /\ Top(p) = stack[p][1] /\ Fits(Top(p), Len(stack[p]) - 1, DOMAIN copy[p], tc)
           /\ DOMAIN copy[p] \subseteq Txns \X Nat
           /\ \A h \in DOMAIN copy[p] : Agrees(copy[p][h], h[1], tc)
<1>1. CallsFit(stack[p], DOMAIN copy[p], tc) /\ CopiesFit(copy[p], tc) BY DEF FlusherInv
<1>2. stack[p] \in Seq(ToSet(stack[p])) BY <1>1 DEF CallsFit
<1>3. ASSUME NEW s, s \in Seq(ToSet(s)), s # <<>>
      PROVE  Len(s) \in Nat \ {0} /\ DOMAIN s = 1..Len(s) /\ Head(s) = s[1]
  BY <1>3
<1>4. /\ Len(stack[p]) \in Nat \ {0} /\ DOMAIN stack[p] = 1..Len(stack[p])
      /\ Head(stack[p]) = stack[p][1]
  BY <1>2, <1>3
<1>5. \A i \in 1..Len(stack[p]) : Fits(stack[p][i], Len(stack[p]) - i, DOMAIN copy[p], tc)
  BY <1>1, <1>4 DEF CallsFit
<1>6. Top(p) = stack[p][1] BY <1>4 DEF Top
<1>7. 1 \in 1..Len(stack[p]) BY <1>4
<1>8. Fits(Top(p), Len(stack[p]) - 1, DOMAIN copy[p], tc) BY <1>5, <1>6, <1>7
<1>9. /\ DOMAIN copy[p] \subseteq Txns \X Nat
      /\ \A h \in DOMAIN copy[p] : Agrees(copy[p][h], h[1], tc)
  BY <1>1 DEF CopiesFit
<1> QED BY <1>2, <1>4, <1>5, <1>6, <1>8, <1>9

\* The transaction that is being advanced.
LEMMA TopType ==
    ASSUME FlusherInv, NEW p \in Runners, stack[p] # <<>>
    PROVE  /\ Top(p).h \in DOMAIN copy[p] /\ Top(p).h \in Txns \X Nat /\ Id(p) \in Txns
           /\ Id(p) = Top(p).h[1] /\ T(p) = copy[p][Top(p).h] /\ Agrees(T(p), Id(p), tc)
BY StackType DEF Fits, Id, T

\* Goto: the call at the top goes on as x.
LEMMA GoesOn ==
    ASSUME StoredInv, FlusherInv, Moves, NEW p \in Runners, ops' = ops, pending' = pending,
           stack[p] # <<>>, NEW x, Goto(p, x),
           NEW c, copy' = [copy EXCEPT ![p] = c], DOMAIN c = DOMAIN copy[p], CopiesFit(c, tc'),
           Fits(x, Len(stack[p]) - 1, DOMAIN copy[p], tc')
    PROVE  FlusherInv'
<1>1. PICK s : s = stack[p] OBVIOUS
<1>2. /\ s \in Seq(ToSet(s)) /\ Len(s) \in Nat \ {0}
      /\ \A i \in 1..Len(s) : Fits(s[i], Len(s) - i, DOMAIN copy[p], tc)
      /\ DOMAIN copy[p] \subseteq Txns \X Nat
  BY <1>1, StackType
<1>3. PICK n : /\ n = Push(x, Tail(s))
               /\ n \in Seq(ToSet(n)) /\ Len(n) = Len(s) /\ n[1] = x
               /\ \A i \in 2..Len(s) : n[i] = s[i]
  BY <1>2, Replaced
<1>4. stack' = [stack EXCEPT ![p] = n] BY <1>1, <1>3 DEF Goto, Push
<1>5. DOMAIN n = 1..Len(s) BY <1>3
<1>6. ASSUME NEW i \in 1..Len(s) PROVE Fits(n[i], Len(n) - i, DOMAIN c, tc')
  <2>1. CASE i = 1 BY <2>1, <1>1, <1>3
  <2>2. CASE i # 1
    <3>1. i \in 2..Len(s) /\ n[i] = s[i] /\ Len(n) = Len(s) BY <1>2, <1>3, <2>2
    <3>2. Fits(s[i], Len(s) - i, DOMAIN copy[p], tc) BY <1>2
    <3>3. s[i].h \in DOMAIN copy[p] BY <3>2 DEF Fits
    <3>4. Fits(s[i], Len(s) - i, DOMAIN copy[p], tc') BY <1>2, <3>2, <3>3, FitsKept
    <3> QED BY <3>1, <3>4
  <2> QED BY <2>1, <2>2
<1>7. CallsFit(n, DOMAIN c, tc') BY <1>3, <1>5, <1>6 DEF CallsFit
<1>8. PendingFits(pending[p], tc') /\ pending' = [pending EXCEPT ![p] = pending[p]]
  BY PendingKept DEF FlusherInv
<1> QED BY <1>4, <1>7, <1>8, FlusherMoves

\* Call: the call at the top goes on as x once the call y returns.
LEMMA CallsOn ==
    ASSUME StoredInv, FlusherInv, Moves, NEW p \in Runners, ops' = ops, pending' = pending,
           stack[p] # <<>>, NEW x, NEW y, Call(p, x, y),
           NEW c, copy' = [copy EXCEPT ![p] = c], DOMAIN copy[p] \subseteq DOMAIN c, CopiesFit(c, tc'),
           Fits(x, Len(stack[p]) - 1, DOMAIN c, tc'), Fits(y, Len(stack[p]), DOMAIN c, tc')
    PROVE  FlusherInv'
<1>1. PICK s : s = stack[p] OBVIOUS
<1>2. /\ s \in Seq(ToSet(s)) /\ Len(s) \in Nat \ {0}
      /\ \A i \in 1..Len(s) : Fits(s[i], Len(s) - i, DOMAIN copy[p], tc)
      /\ DOMAIN copy[p] \subseteq Txns \X Nat
  BY <1>1, StackType
<1>3. PICK n : /\ n = PushTwo(y, x, Tail(s))
               /\ n \in Seq(ToSet(n)) /\ Len(n) = Len(s) + 1 /\ n[1] = y /\ n[2] = x
               /\ \A i \in 3..(Len(s) + 1) : n[i] = s[i - 1]
  BY <1>2, Called
<1>4. stack' = [stack EXCEPT ![p] = n] BY <1>1, <1>3 DEF Call, PushTwo
<1>5. DOMAIN n = 1..(Len(s) + 1) BY <1>2, <1>3
<1>6. ASSUME NEW i \in 1..(Len(s) + 1) PROVE Fits(n[i], Len(n) - i, DOMAIN c, tc')
  <2>1. CASE i = 1
    <3>1. Len(n) - i = Len(s) BY <1>2, <1>3, <2>1
    <3> QED BY <2>1, <3>1, <1>1, <1>3
  <2>2. CASE i = 2
    <3>1. Len(n) - i = Len(s) - 1 BY <1>2, <1>3, <2>2
    <3> QED BY <2>2, <3>1, <1>1, <1>3
  <2>3. CASE i # 1 /\ i # 2
    <3>1. /\ i \in 3..(Len(s) + 1) /\ n[i] = s[i - 1] /\ i - 1 \in 1..Len(s)
          /\ Len(n) - i = Len(s) - (i - 1)
      BY <1>2, <1>3, <2>3
    <3>2. Fits(s[i - 1], Len(s) - (i - 1), DOMAIN copy[p], tc) BY <1>2, <3>1
    <3>3. s[i - 1].h \in DOMAIN c BY <3>2 DEF Fits
    <3>4. Fits(s[i - 1], Len(s) - (i - 1), DOMAIN c, tc') BY <1>2, <3>2, <3>3, FitsKept
    <3> QED BY <3>1, <3>4
  <2> QED BY <2>1, <2>2, <2>3
<1>7. CallsFit(n, DOMAIN c, tc') BY <1>3, <1>5, <1>6 DEF CallsFit
<1>8. PendingFits(pending[p], tc') /\ pending' = [pending EXCEPT ![p] = pending[p]]
  BY PendingKept DEF FlusherInv
<1> QED BY <1>4, <1>7, <1>8, FlusherMoves

\* A caller gets an error and keeps its place.
LEMMA ErrorFits ==
    ASSUME NEW fr, NEW depth, NEW hs, NEW log, Fits(fr, depth, hs, log), NEW err
    PROVE  Fits(IF "err" \in DOMAIN fr THEN [fr EXCEPT !.err = err] ELSE fr, depth, hs, log)
<1>1. SUFFICES ASSUME "err" \in DOMAIN fr PROVE Fits([fr EXCEPT !.err = err], depth, hs, log)
  OBVIOUS
<1> DEFINE x == [fr EXCEPT !.err = err]
<1>2. DOMAIN x = DOMAIN fr /\ \A f \in DOMAIN fr : f # "err" => x[f] = fr[f] OBVIOUS
<1> HIDE DEF x
<1>3. CASE depth = 0
  <2>1. {"pc", "h", "todo"} \subseteq DOMAIN fr BY <1>3 DEF Fits, RunFits, RunFrame
  <2>2. x.pc = fr.pc /\ x.h = fr.h /\ x.todo = fr.todo BY <1>2, <2>1
  <2>3. DOMAIN RunFrame(x.h) = DOMAIN RunFrame(fr.h) BY <2>2
  <2> QED BY <1>2, <1>3, <2>2, <2>3 DEF Fits, RunFits, x
<1>4. CASE depth # 0 /\ RecurseFits(fr)
  <2>1. {"pc", "h", "next"} \subseteq DOMAIN fr BY <1>4 DEF RecurseFits, RecurseFrame
  <2>2. x.pc = fr.pc /\ x.h = fr.h /\ x.next = fr.next BY <1>2, <2>1
  <2>3. DOMAIN RecurseFrame(x.h) = DOMAIN RecurseFrame(fr.h) BY <2>2
  <2> QED BY <1>2, <1>4, <2>2, <2>3 DEF Fits, RecurseFits, x
<1>5. CASE depth # 0 /\ AdvanceFits(fr, log)
  <2>1. "err" \notin DOMAIN fr BY <1>5 DEF AdvanceFits, AdvanceFrame
  <2> QED BY <1>1, <2>1
<1> QED BY <1>3, <1>4, <1>5 DEF Fits

\* Return: the call at the top ends, and a copy of its own with it.
LEMMA Returns ==
    ASSUME StoredInv, FlusherInv, Moves, NEW p \in Runners, ops' = ops, pending' = pending,
           stack[p] # <<>>, Top(p).pc \notin RunPcs, NEW err, Return(p, err),
           NEW c, copy' = [copy EXCEPT ![p] = c], CopiesFit(c, tc'),
           \/ DOMAIN c = DOMAIN copy[p]
           \/ Top(p).h[2] # 0 /\ DOMAIN c = DOMAIN copy[p] \ {Top(p).h}
    PROVE  FlusherInv'
<1>1. PICK s : s = stack[p] OBVIOUS
<1>2. /\ s \in Seq(ToSet(s)) /\ Len(s) \in Nat \ {0}
      /\ \A i \in 1..Len(s) : Fits(s[i], Len(s) - i, DOMAIN copy[p], tc)
      /\ DOMAIN copy[p] \subseteq Txns \X Nat
      /\ Top(p) = s[1]
  BY <1>1, StackType
<1>3. Len(s) >= 2 BY <1>2 DEF Fits, RunFits
<1>4. PICK x : x = IF "err" \in DOMAIN s[2] THEN [s[2] EXCEPT !.err = err] ELSE s[2] OBVIOUS
<1>5. PICK n : /\ n = Push(x, Tail(Tail(s)))
               /\ n \in Seq(ToSet(n)) /\ Len(n) = Len(s) - 1 /\ n[1] = x
               /\ \A i \in 2..(Len(s) - 1) : n[i] = s[i + 1]
  <2>1. s \in Seq(ToSet(s)) BY <1>2
  <2> QED BY <1>3, <2>1, Returned
<1>6. stack' = [stack EXCEPT ![p] = n] BY <1>1, <1>4, <1>5 DEF Return, Push
<1>7. DOMAIN n = 1..(Len(s) - 1) BY <1>2, <1>3, <1>5
<1>8. ASSUME NEW j \in 2..Len(s) PROVE Fits(s[j], Len(s) - j, DOMAIN c, tc')
  <2>1. Fits(s[j], Len(s) - j, DOMAIN copy[p], tc) /\ Fits(s[1], Len(s) - 1, DOMAIN copy[p], tc)
    BY <1>2, <1>3
  <2>2. s[j].h \in DOMAIN copy[p] /\ s[j].h[2] \in {0, Len(s) - j} /\ s[1].h[2] \in {0, Len(s) - 1}
    BY <2>1 DEF Fits
  <2>3. s[j].h \in DOMAIN c BY <1>2, <1>3, <2>2
  <2>4. \A t \in Txns : <<t, 0>> \in DOMAIN copy[p] => <<t, 0>> \in DOMAIN c BY <1>2
  <2> QED BY <1>2, <2>1, <2>3, <2>4, FitsKept
<1>9. ASSUME NEW i \in 1..(Len(s) - 1) PROVE Fits(n[i], Len(n) - i, DOMAIN c, tc')
  <2>1. Len(n) - i = Len(s) - (i + 1) /\ i + 1 \in 2..Len(s) BY <1>2, <1>3, <1>5
  <2>2. Fits(s[i + 1], Len(n) - i, DOMAIN c, tc') BY <1>8, <2>1
  <2>3. CASE i = 1
    <3>1. Fits(x, Len(n) - i, DOMAIN c, tc') BY <1>4, <2>2, <2>3, ErrorFits
    <3> QED BY <1>5, <2>3, <3>1
  <2>4. CASE i # 1
    <3>1. i \in 2..(Len(s) - 1) BY <1>2, <2>4
    <3>2. n[i] = s[i + 1] BY <1>5, <3>1
    <3> QED BY <2>2, <3>2
  <2> QED BY <2>3, <2>4
<1>10. CallsFit(n, DOMAIN c, tc') BY <1>5, <1>7, <1>9 DEF CallsFit
<1>11. PendingFits(pending[p], tc') /\ pending' = [pending EXCEPT ![p] = pending[p]]
  BY PendingKept DEF FlusherInv
<1> QED BY <1>6, <1>10, <1>11, FlusherMoves

-----------------------------------------------------------------------------
(* The steps inside advance.                                               *)

\* A step that leaves the transactions as they are.
LEMMA NothingMoves ==
    ASSUME StoredInv, tc' = tc
    PROVE  Moves
BY LaterStates DEF StoredInv, Moves

AdvanceFields == {"pc", "h", "pull", "force", "k", "tt", "revno", "revnos", "tries", "stashed", "q"}

\* A call of advance, by where it is in it.
LEMMA AdvanceTop ==
    ASSUME FlusherInv, NEW p \in Runners, stack[p] # <<>>, Top(p).pc \in AdvancePcs
    PROVE  /\ Len(stack[p]) - 1 # 0 /\ AdvanceFits(Top(p), tc) /\ DOMAIN Top(p) = AdvanceFields
           /\ Top(p).h[2] \in {0, Len(stack[p]) - 1}
<1>1. Fits(Top(p), Len(stack[p]) - 1, DOMAIN copy[p], tc) BY StackType
<1>2. ~RunFits(Top(p), DOMAIN copy[p]) /\ ~RecurseFits(Top(p))
  BY DEF AdvancePcs, KeyPcs, AbortingPcs, ApplyingPcs, RunFits, RunPcs, RecurseFits, RecursePcs
<1>3. AdvanceFits(Top(p), tc) BY <1>1, <1>2 DEF Fits
<1>4. DOMAIN Top(p) = AdvanceFields BY <1>3 DEF AdvanceFits, AdvanceFrame, AdvanceFields
<1> QED BY <1>1, <1>2, <1>3, <1>4 DEF Fits

\* A flusher's copies stay ...
LEMMA CopyKept ==
    ASSUME StoredInv, FlusherInv, Moves, NEW p \in Runners, copy' = copy
    PROVE  copy' = [copy EXCEPT ![p] = copy[p]] /\ CopiesFit(copy[p], tc')
BY CopiesKept DEF FlusherInv

\* ... or that of the transaction being advanced is replaced by another that agrees.
LEMMA CopyChanged ==
    ASSUME StoredInv, FlusherInv, Moves, NEW p \in Runners, stack[p] # <<>>,
           NEW c, Agrees(c, Id(p), tc'), SetCopy(p, c)
    PROVE  \E cs : /\ copy' = [copy EXCEPT ![p] = cs] /\ DOMAIN cs = DOMAIN copy[p]
                   /\ CopiesFit(cs, tc')
<1> DEFINE cs == [copy[p] EXCEPT ![Top(p).h] = c]
<1>1. copy' = [copy EXCEPT ![p] = cs] BY DEF SetCopy, FlusherInv
<1>2. CopiesFit(copy[p], tc') BY CopiesKept DEF FlusherInv
<1>3. Top(p).h \in DOMAIN copy[p] /\ Id(p) = Top(p).h[1] BY TopType
<1>4. CopiesFit(cs, tc') BY <1>2, <1>3 DEF CopiesFit
<1> QED BY <1>1, <1>4

\* The transaction being advanced goes on at x: at one of its keys, and with the decision
\* that x is about.
LEMMA Advances ==
    ASSUME StoredInv, FlusherInv, Moves, NEW p \in Runners, ops' = ops, pending' = pending,
           stack[p] # <<>>, Top(p).pc \in AdvancePcs,
           NEW x, Goto(p, x), DOMAIN x = AdvanceFields, x.h = Top(p).h, x.pc \in AdvancePcs,
           x.pc \in KeyPcs => \/ Top(p).pc \in KeyPcs /\ x.k = Top(p).k
                             \/ x.k \in 1..Len(docKeys(Id(p))),
           x.pc \in AbortingPcs => \/ Top(p).pc \in AbortingPcs
                                  \/ tc'[Id(p)].s \in Later("aborting"),
           x.pc \in ApplyingPcs => /\ Top(p).pc \in ApplyingPcs \/ tc'[Id(p)].s \in Later("applying")
                                  /\ x.k \in Nat \ {0},
           copy' = copy \/ \E c : Agrees(c, Id(p), tc') /\ SetCopy(p, c)
    PROVE  FlusherInv'
<1>1. /\ Len(stack[p]) - 1 # 0 /\ AdvanceFits(Top(p), tc)
      /\ Top(p).h[2] \in {0, Len(stack[p]) - 1}
  BY AdvanceTop
<1>2. /\ Top(p).h \in DOMAIN copy[p] /\ Id(p) \in Txns /\ Id(p) = Top(p).h[1]
  BY TopType
<1>3. "aborting" \in States /\ "applying" \in States BY DEF States
<1>4. AdvanceFits(x, tc')
  <2>1. DOMAIN x = DOMAIN AdvanceFrame(x.h, x.pull, x.force) BY DEF AdvanceFields, AdvanceFrame
  <2>2. x.pc \in AbortingPcs => tc'[x.h[1]].s \in Later("aborting")
    BY <1>1, <1>2, <1>3, LaterKept DEF AdvanceFits
  <2>3. x.pc \in ApplyingPcs => tc'[x.h[1]].s \in Later("applying") /\ x.k \in Nat \ {0}
    BY <1>1, <1>2, <1>3, LaterKept DEF AdvanceFits
  <2>4. x.pc \in KeyPcs => x.k \in 1..Len(docKeys(x.h[1])) BY <1>1, <1>2 DEF AdvanceFits
  <2> QED BY <2>1, <2>2, <2>3, <2>4 DEF AdvanceFits
<1>5. Fits(x, Len(stack[p]) - 1, DOMAIN copy[p], tc') BY <1>1, <1>2, <1>4 DEF Fits
<1>6. \E cs : /\ copy' = [copy EXCEPT ![p] = cs] /\ DOMAIN cs = DOMAIN copy[p]
              /\ CopiesFit(cs, tc')
  BY CopyKept, CopyChanged
<1> QED BY <1>5, <1>6, GoesOn

\* A step that changes one transaction.
LEMMA OneMoves ==
    ASSUME StoredInv, NEW t \in Txns, NEW c, tc' = [tc EXCEPT ![t] = c],
           DOMAIN c = DOMAIN NewTxn, c.s \in States, c.s \in Later(tc[t].s),
           tc[t].s = "applied" => c.s = "applied",
           tc[t].s \notin {"new", "preparing"} => c.n = tc[t].n,
           tc[t].s \in {"applying", "applied"} => c.r = tc[t].r
    PROVE  Moves
BY LaterStates DEF StoredInv, Moves

\* A call at a key of its transaction is at a document.
LEMMA KeyType ==
    ASSUME StoredInv, FlusherInv, NEW p \in Runners, stack[p] # <<>>, Top(p).pc \in KeyPcs
    PROVE  Key(p) \in Docs /\ Top(p).k \in 1..Len(docKeys(Id(p))) /\ Len(docKeys(Id(p))) \in Nat
<1>1. Top(p).k \in 1..Len(docKeys(Id(p)))
  BY AdvanceTop, TopType DEF AdvanceFits, AdvancePcs
<1>2. ops[Id(p)] \in Seq(Op) BY TopType DEF StoredInv
<1> QED BY <1>1, <1>2, KeysType DEF Key, docKeys

\* advance goes on elsewhere, at its first key or operation again.
LEMMA JumpsTo ==
    ASSUME StoredInv, FlusherInv, Moves, NEW p \in Runners, ops' = ops, pending' = pending,
           stack[p] # <<>>, Top(p).pc \in AdvancePcs,
           NEW pc \in AdvancePcs, To(p, pc),
           pc \in KeyPcs => Top(p).pc \in KeyPcs,
           pc \in AbortingPcs => Top(p).pc \in AbortingPcs \/ tc'[Id(p)].s \in Later("aborting"),
           pc \in ApplyingPcs => Top(p).pc \in ApplyingPcs,
           copy' = copy \/ \E c : Agrees(c, Id(p), tc') /\ SetCopy(p, c)
    PROVE  FlusherInv'
<1>1. PICK x : x = [Top(p) EXCEPT !.pc = pc] OBVIOUS
<1>2. DOMAIN Top(p) = AdvanceFields BY AdvanceTop
<1>3. DOMAIN x = AdvanceFields /\ x.h = Top(p).h /\ x.pc = pc /\ x.k = Top(p).k
  BY <1>1, <1>2 DEF AdvanceFields
<1>4. Top(p).pc \in ApplyingPcs => Top(p).k \in Nat \ {0} BY AdvanceTop DEF AdvanceFits
<1>5. Goto(p, x) BY <1>1 DEF To
<1>6. x.pc \in ApplyingPcs => /\ Top(p).pc \in ApplyingPcs \/ tc'[Id(p)].s \in Later("applying")
                             /\ x.k \in Nat \ {0}
  BY <1>3, <1>4
<1> QED BY <1>3, <1>5, <1>6, Advances

\* The next key, or the end of the keys.
LEMMA SawFits ==
    ASSUME StoredInv, FlusherInv, NEW p \in Runners, ops' = ops, pending' = pending, tc' = tc,
           copy' = copy, stack[p] # <<>>, Top(p).pc \in KeyPcs,
           NEW q, NEW revno, NEW pc \in AdvancePcs \ (AbortingPcs \cup ApplyingPcs),
           NEW end \in AdvancePcs \ (AbortingPcs \cup ApplyingPcs \cup KeyPcs),
           Saw(p, q, revno, pc, end)
    PROVE  FlusherInv'
<1> DEFINE last == Top(p).k = Len(docKeys(Id(p)))
<1>1. PICK x : x = [Top(p) EXCEPT !.revno[Key(p)] = revno, !.pc = IF last THEN end ELSE pc,
                              !.k = IF last THEN 1 ELSE @ + 1]
  OBVIOUS
<1>2. Top(p).pc \in AdvancePcs BY DEF AdvancePcs
<1>3. DOMAIN Top(p) = AdvanceFields BY <1>2, AdvanceTop
<1>4. /\ DOMAIN x = AdvanceFields /\ x.h = Top(p).h /\ x.pc = (IF last THEN end ELSE pc)
      /\ ~last => x.k = Top(p).k + 1
  BY <1>1, <1>3 DEF AdvanceFields
<1>5. ~last => x.k \in 1..Len(docKeys(Id(p))) BY <1>4, KeyType
<1>6. Goto(p, x) BY <1>1 DEF Saw
<1>7. x.pc \in AdvancePcs /\ x.pc \notin AbortingPcs /\ x.pc \notin ApplyingPcs BY <1>4
<1>8. x.pc \in KeyPcs => x.k \in 1..Len(docKeys(Id(p))) BY <1>4, <1>5
<1> HIDE DEF last
<1> QED BY <1>2, <1>4, <1>6, <1>7, <1>8, Advances, NothingMoves

\* Another transaction is applied first, from a copy of its own.
LEMMA LoadsAndApplies ==
    ASSUME StoredInv, FlusherInv, NEW p \in Runners, ops' = ops, pending' = pending, tc' = tc,
           stack[p] # <<>>, Top(p).pc \in KeyPcs, NEW pc \in KeyPcs,
           NEW t \in Txns, loadAndApply(p, t, pc)
    PROVE  FlusherInv'
<1> DEFINE h == <<t, Len(stack[p])>>
<1>1. PICK x : x = [Top(p) EXCEPT !.pc = pc] OBVIOUS
<1>2. PICK y : y = AdvanceFrame(h, Self(h), TRUE) OBVIOUS
<1>3. PICK c : c = Holding(copy[p], h, tc[t]) OBVIOUS
<1>4. Moves BY NothingMoves
<1>5. Len(stack[p]) \in Nat \ {0} /\ DOMAIN copy[p] \subseteq Txns \X Nat BY StackType
<1>6. /\ DOMAIN c = DOMAIN copy[p] \cup {h} /\ c[h] = tc[t]
      /\ \A g \in DOMAIN copy[p] : g # h => c[g] = copy[p][g]
  BY <1>3 DEF Holding
<1>7. CopiesFit(c, tc')
  <2>1. CopiesFit(copy[p], tc') BY <1>4, CopiesKept DEF FlusherInv
  <2>2. Agrees(tc[t], t, tc') BY LaterStates DEF Agrees, StoredInv
  <2>3. h \in Txns \X Nat /\ h[1] = t BY <1>5
  <2> QED BY <1>6, <2>1, <2>2, <2>3 DEF CopiesFit
<1>8. copy' = [copy EXCEPT ![p] = c] BY <1>3 DEF loadAndApply, FlusherInv
<1>9. Top(p).pc \in AdvancePcs /\ pc \in AdvancePcs BY DEF AdvancePcs
<1>10. Fits(x, Len(stack[p]) - 1, DOMAIN c, tc')
  <2>1. /\ Len(stack[p]) - 1 # 0 /\ AdvanceFits(Top(p), tc) /\ DOMAIN Top(p) = AdvanceFields
        /\ Top(p).h[2] \in {0, Len(stack[p]) - 1} /\ Top(p).h \in DOMAIN copy[p]
    BY <1>9, AdvanceTop, TopType
  <2>2. DOMAIN x = AdvanceFields /\ x.h = Top(p).h /\ x.pc = pc /\ x.k = Top(p).k
    BY <1>1, <2>1 DEF AdvanceFields
  <2>3. DOMAIN x = DOMAIN AdvanceFrame(x.h, x.pull, x.force)
    BY <2>2 DEF AdvanceFields, AdvanceFrame
  <2>4. pc \notin AbortingPcs /\ pc \notin ApplyingPcs BY DEF KeyPcs, AbortingPcs, ApplyingPcs
  <2>5. AdvanceFits(x, tc') BY <1>9, <2>1, <2>2, <2>3, <2>4 DEF AdvanceFits
  <2> QED BY <1>6, <2>1, <2>2, <2>5 DEF Fits
<1>11. Fits(y, Len(stack[p]), DOMAIN c, tc')
  <2>1. y.h = h /\ y.pc = "advance" /\ DOMAIN y = DOMAIN AdvanceFrame(y.h, y.pull, y.force)
    BY <1>2 DEF AdvanceFrame
  <2>2. "advance" \in AdvancePcs \ (KeyPcs \cup AbortingPcs \cup ApplyingPcs)
    BY DEF AdvancePcs, KeyPcs, AbortingPcs, ApplyingPcs
  <2>3. AdvanceFits(y, tc') BY <2>1, <2>2 DEF AdvanceFits
  <2> QED BY <1>5, <1>6, <2>1, <2>3 DEF Fits
<1>12. Call(p, x, y) BY <1>1, <1>2 DEF loadAndApply
<1> QED BY <1>4, <1>6, <1>7, <1>8, <1>10, <1>11, <1>12, CallsOn

\* A step changes a document or its stash, and no mark but with a transaction there is.
LEMMA StoredKept ==
    ASSUME StoredInv, Moves, ops' = ops, NEW d, NEW x, NEW y,
           \/ doc' = doc
           \/ /\ doc' = [doc EXCEPT ![d] = x]
              /\ d \in Docs => DOMAIN x = DOMAIN NoDoc /\ x.rm \in Txns \cup {None},
           \/ stash' = stash
           \/ /\ stash' = [stash EXCEPT ![d] = y]
              /\ d \in Docs => DOMAIN y = DOMAIN NoStash /\ y.ins \in Txns \cup {None}
    PROVE  StoredInv'
<1>1. /\ DOMAIN doc' = Docs
      /\ \A e \in Docs : DOMAIN doc'[e] = DOMAIN NoDoc /\ doc'[e].rm \in Txns \cup {None}
  BY DEF StoredInv
<1>2. /\ DOMAIN stash' = Docs
      /\ \A e \in Docs : DOMAIN stash'[e] = DOMAIN NoStash /\ stash'[e].ins \in Txns \cup {None}
  BY DEF StoredInv
<1>3. DOMAIN tc' = Txns /\ \A t \in Txns : DOMAIN tc'[t] = DOMAIN NewTxn /\ tc'[t].s \in States
  BY DEF Moves
<1> QED BY <1>1, <1>2, <1>3 DEF StoredInv, NoDoc, NoStash, NewTxn

\* Documents and stashes with another queue, revno or value keep their marks.
LEMMA Records ==
    /\ \A d \in DOMAIN doc : DOMAIN doc[d] = DOMAIN NoDoc =>
          /\ \A q : DOMAIN [doc[d] EXCEPT !.q = q] = DOMAIN NoDoc /\ [doc[d] EXCEPT !.q = q].rm = doc[d].rm
          /\ \A t : DOMAIN [doc[d] EXCEPT !.rm = t] = DOMAIN NoDoc /\ [doc[d] EXCEPT !.rm = t].rm = t
    /\ \A d \in DOMAIN stash : DOMAIN stash[d] = DOMAIN NoStash =>
          /\ \A q : /\ DOMAIN [stash[d] EXCEPT !.q = q] = DOMAIN NoStash
                    /\ [stash[d] EXCEPT !.q = q].ins = stash[d].ins
          /\ \A t : /\ DOMAIN [stash[d] EXCEPT !.ins = t] = DOMAIN NoStash
                    /\ [stash[d] EXCEPT !.ins = t].ins = t
BY DEF NoDoc, NoStash

\* An upsert finds or makes a stash document.
LEMMA UpsertedType ==
    ASSUME StoredInv, NEW d \in Docs
    PROVE  DOMAIN Upserted(d) = DOMAIN NoStash /\ Upserted(d).ins \in Txns \cup {None}
           /\ (Upserted(d).ins # None => stash[d].ins = Upserted(d).ins)
BY DEF StoredInv, Upserted, EmptyStash, NoStash

\* prepare: the token joins the queue of the document.
LEMMA PrepareDocStep ==
    ASSUME StoredInv, FlusherInv, NEW p \in Runners, ops' = ops, pending' = pending, prepareDoc(p)
    PROVE  Moves /\ FlusherInv' /\ StoredInv'
<1> DEFINE d == Key(p)
           q == AddToSet(doc[d].q, Top(p).tt)
<1>1. stack[p] # <<>> /\ Top(p).pc \in KeyPcs BY DEF prepareDoc, At, KeyPcs
<1>2. tc' = tc /\ stash' = stash BY DEF prepareDoc
<1>3. Moves BY <1>2, NothingMoves
<1>4. d \in Docs BY <1>1, KeyType
<1>5. StoredInv'
  <2>1. doc' = doc \/ doc' = [doc EXCEPT ![d] = [doc[d] EXCEPT !.q = q]] BY DEF prepareDoc
  <2>2. /\ DOMAIN [doc[d] EXCEPT !.q = q] = DOMAIN NoDoc
        /\ [doc[d] EXCEPT !.q = q].rm \in Txns \cup {None}
    BY <1>4, Records DEF StoredInv
  <2> HIDE DEF d, q
  <2> QED BY <1>2, <1>3, <2>1, <2>2, StoredKept
<1>6. CASE doc[d].here /\ doc[d].rm = None
  <2>1. Saw(p, q, doc[d].revno, "prepare", "setPrepared") /\ copy' = copy
    BY <1>6 DEF prepareDoc
  <2>2. /\ "prepare" \in AdvancePcs \ (AbortingPcs \cup ApplyingPcs)
        /\ "setPrepared" \in AdvancePcs \ (AbortingPcs \cup ApplyingPcs \cup KeyPcs)
    BY DEF AdvancePcs, AbortingPcs, ApplyingPcs, KeyPcs
  <2> HIDE DEF d, q
  <2> QED BY <1>1, <1>2, <1>3, <1>5, <2>1, <2>2, SawFits
<1>7. CASE doc[d].here /\ doc[d].rm # None
  <2>1. loadAndApply(p, doc[d].rm, "prepare") BY <1>7 DEF prepareDoc
  <2>2. doc[d].rm \in Txns /\ "prepare" \in KeyPcs BY <1>4, <1>7 DEF StoredInv, KeyPcs
  <2> QED BY <1>1, <1>2, <1>3, <1>5, <2>1, <2>2, LoadsAndApplies
<1>8. CASE ~doc[d].here
  <2>1. To(p, "prepareStash") /\ copy' = copy BY <1>8 DEF prepareDoc
  <2>2. /\ "prepareStash" \in AdvancePcs \ (AbortingPcs \cup ApplyingPcs)
        /\ Top(p).pc \in AdvancePcs
    BY <1>1 DEF AdvancePcs, AbortingPcs, ApplyingPcs, KeyPcs
  <2> QED BY <1>1, <1>2, <1>3, <1>5, <2>1, <2>2, JumpsTo
<1> QED BY <1>6, <1>7, <1>8

\* prepare: the token joins the queue of the stash.
LEMMA PrepareStashStep ==
    ASSUME StoredInv, FlusherInv, NEW p \in Runners, ops' = ops, pending' = pending, prepareStash(p)
    PROVE  Moves /\ FlusherInv' /\ StoredInv'
<1> DEFINE d == Key(p)
           u == [Upserted(d) EXCEPT !.q = AddToSet(Upserted(d).q, Top(p).tt)]
<1>1. stack[p] # <<>> /\ Top(p).pc \in KeyPcs BY DEF prepareStash, At, KeyPcs
<1>2. tc' = tc /\ doc' = doc BY DEF prepareStash
<1>3. Moves BY <1>2, NothingMoves
<1>4. d \in Docs BY <1>1, KeyType
<1>5. StoredInv'
  <2>1. stash' = [stash EXCEPT ![d] = u] BY DEF prepareStash
  <2>2. DOMAIN u = DOMAIN NoStash /\ u.ins \in Txns \cup {None}
    BY <1>4, UpsertedType DEF NoStash
  <2> HIDE DEF d, u
  <2> QED BY <1>2, <1>3, <2>1, <2>2, StoredKept
<1>6. CASE Upserted(d).ins = None
  <2>1. To(p, "confirmDoc") /\ copy' = copy BY <1>6 DEF prepareStash
  <2>2. /\ "confirmDoc" \in AdvancePcs \ (AbortingPcs \cup ApplyingPcs)
        /\ Top(p).pc \in AdvancePcs
    BY <1>1 DEF AdvancePcs, AbortingPcs, ApplyingPcs, KeyPcs
  <2> QED BY <1>1, <1>2, <1>3, <1>5, <2>1, <2>2, JumpsTo
<1>7. CASE Upserted(d).ins # None
  <2>1. loadAndApply(p, stash[d].ins, "prepare") BY <1>7 DEF prepareStash
  <2>2. stash[d].ins \in Txns /\ "prepare" \in KeyPcs BY <1>4, <1>7, UpsertedType DEF KeyPcs
  <2> QED BY <1>1, <1>2, <1>3, <1>5, <2>1, <2>2, LoadsAndApplies
<1> QED BY <1>6, <1>7

\* prepare: the token is looked for once more.
LEMMA ConfirmStep ==
    ASSUME StoredInv, FlusherInv, NEW p \in Runners, ops' = ops, pending' = pending,
           confirmDoc(p) \/ confirmStash(p)
    PROVE  Moves /\ FlusherInv' /\ StoredInv'
<1>1. stack[p] # <<>> /\ Top(p).pc \in KeyPcs BY DEF confirmDoc, confirmStash, At, KeyPcs
<1>2. tc' = tc /\ doc' = doc /\ stash' = stash /\ copy' = copy BY DEF confirmDoc, confirmStash, db
<1>3. Moves BY <1>2, NothingMoves
<1>4. StoredInv' BY <1>2, <1>3, StoredKept
<1>5. {"prepare", "confirmStash", "unstash"} \subseteq AdvancePcs \ (AbortingPcs \cup ApplyingPcs)
  BY DEF AdvancePcs, AbortingPcs, ApplyingPcs, KeyPcs
<1>6. "setPrepared" \in AdvancePcs \ (AbortingPcs \cup ApplyingPcs \cup KeyPcs) /\ Top(p).pc \in AdvancePcs
  BY <1>1 DEF AdvancePcs, AbortingPcs, ApplyingPcs, KeyPcs
<1>7. ASSUME NEW pc \in {"confirmStash", "unstash"}, To(p, pc) PROVE FlusherInv'
  BY <1>1, <1>2, <1>3, <1>5, <1>6, <1>7, JumpsTo
<1>8. ASSUME NEW q, NEW revno, Saw(p, q, revno, "prepare", "setPrepared") PROVE FlusherInv'
  BY <1>1, <1>2, <1>5, <1>6, <1>8, SawFits
<1>9. FlusherInv' BY <1>7, <1>8 DEF confirmDoc, confirmStash
<1> QED BY <1>3, <1>4, <1>9

\* unstashToken.
LEMMA UnstashStep ==
    ASSUME StoredInv, FlusherInv, NEW p \in Runners, ops' = ops, pending' = pending,
           unstashToken(p)
    PROVE  Moves /\ FlusherInv' /\ StoredInv'
<1> DEFINE d == Key(p)
           q == PullAll(stash[d].q, {Top(p).tt})
<1>1. stack[p] # <<>> /\ Top(p).pc \in KeyPcs BY DEF unstashToken, At, KeyPcs
<1>2. tc' = tc /\ doc' = doc /\ copy' = copy BY DEF unstashToken
<1>3. Moves BY <1>2, NothingMoves
<1>4. d \in Docs BY <1>1, KeyType
<1>5. StoredInv'
  <2>1. stash' = [stash EXCEPT ![d] = [stash[d] EXCEPT !.q = q]] BY DEF unstashToken
  <2>2. /\ DOMAIN [stash[d] EXCEPT !.q = q] = DOMAIN NoStash
        /\ [stash[d] EXCEPT !.q = q].ins \in Txns \cup {None}
    BY <1>4, Records DEF StoredInv
  <2> HIDE DEF d, q
  <2> QED BY <1>2, <1>3, <2>1, <2>2, StoredKept
<1>6. /\ "prepare" \in AdvancePcs \ (AbortingPcs \cup ApplyingPcs)
      /\ Top(p).pc \in AdvancePcs
  BY <1>1 DEF AdvancePcs, AbortingPcs, ApplyingPcs, KeyPcs
<1>7. To(p, "prepare") BY DEF unstashToken
<1> QED BY <1>1, <1>2, <1>3, <1>5, <1>6, <1>7, JumpsTo

\* What the flusher reloads is the transaction as it is.
LEMMA Reloaded ==
    ASSUME StoredInv, FlusherInv, NEW p \in Runners, stack[p] # <<>>, tc' = tc, reload(p)
    PROVE  \E c : Agrees(c, Id(p), tc') /\ SetCopy(p, c)
<1>1. Id(p) \in Txns BY TopType
<1>2. Agrees(tc[Id(p)], Id(p), tc') BY <1>1, LaterStates DEF Agrees, StoredInv
<1> QED BY <1>2 DEF reload

\* The copy with another state of the transaction, if that state is the outcome.
LEMMA Outcome ==
    ASSUME FlusherInv, NEW p \in Runners, stack[p] # <<>>, NEW s \in States,
           tc'[Id(p)].s \in Later(s), NEW c, DOMAIN c = DOMAIN T(p), c.s = s
    PROVE  Agrees(c, Id(p), tc')
BY TopType DEF Agrees

\* prepare saves the nonce, if nobody else did.
LEMMA SetPreparedStep ==
    ASSUME StoredInv, FlusherInv, NEW p \in Runners, ops' = ops, pending' = pending, setPrepared(p)
    PROVE  Moves /\ FlusherInv' /\ StoredInv'
<1> DEFINE t == Id(p)
<1>1. stack[p] # <<>> /\ Top(p).pc = "setPrepared" /\ doc' = doc /\ stash' = stash
  BY DEF setPrepared, At
<1>2. Top(p).pc \in AdvancePcs BY <1>1 DEF AdvancePcs
<1>3. t \in Txns /\ Agrees(T(p), t, tc) BY <1>1, TopType
<1>4. tc[t].s \in States /\ DOMAIN tc[t] = {"s", "n", "r"} /\ DOMAIN T(p) = {"s", "n", "r"}
  BY <1>3 DEF StoredInv, Agrees, NewTxn
<1>5. {"prepared", "lostPrepared"} \subseteq AdvancePcs \ (AbortingPcs \cup ApplyingPcs \cup KeyPcs)
  BY DEF AdvancePcs, AbortingPcs, ApplyingPcs, KeyPcs
<1>6. CASE tc[t].s = "preparing"
  <2>1. PICK c : c = [tc[t] EXCEPT !.s = "prepared", !.n = Top(p).tt[2]] OBVIOUS
  <2>2. tc' = [tc EXCEPT ![t] = c]
    <3>1. tc' = [tc EXCEPT ![t].s = "prepared", ![t].n = Top(p).tt[2]] BY <1>6 DEF setPrepared
    <3> QED BY <2>1, <3>1, <1>3, <1>4 DEF StoredInv
  <2>3. DOMAIN c = DOMAIN NewTxn /\ c.s = "prepared" BY <2>1, <1>4 DEF NewTxn
  <2>4. "prepared" \in States /\ "prepared" \in Later("preparing") BY DEF States, Later
  <2>5. Moves
    <3> HIDE DEF t
    <3> QED BY <1>3, <1>6, <2>2, <2>3, <2>4, OneMoves
  <2>6. tc'[t].s \in Later("prepared")
    BY <1>3, <2>2, <2>3, <2>4, LaterStates DEF StoredInv
  <2>7. PICK m : m = [T(p) EXCEPT !.s = "prepared", !.n = Top(p).tt[2]] OBVIOUS
  <2>8. DOMAIN m = DOMAIN T(p) /\ m.s = "prepared" BY <2>7, <1>4
  <2>9. SetCopy(p, m) /\ To(p, "prepared") BY <1>6, <2>7 DEF setPrepared
  <2>10. Agrees(m, t, tc') BY <1>1, <2>4, <2>6, <2>8, Outcome
  <2>11. StoredInv' BY <1>1, <2>5, StoredKept
  <2> QED BY <1>1, <1>2, <1>5, <2>5, <2>9, <2>10, <2>11, JumpsTo
<1>7. CASE tc[t].s # "preparing"
  <2>1. tc' = tc /\ copy' = copy /\ To(p, "lostPrepared") BY <1>7 DEF setPrepared
  <2>2. Moves BY <2>1, NothingMoves
  <2>3. StoredInv' BY <1>1, <2>2, StoredKept
  <2> QED BY <1>1, <1>2, <1>5, <2>1, <2>2, <2>3, JumpsTo
<1> QED BY <1>6, <1>7

\* prepare reads what somebody else saved.
LEMMA LostPreparedStep ==
    ASSUME StoredInv, FlusherInv, NEW p \in Runners, ops' = ops, pending' = pending, lostPrepared(p)
    PROVE  Moves /\ FlusherInv' /\ StoredInv'
<1>1. stack[p] # <<>> /\ Top(p).pc \in AdvancePcs BY DEF lostPrepared, At, AdvancePcs
<1>2. tc' = tc /\ doc' = doc /\ stash' = stash BY DEF lostPrepared, db
<1>3. Moves BY <1>2, NothingMoves
<1>4. StoredInv' BY <1>2, <1>3, StoredKept
<1>5. \E c : Agrees(c, Id(p), tc') /\ SetCopy(p, c) BY <1>1, <1>2, Reloaded DEF lostPrepared
<1>6. PICK pc \in {"prepared", "advance"} :
        Goto(p, [Top(p) EXCEPT !.pc = pc, !.tt = <<Id(p), tc[Id(p)].n>>])
  BY DEF lostPrepared
<1>7. pc \in AdvancePcs \ (AbortingPcs \cup ApplyingPcs \cup KeyPcs)
  BY DEF AdvancePcs, AbortingPcs, ApplyingPcs, KeyPcs
<1>8. PICK x : x = [Top(p) EXCEPT !.pc = pc, !.tt = <<Id(p), tc[Id(p)].n>>] OBVIOUS
<1>9. DOMAIN x = AdvanceFields /\ x.pc = pc /\ x.h = Top(p).h
  BY <1>1, <1>8, AdvanceTop DEF AdvanceFields
<1>10. Goto(p, x) BY <1>6, <1>8
<1>11. FlusherInv' BY <1>1, <1>3, <1>5, <1>7, <1>9, <1>10, Advances
<1> QED BY <1>3, <1>4, <1>11

\* rescan: a queue is read again.
LEMMA RescanStep ==
    ASSUME StoredInv, FlusherInv, NEW p \in Runners, ops' = ops, pending' = pending,
           rescanDoc(p) \/ rescanStash(p)
    PROVE  Moves /\ FlusherInv' /\ StoredInv'
<1> DEFINE d == Key(p)
<1>1. stack[p] # <<>> /\ Top(p).pc \in KeyPcs BY DEF rescanDoc, rescanStash, At, KeyPcs
<1>2. tc' = tc /\ doc' = doc /\ stash' = stash BY DEF rescanDoc, rescanStash, db
<1>3. Moves BY <1>2, NothingMoves
<1>4. StoredInv' BY <1>2, <1>3, StoredKept
<1>5. {"rescan", "popped", "rescanStash", "missing"} \subseteq AdvancePcs \ (AbortingPcs \cup ApplyingPcs)
  BY DEF AdvancePcs, AbortingPcs, ApplyingPcs, KeyPcs
<1>6. /\ {"rescanned", "popped"} \subseteq AdvancePcs \ (AbortingPcs \cup ApplyingPcs \cup KeyPcs)
      /\ Top(p).pc \in AdvancePcs /\ "rescan" \in KeyPcs
  BY <1>1 DEF AdvancePcs, AbortingPcs, ApplyingPcs, KeyPcs
<1>7. d \in Docs BY <1>1, KeyType
<1>8. ASSUME NEW pc \in {"rescanStash", "missing"}, To(p, pc), copy' = copy PROVE FlusherInv'
  BY <1>1, <1>3, <1>5, <1>6, <1>8, JumpsTo
<1>9. ASSUME NEW q, NEW revno, NEW c,
             Saw(p, q, revno, IF c THEN "rescan" ELSE "popped", IF c THEN "rescanned" ELSE "popped"),
             copy' = copy
      PROVE  FlusherInv'
  BY <1>1, <1>2, <1>5, <1>6, <1>9, SawFits
<1>10. ASSUME NEW t \in Txns, loadAndApply(p, t, "rescan") PROVE FlusherInv'
  BY <1>1, <1>2, <1>6, <1>10, LoadsAndApplies
<1>11. doc[d].rm \in Txns \cup {None} /\ stash[d].ins \in Txns \cup {None}
  BY <1>7 DEF StoredInv
<1>12. FlusherInv'
  <2>1. CASE rescanDoc(p) BY <2>1, <1>8, <1>9, <1>10, <1>11 DEF rescanDoc
  <2>2. CASE rescanStash(p) BY <2>2, <1>8, <1>9, <1>10, <1>11 DEF rescanStash
  <2> QED BY <2>1, <2>2
<1> QED BY <1>3, <1>4, <1>12

\* rescan finds neither the document nor the stash.
LEMMA MissingStep ==
    ASSUME StoredInv, FlusherInv, NEW p \in Runners, ops' = ops, pending' = pending, missing(p)
    PROVE  Moves /\ FlusherInv' /\ StoredInv'
<1>1. stack[p] # <<>> /\ Top(p).pc \in AdvancePcs /\ Top(p).pc \in KeyPcs
  BY DEF missing, At, AdvancePcs, KeyPcs
<1>2. tc' = tc /\ doc' = doc /\ stash' = stash BY DEF missing, db
<1>3. Moves BY <1>2, NothingMoves
<1>4. StoredInv' BY <1>2, <1>3, StoredKept
<1>5. \E c : Agrees(c, Id(p), tc') /\ SetCopy(p, c) BY <1>1, <1>2, Reloaded DEF missing
<1>6. PICK x : x = [Top(p) EXCEPT !.pc = IF tc[Id(p)].s = "prepared" THEN "rescan" ELSE "advance",
                                  !.tries = IF tc[Id(p)].s = "prepared" THEN @ + 1 ELSE @]
  OBVIOUS
<1>7. /\ DOMAIN x = AdvanceFields /\ x.pc \in {"rescan", "advance"} /\ x.h = Top(p).h
      /\ x.k = Top(p).k
  BY <1>1, <1>6, AdvanceTop DEF AdvanceFields
<1>8. {"rescan", "advance"} \subseteq AdvancePcs \ (AbortingPcs \cup ApplyingPcs)
  BY DEF AdvancePcs, AbortingPcs, ApplyingPcs, KeyPcs
<1>9. Goto(p, x) BY <1>6 DEF missing
<1>10. FlusherInv' BY <1>1, <1>3, <1>5, <1>7, <1>8, <1>9, Advances
<1> QED BY <1>3, <1>4, <1>10

\* A flusher that lost a race reads what was decided.
LEMMA ReloadStep ==
    ASSUME StoredInv, FlusherInv, NEW p \in Runners, ops' = ops, pending' = pending,
           popped(p) \/ lostApplying(p)
    PROVE  Moves /\ FlusherInv' /\ StoredInv'
<1>1. stack[p] # <<>> /\ Top(p).pc \in AdvancePcs BY DEF popped, lostApplying, At, AdvancePcs
<1>2. tc' = tc /\ doc' = doc /\ stash' = stash BY DEF popped, lostApplying, db
<1>3. Moves BY <1>2, NothingMoves
<1>4. StoredInv' BY <1>2, <1>3, StoredKept
<1>5. \E c : Agrees(c, Id(p), tc') /\ SetCopy(p, c)
  BY <1>1, <1>2, Reloaded DEF popped, lostApplying
<1>6. To(p, "advance") BY DEF popped, lostApplying
<1>7. "advance" \in AdvancePcs \ (AbortingPcs \cup ApplyingPcs \cup KeyPcs)
  BY DEF AdvancePcs, AbortingPcs, ApplyingPcs, KeyPcs
<1>8. FlusherInv' BY <1>1, <1>3, <1>5, <1>6, <1>7, JumpsTo
<1> QED BY <1>3, <1>4, <1>8

-----------------------------------------------------------------------------
(* The decision.                                                           *)

\* The operation whose test is next, or the decision to apply.
LEMMA TestedType ==
    ASSUME NEW p, NEW fr, NEW k, DOMAIN fr = AdvanceFields
    PROVE  /\ DOMAIN Tested(p, fr, k) = AdvanceFields /\ Tested(p, fr, k).h = fr.h
           /\ Tested(p, fr, k).pc \in {"setApplying", "setAborting", "assertDoc"}
BY DEF Tested, AdvanceFields

\* The operation whose tokens are pulled next, or the end of the abort.
LEMMA PullingType ==
    ASSUME NEW p, NEW k, DOMAIN Top(p) = AdvanceFields
    PROVE  /\ DOMAIN Pulling(p, k) = AdvanceFields /\ Pulling(p, k).h = Top(p).h
           /\ Pulling(p, k).pc \in AbortingPcs
BY DEF Pulling, AdvanceFields, AbortingPcs

\* assert: one query.
LEMMA AssertStep ==
    ASSUME StoredInv, FlusherInv, NEW p \in Runners, ops' = ops, pending' = pending, assertDoc(p)
    PROVE  Moves /\ FlusherInv' /\ StoredInv'
<1>1. stack[p] # <<>> /\ Top(p).pc \in AdvancePcs BY DEF assertDoc, At, AdvancePcs
<1>2. tc' = tc /\ doc' = doc /\ stash' = stash /\ copy' = copy BY DEF assertDoc, db
<1>3. Moves BY <1>2, NothingMoves
<1>4. StoredInv' BY <1>2, <1>3, StoredKept
<1>5. PICK x : /\ Goto(p, x)
               /\ x = Tested(p, Top(p), Top(p).k + 1) \/ x = [Top(p) EXCEPT !.pc = "setAborting"]
  BY DEF assertDoc
<1>6. DOMAIN Top(p) = AdvanceFields BY <1>1, AdvanceTop
<1>7. /\ DOMAIN x = AdvanceFields /\ x.h = Top(p).h
      /\ x.pc \in {"setApplying", "setAborting", "assertDoc"}
  <2>1. CASE x = Tested(p, Top(p), Top(p).k + 1) BY <2>1, <1>6, TestedType
  <2>2. CASE x = [Top(p) EXCEPT !.pc = "setAborting"] BY <2>2, <1>6 DEF AdvanceFields
  <2> QED BY <1>5, <2>1, <2>2
<1>8. {"setApplying", "setAborting", "assertDoc"} \subseteq
        AdvancePcs \ (AbortingPcs \cup ApplyingPcs \cup KeyPcs)
  BY DEF AdvancePcs, AbortingPcs, ApplyingPcs, KeyPcs
<1>9. FlusherInv' BY <1>1, <1>2, <1>3, <1>5, <1>7, <1>8, Advances
<1> QED BY <1>3, <1>4, <1>9

\* A flusher decides: one transaction goes to state s, and its copy with it.
LEMMA Decides ==
    ASSUME StoredInv, FlusherInv, NEW p \in Runners, stack[p] # <<>>,
           NEW s \in States, s \in Later(tc[Id(p)].s), tc[Id(p)].s = "applied" => s = "applied",
           NEW c, tc' = [tc EXCEPT ![Id(p)] = c], DOMAIN c = DOMAIN NewTxn, c.s = s,
           c.n = tc[Id(p)].n, tc[Id(p)].s \in {"applying", "applied"} => c.r = tc[Id(p)].r
    PROVE  Moves /\ tc'[Id(p)].s \in Later(s)
<1>1. Id(p) \in Txns BY TopType
<1>2. PICK t : t = Id(p) OBVIOUS
<1>3. Moves BY <1>1, <1>2, OneMoves
<1>4. tc'[t].s = s BY <1>1, <1>2 DEF StoredInv
<1> QED BY <1>2, <1>3, <1>4, LaterStates

\* abortOrReload decides to abort what is still prepared.
LEMMA SetAbortingStep ==
    ASSUME StoredInv, FlusherInv, NEW p \in Runners, ops' = ops, pending' = pending, setAborting(p)
    PROVE  Moves /\ FlusherInv' /\ StoredInv'
<1> DEFINE t == Id(p)
<1>1. stack[p] # <<>> /\ Top(p).pc = "setAborting" /\ doc' = doc /\ stash' = stash
  BY DEF setAborting, At
<1>2. Top(p).pc \in AdvancePcs BY <1>1 DEF AdvancePcs
<1>3. t \in Txns /\ Agrees(T(p), t, tc) BY <1>1, TopType
<1>4. tc[t].s \in States /\ DOMAIN tc[t] = {"s", "n", "r"} /\ DOMAIN T(p) = {"s", "n", "r"}
  BY <1>3 DEF StoredInv, Agrees, NewTxn
<1>5. /\ "lostAborting" \in AdvancePcs \ (AbortingPcs \cup ApplyingPcs \cup KeyPcs)
      /\ AbortingPcs \subseteq AdvancePcs \ (ApplyingPcs \cup KeyPcs)
  BY DEF AdvancePcs, AbortingPcs, ApplyingPcs, KeyPcs
<1>6. CASE tc[t].s = "prepared"
  <2>1. PICK c : c = [tc[t] EXCEPT !.s = "aborting"] OBVIOUS
  <2>2. tc' = [tc EXCEPT ![t] = c] BY <1>6, <2>1 DEF setAborting
  <2>3. DOMAIN c = DOMAIN NewTxn /\ c.s = "aborting" /\ c.n = tc[t].n
    BY <2>1, <1>4 DEF NewTxn
  <2>4. "aborting" \in States /\ "aborting" \in Later("prepared") BY DEF States, Later
  <2>5. Moves /\ tc'[t].s \in Later("aborting") BY <1>1, <1>6, <2>2, <2>3, <2>4, Decides
  <2>6. PICK m : m = [T(p) EXCEPT !.s = "aborting"] OBVIOUS
  <2>7. DOMAIN m = DOMAIN T(p) /\ m.s = "aborting" BY <2>6, <1>4
  <2>8. SetCopy(p, m) /\ Goto(p, Pulling(p, 1)) BY <1>6, <2>6 DEF setAborting
  <2>9. Agrees(m, t, tc') BY <1>1, <2>4, <2>5, <2>7, Outcome
  <2>10. StoredInv' BY <1>1, <2>5, StoredKept
  <2>11. PICK x : x = Pulling(p, 1) OBVIOUS
  <2>12. DOMAIN x = AdvanceFields /\ x.h = Top(p).h /\ x.pc \in AbortingPcs
    BY <1>1, <1>2, <2>11, AdvanceTop, PullingType
  <2>13. Goto(p, x) BY <2>8, <2>11
  <2>14. FlusherInv' BY <1>1, <1>2, <1>5, <2>5, <2>8, <2>9, <2>12, <2>13, Advances
  <2> QED BY <2>5, <2>10, <2>14
<1>7. CASE tc[t].s # "prepared"
  <2>1. tc' = tc /\ copy' = copy /\ To(p, "lostAborting") BY <1>7 DEF setAborting
  <2>2. Moves BY <2>1, NothingMoves
  <2>3. StoredInv' BY <1>1, <2>2, StoredKept
  <2> QED BY <1>1, <1>2, <1>5, <2>1, <2>2, <2>3, JumpsTo
<1> QED BY <1>6, <1>7

\* abortOrReload reads what was decided instead.
LEMMA LostAbortingStep ==
    ASSUME StoredInv, FlusherInv, NEW p \in Runners, ops' = ops, pending' = pending, lostAborting(p)
    PROVE  Moves /\ FlusherInv' /\ StoredInv'
<1>1. stack[p] # <<>> /\ Top(p).pc \in AdvancePcs BY DEF lostAborting, At, AdvancePcs
<1>2. tc' = tc /\ doc' = doc /\ stash' = stash BY DEF lostAborting, db
<1>3. Moves BY <1>2, NothingMoves
<1>4. StoredInv' BY <1>2, <1>3, StoredKept
<1>5. \E c : Agrees(c, Id(p), tc') /\ SetCopy(p, c) BY <1>1, <1>2, Reloaded DEF lostAborting
<1>6. DOMAIN Top(p) = AdvanceFields BY <1>1, AdvanceTop
<1>7. CASE tc[Id(p)].s = "aborting"
  <2>1. PICK x : x = Pulling(p, 1) OBVIOUS
  <2>2. Goto(p, x) BY <1>7, <2>1 DEF lostAborting
  <2>3. DOMAIN x = AdvanceFields /\ x.h = Top(p).h /\ x.pc \in AbortingPcs
    BY <1>6, <2>1, PullingType
  <2>4. AbortingPcs \subseteq AdvancePcs \ (ApplyingPcs \cup KeyPcs)
    BY DEF AdvancePcs, AbortingPcs, ApplyingPcs, KeyPcs
  <2>5. tc'[Id(p)].s \in Later("aborting") BY <1>2, <1>7 DEF Later
  <2> QED BY <1>1, <1>3, <1>4, <1>5, <2>2, <2>3, <2>4, <2>5, Advances
<1>8. CASE tc[Id(p)].s # "aborting"
  <2>1. To(p, "advance") BY <1>8 DEF lostAborting, To
  <2>2. "advance" \in AdvancePcs \ (AbortingPcs \cup ApplyingPcs \cup KeyPcs)
    BY DEF AdvancePcs, AbortingPcs, ApplyingPcs, KeyPcs
  <2> QED BY <1>1, <1>3, <1>4, <1>5, <2>1, <2>2, JumpsTo
<1> QED BY <1>7, <1>8

\* The tokens of an aborted transaction are pulled.
LEMMA PullStep ==
    ASSUME StoredInv, FlusherInv, NEW p \in Runners, ops' = ops, pending' = pending, pullDoc(p)
    PROVE  Moves /\ FlusherInv' /\ StoredInv'
<1> DEFINE d == Oper(p).d
<1>1. stack[p] # <<>> /\ Top(p).pc \in AbortingPcs BY DEF pullDoc, At, AbortingPcs
<1>2. tc' = tc /\ copy' = copy BY DEF pullDoc
<1>3. Moves BY <1>2, NothingMoves
<1>4. StoredInv'
  <2>1. PICK toks : /\ \/ doc' = doc /\ stash' = [stash EXCEPT ![d].q = PullAll(@, toks)]
                       \/ stash' = stash /\ doc' = [doc EXCEPT ![d].q = PullAll(@, toks)]
    BY DEF pullDoc
  <2>2. PICK x : x = [doc[d] EXCEPT !.q = PullAll(@, toks)] OBVIOUS
  <2>3. PICK y : y = [stash[d] EXCEPT !.q = PullAll(@, toks)] OBVIOUS
  <2>4. d \in Docs => /\ DOMAIN x = DOMAIN NoDoc /\ x.rm \in Txns \cup {None}
                      /\ DOMAIN y = DOMAIN NoStash /\ y.ins \in Txns \cup {None}
    BY <2>2, <2>3, Records DEF StoredInv
  <2>5. \/ doc' = doc /\ stash' = [stash EXCEPT ![d] = y]
        \/ stash' = stash /\ doc' = [doc EXCEPT ![d] = x]
    BY <2>1, <2>2, <2>3
  <2> HIDE DEF d
  <2> QED BY <1>3, <2>4, <2>5, StoredKept
<1>5. PICK x : x = Pulling(p, Top(p).k + 1) OBVIOUS
<1>6. AbortingPcs \subseteq AdvancePcs \ (ApplyingPcs \cup KeyPcs)
  BY DEF AdvancePcs, AbortingPcs, ApplyingPcs, KeyPcs
<1>7. Goto(p, x) BY <1>5 DEF pullDoc
<1>8. DOMAIN x = AdvanceFields /\ x.h = Top(p).h /\ x.pc \in AbortingPcs
  BY <1>1, <1>5, <1>6, AdvanceTop, PullingType
<1>9. FlusherInv' BY <1>1, <1>2, <1>3, <1>6, <1>7, <1>8, Advances
<1> QED BY <1>3, <1>4, <1>9

\* The update that asks for nothing: only of a transaction that is to be aborted.
LEMMA SetAbortedStep ==
    ASSUME StoredInv, FlusherInv, NEW p \in Runners, ops' = ops, pending' = pending, setAborted(p)
    PROVE  Moves /\ FlusherInv' /\ StoredInv'
<1> DEFINE t == Id(p)
<1>1. stack[p] # <<>> /\ Top(p).pc \in AbortingPcs /\ doc' = doc /\ stash' = stash
  BY DEF setAborted, At, AbortingPcs
<1>2. Top(p).pc \in AdvancePcs BY <1>1 DEF AdvancePcs
<1>3. t \in Txns /\ t = Top(p).h[1] /\ Agrees(T(p), t, tc) BY <1>1, TopType
<1>4. tc[t].s \in States /\ DOMAIN tc[t] = {"s", "n", "r"} /\ DOMAIN T(p) = {"s", "n", "r"}
  BY <1>3 DEF StoredInv, Agrees, NewTxn
<1>5. "advance" \in AdvancePcs \ (AbortingPcs \cup ApplyingPcs \cup KeyPcs)
  BY DEF AdvancePcs, AbortingPcs, ApplyingPcs, KeyPcs
<1>6. tc[t].s \in {"aborting", "aborted"}
  BY <1>1, <1>2, <1>3, AdvanceTop DEF AdvanceFits, Later
<1>7. PICK c : c = [tc[t] EXCEPT !.s = "aborted"] OBVIOUS
<1>8. tc' = [tc EXCEPT ![t] = c] BY <1>7 DEF setAborted
<1>9. DOMAIN c = DOMAIN NewTxn /\ c.s = "aborted" /\ c.n = tc[t].n BY <1>4, <1>7 DEF NewTxn
<1>10. "aborted" \in States /\ "aborted" \in Later(tc[t].s) BY <1>6 DEF States, Later
<1>11. Moves /\ tc'[t].s \in Later("aborted") BY <1>1, <1>6, <1>8, <1>9, <1>10, Decides
<1>12. PICK m : m = [T(p) EXCEPT !.s = "aborted"] OBVIOUS
<1>13. DOMAIN m = DOMAIN T(p) /\ m.s = "aborted" BY <1>4, <1>12
<1>14. SetCopy(p, m) /\ To(p, "advance") BY <1>12 DEF setAborted
<1>15. Agrees(m, t, tc') BY <1>1, <1>10, <1>11, <1>13, Outcome
<1>16. StoredInv' BY <1>1, <1>11, StoredKept
<1>17. FlusherInv' BY <1>1, <1>2, <1>5, <1>11, <1>14, <1>15, JumpsTo
<1> QED BY <1>11, <1>16, <1>17

\* checkpoint decides to apply what is still prepared.
LEMMA CheckpointStep ==
    ASSUME StoredInv, FlusherInv, NEW p \in Runners, ops' = ops, pending' = pending, checkpoint(p)
    PROVE  Moves /\ FlusherInv' /\ StoredInv'
<1> DEFINE t == Id(p)
<1>1. stack[p] # <<>> /\ Top(p).pc = "setApplying" /\ doc' = doc /\ stash' = stash
  BY DEF checkpoint, At
<1>2. Top(p).pc \in AdvancePcs BY <1>1 DEF AdvancePcs
<1>3. t \in Txns /\ Agrees(T(p), t, tc) BY <1>1, TopType
<1>4. tc[t].s \in States /\ DOMAIN tc[t] = {"s", "n", "r"} /\ DOMAIN T(p) = {"s", "n", "r"}
  BY <1>3 DEF StoredInv, Agrees, NewTxn
<1>5. {"advance", "lostApplying"} \subseteq AdvancePcs \ (AbortingPcs \cup ApplyingPcs \cup KeyPcs)
  BY DEF AdvancePcs, AbortingPcs, ApplyingPcs, KeyPcs
<1>6. CASE tc[t].s = "prepared"
  <2>1. PICK c : c = [tc[t] EXCEPT !.s = "applying", !.r = Top(p).revnos] OBVIOUS
  <2>2. tc' = [tc EXCEPT ![t] = c] BY <1>6, <2>1 DEF checkpoint
  <2>3. DOMAIN c = DOMAIN NewTxn /\ c.s = "applying" /\ c.n = tc[t].n
    BY <2>1, <1>4 DEF NewTxn
  <2>4. "applying" \in States /\ "applying" \in Later("prepared") BY DEF States, Later
  <2>5. Moves /\ tc'[t].s \in Later("applying") BY <1>1, <1>6, <2>2, <2>3, <2>4, Decides
  <2>6. PICK m : m = [T(p) EXCEPT !.s = "applying", !.r = Top(p).revnos] OBVIOUS
  <2>7. DOMAIN m = DOMAIN T(p) /\ m.s = "applying" BY <2>6, <1>4
  <2>8. SetCopy(p, m) /\ To(p, "advance") BY <1>6, <2>6 DEF checkpoint
  <2>9. Agrees(m, t, tc') BY <1>1, <2>4, <2>5, <2>7, Outcome
  <2>10. StoredInv' BY <1>1, <2>5, StoredKept
  <2> QED BY <1>1, <1>2, <1>5, <2>5, <2>8, <2>9, <2>10, JumpsTo
<1>7. CASE tc[t].s # "prepared"
  <2>1. tc' = tc /\ copy' = copy /\ To(p, "lostApplying") BY <1>7 DEF checkpoint
  <2>2. Moves BY <2>1, NothingMoves
  <2>3. StoredInv' BY <1>1, <2>2, StoredKept
  <2> QED BY <1>1, <1>2, <1>5, <2>1, <2>2, <2>3, JumpsTo
<1> QED BY <1>6, <1>7

-----------------------------------------------------------------------------
(* The application.                                                        *)

\* The operation that is applied next, or the end of apply.
LEMMA ApplyingType ==
    ASSUME StoredInv, NEW p, Id(p) \in Txns, NEW fr, DOMAIN fr = AdvanceFields,
           fr.k \in Nat \ {0}, NEW k \in Nat \ {0}
    PROVE  /\ DOMAIN Applying(p, fr, k) = AdvanceFields /\ Applying(p, fr, k).h = fr.h
           /\ Applying(p, fr, k).pc \in ApplyingPcs /\ Applying(p, fr, k).k \in Nat \ {0}
<1>1. PICK t : t = ops[Id(p)] OBVIOUS
<1>2. Len(t) \in Nat /\ \A i \in 1..Len(t) : t[i] \in Op
  <2>1. t \in Seq(Op) BY <1>1 DEF StoredInv
  <2> QED BY <2>1
<1>3. PICK left : left = {i \in k..Len(t) : isChange(t[i]) /\ (t[i].kind = "insert") = (T(p).r[i] < 0)}
  OBVIOUS
<1>4. PICK j : j = CHOOSE i \in left : \A m \in left : i <= m OBVIOUS
<1>5. Applying(p, fr, k) = IF left = {} THEN [fr EXCEPT !.pc = "setApplied"]
                                        ELSE [fr EXCEPT !.k = j, !.pc = t[j].kind]
  BY <1>1, <1>3, <1>4 DEF Applying
<1>6. CASE left = {}
  <2>1. Applying(p, fr, k) = [fr EXCEPT !.pc = "setApplied"] BY <1>5, <1>6
  <2> QED BY <2>1 DEF AdvanceFields, ApplyingPcs
<1>7. CASE left # {}
  <2>1. left \in SUBSET Nat /\ left \subseteq (1..Len(t)) \ {0} BY <1>2, <1>3
  <2>2. \E m \in left : \A i \in left : m <= i BY <1>7, <2>1, Least
  <2>3. j \in left BY <1>4, <2>2
  <2>4. t[j] \in Op /\ t[j].kind # "assert" BY <1>2, <1>3, <2>1, <2>3 DEF isChange
  <2>5. t[j].kind \in {"update", "insert", "remove"} BY <2>4 DEF Op
  <2>6. Applying(p, fr, k) = [fr EXCEPT !.k = j, !.pc = t[j].kind] BY <1>5, <1>7
  <2>7. j \in Nat \ {0} BY <2>1, <2>3, <1>2
  <2> QED BY <2>5, <2>6, <2>7 DEF AdvanceFields, ApplyingPcs
<1> QED BY <1>6, <1>7

\* apply goes on with the next operation or with the next step of this one.
LEMMA AppliesOn ==
    ASSUME StoredInv, FlusherInv, NEW p \in Runners, ops' = ops, pending' = pending,
           tc' = tc, copy' = copy, stack[p] # <<>>, Top(p).pc \in ApplyingPcs
    PROVE  /\ NextOp(p) => FlusherInv'
           /\ \A pc \in ApplyingPcs :
                 /\ To(p, pc) => FlusherInv'
                 /\ \A q : Goto(p, [Top(p) EXCEPT !.pc = pc, !.q = q]) => FlusherInv'
                 /\ \A b : Goto(p, [Top(p) EXCEPT !.pc = pc, !.stashed = b]) => FlusherInv'
<1>1. /\ Top(p).pc \in AdvancePcs
      /\ ApplyingPcs \subseteq AdvancePcs \ (AbortingPcs \cup KeyPcs)
  BY DEF AdvancePcs, AbortingPcs, ApplyingPcs, KeyPcs
<1>2. DOMAIN Top(p) = AdvanceFields /\ Top(p).k \in Nat \ {0}
  BY <1>1, AdvanceTop DEF AdvanceFits
<1>3. Moves BY NothingMoves
<1>4. ASSUME NEW x, Goto(p, x), DOMAIN x = AdvanceFields, x.h = Top(p).h,
             x.pc \in ApplyingPcs, x.k \in Nat \ {0}
      PROVE  FlusherInv'
  BY <1>1, <1>3, <1>4, Advances
<1>5. ASSUME NextOp(p) PROVE FlusherInv'
  <2>1. PICK x : x = Applying(p, Top(p), Top(p).k + 1) OBVIOUS
  <2>2. Id(p) \in Txns /\ Top(p).k + 1 \in Nat \ {0} BY <1>2, TopType
  <2>3. DOMAIN x = AdvanceFields /\ x.h = Top(p).h /\ x.pc \in ApplyingPcs /\ x.k \in Nat \ {0}
    BY <1>2, <2>1, <2>2, ApplyingType
  <2>4. Goto(p, x) BY <1>5, <2>1 DEF NextOp
  <2> QED BY <1>4, <2>3, <2>4
<1>6. ASSUME NEW pc \in ApplyingPcs, NEW x, Goto(p, x), NEW v,
             \/ x = [Top(p) EXCEPT !.pc = pc]
             \/ x = [Top(p) EXCEPT !.pc = pc, !.q = v]
             \/ x = [Top(p) EXCEPT !.pc = pc, !.stashed = v]
      PROVE  FlusherInv'
  <2>1. DOMAIN x = AdvanceFields /\ x.h = Top(p).h /\ x.pc = pc /\ x.k = Top(p).k
    BY <1>2, <1>6 DEF AdvanceFields
  <2> QED BY <1>2, <1>4, <1>6, <2>1
<1>7. ASSUME NEW pc \in ApplyingPcs
      PROVE  /\ To(p, pc) => FlusherInv'
             /\ \A q : Goto(p, [Top(p) EXCEPT !.pc = pc, !.q = q]) => FlusherInv'
             /\ \A b : Goto(p, [Top(p) EXCEPT !.pc = pc, !.stashed = b]) => FlusherInv'
  <2>1. To(p, pc) => FlusherInv' BY <1>6 DEF To
  <2>2. ASSUME NEW q, Goto(p, [Top(p) EXCEPT !.pc = pc, !.q = q]) PROVE FlusherInv'
    BY <1>6, <2>2
  <2>3. ASSUME NEW b, Goto(p, [Top(p) EXCEPT !.pc = pc, !.stashed = b]) PROVE FlusherInv'
    BY <1>6, <2>3
  <2> QED BY <2>1, <2>2, <2>3
<1> QED BY <1>5, <1>7

\* The operations change neither the transactions nor the copies of them.
LEMMA ApplyGoesOn ==
    ASSUME StoredInv, FlusherInv, NEW p \in Runners, ops' = ops, pending' = pending,
           \/ applyUpdate(p) \/ removeStash(p) \/ removeMark(p) \/ removeSave(p) \/ removeDoc(p)
           \/ insertMark(p) \/ insertDoc(p) \/ insertUnstash(p) \/ insertPull(p)
    PROVE  tc' = tc /\ FlusherInv'
<1>1. stack[p] # <<>> /\ Top(p).pc \in ApplyingPcs
  BY DEF applyUpdate, removeStash, removeMark, removeSave, removeDoc, insertMark, insertDoc,
         insertUnstash, insertPull, At, ApplyingPcs
<1>2. tc' = tc /\ copy' = copy
  BY DEF applyUpdate, removeStash, removeMark, removeSave, removeDoc, insertMark, insertDoc,
         insertUnstash, insertPull
<1>3. {"removeMark", "removeDoc", "removeSave", "insertDoc", "insertUnstash", "insertPull"}
        \subseteq ApplyingPcs
  BY DEF ApplyingPcs
<1>4. NextOp(p) => FlusherInv' BY <1>1, <1>2, AppliesOn
<1>5. ASSUME NEW pc \in ApplyingPcs
      PROVE  /\ To(p, pc) => FlusherInv'
             /\ \A q : Goto(p, [Top(p) EXCEPT !.pc = pc, !.q = q]) => FlusherInv'
             /\ \A b : Goto(p, [Top(p) EXCEPT !.pc = pc, !.stashed = b]) => FlusherInv'
  BY <1>1, <1>2, <1>5, AppliesOn
<1>6. CASE applyUpdate(p) BY <1>6, <1>4 DEF applyUpdate
<1>7. CASE removeStash(p) BY <1>7, <1>3, <1>5 DEF removeStash
<1>8. CASE removeMark(p)
  <2>1. CASE NextOp(p) BY <2>1, <1>2, <1>4
  <2>2. CASE ~NextOp(p)
    <3>1. PICK pc : pc = IF Top(p).stashed THEN "removeDoc" ELSE "removeSave" OBVIOUS
    <3>2. PICK q : q = doc[Oper(p).d].q OBVIOUS
    <3>3. Goto(p, [Top(p) EXCEPT !.q = q, !.pc = pc]) BY <1>8, <2>2, <3>1, <3>2 DEF removeMark
    <3>4. [Top(p) EXCEPT !.q = q, !.pc = pc] = [Top(p) EXCEPT !.pc = pc, !.q = q] OBVIOUS
    <3>5. Goto(p, [Top(p) EXCEPT !.pc = pc, !.q = q]) BY <3>3, <3>4
    <3>6. pc \in {"removeDoc", "removeSave"} BY <3>1
    <3> QED BY <3>5, <3>6, <1>2, <1>3, <1>5
  <2> QED BY <2>1, <2>2
<1>9. CASE removeSave(p) BY <1>9, <1>3, <1>5 DEF removeSave
<1>10. CASE removeDoc(p) BY <1>10, <1>4 DEF removeDoc
<1>11. CASE insertMark(p)
  <2>1. CASE NextOp(p) BY <2>1, <1>2, <1>4
  <2>2. CASE ~NextOp(p)
    <3>1. \E q : Goto(p, [Top(p) EXCEPT !.pc = "insertDoc", !.q = q])
      BY <1>11, <2>2 DEF insertMark
    <3> QED BY <3>1, <1>2, <1>3, <1>5
  <2> QED BY <2>1, <2>2
<1>12. CASE insertDoc(p) BY <1>12, <1>3, <1>5 DEF insertDoc
<1>13. CASE insertUnstash(p) BY <1>13, <1>3, <1>4, <1>5 DEF insertUnstash
<1>14. CASE insertPull(p) BY <1>14, <1>4 DEF insertPull
<1> QED BY <1>2, <1>6, <1>7, <1>8, <1>9, <1>10, <1>11, <1>12, <1>13, <1>14

\* A document is marked with the transaction that is being applied, or as it was.
LEMMA ApplyStores ==
    ASSUME StoredInv, FlusherInv, NEW p \in Runners, ops' = ops, tc' = tc,
           \/ applyUpdate(p) \/ removeStash(p) \/ removeMark(p) \/ removeSave(p) \/ removeDoc(p)
           \/ insertMark(p) \/ insertDoc(p) \/ insertUnstash(p) \/ insertPull(p)
    PROVE  StoredInv'
<1> DEFINE d == Oper(p).d
           Docy(x) == DOMAIN x = DOMAIN NoDoc /\ x.rm \in Txns \cup {None}
           Stashy(y) == DOMAIN y = DOMAIN NoStash /\ y.ins \in Txns \cup {None}
<1>1. stack[p] # <<>>
  BY DEF applyUpdate, removeStash, removeMark, removeSave, removeDoc, insertMark, insertDoc,
         insertUnstash, insertPull, At
<1>2. Moves BY NothingMoves
<1>3. Id(p) \in Txns BY <1>1, TopType
<1>4. d \in Docs => Docy(doc[d]) /\ Stashy(stash[d]) BY DEF StoredInv
<1>5. ASSUME NEW x, doc' = [doc EXCEPT ![d] = x], d \in Docs => Docy(x), stash' = stash
      PROVE  StoredInv'
  BY <1>2, <1>5, StoredKept
<1>6. ASSUME NEW y, stash' = [stash EXCEPT ![d] = y], d \in Docs => Stashy(y), doc' = doc
      PROVE  StoredInv'
  BY <1>2, <1>6, StoredKept
<1>7. ASSUME doc' = doc, stash' = stash PROVE StoredInv' BY <1>2, <1>7, StoredKept
<1>8. CASE applyUpdate(p)
  <2>1. CASE doc' = doc BY <2>1, <1>7, <1>8 DEF applyUpdate
  <2>2. CASE doc' # doc
    <3>1. PICK x : x = [doc[d] EXCEPT !.val = @ + Oper(p).n, !.revno = @ + 1, !.q = PullAll(@, ToPull(p))]
      OBVIOUS
    <3>2. doc' = [doc EXCEPT ![d] = x]
      <4>1. doc' = [doc EXCEPT ![d].val = @ + Oper(p).n, ![d].revno = @ + 1, ![d].q = PullAll(@, ToPull(p))]
        BY <1>8, <2>2 DEF applyUpdate
      <4> QED BY <3>1, <4>1 DEF StoredInv, NoDoc
    <3>3. stash' = stash BY <1>8 DEF applyUpdate
    <3>4. d \in Docs => Docy(x) BY <1>4, <3>1 DEF NoDoc
    <3> HIDE DEF d
    <3> QED BY <1>5, <3>2, <3>3, <3>4
  <2> QED BY <2>1, <2>2
<1>9. CASE removeStash(p)
  <2>1. PICK y : y = [Upserted(d) EXCEPT !.n = Upserted(d).n \cup {p}] OBVIOUS
  <2>2. stash' = [stash EXCEPT ![d] = y] /\ doc' = doc BY <1>9, <2>1 DEF removeStash
  <2>3. d \in Docs => Stashy(y) BY <2>1, UpsertedType DEF NoStash
  <2> HIDE DEF d
  <2> QED BY <1>6, <2>2, <2>3
<1>10. CASE removeMark(p)
  <2>1. CASE doc' = doc BY <2>1, <1>7, <1>10 DEF removeMark
  <2>2. CASE doc' # doc
    <3>1. PICK x : x = [doc[d] EXCEPT !.rm = Id(p)] OBVIOUS
    <3>2. doc' = [doc EXCEPT ![d] = x] /\ stash' = stash BY <1>10, <2>2, <3>1 DEF removeMark
    <3>3. d \in Docs => Docy(x) BY <1>3, <1>4, <3>1 DEF NoDoc
    <3> HIDE DEF d
    <3> QED BY <1>5, <3>2, <3>3
  <2> QED BY <2>1, <2>2
<1>11. CASE removeSave(p)
  <2>1. CASE stash' = stash BY <2>1, <1>7, <1>11 DEF removeSave
  <2>2. CASE stash' # stash
    <3>1. PICK y : y = [stash[d] EXCEPT !.q = Top(p).q, !.n = {},
                                        !.revno = IF Revno(p) = 0 THEN 0 ELSE -Revno(p) - 1]
      OBVIOUS
    <3>2. stash' = [stash EXCEPT ![d] = y] /\ doc' = doc BY <1>11, <2>2, <3>1 DEF removeSave
    <3>3. d \in Docs => Stashy(y) BY <1>4, <3>1 DEF NoStash
    <3> HIDE DEF d
    <3> QED BY <1>6, <3>2, <3>3
  <2> QED BY <2>1, <2>2
<1>12. CASE removeDoc(p)
  <2>1. CASE doc' = doc BY <2>1, <1>7, <1>12 DEF removeDoc
  <2>2. CASE doc' # doc
    <3>1. doc' = [doc EXCEPT ![d] = NoDoc] /\ stash' = stash BY <1>12, <2>2 DEF removeDoc
    <3>2. Docy(NoDoc) BY DEF NoDoc
    <3> HIDE DEF d
    <3> QED BY <1>5, <3>1, <3>2
  <2> QED BY <2>1, <2>2
<1>13. CASE insertMark(p)
  <2>1. CASE stash' = stash BY <2>1, <1>7, <1>13 DEF insertMark
  <2>2. CASE stash' # stash
    <3>1. PICK y : y = [stash[d] EXCEPT !.ins = Id(p)] OBVIOUS
    <3>2. stash' = [stash EXCEPT ![d] = y] /\ doc' = doc BY <1>13, <2>2, <3>1 DEF insertMark
    <3>3. d \in Docs => Stashy(y) BY <1>3, <1>4, <3>1 DEF NoStash
    <3> HIDE DEF d
    <3> QED BY <1>6, <3>2, <3>3
  <2> QED BY <2>1, <2>2
<1>14. CASE insertDoc(p)
  <2>1. CASE doc' = doc BY <2>1, <1>7, <1>14 DEF insertDoc
  <2>2. CASE doc' # doc
    <3>1. PICK x : x = [here |-> TRUE, val |-> Oper(p).n, rm |-> None,
                        revno |-> -Revno(p) + 1, q |-> Top(p).q]
      OBVIOUS
    <3>2. doc' = [doc EXCEPT ![d] = x] /\ stash' = stash BY <1>14, <2>2, <3>1 DEF insertDoc
    <3>3. Docy(x) BY <3>1 DEF NoDoc
    <3> HIDE DEF d
    <3> QED BY <1>5, <3>2, <3>3
  <2> QED BY <2>1, <2>2
<1>15. CASE insertUnstash(p)
  <2>1. CASE stash' = stash BY <2>1, <1>7, <1>15 DEF insertUnstash
  <2>2. CASE stash' # stash
    <3>1. stash' = [stash EXCEPT ![d] = NoStash] /\ doc' = doc BY <1>15, <2>2 DEF insertUnstash
    <3>2. Stashy(NoStash) BY DEF NoStash
    <3> HIDE DEF d
    <3> QED BY <1>6, <3>1, <3>2
  <2> QED BY <2>1, <2>2
<1>16. CASE insertPull(p)
  <2>1. PICK y : y = [stash[d] EXCEPT !.q = PullAll(@, ToPull(p))] OBVIOUS
  <2>2. stash' = [stash EXCEPT ![d] = y] /\ doc' = doc BY <1>16, <2>1 DEF insertPull
  <2>3. d \in Docs => Stashy(y) BY <1>4, <2>1 DEF NoStash
  <2> HIDE DEF d
  <2> QED BY <1>6, <2>2, <2>3
<1> QED BY <1>8, <1>9, <1>10, <1>11, <1>12, <1>13, <1>14, <1>15, <1>16

\* apply ends with the state applied, if nobody else was first.
LEMMA SetAppliedStep ==
    ASSUME StoredInv, FlusherInv, NEW p \in Runners, ops' = ops, pending' = pending, setApplied(p)
    PROVE  Moves /\ FlusherInv' /\ StoredInv'
<1> DEFINE t == Id(p)
<1>1. stack[p] # <<>> /\ Top(p).pc \in ApplyingPcs /\ doc' = doc /\ stash' = stash
  BY DEF setApplied, At, ApplyingPcs
<1>2. Top(p).pc \in AdvancePcs BY <1>1 DEF AdvancePcs
<1>3. t \in Txns /\ t = Top(p).h[1] /\ Agrees(T(p), t, tc) BY <1>1, TopType
<1>4. tc[t].s \in States /\ DOMAIN tc[t] = {"s", "n", "r"} /\ DOMAIN T(p) = {"s", "n", "r"}
  BY <1>3 DEF StoredInv, Agrees, NewTxn
<1>5. "advance" \in AdvancePcs \ (AbortingPcs \cup ApplyingPcs \cup KeyPcs)
  BY DEF AdvancePcs, AbortingPcs, ApplyingPcs, KeyPcs
<1>6. tc[t].s \in {"applying", "applied"}
  BY <1>1, <1>2, <1>3, AdvanceTop DEF AdvanceFits, Later
<1>7. PICK m : m = [T(p) EXCEPT !.s = "applied"] OBVIOUS
<1>8. DOMAIN m = DOMAIN T(p) /\ m.s = "applied" BY <1>4, <1>7
<1>9. SetCopy(p, m) /\ To(p, "advance") BY <1>7 DEF setApplied
<1>10. "applied" \in States /\ "applied" \in Later(tc[t].s) BY <1>6 DEF States, Later
<1>11. Moves /\ tc'[t].s \in Later("applied")
  <2>1. CASE tc' # tc
    <3>1. PICK c : c = [tc[t] EXCEPT !.s = "applied"] OBVIOUS
    <3>2. tc' = [tc EXCEPT ![t] = c] BY <2>1, <3>1 DEF setApplied
    <3>3. DOMAIN c = DOMAIN NewTxn /\ c.s = "applied" /\ c.n = tc[t].n /\ c.r = tc[t].r
      BY <1>4, <3>1 DEF NewTxn
    <3> QED BY <1>1, <1>10, <3>2, <3>3, Decides
  <2>2. CASE tc' = tc BY <1>6, <2>2, NothingMoves DEF Later
  <2> QED BY <2>1, <2>2
<1>12. Agrees(m, t, tc') BY <1>1, <1>10, <1>11, <1>8, Outcome
<1>13. StoredInv' BY <1>1, <1>11, StoredKept
<1>14. FlusherInv' BY <1>1, <1>2, <1>5, <1>9, <1>11, <1>12, JumpsTo
<1> QED BY <1>11, <1>13, <1>14

-----------------------------------------------------------------------------
(* The steps of a flusher alone: the calls of advance and of recurse.      *)

\* A call of advance as it starts, or starts over.
LEMMA StartsOver ==
    ASSUME StoredInv, FlusherInv, NEW p \in Runners, ops' = ops, pending' = pending,
           tc' = tc, copy' = copy, stack[p] # <<>>, Top(p).pc \in AdvancePcs,
           NEW pc \in {"prepare", "setPrepared", "rescan", "rescanned"}, NEW tt,
           pc \in {"prepare", "rescan"} => docKeys(Id(p)) # <<>>,
           Goto(p, [AdvanceFrame(Top(p).h, Top(p).pull, Top(p).force) EXCEPT !.pc = pc, !.tt = tt])
    PROVE  FlusherInv'
<1>1. PICK x : x = [AdvanceFrame(Top(p).h, Top(p).pull, Top(p).force) EXCEPT !.pc = pc, !.tt = tt]
  OBVIOUS
<1>2. DOMAIN x = AdvanceFields /\ x.h = Top(p).h /\ x.pc = pc /\ x.k = 1
  BY <1>1 DEF AdvanceFrame, AdvanceFields
<1>3. ops[Id(p)] \in Seq(Op) BY TopType DEF StoredInv
<1>4. docKeys(Id(p)) # <<>> => x.k \in 1..Len(docKeys(Id(p)))
  <2>1. PICK ks : ks = docKeys(Id(p)) OBVIOUS
  <2>2. Len(ks) \in Nat /\ ks \in [1..Len(ks) -> Docs] BY <1>3, <2>1, KeysType DEF docKeys
  <2>3. ks # <<>> => Len(ks) # 0
    <3>1. ks \in Seq(Docs) BY <2>2, SeqDef
    <3> QED BY <3>1, EmptySeq
  <2> QED BY <1>2, <2>1, <2>2, <2>3
<1>5. /\ {"prepare", "setPrepared", "rescan", "rescanned"}
            \subseteq AdvancePcs \ (AbortingPcs \cup ApplyingPcs)
      /\ "setPrepared" \notin KeyPcs /\ "rescanned" \notin KeyPcs
  BY DEF AdvancePcs, AbortingPcs, ApplyingPcs, KeyPcs
<1>6. Moves BY NothingMoves
<1> QED BY <1>1, <1>2, <1>4, <1>5, <1>6, Advances

\* prepare and rescan end: blocked, to be tested, or to be read again.
LEMMA CollectedStep ==
    ASSUME StoredInv, FlusherInv, NEW p \in Runners, ops' = ops, pending' = pending, tc' = tc,
           collected(p)
    PROVE  FlusherInv'
<1>1. stack[p] # <<>> /\ Top(p).pc \in AdvancePcs /\ Top(p).pc \notin RunPcs
  BY DEF collected, At, AdvancePcs, RunPcs
<1>2. copy' = copy BY DEF collected
<1>3. Moves BY NothingMoves
<1>4. CASE Return(p, "preReqs")
  <2>1. copy' = [copy EXCEPT ![p] = copy[p]] /\ CopiesFit(copy[p], tc') BY <1>2, <1>3, CopyKept
  <2> QED BY <1>1, <1>3, <1>4, <2>1, Returns
<1>5. CASE Goto(p, Tested(p, [Top(p) EXCEPT !.revnos = Revnos(Id(p), Top(p).revno)], 1))
  <2>1. PICK fr : fr = [Top(p) EXCEPT !.revnos = Revnos(Id(p), Top(p).revno)] OBVIOUS
  <2>2. DOMAIN fr = AdvanceFields /\ fr.h = Top(p).h
    BY <1>1, <2>1, AdvanceTop DEF AdvanceFields
  <2>3. PICK x : x = Tested(p, fr, 1) OBVIOUS
  <2>4. /\ DOMAIN x = AdvanceFields /\ x.h = Top(p).h
        /\ x.pc \in {"setApplying", "setAborting", "assertDoc"}
    BY <2>2, <2>3, TestedType
  <2>5. {"setApplying", "setAborting", "assertDoc"} \subseteq
          AdvancePcs \ (AbortingPcs \cup ApplyingPcs \cup KeyPcs)
    BY DEF AdvancePcs, AbortingPcs, ApplyingPcs, KeyPcs
  <2>6. Goto(p, x) BY <1>5, <2>1, <2>3
  <2> QED BY <1>1, <1>2, <1>3, <2>4, <2>5, <2>6, Advances
<1>6. CASE Goto(p, [AdvanceFrame(Top(p).h, Top(p).pull, Top(p).force)
                      EXCEPT !.pc = "rescan", !.tt = Top(p).tt])
           /\ docKeys(Id(p)) # <<>>
  BY <1>1, <1>2, <1>6, StartsOver
<1>7. ~found(queue[p], Top(p).tt, ToSet(docKeys(Id(p)))) => docKeys(Id(p)) # <<>>
  BY DEF found, ToSet
<1> QED BY <1>4, <1>5, <1>6, <1>7 DEF collected

\* advance looks at the state and does what it needs.
LEMMA AdvanceStep ==
    ASSUME StoredInv, FlusherInv, NEW p \in Runners, ops' = ops, pending' = pending, tc' = tc,
           advance(p)
    PROVE  FlusherInv'
<1> DEFINE t == T(p)
<1>1. stack[p] # <<>> /\ Top(p).pc \in AdvancePcs /\ Top(p).pc \notin RunPcs
  BY DEF advance, At, AdvancePcs, RunPcs
<1>2. Moves BY NothingMoves
<1>3. Id(p) \in Txns /\ Agrees(t, Id(p), tc) BY <1>1, TopType
<1>4. ASSUME NEW err, Return(p, err), copy' = copy PROVE FlusherInv'
  <2>1. copy' = [copy EXCEPT ![p] = copy[p]] /\ CopiesFit(copy[p], tc') BY <1>2, <1>4, CopyKept
  <2> QED BY <1>1, <1>2, <1>4, <2>1, Returns
<1>5. CASE t.s = "preparing"
  <2>1. PICK pc, tt : /\ Goto(p, [AdvanceFrame(Top(p).h, Top(p).pull, Top(p).force)
                                     EXCEPT !.pc = pc, !.tt = tt])
                      /\ pc = FirstKey(p, "prepare", "setPrepared")
    BY <1>5 DEF advance, done
  <2>2. copy' = copy BY <1>5 DEF advance, done
  <2> QED BY <1>1, <2>1, <2>2, StartsOver DEF FirstKey
<1>6. CASE t.s = "prepared"
  <2>1. copy' = copy BY <1>6 DEF advance, done
  <2>2. \/ Return(p, "preReqs")
        \/ \E pc, tt : /\ Goto(p, [AdvanceFrame(Top(p).h, Top(p).pull, Top(p).force)
                                      EXCEPT !.pc = pc, !.tt = tt])
                        /\ pc = FirstKey(p, "rescan", "rescanned")
    BY <1>6 DEF advance, done
  <2> QED BY <1>1, <1>4, <2>1, <2>2, StartsOver DEF FirstKey
<1>7. CASE t.s = "applying"
  <2>1. PICK tt : Goto(p, Applying(p, [AdvanceFrame(Top(p).h, Top(p).pull, Top(p).force)
                                         EXCEPT !.tt = tt], 1))
    BY <1>7 DEF advance, done
  <2>2. copy' = copy BY <1>7 DEF advance, done
  <2>3. PICK fr : fr = [AdvanceFrame(Top(p).h, Top(p).pull, Top(p).force) EXCEPT !.tt = tt]
    OBVIOUS
  <2>4. DOMAIN fr = AdvanceFields /\ fr.h = Top(p).h /\ fr.k \in Nat \ {0}
    BY <2>3 DEF AdvanceFrame, AdvanceFields
  <2>5. PICK x : x = Applying(p, fr, 1) OBVIOUS
  <2>6. DOMAIN x = AdvanceFields /\ x.h = Top(p).h /\ x.pc \in ApplyingPcs /\ x.k \in Nat \ {0}
    BY <1>3, <2>4, <2>5, ApplyingType
  <2>7. ApplyingPcs \subseteq AdvancePcs \ (AbortingPcs \cup KeyPcs)
    BY DEF AdvancePcs, AbortingPcs, ApplyingPcs, KeyPcs
  <2>8. tc'[Id(p)].s \in Later("applying") BY <1>3, <1>7 DEF Agrees
  <2>9. Goto(p, x) BY <2>1, <2>3, <2>5
  <2> QED BY <1>1, <1>2, <2>2, <2>6, <2>7, <2>8, <2>9, Advances
<1>8. CASE t.s = "aborting"
  <2>1. To(p, "setAborted") /\ copy' = copy BY <1>8 DEF advance, done
  <2>2. "setAborted" \in AdvancePcs \ (ApplyingPcs \cup KeyPcs)
    BY DEF AdvancePcs, AbortingPcs, ApplyingPcs, KeyPcs
  <2>3. tc'[Id(p)].s \in Later("aborting") BY <1>3, <1>8 DEF Agrees
  <2> QED BY <1>1, <1>2, <2>1, <2>2, <2>3, JumpsTo
<1>9. CASE done(t)
  <2>1. PICK c : c = IF Top(p).h[2] = 0 THEN copy[p]
                     ELSE Restrict(copy[p], DOMAIN copy[p] \ {Top(p).h})
    OBVIOUS
  <2>2. Return(p, "ok") /\ copy' = [copy EXCEPT ![p] = c] BY <1>9, <2>1 DEF advance, done, FlusherInv
  <2>3. /\ \/ DOMAIN c = DOMAIN copy[p]
           \/ Top(p).h[2] # 0 /\ DOMAIN c = DOMAIN copy[p] \ {Top(p).h}
        /\ DOMAIN c \subseteq DOMAIN copy[p] /\ \A h \in DOMAIN c : c[h] = copy[p][h]
    BY <2>1 DEF Restrict
  <2>4. CopiesFit(copy[p], tc') BY <1>2, CopiesKept DEF FlusherInv
  <2>5. CopiesFit(c, tc') BY <2>3, <2>4 DEF CopiesFit
  <2> QED BY <1>1, <1>2, <2>2, <2>3, <2>5, Returns
<1> QED BY <1>5, <1>6, <1>7, <1>8, <1>9 DEF advance

RecurseFields == {"pc", "h", "err", "k", "toks", "next"}

\* A call of recurse is at a transaction of the flush.
LEMMA RecurseTop ==
    ASSUME FlusherInv, NEW p \in Runners, stack[p] # <<>>, Top(p).pc \in RecursePcs
    PROVE  /\ Len(stack[p]) - 1 # 0 /\ Len(stack[p]) \in Nat \ {0}
           /\ RecurseFits(Top(p)) /\ DOMAIN Top(p) = RecurseFields
           /\ Top(p).h[2] = 0
<1>1. Fits(Top(p), Len(stack[p]) - 1, DOMAIN copy[p], tc) /\ Len(stack[p]) \in Nat \ {0} BY StackType
<1>2. ~RunFits(Top(p), DOMAIN copy[p]) /\ ~AdvanceFits(Top(p), tc)
  BY DEF AdvancePcs, KeyPcs, AbortingPcs, ApplyingPcs, RunFits, RunPcs, AdvanceFits, RecursePcs
<1>3. RecurseFits(Top(p)) BY <1>1, <1>2 DEF Fits
<1>4. DOMAIN Top(p) = RecurseFields BY <1>3 DEF RecurseFits, RecurseFrame, RecurseFields
<1> QED BY <1>1, <1>2, <1>3, <1>4 DEF Fits, RecurseFits

\* A call of recurse at another place.
LEMMA RecurseAt ==
    ASSUME FlusherInv, NEW p \in Runners, stack[p] # <<>>, Top(p).pc \in RecursePcs,
           NEW x, DOMAIN x = RecurseFields, x.h = Top(p).h, x.pc \in RecursePcs,
           x.pc = "load" => x.next \in Txns, NEW hs, DOMAIN copy[p] \subseteq hs, NEW log
    PROVE  Fits(x, Len(stack[p]) - 1, hs, log)
<1>1. RecurseFits(x) BY RecurseTop DEF RecurseFits, RecurseFrame, RecurseFields
<1>2. Top(p).h \in hs BY TopType
<1> QED BY <1>1, <1>2, RecurseTop DEF Fits

\* A new call of recurse or of advance for a transaction there is a copy of.
LEMMA NewCalls ==
    ASSUME NEW hs, NEW h \in hs, h[2] = 0, NEW depth, depth # 0, NEW log
    PROVE  /\ Fits(RecurseFrame(h), depth, hs, log)
           /\ \A pull, force : Fits(AdvanceFrame(h, pull, force), depth, hs, log)
<1>1. RecurseFits(RecurseFrame(h)) BY DEF RecurseFits, RecurseFrame, RecursePcs
<1>2. ASSUME NEW pull, NEW force PROVE AdvanceFits(AdvanceFrame(h, pull, force), log)
  <2>1. "advance" \in AdvancePcs \ (AbortingPcs \cup ApplyingPcs \cup KeyPcs)
    BY DEF AdvancePcs, AbortingPcs, ApplyingPcs, KeyPcs
  <2>2. PICK x : x = AdvanceFrame(h, pull, force) OBVIOUS
  <2>3. x.pc = "advance" /\ x.h = h /\ DOMAIN x = DOMAIN AdvanceFrame(x.h, x.pull, x.force)
    BY <2>2 DEF AdvanceFrame
  <2> QED BY <2>1, <2>2, <2>3 DEF AdvanceFits
<1>3. RecurseFrame(h).h = h /\ \A pull, force : AdvanceFrame(h, pull, force).h = h
  BY DEF RecurseFrame, AdvanceFrame
<1> QED BY <1>1, <1>2, <1>3 DEF Fits

\* recurse: the transactions that must go first are looked for.
LEMMA RecurseStep ==
    ASSUME StoredInv, FlusherInv, NEW p \in Runners, ops' = ops, pending' = pending, tc' = tc,
           recurse(p)
    PROVE  FlusherInv'
<1>1. stack[p] # <<>> /\ Top(p).pc \in RecursePcs /\ Top(p).pc \notin RunPcs
  BY DEF recurse, At, RecursePcs, RunPcs
<1>2. Moves BY NothingMoves
<1>3. copy' = copy BY DEF recurse
<1>4. copy' = [copy EXCEPT ![p] = copy[p]] /\ CopiesFit(copy[p], tc') BY <1>2, <1>3, CopyKept
<1>5. DOMAIN Top(p) = RecurseFields BY <1>1, RecurseTop
<1>6. {"recurse", "advanced", "scan", "load"} = RecursePcs BY DEF RecursePcs
<1>7. ASSUME NEW x, Goto(p, x), DOMAIN x = RecurseFields, x.h = Top(p).h, x.pc \in RecursePcs,
             x.pc = "load" => x.next \in Txns
      PROVE  FlusherInv'
  <2>1. Fits(x, Len(stack[p]) - 1, DOMAIN copy[p], tc') BY <1>1, <1>7, RecurseAt
  <2> QED BY <1>1, <1>2, <1>4, <1>7, <2>1, GoesOn
<1>8. ASSUME Return(p, "ok") PROVE FlusherInv'
  BY <1>1, <1>2, <1>4, <1>8, Returns
<1>9. CASE At(p, "recurse")
  <2>1. PICK x : x = [Top(p) EXCEPT !.pc = "advanced"] OBVIOUS
  <2>2. PICK y : y = AdvanceFrame(Top(p).h, Self(Top(p).h), FALSE) OBVIOUS
  <2>3. Call(p, x, y) BY <1>9, <2>1, <2>2 DEF recurse, At
  <2>4. DOMAIN x = RecurseFields /\ x.h = Top(p).h /\ x.pc = "advanced"
    BY <1>5, <2>1 DEF RecurseFields
  <2>5. Fits(x, Len(stack[p]) - 1, DOMAIN copy[p], tc') BY <1>1, <1>6, <2>4, RecurseAt
  <2>6. Fits(y, Len(stack[p]), DOMAIN copy[p], tc') BY <1>1, <2>2, RecurseTop, TopType, NewCalls
  <2> QED BY <1>1, <1>2, <1>4, <2>3, <2>5, <2>6, CallsOn
<1>10. CASE At(p, "advanced")
  <2>1. CASE Top(p).err # "preReqs" BY <1>8, <1>10, <2>1 DEF recurse, At
  <2>2. CASE Top(p).err = "preReqs"
    <3>1. PICK v : Goto(p, [Top(p) EXCEPT !.pc = "scan", !.toks = v])
      BY <1>10, <2>2 DEF recurse, At
    <3>2. PICK x : x = [Top(p) EXCEPT !.pc = "scan", !.toks = v] OBVIOUS
    <3>3. DOMAIN x = RecurseFields /\ x.h = Top(p).h /\ x.pc = "scan"
      BY <1>5, <3>2 DEF RecurseFields
    <3>4. Goto(p, x) BY <3>1, <3>2
    <3> QED BY <1>6, <1>7, <3>3, <3>4
  <2> QED BY <2>1, <2>2
<1>11. CASE At(p, "scan")
  <2>1. CASE Unseen(p, Top(p).toks) # {}
    <3>1. PICK i \in Unseen(p, Top(p).toks) :
            Goto(p, [Top(p) EXCEPT !.toks = SubSeq(@, i + 1, Len(@)), !.next = Top(p).toks[i][1],
                                   !.pc = "load"])
      BY <1>11, <2>1 DEF recurse, At
    <3>2. PICK x : x = [Top(p) EXCEPT !.toks = SubSeq(@, i + 1, Len(@)),
                                      !.next = Top(p).toks[i][1], !.pc = "load"]
      OBVIOUS
    <3>3. Top(p).toks[i][1] \in Txns BY <3>1 DEF Unseen
    <3>4. /\ DOMAIN x = RecurseFields /\ x.h = Top(p).h /\ x.pc = "load"
          /\ x.next = Top(p).toks[i][1]
      BY <1>5, <3>2 DEF RecurseFields
    <3>5. Goto(p, x) BY <3>1, <3>2
    <3> QED BY <1>6, <1>7, <3>3, <3>4, <3>5
  <2>2. CASE Unseen(p, Top(p).toks) = {}
    <3>1. CASE Return(p, "ok") BY <3>1, <1>8
    <3>2. CASE ~Return(p, "ok")
      <4>1. PICK v, j : Goto(p, [Top(p) EXCEPT !.k = j, !.toks = v])
        BY <1>11, <2>2, <3>2 DEF recurse, At
      <4>2. PICK x : x = [Top(p) EXCEPT !.k = j, !.toks = v] OBVIOUS
      <4>3. DOMAIN x = RecurseFields /\ x.h = Top(p).h /\ x.pc = Top(p).pc
        BY <1>5, <4>2 DEF RecurseFields
      <4>4. x.pc = "scan" BY <1>11, <4>3 DEF At
      <4>5. Goto(p, x) BY <4>1, <4>2
      <4> QED BY <1>6, <1>7, <4>3, <4>4, <4>5
    <3> QED BY <3>1, <3>2
  <2> QED BY <2>1, <2>2
<1> QED BY <1>9, <1>10, <1>11 DEF recurse

\* recurse loads one of them and recurses into it.
LEMMA LoadStep ==
    ASSUME StoredInv, FlusherInv, NEW p \in Runners, ops' = ops, pending' = pending, load(p)
    PROVE  Moves /\ FlusherInv' /\ StoredInv'
<1> DEFINE t == Top(p).next
           h == <<t, 0>>
<1>1. stack[p] # <<>> /\ Top(p).pc = "load" /\ Top(p).pc \in RecursePcs BY DEF load, At, RecursePcs
<1>2. tc' = tc /\ doc' = doc /\ stash' = stash BY DEF load, db
<1>3. Moves BY <1>2, NothingMoves
<1>4. StoredInv' BY <1>2, <1>3, StoredKept
<1>5. t \in Txns /\ DOMAIN Top(p) = RecurseFields BY <1>1, RecurseTop DEF RecurseFits
<1>6. PICK x : x = [Top(p) EXCEPT !.pc = "scan", !.next = None] OBVIOUS
<1>7. PICK y : y = RecurseFrame(h) OBVIOUS
<1>8. PICK c : c = Holding(copy[p], h, tc[t]) OBVIOUS
<1>9. Call(p, x, y) /\ copy' = [copy EXCEPT ![p] = c] BY <1>6, <1>7, <1>8 DEF load, FlusherInv
<1>10. /\ DOMAIN c = DOMAIN copy[p] \cup {h} /\ c[h] = tc[t]
       /\ \A g \in DOMAIN copy[p] : g # h => c[g] = copy[p][g]
  BY <1>8 DEF Holding
<1>11. CopiesFit(c, tc')
  <2>1. CopiesFit(copy[p], tc') BY <1>3, CopiesKept DEF FlusherInv
  <2>2. Agrees(tc[t], t, tc') BY <1>2, <1>5, LaterStates DEF Agrees, StoredInv
  <2>3. h \in Txns \X Nat /\ h[1] = t BY <1>5
  <2> QED BY <1>10, <2>1, <2>2, <2>3 DEF CopiesFit
<1>12. DOMAIN x = RecurseFields /\ x.h = Top(p).h /\ x.pc = "scan"
  BY <1>5, <1>6 DEF RecurseFields
<1>13. Fits(x, Len(stack[p]) - 1, DOMAIN c, tc')
  BY <1>1, <1>10, <1>12, RecurseAt DEF RecursePcs
<1>14. Fits(y, Len(stack[p]), DOMAIN c, tc')
  BY <1>1, <1>7, <1>10, RecurseTop, NewCalls
<1>15. FlusherInv' BY <1>1, <1>3, <1>9, <1>10, <1>11, <1>13, <1>14, CallsOn
<1> QED BY <1>3, <1>4, <1>15

-----------------------------------------------------------------------------
(* The run of a flusher.                                                   *)

RunFields == {"pc", "h", "err", "todo"}
Seen(hs) == {t \in Txns : <<t, 0>> \in hs}
IsPlan(todo, hs) ==
    /\ todo \in Seq(ToSet(todo))
    /\ \A j \in DOMAIN todo : todo[j][1] \in Seq(Seen(hs)) \ {<<>>}

\* run is the first of the calls, and what it has still to flush is a plan.
LEMMA RunTop ==
    ASSUME FlusherInv, NEW p \in Runners, stack[p] # <<>>, Top(p).pc \in RunPcs
    PROVE  /\ Len(stack[p]) = 1 /\ DOMAIN Top(p) = RunFields /\ IsPlan(Top(p).todo, DOMAIN copy[p])
           /\ Top(p).h[2] = 0
<1>1. Fits(Top(p), Len(stack[p]) - 1, DOMAIN copy[p], tc) /\ Len(stack[p]) \in Nat \ {0} BY StackType
<1>2. ~RecurseFits(Top(p)) /\ ~AdvanceFits(Top(p), tc)
  BY DEF AdvancePcs, KeyPcs, AbortingPcs, ApplyingPcs, RecurseFits, RunPcs, AdvanceFits, RecursePcs
<1>3. Len(stack[p]) = 1 /\ RunFits(Top(p), DOMAIN copy[p]) BY <1>1, <1>2 DEF Fits
<1>4. DOMAIN Top(p) = RunFields BY <1>3 DEF RunFits, RunFrame, RunFields
<1>5. Top(p).h[2] = 0 BY <1>1, <1>3 DEF Fits
<1> QED BY <1>3, <1>4, <1>5 DEF RunFits, IsPlan, Seen

\* A call of run fits as long as what it has still to flush is a plan.
LEMMA RunAt ==
    ASSUME FlusherInv, NEW p \in Runners, stack[p] # <<>>, Top(p).pc \in RunPcs,
           NEW x, DOMAIN x = RunFields, x.h = Top(p).h, x.pc \in RunPcs,
           IsPlan(x.todo, DOMAIN copy[p]), NEW log
    PROVE  Fits(x, Len(stack[p]) - 1, DOMAIN copy[p], log)
<1>1. RunFits(x, DOMAIN copy[p]) BY DEF RunFits, RunFrame, RunFields, IsPlan, Seen
<1>2. Top(p).h \in DOMAIN copy[p] BY TopType
<1> QED BY <1>1, <1>2, RunTop DEF Fits

\* The plan: the sorted components, the last first, and none of them empty.
LEMMA PlanType ==
    ASSUME FlusherInv, NEW p \in Runners
    PROVE  IsPlan(Plan(tarjanSort(successors(p))), DOMAIN copy[p])
<1> DEFINE S == Ordered(p)
<1>1. S \in SUBSET Txns /\ S \subseteq Seen(DOMAIN copy[p]) BY DEF Ordered, seen, Seen
<1>2. successors(p) \in [S -> SUBSET S] BY DEF successors
<1>3. PICK q : q = tarjanSort(successors(p)) OBVIOUS
<1>4. q \in Seq(Seq(S)) /\ \A i \in DOMAIN q : q[i] # <<>>
  <2> HIDE DEF S
  <2> QED BY <1>1, <1>2, <1>3, SortAssumption
<1> HIDE DEF S
<1>5. PICK r : r = Reverse(q) OBVIOUS
<1>6. Len(q) \in Nat /\ DOMAIN q = 1..Len(q) /\ \A i \in 1..Len(q) : q[i] \in Seq(S) \ {<<>>}
  BY <1>4
<1>7. r = [i \in 1..Len(q) |-> q[(Len(q) - i) + 1]] BY <1>5 DEF Reverse
<1>8. DOMAIN r = 1..Len(q) /\ \A i \in 1..Len(q) : r[i] \in Seq(S) \ {<<>>}
  <2>1. \A i \in 1..Len(q) : r[i] = q[(Len(q) - i) + 1] /\ (Len(q) - i) + 1 \in 1..Len(q)
    BY <1>6, <1>7
  <2> QED BY <1>6, <1>7, <2>1
<1>9. PICK v : v = Plan(q) OBVIOUS
<1>10. DOMAIN v = 1..Len(q) /\ \A i \in 1..Len(q) : v[i][1] = r[i]
  BY <1>5, <1>8, <1>9 DEF Plan
<1>11. Seq(S) \subseteq Seq(Seen(DOMAIN copy[p])) BY <1>1, MoreElements
<1>12. v \in Seq(ToSet(v))
  <2>1. \A i \in 1..Len(q) : v[i] \in ToSet(v) BY <1>10 DEF ToSet
  <2>2. PICK W : W = ToSet(v) OBVIOUS
  <2>3. \A i \in 1..Len(q) : v[i] \in W BY <2>1, <2>2
  <2>4. PICK w : w = [i \in 1..Len(q) |-> v[i]] OBVIOUS
  <2>5. w \in [1..Len(q) -> W] BY <2>3, <2>4
  <2>6. w \in Seq(W) BY <1>6, <2>5, SeqDef
  <2>7. v = [i \in DOMAIN r |-> v[i]] BY <1>5, <1>9 DEF Plan
  <2>8. v = [i \in 1..Len(q) |-> v[i]] BY <1>8, <2>7
  <2>9. v = w BY <2>4, <2>8
  <2> QED BY <2>2, <2>6, <2>9
<1>13. IsPlan(v, DOMAIN copy[p]) BY <1>8, <1>10, <1>11, <1>12 DEF IsPlan
<1> QED BY <1>3, <1>9, <1>13

\* The plan for a goal that waits for nobody.
LEMMA AlonePlan ==
    ASSUME NEW hs, NEW t \in Seen(hs), NEW pull
    PROVE  IsPlan(<<<< <<t>>, pull >>>>, hs)
<1>1. PICK v : v = << <<t>>, pull >> OBVIOUS
<1>2. v[1] = <<t>> /\ <<t>> \in Seq(Seen(hs)) \ {<<>>} BY <1>1
<1>3. <<v>> \in Seq(ToSet(<<v>>)) /\ DOMAIN <<v>> = {1} /\ <<v>>[1] = v
  <2>1. <<v>> \in Seq({v}) /\ DOMAIN <<v>> = {1} /\ <<v>>[1] = v OBVIOUS
  <2>2. <<v>> \in Seq(ToSet(<<v>>)) BY <2>1, OwnElements
  <2> QED BY <2>1, <2>2
<1>4. IsPlan(<<v>>, hs) BY <1>2, <1>3 DEF IsPlan
<1> QED BY <1>1, <1>4

\* What is left after a transaction is a plan.
LEMMA RestPlan ==
    ASSUME NEW hs, NEW todo, IsPlan(todo, hs), todo # <<>>
    PROVE  /\ Head(todo)[1] \in Seq(Seen(hs)) \ {<<>>} /\ Head(Head(todo)[1]) \in Seen(hs)
           /\ IsPlan(Rest(todo), hs)
<1>1. /\ todo \in Seq(ToSet(todo)) /\ Len(todo) \in Nat \ {0} /\ DOMAIN todo = 1..Len(todo)
      /\ Head(todo) = todo[1]
  BY DEF IsPlan
<1>2. PICK scc : scc = Head(todo)[1] OBVIOUS
<1>3. scc \in Seq(Seen(hs)) \ {<<>>} BY <1>1, <1>2 DEF IsPlan
<1>4. Head(scc) \in Seen(hs) BY <1>3
<1>5. PICK q : q = Tail(todo) OBVIOUS
<1>6. /\ q \in Seq(ToSet(todo)) /\ Len(q) = Len(todo) - 1
      /\ \A i \in 1..(Len(todo) - 1) : q[i] = todo[i + 1]
  BY <1>1, <1>5, Off
<1>7. q \in Seq(ToSet(q)) /\ DOMAIN q = 1..(Len(todo) - 1) BY <1>6, OwnElements
<1>8. \A j \in DOMAIN q : q[j][1] \in Seq(Seen(hs)) \ {<<>>}
  <2>1. \A j \in DOMAIN q : j + 1 \in DOMAIN todo /\ q[j] = todo[j + 1] BY <1>1, <1>6, <1>7
  <2> QED BY <2>1 DEF IsPlan
<1>9. CASE Len(scc) = 1
  <2>1. Rest(todo) = q BY <1>2, <1>5, <1>9 DEF Rest
  <2> QED BY <1>2, <1>3, <1>4, <1>7, <1>8, <2>1 DEF IsPlan
<1>10. CASE Len(scc) # 1
  <2>1. PICK x : x = <<Tail(scc), Head(todo)[2]>> OBVIOUS
  <2>2. Tail(scc) \in Seq(Seen(hs)) \ {<<>>}
    <3>1. Len(scc) >= 2 /\ scc \in Seq(Seen(hs))
      <4>1. scc \in Seq(Seen(hs)) /\ scc # <<>> BY <1>3
      <4>2. PICK l : l = Len(scc) OBVIOUS
      <4>3. l # 0 /\ l \in Nat BY <4>1, <4>2, EmptySeq
      <4>4. l >= 2 BY <1>10, <4>2, <4>3
      <4> QED BY <4>1, <4>2, <4>4
    <3>2. Tail(scc) \in Seq(Seen(hs)) /\ Len(Tail(scc)) = Len(scc) - 1 /\ Len(scc) \in Nat
      BY <3>1, Off
    <3>3. PICK u : u = Tail(scc) OBVIOUS
    <3>4. Len(u) # 0 BY <3>1, <3>2, <3>3
    <3>5. u # <<>> BY <3>4
    <3> QED BY <3>2, <3>3, <3>5
  <2>3. PICK n : /\ n = Push(x, Tail(todo))
                 /\ n \in Seq(ToSet(n)) /\ Len(n) = Len(todo)
                 /\ n[1] = x /\ \A i \in 2..Len(todo) : n[i] = todo[i]
    BY <1>1, Replaced
  <2>4. Rest(todo) = n BY <1>2, <1>10, <2>1, <2>3 DEF Rest, Push
  <2>5. DOMAIN n = 1..Len(todo) BY <2>3
  <2>6. x[1] \in Seq(Seen(hs)) \ {<<>>} BY <2>1, <2>2
  <2>7. ASSUME NEW j \in 1..Len(todo) PROVE n[j][1] \in Seq(Seen(hs)) \ {<<>>}
    <3>1. CASE j = 1 BY <3>1, <2>3, <2>6
    <3>2. CASE j # 1
      <4>1. n[j] = todo[j] BY <1>1, <2>3, <3>2
      <4> QED BY <4>1, <1>1 DEF IsPlan
    <3> QED BY <3>1, <3>2
  <2>8. IsPlan(n, hs) BY <2>3, <2>5, <2>7 DEF IsPlan
  <2> QED BY <1>2, <1>3, <1>4, <2>4, <2>8
<1> QED BY <1>9, <1>10

-----------------------------------------------------------------------------
(* The end of a flush, and the answer.                                     *)

\* Where nothing is answered, what was answered stays true.
LEMMA AnswersKept ==
    ASSUME StoredInv, AnswerInv, Moves, answer' = answer
    PROVE  AnswerInv'
<1>1. {"applied", "aborted"} \subseteq States BY DEF States
<1>2. ASSUME NEW t \in Txns, NEW s \in {"applied", "aborted"}, s \in answer'[t]
      PROVE  tc'[t].s \in Later(s)
  <2>1. tc[t].s \in Later(s) BY <1>2 DEF AnswerInv
  <2> QED BY <1>1, <2>1, LaterKept
<1>3. (\A t \in Txns : \A s \in {"applied", "aborted"} : s \in answer[t] => tc[t].s \in Later(s))'
  BY <1>2 DEF Later
<1> QED BY <1>3 DEF AnswerInv

\* A flusher that stops knows nothing any more.
LEMMA ForgetsAll ==
    ASSUME StoredInv, FlusherInv, Moves, NEW p \in Runners, ops' = ops,
           stack' = [stack EXCEPT ![p] = <<>>], copy' = [copy EXCEPT ![p] = <<>>],
           NEW w, pending' = [pending EXCEPT ![p] = w], PendingFits(w, tc')
    PROVE  FlusherInv'
<1>1. DOMAIN <<>> = {} /\ <<>> \in Seq(ToSet(<<>>)) BY DEF ToSet
<1>2. CallsFit(<<>>, DOMAIN <<>>, tc') BY <1>1 DEF CallsFit
<1>3. CopiesFit(<<>>, tc') BY <1>1 DEF CopiesFit
<1> QED BY <1>2, <1>3, FlusherMoves

\* Nothing is a list of transactions that were found unfinished.
LEMMA NothingPending ==
    ASSUME NEW log PROVE PendingFits(<<>>, log)
<1>1. DOMAIN <<>> = {} /\ <<>> \in Seq(ToSet(<<>>)) BY DEF ToSet
<1> QED BY <1>1 DEF PendingFits

\* A flush ends; what it answers is the decision.
LEMMA FinishStep ==
    ASSUME StoredInv, FlusherInv, AnswerInv, NEW p \in Runners, NEW a, Finish(p, a),
           a \in {"applied", "aborted"} =>
               \A t \in Txns : t = Last(stack[p]).h[1] => tc[t].s \in Later(a)
    PROVE  Moves /\ FlusherInv' /\ StoredInv' /\ AnswerInv'
<1>1. tc' = tc /\ doc' = doc /\ stash' = stash /\ ops' = ops BY DEF Finish, db
<1>2. Moves BY <1>1, NothingMoves
<1>3. StoredInv' BY <1>1, <1>2, StoredKept
<1>4. FlusherInv'
  <2>1. PICK w : w = IF a \in {"error", "panic"} THEN <<>> ELSE pending[p] OBVIOUS
  <2>2. pending' = [pending EXCEPT ![p] = w] BY <2>1 DEF Finish
  <2>3. PendingFits(pending[p], tc') BY <1>2, PendingKept DEF FlusherInv
  <2>4. PendingFits(w, tc') BY <2>1, <2>3, NothingPending
  <2> QED BY <1>1, <1>2, <2>2, <2>4, ForgetsAll DEF Finish
<1>5. AnswerInv'
  <2>1. PICK i : i = Last(stack[p]).h[1] OBVIOUS
  <2>2. answer' = [answer EXCEPT ![i] = @ \cup {a}] BY <2>1 DEF Finish
  <2>3. DOMAIN answer = Txns /\ DOMAIN answer' = Txns BY <2>2 DEF AnswerInv
  <2>4. ASSUME NEW t \in Txns, NEW s \in {"applied", "aborted"}, s \in answer'[t]
        PROVE  tc'[t].s \in Later(s)
    <3>1. CASE s \in answer[t] BY <1>1, <3>1 DEF AnswerInv
    <3>2. CASE s \notin answer[t]
      <4>1. t = i /\ s = a BY <2>2, <2>3, <2>4, <3>2
      <4> QED BY <1>1, <2>1, <4>1
    <3> QED BY <3>1, <3>2
  <2>5. (\A t \in Txns : \A s \in {"applied", "aborted"} : s \in answer[t] => tc[t].s \in Later(s))'
    BY <2>4 DEF Later
  <2> QED BY <2>3, <2>5 DEF AnswerInv
<1> QED BY <1>2, <1>3, <1>4, <1>5

\* run: recurse, plan, flush one transaction after another, answer.
LEMMA RunStep ==
    ASSUME StoredInv, FlusherInv, AnswerInv, NEW p \in Runners, run(p)
    PROVE  Moves /\ FlusherInv' /\ StoredInv' /\ AnswerInv'
<1>1. stack[p] # <<>> /\ Top(p).pc \in RunPcs BY DEF run, At, RunPcs
<1>2. /\ Len(stack[p]) = 1 /\ DOMAIN Top(p) = RunFields
      /\ IsPlan(Top(p).todo, DOMAIN copy[p]) /\ Top(p).h[2] = 0
  BY <1>1, RunTop
<1>3. /\ Top(p).h \in DOMAIN copy[p] /\ Top(p).h \in Txns \X Nat
      /\ Agrees(copy[p][Top(p).h], Top(p).h[1], tc)
  BY <1>1, TopType
<1>4. CASE Stay /\ copy' = copy
  <2>1. /\ tc' = tc /\ doc' = doc /\ stash' = stash /\ ops' = ops /\ pending' = pending
        /\ answer' = answer
    BY <1>4 DEF Stay, db
  <2>2. Moves BY <2>1, NothingMoves
  <2>3. StoredInv' BY <2>1, <2>2, StoredKept
  <2>4. AnswerInv' BY <2>1, <2>2, AnswersKept
  <2>5. copy' = [copy EXCEPT ![p] = copy[p]] /\ CopiesFit(copy[p], tc')
    BY <1>4, <2>2, CopyKept
  <2>6. ASSUME NEW x, Goto(p, x), DOMAIN x = RunFields, x.h = Top(p).h, x.pc \in RunPcs,
               IsPlan(x.todo, DOMAIN copy[p])
        PROVE  FlusherInv'
    <3>1. Fits(x, Len(stack[p]) - 1, DOMAIN copy[p], tc') BY <1>1, <2>6, RunAt
    <3> QED BY <1>1, <2>1, <2>2, <2>5, <2>6, <3>1, GoesOn
  <2>7. ASSUME NEW x, NEW y, Call(p, x, y), DOMAIN x = RunFields, x.h = Top(p).h,
               x.pc \in RunPcs, IsPlan(x.todo, DOMAIN copy[p]),
               Fits(y, Len(stack[p]), DOMAIN copy[p], tc')
        PROVE  FlusherInv'
    <3>1. Fits(x, Len(stack[p]) - 1, DOMAIN copy[p], tc') BY <1>1, <2>7, RunAt
    <3> QED BY <1>1, <2>1, <2>2, <2>5, <2>7, <3>1, CallsOn
  <2>8. CASE At(p, "run")
    <3>1. PICK x : x = [Top(p) EXCEPT !.pc = "recursed"] OBVIOUS
    <3>2. PICK y : y = RecurseFrame(Top(p).h) OBVIOUS
    <3>3. Call(p, x, y) BY <2>8, <3>1, <3>2 DEF run, At
    <3>4. DOMAIN x = RunFields /\ x.h = Top(p).h /\ x.pc \in RunPcs /\ x.todo = Top(p).todo
      BY <1>2, <3>1 DEF RunFields, RunPcs
    <3>5. Fits(y, Len(stack[p]), DOMAIN copy[p], tc')
      <4>1. Len(stack[p]) # 0 BY <1>2
      <4> QED BY <1>2, <1>3, <3>2, <4>1, NewCalls
    <3> QED BY <1>2, <2>2, <2>3, <2>4, <2>7, <3>3, <3>4, <3>5
  <2>9. CASE At(p, "recursed") /\ ~done(copy[p][Top(p).h])
    <3>1. PICK plan : /\ \/ plan = <<<< <<Top(p).h[1]>>, Self(Top(p).h) >>>>
                         \/ plan = Plan(tarjanSort(successors(p)))
                      /\ Goto(p, [Top(p) EXCEPT !.pc = "flush", !.todo = plan])
      BY <2>9 DEF run, At
    <3>2. IsPlan(plan, DOMAIN copy[p])
      <4>1. Top(p).h[1] \in Seen(DOMAIN copy[p])
        <5>1. Top(p).h = <<Top(p).h[1], 0>> BY <1>2, <1>3
        <5> QED BY <1>3, <5>1 DEF Seen
      <4> QED BY <3>1, <4>1, AlonePlan, PlanType
    <3>3. PICK x : x = [Top(p) EXCEPT !.pc = "flush", !.todo = plan] OBVIOUS
    <3>4. DOMAIN x = RunFields /\ x.h = Top(p).h /\ x.pc \in RunPcs /\ x.todo = plan
      BY <1>2, <3>3 DEF RunFields, RunPcs
    <3>5. Goto(p, x) BY <3>1, <3>3
    <3> QED BY <2>2, <2>3, <2>4, <2>6, <3>2, <3>4, <3>5
  <2>10. CASE At(p, "flush") /\ Top(p).todo # <<>>
    <3>1. PICK next : next = Head(Top(p).todo) OBVIOUS
    <3>2. PICK x : x = [Top(p) EXCEPT !.todo = Rest(Top(p).todo)] OBVIOUS
    <3>3. PICK h : h = <<Head(next[1]), 0>> OBVIOUS
    <3>4. PICK y : y = AdvanceFrame(h, next[2], TRUE) OBVIOUS
    <3>5. Call(p, x, y) BY <2>10, <3>1, <3>2, <3>3, <3>4 DEF run, At
    <3>6. /\ DOMAIN x = RunFields /\ x.h = Top(p).h /\ x.pc \in RunPcs
          /\ x.todo = Rest(Top(p).todo)
      BY <1>1, <1>2, <3>2 DEF RunFields
    <3>7. Head(next[1]) \in Seen(DOMAIN copy[p]) /\ IsPlan(Rest(Top(p).todo), DOMAIN copy[p])
      BY <1>2, <2>10, <3>1, RestPlan
    <3>8. h \in DOMAIN copy[p] /\ h[2] = 0 BY <3>3, <3>7 DEF Seen
    <3>9. Fits(y, Len(stack[p]), DOMAIN copy[p], tc')
      <4>1. Len(stack[p]) # 0 BY <1>2
      <4> QED BY <3>4, <3>8, <4>1, NewCalls
    <3> QED BY <2>2, <2>3, <2>4, <2>7, <3>5, <3>6, <3>7, <3>9
  <2>11. CASE /\ ~At(p, "run") /\ ~(At(p, "recursed") /\ ~done(copy[p][Top(p).h]))
              /\ ~(At(p, "flush") /\ Top(p).todo # <<>>)
    <3>1. \E a : Finish(p, a) BY <2>11 DEF run
    <3>2. stack' = [stack EXCEPT ![p] = <<>>] /\ copy' = [copy EXCEPT ![p] = <<>>]
      BY <3>1 DEF Finish
    <3>3. DOMAIN copy[p] = {} BY <1>4, <3>2 DEF FlusherInv
    <3> QED BY <1>3, <3>3
  <2> QED BY <2>2, <2>3, <2>4, <2>8, <2>9, <2>10, <2>11
<1>5. CASE ~(Stay /\ copy' = copy)
  <2>1. PICK c : c = copy[p][Top(p).h] OBVIOUS
  <2>2. Finish(p, IF done(c) THEN c.s ELSE "panic") BY <1>5, <2>1 DEF run
  <2>3. PICK a : a = IF done(c) THEN c.s ELSE "panic" OBVIOUS
  <2>4. Last(stack[p]) = Top(p)
    <3>1. Last(stack[p]) = stack[p][1] BY <1>2 DEF Last
    <3> QED BY <1>1, <3>1, StackType
  <2>5. ASSUME a \in {"applied", "aborted"} PROVE tc[Top(p).h[1]].s \in Later(a)
    <3>1. a = c.s BY <2>3, <2>5
    <3> QED BY <1>3, <2>1, <3>1 DEF Agrees
  <2> QED BY <2>2, <2>3, <2>4, <2>5, FinishStep
<1> QED BY <1>4, <1>5

\* A flush ends with an error or a panic.
LEMMA FailStep ==
    ASSUME StoredInv, FlusherInv, AnswerInv, NEW p \in Runners, missingFails(p) \/ poppedPanics(p)
    PROVE  Moves /\ FlusherInv' /\ StoredInv' /\ AnswerInv'
<1>1. PICK a \in {"error", "panic"} : Finish(p, a) BY DEF missingFails, poppedPanics
<1> QED BY <1>1, FinishStep

-----------------------------------------------------------------------------
(* The clients, and the specification.                                     *)

\* A flush begins with a copy of its transaction.
LEMMA BeginStep ==
    ASSUME StoredInv, FlusherInv, Moves, NEW p \in Runners, ops' = ops,
           NEW t \in Txns, NEW c, Begin(p, t, c), Agrees(c, t, tc'),
           NEW w, pending' = [pending EXCEPT ![p] = w], PendingFits(w, tc')
    PROVE  FlusherInv'
<1> DEFINE h == <<t, 0>>
<1>1. PICK x : x = RunFrame(h) OBVIOUS
<1>2. PICK cs : cs = [g \in {h} |-> c] OBVIOUS
<1>3. PICK calls : calls = <<x>> OBVIOUS
<1>4. stack' = [stack EXCEPT ![p] = calls] /\ copy' = [copy EXCEPT ![p] = cs]
  BY <1>1, <1>2, <1>3 DEF Begin
<1>5. x.h = h /\ x.pc = "run" /\ x.todo = <<>> /\ DOMAIN x = DOMAIN RunFrame(h)
  BY <1>1 DEF RunFrame
<1>6. RunFits(x, {h})
  <2>1. <<>> \in Seq(ToSet(<<>>)) /\ DOMAIN <<>> = {} BY DEF ToSet
  <2> QED BY <1>5, <2>1 DEF RunFits, RunPcs
<1>7. Fits(x, 0, {h}, tc') BY <1>5, <1>6 DEF Fits
<1>8. CallsFit(calls, DOMAIN cs, tc')
  <2>1. /\ calls \in Seq({x}) /\ DOMAIN calls = {1} /\ calls[1] = x /\ Len(calls) - 1 = 0
        /\ DOMAIN cs = {h}
    BY <1>2, <1>3
  <2>2. calls \in Seq(ToSet(calls)) BY <2>1, OwnElements
  <2> QED BY <1>7, <2>1, <2>2 DEF CallsFit
<1>9. CopiesFit(cs, tc')
  <2>1. DOMAIN cs = {h} /\ cs[h] = c /\ h[1] = t /\ h \in Txns \X Nat BY <1>2
  <2> QED BY <2>1 DEF CopiesFit
<1> QED BY <1>4, <1>8, <1>9, FlusherMoves

\* Run: the transaction is inserted and flushed.
LEMMA RunTxnStep ==
    ASSUME StoredInv, FlusherInv, AnswerInv, NEW p \in Runners, NEW t \in Txns, Run(p, t)
    PROVE  Moves /\ FlusherInv' /\ StoredInv' /\ AnswerInv'
<1>1. PICK c : c = NewTxn OBVIOUS
<1>2. /\ tc' = [tc EXCEPT ![t] = c] /\ tc[t].s = "new" /\ Begin(p, t, c)
      /\ ops' = ops /\ doc' = doc /\ stash' = stash /\ answer' = answer /\ pending' = pending
  BY <1>1 DEF Run
<1>3. DOMAIN c = DOMAIN NewTxn /\ c.s = "preparing" BY <1>1 DEF NewTxn
<1>4. "preparing" \in States /\ "new" \in States /\ Later("new") = States
      /\ Later("preparing") = States
  BY DEF States, Later
<1>5. Moves BY <1>2, <1>3, <1>4, OneMoves
<1>6. StoredInv' BY <1>2, <1>5, StoredKept
<1>7. AnswerInv' BY <1>2, <1>5, AnswersKept
<1>8. Agrees(c, t, tc') BY <1>3, <1>4, <1>5 DEF Agrees, Moves
<1>9. pending' = [pending EXCEPT ![p] = pending[p]] /\ PendingFits(pending[p], tc')
  BY <1>2, <1>5, PendingKept DEF FlusherInv
<1>10. FlusherInv' BY <1>2, <1>5, <1>8, <1>9, BeginStep
<1> QED BY <1>5, <1>6, <1>7, <1>10

\* Resume: a transaction that is not over is flushed.
LEMMA ResumeStep ==
    ASSUME StoredInv, FlusherInv, AnswerInv, NEW p \in Runners, NEW t \in Txns, Resume(p, t)
    PROVE  Moves /\ FlusherInv' /\ StoredInv' /\ AnswerInv'
<1>1. /\ tc' = tc /\ Begin(p, t, tc[t])
      /\ ops' = ops /\ doc' = doc /\ stash' = stash /\ answer' = answer /\ pending' = pending
  BY DEF Resume, db
<1>2. Moves BY <1>1, NothingMoves
<1>3. StoredInv' BY <1>1, <1>2, StoredKept
<1>4. AnswerInv' BY <1>1, <1>2, AnswersKept
<1>5. Agrees(tc[t], t, tc') BY <1>1, LaterStates DEF Agrees, StoredInv
<1>6. pending' = [pending EXCEPT ![p] = pending[p]] /\ PendingFits(pending[p], tc')
  BY <1>1, <1>2, PendingKept DEF FlusherInv
<1>7. FlusherInv' BY <1>1, <1>2, <1>5, <1>6, BeginStep
<1> QED BY <1>2, <1>3, <1>4, <1>7

\* Transactions found unfinished are flushed one after another, as they were found.
LEMMA ResumeNextStep ==
    ASSUME StoredInv, FlusherInv, AnswerInv, NEW p \in Runners, ResumeNext(p)
    PROVE  Moves /\ FlusherInv' /\ StoredInv' /\ AnswerInv'
<1>1. PICK ts : ts = pending[p] OBVIOUS
<1>2. PICK w : w = Tail(ts) OBVIOUS
<1>3. /\ tc' = tc /\ Begin(p, Head(ts)[1], Head(ts)[2])
      /\ ops' = ops /\ doc' = doc /\ stash' = stash /\ answer' = answer
      /\ ts # <<>> /\ pending' = [pending EXCEPT ![p] = w]
  BY <1>1, <1>2 DEF ResumeNext, db
<1>4. Moves BY <1>3, NothingMoves
<1>5. StoredInv' BY <1>3, <1>4, StoredKept
<1>6. AnswerInv' BY <1>3, <1>4, AnswersKept
<1>7. PendingFits(ts, tc') BY <1>1, <1>4, PendingKept DEF FlusherInv
<1>8. /\ ts \in Seq(ToSet(ts)) /\ Len(ts) \in Nat /\ Len(ts) >= 1 /\ DOMAIN ts = 1..Len(ts)
      /\ Head(ts) = ts[1]
  <2>1. ASSUME NEW q, q \in Seq(ToSet(q)), q # <<>>
        PROVE  Len(q) \in Nat /\ Len(q) >= 1 /\ DOMAIN q = 1..Len(q) /\ Head(q) = q[1]
    BY <2>1
  <2>2. ts \in Seq(ToSet(ts)) BY <1>7 DEF PendingFits
  <2> QED BY <1>3, <2>1, <2>2
<1>9. \A i \in 1..Len(ts) : ts[i][1] \in Txns /\ Agrees(ts[i][2], ts[i][1], tc')
  BY <1>7, <1>8 DEF PendingFits
<1>10. PendingFits(w, tc')
  <2>1. /\ w \in Seq(ToSet(ts)) /\ Len(w) = Len(ts) - 1
        /\ \A i \in 1..(Len(ts) - 1) : w[i] = ts[i + 1]
    BY <1>2, <1>8, Off
  <2>2. w \in Seq(ToSet(w)) /\ DOMAIN w = 1..(Len(ts) - 1) BY <2>1, OwnElements
  <2>3. \A i \in DOMAIN w : w[i] = ts[i + 1] /\ i + 1 \in 1..Len(ts) BY <1>8, <2>1, <2>2
  <2> QED BY <1>9, <2>2, <2>3 DEF PendingFits
<1>11. Head(ts)[1] \in Txns /\ Agrees(Head(ts)[2], Head(ts)[1], tc') BY <1>8, <1>9
<1>12. FlusherInv' BY <1>3, <1>4, <1>10, <1>11, BeginStep
<1> QED BY <1>4, <1>5, <1>6, <1>12

\* ResumeAll: one query finds the transactions that are not over.
LEMMA ResumeAllStep ==
    ASSUME StoredInv, FlusherInv, AnswerInv, NEW p \in Runners, ResumeAll(p)
    PROVE  Moves /\ FlusherInv' /\ StoredInv' /\ AnswerInv'
<1> DEFINE unfinished == {t \in Txns : tc[t].s \in {"preparing", "prepared", "applying"}}
           ids == Ascending(unfinished)
<1>1. /\ tc' = tc /\ ops' = ops /\ doc' = doc /\ stash' = stash /\ answer' = answer
      /\ stack' = stack /\ copy' = copy
  BY DEF ResumeAll, db, flusher
<1>2. Moves BY <1>1, NothingMoves
<1>3. StoredInv' BY <1>1, <1>2, StoredKept
<1>4. AnswerInv' BY <1>1, <1>2, AnswersKept
<1>5. PICK w : w = [i \in DOMAIN ids |-> <<ids[i], tc[ids[i]]>>] OBVIOUS
<1>6. pending' = [pending EXCEPT ![p] = w] BY <1>5 DEF ResumeAll
<1>7. unfinished \in SUBSET Nat /\ IsFiniteSet(unfinished) /\ unfinished \subseteq Txns
  BY TxnAssumption, FS_Subset
<1> HIDE DEF unfinished
<1>8. PICK n \in Nat : ids \in [1..n -> unfinished] BY <1>7, AscendingType, FS_CardinalityType
<1> HIDE DEF ids
<1>9. DOMAIN w = 1..n /\ \A i \in 1..n : w[i][1] \in Txns /\ w[i][2] = tc[w[i][1]]
  BY <1>5, <1>7, <1>8
<1>10. \A t \in Txns : Agrees(tc[t], t, tc') BY <1>1, LaterStates DEF Agrees, StoredInv
<1>11. w \in Seq(ToSet(w))
  <2>1. PICK S : S = ToSet(w) OBVIOUS
  <2>2. \A i \in 1..n : w[i] \in S BY <1>9, <2>1 DEF ToSet
  <2>3. w = [i \in 1..n |-> w[i]] BY <1>5, <1>8
  <2>4. w \in [1..n -> S] BY <2>2, <2>3
  <2> QED BY <2>1, <2>4, SeqDef
<1>12. PendingFits(w, tc') BY <1>9, <1>10, <1>11 DEF PendingFits
<1>13. stack' = [stack EXCEPT ![p] = stack[p]] /\ copy' = [copy EXCEPT ![p] = copy[p]]
  BY <1>1 DEF FlusherInv
<1>14. CallsFit(stack[p], DOMAIN copy[p], tc') /\ CopiesFit(copy[p], tc')
  BY <1>2, CallsKept, CopiesKept DEF FlusherInv
<1>15. FlusherInv' BY <1>1, <1>2, <1>6, <1>12, <1>13, <1>14, FlusherMoves
<1> QED BY <1>2, <1>3, <1>4, <1>15

\* An interruption loses what the flusher knew.
LEMMA KillStep ==
    ASSUME StoredInv, FlusherInv, AnswerInv, NEW p \in Runners, Kill(p)
    PROVE  Moves /\ FlusherInv' /\ StoredInv' /\ AnswerInv'
<1>1. /\ tc' = tc /\ ops' = ops /\ doc' = doc /\ stash' = stash /\ answer' = answer
      /\ stack' = [stack EXCEPT ![p] = <<>>] /\ copy' = [copy EXCEPT ![p] = <<>>]
      /\ pending' = [pending EXCEPT ![p] = <<>>]
  BY DEF Kill, db
<1>2. Moves BY <1>1, NothingMoves
<1>3. StoredInv' BY <1>1, <1>2, StoredKept
<1>4. AnswerInv' BY <1>1, <1>2, AnswersKept
<1>5. FlusherInv' BY <1>1, <1>2, NothingPending, ForgetsAll
<1> QED BY <1>2, <1>3, <1>4, <1>5

\* A call to the database.
LEMMA WriteStep ==
    ASSUME StoredInv, FlusherInv, AnswerInv, NEW p \in Runners, Write(p)
    PROVE  Moves /\ FlusherInv' /\ StoredInv' /\ AnswerInv'
<1>1. ops' = ops /\ pending' = pending /\ answer' = answer BY DEF Write
<1>2. Moves /\ FlusherInv' /\ StoredInv'
  <2>1. CASE prepareDoc(p) \/ prepareStash(p) \/ confirmDoc(p) \/ confirmStash(p) \/ unstashToken(p)
    BY <1>1, <2>1, PrepareDocStep, PrepareStashStep, ConfirmStep, UnstashStep
  <2>2. CASE setPrepared(p) \/ lostPrepared(p) \/ rescanDoc(p) \/ rescanStash(p) \/ missing(p)
    BY <1>1, <2>2, SetPreparedStep, LostPreparedStep, RescanStep, MissingStep
  <2>3. CASE popped(p) \/ lostApplying(p) \/ assertDoc(p) \/ setAborting(p) \/ lostAborting(p)
    BY <1>1, <2>3, ReloadStep, AssertStep, SetAbortingStep, LostAbortingStep
  <2>4. CASE pullDoc(p) \/ setAborted(p) \/ checkpoint(p) \/ load(p)
    BY <1>1, <2>4, PullStep, SetAbortedStep, CheckpointStep, LoadStep
  <2> QED BY <2>1, <2>2, <2>3, <2>4 DEF Write
<1> QED BY <1>1, <1>2, AnswersKept

\* A call to the database that applies an operation.
LEMMA ApplyStep ==
    ASSUME StoredInv, FlusherInv, AnswerInv, NEW p \in Runners, Apply(p)
    PROVE  Moves /\ FlusherInv' /\ StoredInv' /\ AnswerInv'
<1>1. ops' = ops /\ pending' = pending /\ answer' = answer BY DEF Apply
<1>2. Moves /\ FlusherInv' /\ StoredInv'
  <2>1. CASE setApplied(p) BY <1>1, <2>1, SetAppliedStep
  <2>2. CASE ~setApplied(p)
    <3>1. \/ applyUpdate(p) \/ removeStash(p) \/ removeMark(p) \/ removeSave(p) \/ removeDoc(p)
          \/ insertMark(p) \/ insertDoc(p) \/ insertUnstash(p) \/ insertPull(p)
      BY <2>2 DEF Apply
    <3>2. tc' = tc /\ FlusherInv' BY <1>1, <3>1, ApplyGoesOn
    <3>3. StoredInv' BY <1>1, <3>1, <3>2, ApplyStores
    <3> QED BY <3>2, <3>3, NothingMoves
  <2> QED BY <2>1, <2>2
<1> QED BY <1>1, <1>2, AnswersKept

\* A step within the calls of a flusher.
LEMMA LocalStep ==
    ASSUME StoredInv, FlusherInv, AnswerInv, NEW p \in Runners, Local(p)
    PROVE  Moves /\ FlusherInv' /\ StoredInv' /\ AnswerInv'
<1>1. CASE run(p) BY <1>1, RunStep
<1>2. CASE ~run(p)
  <2>1. /\ tc' = tc /\ ops' = ops /\ doc' = doc /\ stash' = stash /\ answer' = answer
        /\ pending' = pending
    BY <1>2 DEF Local, Stay, db
  <2>2. Moves BY <2>1, NothingMoves
  <2>3. StoredInv' BY <2>1, <2>2, StoredKept
  <2>4. AnswerInv' BY <2>1, <2>2, AnswersKept
  <2>5. recurse(p) \/ advance(p) \/ collected(p) BY <1>2 DEF Local
  <2>6. FlusherInv' BY <2>1, <2>5, RecurseStep, AdvanceStep, CollectedStep
  <2> QED BY <2>2, <2>3, <2>4, <2>6
<1> QED BY <1>1, <1>2

\* Every step keeps the invariant and takes no decision back.
LEMMA NextStep ==
    ASSUME DecisionInv, Next
    PROVE  Moves /\ DecisionInv'
<1>1. StoredInv /\ FlusherInv /\ AnswerInv BY DEF DecisionInv
<1>2. PICK p \in Runners : Step(p) \/ Client(p) BY DEF Next
<1>3. Moves /\ FlusherInv' /\ StoredInv' /\ AnswerInv'
  <2>1. CASE Local(p) BY <1>1, <2>1, LocalStep
  <2>2. CASE Write(p) BY <1>1, <2>2, WriteStep
  <2>3. CASE Apply(p) BY <1>1, <2>3, ApplyStep
  <2>4. CASE missingFails(p) \/ poppedPanics(p) BY <1>1, <2>4, FailStep
  <2>5. CASE ResumeNext(p) BY <1>1, <2>5, ResumeNextStep
  <2>6. CASE Client(p) BY <1>1, <2>6, KillStep, ResumeAllStep, RunTxnStep, ResumeStep DEF Client
  <2> QED BY <1>2, <2>1, <2>2, <2>3, <2>4, <2>5, <2>6 DEF Step
<1> QED BY <1>3 DEF DecisionInv

\* Nothing is known, decided or answered at first.
LEMMA Initially == Init => DecisionInv
<1> SUFFICES ASSUME Init PROVE DecisionInv OBVIOUS
<1>1. StoredInv
  <2>1. ops \in [Txns -> Seq(Op)] BY OpsAssumption DEF Init
  <2>2. DOMAIN tc = Txns /\ \A t \in Txns : DOMAIN tc[t] = DOMAIN NewTxn /\ tc[t].s \in States
    BY DEF Init, NewTxn, States
  <2>3. PICK sc \in Scenarios :
          doc = [d \in Docs |-> IF d \in DOMAIN sc.docs
                                THEN [NoDoc EXCEPT !.here = TRUE, !.val = sc.docs[d]]
                                ELSE NoDoc]
    BY DEF Init
  <2>4. \A d \in Docs : DOMAIN doc[d] = DOMAIN NoDoc /\ doc[d].rm = None BY <2>3 DEF NoDoc
  <2>5. DOMAIN stash = Docs /\ \A d \in Docs : stash[d] = NoStash BY DEF Init
  <2>6. NoStash.ins = None BY DEF NoStash
  <2> QED BY <2>1, <2>2, <2>3, <2>4, <2>5, <2>6 DEF StoredInv
<1>2. FlusherInv
  <2>1. /\ stack = [p \in Runners |-> <<>>] /\ copy = [p \in Runners |-> <<>>]
        /\ pending = [p \in Runners |-> <<>>]
    BY DEF Init
  <2>2. DOMAIN <<>> = {} /\ <<>> \in Seq(ToSet(<<>>)) BY DEF ToSet
  <2>3. CallsFit(<<>>, DOMAIN <<>>, tc) BY <2>2 DEF CallsFit
  <2>4. CopiesFit(<<>>, tc) BY <2>2 DEF CopiesFit
  <2>5. PendingFits(<<>>, tc) BY NothingPending
  <2> QED BY <2>1, <2>3, <2>4, <2>5 DEF FlusherInv, Range
<1>3. AnswerInv BY DEF Init, AnswerInv
<1> QED BY <1>1, <1>2, <1>3 DEF DecisionInv

\* What a flusher knows of a transaction, however old, was true of it and what was decided
\* then still is, for any transactions, documents, clients and interruptions.
THEOREM DecisionsAreKnown == Spec => []DecisionInv
<1>1. ASSUME DecisionInv, UNCHANGED vars PROVE DecisionInv'
  <2>1. /\ ops' = ops /\ tc' = tc /\ doc' = doc /\ stash' = stash /\ stack' = stack
        /\ copy' = copy /\ pending' = pending /\ answer' = answer
    BY <1>1 DEF vars, db, flusher
  <2>2. StoredInv' BY <1>1, <2>1 DEF DecisionInv, StoredInv
  <2>3. AnswerInv' BY <1>1, <2>1 DEF DecisionInv, AnswerInv
  <2>4. FlusherInv'
    <3>1. FlusherInv BY <1>1 DEF DecisionInv
    <3>2. ASSUME NEW r \in Runners
          PROVE  /\ CallsFit(stack[r], DOMAIN copy[r], tc)' /\ CopiesFit(copy[r], tc)'
                 /\ PendingFits(pending[r], tc)'
      <4>1. CallsFit(stack[r], DOMAIN copy[r], tc)'
        <5>1. CallsFit(stack'[r], DOMAIN copy'[r], tc') BY <2>1, <3>1 DEF FlusherInv
        <5> QED BY <2>1, <5>1 DEF CallsFit, Fits, RunFits, RecurseFits, AdvanceFits, docKeys
      <4>2. CopiesFit(copy[r], tc)' BY <2>1, <3>1 DEF FlusherInv, CopiesFit, Agrees
      <4>3. PendingFits(pending[r], tc)' BY <2>1, <3>1 DEF FlusherInv, PendingFits, Agrees
      <4> QED BY <4>1, <4>2, <4>3
    <3>3. /\ (stack \in [Runners -> Range(stack)])' /\ (copy \in [Runners -> Range(copy)])'
          /\ (pending \in [Runners -> Range(pending)])'
      BY <2>1, <3>1 DEF FlusherInv, Range
    <3> QED BY <3>2, <3>3 DEF FlusherInv
  <2> QED BY <2>2, <2>3, <2>4 DEF DecisionInv
<1>2. DecisionInv /\ [Next]_vars => DecisionInv' BY <1>1, NextStep
<1> QED BY Initially, <1>2, PTL DEF Spec

\* The nonce of a prepared transaction, the revnos it is applied on and its outcome stay,
\* whichever flushers race for it (flusher.go: prepare, abortOrReload, checkpoint, apply).
THEOREM DecisionsStay == Spec => DecisionsAreFinal
<1>1. ASSUME DecisionInv, [Next]_vars
      PROVE  [\A t \in Txns :
                /\ tc[t].s \notin {"new", "preparing"} => tc'[t].n = tc[t].n
                /\ tc[t].s \in {"applying", "applied"} =>
                        tc'[t].s \in {tc[t].s, "applied"} /\ tc'[t].r = tc[t].r
                /\ tc[t].s \in {"aborting", "aborted"} => tc'[t].s \in {tc[t].s, "aborted"}]_tc
  <2>1. CASE Next BY <1>1, <2>1, NextStep DEF Moves, Later
  <2>2. CASE UNCHANGED vars BY <2>2 DEF vars, db
  <2> QED BY <1>1, <2>1, <2>2
<1> QED BY <1>1, DecisionsAreKnown, PTL DEF Spec, DecisionsAreFinal

\* What Run or Resume has answered is what was decided about the transaction, from then on:
\* one answered to be applied is applying or applied, one answered to be aborted is aborted.
THEOREM AnswersStand == Spec => []AnswerInv
<1>1. DecisionInv => AnswerInv BY DEF DecisionInv
<1> QED BY <1>1, DecisionsAreKnown, PTL

=============================================================================
