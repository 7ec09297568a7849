------------------------- MODULE PollServiceProofs -------------------------
(***************************************************************************)
(* Proofs about PollService: whatever poll threads and screens run beside  *)
(* each other, the files of a circle hold what the server has under their  *)
(* ids, the last id stored is within the server's, and linkedQueue counts  *)
(* the downloads under way.  The invariant behind the three is inductive   *)
(* as a whole (IndInv of PollService).                                     *)
(***************************************************************************)
EXTENDS PollService, FiniteSetTheorems, TLAPS

\* What a step may do to the server's log: entries are added, and a message that is
\* there stays there.
LogGrows ==
    \A c \in Circles :
        /\ Len(log[c]) \in Nat /\ Len(log'[c]) \in Nat
        /\ Len(log[c]) <= Len(log'[c])
        /\ DOMAIN log[c] = 1 .. Len(log[c]) /\ DOMAIN log'[c] = 1 .. Len(log'[c])
        /\ \A i \in DOMAIN log[c] : log[c][i] # Blank => log'[c][i] = log[c][i]

\* A poll thread reads the server and never writes it.
LEMMA ThreadReads ==
    ASSUME NEW t \in Threads, ThreadStep(t)
    PROVE  log' = log
BY DEF server, ThreadStep, ThreadOnly, Wait, ReadLastId, AskLastId, AskFails, AskGetsNull,
   CheckInterrupt, StoreLastId, CheckInterrupt2, FetchMsg, FetchFails, FetchGetsNull, Die,
   OpenFile, WriteFile, SaveFails, EndThread

\* Only a step of the server changes its log.
LEMMA OnlyServer ==
    ASSUME [Next]_vars
    PROVE  ServerStep \/ log' = log
<1> USE DEF server
<1>1. CASE RunPoll BY <1>1 DEF RunPoll
<1>2. ASSUME NEW k \in Polls, CheckTor(k) \/ TimeLimit(k) \/ EndMonitor(k) PROVE log' = log
  BY <1>2 DEF CheckTor, TimeLimit, EndMonitor
<1>3. CASE StopService BY <1>3 DEF StopService
<1>4. ASSUME NEW t \in Threads, ThreadStep(t) PROVE log' = log BY <1>4, ThreadReads
<1>5. CASE JoinCircle \/ InitService \/ InitCircleStore
  BY <1>5 DEF JoinCircle, InitService, InitCircleStore
<1>6. ASSUME NEW d \in Lists, StartRange(d) \/ CountFromTor(d) \/ AbortWait(d) \/ CallStep(d)
      PROVE  log' = log
  BY <1>6 DEF StartRange, StartCall, CountFromTor, AbortWait, CallStep, CallOnly, Check, Add,
     AskRange, AskRangeFails, OpenRangeFile, WriteRangeFile, OpenRangeFails, WriteRangeFails,
     EndRange, UpdateLastMessage
<1>7. CASE Crash BY <1>7 DEF Crash, Die
<1>8. CASE UNCHANGED vars BY <1>8 DEF vars
<1> QED BY <1>1, <1>2, <1>3, <1>4, <1>5, <1>6, <1>7, <1>8 DEF Next

\* The server's log grows at its end, and a published message is not replaced.
LEMMA LogStep ==
    ASSUME LogInv, [Next]_vars
    PROVE  LogInv' /\ LogGrows
<1>1. CASE log' = log BY <1>1 DEF LogInv, LogGrows
<1>2. CASE ServerStep
  <2>1. PICK c \in Circles :
            \/ Server!Reserve(c)
            \/ \E i \in DOMAIN log[c] : (\E m \in Posts : Server!Publish(c, i, m)) \/ Server!Expire(c, i)
    BY <1>2 DEF ServerStep, Server!Next
  <2>2. CASE Server!Reserve(c)
    <3>1. log[c] \in Seq(Content) /\ Blank \in Content BY DEF LogInv, Content
    <3>2. log' = [log EXCEPT ![c] = Append(log[c], Blank)] BY <2>2 DEF Server!Reserve
    <3>3. Append(log[c], Blank) \in Seq(Content) BY <3>1
    <3>4. LogInv' BY <3>2, <3>3 DEF LogInv
    <3>5. ASSUME NEW d \in Circles PROVE d # c => log'[d] = log[d] BY <3>2 DEF LogInv
    <3>6. log'[c] = Append(log[c], Blank) BY <3>2 DEF LogInv
    <3>7. /\ Len(log[c]) \in Nat /\ Len(log'[c]) = Len(log[c]) + 1
          /\ DOMAIN log[c] = 1 .. Len(log[c]) /\ DOMAIN log'[c] = 1 .. Len(log'[c])
          /\ \A i \in DOMAIN log[c] : log'[c][i] = log[c][i]
      BY <3>1, <3>3, <3>6
    <3>8. ASSUME NEW d \in Circles
          PROVE  /\ Len(log[d]) \in Nat /\ Len(log'[d]) \in Nat
                 /\ DOMAIN log[d] = 1 .. Len(log[d]) /\ DOMAIN log'[d] = 1 .. Len(log'[d])
      BY <3>4 DEF LogInv
    <3> QED BY <3>4, <3>5, <3>7, <3>8 DEF LogGrows
  <2>3. ASSUME NEW i \in DOMAIN log[c], NEW m \in Posts, Server!Publish(c, i, m)
        PROVE  LogInv' /\ LogGrows
    <3>1. log[c] \in Seq(Content) /\ m \in Content BY DEF LogInv, Content
    <3>2. log' = [log EXCEPT ![c] = [log[c] EXCEPT ![i] = m]] /\ log[c][i] = Blank
      BY <2>3 DEF Server!Publish
    <3>3. /\ [log[c] EXCEPT ![i] = m] \in Seq(Content)
          /\ Len([log[c] EXCEPT ![i] = m]) = Len(log[c])
      BY <3>1
    <3>4. LogInv' BY <3>2, <3>3 DEF LogInv
    <3>5. ASSUME NEW d \in Circles PROVE d # c => log'[d] = log[d] BY <3>2 DEF LogInv
    <3>6. log'[c] = [log[c] EXCEPT ![i] = m] BY <3>2 DEF LogInv
    <3> QED BY <3>1, <3>2, <3>3, <3>4, <3>5, <3>6 DEF LogInv, LogGrows
  <2>4. ASSUME NEW i \in DOMAIN log[c], Server!Expire(c, i) PROVE log' = log
    BY <2>4 DEF Server!Expire
  <2> QED BY <1>1, <2>1, <2>2, <2>3, <2>4
<1> QED BY <1>1, <1>2, OnlyServer

-----------------------------------------------------------------------------
(***************************************************************************)
(* The lists of poll threads.  RunPoll starts one thread for each object:  *)
(* there are enough free ones, so that there is an injection to choose.    *)
(***************************************************************************)

\* Between finite sets there is an injection from the smaller to the larger.
LEMMA InjectionExists ==
    ASSUME NEW S, NEW T, IsFiniteSet(S), IsFiniteSet(T), Cardinality(S) <= Cardinality(T)
    PROVE  Injection(S, T) # {}
<1>1. Cardinality(S) \in Nat /\ Cardinality(T) \in Nat BY FS_CardinalityType
<1>2. PICK f : f \in Bijection(1 .. Cardinality(S), S)
  BY FS_CardinalityType DEF ExistsBijection
<1>3. PICK h : h \in Bijection(1 .. Cardinality(T), T)
  BY FS_CardinalityType DEF ExistsBijection
<1>4. \A x \in S : \E i \in 1 .. Cardinality(S) : f[i] = x
  BY <1>2 DEF Bijection, Surjection
<1> DEFINE place(x) == CHOOSE i \in 1 .. Cardinality(S) : f[i] = x
           inj == [x \in S |-> h[place(x)]]
<1>5. \A x \in S : place(x) \in 1 .. Cardinality(S) /\ f[place(x)] = x BY <1>4
<1> HIDE DEF place
<1>6. \A x \in S : place(x) \in 1 .. Cardinality(T) BY <1>1, <1>5
<1>7. h \in [1 .. Cardinality(T) -> T] /\ \A i, j \in 1 .. Cardinality(T) : h[i] = h[j] => i = j
  BY <1>3 DEF Bijection, Injection, IsInjective
<1>8. inj \in [S -> T] BY <1>6, <1>7
<1>9. ASSUME NEW x \in S, NEW y \in S, inj[x] = inj[y] PROVE x = y
  BY <1>5, <1>6, <1>7, <1>9
<1>10. inj \in Injection(S, T) BY <1>8, <1>9 DEF Injection, IsInjective
<1> QED BY <1>10

\* A poll keeps the objects, and starts each thread for a registered circle.
LEMMA RunPollEffect ==
    ASSUME ListInv, RunPoll
    PROVE  /\ DOMAIN pollList' = DOMAIN pollList
           /\ \A t \in Threads : StartedFor(pollList', t) \subseteq Circles
           /\ \A t \in Running : StartedFor(pollList', t) = {}
<1>1. IsFiniteSet(Threads \ Running)
  BY ThreadsAssumption, FS_Subset
<1>2. Injection(DOMAIN pollList, Threads \ Running) # {}
  BY <1>1, InjectionExists DEF RunPoll, ListInv
<1>3. pollList' \in Injection(DOMAIN pollList, Threads \ Running)
  BY <1>2 DEF RunPoll
<1>4. DOMAIN pollList' = DOMAIN pollList BY <1>3 DEF Injection
<1>5. \A o \in DOMAIN pollList' : pollList'[o] \notin Running BY <1>3, <1>4 DEF Injection
<1>6. \A t \in Running : StartedFor(pollList', t) = {} BY <1>5 DEF StartedFor
<1> QED BY <1>4, <1>6 DEF StartedFor, ListInv

\* Every list of poll threads names objects of registered circles.
LEMMA ListStep ==
    ASSUME ListInv, [Next]_vars
    PROVE  ListInv'
<1> USE DEF service
<1>1. CASE UNCHANGED <<gen, pollList>> BY <1>1 DEF ListInv
<1>2. CASE RunPoll BY <1>2, RunPollEffect DEF ListInv, RunPoll
<1>3. ASSUME NEW g \in Nat
      PROVE  /\ DOMAIN Registered(g) = Circles \X {g}
             /\ IsFiniteSet(Circles \X {g})
             /\ Circles \X {g} \subseteq Circles \X Nat
  <2>1. IsFiniteSet(Circles \X {g}) BY FiniteAssumption, FS_Singleton, FS_Product
  <2> QED BY <2>1 DEF Registered
<1>4. CASE Die BY <1>3, <1>4 DEF Die, ListInv
<1>5. CASE InitService
  <2>1. gen' = gen + 1 /\ gen + 1 \in Nat /\ pollList' = Registered(gen + 1)
    BY <1>5 DEF InitService, ListInv
  <2> QED BY <1>3, <2>1 DEF ListInv
<1>6. CASE InitCircleStore
  <2>1. gen' = gen + 1 /\ gen + 1 \in Nat BY <1>6 DEF InitCircleStore, ListInv
  <2>2. DOMAIN pollList' = DOMAIN pollList \cup Circles \X {gen + 1}
    BY <1>6 DEF InitCircleStore
  <2>3. IsFiniteSet(DOMAIN pollList \cup Circles \X {gen + 1})
    BY <1>3, <2>1, FS_Union DEF ListInv
  <2> QED BY <1>3, <2>1, <2>2, <2>3 DEF ListInv
<1>7. ASSUME NEW k \in Polls, CheckTor(k) \/ TimeLimit(k) \/ EndMonitor(k)
      PROVE  UNCHANGED <<gen, pollList>>
  BY <1>7 DEF CheckTor, TimeLimit, EndMonitor
<1>8. CASE StopService BY <1>1, <1>8 DEF StopService
<1>9. ASSUME NEW t \in Threads, ThreadStep(t) PROVE Die \/ UNCHANGED <<gen, pollList>>
  BY <1>9 DEF ThreadStep, ThreadOnly, Wait, ReadLastId, AskLastId, AskFails, AskGetsNull,
     CheckInterrupt, StoreLastId, CheckInterrupt2, FetchMsg, FetchFails, FetchGetsNull,
     OpenFile, WriteFile, SaveFails, EndThread
<1>10. CASE JoinCircle BY <1>1, <1>10 DEF JoinCircle
<1>11. ASSUME NEW d \in Lists, StartRange(d) \/ CountFromTor(d) \/ AbortWait(d) \/ CallStep(d)
       PROVE  UNCHANGED <<gen, pollList>>
  BY <1>11 DEF StartRange, StartCall, CountFromTor, AbortWait, CallStep, CallOnly, Check, Add,
     AskRange, AskRangeFails, OpenRangeFile, WriteRangeFile, OpenRangeFails, WriteRangeFails,
     EndRange, UpdateLastMessage
<1>12. CASE ServerStep BY <1>1, <1>12 DEF ServerStep
<1>13. CASE Crash BY <1>4, <1>13 DEF Crash
<1>14. CASE UNCHANGED vars BY <1>1, <1>14 DEF vars
<1> QED BY <1>1, <1>2, <1>4, <1>5, <1>6, <1>7, <1>8, <1>9, <1>10, <1>11, <1>12, <1>13, <1>14
    DEF Next

-----------------------------------------------------------------------------
(***************************************************************************)
(* The poll threads.                                                       *)
(***************************************************************************)

\* A thread that holds what it held stays right while the log grows.
LEMMA ThreadCarried ==
    ASSUME LogGrows, NEW t \in Threads, ThreadOK(t),
           DOMAIN th'[t] = DOMAIN th[t],
           th'[t].pc = th[t].pc, th'[t].circle = th[t].circle, th'[t].last = th[t].last,
           th'[t].next = th[t].next, th'[t].msg = th[t].msg
    PROVE  ThreadOK(t)'
<1>1. CASE th[t].pc = "off" BY <1>1 DEF ThreadOK
<1>2. CASE th[t].pc # "off"
  <2> DEFINE c == th[t].circle
  <2>1. c \in Circles /\ th[t].last \in 0 .. Len(log[c]) BY <1>2 DEF ThreadOK
  <2>2. th[t].last \in 0 .. Len(log'[c]) BY <2>1 DEF LogGrows
  <2>3. th[t].pc \in {"save", "write"} =>
            th[t].next \in DOMAIN log'[c] /\ th[t].msg = log'[c][th[t].next] /\ th[t].msg # Blank
    BY <2>1 DEF ThreadOK, LogGrows
  <2> QED BY <2>1, <2>2, <2>3 DEF ThreadOK
<1> QED BY <1>1, <1>2

\* A thread that ends, or that dies with the process, holds nothing.
LEMMA ThreadIdle ==
    ASSUME NEW t \in Threads, NEW c, th'[t] = Idle(c)
    PROVE  ThreadOK(t)'
BY DEF ThreadOK, Idle

\* The threads keep what they hold when they are interrupted.
LEMMA InterruptKeeps ==
    ASSUME LogGrows, ThreadInv, NEW S, th' = Interrupt(S)
    PROVE  ThreadInv'
<1>1. ASSUME NEW t \in Threads PROVE ThreadOK(t)'
  <2>1. th'[t] = [th[t] EXCEPT !.interrupted = th[t].interrupted \/ t \in S] BY DEF Interrupt
  <2>2. ThreadOK(t) BY DEF ThreadInv
  <2>3. DOMAIN th[t] = DOMAIN Idle(Blank) BY <2>2 DEF ThreadOK
  <2> QED BY <2>1, <2>2, <2>3, ThreadCarried DEF Idle
<1> QED BY <1>1 DEF ThreadInv, Interrupt

\* One thread moves and the others hold what they held.
LEMMA OneThread ==
    ASSUME LogGrows, ThreadInv, NEW t \in Threads, ThreadOK(t)',
           DOMAIN th' = DOMAIN th, \A u \in Threads \ {t} : th'[u] = th[u]
    PROVE  ThreadInv'
<1>1. ASSUME NEW u \in Threads \ {t} PROVE ThreadOK(u)'
  BY <1>1, ThreadCarried DEF ThreadInv
<1> QED BY <1>1 DEF ThreadInv

\* A step of a poll thread leaves it with what is true of the server.
LEMMA ThreadMoves ==
    ASSUME LogInv, LogGrows, ThreadInv, NEW t \in Threads, ThreadStep(t)
    PROVE  ThreadInv'
<1> DEFINE c == th[t].circle
<1>1. ThreadOK(t) /\ DOMAIN th = Threads /\ DOMAIN th[t] = DOMAIN Idle(Blank)
  BY DEF ThreadInv, ThreadOK
<1>2. log' = log /\ (c \in Circles => Len(log[c]) \in Nat)
  BY ThreadReads DEF LogInv
<1>3. CASE Ends(t)
  <2>1. th'[t] = Idle(Blank) BY <1>1, <1>3 DEF Ends
  <2> QED BY <1>1, <1>3, <2>1, ThreadIdle, OneThread DEF Ends
<1>4. ASSUME NEW l, l # "save", l = "write" => At(t, "save"), th[t].pc # "off", Goto(t, l)
      PROVE  ThreadInv'
  <2>1. th'[t] = [th[t] EXCEPT !.pc = l] BY <1>1, <1>4 DEF Goto
  <2>2. ThreadOK(t)' BY <1>1, <1>2, <1>4, <2>1 DEF ThreadOK, Idle, At
  <2> QED BY <1>1, <1>4, <2>2, OneThread DEF Goto
<1>5. CASE Wait(t) BY <1>3, <1>4, <1>5 DEF Wait, At
<1>6. CASE ReadLastId(t)
  <2>1. th'[t] = [th[t] EXCEPT !.pc = "ask", !.start = lastId[c]]
    BY <1>1, <1>6 DEF ReadLastId
  <2>2. ThreadOK(t)' BY <1>1, <1>2, <1>6, <2>1 DEF ThreadOK, Idle, At, ReadLastId
  <2> QED BY <1>1, <1>6, <2>2, OneThread DEF ReadLastId
<1>7. CASE AskLastId(t)
  <2>1. th'[t] = [th[t] EXCEPT !.pc = "store", !.last = Len(log[c]), !.interrupted = Kept(t)]
    BY <1>1, <1>7 DEF AskLastId
  <2>2. ThreadOK(t)' BY <1>1, <1>2, <1>7, <2>1 DEF ThreadOK, Idle, At, AskLastId
  <2> QED BY <1>1, <1>7, <2>2, OneThread DEF AskLastId
<1>8. CASE AskFails(t)
  <2>1. CASE th[t].tries = MaxRetries BY <1>3, <1>8, <2>1 DEF AskFails
  <2>2. CASE th[t].tries # MaxRetries
    <3>1. th' = [th EXCEPT ![t].tries = @ + 1, ![t].interrupted = Kept(t)]
      BY <1>8, <2>2 DEF AskFails
    <3>2. th'[t] = [th[t] EXCEPT !.tries = @ + 1, !.interrupted = Kept(t)]
      BY <1>1, <3>1
    <3>3. ThreadOK(t)' BY <1>1, <3>2, ThreadCarried DEF Idle
    <3> QED BY <1>1, <3>1, <3>3, OneThread
  <2> QED BY <2>1, <2>2
<1>9. CASE AskGetsNull(t) \/ CheckInterrupt(t) \/ EndThread(t)
  BY <1>3, <1>9 DEF AskGetsNull, CheckInterrupt, EndThread
<1>10. CASE StoreLastId(t)
  <2>1. th' = [th EXCEPT ![t].pc = "stored", ![t].next = th[t].last]
    BY <1>10 DEF StoreLastId
  <2>2. th'[t] = [th[t] EXCEPT !.pc = "stored", !.next = th[t].last]
    BY <1>1, <2>1
  <2>3. ThreadOK(t)' BY <1>1, <1>2, <1>10, <2>2 DEF ThreadOK, Idle, At, StoreLastId
  <2> QED BY <1>1, <2>1, <2>3, OneThread
<1>11. CASE CheckInterrupt2(t) BY <1>3, <1>4, <1>11 DEF CheckInterrupt2, At
<1>12. CASE FetchMsg(t)
  <2>1. th' = [th EXCEPT ![t].pc = "save", ![t].msg = log[c][th[t].next]]
    BY <1>12 DEF FetchMsg
  <2>2. th'[t] = [th[t] EXCEPT !.pc = "save", !.msg = log[c][th[t].next]]
    BY <1>1, <2>1
  <2>3. th[t].next \in DOMAIN log[c] /\ log[c][th[t].next] # Blank
    BY <1>12 DEF FetchMsg, Served
  <2>4. ThreadOK(t)' BY <1>1, <1>2, <1>12, <2>2, <2>3 DEF ThreadOK, Idle, At, FetchMsg
  <2> QED BY <1>1, <2>1, <2>4, OneThread
<1>13. CASE FetchFails(t)
  <2>1. th' = [th EXCEPT ![t].next = @ - 1] BY <1>13 DEF FetchFails
  <2>2. th'[t] = [th[t] EXCEPT !.next = @ - 1] BY <1>1, <2>1
  <2>3. ThreadOK(t)' BY <1>1, <1>2, <1>13, <2>2 DEF ThreadOK, Idle, At, FetchFails
  <2> QED BY <1>1, <2>1, <2>3, OneThread
<1>14. CASE FetchGetsNull(t)
  BY <1>14, ThreadIdle DEF FetchGetsNull, Die, ThreadInv
<1>15. CASE OpenFile(t)
  BY <1>4, <1>15 DEF OpenFile, At
<1>16. CASE WriteFile(t) \/ SaveFails(t)
  <2>1. th' = [th EXCEPT ![t].pc = "fetch", ![t].next = @ - 1, ![t].count = @ + 1]
    BY <1>16 DEF WriteFile, SaveFails
  <2>2. th'[t] = [th[t] EXCEPT !.pc = "fetch", !.next = @ - 1, !.count = @ + 1]
    BY <1>1, <2>1
  <2>3. ThreadOK(t)' BY <1>1, <1>2, <1>16, <2>2 DEF ThreadOK, Idle, At, WriteFile, SaveFails
  <2> QED BY <1>1, <2>1, <2>3, OneThread
<1> QED
  BY <1>5, <1>6, <1>7, <1>8, <1>9, <1>10, <1>11, <1>12, <1>13, <1>14, <1>15, <1>16
  DEF ThreadStep

\* Every poll thread holds what is true of the server.
LEMMA ThreadInvStep ==
    ASSUME LogInv, ListInv, ThreadInv, [Next]_vars
    PROVE  ThreadInv'
<1>1. LogGrows BY LogStep
<1>2. CASE th' = th BY <1>1, <1>2, ThreadCarried DEF ThreadInv
<1>3. CASE \E S : th' = Interrupt(S) BY <1>1, <1>3, InterruptKeeps
<1>4. CASE Die BY <1>4, ThreadIdle DEF Die, ThreadInv
<1>5. CASE RunPoll
  <2>1. ASSUME NEW t \in Threads PROVE ThreadOK(t)'
    <3>1. CASE StartedFor(pollList', t) = {}
      <4>1. th'[t] = [th[t] EXCEPT !.interrupted = th[t].interrupted \/ t \in Listed]
        BY <1>5, <3>1 DEF RunPoll, Interrupt
      <4>2. ThreadOK(t) /\ DOMAIN th[t] = DOMAIN Idle(Blank) BY DEF ThreadInv, ThreadOK
      <4> QED BY <1>1, <4>1, <4>2, ThreadCarried DEF Idle
    <3>2. CASE StartedFor(pollList', t) # {}
      <4>1. PICK c \in Circles : th'[t] = NewThread(c)
        BY <1>5, <3>2, RunPollEffect DEF RunPoll
      <4>2. Len(log'[c]) \in Nat BY <1>1 DEF LogGrows
      <4> QED BY <4>1, <4>2 DEF ThreadOK, NewThread, Idle
    <3> QED BY <3>1, <3>2
  <2> QED BY <1>5, <2>1 DEF ThreadInv, RunPoll
<1>6. ASSUME NEW k \in Polls, CheckTor(k) \/ TimeLimit(k) \/ EndMonitor(k)
      PROVE  th' = th \/ th' = Interrupt(Listed)
  BY <1>6 DEF CheckTor, TimeLimit, EndMonitor
<1>7. CASE StopService BY <1>3, <1>7 DEF StopService
<1>8. ASSUME NEW t \in Threads, ThreadStep(t) PROVE ThreadInv' BY <1>1, <1>8, ThreadMoves
<1>9. CASE JoinCircle \/ InitService \/ InitCircleStore
  BY <1>2, <1>9 DEF JoinCircle, InitService, InitCircleStore
<1>10. ASSUME NEW d \in Lists, StartRange(d) \/ CountFromTor(d) \/ AbortWait(d) \/ CallStep(d)
       PROVE  th' = th
  BY <1>10 DEF StartRange, StartCall, CountFromTor, AbortWait, CallStep, CallOnly, Check, Add,
     AskRange, AskRangeFails, OpenRangeFile, WriteRangeFile, OpenRangeFails, WriteRangeFails,
     EndRange, UpdateLastMessage
<1>11. CASE ServerStep BY <1>2, <1>11 DEF ServerStep
<1>12. CASE Crash BY <1>4, <1>12 DEF Crash
<1>13. CASE UNCHANGED vars BY <1>2, <1>13 DEF vars
<1> QED BY <1>2, <1>3, <1>5, <1>6, <1>7, <1>8, <1>9, <1>10, <1>11, <1>12, <1>13 DEF Next

-----------------------------------------------------------------------------
(***************************************************************************)
(* The calls of the screens.                                               *)
(***************************************************************************)

\* What a step of a screen's thread leaves alone.
LEMMA ScreenReads ==
    ASSUME NEW d \in Lists, StartRange(d) \/ CountFromTor(d) \/ AbortWait(d) \/ CallStep(d)
    PROVE  log' = log
BY DEF server, StartRange, StartCall, CountFromTor, AbortWait, CallStep, CallOnly, Check, Add,
   AskRange, AskRangeFails, OpenRangeFile, WriteRangeFile, OpenRangeFails, WriteRangeFails,
   EndRange, UpdateLastMessage

\* A call that holds what it held stays right while the log grows: an answer with
\* no message under an id may meanwhile be out of date, but never wrong.
LEMMA CallCarried ==
    ASSUME LogGrows, NEW d \in Lists, CallOK(d), call'[d] = call[d]
    PROVE  CallOK(d)'
<1> DEFINE c == call[d].obj[1]
<1>1. CASE call[d].pc = "idle" BY <1>1 DEF CallOK
<1>2. CASE call[d].pc # "idle"
  <2>1. c \in Circles BY <1>2 DEF CallOK
  <2>2. DOMAIN log[c] \subseteq DOMAIN log'[c] /\ 0 .. Len(log[c]) \subseteq 0 .. Len(log'[c])
    BY <2>1 DEF LogGrows
  <2>3. \A i \in DOMAIN log[c] : \A m : m \in {Blank, log[c][i]} => m \in {Blank, log'[c][i]}
    BY <2>1 DEF LogGrows
  <2> QED BY <2>1, <2>2, <2>3 DEF CallOK
<1> QED BY <1>1, <1>2

\* A call that ends, or that dies with the process, holds nothing.
LEMMA CallIdle ==
    ASSUME NEW d \in Lists, call'[d] = NoCall
    PROVE  CallOK(d)'
BY DEF CallOK, NoCall

\* One call moves and the others hold what they held.
LEMMA OneCall ==
    ASSUME LogGrows, CallInv, NEW d \in Lists, CallOK(d)',
           DOMAIN call' = DOMAIN call, \A e \in Lists \ {d} : call'[e] = call[e]
    PROVE  CallInv'
<1>1. ASSUME NEW e \in Lists \ {d} PROVE CallOK(e)' BY <1>1, CallCarried DEF CallInv
<1> QED BY <1>1 DEF CallInv

\* A step of a screen's thread leaves its call with what is true of the server.
LEMMA CallMoves ==
    ASSUME LogInv, LogGrows, CallInv, NEW d \in Lists,
           StartRange(d) \/ CountFromTor(d) \/ AbortWait(d) \/ CallStep(d)
    PROVE  CallInv'
<1> DEFINE c == call[d].obj[1]
<1>1. CallOK(d) /\ DOMAIN call = Lists /\ DOMAIN call[d] = DOMAIN NoCall
  BY DEF CallInv, CallOK
<1>2. log' = log /\ \A b \in Circles : Len(log[b]) \in Nat /\ DOMAIN log[b] = 1 .. Len(log[b])
  BY ScreenReads DEF LogGrows
<1>3. CASE call' = [call EXCEPT ![d] = NoCall]
  BY <1>1, <1>3, CallIdle, OneCall
<1>4. CASE StartRange(d)
  <2>1. PICK b \in Circles : \E top \in DOMAIN log[b] : \E delta \in 0 .. MaxIds :
            StartCall(d, [NoCall EXCEPT !.pc = "check", !.obj = <<b, gen>>,
                                        !.top = top, !.bottom = Clip(top - delta)])
    BY <1>4 DEF StartRange
  <2>2. PICK top \in DOMAIN log[b] : \E delta \in 0 .. MaxIds :
            StartCall(d, [NoCall EXCEPT !.pc = "check", !.obj = <<b, gen>>,
                                        !.top = top, !.bottom = Clip(top - delta)])
    BY <2>1
  <2>3. PICK delta \in 0 .. MaxIds :
            StartCall(d, [NoCall EXCEPT !.pc = "check", !.obj = <<b, gen>>,
                                        !.top = top, !.bottom = Clip(top - delta)])
    BY <2>2
  <2> DEFINE new == [NoCall EXCEPT !.pc = "check", !.obj = <<b, gen>>,
                                   !.top = top, !.bottom = Clip(top - delta)]
  <2>4. call' = [call EXCEPT ![d] = new] BY <2>3 DEF StartCall
  <2>5. delta \in Int /\ top \in Int BY <1>2
  <2>6. Clip(top - delta) \in Nat \ {0} BY <2>5 DEF Clip
  <2>7. /\ DOMAIN new = DOMAIN NoCall /\ new.pc = "check" /\ new.obj[1] = b
        /\ new.top = top /\ new.bottom = Clip(top - delta)
    BY DEF NoCall
  <2> HIDE DEF new
  <2>8. call'[d] = new BY <1>1, <2>4
  <2>9. CallOK(d)' BY <1>2, <2>6, <2>7, <2>8 DEF CallOK
  <2> QED BY <1>1, <2>4, <2>9, OneCall
<1>5. CASE CountFromTor(d)
  <2>1. PICK b \in Circles :
            StartCall(d, [NoCall EXCEPT !.pc = "told", !.obj = <<b, gen>>, !.told = Len(log[b])])
    BY <1>5 DEF CountFromTor
  <2> DEFINE new == [NoCall EXCEPT !.pc = "told", !.obj = <<b, gen>>, !.told = Len(log[b])]
  <2>2. call' = [call EXCEPT ![d] = new] BY <2>1 DEF StartCall
  <2>3. /\ DOMAIN new = DOMAIN NoCall /\ new.pc = "told" /\ new.obj[1] = b
        /\ new.told = Len(log[b])
    BY DEF NoCall
  <2> HIDE DEF new
  <2>4. call'[d] = new BY <1>1, <2>2
  <2>5. CallOK(d)' BY <1>2, <2>3, <2>4 DEF CallOK
  <2> QED BY <1>1, <2>2, <2>5, OneCall
<1>6. CASE AbortWait(d) BY <1>3, <1>6 DEF AbortWait
<1>7. CASE Check(d)
  <2>1. call' = [call EXCEPT ![d].pc = "add"] BY <1>7 DEF Check
  <2>2. call'[d] = [call[d] EXCEPT !.pc = "add"] BY <1>1, <2>1
  <2>3. CallOK(d)' BY <1>1, <1>2, <1>7, <2>2 DEF CallOK, NoCall, Check, InCall
  <2> QED BY <1>1, <2>1, <2>3, OneCall
<1>8. CASE Add(d)
  <2>1. call' = [call EXCEPT ![d].pc = "ask"] BY <1>8 DEF Add
  <2>2. call'[d] = [call[d] EXCEPT !.pc = "ask"] BY <1>1, <2>1
  <2>3. CallOK(d)' BY <1>1, <1>2, <1>8, <2>2 DEF CallOK, NoCall, Add, InCall
  <2> QED BY <1>1, <2>1, <2>3, OneCall
<1>9. CASE AskRange(d)
  <2> DEFINE told == Answer(c, call[d].top, call[d].bottom)
  <2>1. call' = [call EXCEPT ![d].pc = "save", ![d].todo = told] BY <1>9 DEF AskRange
  <2>2. call'[d] = [call[d] EXCEPT !.pc = "save", !.todo = told] BY <1>1, <2>1
  <2>3. c \in Circles /\ call[d].top \in DOMAIN log[c] /\ call[d].bottom \in Nat \ {0}
    BY <1>1, <1>9 DEF CallOK, AskRange, InCall
  <2>4. \A i \in call[d].bottom .. call[d].top : i \in DOMAIN log[c] BY <1>2, <2>3
  <2>5. \A i \in DOMAIN told : i \in DOMAIN log[c] /\ told[i] \in {Blank, log[c][i]}
    BY <2>4 DEF Answer
  <2> HIDE DEF told
  <2>6. CallOK(d)' BY <1>1, <1>2, <2>2, <2>3, <2>5 DEF CallOK, NoCall
  <2> QED BY <1>1, <2>1, <2>6, OneCall
<1>10. CASE AskRangeFails(d) \/ EndRange(d)
  BY <1>3, <1>10 DEF AskRangeFails, EndRange, EndCall
<1>11. CASE OpenRangeFile(d)
  <2>1. PICK i \in DOMAIN call[d].todo :
            InCall(d, "save") /\ call' = [call EXCEPT ![d].pc = "write", ![d].next = i]
    BY <1>11 DEF OpenRangeFile
  <2>2. call'[d] = [call[d] EXCEPT !.pc = "write", !.next = i] BY <1>1, <2>1
  <2>3. CallOK(d)' BY <1>1, <1>2, <2>1, <2>2 DEF CallOK, NoCall, InCall
  <2> QED BY <1>1, <2>1, <2>3, OneCall
<1>12. CASE WriteRangeFile(d) \/ WriteRangeFails(d)
  <2> DEFINE left == Restrict(call[d].todo, DOMAIN call[d].todo \ {call[d].next})
  <2>1. call' = [call EXCEPT ![d].pc = "save", ![d].next = 0, ![d].todo = left]
    BY <1>12 DEF WriteRangeFile, WriteRangeFails
  <2>2. call'[d] = [call[d] EXCEPT !.pc = "save", !.next = 0, !.todo = left]
    BY <1>1, <2>1
  <2>3. \A i \in DOMAIN left : i \in DOMAIN call[d].todo /\ left[i] = call[d].todo[i]
    BY DEF Restrict
  <2> HIDE DEF left
  <2>4. CallOK(d)'
    BY <1>1, <1>2, <1>12, <2>2, <2>3
    DEF CallOK, NoCall, WriteRangeFile, WriteRangeFails, InCall
  <2> QED BY <1>1, <2>1, <2>4, OneCall
<1>13. CASE UpdateLastMessage(d) BY <1>3, <1>13 DEF UpdateLastMessage
<1>14. CASE OpenRangeFails(d)
  <2>1. PICK i \in DOMAIN call[d].todo :
            /\ InCall(d, "save")
            /\ call' = [call EXCEPT ![d].todo = Restrict(@, DOMAIN @ \ {i})]
    BY <1>14 DEF OpenRangeFails
  <2> DEFINE left == Restrict(call[d].todo, DOMAIN call[d].todo \ {i})
  <2>2. call' = [call EXCEPT ![d].todo = left] BY <2>1
  <2>3. call'[d] = [call[d] EXCEPT !.todo = left] BY <1>1, <2>2
  <2>4. \A j \in DOMAIN left : j \in DOMAIN call[d].todo /\ left[j] = call[d].todo[j]
    BY DEF Restrict
  <2> HIDE DEF left
  <2>5. /\ DOMAIN call'[d] = DOMAIN NoCall /\ call'[d].obj[1] = c
        /\ call'[d].pc = "save" /\ call'[d].todo = left
    BY <1>1, <2>1, <2>3 DEF NoCall, InCall
  <2>6. /\ c \in Circles
        /\ \A j \in DOMAIN call[d].todo :
               j \in DOMAIN log[c] /\ call[d].todo[j] \in {Blank, log[c][j]}
    BY <1>1, <2>1 DEF CallOK, InCall
  <2>7. CallOK(d)' BY <1>2, <2>4, <2>5, <2>6 DEF CallOK
  <2> QED BY <1>1, <2>2, <2>7, OneCall
<1> QED
  BY <1>4, <1>5, <1>6, <1>7, <1>8, <1>9, <1>10, <1>11, <1>12, <1>13, <1>14 DEF CallStep

\* Every call of a screen holds what is true of the server.
LEMMA CallInvStep ==
    ASSUME LogInv, CallInv, [Next]_vars
    PROVE  CallInv'
<1> USE DEF screens
<1>1. LogGrows BY LogStep
<1>2. CASE call' = call BY <1>1, <1>2, CallCarried DEF CallInv
<1>3. CASE Die BY <1>3, CallIdle DEF Die, CallInv
<1>4. CASE RunPoll BY <1>2, <1>4 DEF RunPoll
<1>5. ASSUME NEW k \in Polls, CheckTor(k) \/ TimeLimit(k) \/ EndMonitor(k) PROVE call' = call
  BY <1>5 DEF CheckTor, TimeLimit, EndMonitor
<1>6. CASE StopService BY <1>2, <1>6 DEF StopService
<1>7. ASSUME NEW t \in Threads, ThreadStep(t) PROVE Die \/ call' = call
  BY <1>7 DEF ThreadStep, ThreadOnly, Wait, ReadLastId, AskLastId, AskFails, AskGetsNull,
     CheckInterrupt, StoreLastId, CheckInterrupt2, FetchMsg, FetchFails, FetchGetsNull,
     OpenFile, WriteFile, SaveFails, EndThread
<1>8. CASE JoinCircle \/ InitService \/ InitCircleStore
  BY <1>2, <1>8 DEF JoinCircle, InitService, InitCircleStore
<1>9. ASSUME NEW d \in Lists, StartRange(d) \/ CountFromTor(d) \/ AbortWait(d) \/ CallStep(d)
      PROVE  CallInv'
  BY <1>1, <1>9, CallMoves
<1>10. CASE ServerStep BY <1>2, <1>10 DEF ServerStep
<1>11. CASE Crash BY <1>3, <1>11 DEF Crash
<1>12. CASE UNCHANGED vars BY <1>2, <1>12 DEF vars
<1> QED BY <1>2, <1>3, <1>4, <1>5, <1>6, <1>7, <1>8, <1>9, <1>10, <1>11, <1>12 DEF Next

-----------------------------------------------------------------------------
(***************************************************************************)
(* What threads and calls store on the disk.                               *)
(***************************************************************************)

\* The last id stored was the server's when the thread or the screen was told it.
LEMMA LastIdStep ==
    ASSUME LogInv, LastIdInv, ThreadInv, CallInv, [Next]_vars
    PROVE  LastIdInv'
<1> USE DEF disk
<1>1. LogGrows BY LogStep
<1>2. CASE lastId' = lastId
  BY <1>1, <1>2 DEF LastIdInv, LastIdWithinServer, LogGrows
<1>3. ASSUME NEW c \in Circles, NEW n \in 0 .. Len(log[c]), lastId' = [lastId EXCEPT ![c] = n]
      PROVE  LastIdInv'
  <2>1. n \in Nat /\ n <= Len(log'[c]) BY <1>1 DEF LogGrows
  <2>2. \A b \in Circles : lastId'[b] = IF b = c THEN n ELSE lastId[b] BY <1>3 DEF LastIdInv
  <2> QED BY <1>1, <1>3, <2>1, <2>2 DEF LastIdInv, LastIdWithinServer, LogGrows
<1>4. ASSUME NEW t \in Threads, StoreLastId(t) PROVE LastIdInv'
  <2> DEFINE c == th[t].circle
  <2>1. c \in Circles /\ th[t].last \in 0 .. Len(log[c])
    BY <1>4 DEF StoreLastId, At, ThreadInv, ThreadOK
  <2>2. lastId[c] \in 0 .. Len(log[c])
    BY <1>1, <2>1 DEF LastIdInv, LastIdWithinServer, LogGrows
  <2>3. LaterId(th[t]) \in 0 .. Len(log[c]) BY <2>1, <2>2 DEF LaterId
  <2> QED BY <1>3, <1>4, <2>1, <2>3 DEF StoreLastId
<1>5. ASSUME NEW d \in Lists, UpdateLastMessage(d) PROVE LastIdInv'
  <2>1. call[d].obj[1] \in Circles /\ call[d].told \in 0 .. Len(log[call[d].obj[1]])
    BY <1>5 DEF UpdateLastMessage, InCall, CallInv, CallOK
  <2> QED BY <1>3, <1>5, <2>1 DEF UpdateLastMessage
<1>6. CASE RunPoll \/ StopService \/ JoinCircle \/ InitService \/ InitCircleStore
  BY <1>2, <1>6 DEF RunPoll, StopService, JoinCircle, InitService, InitCircleStore
<1>7. ASSUME NEW k \in Polls, CheckTor(k) \/ TimeLimit(k) \/ EndMonitor(k)
      PROVE  lastId' = lastId
  BY <1>7 DEF CheckTor, TimeLimit, EndMonitor
<1>8. ASSUME NEW t \in Threads, ThreadStep(t), ~ StoreLastId(t) PROVE lastId' = lastId
  BY <1>8 DEF ThreadStep, ThreadOnly, Wait, ReadLastId, AskLastId, AskFails, AskGetsNull,
     CheckInterrupt, CheckInterrupt2, FetchMsg, FetchFails, FetchGetsNull, Die,
     OpenFile, WriteFile, SaveFails, EndThread
<1>9. ASSUME NEW d \in Lists, StartRange(d) \/ CountFromTor(d) \/ AbortWait(d) \/ CallStep(d),
             ~ UpdateLastMessage(d)
      PROVE  lastId' = lastId
  BY <1>9 DEF StartRange, StartCall, CountFromTor, AbortWait, CallStep, Check, Add,
     AskRange, AskRangeFails, OpenRangeFile, WriteRangeFile, OpenRangeFails, WriteRangeFails, EndRange
<1>10. CASE ServerStep BY <1>2, <1>10 DEF ServerStep
<1>11. CASE Crash BY <1>2, <1>11 DEF Crash, Die
<1>12. CASE UNCHANGED vars BY <1>2, <1>12 DEF vars
<1> QED
  BY <1>2, <1>4, <1>5, <1>6, <1>7, <1>8, <1>9, <1>10, <1>11, <1>12 DEF Next

\* A file that is opened or written is the server's, and the log grows under the rest.
LEMMA FileKept ==
    ASSUME LogGrows, FilesInv, NEW c \in Circles, NEW i \in DOMAIN log[c],
           NEW m \in {Blank, log[c][i]}, SaveFile(c, i, m)
    PROVE  FilesInv'
<1>1. DOMAIN files' = Circles BY DEF SaveFile, FilesInv
<1>2. files'[c] = [j \in DOMAIN files[c] \cup {i} |-> IF j = i THEN m ELSE files[c][j]]
  BY DEF SaveFile, FilesInv
<1>3. \A b \in Circles \ {c} : files'[b] = files[b] BY DEF SaveFile, FilesInv
<1>4. ASSUME NEW b \in Circles, NEW j \in DOMAIN files'[b]
      PROVE  j \in DOMAIN log[b] /\ files'[b][j] \in {Blank, log[b][j]}
  BY <1>2, <1>3 DEF FilesInv, KeptIsServers
<1>5. ASSUME NEW b \in Circles, NEW j \in DOMAIN files'[b]
      PROVE  j \in DOMAIN log'[b] /\ files'[b][j] \in {Blank, log'[b][j]}
  BY <1>4 DEF LogGrows
<1> QED BY <1>1, <1>5 DEF FilesInv, KeptIsServers

\* The files of a circle hold what the server has under their ids.
LEMMA FilesStep ==
    ASSUME LogInv, FilesInv, ThreadInv, CallInv, [Next]_vars
    PROVE  FilesInv'
<1> USE DEF disk
<1>1. LogGrows BY LogStep
<1>2. CASE files' = files BY <1>1, <1>2 DEF FilesInv, KeptIsServers, LogGrows
<1>3. ASSUME NEW t \in Threads, OpenFile(t) \/ WriteFile(t) PROVE FilesInv'
  <2> DEFINE r == th[t]
  <2>1. r.circle \in Circles /\ r.next \in DOMAIN log[r.circle] /\ r.msg = log[r.circle][r.next]
    BY <1>3 DEF OpenFile, WriteFile, At, ThreadInv, ThreadOK
  <2>2. SaveFile(r.circle, r.next, Blank) \/ SaveFile(r.circle, r.next, r.msg)
    BY <1>3 DEF OpenFile, WriteFile
  <2> QED BY <1>1, <2>1, <2>2, FileKept
<1>4. ASSUME NEW d \in Lists, OpenRangeFile(d) PROVE FilesInv'
  <2>1. PICK i \in DOMAIN call[d].todo : InCall(d, "save") /\ SaveFile(call[d].obj[1], i, Blank)
    BY <1>4 DEF OpenRangeFile
  <2>2. call[d].obj[1] \in Circles /\ i \in DOMAIN log[call[d].obj[1]]
    BY <2>1 DEF InCall, CallInv, CallOK
  <2> QED BY <1>1, <2>1, <2>2, FileKept
<1>5. ASSUME NEW d \in Lists, WriteRangeFile(d) PROVE FilesInv'
  <2> DEFINE r == call[d]
             c == r.obj[1]
  <2>1. InCall(d, "write") /\ SaveFile(c, r.next, r.todo[r.next]) BY <1>5 DEF WriteRangeFile
  <2>2. /\ c \in Circles /\ r.next \in DOMAIN r.todo
        /\ \A i \in DOMAIN r.todo : i \in DOMAIN log[c] /\ r.todo[i] \in {Blank, log[c][i]}
    BY <2>1 DEF InCall, CallInv, CallOK
  <2> QED BY <1>1, <2>1, <2>2, FileKept
<1>6. CASE RunPoll \/ StopService \/ JoinCircle \/ InitService \/ InitCircleStore
  BY <1>2, <1>6 DEF RunPoll, StopService, JoinCircle, InitService, InitCircleStore
<1>7. ASSUME NEW k \in Polls, CheckTor(k) \/ TimeLimit(k) \/ EndMonitor(k)
      PROVE  files' = files
  BY <1>7 DEF CheckTor, TimeLimit, EndMonitor
<1>8. ASSUME NEW t \in Threads, ThreadStep(t), ~ OpenFile(t), ~ WriteFile(t)
      PROVE  files' = files
  BY <1>8 DEF ThreadStep, ThreadOnly, Wait, ReadLastId, AskLastId, AskFails, AskGetsNull,
     CheckInterrupt, StoreLastId, CheckInterrupt2, FetchMsg, FetchFails, FetchGetsNull, Die,
     SaveFails, EndThread
<1>9. ASSUME NEW d \in Lists, StartRange(d) \/ CountFromTor(d) \/ AbortWait(d) \/ CallStep(d),
             ~ OpenRangeFile(d), ~ WriteRangeFile(d)
      PROVE  files' = files
  BY <1>9 DEF StartRange, StartCall, CountFromTor, AbortWait, CallStep, Check, Add,
     AskRange, AskRangeFails, OpenRangeFails, WriteRangeFails, EndRange, UpdateLastMessage
<1>10. CASE ServerStep BY <1>2, <1>10 DEF ServerStep
<1>11. CASE Crash BY <1>2, <1>11 DEF Crash, Die
<1>12. CASE UNCHANGED vars BY <1>2, <1>12 DEF vars
<1> QED
  BY <1>2, <1>3, <1>4, <1>5, <1>6, <1>7, <1>8, <1>9, <1>10, <1>11, <1>12 DEF Next

-----------------------------------------------------------------------------
(***************************************************************************)
(* linkedQueue and the downloads under way.                                *)
(***************************************************************************)
Asks(d) == call[d].pc \in {"ask", "save", "write"}
Asking(o) == {d \in Lists : Asks(d) /\ call[d].obj = o}

\* A step that lets no download begin or end leaves the queue in balance.
LEMMA QueueCarried ==
    ASSUME QueueInv, queue' = queue,
           \A d \in Lists : Asks(d)' <=> Asks(d),
           \A d \in Lists : Asks(d) => call'[d].obj = call[d].obj
    PROVE  QueueInv'
<1>1. ASSUME NEW o PROVE Asking(o)' = Asking(o) BY DEF Asking
<1> QED BY <1>1 DEF QueueInv, QueueBalanced, Asking, Asks

\* The same of a step of one screen's thread.
LEMMA QueueCarriedOne ==
    ASSUME QueueInv, CallInv, queue' = queue, NEW d \in Lists, NEW r,
           call' = [call EXCEPT ![d] = r],
           r.pc \in {"ask", "save", "write"} <=> Asks(d),
           Asks(d) => r.obj = call[d].obj
    PROVE  QueueInv'
<1>1. call'[d] = r /\ \A e \in Lists \ {d} : call'[e] = call[e] BY DEF CallInv
<1> QED BY <1>1, QueueCarried DEF Asks

\* Every path out of a download takes its object from the queue.
LEMMA EndCallBalances ==
    ASSUME QueueInv, CallInv, NEW d \in Lists, Asks(d), EndCall(d)
    PROVE  QueueInv'
<1> DEFINE obj == call[d].obj
<1>1. call'[d] = NoCall /\ \A e \in Lists \ {d} : call'[e] = call[e]
  BY DEF EndCall, CallInv
<1>2. DOMAIN queue' = Objects BY DEF EndCall, QueueInv
<1>3. ASSUME NEW o \in Objects PROVE queue'[o] = Cardinality(Asking(o)')
  <2>1. IsFiniteSet(Asking(o)) BY FiniteAssumption, FS_Subset DEF Asking
  <2>2. queue[o] = Cardinality(Asking(o)) BY DEF QueueInv, QueueBalanced, Asking, Asks
  <2>3. CASE o = obj
    <3>1. Asking(o)' = Asking(o) \ {d} /\ d \in Asking(o)
      BY <1>1, <2>3 DEF Asking, Asks, NoCall
    <3>2. Cardinality(Asking(o) \ {d}) = Cardinality(Asking(o)) - 1
      BY <2>1, <3>1, FS_RemoveElement
    <3> QED BY <2>2, <2>3, <3>1, <3>2 DEF EndCall, QueueInv
  <2>4. CASE o # obj
    <3>1. Asking(o)' = Asking(o) BY <1>1, <2>4 DEF Asking, Asks, NoCall
    <3> QED BY <2>2, <2>4, <3>1 DEF EndCall, QueueInv
  <2> QED BY <2>3, <2>4
<1> QED BY <1>2, <1>3 DEF QueueInv, QueueBalanced, Asking, Asks

\* A download is in the queue from Add on.
LEMMA AddBalances ==
    ASSUME QueueInv, CallInv, NEW d \in Lists, Add(d)
    PROVE  QueueInv'
<1> DEFINE obj == call[d].obj
<1>0. DOMAIN call = Lists /\ DOMAIN call[d] = DOMAIN NoCall BY DEF CallInv, CallOK
<1>1. /\ call'[d].pc = "ask" /\ call'[d].obj = obj
      /\ \A e \in Lists \ {d} : call'[e] = call[e]
  BY <1>0 DEF Add, NoCall
<1>2. DOMAIN queue' = Objects BY DEF Add, QueueInv
<1>3. ASSUME NEW o \in Objects PROVE queue'[o] = Cardinality(Asking(o)')
  <2>1. IsFiniteSet(Asking(o)) BY FiniteAssumption, FS_Subset DEF Asking
  <2>2. queue[o] = Cardinality(Asking(o)) BY DEF QueueInv, QueueBalanced, Asking, Asks
  <2>3. CASE o = obj
    <3>1. Asking(o)' = Asking(o) \cup {d} /\ d \notin Asking(o)
      BY <1>1, <2>3 DEF Asking, Asks, Add, InCall
    <3>2. Cardinality(Asking(o) \cup {d}) = Cardinality(Asking(o)) + 1
      BY <2>1, <3>1, FS_AddElement
    <3> QED BY <2>2, <2>3, <3>1, <3>2 DEF Add, QueueInv
  <2>4. CASE o # obj
    <3>1. Asking(o)' = Asking(o) BY <1>1, <2>4 DEF Asking, Asks, Add, InCall
    <3> QED BY <2>2, <2>4, <3>1 DEF Add, QueueInv
  <2> QED BY <2>3, <2>4
<1> QED BY <1>2, <1>3 DEF QueueInv, QueueBalanced, Asking, Asks

\* Without a call nothing is in the queue.
LEMMA NothingAsked ==
    ASSUME queue = [o \in Objects |-> 0], call = [d \in Lists |-> NoCall]
    PROVE  QueueInv
<1>1. ASSUME NEW o \in Objects PROVE Asking(o) = {} BY DEF Asking, Asks, NoCall
<1> QED BY <1>1, FS_EmptySet DEF QueueInv, QueueBalanced, Asking, Asks

\* An object is in the queue once for every download of it under way.
LEMMA QueueStep ==
    ASSUME QueueInv, CallInv, [Next]_vars
    PROVE  QueueInv'
<1> USE DEF screens
<1>1. CASE UNCHANGED <<queue, call>> BY <1>1, QueueCarried DEF Asks
<1>2. CASE Die
  <2>1. queue' = [o \in Objects |-> 0] /\ call' = [d \in Lists |-> NoCall] BY <1>2 DEF Die
  <2>2. ASSUME NEW o \in Objects PROVE Asking(o)' = {} BY <2>1 DEF Asking, Asks, NoCall
  <2> QED BY <2>1, <2>2, FS_EmptySet DEF QueueInv, QueueBalanced, Asking, Asks
<1>3. ASSUME NEW d \in Lists, StartRange(d) PROVE QueueInv'
  <2>1. PICK b \in Circles : \E top \in DOMAIN log[b] : \E delta \in 0 .. MaxIds :
            StartCall(d, [NoCall EXCEPT !.pc = "check", !.obj = <<b, gen>>,
                                        !.top = top, !.bottom = Clip(top - delta)])
    BY <1>3 DEF StartRange
  <2>2. PICK top, delta :
            StartCall(d, [NoCall EXCEPT !.pc = "check", !.obj = <<b, gen>>,
                                        !.top = top, !.bottom = Clip(top - delta)])
    BY <2>1
  <2> DEFINE new == [NoCall EXCEPT !.pc = "check", !.obj = <<b, gen>>,
                                   !.top = top, !.bottom = Clip(top - delta)]
  <2>3. new.pc = "check" BY DEF NoCall
  <2>4. call' = [call EXCEPT ![d] = new] /\ queue' = queue /\ ~ Asks(d)
    BY <2>2 DEF StartCall, Asks, InCall
  <2> HIDE DEF new
  <2> QED BY <2>3, <2>4, QueueCarriedOne
<1>4. ASSUME NEW d \in Lists, CountFromTor(d) PROVE QueueInv'
  <2>1. PICK b : StartCall(d, [NoCall EXCEPT !.pc = "told", !.obj = <<b, gen>>,
                                             !.told = Len(log[b])])
    BY <1>4 DEF CountFromTor
  <2> DEFINE new == [NoCall EXCEPT !.pc = "told", !.obj = <<b, gen>>, !.told = Len(log[b])]
  <2>2. new.pc = "told" BY DEF NoCall
  <2>3. call' = [call EXCEPT ![d] = new] /\ queue' = queue /\ ~ Asks(d)
    BY <2>1 DEF StartCall, Asks, InCall
  <2> HIDE DEF new
  <2> QED BY <2>2, <2>3, QueueCarriedOne
<1>5. ASSUME NEW d \in Lists, AbortWait(d) \/ UpdateLastMessage(d) PROVE QueueInv'
  <2>1. call' = [call EXCEPT ![d] = NoCall] /\ queue' = queue /\ ~ Asks(d)
    BY <1>5 DEF AbortWait, UpdateLastMessage, Asks, InCall
  <2> QED BY <2>1, QueueCarriedOne DEF NoCall
<1>6. ASSUME NEW d \in Lists,
             \/ Check(d) \/ AskRange(d) \/ OpenRangeFile(d) \/ WriteRangeFile(d)
             \/ WriteRangeFails(d)
      PROVE  QueueInv'
  <2>1. DOMAIN call = Lists /\ DOMAIN call[d] = DOMAIN NoCall BY DEF CallInv, CallOK
  <2>2. /\ queue' = queue
        /\ \A e \in Lists \ {d} : call'[e] = call[e]
        /\ call'[d].obj = call[d].obj
    BY <1>6, <2>1 DEF Check, AskRange, OpenRangeFile, WriteRangeFile, WriteRangeFails, NoCall
  <2>3. Asks(d)' <=> Asks(d)
    BY <1>6, <2>1
    DEF Check, AskRange, OpenRangeFile, WriteRangeFile, WriteRangeFails,
        NoCall, Asks, InCall
  <2> QED BY <2>2, <2>3, QueueCarried DEF Asks
<1>open. ASSUME NEW d \in Lists, OpenRangeFails(d) PROVE QueueInv'
  <2>1. PICK i \in DOMAIN call[d].todo :
            /\ InCall(d, "save") /\ queue' = queue
            /\ call' = [call EXCEPT ![d].todo = Restrict(@, DOMAIN @ \ {i})]
    BY <1>open DEF OpenRangeFails
  <2> DEFINE left == Restrict(call[d].todo, DOMAIN call[d].todo \ {i})
             new == [call[d] EXCEPT !.todo = left]
  <2>2. call' = [call EXCEPT ![d] = new] BY <2>1
  <2>3. new.pc = call[d].pc /\ new.obj = call[d].obj BY DEF CallInv, CallOK, NoCall
  <2> HIDE DEF new, left
  <2> QED BY <2>1, <2>2, <2>3, QueueCarriedOne DEF Asks, InCall
<1>7. ASSUME NEW d \in Lists, AskRangeFails(d) \/ EndRange(d) PROVE QueueInv'
  BY <1>7, EndCallBalances DEF AskRangeFails, EndRange, InCall, Asks
<1>8. ASSUME NEW d \in Lists, Add(d) PROVE QueueInv' BY <1>8, AddBalances
<1>9. CASE RunPoll \/ StopService \/ JoinCircle \/ InitService \/ InitCircleStore
  BY <1>1, <1>9 DEF RunPoll, StopService, JoinCircle, InitService, InitCircleStore
<1>10. ASSUME NEW k \in Polls, CheckTor(k) \/ TimeLimit(k) \/ EndMonitor(k)
       PROVE  UNCHANGED <<queue, call>>
  BY <1>10 DEF CheckTor, TimeLimit, EndMonitor
<1>11. ASSUME NEW t \in Threads, ThreadStep(t) PROVE Die \/ UNCHANGED <<queue, call>>
  BY <1>11 DEF ThreadStep, ThreadOnly, Wait, ReadLastId, AskLastId, AskFails, AskGetsNull,
     CheckInterrupt, StoreLastId, CheckInterrupt2, FetchMsg, FetchFails, FetchGetsNull,
     OpenFile, WriteFile, SaveFails, EndThread
<1>12. CASE ServerStep BY <1>1, <1>12 DEF ServerStep
<1>13. CASE Crash BY <1>2, <1>13 DEF Crash
<1>14. CASE UNCHANGED vars BY <1>1, <1>14 DEF vars
<1> QED
  BY <1>1, <1>2, <1>3, <1>4, <1>5, <1>6, <1>open, <1>7, <1>8, <1>9, <1>10, <1>11, <1>12,
     <1>13, <1>14
  DEF Next, CallStep

-----------------------------------------------------------------------------
(***************************************************************************)
(* The invariant and what it says.                                         *)
(***************************************************************************)

\* The invariant holds when the server and the client are new.
LEMMA IndInvInit == Init => IndInv
<1> SUFFICES ASSUME Init PROVE IndInv OBVIOUS
<1>1. LogInv
  <2>1. <<>> \in Seq(Content) OBVIOUS
  <2> QED BY <2>1 DEF Init, Server!Init, LogInv
<1>2. \A c \in Circles : Len(log[c]) \in Nat BY <1>1 DEF LogInv
<1>3. ListInv
  <2>1. IsFiniteSet(Circles \X {0}) BY FiniteAssumption, FS_Singleton, FS_Product
  <2> QED BY <2>1 DEF Init, ListInv, Registered
<1>4. LastIdInv BY <1>2 DEF Init, LastIdInv, LastIdWithinServer
<1>5. FilesInv BY DEF Init, FilesInv, KeptIsServers, NoMsgs, Restrict
<1>6. ThreadInv BY DEF Init, ThreadInv, ThreadOK, Idle
<1>7. CallInv BY DEF Init, CallInv, CallOK, NoCall
<1>8. QueueInv BY NothingAsked DEF Init
<1> QED BY <1>1, <1>3, <1>4, <1>5, <1>6, <1>7, <1>8 DEF IndInv

\* What threads and calls hold, what is on the disk and what is in linkedQueue agrees
\* with the server's log and with the calls under way, in every reachable state.
THEOREM Invariance == Spec => []IndInv
<1>1. ASSUME IndInv, [Next]_vars PROVE IndInv'
  BY <1>1, LogStep, ListStep, LastIdStep, FilesStep, ThreadInvStep, CallInvStep, QueueStep
  DEF IndInv
<1> QED BY <1>1, IndInvInit, PTL DEF Spec

\* Whatever threads write the files of a circle (saveMsgToDb), a message kept for an
\* id is the one the server has there: an id is never mixed up with another.
THEOREM KeptMessagesAreTheServers == Spec => []KeptIsServers
<1>1. IndInv => KeptIsServers BY DEF IndInv, FilesInv
<1> QED BY <1>1, Invariance, PTL

\* The last id stored, by poll threads and screens in whichever order, is within the
\* server's log (saveLastMessage, updateLastMessage).
THEOREM LastIdNeverAhead == Spec => []LastIdWithinServer
<1>1. IndInv => LastIdWithinServer BY DEF IndInv, LastIdInv
<1> QED BY <1>1, Invariance, PTL

\* linkedQueue counts the downloads under way, on every path through and out of
\* downloadMsgRangeFromTor: none is left behind to block those that follow.
THEOREM QueueCounts == Spec => []QueueBalanced
<1>1. IndInv => QueueBalanced BY DEF IndInv, QueueInv
<1> QED BY <1>1, Invariance, PTL

-----------------------------------------------------------------------------
(***************************************************************************)
(* The newest messages.  A step keeps what is kept for a circle that is    *)
(* not disturbed, or brings it itself.                                     *)
(***************************************************************************)

\* Who cuts a download of c short disturbs c and no other circle.
LEMMA DisturbEffect ==
    ASSUME DOMAIN disturbed = Circles, NEW c \in Circles, Disturb(c)
    PROVE  /\ DOMAIN disturbed' = Circles
           /\ \A b \in Circles : ~ disturbed'[b] => b # c /\ ~ disturbed[b]
BY DEF Disturb

\* What is kept for a last id is kept for a later one.
LEMMA KeptForLater ==
    ASSUME ThreadInv, LogInv, NEW c, NEW i, NEW k \in Nat, NEW l \in Nat, k <= l,
           KeptFor(c, i, k)
    PROVE  KeptFor(c, i, l)
<1>1. ASSUME NEW t \in Threads, Brings(t, c, i, k) PROVE Brings(t, c, i, l)
  <2>1. CASE th[t].pc = "write" /\ i = th[t].next BY <1>1, <2>1 DEF Brings
  <2>2. CASE th[t].pc \in Downloading /\ th[t].last <= k /\ th[t].start < i /\ i <= th[t].next
    <3>1. th[t].circle \in Circles /\ th[t].last \in 0 .. Len(log[th[t].circle])
      BY <2>2 DEF ThreadInv, ThreadOK, Downloading
    <3>2. th[t].last \in Int BY <3>1 DEF LogInv
    <3> QED BY <1>1, <2>2, <3>2 DEF Brings
  <2> QED BY <1>1, <2>1, <2>2 DEF Brings
<1> QED BY <1>1 DEF KeptFor

\* A step that leaves files, downloading threads and writing calls as they are.
LEMMA KeptAlong ==
    ASSUME files' = files,
           \A t \in Threads : th[t].pc \in Downloading =>
               /\ th'[t].circle = th[t].circle /\ th'[t].start = th[t].start
               /\ th'[t].last = th[t].last /\ th'[t].next = th[t].next
               /\ th'[t].pc \in Downloading /\ (th[t].pc = "write" => th'[t].pc = "write"),
           \A d \in Lists : InCall(d, "write") => call'[d] = call[d]
    PROVE  \A c, i, l : KeptFor(c, i, l) => KeptFor(c, i, l)'
<1>1. ASSUME NEW t \in Threads, NEW c, NEW i, NEW l, Brings(t, c, i, l) PROVE Brings(t, c, i, l)'
  BY <1>1 DEF Brings, Downloading
<1>2. ASSUME NEW d \in Lists, NEW c, NEW i, Writes(d, c, i) PROVE Writes(d, c, i)'
  BY <1>2 DEF Writes, InCall
<1> QED BY <1>1, <1>2 DEF KeptFor

\* A thread whose fields circle and start are set.
Begun(t) == th[t].pc \notin {"off", "wait", "begin"}

\* The invariant follows when what is kept stays, the last ids stay, and no thread takes
\* another id than the last id to begin with.
LEMMA NewestCarried ==
    ASSUME NewestInv, LastIdInv,
           DOMAIN disturbed' = Circles, \A t \in Threads : ProgressOK(t)',
           \A c \in Circles : ~ disturbed'[c] => ~ disturbed[c] /\ lastId'[c] = lastId[c],
           \A c \in Circles : ~ disturbed'[c] =>
               \A i, l \in Nat : i > l - NumMsgDownload /\ KeptFor(c, i, l) => KeptFor(c, i, l)',
           \A t \in Threads : Begun(t)' =>
               /\ th'[t].circle = th[t].circle
               /\ \/ Begun(t) /\ th'[t].start = th[t].start
                  \/ th'[t].start = lastId[th[t].circle]
    PROVE  NewestInv'
<1>1. ASSUME NEW c \in Circles, ~ disturbed'[c], NEW l \in Nat, NewestKept(c, l)
      PROVE  NewestKept(c, l)'
  <2>1. ASSUME NEW i \in 1 .. l, i > l - NumMsgDownload PROVE KeptFor(c, i, l)'
    BY <1>1, <2>1 DEF NewestKept
  <2> QED BY <2>1 DEF NewestKept
<1>2. ASSUME NEW c \in Circles, ~ disturbed'[c]
      PROVE  /\ NewestKept(c, lastId[c])'
             /\ \A t \in Threads : th'[t].circle = c /\ Begun(t)' => NewestKept(c, th[t].start)'
  <2>1. ~ disturbed[c] BY <1>2
  <2>2. PICK l \in Nat : l = lastId[c] BY DEF LastIdInv
  <2>3. NewestKept(c, l) BY <2>1, <2>2 DEF NewestInv
  <2>4. NewestKept(c, l)' BY <1>1, <1>2, <2>3
  <2>5. NewestKept(c, lastId[c])' BY <1>2, <2>2, <2>4
  <2>6. ASSUME NEW t \in Threads, th'[t].circle = c, Begun(t)' PROVE NewestKept(c, th[t].start)'
    <3>1. CASE th'[t].start = lastId[c] BY <2>2, <2>4, <3>1
    <3>2. CASE Begun(t) /\ th'[t].start = th[t].start
      <4>1. th[t].circle = c BY <2>6
      <4>2. NewestKept(c, th[t].start) /\ th[t].start \in Nat
        BY <2>1, <3>2, <4>1 DEF NewestInv, Begun, ProgressOK
      <4>3. PICK k \in Nat : k = th[t].start BY <4>2
      <4>4. NewestKept(c, k)' BY <1>1, <1>2, <4>2, <4>3
      <4> QED BY <3>2, <4>3, <4>4
    <3> QED BY <2>6, <3>1, <3>2
  <2> QED BY <2>5, <2>6
<1> QED BY <1>2 DEF NewestInv, Begun

\* A thread that moves no download on goes on as it did.
LEMMA ProgressKept ==
    ASSUME NEW t \in Threads, ProgressOK(t),
           th'[t].pc = th[t].pc, th'[t].circle = th[t].circle, th'[t].start = th[t].start,
           th'[t].last = th[t].last, th'[t].next = th[t].next, th'[t].count = th[t].count,
           th[t].pc # "off" => th[t].circle \in Circles,
           \A c \in Circles : ~ disturbed'[c] => ~ disturbed[c]
    PROVE  ProgressOK(t)'
<1>1. CASE th[t].pc = "off" BY <1>1 DEF ProgressOK, Downloading
<1>2. CASE th[t].pc # "off"
  <2>1. ~ disturbed'[th[t].circle] => ~ disturbed[th[t].circle] BY <1>2
  <2> QED BY <1>2, <2>1 DEF ProgressOK
<1> QED BY <1>1, <1>2

\* One thread moves, no last id is stored: what it has to see to.
LEMMA NewestOneThread ==
    ASSUME ThreadInv, LastIdInv, NewestInv, NEW t \in Threads, lastId' = lastId,
           DOMAIN disturbed' = Circles, \A c \in Circles : ~ disturbed'[c] => ~ disturbed[c],
           \A u \in Threads \ {t} : th'[u] = th[u],
           ProgressOK(t)',
           \A c \in Circles : ~ disturbed'[c] =>
               \A i, l \in Nat : i > l - NumMsgDownload /\ KeptFor(c, i, l) => KeptFor(c, i, l)',
           Begun(t)' =>
               /\ th'[t].circle = th[t].circle
               /\ \/ Begun(t) /\ th'[t].start = th[t].start
                  \/ th'[t].start = lastId[th[t].circle]
    PROVE  NewestInv'
<1>1. ASSUME NEW u \in Threads PROVE ProgressOK(u)'
  <2>1. CASE u = t BY <2>1
  <2>2. CASE u # t
    <3>1. th'[u] = th[u] /\ ProgressOK(u) BY <2>2 DEF NewestInv
    <3>2. th[u].pc # "off" => th[u].circle \in Circles BY DEF ThreadInv, ThreadOK
    <3> QED BY <3>1, <3>2, ProgressKept
  <2> QED BY <2>1, <2>2
<1>2. \A u \in Threads : Begun(u)' =>
          /\ th'[u].circle = th[u].circle
          /\ \/ Begun(u) /\ th'[u].start = th[u].start
             \/ th'[u].start = lastId[th[u].circle]
  BY DEF Begun
<1> QED BY <1>1, <1>2, NewestCarried

\* A poll thread on its way to the newest messages brings them, or is cut short.
LEMMA ThreadNewest ==
    ASSUME LogInv, LastIdInv, FilesInv, ThreadInv, NewestInv,
           NEW t \in Threads, ThreadStep(t)
    PROVE  NewestInv'
<1> USE DEF screens, disk
<1> DEFINE c == th[t].circle
<1>1. /\ DOMAIN th = Threads /\ DOMAIN th[t] = DOMAIN Idle(Blank)
      /\ th[t].pc # "off" => /\ c \in Circles /\ th[t].last \in Nat
      /\ th[t].start \in Nat \/ th[t].pc = "off"
      /\ ProgressOK(t) /\ DOMAIN disturbed = Circles
  BY DEF ThreadInv, ThreadOK, LogInv, NewestInv, ProgressOK
<1>2. CASE UNCHANGED <<files, lastId, call, disturbed>> /\ Ends(t) /\ th[t].pc \notin Downloading
  <2>1. th'[t] = Idle(Blank) BY <1>1, <1>2 DEF Ends
  <2>2. ProgressOK(t)' /\ ~ Begun(t)' BY <2>1 DEF ProgressOK, Idle, Downloading, Begun
  <2>3. \A u \in Threads \ {t} : th'[u] = th[u] BY <1>1, <1>2 DEF Ends
  <2>4. \A b, i, l : KeptFor(b, i, l) => KeptFor(b, i, l)'
    BY <1>2, <2>3, KeptAlong
  <2> QED BY <1>1, <1>2, <2>2, <2>3, <2>4, NewestOneThread
\* A step before the download, or between two messages of it.
<1>3. ASSUME UNCHANGED <<files, lastId, call, disturbed>>, DOMAIN th' = Threads,
             \A u \in Threads \ {t} : th'[u] = th[u],
             th'[t].circle = c, th'[t].pc # "off", th[t].pc # "off", ProgressOK(t)',
             th[t].pc \in Downloading =>
                 /\ th'[t].start = th[t].start /\ th'[t].last = th[t].last
                 /\ th'[t].next = th[t].next
                 /\ th'[t].pc \in Downloading /\ (th[t].pc = "write" => th'[t].pc = "write"),
             Begun(t)' => \/ Begun(t) /\ th'[t].start = th[t].start
                          \/ th'[t].start = lastId[c]
      PROVE  NewestInv'
  <2>1. \A b, i, l : KeptFor(b, i, l) => KeptFor(b, i, l)'
    BY <1>3, KeptAlong
  <2> QED BY <1>1, <1>3, <2>1, NewestOneThread
\* A download cut short: c is disturbed, and t brought nothing to another circle.
<1>cut. ASSUME UNCHANGED <<files, lastId, call>>, Disturb(c), c \in Circles,
              \A u \in Threads \ {t} : th'[u] = th[u], ProgressOK(t)',
              Begun(t)' => th'[t].circle = c /\ Begun(t) /\ th'[t].start = th[t].start
       PROVE  NewestInv'
  <2>1. /\ DOMAIN disturbed' = Circles
        /\ \A b \in Circles : ~ disturbed'[b] => b # c /\ ~ disturbed[b]
    BY <1>1, <1>cut, DisturbEffect
  <2>2. ASSUME NEW b \in Circles, b # c, NEW i, NEW l, KeptFor(b, i, l) PROVE KeptFor(b, i, l)'
    <3>1. \A u \in Threads : Brings(u, b, i, l) => Brings(u, b, i, l)'
      BY <1>cut, <2>2 DEF Brings
    <3>2. \A d \in Lists : Writes(d, b, i) => Writes(d, b, i)' BY <1>cut DEF Writes, InCall
    <3> QED BY <1>cut, <2>2, <3>1, <3>2 DEF KeptFor
  <2> QED BY <1>1, <1>cut, <2>1, <2>2, NewestOneThread
<1>4. CASE Wait(t)
  <2>1. CASE Ends(t) BY <1>2, <1>4, <2>1 DEF Wait, At, ThreadOnly, Downloading
  <2>2. CASE Goto(t, "begin")
    <3>1. th' = [th EXCEPT ![t].pc = "begin"] /\ th[t].pc = "wait"
      BY <1>4, <2>2 DEF Wait, At, Goto
    <3>2. th'[t] = [th[t] EXCEPT !.pc = "begin"] BY <1>1, <3>1
    <3>3. ProgressOK(t)' BY <1>1, <3>1, <3>2 DEF ProgressOK, Idle, Downloading
    <3> QED BY <1>1, <1>3, <1>4, <3>1, <3>2, <3>3
        DEF Wait, ThreadOnly, Idle, Begun, Downloading
  <2> QED BY <1>4, <2>1, <2>2 DEF Wait
<1>5. CASE ReadLastId(t)
  <2>1. /\ th' = [th EXCEPT ![t].pc = "ask", ![t].start = lastId[c]]
        /\ th[t].pc = "begin" /\ UNCHANGED <<files, lastId, call, disturbed>>
    BY <1>5 DEF ReadLastId, At, ThreadOnly
  <2>2. th'[t] = [th[t] EXCEPT !.pc = "ask", !.start = lastId[c]] BY <1>1, <2>1
  <2>3. lastId[c] \in Nat BY <1>1, <2>1 DEF LastIdInv
  <2>4. ProgressOK(t)' BY <1>1, <2>1, <2>2, <2>3 DEF ProgressOK, Idle, Downloading
  <2> QED BY <1>1, <1>3, <2>1, <2>2, <2>4 DEF Idle, Begun, Downloading
<1>6. CASE AskLastId(t)
  <2>1. /\ th' = [th EXCEPT ![t].pc = "store", ![t].last = Len(log[c]),
                            ![t].interrupted = Kept(t)]
        /\ th[t].pc = "ask" /\ UNCHANGED <<files, lastId, call, disturbed>>
    BY <1>6 DEF AskLastId, At, ThreadOnly
  <2>2. th'[t] = [th[t] EXCEPT !.pc = "store", !.last = Len(log[c]), !.interrupted = Kept(t)]
    BY <1>1, <2>1
  <2>3. ProgressOK(t)' BY <1>1, <2>1, <2>2 DEF ProgressOK, Idle, Downloading
  <2> QED BY <1>1, <1>3, <2>1, <2>2, <2>3 DEF Idle, Begun, Downloading
<1>7. CASE AskFails(t)
  <2>1. th[t].pc = "ask" /\ UNCHANGED <<files, lastId, call, disturbed>>
    BY <1>7 DEF AskFails, At, ThreadOnly
  <2>2. CASE Ends(t) BY <1>2, <2>1, <2>2 DEF Downloading
  <2>3. CASE th' = [th EXCEPT ![t].tries = @ + 1, ![t].interrupted = Kept(t)]
    <3>1. th'[t] = [th[t] EXCEPT !.tries = @ + 1, !.interrupted = Kept(t)] BY <1>1, <2>3
    <3>2. ProgressOK(t)' BY <1>1, <2>1, <3>1 DEF ProgressOK, Idle, Downloading
    <3> QED BY <1>1, <1>3, <2>1, <2>3, <3>1, <3>2 DEF Idle, Begun, Downloading
  <2> QED BY <1>7, <2>2, <2>3 DEF AskFails
<1>8. CASE AskGetsNull(t) \/ CheckInterrupt(t)
  BY <1>2, <1>8 DEF AskGetsNull, CheckInterrupt, At, ThreadOnly, Downloading
<1>9. CASE CheckInterrupt2(t)
  <2>1. CASE th[t].interrupted
    <3>1. /\ Ends(t) /\ Disturb(c) /\ th[t].pc = "stored"
          /\ UNCHANGED <<files, lastId, call>>
      BY <1>9, <2>1 DEF CheckInterrupt2, At, ThreadOnly
    <3>2. th'[t] = Idle(Blank) BY <1>1, <3>1 DEF Ends
    <3>3. ProgressOK(t)' /\ ~ Begun(t)' BY <3>2 DEF ProgressOK, Idle, Downloading, Begun
    <3> QED BY <1>1, <1>cut, <3>1, <3>3 DEF Downloading, Ends
  <2>2. CASE ~ th[t].interrupted
    <3>1. /\ th' = [th EXCEPT ![t].pc = "fetch"] /\ th[t].pc = "stored"
          /\ UNCHANGED <<files, lastId, call, disturbed>>
      BY <1>9, <2>2 DEF CheckInterrupt2, At, ThreadOnly, Goto
    <3>2. th'[t] = [th[t] EXCEPT !.pc = "fetch"] BY <1>1, <3>1
    <3>3. ProgressOK(t)' BY <1>1, <3>1, <3>2 DEF ProgressOK, Idle, Downloading
    <3> QED BY <1>1, <1>3, <3>1, <3>2, <3>3 DEF Idle, Begun, Downloading
  <2> QED BY <2>1, <2>2
<1>10. CASE FetchMsg(t)
  <2>1. /\ th' = [th EXCEPT ![t].pc = "save", ![t].msg = log[c][th[t].next]]
        /\ th[t].pc = "fetch" /\ th[t].next > th[t].start
        /\ UNCHANGED <<files, lastId, call, disturbed>>
    BY <1>10 DEF FetchMsg, HasNext, At, ThreadOnly
  <2>2. th'[t] = [th[t] EXCEPT !.pc = "save", !.msg = log[c][th[t].next]] BY <1>1, <2>1
  <2>3. ProgressOK(t)' BY <1>1, <2>1, <2>2 DEF ProgressOK, Idle, Downloading
  <2> QED BY <1>1, <1>3, <2>1, <2>2, <2>3 DEF Idle, Begun, Downloading
<1>11. CASE FetchFails(t)
  <2>1. /\ th' = [th EXCEPT ![t].next = @ - 1] /\ Disturb(c)
        /\ th[t].pc = "fetch" /\ th[t].next > th[t].start /\ UNCHANGED <<files, lastId, call>>
    BY <1>11 DEF FetchFails, HasNext, At, ThreadOnly
  <2>2. th'[t] = [th[t] EXCEPT !.next = @ - 1] BY <1>1, <2>1
  <2>3. th[t].start \in Nat /\ th[t].next \in Nat /\ th[t].next <= th[t].last
    BY <1>1, <2>1 DEF ProgressOK, Downloading
  <2>4. disturbed'[c] BY <1>1, <2>1 DEF Disturb
  <2>5. ProgressOK(t)' BY <1>1, <2>1, <2>2, <2>3, <2>4 DEF ProgressOK, Idle, Downloading
  <2> QED BY <1>1, <1>cut, <2>1, <2>2, <2>5 DEF Idle, Begun
<1>12. CASE FetchGetsNull(t)
  <2>1. disturbed' = [b \in Circles |-> TRUE] /\ th' = [u \in Threads |-> Idle(Blank)]
    BY <1>12 DEF FetchGetsNull, Die
  <2> QED BY <2>1 DEF NewestInv, ProgressOK, Idle, Downloading
<1>13. CASE OpenFile(t)
  <2>1. /\ th' = [th EXCEPT ![t].pc = "write"] /\ SaveFile(c, th[t].next, Blank)
        /\ th[t].pc = "save" /\ UNCHANGED <<lastId, call, disturbed>>
    BY <1>13 DEF OpenFile, At, ThreadOnly, Goto
  <2>2. th'[t] = [th[t] EXCEPT !.pc = "write"] BY <1>1, <2>1
  <2>3. ProgressOK(t)' BY <1>1, <2>1, <2>2 DEF ProgressOK, Idle, Downloading
  <2>4. ASSUME NEW b \in Circles, NEW i, NEW l, KeptFor(b, i, l) PROVE KeptFor(b, i, l)'
    <3>1. CASE b = c /\ i = th[t].next
      <4>1. Brings(t, b, i, l)' BY <2>2, <3>1, <1>1 DEF Brings, Idle
      <4> QED BY <4>1 DEF KeptFor
    <3>2. CASE ~ (b = c /\ i = th[t].next)
      <4>1. i \in DOMAIN files[b] => i \in DOMAIN files'[b] /\ files'[b][i] = files[b][i]
        BY <1>1, <2>1, <3>2 DEF SaveFile, FilesInv
      <4>2. \A u \in Threads : Brings(u, b, i, l) => Brings(u, b, i, l)'
        BY <1>1, <2>1, <2>2 DEF Brings, Idle, Downloading
      <4>3. \A d \in Lists : Writes(d, b, i) => Writes(d, b, i)' BY <2>1 DEF Writes, InCall
      <4> QED BY <2>4, <4>1, <4>2, <4>3 DEF KeptFor
    <3> QED BY <3>1, <3>2
  <2> QED BY <1>1, <2>1, <2>2, <2>3, <2>4, NewestOneThread DEF Begun, Idle
<1>14. CASE WriteFile(t)
  <2>1. /\ th' = [th EXCEPT ![t].pc = "fetch", ![t].next = @ - 1, ![t].count = @ + 1]
        /\ SaveFile(c, th[t].next, th[t].msg)
        /\ th[t].pc = "write" /\ UNCHANGED <<lastId, call, disturbed>>
    BY <1>14 DEF WriteFile, At, ThreadOnly
  <2>2. th'[t] = [th[t] EXCEPT !.pc = "fetch", !.next = @ - 1, !.count = @ + 1]
    BY <1>1, <2>1
  <2>3. /\ th[t].start \in Nat /\ th[t].next \in Nat /\ th[t].next <= th[t].last
        /\ th[t].start < th[t].next
        /\ ~ disturbed[c] => th[t].count = th[t].last - th[t].next
    BY <1>1, <2>1 DEF ProgressOK, Downloading
  <2>4. ProgressOK(t)' BY <1>1, <2>1, <2>2, <2>3 DEF ProgressOK, Idle, Downloading
  <2>5. th[t].msg # Blank BY <2>1 DEF ThreadInv, ThreadOK
  <2>6. ASSUME NEW b \in Circles, NEW i \in Nat, NEW l, KeptFor(b, i, l) PROVE KeptFor(b, i, l)'
    <3>1. CASE b = c /\ i = th[t].next
      <4>1. i \in DOMAIN files'[b] /\ files'[b][i] = th[t].msg
        BY <2>1, <3>1 DEF SaveFile, FilesInv
      <4> QED BY <2>5, <4>1 DEF KeptFor
    <3>2. CASE ~ (b = c /\ i = th[t].next)
      <4>1. i \in DOMAIN files[b] => i \in DOMAIN files'[b] /\ files'[b][i] = files[b][i]
        BY <1>1, <2>1, <3>2 DEF SaveFile, FilesInv
      <4>2. Brings(t, b, i, l) => Brings(t, b, i, l)'
        BY <1>1, <2>2, <2>3, <3>2 DEF Brings, Idle, Downloading
      <4>3. \A u \in Threads \ {t} : Brings(u, b, i, l) => Brings(u, b, i, l)'
        BY <1>1, <2>1 DEF Brings
      <4>4. \A d \in Lists : Writes(d, b, i) => Writes(d, b, i)' BY <2>1 DEF Writes, InCall
      <4> QED BY <2>6, <4>1, <4>2, <4>3, <4>4 DEF KeptFor
    <3> QED BY <3>1, <3>2
  <2> QED BY <1>1, <2>1, <2>2, <2>4, <2>6, NewestOneThread DEF Begun, Idle
<1>15. CASE EndThread(t)
  <2>1. /\ Ends(t) /\ ~ HasNext(t)
        /\ th[t].pc = "fetch" /\ UNCHANGED <<files, lastId, call, disturbed>>
    BY <1>15 DEF EndThread, At, ThreadOnly
  <2>2. th'[t] = Idle(Blank) BY <1>1, <2>1 DEF Ends
  <2>3. ProgressOK(t)' /\ ~ Begun(t)' BY <2>2 DEF ProgressOK, Idle, Downloading, Begun
  <2>4. /\ th[t].start \in Nat /\ th[t].next \in Nat /\ th[t].last \in Nat
        /\ ~ disturbed[c] => th[t].count = th[t].last - th[t].next
    BY <1>1, <2>1 DEF ProgressOK, Downloading
  <2>5. ASSUME NEW b \in Circles, ~ disturbed[b], NEW i \in Nat, NEW l \in Nat,
               i > l - NumMsgDownload, KeptFor(b, i, l)
        PROVE  KeptFor(b, i, l)'
    <3>1. ~ Brings(t, b, i, l)
      BY <2>1, <2>4, <2>5, LimitsAssumption DEF Brings, HasNext, Downloading
    <3>2. \A u \in Threads \ {t} : Brings(u, b, i, l) => Brings(u, b, i, l)'
      BY <1>1, <2>1 DEF Brings, Ends
    <3>3. \A d \in Lists : Writes(d, b, i) => Writes(d, b, i)' BY <2>1 DEF Writes, InCall
    <3> QED BY <2>1, <2>5, <3>1, <3>2, <3>3 DEF KeptFor
  <2> QED BY <1>1, <2>1, <2>3, <2>5, NewestOneThread DEF Ends
<1>16. CASE StoreLastId(t)
  <2>1. /\ th' = [th EXCEPT ![t].pc = "stored", ![t].next = th[t].last]
        /\ lastId' = [lastId EXCEPT ![c] = LaterId(th[t])]
        /\ th[t].pc = "store" /\ UNCHANGED <<files, call, disturbed>>
    BY <1>16 DEF StoreLastId, At, ThreadOnly
  <2>2. th'[t] = [th[t] EXCEPT !.pc = "stored", !.next = th[t].last] BY <1>1, <2>1
  <2>3. c \in Circles /\ th[t].start \in Nat /\ th[t].last \in Nat BY <1>1, <2>1
  <2>4. ASSUME NEW u \in Threads PROVE ProgressOK(u)'
    <3>1. CASE u = t BY <1>1, <2>1, <2>2, <2>3, <3>1 DEF ProgressOK, Idle, Downloading
    <3>2. CASE u # t
      <4>1. th'[u] = th[u] /\ ProgressOK(u) BY <1>1, <2>1, <3>2 DEF NewestInv
      <4>2. th[u].pc # "off" => th[u].circle \in Circles BY DEF ThreadInv, ThreadOK
      <4> QED BY <2>1, <4>1, <4>2, ProgressKept
    <3> QED BY <3>1, <3>2
  <2>5. \A b, i, l : KeptFor(b, i, l) => KeptFor(b, i, l)'
    BY <1>1, <2>1, <2>2, KeptAlong DEF Idle, Downloading
  <2>6. ASSUME NEW b \in Circles, NEW l \in Nat, NewestKept(b, l) PROVE NewestKept(b, l)'
    BY <2>5, <2>6 DEF NewestKept
  <2>7. ASSUME NEW b \in Circles, ~ disturbed[b], NEW u \in Threads,
               th'[u].circle = b, Begun(u)'
        PROVE  NewestKept(b, th[u].start)'
    <3>1. /\ th[u].circle = b /\ Begun(u) /\ th'[u].start = th[u].start
      BY <1>1, <2>1, <2>2, <2>7 DEF Idle, Begun
    <3>2. PICK k \in Nat : k = th[u].start BY <3>1 DEF NewestInv, ProgressOK, Begun
    <3>3. NewestKept(b, k) BY <2>7, <3>1, <3>2 DEF NewestInv, Begun
    <3>4. NewestKept(b, k)' BY <2>6, <3>3
    <3> QED BY <3>1, <3>2, <3>4
  <2>8. ASSUME NEW b \in Circles, ~ disturbed[b] PROVE NewestKept(b, lastId[b])'
    <3>1. CASE lastId'[b] = lastId[b]
      <4>1. PICK l \in Nat : l = lastId[b] BY DEF LastIdInv
      <4>2. NewestKept(b, l) BY <2>8, <4>1 DEF NewestInv
      <4>3. NewestKept(b, l)' BY <2>6, <4>2
      <4> QED BY <3>1, <4>1, <4>3
    <3>2. CASE lastId'[b] # lastId[b]
      <4>1. b = c /\ th[t].last > th[t].start /\ lastId'[b] = th[t].last
        BY <2>1, <2>3, <3>2 DEF LaterId, LastIdInv
      <4>2. PICK l \in Nat, k \in Nat : l = th[t].last /\ k = th[t].start BY <2>3
      <4>3. NewestKept(b, k) BY <2>1, <2>8, <4>1, <4>2 DEF NewestInv
      <4>4. ASSUME NEW i \in 1 .. l, i > l - NumMsgDownload PROVE KeptFor(b, i, l)'
        <5>1. CASE i <= k
          <6>1. KeptFor(b, i, k)
            BY <4>1, <4>2, <4>3, <4>4, <5>1, LimitsAssumption DEF NewestKept
          <6>2. KeptFor(b, i, l) BY <4>1, <4>2, <6>1, KeptForLater
          <6> QED BY <2>5, <6>2
        <5>2. CASE i > k
          <6>1. Brings(t, b, i, l)' BY <1>1, <2>2, <4>1, <4>2, <4>4, <5>2 DEF Brings, Idle, Downloading
          <6> QED BY <6>1 DEF KeptFor
        <5> QED BY <4>2, <5>1, <5>2
      <4>5. NewestKept(b, l)' BY <4>4 DEF NewestKept
      <4> QED BY <4>1, <4>2, <4>5
    <3> QED BY <3>1, <3>2
  <2> QED BY <1>1, <2>1, <2>4, <2>7, <2>8 DEF NewestInv, Begun
<1>17. CASE SaveFails(t)
  <2>1. /\ th' = [th EXCEPT ![t].pc = "fetch", ![t].next = @ - 1, ![t].count = @ + 1]
        /\ Disturb(c) /\ th[t].pc \in {"save", "write"} /\ UNCHANGED <<files, lastId, call>>
    BY <1>17 DEF SaveFails, At, ThreadOnly
  <2>2. th'[t] = [th[t] EXCEPT !.pc = "fetch", !.next = @ - 1, !.count = @ + 1]
    BY <1>1, <2>1
  <2>3. /\ th[t].start \in Nat /\ th[t].next \in Nat /\ th[t].next <= th[t].last
        /\ th[t].start < th[t].next
    BY <1>1, <2>1 DEF ProgressOK, Downloading
  <2>4. disturbed'[c] BY <1>1, <2>1 DEF Disturb
  <2>5. ProgressOK(t)' BY <1>1, <2>1, <2>2, <2>3, <2>4 DEF ProgressOK, Idle, Downloading
  <2> QED BY <1>1, <1>cut, <2>1, <2>2, <2>5 DEF Idle, Begun
<1> QED
  BY <1>4, <1>5, <1>6, <1>7, <1>8, <1>9, <1>10, <1>11, <1>12, <1>13, <1>14, <1>15, <1>16, <1>17
  DEF ThreadStep

\* No poll thread moves, and the last ids of the circles not disturbed stay.
LEMMA NewestNoThread ==
    ASSUME ThreadInv, LastIdInv, NewestInv, th' = th, DOMAIN disturbed' = Circles,
           \A c \in Circles : ~ disturbed'[c] => ~ disturbed[c] /\ lastId'[c] = lastId[c],
           \A c \in Circles : ~ disturbed'[c] =>
               \A i, l \in Nat : i > l - NumMsgDownload /\ KeptFor(c, i, l) => KeptFor(c, i, l)'
    PROVE  NewestInv'
<1>1. ASSUME NEW t \in Threads PROVE ProgressOK(t)'
  <2>1. ProgressOK(t) /\ (th[t].pc # "off" => th[t].circle \in Circles)
    BY DEF NewestInv, ThreadInv, ThreadOK
  <2> QED BY <2>1, ProgressKept
<1>2. \A t \in Threads : Begun(t)' => Begun(t) BY DEF Begun
<1> QED BY <1>1, <1>2, NewestCarried

\* A screen's download leaves a message under every id it writes, or disturbs the circle.
LEMMA CallNewest ==
    ASSUME LogInv, LastIdInv, FilesInv, ThreadInv, CallInv, NewestInv, NEW d \in Lists,
           StartRange(d) \/ CountFromTor(d) \/ AbortWait(d) \/ CallStep(d)
    PROVE  NewestInv'
<1> USE DEF disk
<1> DEFINE o == call[d].obj[1]
<1>1. /\ DOMAIN call = Lists /\ DOMAIN call[d] = DOMAIN NoCall
      /\ DOMAIN disturbed = Circles /\ DOMAIN files = Circles /\ DOMAIN lastId = Circles
      /\ th' = th
  BY DEF CallInv, CallOK, NewestInv, FilesInv, LastIdInv, StartRange, StartCall, CountFromTor,
     AbortWait, CallStep, CallOnly, Check, Add, AskRange, AskRangeFails, OpenRangeFile,
     WriteRangeFile, OpenRangeFails, WriteRangeFails, EndRange, UpdateLastMessage
<1>2. CASE StartRange(d) \/ CountFromTor(d) \/ AbortWait(d) \/ Check(d) \/ Add(d)
           \/ AskRange(d) \/ AskRangeFails(d) \/ OpenRangeFails(d) \/ EndRange(d)
  <2>1. /\ UNCHANGED <<files, lastId, disturbed>> /\ ~ InCall(d, "write")
        /\ \A e \in Lists \ {d} : call'[e] = call[e]
    BY <1>1, <1>2 DEF StartRange, StartCall, CountFromTor, AbortWait, Check, Add, AskRange,
       AskRangeFails, OpenRangeFails, EndRange, EndCall, InCall
  <2>2. \A c, i, l : KeptFor(c, i, l) => KeptFor(c, i, l)' BY <1>1, <2>1, KeptAlong
  <2> QED BY <1>1, <2>1, <2>2, NewestNoThread
<1>3. CASE OpenRangeFile(d)
  <2>1. PICK n \in DOMAIN call[d].todo :
            /\ InCall(d, "save") /\ SaveFile(o, n, Blank)
            /\ call' = [call EXCEPT ![d].pc = "write", ![d].next = n]
            /\ UNCHANGED <<lastId, disturbed>>
    BY <1>3 DEF OpenRangeFile
  <2>2. call'[d] = [call[d] EXCEPT !.pc = "write", !.next = n] BY <1>1, <2>1
  <2>3. ASSUME NEW c \in Circles, NEW i, NEW l, KeptFor(c, i, l) PROVE KeptFor(c, i, l)'
    <3>1. CASE c = o /\ i = n
      <4>1. Writes(d, c, i)' BY <1>1, <2>2, <3>1 DEF Writes, InCall, NoCall
      <4> QED BY <4>1 DEF KeptFor
    <3>2. CASE ~ (c = o /\ i = n)
      <4>1. i \in DOMAIN files[c] => i \in DOMAIN files'[c] /\ files'[c][i] = files[c][i]
        BY <1>1, <2>1, <3>2 DEF SaveFile
      <4>2. \A t \in Threads : Brings(t, c, i, l) => Brings(t, c, i, l)' BY <1>1 DEF Brings
      <4>3. \A e \in Lists : Writes(e, c, i) => Writes(e, c, i)'
        BY <1>1, <2>1 DEF Writes, InCall
      <4> QED BY <2>3, <4>1, <4>2, <4>3 DEF KeptFor
    <3> QED BY <3>1, <3>2
  <2> QED BY <1>1, <2>1, <2>3, NewestNoThread
<1>4. CASE WriteRangeFile(d)
  <2> DEFINE n == call[d].next
             m == call[d].todo[n]
  <2>1. InCall(d, "write") /\ SaveFile(o, n, m) /\ lastId' = lastId BY <1>4 DEF WriteRangeFile
  <2>2. o \in Circles BY <2>1 DEF InCall, CallInv, CallOK
  <2>3. /\ DOMAIN disturbed' = Circles
        /\ \A c \in Circles : ~ disturbed'[c] => ~ disturbed[c] /\ (c = o => m # Blank)
    <3>1. CASE m = Blank
      <4>1. Disturb(o) BY <1>4, <3>1 DEF WriteRangeFile
      <4> QED BY <1>1, <2>2, <4>1, DisturbEffect
    <3>2. CASE m # Blank
      <4>1. disturbed' = disturbed BY <1>4, <3>2 DEF WriteRangeFile
      <4> QED BY <1>1, <3>2, <4>1
    <3> QED BY <3>1, <3>2
  <2>4. \A e \in Lists \ {d} : call'[e] = call[e] BY <1>1, <1>4 DEF WriteRangeFile
  <2>5. ASSUME NEW c \in Circles, ~ disturbed'[c], NEW i, NEW l, KeptFor(c, i, l)
        PROVE  KeptFor(c, i, l)'
    <3>1. CASE c = o /\ i = n
      <4>1. i \in DOMAIN files'[c] /\ files'[c][i] # Blank
        BY <1>1, <2>1, <2>3, <2>5, <3>1 DEF SaveFile
      <4> QED BY <4>1 DEF KeptFor
    <3>2. CASE ~ (c = o /\ i = n)
      <4>1. i \in DOMAIN files[c] => i \in DOMAIN files'[c] /\ files'[c][i] = files[c][i]
        BY <1>1, <2>1, <3>2 DEF SaveFile
      <4>2. \A t \in Threads : Brings(t, c, i, l) => Brings(t, c, i, l)' BY <1>1 DEF Brings
      <4>3. \A e \in Lists : Writes(e, c, i) => Writes(e, c, i)'
        BY <2>4, <3>2 DEF Writes, InCall
      <4> QED BY <2>5, <4>1, <4>2, <4>3 DEF KeptFor
    <3> QED BY <3>1, <3>2
  <2> QED BY <1>1, <2>1, <2>3, <2>5, NewestNoThread
<1>5. CASE UpdateLastMessage(d)
  <2>1. /\ InCall(d, "told") /\ Disturb(o) /\ files' = files
        /\ lastId' = [lastId EXCEPT ![o] = call[d].told]
        /\ call' = [call EXCEPT ![d] = NoCall]
    BY <1>5 DEF UpdateLastMessage
  <2>2. o \in Circles BY <2>1 DEF InCall, CallInv, CallOK
  <2>3. /\ DOMAIN disturbed' = Circles
        /\ \A c \in Circles : ~ disturbed'[c] => c # o /\ ~ disturbed[c]
    BY <1>1, <2>1, <2>2, DisturbEffect
  <2>4. \A c \in Circles : c # o => lastId'[c] = lastId[c] BY <1>1, <2>1
  <2>5. \A e \in Lists : InCall(e, "write") => call'[e] = call[e]
    BY <1>1, <2>1 DEF InCall
  <2>6. \A c, i, l : KeptFor(c, i, l) => KeptFor(c, i, l)' BY <1>1, <2>1, <2>5, KeptAlong
  <2> QED BY <1>1, <2>3, <2>4, <2>6, NewestNoThread
<1>6. CASE WriteRangeFails(d)
  <2>1. /\ InCall(d, "write") /\ Disturb(o) /\ UNCHANGED <<files, lastId>>
        /\ \A e \in Lists \ {d} : call'[e] = call[e]
    BY <1>1, <1>6 DEF WriteRangeFails
  <2>2. o \in Circles BY <2>1 DEF InCall, CallInv, CallOK
  <2>3. /\ DOMAIN disturbed' = Circles
        /\ \A c \in Circles : ~ disturbed'[c] => c # o /\ ~ disturbed[c]
    BY <1>1, <2>1, <2>2, DisturbEffect
  <2>4. ASSUME NEW c \in Circles, c # o, NEW i, NEW l, KeptFor(c, i, l) PROVE KeptFor(c, i, l)'
    <3>1. \A t \in Threads : Brings(t, c, i, l) => Brings(t, c, i, l)' BY <1>1 DEF Brings
    <3>2. \A e \in Lists : Writes(e, c, i) => Writes(e, c, i)'
      BY <2>1, <2>4 DEF Writes, InCall
    <3> QED BY <2>1, <2>4, <3>1, <3>2 DEF KeptFor
  <2> QED BY <1>1, <2>1, <2>3, <2>4, NewestNoThread
<1> QED BY <1>2, <1>3, <1>4, <1>5, <1>6 DEF CallStep

\* The newest messages are kept, in every reachable state of a circle not disturbed.
LEMMA NewestStep ==
    ASSUME LogInv, ListInv, LastIdInv, FilesInv, ThreadInv, CallInv, NewestInv, [Next]_vars
    PROVE  NewestInv'
<1> USE DEF disk, screens
<1>1. DOMAIN disturbed = Circles BY DEF NewestInv
<1>2. CASE UNCHANGED <<files, lastId, disturbed, th, call>>
  <2>1. \A c, i, l : KeptFor(c, i, l) => KeptFor(c, i, l)' BY <1>2, KeptAlong
  <2> QED BY <1>1, <1>2, <2>1, NewestNoThread
<1>3. ASSUME UNCHANGED <<files, lastId, disturbed, call>>,
             \A t \in Threads :
                 \/ \E x : th'[t] = [th[t] EXCEPT !.interrupted = x]
                 \/ th[t].pc = "off" /\ \E c \in Circles : th'[t] = NewThread(c)
      PROVE  NewestInv'
  <2>1. ASSUME NEW t \in Threads
        PROVE  /\ ProgressOK(t)'
               /\ Begun(t)' => /\ th'[t].circle = th[t].circle
                               /\ Begun(t) /\ th'[t].start = th[t].start
               /\ th[t].pc \in Downloading =>
                      /\ th'[t].circle = th[t].circle /\ th'[t].start = th[t].start
                      /\ th'[t].last = th[t].last /\ th'[t].next = th[t].next
                      /\ th'[t].pc \in Downloading /\ (th[t].pc = "write" => th'[t].pc = "write")
    <3>1. ProgressOK(t) /\ DOMAIN th[t] = DOMAIN Idle(Blank) BY DEF NewestInv, ThreadInv, ThreadOK
    <3>2. CASE \E x : th'[t] = [th[t] EXCEPT !.interrupted = x]
      BY <1>3, <3>1, <3>2 DEF ProgressOK, Idle, Begun
    <3>3. CASE th[t].pc = "off" /\ \E c \in Circles : th'[t] = NewThread(c)
      BY <3>3 DEF ProgressOK, NewThread, Idle, Downloading, Begun
    <3> QED BY <1>3, <3>2, <3>3
  <2>2. \A c, i, l : KeptFor(c, i, l) => KeptFor(c, i, l)' BY <1>3, <2>1, KeptAlong
  <2> QED BY <1>1, <1>3, <2>1, <2>2, NewestCarried
<1>4. ASSUME NEW S, th' = Interrupt(S), UNCHANGED <<files, lastId, disturbed, call>>
      PROVE  NewestInv'
  BY <1>3, <1>4 DEF Interrupt
<1>5. CASE Die
  <2>1. disturbed' = [c \in Circles |-> TRUE] /\ th' = [t \in Threads |-> Idle(Blank)]
    BY <1>5 DEF Die
  <2> QED BY <2>1 DEF NewestInv, ProgressOK, Idle, Downloading
<1>6. CASE RunPoll
  <2>1. UNCHANGED <<files, lastId, disturbed, call>> BY <1>6 DEF RunPoll
  <2>2. ASSUME NEW t \in Threads, StartedFor(pollList', t) = {}
        PROVE  \E x : th'[t] = [th[t] EXCEPT !.interrupted = x]
    BY <1>6, <2>2 DEF RunPoll, Interrupt
  <2>3. ASSUME NEW t \in Threads, StartedFor(pollList', t) # {}
        PROVE  th[t].pc = "off" /\ \E c \in Circles : th'[t] = NewThread(c)
    <3>1. t \notin Running /\ StartedFor(pollList', t) \subseteq Circles
      BY <1>6, <2>3, RunPollEffect
    <3>2. \E c \in Circles : th'[t] = NewThread(c)
      BY <1>6, <2>3, <3>1 DEF RunPoll
    <3> QED BY <3>1, <3>2 DEF Running
  <2> QED BY <1>3, <2>1, <2>2, <2>3
<1>7. ASSUME NEW k \in Polls, CheckTor(k) \/ TimeLimit(k) \/ EndMonitor(k) PROVE NewestInv'
  BY <1>2, <1>4, <1>7 DEF CheckTor, TimeLimit, EndMonitor
<1>8. CASE StopService BY <1>4, <1>8 DEF StopService
<1>9. ASSUME NEW t \in Threads, ThreadStep(t) PROVE NewestInv' BY <1>9, ThreadNewest
<1>10. CASE JoinCircle \/ InitService \/ InitCircleStore
  BY <1>2, <1>10 DEF JoinCircle, InitService, InitCircleStore
<1>11. ASSUME NEW d \in Lists, StartRange(d) \/ CountFromTor(d) \/ AbortWait(d) \/ CallStep(d)
       PROVE  NewestInv'
  BY <1>11, CallNewest
<1>12. CASE ServerStep BY <1>2, <1>12 DEF ServerStep
<1>13. CASE Crash BY <1>5, <1>13 DEF Crash
<1>14. CASE UNCHANGED vars BY <1>2, <1>14 DEF vars
<1> QED
  BY <1>5, <1>6, <1>7, <1>8, <1>9, <1>10, <1>11, <1>12, <1>13, <1>14 DEF Next

\* While only polls have touched a circle, none of them was cut short and no write of a
\* message file failed (writeFileContent), the newest
\* numMsgDownload messages up to its last id are kept or on their way: whichever poll
\* threads overlap, and in whichever order they store the last id (downloadMessages).
THEOREM NewestStayKept == Spec => []NewestAreKept
<1>1. Init => NewestInv
  <2> SUFFICES ASSUME Init PROVE NewestInv OBVIOUS
  <2>1. \A t \in Threads : ProgressOK(t) BY DEF Init, ProgressOK, Idle, Downloading
  <2>2. \A c \in Circles : NewestKept(c, lastId[c]) BY DEF Init, NewestKept
  <2> QED BY <2>1, <2>2 DEF Init, NewestInv, Idle
<1>2. IndInv /\ NewestInv /\ [Next]_vars => NewestInv' BY NewestStep DEF IndInv
<1>3. IndInv /\ NewestInv => NewestAreKept
  <2> SUFFICES ASSUME IndInv, NewestInv, NEW c \in Circles, NEW i \in 1 .. lastId[c],
                      ~ disturbed[c], i > lastId[c] - NumMsgDownload
               PROVE  (i \in DOMAIN files[c] /\ files[c][i] # Blank) \/ OnItsWay(c, i)
    BY DEF NewestAreKept
  <2>1. KeptFor(c, i, lastId[c]) BY DEF NewestInv, NewestKept
  <2>2. ASSUME NEW t \in Threads, Brings(t, c, i, lastId[c]) PROVE OnItsWay(c, i)
    <3>1. th[t].pc = "write" => th[t].start < th[t].next /\ th[t].next \in Nat
      BY DEF NewestInv, ProgressOK, Downloading
    <3> QED BY <2>2, <3>1 DEF Brings, OnItsWay, Downloading
  <2>3. ASSUME NEW d \in Lists, Writes(d, c, i) PROVE OnItsWay(c, i)
    BY <2>3 DEF Writes, OnItsWay
  <2> QED BY <2>1, <2>2, <2>3 DEF KeptFor
<1> QED BY <1>1, <1>2, <1>3, Invariance, PTL DEF Spec

=============================================================================
