----------------------------- MODULE PollService -----------------------------
(***************************************************************************)
(* The Android client's NewMessageService with the message files and last  *)
(* ids of Circle.  A poll starts one thread per registered circle; the     *)
(* thread asks the server for the last id, stores it, and then downloads   *)
(* the newest messages above the one stored before.  A monitor waits for   *)
(* the threads, interrupts them when they take too long, and in the end    *)
(* has the service interrupt what is running and stop.  Beside them the    *)
(* screens call the service from threads of their own: they download       *)
(* ranges, one at a time per circle, and store the last id.                *)
(*                                                                         *)
(* The server is a MessageLog.  A thread keeps a Java object for its       *)
(* circle, and objects of the same circle differ: the service makes new    *)
(* ones (a new generation) each time it reads the table of circles.        *)
(***************************************************************************)
EXTENDS Integers, Sequences, FiniteSets, FiniteSetsExt, Functions

CONSTANTS
    Circles,
    Posts,          \* the messages posted
    Garbled,        \* those of them that do not decrypt
    Blank,          \* no message: an empty file, an id without a message
    Threads,        \* bound: the poll threads that run at one time
    NoThread,       \* null, in the list of threads
    Lists,          \* threads of the screens, each with one call at a time
    NumMsgDownload, \* numMsgDownload: messages a thread downloads (5)
    MaxRetries,     \* retries of getLastTorMsgIdPatiently (6)
    Plans           \* what may happen in a behaviour; each keeps to one of them

FaultKinds == {"tor", "io", "answer", "disk"}

ASSUME PostsAssumption == Garbled \subseteq Posts /\ Blank \notin Posts
ASSUME ThreadsAssumption == NoThread \notin Threads /\ IsFiniteSet(Threads)
ASSUME FiniteAssumption == IsFiniteSet(Circles) /\ IsFiniteSet(Lists)
ASSUME LimitsAssumption == {NumMsgDownload, MaxRetries} \subseteq Nat

\* A plan names the messages that are posted, the outcomes of a request besides an
\* answer and whether the disk may fail, the screens in use, whether messages expire,
\* and bounds the polls, the calls of the screens, the
\* circles joined, the deaths of the process besides those it causes, and the ids.
ASSUME PlansAssumption ==
    IsFiniteSet(Plans) /\
    \A p \in Plans :
        /\ p.posts \subseteq Posts /\ p.faults \subseteq FaultKinds /\ p.lists \subseteq Lists
        /\ p.expires \in BOOLEAN
        /\ {p.polls, p.calls, p.joins, p.crashes, p.ids} \subseteq Nat

VARIABLES
    plan,           \* the plan of this behaviour
    log, expired,   \* the server, a MessageLog
    lastId,         \* lastId[c]: the last id stored for c, in the preferences
    files,          \* files[c]: id -> message, or Blank for an empty file
    gen,            \* the generation of the objects in circleStore
    pollList,       \* circle object -> its poll thread, or NoThread
    th,             \* th[t]: where poll thread t stands and what it holds
    torOK,          \* the result of the last Tor check
    check,          \* check[k]: the Tor check thread of poll k
    monitor,        \* monitor[k]: the monitor thread of poll k
    polls,          \* polls started
    stops,          \* messages to handleStopSelf not yet handled
    missing,        \* is there a circle that circleStore has not read?
    broadcast,      \* a joined, created or deleted circle was broadcast
    queue,          \* queue[o]: how often object o is in linkedQueue
    call,           \* call[d]: the call that thread d of a screen makes
    calls, joins, crashes,
    disturbed       \* history: was a poll of c cut short, or a file of c not written?

server == <<log, expired>>
disk == <<lastId, files>>
service == <<gen, pollList, missing, broadcast>>
running == <<torOK, check, monitor, polls, stops>>
screens == <<queue, call, calls>>
bounds == <<joins, crashes, plan>>
vars == <<plan, log, expired, lastId, files, gen, pollList, th, torOK, check, monitor, polls,
          stops, missing, broadcast, queue, call, calls, joins, crashes,
          disturbed>>

Server == INSTANCE MessageLog

MaxIds == Max({p.ids : p \in Plans})
Ids == 1 .. MaxIds
Polls == 1 .. Max({p.polls : p \in Plans})
MaxGen == 2 * Max({p.joins : p \in Plans})
Objects == Circles \X (0 .. MaxGen)
NoMsgs == Restrict(<<>>, {})

-----------------------------------------------------------------------------

Idle(c) == [pc |-> "off", circle |-> c, start |-> 0, last |-> 0, next |-> 0, count |-> 0,
            tries |-> 0, interrupted |-> FALSE, msg |-> Blank]
NewThread(c) == [Idle(c) EXCEPT !.pc = "wait"]
NoCall == [pc |-> "idle", obj |-> <<Blank, 0>>, top |-> 0, bottom |-> 0, told |-> 0,
           next |-> 0, todo |-> NoMsgs]

Registered(g) == [o \in Circles \X {g} |-> NoThread]

Init ==
    /\ plan \in Plans
    /\ Server!Init
    /\ lastId = [c \in Circles |-> 0]
    /\ files = [c \in Circles |-> NoMsgs]
    /\ gen = 0
    /\ pollList = Registered(0)
    /\ th = [t \in Threads |-> Idle(Blank)]
    /\ torOK = FALSE
    /\ check = [k \in Polls |-> "none"]
    /\ monitor = [k \in Polls |-> "none"]
    /\ polls = 0
    /\ stops = 0
    /\ missing = FALSE
    /\ broadcast = FALSE
    /\ queue = [o \in Objects |-> 0]
    /\ call = [d \in Lists |-> NoCall]
    /\ calls = 0
    /\ joins = 0
    /\ crashes = 0
    /\ disturbed = [c \in Circles |-> FALSE]

SaveFile(c, i, m) ==
    files' = [files EXCEPT ![c] = [j \in DOMAIN @ \cup {i} |-> IF j = i THEN m ELSE @[j]]]

Disturb(c) == disturbed' = [disturbed EXCEPT ![c] = TRUE]

\* The process dies and is started again: all but the disk is as in Init.
Die ==
    /\ pollList' = Registered(gen)
    /\ th' = [t \in Threads |-> Idle(Blank)]
    /\ torOK' = FALSE
    /\ check' = [k \in Polls |-> "none"]
    /\ monitor' = [k \in Polls |-> "none"]
    /\ stops' = 0
    /\ missing' = FALSE
    /\ broadcast' = FALSE
    /\ queue' = [o \in Objects |-> 0]
    /\ call' = [d \in Lists |-> NoCall]
    /\ disturbed' = [c \in Circles |-> TRUE]
    /\ UNCHANGED <<server, disk, gen, polls, calls, joins, plan>>

Served(c) == {i \in DOMAIN log[c] : log[c][i] # Blank /\ i \notin expired[c]}

(***************************************************************************)
(* runPoll, when an alarm, a start of the service or a screen calls for    *)
(* it; a poll that a screen has the service skip is none.  The threads it  *)
(* starts take their steps after it.                                       *)
(***************************************************************************)
Running == {t \in Threads : th[t].pc # "off"}
Listed == {pollList[o] : o \in DOMAIN pollList} \cap Running

Interrupt(S) == [t \in Threads |-> [th[t] EXCEPT !.interrupted = @ \/ t \in S]]

\* The circle a thread is started for, given the new list.
StartedFor(list, t) == {o[1] : o \in {p \in DOMAIN list : list[p] = t}}

RunPoll ==
    /\ polls < plan.polls
    /\ Cardinality(DOMAIN pollList) <= Cardinality(Threads \ Running)
    /\ pollList' = CHOOSE f \in Injection(DOMAIN pollList, Threads \ Running) : TRUE
    /\ th' = [t \in Threads |->
                 IF StartedFor(pollList', t) = {} THEN Interrupt(Listed)[t]
                 ELSE NewThread(CHOOSE c \in StartedFor(pollList', t) : TRUE)]
    /\ polls' = polls + 1
    /\ check' = [check EXCEPT ![polls + 1] = "start"]
    /\ monitor' = [monitor EXCEPT ![polls + 1] = "watch"]
    /\ UNCHANGED <<server, disk, gen, torOK, stops, missing, broadcast,
                   screens, bounds, disturbed>>

(***************************************************************************)
(* The Tor check thread of poll k.  All of them set the one torOK.         *)
(***************************************************************************)
CheckTor(k) ==
    /\ \/ /\ check[k] = "start"
          /\ check' = [check EXCEPT ![k] = "asking"]
          /\ torOK' = FALSE
       \/ /\ check[k] = "asking"
          /\ check' = [check EXCEPT ![k] = "done"]
          /\ torOK' \in {TRUE} \cup (IF "tor" \in plan.faults THEN {torOK} ELSE {})
    /\ UNCHANGED <<server, disk, service, th, monitor, polls, stops, screens, bounds, disturbed>>

(***************************************************************************)
(* A poll thread.                                                          *)
(***************************************************************************)
At(t, label) == th[t].pc = label
Goto(t, label) == th' = [th EXCEPT ![t].pc = label]
Ends(t) == th' = [th EXCEPT ![t] = Idle(Blank)]
ThreadOnly == UNCHANGED <<server, service, running, screens, bounds>>

\* It waits for the Tor check up to 29 seconds, and ends when interrupted in this.
Wait(t) ==
    /\ At(t, "wait")
    /\ \/ torOK /\ Goto(t, "begin")
       \/ (~ torOK \/ th[t].interrupted) /\ Ends(t)
    /\ ThreadOnly /\ UNCHANGED <<disk, disturbed>>

\* startLastId.
ReadLastId(t) ==
    /\ At(t, "begin")
    /\ th' = [th EXCEPT ![t].pc = "ask", ![t].start = lastId[th[t].circle]]
    /\ ThreadOnly /\ UNCHANGED <<disk, disturbed>>

\* getLastTorMsgIdPatiently: after every retry it sleeps, and an interrupt that
\* comes before the end of the sleep is caught there and forgotten.
Kept(t) == th[t].interrupted /\ th[t].tries = 0

AskLastId(t) ==
    /\ At(t, "ask")
    /\ th' = [th EXCEPT ![t].pc = "store", ![t].last = Len(log[th[t].circle]),
                        ![t].interrupted = Kept(t)]
    /\ ThreadOnly /\ UNCHANGED <<disk, disturbed>>

\* IOException, answered by -2: again, unless this was the last retry.
AskFails(t) ==
    /\ At(t, "ask")
    /\ "io" \in plan.faults \/ th[t].interrupted
    /\ IF th[t].tries = MaxRetries THEN Ends(t)
       ELSE th' = [th EXCEPT ![t].tries = @ + 1, ![t].interrupted = Kept(t)]
    /\ ThreadOnly /\ UNCHANGED <<disk, disturbed>>

\* An answer that is not the JSON expected is null, and ends the thread.
AskGetsNull(t) ==
    /\ At(t, "ask")
    /\ "answer" \in plan.faults
    /\ Ends(t)
    /\ ThreadOnly /\ UNCHANGED <<disk, disturbed>>

CheckInterrupt(t) ==
    /\ At(t, "store")
    /\ th[t].interrupted
    /\ Ends(t)
    /\ ThreadOnly /\ UNCHANGED <<disk, disturbed>>

\* Mutant of LaterId: the id to ask for next is stored.
LaterIdNext(r) == IF r.last > r.start THEN r.last + 1 ELSE lastId[r.circle]

LaterId(r) == IF r.last > r.start THEN r.last ELSE lastId[r.circle]

\* The last id is stored before the messages up to it are there.
StoreLastId(t) ==
    LET r == th[t] IN
    /\ At(t, "store")
    /\ ~ r.interrupted
    /\ lastId' = [lastId EXCEPT ![r.circle] = LaterId(r)]
    /\ th' = [th EXCEPT ![t].pc = "stored", ![t].next = r.last]
    /\ ThreadOnly /\ UNCHANGED <<files, disturbed>>

CheckInterrupt2(t) ==
    /\ At(t, "stored")
    /\ IF th[t].interrupted
       THEN Ends(t) /\ Disturb(th[t].circle)
       ELSE Goto(t, "fetch") /\ UNCHANGED disturbed
    /\ ThreadOnly /\ UNCHANGED disk

\* Mutant of HasNext: the loop ends one message early.
HasNextShort(t) == th[t].next > th[t].start + 1 /\ th[t].count < NumMsgDownload

\* The loop goes from the last id down to startLastId, for so many messages.
HasNext(t) == th[t].next > th[t].start /\ th[t].count < NumMsgDownload

FetchMsg(t) ==
    LET c == th[t].circle
        i == th[t].next IN
    /\ At(t, "fetch")
    /\ HasNext(t)
    /\ i \in Served(c)
    /\ log[c][i] \notin Garbled
    /\ th' = [th EXCEPT ![t].pc = "save", ![t].msg = log[c][i]]
    /\ ThreadOnly /\ UNCHANGED <<disk, disturbed>>

\* The exception is caught in the loop: the message is passed over.
FetchFails(t) ==
    /\ At(t, "fetch")
    /\ HasNext(t)
    /\ "io" \in plan.faults \/ th[t].interrupted
    /\ th' = [th EXCEPT ![t].next = @ - 1]
    /\ Disturb(th[t].circle)
    /\ ThreadOnly /\ UNCHANGED disk

\* No message, or none that can be read: getMsgFromTor returns null, and msg.getMsg()
\* throws in a thread that catches nothing.
FetchGetsNull(t) ==
    LET c == th[t].circle
        i == th[t].next IN
    /\ At(t, "fetch")
    /\ HasNext(t)
    /\ "answer" \in plan.faults \/ i \notin Served(c) \/ log[c][i] \in Garbled
    /\ Die
    /\ UNCHANGED crashes

\* writeFileContent: FileWriter empties the file, close writes it.
OpenFile(t) ==
    /\ At(t, "save")
    /\ SaveFile(th[t].circle, th[t].next, Blank)
    /\ Goto(t, "write")
    /\ ThreadOnly /\ UNCHANGED <<lastId, disturbed>>

\* Mutant of WriteFile: the file is named by the last id, not by the message's.
WriteFileAtLast(t) ==
    /\ At(t, "write")
    /\ SaveFile(th[t].circle, th[t].last, th[t].msg)
    /\ th' = [th EXCEPT ![t].pc = "fetch", ![t].next = @ - 1, ![t].count = @ + 1]
    /\ ThreadOnly /\ UNCHANGED <<lastId, disturbed>>

WriteFile(t) ==
    /\ At(t, "write")
    /\ SaveFile(th[t].circle, th[t].next, th[t].msg)
    /\ th' = [th EXCEPT ![t].pc = "fetch", ![t].next = @ - 1, ![t].count = @ + 1]
    /\ ThreadOnly /\ UNCHANGED <<lastId, disturbed>>

\* writeFileContent catches the IOException and answers false, which saveMsgToDb drops:
\* the thread goes on to the next message.  A file that cannot be opened is left as it
\* is, one that cannot be written is left empty (or cut off, which shows no message).
SaveFails(t) ==
    /\ At(t, "save") \/ At(t, "write")
    /\ "disk" \in plan.faults
    /\ th' = [th EXCEPT ![t].pc = "fetch", ![t].next = @ - 1, ![t].count = @ + 1]
    /\ Disturb(th[t].circle)
    /\ ThreadOnly /\ UNCHANGED disk

EndThread(t) ==
    /\ At(t, "fetch")
    /\ ~ HasNext(t)
    /\ Ends(t)
    /\ ThreadOnly /\ UNCHANGED <<disk, disturbed>>

(***************************************************************************)
(* The monitor thread of poll k, and the service stopping itself.          *)
(***************************************************************************)
\* From the 40th second on, every second.
TimeLimit(k) ==
    /\ monitor[k] = "watch"
    /\ Listed # {}
    /\ th' = Interrupt(Listed)
    /\ UNCHANGED <<server, disk, service, running, screens, bounds, disturbed>>

\* Mutant of EndMonitor: a thread that has ended still counts as running.
EndMonitorNever(k) ==
    /\ monitor[k] = "watch"
    /\ {pollList[o] : o \in DOMAIN pollList} \subseteq {NoThread}
    /\ monitor' = [monitor EXCEPT ![k] = "done"]
    /\ stops' = stops + 1
    /\ UNCHANGED <<server, disk, service, th, torOK, check, polls, screens, bounds, disturbed>>

EndMonitor(k) ==
    /\ monitor[k] = "watch"
    /\ Listed = {}
    /\ monitor' = [monitor EXCEPT ![k] = "done"]
    /\ stops' = stops + 1
    /\ UNCHANGED <<server, disk, service, th, torOK, check, polls, screens, bounds, disturbed>>

\* handleStopSelf, later, on the main thread: it interrupts whatever runs then.
StopService ==
    /\ stops > 0
    /\ stops' = stops - 1
    /\ th' = Interrupt(Listed)
    /\ UNCHANGED <<server, disk, service, torOK, check, monitor, polls, screens, bounds, disturbed>>

(***************************************************************************)
(* The table of circles changes, and the service reads it again: when the  *)
(* broadcast arrives (init), or when a call names a circle it does not     *)
(* know (initCircleStore).  init forgets its threads and lets them run.    *)
(***************************************************************************)
JoinCircle ==
    /\ joins < plan.joins
    /\ joins' = joins + 1
    /\ missing' = TRUE
    /\ broadcast' = TRUE
    /\ UNCHANGED <<server, disk, gen, pollList, th, running, screens,
                   crashes, plan, disturbed>>

InitService ==
    /\ broadcast
    /\ broadcast' = FALSE
    /\ missing' = FALSE
    /\ gen' = gen + 1
    /\ pollList' = Registered(gen + 1)
    /\ UNCHANGED <<server, disk, th, running, screens, bounds, disturbed>>

InitCircleStore ==
    /\ missing
    /\ missing' = FALSE
    /\ gen' = gen + 1
    /\ pollList' = [o \in DOMAIN pollList \cup Circles \X {gen + 1} |->
                       IF o \in DOMAIN pollList THEN pollList[o] ELSE NoThread]
    /\ UNCHANGED <<server, disk, broadcast, th, running, screens, bounds, disturbed>>

(***************************************************************************)
(* The screens.  One of their threads asks for the ids top down to bottom: *)
(* it waits while the object is in linkedQueue, then adds it and asks.     *)
(***************************************************************************)
InCall(d, label) == call[d].pc = label
CallOnly == UNCHANGED <<server, service, th, running, bounds>>

StartCall(d, what) ==
    /\ InCall(d, "idle")
    /\ calls < plan.calls
    /\ d \in plan.lists
    /\ calls' = calls + 1
    /\ call' = [call EXCEPT ![d] = what]
    /\ UNCHANGED <<queue, disk, disturbed>>
    /\ CallOnly

Clip(n) == IF n <= 0 THEN 1 ELSE n

StartRange(d) ==
    \E c \in Circles : \E top \in DOMAIN log[c] : \E delta \in 0 .. MaxIds :
        StartCall(d, [NoCall EXCEPT !.pc = "check", !.obj = <<c, gen>>,
                                    !.top = top, !.bottom = Clip(top - delta)])

EndCall(d) ==
    /\ queue' = [queue EXCEPT ![call[d].obj] = @ - 1]
    /\ call' = [call EXCEPT ![d] = NoCall]

Check(d) ==
    /\ InCall(d, "check")
    /\ queue[call[d].obj] = 0
    /\ call' = [call EXCEPT ![d].pc = "add"]
    /\ UNCHANGED <<queue, calls, disk, disturbed>> /\ CallOnly

\* The thread is interrupted while it waits.
AbortWait(d) ==
    /\ InCall(d, "check")
    /\ queue[call[d].obj] > 0
    /\ call' = [call EXCEPT ![d] = NoCall]
    /\ UNCHANGED <<queue, calls, disk, disturbed>> /\ CallOnly

Add(d) ==
    /\ InCall(d, "add")
    /\ call' = [call EXCEPT ![d].pc = "ask"]
    /\ queue' = [queue EXCEPT ![call[d].obj] = @ + 1]
    /\ UNCHANGED <<calls, disk, disturbed>> /\ CallOnly

\* getMsgRangeFromTor: null for every id of the range, then the messages of the
\* answer, which comes with the last id first, up to the first that is garbled.
Answer(c, top, bottom) ==
    LET Readable(i) == /\ i \in Served(c)
                       /\ \A j \in i .. top : j \in Served(c) => log[c][j] \notin Garbled IN
    [i \in bottom .. top |-> IF Readable(i) THEN log[c][i] ELSE Blank]

AskRange(d) ==
    LET r == call[d] IN
    /\ InCall(d, "ask")
    /\ call' = [call EXCEPT ![d].pc = "save", ![d].todo = Answer(r.obj[1], r.top, r.bottom)]
    /\ UNCHANGED <<queue, calls, disk, disturbed>> /\ CallOnly

\* Mutant of AskRangeFails: the return after the exception forgets the queue.
AskRangeFailsQueued(d) ==
    /\ InCall(d, "ask")
    /\ call' = [call EXCEPT ![d] = NoCall]
    /\ UNCHANGED <<queue, calls, disk, disturbed>> /\ CallOnly

\* No answer, one that cannot be read, or the thread was interrupted.
AskRangeFails(d) ==
    /\ InCall(d, "ask")
    /\ EndCall(d)
    /\ UNCHANGED <<calls, disk, disturbed>> /\ CallOnly

\* saveMsgToDb or, for null, saveEmptyMsg; both through writeFileContent.
OpenRangeFile(d) ==
    \E i \in DOMAIN call[d].todo :
        /\ InCall(d, "save")
        /\ SaveFile(call[d].obj[1], i, Blank)
        /\ call' = [call EXCEPT ![d].pc = "write", ![d].next = i]
        /\ UNCHANGED <<queue, calls, lastId, disturbed>> /\ CallOnly

WriteRangeFile(d) ==
    LET r == call[d] IN
    /\ InCall(d, "write")
    /\ SaveFile(r.obj[1], r.next, r.todo[r.next])
    /\ call' = [call EXCEPT ![d].pc = "save", ![d].next = 0,
                            ![d].todo = Restrict(@, DOMAIN @ \ {r.next})]
    /\ IF r.todo[r.next] = Blank THEN Disturb(r.obj[1]) ELSE UNCHANGED disturbed
    /\ UNCHANGED <<queue, calls, lastId>> /\ CallOnly

\* The same error for a file of the range: the file stays as it is, ...
OpenRangeFails(d) ==
    \E i \in DOMAIN call[d].todo :
        /\ InCall(d, "save")
        /\ "disk" \in plan.faults
        /\ call' = [call EXCEPT ![d].todo = Restrict(@, DOMAIN @ \ {i})]
        /\ UNCHANGED <<queue, calls, disk, disturbed>> /\ CallOnly

\* ... or, once it is open, stays empty.
WriteRangeFails(d) ==
    LET r == call[d] IN
    /\ InCall(d, "write")
    /\ "disk" \in plan.faults
    /\ call' = [call EXCEPT ![d].pc = "save", ![d].next = 0,
                            ![d].todo = Restrict(@, DOMAIN @ \ {r.next})]
    /\ Disturb(r.obj[1])
    /\ UNCHANGED <<queue, calls, disk>> /\ CallOnly

\* Mutant of EndRange: the queue is left as it is when all is saved.
EndRangeQueued(d) ==
    /\ InCall(d, "save")
    /\ call[d].todo = NoMsgs
    /\ call' = [call EXCEPT ![d] = NoCall]
    /\ UNCHANGED <<queue, calls, disk, disturbed>> /\ CallOnly

EndRange(d) ==
    /\ InCall(d, "save")
    /\ call[d].todo = NoMsgs
    /\ EndCall(d)
    /\ UNCHANGED <<calls, disk, disturbed>> /\ CallOnly

\* A screen asks for the last id, and has the service store it as it is.
CountFromTor(d) ==
    \E c \in Circles :
        StartCall(d, [NoCall EXCEPT !.pc = "told", !.obj = <<c, gen>>,
                                    !.told = Len(log[c])])

UpdateLastMessage(d) ==
    LET c == call[d].obj[1] IN
    /\ InCall(d, "told")
    /\ lastId' = [lastId EXCEPT ![c] = call[d].told]
    /\ call' = [call EXCEPT ![d] = NoCall]
    /\ Disturb(c)
    /\ UNCHANGED <<queue, calls, files>> /\ CallOnly

-----------------------------------------------------------------------------

Crash ==
    /\ crashes < plan.crashes
    /\ crashes' = crashes + 1
    /\ Die

ServerStep ==
    /\ Server!Next
    /\ plan.expires \/ expired' = expired
    /\ \A m \in Posts : Server!Occurs(m)' => m \in plan.posts
    /\ \A c \in Circles : Len(log'[c]) <= plan.ids
    /\ UNCHANGED <<disk, service, th, running, screens, bounds, disturbed>>

ThreadStep(t) ==
    \/ Wait(t) \/ ReadLastId(t) \/ AskLastId(t) \/ AskFails(t) \/ AskGetsNull(t)
    \/ CheckInterrupt(t) \/ StoreLastId(t) \/ CheckInterrupt2(t)
    \/ FetchMsg(t) \/ FetchFails(t) \/ FetchGetsNull(t)
    \/ OpenFile(t) \/ WriteFile(t) \/ SaveFails(t) \/ EndThread(t)

CallStep(d) ==
    \/ Check(d) \/ Add(d) \/ AskRange(d) \/ AskRangeFails(d)
    \/ OpenRangeFile(d) \/ WriteRangeFile(d) \/ OpenRangeFails(d) \/ WriteRangeFails(d)
    \/ EndRange(d) \/ UpdateLastMessage(d)

Next ==
    \/ RunPoll
    \/ \E k \in Polls : CheckTor(k) \/ TimeLimit(k) \/ EndMonitor(k)
    \/ StopService
    \/ \E t \in Threads : ThreadStep(t)
    \/ JoinCircle \/ InitService \/ InitCircleStore
    \/ \E d \in Lists : StartRange(d) \/ CountFromTor(d) \/ AbortWait(d) \/ CallStep(d)
    \/ ServerStep
    \/ Crash

Spec == Init /\ [][Next]_vars

\* Threads run, and a request that is not answered fails after 15 seconds.
FairSpec ==
    /\ Spec
    /\ \A k \in Polls : WF_vars(CheckTor(k)) /\ WF_vars(EndMonitor(k))
    /\ \A t \in Threads : WF_vars(ThreadStep(t))
    /\ \A d \in Lists : WF_vars(CallStep(d))
    /\ WF_vars(StopService)

(***************************************************************************)
(* Properties.                                                             *)
(***************************************************************************)
Content == Posts \cup {Blank}

\* Every variable has values of its type; in particular no file has an id that
\* the server does not use.
TypeOK ==
    /\ Server!TypeOK
    /\ lastId \in [Circles -> 0 .. MaxIds]
    /\ \A c \in Circles : DOMAIN files[c] \subseteq Ids /\ files[c] \in [DOMAIN files[c] -> Content]
    /\ plan \in Plans /\ gen \in 0 .. MaxGen
    /\ DOMAIN pollList \subseteq Objects
    /\ pollList \in [DOMAIN pollList -> Threads \cup {NoThread}]
    /\ th \in [Threads ->
           [pc : {"off", "wait", "begin", "ask", "store", "stored", "fetch", "save", "write"},
            circle : Circles \cup {Blank}, start : 0 .. MaxIds, last : 0 .. MaxIds,
            next : 0 .. MaxIds, count : 0 .. NumMsgDownload, tries : 0 .. MaxRetries,
            interrupted : BOOLEAN, msg : Content]]
    /\ {torOK, missing, broadcast} \subseteq BOOLEAN
    /\ check \in [Polls -> {"none", "start", "asking", "done"}]
    /\ monitor \in [Polls -> {"none", "watch", "done"}]
    /\ {polls, stops} \subseteq 0 .. plan.polls
    /\ queue \in [Objects -> 0 .. Cardinality(Lists)]
    /\ \A d \in Lists : DOMAIN call[d].todo \subseteq Ids
    /\ disturbed \in [Circles -> BOOLEAN]

\* Whatever threads write the files of a circle, a message kept for an id is the one
\* the server has there (saveMsgToDb): an id is never mixed up with another.
KeptIsServers ==
    \A c \in Circles : \A i \in DOMAIN files[c] :
        i \in DOMAIN log[c] /\ files[c][i] \in {Blank, log[c][i]}

\* The last id stored is one the server has given, by whichever of the poll threads
\* and screens it was stored, and in whichever order.
LastIdWithinServer == \A c \in Circles : lastId[c] <= Len(log[c])

\* An object is in linkedQueue once for every download under way, on every path out
\* of downloadMsgRangeFromTor: an entry left behind would block all that follow.
QueueBalanced ==
    \A o \in Objects :
        queue[o] = Cardinality({d \in Lists : call[d].pc \in {"ask", "save", "write"} /\ call[d].obj = o})

\* While only polls have touched a circle, none of them was cut short and no write of a
\* message file failed (nobody learns of one that does, and the message is not asked
\* for again), the newest messages up to its last id are kept, or a thread is on its
\* way to them.
OnItsWay(c, i) ==
    \/ \E t \in Threads :
          /\ th[t].circle = c
          /\ th[t].pc \in {"stored", "fetch", "save", "write"}
          /\ th[t].start < i /\ i <= th[t].next
    \/ \E d \in Lists : InCall(d, "write") /\ call[d].obj[1] = c /\ call[d].next = i

NewestAreKept ==
    \A c \in Circles : \A i \in 1 .. lastId[c] :
        ~ disturbed[c] /\ i > lastId[c] - NumMsgDownload =>
            \/ i \in DOMAIN files[c] /\ files[c][i] # Blank
            \/ OnItsWay(c, i)

\* A poll comes to its end, with its threads: the monitor sees them all end.
EveryPollEnds == \A k \in Polls : []<>(monitor[k] # "watch")

\* A download asked for by a screen comes to its end, whatever downloads of the
\* same circle are under way and however they end.
EveryCallEnds == \A d \in Lists : []<>(call[d].pc = "idle")

(***************************************************************************)
(* The inductive invariant of KeptIsServers, LastIdWithinServer and        *)
(* QueueBalanced: what a thread or a call holds between the answer of the  *)
(* server and the write is true of the server still when it is written.    *)
(***************************************************************************)
LogInv == log \in [Circles -> Seq(Content)]

\* The lists of poll threads name objects of registered circles, finitely many.
ListInv ==
    /\ gen \in Nat
    /\ DOMAIN pollList \subseteq Circles \X Nat
    /\ IsFiniteSet(DOMAIN pollList)

LastIdInv ==
    /\ DOMAIN lastId = Circles
    /\ \A c \in Circles : lastId[c] \in Nat
    /\ LastIdWithinServer

FilesInv == DOMAIN files = Circles /\ KeptIsServers

\* A poll thread holds a last id within the log, and from FetchMsg to WriteFile the
\* message the server has for the id the file will be named by.
ThreadOK(t) ==
    LET r == th[t] IN
    /\ DOMAIN r = DOMAIN Idle(Blank)
    /\ r.pc # "off" => r.circle \in Circles /\ r.last \in 0 .. Len(log[r.circle])
    /\ r.pc \in {"save", "write"} =>
          /\ r.next \in DOMAIN log[r.circle]
          /\ r.msg = log[r.circle][r.next]
          /\ r.msg # Blank

ThreadInv == DOMAIN th = Threads /\ \A t \in Threads : ThreadOK(t)

\* A call asks for ids the server has, and of what it was told keeps what is left.
CallOK(d) ==
    LET r == call[d]
        c == r.obj[1] IN
    /\ DOMAIN r = DOMAIN NoCall
    /\ r.pc # "idle" => c \in Circles
    /\ r.pc \in {"check", "add", "ask"} => r.top \in DOMAIN log[c] /\ r.bottom \in Nat \ {0}
    /\ r.pc = "told" => r.told \in 0 .. Len(log[c])
    /\ r.pc \in {"save", "write"} =>
          \A i \in DOMAIN r.todo : i \in DOMAIN log[c] /\ r.todo[i] \in {Blank, log[c][i]}
    /\ r.pc = "write" => r.next \in DOMAIN r.todo

CallInv == DOMAIN call = Lists /\ \A d \in Lists : CallOK(d)

QueueInv == DOMAIN queue = Objects /\ QueueBalanced

IndInv ==
    /\ LogInv /\ ListInv
    /\ LastIdInv /\ FilesInv
    /\ ThreadInv /\ CallInv /\ QueueInv

(***************************************************************************)
(* The inductive invariant of NewestAreKept.  Threads overlap, and a slow  *)
(* one sets the last id back: what counts as on its way for a last id l is *)
(* only what a thread downloads that was told of no later one, as it stops *)
(* after NumMsgDownload messages counted from its own last id.             *)
(***************************************************************************)
Downloading == {"stored", "fetch", "save", "write"}

\* Thread t is writing the message i of c, or is on its way to it.
Brings(t, c, i, l) ==
    /\ th[t].circle = c
    /\ \/ th[t].pc = "write" /\ i = th[t].next
       \/ /\ th[t].pc \in Downloading
          /\ th[t].last <= l /\ th[t].start < i /\ i <= th[t].next

Writes(d, c, i) == InCall(d, "write") /\ call[d].obj[1] = c /\ call[d].next = i

KeptFor(c, i, l) ==
    \/ i \in DOMAIN files[c] /\ files[c][i] # Blank
    \/ \E t \in Threads : Brings(t, c, i, l)
    \/ \E d \in Lists : Writes(d, c, i)

NewestKept(c, l) == \A i \in 1 .. l : i > l - NumMsgDownload => KeptFor(c, i, l)

\* A thread has downloaded, one by one, what is between next and its last id.
ProgressOK(t) ==
    LET r == th[t] IN
    /\ r.pc # "off" => r.start \in Nat
    /\ r.pc \notin Downloading => r.count = 0
    /\ r.pc \in Downloading =>
          /\ r.next \in Nat /\ r.next <= r.last
          /\ ~ disturbed[r.circle] => r.count = r.last - r.next
    /\ r.pc \in {"save", "write"} => r.start < r.next

\* The newest messages are kept for the last id, and for the one a thread began with.
NewestInv ==
    /\ DOMAIN disturbed = Circles
    /\ \A t \in Threads : ProgressOK(t)
    /\ \A c \in Circles : ~ disturbed[c] =>
          /\ NewestKept(c, lastId[c])
          /\ \A t \in Threads :
                th[t].circle = c /\ th[t].pc \notin {"off", "wait", "begin"} =>
                    NewestKept(c, th[t].start)

=============================================================================
