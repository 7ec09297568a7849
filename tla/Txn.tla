-------------------------------- MODULE Txn --------------------------------
(***************************************************************************)
(* Multi-document transactions over a MongoDB that only updates single     *)
(* documents atomically: labix.org/v2/mgo/txn, the flusher that prepares,  *)
(* checks, orders and applies them, and their resumption after an          *)
(* interruption.                                                           *)
(*                                                                         *)
(* A step of a flusher is one call to the database (external: atomic for   *)
(* one document) with the computation up to the next one.  Steps that only *)
(* move a flusher through its own calls ("local") go before all others:    *)
(* nobody else can see them.                                               *)
(*                                                                         *)
(* Txns and Docs are numbers, as only the order of their ids matters.  The *)
(* revno 0 of a document or stash stands for the field being absent.       *)
(***************************************************************************)
EXTENDS Integers, SequencesExt

CONSTANTS
    Runners,        \* the clients that run transactions
    Txns,           \* the ids of the transactions
    Docs,           \* the documents they touch
    Scenarios,      \* the cases: what each transaction does, what the documents hold
    None,
    RunBy,          \* RunBy[t]: the client that runs t
    tarjanSort(_)   \* the strongly connected components of a graph, successors first

States == {"new", "preparing", "prepared", "aborting", "applying", "aborted", "applied"}
Op == [d : Docs, kind : {"update", "insert", "remove", "assert"},
       assert : {"none", "exists", "missing", "atLeast"}, min : Int, n : Int]

ASSUME TxnAssumption ==
    /\ Txns \subseteq Nat /\ IsFiniteSet(Txns) /\ Docs \subseteq Nat
    /\ \A sc \in Scenarios : sc.kills \in [Runners -> Nat]

ASSUME OpsAssumption == \A sc \in Scenarios : sc.ops \in [Txns -> Seq(Op)]

\* What Tarjan's sort returns are the transactions of the graph.
ASSUME SortAssumption ==
    \A S \in SUBSET Txns : \A succ \in [S -> SUBSET S] :
        /\ tarjanSort(succ) \in Seq(Seq(S))
        /\ \A i \in DOMAIN tarjanSort(succ) : tarjanSort(succ)[i] # <<>>

VARIABLES
    ops,        \* ops[t]: the operations of transaction t
    tc,         \* tc[t]: its document in the transaction collection
    doc,        \* doc[d]: the document itself, with its txn- fields
    stash,      \* stash[d]: its document in the stash collection
    stack,      \* stack[p]: the calls p's flusher is in, the innermost first
    copy,       \* copy[p]: the transactions p has in memory
    queue,      \* queue[p]: the queues p has read
    pending,    \* pending[p]: what p's ResumeAll has still to flush
    tokens,     \* tokens[t]: how many nonces were drawn for t
    kills,      \* kills[p]: how often p may still be interrupted (a bound)
    down,       \* the clients that were interrupted and have not come back
    effect,     \* effect[t][i]: how often operation i of t changed its document
    order,      \* order[d]: the transactions that changed d, in order
    answer      \* answer[t]: what flushing t has returned

db == <<tc, doc, stash>>
flusher == <<stack, copy, queue>>
history == <<effect, order>>
counters == <<kills, down>>
vars == <<ops, db, flusher, pending, tokens, counters, history, answer>>

done(t) == t.s \in {"applied", "aborted"}
isChange(op) == op.kind # "assert"

\* A set of ids in their order.
Ascending(S) ==
    CHOOSE q \in [1..Cardinality(S) -> S] : \A i, j \in DOMAIN q : i < j => q[i] < q[j]

\* The documents of a transaction, each once, in the order of their keys.
keysOf(os) == Ascending({os[i].d : i \in DOMAIN os})
docKeys(t) == keysOf(ops[t])

Top(p) == Head(stack[p])
At(p, pc) == stack[p] # <<>> /\ Top(p).pc = pc
T(p) == copy[p][Top(p).h]                   \* the transaction being advanced
Id(p) == Top(p).h[1]
Key(p) == docKeys(Id(p))[Top(p).k]
Oper(p) == ops[Id(p)][Top(p).k]

-----------------------------------------------------------------------------
(* Calls and returns of a flusher.                                         *)

NoQueues == [d \in Docs |-> <<>>]

AdvanceFrame(h, pull, force) ==
    [pc |-> "advance", h |-> h, pull |-> pull, force |-> force, k |-> 1, tt |-> None,
     revno |-> [d \in Docs |-> 0], revnos |-> <<>>, tries |-> 0, stashed |-> FALSE, q |-> <<>>]
RecurseFrame(h) ==
    [pc |-> "recurse", h |-> h, err |-> "ok", k |-> 1, toks |-> <<>>, next |-> None]
RunFrame(h) == [pc |-> "run", h |-> h, err |-> "ok", todo |-> <<>>]

\* The default of pull: the transaction alone.
Self(h) == [t \in {h[1]} |-> h]

Goto(p, fr) == stack' = [stack EXCEPT ![p] = <<fr>> \o Tail(@)]
To(p, pc) == Goto(p, [Top(p) EXCEPT !.pc = pc])
Call(p, fr, callee) == stack' = [stack EXCEPT ![p] = <<callee, fr>> \o Tail(@)]
\* Only recurse looks at what advance returns: every other error ends the flush.
Return(p, err) ==
    LET caller == stack[p][2]
    IN  stack' = [stack EXCEPT ![p] =
            <<IF "err" \in DOMAIN caller THEN [caller EXCEPT !.err = err] ELSE caller>>
                \o Tail(Tail(@))]

\* The copies with c as that of h; a change of the copy of the transaction being advanced.
Holding(copies, h, c) == [g \in DOMAIN copies \cup {h} |-> IF g = h THEN c ELSE copies[g]]
SetCopy(p, c) == copy' = [copy EXCEPT ![p][Top(p).h] = c]

\* reload: the state, the nonce and the revnos as they are stored now.
reload(p) == SetCopy(p, tc[Id(p)])

\* loadAndApply: a copy of its own, advanced by force; then the caller tries again at pc.
loadAndApply(p, t, pc) ==
    LET h == <<t, Len(stack[p])>>
    IN  /\ copy' = [copy EXCEPT ![p] = Holding(@, h, tc[t])]
        /\ Call(p, [Top(p) EXCEPT !.pc = pc], AdvanceFrame(h, Self(h), TRUE))

\* The flush of a transaction is over.
Finish(p, a) ==
    /\ answer' = [answer EXCEPT ![Last(stack[p]).h[1]] = @ \cup {a}]
    /\ stack' = [stack EXCEPT ![p] = <<>>]
    /\ copy' = [copy EXCEPT ![p] = <<>>]
    /\ queue' = [queue EXCEPT ![p] = NoQueues]
    /\ pending' = [pending EXCEPT ![p] = IF a \in {"error", "panic"} THEN <<>> ELSE @]
    /\ UNCHANGED <<ops, db, tokens, counters, history>>

-----------------------------------------------------------------------------
(* The queues of tokens.  A token is a transaction and the nonce it was    *)
(* prepared with.                                                          *)

Before(q, tt) == IF Contains(q, tt) THEN SubSeq(q, 1, CHOOSE i \in DOMAIN q : q[i] = tt)
                                    ELSE q

\* hasPreReqs: is the token in all the queues, is another transaction before it in one?
found(qs, tt, keys) == \A d \in keys : Contains(qs[d], tt)
\* Mutant of prereqs: the transactions before it in a queue are not looked for.
prereqsNone(qs, tt, keys) == FALSE
prereqs(qs, tt, keys) == \E d \in keys : \E x \in ToSet(Before(qs[d], tt)) : x[1] # tt[1]

\* tokensToPull: from the last valid token of a handled transaction down, everything;
\* behind it, the leftover tokens of handled transactions.
tokensToPull(q, pull, cs, dontPull) ==
    LET handled == {j \in DOMAIN q : q[j][1] \in DOMAIN pull}
        valid == {j \in handled : cs[pull[q[j][1]]].n = q[j][2]}
        last == IF valid = {} THEN 0 ELSE CHOOSE j \in valid : \A i \in valid : i <= j
    IN  {q[j] : j \in {i \in handled : i > last}}
          \cup {q[j] : j \in {i \in DOMAIN q : i <= last /\ (i = last => q[i] # dontPull)}}

PullAll(q, toks) == SelectSeq(q, LAMBDA x : x \notin toks)
AddToSet(q, x) == IF Contains(q, x) THEN q ELSE Append(q, x)

\* The operation that may pull a transaction's token: the last change, or the first test.
pullOp(t, d) ==
    LET on == {i \in DOMAIN ops[t] : ops[t][i].d = d}
        changes == {i \in on : isChange(ops[t][i])}
    IN  IF changes = {} THEN CHOOSE i \in on : \A j \in on : i <= j
                        ELSE CHOOSE i \in changes : \A j \in changes : j <= i

\* The revno each operation runs on, given those the documents have.
Revnos(t, revno) ==
    [i \in DOMAIN ops[t] |->
        LET d == ops[t][i].d
            before == {j \in 1..(i - 1) : ops[t][j].d = d /\ isChange(ops[t][j])}
        IN  revno[d] + Cardinality(before)]

LocalPcs == {"run", "recursed", "flush", "recurse", "advanced", "scan", "advance",
             "prepared", "rescanned"}
\* The calls that only read: an interruption before one of them shows nothing that one
\* before the next write does not.
Reads == {"confirmDoc", "confirmStash", "lostPrepared", "rescan", "rescanStash", "missing",
          "popped", "load", "assertDoc", "lostAborting", "lostApplying"}
Quiet == {p \in Runners : stack[p] # <<>> /\ Top(p).pc \in LocalPcs} = {}

-----------------------------------------------------------------------------
(* Starting a flush.                                                       *)

Begin(p, t, c) ==
    /\ stack' = [stack EXCEPT ![p] = <<RunFrame(<<t, 0>>)>>]
    /\ copy' = [copy EXCEPT ![p] = [h \in {<<t, 0>>} |-> c]]

NewTxn == [s |-> "preparing", n |-> 0, r |-> <<>>]

Run(p, t) ==
    /\ stack[p] = <<>> /\ pending[p] = <<>>
    /\ tc[t].s = "new" /\ RunBy[t] = p
    /\ tc' = [tc EXCEPT ![t] = NewTxn]
    /\ Begin(p, t, NewTxn)
    /\ UNCHANGED <<ops, doc, stash, queue, pending, tokens, counters, history, answer>>

\* Resume answers at once when the transaction is over.
Resume(p, t) ==
    /\ stack[p] = <<>> /\ pending[p] = <<>>
    /\ p \in down
    /\ tc[t].s # "new" /\ ~done(tc[t])
    /\ down' = down \ {p}
    /\ Begin(p, t, tc[t])
    /\ UNCHANGED <<ops, db, queue, pending, tokens, kills, history, answer>>

\* ResumeAll flushes the transactions as one query found them.
ResumeAll(p) ==
    /\ stack[p] = <<>> /\ pending[p] = <<>>
    /\ p \in down
    /\ down' = down \ {p}
    /\ LET unfinished == {t \in Txns : tc[t].s \in {"preparing", "prepared", "applying"}}
           ids == Ascending(unfinished)
       IN  /\ unfinished # {}
           /\ pending' = [pending EXCEPT ![p] = [i \in DOMAIN ids |-> <<ids[i], tc[ids[i]]>>]]
    /\ UNCHANGED <<ops, db, flusher, tokens, kills, history, answer>>

ResumeNext(p) ==
    /\ stack[p] = <<>> /\ pending[p] # <<>>
    /\ Begin(p, Head(pending[p])[1], Head(pending[p])[2])
    /\ pending' = [pending EXCEPT ![p] = Tail(@)]
    /\ UNCHANGED <<ops, db, queue, tokens, counters, history, answer>>

\* The process dies, or the failure injection stops the flusher at a checkpoint.
Kill(p) ==
    /\ stack[p] # <<>> /\ Top(p).pc \notin Reads /\ kills[p] > 0
    /\ kills' = [kills EXCEPT ![p] = @ - 1] /\ down' = down \cup {p}
    /\ stack' = [stack EXCEPT ![p] = <<>>]
    /\ copy' = [copy EXCEPT ![p] = <<>>]
    /\ queue' = [queue EXCEPT ![p] = NoQueues]
    /\ pending' = [pending EXCEPT ![p] = <<>>]
    /\ UNCHANGED <<ops, db, tokens, history, answer>>

-----------------------------------------------------------------------------
(* run and recurse: which transactions have to be applied before the goal. *)

seen(p) == {t \in Txns : <<t, 0>> \in DOMAIN copy[p]}
Stay == UNCHANGED <<ops, db, tokens, counters, history, answer, pending>>

\* The tokens of a queue that are still worth something, and who follows whom in them.
IsValid(p, x) == x[1] \in seen(p) /\ copy[p][<<x[1], 0>>].n = x[2]
Ordered(p) ==
    {t \in seen(p) : \E d \in Docs : \E x \in ToSet(queue[p][d]) : x[1] = t /\ IsValid(p, x)}
successors(p) ==
    [t \in Ordered(p) |->
        {u \in Ordered(p) : \E d \in Docs :
            LET v == SelectSeq(queue[p][d], LAMBDA x : IsValid(p, x))
            IN  \E i \in 1..(Len(v) - 1) : v[i][1] = t /\ v[i + 1][1] = u}]

\* What is flushed, one component after another, and which tokens its transactions may
\* pull: those of the components before it, and its own when it is not in a cycle.
Plan(sorted) ==
    LET sccs == Reverse(sorted)
        Ids(i) == ToSet(sccs[i])
        pull(i) == UNION {Ids(j) : j \in 1..(i - 1)}
                     \cup (IF Len(sccs[i]) = 1 THEN Ids(i) ELSE {})
    IN  [i \in DOMAIN sccs |-> <<sccs[i], [t \in pull(i) |-> <<t, 0>>]>>]

\* What is left to flush after the first transaction.
Rest(todo) ==
    LET scc == Head(todo)[1]
    IN  IF Len(scc) = 1 THEN Tail(todo) ELSE <<<<Tail(scc), Head(todo)[2]>>>> \o Tail(todo)

run(p) ==
    LET fr == Top(p)
        goal == fr.h[1]
        succ == successors(p)
        ready == \A t \in DOMAIN succ : goal \notin succ[t]
        todo == IF ready THEN <<<<<<goal>>, Self(fr.h)>>>> ELSE Plan(tarjanSort(succ))
    IN  \/ /\ At(p, "run")
           /\ Call(p, [fr EXCEPT !.pc = "recursed"], RecurseFrame(fr.h))
           /\ Stay /\ UNCHANGED <<copy, queue>>
        \/ /\ At(p, "recursed") /\ ~done(copy[p][fr.h])
           /\ Goto(p, [fr EXCEPT !.pc = "flush", !.todo = todo])
           /\ Stay /\ UNCHANGED <<copy, queue>>
        \/ /\ At(p, "flush") /\ fr.todo # <<>>
           /\ LET next == Head(fr.todo)
              IN  Call(p, [fr EXCEPT !.todo = Rest(@)],
                       AdvanceFrame(<<Head(next[1]), 0>>, next[2], TRUE))
           /\ Stay /\ UNCHANGED <<copy, queue>>
        \/ /\ \/ At(p, "recursed") /\ done(copy[p][fr.h])
              \/ At(p, "flush") /\ fr.todo = <<>>
           /\ Finish(p, IF done(copy[p][fr.h]) THEN copy[p][fr.h].s ELSE "panic")

\* The places of a queue with a transaction to recurse into: each is once.
Unseen(p, toks) == {i \in DOMAIN toks : toks[i][1] \in Txns \ seen(p)}

recurse(p) ==
    LET fr == Top(p)
        keys == docKeys(fr.h[1])
    IN  \/ /\ At(p, "recurse")
           /\ Call(p, [fr EXCEPT !.pc = "advanced"], AdvanceFrame(fr.h, Self(fr.h), FALSE))
           /\ UNCHANGED copy
        \/ /\ At(p, "advanced") /\ fr.err # "preReqs"
           /\ Return(p, "ok")
           /\ UNCHANGED copy
        \/ /\ At(p, "advanced") /\ fr.err = "preReqs"
           /\ Goto(p, [fr EXCEPT !.pc = "scan", !.toks = queue[p][keys[1]]])
           /\ UNCHANGED copy
        \/ /\ At(p, "scan")
           /\ \E i \in Unseen(p, fr.toks) :
                /\ \A j \in Unseen(p, fr.toks) : i <= j
                /\ Goto(p, [fr EXCEPT !.toks = SubSeq(@, i + 1, Len(@)), !.next = fr.toks[i][1],
                                      !.pc = "load"])
           /\ UNCHANGED copy
        \/ /\ At(p, "scan") /\ Unseen(p, fr.toks) = {}
           /\ IF fr.k = Len(keys)
                THEN Return(p, "ok")
                ELSE Goto(p, [fr EXCEPT !.k = @ + 1, !.toks = queue[p][keys[fr.k + 1]]])
           /\ UNCHANGED copy

\* The next transaction of the queue is loaded and recursed into.
load(p) ==
    /\ At(p, "load")
    /\ LET fr == Top(p)
           t == fr.next
       IN  /\ copy' = [copy EXCEPT ![p] = Holding(@, <<t, 0>>, tc[t])]
           /\ Call(p, [fr EXCEPT !.pc = "scan", !.next = None], RecurseFrame(<<t, 0>>))
    /\ UNCHANGED <<db, queue>>

\* The operations from the k-th on: one on a document that was there when it must not be,
\* or the other way round, is a miss.
Applying(p, fr, k) ==
    LET t == ops[Id(p)]
        left == {i \in k..Len(t) : /\ isChange(t[i])
                                  /\ (t[i].kind = "insert") = (T(p).r[i] < 0)}
        i == CHOOSE j \in left : \A m \in left : j <= m
    IN  IF left = {} THEN [fr EXCEPT !.pc = "setApplied"]
                     ELSE [fr EXCEPT !.k = i, !.pc = t[i].kind]

\* Where the loop over the documents starts.  Run accepts a transaction without operations:
\* it has no documents.
FirstKey(p, pc, end) == IF docKeys(Id(p)) = <<>> THEN end ELSE pc

\* advance: what a transaction needs next follows from the state it is in.
advance(p) ==
    LET fr == Top(p)
        t == T(p)
        keys == ToSet(docKeys(Id(p)))
        tt == <<Id(p), t.n>>
    IN  /\ At(p, "advance")
        /\ \/ /\ t.s = "preparing"
              /\ tokens' = [tokens EXCEPT ![Id(p)] = @ + 1]
              /\ Goto(p, [AdvanceFrame(fr.h, fr.pull, fr.force)
                             EXCEPT !.pc = FirstKey(p, "prepare", "setPrepared"),
                                    !.tt = <<Id(p), tokens[Id(p)] + 1>>])
              /\ UNCHANGED copy
           \/ /\ t.s = "prepared"
              /\ LET blocked == ~fr.force /\ found(queue[p], tt, keys) /\ prereqs(queue[p], tt, keys)
                 IN  IF blocked
                     THEN Return(p, "preReqs")
                     ELSE Goto(p, [AdvanceFrame(fr.h, fr.pull, fr.force)
                                     EXCEPT !.pc = FirstKey(p, "rescan", "rescanned"), !.tt = tt])
              /\ UNCHANGED <<tokens, copy>>
           \/ /\ t.s = "applying"
              /\ Goto(p, Applying(p, [AdvanceFrame(fr.h, fr.pull, fr.force) EXCEPT !.tt = tt], 1))
              /\ UNCHANGED <<tokens, copy>>
           \/ /\ t.s = "aborting"
              /\ To(p, "setAborted")
              /\ UNCHANGED <<tokens, copy>>
           \/ /\ done(t)
              /\ Return(p, "ok")
              /\ copy' = [copy EXCEPT ![p] = IF fr.h[2] = 0 THEN @ ELSE Restrict(@, DOMAIN @ \ {fr.h})]
              /\ UNCHANGED tokens

-----------------------------------------------------------------------------
(* prepare and rescan: the transaction's token in the queue of each of its *)
(* documents, and the revnos it runs on.                                   *)

\* The queue and the revno of a document as just read; then the next one at pc, or end.
Saw(p, q, revno, pc, end) ==
    LET fr == Top(p)
        last == fr.k = Len(docKeys(Id(p)))
    IN  /\ queue' = [queue EXCEPT ![p][Key(p)] = q]
        /\ Goto(p, [fr EXCEPT !.revno[Key(p)] = revno, !.pc = IF last THEN end ELSE pc,
                              !.k = IF last THEN 1 ELSE @ + 1])

StashRevno(d) == IF stash[d].revno = 0 THEN -1 ELSE stash[d].revno
NoStash == [here |-> FALSE, revno |-> 0, q |-> <<>>, ins |-> None, n |-> {}]
EmptyStash == [NoStash EXCEPT !.here = TRUE]
Upserted(d) == IF stash[d].here THEN stash[d] ELSE EmptyStash

\* The token joins the queue of the document, or of its stash when there is none.
prepareDoc(p) ==
    LET d == Key(p)
        q == AddToSet(doc[d].q, Top(p).tt)
    IN  /\ At(p, "prepare")
        /\ IF doc[d].here
             THEN /\ doc' = [doc EXCEPT ![d].q = q]
                  /\ IF doc[d].rm = None
                       THEN Saw(p, q, doc[d].revno, "prepare", "setPrepared") /\ UNCHANGED copy
                       ELSE loadAndApply(p, doc[d].rm, "prepare") /\ UNCHANGED queue
             ELSE To(p, "prepareStash") /\ UNCHANGED <<doc, copy, queue>>
        /\ UNCHANGED <<tc, stash>>

prepareStash(p) ==
    LET d == Key(p)
    IN  /\ At(p, "prepareStash")
        /\ stash' = [stash EXCEPT ![d] = [Upserted(d) EXCEPT !.q = AddToSet(Upserted(d).q, Top(p).tt)]]
        /\ IF Upserted(d).ins = None
             THEN To(p, "confirmDoc") /\ UNCHANGED copy
             ELSE loadAndApply(p, stash[d].ins, "prepare")
        /\ UNCHANGED <<tc, doc, queue>>

\* The stash may have been overwritten meanwhile: the token is looked for once more,
\* in the document first.
confirmDoc(p) ==
    LET d == Key(p)
    IN  /\ At(p, "confirmDoc")
        /\ IF ~doc[d].here
             THEN To(p, "confirmStash") /\ UNCHANGED queue
             ELSE IF doc[d].rm = None /\ Contains(doc[d].q, Top(p).tt)
             THEN Saw(p, doc[d].q, doc[d].revno, "prepare", "setPrepared")
             ELSE To(p, "unstash") /\ UNCHANGED queue
        /\ UNCHANGED <<db, copy>>

confirmStash(p) ==
    LET d == Key(p)
    IN  /\ At(p, "confirmStash")
        /\ IF stash[d].here /\ stash[d].ins = None /\ Contains(stash[d].q, Top(p).tt)
             THEN Saw(p, stash[d].q, StashRevno(d), "prepare", "setPrepared")
             ELSE To(p, "unstash") /\ UNCHANGED queue
        /\ UNCHANGED <<db, copy>>

\* unstashToken.  The removal of an emptied stash asks for a queue equal to {}, which
\* no list is: it removes nothing.
unstashToken(p) ==
    /\ At(p, "unstash")
    /\ stash' = [stash EXCEPT ![Key(p)].q = PullAll(@, {Top(p).tt})]
    /\ To(p, "prepare")
    /\ UNCHANGED <<tc, doc, copy, queue>>

setPrepared(p) ==
    LET t == Id(p)
    IN  /\ At(p, "setPrepared")
        /\ IF tc[t].s = "preparing"
             THEN /\ tc' = [tc EXCEPT ![t].s = "prepared", ![t].n = Top(p).tt[2]]
                  /\ SetCopy(p, [T(p) EXCEPT !.s = "prepared", !.n = Top(p).tt[2]])
                  /\ To(p, "prepared")
             ELSE /\ To(p, "lostPrepared")
                  /\ UNCHANGED <<tc, copy>>
        /\ UNCHANGED <<doc, stash, queue>>

\* Somebody else prepared it: with the nonce that was saved, the queues are as good.
lostPrepared(p) ==
    LET t == tc[Id(p)]
    IN  /\ At(p, "lostPrepared")
        /\ reload(p)
        /\ Goto(p, [Top(p) EXCEPT !.pc = IF t.s = "prepared" THEN "prepared" ELSE "advance",
                                  !.tt = <<Id(p), t.n>>])
        /\ UNCHANGED <<db, queue>>

rescanDoc(p) ==
    LET d == Key(p)
    IN  /\ At(p, "rescan")
        /\ IF ~doc[d].here
             THEN To(p, "rescanStash") /\ UNCHANGED <<copy, queue>>
             ELSE IF doc[d].rm # None
             THEN loadAndApply(p, doc[d].rm, "rescan") /\ UNCHANGED queue
             ELSE /\ Saw(p, doc[d].q, doc[d].revno,
                         IF Contains(doc[d].q, Top(p).tt) THEN "rescan" ELSE "popped",
                         IF Contains(doc[d].q, Top(p).tt) THEN "rescanned" ELSE "popped")
                  /\ UNCHANGED copy
        /\ UNCHANGED db

rescanStash(p) ==
    LET d == Key(p)
    IN  /\ At(p, "rescanStash")
        /\ IF ~stash[d].here
             THEN To(p, "missing") /\ UNCHANGED <<copy, queue>>
             ELSE IF stash[d].ins # None
             THEN loadAndApply(p, stash[d].ins, "rescan") /\ UNCHANGED queue
             ELSE /\ Saw(p, stash[d].q, StashRevno(d),
                         IF Contains(stash[d].q, Top(p).tt) THEN "rescan" ELSE "popped",
                         IF Contains(stash[d].q, Top(p).tt) THEN "rescanned" ELSE "popped")
                  /\ UNCHANGED copy
        /\ UNCHANGED db

\* Neither the document nor the stash: perhaps it was applied, perhaps the reads raced
\* with an insert or a remove; the third time it is an error.
missing(p) ==
    LET fr == Top(p)
    IN  /\ At(p, "missing")
        /\ tc[Id(p)].s # "prepared" \/ fr.tries < 2
        /\ reload(p)
        /\ Goto(p, [fr EXCEPT !.pc = IF tc[Id(p)].s = "prepared" THEN "rescan" ELSE "advance",
                              !.tries = IF tc[Id(p)].s = "prepared" THEN @ + 1 ELSE @])
        /\ UNCHANGED <<db, queue>>

missingFails(p) ==
    /\ At(p, "missing")
    /\ tc[Id(p)].s = "prepared" /\ Top(p).tries = 2
    /\ Finish(p, "error")

\* The token is gone from a queue: the transaction must have been applied or aborted.
popped(p) ==
    /\ At(p, "popped")
    /\ tc[Id(p)].s \notin {"preparing", "prepared"}
    /\ reload(p)
    /\ To(p, "advance")
    /\ UNCHANGED <<db, queue>>

poppedPanics(p) ==
    /\ At(p, "popped")
    /\ tc[Id(p)].s \in {"preparing", "prepared"}
    /\ Finish(p, "panic")

\* The first operation from the k-th on whose test needs a query, or fails without one.
\* (An insert may only assert that the document is missing: anything else is an error.)
Passes(op, revno) == op.assert = "none" \/ (op.assert = "missing" /\ revno < 0)
Tested(p, fr, k) ==
    LET t == ops[Id(p)]
        left == {i \in k..Len(t) : ~Passes(t[i], fr.revnos[i])}
        i == CHOOSE j \in left : \A m \in left : j <= m
    IN  IF left = {} THEN [fr EXCEPT !.pc = "setApplying"]
        ELSE [fr EXCEPT !.k = i, !.pc = IF t[i].assert = "missing" THEN "setAborting"
                                                                  ELSE "assertDoc"]

\* All queues are known: blocked, or ready to be tested.  (The panic for a token that no queue
\* has, flusher.go:471-472, is left out: rescan ends before it when one queue has lost it.)
collected(p) ==
    LET fr == Top(p)
        keys == ToSet(docKeys(Id(p)))
        isFound == found(queue[p], fr.tt, keys)
        blocked == ~fr.force /\ prereqs(queue[p], fr.tt, keys)
    IN  /\ (At(p, "prepared") \/ At(p, "rescanned"))
        /\ IF isFound /\ blocked
             THEN Return(p, "preReqs")
             ELSE Goto(p, IF isFound
                          THEN Tested(p, [fr EXCEPT !.revnos = Revnos(Id(p), fr.revno)], 1)
                          ELSE [AdvanceFrame(fr.h, fr.pull, fr.force)
                                  EXCEPT !.pc = "rescan", !.tt = fr.tt])
        /\ UNCHANGED <<tokens, copy>>

-----------------------------------------------------------------------------
(* assert, abortOrReload and checkpoint: the decision.                     *)

\* A query for the document at the revno the transaction first finds it in.
assertDoc(p) ==
    LET fr == Top(p)
        op == Oper(p)
        d == doc[op.d]
        first == CHOOSE i \in DOMAIN fr.revnos :
                    ops[Id(p)][i].d = op.d /\ \A j \in 1..(i - 1) : ops[Id(p)][j].d # op.d
        match == /\ d.here /\ d.revno = fr.revnos[first]
                 /\ op.assert = "atLeast" => d.val >= op.min
    IN  /\ At(p, "assertDoc")
        /\ Goto(p, IF match THEN Tested(p, fr, fr.k + 1) ELSE [fr EXCEPT !.pc = "setAborting"])
        /\ UNCHANGED <<db, copy, queue>>

\* The first operation from the k-th on whose document's queue holds tokens to pull.
Pulling(p, k) ==
    LET fr == Top(p)
        t == ops[Id(p)]
        left == {i \in k..Len(t) :
                    /\ tokensToPull(queue[p][t[i].d], fr.pull, copy[p], None) # {}
                    /\ \A j \in 1..(i - 1) : t[j].d # t[i].d}
    IN  IF left = {} THEN [fr EXCEPT !.pc = "setAborted"]
        ELSE [fr EXCEPT !.pc = "pullDoc", !.k = CHOOSE i \in left : \A j \in left : i <= j]

\* Mutant of setAborting: the update does not ask for the state it saw.
setAbortingAlways(p) ==
    /\ At(p, "setAborting")
    /\ tc' = [tc EXCEPT ![Id(p)].s = "aborting"]
    /\ SetCopy(p, [T(p) EXCEPT !.s = "aborting"])
    /\ Goto(p, Pulling(p, 1))
    /\ UNCHANGED <<doc, stash, queue>>

\* Only a transaction that is still prepared starts to abort; who loses the race goes
\* on with what the winner decided.
setAborting(p) ==
    LET t == Id(p)
        mine == tc[t].s = "prepared"
    IN  /\ At(p, "setAborting")
        /\ tc' = IF mine THEN [tc EXCEPT ![t].s = "aborting"] ELSE tc
        /\ IF mine THEN SetCopy(p, [T(p) EXCEPT !.s = "aborting"]) ELSE UNCHANGED copy
        /\ IF mine THEN Goto(p, Pulling(p, 1)) ELSE To(p, "lostAborting")
        /\ UNCHANGED <<doc, stash, queue>>

lostAborting(p) ==
    /\ At(p, "lostAborting")
    /\ reload(p)
    /\ Goto(p, IF tc[Id(p)].s = "aborting" THEN Pulling(p, 1) ELSE [Top(p) EXCEPT !.pc = "advance"])
    /\ UNCHANGED <<db, queue>>

pullDoc(p) ==
    LET fr == Top(p)
        d == Oper(p).d
        toks == tokensToPull(queue[p][d], fr.pull, copy[p], None)
    IN  /\ At(p, "pullDoc")
        /\ IF fr.revnos[fr.k] < 0
             THEN stash' = [stash EXCEPT ![d].q = PullAll(@, toks)] /\ UNCHANGED doc
             ELSE doc' = [doc EXCEPT ![d].q = PullAll(@, toks)] /\ UNCHANGED stash
        /\ Goto(p, Pulling(p, fr.k + 1))
        /\ UNCHANGED <<tc, copy, queue>>

setAborted(p) ==
    /\ At(p, "setAborted")
    /\ tc' = [tc EXCEPT ![Id(p)].s = "aborted"]
    /\ SetCopy(p, [T(p) EXCEPT !.s = "aborted"])
    /\ To(p, "advance")
    /\ UNCHANGED <<doc, stash, queue>>

\* Mutant of checkpoint: the update does not ask for the state it saw.
checkpointAlways(p) ==
    /\ At(p, "setApplying")
    /\ tc' = [tc EXCEPT ![Id(p)].s = "applying", ![Id(p)].r = Top(p).revnos]
    /\ SetCopy(p, [T(p) EXCEPT !.s = "applying", !.r = Top(p).revnos])
    /\ To(p, "advance")
    /\ UNCHANGED <<doc, stash, queue>>

\* checkpoint: the revnos are saved with the decision to apply.
checkpoint(p) ==
    LET t == Id(p)
        mine == tc[t].s = "prepared"
        c == [tc[t] EXCEPT !.s = "applying", !.r = Top(p).revnos]
    IN  /\ At(p, "setApplying")
        /\ tc' = IF mine THEN [tc EXCEPT ![t] = c] ELSE tc
        /\ IF mine THEN SetCopy(p, [T(p) EXCEPT !.s = "applying", !.r = Top(p).revnos])
                   ELSE UNCHANGED copy
        /\ To(p, IF mine THEN "advance" ELSE "lostApplying")
        /\ UNCHANGED <<doc, stash, queue>>

lostApplying(p) ==
    /\ At(p, "lostApplying")
    /\ reload(p)
    /\ To(p, "advance")
    /\ UNCHANGED <<db, queue>>

-----------------------------------------------------------------------------
(* apply: the operations one by one, each on the revno that was saved.     *)

Revno(p) == T(p).r[Top(p).k]
\* Mutant of DocMatches: the query asks for the id alone.
DocMatchesId(p) == doc[Oper(p).d].here
\* An operation finds its document only at that revno and with the token in its queue.
DocMatches(p) ==
    LET d == doc[Oper(p).d]
    IN  d.here /\ d.revno = Revno(p) /\ Contains(d.q, Top(p).tt)
StashMatches(p) ==
    LET d == stash[Oper(p).d]
    IN  /\ d.here /\ Contains(d.q, Top(p).tt)
        /\ d.revno = IF Revno(p) = -1 THEN 0 ELSE Revno(p)
ToPull(p) ==
    LET fr == Top(p)
        isPullOp == pullOp(Id(p), Oper(p).d) = fr.k
    IN  tokensToPull(queue[p][Oper(p).d], fr.pull, copy[p], IF isPullOp THEN None ELSE fr.tt)

NextOp(p) == Goto(p, Applying(p, Top(p), Top(p).k + 1))
Took(p) ==
    /\ effect' = [effect EXCEPT ![Id(p)][Top(p).k] = @ + 1]
    /\ order' = [order EXCEPT ![Oper(p).d] = Append(@, Id(p))]

applyUpdate(p) ==
    LET d == Oper(p).d
    IN  /\ At(p, "update")
        /\ IF DocMatches(p)
             THEN /\ doc' = [doc EXCEPT ![d].val = @ + Oper(p).n, ![d].revno = @ + 1,
                                       ![d].q = PullAll(@, ToPull(p))]
                  /\ Took(p)
             ELSE UNCHANGED <<doc, history>>
        /\ NextOp(p)
        /\ UNCHANGED <<tc, stash, copy, queue>>

\* A remove first gets hold of the stash, under a nonce of its own (a name for p is
\* enough: p tries one remove at a time, and each try writes the nonce anew) ...
removeStash(p) ==
    LET d == Oper(p).d
    IN  /\ At(p, "remove")
        /\ stash' = [stash EXCEPT ![d] = [Upserted(d) EXCEPT !.n = Upserted(d).n \cup {p}]]
        /\ Goto(p, [Top(p) EXCEPT !.pc = "removeMark",
                                  !.stashed = Contains(Upserted(d).q, Top(p).tt)])
        /\ UNCHANGED <<tc, doc, copy, queue, history>>

\* ... marks the document ...
removeMark(p) ==
    LET d == Oper(p).d
    IN  /\ At(p, "removeMark")
        /\ IF DocMatches(p)
             THEN /\ doc' = [doc EXCEPT ![d].rm = Id(p)]
                  /\ Goto(p, [Top(p) EXCEPT !.q = doc[d].q,
                                            !.pc = IF Top(p).stashed THEN "removeDoc" ELSE "removeSave"])
             ELSE NextOp(p) /\ UNCHANGED doc
        /\ UNCHANGED <<tc, stash, copy, queue, history>>

\* ... saves its queue and the new revno in the stash, unless another did ...
removeSave(p) ==
    LET d == Oper(p).d
    IN  /\ At(p, "removeSave")
        /\ stash' = IF stash[d].here /\ p \in stash[d].n
                    THEN [stash EXCEPT ![d] = [@ EXCEPT !.q = Top(p).q, !.n = {},
                                !.revno = IF Revno(p) = 0 THEN 0 ELSE -Revno(p) - 1]]
                    ELSE stash
        /\ To(p, "removeDoc")
        /\ UNCHANGED <<tc, doc, copy, queue, history>>

\* ... and removes it.
NoDoc == [here |-> FALSE, val |-> 0, revno |-> 0, q |-> <<>>, rm |-> None]
removeDoc(p) ==
    /\ At(p, "removeDoc")
    /\ IF DocMatches(p)
         THEN doc' = [doc EXCEPT ![Oper(p).d] = NoDoc] /\ Took(p)
         ELSE UNCHANGED <<doc, history>>
    /\ NextOp(p)
    /\ UNCHANGED <<tc, stash, copy, queue>>

\* An insert marks the stash, inserts a document with the stash's queue, and removes the
\* stash once the document is there.
insertMark(p) ==
    LET d == Oper(p).d
    IN  /\ At(p, "insert")
        /\ IF StashMatches(p)
             THEN /\ stash' = [stash EXCEPT ![d].ins = Id(p)]
                  /\ Goto(p, [Top(p) EXCEPT !.pc = "insertDoc", !.q = stash[d].q])
             ELSE NextOp(p) /\ UNCHANGED stash
        /\ UNCHANGED <<tc, doc, copy, queue, history>>

insertDoc(p) ==
    LET d == Oper(p).d
    IN  /\ At(p, "insertDoc")
        /\ IF doc[d].here
             THEN UNCHANGED <<doc, history>>
             ELSE /\ doc' = [doc EXCEPT ![d] = [here |-> TRUE, val |-> Oper(p).n, rm |-> None,
                                                revno |-> -Revno(p) + 1, q |-> Top(p).q]]
                  /\ Took(p)
        /\ To(p, "insertUnstash")
        /\ UNCHANGED <<tc, stash, copy, queue>>

insertUnstash(p) ==
    /\ At(p, "insertUnstash")
    /\ stash' = IF StashMatches(p) THEN [stash EXCEPT ![Oper(p).d] = NoStash] ELSE stash
    /\ IF pullOp(Id(p), Oper(p).d) = Top(p).k /\ ToPull(p) # {}
         THEN To(p, "insertPull")
         ELSE NextOp(p)
    /\ UNCHANGED <<tc, doc, copy, queue, history>>

\* What is left of the stash, if anything, loses the tokens.
insertPull(p) ==
    /\ At(p, "insertPull")
    /\ stash' = [stash EXCEPT ![Oper(p).d].q = PullAll(@, ToPull(p))]
    /\ NextOp(p)
    /\ UNCHANGED <<tc, doc, copy, queue, history>>

\* Somebody else may have been first.  An error no longer matters, though the transaction
\* remains applying (tried while p may still be interrupted, a bound).
setApplied(p) ==
    LET t == Id(p)
    IN  /\ At(p, "setApplied")
        /\ \/ tc' = IF tc[t].s = "applying" THEN [tc EXCEPT ![t].s = "applied"] ELSE tc
           \/ kills[p] > 0 /\ tc' = tc
        /\ SetCopy(p, [T(p) EXCEPT !.s = "applied"])
        /\ To(p, "advance")
        /\ UNCHANGED <<doc, stash, queue, history>>

-----------------------------------------------------------------------------
Init ==
    /\ \E sc \in Scenarios :
        /\ ops = sc.ops /\ kills = sc.kills
        /\ doc = [d \in Docs |-> IF d \in DOMAIN sc.docs
                                 THEN [NoDoc EXCEPT !.here = TRUE, !.val = sc.docs[d]]
                                 ELSE NoDoc]
    /\ tc = [t \in Txns |-> [s |-> "new", n |-> 0, r |-> <<>>]]
    /\ stash = [d \in Docs |-> NoStash]
    /\ stack = [p \in Runners |-> <<>>]
    /\ copy = [p \in Runners |-> <<>>]
    /\ queue = [p \in Runners |-> NoQueues]
    /\ pending = [p \in Runners |-> <<>>]
    /\ tokens = [t \in Txns |-> 0]
    /\ down = {}
    /\ effect = [t \in Txns |-> [i \in DOMAIN ops[t] |-> 0]]
    /\ order = [d \in Docs |-> <<>>]
    /\ answer = [t \in Txns |-> {}]

Local(p) ==
    \/ run(p)
    \/ recurse(p) /\ UNCHANGED queue /\ Stay
    \/ /\ advance(p) \/ collected(p)
       /\ UNCHANGED <<ops, db, queue, counters, history, answer, pending>>

\* A call to the database.
Write(p) ==
    /\ \/ prepareDoc(p) \/ prepareStash(p) \/ confirmDoc(p) \/ confirmStash(p)
       \/ unstashToken(p) \/ setPrepared(p) \/ lostPrepared(p)
       \/ rescanDoc(p) \/ rescanStash(p) \/ missing(p) \/ popped(p)
       \/ assertDoc(p) \/ setAborting(p) \/ lostAborting(p) \/ pullDoc(p) \/ setAborted(p)
       \/ checkpoint(p) \/ lostApplying(p) \/ load(p)
    /\ UNCHANGED <<ops, pending, tokens, counters, history, answer>>
Apply(p) ==
    /\ \/ applyUpdate(p)
       \/ removeStash(p) \/ removeMark(p) \/ removeSave(p) \/ removeDoc(p)
       \/ insertMark(p) \/ insertDoc(p) \/ insertUnstash(p) \/ insertPull(p)
       \/ setApplied(p)
    /\ UNCHANGED <<ops, pending, tokens, counters, answer>>

Step(p) ==
    \/ Local(p)
    \/ /\ Quiet
       /\ Write(p) \/ Apply(p) \/ missingFails(p) \/ poppedPanics(p) \/ ResumeNext(p)
Client(p) == Kill(p) \/ ResumeAll(p) \/ \E t \in Txns : Run(p, t) \/ Resume(p, t)

Next == \E p \in Runners : Step(p) \/ (Quiet /\ Client(p))
Spec == Init /\ [][Next]_vars

-----------------------------------------------------------------------------
(* Properties.                                                             *)

IsToken(x) == x[1] \in Txns /\ x[2] \in 1..tokens[x[1]]

\* Types: documents count their revisions up from 0, stashes down; every token of a queue
\* was drawn for its transaction.
TypeOK ==
    /\ \A t \in Txns :
        /\ tc[t].s \in States /\ tc[t].n \in 0..tokens[t]
        /\ \A i \in DOMAIN ops[t] : ops[t][i] \in Op
    /\ \A d \in Docs :
        /\ doc[d].revno >= 0 /\ \A x \in ToSet(doc[d].q) : IsToken(x)
        /\ stash[d].revno <= 0 /\ \A x \in ToSet(stash[d].q) : IsToken(x)
        /\ {doc[d].rm, stash[d].ins} \subseteq Txns \cup {None}
    /\ kills \in [Runners -> Nat] /\ down \subseteq Runners

\* An operation of this kind has changed d.
Did(kind, d) ==
    \E t \in Txns : \E i \in DOMAIN ops[t] :
        ops[t][i].d = d /\ ops[t][i].kind = kind /\ effect[t][i] > 0

\* No change is made unless it was decided to apply its transaction, and none is made
\* twice, however many flushers apply it at once (apply finds a document only at the revno
\* that was saved) -- as long as the document was not both inserted and removed: "if
\* someone inserts+removes meanwhile, this will reinsert" (flusher.go:826).
AtMostOnce ==
    \A t \in Txns : \A i \in DOMAIN ops[t] : isChange(ops[t][i]) =>
        /\ effect[t][i] > 0 => tc[t].s \in {"applying", "applied"}
        /\ effect[t][i] > 1 => Did("insert", ops[t][i].d) /\ Did("remove", ops[t][i].d)

\* The document was inserted again by an insert that had been made.
Reinserted(d) ==
    \E t \in Txns : \E i \in DOMAIN ops[t] :
        ops[t][i].d = d /\ ops[t][i].kind = "insert" /\ effect[t][i] > 1

\* A transaction is "eventually all applied in the order provided or all aborted"
\* (txn.go:245): once it is applied each of its changes was made, and only once unless its
\* document was reinserted -- whoever flushes it, alone or along with others, and whoever
\* is interrupted.  (The operations of the scenarios test that their documents are there
\* or not, so that none may miss.)
AllOrNothing ==
    \A t \in Txns : \A i \in DOMAIN ops[t] : isChange(ops[t][i]) =>
        /\ tc[t].s = "applied" => effect[t][i] >= 1
        /\ effect[t][i] > 1 => Reinserted(ops[t][i].d)

\* What Run and Resume answer is what becomes of the transaction, also when another
\* client decided it (flusher.run, the end of Run and Resume).
AnswersAreTrue ==
    \A t \in Txns :
        /\ "aborted" \in answer[t] => tc[t].s = "aborted"
        /\ "applied" \in answer[t] =>
            /\ tc[t].s \in {"applying", "applied"}
            /\ \A i \in DOMAIN ops[t] : isChange(ops[t][i]) => effect[t][i] >= 1

\* "The order in which transactions are applied in commonly affected documents must be a
\* global agreement" (flusher.go:106): no two transactions change one document in one
\* order and another document, or the same one, in the other (a reinserted one aside).
Precedes(t, u, d) ==
    ~Reinserted(d) /\ \E i, j \in DOMAIN order[d] : i < j /\ order[d][i] = t /\ order[d][j] = u
OrderAgreed ==
    \A t, u \in Txns : t # u =>
        ~((\E d \in Docs : Precedes(t, u, d)) /\ (\E d \in Docs : Precedes(u, t, d)))

\* No decision is taken back or taken twice: the nonce of a prepared transaction, the
\* revnos it is applied on and its outcome stay, whichever flushers race for it.
DecisionsAreFinal ==
    [][\A t \in Txns :
        /\ tc[t].s \notin {"new", "preparing"} => tc'[t].n = tc[t].n
        /\ tc[t].s \in {"applying", "applied"} =>
                tc'[t].s \in {tc[t].s, "applied"} /\ tc'[t].r = tc[t].r
        /\ tc[t].s \in {"aborting", "aborted"} => tc'[t].s \in {tc[t].s, "aborted"}]_tc

(***************************************************************************)
(* The inductive invariant of DecisionsAreFinal.  The final update of an   *)
(* abort does not ask for the state it saw, so what keeps a transaction    *)
(* that others apply from it is what a flusher knows: the copies in its    *)
(* memory, the calls it is in and the transactions it found unfinished     *)
(* may be old, but what they say was decided has been decided.             *)
(***************************************************************************)

\* What may have become of a transaction that was seen in state s.
Later(s) ==
    CASE s \in {"aborting", "aborted"} -> {s, "aborted"}
      [] s \in {"applying", "applied"} -> {"applying", "applied"}
      [] OTHER -> States

\* A copy of a transaction, when log is the collection of the transactions.
Agrees(c, t, log) ==
    /\ DOMAIN c = DOMAIN NewTxn
    /\ c.s \in States /\ log[t].s \in Later(c.s)

\* Where a flusher is in a call: advance by the state it has found or brought about.
RunPcs == {"run", "recursed", "flush"}
RecursePcs == {"recurse", "advanced", "scan", "load"}
AbortingPcs == {"pullDoc", "setAborted"}
ApplyingPcs == {"update", "remove", "removeMark", "removeSave", "removeDoc",
                "insert", "insertDoc", "insertUnstash", "insertPull", "setApplied"}
KeyPcs == {"prepare", "prepareStash", "confirmDoc", "confirmStash", "unstash",
           "rescan", "rescanStash", "missing"}
AdvancePcs == {"advance", "setPrepared", "lostPrepared", "prepared", "popped", "rescanned",
               "assertDoc", "setAborting", "lostAborting", "setApplying", "lostApplying"}
                 \cup KeyPcs \cup AbortingPcs \cup ApplyingPcs

\* A call of a flusher, below which there are as many others as depth says, and which has
\* the copies hs: run is the first; in it there are recurse, any number of times, advance,
\* and in advance again advance, by force, with a copy of its own.
RunFits(fr, hs) ==
    /\ fr.pc \in RunPcs /\ DOMAIN fr = DOMAIN RunFrame(fr.h)
    /\ fr.todo \in Seq(ToSet(fr.todo))
    /\ \A j \in DOMAIN fr.todo : fr.todo[j][1] \in Seq({t \in Txns : <<t, 0>> \in hs}) \ {<<>>}
RecurseFits(fr) ==
    /\ fr.pc \in RecursePcs /\ DOMAIN fr = DOMAIN RecurseFrame(fr.h)
    /\ fr.h[2] = 0
    /\ fr.pc = "load" => fr.next \in Txns
AdvanceFits(fr, log) ==
    /\ fr.pc \in AdvancePcs /\ DOMAIN fr = DOMAIN AdvanceFrame(fr.h, fr.pull, fr.force)
    /\ fr.pc \in AbortingPcs => log[fr.h[1]].s \in Later("aborting")
    /\ fr.pc \in ApplyingPcs => log[fr.h[1]].s \in Later("applying") /\ fr.k \in Nat \ {0}
    /\ fr.pc \in KeyPcs => fr.k \in 1..Len(docKeys(fr.h[1]))
Fits(fr, depth, hs, log) ==
    /\ fr.h \in hs /\ fr.h[2] \in {0, depth}
    /\ IF depth = 0 THEN RunFits(fr, hs) ELSE RecurseFits(fr) \/ AdvanceFits(fr, log)

CallsFit(calls, hs, log) ==
    /\ calls \in Seq(ToSet(calls))
    /\ \A i \in DOMAIN calls : Fits(calls[i], Len(calls) - i, hs, log)
CopiesFit(copies, log) ==
    /\ DOMAIN copies \subseteq Txns \X Nat
    /\ \A h \in DOMAIN copies : Agrees(copies[h], h[1], log)
PendingFits(ts, log) ==
    /\ ts \in Seq(ToSet(ts))
    /\ \A i \in DOMAIN ts : ts[i][1] \in Txns /\ Agrees(ts[i][2], ts[i][1], log)
FlusherInv ==
    /\ stack \in [Runners -> Range(stack)] /\ copy \in [Runners -> Range(copy)]
    /\ pending \in [Runners -> Range(pending)]
    /\ \A p \in Runners : /\ CallsFit(stack[p], DOMAIN copy[p], tc)
                          /\ CopiesFit(copy[p], tc)
                          /\ PendingFits(pending[p], tc)

\* A document or stash marked for a transaction is marked for one there is.
StoredInv ==
    /\ ops \in [Txns -> Seq(Op)]
    /\ DOMAIN tc = Txns /\ \A t \in Txns : DOMAIN tc[t] = DOMAIN NewTxn /\ tc[t].s \in States
    /\ DOMAIN doc = Docs /\ DOMAIN stash = Docs
    /\ \A d \in Docs : /\ DOMAIN doc[d] = DOMAIN NoDoc /\ doc[d].rm \in Txns \cup {None}
                       /\ DOMAIN stash[d] = DOMAIN NoStash /\ stash[d].ins \in Txns \cup {None}

\* What was answered is what was decided.
AnswerInv ==
    /\ DOMAIN answer = Txns
    /\ \A t \in Txns : \A s \in {"applied", "aborted"} : s \in answer[t] => tc[t].s \in Later(s)

DecisionInv == StoredInv /\ FlusherInv /\ AnswerInv

(***************************************************************************)
(* The inductive invariant of AtMostOnce.  Whoever applies a transaction   *)
(* does so on the revnos that were saved with the decision, and a change   *)
(* that was made has left its document past its revno, or removed.         *)
(***************************************************************************)

Decided == {"applying", "applied"}
TestingPcs == {"assertDoc", "setApplying"}
\* Where a change of some kind is made.
ChangePcs(kind) ==
    CASE kind = "update" -> {"update"}
      [] kind = "remove" -> {"remove", "removeMark", "removeSave", "removeDoc"}
      [] kind = "insert" -> {"insert", "insertDoc", "insertUnstash", "insertPull"}
      [] OTHER -> {}

\* A revno for each operation.
Numbers(r, os) == \A i \in DOMAIN os : r[i] \in Int
\* A copy of a transaction that was decided has the revnos that were saved.
SameRevnos(c, t, log) == c.s \in Decided => c.r = log[t].r

\* A call counts revisions; only the innermost tests or applies operations, those of a
\* transaction whose copy c is being applied.
CallKnows(fr) == "revno" \in DOMAIN fr => fr.revno \in [Docs -> Int]
TopKnows(fr, c, os) ==
    /\ fr.pc \in TestingPcs => Numbers(fr.revnos, os)
    /\ fr.pc \in ApplyingPcs =>
        /\ c.s = "applying"
        /\ fr.pc # "setApplied" => fr.k \in DOMAIN os /\ fr.pc \in ChangePcs(os[fr.k].kind)
CallsKnow(calls, copies, txns) ==
    \A i \in DOMAIN calls :
        /\ CallKnows(calls[i])
        /\ IF i = 1 THEN TopKnows(calls[i], copies[calls[i].h], txns[calls[i].h[1]])
                    ELSE calls[i].pc \notin ApplyingPcs \cup TestingPcs
CopiesKnow(copies, log) == \A h \in DOMAIN copies : SameRevnos(copies[h], h[1], log)
PendingKnow(ts, log) == \A i \in DOMAIN ts : SameRevnos(ts[i][2], ts[i][1], log)

\* Documents, stashes and decided transactions have revnos ...
NumbersInv ==
    /\ \A d \in Docs : doc[d].revno \in Int /\ stash[d].revno \in Int
    /\ \A t \in Txns : tc[t].s \in Decided => Numbers(tc[t].r, ops[t])
\* ... and the flushers know them.
KnowledgeInv ==
    \A p \in Runners : /\ CallsKnow(stack[p], copy[p], ops)
                       /\ CopiesKnow(copy[p], tc)
                       /\ PendingKnow(pending[p], tc)

\* What a change of this kind, made on revno r, has left of its document dc.
Left(kind, r, dc, removed) ==
    CASE kind = "update" -> IF dc.here THEN dc.revno > r ELSE removed
      [] kind = "remove" -> ~dc.here
      [] kind = "insert" -> dc.here
      [] OTHER -> FALSE
ChangeInv(t, i) ==
    LET d == ops[t][i].d
    IN  effect[t][i] > 0 =>
            /\ tc[t].s \in Decided
            /\ \/ Did("insert", d) /\ Did("remove", d)
               \/ effect[t][i] = 1 /\ Left(ops[t][i].kind, tc[t].r[i], doc[d], Did("remove", d))
EffectsInv ==
    /\ DOMAIN effect = Txns /\ \A t \in Txns : effect[t] \in [DOMAIN ops[t] -> Nat]
    /\ \A t \in Txns : \A i \in DOMAIN ops[t] : ChangeInv(t, i)

OnceInv == NumbersInv /\ KnowledgeInv /\ EffectsInv

=============================================================================
