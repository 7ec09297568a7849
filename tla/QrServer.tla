------------------------------ MODULE QrServer ------------------------------
(***************************************************************************)
(* The server's /qrcode: each request runs in a goroutine of its own, and  *)
(* all of them extend one list of generator polynomials, cachedGenerators, *)
(* with no lock.  A step of a handler is one access to that list; what it  *)
(* computes by itself is part of the step.                                 *)
(***************************************************************************)
EXTENDS QrScan

CONSTANTS
    Clients,       \* who asks, one request at a time
    Plans,         \* each a sequence of phases [client -> host]: the requests of a phase come when
                   \* those of the phase before are answered
    MaxSwitches    \* how often a handler at work gives way to another one

ASSUME BoundAssumption == MaxSwitches \in Nat

VARIABLES
    cachedGenerators,  \* the slice: its array and its length
    arrays,            \* the arrays behind slices; a place not yet written holds <<>>
    handler,           \* [Clients -> the local state of its handler]
    plan,              \* what is asked
    phase,             \* the phase the requests have come to
    waiting,           \* the clients that have yet to ask in this phase
    running,           \* the client whose handler took the last step
    switches,          \* how often a handler at work was left for another
    raced,             \* whether two handlers were ever growing the list at once
    answer             \* [Clients -> what the client got last]
vars == <<cachedGenerators, arrays, handler, plan, phase, waiting, running, switches, raced, answer>>

Level == "Q"
Idle == [pc |-> "idle"]
NoAnswer == [host |-> <<>>, kind |-> "none", clean |-> TRUE, text |-> <<>>, sound |-> TRUE]

Init ==
    /\ cachedGenerators = [array |-> 1, len |-> 1]
    /\ arrays = <<<<<<1>>>>>>
    /\ handler = [c \in Clients |-> Idle]
    /\ plan \in Plans
    /\ phase = 1
    /\ waiting = DOMAIN plan[1]
    /\ running \in Clients
    /\ switches = 0
    /\ raced = FALSE
    /\ answer = [c \in Clients |-> NoAnswer]

\* The handler of c takes a step: the one that ran, or another one at the cost of a switch.
Run(c) ==
    /\ running' = c
    /\ switches' = IF c = running \/ handler[running].pc = "idle" THEN switches ELSE switches + 1
    /\ switches' <= MaxSwitches

Answer(c, kind, scan) ==
    /\ handler' = [handler EXCEPT ![c] = Idle]
    /\ answer' = [answer EXCEPT ![c] =
            [host |-> plan[phase][c], kind |-> kind, clean |-> ~raced, text |-> scan.text, sound |-> scan.sound]]
Nothing == [text |-> <<>>, sound |-> FALSE]

\* net/http recovers from a panic and closes the connection.
Panic(c) == Answer(c, "panic", Nothing)

At(c, pc) == handler[c].pc = pc
Step(c, local) == handler' = [handler EXCEPT ![c] = local @@ @]

-----------------------------------------------------------------------------
(* The requests.                                                           *)

\* /qrcode comes in: genQRCode of the host it was asked under, up to the first block.
Ask(c) ==
    /\ c \in waiting
    /\ Run(c)
    /\ waiting' = waiting \ {c}
    /\ LET host == plan[phase][c]
           version == versionFor(host, Level)
       IN  IF version = 0
           THEN Answer(c, "error", Nothing)
           ELSE /\ Step(c, [pc |-> "test", version |-> version, ecs |-> <<>>,
                            bits |-> contentBits(host, version, Level)])
                /\ UNCHANGED answer
    /\ UNCHANGED <<cachedGenerators, arrays, plan, phase, raced>>

NextPhase ==
    /\ waiting = {} /\ \A c \in Clients : At(c, "idle")
    /\ phase < Len(plan)
    /\ phase' = phase + 1
    /\ waiting' = DOMAIN plan[phase + 1]
    /\ UNCHANGED <<cachedGenerators, arrays, handler, plan, running, switches, raced, answer>>

-----------------------------------------------------------------------------
(* buildGenerator, for the number of correction bytes of a block.          *)

Degree(c) == ecSize(handler[c].version, Level, Len(handler[c].ecs) + 1)
Growing(c) == handler[c].pc \in {"length", "last", "append", "store"}

\* for degree >= len(cachedGenerators)
Test(c) ==
    /\ At(c, "test") /\ Run(c)
    /\ LET grow == Degree(c) >= cachedGenerators.len
       IN  /\ Step(c, [pc |-> IF grow THEN "length" ELSE "return"])
           /\ raced' = (raced \/ (grow /\ \E o \in Clients \ {c} : Growing(o)))
    /\ UNCHANGED <<cachedGenerators, arrays, plan, phase, waiting, answer>>

\* d := len(cachedGenerators) - 1
Length(c) ==
    /\ At(c, "length") /\ Run(c)
    /\ Step(c, [pc |-> "last", d |-> cachedGenerators.len - 1])
    /\ UNCHANGED <<cachedGenerators, arrays, plan, phase, waiting, raced, answer>>

\* lastGenerator := cachedGenerators[d]
LastGenerator(c) ==
    /\ At(c, "last") /\ Run(c)
    /\ IF handler[c].d < cachedGenerators.len
       THEN /\ Step(c, [pc |-> "append", last |-> arrays[cachedGenerators.array][handler[c].d + 1]])
            /\ UNCHANGED answer
       ELSE Panic(c)
    /\ UNCHANGED <<cachedGenerators, arrays, plan, phase, waiting, raced>>

\* append: into the array if it has a place left, into one twice as long otherwise.
Extend(c) ==
    LET list == cachedGenerators
        array == arrays[list.array]
        product == Multiply(handler[c].last, Factor(handler[c].d))
        fits == list.len < Len(array)
    IN  /\ At(c, "append") /\ Run(c)
        /\ arrays' = IF fits THEN [arrays EXCEPT ![list.array][list.len + 1] = product]
                     ELSE Append(arrays, array \o <<product>> \o [i \in 1 .. Len(array) - 1 |-> <<>>])
        /\ Step(c, [pc |-> "store", list |-> [array |-> IF fits THEN list.array ELSE Len(arrays) + 1,
                                              len |-> list.len + 1]])
        /\ UNCHANGED <<cachedGenerators, plan, phase, waiting, raced, answer>>

\* cachedGenerators = ...
Store(c) ==
    /\ At(c, "store") /\ Run(c)
    /\ cachedGenerators' = handler[c].list
    /\ Step(c, [pc |-> "test"])
    /\ UNCHANGED <<arrays, plan, phase, waiting, raced, answer>>

\* return cachedGenerators[degree], and generateECBytes for the block.
Return(c) ==
    /\ At(c, "return") /\ Run(c)
    /\ LET h == handler[c]
           n == Degree(c)
           block == dataBlock(h.bits, h.version, Level, Len(h.ecs) + 1)
           correction == Correction(block, n, arrays[cachedGenerators.array][n + 1])
       IN  IF n >= cachedGenerators.len \/ Len(correction) > n
           THEN Panic(c)
           ELSE /\ Step(c, [ecs |-> Append(h.ecs, ecBytes(correction, n)),
                            pc |-> IF Len(h.ecs) + 1 < numBlocks(h.version, Level) THEN "test" ELSE "draw"])
                /\ UNCHANGED answer
    /\ UNCHANGED <<cachedGenerators, arrays, plan, phase, waiting, raced>>

-----------------------------------------------------------------------------
(* The rest of Encode, and the image, of which the client reads the text.  *)

encode(h) ==
    LET data == [i \in DOMAIN h.ecs |-> dataBlock(h.bits, h.version, Level, i)]
        bits == interleaveWithECBytes(data, h.ecs)
    IN  buildGrid(bits, h.version, Level, bestMaskPattern(bits, h.version, Level))

Draw(c) ==
    /\ At(c, "draw") /\ Run(c)
    /\ Answer(c, "png", Scan(ImageWithMargin(handler[c].version, encode(handler[c]), 6, 4)))
    /\ UNCHANGED <<cachedGenerators, arrays, plan, phase, waiting, raced>>

Next ==
    \/ \E c \in Clients : Ask(c) \/ Test(c) \/ Length(c) \/ LastGenerator(c) \/ Extend(c) \/ Store(c) \/ Return(c) \/ Draw(c)
    \/ NextPhase

Spec == Init /\ [][Next]_vars

-----------------------------------------------------------------------------
(* Properties.                                                             *)

\* A host is refused only when it is longer than what a code of level Q holds, and as long as no two
\* handlers grew the list at once, every other one is answered with a code in which a phone reads that
\* host and has nothing to correct (Encode, generateECBytes, buildGrid, ImageWithMargin).
LongestHost == 1662
ScansRight ==
    \A c \in Clients :
        LET a == answer[c]
        IN  /\ a.kind = "error" => Len(a.host) > LongestHost
            /\ a.clean /\ a.kind \notin {"none", "error"} => a.kind = "png" /\ a.text = a.host /\ a.sound

\* Whatever the handlers do to the list they share, a code that is answered names the host it was asked
\* under: only its correction bytes can be wrong (interleaveWithECBytes).
DataSurvives == \A c \in Clients : answer[c].kind = "png" => answer[c].text = answer[c].host

\* As long as no two handlers grew the list at once, the polynomial at index d has degree d and exactly
\* the roots a correction of d bytes needs (buildGenerator).
GeneratorsSound ==
    raced \/ \A d \in 0 .. cachedGenerators.len - 1 :
        LET generator == arrays[cachedGenerators.array][d + 1]
        IN  Len(generator) = d + 1 /\ \A i \in 0 .. d : Vanishes(generator, i) = (i < d)

=============================================================================
