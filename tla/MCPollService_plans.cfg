\* Two polls, a poll beside a screen, and two screens, of one circle with two ids.
SPECIFICATION FairSpec
CONSTANTS
    c1 = c1
    m1 = m1
    g = g
    t1 = t1
    t2 = t2
    d1 = d1
    d2 = d2
    Circles = {c1}
    Posts = {m1, g}
    Garbled = {g}
    Blank = Blank
    Threads = {t1, t2}
    NoThread = NoThread
    Lists = {d1, d2}
    NumMsgDownload = 1
    MaxRetries = 1
    Plans <- PlansInUse
\* The bounds run out.
CHECK_DEADLOCK FALSE
INVARIANTS
    KeptIsServers
    LastIdWithinServer
    QueueBalanced
    NewestAreKept
PROPERTIES
    EveryPollEnds
    EveryCallEnds
