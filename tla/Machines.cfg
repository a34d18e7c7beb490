\* One job and two clients, a TTL of one tick of four; four lines
\* of an answer through channels of one; five events of a log through a
\* channel of two; two macOS cells with different stacks, one build, two
\* sessions in one cell; two Windows cells; two
\* requests on a terminal of three rows.
SPECIFICATION MCSpec
CONSTANTS
    Jobs = {j1}
    Clients = {u1, u2}
    TTL = 1
    MaxTime = 4
    NoJob = NoJob
    c1 = c1
    c2 = c2
    b1 = b1
    s1 = s1
    s2 = s2
    r1 = r1
    r2 = r2
    d1 = d1
    k1 = k1
    q1 = q1
    q2 = q2
    None = None
    Nil = Nil
    Nobody = Nobody
    Stacks = {"go", "node"}
    MacCells = {c1, c2}
    Builds = {b1}
    Sessions = {s1, s2}
    StackOf <- MCStackOf
    MacOf <- MCMacOf
    PtyRequests = {q1, q2}
    Rows = 3
    MaxPieces = 2
    MaxSessions = 2
    ChannelCap = 1
    MaxLines = 4
    Cap = 2
    MaxEvents = 5
    Cells = {c1, c2}
    Runs = {r1, r2}
    Starts = {d1}
    Stops = {k1}
    CellOf <- MCCellOf
INVARIANTS
    ClientsAgree
    InOrder
    CompletedIsWhole
    InterruptedOnlyAtEnd
    TemplatesComplete
    InstancesOwned
    GuestsAccounted
    MediaComplete
    OwnAnswers
PROPERTIES
    ToldOnce
    Evicted
    Answered
    ReapedWhenHeard
    CloseReturnsAfterTimeout
CHECK_DEADLOCK FALSE
