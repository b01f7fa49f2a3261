SPECIFICATION ServerFairSpec
CONSTANTS
    p1 = p1
    w1 = w1
    h1 = h1
    g1 = g1
    copy = copy
    register = register
    row1 = row1
    row2 = row2
    Parsers = {p1}
    Writes = {w1}
    Reads = {h1}
    GrpcCalls = {g1}
    Registration = register
    Queries = {g1, register}
    Execs = {h1}
    Copies = {copy}
    RowsOf <- OneCopy
    MaxConns = 1
CHECK_DEADLOCK FALSE
INVARIANTS CleanExit NothingLeaks
PROPERTIES CallsCutOnlyByFailure ImplementsStatements CallsReturn
PROPERTIES SignalEndsProcess FailedServerEndsProcess ImplementsLifecycle
