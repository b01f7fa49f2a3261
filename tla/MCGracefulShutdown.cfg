SPECIFICATION Spec
CONSTANTS
    Parsers = {p1}
    Writes = {w1}
    Reads = {}
    GrpcCalls = {g1}
CHECK_DEADLOCK FALSE
INVARIANTS GracefulShutdown
