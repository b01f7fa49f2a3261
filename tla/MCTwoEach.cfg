SPECIFICATION Spec
CONSTANTS
    r1 = r1
    r2 = r2
    r3 = r3
    Parsers = {p1, p2}
    Savers = {s1, s2}
    Metrics = {"up", "cpu", "ctl", "bare"}
    BareMetrics = {"bare"}
    UnquotableMetrics = {"ctl"}
    Times = {1, 2}
    Requests = {r1, r2}
    Payload <- CrossedPayload
    MaxSends = 1
    MaxStarts = 2
    Faults = {"database", "shutdown"}
CHECK_DEADLOCK FALSE
INVARIANTS TypeOK IdsUnique RegistryAgrees RowsAttributed
PROPERTIES AttributedWhenStored LossExplained
