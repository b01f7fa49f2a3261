SPECIFICATION Spec
CONSTANTS
    r1 = r1
    r2 = r2
    r3 = r3
    Parsers = {p1}
    Savers = {s1}
    Metrics = {"up", "cpu", "mem", "ctl", "bare"}
    BareMetrics = {"bare"}
    UnquotableMetrics = {"ctl"}
    Times = {1, 2}
    Requests = {r1, r2, r3}
    Payload <- ThreePayload
    MaxSends = 1
    MaxStarts = 2
    Faults = {"shutdown"}
CHECK_DEADLOCK FALSE
INVARIANTS StoredAttribution
