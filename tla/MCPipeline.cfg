SPECIFICATION Spec
CONSTANTS
    r1 = r1
    r2 = r2
    r3 = r3
    Parsers = {p1}
    Savers = {s1}
    Metrics = {"up", "cpu", "ctl", "bare"}
    BareMetrics = {"bare"}
    UnquotableMetrics = {"ctl"}
    Times = {1, 2}
    Requests = {r1, r2}
    Payload <- TwoSeriesPayload
    MaxSends = 2
    MaxStarts = 3
    Faults = {"database", "crash", "shutdown"}
CHECK_DEADLOCK FALSE
INVARIANTS IdsUnique RegistryAgrees LabelsBeforeValues
PROPERTIES AttributedWhenStored ImplementsTables ImplementsDelivery LossExplained
