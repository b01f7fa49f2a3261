SPECIFICATION Spec
CONSTANTS
    Metrics <- MCMetrics
    SeriesOf <- MCSeriesOf
    Strings <- MCStrings
    HasPrefix <- MCPrefixes
    HasSuffix <- MCSuffixes
    HasSubstring <- MCSubstrings
    Earliest <- MCEarliest
    Latest = 8
    Word = 32
    NanosPerMilli = 6
    MillisPerSecond = 2
    Times <- SomeTimes
    NoTime <- MaxTime
    ExternalLabels <- ClusterIsEu
    Calls = {c1}
    Requests <- SeriesRequests
    Registrations <- OverriddenRegistrations
    MaxValues = 3
    MaxSamplesPerChunk = 2
    QueryMayFail = TRUE
CHECK_DEADLOCK FALSE
INVARIANTS SeriesSound StreamSorted
PROPERTIES SeriesComplete
