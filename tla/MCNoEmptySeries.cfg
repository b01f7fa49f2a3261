SPECIFICATION Spec
CONSTANTS
    Metrics <- MCMetrics
    SeriesOf <- MCSeriesOf
    Strings <- MCStrings
    HasPrefix <- MCPrefixes
    HasSuffix <- MCSuffixes
    HasSubstring <- MCSubstrings
    Bytes <- MCBytes
    Earliest <- MCEarliest
    Latest = 8
    Word = 32
    NanosPerMilli = 6
    MillisPerSecond = 2
    Times <- SomeTimes
    Requests <- MCRequests
    Registrations <- GluedRegistrations
    MaxValues = 2
    QueryMayFail = FALSE
CHECK_DEADLOCK FALSE
INVARIANTS NoEmptySeries
