SPECIFICATION Spec
CONSTANTS
    Metrics <- MCMetrics
    SeriesOf <- MCSeriesOf
    Strings <- MCStrings
    HasPrefix <- MCPrefixes
    HasSuffix <- MCSuffixes
    HasSubstring <- MCSubstrings
    Earliest <- MCEarliest
    Latest = 8
    Word = 32
    NanosPerMilli = 6
    MillisPerSecond = 2
    Times <- AroundEpoch
    NoTime <- MaxTime
    ExternalLabels <- ClusterIsEu
    Calls = {c1, c2}
    Requests <- MetadataRequests
    Registrations <- NamelessRegistrations
    MaxValues = 2
    MaxSamplesPerChunk = 2
    QueryMayFail = FALSE
SYMMETRY CallSymmetry
CHECK_DEADLOCK FALSE
INVARIANTS TypeOK NoDeadEntry
PROPERTIES NamesCoverSeries ValuesCoverSeries InfoCoversData
