------------------------------ MODULE StoreAPI ------------------------------
(***************************************************************************)
(* The Thanos StoreAPI server: Info, Series, LabelNames and LabelValues    *)
(* calls running beside each other and beside the ingestion that fills the *)
(* two tables (see Tables).  Each handler reads the database in one        *)
(* statement; Series then streams what it built, one Send at a time, while *)
(* the tables move on.                                                     *)
(***************************************************************************)
EXTENDS Selection

CONSTANTS
    Times,                \* sample timestamps, in milliseconds
    NoTime,               \* MaxInt64, "no data" and "no upper bound"
    ExternalLabels,       \* STORE_API_EXTERNAL_LABELS
    Calls,                \* gRPC calls
    Requests,             \* what a call may ask
    Registrations,        \* rows ingestion may add to metric_labels
    MaxValues,            \* bound: rows of metric_values
    MaxSamplesPerChunk,   \* 120
    QueryMayFail          \* a statement may fail: database error, client gone

ASSUME StoreAPIAssumption ==
    /\ Times \subseteq Int /\ NoTime \in Int /\ \A t \in Times : t < NoTime
    /\ ExternalLabels \in [DOMAIN ExternalLabels -> Strings]
    /\ DOMAIN ExternalLabels \subseteq Strings \ {NameLabel}
    /\ Registrations \subseteq [id : Nat, metric : Metrics]
    /\ MaxSamplesPerChunk \in Nat \ {0}
    /\ \A r \in Requests :
          /\ r.kind \in {"Info", "Series", "LabelNames", "LabelValues"}
          /\ r.matchers \in Seq(Matcher)
          /\ r.start \in Int /\ r.end \in Int /\ r.label \in Strings /\ r.skipChunks \in BOOLEAN

VARIABLES
    metricLabels, metricValues,   \* the tables
    request,     \* per call: what it asks,
    phase,       \*   "idle", "received", "streaming" or "ended",
    status,      \*   how it ended: "OK" or the gRPC code of its error,
    stream,      \*   the series still to be sent,
    sent,        \*   those sent,
    reply,       \*   the names or values answered,
    minTime      \*   the time range's minimum answered

tableVars == <<metricLabels, metricValues>>
vars == <<tableVars, request, phase, status, stream, sent, reply, minTime>>

Ingestion == INSTANCE Tables

-----------------------------------------------------------------------------
(* Building series.                                                        *)

\* External labels override stored ones; the name is the stored one.
PromLabels(name, labels) ==
    [n \in {NameLabel} \cup DOMAIN labels \cup DOMAIN ExternalLabels |->
        IF n = NameLabel THEN name
        ELSE IF n \in DOMAIN ExternalLabels THEN ExternalLabels[n] ELSE labels[n]]

\* labels.Compare: at the first label where two sets differ, the set without
\* it comes first if it ends there, and last if it goes on.
Precedes(a, b) ==
    \E d \in DOMAIN a \cup DOMAIN b :
        /\ \A n \in DOMAIN a \cup DOMAIN b :
              n < d => n \in DOMAIN a \cap DOMAIN b /\ a[n] = b[n]
        /\ \/ d \in DOMAIN a \cap DOMAIN b /\ a[d] < b[d]
           \/ d \notin DOMAIN b /\ (\E n \in DOMAIN b : n > d)
           \/ d \notin DOMAIN a /\ (\A n \in DOMAIN a : n < d)

Chunk(samples) ==
    [minTime |-> samples[1], maxTime |-> samples[Len(samples)], samples |-> samples]

\* Mutant: whole chunks only.
EncodeFullChunks(samples) ==
    [k \in 1 .. Len(samples) \div MaxSamplesPerChunk |->
        Chunk(SubSeq(samples, (k - 1) * MaxSamplesPerChunk + 1, k * MaxSamplesPerChunk))]

EncodeXORChunks(samples) ==
    [k \in 1 .. (Len(samples) + MaxSamplesPerChunk - 1) \div MaxSamplesPerChunk |->
        Chunk(SubSeq(samples, (k - 1) * MaxSamplesPerChunk + 1,
                     Min({k * MaxSamplesPerChunk, Len(samples)})))]

\* Rows of the same name and labels, and no others, have the same key
\* (RemoteReadProofs: KeysTellSeriesApart), so those stand for it.
RowKey(row) == <<row.name, row.labels>>

\* The timestamps of the rows at some positions, sorted.
SortedTimes(rows, positions) ==
    LET time(i) == UnixMilli(rows[i].at)
        sorted  == CHOOSE f \in SetToSeqs(positions) :
                      \A i, j \in DOMAIN f : i < j => time(f[i]) <= time(f[j])
    IN  [i \in DOMAIN sorted |-> time(sorted[i])]

\* The rows of a key, by their positions.
Group(rows, key) == {i \in 1..Len(rows) : RowKey(rows[i]) = key}

\* One series per key, made from the first row that has it and the samples of all.
SeriesOfRows(rows) ==
    LET first(key) == rows[Min(Group(rows, key))]
    IN  {[key    |-> key,
          lset   |-> PromLabels(first(key).name, first(key).labels),
          chunks |-> EncodeXORChunks(SortedTimes(rows, Group(rows, key)))] :
            key \in {RowKey(rows[i]) : i \in 1..Len(rows)}}

\* Mutant: sorted before the external labels are put in.
SortedByRow(S) ==
    LET stored(s) == StoredLabels([name |-> s.key[1], labels |-> s.key[2]])
    IN  {f \in SetToSeqs(S) :
            \A i, j \in DOMAIN f : i < j => ~Precedes(stored(f[j]), stored(f[i]))}

\* Sorted by label set; equal label sets come in either order.
SortedStreams(S) ==
    {f \in SetToSeqs(S) : \A i, j \in DOMAIN f : i < j => ~Precedes(f[j].lset, f[i].lset)}

BuildSeries(rows, skipChunks) ==
    {[i \in DOMAIN f |-> [lset   |-> f[i].lset,
                          chunks |-> IF skipChunks THEN <<>> ELSE f[i].chunks]] :
        f \in SortedStreams(SeriesOfRows(rows))}

-----------------------------------------------------------------------------
(* Reading the matchers of a request.                                      *)

External(m) == m.name \in DOMAIN ExternalLabels

\* The matchers at which promMatchers returns.
Decisive(m) ==
    m.type = "unknown" \/ (External(m) /\ ~Matches(m, ExternalLabels[m.name]))

DecisiveIn(matchers) == {i \in 1..Len(matchers) : Decisive(matchers[i])}

Invalid(matchers) ==
    DecisiveIn(matchers) # {} /\ matchers[Min(DecisiveIn(matchers))].type = "unknown"

Excluded(matchers) ==
    DecisiveIn(matchers) # {} /\ matchers[Min(DecisiveIn(matchers))].type # "unknown"

PromMatchers(matchers) == {m \in ToSet(matchers) : ~External(m)}

-----------------------------------------------------------------------------
(* Ingestion, as Tables describes it.                                      *)

Register(row) ==
    /\ Ingestion!InsertLabel(row)
    /\ UNCHANGED <<request, phase, status, stream, sent, reply, minTime>>

Store(row) ==
    /\ Len(metricValues) < MaxValues
    /\ Ingestion!CopyRows(<<row>>)
    /\ UNCHANGED <<request, phase, status, stream, sent, reply, minTime>>

-----------------------------------------------------------------------------
(* Calls.                                                                  *)

Init ==
    /\ Ingestion!Init
    /\ request \in [Calls -> Requests]
    /\ phase = [c \in Calls |-> "idle"]
    /\ status = [c \in Calls |-> "none"]
    /\ stream = [c \in Calls |-> <<>>]
    /\ sent = [c \in Calls |-> <<>>]
    /\ reply = [c \in Calls |-> {}]
    /\ minTime = [c \in Calls |-> NoTime]

GoTo(c, ph) == phase' = [phase EXCEPT ![c] = ph]

End(c, how) == GoTo(c, "ended") /\ status' = [status EXCEPT ![c] = how]

\* The handler starts.
Receive(c) ==
    /\ phase[c] = "idle"
    /\ GoTo(c, "received")
    /\ UNCHANGED <<tableVars, request, status, stream, sent, reply, minTime>>

Asks(c, kind) == phase[c] = "received" /\ request[c].kind = kind

\* The handlers that take matchers start with them.  (The query builder would
\* refuse the same types; none reaches it.)
Refuse(c) ==
    /\ phase[c] = "received" /\ request[c].kind # "Info"
    /\ Invalid(request[c].matchers)
    /\ End(c, "InvalidArgument")
    /\ UNCHANGED <<tableVars, request, stream, sent, reply, minTime>>

AnswerNothing(c) ==
    /\ phase[c] = "received" /\ request[c].kind # "Info"
    /\ Excluded(request[c].matchers)
    /\ End(c, "OK")
    /\ UNCHANGED <<tableVars, request, stream, sent, reply, minTime>>

\* The request's matchers reach the database.
Admitted(c) == DecisiveIn(request[c].matchers) = {}

Where(c) == BuildLabelsPredicate(PromMatchers(request[c].matchers))

QueryFails(c) ==
    /\ QueryMayFail
    /\ phase[c] = "received" /\ (request[c].kind = "Info" \/ Admitted(c))
    /\ End(c, "Internal")
    /\ UNCHANGED <<tableVars, request, stream, sent, reply, minTime>>

\* MinSampleTimestamp: -1 stands for an empty table.
MinSampleTimestamp ==
    IF metricValues = <<>> THEN -1
    ELSE UnixMilli(Min({MetricTime(metricValues[i].sample.at) : i \in 1..Len(metricValues)}))

\* Mutant: a sample at the epoch is no sample.
HasDataAfterEpoch(milliseconds) == milliseconds > 0

\* Mutant: the answer for an empty table is a time.
HasDataAlways(milliseconds) == TRUE

HasData(milliseconds) == milliseconds >= 0

Info(c) ==
    /\ Asks(c, "Info")
    /\ minTime' = [minTime EXCEPT ![c] = IF HasData(MinSampleTimestamp)
                                         THEN MinSampleTimestamp ELSE NoTime]
    /\ End(c, "OK")
    /\ UNCHANGED <<tableVars, request, stream, sent, reply>>

PromQuery(c) ==
    [matchers |-> PromMatchers(request[c].matchers),
     start |-> request[c].start, end |-> request[c].end]

SeriesQuery(c) ==
    /\ Asks(c, "Series") /\ Admitted(c)
    /\ \E rows \in QueryDatabaseSamples(BuildSQLQuery(PromQuery(c)), metricLabels, metricValues) :
          \E series \in BuildSeries(rows, request[c].skipChunks) :
              stream' = [stream EXCEPT ![c] = series]
    /\ GoTo(c, "streaming")
    /\ UNCHANGED <<tableVars, request, status, sent, reply, minTime>>

SendSeries(c) ==
    /\ phase[c] = "streaming" /\ stream[c] # <<>>
    /\ sent' = [sent EXCEPT ![c] = Append(@, Head(stream[c]))]
    /\ stream' = [stream EXCEPT ![c] = Tail(@)]
    /\ UNCHANGED <<tableVars, request, phase, status, reply, minTime>>

SendFails(c) ==
    /\ phase[c] = "streaming" /\ stream[c] # <<>>
    /\ End(c, "Unknown")
    /\ UNCHANGED <<tableVars, request, stream, sent, reply, minTime>>

SeriesDone(c) ==
    /\ phase[c] = "streaming" /\ stream[c] = <<>>
    /\ End(c, "OK")
    /\ UNCHANGED <<tableVars, request, stream, sent, reply, minTime>>

\* Mutant: external labels are not among the names.
NamesAnsweredStored(where) ==
    IF SeriesExist(where, metricLabels) THEN {NameLabel} \cup LabelNamesOf(where, metricLabels)
    ELSE {}

\* What LabelNames answers.
NamesAnswered(where) ==
    IF SeriesExist(where, metricLabels)
    THEN {NameLabel} \cup LabelNamesOf(where, metricLabels) \cup DOMAIN ExternalLabels
    ELSE {}

LabelNames(c) ==
    /\ Asks(c, "LabelNames") /\ Admitted(c)
    /\ reply' = [reply EXCEPT ![c] = NamesAnswered(Where(c))]
    /\ End(c, "OK")
    /\ UNCHANGED <<tableVars, request, stream, sent, minTime>>

\* Mutant: external labels are looked for in the table.
ValuesAnsweredStored(label, where) == LabelValuesOf(label, where, metricLabels)

\* What LabelValues answers.
ValuesAnswered(label, where) ==
    IF label \notin DOMAIN ExternalLabels THEN LabelValuesOf(label, where, metricLabels)
    ELSE IF SeriesExist(where, metricLabels) THEN {ExternalLabels[label]} ELSE {}

LabelValues(c) ==
    /\ Asks(c, "LabelValues") /\ Admitted(c)
    /\ reply' = [reply EXCEPT ![c] = ValuesAnswered(request[c].label, Where(c))]
    /\ End(c, "OK")
    /\ UNCHANGED <<tableVars, request, stream, sent, minTime>>

Handler(c) ==
    \/ Receive(c) \/ Refuse(c) \/ AnswerNothing(c) \/ QueryFails(c)
    \/ Info(c) \/ LabelNames(c) \/ LabelValues(c)
    \/ SeriesQuery(c) \/ SendSeries(c) \/ SendFails(c) \/ SeriesDone(c)

ValueRows == {[id |-> r.id, sample |-> [metric |-> r.metric, at |-> t]] :
            r \in Registrations, t \in Times}

Next ==
    \/ \E row \in Registrations : Register(row)
    \/ \E row \in ValueRows : Store(row)
    \/ \E c \in Calls : Handler(c)

Spec == Init /\ [][Next]_vars

-----------------------------------------------------------------------------
(* What a client may rely on.                                              *)

LabelSets == {PromLabels(SeriesOf[m].name, SeriesOf[m].labels) : m \in Metrics}

Series == [lset : LabelSets,
           chunks : Seq([minTime : Int, maxTime : Int, samples : Seq(Int)])]

\* Every variable has its type; the -1 of an empty table is never sent as a time.
TypeOK ==
    /\ metricLabels \subseteq Registrations
    /\ metricValues \in Seq(ValueRows)
    /\ request \in [Calls -> Requests]
    /\ phase \in [Calls -> {"idle", "received", "streaming", "ended"}]
    /\ status \in [Calls -> {"none", "OK", "InvalidArgument", "Internal", "Unknown"}]
    /\ stream \in [Calls -> Seq(Series)] /\ sent \in [Calls -> Seq(Series)]
    /\ reply \in [Calls -> SUBSET Strings]
    /\ minTime \in [Calls -> {NoTime} \cup Nat]

Built(c) == sent[c] \o stream[c]

SamplesOf(series) ==
    UNION {{series.chunks[k].samples[j] : j \in DOMAIN series.chunks[k].samples} :
              k \in DOMAIN series.chunks}

\* The stored series that a client sees under this label set.
SeenAs(lset) ==
    {l \in metricLabels : PromLabels(SeriesOf[l.metric].name, SeriesOf[l.metric].labels) = lset}

\* Every series streamed, with the labels the client sees, external ones
\* included, satisfies every matcher of its request in the PromQL sense, and
\* has no sample outside the time range: what SQL is asked and what is decided
\* beforehand about external labels come to what the client asked.  No label
\* set is streamed more often than stored series are seen under it; more than
\* one are if they differ in an external label only.
SeriesSound ==
    \A c \in Calls : \A i \in 1..Len(Built(c)) :
        /\ Satisfies(Built(c)[i].lset, ToSet(request[c].matchers))
        /\ \A t \in SamplesOf(Built(c)[i]) : request[c].start <= t /\ t <= request[c].end
        /\ Cardinality({j \in 1..Len(Built(c)) : Built(c)[j].lset = Built(c)[i].lset})
             <= Cardinality(SeenAs(Built(c)[i].lset))

\* The stored samples of all series a client sees under this label set, as pairs
\* of a label row and the index of a value row.
StoredOf(lset) ==
    {pair \in SeenAs(lset) \X (1..Len(metricValues)) : metricValues[pair[2]].id = pair[1].id}

WrittenAt(pair) == metricValues[pair[2]].sample.at

\* Those written for t, a time that int64 nanoseconds can say.
StoredAt(lset, t) == {pair \in StoredOf(lset) : WrittenAt(pair) = t /\ Representable(t)}

\* Those written for another time: they are streamed at some time or other.
Displaced(lset) == {pair \in StoredOf(lset) : ~Representable(WrittenAt(pair))}

\* The samples at t that a stream holds under this label set, as indices of the
\* series, the chunk and the sample.
StreamedAt(lset, t, series) ==
    UNION {UNION {{<<i, k, j>> : j \in {n \in DOMAIN series[i].chunks[k].samples :
                                           series[i].chunks[k].samples[n] = t}} :
                     k \in DOMAIN series[i].chunks} :
              i \in {n \in DOMAIN series : series[n].lset = lset}}

StartsStreaming(c) == phase[c] = "received" /\ phase'[c] = "streaming"

\* A Series call streams every stored sample of its time range whose series, as
\* the client sees it, satisfies the matchers, as often as it is stored, and
\* beside them displaced ones at most: no matcher, clamped bound, conversion of
\* a timestamp, grouping or chunk boundary loses one or moves it.
SeriesComplete ==
    [][\A c \in Calls : StartsStreaming(c) =>
          \A l \in metricLabels :
              LET series == SeriesOf[l.metric]
                  lset   == PromLabels(series.name, series.labels)
                  asked  == {t \in Times : request[c].start <= t /\ t <= request[c].end}
              IN  Satisfies(lset, ToSet(request[c].matchers)) =>
                    IF request[c].skipChunks
                    THEN (\E t \in asked : StoredAt(lset, t) # {}) =>
                            \E i \in DOMAIN stream'[c] : stream'[c][i].lset = lset
                    ELSE \A t \in asked :
                            Cardinality(StreamedAt(lset, t, stream'[c]))
                                - Cardinality(StoredAt(lset, t))
                              \in 0..Cardinality(Displaced(lset))]_vars

\* What Thanos merges on: series in the order of their label sets; in a series,
\* full chunks up to the last, each within the times it announces, in order.
StreamSorted ==
    \A c \in Calls :
        /\ \A i, j \in 1..Len(Built(c)) :
              i < j => ~Precedes(Built(c)[j].lset, Built(c)[i].lset)
        /\ \A i \in 1..Len(Built(c)) : LET chunks == Built(c)[i].chunks IN
              \A k \in DOMAIN chunks :
                  /\ Len(chunks[k].samples) \in 1..MaxSamplesPerChunk
                  /\ k < Len(chunks) => /\ Len(chunks[k].samples) = MaxSamplesPerChunk
                                        /\ chunks[k].maxTime <= chunks[k + 1].minTime
                  /\ \A j \in DOMAIN chunks[k].samples :
                        /\ chunks[k].minTime <= chunks[k].samples[j]
                        /\ chunks[k].samples[j] <= chunks[k].maxTime

Answers(d, kind) ==
    Asks(d, kind) /\ status'[d] = "OK" /\ ~Excluded(request[d].matchers)

SameSelection(c, d) == request[c].matchers = request[d].matchers

\* A LabelNames answer has every name that a Series call with the same matchers
\* has built a series with, though the tables have moved since.
NamesCoverSeries ==
    [][\A c, d \in Calls : Answers(d, "LabelNames") /\ SameSelection(c, d) =>
          \A i \in 1..Len(Built(c)) : \A n \in DOMAIN Built(c)[i].lset :
              Built(c)[i].lset[n] # Empty => n \in reply'[d]]_vars

\* So has a LabelValues answer every value its label has in those series.
ValuesCoverSeries ==
    [][\A c, d \in Calls : Answers(d, "LabelValues") /\ SameSelection(c, d) =>
          \A i \in 1..Len(Built(c)) :
              LET value == ValueIn(Built(c)[i].lset, request[d].label)
              IN  value # Empty => value \in reply'[d]]_vars

\* Info announces no minimum time above a stored sample, Thanos would not ask
\* for that sample: as long as no sample is older than 1970.
InfoCoversData ==
    [][\A c \in Calls : Answers(c, "Info") =>
          \/ \E i \in 1..Len(metricValues) : MetricTime(metricValues[i].sample.at) < 0
          \/ \A i \in 1..Len(metricValues) : LET t == metricValues[i].sample.at IN
                Representable(t) => minTime'[c] <= t]_vars

Nameless(where) == \A l \in Selected(where, metricLabels) : SeriesOf[l.metric].name = Empty

\* DESIGN.md: LabelNames and LabelValues "agree on what a label is", so that no
\* name is offered that resolves to no value.  __name__ is, where the selected
\* series have none.
NoDeadEntry ==
    \A c \in Calls : request[c].kind = "LabelNames" =>
        \A n \in reply[c] : \/ ValuesAnswered(n, Where(c)) # {}
                            \/ n = NameLabel /\ Nameless(Where(c))
=============================================================================
