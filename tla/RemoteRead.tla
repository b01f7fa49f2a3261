----------------------------- MODULE RemoteRead -----------------------------
(***************************************************************************)
(* POST /read: the handler and the ReadPrometheusSamples use case, which   *)
(* runs the queries of a request one after the other, each in a statement  *)
(* of its own, while ingestion fills the tables (see Tables), and gathers  *)
(* all rows into one map of series.                                        *)
(***************************************************************************)
EXTENDS SampleLabels

CONSTANTS
    Times,           \* sample timestamps, in milliseconds
    Requests,        \* the query lists a request may have
    Registrations,   \* rows ingestion may add to metric_labels
    MaxValues,       \* bound: rows of metric_values
    QueryMayFail     \* a statement may fail: database error, client gone

ASSUME RemoteReadAssumption ==
    /\ Times \subseteq Int
    /\ Requests \subseteq Seq([matchers : SUBSET Matcher, start : Int, end : Int])
    /\ Registrations \subseteq [id : Nat, metric : Metrics]

VARIABLES
    metricLabels, metricValues,   \* the tables
    queries,          \* the request
    answered,         \* how many of its queries have run
    rows,             \* what the last one returned, as far as it is not merged
    labelsToSeries,   \* key of a label set -> TimeSeries, gathered over the queries
    status            \* "none" until the response: then its HTTP status

tableVars == <<metricLabels, metricValues>>
vars == <<tableVars, queries, answered, rows, labelsToSeries, status>>

Ingestion == INSTANCE Tables

Register(row) ==
    /\ Ingestion!InsertLabel(row)
    /\ UNCHANGED <<queries, answered, rows, labelsToSeries, status>>

Store(row) ==
    /\ Len(metricValues) < MaxValues
    /\ Ingestion!CopyRows(<<row>>)
    /\ UNCHANGED <<queries, answered, rows, labelsToSeries, status>>

-----------------------------------------------------------------------------
\* Mutant: one TimeSeries per metric name.
RowKeyOfName(row) == Bytes[row.name]

RowKey(row) == Key(row)

\* The row that makes a TimeSeries does not get into it: it is appended to one
\* that nobody holds.
AddRow(series, row) ==
    LET key == RowKey(row)
    IN  IF key \in DOMAIN series
        THEN [series EXCEPT ![key].samples = Append(@, ReadMilliseconds(row.at))]
        ELSE [k \in DOMAIN series \cup {key} |->
                IF k = key THEN [labels |-> StoredLabels(row), samples |-> <<>>] ELSE series[k]]

Init ==
    /\ Ingestion!Init
    /\ queries \in Requests
    /\ answered = 0
    /\ rows = <<>>
    /\ labelsToSeries = <<>>
    /\ status = "none"

Pending == status = "none" /\ rows = <<>> /\ answered < Len(queries)

\* The body cannot be read, or is no ReadRequest.
BadBody ==
    /\ status = "none" /\ answered = 0
    /\ status' \in {"400", "500"}
    /\ UNCHANGED <<tableVars, queries, answered, rows, labelsToSeries>>

\* The query builder refuses the matchers.
BuildError ==
    /\ Pending
    /\ BuildFails(queries[answered + 1].matchers)
    /\ status' = "400"
    /\ UNCHANGED <<tableVars, queries, answered, rows, labelsToSeries>>

QueryError ==
    /\ QueryMayFail
    /\ Pending /\ ~BuildFails(queries[answered + 1].matchers)
    /\ status' = "500"
    /\ UNCHANGED <<tableVars, queries, answered, rows, labelsToSeries>>

Query ==
    /\ Pending /\ ~BuildFails(queries[answered + 1].matchers)
    /\ rows' \in QueryDatabaseSamples(BuildSQLQuery(queries[answered + 1]),
                                      metricLabels, metricValues)
    /\ answered' = answered + 1
    /\ UNCHANGED <<tableVars, queries, labelsToSeries, status>>

\* One round of the loop over them.
Merge ==
    /\ rows # <<>>
    /\ labelsToSeries' = AddRow(labelsToSeries, Head(rows))
    /\ rows' = Tail(rows)
    /\ UNCHANGED <<tableVars, queries, answered, status>>

\* All series, in one QueryResult.
Respond ==
    /\ status = "none" /\ rows = <<>> /\ answered = Len(queries)
    /\ status' = "200"
    /\ UNCHANGED <<tableVars, queries, answered, rows, labelsToSeries>>

Rows == {[name |-> SeriesOf[m].name, labels |-> SeriesOf[m].labels, at |-> MetricTime(t)] :
            m \in Metrics, t \in Times}

ValueRows == {[id |-> r.id, sample |-> [metric |-> r.metric, at |-> t]] :
            r \in Registrations, t \in Times}

Next ==
    \/ \E row \in Registrations : Register(row)
    \/ \E row \in ValueRows : Store(row)
    \/ BadBody \/ BuildError \/ QueryError \/ Query \/ Merge \/ Respond

Spec == Init /\ [][Next]_vars

-----------------------------------------------------------------------------
(* What Prometheus may rely on.                                            *)

\* Every variable has its type, and a TimeSeries is found under the key of its labels.
TypeOK ==
    /\ metricLabels \subseteq Registrations /\ metricValues \in Seq(ValueRows)
    /\ queries \in Requests /\ answered \in 0..Len(queries) /\ rows \in Seq(Rows)
    /\ \A key \in DOMAIN labelsToSeries : \E m \in Metrics :
          /\ key = Key(SeriesOf[m])
          /\ labelsToSeries[key] \in [labels : {StoredLabels(SeriesOf[m])}, samples : Seq(Int)]
    /\ status \in {"none", "200", "400", "500"}

\* The stored samples of the series with this label set, as pairs of a label
\* row and the index of a value row.
StoredOf(lset) ==
    {pair \in metricLabels \X (1..Len(metricValues)) :
        /\ StoredLabels(SeriesOf[pair[1].metric]) = lset
        /\ metricValues[pair[2]].id = pair[1].id}

WrittenAt(pair) == metricValues[pair[2]].sample.at

\* Those written for t, a time that int64 nanoseconds can say.
StoredAt(lset, t) == {pair \in StoredOf(lset) : WrittenAt(pair) = t /\ Representable(t)}

\* Those written for another time: they are read at some time or other.
Displaced(lset) == {pair \in StoredOf(lset) : ~Representable(WrittenAt(pair))}

Asked(query, lset, t) ==
    Satisfies(lset, query.matchers) /\ query.start <= t /\ t <= query.end

\* Whatever a TimeSeries holds was written for exactly its label set and time
\* (as far as int64 nanoseconds reach) and was asked for, in the PromQL sense,
\* by a query that has run.
OnlyWhatWasAsked ==
    \A key \in DOMAIN labelsToSeries : \A i \in 1..Len(labelsToSeries[key].samples) :
        LET lset == labelsToSeries[key].labels
            t    == labelsToSeries[key].samples[i]
        IN  /\ StoredAt(lset, t) \cup Displaced(lset) # {}
            /\ \E q \in 1..answered : Asked(queries[q], lset, t)

\* The samples of a TimeSeries are in the order of time, as long as the request
\* is a single query.
InTimeOrder ==
    Len(queries) = 1 =>
        \A key \in DOMAIN labelsToSeries : LET samples == labelsToSeries[key].samples IN
            \A i, j \in 1..Len(samples) : i < j => samples[i] <= samples[j]

SamplesUnder(lset) ==
    UNION {{<<key, i>> : i \in 1..Len(labelsToSeries[key].samples)} :
              key \in {k \in DOMAIN labelsToSeries : labelsToSeries[k].labels = lset}}

StoredAndAsked(query, lset) ==
    UNION {StoredAt(lset, t) : t \in {t \in Times : Asked(query, lset, t)}}

\* The rows of a label set that queries have returned so far: those that wait to
\* be merged, those that became samples, and the one that made the TimeSeries.
Returned(lset) ==
    LET made == \E key \in DOMAIN labelsToSeries : labelsToSeries[key].labels = lset
    IN  Cardinality({i \in 1..Len(rows) : StoredLabels(rows[i]) = lset})
          + Cardinality(SamplesUnder(lset)) + (IF made THEN 1 ELSE 0)

\* A query adds to each TimeSeries every sample stored and asked for, however
\* often, and no other but displaced ones, except one for each label set that
\* is new to the request.
OnlyFirstMissing ==
    [][\A l \in metricLabels :
          LET lset   == StoredLabels(SeriesOf[l.metric])
              wanted == Cardinality(StoredAndAsked(queries[answered + 1], lset))
              added  == Returned(lset)' - Returned(lset)
          IN  IF answered' = answered THEN added = 0
              ELSE added \in wanted .. wanted + Cardinality(Displaced(lset))]_vars

-----------------------------------------------------------------------------
(* What a comment says and the use case does not do.                       *)

\* A comment of Execute: "Append the sample to the timeserie".  So a series
\* that is answered is answered with a sample.
NoEmptySeries ==
    status = "200" => \A key \in DOMAIN labelsToSeries : labelsToSeries[key].samples # <<>>
=============================================================================
