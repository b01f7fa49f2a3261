------------------------------- MODULE Tables -------------------------------
(***************************************************************************)
(* The two tables, as whoever reads them may rely on them: what ingestion  *)
(* promises its readers, whatever the process that writes does.            *)
(*                                                                         *)
(* MetricWriter implements this specification; StoreAPI and RemoteRead run *)
(* on top of it.                                                           *)
(***************************************************************************)
EXTENDS Naturals, Sequences

CONSTANTS
    Metrics,   \* canonical metric strings
    Times      \* (timestamp, value) tokens

Sample == [metric : Metrics, at : Times]
LabelRow == [id : Nat, metric : Metrics]
ValueRow == [id : Nat, sample : Sample]

VARIABLES
    metricLabels,    \* table metric_labels: the primary key is id, metric is UNIQUE
    metricValues     \* table metric_values, no constraint on its rows

tableVars == <<metricLabels, metricValues>>

Init == metricLabels = {} /\ metricValues = <<>>

\* A series is registered, under an id of its own and once.
InsertLabel(row) ==
    /\ \A l \in metricLabels : l.id # row.id /\ l.metric # row.metric
    /\ metricLabels' = metricLabels \cup {row}
    /\ UNCHANGED metricValues

\* Values are stored; none under the id of another registered series.
CopyRows(rows) ==
    /\ \A i \in 1..Len(rows) : \A l \in metricLabels :
          l.id = rows[i].id => l.metric = rows[i].sample.metric
    /\ metricValues' = metricValues \o rows
    /\ UNCHANGED metricLabels

\* The rows a step adds are read off the step itself.
NewLabels == metricLabels' \ metricLabels
NewValues == SubSeq(metricValues', Len(metricValues) + 1, Len(metricValues'))

Next ==
    \/ \E row \in NewLabels : row \in LabelRow /\ InsertLabel(row)
    \/ NewValues \in Seq(ValueRow) /\ CopyRows(NewValues)

Spec == Init /\ [][Next]_tableVars
=============================================================================
