------------------------------ MODULE Selection ------------------------------
(***************************************************************************)
(* What the read paths select: the translation of label matchers and time  *)
(* bounds into SQL (querybuilder.SQL), the SELECT statements around it     *)
(* (database.PostgreSQL), and, beside them, what PromQL says those         *)
(* matchers mean.                                                          *)
(*                                                                         *)
(* A string is a natural number, in byte order; 0 is the empty string, and *)
(* as a label name it is __name__.  A regular expression is the sequence   *)
(* of the literals its top-level alternation offers.  Values reach         *)
(* PostgreSQL as they were, escaping and all, so they are not escaped here. *)
(* All matchers have to match: a list of them counts as a set.             *)
(***************************************************************************)
EXTENDS Timestamps, SequencesExt

CONSTANTS
    Metrics,      \* canonical metric strings
    SeriesOf,     \* the name and the labels each stands for
    Strings,      \* label names and values
    HasPrefix,    \* how two strings relate: <<s, t>> with t a prefix of s,
    HasSuffix,    \*   a suffix of it,
    HasSubstring, \*   or anywhere in it
    Earliest,     \* milliseconds: what RFC 3339 can write with four digits of year
    Latest

Empty == 0
NameLabel == 0

MatcherTypes == {"EQ", "NEQ", "RE", "NRE"}
Matcher == [type : MatcherTypes \cup {"unknown"}, name : Strings, value : Strings,
            pattern : Seq(Strings)]

ASSUME SelectionAssumption ==
    /\ Strings \subseteq Nat /\ Empty \in Strings
    /\ DOMAIN SeriesOf = Metrics
    /\ \A m \in Metrics : LET labels == SeriesOf[m].labels
                          IN  /\ SeriesOf[m] = [name |-> SeriesOf[m].name, labels |-> labels]
                              /\ SeriesOf[m].name \in Strings
                              /\ DOMAIN labels \subseteq Strings \ {NameLabel}
                              /\ labels \in [DOMAIN labels -> Strings]
    /\ \A m, n \in Metrics : SeriesOf[m] = SeriesOf[n] => m = n
    /\ Earliest \in Int /\ Latest \in Int
    /\ Instant(Earliest) < -(Word \div 2) /\ Word \div 2 <= Instant(Latest)

-----------------------------------------------------------------------------
(* What PromQL says.  A label that is not there is there and empty.        *)

ValueIn(labels, name) == IF name \in DOMAIN labels THEN labels[name] ELSE Empty

Matches(m, value) ==
    /\ m.type = "EQ"  => value = m.value
    /\ m.type = "NEQ" => value # m.value
    /\ m.type = "RE"  => \E i \in 1..Len(m.pattern) : value = m.pattern[i]
    /\ m.type = "NRE" => \A i \in 1..Len(m.pattern) : value # m.pattern[i]

\* The label set of a stored series, its name included.
StoredLabels(series) == [n \in DOMAIN series.labels \cup {NameLabel} |->
                            IF n = NameLabel THEN series.name ELSE series.labels[n]]

Satisfies(labels, matchers) == \A m \in matchers : Matches(m, ValueIn(labels, m.name))

-----------------------------------------------------------------------------
(* What the query builder writes.                                          *)

\* Mutant: "^" and "$" around the alternation instead of around a group of it.
AnchorEnds(pattern) ==
    [i \in 1..Len(pattern) |->
        [text |-> pattern[i], start |-> i = 1, end |-> i = Len(pattern)]]

AnchorPattern(pattern) ==
    [i \in 1..Len(pattern) |-> [text |-> pattern[i], start |-> TRUE, end |-> TRUE]]

EqualityOperator(m) == IF m.value = Empty THEN "=" ELSE "@>"

Operator(m) ==
    CASE m.type = "EQ"  -> IF m.name = NameLabel THEN "=" ELSE EqualityOperator(m)
      [] m.type = "NEQ" -> "!="
      [] m.type = "RE"  -> "~"
      [] m.type = "NRE" -> "!~"

\* One condition on l.metric_name, or on one key of l.metric_labels.
LabelCondition(m) ==
    [key |-> m.name, op |-> Operator(m), text |-> m.value, regex |-> AnchorPattern(m.pattern)]

BuildFails(matchers) == \E m \in matchers : m.type = "unknown"

BuildLabelsPredicate(matchers) == {LabelCondition(m) : m \in matchers}

\* Mutant: the bound takes the way of the write path.
TimestampLiteralWrapped(milliseconds) == MetricTime(milliseconds)

\* The instant a bound is written as; model.Time.Time does not overflow.
TimestampLiteral(milliseconds) ==
    Instant(IF milliseconds < Earliest THEN Earliest
            ELSE IF milliseconds > Latest THEN Latest ELSE milliseconds)

BuildSQLQuery(q) ==
    [where |-> BuildLabelsPredicate(q.matchers),
     from  |-> TimestampLiteral(q.start),
     to    |-> TimestampLiteral(q.end)]

-----------------------------------------------------------------------------
(* What PostgreSQL makes of it.                                            *)

BranchFinds(branch, value) ==
    \/ branch.start /\ branch.end /\ value = branch.text
    \/ branch.start /\ ~branch.end /\ <<value, branch.text>> \in HasPrefix
    \/ ~branch.start /\ branch.end /\ <<value, branch.text>> \in HasSuffix
    \/ ~branch.start /\ ~branch.end /\ <<value, branch.text>> \in HasSubstring

RegexFinds(regex, value) == \E i \in 1..Len(regex) : BranchFinds(regex[i], value)

\* l.metric_name, or COALESCE(l.metric_labels->>'key', '').
ColumnValue(key, series) ==
    IF key = NameLabel THEN series.name ELSE ValueIn(series.labels, key)

ConditionHolds(condition, series) ==
    LET value == ColumnValue(condition.key, series)
    IN  /\ condition.op = "="  => value = condition.text
        /\ condition.op = "!=" => value # condition.text
        /\ condition.op = "~"  => RegexFinds(condition.regex, value)
        /\ condition.op = "!~" => ~RegexFinds(condition.regex, value)
        /\ condition.op = "@>" => /\ condition.key \in DOMAIN series.labels
                                  /\ series.labels[condition.key] = condition.text

PredicateHolds(where, series) == \A condition \in where : ConditionHolds(condition, series)

\* The label rows of a table that a predicate selects, as the series they name.
Selected(where, metricLabels) ==
    {l \in metricLabels : PredicateHolds(where, SeriesOf[l.metric])}

\* The pairs of a label row and the index of a value row that the join selects.
Joined(query, metricLabels, metricValues) ==
    {pair \in Selected(query.where, metricLabels) \X (1..Len(metricValues)) :
        LET value == metricValues[pair[2]]
            time  == MetricTime(value.sample.at)
        IN  pair[1].id = value.id /\ query.from <= time /\ time <= query.to}

\* The row that a pair makes.
JoinedRow(pair, metricValues) ==
    [name   |-> SeriesOf[pair[1].metric].name,
     labels |-> SeriesOf[pair[1].metric].labels,
     at     |-> MetricTime(metricValues[pair[2]].sample.at)]

\* The joined rows, in any order.
Listings(query, metricLabels, metricValues) ==
    {[i \in DOMAIN f |-> JoinedRow(f[i], metricValues)] :
        f \in SetToSeqs(Joined(query, metricLabels, metricValues))}

\* Mutant: no ORDER BY.
QueryUnordered(query, metricLabels, metricValues) == Listings(query, metricLabels, metricValues)

\* The rows it may return, ORDER BY v.metric_time.
QueryDatabaseSamples(query, metricLabels, metricValues) ==
    {rows \in Listings(query, metricLabels, metricValues) :
        \A i, j \in DOMAIN rows : i < j => rows[i].at <= rows[j].at}

SeriesExist(where, metricLabels) == Selected(where, metricLabels) # {}

\* Mutant: also the names carried with the empty value.
LabelNamesOfKeys(where, metricLabels) ==
    UNION {DOMAIN SeriesOf[l.metric].labels : l \in Selected(where, metricLabels)}

\* The names some selected series carries with a value.
LabelNamesOf(where, metricLabels) ==
    UNION {{n \in DOMAIN SeriesOf[l.metric].labels : SeriesOf[l.metric].labels[n] # Empty} :
              l \in Selected(where, metricLabels)}

\* The values a label has on the selected series; __name__ has a column.
LabelValuesOf(label, where, metricLabels) ==
    {ColumnValue(label, SeriesOf[l.metric]) : l \in Selected(where, metricLabels)} \ {Empty}
=============================================================================
