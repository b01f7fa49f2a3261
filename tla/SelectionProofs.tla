--------------------------- MODULE SelectionProofs ---------------------------
(***************************************************************************)
(* What becomes of timestamps, for any word size and any units: those      *)
(* whose nanoseconds fit an int64 are stored and read back unchanged, and  *)
(* no timestamp at all is stored so that the two read paths disagree.  And *)
(* the SQL that the query builder writes selects what PromQL selects: for  *)
(* all matchers it accepts, all series and all time ranges.  At the end,   *)
(* what sorting may choose exists.                                         *)
(***************************************************************************)
EXTENDS Selection, FiniteSetTheorems, FunctionTheorems, TLAPS

-----------------------------------------------------------------------------
(* Timestamps.                                                             *)

\* Multiplying and dividing by the same unit leaves a number as it was, on
\* either side of zero.
LEMMA QuotOfProduct ==
    ASSUME NEW n \in Int, NEW unit \in Nat \ {0}
    PROVE  Quot(n * unit, unit) = n
<1>1. CASE n >= 0
  <2>1. n * unit >= 0 /\ (n * unit) \div unit = n
    BY <1>1
  <2> QED
    BY <2>1 DEF Quot
<1>2. CASE n < 0
  <2>1. n * unit < 0 /\ -(n * unit) = (-n) * unit
    BY <1>2
  <2>2. ((-n) * unit) \div unit = -n
    BY <1>2
  <2> QED
    BY <2>1, <2>2 DEF Quot
<1> QED
  BY <1>1, <1>2

\* A quotient is a number of its own, whatever the division does to its sign.
LEMMA QuotType ==
    ASSUME NEW n \in Int, NEW unit \in Nat \ {0}
    PROVE  Quot(n, unit) \in Int
BY DEF Quot

\* What an int64 can hold is what an int64 computes.
LEMMA WrapInRange ==
    ASSUME NEW n \in Int, -(Word \div 2) <= n, n < Word \div 2
    PROVE  Wrap(n) = n
<1> DEFINE half == Word \div 2
<1>1. half \in Nat /\ half + half = Word
  BY TimestampsAssumption
<1>2. 0 <= n + half /\ n + half < Word
  BY <1>1
<1>3. (n + half) % Word = n + half
  BY <1>1, <1>2, TimestampsAssumption
<1> QED
  BY <1>1, <1>3 DEF Wrap

\* Whatever is computed, an int64 holds it.
LEMMA WrapRange ==
    ASSUME NEW n \in Int
    PROVE  Wrap(n) \in Int /\ -(Word \div 2) <= Wrap(n) /\ Wrap(n) < Word \div 2
<1> DEFINE half == Word \div 2
<1>1. half \in Nat /\ half + half = Word
  BY TimestampsAssumption
<1>2. (n + half) % Word \in 0..(Word - 1)
  BY <1>1, TimestampsAssumption
<1> QED
  BY <1>1, <1>2 DEF Wrap

\* toTimestamp splits milliseconds into seconds and a rest, and loses nothing,
\* whichever way the division rounds.
LEMMA ToTimestampExact ==
    ASSUME NEW milliseconds \in Int
    PROVE  ToTimestamp(milliseconds) = Instant(milliseconds)
<1> DEFINE sec == Quot(milliseconds, MillisPerSecond)
<1>1. sec \in Int
  BY QuotType, TimestampsAssumption
<1> HIDE DEF sec
<1>2. sec * (MillisPerSecond * NanosPerMilli)
        + (milliseconds - sec * MillisPerSecond) * NanosPerMilli = milliseconds * NanosPerMilli
  BY <1>1, TimestampsAssumption
<1> QED
  BY <1>2 DEF ToTimestamp, Instant, NanosPerSecond, sec

\* A row is stored for a whole millisecond, and one the words of the read paths
\* can hold, whatever the timestamp was.
LEMMA MetricTimeIsMilliseconds ==
    ASSUME NEW milliseconds \in Int
    PROVE  \E stored \in Int : /\ MetricTime(milliseconds) = Instant(stored)
                               /\ -(Word \div 2) <= Instant(stored)
                               /\ Instant(stored) <= Word \div 2 - 1
<1> DEFINE nanos == UnixNano(milliseconds)
           stored == Quot(nanos, NanosPerMilli)
<1>1. nanos \in Int /\ -(Word \div 2) <= nanos /\ nanos < Word \div 2
  BY WrapRange, TimestampsAssumption DEF UnixNano
<1> HIDE DEF nanos
<1>2. stored \in Int /\ MetricTime(milliseconds) = Instant(stored)
  BY <1>1, QuotType, ToTimestampExact, TimestampsAssumption DEF MetricTime, nanos
<1>3. CASE nanos >= 0
  <2>1. stored = nanos \div NanosPerMilli
    BY <1>3 DEF Quot
  <2>2. 0 <= (nanos \div NanosPerMilli) * NanosPerMilli
        /\ (nanos \div NanosPerMilli) * NanosPerMilli <= nanos
    BY <1>1, <1>3, TimestampsAssumption
  <2> QED
    BY <1>1, <1>2, <2>1, <2>2, TimestampsAssumption DEF Instant
<1>4. CASE nanos < 0
  <2>1. stored = -((-nanos) \div NanosPerMilli)
    BY <1>1, <1>4 DEF Quot
  <2> DEFINE q == (-nanos) \div NanosPerMilli
  <2>2. q \in Int /\ 0 <= q * NanosPerMilli /\ q * NanosPerMilli <= -nanos
    BY <1>1, <1>4, TimestampsAssumption
  <2>3. stored * NanosPerMilli = -(q * NanosPerMilli)
    BY <2>1, <2>2, TimestampsAssumption
  <2>4. Word \div 2 \in Nat /\ 1 <= Word \div 2
    BY TimestampsAssumption
  <2> HIDE DEF q
  <2>5. Instant(stored) = -(q * NanosPerMilli)
    BY <2>3 DEF Instant
  <2>6. -(Word \div 2) <= Instant(stored) /\ Instant(stored) <= Word \div 2 - 1
    BY <1>1, <2>2, <2>4, <2>5, TimestampsAssumption
  <2> QED
    BY <1>2, <2>6
<1> QED
  BY <1>1, <1>3, <1>4

\* A timestamp whose nanoseconds fit an int64 is stored as what it was.
THEOREM StoredUnchanged ==
    ASSUME NEW milliseconds \in Int, Representable(milliseconds)
    PROVE  MetricTime(milliseconds) = Instant(milliseconds)
<1>1. Instant(milliseconds) \in Int
  BY TimestampsAssumption DEF Instant
<1>2. UnixNano(milliseconds) = milliseconds * NanosPerMilli
  BY <1>1, WrapInRange DEF UnixNano, Representable, Instant
<1>3. Quot(UnixNano(milliseconds), NanosPerMilli) = milliseconds
  BY <1>2, QuotOfProduct, TimestampsAssumption
<1> QED
  BY <1>3, ToTimestampExact DEF MetricTime

\* Whatever timestamp a row was stored for, both read paths answer the whole
\* millisecond that it is at, though one divides towards zero and the other
\* downwards, and no read path wraps.
LEMMA RowsAreReadable ==
    ASSUME NEW milliseconds \in Int
    PROVE  LET read == ReadMilliseconds(MetricTime(milliseconds))
           IN  /\ read \in Int /\ MetricTime(milliseconds) = Instant(read)
               /\ -(Word \div 2) <= Instant(read) /\ Instant(read) < Word \div 2
               /\ UnixMilli(MetricTime(milliseconds)) = read
<1>1. PICK stored \in Int : /\ MetricTime(milliseconds) = Instant(stored)
                            /\ -(Word \div 2) <= Instant(stored)
                            /\ Instant(stored) <= Word \div 2 - 1
  BY MetricTimeIsMilliseconds
<1>2. Instant(stored) \in Int /\ Instant(stored) < Word \div 2
  BY <1>1, TimestampsAssumption DEF Instant
<1>3. Wrap(Instant(stored)) = Instant(stored)
  BY <1>1, <1>2, WrapInRange
<1>4. ReadMilliseconds(Instant(stored)) = stored
  BY <1>3, QuotOfProduct, TimestampsAssumption DEF ReadMilliseconds, Instant
<1>5. UnixMilli(Instant(stored)) = stored
  BY TimestampsAssumption DEF UnixMilli, Instant
<1> QED
  BY <1>1, <1>2, <1>4, <1>5

\* Remote read and StoreAPI answer the same milliseconds for a row.
THEOREM ReadPathsAgree ==
    ASSUME NEW milliseconds \in Int
    PROVE  ReadMilliseconds(MetricTime(milliseconds)) = UnixMilli(MetricTime(milliseconds))
BY RowsAreReadable

\* What was written is what is read, for every timestamp whose nanoseconds fit
\* an int64, on either side of 1970 and on both read paths.
THEOREM RoundTrip ==
    ASSUME NEW milliseconds \in Int, Representable(milliseconds)
    PROVE  /\ UnixMilli(MetricTime(milliseconds)) = milliseconds
           /\ ReadMilliseconds(MetricTime(milliseconds)) = milliseconds
<1>1. UnixMilli(Instant(milliseconds)) = milliseconds
  BY TimestampsAssumption DEF UnixMilli, Instant
<1> QED
  BY <1>1, StoredUnchanged, ReadPathsAgree

-----------------------------------------------------------------------------
(* Matchers and time ranges.                                               *)

\* A series has a name and labels, none of them __name__.
LEMMA SeriesType ==
    ASSUME NEW metric \in Metrics
    PROVE  /\ SeriesOf[metric].name \in Strings
           /\ DOMAIN SeriesOf[metric].labels \subseteq Strings \ {NameLabel}
           /\ \A n \in DOMAIN SeriesOf[metric].labels : SeriesOf[metric].labels[n] \in Strings
BY SelectionAssumption

\* The column a condition reads holds what PromQL takes the label's value to
\* be: the name for __name__, and the empty string for a label not there.
LEMMA ColumnIsValue ==
    ASSUME NEW metric \in Metrics, NEW name
    PROVE  ColumnValue(name, SeriesOf[metric]) = ValueIn(StoredLabels(SeriesOf[metric]), name)
<1> DEFINE series == SeriesOf[metric]
<1>1. NameLabel \notin DOMAIN series.labels
  BY SeriesType
<1>2. DOMAIN StoredLabels(series) = DOMAIN series.labels \cup {NameLabel}
  BY DEF StoredLabels
<1>3. CASE name = NameLabel
  BY <1>2, <1>3 DEF ColumnValue, ValueIn, StoredLabels
<1>4. CASE name # NameLabel
  BY <1>2, <1>4 DEF ColumnValue, ValueIn, StoredLabels
<1> QED
  BY <1>3, <1>4

\* The pattern is anchored as a whole: each alternative is found in a value only
\* if it is all of it.
LEMMA AnchoredFinds ==
    ASSUME NEW pattern \in Seq(Strings), NEW value
    PROVE  RegexFinds(AnchorPattern(pattern), value)
             <=> \E i \in 1..Len(pattern) : value = pattern[i]
<1>1. Len(AnchorPattern(pattern)) = Len(pattern)
  BY DEF AnchorPattern
<1>2. ASSUME NEW i \in 1..Len(pattern)
      PROVE  BranchFinds(AnchorPattern(pattern)[i], value) <=> value = pattern[i]
  BY DEF AnchorPattern, BranchFinds
<1> QED
  BY <1>1, <1>2 DEF RegexFinds

\* Containment of a label with its value, or equality with the empty string
\* where that is the value asked for, is equality with a missing label empty.
LEMMA EqualityIsExact ==
    ASSUME NEW m \in Matcher, m.type = "EQ", NEW metric \in Metrics
    PROVE  ConditionHolds(LabelCondition(m), SeriesOf[metric])
             <=> ColumnValue(m.name, SeriesOf[metric]) = m.value
<1> DEFINE series == SeriesOf[metric]
           condition == LabelCondition(m)
<1>1. condition.key = m.name /\ condition.text = m.value
  BY DEF LabelCondition
<1>2. CASE m.name = NameLabel \/ m.value = Empty
  <2>1. condition.op = "="
    BY <1>2 DEF LabelCondition, Operator, EqualityOperator
  <2> QED
    BY <1>1, <2>1 DEF ConditionHolds
<1>3. CASE m.name # NameLabel /\ m.value # Empty
  <2>1. condition.op = "@>"
    BY <1>3 DEF LabelCondition, Operator, EqualityOperator
  <2>2. ConditionHolds(condition, series)
          <=> m.name \in DOMAIN series.labels /\ series.labels[m.name] = m.value
    BY <1>1, <2>1 DEF ConditionHolds
  <2> QED
    BY <1>3, <2>2 DEF ColumnValue, ValueIn
<1> QED
  BY <1>2, <1>3

\* Each condition the builder writes holds of a row exactly if the matcher it was
\* written for matches the series.
LEMMA ConditionIsExact ==
    ASSUME NEW m \in Matcher, m.type # "unknown", NEW metric \in Metrics
    PROVE  ConditionHolds(LabelCondition(m), SeriesOf[metric])
             <=> Matches(m, ValueIn(StoredLabels(SeriesOf[metric]), m.name))
<1> DEFINE series == SeriesOf[metric]
           condition == LabelCondition(m)
           value == ColumnValue(m.name, series)
<1>1. value = ValueIn(StoredLabels(series), m.name)
  BY ColumnIsValue
<1>2. /\ condition.key = m.name /\ condition.text = m.value
      /\ condition.regex = AnchorPattern(m.pattern)
  BY DEF LabelCondition
<1>3. RegexFinds(condition.regex, value) <=> \E i \in 1..Len(m.pattern) : value = m.pattern[i]
  BY <1>2, AnchoredFinds DEF Matcher
<1>4. CASE m.type = "EQ"
  BY <1>1, <1>4, EqualityIsExact DEF Matches
<1>5. CASE m.type = "NEQ"
  <2>1. condition.op = "!="
    BY <1>5 DEF LabelCondition, Operator
  <2> QED
    BY <1>1, <1>2, <1>5, <2>1 DEF ConditionHolds, Matches
<1>6. CASE m.type = "RE"
  <2>1. condition.op = "~"
    BY <1>6 DEF LabelCondition, Operator
  <2>2. ConditionHolds(condition, series) <=> RegexFinds(condition.regex, value)
    BY <1>2, <2>1 DEF ConditionHolds
  <2> QED
    BY <1>1, <1>3, <1>6, <2>2 DEF Matches
<1>7. CASE m.type = "NRE"
  <2>1. condition.op = "!~"
    BY <1>7 DEF LabelCondition, Operator
  <2>2. ConditionHolds(condition, series) <=> ~RegexFinds(condition.regex, value)
    BY <1>2, <2>1 DEF ConditionHolds
  <2> QED
    BY <1>1, <1>3, <1>7, <2>2 DEF Matches
<1> QED
  BY <1>4, <1>5, <1>6, <1>7 DEF Matcher, MatcherTypes

\* BuildLabelsPredicate selects exactly the series that satisfy the matchers,
\* for every list of matchers it does not refuse.
THEOREM PredicateIsExact ==
    ASSUME NEW matchers, matchers \subseteq Matcher, ~BuildFails(matchers), NEW metric \in Metrics
    PROVE  PredicateHolds(BuildLabelsPredicate(matchers), SeriesOf[metric])
             <=> Satisfies(StoredLabels(SeriesOf[metric]), matchers)
<1>1. ASSUME NEW m \in matchers
      PROVE  ConditionHolds(LabelCondition(m), SeriesOf[metric])
               <=> Matches(m, ValueIn(StoredLabels(SeriesOf[metric]), m.name))
  BY ConditionIsExact DEF BuildFails
<1>2. PredicateHolds(BuildLabelsPredicate(matchers), SeriesOf[metric])
        <=> \A m \in matchers : ConditionHolds(LabelCondition(m), SeriesOf[metric])
  BY DEF PredicateHolds, BuildLabelsPredicate
<1> QED
  BY <1>1, <1>2 DEF Satisfies

\* Instants are in the order of the milliseconds they are named by.
LEMMA InstantInOrder ==
    ASSUME NEW m \in Int, NEW n \in Int
    PROVE  Instant(m) <= Instant(n) <=> m <= n
<1> DEFINE unit == NanosPerMilli
<1>1. unit \in Nat /\ 1 <= unit
  BY TimestampsAssumption
<1> HIDE DEF unit
<1>2. ASSUME NEW a \in Int, NEW b \in Int, a <= b
      PROVE  a * unit <= b * unit
  BY <1>1, <1>2
<1>3. ASSUME NEW a \in Int, NEW b \in Int, a < b
      PROVE  a * unit < b * unit
  BY <1>1, <1>3
<1>4. CASE m <= n
  BY <1>2, <1>4 DEF Instant, unit
<1>5. CASE n < m
  <2>1. n * unit < m * unit
    BY <1>3, <1>5
  <2>2. n * unit \in Int /\ m * unit \in Int
    BY <1>1
  <2> QED
    BY <1>5, <2>1, <2>2 DEF Instant, unit
<1> QED
  BY <1>4, <1>5

\* What int64 nanoseconds can say, RFC 3339 can write.
LEMMA WordWithinYears ==
    ASSUME NEW t \in Int, -(Word \div 2) <= Instant(t), Instant(t) < Word \div 2
    PROVE  Earliest < t /\ t < Latest
<1>1. Word \div 2 \in Nat /\ Instant(t) \in Int
  BY TimestampsAssumption DEF Instant
<1>2. Instant(Earliest) \in Int /\ Instant(Latest) \in Int
  BY SelectionAssumption, TimestampsAssumption DEF Instant
<1>3. ~(Instant(Latest) <= Instant(t)) /\ ~(Instant(t) <= Instant(Earliest))
  BY <1>1, <1>2, SelectionAssumption
<1>4. ~(Latest <= t) /\ ~(t <= Earliest)
  BY <1>3, InstantInOrder, SelectionAssumption
<1> QED
  BY <1>4, SelectionAssumption

\* Clamping a bound to the years that RFC 3339 can write neither admits nor
\* excludes an instant that a row can have.
LEMMA BoundsAreExact ==
    ASSUME NEW start \in Int, NEW end \in Int, NEW t \in Int,
           -(Word \div 2) <= Instant(t), Instant(t) < Word \div 2
    PROVE  TimestampLiteral(start) <= Instant(t) /\ Instant(t) <= TimestampLiteral(end)
             <=> start <= t /\ t <= end
<1> DEFINE clamped(n) == IF n < Earliest THEN Earliest ELSE IF n > Latest THEN Latest ELSE n
<1>1. clamped(start) \in Int /\ clamped(end) \in Int
  BY SelectionAssumption
<1>2. clamped(start) <= t /\ t <= clamped(end) <=> start <= t /\ t <= end
  <2>1. Earliest < t /\ t < Latest
    BY WordWithinYears
  <2> QED
    BY <2>1, SelectionAssumption
<1>3. /\ TimestampLiteral(start) = Instant(clamped(start))
      /\ TimestampLiteral(end) = Instant(clamped(end))
  BY DEF TimestampLiteral
<1> HIDE DEF clamped
<1> QED
  BY <1>1, <1>2, <1>3, InstantInOrder

\* BuildSQLQuery: the rows it joins are those of the series that satisfy the
\* matchers, at the times of the range, and no others.
THEOREM QueryIsExact ==
    ASSUME NEW q, q.matchers \subseteq Matcher, ~BuildFails(q.matchers),
           q.start \in Int, q.end \in Int,
           NEW metricLabels, \A l \in metricLabels : l.metric \in Metrics,
           NEW metricValues,
           \A i \in 1..Len(metricValues) : metricValues[i].sample.at \in Int
    PROVE  Joined(BuildSQLQuery(q), metricLabels, metricValues) =
             {pair \in metricLabels \X (1..Len(metricValues)) :
                LET read == ReadMilliseconds(MetricTime(metricValues[pair[2]].sample.at))
                IN  /\ pair[1].id = metricValues[pair[2]].id
                    /\ Satisfies(StoredLabels(SeriesOf[pair[1].metric]), q.matchers)
                    /\ q.start <= read /\ read <= q.end}
<1> DEFINE query == BuildSQLQuery(q)
           time(i) == MetricTime(metricValues[i].sample.at)
           read(i) == ReadMilliseconds(time(i))
<1>1. /\ query.where = BuildLabelsPredicate(q.matchers)
      /\ query.from = TimestampLiteral(q.start) /\ query.to = TimestampLiteral(q.end)
  BY DEF BuildSQLQuery
<1>2. ASSUME NEW l \in metricLabels
      PROVE  l \in Selected(query.where, metricLabels)
               <=> Satisfies(StoredLabels(SeriesOf[l.metric]), q.matchers)
  BY <1>1, PredicateIsExact DEF Selected
<1>3. ASSUME NEW i \in 1..Len(metricValues)
      PROVE  query.from <= time(i) /\ time(i) <= query.to
               <=> q.start <= read(i) /\ read(i) <= q.end
  <2>1. /\ read(i) \in Int /\ time(i) = Instant(read(i))
        /\ -(Word \div 2) <= Instant(read(i)) /\ Instant(read(i)) < Word \div 2
    BY RowsAreReadable
  <2> HIDE DEF time, read, query
  <2>2. TimestampLiteral(q.start) <= Instant(read(i)) /\ Instant(read(i)) <= TimestampLiteral(q.end)
        <=> q.start <= read(i) /\ read(i) <= q.end
    BY <2>1, BoundsAreExact
  <2> QED
    BY <1>1, <2>1, <2>2
<1>4. Selected(query.where, metricLabels) \subseteq metricLabels
  BY DEF Selected
<1> HIDE DEF query
<1>5. ASSUME NEW l \in metricLabels, NEW i \in 1..Len(metricValues)
      PROVE  <<l, i>> \in Joined(query, metricLabels, metricValues)
               <=> /\ l.id = metricValues[i].id
                   /\ Satisfies(StoredLabels(SeriesOf[l.metric]), q.matchers)
                   /\ q.start <= read(i) /\ read(i) <= q.end
  BY <1>2, <1>3 DEF Joined
<1>6. Joined(query, metricLabels, metricValues) \subseteq metricLabels \X (1..Len(metricValues))
  BY <1>4 DEF Joined
<1> QED
  BY <1>5, <1>6 DEF query

\* Rows in the order of their instants are in the order of what is read of them.
LEMMA ReadInOrder ==
    ASSUME NEW s \in Int, NEW t \in Int, MetricTime(s) <= MetricTime(t)
    PROVE  ReadMilliseconds(MetricTime(s)) <= ReadMilliseconds(MetricTime(t))
<1> DEFINE r == ReadMilliseconds(MetricTime(s))
           q == ReadMilliseconds(MetricTime(t))
<1>1. r \in Int /\ q \in Int /\ MetricTime(s) = Instant(r) /\ MetricTime(t) = Instant(q)
  BY RowsAreReadable
<1> QED
  BY <1>1, InstantInOrder

-----------------------------------------------------------------------------
(* Rows in some order.                                                     *)

\* An enumeration of a finite set has each of its elements at one place.
LEMMA Enumeration ==
    ASSUME NEW S, IsFiniteSet(S), NEW f \in SetToSeqs(S)
    PROVE  /\ f \in Seq(S) /\ Len(f) = Cardinality(S) /\ DOMAIN f = 1..Len(f)
           /\ f \in Bijection(1..Len(f), S)
<1> DEFINE n == Cardinality(S)
<1>1. n \in Nat
  BY FS_CardinalityType
<1>2. f \in [1..n -> S] /\ \A i, j \in 1..n : i # j => f[i] # f[j]
  BY DEF SetToSeqs
<1> HIDE DEF n
<1>3. f \in Seq(S) /\ Len(f) = n
  BY <1>1, <1>2
<1>4. f \in Injection(1..n, S)
  BY <1>2, Fun_IsInj
<1>5. Cardinality(1..n) = n
  BY <1>1, FS_Interval
<1>6. f \in Surjection(1..n, S)
  BY <1>4, <1>5, FS_Injection DEF n
<1>7. f \in Bijection(1..n, S)
  BY <1>4, <1>6 DEF Bijection
<1> QED
  BY <1>2, <1>3, <1>7 DEF n

\* A query returns a row for each pair it joins, at one place.
LEMMA ListingOfJoined ==
    ASSUME NEW query, NEW metricLabels, IsFiniteSet(metricLabels),
           NEW metricValues, Len(metricValues) \in Nat,
           NEW rows \in Listings(query, metricLabels, metricValues)
    PROVE  LET joined == Joined(query, metricLabels, metricValues)
           IN  /\ IsFiniteSet(joined) /\ Len(rows) = Cardinality(joined)
               /\ \E f \in Bijection(1..Len(rows), joined) :
                     rows = [i \in 1..Len(rows) |-> JoinedRow(f[i], metricValues)]
<1> DEFINE joined == Joined(query, metricLabels, metricValues)
<1>1. joined \subseteq metricLabels \X (1..Len(metricValues))
  BY DEF Joined, Selected
<1>2. IsFiniteSet(metricLabels \X (1..Len(metricValues)))
  <2>1. IsFiniteSet(1..Len(metricValues))
    BY FS_Interval
  <2> QED
    BY <2>1, FS_Product
<1>3. IsFiniteSet(joined)
  BY <1>1, <1>2, FS_Subset
<1>4. PICK f \in SetToSeqs(joined) : rows = [i \in DOMAIN f |-> JoinedRow(f[i], metricValues)]
  BY DEF Listings
<1> HIDE DEF joined
<1>5. /\ DOMAIN f = 1..Len(f) /\ Len(f) = Cardinality(joined) /\ f \in Bijection(1..Len(f), joined)
  BY <1>3, Enumeration
<1>6. Len(f) \in Nat
  BY <1>3, <1>5, FS_CardinalityType
<1>7. Len(rows) = Len(f)
  BY <1>4, <1>5, <1>6
<1> QED
  BY <1>3, <1>4, <1>5, <1>7 DEF joined

-----------------------------------------------------------------------------
(* Sorting: what CHOOSE is asked for exists.                               *)

\* Of finitely many things at integer times, one is last.
LEMMA LastExists ==
    ASSUME NEW S, IsFiniteSet(S), S # {}, NEW time \in [S -> Int]
    PROVE  \E x \in S : \A y \in S : time[y] <= time[x]
<1> DEFINE last(U) == \E x \in U : \A y \in U : time[y] <= time[x]
           T == {U \in FiniteSubsetsOf(S) : U # {} /\ ~last(U)}
<1> SUFFICES ASSUME ~last(S) PROVE FALSE
  OBVIOUS
<1>1. S \in T
  BY DEF FiniteSubsetsOf
<1>2. T \subseteq FiniteSubsetsOf(S) /\ T # {}
  BY <1>1
<1>3. PICK U \in T : \A V \in T : <<V, U>> \notin StrictSubsetOrdering(S)
  BY <1>2, WFMin, FS_StrictSubsetOrderingWellFounded
<1>4. U \subseteq S /\ IsFiniteSet(U) /\ U # {} /\ ~last(U)
  BY DEF FiniteSubsetsOf
<1>5. PICK x \in U : TRUE
  BY <1>4
<1> DEFINE V == U \ {x}
<1>6. <<V, U>> \in StrictSubsetOrdering(S) /\ IsFiniteSet(V) /\ V \subseteq S
  BY <1>4, <1>5, FS_Subset DEF StrictSubsetOrdering
<1>7. V = {} \/ last(V)
  BY <1>3, <1>6 DEF FiniteSubsetsOf
<1>8. CASE V = {}
  BY <1>4, <1>5, <1>8
<1>9. CASE last(V)
  <2>1. PICK y \in V : \A z \in V : time[z] <= time[y]
    BY <1>9
  <2>2. \A z \in U : z = x \/ z \in V
    OBVIOUS
  <2>3. \A z \in U : time[z] \in Int
    BY <1>4
  <2>4. CASE time[x] <= time[y]
    BY <1>4, <1>5, <2>1, <2>2, <2>4
  <2>5. CASE ~(time[x] <= time[y])
    BY <1>4, <1>5, <2>1, <2>2, <2>3, <2>5
  <2> QED
    BY <2>4, <2>5
<1> QED
  BY <1>7, <1>8, <1>9

\* Of finitely many numbers, one is least.
LEMMA LeastExists ==
    ASSUME NEW S, IsFiniteSet(S), S # {}, S \subseteq Int
    PROVE  \E x \in S : \A y \in S : x <= y
<1> DEFINE time == [x \in S |-> -x]
<1>1. time \in [S -> Int]
  OBVIOUS
<1>2. PICK x \in S : \A y \in S : time[y] <= time[x]
  BY <1>1, LastExists
<1>3. \A y \in S : x <= y
  BY <1>2
<1> QED
  BY <1>3

\* Finitely many things can be put in the order of their times.
LEMMA SortedExists ==
    ASSUME NEW S, IsFiniteSet(S), NEW time \in [S -> Int]
    PROVE  \E f \in SetToSeqs(S) : \A i, j \in DOMAIN f : i < j => time[f[i]] <= time[f[j]]
<1> DEFINE sorted(U) ==
      \E f \in SetToSeqs(U) : \A i, j \in DOMAIN f : i < j => time[f[i]] <= time[f[j]]
           T == {U \in FiniteSubsetsOf(S) : ~sorted(U)}
<1> SUFFICES ASSUME ~sorted(S) PROVE FALSE
  OBVIOUS
<1>1. S \in T
  BY DEF FiniteSubsetsOf
<1>2. T \subseteq FiniteSubsetsOf(S) /\ T # {}
  BY <1>1
<1>3. PICK U \in T : \A V \in T : <<V, U>> \notin StrictSubsetOrdering(S)
  BY <1>2, WFMin, FS_StrictSubsetOrderingWellFounded
<1>4. U \subseteq S /\ IsFiniteSet(U) /\ ~sorted(U)
  BY DEF FiniteSubsetsOf
<1>5. U # {}
  <2> SUFFICES ASSUME U = {} PROVE FALSE
    OBVIOUS
  <2>1. Cardinality(U) = 0
    BY FS_EmptySet
  <2>2. <<>> \in SetToSeqs(U)
    BY <2>1 DEF SetToSeqs
  <2> QED
    BY <1>4, <2>2
<1>6. PICK x \in U : \A y \in U : time[y] <= time[x]
  <2>1. [y \in U |-> time[y]] \in [U -> Int]
    BY <1>4
  <2> QED
    BY <1>4, <1>5, <2>1, LastExists
<1> DEFINE V == U \ {x}
           n == Cardinality(U)
<1>7. <<V, U>> \in StrictSubsetOrdering(S) /\ IsFiniteSet(V) /\ V \subseteq S
  BY <1>4, <1>6, FS_Subset DEF StrictSubsetOrdering
<1>8. sorted(V)
  BY <1>3, <1>7 DEF FiniteSubsetsOf
<1>9. PICK g \in SetToSeqs(V) : \A i, j \in DOMAIN g : i < j => time[g[i]] <= time[g[j]]
  BY <1>8
<1>10. n \in Nat /\ Cardinality(V) = n - 1
  BY <1>4, <1>6, FS_CardinalityType, FS_RemoveElement
<1> HIDE DEF n
<1>11. g \in [1..(n - 1) -> V] /\ \A i, j \in 1..(n - 1) : i # j => g[i] # g[j]
  BY <1>9, <1>10 DEF SetToSeqs
<1> DEFINE f == [i \in 1..n |-> IF i = n THEN x ELSE g[i]]
<1>12. \A i \in 1..n : i = n \/ i \in 1..(n - 1)
  BY <1>10
<1>13. f \in [1..n -> U]
  BY <1>6, <1>11, <1>12
<1>14. \A i, j \in 1..n : i # j => f[i] # f[j]
  BY <1>11, <1>12
<1>15. f \in SetToSeqs(U)
  BY <1>13, <1>14 DEF SetToSeqs, n
<1>16. ASSUME NEW i \in 1..n, NEW j \in 1..n, i < j
       PROVE  time[f[i]] <= time[f[j]]
  <2>1. i \in 1..(n - 1) /\ f[i] = g[i]
    BY <1>10, <1>16
  <2>2. CASE j = n
    BY <1>6, <1>13, <2>2
  <2>3. CASE j # n
    BY <1>9, <1>11, <1>12, <1>16, <2>1, <2>3
  <2> QED
    BY <2>2, <2>3
<1> QED
  BY <1>4, <1>15, <1>16
=============================================================================
