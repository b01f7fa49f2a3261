---------------------------- MODULE SampleLabels ----------------------------
(***************************************************************************)
(* The labels of a row as domain.SampleLabels has them, and the key under  *)
(* which the read paths gather the rows of a series: a string of bytes.    *)
(***************************************************************************)
EXTENDS Selection

CONSTANT Bytes   \* what UTF-8 writes for a string

Separator == 255

\* Strings come from jsonb and text: they are valid UTF-8, where the byte of the
\* separator does not occur.
ASSUME SampleLabelsAssumption ==
    /\ Bytes \in [Strings -> Seq(0..(Separator - 1))]
    /\ \A s, t \in Strings : Bytes[s] = Bytes[t] => s = t
    /\ \A m \in Metrics : IsFiniteSet(DOMAIN SeriesOf[m].labels)

\* The names of a row's labels, sorted.
OrderedKeys(labels) ==
    CHOOSE keys \in SetToSeqs(DOMAIN labels) :
        \A i, j \in DOMAIN keys : i < j => keys[i] < keys[j]

\* Mutant: the parts are joined as they are.
JoinPlain(parts) == FlattenSeq(parts)

\* strings.Join with the separator.
Join(parts) ==
    FlattenSeq([i \in 1..Len(parts) |->
                   IF i = 1 THEN parts[1] ELSE <<Separator>> \o parts[i]])

\* SampleLabels.Key of the row's labels, with its name as the extra.
Key(row) ==
    LET keys == OrderedKeys(row.labels)
    IN  Join(<<Bytes[row.name] \o <<Separator>>>> \o
             [i \in 1..Len(keys) |->
                 Bytes[keys[i]] \o <<Separator>> \o Bytes[row.labels[keys[i]]]])
=============================================================================
