------------------------------ MODULE MCSeries ------------------------------
(***************************************************************************)
(* The series, matchers and times that the instances of StoreAPI and       *)
(* RemoteRead share.  Strings are numbered in byte order.                  *)
(***************************************************************************)
EXTENDS Integers, TLC

\* "" cluster eu job node node-legacy old-node up us usjob
cluster == 1
eu == 2
job == 3
node == 4
nodeLegacy == 5
oldNode == 6
up == 7
us == 8
usJob == 9
MCStrings == 0..9

MCPrefixes == {<<s, s>> : s \in MCStrings} \cup {<<nodeLegacy, node>>, <<usJob, us>>}
MCSuffixes == {<<s, s>> : s \in MCStrings} \cup {<<oldNode, node>>, <<usJob, job>>}
MCSubstrings == MCPrefixes \cup MCSuffixes

\* Each of them in bytes, of which 1 to 9 stand for parts of the strings.
MCBytes ==
    [s \in MCStrings |->
        CASE s = 0 -> <<>>
          [] s = nodeLegacy -> <<node, 5>>
          [] s = oldNode -> <<6, node>>
          [] s = usJob -> <<us, job>>
          [] OTHER -> <<s>>]

MCSeriesOf ==
    "euNode"   :> [name |-> up, labels |-> cluster :> eu @@ job :> node] @@
    "usNode"   :> [name |-> up, labels |-> cluster :> us @@ job :> node] @@
    "legacy"   :> [name |-> up, labels |-> job :> nodeLegacy] @@
    "old"      :> [name |-> up, labels |-> cluster :> us @@ job :> oldNode @@ us :> 0] @@
    "glued"    :> [name |-> up, labels |-> cluster :> 0 @@ usJob :> node] @@
    "nameless" :> [name |-> 0,  labels |-> job :> oldNode @@ us :> 0]
MCMetrics == DOMAIN MCSeriesOf

Reg(i, m) == [id |-> i, metric |-> m]
NamedRegistrations == {Reg(1, "euNode"), Reg(2, "legacy"), Reg(3, "old")}
OverriddenRegistrations == NamedRegistrations \cup {Reg(4, "usNode")}
\* usNode and glued are the same bytes but for the separators between their labels.
GluedRegistrations == {Reg(1, "usNode"), Reg(2, "legacy"), Reg(3, "glued")}
NamelessRegistrations == {Reg(1, "euNode"), Reg(2, "legacy"), Reg(3, "nameless")}

\* A word of 32 values, 6 nanoseconds to the millisecond, 2 milliseconds to the
\* second: -2..2 are the milliseconds whose nanoseconds fit a word.  9 comes out
\* as -1, and so would the largest number of a word, as it does in the code.
NoMinTime == 0 - 16
MaxTime == 15
MCEarliest == 0 - 8
SomeTimes == {0 - 1, 1, 9}
AroundEpoch == {0 - 2, 0}

ClusterIsEu == cluster :> eu

M(type, name, value, pattern) ==
    [type |-> type, name |-> name, value |-> value, pattern |-> pattern]

ValidSelections == {
    <<>>,
    <<M("EQ", 0, up, <<>>), M("NEQ", job, node, <<>>)>>,
    <<M("RE", job, 0, <<node, oldNode>>)>>,
    <<M("NRE", job, 0, <<nodeLegacy, node>>), M("EQ", us, 0, <<>>)>>,
    <<M("EQ", cluster, eu, <<>>), M("EQ", job, oldNode, <<>>)>>,
    <<M("EQ", cluster, 0, <<>>)>> }

\* With a matcher of no known type, which counts if the others do not decide.
SelectionsToTry == ValidSelections \cup {
    <<M("NEQ", cluster, us, <<>>), M("unknown", job, 0, <<>>)>>,
    <<M("EQ", cluster, us, <<>>), M("unknown", job, 0, <<>>)>> }

=============================================================================
