--------------------------- MODULE MCMetricWriter ---------------------------
(***************************************************************************)
(* Instances of MetricWriter for TLC.  "up", "cpu" and "mem" are plain     *)
(* metrics; "ctl" has a label value that Go quotes in a way JSON does not  *)
(* read; "bare" has no label.                                              *)
(***************************************************************************)
EXTENDS MetricWriter, TLC

CONSTANTS r1, r2, r3

S(m, t) == [metric |-> m, at |-> t]

\* Two requests that introduce the same two series in opposite orders, one of
\* them with labels that cannot be read.
CrossedPayload == r1 :> <<S("up", 1), S("ctl", 1)>> @@ r2 :> <<S("ctl", 2), S("up", 2)>>

\* One series at a time.
PlainPayload == r1 :> <<S("up", 1)>> @@ r2 :> <<S("up", 2)>>
TwoSeriesPayload == r1 :> <<S("up", 1)>> @@ r2 :> <<S("cpu", 2)>>

\* Three series, one after the other.
ThreePayload == r1 :> <<S("up", 1)>> @@ r2 :> <<S("cpu", 1)>> @@ r3 :> <<S("mem", 1)>>

\* The second request has a metric with no label, both an unreadable one.
BarePayload == r1 :> <<S("ctl", 1), S("up", 1)>> @@ r2 :> <<S("ctl", 2), S("bare", 2)>>
=============================================================================
