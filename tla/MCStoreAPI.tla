----------------------------- MODULE MCStoreAPI -----------------------------
(***************************************************************************)
(* Instances of StoreAPI for TLC.                                          *)
(***************************************************************************)
EXTENDS StoreAPI, MCSeries

R(kind, matchers, start, end, label, skip) ==
    [kind |-> kind, matchers |-> matchers, start |-> start, end |-> end, label |-> label,
     skipChunks |-> skip]

SeriesRequests ==
    {R("Series", s, NoMinTime, MaxTime, 0, FALSE) : s \in SelectionsToTry}
      \cup {R("Series", <<>>, 1, 1, 0, FALSE), R("Series", <<>>, 1, MaxTime, 0, TRUE)}

MetadataSelections == {
    <<>>,
    <<M("RE", job, 0, <<node, oldNode>>), M("EQ", us, 0, <<>>)>>,
    <<M("EQ", cluster, eu, <<>>), M("EQ", job, node, <<>>)>>,
    <<M("EQ", cluster, us, <<>>)>> }

MetadataRequests ==
    {R("Info", <<>>, 0, 0, 0, FALSE)} \cup
    UNION {{R("Series", s, 0, MaxTime, 0, TRUE), R("LabelNames", s, 0, 0, 0, FALSE)}
             \cup {R("LabelValues", s, 0, 0, n, FALSE) : n \in {NameLabel, cluster, job}} :
               s \in MetadataSelections}

CallSymmetry == Permutations(Calls)
=============================================================================
