---------------------------- MODULE MCRemoteRead ----------------------------
(***************************************************************************)
(* Instances of RemoteRead for TLC.                                        *)
(***************************************************************************)
EXTENDS RemoteRead, MCSeries

Q(matchers, start, end) == [matchers |-> ToSet(matchers), start |-> start, end |-> end]

\* One query of every kind, a pair that overlaps and one that fails half-way.
MCRequests ==
    {<<Q(s, NoMinTime, MaxTime)>> : s \in ValidSelections} \cup
    {<<Q(<<M("unknown", job, 0, <<>>)>>, 0, 0)>>, <<Q(<<>>, 1, 1)>>,
     <<Q(<<>>, NoMinTime, 1), Q(<<M("EQ", 0, up, <<>>)>>, 1, MaxTime)>>,
     <<Q(<<>>, NoMinTime, MaxTime), Q(<<M("unknown", job, 0, <<>>)>>, 0, 0)>>}
=============================================================================
