----------------------------- MODULE Statements -----------------------------
(***************************************************************************)
(* The statements on the database as those who make them see them: each    *)
(* call takes effect at once and as a whole, or not at all.  A query that  *)
(* returns without error saw the table as it was at one moment of the      *)
(* call; a write that returns without error has taken effect.  After an    *)
(* error nothing is known: a write may have taken effect, may never, and   *)
(* may do so later.                                                        *)
(*                                                                         *)
(* DatabaseClient implements this specification; MetricWriter, StoreAPI    *)
(* and RemoteRead are written on top of it.                                *)
(***************************************************************************)
CONSTANTS
    Calls,     \* calls of a method of the client
    Queries,   \* those that read
    RowsOf     \* the rows each of them writes

VARIABLES
    phase,     \* per call
    view,      \* per call: the tables it has seen, one at most
    table      \* rows visible to everybody

vars == <<phase, view, table>>

Init ==
    /\ phase = [c \in Calls |-> "idle"]
    /\ view = [c \in Calls |-> {}]
    /\ table = {}

Invoke(c) ==
    /\ phase[c] = "idle"
    /\ phase' = [phase EXCEPT ![c] = "pending"]
    /\ UNCHANGED <<view, table>>

See(c) ==
    /\ phase[c] = "pending" /\ c \in Queries
    /\ view' = [view EXCEPT ![c] = {table}]
    /\ UNCHANGED <<phase, table>>

\* Whatever the caller was told: an error ends the call, not the statement.
TakeEffect(c) ==
    /\ phase[c] \in {"pending", "error"}
    /\ table' = table \cup RowsOf[c]
    /\ UNCHANGED <<phase, view>>

\* Now at the latest.
Succeed(c) ==
    /\ phase[c] = "pending" /\ (c \in Queries => view[c] # {})
    /\ phase' = [phase EXCEPT ![c] = "ok"]
    /\ table' = table \cup RowsOf[c]
    /\ UNCHANGED view

\* What a call that fails has read is thrown away; calls may fail together.
Fail(calls) ==
    /\ calls # {} /\ \A c \in calls : phase[c] = "pending"
    /\ phase' = [c \in Calls |-> IF c \in calls THEN "error" ELSE phase[c]]
    /\ view' = [c \in Calls |-> IF c \in calls THEN {} ELSE view[c]]
    /\ UNCHANGED table

Next ==
    \/ \E c \in Calls : Invoke(c) \/ See(c) \/ TakeEffect(c) \/ Succeed(c)
    \/ \E calls \in SUBSET Calls : Fail(calls)

Spec == Init /\ [][Next]_vars
=============================================================================
