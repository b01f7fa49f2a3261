--------------------------- MODULE DatabaseClient ---------------------------
(***************************************************************************)
(* database.PostgreSQL on its pool of connections: the queries, which      *)
(* collect all rows before they return; Exec and Ping; and CopyRows with   *)
(* its transaction.  Any step may fail: the connection breaks, the server  *)
(* refuses; and every step does once the context of the call is done.      *)
(*                                                                         *)
(* A call takes one connection and no second one while it has it.  What    *)
(* the server makes of a statement whose connection broke is its own       *)
(* affair, and may come later.                                             *)
(***************************************************************************)
EXTENDS Naturals, FiniteSets

CONSTANTS
    Queries,     \* QueryDatabaseSamples, QueryToMap, LabelNames, ...
    Execs,       \* Exec and CheckHealth
    Copies,      \* CopyRows
    RowsOf,      \* the rows of each Exec and each CopyRows
    MaxConns     \* connections of the pool

Calls == Queries \cup Execs \cup Copies
Rows == UNION {RowsOf[c] : c \in Calls}
Writing == {c \in Calls : RowsOf[c] # {}}

ASSUME DatabaseAssumption ==
    /\ Queries \cap (Execs \cup Copies) = {} /\ Execs \cap Copies = {}
    /\ DOMAIN RowsOf = Calls
    /\ \A q \in Queries : RowsOf[q] = {}
    /\ \A c \in Copies : RowsOf[c] # {}
    /\ MaxConns \in Nat \ {0}

VARIABLES
    callPC,      \* per call: where it is, "ok" or "error" once it returned
    holding,     \* the calls that have a connection
    written,     \* per call: rows written in its transaction, not yet committed
    collected,   \* per call: the table its query saw, once it did
    interrupted, \* the calls whose context is done
    inDoubt,     \* writes that broke on the way: the server may go on
    table        \* committed rows

dbVars == <<callPC, holding, written, collected, interrupted, inDoubt, table>>

CallPCs == {"idle", "acquire", "query", "collect", "exec", "copy", "commit", "rollback",
            "committed", "ok", "error"}

DBInit ==
    /\ callPC = [c \in Calls |-> "idle"]
    /\ holding = {} /\ interrupted = {} /\ inDoubt = {} /\ table = {}
    /\ written = [c \in Calls |-> {}]
    /\ collected = [c \in Calls |-> {}]

At(c, pc) == callPC[c] = pc
Go(c, pc) == callPC' = [callPC EXCEPT ![c] = pc]
Release(c) == holding' = holding \ {c}

\* With the call its context is over.
Return(c, result) == Go(c, result) /\ interrupted' = interrupted \ {c}

\* pgx sends nothing and waits for nothing under a context that is done.
Live(c) == c \notin interrupted

InProgress == {c \in Calls : callPC[c] \notin {"idle", "ok", "error"}}

Call(c) ==
    /\ At(c, "idle") /\ Go(c, "acquire")
    /\ UNCHANGED <<holding, written, collected, interrupted, inDoubt, table>>

\* The client goes away, or the signal context of these calls is cancelled.
Interrupt(calls) ==
    /\ interrupted' = interrupted \cup calls
    /\ UNCHANGED <<callPC, holding, written, collected, inDoubt, table>>

\* The pool hands out a connection; Begin has its answer too.
Acquire(c) ==
    /\ At(c, "acquire") /\ Live(c) /\ Cardinality(holding) < MaxConns
    /\ holding' = holding \cup {c}
    /\ \/ c \in Queries /\ Go(c, "query")
       \/ c \in Execs /\ Go(c, "exec")
       \/ c \in Copies /\ Go(c, "copy")
    /\ UNCHANGED <<written, collected, interrupted, inDoubt, table>>

\* No connection can be made, Begin fails, or the context is done first.
AcquireFails(c) ==
    /\ At(c, "acquire") /\ Return(c, "error")
    /\ UNCHANGED <<holding, written, collected, inDoubt, table>>

-----------------------------------------------------------------------------
(* Queries: pool.Query, then pgx.CollectRows, which closes the rows.       *)

Query(c) ==
    /\ At(c, "query") /\ Live(c) /\ Go(c, "collect")
    /\ collected' = [collected EXCEPT ![c] = {table}]
    /\ UNCHANGED <<holding, written, interrupted, inDoubt, table>>

\* Mutant: the rows that came before the error are returned.
QueryFailsPartly(c) ==
    /\ callPC[c] \in {"query", "collect"} /\ Return(c, IF At(c, "collect") THEN "ok" ELSE "error")
    /\ Release(c)
    /\ \E rows \in SUBSET table : collected' = [collected EXCEPT ![c] = {rows}]
    /\ UNCHANGED <<written, inDoubt, table>>

QueryFails(c) ==
    /\ callPC[c] \in {"query", "collect"} /\ Return(c, "error")
    /\ Release(c)
    /\ collected' = [collected EXCEPT ![c] = {}]
    /\ UNCHANGED <<written, inDoubt, table>>

Collect(c) ==
    /\ At(c, "collect") /\ Live(c) /\ Return(c, "ok") /\ Release(c)
    /\ UNCHANGED <<written, collected, inDoubt, table>>

-----------------------------------------------------------------------------
(* Exec and Ping: one statement, its own transaction.                      *)

Exec(c) ==
    /\ At(c, "exec") /\ Live(c) /\ Return(c, "ok") /\ Release(c)
    /\ table' = table \cup RowsOf[c]
    /\ UNCHANGED <<written, collected, inDoubt>>

ExecFails(c) ==
    /\ At(c, "exec") /\ Return(c, "error") /\ Release(c)
    /\ inDoubt' \in {inDoubt, inDoubt \cup ({c} \cap Writing)}
    /\ UNCHANGED <<written, collected, table>>

-----------------------------------------------------------------------------
(* CopyRows.                                                               *)

\* Mutant: COPY without a transaction around it.
CopyFromDirect(c) ==
    /\ At(c, "copy") /\ Live(c) /\ Go(c, "commit")
    /\ \E rows \in SUBSET RowsOf[c] : table' = table \cup rows
    /\ written' = [written EXCEPT ![c] = RowsOf[c]]
    /\ UNCHANGED <<holding, collected, interrupted, inDoubt>>

CopyFrom(c) ==
    /\ At(c, "copy") /\ Live(c) /\ Go(c, "commit")
    /\ written' = [written EXCEPT ![c] = RowsOf[c]]
    /\ UNCHANGED <<holding, collected, interrupted, inDoubt, table>>

\* Mutant: no deferred Rollback on the way out.
CopyFromFailsNoRollback(c) ==
    /\ At(c, "copy") /\ Return(c, "error")
    /\ \E rows \in SUBSET RowsOf[c] : written' = [written EXCEPT ![c] = rows]
    /\ UNCHANGED <<holding, collected, inDoubt, table>>

\* Some of the rows may have got through.
CopyFromFails(c) ==
    /\ At(c, "copy") /\ Go(c, "rollback")
    /\ \E rows \in SUBSET RowsOf[c] : written' = [written EXCEPT ![c] = rows]
    /\ UNCHANGED <<holding, collected, interrupted, inDoubt, table>>

\* The deferred Rollback; a connection it fails on is closed.
Rollback(c) ==
    /\ At(c, "rollback") /\ Return(c, "error") /\ Release(c)
    /\ written' = [written EXCEPT ![c] = {}]
    /\ UNCHANGED <<collected, inDoubt, table>>

Commit(c) ==
    /\ At(c, "commit") /\ Live(c) /\ Go(c, "committed") /\ Release(c)
    /\ table' = table \cup written[c]
    /\ written' = [written EXCEPT ![c] = {}]
    /\ UNCHANGED <<collected, interrupted, inDoubt>>

\* Commit gives the connection back whatever it returns.
CommitFails(c) ==
    /\ At(c, "commit") /\ Return(c, "error") /\ Release(c)
    /\ written' = [written EXCEPT ![c] = {}]
    /\ inDoubt' \in {inDoubt, inDoubt \cup ({c} \cap Writing)}
    /\ UNCHANGED <<collected, table>>

\* The count the COPY returned is that of the rows; the deferred Rollback finds
\* the transaction closed.
Counted(c) ==
    /\ At(c, "committed") /\ Return(c, "ok")
    /\ UNCHANGED <<holding, written, collected, inDoubt, table>>

-----------------------------------------------------------------------------
(* Of the server's own accord, and the end of the process.                 *)

ServerCommits(c) ==
    /\ c \in inDoubt
    /\ inDoubt' = inDoubt \ {c} /\ table' = table \cup RowsOf[c]
    /\ UNCHANGED <<callPC, holding, written, collected, interrupted>>

\* All connections break at once.
Disconnect ==
    /\ callPC' = [c \in Calls |-> IF c \in InProgress THEN "error" ELSE callPC[c]]
    /\ holding' = {}
    /\ written' = [c \in Calls |-> {}]
    /\ collected' = [c \in Calls |-> IF c \in InProgress THEN {} ELSE collected[c]]
    /\ \E sent \in SUBSET {c \in Writing : callPC[c] \in {"exec", "commit"}} :
          inDoubt' = inDoubt \cup sent
    /\ interrupted' = interrupted \ InProgress
    /\ UNCHANGED table

\* What a call does by itself, once it has a connection or can get one.
Proceed(c) ==
    \/ Acquire(c) \/ (AcquireFails(c) /\ ~Live(c))
    \/ Query(c) \/ QueryFails(c) \/ Collect(c)
    \/ Exec(c) \/ ExecFails(c)
    \/ CopyFrom(c) \/ CopyFromFails(c) \/ Commit(c) \/ CommitFails(c) \/ Rollback(c)
    \/ Counted(c)

DBStep(c) == Proceed(c) \/ AcquireFails(c) \/ ServerCommits(c)

DBNext ==
    \/ \E c \in Calls : Call(c) \/ DBStep(c)
    \/ \E calls \in SUBSET Calls : Interrupt(calls)
    \/ Disconnect

DBSpec == DBInit /\ [][DBNext]_dbVars

-----------------------------------------------------------------------------
\* Every variable has its type, and the pool its limit.
DBTypeOK ==
    /\ callPC \in [Calls -> CallPCs]
    /\ holding \subseteq Calls /\ Cardinality(holding) <= MaxConns
    /\ written \in [Calls -> SUBSET Rows]
    /\ collected \in [Calls -> SUBSET SUBSET Rows]
    /\ interrupted \subseteq Calls /\ inDoubt \subseteq Calls /\ table \subseteq Rows

\* No way out of a method keeps its connection, and no transaction outlives
\* the call that began it.
NothingLeaks == \A c \in Calls \ InProgress : c \notin holding /\ written[c] = {}

\* With every step and its failures, transactions and a pool of few
\* connections, each method is what its callers take it for: one statement.
phase == [c \in Calls |-> IF c \in InProgress THEN "pending" ELSE callPC[c]]

AsStatements == INSTANCE Statements WITH view <- collected
ImplementsStatements == AsStatements!Spec
=============================================================================
