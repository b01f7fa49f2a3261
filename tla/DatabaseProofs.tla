--------------------------- MODULE DatabaseProofs ---------------------------
(***************************************************************************)
(* For any calls, rows and size of the pool: the type invariant of         *)
(* DatabaseClient, that no call leaves a connection or a transaction       *)
(* behind (NothingLeaks), and that each call is one statement              *)
(* (ImplementsStatements).                                                 *)
(***************************************************************************)
EXTENDS DatabaseClient, FiniteSetTheorems, TLAPS

\* What a call has at each of its steps: a connection from Acquire to the end
\* of its statement; a transaction's rows, all of them when it commits; what a
\* query saw from Query on.
CallInv(c) ==
    /\ callPC[c] \in {"query", "collect"} => c \in Queries
    /\ callPC[c] \in {"exec", "copy", "commit", "rollback", "committed"} => c \notin Queries
    /\ c \in holding =>
          callPC[c] \in {"query", "collect", "exec", "copy", "commit", "rollback"}
    /\ written[c] # {} => callPC[c] \in {"commit", "rollback"}
    /\ callPC[c] = "commit" => written[c] = RowsOf[c]
    /\ callPC[c] = "collect" => collected[c] # {}
    /\ collected[c] # {} => callPC[c] \in {"collect", "ok"}
    /\ callPC[c] = "committed" => RowsOf[c] \subseteq table
    /\ c \in inDoubt => callPC[c] = "error"

DBIInv == DBTypeOK /\ IsFiniteSet(holding) /\ \A c \in Calls : CallInv(c)

-----------------------------------------------------------------------------
\* The rows of a call are rows.
LEMMA RowsOfCall ==
    ASSUME NEW c \in Calls
    PROVE  RowsOf[c] \subseteq Rows
BY DEF Rows

\* Giving a connection back leaves the others, and no more than the limit.
LEMMA ReleaseKeepsLimit ==
    ASSUME DBIInv, NEW c, Release(c)
    PROVE  /\ holding' \subseteq Calls /\ IsFiniteSet(holding')
           /\ Cardinality(holding') <= MaxConns
<1>1. IsFiniteSet(holding') /\ Cardinality(holding') <= Cardinality(holding)
  BY FS_Subset DEF DBIInv, Release
<1>2. Cardinality(holding') \in Nat /\ Cardinality(holding) \in Nat
  BY <1>1, FS_CardinalityType DEF DBIInv
<1> QED
  BY <1>1, <1>2, DatabaseAssumption DEF DBIInv, DBTypeOK, Release

\* Nothing has been called yet.
LEMMA DBInitIInv == DBInit => DBIInv
<1>1. SUFFICES ASSUME DBInit
               PROVE  DBIInv
  OBVIOUS
<1>2. IsFiniteSet(holding) /\ Cardinality(holding) = 0
  BY <1>1, FS_EmptySet DEF DBInit
<1>3. DBTypeOK
  BY <1>1, <1>2, DatabaseAssumption DEF DBInit, DBTypeOK, CallPCs
<1>4. \A c \in Calls : CallInv(c)
  BY <1>1 DEF DBInit, CallInv
<1> QED
  BY <1>2, <1>3, <1>4 DEF DBIInv

\* The start of a call, with a connection or without.
LEMMA StartIInv ==
    ASSUME DBIInv, NEW c \in Calls, Call(c) \/ Acquire(c) \/ AcquireFails(c)
    PROVE  DBIInv'
<1>1. DBTypeOK' /\ IsFiniteSet(holding')
  <2>1. CASE Call(c)
    BY <2>1 DEF DBIInv, DBTypeOK, Call, Go, CallPCs
  <2>2. CASE Acquire(c)
    <3>1. IsFiniteSet(holding) /\ Cardinality(holding) \in Nat
      BY FS_CardinalityType DEF DBIInv
    <3>2. /\ IsFiniteSet(holding \cup {c})
          /\ Cardinality(holding \cup {c}) =
                IF c \in holding THEN Cardinality(holding) ELSE Cardinality(holding) + 1
      BY <3>1, FS_AddElement, Zenon
    <3>3. holding' = holding \cup {c} /\ Cardinality(holding) < MaxConns
      BY <2>2 DEF Acquire
    <3>4. IsFiniteSet(holding') /\ Cardinality(holding') <= MaxConns
      BY <3>1, <3>2, <3>3, DatabaseAssumption
    <3> QED
      BY <2>2, <3>4 DEF DBIInv, DBTypeOK, Acquire, Go, CallPCs
  <2>3. CASE AcquireFails(c)
    BY <2>3 DEF DBIInv, DBTypeOK, AcquireFails, Return, Go, CallPCs
  <2> QED
    BY <2>1, <2>2, <2>3
<1>2. ASSUME NEW d \in Calls
      PROVE  CallInv(d)'
  <2>1. CASE Call(c)
    BY <2>1 DEF DBIInv, DBTypeOK, CallInv, Call, At, Go
  <2>2. CASE Acquire(c)
    BY <2>2, DatabaseAssumption DEF DBIInv, DBTypeOK, CallInv, Acquire, At, Go
  <2>3. CASE AcquireFails(c)
    BY <2>3 DEF DBIInv, DBTypeOK, CallInv, AcquireFails, At, Return, Go
  <2> QED
    BY <2>1, <2>2, <2>3
<1> QED
  BY <1>1, <1>2 DEF DBIInv

\* Queries.
LEMMA QueryIInv ==
    ASSUME DBIInv, NEW c \in Calls, Query(c) \/ QueryFails(c) \/ Collect(c)
    PROVE  DBIInv'
<1>1. DBTypeOK' /\ IsFiniteSet(holding')
  <2>1. CASE Query(c)
    BY <2>1 DEF DBIInv, DBTypeOK, Query, Go, CallPCs
  <2>2. CASE QueryFails(c)
    BY <2>2, ReleaseKeepsLimit DEF DBIInv, DBTypeOK, QueryFails, Return, Go, CallPCs
  <2>3. CASE Collect(c)
    BY <2>3, ReleaseKeepsLimit DEF DBIInv, DBTypeOK, Collect, Return, Go, CallPCs
  <2> QED
    BY <2>1, <2>2, <2>3
<1>2. ASSUME NEW d \in Calls
      PROVE  CallInv(d)'
  <2>1. CASE Query(c)
    BY <2>1 DEF DBIInv, DBTypeOK, CallInv, Query, At, Go
  <2>2. CASE QueryFails(c)
    BY <2>2 DEF DBIInv, DBTypeOK, CallInv, QueryFails, At, Return, Go, Release
  <2>3. CASE Collect(c)
    BY <2>3 DEF DBIInv, DBTypeOK, CallInv, Collect, At, Return, Go, Release
  <2> QED
    BY <2>1, <2>2, <2>3
<1> QED
  BY <1>1, <1>2 DEF DBIInv

\* Exec and Ping.
LEMMA ExecIInv ==
    ASSUME DBIInv, NEW c \in Calls, Exec(c) \/ ExecFails(c)
    PROVE  DBIInv'
<1>1. DBTypeOK' /\ IsFiniteSet(holding')
  <2>1. CASE Exec(c)
    BY <2>1, ReleaseKeepsLimit, RowsOfCall DEF DBIInv, DBTypeOK, Exec, Return, Go, CallPCs
  <2>2. CASE ExecFails(c)
    BY <2>2, ReleaseKeepsLimit DEF DBIInv, DBTypeOK, ExecFails, Return, Go, CallPCs
  <2> QED
    BY <2>1, <2>2
<1>2. ASSUME NEW d \in Calls
      PROVE  CallInv(d)'
  <2>1. CASE Exec(c)
    BY <2>1 DEF DBIInv, DBTypeOK, CallInv, Exec, At, Return, Go, Release
  <2>2. CASE ExecFails(c)
    BY <2>2 DEF DBIInv, DBTypeOK, CallInv, ExecFails, At, Return, Go, Release
  <2> QED
    BY <2>1, <2>2
<1> QED
  BY <1>1, <1>2 DEF DBIInv

\* CopyRows.
LEMMA CopyIInv ==
    ASSUME DBIInv, NEW c \in Calls,
           \/ CopyFrom(c) \/ CopyFromFails(c) \/ Rollback(c)
           \/ Commit(c) \/ CommitFails(c) \/ Counted(c)
    PROVE  DBIInv'
<1>1. DBTypeOK' /\ IsFiniteSet(holding')
  <2>1. CASE CopyFrom(c)
    BY <2>1, RowsOfCall DEF DBIInv, DBTypeOK, CopyFrom, Go, CallPCs
  <2>2. CASE CopyFromFails(c)
    BY <2>2, RowsOfCall DEF DBIInv, DBTypeOK, CopyFromFails, Go, CallPCs
  <2>3. CASE Rollback(c)
    BY <2>3, ReleaseKeepsLimit DEF DBIInv, DBTypeOK, Rollback, Return, Go, CallPCs
  <2>4. CASE Commit(c)
    BY <2>4, ReleaseKeepsLimit DEF DBIInv, DBTypeOK, Commit, Go, CallPCs
  <2>5. CASE CommitFails(c)
    BY <2>5, ReleaseKeepsLimit DEF DBIInv, DBTypeOK, CommitFails, Return, Go, CallPCs
  <2>6. CASE Counted(c)
    BY <2>6 DEF DBIInv, DBTypeOK, Counted, Return, Go, CallPCs
  <2> QED
    BY <2>1, <2>2, <2>3, <2>4, <2>5, <2>6
<1>2. ASSUME NEW d \in Calls
      PROVE  CallInv(d)'
  <2>1. CASE CopyFrom(c) \/ CopyFromFails(c)
    BY <2>1 DEF DBIInv, DBTypeOK, CallInv, CopyFrom, CopyFromFails, At, Go
  <2>2. CASE Rollback(c)
    BY <2>2 DEF DBIInv, DBTypeOK, CallInv, Rollback, At, Return, Go, Release
  <2>3. CASE Commit(c)
    BY <2>3 DEF DBIInv, DBTypeOK, CallInv, Commit, At, Go, Release
  <2>4. CASE CommitFails(c)
    BY <2>4 DEF DBIInv, DBTypeOK, CallInv, CommitFails, At, Return, Go, Release
  <2>5. CASE Counted(c)
    BY <2>5 DEF DBIInv, DBTypeOK, CallInv, Counted, At, Return, Go
  <2> QED
    BY <2>1, <2>2, <2>3, <2>4, <2>5
<1> QED
  BY <1>1, <1>2 DEF DBIInv

\* What happens to a call from outside.
LEMMA OutsideIInv ==
    ASSUME DBIInv,
           \/ \E c \in Calls : ServerCommits(c)
           \/ \E calls \in SUBSET Calls : Interrupt(calls)
           \/ Disconnect
    PROVE  DBIInv'
<1>1. ASSUME NEW c \in Calls, ServerCommits(c)
      PROVE  DBIInv'
  BY <1>1, RowsOfCall DEF DBIInv, DBTypeOK, CallInv, ServerCommits
<1>2. ASSUME NEW calls \in SUBSET Calls, Interrupt(calls)
      PROVE  DBIInv'
  BY <1>2 DEF DBIInv, DBTypeOK, CallInv, Interrupt
<1>3. CASE Disconnect
  <2>1. IsFiniteSet(holding') /\ Cardinality(holding') = 0
    BY <1>3, FS_EmptySet DEF Disconnect
  <2>2. DBTypeOK'
    <3>1. callPC' \in [Calls -> CallPCs]
      BY <1>3 DEF DBIInv, DBTypeOK, Disconnect, CallPCs
    <3>2. written' \in [Calls -> SUBSET Rows] /\ collected' \in [Calls -> SUBSET SUBSET Rows]
      BY <1>3 DEF DBIInv, DBTypeOK, Disconnect
    <3>3. interrupted' \subseteq Calls /\ inDoubt' \subseteq Calls /\ table' \subseteq Rows
      BY <1>3 DEF DBIInv, DBTypeOK, Disconnect, Writing
    <3>4. holding' = {}
      BY <1>3 DEF Disconnect
    <3> QED
      BY <2>1, <3>1, <3>2, <3>3, <3>4, DatabaseAssumption DEF DBTypeOK
  <2>3. ASSUME NEW d \in Calls
        PROVE  CallInv(d)'
    BY <1>3 DEF DBIInv, DBTypeOK, CallInv, Disconnect, InProgress
  <2> QED
    BY <2>1, <2>2, <2>3 DEF DBIInv
<1> QED
  BY <1>1, <1>2, <1>3

\* The strengthened invariant is inductive.
LEMMA DBNextIInv == DBIInv /\ [DBNext]_dbVars => DBIInv'
<1>1. SUFFICES ASSUME DBIInv, [DBNext]_dbVars
               PROVE  DBIInv'
  OBVIOUS
<1>2. CASE UNCHANGED dbVars
  BY <1>1, <1>2 DEF DBIInv, DBTypeOK, CallInv, dbVars
<1>3. CASE DBNext
  BY <1>1, <1>3, StartIInv, QueryIInv, ExecIInv, CopyIInv, OutsideIInv
     DEF DBNext, DBStep, Proceed
<1> QED
  BY <1>1, <1>2, <1>3

\* The strengthened invariant always holds.
LEMMA AlwaysDBIInv == DBSpec => []DBIInv
<1> QED
  BY DBInitIInv, DBNextIInv, PTL DEF DBSpec

\* Every variable always has its type, and the pool is never over its limit.
THEOREM DBTypeCorrect == DBSpec => []DBTypeOK
<1>1. DBIInv => DBTypeOK
  BY DEF DBIInv
<1> QED
  BY <1>1, AlwaysDBIInv, PTL

\* Whichever way a method returns, its connection is back in the pool and its
\* transaction is over.
THEOREM NothingEverLeaks == DBSpec => []NothingLeaks
<1>1. DBIInv => NothingLeaks
  BY DEF DBIInv, DBTypeOK, CallInv, NothingLeaks, InProgress
<1> QED
  BY <1>1, AlwaysDBIInv, PTL

-----------------------------------------------------------------------------
(* Each call is one statement: a query sees the table once, a write takes  *)
(* effect where it is committed, or later after its error.                 *)

\* Only the call that takes a step changes its phase.
LEMMA PhaseOfStep ==
    ASSUME DBIInv, NEW c \in Calls, NEW pc \in CallPCs, Go(c, pc)
    PROVE  phase' = [phase EXCEPT ![c] = IF pc \in {"idle", "ok", "error"} THEN pc
                                         ELSE "pending"]
BY DEF DBIInv, DBTypeOK, Go, phase, InProgress, CallPCs

\* Past its first step and before its last a call is pending.
LEMMA PendingCall ==
    ASSUME DBIInv, NEW c \in Calls, callPC[c] \notin {"idle", "ok", "error"}
    PROVE  phase[c] = "pending"
BY DEF DBIInv, DBTypeOK, phase, InProgress

\* The client starts as the statements do.
LEMMA DBInitRefines == DBInit => AsStatements!Init
BY DEF DBInit, AsStatements!Init, phase, InProgress

\* A step inside a call that touches neither view nor table is a stutter.
LEMMA InnerStepStutters ==
    ASSUME DBIInv, NEW c \in Calls, callPC[c] \notin {"idle", "ok", "error"},
           NEW pc \in CallPCs \ {"idle", "ok", "error"}, Go(c, pc),
           collected' = collected, table' = table
    PROVE  UNCHANGED AsStatements!vars
<1>1. phase' = [phase EXCEPT ![c] = "pending"]
  BY PhaseOfStep
<1>2. phase[c] = "pending" /\ phase \in [Calls -> {"pending", "idle", "ok", "error"}]
  BY PendingCall DEF DBIInv, DBTypeOK, phase, InProgress, CallPCs
<1>3. phase' = phase
  BY <1>1, <1>2
<1> QED
  BY <1>3 DEF AsStatements!vars

\* A call that returns an error has seen nothing and done nothing.
LEMMA ErrorRefines ==
    ASSUME DBIInv, NEW c \in Calls, callPC[c] \notin {"idle", "ok", "error"},
           Go(c, "error"), collected' = [collected EXCEPT ![c] = {}], table' = table
    PROVE  AsStatements!Fail({c})
<1>1. phase' = [phase EXCEPT ![c] = "error"]
  BY PhaseOfStep DEF CallPCs
<1>2. phase[c] = "pending" /\ DOMAIN phase = Calls
  BY PendingCall DEF phase
<1>3. phase' = [d \in Calls |-> IF d \in {c} THEN "error" ELSE phase[d]]
  BY <1>1, <1>2
<1>4. collected' = [d \in Calls |-> IF d \in {c} THEN {} ELSE collected[d]]
  BY DEF DBIInv, DBTypeOK
<1> QED
  BY <1>2, <1>3, <1>4 DEF AsStatements!Fail

\* Call is the invocation; Query sees the table.
LEMMA BeginningRefines ==
    ASSUME DBIInv, NEW c \in Calls, Call(c) \/ Query(c)
    PROVE  AsStatements!Next
<1>1. CASE Call(c)
  <2>1. phase' = [phase EXCEPT ![c] = "pending"]
    BY <1>1, PhaseOfStep DEF Call, CallPCs
  <2>2. phase[c] = "idle"
    BY <1>1 DEF Call, At, phase, InProgress
  <2>3. AsStatements!Invoke(c)
    BY <1>1, <2>1, <2>2 DEF AsStatements!Invoke, Call
  <2> QED
    BY <2>3 DEF AsStatements!Next
<1>2. CASE Query(c)
  <2>1. phase[c] = "pending" /\ c \in Queries /\ phase = [d \in Calls |-> phase[d]]
    BY <1>2, PendingCall DEF Query, At, DBIInv, CallInv, phase
  <2>2. phase' = [phase EXCEPT ![c] = "pending"]
    BY <1>2, PhaseOfStep DEF Query, CallPCs
  <2>3. phase' = phase
    BY <2>1, <2>2
  <2>4. AsStatements!See(c)
    BY <1>2, <2>1, <2>3 DEF AsStatements!See, Query
  <2> QED
    BY <2>4 DEF AsStatements!Next
<1> QED
  BY <1>1, <1>2

\* Collect, Exec and Counted are the successful returns.
LEMMA SuccessRefines ==
    ASSUME DBIInv, NEW c \in Calls, Collect(c) \/ Exec(c) \/ Counted(c)
    PROVE  AsStatements!Next
<1>1. phase[c] = "pending"
  BY PendingCall DEF Collect, Exec, Counted, At
<1>2. phase' = [phase EXCEPT ![c] = "ok"]
  BY PhaseOfStep DEF Collect, Exec, Counted, Return, CallPCs
<1>3. collected' = collected /\ (c \in Queries => collected[c] # {})
  BY DEF DBIInv, CallInv, Collect, Exec, Counted, At
<1>4. table' = table \cup RowsOf[c]
  <2>1. CASE Collect(c)
    BY <2>1, DatabaseAssumption DEF DBIInv, CallInv, Collect, At
  <2>2. CASE Exec(c)
    BY <2>2 DEF Exec
  <2>3. CASE Counted(c)
    BY <2>3 DEF DBIInv, CallInv, Counted, At
  <2> QED
    BY <2>1, <2>2, <2>3
<1>5. AsStatements!Succeed(c)
  BY <1>1, <1>2, <1>3, <1>4 DEF AsStatements!Succeed
<1> QED
  BY <1>5 DEF AsStatements!Next

\* The returns with an error.
LEMMA FailureRefines ==
    ASSUME DBIInv, NEW c \in Calls,
           AcquireFails(c) \/ QueryFails(c) \/ ExecFails(c) \/ Rollback(c) \/ CommitFails(c)
    PROVE  AsStatements!Next
<1>1. callPC[c] \notin {"idle", "ok", "error"} /\ Go(c, "error") /\ table' = table
  BY DEF AcquireFails, QueryFails, ExecFails, Rollback, CommitFails, At, Return
<1>2. collected' = [collected EXCEPT ![c] = {}]
  <2>1. CASE QueryFails(c)
    BY <2>1 DEF QueryFails
  <2>2. CASE AcquireFails(c) \/ ExecFails(c) \/ Rollback(c) \/ CommitFails(c)
    <3>1. collected' = collected /\ collected[c] = {}
      BY <2>2 DEF DBIInv, CallInv, AcquireFails, ExecFails, Rollback, CommitFails, At
    <3> QED
      BY <3>1 DEF DBIInv, DBTypeOK
  <2> QED
    BY <2>1, <2>2
<1>3. AsStatements!Fail({c})
  BY <1>1, <1>2, ErrorRefines
<1> QED
  BY <1>3 DEF AsStatements!Next

\* What becomes visible: a commit, in time or after the error.
LEMMA EffectRefines ==
    ASSUME DBIInv, NEW c \in Calls, Commit(c) \/ ServerCommits(c)
    PROVE  AsStatements!Next
<1>1. phase' = phase /\ phase[c] \in {"pending", "error"}
  <2>1. CASE Commit(c)
    <3>1. phase[c] = "pending" /\ phase = [d \in Calls |-> phase[d]]
      BY <2>1, PendingCall DEF Commit, At, phase
    <3>2. phase' = [phase EXCEPT ![c] = "pending"]
      BY <2>1, PhaseOfStep DEF Commit, CallPCs
    <3> QED
      BY <3>1, <3>2
  <2>2. CASE ServerCommits(c)
    BY <2>2 DEF DBIInv, CallInv, ServerCommits, phase, InProgress
  <2> QED
    BY <2>1, <2>2
<1>2. table' = table \cup RowsOf[c] /\ collected' = collected
  BY DEF DBIInv, CallInv, Commit, ServerCommits, At
<1>3. AsStatements!TakeEffect(c)
  BY <1>1, <1>2 DEF AsStatements!TakeEffect
<1> QED
  BY <1>3 DEF AsStatements!Next

\* A break of all connections fails all calls in progress together.
LEMMA DisconnectRefines ==
    ASSUME DBIInv, Disconnect
    PROVE  AsStatements!Next \/ UNCHANGED AsStatements!vars
<1>1. \A c \in InProgress : phase[c] = "pending"
  BY DEF phase, InProgress
<1>2. phase' = [c \in Calls |-> IF c \in InProgress THEN "error" ELSE phase[c]]
  BY DEF DBIInv, DBTypeOK, Disconnect, phase, InProgress
<1>3. /\ collected' = [c \in Calls |-> IF c \in InProgress THEN {} ELSE collected[c]]
      /\ table' = table
  BY DEF Disconnect
<1>4. CASE InProgress = {}
  <2>1. phase' = phase /\ collected' = collected
    BY <1>2, <1>3, <1>4 DEF DBIInv, DBTypeOK, phase
  <2> QED
    BY <1>3, <2>1 DEF AsStatements!vars
<1>5. CASE InProgress # {}
  <2>1. AsStatements!Fail(InProgress)
    BY <1>1, <1>2, <1>3, <1>5 DEF AsStatements!Fail
  <2>2. InProgress \in SUBSET Calls
    BY DEF InProgress
  <2> QED
    BY <2>1, <2>2 DEF AsStatements!Next
<1> QED
  BY <1>4, <1>5

\* Every step of the client is one of the statements, or hidden from them.
LEMMA DBStepRefines == DBIInv /\ [DBNext]_dbVars => [AsStatements!Next]_(AsStatements!vars)
<1>1. SUFFICES ASSUME DBIInv, [DBNext]_dbVars
               PROVE  AsStatements!Next \/ UNCHANGED AsStatements!vars
  OBVIOUS
<1>2. ASSUME NEW c \in Calls, Call(c) \/ DBStep(c)
      PROVE  AsStatements!Next \/ UNCHANGED AsStatements!vars
  <2>1. CASE Acquire(c)
    BY <1>1, <2>1, InnerStepStutters DEF Acquire, At, CallPCs
  <2>2. CASE CopyFrom(c) \/ CopyFromFails(c)
    BY <1>1, <2>2, InnerStepStutters DEF CopyFrom, CopyFromFails, At, CallPCs
  <2> QED
    BY <1>1, <1>2, <2>1, <2>2, BeginningRefines, SuccessRefines, FailureRefines, EffectRefines
       DEF DBStep, Proceed
<1>3. ASSUME NEW calls \in SUBSET Calls, Interrupt(calls)
      PROVE  UNCHANGED AsStatements!vars
  BY <1>3 DEF Interrupt, phase, InProgress, AsStatements!vars
<1>4. CASE UNCHANGED dbVars
  BY <1>4 DEF dbVars, phase, InProgress, AsStatements!vars
<1> QED
  BY <1>1, <1>2, <1>3, <1>4, DisconnectRefines DEF DBNext

\* With its pool, transactions, interruptions and errors on the way, each method
\* of the client is one statement to its caller.
THEOREM ClientImplementsStatements == DBSpec => ImplementsStatements
<1> QED
  BY DBInitRefines, DBStepRefines, AlwaysDBIInv, PTL
     DEF DBSpec, ImplementsStatements, AsStatements!Spec
=============================================================================
