---------------------------- MODULE ServerProofs ----------------------------
(***************************************************************************)
(* The whole process of Server implements both of its parts, Lifecycle and *)
(* DatabaseClient, and so has the properties proved of each of them.       *)
(***************************************************************************)
EXTENDS Server, LifecycleProofs, DatabaseProofs

\* The start-up and the way down: a step of main, with the call or the break of
\* the connections that goes with it.
LEMMA MainSteps ==
    ASSUME \/ ServerSignal \/ ServerStarting \/ ServerStopping
           \/ GoroutinePanics /\ Disconnect
    PROVE  Next /\ [DBNext]_dbVars
<1>1. CASE ServerSignal
  <2>1. Interrupt(Saves \cup {Registration}) /\ Saves \cup {Registration} \in SUBSET Calls
    BY <1>1, ServerAssumption DEF ServerSignal, Saves, Calls
  <2> QED
    BY <1>1, <2>1 DEF ServerSignal, Next, DBNext
<1>2. CASE ServerStarting
  <2>1. Starting
    BY <1>2 DEF ServerStarting, Starting
  <2>2. Call(Registration) \/ Disconnect \/ UNCHANGED dbVars
    BY <1>2 DEF ServerStarting
  <2> QED
    BY <2>1, <2>2, ServerAssumption DEF Next, DBNext, Calls
<1>3. CASE ServerStopping
  BY <1>3 DEF ServerStopping, Stopping, Next, DBNext
<1>4. CASE GoroutinePanics /\ Disconnect
  BY <1>4 DEF Next, DBNext
<1> QED
  BY <1>1, <1>2, <1>3, <1>4

\* Requests, goroutines and statements.
LEMMA OtherSteps ==
    ASSUME \/ \E s \in Servers : (ServerStarts(s) \/ ServerStops(s)) /\ UNCHANGED dbVars
           \/ \E w \in Writes : PostWrite(w) /\ UNCHANGED dbVars
           \/ \E r \in Reads : ServerStartRead(r) \/ ServerEndRead(r)
           \/ \E g \in GrpcCalls : ServerStartCall(g) \/ ServerEndCall(g)
           \/ \E p \in Parsers : ParserStep(p) \/ (ParserExit(p) /\ UNCHANGED dbVars)
           \/ \E c \in Saves : Save(c)
           \/ \E c \in Calls : ClientLeaves(c) \/ (DBStep(c) /\ UNCHANGED vars)
    PROVE  [Next]_vars /\ [DBNext]_dbVars
<1>1. ASSUME NEW s \in Servers, (ServerStarts(s) \/ ServerStops(s)) /\ UNCHANGED dbVars
      PROVE  [Next]_vars /\ [DBNext]_dbVars
  BY <1>1 DEF Next
<1>2. ASSUME NEW w \in Writes, PostWrite(w) /\ UNCHANGED dbVars
      PROVE  [Next]_vars /\ [DBNext]_dbVars
  BY <1>2 DEF Next
<1>3. ASSUME NEW r \in Reads, ServerStartRead(r) \/ ServerEndRead(r)
      PROVE  [Next]_vars /\ [DBNext]_dbVars
  BY <1>3, ServerAssumption DEF Next, DBNext, ServerStartRead, ServerEndRead, Calls
<1>4. ASSUME NEW g \in GrpcCalls, ServerStartCall(g) \/ ServerEndCall(g)
      PROVE  [Next]_vars /\ [DBNext]_dbVars
  BY <1>4, ServerAssumption DEF Next, DBNext, ServerStartCall, ServerEndCall, Calls
<1>5. ASSUME NEW p \in Parsers, ParserStep(p) \/ (ParserExit(p) /\ UNCHANGED dbVars)
      PROVE  [Next]_vars /\ [DBNext]_dbVars
  BY <1>5 DEF Next, ParserStep
<1>6. ASSUME NEW c \in Saves, Save(c)
      PROVE  [Next]_vars /\ [DBNext]_dbVars
  BY <1>6 DEF DBNext, Save, Saves
<1>7. ASSUME NEW c \in Calls, ClientLeaves(c) \/ (DBStep(c) /\ UNCHANGED vars)
      PROVE  [Next]_vars /\ [DBNext]_dbVars
  <2>1. {c} \in SUBSET Calls
    OBVIOUS
  <2> QED
    BY <1>7, <2>1 DEF DBNext, ClientLeaves
<1> QED
  BY <1>1, <1>2, <1>3, <1>4, <1>5, <1>6, <1>7

\* Every step of the process is one of each part, or leaves the part alone.
LEMMA ServerSteps == [ServerNext]_serverVars => [Next]_vars /\ [DBNext]_dbVars
<1>1. SUFFICES ASSUME [ServerNext]_serverVars
               PROVE  [Next]_vars /\ [DBNext]_dbVars
  OBVIOUS
<1>2. CASE UNCHANGED serverVars
  BY <1>2 DEF serverVars
<1>3. CASE ServerNext
  BY <1>3, MainSteps, OtherSteps DEF ServerNext
<1> QED
  BY <1>1, <1>2, <1>3

\* The process implements its two parts.
THEOREM ServerImplementsParts == ServerSpec => Spec /\ DBSpec
<1>1. ServerInit => Init /\ DBInit
  BY DEF ServerInit
<1> QED
  BY <1>1, ServerSteps, PTL DEF ServerSpec, Spec, DBSpec

\* Requests that end as their statements do are cut no more than those of
\* Lifecycle: exit code 0 still means that nothing was.
THEOREM ServerExitsClean == ServerSpec => []CleanExit
<1> QED
  BY ServerImplementsParts, CleanExitHolds, PTL

\* Main, the handlers and the savers can all take the client's methods for
\* single statements, also when the process is stopped in the middle of them.
THEOREM ServerMakesStatements == ServerSpec => []NothingLeaks /\ ImplementsStatements
<1> QED
  BY ServerImplementsParts, NothingEverLeaks, ClientImplementsStatements, PTL
=============================================================================
