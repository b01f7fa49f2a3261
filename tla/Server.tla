------------------------------- MODULE Server -------------------------------
(***************************************************************************)
(* The process as a whole, ingestion apart: Lifecycle on DatabaseClient.   *)
(* The start-up registers the existing metrics with a query, every gRPC    *)
(* call, /read and /health makes its statement on the one pool that the    *)
(* savers use too, and how long each of them takes decides how long the    *)
(* shutdown takes.                                                         *)
(***************************************************************************)
EXTENDS Lifecycle, DatabaseClient

CONSTANT Registration    \* the query of registerExistingMetrics

\* The calls of the savers.
Saves == Calls \ (GrpcCalls \cup Reads \cup {Registration})

ASSUME ServerAssumption ==
    /\ GrpcCalls \subseteq Queries /\ Reads \subseteq Queries \cup Execs
    /\ Registration \in Queries \ (GrpcCalls \cup Reads)
    /\ Saves \subseteq Copies \cup Execs

serverVars == <<vars, dbVars>>

ServerInit == Init /\ DBInit

Returned(c) == callPC[c] \in {"ok", "error"}

\* main's way up: the query is its own, made under the signal context.
ServerStarting ==
    \/ Configured /\ Call(Registration)
    \/ ConfigFails /\ Disconnect
    \/ Wired /\ At(Registration, "ok") /\ UNCHANGED dbVars
    \/ WiringFails /\ At(Registration, "error") /\ Disconnect
    \/ Listening /\ UNCHANGED dbVars
    \/ ListenFails /\ Disconnect

\* serve's way down: with the process its connections go.
ServerStopping ==
    \/ (StopGRPC \/ GRPCDrained) /\ UNCHANGED dbVars
    \/ (ServerError \/ HTTPDrained \/ ShutdownTimeout) /\ Disconnect

\* The context of main and of the goroutines it started, of no request.
ServerSignal == Signal /\ Interrupt(Saves \cup {Registration})

ClientLeaves(c) ==
    /\ c \in (GrpcCalls \cup Reads) \cap InProgress /\ Live(c)
    /\ Interrupt({c}) /\ UNCHANGED vars

Save(c) ==
    /\ main \in {"listen", "serving", "drainingGRPC", "drainingHTTP"}
    /\ Call(c) /\ UNCHANGED vars

ServerStartCall(g) == StartCall(g) /\ Call(g)
ServerStartRead(r) == StartRead(r) /\ Call(r)
ServerEndCall(g) == EndCall(g) /\ Returned(g) /\ UNCHANGED dbVars
ServerEndRead(r) == EndRead(r) /\ Returned(r) /\ UNCHANGED dbVars

ParserStep(p) == (ParserTick(p) \/ ParserPop(p)) /\ UNCHANGED dbVars

ServerNext ==
    \/ ServerSignal \/ ServerStarting \/ ServerStopping
    \/ GoroutinePanics /\ Disconnect
    \/ \E s \in Servers : (ServerStarts(s) \/ ServerStops(s)) /\ UNCHANGED dbVars
    \/ \E w \in Writes : PostWrite(w) /\ UNCHANGED dbVars
    \/ \E r \in Reads : ServerStartRead(r) \/ ServerEndRead(r)
    \/ \E g \in GrpcCalls : ServerStartCall(g) \/ ServerEndCall(g)
    \/ \E p \in Parsers : ParserStep(p) \/ (ParserExit(p) /\ UNCHANGED dbVars)
    \/ \E c \in Saves : Save(c)
    \/ \E c \in Calls : ClientLeaves(c) \/ (DBStep(c) /\ UNCHANGED vars)

ServerSpec == ServerInit /\ [][ServerNext]_serverVars

\* As Lifecycle has it, but what ends a gRPC call or the start-up is that the
\* database answers each statement, well or badly, or breaks the connection;
\* and that the client of a gRPC call takes the answer.
ServerFairness ==
    /\ WF_serverVars(ServerStarting) /\ WF_serverVars(ServerStopping)
    /\ \A g \in GrpcCalls : WF_serverVars(ServerEndCall(g))
    /\ \A c \in Calls : WF_serverVars(Proceed(c) /\ UNCHANGED vars)
    /\ \A p \in Parsers : /\ WF_serverVars(ParserStep(p))
                          /\ SF_serverVars(ParserExit(p) /\ UNCHANGED dbVars)

ServerFairSpec == ServerSpec /\ ServerFairness

-----------------------------------------------------------------------------
\* Whoever else waits for one of the few connections, each call gets its turn
\* and returns: nothing waits for a second connection, nothing keeps one.  (A
\* call is made once, so that each has returned when there is none in progress.)
CallsReturn == []<>(InProgress = {})

\* Lifecycle lets calls and the start-up end by themselves; here they end as
\* their statements do.
ImplementsLifecycle == FairSpec
=============================================================================
