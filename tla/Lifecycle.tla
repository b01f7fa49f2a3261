------------------------------ MODULE Lifecycle ------------------------------
(***************************************************************************)
(* main and serve: the start-up with its ways out, the HTTP and gRPC       *)
(* servers, the requests they are in the middle of, and the way down from  *)
(* a signal or a failed server to the exit code.  Of the ingestion         *)
(* pipeline (see MetricWriter) only what a blocked write needs is here: a  *)
(* parser that comes to Pop.  When a call's statement ends is left open    *)
(* here and settled in Server, which adds the database client.             *)
(***************************************************************************)
EXTENDS FiniteSets

CONSTANTS
    Parsers,      \* parser goroutines
    Writes,       \* POST /write requests
    Reads,        \* /read and /health requests
    GrpcCalls     \* StoreAPI calls

Servers == {"http", "grpc"}

VARIABLES
    cancelled,    \* the signal context is done
    main,         \* where main and serve are
    outcome,      \* "none" until the process ends: then what ended it
    server,       \* per server: "off", "up", or "failed" and reported to serve
    parserPC,     \* per parser
    write,        \* per write request
    read,         \* per read or health request
    grpcCall      \* per gRPC call

vars == <<cancelled, main, outcome, server, parserPC, write, read, grpcCall>>

MainPCs == {"config", "wiring", "listen", "serving", "drainingGRPC", "drainingHTTP", "exited"}

\* The ways out of the process, "nil" for exit code 0.
Outcomes == {"nil", "ErrProcessEnv", "ErrWiring", "ErrListenGRPC", "ErrServerStopped",
             "ErrShutdownHTTP", "panic"}

Init ==
    /\ cancelled = FALSE
    /\ main = "config"
    /\ outcome = "none"
    /\ server = [s \in Servers |-> "off"]
    /\ parserPC = [p \in Parsers |-> "none"]
    /\ write = [w \in Writes |-> "none"]
    /\ read = [r \in Reads |-> "none"]
    /\ grpcCall = [g \in GrpcCalls |-> "none"]

Up == main # "exited"

\* SIGINT or SIGTERM; a second one is swallowed, main keeps them caught.
Signal ==
    /\ Up /\ ~cancelled
    /\ cancelled' = TRUE
    /\ UNCHANGED <<main, outcome, server, parserPC, write, read, grpcCall>>

\* A process that ends takes its handlers with it.
Cut(calls) ==
    [c \in DOMAIN calls |-> IF calls[c] \in {"blocked", "running"} THEN "cut" ELSE calls[c]]

Exit(error) ==
    /\ main' = "exited" /\ outcome' = error
    /\ write' = Cut(write) /\ read' = Cut(read) /\ grpcCall' = Cut(grpcCall)
    /\ UNCHANGED <<cancelled, server, parserPC>>

\* A parser or a saver panics, see MetricWriter.
GoroutinePanics == main \in MainPCs \ {"config", "wiring", "exited"} /\ Exit("panic")

-----------------------------------------------------------------------------
(* Start-up.                                                               *)

GoOn(from, to) ==
    /\ main = from /\ main' = to
    /\ UNCHANGED <<cancelled, outcome, server, write, read, grpcCall>>

Configured == GoOn("config", "wiring") /\ UNCHANGED parserPC
ConfigFails == main = "config" /\ Exit("ErrProcessEnv")

\* The pool is there, the existing metrics are registered, and Run starts the
\* goroutines.
Wired == GoOn("wiring", "listen") /\ parserPC' = [p \in Parsers |-> "select"]

\* No pool, or no answer to the query for the metrics: under a context already
\* cancelled too.
WiringFails == main = "wiring" /\ Exit("ErrWiring")

Listening == GoOn("listen", "serving") /\ UNCHANGED parserPC

\* The address is taken; the goroutines have been running for a while.
ListenFails == main = "listen" /\ Exit("ErrListenGRPC")

-----------------------------------------------------------------------------
(* Servers and requests.  The HTTP server listens until gRPC has drained.  *)

Serving(s) == main = "serving" \/ (s = "http" /\ main = "drainingGRPC")

ServerStarts(s) ==
    /\ Serving(s) /\ server[s] = "off"
    /\ server' = [server EXCEPT ![s] = "up"]
    /\ UNCHANGED <<cancelled, main, outcome, parserPC, write, read, grpcCall>>

\* ListenAndServe or Serve returns: the address is taken, or accept fails.
ServerStops(s) ==
    /\ Serving(s) /\ server[s] # "failed"
    /\ server' = [server EXCEPT ![s] = "failed"]
    /\ UNCHANGED <<cancelled, main, outcome, parserPC, write, read, grpcCall>>

Takes(s) == Serving(s) /\ server[s] = "up"

\* A handler calls Push and blocks there.
PostWrite(w) ==
    /\ write[w] = "none" /\ Takes("http")
    /\ write' = [write EXCEPT ![w] = "blocked"]
    /\ UNCHANGED <<cancelled, main, outcome, server, parserPC, read, grpcCall>>

StartRead(r) ==
    /\ read[r] = "none" /\ Takes("http")
    /\ read' = [read EXCEPT ![r] = "running"]
    /\ UNCHANGED <<cancelled, main, outcome, server, parserPC, write, grpcCall>>

EndRead(r) ==
    /\ Up /\ read[r] = "running"
    /\ read' = [read EXCEPT ![r] = "done"]
    /\ UNCHANGED <<cancelled, main, outcome, server, parserPC, write, grpcCall>>

StartCall(g) ==
    /\ grpcCall[g] = "none" /\ Takes("grpc")
    /\ grpcCall' = [grpcCall EXCEPT ![g] = "running"]
    /\ UNCHANGED <<cancelled, main, outcome, server, parserPC, write, read>>

EndCall(g) ==
    /\ Up /\ grpcCall[g] = "running"
    /\ grpcCall' = [grpcCall EXCEPT ![g] = "done"]
    /\ UNCHANGED <<cancelled, main, outcome, server, parserPC, write, read>>

-----------------------------------------------------------------------------
(* Parsers: select between the tick and the context, then a blocking Pop.  *)

ParserTick(p) ==
    /\ Up /\ parserPC[p] = "select"
    /\ parserPC' = [parserPC EXCEPT ![p] = "pop"]
    /\ UNCHANGED <<cancelled, main, outcome, server, write, read, grpcCall>>

ParserExit(p) ==
    /\ Up /\ parserPC[p] = "select" /\ cancelled
    /\ parserPC' = [parserPC EXCEPT ![p] = "done"]
    /\ UNCHANGED <<cancelled, main, outcome, server, write, read, grpcCall>>

ParserPop(p) ==
    /\ Up /\ parserPC[p] = "pop"
    /\ \E w \in Writes : /\ write[w] = "blocked"
                         /\ write' = [write EXCEPT ![w] = "answered"]
    /\ parserPC' = [parserPC EXCEPT ![p] = "select"]
    /\ UNCHANGED <<cancelled, main, outcome, server, read, grpcCall>>

-----------------------------------------------------------------------------
(* serve's select, and the way down.                                       *)

\* Mutant: what the servers report is only logged.
ServerErrorLogged == FALSE

\* A server stopped by itself: nothing is waited for.
ServerError ==
    main = "serving" /\ (\E s \in Servers : server[s] = "failed") /\ Exit("ErrServerStopped")

\* ctx.Done: GracefulStop, which takes no new call ...
StopGRPC ==
    /\ cancelled
    /\ GoOn("serving", "drainingGRPC") /\ UNCHANGED parserPC

\* Mutant: Stop in the place of GracefulStop.
CallsOverAtOnce == TRUE

CallsOver == \A g \in GrpcCalls : grpcCall[g] # "running"

\* ... and returns when the last one is over, however long that takes.  Then
\* Shutdown closes the HTTP listener.
GRPCDrained == CallsOver /\ GoOn("drainingGRPC", "drainingHTTP") /\ UNCHANGED parserPC

Blocked == {w \in Writes : write[w] = "blocked"}
Reading == {r \in Reads : read[r] = "running"}

HTTPDrained == main = "drainingHTTP" /\ Blocked = {} /\ Reading = {} /\ Exit("nil")

\* Mutant: no time limit on Shutdown.
TimeLimitNone == FALSE

\* Ten seconds, a thousand ticks, are over: any parser that was to come has,
\* unless there is nothing to come for.
TimeLimit == Blocked = {} \/ (\A p \in Parsers : parserPC[p] = "done")

ShutdownTimeout ==
    main = "drainingHTTP" /\ Blocked \cup Reading # {} /\ TimeLimit /\ Exit("ErrShutdownHTTP")

Starting == Configured \/ ConfigFails \/ Wired \/ WiringFails \/ Listening \/ ListenFails
Stopping == ServerError \/ StopGRPC \/ GRPCDrained \/ HTTPDrained \/ ShutdownTimeout

Next ==
    \/ Signal \/ GoroutinePanics \/ Starting \/ Stopping
    \/ \E s \in Servers : ServerStarts(s) \/ ServerStops(s)
    \/ \E w \in Writes : PostWrite(w)
    \/ \E r \in Reads : StartRead(r) \/ EndRead(r)
    \/ \E g \in GrpcCalls : StartCall(g) \/ EndCall(g)
    \/ \E p \in Parsers : ParserTick(p) \/ ParserExit(p) \/ ParserPop(p)

Spec == Init /\ [][Next]_vars

\* Goroutines that can run do; a select with both cases ready takes either
\* sooner or later.  That wiring and a gRPC call end is up to the statements
\* they make: nothing here sets them a deadline.  A read needs none, as
\* Shutdown has one.
Fairness ==
    /\ WF_vars(Starting) /\ WF_vars(Stopping)
    /\ \A g \in GrpcCalls : WF_vars(EndCall(g))
    /\ \A p \in Parsers : /\ WF_vars(ParserTick(p)) /\ WF_vars(ParserPop(p))
                          /\ SF_vars(ParserExit(p))

FairSpec == Spec /\ Fairness

-----------------------------------------------------------------------------
\* Every variable has its type.
TypeOK ==
    /\ cancelled \in BOOLEAN /\ main \in MainPCs
    /\ outcome \in {"none"} \cup Outcomes
    /\ server \in [Servers -> {"off", "up", "failed"}]
    /\ parserPC \in [Parsers -> {"none", "select", "pop", "done"}]
    /\ write \in [Writes -> {"none", "blocked", "answered", "cut"}]
    /\ read \in [Reads -> {"none", "running", "done", "cut"}]
    /\ grpcCall \in [GrpcCalls -> {"none", "running", "done", "cut"}]

\* The exit code 0 of a serve without error tells the truth: it was asked to
\* stop, and no gRPC call, write or read was cut, whatever arrived between the
\* signal and the exit, and even if a server failed meanwhile.
CleanExit ==
    outcome = "nil" =>
        /\ cancelled
        /\ \A g \in GrpcCalls : grpcCall[g] \in {"none", "done"}
        /\ \A w \in Writes : write[w] \in {"none", "answered"}
        /\ \A r \in Reads : read[r] \in {"none", "done"}

\* Even on a shutdown that fails, every gRPC call got to its end: only a server
\* that stops by itself or a panic cuts calls.
CallsCutOnlyByFailure ==
    [][\A g \in GrpcCalls : grpcCall'[g] = "cut" /\ grpcCall[g] # "cut" =>
           outcome' \in {"ErrServerStopped", "panic"}]_vars

\* A signal ends the process, at any stage of the start-up or later, though
\* writes and reads may go on for ever: the time limit sees to it, as long as
\* gRPC calls end.  (A cancelled context stays so: as cancelled ~> exited.)
SignalEndsProcess == []<>(cancelled => main = "exited")

\* No half of a service: when one of the servers fails, it stays so, and the
\* process ends too.
FailedServerEndsProcess == []<>((\E s \in Servers : server[s] = "failed") => main = "exited")

\* DESIGN.md: on a signal both servers "are stopped gracefully".  So stopping
\* the HTTP server does not fail.
GracefulShutdown == outcome # "ErrShutdownHTTP"
=============================================================================
