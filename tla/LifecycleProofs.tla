--------------------------- MODULE LifecycleProofs ---------------------------
(***************************************************************************)
(* For any number of parsers, writes, reads and gRPC calls: the type       *)
(* invariant of Lifecycle, that an exit without error has cut nothing      *)
(* (CleanExit), and that only a server that stops by itself or a panic     *)
(* cuts gRPC calls (CallsCutOnlyByFailure).  SignalEndsProcess and         *)
(* FailedServerEndsProcess need fairness and stay with TLC.                *)
(***************************************************************************)
EXTENDS Lifecycle, TLAPS

\* What each stage has behind it: before the servers there are no calls; the
\* drains start with a signal; no call is running once gRPC has drained, and
\* none starts again; until the process ends nothing is cut.
StageInv ==
    /\ main \in {"config", "wiring", "listen"} => \A g \in GrpcCalls : grpcCall[g] = "none"
    /\ main \in {"drainingGRPC", "drainingHTTP"} => cancelled
    /\ main = "drainingHTTP" => \A g \in GrpcCalls : grpcCall[g] # "running"
    /\ main # "exited" => /\ outcome = "none"
                          /\ \A g \in GrpcCalls : grpcCall[g] # "cut"
                          /\ \A w \in Writes : write[w] # "cut"
                          /\ \A r \in Reads : read[r] # "cut"

IInv == TypeOK /\ StageInv /\ CleanExit

-----------------------------------------------------------------------------
\* The process starts with nothing done and nothing cut.
LEMMA InitIInv == Init => IInv
BY DEF Init, IInv, TypeOK, StageInv, CleanExit, MainPCs

\* The process ends from any stage into a typed state; without error only when
\* it was told to stop, and no call, write or read is in progress.
LEMMA ExitIInv ==
    ASSUME IInv, main # "exited", NEW error \in Outcomes, Exit(error),
           error = "nil" => main = "drainingHTTP" /\ Blocked = {} /\ Reading = {}
    PROVE  IInv'
<1>1. TypeOK'
  BY DEF IInv, TypeOK, Exit, Cut, MainPCs
<1>2. StageInv'
  BY DEF Exit, StageInv
<1>3. CleanExit'
  <2>1. SUFFICES ASSUME error = "nil"
                 PROVE  /\ cancelled'
                        /\ \A g \in GrpcCalls : grpcCall'[g] \in {"none", "done"}
                        /\ \A w \in Writes : write'[w] \in {"none", "answered"}
                        /\ \A r \in Reads : read'[r] \in {"none", "done"}
    BY DEF CleanExit, Exit
  <2>2. cancelled'
    BY <2>1 DEF IInv, StageInv, Exit
  <2>3. ASSUME NEW g \in GrpcCalls
        PROVE  grpcCall'[g] \in {"none", "done"}
    BY <2>1 DEF IInv, TypeOK, StageInv, Exit, Cut
  <2>4. ASSUME NEW w \in Writes
        PROVE  write'[w] \in {"none", "answered"}
    BY <2>1 DEF IInv, TypeOK, StageInv, Exit, Cut, Blocked
  <2>5. ASSUME NEW r \in Reads
        PROVE  read'[r] \in {"none", "done"}
    BY <2>1 DEF IInv, TypeOK, StageInv, Exit, Cut, Reading
  <2> QED
    BY <2>2, <2>3, <2>4, <2>5
<1> QED
  BY <1>1, <1>2, <1>3 DEF IInv

\* main's way up: no call was there before the servers are.
LEMMA StartingIInv ==
    ASSUME IInv, Starting
    PROVE  IInv'
<1>1. CASE Configured \/ Listening
  BY <1>1 DEF IInv, TypeOK, StageInv, CleanExit, Configured, Listening, GoOn, MainPCs
<1>2. CASE Wired
  BY <1>2 DEF IInv, TypeOK, StageInv, CleanExit, Wired, GoOn, MainPCs
<1>3. CASE ConfigFails
  BY <1>3, ExitIInv DEF ConfigFails, Outcomes
<1>4. CASE WiringFails
  BY <1>4, ExitIInv DEF WiringFails, Outcomes
<1>5. CASE ListenFails
  BY <1>5, ExitIInv DEF ListenFails, Outcomes
<1> QED
  BY <1>1, <1>2, <1>3, <1>4, <1>5 DEF Starting

\* The servers, requests and parsers: none of their steps starts a gRPC call
\* outside "serving", and none is taken in a process that has ended.
LEMMA RequestIInv ==
    ASSUME IInv,
           \/ Signal
           \/ \E s \in Servers : ServerStarts(s) \/ ServerStops(s)
           \/ \E w \in Writes : PostWrite(w)
           \/ \E r \in Reads : StartRead(r) \/ EndRead(r)
           \/ \E g \in GrpcCalls : StartCall(g) \/ EndCall(g)
           \/ \E p \in Parsers : ParserTick(p) \/ ParserExit(p) \/ ParserPop(p)
    PROVE  IInv'
<1>1. main # "exited" /\ main' = main /\ outcome' = outcome
  BY DEF Signal, ServerStarts, ServerStops, PostWrite, StartRead, EndRead, StartCall, EndCall,
         ParserTick, ParserExit, ParserPop, Takes, Serving, Up
<1>2. CASE Signal
  BY <1>1, <1>2 DEF IInv, TypeOK, StageInv, CleanExit, Signal
<1>3. ASSUME NEW s \in Servers, ServerStarts(s) \/ ServerStops(s)
      PROVE  IInv'
  BY <1>1, <1>3 DEF IInv, TypeOK, StageInv, CleanExit, ServerStarts, ServerStops
<1>4. ASSUME NEW w \in Writes, PostWrite(w)
      PROVE  IInv'
  BY <1>1, <1>4 DEF IInv, TypeOK, StageInv, CleanExit, PostWrite
<1>5. ASSUME NEW r \in Reads, StartRead(r) \/ EndRead(r)
      PROVE  IInv'
  BY <1>1, <1>5 DEF IInv, TypeOK, StageInv, CleanExit, StartRead, EndRead
<1>6. ASSUME NEW g \in GrpcCalls, StartCall(g)
      PROVE  IInv'
  BY <1>1, <1>6 DEF IInv, TypeOK, StageInv, CleanExit, StartCall, Takes, Serving
<1>7. ASSUME NEW g \in GrpcCalls, EndCall(g)
      PROVE  IInv'
  BY <1>1, <1>7 DEF IInv, TypeOK, StageInv, CleanExit, EndCall
<1>8. ASSUME NEW p \in Parsers, ParserTick(p) \/ ParserExit(p)
      PROVE  IInv'
  BY <1>1, <1>8 DEF IInv, TypeOK, StageInv, CleanExit, ParserTick, ParserExit
<1>9. ASSUME NEW p \in Parsers, ParserPop(p)
      PROVE  IInv'
  BY <1>1, <1>9 DEF IInv, TypeOK, StageInv, CleanExit, ParserPop
<1> QED
  BY <1>2, <1>3, <1>4, <1>5, <1>6, <1>7, <1>8, <1>9

\* serve: the two drains and the ways out of the process.
LEMMA StoppingIInv ==
    ASSUME IInv, GoroutinePanics \/ Stopping
    PROVE  IInv'
<1>1. CASE GoroutinePanics
  BY <1>1, ExitIInv DEF GoroutinePanics, Outcomes
<1>2. CASE ServerError
  BY <1>2, ExitIInv DEF ServerError, Outcomes
<1>3. CASE StopGRPC
  BY <1>3 DEF IInv, TypeOK, StageInv, CleanExit, StopGRPC, GoOn, MainPCs
<1>4. CASE GRPCDrained
  BY <1>4 DEF IInv, TypeOK, StageInv, CleanExit, GRPCDrained, GoOn, CallsOver, MainPCs
<1>5. CASE HTTPDrained
  BY <1>5, ExitIInv DEF HTTPDrained, Outcomes
<1>6. CASE ShutdownTimeout
  BY <1>6, ExitIInv DEF ShutdownTimeout, Outcomes
<1> QED
  BY <1>1, <1>2, <1>3, <1>4, <1>5, <1>6 DEF Stopping

\* The strengthened invariant is inductive.
LEMMA NextIInv == IInv /\ [Next]_vars => IInv'
<1>1. SUFFICES ASSUME IInv, [Next]_vars
               PROVE  IInv'
  OBVIOUS
<1>2. CASE UNCHANGED vars
  BY <1>1, <1>2 DEF IInv, TypeOK, StageInv, CleanExit, vars
<1>3. CASE Next
  BY <1>1, <1>3, StartingIInv, RequestIInv, StoppingIInv DEF Next
<1> QED
  BY <1>1, <1>2, <1>3

\* The strengthened invariant always holds.
LEMMA AlwaysIInv == Spec => []IInv
<1> QED
  BY InitIInv, NextIInv, PTL DEF Spec

\* Every variable always has its type.
THEOREM TypeCorrect == Spec => []TypeOK
<1>1. IInv => TypeOK
  BY DEF IInv
<1> QED
  BY <1>1, AlwaysIInv, PTL

\* Exit code 0: serve was asked to stop and cut no gRPC call, write or read.
THEOREM CleanExitHolds == Spec => []CleanExit
<1>1. IInv => CleanExit
  BY DEF IInv
<1> QED
  BY <1>1, AlwaysIInv, PTL

\* A start-up that fails and a shutdown, whether it succeeds or fails, cut no
\* gRPC call: there is none yet, or GracefulStop has returned before the process
\* can end, and no call starts meanwhile.
THEOREM OnlyFailureCutsCalls == Spec => CallsCutOnlyByFailure
<1> DEFINE CutsByFailure ==
        \A g \in GrpcCalls : grpcCall'[g] = "cut" /\ grpcCall[g] # "cut" =>
            outcome' \in {"ErrServerStopped", "panic"}
<1>1. IInv /\ [Next]_vars => [CutsByFailure]_vars
  <2>1. SUFFICES ASSUME IInv, Next, NEW g \in GrpcCalls,
                        grpcCall'[g] = "cut", grpcCall[g] # "cut",
                        outcome' \notin {"ErrServerStopped", "panic"}
                 PROVE  FALSE
    OBVIOUS
  <2>2. grpcCall \in [GrpcCalls -> {"none", "running", "done", "cut"}]
    BY <2>1 DEF IInv, TypeOK
  <2>3. CASE ConfigFails \/ WiringFails \/ ListenFails
    BY <2>1, <2>2, <2>3 DEF IInv, StageInv, ConfigFails, WiringFails, ListenFails, Exit, Cut
  <2>4. CASE HTTPDrained \/ ShutdownTimeout
    BY <2>1, <2>2, <2>4 DEF IInv, StageInv, HTTPDrained, ShutdownTimeout, Exit, Cut
  <2>5. CASE GoroutinePanics \/ ServerError
    BY <2>1, <2>5 DEF GoroutinePanics, ServerError, Exit
  <2>6. CASE Configured \/ Wired \/ Listening \/ Signal \/ StopGRPC \/ GRPCDrained
    BY <2>1, <2>6 DEF Configured, Wired, Listening, Signal, StopGRPC, GRPCDrained, GoOn
  <2>7. CASE \E s \in Servers : ServerStarts(s) \/ ServerStops(s)
    BY <2>1, <2>7 DEF ServerStarts, ServerStops
  <2>8. CASE \/ \E w \in Writes : PostWrite(w)
             \/ \E r \in Reads : StartRead(r) \/ EndRead(r)
    BY <2>1, <2>8 DEF PostWrite, StartRead, EndRead
  <2>9. CASE \E h \in GrpcCalls : StartCall(h) \/ EndCall(h)
    BY <2>1, <2>2, <2>9 DEF StartCall, EndCall
  <2>10. CASE \E p \in Parsers : ParserTick(p) \/ ParserExit(p) \/ ParserPop(p)
    BY <2>1, <2>10 DEF ParserTick, ParserExit, ParserPop
  <2> QED
    BY <2>1, <2>3, <2>4, <2>5, <2>6, <2>7, <2>8, <2>9, <2>10 DEF Next, Starting, Stopping
<1> QED
  BY <1>1, AlwaysIInv, PTL DEF Spec, CallsCutOnlyByFailure
=============================================================================
