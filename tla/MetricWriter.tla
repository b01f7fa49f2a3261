---------------------------- MODULE MetricWriter ----------------------------
(***************************************************************************)
(* The ingestion pipeline of the adapter: the blocked POST /write          *)
(* handlers, the parser and saver goroutines of metricwriter.PostgreSQL,   *)
(* the slices they share, the two tables, and the lives of the process     *)
(* (start, shutdown signal, crash, panic, restart).                        *)
(*                                                                         *)
(* A metric is its canonical string (the syncMap key); a sample is that    *)
(* metric and a token "at" that stands for its timestamp and value.  A     *)
(* value row keeps the sample it was made from, so that properties can     *)
(* compare the id a row carries with the series it belongs to; the code    *)
(* stores only the id.                                                     *)
(***************************************************************************)
EXTENDS Naturals, Sequences, FiniteSets, Functions

CONSTANTS
    Parsers,            \* parser goroutines, METRIC_PARSER_COUNT of them
    Savers,             \* saver goroutines, METRIC_WRITER_COUNT of them
    Metrics,            \* canonical metric strings
    BareMetrics,        \* those without "{": a name and no label
    UnquotableMetrics,  \* those whose label part is not valid JSON
    Times,              \* (timestamp, value) tokens
    Requests,           \* write requests a client wants delivered
    Payload,            \* the samples of each request
    MaxSends,           \* bound: POSTs of one request (first try and retries)
    MaxStarts,          \* bound: lives of the process
    Faults              \* what may go wrong: "database", "crash", "shutdown"

Sample == [metric : Metrics, at : Times]

ASSUME ConstantsAssumption ==
    /\ BareMetrics \subseteq Metrics
    /\ UnquotableMetrics \subseteq Metrics
    /\ Payload \in [Requests -> Seq(Sample)]
    /\ MaxSends \in Nat
    /\ MaxStarts \in Nat
    /\ Faults \subseteq {"database", "crash", "shutdown"}

\* What syncMap holds for a metric it does not know; allocated ids start at 1.
NoId == 0
LabelRow == [id : Nat, metric : Metrics]
ValueRow == [id : Nat, sample : Sample]

VARIABLES
    process,         \* "running", "stopped", or the panic that ended it
    cancelled,       \* the signal context is done
    errorChanClosed,
    starts,          \* lives so far
    sendq,           \* requests whose handler is blocked in Push, in arrival order
    attempts,        \* POSTs made of each request
    accepted,        \* requests whose Push returned: the client got its 200
    syncMap,
    nextMetricID,
    labelRows,       \* the two slices all goroutines share
    valuesRows,
    parserPC,        \* per parser: where it is, the samples still to do,
    batch,           \*   the rows made so far, the id just allocated, and
    parsed,          \*   the slice headers its appends have read
    nextID,
    labelView,
    valuesView,
    saverPC,         \* per saver: where it is, its copies, the label rows
    labelRowsCopy,   \*   already inserted, and whether a statement failed
    valuesRowsCopy,
    inserted,
    failed,
    metricLabels,    \* table metric_labels
    metricValues     \* table metric_values

procVars   == <<process, cancelled, errorChanClosed, starts>>
clientVars == <<sendq, attempts, accepted>>
idVars     == <<syncMap, nextMetricID>>
bufferVars == <<labelRows, valuesRows>>
parserVars == <<parserPC, batch, parsed, nextID, labelView, valuesView>>
saverVars  == <<saverPC, labelRowsCopy, valuesRowsCopy, inserted, failed>>
tableVars  == <<metricLabels, metricValues>>
vars == <<procVars, clientVars, idVars, bufferVars, parserVars, saverVars, tableVars>>

ParserPCs == {"select", "pop", "resolve", "lock", "unmarshal", "storeLabels", "storeValues",
              "done"}
SaverPCs  == {"select", "copyLabels", "copyValues", "save", "resetLabels", "resetValues",
              "report", "done"}
Panics    == {"sliceBounds", "sendOnClosed", "closeOfClosed", "tornSlice"}

Running == process = "running"

\* Mutant: the drain goroutine also watches the context.
ErrorChanReceivesUntilCancelled == ~errorChanClosed /\ ~cancelled

\* main receives from ErrorChan until it is closed, so a send never waits.
ErrorChanReceives == ~errorChanClosed

-----------------------------------------------------------------------------
(* The process, its memory and its lives.                                  *)

\* The process ends: what it held in memory and its connections are gone.
Halt(how) ==
    /\ process' = how
    /\ cancelled' = FALSE /\ errorChanClosed' = FALSE
    /\ sendq' = <<>>
    /\ syncMap' = [m \in Metrics |-> NoId] /\ nextMetricID' = 1
    /\ labelRows' = <<>> /\ valuesRows' = <<>>
    /\ parserPC' = [p \in Parsers |-> "select"]
    /\ batch' = [p \in Parsers |-> <<>>]
    /\ parsed' = [p \in Parsers |-> <<>>]
    /\ nextID' = [p \in Parsers |-> NoId]
    /\ labelView' = [p \in Parsers |-> <<>>]
    /\ valuesView' = [p \in Parsers |-> <<>>]
    /\ saverPC' = [s \in Savers |-> "select"]
    /\ labelRowsCopy' = [s \in Savers |-> <<>>]
    /\ valuesRowsCopy' = [s \in Savers |-> <<>>]
    /\ inserted' = [s \in Savers |-> 0]
    /\ failed' = [s \in Savers |-> FALSE]
    /\ UNCHANGED <<starts, attempts, accepted, tableVars>>

Init ==
    /\ process = "stopped"
    /\ cancelled = FALSE /\ errorChanClosed = FALSE
    /\ starts = 0
    /\ sendq = <<>> /\ attempts = [r \in Requests |-> 0] /\ accepted = {}
    /\ syncMap = [m \in Metrics |-> NoId] /\ nextMetricID = 1
    /\ labelRows = <<>> /\ valuesRows = <<>>
    /\ parserPC = [p \in Parsers |-> "select"]
    /\ batch = [p \in Parsers |-> <<>>]
    /\ parsed = [p \in Parsers |-> <<>>]
    /\ nextID = [p \in Parsers |-> NoId]
    /\ labelView = [p \in Parsers |-> <<>>]
    /\ valuesView = [p \in Parsers |-> <<>>]
    /\ saverPC = [s \in Savers |-> "select"]
    /\ labelRowsCopy = [s \in Savers |-> <<>>]
    /\ valuesRowsCopy = [s \in Savers |-> <<>>]
    /\ inserted = [s \in Savers |-> 0]
    /\ failed = [s \in Savers |-> FALSE]
    /\ metricLabels = {} /\ metricValues = <<>>

TableIDs == {NoId} \cup {l.id : l \in metricLabels}

\* Mutant: the counter starts at the largest id, which is taken.
SeededIDsOffByOne == {i \in TableIDs : \A j \in TableIDs : j <= i}

\* The counter as registerExistingMetrics leaves it.
SeededIDs == {max + 1 : max \in {i \in TableIDs : \A j \in TableIDs : j <= i}}

\* Mutant: the table's rows are stored under another key than parsers look up.
RegisteredIDOfOtherKey(m) == NoId

RegisteredID(m) ==
    IF \E l \in metricLabels : l.metric = m
    THEN (CHOOSE l \in metricLabels : l.metric = m).id
    ELSE NoId

\* NewPostgreSQL (registerExistingMetrics) and Run.
Start ==
    /\ ~Running
    /\ starts < MaxStarts
    /\ starts' = starts + 1
    /\ process' = "running"
    /\ syncMap' = [m \in Metrics |-> RegisteredID(m)]
    /\ nextMetricID' \in SeededIDs
    /\ UNCHANGED <<cancelled, errorChanClosed, clientVars, bufferVars, parserVars, saverVars,
                   tableVars>>

\* SIGINT or SIGTERM: the context of every goroutine is cancelled.
Cancel ==
    /\ "shutdown" \in Faults
    /\ Running /\ ~cancelled
    /\ cancelled' = TRUE
    /\ UNCHANGED <<process, errorChanClosed, starts, clientVars, idVars, bufferVars,
                   parserVars, saverVars, tableVars>>

\* serve returned and so does main, wherever the goroutines are.
Exit == Running /\ cancelled /\ Halt("stopped")

\* Killed, out of memory, host lost.
Crash == "crash" \in Faults /\ Running /\ Halt("stopped")

-----------------------------------------------------------------------------
(* Clients and their handlers.                                             *)

\* Mutant: the channel has a buffer, and Push returns as it puts into it.
SendBuffered(r) ==
    /\ Running
    /\ r \notin accepted
    /\ attempts[r] < MaxSends
    /\ attempts' = [attempts EXCEPT ![r] = @ + 1]
    /\ sendq' = Append(sendq, r)
    /\ accepted' = accepted \cup {r}
    /\ UNCHANGED <<procVars, idVars, bufferVars, parserVars, saverVars, tableVars>>

\* A client posts a request, or posts it again after its own timeout: the
\* earlier handler stays blocked in Push, which takes no context.
Send(r) ==
    /\ Running
    /\ r \notin accepted
    /\ attempts[r] < MaxSends
    /\ attempts' = [attempts EXCEPT ![r] = @ + 1]
    /\ sendq' = Append(sendq, r)
    /\ UNCHANGED <<accepted, procVars, idVars, bufferVars, parserVars, saverVars, tableVars>>

-----------------------------------------------------------------------------
(* A parser goroutine.  select picks either ready case, so a cancelled     *)
(* parser may still tick; once in Pop it no longer looks at the context.   *)

GoTo(p, pc) == parserPC' = [parserPC EXCEPT ![p] = pc]

ParserTick(p) ==
    /\ Running /\ parserPC[p] = "select"
    /\ GoTo(p, "pop")
    /\ UNCHANGED <<batch, parsed, nextID, labelView, valuesView,
                   procVars, clientVars, idVars, bufferVars, saverVars, tableVars>>

ParserExit(p) ==
    /\ Running /\ parserPC[p] = "select" /\ cancelled
    /\ GoTo(p, "done")
    /\ UNCHANGED <<batch, parsed, nextID, labelView, valuesView,
                   procVars, clientVars, idVars, bufferVars, saverVars, tableVars>>

\* The unbuffered channel hands the longest-blocked request over; its Push returns.
Pop(p) ==
    /\ Running /\ parserPC[p] = "pop" /\ sendq # <<>>
    /\ sendq' = Tail(sendq)
    /\ accepted' = accepted \cup {Head(sendq)}
    /\ batch' = [batch EXCEPT ![p] = Payload[Head(sendq)]]
    /\ GoTo(p, "resolve")
    /\ UNCHANGED <<attempts, parsed, nextID, labelView, valuesView,
                   procVars, idVars, bufferVars, saverVars, tableVars>>

\* The sample at hand becomes a row with this id, and the next one is at hand.
TakeSample(p, id) ==
    /\ parsed' = [parsed EXCEPT ![p] = Append(@, [id |-> id, sample |-> Head(batch[p])])]
    /\ batch' = [batch EXCEPT ![p] = Tail(@)]
    /\ GoTo(p, "resolve")

\* syncMap.Load, without the mutex.
Resolve(p) ==
    /\ Running /\ parserPC[p] = "resolve" /\ batch[p] # <<>>
    /\ LET id == syncMap[Head(batch[p]).metric]
       IN  \/ id # NoId /\ TakeSample(p, id)
           \/ id = NoId /\ GoTo(p, "lock") /\ UNCHANGED <<batch, parsed>>
    /\ UNCHANGED <<nextID, labelView, valuesView,
                   procVars, clientVars, idVars, bufferVars, saverVars, tableVars>>

\* Mutant: "return" where the code says "continue".
SkipParser(p) == GoTo(p, "done") /\ UNCHANGED <<batch, parsed>>

\* Mutant: what cannot be parsed is stored under an id of its own.
SkipSampleAsUnknown(p) == TakeSample(p, 0 - 1)

\* The sample at hand is left out; its metric keeps the id it was given.
SkipSample(p) ==
    /\ batch' = [batch EXCEPT ![p] = Tail(@)]
    /\ GoTo(p, "resolve")
    /\ UNCHANGED parsed

\* Mutant: no second look once the mutex is held.
AllocateIDUnchecked(p) ==
    /\ Running /\ parserPC[p] = "lock"
    /\ nextID' = [nextID EXCEPT ![p] = nextMetricID]
    /\ nextMetricID' = nextMetricID + 1
    /\ syncMap' = [syncMap EXCEPT ![Head(batch[p]).metric] = nextMetricID]
    /\ GoTo(p, "unmarshal")
    /\ UNCHANGED <<batch, parsed, labelView, valuesView,
                   procVars, clientVars, bufferVars, saverVars, tableVars>>

\* What metricIDMutex protects: the second look and the allocation.
AllocateID(p) ==
    /\ Running /\ parserPC[p] = "lock"
    /\ LET m == Head(batch[p]).metric
       IN  \/ /\ syncMap[m] # NoId
              /\ TakeSample(p, syncMap[m])
              /\ UNCHANGED <<idVars, nextID>>
           \/ /\ syncMap[m] = NoId
              /\ nextID' = [nextID EXCEPT ![p] = nextMetricID]
              /\ nextMetricID' = nextMetricID + 1
              /\ syncMap' = [syncMap EXCEPT ![m] = nextMetricID]
              /\ GoTo(p, "unmarshal")
              /\ UNCHANGED <<batch, parsed>>
    /\ UNCHANGED <<labelView, valuesView,
                   procVars, clientVars, bufferVars, saverVars, tableVars>>

\* metricString[-1:] of a metric without "{".
UnmarshalBare(p) ==
    /\ Running /\ parserPC[p] = "unmarshal"
    /\ Head(batch[p]).metric \in BareMetrics
    /\ Halt("sliceBounds")

UnmarshalError(p) ==
    /\ Running /\ parserPC[p] = "unmarshal"
    /\ Head(batch[p]).metric \in UnquotableMetrics \ BareMetrics
    /\ \/ errorChanClosed /\ Halt("sendOnClosed")
       \/ /\ ErrorChanReceives
          /\ SkipSample(p)
          /\ nextID' = [nextID EXCEPT ![p] = NoId]
          /\ UNCHANGED <<labelView, valuesView,
                         procVars, clientVars, idVars, bufferVars, saverVars, tableVars>>

\* append(labelRows, ...) reads the slice header first ...
LoadLabelRows(p) ==
    /\ Running /\ parserPC[p] = "unmarshal"
    /\ Head(batch[p]).metric \notin UnquotableMetrics \cup BareMetrics
    /\ labelView' = [labelView EXCEPT ![p] = labelRows]
    /\ GoTo(p, "storeLabels")
    /\ UNCHANGED <<batch, parsed, nextID, valuesView,
                   procVars, clientVars, idVars, bufferVars, saverVars, tableVars>>

\* ... and writes it back, one row longer.
StoreLabelRows(p) ==
    /\ Running /\ parserPC[p] = "storeLabels"
    /\ labelRows' = Append(labelView[p], [id |-> nextID[p], metric |-> Head(batch[p]).metric])
    /\ TakeSample(p, nextID[p])
    /\ labelView' = [labelView EXCEPT ![p] = <<>>]
    /\ nextID' = [nextID EXCEPT ![p] = NoId]
    /\ UNCHANGED <<valuesView, valuesRows, procVars, clientVars, idVars, saverVars, tableVars>>

\* append(valuesRows, parsedSamples...) in the same two halves.
LoadValuesRows(p) ==
    /\ Running /\ parserPC[p] = "resolve" /\ batch[p] = <<>>
    /\ valuesView' = [valuesView EXCEPT ![p] = valuesRows]
    /\ GoTo(p, "storeValues")
    /\ UNCHANGED <<batch, parsed, nextID, labelView,
                   procVars, clientVars, idVars, bufferVars, saverVars, tableVars>>

StoreValuesRows(p) ==
    /\ Running /\ parserPC[p] = "storeValues"
    /\ valuesRows' = valuesView[p] \o parsed[p]
    /\ valuesView' = [valuesView EXCEPT ![p] = <<>>]
    /\ parsed' = [parsed EXCEPT ![p] = <<>>]
    /\ GoTo(p, "select")
    /\ UNCHANGED <<labelRows, batch, nextID, labelView,
                   procVars, clientVars, idVars, saverVars, tableVars>>

ParserStep(p) ==
    \/ ParserTick(p) \/ Pop(p) \/ Resolve(p) \/ AllocateID(p)
    \/ UnmarshalBare(p) \/ UnmarshalError(p)
    \/ LoadLabelRows(p) \/ StoreLabelRows(p)
    \/ LoadValuesRows(p) \/ StoreValuesRows(p)

-----------------------------------------------------------------------------
(* A saver goroutine.                                                      *)

SaverGoTo(s, pc) == saverPC' = [saverPC EXCEPT ![s] = pc]

SaverTick(s) ==
    /\ Running /\ saverPC[s] = "select"
    /\ SaverGoTo(s, IF valuesRows # <<>> THEN "copyLabels" ELSE "select")
    /\ UNCHANGED <<labelRowsCopy, valuesRowsCopy, inserted, failed,
                   procVars, clientVars, idVars, bufferVars, parserVars, tableVars>>

\* ctx.Done: the channel is closed and the goroutine ends, without a last save.
SaverExit(s) ==
    /\ Running /\ saverPC[s] = "select" /\ cancelled
    /\ \/ errorChanClosed /\ Halt("closeOfClosed")
       \/ /\ ~errorChanClosed
          /\ errorChanClosed' = TRUE
          /\ SaverGoTo(s, "done")
          /\ UNCHANGED <<process, cancelled, starts, labelRowsCopy, valuesRowsCopy, inserted,
                         failed, clientVars, idVars, bufferVars, parserVars, tableVars>>

CopyLabelRows(s) ==
    /\ Running /\ saverPC[s] = "copyLabels"
    /\ labelRowsCopy' = [labelRowsCopy EXCEPT ![s] = labelRows]
    /\ SaverGoTo(s, "copyValues")
    /\ UNCHANGED <<valuesRowsCopy, inserted, failed,
                   procVars, clientVars, idVars, bufferVars, parserVars, tableVars>>

CopyValuesRows(s) ==
    /\ Running /\ saverPC[s] = "copyValues"
    /\ valuesRowsCopy' = [valuesRowsCopy EXCEPT ![s] = valuesRows]
    /\ SaverGoTo(s, "save")
    /\ UNCHANGED <<labelRowsCopy, inserted, failed,
                   procVars, clientVars, idVars, bufferVars, parserVars, tableVars>>

\* A statement may fail, and does under a cancelled context; it may have taken
\* effect all the same, but not if the context was cancelled before it began.
MayFail == cancelled \/ "database" \in Faults
AfterFailure(old, new) == IF cancelled THEN {old} ELSE {old, new}

\* INSERT ... WHERE NOT EXISTS finds the metric, or the primary key refuses
\* the id and the error is taken for "already exists"; else the row goes in.
TableWith(row) ==
    IF \E l \in metricLabels : l.metric = row.metric \/ l.id = row.id
    THEN metricLabels
    ELSE metricLabels \cup {row}

\* One turn of the loop over labelRowsCopy; a failed statement ends save.
InsertLabel(s) ==
    /\ Running /\ saverPC[s] = "save" /\ inserted[s] < Len(labelRowsCopy[s])
    /\ LET row == labelRowsCopy[s][inserted[s] + 1]
       IN  \/ /\ ~cancelled
              /\ metricLabels' = TableWith(row)
              /\ inserted' = [inserted EXCEPT ![s] = @ + 1]
              /\ UNCHANGED <<saverPC, failed>>
           \/ /\ MayFail
              /\ metricLabels' \in AfterFailure(metricLabels, TableWith(row))
              /\ failed' = [failed EXCEPT ![s] = TRUE]
              /\ SaverGoTo(s, "resetLabels")
              /\ UNCHANGED inserted
    /\ UNCHANGED <<labelRowsCopy, valuesRowsCopy, metricValues,
                   procVars, clientVars, idVars, bufferVars, parserVars>>

\* Mutant: the error of the COPY is not looked at.
CopyRowsUnreported(s) ==
    /\ Running /\ saverPC[s] = "save" /\ inserted[s] = Len(labelRowsCopy[s])
    /\ metricValues' \in IF cancelled THEN {metricValues}
                         ELSE {metricValues, metricValues \o valuesRowsCopy[s]}
    /\ SaverGoTo(s, "resetLabels")
    /\ UNCHANGED <<labelRowsCopy, valuesRowsCopy, inserted, failed, metricLabels,
                   procVars, clientVars, idVars, bufferVars, parserVars>>

\* COPY in one transaction: all rows or none, whatever the error says.
CopyRows(s) ==
    /\ Running /\ saverPC[s] = "save" /\ inserted[s] = Len(labelRowsCopy[s])
    /\ LET copied == metricValues \o valuesRowsCopy[s]
       IN  \/ valuesRowsCopy[s] = <<>> /\ UNCHANGED <<metricValues, failed>>
           \/ ~cancelled /\ metricValues' = copied /\ UNCHANGED failed
           \/ /\ MayFail /\ valuesRowsCopy[s] # <<>>
              /\ metricValues' \in AfterFailure(metricValues, copied)
              /\ failed' = [failed EXCEPT ![s] = TRUE]
    /\ SaverGoTo(s, "resetLabels")
    /\ UNCHANGED <<labelRowsCopy, valuesRowsCopy, inserted, metricLabels,
                   procVars, clientVars, idVars, bufferVars, parserVars>>

\* Mutant: rows are kept for another try when a statement failed.
AfterSaveKept(s, rows) == IF failed[s] THEN rows ELSE <<>>

\* What the deferred function leaves in a slice, on every way out of save.
AfterSave(s, rows) == <<>>

ResetLabelRows(s) ==
    /\ Running /\ saverPC[s] = "resetLabels"
    /\ labelRows' = AfterSave(s, labelRows)
    /\ SaverGoTo(s, "resetValues")
    /\ UNCHANGED <<valuesRows, labelRowsCopy, valuesRowsCopy, inserted, failed,
                   procVars, clientVars, idVars, parserVars, tableVars>>

ResetValuesRows(s) ==
    /\ Running /\ saverPC[s] = "resetValues"
    /\ valuesRows' = AfterSave(s, valuesRows)
    /\ labelRowsCopy' = [labelRowsCopy EXCEPT ![s] = <<>>]
    /\ valuesRowsCopy' = [valuesRowsCopy EXCEPT ![s] = <<>>]
    /\ inserted' = [inserted EXCEPT ![s] = 0]
    /\ SaverGoTo(s, IF failed[s] THEN "report" ELSE "select")
    /\ UNCHANGED <<labelRows, failed, procVars, clientVars, idVars, parserVars, tableVars>>

ReportSave(s) ==
    /\ Running /\ saverPC[s] = "report"
    /\ \/ errorChanClosed /\ Halt("sendOnClosed")
       \/ /\ ErrorChanReceives
          /\ failed' = [failed EXCEPT ![s] = FALSE]
          /\ SaverGoTo(s, "select")
          /\ UNCHANGED <<labelRowsCopy, valuesRowsCopy, inserted,
                         procVars, clientVars, idVars, bufferVars, parserVars, tableVars>>

SaverStep(s) ==
    \/ SaverTick(s)
    \/ CopyLabelRows(s) \/ CopyValuesRows(s) \/ InsertLabel(s) \/ CopyRows(s)
    \/ ResetLabelRows(s) \/ ResetValuesRows(s) \/ ReportSave(s)

-----------------------------------------------------------------------------
(* The slices have no lock.  A goroutine about to write a slice header     *)
(* while another is about to use it may leave that one with a pointer and  *)
(* a length of different slices; so may an append that finds the slice it  *)
(* measured reset.  The next access then faults.                           *)

LabelWriters == {p \in Parsers : parserPC[p] = "storeLabels"}
                  \cup {s \in Savers : saverPC[s] = "resetLabels"}
LabelUsers == LabelWriters \cup {p \in Parsers : parserPC[p] = "unmarshal"}
                \cup {s \in Savers : saverPC[s] = "copyLabels"}
ValuesWriters == {p \in Parsers : parserPC[p] = "storeValues"}
                   \cup {s \in Savers : saverPC[s] = "resetValues"}
ValuesUsers == ValuesWriters
                 \cup {p \in Parsers : parserPC[p] = "resolve" /\ batch[p] = <<>>}
                 \cup {s \in Savers : saverPC[s] = "copyValues"}

TornSlice ==
    /\ Running
    /\ \/ \E w \in LabelWriters : LabelUsers # {w}
       \/ \E w \in ValuesWriters : ValuesUsers # {w}
       \/ \E p \in Parsers : /\ parserPC[p] = "storeLabels"
                            /\ Len(labelRows) < Len(labelView[p])
    /\ Halt("tornSlice")

-----------------------------------------------------------------------------
Next ==
    \/ Start \/ Cancel \/ Exit \/ Crash \/ TornSlice
    \/ \E r \in Requests : Send(r)
    \/ \E p \in Parsers : ParserStep(p) \/ ParserExit(p)
    \/ \E s \in Savers : SaverStep(s) \/ SaverExit(s)

Spec == Init /\ [][Next]_vars

\* Goroutines that can run do run.  A select whose two cases stay ready picks
\* each of them sooner or later, hence strong fairness of the exits.
Fairness ==
    /\ \A p \in Parsers : WF_vars(ParserStep(p)) /\ SF_vars(ParserExit(p))
    /\ \A s \in Savers : WF_vars(SaverStep(s)) /\ SF_vars(SaverExit(s))

FairSpec == Spec /\ Fairness

-----------------------------------------------------------------------------
(* What the pipeline guarantees.                                           *)

ProcTypeOK ==
    /\ process \in {"running", "stopped"} \cup Panics
    /\ cancelled \in BOOLEAN /\ errorChanClosed \in BOOLEAN /\ starts \in Nat
    /\ sendq \in Seq(Requests) /\ attempts \in [Requests -> Nat] /\ accepted \subseteq Requests

SharedTypeOK ==
    /\ syncMap \in [Metrics -> Nat] /\ nextMetricID \in Nat
    /\ labelRows \in Seq(LabelRow) /\ valuesRows \in Seq(ValueRow)
    /\ metricLabels \subseteq LabelRow /\ metricValues \in Seq(ValueRow)

ParserTypeOK ==
    /\ parserPC \in [Parsers -> ParserPCs]
    /\ batch \in [Parsers -> Seq(Sample)]
    /\ parsed \in [Parsers -> Seq(ValueRow)]
    /\ nextID \in [Parsers -> Nat]
    /\ labelView \in [Parsers -> Seq(LabelRow)]
    /\ valuesView \in [Parsers -> Seq(ValueRow)]

SaverTypeOK ==
    /\ saverPC \in [Savers -> SaverPCs]
    /\ labelRowsCopy \in [Savers -> Seq(LabelRow)]
    /\ valuesRowsCopy \in [Savers -> Seq(ValueRow)]
    /\ inserted \in [Savers -> Nat]
    /\ failed \in [Savers -> BOOLEAN]

\* Every variable has its type.
TypeOK == ProcTypeOK /\ SharedTypeOK /\ ParserTypeOK /\ SaverTypeOK

\* No two metrics share an id, and the counter is above every id in use: the
\* double-checked allocation, and the counter's seed after a restart.
IdsUnique ==
    /\ \A m \in Metrics : syncMap[m] < nextMetricID
    /\ \A m, n \in Metrics : syncMap[m] = syncMap[n] /\ m # n => syncMap[m] = NoId

\* metric_labels names each id and each metric once, and a running process
\* knows every metric of the table by the id it has there, however many
\* restarts ago that was written and however the statement that wrote it ended.
RegistryAgrees ==
    /\ \A k, l \in metricLabels : k.id = l.id \/ k.metric = l.metric => k = l
    /\ Running => \A l \in metricLabels : syncMap[l.metric] = l.id

\* A row carries the id by which the running process knows its series.
Attributed(row) == row.id # NoId /\ row.id = syncMap[row.sample.metric]
Labelled(row) == row.id # NoId /\ row.id = syncMap[row.metric]

AllAttributed(rows) == \A i \in 1..Len(rows) : Attributed(rows[i])
AllLabelled(rows) == \A i \in 1..Len(rows) : Labelled(rows[i])

\* Every row in flight, in a goroutine's hands or in a shared slice, carries
\* the id of its own series, whatever the races on the slices do.
RowsAttributed ==
    /\ AllLabelled(labelRows) /\ AllAttributed(valuesRows)
    /\ \A p \in Parsers : /\ AllAttributed(parsed[p]) /\ AllAttributed(valuesView[p])
                         /\ AllLabelled(labelView[p])
    /\ \A s \in Savers : AllLabelled(labelRowsCopy[s]) /\ AllAttributed(valuesRowsCopy[s])

\* save writes labels first: each label row it is done with is in the table
\* under that very id, so an INSERT refused or turned into a no-op by a row of
\* another metric or id never passes for success.
LabelsBeforeValues ==
    \A s \in Savers : \A i \in 1..inserted[s] :
        i <= Len(labelRowsCopy[s]) /\ labelRowsCopy[s][i] \in metricLabels

\* What COPY adds belongs, at that moment, to the series its id stands for, in
\* the process's registry and in the table that queries join with.
StoredAsOwnSeries(row) ==
    Attributed(row) /\ \A l \in metricLabels : l.id = row.id => l.metric = row.sample.metric

AttributedWhenStored ==
    [][\A i \in Len(metricValues) + 1 .. Len(metricValues') :
          StoredAsOwnSeries(metricValues'[i])]_vars

\* The requests with a handler in Push.
Blocked == Range(sendq)

\* Until the context is cancelled, a blocked Push returns: some parser comes back
\* to Pop for every request, failed statements and unparsable metrics
\* notwithstanding.
PushReturns == \A r \in Requests : r \in Blocked ~> r \notin Blocked \/ cancelled

SamplesOf(rows) == {rows[i].sample : i \in 1..Len(rows)}

HeldByParser(p) == Range(batch[p]) \cup SamplesOf(parsed[p]) \cup SamplesOf(valuesView[p])

\* A saver's copy counts as long as it may still be stored.
HeldBySaver(s) == IF saverPC[s] = "save" THEN SamplesOf(valuesRowsCopy[s]) ELSE {}

\* The answered samples in memory that can still get into the table.
Held ==
    SamplesOf(valuesRows) \cup (UNION {HeldByParser(p) : p \in Parsers})
      \cup (UNION {HeldBySaver(s) : s \in Savers})

\* Nor does a sample stay in memory, even if every statement fails: until the
\* context is cancelled, what becomes of it gets settled.
HeldSettles == \A sample \in Sample : sample \in Held ~> sample \notin Held \/ cancelled

\* In a process that goes on, a sample leaves memory only into the table, or
\*  - as one of a metric that cannot be read,
\*  - by the reset after a save that failed, or that had made its copy before
\*    the sample came,
\*  - by a save that failed, where another saver has reset the slices meanwhile,
\*  - by the append of another parser that had read the slice before.
LostInReset(s, sample) ==
    /\ saverPC[s] = "resetValues" /\ saverPC'[s] # "resetValues"
    /\ failed[s] \/ sample \notin SamplesOf(valuesRowsCopy[s])

LostInSave(s, sample) ==
    saverPC[s] = "save" /\ failed'[s] /\ sample \in SamplesOf(valuesRowsCopy[s])

LostInAppend(p, sample) ==
    /\ parserPC[p] = "storeValues" /\ parserPC'[p] # "storeValues"
    /\ sample \notin HeldByParser(p)

LossExplained ==
    [][Running /\ Running' =>
          \A sample \in (Held \ Held') \ SamplesOf(metricValues') :
              \/ sample.metric \in UnquotableMetrics
              \/ \E s \in Savers : LostInReset(s, sample) \/ LostInSave(s, sample)
              \/ \E p \in Parsers : LostInAppend(p, sample)]_vars

\* Once the context is cancelled, the error channel gets closed (or the
\* process is gone): the saver is never stuck in a save or in a report.
SaverStops == Running /\ cancelled ~> errorChanClosed \/ ~Running

\* What readers of the two tables see is what Tables promises them: series are
\* registered once and for ever, and values go to no other registered series.
Readable == INSTANCE Tables WITH metricLabels <- metricLabels, metricValues <- metricValues
ImplementsTables == Readable!Spec

\* What clients may conclude from an answer is what Delivery promises them: a
\* sample gets into memory with the answer to its request only, and into the
\* table from memory only, through all retries, races, failures and restarts.
SamplesIn == [r \in Requests |-> Range(Payload[r])]

Delivered == INSTANCE Delivery WITH
    waiting <- Blocked, answered <- accepted, held <- Held, stored <- SamplesOf(metricValues)
ImplementsDelivery == Delivered!Spec

-----------------------------------------------------------------------------
(* What a document, a comment or a test says and the pipeline does not do. *)

\* DESIGN.md: one parser and one writer "are the safe configuration".  So a
\* sample whose request was answered is in the pipeline or in the table, as
\* long as the process and its database run.
AcceptedIsKept ==
    Running => UNION {SamplesIn[r] : r \in accepted} \subseteq Held \cup SamplesOf(metricValues)

\* DESIGN.md: "ids stay stable and unique across restarts".  So the id of a
\* stored value never leads to the labels of another series.
StoredAttribution ==
    \A i \in 1..Len(metricValues) : \A l \in metricLabels :
        l.id = metricValues[i].id => l.metric = metricValues[i].sample.metric

\* DESIGN.md: "the saver owns the channel and closes it when the context is
\* cancelled"; a comment of saver: "(Writer owns Parser)".  So nobody sends on
\* the channel, or closes it, once it is closed.
ErrorChanHasOneOwner == process \notin {"sendOnClosed", "closeOfClosed"}
=============================================================================
