------------------------- MODULE MetricWriterProofs -------------------------
(***************************************************************************)
(* For any number of parsers, savers, requests and metrics: the type       *)
(* invariant of MetricWriter; the inductive invariant IInv and with it     *)
(* IdsUnique, RegistryAgrees, RowsAttributed and LabelsBeforeValues; the   *)
(* action property AttributedWhenStored; and that MetricWriter implements  *)
(* Tables.  What needs fairness (PushReturns, HeldSettles, SaverStops)     *)
(* stays with TLC.                                                         *)
(***************************************************************************)
EXTENDS MetricWriter, SequenceTheorems, TLAPS

-----------------------------------------------------------------------------
(* Types.                                                                  *)

\* A parser at work on a sample has one: Head(batch[p]) is defined.
BatchInHand ==
    \A p \in Parsers :
        parserPC[p] \in {"lock", "unmarshal", "storeLabels"} => batch[p] # <<>>

TypeInv == TypeOK /\ BatchInHand

\* The end of the process, whatever ends it, leaves a typed state.
LEMMA HaltType ==
    ASSUME TypeInv, NEW how \in {"stopped"} \cup Panics, Halt(how)
    PROVE  TypeInv'
<1>0. \A S : <<>> \in Seq(S)
  OBVIOUS
<1>1. ProcTypeOK'
  BY <1>0 DEF TypeInv, TypeOK, ProcTypeOK, Halt
<1>2. SharedTypeOK'
  BY <1>0 DEF TypeInv, TypeOK, SharedTypeOK, Halt, NoId, tableVars
<1>3. ParserTypeOK' /\ BatchInHand'
  BY <1>0 DEF ParserTypeOK, BatchInHand, Halt, NoId, ParserPCs
<1>4. SaverTypeOK'
  BY <1>0 DEF SaverTypeOK, Halt, SaverPCs
<1>5. QED
  BY <1>1, <1>2, <1>3, <1>4 DEF TypeInv, TypeOK

\* So does its beginning.
LEMMA InitType == Init => TypeInv
<1> SUFFICES ASSUME Init PROVE TypeInv
  OBVIOUS
<1>0. \A S : <<>> \in Seq(S)
  OBVIOUS
<1>1. ProcTypeOK
  BY <1>0 DEF ProcTypeOK, Init
<1>2. SharedTypeOK
  BY <1>0 DEF SharedTypeOK, Init, NoId
<1>3. ParserTypeOK /\ BatchInHand
  BY <1>0 DEF ParserTypeOK, BatchInHand, Init, NoId, ParserPCs
<1>4. SaverTypeOK
  BY <1>0 DEF SaverTypeOK, Init, SaverPCs
<1>5. QED
  BY <1>1, <1>2, <1>3, <1>4 DEF TypeInv, TypeOK

\* The sample at hand and the rest of the batch are typed.
LEMMA HeadOfBatch ==
    ASSUME ParserTypeOK, NEW p \in Parsers, batch[p] # <<>>
    PROVE  /\ Head(batch[p]) \in Sample
           /\ Head(batch[p]).metric \in Metrics
           /\ Tail(batch[p]) \in Seq(Sample)
<1>1. Head(batch[p]) \in Sample /\ Tail(batch[p]) \in Seq(Sample)
  BY HeadTailProperties DEF ParserTypeOK
<1>2. QED
  BY <1>1 DEF Sample

\* Making a value row of the sample at hand keeps the types.
LEMMA TakeSampleType ==
    ASSUME ParserTypeOK, BatchInHand, NEW p \in Parsers, batch[p] # <<>>,
           NEW id \in Nat, TakeSample(p, id)
    PROVE  /\ parserPC' \in [Parsers -> ParserPCs]
           /\ batch' \in [Parsers -> Seq(Sample)]
           /\ parsed' \in [Parsers -> Seq(ValueRow)]
           /\ BatchInHand'
<1>1. Head(batch[p]) \in Sample /\ Tail(batch[p]) \in Seq(Sample)
  BY HeadOfBatch
<1>2. [id |-> id, sample |-> Head(batch[p])] \in ValueRow
  BY <1>1 DEF ValueRow
<1>3. Append(parsed[p], [id |-> id, sample |-> Head(batch[p])]) \in Seq(ValueRow)
  BY <1>2, AppendProperties DEF ParserTypeOK
<1>4. parserPC' \in [Parsers -> ParserPCs] /\ BatchInHand'
  BY DEF ParserTypeOK, BatchInHand, TakeSample, GoTo, ParserPCs
<1>5. batch' \in [Parsers -> Seq(Sample)]
  BY <1>1 DEF ParserTypeOK, TakeSample
<1>6. parsed' \in [Parsers -> Seq(ValueRow)]
  BY <1>3 DEF ParserTypeOK, TakeSample
<1>7. QED
  BY <1>4, <1>5, <1>6

\* Every step of a parser keeps the types, a panic included.
LEMMA ParserType ==
    ASSUME TypeInv, NEW p \in Parsers, ParserStep(p) \/ ParserExit(p)
    PROVE  TypeInv'
<1> USE DEF TypeInv, TypeOK
<1>1. CASE ParserTick(p) \/ ParserExit(p)
  <2>1. ParserTypeOK' /\ BatchInHand'
    BY <1>1 DEF ParserTick, ParserExit, ParserTypeOK, BatchInHand, GoTo, ParserPCs
  <2>2. QED
    BY <1>1, <2>1 DEF ParserTick, ParserExit, ProcTypeOK, SharedTypeOK, SaverTypeOK,
         procVars, clientVars, idVars, bufferVars, saverVars, tableVars
<1>2. CASE Pop(p)
  <2>1. Head(sendq) \in Requests /\ Tail(sendq) \in Seq(Requests)
    BY <1>2, HeadTailProperties DEF Pop, ProcTypeOK
  <2>2. Payload[Head(sendq)] \in Seq(Sample)
    BY <2>1, ConstantsAssumption
  <2>3. ParserTypeOK' /\ BatchInHand'
    BY <1>2, <2>2 DEF Pop, ParserTypeOK, BatchInHand, GoTo, ParserPCs
  <2>4. QED
    BY <1>2, <2>1, <2>3 DEF Pop, ProcTypeOK, SharedTypeOK, SaverTypeOK,
         procVars, idVars, bufferVars, saverVars, tableVars
<1>3. CASE Resolve(p)
  <2>1. Head(batch[p]).metric \in Metrics
    BY <1>3, HeadOfBatch DEF Resolve
  <2>2. ParserTypeOK' /\ BatchInHand'
    <3>1. CASE TakeSample(p, syncMap[Head(batch[p]).metric])
      <4>1. syncMap[Head(batch[p]).metric] \in Nat
        BY <2>1 DEF SharedTypeOK
      <4>2. QED
        BY <1>3, <3>1, <4>1, TakeSampleType DEF Resolve, ParserTypeOK
    <3>2. CASE GoTo(p, "lock") /\ UNCHANGED <<batch, parsed>>
      BY <1>3, <3>2 DEF Resolve, ParserTypeOK, BatchInHand, GoTo, ParserPCs
    <3>3. QED
      BY <1>3, <3>1, <3>2 DEF Resolve
  <2>3. QED
    BY <1>3, <2>2 DEF Resolve, ProcTypeOK, SharedTypeOK, SaverTypeOK,
         procVars, clientVars, idVars, bufferVars, saverVars, tableVars
<1>4. CASE AllocateID(p)
  <2>1. batch[p] # <<>> /\ Head(batch[p]).metric \in Metrics
    <3>1. batch[p] # <<>>
      BY <1>4 DEF AllocateID, BatchInHand
    <3>2. QED
      BY <3>1, HeadOfBatch
  <2>2. ParserTypeOK' /\ BatchInHand'
    <3>1. CASE TakeSample(p, syncMap[Head(batch[p]).metric]) /\ UNCHANGED nextID
      <4>1. syncMap[Head(batch[p]).metric] \in Nat
        BY <2>1 DEF SharedTypeOK
      <4>2. QED
        BY <1>4, <2>1, <3>1, <4>1, TakeSampleType DEF AllocateID, ParserTypeOK
    <3>2. CASE /\ GoTo(p, "unmarshal") /\ UNCHANGED <<batch, parsed>>
               /\ nextID' = [nextID EXCEPT ![p] = nextMetricID]
      BY <1>4, <2>1, <3>2
         DEF AllocateID, ParserTypeOK, BatchInHand, GoTo, ParserPCs, SharedTypeOK
    <3>3. QED
      BY <1>4, <3>1, <3>2 DEF AllocateID, idVars
  <2>3. SharedTypeOK'
    BY <1>4, <2>1 DEF AllocateID, SharedTypeOK, bufferVars, idVars, tableVars
  <2>4. QED
    BY <1>4, <2>2, <2>3 DEF AllocateID, ProcTypeOK, SaverTypeOK, procVars, clientVars, saverVars
<1>5. CASE UnmarshalBare(p)
  BY <1>5, HaltType DEF UnmarshalBare, Panics
<1>6. CASE UnmarshalError(p)
  <2>1. CASE Halt("sendOnClosed")
    BY <2>1, HaltType DEF Panics
  <2>2. CASE /\ SkipSample(p) /\ nextID' = [nextID EXCEPT ![p] = NoId]
             /\ UNCHANGED <<labelView, valuesView, procVars, clientVars, idVars,
                            bufferVars, saverVars, tableVars>>
    <3>1. Tail(batch[p]) \in Seq(Sample)
      BY <1>6, HeadOfBatch DEF UnmarshalError, BatchInHand
    <3>2. ParserTypeOK' /\ BatchInHand'
      BY <2>2, <3>1 DEF SkipSample, ParserTypeOK, BatchInHand, GoTo, ParserPCs, NoId
    <3>3. QED
      BY <2>2, <3>2 DEF ProcTypeOK, SharedTypeOK, SaverTypeOK,
           procVars, clientVars, idVars, bufferVars, saverVars, tableVars
  <2>3. QED
    BY <1>6, <2>1, <2>2 DEF UnmarshalError
<1>7. CASE LoadLabelRows(p)
  <2>1. ParserTypeOK' /\ BatchInHand'
    BY <1>7 DEF LoadLabelRows, ParserTypeOK, BatchInHand, GoTo, ParserPCs, SharedTypeOK
  <2>2. QED
    BY <1>7, <2>1 DEF LoadLabelRows, ProcTypeOK, SharedTypeOK, SaverTypeOK,
         procVars, clientVars, idVars, bufferVars, saverVars, tableVars
<1>8. CASE StoreLabelRows(p)
  <2>1. batch[p] # <<>> /\ Head(batch[p]).metric \in Metrics
    <3>1. batch[p] # <<>>
      BY <1>8 DEF StoreLabelRows, BatchInHand
    <3>2. QED
      BY <3>1, HeadOfBatch
  <2>2. [id |-> nextID[p], metric |-> Head(batch[p]).metric] \in LabelRow
    BY <2>1 DEF LabelRow, ParserTypeOK
  <2>3. labelRows' \in Seq(LabelRow)
    BY <1>8, <2>2, AppendProperties DEF StoreLabelRows, ParserTypeOK
  <2>4. /\ nextID' \in [Parsers -> Nat]
        /\ labelView' \in [Parsers -> Seq(LabelRow)]
        /\ valuesView' \in [Parsers -> Seq(ValueRow)]
    BY <1>8 DEF StoreLabelRows, ParserTypeOK, NoId
  <2>5. ParserTypeOK' /\ BatchInHand'
    BY <1>8, <2>1, <2>4, TakeSampleType DEF StoreLabelRows, ParserTypeOK
  <2>6. QED
    BY <1>8, <2>3, <2>5 DEF StoreLabelRows, ProcTypeOK, SharedTypeOK, SaverTypeOK,
         procVars, clientVars, idVars, saverVars, tableVars
<1>9. CASE LoadValuesRows(p)
  <2>1. ParserTypeOK' /\ BatchInHand'
    BY <1>9 DEF LoadValuesRows, ParserTypeOK, BatchInHand, GoTo, ParserPCs, SharedTypeOK
  <2>2. QED
    BY <1>9, <2>1 DEF LoadValuesRows, ProcTypeOK, SharedTypeOK, SaverTypeOK,
         procVars, clientVars, idVars, bufferVars, saverVars, tableVars
<1>10. CASE StoreValuesRows(p)
  <2>1. valuesRows' \in Seq(ValueRow)
    BY <1>10, ConcatProperties DEF StoreValuesRows, ParserTypeOK
  <2>2. ParserTypeOK' /\ BatchInHand'
    BY <1>10 DEF StoreValuesRows, ParserTypeOK, BatchInHand, GoTo, ParserPCs
  <2>3. QED
    BY <1>10, <2>1, <2>2 DEF StoreValuesRows, ProcTypeOK, SharedTypeOK, SaverTypeOK,
         procVars, clientVars, idVars, saverVars, tableVars
<1>11. QED
  BY <1>1, <1>2, <1>3, <1>4, <1>5, <1>6, <1>7, <1>8, <1>9, <1>10 DEF ParserStep

\* Every step of a saver keeps the types.
LEMMA SaverType ==
    ASSUME TypeInv, NEW s \in Savers, SaverStep(s) \/ SaverExit(s)
    PROVE  TypeInv'
<1> USE DEF TypeInv, TypeOK
<1>1. CASE SaverTick(s)
  <2>1. SaverTypeOK'
    BY <1>1 DEF SaverTick, SaverTypeOK, SaverGoTo, SaverPCs
  <2>2. QED
    BY <1>1, <2>1 DEF SaverTick, ProcTypeOK, SharedTypeOK, ParserTypeOK, BatchInHand,
         procVars, clientVars, idVars, bufferVars, parserVars, tableVars
<1>2. CASE SaverExit(s)
  <2>1. CASE Halt("closeOfClosed")
    BY <2>1, HaltType DEF Panics
  <2>2. CASE ~Halt("closeOfClosed")
    <3>1. SaverTypeOK'
      BY <1>2, <2>2 DEF SaverExit, SaverTypeOK, SaverGoTo, SaverPCs
    <3>2. QED
      BY <1>2, <2>2, <3>1 DEF SaverExit, ProcTypeOK, SharedTypeOK, ParserTypeOK, BatchInHand,
           clientVars, idVars, bufferVars, parserVars, tableVars
  <2>3. QED
    BY <2>1, <2>2
<1>3. CASE CopyLabelRows(s)
  <2>1. SaverTypeOK'
    BY <1>3 DEF CopyLabelRows, SaverTypeOK, SaverGoTo, SaverPCs, SharedTypeOK
  <2>2. QED
    BY <1>3, <2>1 DEF CopyLabelRows, ProcTypeOK, SharedTypeOK, ParserTypeOK, BatchInHand,
         procVars, clientVars, idVars, bufferVars, parserVars, tableVars
<1>4. CASE CopyValuesRows(s)
  <2>1. SaverTypeOK'
    BY <1>4 DEF CopyValuesRows, SaverTypeOK, SaverGoTo, SaverPCs, SharedTypeOK
  <2>2. QED
    BY <1>4, <2>1 DEF CopyValuesRows, ProcTypeOK, SharedTypeOK, ParserTypeOK, BatchInHand,
         procVars, clientVars, idVars, bufferVars, parserVars, tableVars
<1>5. CASE InsertLabel(s)
  <2>1. labelRowsCopy[s][inserted[s] + 1] \in LabelRow
    BY <1>5, ElementOfSeq DEF InsertLabel, SaverTypeOK
  <2>2. metricLabels' \subseteq LabelRow
    BY <1>5, <2>1 DEF InsertLabel, SharedTypeOK, TableWith, AfterFailure
  <2>3. SaverTypeOK'
    <3>1. inserted' \in [Savers -> Nat]
      <4>1. inserted' = [inserted EXCEPT ![s] = @ + 1] \/ inserted' = inserted
        BY <1>5 DEF InsertLabel
      <4>2. inserted[s] + 1 \in Nat
        BY DEF SaverTypeOK
      <4>3. QED
        BY <4>1, <4>2 DEF SaverTypeOK
    <3>2. failed' \in [Savers -> BOOLEAN] /\ saverPC' \in [Savers -> SaverPCs]
      BY <1>5 DEF InsertLabel, SaverTypeOK, SaverGoTo, SaverPCs
    <3>3. QED
      BY <1>5, <3>1, <3>2 DEF InsertLabel, SaverTypeOK
  <2>4. QED
    BY <1>5, <2>2, <2>3 DEF InsertLabel, ProcTypeOK, SharedTypeOK, ParserTypeOK, BatchInHand,
         procVars, clientVars, idVars, bufferVars, parserVars
<1>6. CASE CopyRows(s)
  <2>1. metricValues \o valuesRowsCopy[s] \in Seq(ValueRow)
    BY ConcatProperties DEF SharedTypeOK, SaverTypeOK
  <2>2. metricValues' \in Seq(ValueRow)
    BY <1>6, <2>1 DEF CopyRows, SharedTypeOK, AfterFailure
  <2>3. SaverTypeOK'
    BY <1>6 DEF CopyRows, SaverTypeOK, SaverGoTo, SaverPCs
  <2>4. QED
    BY <1>6, <2>2, <2>3 DEF CopyRows, ProcTypeOK, SharedTypeOK, ParserTypeOK, BatchInHand,
         procVars, clientVars, idVars, bufferVars, parserVars
<1>7. CASE ResetLabelRows(s)
  <2>1. SaverTypeOK'
    BY <1>7 DEF ResetLabelRows, SaverTypeOK, SaverGoTo, SaverPCs
  <2>2. labelRows' \in Seq(LabelRow)
    BY <1>7 DEF ResetLabelRows, AfterSave
  <2>3. QED
    BY <1>7, <2>1, <2>2 DEF ResetLabelRows, ProcTypeOK, SharedTypeOK, ParserTypeOK, BatchInHand,
         procVars, clientVars, idVars, parserVars, tableVars
<1>8. CASE ResetValuesRows(s)
  <2>1. SaverTypeOK'
    BY <1>8 DEF ResetValuesRows, SaverTypeOK, SaverGoTo, SaverPCs
  <2>2. valuesRows' \in Seq(ValueRow)
    BY <1>8 DEF ResetValuesRows, AfterSave
  <2>3. QED
    BY <1>8, <2>1, <2>2 DEF ResetValuesRows, ProcTypeOK, SharedTypeOK, ParserTypeOK, BatchInHand,
         procVars, clientVars, idVars, parserVars, tableVars
<1>9. CASE ReportSave(s)
  <2>1. CASE Halt("sendOnClosed")
    BY <2>1, HaltType DEF Panics
  <2>2. CASE ~Halt("sendOnClosed")
    <3>1. SaverTypeOK'
      BY <1>9, <2>2 DEF ReportSave, SaverTypeOK, SaverGoTo, SaverPCs
    <3>2. QED
      BY <1>9, <2>2, <3>1 DEF ReportSave, ProcTypeOK, SharedTypeOK, ParserTypeOK, BatchInHand,
           procVars, clientVars, idVars, bufferVars, parserVars, tableVars
  <2>3. QED
    BY <2>1, <2>2
<1>10. QED
  BY <1>1, <1>2, <1>3, <1>4, <1>5, <1>6, <1>7, <1>8, <1>9 DEF SaverStep

\* The type invariant with BatchInHand is inductive.
LEMMA NextType == TypeInv /\ [Next]_vars => TypeInv'
<1> SUFFICES ASSUME TypeInv, [Next]_vars PROVE TypeInv'
  OBVIOUS
<1>1. CASE Start
  <2>1. syncMap' \in [Metrics -> Nat]
    <3>1. \A m \in Metrics : RegisteredID(m) \in Nat
      BY DEF RegisteredID, NoId, LabelRow, TypeInv, TypeOK, SharedTypeOK
    <3>2. QED
      BY <1>1, <3>1 DEF Start
  <2>2. nextMetricID' \in Nat
    BY <1>1 DEF Start, SeededIDs, TableIDs, NoId, LabelRow, TypeInv, TypeOK, SharedTypeOK
  <2>3. QED
    BY <1>1, <2>1, <2>2 DEF Start, TypeInv, TypeOK, BatchInHand, ProcTypeOK, SharedTypeOK,
         ParserTypeOK, SaverTypeOK, clientVars, bufferVars, parserVars, saverVars, tableVars
<1>2. CASE Cancel
  BY <1>2 DEF Cancel, TypeInv, TypeOK, BatchInHand, ProcTypeOK, SharedTypeOK,
       ParserTypeOK, SaverTypeOK, clientVars, idVars, bufferVars, parserVars, saverVars, tableVars
<1>3. CASE Exit \/ Crash \/ TornSlice
  BY <1>3, HaltType DEF Exit, Crash, TornSlice, Panics
<1>4. ASSUME NEW r \in Requests, Send(r)
      PROVE  TypeInv'
  <2>1. sendq' \in Seq(Requests)
    BY <1>4, AppendProperties DEF Send, TypeInv, TypeOK, ProcTypeOK
  <2>2. QED
    BY <1>4, <2>1 DEF Send, TypeInv, TypeOK, BatchInHand, ProcTypeOK, SharedTypeOK,
         ParserTypeOK, SaverTypeOK, procVars, idVars, bufferVars, parserVars, saverVars, tableVars
<1>5. ASSUME NEW p \in Parsers, ParserStep(p) \/ ParserExit(p)
      PROVE  TypeInv'
  BY <1>5, ParserType
<1>6. ASSUME NEW s \in Savers, SaverStep(s) \/ SaverExit(s)
      PROVE  TypeInv'
  BY <1>6, SaverType
<1>7. CASE UNCHANGED vars
  BY <1>7 DEF vars, TypeInv, TypeOK, BatchInHand, ProcTypeOK, SharedTypeOK, ParserTypeOK,
       SaverTypeOK, procVars, clientVars, idVars, bufferVars, parserVars, saverVars, tableVars
<1>8. QED
  BY <1>1, <1>2, <1>3, <1>4, <1>5, <1>6, <1>7 DEF Next

\* Every variable always has its type: of ids, rows, views and program counters.
THEOREM TypeCorrect == Spec => []TypeOK
<1>1. TypeInv => TypeOK
  BY DEF TypeInv
<1>2. QED
  BY <1>1, InitType, NextType, PTL DEF Spec

-----------------------------------------------------------------------------
(* The inductive invariant.                                                *)

\* No process, no memory.
Idle ==
    ~Running =>
        /\ labelRows = <<>> /\ valuesRows = <<>>
        /\ \A p \in Parsers : /\ parserPC[p] = "select" /\ parsed[p] = <<>>
                             /\ labelView[p] = <<>> /\ valuesView[p] = <<>>
        /\ \A s \in Savers : /\ saverPC[s] = "select" /\ inserted[s] = 0
                            /\ labelRowsCopy[s] = <<>> /\ valuesRowsCopy[s] = <<>>

\* Between its allocation and the label row made with it, an id is the one
\* syncMap has for the sample at hand.
IDPending ==
    \A p \in Parsers :
        parserPC[p] \in {"unmarshal", "storeLabels"} =>
            nextID[p] # NoId /\ nextID[p] = syncMap[Head(batch[p]).metric]

TableIDsGiven == \A l \in metricLabels : l.id # NoId
CounterStarted == nextMetricID # NoId

\* The count of inserted label rows is that of the save in progress.
InsertsCounted ==
    \A s \in Savers :
        saverPC[s] \in {"select", "copyLabels", "copyValues", "report", "done"} => inserted[s] = 0

IdInv == IdsUnique /\ CounterStarted /\ RegistryAgrees /\ TableIDsGiven
SaveInv == InsertsCounted /\ LabelsBeforeValues
IInv == TypeInv /\ Idle /\ IdInv /\ IDPending /\ RowsAttributed /\ SaveInv

\* The empty database and the process not yet started satisfy IInv.
LEMMA InitIInv == Init => IInv
<1> SUFFICES ASSUME Init PROVE IInv
  OBVIOUS
<1>1. TypeInv
  BY InitType
<1>2. Idle /\ InsertsCounted /\ LabelsBeforeValues
  BY DEF Init, Idle, InsertsCounted, LabelsBeforeValues
<1>3. IdInv /\ IDPending
  BY DEF Init, IdInv, IdsUnique, CounterStarted, RegistryAgrees, TableIDsGiven, IDPending, NoId
<1>4. RowsAttributed
  BY DEF Init, RowsAttributed, AllAttributed, AllLabelled
<1>5. QED
  BY <1>1, <1>2, <1>3, <1>4 DEF IInv, SaveInv

\* What is lost with the process was no part of what IInv says of the table.
LEMMA HaltIInv ==
    ASSUME IInv, NEW how \in {"stopped"} \cup Panics, Halt(how)
    PROVE  IInv'
<1>1. TypeInv'
  BY HaltType DEF IInv
<1>2. Idle' /\ InsertsCounted' /\ LabelsBeforeValues'
  BY DEF Halt, Idle, InsertsCounted, LabelsBeforeValues, Running
<1>3. IdInv' /\ IDPending'
  BY DEF Halt, IInv, IdInv, IdsUnique, CounterStarted, RegistryAgrees, TableIDsGiven, IDPending,
     NoId, Running, Panics, tableVars
<1>4. RowsAttributed'
  BY DEF Halt, RowsAttributed, AllAttributed, AllLabelled
<1>5. QED
  BY <1>1, <1>2, <1>3, <1>4 DEF IInv, SaveInv

\* registerExistingMetrics: reading every label row and counting on from the
\* greatest id makes registry, counter and table agree again.
LEMMA StartIInv == IInv /\ Start => IInv'
<1> SUFFICES ASSUME IInv, Start PROVE IInv'
  OBVIOUS
<1> USE DEF IInv, IdInv, SaveInv
<1>1. TypeInv'
  BY NextType DEF Next
<1>2. PICK max \in TableIDs : (\A j \in TableIDs : j <= max) /\ nextMetricID' = max + 1
  BY DEF Start, SeededIDs
<1>3. \A l \in metricLabels : l.id \in Nat /\ l.metric \in Metrics /\ l.id < nextMetricID'
  BY <1>2 DEF TableIDs, TypeInv, TypeOK, SharedTypeOK, LabelRow, NoId
<1>4. max \in Nat
  BY <1>2, <1>3 DEF TableIDs, NoId
<1>5. \A l \in metricLabels : RegisteredID(l.metric) = l.id
  BY DEF RegisteredID, RegistryAgrees
<1>6. \A m \in Metrics : RegisteredID(m) # NoId =>
          \E l \in metricLabels : l.metric = m /\ RegisteredID(m) = l.id
  BY DEF RegisteredID
<1>7. IdsUnique' /\ CounterStarted'
  <2>1. \A m \in Metrics : syncMap'[m] = RegisteredID(m)
    BY DEF Start
  <2>2. \A m \in Metrics : syncMap'[m] < nextMetricID'
    BY <2>1, <1>2, <1>3, <1>4, <1>6 DEF NoId
  <2>3. ASSUME NEW m \in Metrics, NEW n \in Metrics, syncMap'[m] = syncMap'[n], m # n
        PROVE  syncMap'[m] = NoId
    BY <2>1, <2>3, <1>6 DEF RegistryAgrees
  <2>4. QED
    BY <2>2, <2>3, <1>2, <1>4 DEF IdsUnique, CounterStarted, NoId
<1>8. RegistryAgrees' /\ TableIDsGiven'
  BY <1>3, <1>5 DEF Start, RegistryAgrees, TableIDsGiven, tableVars
<1>9. Idle' /\ IDPending'
  BY DEF Start, Idle, IDPending, Running, parserVars
<1>10. RowsAttributed'
  BY DEF Start, Idle, RowsAttributed, AllAttributed, AllLabelled, bufferVars, parserVars, saverVars
<1>11. InsertsCounted' /\ LabelsBeforeValues'
  BY DEF Start, InsertsCounted, LabelsBeforeValues, saverVars, tableVars
<1>12. QED
  BY <1>1, <1>7, <1>8, <1>9, <1>10, <1>11

\* A step that leaves the ids, the table and the liveness of the process alone.
LEMMA IdFrame ==
    ASSUME IdInv, UNCHANGED <<process, idVars, metricLabels>>
    PROVE  IdInv'
BY DEF IdInv, IdsUnique, CounterStarted, RegistryAgrees, TableIDsGiven, idVars, Running

\* Rows that were attributed stay so while known metrics keep their ids.
LEMMA RowsStayAttributed ==
    ASSUME TypeInv, RowsAttributed,
           UNCHANGED <<bufferVars, saverVars, labelView, valuesView, parsed>>,
           \A m \in Metrics : syncMap[m] # NoId => syncMap'[m] = syncMap[m]
    PROVE  RowsAttributed'
<1>1. \A r \in ValueRow : Attributed(r) => r.id # NoId /\ r.id = syncMap'[r.sample.metric]
  BY DEF Attributed, ValueRow, Sample
<1>2. \A r \in LabelRow : Labelled(r) => r.id # NoId /\ r.id = syncMap'[r.metric]
  BY DEF Labelled, LabelRow
<1>3. \A rows \in Seq(ValueRow) : AllAttributed(rows) =>
          \A i \in 1..Len(rows) : rows[i].id # NoId /\ rows[i].id = syncMap'[rows[i].sample.metric]
  BY <1>1, ElementOfSeq DEF AllAttributed
<1>4. \A rows \in Seq(LabelRow) : AllLabelled(rows) =>
          \A i \in 1..Len(rows) : rows[i].id # NoId /\ rows[i].id = syncMap'[rows[i].metric]
  BY <1>2, ElementOfSeq DEF AllLabelled
<1>5. AllLabelled(labelRows)' /\ AllAttributed(valuesRows)'
  <2>1. labelRows' = labelRows /\ valuesRows' = valuesRows
    BY DEF bufferVars
  <2>2. AllLabelled(labelRows)'
    BY <2>1, <1>4 DEF TypeInv, TypeOK, SharedTypeOK, RowsAttributed, AllLabelled, Labelled
  <2>3. AllAttributed(valuesRows)'
    BY <2>1, <1>3 DEF TypeInv, TypeOK, SharedTypeOK, RowsAttributed, AllAttributed, Attributed
  <2>4. QED
    BY <2>2, <2>3
<1>6. ASSUME NEW p \in Parsers
      PROVE  /\ AllAttributed(parsed[p])' /\ AllAttributed(valuesView[p])'
             /\ AllLabelled(labelView[p])'
  <2>1. /\ parsed[p] \in Seq(ValueRow) /\ valuesView[p] \in Seq(ValueRow)
        /\ labelView[p] \in Seq(LabelRow)
    BY DEF TypeInv, TypeOK, ParserTypeOK
  <2>2. AllAttributed(parsed[p])'
    BY <2>1, <1>3 DEF RowsAttributed, AllAttributed, Attributed
  <2>3. AllAttributed(valuesView[p])'
    BY <2>1, <1>3 DEF RowsAttributed, AllAttributed, Attributed
  <2>4. AllLabelled(labelView[p])'
    BY <2>1, <1>4 DEF RowsAttributed, AllLabelled, Labelled
  <2>5. QED
    BY <2>2, <2>3, <2>4
<1>7. ASSUME NEW s \in Savers
      PROVE  AllLabelled(labelRowsCopy[s])' /\ AllAttributed(valuesRowsCopy[s])'
  <2>1. labelRowsCopy[s] \in Seq(LabelRow) /\ valuesRowsCopy[s] \in Seq(ValueRow)
    BY DEF TypeInv, TypeOK, SaverTypeOK
  <2>2. AllLabelled(labelRowsCopy[s])'
    BY <2>1, <1>4 DEF RowsAttributed, AllLabelled, Labelled, saverVars
  <2>3. AllAttributed(valuesRowsCopy[s])'
    BY <2>1, <1>3 DEF RowsAttributed, AllAttributed, Attributed, saverVars
  <2>4. QED
    BY <2>2, <2>3
<1>8. QED
  BY <1>5, <1>6, <1>7 DEF RowsAttributed

\* The row TakeSample makes is attributed when its id is its metric's.
LEMMA TakeSampleAttributed ==
    ASSUME ParserTypeOK, RowsAttributed, NEW p \in Parsers, batch[p] # <<>>,
           NEW id \in Nat, id # NoId, id = syncMap[Head(batch[p]).metric],
           TakeSample(p, id), UNCHANGED syncMap
    PROVE  \A q \in Parsers : AllAttributed(parsed[q])'
<1> DEFINE row == [id |-> id, sample |-> Head(batch[p])]
<1>1. row \in ValueRow /\ Attributed(row)
  BY HeadOfBatch DEF ValueRow, Attributed
<1>2. parsed[p] \in Seq(ValueRow) /\ AllAttributed(parsed[p])
  BY DEF ParserTypeOK, RowsAttributed
<1> HIDE DEF row
<1>3. AllAttributed(Append(parsed[p], row))
  BY <1>1, <1>2, AppendProperties DEF AllAttributed
<1>4. parsed' = [parsed EXCEPT ![p] = Append(parsed[p], row)]
  BY DEF TakeSample, row
<1>5. ASSUME NEW q \in Parsers
      PROVE  AllAttributed(parsed'[q])
  BY <1>3, <1>4 DEF ParserTypeOK, RowsAttributed
<1>6. QED
  BY <1>5 DEF AllAttributed, Attributed

\* A parser's step that allocates no id and leaves the shared slices alone.
LEMMA ParserFrame ==
    ASSUME IInv, Running, TypeInv', IDPending',
           UNCHANGED <<procVars, idVars, bufferVars, saverVars, tableVars>>,
           \A q \in Parsers : /\ AllAttributed(parsed[q])' /\ AllAttributed(valuesView[q])'
                              /\ AllLabelled(labelView[q])'
    PROVE  IInv'
<1>1. IdInv' /\ Idle' /\ SaveInv'
  BY IdFrame DEF IInv, Idle, Running, SaveInv, InsertsCounted, LabelsBeforeValues,
     procVars, saverVars, tableVars
<1>2. RowsAttributed'
  BY DEF IInv, RowsAttributed, AllAttributed, AllLabelled, Attributed, Labelled,
     idVars, bufferVars, saverVars
<1>3. QED
  BY <1>1, <1>2 DEF IInv

\* Rows in untouched variables stay attributed if the registry stays as it is.
LEMMA ParserRowsSame ==
    ASSUME RowsAttributed, UNCHANGED syncMap
    PROVE  /\ UNCHANGED parsed => \A q \in Parsers : AllAttributed(parsed[q])'
           /\ UNCHANGED valuesView => \A q \in Parsers : AllAttributed(valuesView[q])'
           /\ UNCHANGED labelView => \A q \in Parsers : AllLabelled(labelView[q])'
BY DEF RowsAttributed, AllAttributed, AllLabelled, Attributed, Labelled

\* Every step of a parser keeps IInv: the one that allocates an id does so with
\* the mutex held and for a metric that still has none.
LEMMA ParserIInv ==
    ASSUME IInv, NEW p \in Parsers, ParserStep(p) \/ ParserExit(p)
    PROVE  IInv'
<1> USE DEF idVars
<1>0. /\ TypeInv' /\ Running /\ TypeInv /\ ParserTypeOK /\ BatchInHand /\ RowsAttributed
      /\ syncMap \in [Metrics -> Nat] /\ IDPending /\ nextMetricID \in Nat
  BY ParserType DEF IInv, TypeInv, TypeOK, SharedTypeOK, ParserStep, ParserTick, ParserExit, Pop,
     Resolve,
     AllocateID, UnmarshalBare, UnmarshalError, LoadLabelRows, StoreLabelRows, LoadValuesRows,
     StoreValuesRows
<1>1. CASE ParserTick(p) \/ ParserExit(p) \/ Pop(p)
  <2>1. IDPending'
    BY <1>0, <1>1 DEF ParserTick, ParserExit, Pop, GoTo, IDPending, ParserTypeOK
  <2>2. QED
    BY <1>0, <1>1, <2>1, ParserFrame, ParserRowsSame DEF ParserTick, ParserExit, Pop
<1>2. CASE Resolve(p)
  <2>1. IDPending'
    BY <1>0, <1>2 DEF Resolve, TakeSample, GoTo, IDPending, ParserTypeOK
  <2>2. \A q \in Parsers : AllAttributed(parsed[q])'
    <3>1. CASE /\ syncMap[Head(batch[p]).metric] # NoId
               /\ TakeSample(p, syncMap[Head(batch[p]).metric])
      BY <1>0, <1>2, <3>1, HeadOfBatch, TakeSampleAttributed DEF Resolve
    <3>2. CASE UNCHANGED parsed
      BY <1>0, <1>2, <3>2, ParserRowsSame DEF Resolve
    <3>3. QED
      BY <1>2, <3>1, <3>2 DEF Resolve
  <2>3. QED
    BY <1>0, <1>2, <2>1, <2>2, ParserFrame, ParserRowsSame DEF Resolve
<1>3. CASE AllocateID(p)
  <2> DEFINE m == Head(batch[p]).metric
  <2>1. batch[p] # <<>> /\ m \in Metrics
    BY <1>0, <1>3, HeadOfBatch DEF AllocateID, BatchInHand
  <2>2. CASE syncMap[m] # NoId /\ TakeSample(p, syncMap[m]) /\ UNCHANGED <<idVars, nextID>>
    <3>1. IDPending'
      BY <1>0, <1>3, <2>2 DEF AllocateID, TakeSample, GoTo, IDPending, ParserTypeOK
    <3>2. \A q \in Parsers : AllAttributed(parsed[q])'
      BY <1>0, <2>1, <2>2, TakeSampleAttributed
    <3>3. QED
      BY <1>0, <1>3, <2>2, <3>1, <3>2, ParserFrame, ParserRowsSame DEF AllocateID
  <2>3. CASE /\ syncMap[m] = NoId
             /\ nextID' = [nextID EXCEPT ![p] = nextMetricID]
             /\ nextMetricID' = nextMetricID + 1
             /\ syncMap' = [syncMap EXCEPT ![m] = nextMetricID]
             /\ GoTo(p, "unmarshal")
             /\ UNCHANGED <<batch, parsed>>
    <3>1. \A n \in Metrics : syncMap[n] # NoId => syncMap'[n] = syncMap[n]
      BY <1>0, <2>1, <2>3
    <3>2. RowsAttributed'
      BY <1>0, <1>3, <2>3, <3>1, RowsStayAttributed DEF AllocateID
    <3>3. nextMetricID # NoId /\ IdsUnique /\ RegistryAgrees /\ TableIDsGiven
      BY DEF IInv, IdInv, CounterStarted
    <3>4. IdsUnique' /\ CounterStarted'
      BY <1>0, <2>1, <2>3, <3>3 DEF IdsUnique, CounterStarted, NoId
    <3>5. RegistryAgrees' /\ TableIDsGiven'
      BY <1>0, <1>3, <3>1, <3>3
         DEF AllocateID, RegistryAgrees, TableIDsGiven, LabelRow, TypeInv, TypeOK, SharedTypeOK,
             procVars, tableVars, Running
    <3>6. IDPending'
      <4>1. ASSUME NEW q \in Parsers, parserPC'[q] \in {"unmarshal", "storeLabels"}
            PROVE  nextID'[q] # NoId /\ nextID'[q] = syncMap'[Head(batch'[q]).metric]
        <5>1. CASE q = p
          BY <1>0, <2>1, <2>3, <3>3, <5>1 DEF ParserTypeOK
        <5>2. CASE q # p
          <6>1. parserPC[q] \in {"unmarshal", "storeLabels"} /\ nextID'[q] = nextID[q]
            BY <1>0, <2>3, <4>1, <5>2 DEF GoTo, ParserTypeOK
          <6>2. Head(batch[q]).metric \in Metrics
            BY <1>0, <6>1, HeadOfBatch DEF BatchInHand
          <6>3. QED
            BY <1>0, <2>3, <3>1, <6>1, <6>2 DEF IDPending
        <5>3. QED
          BY <5>1, <5>2
      <4>2. QED
        BY <4>1 DEF IDPending
    <3>7. Idle' /\ SaveInv'
      BY <1>0, <1>3 DEF AllocateID, IInv, Idle, Running, SaveInv, InsertsCounted,
         LabelsBeforeValues,
         procVars, saverVars, tableVars
    <3>8. QED
      BY <1>0, <3>2, <3>4, <3>5, <3>6, <3>7 DEF IInv, IdInv
  <2>4. QED
    BY <1>3, <2>2, <2>3 DEF AllocateID
<1>4. CASE UnmarshalBare(p)
  BY <1>4, HaltIInv DEF UnmarshalBare, Panics
<1>5. CASE UnmarshalError(p)
  <2>1. CASE Halt("sendOnClosed")
    BY <2>1, HaltIInv DEF Panics
  <2>2. CASE /\ SkipSample(p) /\ nextID' = [nextID EXCEPT ![p] = NoId]
             /\ UNCHANGED <<labelView, valuesView, procVars, clientVars, idVars,
                            bufferVars, saverVars, tableVars>>
    <3>1. IDPending'
      BY <1>0, <2>2 DEF SkipSample, GoTo, IDPending, ParserTypeOK
    <3>2. QED
      BY <1>0, <2>2, <3>1, ParserFrame, ParserRowsSame DEF SkipSample
  <2>3. QED
    BY <1>5, <2>1, <2>2 DEF UnmarshalError
<1>6. CASE LoadLabelRows(p)
  <2>1. IDPending'
    BY <1>0, <1>6 DEF LoadLabelRows, GoTo, IDPending, ParserTypeOK
  <2>2. \A q \in Parsers : AllLabelled(labelView[q])'
    BY <1>0, <1>6 DEF LoadLabelRows, RowsAttributed, AllLabelled, Labelled, ParserTypeOK
  <2>3. QED
    BY <1>0, <1>6, <2>1, <2>2, ParserFrame, ParserRowsSame DEF LoadLabelRows
<1>7. CASE StoreLabelRows(p)
  <2> DEFINE row == [id |-> nextID[p], metric |-> Head(batch[p]).metric]
  <2>1. /\ batch[p] # <<>> /\ nextID[p] # NoId /\ nextID[p] = syncMap[Head(batch[p]).metric]
        /\ nextID[p] \in Nat
    BY <1>0, <1>7 DEF StoreLabelRows, BatchInHand, IDPending, ParserTypeOK
  <2>2. row \in LabelRow /\ Labelled(row)
    BY <1>0, <2>1, HeadOfBatch DEF LabelRow, Labelled
  <2>3. labelView[p] \in Seq(LabelRow) /\ AllLabelled(labelView[p])
    BY <1>0 DEF ParserTypeOK, RowsAttributed
  <2>4. labelRows' = Append(labelView[p], row)
    BY <1>7 DEF StoreLabelRows
  <2> HIDE DEF row
  <2>5. AllLabelled(Append(labelView[p], row))
    BY <2>2, <2>3, AppendProperties DEF AllLabelled
  <2>6. UNCHANGED <<process, idVars, metricLabels, metricValues, valuesRows, valuesView, saverVars>>
    BY <1>7 DEF StoreLabelRows, procVars, tableVars
  <2>7. AllLabelled(labelRows)' /\ AllAttributed(valuesRows)'
    BY <1>0, <2>4, <2>5, <2>6 DEF RowsAttributed, AllLabelled, AllAttributed, Labelled, Attributed
  <2>8. \A q \in Parsers : AllAttributed(parsed[q])'
    BY <1>0, <1>7, <2>1, <2>6, TakeSampleAttributed DEF StoreLabelRows
  <2>9. \A q \in Parsers : AllLabelled(labelView[q])'
    <3>1. \A q \in Parsers : labelView'[q] = <<>> \/ labelView'[q] = labelView[q]
      BY <1>0, <1>7 DEF StoreLabelRows, ParserTypeOK
    <3>2. QED
      BY <1>0, <2>6, <3>1 DEF RowsAttributed, AllLabelled, Labelled
  <2>10. \A q \in Parsers : AllAttributed(valuesView[q])'
    BY <1>0, <2>6, ParserRowsSame
  <2>11. \A s \in Savers : AllLabelled(labelRowsCopy[s])' /\ AllAttributed(valuesRowsCopy[s])'
    BY <1>0, <2>6 DEF RowsAttributed, AllLabelled, AllAttributed, Labelled, Attributed, saverVars
  <2>12. IDPending'
    BY <1>0, <1>7, <2>6 DEF StoreLabelRows, TakeSample, GoTo, IDPending, ParserTypeOK
  <2>13. IdInv' /\ Idle' /\ SaveInv'
    BY <1>0, <2>6, IdFrame DEF IInv, Idle, Running, SaveInv, InsertsCounted, LabelsBeforeValues,
       saverVars
  <2>14. QED
    BY <1>0, <2>7, <2>8, <2>9, <2>10, <2>11, <2>12, <2>13 DEF IInv, RowsAttributed
<1>8. CASE LoadValuesRows(p)
  <2>1. IDPending'
    BY <1>0, <1>8 DEF LoadValuesRows, GoTo, IDPending, ParserTypeOK
  <2>2. \A q \in Parsers : AllAttributed(valuesView[q])'
    BY <1>0, <1>8 DEF LoadValuesRows, RowsAttributed, AllAttributed, Attributed, ParserTypeOK
  <2>3. QED
    BY <1>0, <1>8, <2>1, <2>2, ParserFrame, ParserRowsSame DEF LoadValuesRows
<1>9. CASE StoreValuesRows(p)
  <2>1. /\ valuesView[p] \in Seq(ValueRow) /\ parsed[p] \in Seq(ValueRow)
        /\ AllAttributed(valuesView[p]) /\ AllAttributed(parsed[p])
    BY <1>0 DEF ParserTypeOK, RowsAttributed
  <2>2. AllAttributed(valuesView[p] \o parsed[p])
    <3> DEFINE n == Len(valuesView[p])
    <3>1. /\ Len(valuesView[p] \o parsed[p]) = n + Len(parsed[p])
          /\ n \in Nat /\ Len(parsed[p]) \in Nat
      BY <2>1, ConcatProperties, LenProperties
    <3>2. \A i \in 1..n + Len(parsed[p]) :
              (valuesView[p] \o parsed[p])[i] =
                  IF i <= n THEN valuesView[p][i] ELSE parsed[p][i - n]
      BY <2>1, ConcatProperties
    <3>3. \A i \in 1..n : Attributed(valuesView[p][i])
      BY <2>1 DEF AllAttributed
    <3>4. \A i \in 1..Len(parsed[p]) : Attributed(parsed[p][i])
      BY <2>1 DEF AllAttributed
    <3> HIDE DEF n
    <3>5. ASSUME NEW i \in 1..n + Len(parsed[p])
          PROVE  Attributed((valuesView[p] \o parsed[p])[i])
      <4>1. CASE i <= n
        <5>1. i \in 1..n
          BY <3>1, <4>1
        <5>2. (valuesView[p] \o parsed[p])[i] = valuesView[p][i]
          BY <3>2, <4>1
        <5>3. QED
          BY <3>3, <5>1, <5>2
      <4>2. CASE ~(i <= n)
        <5>1. i - n \in 1..Len(parsed[p])
          BY <3>1, <4>2
        <5>2. (valuesView[p] \o parsed[p])[i] = parsed[p][i - n]
          BY <3>2, <4>2
        <5>3. QED
          BY <3>4, <5>1, <5>2
      <4>3. QED
        BY <4>1, <4>2
    <3>6. QED
      BY <3>1, <3>5 DEF AllAttributed
  <2>3. UNCHANGED <<process, idVars, metricLabels, metricValues, labelRows, labelView, saverVars>>
    BY <1>9 DEF StoreValuesRows, procVars, tableVars
  <2>4. valuesRows' = valuesView[p] \o parsed[p]
    BY <1>9 DEF StoreValuesRows
  <2>5. AllLabelled(labelRows)' /\ AllAttributed(valuesRows)'
    BY <1>0, <2>2, <2>3, <2>4 DEF RowsAttributed, AllLabelled, AllAttributed, Labelled, Attributed
  <2>6. \A q \in Parsers : AllAttributed(parsed[q])' /\ AllAttributed(valuesView[q])'
    BY <1>0, <1>9, <2>3 DEF StoreValuesRows, RowsAttributed, AllAttributed, Attributed, ParserTypeOK
  <2>7. \A q \in Parsers : AllLabelled(labelView[q])'
    BY <1>0, <2>3, ParserRowsSame
  <2>8. \A s \in Savers : AllLabelled(labelRowsCopy[s])' /\ AllAttributed(valuesRowsCopy[s])'
    BY <1>0, <2>3 DEF RowsAttributed, AllLabelled, AllAttributed, Labelled, Attributed, saverVars
  <2>9. IDPending'
    BY <1>0, <1>9, <2>3 DEF StoreValuesRows, GoTo, IDPending, ParserTypeOK
  <2>10. IdInv' /\ Idle' /\ SaveInv'
    BY <1>0, <2>3, IdFrame DEF IInv, Idle, Running, SaveInv, InsertsCounted, LabelsBeforeValues,
       saverVars
  <2>11. QED
    BY <1>0, <2>5, <2>6, <2>7, <2>8, <2>9, <2>10 DEF IInv, RowsAttributed
<1>10. QED
  BY <1>1, <1>2, <1>3, <1>4, <1>5, <1>6, <1>7, <1>8, <1>9 DEF ParserStep

\* A saver's step that leaves the goroutines' rows alone or copies shared ones.
LEMMA SaverFrame ==
    ASSUME IInv, Running, TypeInv', SaveInv', IdInv',
           UNCHANGED <<process, idVars, parserVars>>,
           labelRows' \in {labelRows, <<>>}, valuesRows' \in {valuesRows, <<>>},
           \A s \in Savers : /\ labelRowsCopy'[s] \in {labelRowsCopy[s], labelRows, <<>>}
                             /\ valuesRowsCopy'[s] \in {valuesRowsCopy[s], valuesRows, <<>>}
    PROVE  IInv'
<1>1. Idle' /\ IDPending'
  BY DEF IInv, Idle, Running, IDPending, idVars, parserVars
<1>2. RowsAttributed'
  <2>1. AllLabelled(labelRows)' /\ AllAttributed(valuesRows)'
    BY DEF IInv, RowsAttributed, AllLabelled, AllAttributed, Labelled, Attributed, idVars
  <2>2. \A p \in Parsers : /\ AllAttributed(parsed[p])' /\ AllAttributed(valuesView[p])'
                           /\ AllLabelled(labelView[p])'
    BY DEF IInv, RowsAttributed, AllLabelled, AllAttributed, Labelled, Attributed, idVars,
       parserVars
  <2>3. \A s \in Savers : AllLabelled(labelRowsCopy[s])'
    BY DEF IInv, RowsAttributed, AllLabelled, Labelled, idVars
  <2>4. \A s \in Savers : AllAttributed(valuesRowsCopy[s])'
    BY DEF IInv, RowsAttributed, AllAttributed, Attributed, idVars
  <2>5. QED
    BY <2>1, <2>2, <2>3, <2>4 DEF RowsAttributed
<1>3. QED
  BY <1>1, <1>2 DEF IInv

\* What an INSERT does to the table when the registry agrees with it.
LEMMA TableWithProperties ==
    ASSUME TypeInv, IdInv, Running, NEW row \in LabelRow, Labelled(row)
    PROVE  /\ metricLabels \subseteq TableWith(row)
           /\ TableWith(row) \subseteq metricLabels \cup {row}
           /\ row \in TableWith(row)
           /\ \A k, l \in TableWith(row) : k.id = l.id \/ k.metric = l.metric => k = l
<1>1. \A l \in metricLabels : /\ l \in LabelRow /\ syncMap[l.metric] = l.id
                              /\ l.id # NoId /\ l.metric \in Metrics
  BY DEF TypeInv, TypeOK, SharedTypeOK, IdInv, RegistryAgrees, TableIDsGiven, LabelRow
<1>2. ASSUME NEW l \in metricLabels, l.metric = row.metric \/ l.id = row.id
      PROVE  l = row
  <2>1. l.metric = row.metric
    BY <1>1, <1>2 DEF Labelled, LabelRow, IdInv, IdsUnique
  <2>2. l.id = row.id
    BY <1>1, <2>1 DEF Labelled
  <2>3. QED
    BY <1>1, <2>1, <2>2 DEF LabelRow
<1>3. QED
  BY <1>2 DEF TableWith, IdInv, RegistryAgrees

\* Every step of a saver keeps IInv, a statement that fails, or takes effect and
\* fails, included.
LEMMA SaverIInv ==
    ASSUME IInv, NEW s \in Savers, SaverStep(s) \/ SaverExit(s)
    PROVE  IInv'
<1> USE DEF SaverGoTo
<1>0. /\ TypeInv' /\ Running /\ TypeInv /\ SaverTypeOK /\ IdInv /\ SaveInv
      /\ InsertsCounted /\ LabelsBeforeValues /\ RowsAttributed
  BY SaverType DEF IInv, SaveInv, TypeInv, TypeOK, SaverStep, SaverTick, SaverExit, CopyLabelRows,
     CopyValuesRows, InsertLabel, CopyRows, ResetLabelRows, ResetValuesRows, ReportSave
<1>1. CASE SaverTick(s)
  <2>1. SaveInv'
    BY <1>0, <1>1 DEF SaverTick, SaveInv, InsertsCounted, LabelsBeforeValues, SaverTypeOK, tableVars
  <2>2. QED
    BY <1>0, <1>1, <2>1, SaverFrame, IdFrame DEF SaverTick, procVars, bufferVars, tableVars
<1>2. CASE SaverExit(s)
  <2>1. CASE Halt("closeOfClosed")
    BY <2>1, HaltIInv DEF Panics
  <2>2. CASE ~Halt("closeOfClosed")
    <3>1. SaveInv'
      BY <1>0, <1>2, <2>2
         DEF SaverExit, SaveInv, InsertsCounted, LabelsBeforeValues, SaverTypeOK, tableVars
    <3>2. QED
      BY <1>0, <1>2, <2>2, <3>1, SaverFrame, IdFrame DEF SaverExit, bufferVars, tableVars
  <2>3. QED
    BY <2>1, <2>2
<1>3. CASE CopyLabelRows(s)
  <2>1. inserted[s] = 0
    BY <1>0, <1>3 DEF CopyLabelRows, InsertsCounted
  <2>2. SaveInv'
    BY <1>0, <1>3, <2>1
       DEF CopyLabelRows, SaveInv, InsertsCounted, LabelsBeforeValues, SaverTypeOK, tableVars
  <2>3. \A t \in Savers : labelRowsCopy'[t] \in {labelRowsCopy[t], labelRows}
    BY <1>0, <1>3 DEF CopyLabelRows, SaverTypeOK
  <2>4. QED
    BY <1>0, <1>3, <2>2, <2>3, SaverFrame, IdFrame
       DEF CopyLabelRows, procVars, bufferVars, tableVars
<1>4. CASE CopyValuesRows(s)
  <2>1. SaveInv'
    BY <1>0, <1>4
       DEF CopyValuesRows, SaveInv, InsertsCounted, LabelsBeforeValues, SaverTypeOK, tableVars
  <2>2. \A t \in Savers : valuesRowsCopy'[t] \in {valuesRowsCopy[t], valuesRows}
    BY <1>0, <1>4 DEF CopyValuesRows, SaverTypeOK
  <2>3. QED
    BY <1>0, <1>4, <2>1, <2>2, SaverFrame, IdFrame
       DEF CopyValuesRows, procVars, bufferVars, tableVars
<1>5. CASE InsertLabel(s)
  <2> DEFINE row == labelRowsCopy[s][inserted[s] + 1]
  <2>1. /\ inserted[s] \in Nat /\ inserted[s] < Len(labelRowsCopy[s])
        /\ labelRowsCopy[s] \in Seq(LabelRow) /\ inserted[s] + 1 \in 1..Len(labelRowsCopy[s])
    BY <1>0, <1>5, LenProperties DEF InsertLabel, SaverTypeOK
  <2>2. row \in LabelRow /\ Labelled(row)
    BY <1>0, <2>1, ElementOfSeq DEF RowsAttributed, AllLabelled
  <2>3. metricLabels' \in {metricLabels, TableWith(row)}
    BY <1>5 DEF InsertLabel, AfterFailure
  <2>4. \/ /\ inserted' = [inserted EXCEPT ![s] = @ + 1] /\ metricLabels' = TableWith(row)
           /\ UNCHANGED saverPC
        \/ UNCHANGED inserted /\ saverPC' = [saverPC EXCEPT ![s] = "resetLabels"]
    BY <1>5 DEF InsertLabel
  <2>5. UNCHANGED <<process, idVars, bufferVars, parserVars, labelRowsCopy, valuesRowsCopy>>
    BY <1>5 DEF InsertLabel, procVars
  <2> HIDE DEF row
  <2>6. /\ metricLabels \subseteq TableWith(row)
        /\ TableWith(row) \subseteq metricLabels \cup {row}
        /\ row \in TableWith(row)
        /\ \A k, l \in TableWith(row) : k.id = l.id \/ k.metric = l.metric => k = l
    BY <1>0, <2>2, TableWithProperties
  <2>7. IdInv'
    BY <1>0, <2>2, <2>3, <2>5, <2>6
       DEF IdInv, IdsUnique, CounterStarted, RegistryAgrees, TableIDsGiven, Labelled, idVars,
          Running
  <2>8. InsertsCounted'
    BY <1>0, <1>5, <2>4 DEF InsertLabel, InsertsCounted, SaverTypeOK
  <2>9. LabelsBeforeValues'
    <3>1. metricLabels \subseteq metricLabels'
      BY <2>3, <2>6
    <3>2. ASSUME NEW t \in Savers, NEW i \in 1..inserted'[t]
          PROVE  i <= Len(labelRowsCopy[t]) /\ labelRowsCopy[t][i] \in metricLabels'
      <4>1. CASE i \in 1..inserted[t]
        BY <1>0, <3>1, <4>1 DEF LabelsBeforeValues
      <4>2. CASE i \notin 1..inserted[t]
        <5>1. t = s /\ i = inserted[s] + 1 /\ metricLabels' = TableWith(row)
          BY <1>0, <2>1, <2>4, <4>2 DEF SaverTypeOK
        <5>2. QED
          BY <2>1, <2>6, <5>1 DEF row
      <4>3. QED
        BY <4>1, <4>2
    <3>3. QED
      BY <2>5, <3>2 DEF LabelsBeforeValues
  <2>10. QED
    BY <1>0, <2>5, <2>7, <2>8, <2>9, SaverFrame DEF SaveInv, bufferVars
<1>6. CASE CopyRows(s)
  <2>1. SaveInv'
    BY <1>0, <1>6 DEF CopyRows, SaveInv, InsertsCounted, LabelsBeforeValues, SaverTypeOK
  <2>2. QED
    BY <1>0, <1>6, <2>1, SaverFrame, IdFrame DEF CopyRows, procVars, bufferVars
<1>7. CASE ResetLabelRows(s)
  <2>1. SaveInv'
    BY <1>0, <1>7
       DEF ResetLabelRows, SaveInv, InsertsCounted, LabelsBeforeValues, SaverTypeOK, tableVars
  <2>2. QED
    BY <1>0, <1>7, <2>1, SaverFrame, IdFrame DEF ResetLabelRows, AfterSave, procVars, tableVars
<1>8. CASE ResetValuesRows(s)
  <2>1. SaveInv'
    BY <1>0, <1>8
       DEF ResetValuesRows, SaveInv, InsertsCounted, LabelsBeforeValues, SaverTypeOK, tableVars
  <2>2. \A t \in Savers : /\ labelRowsCopy'[t] \in {labelRowsCopy[t], <<>>}
                          /\ valuesRowsCopy'[t] \in {valuesRowsCopy[t], <<>>}
    BY <1>0, <1>8 DEF ResetValuesRows, SaverTypeOK
  <2>3. QED
    BY <1>0, <1>8, <2>1, <2>2, SaverFrame, IdFrame
       DEF ResetValuesRows, AfterSave, procVars, tableVars
<1>9. CASE ReportSave(s)
  <2>1. CASE Halt("sendOnClosed")
    BY <2>1, HaltIInv DEF Panics
  <2>2. CASE ~Halt("sendOnClosed")
    <3>1. SaveInv'
      BY <1>0, <1>9, <2>2
         DEF ReportSave, SaveInv, InsertsCounted, LabelsBeforeValues, SaverTypeOK, tableVars
    <3>2. QED
      BY <1>0, <1>9, <2>2, <3>1, SaverFrame, IdFrame DEF ReportSave, procVars, bufferVars, tableVars
  <2>3. QED
    BY <2>1, <2>2
<1>10. QED
  BY <1>1, <1>2, <1>3, <1>4, <1>5, <1>6, <1>7, <1>8, <1>9 DEF SaverStep

\* IInv is inductive.
LEMMA NextIInv == IInv /\ [Next]_vars => IInv'
<1> SUFFICES ASSUME IInv, [Next]_vars PROVE IInv'
  OBVIOUS
<1>1. CASE Start
  BY <1>1, StartIInv
<1>2. CASE Exit \/ Crash \/ TornSlice
  BY <1>2, HaltIInv DEF Exit, Crash, TornSlice, Panics
<1>3. CASE Cancel \/ (\E r \in Requests : Send(r)) \/ UNCHANGED vars
  <2>1. UNCHANGED <<process, idVars, bufferVars, parserVars, saverVars, tableVars>>
    BY <1>3 DEF Cancel, Send, vars, procVars
  <2>2. TypeInv'
    BY NextType DEF IInv
  <2>3. IdInv' /\ Idle' /\ IDPending' /\ SaveInv'
    BY <2>1, IdFrame DEF IInv, Idle, Running, IDPending, SaveInv, InsertsCounted,
       LabelsBeforeValues,
       idVars, bufferVars, parserVars, saverVars, tableVars
  <2>4. RowsAttributed'
    BY <2>1 DEF IInv, RowsAttributed, AllLabelled, AllAttributed, Labelled, Attributed,
       idVars, bufferVars, parserVars, saverVars
  <2>5. QED
    BY <2>2, <2>3, <2>4 DEF IInv
<1>4. ASSUME NEW p \in Parsers, ParserStep(p) \/ ParserExit(p)
      PROVE  IInv'
  BY <1>4, ParserIInv
<1>5. ASSUME NEW s \in Savers, SaverStep(s) \/ SaverExit(s)
      PROVE  IInv'
  BY <1>5, SaverIInv
<1>6. QED
  BY <1>1, <1>2, <1>3, <1>4, <1>5 DEF Next

\* IInv always holds.
LEMMA IInvariant == Spec => []IInv
BY InitIInv, NextIInv, PTL DEF Spec

-----------------------------------------------------------------------------

\* No two metrics ever share an id: the double-checked allocation and the
\* seeding from the table suffice, for any number of goroutines and restarts.
THEOREM IdsAreUnique == Spec => []IdsUnique
<1>1. IInv => IdsUnique
  BY DEF IInv, IdInv
<1>2. QED
  BY <1>1, IInvariant, PTL

\* Across restarts, crashes and failed statements, the registry of a running
\* process and metric_labels name the same series by the same id.
THEOREM RegistryAlwaysAgrees == Spec => []RegistryAgrees
<1>1. IInv => RegistryAgrees
  BY DEF IInv, IdInv
<1>2. QED
  BY <1>1, IInvariant, PTL

\* The races on the shared slices lose and repeat rows; they never make a row
\* carry another series' id.
THEOREM RowsAlwaysAttributed == Spec => []RowsAttributed
<1>1. IInv => RowsAttributed
  BY DEF IInv
<1>2. QED
  BY <1>1, IInvariant, PTL

\* A save never counts as inserted a label row the table does not have.
THEOREM LabelsComeFirst == Spec => []LabelsBeforeValues
<1>1. IInv => LabelsBeforeValues
  BY DEF IInv, SaveInv
<1>2. QED
  BY <1>1, IInvariant, PTL

\* metric_values changes in a COPY only.
LEMMA OnlyCopyStores ==
    ASSUME [Next]_vars, metricValues' # metricValues
    PROVE  \E s \in Savers : CopyRows(s)
<1> USE DEF tableVars, Halt
<1>1. ASSUME NEW p \in Parsers, ParserStep(p) \/ ParserExit(p)
      PROVE  UNCHANGED metricValues
  BY <1>1 DEF ParserStep, ParserExit, ParserTick, Pop, Resolve, AllocateID, UnmarshalBare,
     UnmarshalError, LoadLabelRows, StoreLabelRows, LoadValuesRows, StoreValuesRows
<1>2. ASSUME NEW s \in Savers, SaverStep(s) \/ SaverExit(s), ~CopyRows(s)
      PROVE  UNCHANGED metricValues
  BY <1>2 DEF SaverStep, SaverExit, SaverTick, CopyLabelRows, CopyValuesRows, InsertLabel,
     ResetLabelRows, ResetValuesRows, ReportSave
<1>3. ASSUME Start \/ Cancel \/ Exit \/ Crash \/ TornSlice \/ (\E r \in Requests : Send(r))
             \/ UNCHANGED vars
      PROVE  UNCHANGED metricValues
  BY <1>3 DEF Start, Cancel, Exit, Crash, TornSlice, Send, vars
<1>4. QED
  BY <1>1, <1>2, <1>3 DEF Next

\* Rows in a saver's copy belong to the series their id stands for.
LEMMA CopiedAsOwnSeries ==
    ASSUME IInv, Running, NEW s \in Savers, NEW i \in 1..Len(valuesRowsCopy[s])
    PROVE  StoredAsOwnSeries(valuesRowsCopy[s][i])
<1> DEFINE row == valuesRowsCopy[s][i]
<1>1. Attributed(row) /\ row \in ValueRow
  BY ElementOfSeq DEF IInv, RowsAttributed, AllAttributed, TypeInv, TypeOK, SaverTypeOK
<1> HIDE DEF row
<1>2. ASSUME NEW l \in metricLabels, l.id = row.id
      PROVE  l.metric = row.sample.metric
  <2>1. l.metric \in Metrics /\ syncMap[l.metric] = l.id
    BY DEF IInv, IdInv, RegistryAgrees, TypeInv, TypeOK, SharedTypeOK, LabelRow
  <2>2. row.sample.metric \in Metrics
    BY <1>1 DEF ValueRow, Sample
  <2>3. QED
    BY <1>1, <1>2, <2>1, <2>2 DEF Attributed, IInv, IdInv, IdsUnique
<1>3. QED
  BY <1>1, <1>2 DEF StoredAsOwnSeries, row

\* Whatever raced, failed or restarted before, COPY adds a row only under the
\* id of its own series, as registry and table have it at that moment.
THEOREM ValuesAlwaysAttributed == Spec => AttributedWhenStored
<1> DEFINE Added == \A i \in Len(metricValues) + 1 .. Len(metricValues') :
                        StoredAsOwnSeries(metricValues'[i])
<1>1. IInv /\ [Next]_vars => [Added]_vars
  <2> SUFFICES ASSUME IInv, [Next]_vars PROVE Added
    OBVIOUS
  <2>1. metricValues \in Seq(ValueRow) /\ Len(metricValues) \in Nat
    BY LenProperties DEF IInv, TypeInv, TypeOK, SharedTypeOK
  <2>2. CASE metricValues' = metricValues
    BY <2>1, <2>2
  <2>3. CASE metricValues' # metricValues
    <3>1. PICK s \in Savers : CopyRows(s)
      BY <2>3, OnlyCopyStores
    <3>2. Running /\ metricValues' = metricValues \o valuesRowsCopy[s]
      BY <2>3, <3>1 DEF CopyRows, AfterFailure
    <3>3. valuesRowsCopy[s] \in Seq(ValueRow) /\ Len(valuesRowsCopy[s]) \in Nat
      BY LenProperties DEF IInv, TypeInv, TypeOK, SaverTypeOK
    <3>4. Len(metricValues') = Len(metricValues) + Len(valuesRowsCopy[s])
      BY <2>1, <3>2, <3>3, ConcatProperties
    <3>5. ASSUME NEW i \in Len(metricValues) + 1 .. Len(metricValues')
          PROVE  StoredAsOwnSeries(metricValues'[i])
      <4>1. i - Len(metricValues) \in 1..Len(valuesRowsCopy[s])
        BY <2>1, <3>3, <3>4
      <4>2. metricValues'[i] = valuesRowsCopy[s][i - Len(metricValues)]
        BY <2>1, <3>2, <3>3, <3>4, ConcatProperties
      <4>3. QED
        BY <3>2, <4>1, <4>2, CopiedAsOwnSeries
    <3>6. QED
      BY <3>5
  <2>4. QED
    BY <2>2, <2>3
<1>2. QED
  BY <1>1, IInvariant, PTL DEF Spec, AttributedWhenStored

-----------------------------------------------------------------------------
(* MetricWriter implements Tables.                                         *)

\* The tables change in a saver's INSERT and in its COPY.
LEMMA OnlySavesStore ==
    ASSUME [Next]_vars, ~UNCHANGED tableVars
    PROVE  \E s \in Savers : InsertLabel(s) \/ CopyRows(s)
<1> USE DEF tableVars, Halt
<1>1. ASSUME NEW p \in Parsers, ParserStep(p) \/ ParserExit(p)
      PROVE  UNCHANGED tableVars
  BY <1>1 DEF ParserStep, ParserExit, ParserTick, Pop, Resolve, AllocateID, UnmarshalBare,
     UnmarshalError, LoadLabelRows, StoreLabelRows, LoadValuesRows, StoreValuesRows
<1>2. ASSUME NEW s \in Savers, SaverStep(s) \/ SaverExit(s), ~InsertLabel(s), ~CopyRows(s)
      PROVE  UNCHANGED tableVars
  BY <1>2 DEF SaverStep, SaverExit, SaverTick, CopyLabelRows, CopyValuesRows,
     ResetLabelRows, ResetValuesRows, ReportSave
<1>3. ASSUME Start \/ Cancel \/ Exit \/ Crash \/ TornSlice \/ (\E r \in Requests : Send(r))
             \/ UNCHANGED vars
      PROVE  UNCHANGED tableVars
  BY <1>3 DEF Start, Cancel, Exit, Crash, TornSlice, Send, vars
<1>4. QED
  BY <1>1, <1>2, <1>3 DEF Next

\* An INSERT that changes metric_labels adds one row, of an id and a metric
\* the table did not have.
LEMMA InsertRegisters ==
    ASSUME IInv, NEW s \in Savers, InsertLabel(s), metricLabels' # metricLabels
    PROVE  Readable!Next
<1> DEFINE row == labelRowsCopy[s][inserted[s] + 1]
<1>1. row \in LabelRow
  <2>1. /\ labelRowsCopy[s] \in Seq(LabelRow) /\ inserted[s] \in Nat
        /\ inserted[s] < Len(labelRowsCopy[s])
    BY DEF InsertLabel, IInv, TypeInv, TypeOK, SaverTypeOK
  <2>2. inserted[s] + 1 \in 1..Len(labelRowsCopy[s])
    BY <2>1, LenProperties
  <2>3. QED
    BY <2>1, <2>2, ElementOfSeq
<1>2. metricLabels' = TableWith(row) /\ UNCHANGED metricValues
  BY DEF InsertLabel, AfterFailure
<1> HIDE DEF row
<1>3. /\ \A l \in metricLabels : l.id # row.id /\ l.metric # row.metric
      /\ metricLabels' = metricLabels \cup {row}
  BY <1>2 DEF TableWith
<1>4. row \in Readable!NewLabels
  BY <1>3 DEF Readable!NewLabels
<1>5. row \in Readable!LabelRow
  BY <1>1 DEF LabelRow, Readable!LabelRow
<1>6. Readable!InsertLabel(row)
  BY <1>2, <1>3 DEF Readable!InsertLabel
<1>7. QED
  BY <1>4, <1>5, <1>6 DEF Readable!Next

\* A COPY that changes metric_values appends rows of which none carries the id
\* of another registered series.
LEMMA CopyStores ==
    ASSUME IInv, NEW s \in Savers, CopyRows(s), metricValues' # metricValues
    PROVE  Readable!Next
<1> DEFINE rows == valuesRowsCopy[s]
           new == Readable!NewValues
<1>1. Running /\ metricValues' = metricValues \o rows /\ UNCHANGED metricLabels
  BY DEF CopyRows, AfterFailure
<1>2. rows \in Seq(ValueRow) /\ metricValues \in Seq(ValueRow)
  BY DEF IInv, TypeInv, TypeOK, SaverTypeOK, SharedTypeOK
<1>3. Len(rows) \in Nat /\ Len(metricValues) \in Nat
  BY <1>2, LenProperties
<1>4. /\ metricValues' \in Seq(ValueRow)
      /\ Len(metricValues') = Len(metricValues) + Len(rows)
      /\ \A i \in 1..Len(rows) : metricValues'[Len(metricValues) + i] = rows[i]
  BY <1>1, <1>2, <1>3, ConcatProperties
<1>5. new = rows
  <2>1. new = SubSeq(metricValues', Len(metricValues) + 1, Len(metricValues'))
    BY DEF Readable!NewValues
  <2>2. /\ new \in Seq(ValueRow) /\ Len(new) = Len(rows)
        /\ \A i \in 1..Len(rows) : new[i] = metricValues'[Len(metricValues) + i]
    BY <1>3, <1>4, <2>1, SubSeqProperties
  <2>3. QED
    BY <1>2, <1>4, <2>2, SeqEqual
<1>6. \A i \in 1..Len(rows) : StoredAsOwnSeries(rows[i])
  BY <1>1, CopiedAsOwnSeries
<1> HIDE DEF rows, new
<1>7. \A i \in 1..Len(rows) : \A l \in metricLabels :
         l.id = rows[i].id => l.metric = rows[i].sample.metric
  BY <1>6 DEF StoredAsOwnSeries
<1>8. new \in Seq(Readable!ValueRow)
  BY <1>2, <1>5 DEF ValueRow, Sample, Readable!ValueRow, Readable!Sample
<1>9. Readable!CopyRows(new)
  BY <1>1, <1>5, <1>7 DEF Readable!CopyRows
<1>10. QED
  BY <1>8, <1>9 DEF Readable!Next, new

\* What StoreAPI and RemoteRead assume of the tables, the pipeline does.
THEOREM PipelineImplementsTables == Spec => ImplementsTables
<1>1. Init => Readable!Init
  BY DEF Init, Readable!Init
<1>2. IInv /\ [Next]_vars => [Readable!Next]_(Readable!tableVars)
  <2> SUFFICES ASSUME IInv, [Next]_vars, ~UNCHANGED tableVars PROVE Readable!Next
    BY DEF tableVars, Readable!tableVars
  <2>1. PICK s \in Savers : InsertLabel(s) \/ CopyRows(s)
    BY OnlySavesStore
  <2>2. CASE InsertLabel(s)
    <3>1. metricLabels' # metricLabels
      BY <2>2 DEF InsertLabel, tableVars
    <3>2. QED
      BY <2>2, <3>1, InsertRegisters
  <2>3. CASE CopyRows(s)
    <3>1. metricValues' # metricValues
      BY <2>3 DEF CopyRows, tableVars
    <3>2. QED
      BY <2>3, <3>1, CopyStores
  <2>4. QED
    BY <2>1, <2>2, <2>3
<1>3. QED
  BY <1>1, <1>2, IInvariant, PTL DEF Spec, ImplementsTables, Readable!Spec

=============================================================================
