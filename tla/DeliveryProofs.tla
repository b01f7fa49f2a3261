---------------------------- MODULE DeliveryProofs ----------------------------
(***************************************************************************)
(* MetricWriter implements Delivery, and LossExplained: for any number of  *)
(* parsers, savers and requests, where a sample is once its request was    *)
(* answered, and every way in which one can get lost.                      *)
(*                                                                         *)
(* Held, the samples in memory, is a union over all goroutines, so the     *)
(* proof looks at one goroutine and the slice it shares with the others    *)
(* and carries what it finds to Held (OneParser, OneSaver).                *)
(***************************************************************************)
EXTENDS MetricWriterProofs

-----------------------------------------------------------------------------
(* The samples of sequences.                                               *)

LEMMA NoRowsNoSamples == SamplesOf(<<>>) = {}
BY DEF SamplesOf

LEMMA EmptyRange == Range(<<>>) = {}
BY DEF Range

\* The elements of a sequence are its head and those of its tail.
LEMMA HeadAndTail ==
    ASSUME NEW S, NEW s \in Seq(S), s # <<>>
    PROVE  Range(s) = {Head(s)} \cup Range(Tail(s))
<1>1. /\ Tail(s) \in Seq(S) /\ Len(Tail(s)) = Len(s) - 1
      /\ \A i \in 1..Len(Tail(s)) : Tail(s)[i] = s[i + 1]
  BY HeadTailProperties
<1>2. Len(s) \in Nat /\ Len(s) # 0 /\ Head(s) = s[1]
  BY LenProperties, EmptySeq
<1>3. /\ Range(s) = {s[i] : i \in 1..Len(s)}
      /\ Range(Tail(s)) = {Tail(s)[i] : i \in 1..Len(Tail(s))}
  BY <1>1, RangeEquality
<1>4. ASSUME NEW i \in 1..Len(s)
      PROVE  s[i] = Head(s) \/ s[i] \in Range(Tail(s))
  <2>1. CASE i = 1
    BY <1>2, <2>1
  <2>2. CASE i # 1
    <3>1. i - 1 \in 1..Len(Tail(s)) /\ Tail(s)[i - 1] = s[i]
      BY <1>1, <1>2, <2>2
    <3>2. QED
      BY <1>3, <3>1
  <2>3. QED
    BY <2>1, <2>2
<1>5. ASSUME NEW j \in 1..Len(Tail(s))
      PROVE  Tail(s)[j] \in Range(s)
  BY <1>1, <1>2, <1>3
<1>6. Head(s) \in Range(s)
  BY <1>2, <1>3
<1>7. QED
  BY <1>3, <1>4, <1>5, <1>6

\* An append adds its element.
LEMMA RangeOfAppend ==
    ASSUME NEW S, NEW s \in Seq(S), NEW e \in S
    PROVE  Range(Append(s, e)) = Range(s) \cup {e}
<1>1. /\ Append(s, e) \in Seq(S)
      /\ Len(Append(s, e)) = Len(s) + 1 /\ Append(s, e)[Len(s) + 1] = e
      /\ \A i \in 1..Len(s) : Append(s, e)[i] = s[i]
  BY AppendProperties
<1>2. Len(s) \in Nat
  BY LenProperties
<1>3. /\ Range(s) = {s[i] : i \in 1..Len(s)}
      /\ Range(Append(s, e)) = {Append(s, e)[i] : i \in 1..Len(Append(s, e))}
  BY <1>1, RangeEquality
<1>4. QED
  BY <1>1, <1>2, <1>3

LEMMA SamplesOfAppend ==
    ASSUME NEW rows \in Seq(ValueRow), NEW row \in ValueRow
    PROVE  SamplesOf(Append(rows, row)) = SamplesOf(rows) \cup {row.sample}
<1>1. /\ Len(Append(rows, row)) = Len(rows) + 1 /\ Append(rows, row)[Len(rows) + 1] = row
      /\ \A i \in 1..Len(rows) : Append(rows, row)[i] = rows[i]
  BY AppendProperties
<1>2. Len(rows) \in Nat
  BY LenProperties
<1>3. QED
  BY <1>1, <1>2 DEF SamplesOf

LEMMA SamplesOfConcat ==
    ASSUME NEW rows \in Seq(ValueRow), NEW more \in Seq(ValueRow)
    PROVE  SamplesOf(rows \o more) = SamplesOf(rows) \cup SamplesOf(more)
<1>1. /\ Len(rows \o more) = Len(rows) + Len(more)
      /\ \A i \in 1..Len(rows) + Len(more) :
            (rows \o more)[i] = IF i <= Len(rows) THEN rows[i] ELSE more[i - Len(rows)]
  BY ConcatProperties
<1>2. Len(rows) \in Nat /\ Len(more) \in Nat
  BY LenProperties
<1>3. ASSUME NEW i \in 1..Len(more)
      PROVE  more[i].sample \in SamplesOf(rows \o more)
  <2>1. i + Len(rows) \in 1..Len(rows \o more) /\ (rows \o more)[i + Len(rows)] = more[i]
    BY <1>1, <1>2
  <2>2. QED
    BY <2>1 DEF SamplesOf
<1>4. ASSUME NEW i \in 1..Len(rows)
      PROVE  rows[i].sample \in SamplesOf(rows \o more)
  <2>1. i \in 1..Len(rows \o more) /\ (rows \o more)[i] = rows[i]
    BY <1>1, <1>2
  <2>2. QED
    BY <2>1 DEF SamplesOf
<1>5. ASSUME NEW i \in 1..Len(rows \o more)
      PROVE  (rows \o more)[i].sample \in SamplesOf(rows) \cup SamplesOf(more)
  <2>1. CASE i <= Len(rows)
    BY <1>1, <1>2, <2>1 DEF SamplesOf
  <2>2. CASE ~(i <= Len(rows))
    <3>1. i - Len(rows) \in 1..Len(more) /\ (rows \o more)[i] = more[i - Len(rows)]
      BY <1>1, <1>2, <2>2
    <3>2. QED
      BY <3>1 DEF SamplesOf
  <2>3. QED
    BY <2>1, <2>2
<1>6. QED
  BY <1>3, <1>4, <1>5 DEF SamplesOf

-----------------------------------------------------------------------------
(* What the goroutines hold.                                               *)

\* A parser without a request has no samples to do.
BatchDone ==
    \A p \in Parsers : parserPC[p] \in {"select", "pop", "storeValues", "done"} => batch[p] = <<>>

\* A view of the slice lasts from the read to the write of its header.
ViewDone == \A p \in Parsers : parserPC[p] # "storeValues" => valuesView[p] = <<>>

\* After a save without an error, the table has what was copied.
SavedIsStored ==
    \A s \in Savers :
        saverPC[s] \in {"resetLabels", "resetValues"} /\ ~failed[s] =>
            SamplesOf(valuesRowsCopy[s]) \subseteq SamplesOf(metricValues)

HandsInv == TypeInv /\ BatchDone /\ ViewDone /\ SavedIsStored

\* metric_values only grows.
LEMMA StoredGrows ==
    ASSUME TypeInv, NEW s \in Savers, CopyRows(s)
    PROVE  /\ \/ metricValues' = metricValues
              \/ SamplesOf(metricValues')
                   = SamplesOf(metricValues) \cup SamplesOf(valuesRowsCopy[s])
           /\ ~failed'[s] => SamplesOf(valuesRowsCopy[s]) \subseteq SamplesOf(metricValues')
<1>1. metricValues \in Seq(ValueRow) /\ valuesRowsCopy[s] \in Seq(ValueRow)
      /\ failed \in [Savers -> BOOLEAN]
  BY DEF TypeInv, TypeOK, SharedTypeOK, SaverTypeOK
<1>2. SamplesOf(metricValues \o valuesRowsCopy[s])
        = SamplesOf(metricValues) \cup SamplesOf(valuesRowsCopy[s])
  BY <1>1, SamplesOfConcat
<1>3. CASE valuesRowsCopy[s] = <<>> /\ UNCHANGED <<metricValues, failed>>
  BY <1>3, NoRowsNoSamples
<1>4. CASE metricValues' = metricValues \o valuesRowsCopy[s]
  BY <1>2, <1>4
<1>5. CASE failed' = [failed EXCEPT ![s] = TRUE] /\ metricValues' = metricValues
  BY <1>1, <1>5
<1>6. QED
  BY <1>3, <1>4, <1>5 DEF CopyRows, AfterFailure

\* The invariant of the goroutines' hands is inductive.
LEMMA InitHands == Init => HandsInv
<1> SUFFICES ASSUME Init PROVE HandsInv
  OBVIOUS
<1>1. TypeInv
  BY InitType
<1>2. BatchDone /\ ViewDone /\ SavedIsStored
  BY DEF Init, BatchDone, ViewDone, SavedIsStored
<1>3. QED
  BY <1>1, <1>2 DEF HandsInv

LEMMA HaltHands ==
    ASSUME NEW how, Halt(how)
    PROVE  BatchDone' /\ ViewDone' /\ SavedIsStored'
BY DEF Halt, BatchDone, ViewDone, SavedIsStored

LEMMA ParserHands ==
    ASSUME HandsInv, NEW p \in Parsers, ParserStep(p) \/ ParserExit(p)
    PROVE  BatchDone' /\ ViewDone' /\ SavedIsStored'
<1>0. ParserTypeOK
  BY DEF HandsInv, TypeInv, TypeOK
<1> USE <1>0 DEF HandsInv, ParserTypeOK, BatchDone, ViewDone, GoTo, TakeSample, SkipSample
<1>1. CASE \E how \in {"stopped"} \cup Panics : Halt(how)
  BY <1>1, HaltHands
<1>2. ASSUME ~\E how \in {"stopped"} \cup Panics : Halt(how)
      PROVE  UNCHANGED <<saverVars, metricValues>>
  BY <1>2 DEF ParserStep, ParserExit, ParserTick, Pop, Resolve, AllocateID, UnmarshalBare,
     UnmarshalError, LoadLabelRows, StoreLabelRows, LoadValuesRows, StoreValuesRows, Panics,
     tableVars
<1>3. CASE UNCHANGED <<saverVars, metricValues>>
  <2>1. SavedIsStored'
    BY <1>3 DEF SavedIsStored, saverVars
  <2>2. CASE ParserTick(p) \/ ParserExit(p)
    BY <2>1, <2>2 DEF ParserTick, ParserExit
  <2>3. CASE Pop(p)
    BY <2>1, <2>3 DEF Pop
  <2>4. CASE Resolve(p)
    BY <2>1, <2>4 DEF Resolve
  <2>5. CASE AllocateID(p)
    BY <2>1, <2>5 DEF AllocateID
  <2>6. CASE UnmarshalBare(p) \/ UnmarshalError(p)
    BY <2>1, <2>6, HaltHands DEF UnmarshalBare, UnmarshalError
  <2>7. CASE LoadLabelRows(p) \/ StoreLabelRows(p)
    BY <2>1, <2>7 DEF LoadLabelRows, StoreLabelRows
  <2>8. CASE LoadValuesRows(p) \/ StoreValuesRows(p)
    BY <2>1, <2>8 DEF LoadValuesRows, StoreValuesRows
  <2>9. QED
    BY <2>2, <2>3, <2>4, <2>5, <2>6, <2>7, <2>8 DEF ParserStep
<1>4. QED
  BY <1>1, <1>2, <1>3

LEMMA SaverHands ==
    ASSUME HandsInv, NEW s \in Savers, SaverStep(s) \/ SaverExit(s)
    PROVE  BatchDone' /\ ViewDone' /\ SavedIsStored'
<1>0. SaverTypeOK
  BY DEF HandsInv, TypeInv, TypeOK
<1> USE <1>0 DEF HandsInv, SaverTypeOK, SaverGoTo
<1>1. CASE \E how \in {"stopped"} \cup Panics : Halt(how)
  BY <1>1, HaltHands
<1>2. ASSUME ~\E how \in {"stopped"} \cup Panics : Halt(how)
      PROVE  UNCHANGED parserVars
  BY <1>2 DEF SaverStep, SaverExit, SaverTick, CopyLabelRows, CopyValuesRows, InsertLabel,
     CopyRows, ResetLabelRows, ResetValuesRows, ReportSave, Panics
<1>3. CASE UNCHANGED parserVars
  <2>1. BatchDone' /\ ViewDone'
    BY <1>3 DEF BatchDone, ViewDone, parserVars
  <2>2. CASE SaverTick(s) \/ SaverExit(s) \/ ReportSave(s)
    BY <2>1, <2>2, HaltHands
       DEF SaverTick, SaverExit, ReportSave, SavedIsStored, tableVars
  <2>3. CASE CopyLabelRows(s) \/ CopyValuesRows(s)
    BY <2>1, <2>3 DEF CopyLabelRows, CopyValuesRows, SavedIsStored, tableVars
  <2>4. CASE InsertLabel(s)
    BY <2>1, <2>4 DEF InsertLabel, SavedIsStored
  <2>5. CASE CopyRows(s)
    <3>1. SamplesOf(metricValues) \subseteq SamplesOf(metricValues')
          /\ (~failed'[s] => SamplesOf(valuesRowsCopy[s]) \subseteq SamplesOf(metricValues'))
      BY <2>5, StoredGrows
    <3>2. \A t \in Savers \ {s} : failed'[t] = failed[t] /\ saverPC'[t] = saverPC[t]
      BY <2>5 DEF CopyRows
    <3>3. UNCHANGED valuesRowsCopy
      BY <2>5 DEF CopyRows
    <3>4. \A t \in Savers : SamplesOf(valuesRowsCopy[t])' = SamplesOf(valuesRowsCopy[t])
      BY <3>3
    <3>5. SamplesOf(metricValues)' = SamplesOf(metricValues')
      OBVIOUS
    <3>6. QED
      BY <2>1, <3>1, <3>2, <3>4, <3>5 DEF SavedIsStored
  <2>6. CASE ResetLabelRows(s) \/ ResetValuesRows(s)
    BY <2>1, <2>6 DEF ResetLabelRows, ResetValuesRows, SavedIsStored, tableVars
  <2>7. QED
    BY <2>2, <2>3, <2>4, <2>5, <2>6 DEF SaverStep
<1>4. QED
  BY <1>1, <1>2, <1>3

LEMMA NextHands == HandsInv /\ [Next]_vars => HandsInv'
<1> SUFFICES ASSUME HandsInv, [Next]_vars PROVE HandsInv'
  OBVIOUS
<1>1. TypeInv'
  BY NextType DEF HandsInv
<1>2. CASE Exit \/ Crash \/ TornSlice
  BY <1>1, <1>2, HaltHands DEF Exit, Crash, TornSlice, HandsInv
<1>3. CASE Start \/ Cancel \/ (\E r \in Requests : Send(r)) \/ UNCHANGED vars
  <2>1. UNCHANGED <<parserVars, saverVars, tableVars>>
    BY <1>3 DEF Start, Cancel, Send, vars
  <2>2. QED
    BY <1>1, <2>1 DEF HandsInv, BatchDone, ViewDone, SavedIsStored, parserVars,
       saverVars, tableVars
<1>4. ASSUME NEW p \in Parsers, ParserStep(p) \/ ParserExit(p)
      PROVE  HandsInv'
  BY <1>1, <1>4, ParserHands DEF HandsInv
<1>5. ASSUME NEW s \in Savers, SaverStep(s) \/ SaverExit(s)
      PROVE  HandsInv'
  BY <1>1, <1>5, SaverHands DEF HandsInv
<1>6. QED
  BY <1>2, <1>3, <1>4, <1>5 DEF Next

LEMMA HandsInvariant == Spec => []HandsInv
BY InitHands, NextHands, PTL DEF Spec

-----------------------------------------------------------------------------
(* From one goroutine to all.                                              *)

\* What one goroutine and the shared slice hold.
ByParser(p) == SamplesOf(valuesRows) \cup HeldByParser(p)
BySaver(s) == SamplesOf(valuesRows) \cup HeldBySaver(s)

\* What a step of one parser brings into memory, and what it loses, can be
\* seen in its own hands and the shared slice.
LEMMA OneParser ==
    ASSUME NEW p \in Parsers, UNCHANGED saverVars,
           \A q \in Parsers \ {p} : HeldByParser(q)' = HeldByParser(q)
    PROVE  /\ Held' \subseteq Held \cup (ByParser(p)' \ ByParser(p))
           /\ Held \subseteq Held' \cup (ByParser(p) \ ByParser(p)')
<1>1. \A s \in Savers : HeldBySaver(s)' = HeldBySaver(s)
  BY DEF HeldBySaver, saverVars
<1>2. QED
  BY <1>1 DEF Held, ByParser

LEMMA OneSaver ==
    ASSUME NEW s \in Savers, UNCHANGED parserVars,
           \A t \in Savers \ {s} : HeldBySaver(t)' = HeldBySaver(t)
    PROVE  /\ Held' \subseteq Held \cup (BySaver(s)' \ BySaver(s))
           /\ Held \subseteq Held' \cup (BySaver(s) \ BySaver(s)')
<1>1. \A p \in Parsers : HeldByParser(p)' = HeldByParser(p)
  BY DEF HeldByParser, parserVars
<1>2. QED
  BY <1>1 DEF Held, BySaver

\* A parser's step leaves the other parsers what they hold.
LEMMA OtherParsersKeep ==
    ASSUME TypeInv, NEW p \in Parsers, ParserStep(p) \/ ParserExit(p), Running'
    PROVE  /\ UNCHANGED <<saverVars, tableVars>>
           /\ \A q \in Parsers \ {p} : HeldByParser(q)' = HeldByParser(q)
<1>1. ~\E how \in {"stopped"} \cup Panics : Halt(how)
  BY DEF Halt, Running, Panics
<1>2. /\ UNCHANGED <<saverVars, tableVars>>
      /\ \A q \in Parsers \ {p} : UNCHANGED <<batch[q], parsed[q], valuesView[q]>>
  BY <1>1 DEF ParserStep, ParserExit, ParserTick, Pop, Resolve, AllocateID, UnmarshalBare,
     UnmarshalError, LoadLabelRows, StoreLabelRows, LoadValuesRows, StoreValuesRows, Panics,
     TypeInv, TypeOK, ParserTypeOK, TakeSample, SkipSample
<1>3. QED
  BY <1>2 DEF HeldByParser

\* And a saver's step the other savers.
LEMMA OtherSaversKeep ==
    ASSUME TypeInv, NEW s \in Savers, SaverStep(s) \/ SaverExit(s), Running'
    PROVE  /\ UNCHANGED <<parserVars, sendq, accepted>>
           /\ \A t \in Savers \ {s} : HeldBySaver(t)' = HeldBySaver(t)
<1>1. ~\E how \in {"stopped"} \cup Panics : Halt(how)
  BY DEF Halt, Running, Panics
<1>2. /\ UNCHANGED <<parserVars, sendq, accepted>>
      /\ \A t \in Savers \ {s} : UNCHANGED <<saverPC[t], valuesRowsCopy[t]>>
  BY <1>1 DEF SaverStep, SaverExit, SaverTick, CopyLabelRows, CopyValuesRows, InsertLabel,
     CopyRows, ResetLabelRows, ResetValuesRows, ReportSave, Panics, clientVars,
     TypeInv, TypeOK, SaverTypeOK, SaverGoTo
<1>3. QED
  BY <1>2 DEF HeldBySaver

-----------------------------------------------------------------------------
(* What each step does with the samples in hand.                           *)

\* A sample that becomes a row stays in hand.
LEMMA TakeSampleKeeps ==
    ASSUME TypeInv, NEW p \in Parsers, batch[p] # <<>>, NEW id \in Nat, TakeSample(p, id),
           UNCHANGED valuesView
    PROVE  HeldByParser(p)' = HeldByParser(p)
<1> DEFINE row == [id |-> id, sample |-> Head(batch[p])]
<1>1. /\ batch[p] \in Seq(Sample) /\ parsed[p] \in Seq(ValueRow)
      /\ batch \in [Parsers -> Seq(Sample)] /\ parsed \in [Parsers -> Seq(ValueRow)]
  BY DEF TypeInv, TypeOK, ParserTypeOK
<1>2. row \in ValueRow /\ row.sample = Head(batch[p])
  BY HeadOfBatch DEF TypeInv, TypeOK, ValueRow
<1>3. batch'[p] = Tail(batch[p]) /\ parsed'[p] = Append(parsed[p], row)
  BY <1>1 DEF TakeSample
<1>4. Range(batch[p]) = {Head(batch[p])} \cup Range(batch'[p])
  BY <1>1, <1>3, HeadAndTail
<1>5. SamplesOf(parsed'[p]) = SamplesOf(parsed[p]) \cup {Head(batch[p])}
  BY <1>1, <1>2, <1>3, SamplesOfAppend
<1>6. SamplesOf(valuesView'[p]) = SamplesOf(valuesView[p])
  OBVIOUS
<1>7. QED
  BY <1>4, <1>5, <1>6 DEF HeldByParser

\* A sample that cannot be read is the only one a parser drops itself.
LEMMA SkipSampleKeeps ==
    ASSUME TypeInv, NEW p \in Parsers, batch[p] # <<>>, SkipSample(p), UNCHANGED valuesView
    PROVE  HeldByParser(p) = HeldByParser(p)' \cup {Head(batch[p])}
<1>1. batch[p] \in Seq(Sample) /\ batch \in [Parsers -> Seq(Sample)]
  BY DEF TypeInv, TypeOK, ParserTypeOK
<1>2. batch'[p] = Tail(batch[p]) /\ UNCHANGED parsed
  BY <1>1 DEF SkipSample
<1>3. Range(batch[p]) = {Head(batch[p])} \cup Range(batch'[p])
  BY <1>1, <1>2, HeadAndTail
<1>4. QED
  BY <1>2, <1>3 DEF HeldByParser

\* Every way in which a parser's step changes what is held.
LEMMA ParserKeeps ==
    ASSUME HandsInv, NEW p \in Parsers, ParserStep(p) \/ ParserExit(p), Running', ~Pop(p)
    PROVE  /\ UNCHANGED <<sendq, accepted>>
           /\ Held' \subseteq Held
           /\ \A sample \in Held \ Held' :
                 sample.metric \in UnquotableMetrics \/ LostInAppend(p, sample)
<1>0. TypeInv /\ ViewDone /\ BatchInHand
  BY DEF HandsInv, TypeInv
<1>a. ~\E how \in {"stopped"} \cup Panics : Halt(how)
  BY DEF Halt, Running, Panics
<1>b. UNCHANGED <<sendq, accepted>>
  BY <1>a DEF ParserStep, ParserExit, ParserTick, Resolve, AllocateID, UnmarshalBare,
     UnmarshalError, LoadLabelRows, StoreLabelRows, LoadValuesRows, StoreValuesRows, Panics,
     clientVars
<1>c. /\ Held' \subseteq Held \cup (ByParser(p)' \ ByParser(p))
      /\ Held \subseteq Held' \cup (ByParser(p) \ ByParser(p)')
  BY <1>0, OtherParsersKeep, OneParser
<1>1. CASE ByParser(p)' = ByParser(p)
  BY <1>b, <1>c, <1>1
<1>2. CASE ParserTick(p) \/ ParserExit(p) \/ LoadLabelRows(p)
  <2>1. UNCHANGED <<batch, parsed, valuesView, valuesRows>>
    BY <1>2 DEF ParserTick, ParserExit, LoadLabelRows, bufferVars
  <2>2. QED
    BY <1>1, <2>1 DEF ByParser, HeldByParser
<1>3. CASE /\ batch[p] # <<>> /\ UNCHANGED <<valuesView, valuesRows>>
           /\ \E id \in Nat : TakeSample(p, id)
  BY <1>0, <1>1, <1>3, TakeSampleKeeps DEF ByParser
<1>4. CASE Resolve(p)
  <2>1. UNCHANGED <<valuesView, valuesRows>> /\ batch[p] # <<>>
    BY <1>4 DEF Resolve, bufferVars
  <2>2. CASE TakeSample(p, syncMap[Head(batch[p]).metric])
    <3>1. syncMap[Head(batch[p]).metric] \in Nat
      BY <1>0, <2>1, HeadOfBatch DEF TypeInv, TypeOK, SharedTypeOK
    <3>2. QED
      BY <1>3, <2>1, <2>2, <3>1
  <2>3. CASE UNCHANGED <<batch, parsed>>
    BY <1>1, <2>1, <2>3 DEF ByParser, HeldByParser
  <2>4. QED
    BY <1>4, <2>2, <2>3 DEF Resolve
<1>5. CASE AllocateID(p)
  <2>1. UNCHANGED <<valuesView, valuesRows>> /\ batch[p] # <<>>
    BY <1>0, <1>5 DEF AllocateID, bufferVars, BatchInHand
  <2>2. CASE TakeSample(p, syncMap[Head(batch[p]).metric])
    <3>1. syncMap[Head(batch[p]).metric] \in Nat
      BY <1>0, <2>1, HeadOfBatch DEF TypeInv, TypeOK, SharedTypeOK
    <3>2. QED
      BY <1>3, <2>1, <2>2, <3>1
  <2>3. CASE UNCHANGED <<batch, parsed>>
    BY <1>1, <2>1, <2>3 DEF ByParser, HeldByParser
  <2>4. QED
    BY <1>5, <2>2, <2>3 DEF AllocateID
<1>6. CASE UnmarshalError(p)
  <2>1. /\ UNCHANGED <<valuesView, valuesRows>> /\ batch[p] # <<>> /\ SkipSample(p)
        /\ Head(batch[p]).metric \in UnquotableMetrics
    BY <1>0, <1>a, <1>6 DEF UnmarshalError, bufferVars, BatchInHand, Panics
  <2>2. ByParser(p) = ByParser(p)' \cup {Head(batch[p])}
    BY <1>0, <2>1, SkipSampleKeeps DEF ByParser
  <2>3. QED
    BY <1>b, <1>c, <2>1, <2>2
<1>7. CASE StoreLabelRows(p)
  <2>1. UNCHANGED <<valuesView, valuesRows>> /\ batch[p] # <<>> /\ TakeSample(p, nextID[p])
    BY <1>0, <1>7 DEF StoreLabelRows, BatchInHand
  <2>2. nextID[p] \in Nat
    BY <1>0 DEF TypeInv, TypeOK, ParserTypeOK
  <2>3. QED
    BY <1>3, <2>1, <2>2
<1>8. CASE LoadValuesRows(p)
  <2>1. /\ UNCHANGED <<batch, parsed, valuesRows>> /\ valuesView[p] = <<>>
        /\ valuesView'[p] = valuesRows
    BY <1>0, <1>8 DEF LoadValuesRows, bufferVars, ViewDone, TypeInv, TypeOK, ParserTypeOK
  <2>2. SamplesOf(valuesView[p]) = {} /\ SamplesOf(valuesView'[p]) = SamplesOf(valuesRows)
    BY <2>1, NoRowsNoSamples
  <2>3. QED
    BY <1>1, <2>1, <2>2 DEF ByParser, HeldByParser
<1>9. CASE StoreValuesRows(p)
  <2>1. /\ UNCHANGED batch /\ parsed'[p] = <<>> /\ valuesView'[p] = <<>>
        /\ valuesRows' = valuesView[p] \o parsed[p]
        /\ parserPC[p] = "storeValues" /\ parserPC'[p] = "select"
    BY <1>0, <1>9 DEF StoreValuesRows, GoTo, TypeInv, TypeOK, ParserTypeOK
  <2>2. SamplesOf(valuesRows') = SamplesOf(valuesView[p]) \cup SamplesOf(parsed[p])
    BY <1>0, <2>1, SamplesOfConcat DEF TypeInv, TypeOK, ParserTypeOK
  <2>3. SamplesOf(parsed'[p]) = {} /\ SamplesOf(valuesView'[p]) = {}
    BY <2>1, NoRowsNoSamples
  <2>4. ByParser(p)' = HeldByParser(p)
    BY <2>1, <2>2, <2>3 DEF ByParser, HeldByParser
  <2>5. QED
    BY <1>b, <1>c, <2>1, <2>4 DEF ByParser, LostInAppend
<1>10. QED
  BY <1>2, <1>4, <1>5, <1>6, <1>7, <1>8, <1>9, <1>a DEF ParserStep, UnmarshalBare, Panics

\* Every way in which a saver's step changes what is held and what is stored.
LEMMA SaverKeeps ==
    ASSUME HandsInv, NEW s \in Savers, SaverStep(s) \/ SaverExit(s), Running'
    PROVE  /\ UNCHANGED <<sendq, accepted>>
           /\ Held' \subseteq Held
           /\ \A sample \in Held \ Held' :
                 \/ sample \in SamplesOf(metricValues')
                 \/ LostInReset(s, sample) \/ LostInSave(s, sample)
<1>0. TypeInv /\ SavedIsStored
  BY DEF HandsInv
<1>a. ~\E how \in {"stopped"} \cup Panics : Halt(how)
  BY DEF Halt, Running, Panics
<1>b. UNCHANGED <<sendq, accepted>>
  BY <1>0, OtherSaversKeep
<1>c. /\ Held' \subseteq Held \cup (BySaver(s)' \ BySaver(s))
      /\ Held \subseteq Held' \cup (BySaver(s) \ BySaver(s)')
  BY <1>0, OtherSaversKeep, OneSaver
<1>d. SaverTypeOK
  BY <1>0 DEF TypeInv, TypeOK
<1>1. CASE SaverTick(s) \/ SaverExit(s) \/ CopyLabelRows(s) \/ ResetLabelRows(s) \/ ReportSave(s)
  <2>1. /\ UNCHANGED <<valuesRows, valuesRowsCopy>>
        /\ saverPC[s] # "save" /\ saverPC'[s] # "save"
    BY <1>1, <1>a, <1>d DEF SaverTick, SaverExit, CopyLabelRows, ResetLabelRows, ReportSave,
       bufferVars, SaverGoTo, SaverTypeOK, Panics
  <2>2. BySaver(s)' = BySaver(s)
    BY <2>1 DEF BySaver, HeldBySaver
  <2>3. QED
    BY <1>b, <1>c, <2>2
<1>2. CASE CopyValuesRows(s)
  <2>1. /\ UNCHANGED valuesRows /\ valuesRowsCopy'[s] = valuesRows
        /\ saverPC[s] # "save" /\ saverPC'[s] = "save"
    BY <1>2, <1>d DEF CopyValuesRows, bufferVars, SaverGoTo, SaverTypeOK
  <2>2. BySaver(s)' = BySaver(s)
    BY <2>1 DEF BySaver, HeldBySaver
  <2>3. QED
    BY <1>b, <1>c, <2>2
<1>3. CASE InsertLabel(s)
  <2>1. UNCHANGED <<valuesRows, valuesRowsCopy>> /\ saverPC[s] = "save"
    BY <1>3 DEF InsertLabel, bufferVars
  <2>2. CASE UNCHANGED saverPC
    <3>1. BySaver(s)' = BySaver(s)
      BY <2>1, <2>2 DEF BySaver, HeldBySaver
    <3>2. QED
      BY <1>b, <1>c, <3>1
  <2>3. CASE /\ saverPC' = [saverPC EXCEPT ![s] = "resetLabels"]
             /\ failed' = [failed EXCEPT ![s] = TRUE]
    <3>1. saverPC'[s] = "resetLabels"
      BY <1>d, <2>3 DEF SaverTypeOK
    <3>2. failed'[s]
      BY <1>d, <2>3, Zenon DEF SaverTypeOK
    <3>3. /\ BySaver(s)' \subseteq BySaver(s)
          /\ \A sample \in BySaver(s) \ BySaver(s)' : LostInSave(s, sample)
      BY <2>1, <3>1, <3>2 DEF BySaver, HeldBySaver, LostInSave
    <3>4. QED
      BY <1>b, <1>c, <3>3
  <2>4. QED
    BY <1>3, <2>2, <2>3 DEF InsertLabel, SaverGoTo
<1>4. CASE CopyRows(s)
  <2>1. /\ UNCHANGED <<valuesRows, valuesRowsCopy>> /\ saverPC[s] = "save"
        /\ saverPC'[s] = "resetLabels"
    BY <1>4, <1>d DEF CopyRows, bufferVars, SaverGoTo, SaverTypeOK
  <2>2. BySaver(s)' \subseteq BySaver(s)
    BY <2>1 DEF BySaver, HeldBySaver
  <2>3. ASSUME NEW sample \in BySaver(s) \ BySaver(s)'
        PROVE  sample \in SamplesOf(valuesRowsCopy[s])
    BY <2>1 DEF BySaver, HeldBySaver
  <2>4. ~failed'[s] => SamplesOf(valuesRowsCopy[s]) \subseteq SamplesOf(metricValues')
    BY <1>0, <1>4, StoredGrows
  <2>5. QED
    BY <1>b, <1>c, <2>1, <2>2, <2>3, <2>4 DEF LostInSave
<1>5. CASE ResetValuesRows(s)
  <2>1. /\ valuesRows' = <<>> /\ UNCHANGED metricValues
        /\ saverPC[s] = "resetValues" /\ saverPC'[s] \in {"report", "select"}
    BY <1>5, <1>d DEF ResetValuesRows, AfterSave, SaverGoTo, SaverTypeOK, tableVars
  <2>2. BySaver(s)' = {} /\ BySaver(s) = SamplesOf(valuesRows)
    BY <2>1, NoRowsNoSamples DEF BySaver, HeldBySaver
  <2>3. ASSUME NEW sample \in BySaver(s)
        PROVE  sample \in SamplesOf(metricValues') \/ LostInReset(s, sample)
    BY <1>0, <2>1 DEF LostInReset, SavedIsStored
  <2>4. QED
    BY <1>b, <1>c, <2>2, <2>3
<1>6. QED
  BY <1>1, <1>2, <1>3, <1>4, <1>5 DEF SaverStep

\* Push returns: the request's samples are now in the parser's hands.
LEMMA PopAnswers ==
    ASSUME HandsInv, NEW p \in Parsers, Pop(p)
    PROVE  \E r \in Requests :
              /\ r \in Blocked /\ Blocked' \in {Blocked, Blocked \ {r}}
              /\ accepted' = accepted \cup {r}
              /\ Held' = Held \cup SamplesIn[r]
              /\ UNCHANGED metricValues
<1>0. TypeInv
  BY DEF HandsInv
<1>1. sendq \in Seq(Requests) /\ sendq # <<>> /\ batch \in [Parsers -> Seq(Sample)]
  BY <1>0 DEF Pop, TypeInv, TypeOK, ProcTypeOK, ParserTypeOK
<1> DEFINE r == Head(sendq)
<1>2. r \in Requests /\ Range(sendq) = {r} \cup Range(Tail(sendq))
  BY <1>1, HeadTailProperties, HeadAndTail
<1>3. /\ sendq' = Tail(sendq) /\ accepted' = accepted \cup {r}
      /\ batch[p] = <<>> /\ batch'[p] = Payload[r]
      /\ UNCHANGED <<parsed, valuesView, valuesRows, metricValues>> /\ Running'
  BY <1>1 DEF Pop, HandsInv, BatchDone, bufferVars, tableVars, procVars, Running
<1>4. SamplesIn[r] = Range(Payload[r])
  BY <1>2 DEF SamplesIn
<1> HIDE DEF r
<1>5. HeldByParser(p)' = HeldByParser(p) \cup SamplesIn[r]
  BY <1>3, <1>4, EmptyRange DEF HeldByParser
<1>6. ByParser(p)' = ByParser(p) \cup SamplesIn[r]
  BY <1>3, <1>5 DEF ByParser
<1>7. Held \subseteq Held' /\ Held' \subseteq Held \cup SamplesIn[r]
  <2>1. ParserStep(p)
    BY DEF ParserStep
  <2>2. /\ Held' \subseteq Held \cup (ByParser(p)' \ ByParser(p))
        /\ Held \subseteq Held' \cup (ByParser(p) \ ByParser(p)')
    BY <1>0, <1>3, <2>1, OtherParsersKeep, OneParser
  <2>3. QED
    BY <1>6, <2>2
<1>8. SamplesIn[r] \subseteq Held'
  BY <1>5 DEF Held
<1>9. Blocked' \in {Blocked, Blocked \ {r}}
  BY <1>2, <1>3 DEF Blocked
<1>10. QED
  BY <1>2, <1>3, <1>7, <1>8, <1>9 DEF Blocked

-----------------------------------------------------------------------------
(* The theorems.                                                           *)

\* In a process that goes on, the four ways in which an answered sample can
\* get lost are all there are.
THEOREM LossIsExplained == Spec => LossExplained
<1> DEFINE Lost == (Held \ Held') \ SamplesOf(metricValues')
           Why(sample) ==
              \/ sample.metric \in UnquotableMetrics
              \/ \E s \in Savers : LostInReset(s, sample) \/ LostInSave(s, sample)
              \/ \E p \in Parsers : LostInAppend(p, sample)
           Explained == Running /\ Running' => \A sample \in Lost : Why(sample)
<1>1. HandsInv /\ [Next]_vars => [Explained]_vars
  <2> SUFFICES ASSUME HandsInv, [Next]_vars, Running, Running', NEW sample \in Lost
               PROVE  Why(sample)
    OBVIOUS
  <2>1. ASSUME NEW p \in Parsers, ParserStep(p) \/ ParserExit(p)
        PROVE  Why(sample)
    <3>1. CASE Pop(p)
      BY <3>1, PopAnswers
    <3>2. CASE ~Pop(p)
      BY <2>1, <3>2, ParserKeeps
    <3>3. QED
      BY <3>1, <3>2
  <2>2. ASSUME NEW s \in Savers, SaverStep(s) \/ SaverExit(s)
        PROVE  Why(sample)
    BY <2>2, SaverKeeps
  <2>3. CASE Start \/ Exit \/ Crash \/ TornSlice
    BY <2>3 DEF Start, Exit, Crash, TornSlice, Halt, Running
  <2>4. CASE Cancel \/ (\E r \in Requests : Send(r)) \/ UNCHANGED vars
    <3>1. UNCHANGED <<bufferVars, parserVars, saverVars>>
      BY <2>4 DEF Cancel, Send, vars
    <3>2. UNCHANGED Held
      BY <3>1 DEF Held, HeldByParser, HeldBySaver, bufferVars, parserVars, saverVars
    <3>3. QED
      BY <3>2
  <2>5. QED
    BY <2>1, <2>2, <2>3, <2>4 DEF Next
<1>2. QED
  BY <1>1, HandsInvariant, PTL DEF Spec, LossExplained

\* No process holds anything.
LEMMA HaltIsDown ==
    ASSUME NEW how, Halt(how)
    PROVE  Delivered!Down
<1>1. Blocked' = {}
  BY EmptyRange DEF Halt, Blocked
<1>2. Held' = {}
  BY EmptyRange, NoRowsNoSamples DEF Halt, Held, HeldByParser, HeldBySaver
<1>3. UNCHANGED <<accepted, metricValues>>
  BY DEF Halt, tableVars
<1>4. QED
  BY <1>1, <1>2, <1>3 DEF Delivered!Down

\* What Delivery promises clients, the pipeline does: a sample comes into memory
\* with the answer to its request and into the table from memory.
THEOREM PipelineImplementsDelivery == Spec => ImplementsDelivery
<1> DEFINE abstract == <<Blocked, accepted, Held, SamplesOf(metricValues)>>
<1>1. Init => Delivered!Init
  <2> SUFFICES ASSUME Init PROVE Delivered!Init
    OBVIOUS
  <2>1. Blocked = {} /\ accepted = {}
    BY EmptyRange DEF Init, Blocked
  <2>2. Held = {} /\ SamplesOf(metricValues) = {}
    BY EmptyRange, NoRowsNoSamples DEF Init, Held, HeldByParser, HeldBySaver
  <2>3. QED
    BY <2>1, <2>2 DEF Delivered!Init
<1>2. HandsInv /\ [Next]_vars => [Delivered!Next]_(Delivered!vars)
  <2> SUFFICES ASSUME HandsInv, [Next]_vars PROVE Delivered!Next \/ UNCHANGED abstract
    BY DEF Delivered!vars
  <2>0. TypeInv
    BY DEF HandsInv
  <2>1. ASSUME NEW how, Halt(how)
        PROVE  Delivered!Next
    BY <2>1, HaltIsDown DEF Delivered!Next
  <2>2. ASSUME NEW p \in Parsers, ParserStep(p) \/ ParserExit(p), Running'
        PROVE  Delivered!Next
    <3>1. CASE Pop(p)
      <4>1. PICK r \in Requests :
              /\ r \in Blocked /\ Blocked' \in {Blocked, Blocked \ {r}}
              /\ accepted' = accepted \cup {r}
              /\ Held' = Held \cup SamplesIn[r]
              /\ UNCHANGED metricValues
        BY <3>1, PopAnswers
      <4>2. Delivered!Answer(r)
        BY <4>1 DEF Delivered!Answer
      <4>3. QED
        BY <4>2 DEF Delivered!Next
    <3>2. CASE ~Pop(p)
      <4>1. UNCHANGED <<sendq, accepted, metricValues>> /\ Held' \subseteq Held
        BY <2>0, <2>2, <3>2, ParserKeeps, OtherParsersKeep DEF tableVars
      <4>2. Delivered!Lose
        BY <4>1 DEF Delivered!Lose, Blocked
      <4>3. QED
        BY <4>2 DEF Delivered!Next
    <3>3. QED
      BY <3>1, <3>2
  <2>3. ASSUME NEW s \in Savers, SaverStep(s) \/ SaverExit(s), Running'
        PROVE  Delivered!Next
    <3>1. UNCHANGED <<sendq, accepted>> /\ Held' \subseteq Held /\ UNCHANGED Blocked
      BY <2>3, SaverKeeps DEF Blocked
    <3>2. CASE UNCHANGED metricValues
      <4>1. Delivered!Lose
        BY <3>1, <3>2 DEF Delivered!Lose
      <4>2. QED
        BY <4>1 DEF Delivered!Next
    <3>3. CASE metricValues' # metricValues
      <4>1. PICK t \in Savers : CopyRows(t)
        BY <3>3, OnlyCopyStores
      <4>2. SamplesOf(metricValues')
              = SamplesOf(metricValues) \cup SamplesOf(valuesRowsCopy[t])
        BY <2>0, <3>3, <4>1, StoredGrows
      <4>3. SamplesOf(valuesRowsCopy[t]) \subseteq Held
        BY <4>1 DEF CopyRows, Held, HeldBySaver
      <4>4. Held \ Held' \subseteq SamplesOf(metricValues')
        <5>1. /\ UNCHANGED <<valuesRows, valuesRowsCopy, parserVars>>
              /\ \A u \in Savers \ {t} : saverPC'[u] = saverPC[u]
          BY <2>0, <4>1 DEF CopyRows, bufferVars, SaverGoTo, TypeInv, TypeOK, SaverTypeOK
        <5>2. /\ \A p \in Parsers : HeldByParser(p)' = HeldByParser(p)
              /\ \A u \in Savers \ {t} : HeldBySaver(u)' = HeldBySaver(u)
              /\ HeldBySaver(t) \subseteq SamplesOf(valuesRowsCopy[t])
          BY <5>1 DEF HeldByParser, HeldBySaver, parserVars
        <5>3. QED
          BY <4>2, <5>1, <5>2 DEF Held
      <4>5. Delivered!Store
        BY <3>1, <4>2, <4>3, <4>4 DEF Delivered!Store
      <4>6. QED
        BY <4>5 DEF Delivered!Next
    <3>4. QED
      BY <3>2, <3>3
  <2>4. ASSUME NEW r \in Requests, Send(r)
        PROVE  Delivered!Next
    <3>1. sendq \in Seq(Requests) /\ sendq' = Append(sendq, r)
          /\ UNCHANGED <<accepted, bufferVars, parserVars, saverVars, metricValues>>
      BY <2>0, <2>4 DEF Send, TypeInv, TypeOK, ProcTypeOK, tableVars
    <3>2. Blocked' = Blocked \cup {r}
      BY <3>1, RangeOfAppend DEF Blocked
    <3>3. UNCHANGED Held
      BY <3>1 DEF Held, HeldByParser, HeldBySaver, bufferVars, parserVars, saverVars
    <3>4. Delivered!Post(r)
      BY <3>1, <3>2, <3>3 DEF Delivered!Post
    <3>5. QED
      BY <3>4 DEF Delivered!Next
  <2>5. CASE Start \/ Cancel \/ UNCHANGED vars
    <3>1. UNCHANGED <<clientVars, bufferVars, parserVars, saverVars, tableVars>>
      BY <2>5 DEF Start, Cancel, vars
    <3>2. UNCHANGED abstract
      BY <3>1 DEF Blocked, Held, HeldByParser, HeldBySaver, clientVars, bufferVars, parserVars,
         saverVars, tableVars
    <3>3. QED
      BY <3>2
  <2>6. CASE Exit \/ Crash \/ TornSlice
    BY <2>1, <2>6 DEF Exit, Crash, TornSlice
  <2>7. CASE ~Running' /\ ((\E p \in Parsers : ParserStep(p) \/ ParserExit(p))
                            \/ (\E s \in Savers : SaverStep(s) \/ SaverExit(s)))
    <3>1. \E how : Halt(how)
      BY <2>7 DEF ParserStep, ParserExit, ParserTick, Pop, Resolve, AllocateID, UnmarshalBare,
         UnmarshalError, LoadLabelRows, StoreLabelRows, LoadValuesRows, StoreValuesRows,
         SaverStep, SaverExit, SaverTick, CopyLabelRows, CopyValuesRows, InsertLabel,
         CopyRows, ResetLabelRows, ResetValuesRows, ReportSave, procVars, Running
    <3>2. QED
      BY <2>1, <3>1
  <2>8. QED
    BY <2>2, <2>3, <2>4, <2>5, <2>6, <2>7 DEF Next
<1>3. QED
  BY <1>1, <1>2, HandsInvariant, PTL DEF Spec, ImplementsDelivery, Delivered!Spec

\* So what the table has was answered, in this life of the process or before.
THEOREM OnlyAnsweredIsStored == Spec => []Delivered!OnlyAnswered
<1>1. Delivered!Init => Delivered!OnlyAnswered
  BY DEF Delivered!Init, Delivered!OnlyAnswered
<1>2. Delivered!OnlyAnswered /\ [Delivered!Next]_(Delivered!vars) => Delivered!OnlyAnswered'
  BY DEF Delivered!OnlyAnswered, Delivered!Next, Delivered!vars, Delivered!Post,
     Delivered!Answer, Delivered!Store, Delivered!Lose, Delivered!Down
<1>3. QED
  BY <1>1, <1>2, PipelineImplementsDelivery, PTL DEF ImplementsDelivery, Delivered!Spec
=============================================================================
