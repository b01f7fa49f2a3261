--------------------------- MODULE StoreAPIProofs ---------------------------
(***************************************************************************)
(* What Thanos may rely on in the StoreAPI server, proved for any tables,  *)
(* any requests and any interleaving of calls with each other and with     *)
(* ingestion.                                                              *)
(***************************************************************************)
EXTENDS StoreAPI, SelectionProofs, SequenceTheorems

-----------------------------------------------------------------------------
(* Minima.                                                                 *)

\* Min finds the least of finitely many numbers.
LEMMA MinIsLeast ==
    ASSUME NEW S, IsFiniteSet(S), S # {}, S \subseteq Int
    PROVE  Min(S) \in S /\ \A y \in S : Min(S) <= y
BY LeastExists DEF Min

-----------------------------------------------------------------------------
(* Chunks.                                                                 *)

\* The lesser of two numbers.
LEMMA MinOfTwo ==
    ASSUME NEW a \in Int, NEW b \in Int
    PROVE  Min({a, b}) = IF a <= b THEN a ELSE b
<1>1. IsFiniteSet({a, b})
  <2>1. IsFiniteSet({a} \cup {b}) /\ {a} \cup {b} = {a, b}
    BY FS_Singleton, FS_AddElement
  <2> QED
    BY <2>1
<1>2. Min({a, b}) \in {a, b} /\ \A y \in {a, b} : Min({a, b}) <= y
  BY <1>1, MinIsLeast
<1> QED
  BY <1>2

\* Where the chunks of n samples begin and end: each begins within the samples,
\* and all but the last end within them.
LEMMA ChunkBounds ==
    ASSUME NEW n \in Nat, NEW size \in Nat \ {0}
    PROVE  LET last == (n + size - 1) \div size
           IN  /\ last \in Nat /\ n <= last * size
               /\ \A k \in 1..last : /\ (k - 1) * size \in Nat /\ (k - 1) * size < n
                                     /\ k * size = (k - 1) * size + size
               /\ \A k \in 1..last : k < last => k * size < n
<1> DEFINE last == (n + size - 1) \div size
<1>1. last \in Nat /\ last * size <= n + size - 1 /\ n + size - 1 < last * size + size
  OBVIOUS
<1> HIDE DEF last
<1>2. ASSUME NEW a \in Nat, NEW b \in Nat, a <= b
      PROVE  a * size <= b * size /\ a * size \in Nat /\ b * size \in Nat
  BY <1>2
<1>3. n <= last * size
  BY <1>1, <1>2
<1>4. ASSUME NEW k \in 1..last
      PROVE  /\ (k - 1) * size \in Nat /\ (k - 1) * size < n
             /\ k * size = (k - 1) * size + size
  <2>1. k - 1 \in Nat /\ k \in Nat /\ k <= last
    BY <1>1
  <2>2. k * size = (k - 1) * size + size
    BY <2>1
  <2>3. k * size <= last * size /\ k * size \in Nat /\ (k - 1) * size \in Nat
    BY <1>1, <1>2, <2>1
  <2>4. last * size \in Nat
    BY <1>1
  <2> QED
    BY <1>1, <2>2, <2>3, <2>4
<1>5. ASSUME NEW k \in 1..last, k < last
      PROVE  k * size < n
  <2>1. k + 1 \in 1..last /\ (k + 1) - 1 = k
    BY <1>1, <1>5
  <2> QED
    BY <1>4, <2>1
<1> QED
  BY <1>1, <1>3, <1>4, <1>5 DEF last

\* The chunks of some samples: what a chunk holds and announces.
LEMMA ChunksOf ==
    ASSUME NEW samples \in Seq(Int)
    PROVE  LET chunks == EncodeXORChunks(samples)
               begin(k) == (k - 1) * MaxSamplesPerChunk
           IN  /\ Len(chunks) \in Nat /\ DOMAIN chunks = 1..Len(chunks)
               /\ Len(samples) <= Len(chunks) * MaxSamplesPerChunk
               /\ \A k \in 1..Len(chunks) :
                     LET held == chunks[k].samples
                     IN  /\ begin(k) \in Nat /\ begin(k) < Len(samples)
                         /\ begin(k + 1) = begin(k) + MaxSamplesPerChunk
                         /\ held \in Seq(Int)
                         /\ Len(held) = IF begin(k + 1) <= Len(samples) THEN MaxSamplesPerChunk
                                        ELSE Len(samples) - begin(k)
                         /\ k < Len(chunks) => begin(k + 1) < Len(samples)
                         /\ \A j \in 1..Len(held) : held[j] = samples[begin(k) + j]
                         /\ chunks[k] = [minTime |-> held[1], maxTime |-> held[Len(held)],
                                         samples |-> held]
<1> DEFINE M == MaxSamplesPerChunk
           n == Len(samples)
           last == (n + M - 1) \div M
           chunks == EncodeXORChunks(samples)
           begin(k) == (k - 1) * M
           part(k) == SubSeq(samples, begin(k) + 1, Min({k * M, n}))
<1>1. n \in Nat /\ M \in Nat \ {0}
  BY LenProperties, StoreAPIAssumption
<1>2. chunks = [k \in 1..last |-> Chunk(part(k))]
  BY DEF EncodeXORChunks
<1> HIDE DEF chunks, n, M
<1>3. /\ last \in Nat /\ n <= last * M
      /\ \A k \in 1..last : /\ begin(k) \in Nat /\ begin(k) < n
                            /\ k * M = begin(k) + M
      /\ \A k \in 1..last : k < last => k * M < n
  BY <1>1, ChunkBounds
<1> HIDE DEF last
<1>4. Len(chunks) = last /\ DOMAIN chunks = 1..last
  BY <1>2, <1>3
<1>5. ASSUME NEW k \in 1..last
      PROVE  /\ part(k) \in Seq(Int)
             /\ Len(part(k)) = IF k * M <= n THEN M ELSE n - begin(k)
             /\ \A j \in 1..Len(part(k)) : part(k)[j] = samples[begin(k) + j]
             /\ begin(k + 1) = begin(k) + M
             /\ chunks[k] = Chunk(part(k))
  <2>1. /\ begin(k) \in Nat /\ begin(k) < n /\ k * M = begin(k) + M
        /\ k * M \in Nat /\ (k + 1) - 1 = k
    BY <1>1, <1>3
  <2> HIDE DEF begin
  <2>2. Min({k * M, n}) = IF k * M <= n THEN k * M ELSE n
    BY <1>1, <2>1, MinOfTwo
  <2> DEFINE m == IF k * M <= n THEN k * M ELSE n
  <2>3. m \in Nat /\ begin(k) + 1 <= m /\ m <= n /\ begin(k) + 1 \in Nat
    BY <1>1, <2>1
  <2>4. \A i \in (begin(k) + 1)..m : samples[i] \in Int
    <3>1. \A i \in (begin(k) + 1)..m : i \in 1..n
      BY <1>1, <2>1, <2>3
    <3> QED
      BY <3>1, ElementOfSeq DEF n
  <2> HIDE DEF m
  <2>5. /\ SubSeq(samples, begin(k) + 1, m) \in Seq(Int)
        /\ Len(SubSeq(samples, begin(k) + 1, m)) = m - (begin(k) + 1) + 1
        /\ \A i \in 1 .. m - (begin(k) + 1) + 1 :
              SubSeq(samples, begin(k) + 1, m)[i] = samples[(begin(k) + 1) + i - 1]
    BY <2>3, <2>4, SubSeqProperties
  <2>6. m - (begin(k) + 1) + 1 = IF k * M <= n THEN M ELSE n - begin(k)
    <3> DEFINE e == k * M
               b == begin(k)
    <3>1. e \in Nat /\ b \in Nat /\ e = b + M /\ m = IF e <= n THEN e ELSE n
      BY <2>1 DEF m
    <3> HIDE DEF e, b
    <3>2. m - (b + 1) + 1 = IF e <= n THEN M ELSE n - b
      BY <1>1, <3>1
    <3> QED
      BY <3>2 DEF e, b
  <2>7. \A i \in 1 .. m - (begin(k) + 1) + 1 : (begin(k) + 1) + i - 1 = begin(k) + i
    BY <2>1, <2>3
  <2>8. part(k) = SubSeq(samples, begin(k) + 1, m)
    BY <2>2 DEF m
  <2>9. begin(k + 1) = begin(k) + M
    BY <2>1 DEF begin
  <2>10. chunks[k] = Chunk(part(k))
    BY <1>2
  <2> HIDE DEF part
  <2> QED
    BY <2>5, <2>6, <2>7, <2>8, <2>9, <2>10
<1>6. \A k \in 1..last : k * M = begin(k + 1)
  BY <1>1, <1>3, <1>5
<1> HIDE DEF begin, part
<1>7. \A k \in 1..last :
        LET held == chunks[k].samples
        IN  /\ begin(k) \in Nat /\ begin(k) < n /\ begin(k + 1) = begin(k) + M
            /\ held \in Seq(Int)
            /\ Len(held) = IF begin(k + 1) <= n THEN M ELSE n - begin(k)
            /\ k < last => begin(k + 1) < n
            /\ \A j \in 1..Len(held) : held[j] = samples[begin(k) + j]
            /\ chunks[k] = [minTime |-> held[1], maxTime |-> held[Len(held)], samples |-> held]
  <2> TAKE k \in 1..last
  <2> DEFINE held == part(k)
  <2>1. /\ begin(k) \in Nat /\ begin(k) < n /\ begin(k + 1) = begin(k) + M
        /\ k < last => begin(k + 1) < n
    BY <1>3, <1>5, <1>6
  <2>2. /\ held \in Seq(Int)
        /\ Len(held) = IF begin(k + 1) <= n THEN M ELSE n - begin(k)
        /\ \A j \in 1..Len(held) : held[j] = samples[begin(k) + j]
    BY <1>5, <1>6
  <2>3. chunks[k] = [minTime |-> held[1], maxTime |-> held[Len(held)], samples |-> held]
    BY <1>5 DEF Chunk
  <2> HIDE DEF held
  <2>4. chunks[k].samples = held
    BY <2>3
  <2> QED
    BY <2>1, <2>2, <2>3, <2>4
<1>8. Len(chunks) \in Nat /\ DOMAIN chunks = 1..Len(chunks) /\ n <= Len(chunks) * M
  BY <1>3, <1>4
<1> QED
  BY <1>4, <1>7, <1>8 DEF n, M, begin, chunks

\* What StreamSorted asks of the chunks of a series.
WellChunked(chunks) ==
    \A k \in DOMAIN chunks :
        /\ Len(chunks[k].samples) \in 1..MaxSamplesPerChunk
        /\ k < Len(chunks) => /\ Len(chunks[k].samples) = MaxSamplesPerChunk
                              /\ chunks[k].maxTime <= chunks[k + 1].minTime
        /\ \A j \in DOMAIN chunks[k].samples :
              /\ chunks[k].minTime <= chunks[k].samples[j]
              /\ chunks[k].samples[j] <= chunks[k].maxTime

ChunkType == [minTime : Int, maxTime : Int, samples : Seq(Int)]

\* The chunks of sorted samples are as Thanos wants them, and no sample comes
\* out that did not go in.
LEMMA ChunksOfSorted ==
    ASSUME NEW samples \in Seq(Int),
           \A i, j \in 1..Len(samples) : i < j => samples[i] <= samples[j]
    PROVE  LET chunks == EncodeXORChunks(samples)
           IN  /\ chunks \in Seq(ChunkType) /\ WellChunked(chunks)
               /\ \A k \in DOMAIN chunks : \A j \in DOMAIN chunks[k].samples :
                     \E i \in 1..Len(samples) : chunks[k].samples[j] = samples[i]
<1> DEFINE chunks == EncodeXORChunks(samples)
           M == MaxSamplesPerChunk
           n == Len(samples)
           begin(k) == (k - 1) * MaxSamplesPerChunk
<1>1. M \in Nat \ {0} /\ n \in Nat
  BY StoreAPIAssumption, LenProperties
<1>2. /\ Len(chunks) \in Nat /\ DOMAIN chunks = 1..Len(chunks)
      /\ \A k \in 1..Len(chunks) :
            LET held == chunks[k].samples
            IN  /\ begin(k) \in Nat /\ begin(k) < n
                /\ begin(k + 1) = begin(k) + M
                /\ held \in Seq(Int)
                /\ Len(held) = IF begin(k + 1) <= n THEN M ELSE n - begin(k)
                /\ k < Len(chunks) => begin(k + 1) < n
                /\ \A j \in 1..Len(held) : held[j] = samples[begin(k) + j]
                /\ chunks[k] = [minTime |-> held[1], maxTime |-> held[Len(held)],
                                samples |-> held]
  BY ChunksOf
<1>3. \A i, j \in 1..n : i <= j => samples[i] <= samples[j]
  <2>1. \A i \in 1..n : samples[i] \in Int
    BY ElementOfSeq
  <2> QED
    BY <1>1, <2>1
<1> HIDE DEF chunks, n, M, begin
<1>4. ASSUME NEW k \in 1..Len(chunks)
      PROVE  LET held == chunks[k].samples
             IN  /\ held \in Seq(Int) /\ Len(held) \in 1..M /\ DOMAIN held = 1..Len(held)
                 /\ k < Len(chunks) => Len(held) = M
                 /\ \A j \in 1..Len(held) : /\ begin(k) + j \in 1..n
                                            /\ held[j] = samples[begin(k) + j]
                 /\ chunks[k] = [minTime |-> held[1], maxTime |-> held[Len(held)],
                                 samples |-> held]
                 /\ chunks[k].minTime = held[1] /\ chunks[k].maxTime = held[Len(held)]
                 /\ 1 \in 1..Len(held) /\ Len(held) \in 1..Len(held)
  <2> DEFINE held == chunks[k].samples
  <2>1. /\ begin(k) \in Nat /\ begin(k) < n
        /\ begin(k + 1) = begin(k) + M
        /\ held \in Seq(Int)
        /\ Len(held) = IF begin(k + 1) <= n THEN M ELSE n - begin(k)
        /\ k < Len(chunks) => begin(k + 1) < n
        /\ \A j \in 1..Len(held) : held[j] = samples[begin(k) + j]
        /\ chunks[k] = [minTime |-> held[1], maxTime |-> held[Len(held)], samples |-> held]
    BY <1>2
  <2> DEFINE size == Len(held)
  <2>2. /\ begin(k) \in Nat /\ begin(k) < n /\ begin(k + 1) = begin(k) + M
        /\ size = IF begin(k + 1) <= n THEN M ELSE n - begin(k)
        /\ k < Len(chunks) => begin(k + 1) < n
    BY <2>1
  <2> HIDE DEF size
  <2>3. size \in 1..M /\ begin(k) + size <= n
    BY <1>1, <2>2
  <2>4. \A j \in 1..size : begin(k) + j \in 1..n
    BY <1>1, <2>2, <2>3
  <2>5. k < Len(chunks) => Len(held) = M
    BY <1>1, <2>2 DEF size
  <2>6. Len(held) \in 1..M /\ begin(k) + Len(held) <= n
    BY <2>3 DEF size
  <2>7. \A j \in 1..Len(held) : begin(k) + j \in 1..n
    BY <2>4 DEF size
  <2>8. DOMAIN held = 1..Len(held)
    BY <2>1, LenProperties
  <2>9. chunks[k].minTime = held[1] /\ chunks[k].maxTime = held[Len(held)]
    BY <2>1
  <2>10. 1 \in 1..Len(held) /\ Len(held) \in 1..Len(held)
    BY <1>1, <2>6
  <2> QED
    BY <2>1, <2>5, <2>6, <2>7, <2>8, <2>9, <2>10
<1>5. \A k \in 1..Len(chunks) : begin(k) \in Nat
  BY <1>2
<1>6. ASSUME NEW k \in 1..Len(chunks), NEW j \in 1..Len(chunks[k].samples)
      PROVE  /\ chunks[k].minTime <= chunks[k].samples[j]
             /\ chunks[k].samples[j] <= chunks[k].maxTime
  <2> DEFINE held == chunks[k].samples
  <2>1. chunks[k].minTime = held[1] /\ chunks[k].maxTime = held[Len(held)]
    BY <1>4
  <2>2. Len(held) \in 1..M /\ 1 \in 1..Len(held) /\ Len(held) \in 1..Len(held)
    BY <1>4
  <2>3. \A i \in 1..Len(held) : begin(k) + i \in 1..n /\ held[i] = samples[begin(k) + i]
    BY <1>4
  <2>4. begin(k) + 1 <= begin(k) + j /\ begin(k) + j <= begin(k) + Len(held)
    BY <1>1, <1>5, <2>2
  <2> QED
    BY <1>3, <2>1, <2>2, <2>3, <2>4
<1>7. ASSUME NEW k \in 1..Len(chunks), k < Len(chunks)
      PROVE  chunks[k].maxTime <= chunks[k + 1].minTime
  <2>1. k + 1 \in 1..Len(chunks)
    BY <1>2, <1>7
  <2> DEFINE held == chunks[k].samples
             next == chunks[k + 1].samples
  <2>2. Len(held) = M /\ chunks[k].maxTime = held[Len(held)] /\ Len(held) \in 1..Len(held)
    BY <1>4, <1>7
  <2>3. begin(k) + M \in 1..n /\ held[M] = samples[begin(k) + M]
    BY <1>4, <2>2
  <2>4. chunks[k + 1].minTime = next[1] /\ 1 \in 1..Len(next)
    BY <1>4, <2>1
  <2>5. begin(k + 1) + 1 \in 1..n /\ next[1] = samples[begin(k + 1) + 1]
    BY <1>4, <2>1, <2>4
  <2>6. begin(k + 1) = begin(k) + M /\ begin(k) \in Nat
    BY <1>2
  <2>7. begin(k) + M <= begin(k + 1) + 1
    BY <1>1, <2>6
  <2> QED
    BY <1>3, <2>2, <2>3, <2>4, <2>5, <2>7
<1>8. WellChunked(chunks)
  BY <1>2, <1>4, <1>6, <1>7 DEF WellChunked, M
<1>9. \A k \in 1..Len(chunks) : chunks[k] \in ChunkType
  <2> SUFFICES ASSUME NEW k \in 1..Len(chunks) PROVE chunks[k] \in ChunkType
    OBVIOUS
  <2> DEFINE held == chunks[k].samples
  <2>1. /\ held \in Seq(Int) /\ Len(held) \in 1..M
        /\ chunks[k] = [minTime |-> held[1], maxTime |-> held[Len(held)], samples |-> held]
    BY <1>4
  <2>2. held[1] \in Int /\ held[Len(held)] \in Int
    BY <1>1, <2>1
  <2> QED
    BY <2>1, <2>2 DEF ChunkType
<1>10. \A k \in 1..Len(chunks) : \A j \in 1..Len(chunks[k].samples) :
          \E i \in 1..n : chunks[k].samples[j] = samples[i]
  BY <1>4
<1>11. chunks \in Seq(ChunkType)
  <2>1. chunks = [k \in 1..Len(chunks) |-> chunks[k]]
    BY <1>2 DEF chunks, EncodeXORChunks
  <2> QED
    BY <1>2, <1>9, <2>1
<1>12. ASSUME NEW k \in DOMAIN chunks, NEW j \in DOMAIN chunks[k].samples
       PROVE  \E i \in 1..n : chunks[k].samples[j] = samples[i]
  <2>1. k \in 1..Len(chunks)
    BY <1>2
  <2>2. j \in 1..Len(chunks[k].samples)
    BY <1>4, <2>1
  <2> QED
    BY <1>10, <2>1, <2>2
<1> QED
  BY <1>8, <1>11, <1>12 DEF chunks, n

\* The times of the rows at some positions, in order: as many as there are
\* positions, each that of one.
LEMMA TimesSorted ==
    ASSUME NEW rows, Len(rows) \in Nat, \A i \in 1..Len(rows) : UnixMilli(rows[i].at) \in Int,
           NEW positions \in SUBSET (1..Len(rows))
    PROVE  LET times == SortedTimes(rows, positions)
           IN  /\ times \in Seq(Int)
               /\ \A i, j \in 1..Len(times) : i < j => times[i] <= times[j]
               /\ \E f \in Bijection(1..Len(times), positions) :
                     \A i \in 1..Len(times) : times[i] = UnixMilli(rows[f[i]].at)
<1> DEFINE time == [i \in positions |-> UnixMilli(rows[i].at)]
           InTime(f) == \A i, j \in DOMAIN f :
                           i < j => UnixMilli(rows[f[i]].at) <= UnixMilli(rows[f[j]].at)
           sorted == CHOOSE f \in SetToSeqs(positions) : InTime(f)
           times == SortedTimes(rows, positions)
<1>1. IsFiniteSet(positions)
  <2>1. IsFiniteSet(1..Len(rows))
    BY FS_Interval
  <2> QED
    BY <2>1, FS_Subset
<1>2. time \in [positions -> Int]
  OBVIOUS
<1>3. PICK f \in SetToSeqs(positions) :
         \A i, j \in DOMAIN f : i < j => time[f[i]] <= time[f[j]]
  BY <1>1, <1>2, SortedExists
<1>4. InTime(f)
  <2>1. DOMAIN f = 1..Len(f) /\ f \in Seq(positions)
    BY <1>1, Enumeration
  <2>2. \A i \in DOMAIN f : time[f[i]] = UnixMilli(rows[f[i]].at)
    BY <2>1
  <2> QED
    BY <1>3, <2>2
<1>5. sorted \in SetToSeqs(positions) /\ InTime(sorted)
  BY <1>4
<1>6. times = [i \in DOMAIN sorted |-> UnixMilli(rows[sorted[i]].at)]
  BY DEF SortedTimes
<1> HIDE DEF times, sorted
<1>7. /\ sorted \in Seq(positions) /\ Len(sorted) = Cardinality(positions)
      /\ DOMAIN sorted = 1..Len(sorted) /\ sorted \in Bijection(1..Len(sorted), positions)
      /\ Len(sorted) \in Nat
  BY <1>1, <1>5, Enumeration, LenProperties
<1>8. \A i \in 1..Len(sorted) : UnixMilli(rows[sorted[i]].at) \in Int
  BY <1>7, ElementOfSeq
<1>9. times \in Seq(Int) /\ Len(times) = Len(sorted)
  <2> DEFINE n == Len(sorted)
  <2>1. n \in Nat /\ times = [i \in 1..n |-> UnixMilli(rows[sorted[i]].at)]
    BY <1>6, <1>7
  <2>2. \A i \in 1..n : UnixMilli(rows[sorted[i]].at) \in Int
    BY <1>8
  <2> HIDE DEF n
  <2>3. times \in [1..n -> Int]
    BY <2>1, <2>2
  <2> QED
    BY <2>1, <2>3 DEF n
<1>10. \A i \in 1..Len(times) : times[i] = UnixMilli(rows[sorted[i]].at)
  BY <1>6, <1>7, <1>9
<1>11. \A i, j \in 1..Len(times) : i < j => times[i] <= times[j]
  BY <1>5, <1>7, <1>9, <1>10
<1> QED
  BY <1>1, <1>7, <1>9, <1>10, <1>11 DEF times

-----------------------------------------------------------------------------
(* Series.                                                                 *)

\* There is one series for each key that rows have, with the labels and the
\* times of its rows, and they are in the order of their label sets.
BuiltFrom(rows, skip, built) ==
    LET keys == {RowKey(rows[i]) : i \in 1..Len(rows)}
    IN  /\ Len(built) \in Nat /\ DOMAIN built = 1..Len(built)
        /\ \A i, j \in 1..Len(built) : i < j => ~Precedes(built[j].lset, built[i].lset)
        /\ \E f \in Bijection(1..Len(built), keys) : \A i \in 1..Len(built) :
              built[i] = [lset   |-> PromLabels(f[i][1], f[i][2]),
                          chunks |-> IF skip THEN <<>>
                                     ELSE EncodeXORChunks(SortedTimes(rows, Group(rows, f[i])))]

\* Such are the series built.
LEMMA SeriesBuilt ==
    ASSUME NEW rows, Len(rows) \in Nat, \A i \in 1..Len(rows) : UnixMilli(rows[i].at) \in Int,
           NEW skip \in BOOLEAN, NEW built \in BuildSeries(rows, skip)
    PROVE  BuiltFrom(rows, skip, built)
<1> DEFINE keys == {RowKey(rows[i]) : i \in 1..Len(rows)}
           first(key) == rows[Min(Group(rows, key))]
           chunks(key) == EncodeXORChunks(SortedTimes(rows, Group(rows, key)))
           made(key) == [key |-> key, lset |-> PromLabels(key[1], key[2]), chunks |-> chunks(key)]
           S == SeriesOfRows(rows)
<1>1. ASSUME NEW key \in keys
      PROVE  first(key).name = key[1] /\ first(key).labels = key[2]
  <2>1. Group(rows, key) # {} /\ Group(rows, key) \subseteq 1..Len(rows)
    BY DEF Group
  <2>2. IsFiniteSet(1..Len(rows))
    BY FS_Interval
  <2>3. IsFiniteSet(Group(rows, key))
    BY <2>1, <2>2, FS_Subset
  <2>4. Min(Group(rows, key)) \in Group(rows, key)
    BY <2>1, <2>3, MinIsLeast
  <2>5. RowKey(first(key)) = key
    BY <2>4 DEF Group
  <2> QED
    BY <2>5 DEF RowKey
<1>2. S = {made(key) : key \in keys}
  <2>1. S = {[key |-> key, lset |-> PromLabels(first(key).name, first(key).labels),
              chunks |-> chunks(key)] : key \in keys}
    BY DEF SeriesOfRows
  <2> HIDE DEF first, chunks, keys, S
  <2> QED
    BY <1>1, <2>1
<1>3. IsFiniteSet(keys)
  <2> DEFINE F == [i \in 1..Len(rows) |-> RowKey(rows[i])]
  <2>1. F \in Surjection(1..Len(rows), keys)
    <3>1. F \in [1..Len(rows) -> keys] /\ \A k \in keys : \E i \in 1..Len(rows) : F[i] = k
      OBVIOUS
    <3> QED
      BY <3>1, Fun_IsSurj
  <2>2. IsFiniteSet(1..Len(rows))
    BY FS_Interval
  <2> QED
    BY <2>1, <2>2, FS_Surjection
<1> HIDE DEF keys, S, chunks
<1>4. \A s \in S : s = made(s.key) /\ s.key \in keys
  BY <1>2
<1>5. IsFiniteSet(S)
  <2> DEFINE F == [key \in keys |-> made(key)]
  <2>1. F \in Surjection(keys, S)
    <3>1. F \in [keys -> S] /\ \A s \in S : \E k \in keys : F[k] = s
      BY <1>2
    <3> QED
      BY <3>1, Fun_IsSurj
  <2> QED
    BY <1>3, <2>1, FS_Surjection
<1>6. PICK g \in SortedStreams(S) :
         built = [i \in DOMAIN g |-> [lset   |-> g[i].lset,
                                      chunks |-> IF skip THEN <<>> ELSE g[i].chunks]]
  BY DEF BuildSeries, S
<1>7. /\ g \in SetToSeqs(S)
      /\ \A i, j \in DOMAIN g : i < j => ~Precedes(g[j].lset, g[i].lset)
  BY DEF SortedStreams
<1>8. /\ DOMAIN g = 1..Len(g) /\ g \in Bijection(1..Len(g), S) /\ Len(g) = Cardinality(S)
  BY <1>5, <1>7, Enumeration
<1>9. Len(g) \in Nat
  BY <1>5, <1>8, FS_CardinalityType
<1>10. DOMAIN built = 1..Len(g) /\ Len(built) = Len(g)
  BY <1>6, <1>8, <1>9
<1>11. /\ g \in [1..Len(g) -> S]
       /\ \A i, j \in 1..Len(g) : g[i] = g[j] => i = j
       /\ \A s \in S : \E i \in 1..Len(g) : g[i] = s
  <2>1. g \in Bijection(1..Len(g), S)
    BY <1>8
  <2> QED
    BY <2>1, Fun_BijectionProperties
<1> DEFINE f == [i \in 1..Len(g) |-> g[i].key]
<1>12. f \in [1..Len(g) -> keys]
  BY <1>4, <1>11
<1>13. \A i, j \in 1..Len(g) : f[i] = f[j] => i = j
  BY <1>4, <1>11
<1>14. \A key \in keys : \E i \in 1..Len(g) : f[i] = key
  <2> SUFFICES ASSUME NEW key \in keys PROVE \E i \in 1..Len(g) : f[i] = key
    OBVIOUS
  <2>1. made(key) \in S /\ made(key).key = key
    BY <1>2
  <2> HIDE DEF made
  <2>2. PICK i \in 1..Len(g) : g[i] = made(key)
    BY <1>11, <2>1
  <2> QED
    BY <2>1, <2>2
<1>15. f \in Bijection(1..Len(built), keys)
  BY <1>10, <1>12, <1>13, <1>14, Fun_IsBij
<1>16. \A i \in 1..Len(g) : g[i] = made(f[i])
  BY <1>4, <1>11
<1>17. ASSUME NEW i \in 1..Len(built)
       PROVE  built[i] = [lset   |-> PromLabels(f[i][1], f[i][2]),
                          chunks |-> IF skip THEN <<>> ELSE chunks(f[i])]
  <2>1. built[i] = [lset |-> g[i].lset, chunks |-> IF skip THEN <<>> ELSE g[i].chunks]
    BY <1>6, <1>8, <1>10
  <2>2. g[i] = made(f[i])
    BY <1>10, <1>16
  <2>3. ASSUME NEW key
        PROVE  /\ made(key).lset = PromLabels(key[1], key[2])
               /\ made(key).chunks = chunks(key)
    OBVIOUS
  <2> HIDE DEF made, f
  <2>4. g[i].lset = PromLabels(f[i][1], f[i][2]) /\ g[i].chunks = chunks(f[i])
    BY <2>2, <2>3
  <2> QED
    BY <2>1, <2>4
<1>18. \A i, j \in 1..Len(built) : i < j => ~Precedes(built[j].lset, built[i].lset)
  <2>1. \A i \in 1..Len(built) : built[i].lset = g[i].lset
    BY <1>6, <1>8, <1>10
  <2> QED
    BY <1>7, <1>8, <1>10, <2>1
<1> HIDE DEF f
<1> QED
  BY <1>9, <1>10, <1>15, <1>17, <1>18 DEF keys, chunks, BuiltFrom

-----------------------------------------------------------------------------
(* What a call asks, and what of it the database is asked.                 *)

\* The request of a call, one part at a time.
LEMMA RequestType ==
    ASSUME NEW r \in Requests
    PROVE  /\ r.matchers \in Seq(Matcher) /\ ToSet(r.matchers) \subseteq Matcher
           /\ r.start \in Int /\ r.end \in Int /\ r.label \in Strings /\ r.skipChunks \in BOOLEAN
           /\ r.kind \in {"Info", "Series", "LabelNames", "LabelValues"}
<1>1. r.matchers \in Seq(Matcher)
  BY StoreAPIAssumption
<1>2. ToSet(r.matchers) \subseteq Matcher
  BY <1>1, ElementOfSeq, LenProperties DEF ToSet
<1> QED
  BY <1>1, <1>2, StoreAPIAssumption

\* What a client sees under a name is the external label's value, if there is
\* one, and else the stored one's.
LEMMA ClientValue ==
    ASSUME NEW metric \in Metrics, NEW name
    PROVE  LET series == SeriesOf[metric]
           IN  ValueIn(PromLabels(series.name, series.labels), name) =
                  IF name \in DOMAIN ExternalLabels THEN ExternalLabels[name]
                  ELSE ValueIn(StoredLabels(series), name)
<1> DEFINE series == SeriesOf[metric]
           seen == PromLabels(series.name, series.labels)
<1>1. NameLabel \notin DOMAIN ExternalLabels
  BY StoreAPIAssumption
<1>2. NameLabel \notin DOMAIN series.labels
  BY SeriesType
<1>3. DOMAIN seen = {NameLabel} \cup DOMAIN series.labels \cup DOMAIN ExternalLabels
  BY DEF PromLabels
<1>4. \A n \in DOMAIN seen : seen[n] = IF n = NameLabel THEN series.name
                                       ELSE IF n \in DOMAIN ExternalLabels THEN ExternalLabels[n]
                                       ELSE series.labels[n]
  BY DEF PromLabels
<1> HIDE DEF seen
<1>5. CASE name \in DOMAIN ExternalLabels
  BY <1>1, <1>3, <1>4, <1>5 DEF ValueIn, seen
<1>6. CASE name \notin DOMAIN ExternalLabels
  BY <1>2, <1>3, <1>4, <1>6 DEF ValueIn, StoredLabels, seen
<1> QED
  BY <1>5, <1>6

\* Matchers none of which decides the answer: the database is asked the rest of
\* them, of what is stored, and that comes to asking all of them of what the
\* client sees.
LEMMA MatchersSplit ==
    ASSUME NEW matchers \in Seq(Matcher), DecisiveIn(matchers) = {}, NEW metric \in Metrics
    PROVE  /\ PromMatchers(matchers) \subseteq Matcher /\ ~BuildFails(PromMatchers(matchers))
           /\ LET series == SeriesOf[metric]
              IN  Satisfies(PromLabels(series.name, series.labels), ToSet(matchers))
                    <=> Satisfies(StoredLabels(series), PromMatchers(matchers))
<1> DEFINE series == SeriesOf[metric]
           seen == PromLabels(series.name, series.labels)
<1>1. ToSet(matchers) \subseteq Matcher /\ \A m \in ToSet(matchers) : ~Decisive(m)
  <2>1. DOMAIN matchers = 1..Len(matchers)
    BY LenProperties
  <2> QED
    BY <2>1, ElementOfSeq DEF ToSet, DecisiveIn
<1>2. ASSUME NEW m \in ToSet(matchers)
      PROVE  /\ m.type # "unknown"
             /\ External(m) => Matches(m, ValueIn(seen, m.name))
             /\ ~External(m) => ValueIn(seen, m.name) = ValueIn(StoredLabels(series), m.name)
  BY <1>1, ClientValue DEF Decisive, External
<1>3. Satisfies(seen, ToSet(matchers)) <=> Satisfies(StoredLabels(series), PromMatchers(matchers))
  BY <1>2 DEF Satisfies, PromMatchers
<1> QED
  BY <1>1, <1>2, <1>3 DEF PromMatchers, BuildFails

-----------------------------------------------------------------------------
(* The rows of a query.                                                    *)

\* What the tables hold.
TablesOK ==
    /\ metricLabels \subseteq Registrations /\ IsFiniteSet(metricLabels)
    /\ metricValues \in Seq(ValueRows)

\* A label row names a series, and a value was written for a time.
LEMMA TableRows ==
    ASSUME TablesOK
    PROVE  /\ \A l \in metricLabels : l.metric \in Metrics
           /\ Len(metricValues) \in Nat
           /\ \A i \in 1..Len(metricValues) :
                 metricValues[i].sample.at \in Times /\ metricValues[i].sample.at \in Int
<1>1. Len(metricValues) \in Nat /\ \A i \in 1..Len(metricValues) : metricValues[i] \in ValueRows
  BY LenProperties, ElementOfSeq DEF TablesOK
<1>2. ASSUME NEW row \in ValueRows
      PROVE  row.sample.at \in Times
  BY DEF ValueRows
<1> QED
  BY <1>1, <1>2, StoreAPIAssumption DEF TablesOK

\* The labels a client sees a label row's series under.
SeenOf(l) == PromLabels(SeriesOf[l.metric].name, SeriesOf[l.metric].labels)

\* The milliseconds that a pair of rows is read at.
ReadAt(pair) == UnixMilli(MetricTime(WrittenAt(pair)))

\* The pairs that a call's query joins are the stored samples of the series that
\* match, read at a time of the range.
LEMMA JoinedPairs ==
    ASSUME TablesOK, NEW c, request[c] \in Requests, Admitted(c)
    PROVE  Joined(BuildSQLQuery(PromQuery(c)), metricLabels, metricValues) =
             {pair \in metricLabels \X (1..Len(metricValues)) :
                /\ metricValues[pair[2]].id = pair[1].id
                /\ Satisfies(SeenOf(pair[1]), ToSet(request[c].matchers))
                /\ request[c].start <= ReadAt(pair) /\ ReadAt(pair) <= request[c].end}
<1> DEFINE q == PromQuery(c)
           read(pair) == ReadMilliseconds(MetricTime(metricValues[pair[2]].sample.at))
<1>1. /\ q.matchers = PromMatchers(request[c].matchers)
      /\ q.start = request[c].start /\ q.end = request[c].end
  BY DEF PromQuery
<1>2. request[c].matchers \in Seq(Matcher) /\ request[c].start \in Int /\ request[c].end \in Int
  BY RequestType
<1>3. DecisiveIn(request[c].matchers) = {}
  BY DEF Admitted
<1>4. \A metric \in Metrics :
        /\ q.matchers \subseteq Matcher /\ ~BuildFails(q.matchers)
        /\ Satisfies(PromLabels(SeriesOf[metric].name, SeriesOf[metric].labels),
                     ToSet(request[c].matchers))
             <=> Satisfies(StoredLabels(SeriesOf[metric]), q.matchers)
  BY <1>1, <1>2, <1>3, MatchersSplit
<1>5. /\ \A l \in metricLabels : l.metric \in Metrics
      /\ \A i \in 1..Len(metricValues) : metricValues[i].sample.at \in Int
  BY TableRows
<1> HIDE DEF q
<1>6. ASSUME NEW pair \in metricLabels \X (1..Len(metricValues))
      PROVE  /\ read(pair) = ReadAt(pair)
             /\ Satisfies(SeenOf(pair[1]), ToSet(request[c].matchers))
                  <=> Satisfies(StoredLabels(SeriesOf[pair[1].metric]), q.matchers)
  <2>1. pair[1] \in metricLabels /\ pair[2] \in 1..Len(metricValues)
    OBVIOUS
  <2>2. read(pair) = ReadAt(pair)
    BY <1>5, <2>1, ReadPathsAgree DEF ReadAt, WrittenAt
  <2> QED
    BY <1>4, <1>5, <2>1, <2>2 DEF SeenOf
<1>7. CASE metricLabels = {}
  BY <1>7 DEF Joined, Selected
<1>8. CASE metricLabels # {}
  <2>1. q.matchers \subseteq Matcher /\ ~BuildFails(q.matchers)
    BY <1>4, <1>5, <1>8
  <2>2. Joined(BuildSQLQuery(q), metricLabels, metricValues) =
             {pair \in metricLabels \X (1..Len(metricValues)) :
                 /\ pair[1].id = metricValues[pair[2]].id
                 /\ Satisfies(StoredLabels(SeriesOf[pair[1].metric]), q.matchers)
                 /\ q.start <= read(pair) /\ read(pair) <= q.end}
    BY <1>1, <1>2, <1>5, <2>1, QueryIsExact
  <2> HIDE DEF read
  <2> QED
    BY <1>1, <1>6, <2>2 DEF q
<1> QED
  BY <1>7, <1>8

\* The key that rows of a label row's series have.
KeyOf(l) == <<SeriesOf[l.metric].name, SeriesOf[l.metric].labels>>

\* A query returns a row for each pair it joins, with its series' key and at its
\* time.
LEMMA RowsOfPairs ==
    ASSUME TablesOK, NEW query,
           NEW rows \in QueryDatabaseSamples(query, metricLabels, metricValues)
    PROVE  LET joined == Joined(query, metricLabels, metricValues)
           IN  /\ Len(rows) \in Nat
               /\ \A i \in 1..Len(rows) : UnixMilli(rows[i].at) \in Int
               /\ \E f \in Bijection(1..Len(rows), joined) : \A i \in 1..Len(rows) :
                     /\ RowKey(rows[i]) = KeyOf(f[i][1])
                     /\ UnixMilli(rows[i].at) = ReadAt(f[i])
<1> DEFINE joined == Joined(query, metricLabels, metricValues)
<1>1. rows \in Listings(query, metricLabels, metricValues)
  BY DEF QueryDatabaseSamples
<1>2. Len(metricValues) \in Nat /\ \A i \in 1..Len(metricValues) : metricValues[i].sample.at \in Int
  BY TableRows
<1>3. /\ IsFiniteSet(joined) /\ Len(rows) = Cardinality(joined)
      /\ \E f \in Bijection(1..Len(rows), joined) :
            rows = [i \in 1..Len(rows) |-> JoinedRow(f[i], metricValues)]
  <2>1. IsFiniteSet(metricLabels) /\ Len(metricValues) \in Nat
    BY <1>2 DEF TablesOK
  <2> QED
    BY <1>1, <2>1, ListingOfJoined
<1>4. Len(rows) \in Nat
  BY <1>3, FS_CardinalityType
<1>5. PICK f \in Bijection(1..Len(rows), joined) :
            rows = [i \in 1..Len(rows) |-> JoinedRow(f[i], metricValues)]
  BY <1>3
<1>6. f \in [1..Len(rows) -> joined]
  BY <1>5 DEF Bijection, Injection
<1>7. ASSUME NEW pair \in joined
      PROVE  /\ RowKey(JoinedRow(pair, metricValues)) = KeyOf(pair[1])
             /\ UnixMilli(JoinedRow(pair, metricValues).at) = ReadAt(pair)
             /\ ReadAt(pair) \in Int
  <2>1. metricValues[pair[2]].sample.at \in Int
    BY <1>2 DEF Joined, Selected
  <2>2. ReadAt(pair) \in Int
    BY <2>1, RowsAreReadable DEF ReadAt, WrittenAt
  <2> QED
    BY <2>2 DEF JoinedRow, RowKey, KeyOf, ReadAt, WrittenAt
<1> HIDE DEF joined
<1>8. ASSUME NEW i \in 1..Len(rows)
      PROVE  /\ RowKey(rows[i]) = KeyOf(f[i][1])
             /\ UnixMilli(rows[i].at) = ReadAt(f[i])
             /\ UnixMilli(rows[i].at) \in Int
  <2>1. rows[i] = JoinedRow(f[i], metricValues) /\ f[i] \in joined
    BY <1>5, <1>6
  <2> QED
    BY <1>7, <2>1
<1> QED
  BY <1>4, <1>5, <1>8 DEF joined

-----------------------------------------------------------------------------
(* What a Series call builds.                                              *)

\* Some series answer a request, as far as it goes: each is that of another label
\* row, as the client sees it, satisfies the matchers, and has samples of the
\* time range only, chunked; and they are in the order of their label sets.
Answer(r, series, labelRows) ==
    /\ \A i, j \in 1..Len(series) : i < j => ~Precedes(series[j].lset, series[i].lset)
    /\ \E source \in Injection(1..Len(series), labelRows) : \A i \in 1..Len(series) :
          /\ series[i].lset = SeenOf(source[i])
          /\ Satisfies(series[i].lset, ToSet(r.matchers))
          /\ \A t \in SamplesOf(series[i]) : r.start <= t /\ t <= r.end
          /\ WellChunked(series[i].chunks)

\* What SeriesQuery builds answers its request.
LEMMA BuiltIsAnswer ==
    ASSUME TablesOK, NEW c, request[c] \in Requests, Admitted(c),
           NEW rows \in QueryDatabaseSamples(BuildSQLQuery(PromQuery(c)), metricLabels, metricValues),
           NEW series \in BuildSeries(rows, request[c].skipChunks)
    PROVE  series \in Seq(Series) /\ Answer(request[c], series, metricLabels)
<1> DEFINE r == request[c]
           joined == Joined(BuildSQLQuery(PromQuery(c)), metricLabels, metricValues)
           keys == {RowKey(rows[i]) : i \in 1..Len(rows)}
           times(key) == SortedTimes(rows, Group(rows, key))
<1>1. /\ Len(rows) \in Nat
      /\ \A i \in 1..Len(rows) : UnixMilli(rows[i].at) \in Int
      /\ \E f \in Bijection(1..Len(rows), joined) : \A i \in 1..Len(rows) :
            /\ RowKey(rows[i]) = KeyOf(f[i][1])
            /\ UnixMilli(rows[i].at) = ReadAt(f[i])
  BY RowsOfPairs
<1>2. joined = {pair \in metricLabels \X (1..Len(metricValues)) :
                  /\ metricValues[pair[2]].id = pair[1].id
                  /\ Satisfies(SeenOf(pair[1]), ToSet(r.matchers))
                  /\ r.start <= ReadAt(pair) /\ ReadAt(pair) <= r.end}
  BY JoinedPairs
<1> HIDE DEF joined
<1>3. PICK f \in [1..Len(rows) -> joined] : \A i \in 1..Len(rows) :
         RowKey(rows[i]) = KeyOf(f[i][1]) /\ UnixMilli(rows[i].at) = ReadAt(f[i])
  BY <1>1 DEF Bijection, Injection
<1>4. ASSUME NEW i \in 1..Len(rows)
      PROVE  /\ f[i][1] \in metricLabels /\ Satisfies(SeenOf(f[i][1]), ToSet(r.matchers))
             /\ RowKey(rows[i]) = KeyOf(f[i][1])
             /\ r.start <= UnixMilli(rows[i].at) /\ UnixMilli(rows[i].at) <= r.end
  BY <1>2, <1>3
<1>5. r.skipChunks \in BOOLEAN
  BY RequestType
<1>6. /\ Len(series) \in Nat /\ DOMAIN series = 1..Len(series)
      /\ \A i, j \in 1..Len(series) : i < j => ~Precedes(series[j].lset, series[i].lset)
      /\ \E g \in Bijection(1..Len(series), keys) : \A i \in 1..Len(series) :
            series[i] = [lset   |-> PromLabels(g[i][1], g[i][2]),
                         chunks |-> IF r.skipChunks THEN <<>> ELSE EncodeXORChunks(times(g[i]))]
  <2>1. BuiltFrom(rows, r.skipChunks, series)
    BY <1>1, <1>5, SeriesBuilt
  <2> HIDE DEF r
  <2> QED
    BY <2>1 DEF BuiltFrom
<1>7. PICK g \in Bijection(1..Len(series), keys) : \A i \in 1..Len(series) :
         series[i] = [lset   |-> PromLabels(g[i][1], g[i][2]),
                      chunks |-> IF r.skipChunks THEN <<>> ELSE EncodeXORChunks(times(g[i]))]
  <2> HIDE DEF keys, times, r
  <2> QED
    BY <1>6
<1>8. g \in [1..Len(series) -> keys] /\ \A i, j \in 1..Len(series) : g[i] = g[j] => i = j
  BY <1>7, Fun_BijectionProperties
<1> DEFINE from(key, l) == KeyOf(l) = key /\ Satisfies(SeenOf(l), ToSet(r.matchers))
<1>9. \A key \in keys : \E l \in metricLabels : from(key, l)
  BY <1>4
<1>10. ASSUME NEW key \in keys
       PROVE  LET chunks == EncodeXORChunks(times(key))
              IN  /\ chunks \in Seq(ChunkType) /\ WellChunked(chunks)
                  /\ \A k \in DOMAIN chunks : \A j \in DOMAIN chunks[k].samples :
                        r.start <= chunks[k].samples[j] /\ chunks[k].samples[j] <= r.end
  <2> DEFINE chunks == EncodeXORChunks(times(key))
             positions == Group(rows, key)
  <2>1. positions \subseteq 1..Len(rows)
    BY DEF Group
  <2>2. /\ times(key) \in Seq(Int)
        /\ \A i, j \in 1..Len(times(key)) : i < j => times(key)[i] <= times(key)[j]
        /\ \E h \in Bijection(1..Len(times(key)), positions) :
              \A i \in 1..Len(times(key)) : times(key)[i] = UnixMilli(rows[h[i]].at)
    BY <1>1, <2>1, TimesSorted
  <2> HIDE DEF times, positions
  <2>3. /\ chunks \in Seq(ChunkType) /\ WellChunked(chunks)
        /\ \A k \in DOMAIN chunks : \A j \in DOMAIN chunks[k].samples :
              \E i \in 1..Len(times(key)) : chunks[k].samples[j] = times(key)[i]
    BY <2>2, ChunksOfSorted
  <2>4. PICK h \in [1..Len(times(key)) -> positions] :
              \A i \in 1..Len(times(key)) : times(key)[i] = UnixMilli(rows[h[i]].at)
    BY <2>2 DEF Bijection, Injection
  <2>5. \A i \in 1..Len(times(key)) : r.start <= times(key)[i] /\ times(key)[i] <= r.end
    BY <1>4, <2>1, <2>4
  <2> HIDE DEF chunks
  <2> QED
    BY <2>3, <2>5 DEF chunks
<1> HIDE DEF keys, times, from
<1> DEFINE source == [i \in 1..Len(series) |-> CHOOSE l \in metricLabels : from(g[i], l)]
<1>11. \A i \in 1..Len(series) : source[i] \in metricLabels /\ from(g[i], source[i])
  BY <1>8, <1>9
<1>12. source \in [1..Len(series) -> metricLabels]
  BY <1>11
<1> HIDE DEF source
<1>13. source \in Injection(1..Len(series), metricLabels)
  <2>1. \A i, j \in 1..Len(series) : source[i] = source[j] => i = j
    BY <1>8, <1>11 DEF from
  <2> QED
    BY <1>12, <2>1, Fun_IsInj
<1>14. ASSUME NEW i \in 1..Len(series)
       PROVE  /\ series[i].lset = SeenOf(source[i])
              /\ Satisfies(series[i].lset, ToSet(r.matchers))
              /\ \A t \in SamplesOf(series[i]) : r.start <= t /\ t <= r.end
              /\ WellChunked(series[i].chunks)
              /\ series[i].chunks \in Seq(ChunkType)
              /\ series[i] = [lset |-> series[i].lset, chunks |-> series[i].chunks]
  <2> DEFINE chunks == EncodeXORChunks(times(g[i]))
  <2>1. series[i] = [lset |-> PromLabels(g[i][1], g[i][2]),
                     chunks |-> IF r.skipChunks THEN <<>> ELSE chunks]
    BY <1>7
  <2>2. /\ chunks \in Seq(ChunkType) /\ WellChunked(chunks)
        /\ \A k \in DOMAIN chunks : \A j \in DOMAIN chunks[k].samples :
              r.start <= chunks[k].samples[j] /\ chunks[k].samples[j] <= r.end
    BY <1>8, <1>10
  <2> HIDE DEF chunks
  <2>3. PromLabels(g[i][1], g[i][2]) = SeenOf(source[i])
    BY <1>11 DEF from, KeyOf, SeenOf
  <2>4. Satisfies(SeenOf(source[i]), ToSet(r.matchers))
    BY <1>11 DEF from
  <2>5. series[i].lset = SeenOf(source[i])
    BY <2>1, <2>3
  <2>6. CASE r.skipChunks
    <3>1. series[i].chunks = <<>> /\ <<>> \in Seq(ChunkType) /\ DOMAIN series[i].chunks = {}
      BY <2>1, <2>6
    <3>2. SamplesOf(series[i]) = {} /\ WellChunked(series[i].chunks)
      BY <3>1 DEF WellChunked, SamplesOf
    <3>3. series[i] = [lset |-> series[i].lset, chunks |-> series[i].chunks]
      BY <2>1
    <3> QED
      BY <2>4, <2>5, <3>1, <3>2, <3>3
  <2>7. CASE ~r.skipChunks
    <3>1. series[i].chunks = chunks
      BY <2>1, <2>7
    <3>2. \A t \in SamplesOf(series[i]) : r.start <= t /\ t <= r.end
      BY <2>2, <3>1 DEF SamplesOf
    <3>3. series[i] = [lset |-> series[i].lset, chunks |-> series[i].chunks]
      BY <2>1
    <3> QED
      BY <2>2, <2>4, <2>5, <3>1, <3>2, <3>3
  <2> QED
    BY <2>6, <2>7
<1>15. Answer(r, series, metricLabels)
  BY <1>6, <1>13, <1>14 DEF Answer
<1>16. ASSUME NEW i \in 1..Len(series) PROVE series[i] \in Series
  <2>1. source[i].metric \in Metrics
    BY <1>11, TableRows
  <2>2. series[i].lset \in LabelSets
    BY <1>14, <2>1 DEF LabelSets, SeenOf
  <2>3. ASSUME NEW lset \in LabelSets, NEW chunks \in Seq(ChunkType)
        PROVE  [lset |-> lset, chunks |-> chunks] \in Series
    BY DEF Series, ChunkType
  <2> QED
    BY <1>14, <2>2, <2>3
<1>17. series \in Seq(Series)
  <2>1. series = [i \in 1..Len(series) |-> series[i]]
    BY <1>6 DEF BuildSeries
  <2> QED
    BY <1>6, <1>16, <2>1
<1> QED
  BY <1>15, <1>17

-----------------------------------------------------------------------------
(* The state of a call.                                                    *)

\* A call that has not come to its query has built and sent nothing.
Quiet(c) ==
    phase[c] \in {"idle", "received"} =>
        stream[c] = <<>> /\ sent[c] = <<>> /\ status[c] = "none"

\* The type invariant, made inductive.
TypeInv == TypeOK /\ IsFiniteSet(metricLabels) /\ \A c \in Calls : Quiet(c)

\* What stays as it is when a call goes on.
LEMMA TypeInvKept ==
    ASSUME TypeInv, UNCHANGED <<tableVars, request>>,
           phase' \in [Calls -> {"idle", "received", "streaming", "ended"}],
           status' \in [Calls -> {"none", "OK", "InvalidArgument", "Internal", "Unknown"}],
           stream' \in [Calls -> Seq(Series)], sent' \in [Calls -> Seq(Series)],
           reply' \in [Calls -> SUBSET Strings], minTime' \in [Calls -> {NoTime} \cup Nat],
           NEW c \in Calls, Quiet(c)',
           \A d \in Calls \ {c} : /\ phase'[d] = phase[d] /\ status'[d] = status[d]
                                  /\ stream'[d] = stream[d] /\ sent'[d] = sent[d]
    PROVE  TypeInv'
<1>1. metricLabels' = metricLabels /\ metricValues' = metricValues /\ request' = request
  BY DEF tableVars
<1>2. \A d \in Calls : Quiet(d)'
  BY DEF TypeInv, Quiet
<1> QED
  BY <1>1, <1>2 DEF TypeInv, TypeOK

LEMMA TypeInvInit == Init => TypeInv
<1> SUFFICES ASSUME Init PROVE TypeInv
  OBVIOUS
<1>1. metricLabels = {} /\ metricValues = <<>>
  BY DEF Init, Ingestion!Init
<1>2. <<>> \in Seq(Series) /\ metricValues \in Seq(ValueRows)
  BY <1>1
<1>3. \A c \in Calls : Quiet(c)
  BY DEF Init, Quiet
<1> QED
  BY <1>1, <1>2, <1>3, FS_EmptySet DEF Init, TypeInv, TypeOK

\* The times of stored rows, and what of them Info answers.
LEMMA MinimumTime ==
    ASSUME TablesOK
    PROVE  /\ MinSampleTimestamp \in Int
           /\ \A i \in 1..Len(metricValues) :
                 MinSampleTimestamp <= UnixMilli(MetricTime(metricValues[i].sample.at))
           /\ metricValues # <<>> =>
                 \E i \in 1..Len(metricValues) :
                    MinSampleTimestamp = UnixMilli(MetricTime(metricValues[i].sample.at))
<1> DEFINE time(i) == MetricTime(metricValues[i].sample.at)
           instants == {time(i) : i \in 1..Len(metricValues)}
<1>1. Len(metricValues) \in Nat /\ \A i \in 1..Len(metricValues) : metricValues[i].sample.at \in Int
  BY TableRows
<1>2. \A i \in 1..Len(metricValues) :
         /\ UnixMilli(time(i)) \in Int /\ time(i) = Instant(UnixMilli(time(i))) /\ time(i) \in Int
  <2>1. ASSUME NEW t \in Int
        PROVE  /\ UnixMilli(MetricTime(t)) \in Int
               /\ MetricTime(t) = Instant(UnixMilli(MetricTime(t))) /\ MetricTime(t) \in Int
    BY RowsAreReadable, TimestampsAssumption DEF Instant
  <2> QED
    BY <1>1, <2>1
<1>3. CASE metricValues = <<>>
  BY <1>3 DEF MinSampleTimestamp
<1>4. CASE metricValues # <<>>
  <2>1. Len(metricValues) # 0
    BY <1>4, EmptySeq DEF TablesOK
  <2>2. time(1) \in instants /\ instants \subseteq Int
    BY <1>1, <1>2, <2>1
  <2>3. IsFiniteSet(instants)
    <3> DEFINE F == [i \in 1..Len(metricValues) |-> time(i)]
    <3>1. F \in Surjection(1..Len(metricValues), instants)
      <4>1. /\ F \in [1..Len(metricValues) -> instants]
            /\ \A x \in instants : \E i \in 1..Len(metricValues) : F[i] = x
        OBVIOUS
      <4> QED
        BY <4>1, Fun_IsSurj
    <3> HIDE DEF F, instants
    <3>2. IsFiniteSet(1..Len(metricValues))
      <4>1. Len(metricValues) \in Int /\ 1 \in Int
        BY <1>1
      <4> QED
        BY <4>1, FS_Interval
    <3> QED
      BY <3>1, <3>2, FS_Surjection
  <2>4. Min(instants) \in instants /\ \A x \in instants : Min(instants) <= x
    BY <2>2, <2>3, MinIsLeast
  <2>5. MinSampleTimestamp = UnixMilli(Min(instants))
    BY <1>4 DEF MinSampleTimestamp
  <2>6. PICK m \in 1..Len(metricValues) : Min(instants) = time(m)
    BY <2>4
  <2>7. ASSUME NEW i \in 1..Len(metricValues)
        PROVE  UnixMilli(time(m)) <= UnixMilli(time(i))
    <3>1. time(m) <= time(i)
      BY <2>4, <2>6
    <3> HIDE DEF time
    <3> QED
      BY <1>2, <3>1, InstantInOrder
  <2> QED
    BY <1>2, <2>5, <2>6, <2>7
<1> QED
  BY <1>3, <1>4

\* Names and values are strings.
LEMMA AnswersAreStrings ==
    ASSUME TablesOK, NEW where, NEW label \in Strings
    PROVE  NamesAnswered(where) \subseteq Strings /\ ValuesAnswered(label, where) \subseteq Strings
<1>1. NameLabel \in Strings /\ Empty \in Strings
  BY SelectionAssumption DEF NameLabel, Empty
<1>2. /\ DOMAIN ExternalLabels \subseteq Strings
      /\ \A n \in DOMAIN ExternalLabels : ExternalLabels[n] \in Strings
  BY StoreAPIAssumption
<1>3. ASSUME NEW l \in Selected(where, metricLabels)
      PROVE  /\ DOMAIN SeriesOf[l.metric].labels \subseteq Strings
             /\ ColumnValue(label, SeriesOf[l.metric]) \in Strings
  <2>1. l.metric \in Metrics
    BY TableRows DEF Selected
  <2> QED
    BY <1>1, <2>1, SeriesType DEF ColumnValue, ValueIn
<1>4. LabelNamesOf(where, metricLabels) \subseteq Strings
  BY <1>3 DEF LabelNamesOf
<1>5. LabelValuesOf(label, where, metricLabels) \subseteq Strings
  BY <1>3 DEF LabelValuesOf
<1> QED
  BY <1>1, <1>2, <1>4, <1>5 DEF NamesAnswered, ValuesAnswered

\* A step of a handler keeps the invariant.
LEMMA TypeInvHandler ==
    ASSUME TypeInv, NEW c \in Calls, Handler(c)
    PROVE  TypeInv'
<1>1. /\ phase \in [Calls -> {"idle", "received", "streaming", "ended"}]
      /\ status \in [Calls -> {"none", "OK", "InvalidArgument", "Internal", "Unknown"}]
      /\ stream \in [Calls -> Seq(Series)] /\ sent \in [Calls -> Seq(Series)]
      /\ reply \in [Calls -> SUBSET Strings] /\ minTime \in [Calls -> {NoTime} \cup Nat]
  BY DEF TypeInv, TypeOK
<1>2. TablesOK /\ request[c] \in Requests /\ Quiet(c)
  BY DEF TypeInv, TypeOK, TablesOK
<1>3. ASSUME NEW how \in {"OK", "InvalidArgument", "Internal", "Unknown"}, End(c, how),
             UNCHANGED <<tableVars, request, stream, sent>>,
             reply' \in [Calls -> SUBSET Strings], minTime' \in [Calls -> {NoTime} \cup Nat]
      PROVE  TypeInv'
  <2>1. /\ phase' \in [Calls -> {"idle", "received", "streaming", "ended"}]
        /\ status' \in [Calls -> {"none", "OK", "InvalidArgument", "Internal", "Unknown"}]
        /\ phase'[c] = "ended"
        /\ \A d \in Calls \ {c} : phase'[d] = phase[d] /\ status'[d] = status[d]
    BY <1>1, <1>3 DEF End, GoTo
  <2>2. Quiet(c)'
    BY <2>1 DEF Quiet
  <2> QED
    BY <1>1, <1>3, <2>1, <2>2, TypeInvKept
<1>4. CASE Receive(c)
  <2>1. /\ phase' \in [Calls -> {"idle", "received", "streaming", "ended"}]
        /\ phase[c] = "idle" /\ \A d \in Calls \ {c} : phase'[d] = phase[d]
    BY <1>1, <1>4 DEF Receive, GoTo
  <2>2. Quiet(c)'
    BY <1>2, <1>4, <2>1 DEF Quiet, Receive
  <2> QED
    BY <1>1, <1>4, <2>1, <2>2, TypeInvKept DEF Receive
<1>5. CASE Refuse(c)
  BY <1>1, <1>3, <1>5 DEF Refuse
<1>6. CASE AnswerNothing(c)
  BY <1>1, <1>3, <1>6 DEF AnswerNothing
<1>7. CASE QueryFails(c)
  BY <1>1, <1>3, <1>7 DEF QueryFails
<1>8. CASE Info(c)
  <2>1. MinSampleTimestamp \in Int
    BY <1>2, MinimumTime
  <2>2. (IF HasData(MinSampleTimestamp) THEN MinSampleTimestamp ELSE NoTime) \in {NoTime} \cup Nat
    BY <2>1 DEF HasData
  <2>3. minTime' \in [Calls -> {NoTime} \cup Nat]
    BY <1>1, <1>8, <2>2 DEF Info
  <2> QED
    BY <1>1, <1>3, <1>8, <2>3 DEF Info
<1>9. CASE LabelNames(c)
  <2>1. NamesAnswered(Where(c)) \subseteq Strings
    BY <1>2, AnswersAreStrings, RequestType
  <2>2. reply' \in [Calls -> SUBSET Strings]
    BY <1>1, <1>9, <2>1 DEF LabelNames
  <2> QED
    BY <1>1, <1>3, <1>9, <2>2 DEF LabelNames
<1>10. CASE LabelValues(c)
  <2>1. ValuesAnswered(request[c].label, Where(c)) \subseteq Strings
    BY <1>2, AnswersAreStrings, RequestType
  <2>2. reply' \in [Calls -> SUBSET Strings]
    BY <1>1, <1>10, <2>1 DEF LabelValues
  <2> QED
    BY <1>1, <1>3, <1>10, <2>2 DEF LabelValues
<1>11. CASE SeriesQuery(c)
  <2>1. PICK rows \in QueryDatabaseSamples(BuildSQLQuery(PromQuery(c)), metricLabels, metricValues) :
           \E series \in BuildSeries(rows, request[c].skipChunks) :
              stream' = [stream EXCEPT ![c] = series]
    BY <1>11 DEF SeriesQuery
  <2>2. PICK series \in BuildSeries(rows, request[c].skipChunks) :
              stream' = [stream EXCEPT ![c] = series]
    BY <2>1
  <2>3. series \in Seq(Series)
    BY <1>2, <1>11, BuiltIsAnswer DEF SeriesQuery
  <2>4. /\ stream' \in [Calls -> Seq(Series)]
        /\ \A d \in Calls \ {c} : stream'[d] = stream[d]
    BY <1>1, <2>2, <2>3
  <2>5. /\ phase' \in [Calls -> {"idle", "received", "streaming", "ended"}]
        /\ phase'[c] = "streaming" /\ \A d \in Calls \ {c} : phase'[d] = phase[d]
    BY <1>1, <1>11 DEF SeriesQuery, GoTo
  <2>6. Quiet(c)'
    BY <2>5 DEF Quiet
  <2>7. UNCHANGED <<tableVars, request, status, sent, reply, minTime>>
    BY <1>11 DEF SeriesQuery
  <2> QED
    BY <1>1, <2>4, <2>5, <2>6, <2>7, TypeInvKept
<1>12. CASE SendSeries(c)
  <2>1. Head(stream[c]) \in Series /\ Tail(stream[c]) \in Seq(Series)
    BY <1>1, <1>12, HeadTailProperties DEF SendSeries
  <2>2. Append(sent[c], Head(stream[c])) \in Seq(Series)
    BY <1>1, <2>1, AppendProperties
  <2>3. /\ stream' \in [Calls -> Seq(Series)] /\ sent' \in [Calls -> Seq(Series)]
        /\ \A d \in Calls \ {c} : stream'[d] = stream[d] /\ sent'[d] = sent[d]
    BY <1>1, <1>12, <2>1, <2>2 DEF SendSeries
  <2>4. phase'[c] = "streaming" /\ UNCHANGED <<tableVars, request, phase, status, reply, minTime>>
    BY <1>12 DEF SendSeries
  <2>5. Quiet(c)'
    BY <2>4 DEF Quiet
  <2> QED
    BY <1>1, <2>3, <2>4, <2>5, TypeInvKept
<1>13. CASE SendFails(c)
  BY <1>1, <1>3, <1>13 DEF SendFails
<1>14. CASE SeriesDone(c)
  BY <1>1, <1>3, <1>14 DEF SeriesDone
<1> QED
  BY <1>4, <1>5, <1>6, <1>7, <1>8, <1>9, <1>10, <1>11, <1>12, <1>13, <1>14 DEF Handler

LEMMA TypeInvStep == TypeInv /\ [Next]_vars => TypeInv'
<1> SUFFICES ASSUME TypeInv, [Next]_vars PROVE TypeInv'
  OBVIOUS
<1>1. ASSUME NEW row \in Registrations, Register(row) PROVE TypeInv'
  <2>1. metricLabels' = metricLabels \cup {row} /\ metricValues' = metricValues
    BY <1>1 DEF Register, Ingestion!InsertLabel
  <2>2. IsFiniteSet(metricLabels')
    BY <2>1, FS_AddElement DEF TypeInv
  <2>3. UNCHANGED <<request, phase, status, stream, sent, reply, minTime>>
    BY <1>1 DEF Register
  <2>4. \A c \in Calls : Quiet(c)'
    BY <2>3 DEF TypeInv, Quiet
  <2> QED
    BY <2>1, <2>2, <2>3, <2>4 DEF TypeInv, TypeOK
<1>2. ASSUME NEW row \in ValueRows, Store(row) PROVE TypeInv'
  <2>1. metricLabels' = metricLabels /\ metricValues' = metricValues \o <<row>>
    BY <1>2 DEF Store, Ingestion!CopyRows
  <2>2. metricValues' \in Seq(ValueRows)
    BY <2>1 DEF TypeInv, TypeOK
  <2>3. UNCHANGED <<request, phase, status, stream, sent, reply, minTime>>
    BY <1>2 DEF Store
  <2>4. \A c \in Calls : Quiet(c)'
    BY <2>3 DEF TypeInv, Quiet
  <2> QED
    BY <2>1, <2>2, <2>3, <2>4 DEF TypeInv, TypeOK
<1>3. ASSUME UNCHANGED vars PROVE TypeInv'
  <2>1. /\ UNCHANGED <<metricLabels, metricValues, request, phase, status, stream, sent, reply, minTime>>
    BY <1>3 DEF vars, tableVars
  <2> QED
    BY <2>1 DEF TypeInv, TypeOK, Quiet
<1> QED
  BY <1>1, <1>2, <1>3, TypeInvHandler DEF Next

\* Every variable has its type, the series built and the time announced included:
\* no call announces the -1 of an empty table, or any time before 1970.
THEOREM TypeCorrect == Spec => []TypeOK
<1>1. Spec => []TypeInv
  BY TypeInvInit, TypeInvStep, PTL DEF Spec
<1>2. TypeInv => TypeOK
  BY DEF TypeInv
<1> QED
  BY <1>1, <1>2, PTL

-----------------------------------------------------------------------------
(* What is streamed.                                                       *)

\* The tables only grow, and a call's request stays.
LEMMA TablesGrow ==
    ASSUME TypeInv, [Next]_vars
    PROVE  /\ metricLabels \subseteq metricLabels' /\ request' = request
           /\ TablesOK /\ TablesOK'
<1>1. ASSUME NEW row \in Registrations, Register(row)
      PROVE  metricLabels \subseteq metricLabels' /\ request' = request
  BY <1>1 DEF Register, Ingestion!InsertLabel
<1>2. ASSUME NEW row \in ValueRows, Store(row)
      PROVE  metricLabels \subseteq metricLabels' /\ request' = request
  BY <1>2 DEF Store, Ingestion!CopyRows
<1>3. ASSUME NEW c \in Calls, Handler(c)
      PROVE  metricLabels \subseteq metricLabels' /\ request' = request
  BY <1>3 DEF Handler, Receive, Refuse, AnswerNothing, QueryFails, Info, LabelNames, LabelValues,
              SeriesQuery, SendSeries, SendFails, SeriesDone, tableVars
<1>4. ASSUME UNCHANGED vars
      PROVE  metricLabels \subseteq metricLabels' /\ request' = request
  BY <1>4 DEF vars, tableVars
<1>5. TablesOK /\ TablesOK'
  BY TypeInvStep DEF TypeInv, TypeOK, TablesOK
<1> QED
  BY <1>1, <1>2, <1>3, <1>4, <1>5 DEF Next

\* What a call has built changes in its query only: sending moves a series from
\* what is to be sent to what is.
LEMMA BuiltKept ==
    ASSUME TypeInv, [Next]_vars, NEW d \in Calls, ~SeriesQuery(d)
    PROVE  Built(d)' = Built(d)
<1>1. stream \in [Calls -> Seq(Series)] /\ sent \in [Calls -> Seq(Series)]
  BY DEF TypeInv, TypeOK
<1>2. ASSUME stream'[d] = stream[d], sent'[d] = sent[d] PROVE Built(d)' = Built(d)
  BY <1>2 DEF Built
<1>3. ASSUME NEW row \in Registrations, Register(row) PROVE Built(d)' = Built(d)
  BY <1>2, <1>3 DEF Register
<1>4. ASSUME NEW row \in ValueRows, Store(row) PROVE Built(d)' = Built(d)
  BY <1>2, <1>4 DEF Store
<1>5. ASSUME UNCHANGED vars PROVE Built(d)' = Built(d)
  BY <1>2, <1>5 DEF vars
<1>6. ASSUME NEW c \in Calls, SeriesQuery(c) PROVE Built(d)' = Built(d)
  <2>1. c # d /\ sent' = sent
    BY <1>6 DEF SeriesQuery
  <2>2. stream'[d] = stream[d]
    BY <1>1, <1>6, <2>1 DEF SeriesQuery
  <2> QED
    BY <1>2, <2>1, <2>2
<1>7. ASSUME NEW c \in Calls, SendSeries(c) PROVE Built(d)' = Built(d)
  <2>1. CASE c # d
    BY <1>1, <1>2, <1>7, <2>1 DEF SendSeries
  <2>2. CASE c = d
    <3> DEFINE s == sent[d]
               t == stream[d]
    <3>1. s \in Seq(Series) /\ t \in Seq(Series) /\ t # <<>>
      BY <1>1, <1>7, <2>2 DEF SendSeries
    <3>2. sent'[d] = Append(s, Head(t)) /\ stream'[d] = Tail(t)
      BY <1>1, <1>7, <2>2 DEF SendSeries
    <3> HIDE DEF s, t
    <3>3. /\ Head(t) \in Series /\ Tail(t) \in Seq(Series) /\ <<Head(t)>> \in Seq(Series)
          /\ <<Head(t)>> \o Tail(t) = t
      BY <3>1, HeadTailProperties
    <3>4. Append(s, Head(t)) = s \o <<Head(t)>>
      BY <3>1, <3>3, AppendIsConcat
    <3>5. (s \o <<Head(t)>>) \o Tail(t) = s \o (<<Head(t)>> \o Tail(t))
      BY <3>1, <3>3, ConcatAssociative
    <3> QED
      BY <3>2, <3>3, <3>4, <3>5 DEF Built, s, t
  <2> QED
    BY <2>1, <2>2
<1>8. ASSUME NEW c \in Calls, Handler(c), ~SeriesQuery(c), ~SendSeries(c)
      PROVE  Built(d)' = Built(d)
  <2>1. stream' = stream /\ sent' = sent
    BY <1>8 DEF Handler, Receive, Refuse, AnswerNothing, QueryFails, Info, LabelNames, LabelValues,
                SendFails, SeriesDone
  <2> QED
    BY <1>2, <2>1
<1> QED
  BY <1>3, <1>4, <1>5, <1>6, <1>7, <1>8 DEF Next

\* A query answers its request.
LEMMA QueryAnswers ==
    ASSUME TypeInv, NEW c \in Calls, SeriesQuery(c)
    PROVE  /\ Built(c)' = stream'[c] /\ stream'[c] \in Seq(Series)
           /\ Answer(request[c], stream'[c], metricLabels)
           /\ \E rows \in QueryDatabaseSamples(BuildSQLQuery(PromQuery(c)), metricLabels, metricValues) :
                 stream'[c] \in BuildSeries(rows, request[c].skipChunks)
<1>1. TablesOK /\ request[c] \in Requests /\ Quiet(c)
  BY DEF TypeInv, TypeOK, TablesOK
<1>2. PICK rows \in QueryDatabaseSamples(BuildSQLQuery(PromQuery(c)), metricLabels, metricValues) :
         \E series \in BuildSeries(rows, request[c].skipChunks) :
            stream' = [stream EXCEPT ![c] = series]
  BY DEF SeriesQuery
<1>3. stream'[c] \in BuildSeries(rows, request[c].skipChunks)
  BY <1>2 DEF TypeInv, TypeOK
<1>4. stream'[c] \in Seq(Series) /\ Answer(request[c], stream'[c], metricLabels)
  BY <1>1, <1>3, BuiltIsAnswer DEF SeriesQuery
<1>5. sent[c] = <<>> /\ sent' = sent
  BY <1>1 DEF SeriesQuery, Asks, Quiet
<1>6. Built(c)' = stream'[c]
  BY <1>4, <1>5, ConcatEmptySeq DEF Built
<1> QED
  BY <1>3, <1>4, <1>6

\* An answer stays one as series are registered.
LEMMA AnswerKept ==
    ASSUME NEW r, NEW series, NEW few, NEW more, few \subseteq more, Answer(r, series, few)
    PROVE  Answer(r, series, more)
<1>1. PICK source \in Injection(1..Len(series), few) : \A i \in 1..Len(series) :
         /\ series[i].lset = SeenOf(source[i])
         /\ Satisfies(series[i].lset, ToSet(r.matchers))
         /\ \A t \in SamplesOf(series[i]) : r.start <= t /\ t <= r.end
         /\ WellChunked(series[i].chunks)
  BY DEF Answer
<1>2. source \in Injection(1..Len(series), more)
  <2>1. source \in [1..Len(series) -> few]
        /\ \A i, j \in 1..Len(series) : source[i] = source[j] => i = j
    BY Fun_InjectionProperties
  <2>2. source \in [1..Len(series) -> more]
    BY <2>1
  <2> QED
    BY <2>1, <2>2, Fun_IsInj
<1> QED
  BY <1>1, <1>2 DEF Answer

\* Whatever a call has built answers its request.
AnswerInv == TypeInv /\ \A c \in Calls : Answer(request[c], Built(c), metricLabels)

LEMMA AnswerInvInit == Init => AnswerInv
<1> SUFFICES ASSUME Init PROVE AnswerInv
  OBVIOUS
<1>1. ASSUME NEW c \in Calls PROVE Answer(request[c], Built(c), metricLabels)
  <2>1. Built(c) = <<>>
    BY DEF Init, Built
  <2>2. Len(Built(c)) = 0 /\ 1..0 = {}
    BY <2>1
  <2> DEFINE source == [i \in {} |-> i]
  <2>3. source \in Injection({}, metricLabels)
    <3>1. source \in [{} -> metricLabels]
      OBVIOUS
    <3> QED
      BY <3>1, Fun_IsInj
  <2> HIDE DEF source
  <2> QED
    BY <2>2, <2>3 DEF Answer
<1> QED
  BY <1>1, TypeInvInit DEF AnswerInv

LEMMA AnswerInvStep == AnswerInv /\ [Next]_vars => AnswerInv'
<1> SUFFICES ASSUME AnswerInv, [Next]_vars PROVE AnswerInv'
  OBVIOUS
<1>1. TypeInv /\ TypeInv'
  BY TypeInvStep DEF AnswerInv
<1>2. metricLabels \subseteq metricLabels' /\ request' = request
  BY <1>1, TablesGrow
<1>3. ASSUME NEW c \in Calls PROVE Answer(request[c], Built(c), metricLabels)'
  <2>1. CASE SeriesQuery(c)
    <3>1. Built(c)' = stream'[c] /\ Answer(request[c], stream'[c], metricLabels)
      BY <1>1, <2>1, QueryAnswers
    <3>2. Answer(request[c], stream'[c], metricLabels')
      BY <1>2, <3>1, AnswerKept
    <3> QED
      BY <1>2, <3>1, <3>2
  <2>2. CASE ~SeriesQuery(c)
    <3>1. Built(c)' = Built(c)
      BY <1>1, <2>2, BuiltKept
    <3>2. Answer(request[c], Built(c), metricLabels')
      BY <1>2, AnswerKept DEF AnswerInv
    <3> QED
      BY <1>2, <3>1, <3>2
  <2> QED
    BY <2>1, <2>2
<1> QED
  BY <1>1, <1>3 DEF AnswerInv

\* A label set is not built more often than series are seen under it.
LEMMA NotTooOften ==
    ASSUME TablesOK, NEW r, NEW series, Len(series) \in Nat, Answer(r, series, metricLabels), NEW lset
    PROVE  Cardinality({j \in 1..Len(series) : series[j].lset = lset}) <= Cardinality(SeenAs(lset))
<1> DEFINE J == {j \in 1..Len(series) : series[j].lset = lset}
<1>1. PICK source \in Injection(1..Len(series), metricLabels) : \A i \in 1..Len(series) :
         series[i].lset = SeenOf(source[i])
  BY DEF Answer
<1>2. /\ source \in [1..Len(series) -> metricLabels]
      /\ \A i, j \in 1..Len(series) : source[i] = source[j] => i = j
  BY Fun_InjectionProperties
<1> DEFINE part == [j \in J |-> source[j]]
<1>3. part \in [J -> SeenAs(lset)]
  BY <1>1, <1>2 DEF SeenAs, SeenOf
<1>4. \A i, j \in J : part[i] = part[j] => i = j
  BY <1>2
<1> HIDE DEF part, J
<1>5. part \in Injection(J, SeenAs(lset))
  BY <1>3, <1>4, Fun_IsInj
<1>6. SeenAs(lset) \subseteq metricLabels
  BY DEF SeenAs
<1>7. IsFiniteSet(SeenAs(lset))
  BY <1>6, FS_Subset DEF TablesOK
<1> QED
  BY <1>5, <1>7, FS_Injection DEF J

\* What a client is sent is what it asked for: every series streamed satisfies
\* all matchers, in the client's view of its labels, has samples of the time
\* range only, and comes no more often than series are stored under its labels.
THEOREM StreamsAreSound == Spec => []SeriesSound
<1>1. Spec => []AnswerInv
  BY AnswerInvInit, AnswerInvStep, PTL DEF Spec
<1>2. ASSUME AnswerInv PROVE SeriesSound
  <2> SUFFICES ASSUME NEW c \in Calls, NEW i \in 1..Len(Built(c))
               PROVE  /\ Satisfies(Built(c)[i].lset, ToSet(request[c].matchers))
                      /\ \A t \in SamplesOf(Built(c)[i]) : request[c].start <= t /\ t <= request[c].end
                      /\ Cardinality({j \in 1..Len(Built(c)) : Built(c)[j].lset = Built(c)[i].lset})
                           <= Cardinality(SeenAs(Built(c)[i].lset))
    BY DEF SeriesSound
  <2>1. TablesOK /\ Answer(request[c], Built(c), metricLabels)
    BY <1>2 DEF AnswerInv, TypeInv, TypeOK, TablesOK
  <2>2. Len(Built(c)) \in Nat
    BY <1>2, ConcatProperties, LenProperties DEF AnswerInv, TypeInv, TypeOK, Built
  <2>3. Cardinality({j \in 1..Len(Built(c)) : Built(c)[j].lset = Built(c)[i].lset})
          <= Cardinality(SeenAs(Built(c)[i].lset))
    BY <2>1, <2>2, NotTooOften
  <2> QED
    BY <2>1, <2>3 DEF Answer
<1> QED
  BY <1>1, <1>2, PTL

\* Thanos can merge what it is sent: the series come in the order of their label
\* sets, and the chunks of each are full, in order, and within the times they
\* announce.
THEOREM StreamsAreSorted == Spec => []StreamSorted
<1>1. Spec => []AnswerInv
  BY AnswerInvInit, AnswerInvStep, PTL DEF Spec
<1>2. AnswerInv => StreamSorted
  BY DEF AnswerInv, Answer, StreamSorted, WellChunked
<1> QED
  BY <1>1, <1>2, PTL

-----------------------------------------------------------------------------
(* What is answered about labels.                                          *)

\* Where __name__ has no value, no selected series has a name.
LEMMA NoNamesIsNameless ==
    ASSUME NEW where, NEW labelRows, LabelValuesOf(NameLabel, where, labelRows) = {}
    PROVE  \A l \in Selected(where, labelRows) : SeriesOf[l.metric].name = Empty
BY DEF LabelValuesOf, ColumnValue

\* A label that a selected series has with a value has a value to offer.
LEMMA NamesHaveValues ==
    ASSUME TablesOK, NEW where, NEW n \in NamesAnswered(where)
    PROVE  \/ ValuesAnswered(n, where) # {}
           \/ n = NameLabel /\ Nameless(where)
<1>1. SeriesExist(where, metricLabels)
  BY DEF NamesAnswered
<1>2. CASE n \in DOMAIN ExternalLabels
  BY <1>1, <1>2 DEF ValuesAnswered
<1>3. CASE n = NameLabel /\ n \notin DOMAIN ExternalLabels
  <2>1. ValuesAnswered(n, where) = LabelValuesOf(NameLabel, where, metricLabels)
    BY <1>3 DEF ValuesAnswered
  <2> QED
    BY <1>3, <2>1, NoNamesIsNameless DEF Nameless
<1>4. CASE n \in LabelNamesOf(where, metricLabels) /\ n \notin DOMAIN ExternalLabels
  <2>1. PICK l \in Selected(where, metricLabels) :
           n \in DOMAIN SeriesOf[l.metric].labels /\ SeriesOf[l.metric].labels[n] # Empty
    BY <1>4 DEF LabelNamesOf
  <2>2. n # NameLabel
    BY <2>1, TableRows, SeriesType DEF Selected
  <2>3. ColumnValue(n, SeriesOf[l.metric]) = SeriesOf[l.metric].labels[n]
    BY <2>1, <2>2 DEF ColumnValue, ValueIn
  <2>4. SeriesOf[l.metric].labels[n] \in ValuesAnswered(n, where)
    BY <1>4, <2>1, <2>3 DEF ValuesAnswered, LabelValuesOf
  <2> QED
    BY <2>4
<1> QED
  BY <1>2, <1>3, <1>4 DEF NamesAnswered

\* The label rows selected, and with them the values answered, only grow.
LEMMA ValuesGrow ==
    ASSUME TypeInv, [Next]_vars, NEW where, NEW label
    PROVE  /\ Selected(where, metricLabels) \subseteq Selected(where, metricLabels')
           /\ ValuesAnswered(label, where) \subseteq ValuesAnswered(label, where)'
<1>1. metricLabels \subseteq metricLabels'
  BY TablesGrow
<1>2. Selected(where, metricLabels) \subseteq Selected(where, metricLabels')
  BY <1>1 DEF Selected
<1>3. LabelValuesOf(label, where, metricLabels) \subseteq LabelValuesOf(label, where, metricLabels')
  BY <1>2 DEF LabelValuesOf
<1>4. SeriesExist(where, metricLabels) => SeriesExist(where, metricLabels')
  BY <1>2 DEF SeriesExist
<1> QED
  BY <1>2, <1>3, <1>4 DEF ValuesAnswered

\* No name answered is a dead entry, when it is answered or later.
DeadEntryInv == TypeInv /\ NoDeadEntry

LEMMA DeadEntryInvInit == Init => DeadEntryInv
<1> SUFFICES ASSUME Init PROVE DeadEntryInv
  OBVIOUS
<1>1. \A c \in Calls : reply[c] = {}
  BY DEF Init
<1> QED
  BY <1>1, TypeInvInit DEF DeadEntryInv, NoDeadEntry

LEMMA DeadEntryInvStep == DeadEntryInv /\ [Next]_vars => DeadEntryInv'
<1> SUFFICES ASSUME DeadEntryInv, [Next]_vars PROVE DeadEntryInv'
  OBVIOUS
<1>1. TypeInv /\ TypeInv' /\ TablesOK /\ TablesOK' /\ request' = request
  BY TypeInvStep, TablesGrow DEF DeadEntryInv
<1>2. \A c \in Calls : Where(c)' = Where(c)
  BY <1>1 DEF Where
<1> SUFFICES ASSUME NEW c \in Calls, request[c].kind = "LabelNames", NEW n \in reply'[c]
             PROVE  \/ ValuesAnswered(n, Where(c))' # {}
                    \/ n = NameLabel /\ Nameless(Where(c))'
  BY <1>1 DEF DeadEntryInv, NoDeadEntry
<1> DEFINE where == Where(c)
<1>3. CASE n \in reply[c]
  <2>1. \/ ValuesAnswered(n, where) # {}
        \/ n = NameLabel
    BY <1>3 DEF DeadEntryInv, NoDeadEntry
  <2>2. ValuesAnswered(n, where) \subseteq ValuesAnswered(n, where)'
    BY <1>1, <1>2, ValuesGrow
  <2>3. CASE n = NameLabel
    <3>1. ValuesAnswered(n, where)' = LabelValuesOf(NameLabel, where, metricLabels')
      BY <1>1, <1>2, <2>3, StoreAPIAssumption DEF ValuesAnswered
    <3> QED
      BY <1>2, <2>3, <3>1, NoNamesIsNameless DEF Nameless
  <2> QED
    BY <2>1, <2>2, <2>3
<1>4. CASE n \notin reply[c]
  <2>1. LabelNames(c)
    <3>1. reply'[c] # reply[c]
      BY <1>4
    <3>2. reply \in [Calls -> SUBSET Strings]
      BY <1>1 DEF TypeInv, TypeOK
    <3>3. ASSUME NEW d \in Calls, LabelValues(d) PROVE reply'[c] = reply[c]
      BY <3>2, <3>3 DEF LabelValues, Asks
    <3>4. ASSUME NEW d \in Calls, LabelNames(d), d # c PROVE reply'[c] = reply[c]
      BY <3>2, <3>4 DEF LabelNames
    <3> QED
      BY <3>1, <3>3, <3>4
         DEF Next, Register, Store, Handler, Receive, Refuse, AnswerNothing, QueryFails, Info,
             SeriesQuery, SendSeries, SendFails, SeriesDone, vars
  <2>2. n \in NamesAnswered(where) /\ metricLabels' = metricLabels
    BY <1>1, <2>1 DEF LabelNames, tableVars, TypeInv, TypeOK
  <2>3. \/ ValuesAnswered(n, where) # {}
        \/ n = NameLabel /\ Nameless(where)
    BY <1>1, <2>2, NamesHaveValues
  <2>4. ValuesAnswered(n, where)' = ValuesAnswered(n, where) /\ Nameless(where)' = Nameless(where)
    BY <1>2, <2>2 DEF ValuesAnswered, Nameless
  <2> QED
    BY <1>2, <2>3, <2>4
<1> QED
  BY <1>3, <1>4

\* Every name offered has a value to offer with it, whatever is registered later;
\* __name__ has none only where the series selected have none.
THEOREM NamesAreAlive == Spec => []NoDeadEntry
<1>1. Spec => []DeadEntryInv
  BY DeadEntryInvInit, DeadEntryInvStep, PTL DEF Spec
<1>2. DeadEntryInv => NoDeadEntry
  BY DEF DeadEntryInv
<1> QED
  BY <1>1, <1>2, PTL

-----------------------------------------------------------------------------
(* Answers about labels, beside the series streamed.                       *)

\* Who answers a call: its own handler, and not by failing.
LEMMA WhoAnswers ==
    ASSUME TypeInv, [Next]_vars, NEW d \in Calls, NEW kind, Answers(d, kind)
    PROVE  /\ kind = "LabelNames" => LabelNames(d)
           /\ kind = "LabelValues" => LabelValues(d)
           /\ kind = "Info" => Info(d)
<1>1. /\ phase[d] = "received" /\ request[d].kind = kind /\ status[d] = "none"
      /\ status'[d] = "OK" /\ ~Excluded(request[d].matchers)
  BY DEF Answers, Asks, TypeInv, Quiet
<1>2. status \in [Calls -> {"none", "OK", "InvalidArgument", "Internal", "Unknown"}]
  BY DEF TypeInv, TypeOK
<1>3. ASSUME NEW e \in Calls, Handler(e), e # d PROVE status'[d] = status[d]
  BY <1>2, <1>3
     DEF Handler, Receive, Refuse, AnswerNothing, QueryFails, Info, LabelNames, LabelValues,
         SeriesQuery, SendSeries, SendFails, SeriesDone, End
<1>4. Handler(d)
  BY <1>1, <1>3 DEF Next, Register, Store, vars
<1>5. ~Receive(d) /\ ~SeriesQuery(d)
  BY <1>1 DEF Receive, SeriesQuery
<1>6. ~Refuse(d) /\ ~QueryFails(d) /\ ~AnswerNothing(d)
  BY <1>1, <1>2 DEF Refuse, QueryFails, AnswerNothing, End
<1>7. ~SendSeries(d) /\ ~SendFails(d) /\ ~SeriesDone(d)
  BY <1>1 DEF SendSeries, SendFails, SeriesDone
<1> QED
  BY <1>1, <1>4, <1>5, <1>6, <1>7 DEF Handler, Info, LabelNames, LabelValues, Asks

\* A series that a call has built is one that a call with the same matchers
\* selects now.
LEMMA BuiltAreSelected ==
    ASSUME AnswerInv, NEW c \in Calls, NEW d \in Calls, Admitted(d), SameSelection(c, d),
           NEW i \in 1..Len(Built(c))
    PROVE  \E l \in Selected(Where(d), metricLabels) :
              l.metric \in Metrics /\ Built(c)[i].lset = SeenOf(l)
<1>1. PICK l \in metricLabels :
         Built(c)[i].lset = SeenOf(l) /\ Satisfies(SeenOf(l), ToSet(request[c].matchers))
  <2>1. PICK source \in Injection(1..Len(Built(c)), metricLabels) : \A j \in 1..Len(Built(c)) :
           /\ Built(c)[j].lset = SeenOf(source[j])
           /\ Satisfies(Built(c)[j].lset, ToSet(request[c].matchers))
    BY DEF AnswerInv, Answer
  <2>2. source \in [1..Len(Built(c)) -> metricLabels]
    BY Fun_InjectionProperties
  <2> QED
    BY <2>1, <2>2
<1>2. l.metric \in Metrics /\ request[d].matchers \in Seq(Matcher)
  BY TableRows, RequestType DEF AnswerInv, TypeInv, TypeOK, TablesOK
<1>3. /\ PromMatchers(request[d].matchers) \subseteq Matcher
      /\ ~BuildFails(PromMatchers(request[d].matchers))
      /\ Satisfies(StoredLabels(SeriesOf[l.metric]), PromMatchers(request[d].matchers))
  BY <1>1, <1>2, MatchersSplit DEF Admitted, SameSelection, SeenOf
<1>4. l \in Selected(Where(d), metricLabels)
  BY <1>2, <1>3, PredicateIsExact DEF Selected, Where
<1> QED
  BY <1>1, <1>2, <1>4

\* Each name a client has seen in a series is answered to it, and to any client
\* that selects the same.
THEOREM NamesAreComplete == Spec => NamesCoverSeries
<1>1. Spec => []AnswerInv
  BY AnswerInvInit, AnswerInvStep, PTL DEF Spec
<1>2. ASSUME AnswerInv, [Next]_vars, NEW c \in Calls, NEW d \in Calls,
             Answers(d, "LabelNames"), SameSelection(c, d),
             NEW i \in 1..Len(Built(c)), NEW n \in DOMAIN Built(c)[i].lset,
             Built(c)[i].lset[n] # Empty
      PROVE  n \in reply'[d]
  <2>1. TypeInv /\ LabelNames(d)
    BY <1>2, WhoAnswers DEF AnswerInv
  <2>2. Admitted(d) /\ reply'[d] = NamesAnswered(Where(d))
    BY <2>1 DEF LabelNames, TypeInv, TypeOK
  <2>3. PICK l \in Selected(Where(d), metricLabels) :
           l.metric \in Metrics /\ Built(c)[i].lset = SeenOf(l)
    BY <1>2, <2>2, BuiltAreSelected
  <2> DEFINE series == SeriesOf[l.metric]
  <2>4. SeriesExist(Where(d), metricLabels)
    BY DEF SeriesExist
  <2>5. CASE n = NameLabel \/ n \in DOMAIN ExternalLabels
    BY <2>2, <2>4, <2>5 DEF NamesAnswered
  <2>6. CASE n # NameLabel /\ n \notin DOMAIN ExternalLabels
    <3>1. n \in DOMAIN series.labels /\ series.labels[n] # Empty
      BY <1>2, <2>3, <2>6 DEF SeenOf, PromLabels
    <3>2. n \in LabelNamesOf(Where(d), metricLabels)
      BY <3>1 DEF LabelNamesOf
    <3> QED
      BY <2>2, <2>4, <3>2 DEF NamesAnswered
  <2> QED
    BY <2>5, <2>6
<1>3. AnswerInv /\ [Next]_vars =>
        [\A c, d \in Calls : Answers(d, "LabelNames") /\ SameSelection(c, d) =>
          \A i \in 1..Len(Built(c)) : \A n \in DOMAIN Built(c)[i].lset :
              Built(c)[i].lset[n] # Empty => n \in reply'[d]]_vars
  BY <1>2
<1> QED
  BY <1>1, <1>3, PTL DEF Spec, NamesCoverSeries

\* And so is each value.
THEOREM ValuesAreComplete == Spec => ValuesCoverSeries
<1>1. Spec => []AnswerInv
  BY AnswerInvInit, AnswerInvStep, PTL DEF Spec
<1>2. ASSUME AnswerInv, [Next]_vars, NEW c \in Calls, NEW d \in Calls,
             Answers(d, "LabelValues"), SameSelection(c, d), NEW i \in 1..Len(Built(c)),
             ValueIn(Built(c)[i].lset, request[d].label) # Empty
      PROVE  ValueIn(Built(c)[i].lset, request[d].label) \in reply'[d]
  <2> DEFINE label == request[d].label
             value == ValueIn(Built(c)[i].lset, label)
  <2>1. TypeInv /\ LabelValues(d)
    BY <1>2, WhoAnswers DEF AnswerInv
  <2>2. Admitted(d) /\ reply'[d] = ValuesAnswered(label, Where(d))
    BY <2>1 DEF LabelValues, TypeInv, TypeOK
  <2>3. PICK l \in Selected(Where(d), metricLabels) :
           l.metric \in Metrics /\ Built(c)[i].lset = SeenOf(l)
    BY <1>2, <2>2, BuiltAreSelected
  <2>4. value = IF label \in DOMAIN ExternalLabels THEN ExternalLabels[label]
                ELSE ColumnValue(label, SeriesOf[l.metric])
    BY <2>3, ClientValue, ColumnIsValue DEF SeenOf
  <2>5. SeriesExist(Where(d), metricLabels)
    BY DEF SeriesExist
  <2> HIDE DEF value, label
  <2> QED
    BY <1>2, <2>2, <2>4, <2>5 DEF ValuesAnswered, LabelValuesOf, value, label
<1>3. AnswerInv /\ [Next]_vars =>
        [\A c, d \in Calls : Answers(d, "LabelValues") /\ SameSelection(c, d) =>
          \A i \in 1..Len(Built(c)) :
              LET value == ValueIn(Built(c)[i].lset, request[d].label)
              IN  value # Empty => value \in reply'[d]]_vars
  BY <1>2
<1> QED
  BY <1>1, <1>3, PTL DEF Spec, ValuesCoverSeries

\* Info hides no stored sample, unless one is older than 1970: the minimum time
\* announced is none that a stored sample precedes.
THEOREM InfoIsSafe == Spec => InfoCoversData
<1>1. Spec => []TypeInv
  BY TypeInvInit, TypeInvStep, PTL DEF Spec
<1>2. ASSUME TypeInv, [Next]_vars, NEW c \in Calls, Answers(c, "Info"),
             \A i \in 1..Len(metricValues) : ~(MetricTime(metricValues[i].sample.at) < 0),
             NEW i \in 1..Len(metricValues), Representable(metricValues[i].sample.at)
      PROVE  minTime'[c] <= metricValues[i].sample.at
  <2> DEFINE at(j) == metricValues[j].sample.at
             read(j) == UnixMilli(MetricTime(at(j)))
  <2>1. Info(c) /\ TablesOK
    BY <1>2, WhoAnswers DEF TypeInv, TypeOK, TablesOK
  <2>2. Len(metricValues) \in Nat /\ \A j \in 1..Len(metricValues) : at(j) \in Int
    BY <2>1, TableRows
  <2>3. read(i) = at(i)
    BY <1>2, <2>2, RoundTrip
  <2>4. /\ MinSampleTimestamp \in Int
        /\ \A j \in 1..Len(metricValues) : MinSampleTimestamp <= read(j)
        /\ metricValues # <<>> => \E j \in 1..Len(metricValues) : MinSampleTimestamp = read(j)
    BY <2>1, MinimumTime
  <2>5. metricValues # <<>>
    BY <2>2
  <2>6. PICK m \in 1..Len(metricValues) : MinSampleTimestamp = read(m)
    BY <2>4, <2>5
  <2>7. read(m) >= 0
    <3>1. read(m) \in Int /\ MetricTime(at(m)) = Instant(read(m))
      BY <2>2, RowsAreReadable
    <3>2. Instant(0) <= Instant(read(m))
      <4>1. Instant(0) = 0 /\ Instant(read(m)) \in Int /\ ~(Instant(read(m)) < 0)
        BY <1>2, <3>1, TimestampsAssumption DEF Instant
      <4> QED
        BY <4>1
    <3> HIDE DEF read, at
    <3> QED
      BY <3>1, <3>2, InstantInOrder
  <2>8. HasData(MinSampleTimestamp)
    BY <2>6, <2>7 DEF HasData
  <2>9. minTime'[c] = MinSampleTimestamp
    BY <1>2, <2>1, <2>8 DEF Info, TypeInv, TypeOK
  <2> QED
    BY <2>3, <2>4, <2>9
<1>3. TypeInv /\ [Next]_vars =>
        [\A c \in Calls : Answers(c, "Info") =>
          \/ \E i \in 1..Len(metricValues) : MetricTime(metricValues[i].sample.at) < 0
          \/ \A i \in 1..Len(metricValues) : LET t == metricValues[i].sample.at IN
                Representable(t) => minTime'[c] <= t]_vars
  BY <1>2
<1> QED
  BY <1>1, <1>3, PTL DEF Spec, InfoCoversData

-----------------------------------------------------------------------------
(* All that was asked for.                                                 *)

\* Where a sample of a chunk was among the samples before they were chunked.
Place(k, j) == (k - 1) * MaxSamplesPerChunk + j

\* In which chunk a sample is, and where in it, is read off its number.
LEMMA PlacesAreUnique ==
    ASSUME NEW k \in Nat \ {0}, NEW m \in Nat \ {0},
           NEW j \in 1..MaxSamplesPerChunk, NEW n \in 1..MaxSamplesPerChunk,
           Place(k, j) = Place(m, n)
    PROVE  k = m /\ j = n
<1> DEFINE M == MaxSamplesPerChunk
<1>1. M \in Nat \ {0}
  BY StoreAPIAssumption
<1> HIDE DEF M
<1>2. ASSUME NEW a \in Nat, NEW b \in Nat, a < b
      PROVE  a * M + M <= b * M /\ a * M \in Nat /\ b * M \in Nat
  <2>1. ASSUME NEW x \in Nat, NEW y \in Nat, x <= y PROVE x * M <= y * M
    BY <1>1, <2>1
  <2>2. (a + 1) * M <= b * M
    BY <1>2, <2>1
  <2>3. (a + 1) * M = a * M + M
    BY <1>1
  <2> QED
    BY <1>1, <2>2, <2>3
<1>3. (k - 1) * M + j = (m - 1) * M + n /\ j \in 1..M /\ n \in 1..M
  BY DEF Place, M
<1>4. ~(k - 1 < m - 1)
  <2> SUFFICES ASSUME k - 1 < m - 1 PROVE FALSE
    OBVIOUS
  <2> DEFINE a == (k - 1) * M
             b == (m - 1) * M
  <2>1. a + M <= b /\ a \in Nat /\ b \in Nat
    BY <1>2
  <2>2. a + j = b + n
    BY <1>3
  <2> HIDE DEF a, b
  <2> QED
    BY <1>1, <1>3, <2>1, <2>2
<1>5. ~(m - 1 < k - 1)
  <2> SUFFICES ASSUME m - 1 < k - 1 PROVE FALSE
    OBVIOUS
  <2> DEFINE a == (k - 1) * M
             b == (m - 1) * M
  <2>1. b + M <= a /\ a \in Nat /\ b \in Nat
    BY <1>2
  <2>2. a + j = b + n
    BY <1>3
  <2> HIDE DEF a, b
  <2> QED
    BY <1>1, <1>3, <2>1, <2>2
<1>6. k = m
  BY <1>4, <1>5
<1>7. j = n
  <2> DEFINE a == (k - 1) * M
  <2>1. a \in Nat /\ a + j = a + n
    BY <1>1, <1>3, <1>6
  <2> HIDE DEF a
  <2> QED
    BY <1>3, <2>1
<1> QED
  BY <1>6, <1>7

\* The places in some chunks.
PlacesIn(chunks) == UNION {{<<k, j>> : j \in DOMAIN chunks[k].samples} : k \in DOMAIN chunks}

\* Chunking moves each sample to one place, and makes up none.
LEMMA ChunksKeepSamples ==
    ASSUME NEW samples \in Seq(Int)
    PROVE  LET chunks == EncodeXORChunks(samples)
           IN  \E e \in Bijection(PlacesIn(chunks), 1..Len(samples)) : \A p \in PlacesIn(chunks) :
                  chunks[p[1]].samples[p[2]] = samples[e[p]]
<1> DEFINE chunks == EncodeXORChunks(samples)
           M == MaxSamplesPerChunk
           begin(k) == (k - 1) * MaxSamplesPerChunk
           size == Len(samples)
           places == PlacesIn(chunks)
<1>1. M \in Nat \ {0} /\ size \in Nat
  BY StoreAPIAssumption, LenProperties
<1>2. /\ Len(chunks) \in Nat /\ DOMAIN chunks = 1..Len(chunks)
      /\ size <= Len(chunks) * M
      /\ \A k \in 1..Len(chunks) :
            LET held == chunks[k].samples
            IN  /\ begin(k) \in Nat /\ begin(k) < size
                /\ begin(k + 1) = begin(k) + M
                /\ held \in Seq(Int)
                /\ Len(held) = IF begin(k + 1) <= size THEN M ELSE size - begin(k)
                /\ \A j \in 1..Len(held) : held[j] = samples[begin(k) + j]
  BY ChunksOf
<1>3. \A k, j : Place(k, j) = begin(k) + j
  BY DEF Place
<1> HIDE DEF chunks, M, begin, size
<1>4. ASSUME NEW k \in DOMAIN chunks
      PROVE  /\ k \in Nat \ {0} /\ DOMAIN chunks[k].samples = 1..Len(chunks[k].samples)
             /\ \A j \in 1..Len(chunks[k].samples) :
                   /\ j \in 1..M /\ Place(k, j) \in 1..size
                   /\ chunks[k].samples[j] = samples[Place(k, j)]
  <2> DEFINE held == chunks[k].samples
  <2>1. k \in 1..Len(chunks) /\ k \in Nat \ {0}
    BY <1>2
  <2>2. /\ begin(k) \in Nat /\ begin(k) < size /\ begin(k + 1) = begin(k) + M
        /\ held \in Seq(Int)
        /\ Len(held) = IF begin(k + 1) <= size THEN M ELSE size - begin(k)
        /\ \A j \in 1..Len(held) : held[j] = samples[begin(k) + j]
    BY <1>2, <2>1
  <2>3. DOMAIN held = 1..Len(held)
    BY <2>2, LenProperties
  <2>4. Len(held) <= M /\ begin(k) + Len(held) <= size /\ Len(held) \in Nat
    BY <1>1, <2>2
  <2>5. \A j \in 1..Len(held) : j \in 1..M /\ begin(k) + j \in 1..size
    BY <1>1, <2>2, <2>4
  <2> QED
    BY <1>3, <2>1, <2>2, <2>3, <2>5
<1> DEFINE e == [p \in places |-> Place(p[1], p[2])]
<1>5. ASSUME NEW p \in places
      PROVE  /\ p = <<p[1], p[2]>> /\ p[1] \in DOMAIN chunks
             /\ p[2] \in 1..Len(chunks[p[1]].samples)
  <2>1. PICK k \in DOMAIN chunks : \E j \in DOMAIN chunks[k].samples : p = <<k, j>>
    BY DEF PlacesIn
  <2> QED
    BY <1>4, <2>1
<1>6. e \in [places -> 1..size]
  BY <1>4, <1>5
<1>7. ASSUME NEW p \in places, NEW q \in places, e[p] = e[q]
      PROVE  p = q
  <2>1. Place(p[1], p[2]) = Place(q[1], q[2])
    BY <1>7
  <2>2. /\ p[1] \in Nat \ {0} /\ q[1] \in Nat \ {0} /\ p[2] \in 1..M /\ q[2] \in 1..M
    BY <1>4, <1>5
  <2>3. p[1] = q[1] /\ p[2] = q[2]
    BY <2>1, <2>2, PlacesAreUnique DEF M
  <2> QED
    BY <1>5, <2>3
<1>8. ASSUME NEW n \in 1..size
      PROVE  \E p \in places : e[p] = n
  <2> DEFINE q == (n - 1) \div M
             k == q + 1
             j == n - q * M
  <2>1. /\ q \in Nat /\ q * M \in Nat /\ q * M <= n - 1 /\ n - 1 < q * M + M
    BY <1>1
  <2> HIDE DEF q
  <2>2. begin(k) = q * M
    BY <2>1 DEF begin, M
  <2>3. k \in 1..Len(chunks)
    <3> SUFFICES ASSUME Len(chunks) <= q PROVE FALSE
      BY <1>2, <2>1
    <3>1. ASSUME NEW x \in Nat, NEW y \in Nat, x <= y PROVE x * M <= y * M /\ x * M \in Nat
      BY <1>1, <3>1
    <3>2. Len(chunks) * M <= q * M /\ Len(chunks) * M \in Nat
      BY <1>2, <2>1, <3>1
    <3> QED
      BY <1>1, <1>2, <2>1, <3>2
  <2> DEFINE len == Len(chunks[k].samples)
  <2>4. begin(k + 1) = begin(k) + M /\ len = IF begin(k + 1) <= size THEN M ELSE size - begin(k)
    BY <1>2, <2>3
  <2>5. j \in 1..len
    <3> DEFINE b == q * M
    <3>1. b \in Nat /\ b <= n - 1 /\ n - 1 < b + M /\ len = IF b + M <= size THEN M ELSE size - b
      BY <2>1, <2>2, <2>4
    <3> HIDE DEF b, len
    <3>2. n - b \in 1..len
      BY <1>1, <3>1
    <3> QED
      BY <3>2 DEF b
  <2>6. Place(k, j) = n
    <3> DEFINE b == q * M
    <3>1. Place(k, j) = b + (n - b) /\ b \in Nat
      BY <1>3, <2>1, <2>2
    <3> HIDE DEF b
    <3> QED
      BY <3>1
  <2> HIDE DEF k, j
  <2>7. <<k, j>> \in places
    BY <1>2, <1>4, <2>3, <2>5 DEF PlacesIn
  <2>8. e[<<k, j>>] = n
    BY <2>6, <2>7
  <2> QED
    BY <2>7, <2>8
<1>9. \A p \in places : chunks[p[1]].samples[p[2]] = samples[e[p]]
  BY <1>4, <1>5
<1> HIDE DEF e, places
<1>10. e \in Bijection(places, 1..size)
  BY <1>6, <1>7, <1>8, Fun_IsBij
<1> QED
  BY <1>9, <1>10 DEF chunks, size, places

\* So each row of a key is at one place in its series, with its time.
LEMMA SeriesKeepRows ==
    ASSUME NEW rows, Len(rows) \in Nat, \A i \in 1..Len(rows) : UnixMilli(rows[i].at) \in Int,
           NEW positions \in SUBSET (1..Len(rows))
    PROVE  LET chunks == EncodeXORChunks(SortedTimes(rows, positions))
           IN  \E e \in Bijection(PlacesIn(chunks), positions) : \A p \in PlacesIn(chunks) :
                  chunks[p[1]].samples[p[2]] = UnixMilli(rows[e[p]].at)
<1> DEFINE times == SortedTimes(rows, positions)
           chunks == EncodeXORChunks(times)
           places == PlacesIn(chunks)
<1>1. /\ times \in Seq(Int)
      /\ \A i, j \in 1..Len(times) : i < j => times[i] <= times[j]
      /\ \E f \in Bijection(1..Len(times), positions) :
            \A i \in 1..Len(times) : times[i] = UnixMilli(rows[f[i]].at)
  BY TimesSorted
<1> HIDE DEF times
<1>2. PICK f \in Bijection(1..Len(times), positions) :
            \A i \in 1..Len(times) : times[i] = UnixMilli(rows[f[i]].at)
  BY <1>1
<1>3. PICK e \in Bijection(places, 1..Len(times)) : \A p \in places :
            chunks[p[1]].samples[p[2]] = times[e[p]]
  BY <1>1, ChunksKeepSamples
<1> HIDE DEF places, chunks
<1>4. /\ f \in [1..Len(times) -> positions] /\ e \in [places -> 1..Len(times)]
      /\ \A i, j \in 1..Len(times) : f[i] = f[j] => i = j
      /\ \A p, q \in places : e[p] = e[q] => p = q
      /\ \A x \in positions : \E i \in 1..Len(times) : f[i] = x
      /\ \A i \in 1..Len(times) : \E p \in places : e[p] = i
  BY Fun_BijectionProperties
<1> DEFINE g == [p \in places |-> f[e[p]]]
<1>5. g \in [places -> positions] /\ \A p, q \in places : g[p] = g[q] => p = q
  BY <1>4
<1>6. \A x \in positions : \E p \in places : g[p] = x
  BY <1>4
<1>7. \A p \in places : chunks[p[1]].samples[p[2]] = UnixMilli(rows[g[p]].at)
  BY <1>2, <1>3, <1>4
<1> HIDE DEF g
<1>8. g \in Bijection(places, positions)
  BY <1>5, <1>6, Fun_IsBij
<1> QED
  BY <1>7, <1>8 DEF places, chunks, times

\* The samples that a stream holds at a time under a label set are the stored ones
\* read at that time, one for one.
LEMMA StreamHoldsStored ==
    ASSUME TablesOK, NEW query,
           NEW rows \in QueryDatabaseSamples(query, metricLabels, metricValues),
           NEW series \in BuildSeries(rows, FALSE), NEW lset, NEW t,
           NEW read, read = {pair \in Joined(query, metricLabels, metricValues) :
                               SeenOf(pair[1]) = lset /\ ReadAt(pair) = t}
    PROVE  ExistsBijection(StreamedAt(lset, t, series), read)
<1> DEFINE joined == Joined(query, metricLabels, metricValues)
           streamed == StreamedAt(lset, t, series)
           keys == {RowKey(rows[i]) : i \in 1..Len(rows)}
           chunks(key) == EncodeXORChunks(SortedTimes(rows, Group(rows, key)))
<1>1. /\ Len(rows) \in Nat
      /\ \A i \in 1..Len(rows) : UnixMilli(rows[i].at) \in Int
      /\ \E f \in Bijection(1..Len(rows), joined) : \A i \in 1..Len(rows) :
            /\ RowKey(rows[i]) = KeyOf(f[i][1])
            /\ UnixMilli(rows[i].at) = ReadAt(f[i])
  BY RowsOfPairs
<1>2. /\ Len(series) \in Nat /\ DOMAIN series = 1..Len(series)
      /\ \A i, j \in 1..Len(series) : i < j => ~Precedes(series[j].lset, series[i].lset)
      /\ \E g \in Bijection(1..Len(series), keys) : \A i \in 1..Len(series) :
            series[i] = [lset   |-> PromLabels(g[i][1], g[i][2]),
                         chunks |-> IF FALSE THEN <<>> ELSE chunks(g[i])]
  <2>1. BuiltFrom(rows, FALSE, series)
    BY <1>1, SeriesBuilt
  <2> QED
    BY <2>1 DEF BuiltFrom
<1> HIDE DEF joined, keys, chunks
<1>3. read = {pair \in joined : SeenOf(pair[1]) = lset /\ ReadAt(pair) = t}
  BY DEF joined
<1>4. PICK f \in Bijection(1..Len(rows), joined) : \A i \in 1..Len(rows) :
         RowKey(rows[i]) = KeyOf(f[i][1]) /\ UnixMilli(rows[i].at) = ReadAt(f[i])
  BY <1>1
<1>5. /\ f \in [1..Len(rows) -> joined] /\ \A i, j \in 1..Len(rows) : f[i] = f[j] => i = j
      /\ \A pair \in joined : \E i \in 1..Len(rows) : f[i] = pair
  BY <1>4, Fun_BijectionProperties
<1>6. PICK g \in Bijection(1..Len(series), keys) : \A i \in 1..Len(series) :
         series[i] = [lset   |-> PromLabels(g[i][1], g[i][2]),
                      chunks |-> IF FALSE THEN <<>> ELSE chunks(g[i])]
  BY <1>2
<1>7. /\ g \in [1..Len(series) -> keys] /\ \A i, j \in 1..Len(series) : g[i] = g[j] => i = j
      /\ \A key \in keys : \E i \in 1..Len(series) : g[i] = key
  BY <1>6, Fun_BijectionProperties
<1> DEFINE places(i) == PlacesIn(chunks(g[i]))
           Keeps(i, e) == \A p \in places(i) :
                             chunks(g[i])[p[1]].samples[p[2]] = UnixMilli(rows[e[p]].at)
           kept(i) == CHOOSE e \in Bijection(places(i), Group(rows, g[i])) : Keeps(i, e)
<1>8. ASSUME NEW i \in 1..Len(series)
      PROVE  kept(i) \in Bijection(places(i), Group(rows, g[i])) /\ Keeps(i, kept(i))
  <2>1. Group(rows, g[i]) \in SUBSET (1..Len(rows))
    BY DEF Group
  <2>2. \E e \in Bijection(places(i), Group(rows, g[i])) : Keeps(i, e)
    BY <1>1, <2>1, SeriesKeepRows DEF chunks
  <2> HIDE DEF places, Keeps
  <2> QED
    BY <2>2
<1> HIDE DEF kept
<1>9. ASSUME NEW i \in 1..Len(series)
      PROVE  /\ kept(i) \in [places(i) -> Group(rows, g[i])]
             /\ \A p, q \in places(i) : kept(i)[p] = kept(i)[q] => p = q
             /\ \A r \in Group(rows, g[i]) : \E p \in places(i) : kept(i)[p] = r
             /\ \A p \in places(i) : series[i].chunks[p[1]].samples[p[2]] = UnixMilli(rows[kept(i)[p]].at)
             /\ series[i].lset = PromLabels(g[i][1], g[i][2]) /\ series[i].chunks = chunks(g[i])
  <2>1. series[i].lset = PromLabels(g[i][1], g[i][2]) /\ series[i].chunks = chunks(g[i])
    <3>1. series[i] = [lset |-> PromLabels(g[i][1], g[i][2]), chunks |-> chunks(g[i])]
      BY <1>6
    <3> QED
      BY <3>1
  <2>2. kept(i) \in Bijection(places(i), Group(rows, g[i])) /\ Keeps(i, kept(i))
    BY <1>8
  <2> HIDE DEF places
  <2>3. /\ kept(i) \in [places(i) -> Group(rows, g[i])]
        /\ \A p, q \in places(i) : kept(i)[p] = kept(i)[q] => p = q
        /\ \A r \in Group(rows, g[i]) : \E p \in places(i) : kept(i)[p] = r
    BY <2>2, Fun_BijectionProperties
  <2> QED
    BY <2>1, <2>2, <2>3
<1>10. ASSUME NEW i \in 1..Len(series), NEW r \in Group(rows, g[i])
      PROVE  /\ r \in 1..Len(rows) /\ f[r] \in joined /\ SeenOf(f[r][1]) = series[i].lset
             /\ ReadAt(f[r]) = UnixMilli(rows[r].at)
  <2>1. r \in 1..Len(rows) /\ RowKey(rows[r]) = g[i]
    BY DEF Group
  <2>2. series[i].lset = PromLabels(g[i][1], g[i][2])
    BY <1>9
  <2>3. KeyOf(f[r][1]) = g[i] /\ ReadAt(f[r]) = UnixMilli(rows[r].at)
    BY <1>4, <2>1
  <2> QED
    BY <1>5, <2>1, <2>2, <2>3 DEF SeenOf, KeyOf
<1>11. \A at \in streamed : /\ at = <<at[1], at[2], at[3]>> /\ at[1] \in 1..Len(series)
                            /\ <<at[2], at[3]>> \in places(at[1])
                            /\ series[at[1]].lset = lset
                            /\ series[at[1]].chunks[at[2]].samples[at[3]] = t
  <2> SUFFICES ASSUME NEW at \in streamed
               PROVE  /\ at = <<at[1], at[2], at[3]>> /\ at[1] \in 1..Len(series)
                      /\ <<at[2], at[3]>> \in places(at[1])
                      /\ series[at[1]].lset = lset
                      /\ series[at[1]].chunks[at[2]].samples[at[3]] = t
    OBVIOUS
  <2>1. PICK i \in {n \in DOMAIN series : series[n].lset = lset} :
          \E k \in DOMAIN series[i].chunks :
             \E j \in {n \in DOMAIN series[i].chunks[k].samples :
                         series[i].chunks[k].samples[n] = t} : at = <<i, k, j>>
    BY DEF StreamedAt
  <2>2. PICK k \in DOMAIN series[i].chunks :
             \E j \in {n \in DOMAIN series[i].chunks[k].samples :
                         series[i].chunks[k].samples[n] = t} : at = <<i, k, j>>
    BY <2>1
  <2>3. PICK j \in {n \in DOMAIN series[i].chunks[k].samples :
                         series[i].chunks[k].samples[n] = t} : at = <<i, k, j>>
    BY <2>2
  <2>4. i \in 1..Len(series) /\ series[i].chunks = chunks(g[i])
    BY <1>2, <1>9, <2>1
  <2>5. <<k, j>> \in places(i)
    BY <2>2, <2>3, <2>4 DEF PlacesIn
  <2> QED
    BY <2>1, <2>3, <2>4, <2>5
<1>12. ASSUME NEW i \in 1..Len(series), NEW p \in places(i), series[i].lset = lset,
              series[i].chunks[p[1]].samples[p[2]] = t
       PROVE  <<i, p[1], p[2]>> \in streamed /\ p = <<p[1], p[2]>>
  <2>1. PICK k \in DOMAIN chunks(g[i]) : \E j \in DOMAIN chunks(g[i])[k].samples : p = <<k, j>>
    BY DEF PlacesIn
  <2>2. p = <<p[1], p[2]>> /\ p[1] \in DOMAIN series[i].chunks
        /\ p[2] \in DOMAIN series[i].chunks[p[1]].samples
    BY <1>9, <2>1
  <2>3. i \in {n \in DOMAIN series : series[n].lset = lset}
    BY <1>2, <1>12
  <2> QED
    BY <1>12, <2>2, <2>3 DEF StreamedAt
<1> HIDE DEF places, streamed
<1> DEFINE H == [at \in streamed |-> f[kept(at[1])[<<at[2], at[3]>>]]]
<1>13. ASSUME NEW at \in streamed
       PROVE  /\ H[at] = f[kept(at[1])[<<at[2], at[3]>>]] /\ H[at] \in read
              /\ kept(at[1])[<<at[2], at[3]>>] \in Group(rows, g[at[1]])
  <2> DEFINE i == at[1]
             p == <<at[2], at[3]>>
  <2>1. /\ i \in 1..Len(series) /\ p \in places(i) /\ series[i].lset = lset
        /\ series[i].chunks[p[1]].samples[p[2]] = t
    BY <1>11
  <2> HIDE DEF i, p
  <2>2. /\ kept(i)[p] \in Group(rows, g[i])
        /\ UnixMilli(rows[kept(i)[p]].at) = t
    BY <1>9, <2>1
  <2>3. f[kept(i)[p]] \in joined /\ SeenOf(f[kept(i)[p]][1]) = lset /\ ReadAt(f[kept(i)[p]]) = t
    BY <1>10, <2>1, <2>2
  <2>4. H[at] = f[kept(i)[p]]
    BY DEF i, p
  <2> HIDE DEF H
  <2> QED
    BY <1>3, <2>2, <2>3, <2>4 DEF i, p
<1> HIDE DEF H
<1>14. H \in [streamed -> read]
  BY <1>13 DEF H
<1>15. ASSUME NEW a \in streamed, NEW b \in streamed, H[a] = H[b]
       PROVE  a = b
  <2> DEFINE r == kept(a[1])[<<a[2], a[3]>>]
             s == kept(b[1])[<<b[2], b[3]>>]
  <2>1. H[a] = f[r] /\ H[b] = f[s] /\ r \in Group(rows, g[a[1]]) /\ s \in Group(rows, g[b[1]])
    BY <1>13
  <2> HIDE DEF r, s
  <2>2. r = s
    <3>1. r \in 1..Len(rows) /\ s \in 1..Len(rows)
      BY <2>1 DEF Group
    <3> QED
      BY <1>5, <1>15, <2>1, <3>1
  <2>3. g[a[1]] = g[b[1]]
    BY <2>1, <2>2 DEF Group
  <2>4. a[1] = b[1] /\ a[1] \in 1..Len(series)
    BY <1>7, <1>11, <2>3
  <2>5. <<a[2], a[3]>> = <<b[2], b[3]>>
    <3>1. <<a[2], a[3]>> \in places(a[1]) /\ <<b[2], b[3]>> \in places(a[1])
      BY <1>11, <2>4
    <3>2. kept(a[1])[<<a[2], a[3]>>] = kept(a[1])[<<b[2], b[3]>>]
      BY <2>2, <2>4 DEF r, s
    <3> QED
      BY <1>9, <2>4, <3>1, <3>2
  <2> QED
    BY <1>11, <2>4, <2>5
<1>16. ASSUME NEW pair \in read
       PROVE  \E at \in streamed : H[at] = pair
  <2>1. PICK r \in 1..Len(rows) : f[r] = pair
    BY <1>5, <1>3
  <2>2. PICK i \in 1..Len(series) : g[i] = RowKey(rows[r])
    BY <1>7 DEF keys
  <2>3. r \in Group(rows, g[i])
    BY <2>2 DEF Group
  <2>4. series[i].lset = lset /\ UnixMilli(rows[r].at) = t
    BY <1>10, <1>3, <2>1, <2>3
  <2>5. PICK p \in places(i) : kept(i)[p] = r
    BY <1>9, <2>3
  <2>6. series[i].chunks[p[1]].samples[p[2]] = t
    BY <1>9, <2>4, <2>5
  <2>7. <<i, p[1], p[2]>> \in streamed /\ p = <<p[1], p[2]>>
    BY <1>12, <2>4, <2>6
  <2>8. H[<<i, p[1], p[2]>>] = pair
    BY <1>13, <2>1, <2>5, <2>7
  <2> QED
    BY <2>7, <2>8
<1>17. H \in Bijection(streamed, read)
  BY <1>14, <1>15, <1>16, Fun_IsBij
<1> QED
  BY <1>17 DEF ExistsBijection, streamed

\* The pairs joined that a client sees under a label set it asked for, at a time it
\* asked for, are all those stored that are read at that time.
LEMMA ReadFromStored ==
    ASSUME TablesOK, NEW c, request[c] \in Requests, Admitted(c), NEW lset, NEW t \in Int,
           Satisfies(lset, ToSet(request[c].matchers)), request[c].start <= t, t <= request[c].end
    PROVE  LET joined == Joined(BuildSQLQuery(PromQuery(c)), metricLabels, metricValues)
               read   == {pair \in joined : SeenOf(pair[1]) = lset /\ ReadAt(pair) = t}
           IN  /\ StoredAt(lset, t) \subseteq read /\ IsFiniteSet(read)
               /\ Cardinality(read) - Cardinality(StoredAt(lset, t))
                    \in 0..Cardinality(Displaced(lset))
<1> DEFINE joined == Joined(BuildSQLQuery(PromQuery(c)), metricLabels, metricValues)
           read == {pair \in joined : SeenOf(pair[1]) = lset /\ ReadAt(pair) = t}
           stored == StoredAt(lset, t)
           rest == read \ stored
<1>1. joined = {pair \in metricLabels \X (1..Len(metricValues)) :
                  /\ metricValues[pair[2]].id = pair[1].id
                  /\ Satisfies(SeenOf(pair[1]), ToSet(request[c].matchers))
                  /\ request[c].start <= ReadAt(pair) /\ ReadAt(pair) <= request[c].end}
  BY JoinedPairs
<1> HIDE DEF joined
<1>2. read = {pair \in StoredOf(lset) : ReadAt(pair) = t}
  BY <1>1 DEF StoredOf, SeenAs, SeenOf
<1>3. Len(metricValues) \in Nat /\ \A i \in 1..Len(metricValues) : metricValues[i].sample.at \in Int
  BY TableRows
<1>4. ASSUME NEW pair \in StoredOf(lset), Representable(WrittenAt(pair))
      PROVE  ReadAt(pair) = WrittenAt(pair)
  <2>1. WrittenAt(pair) \in Int
    BY <1>3 DEF StoredOf, WrittenAt
  <2> QED
    BY <1>4, <2>1, RoundTrip DEF ReadAt
<1>5. stored \subseteq read /\ rest \subseteq Displaced(lset)
  BY <1>2, <1>4 DEF StoredAt, Displaced
<1>6. IsFiniteSet(StoredOf(lset))
  <2>1. IsFiniteSet(1..Len(metricValues))
    BY <1>3, FS_Interval
  <2>2. IsFiniteSet(metricLabels \X (1..Len(metricValues)))
    BY <2>1, FS_Product DEF TablesOK
  <2>3. StoredOf(lset) \subseteq metricLabels \X (1..Len(metricValues))
    BY DEF StoredOf, SeenAs
  <2> QED
    BY <2>2, <2>3, FS_Subset
<1>7. IsFiniteSet(read) /\ IsFiniteSet(Displaced(lset))
  <2>1. read \subseteq StoredOf(lset) /\ Displaced(lset) \subseteq StoredOf(lset)
    BY <1>2 DEF Displaced
  <2> QED
    BY <1>6, <2>1, FS_Subset
<1> HIDE DEF read, stored
<1>8. IsFiniteSet(stored) /\ IsFiniteSet(rest) /\ Cardinality(rest) <= Cardinality(Displaced(lset))
  BY <1>5, <1>7, FS_Subset
<1>9. Cardinality(read) = Cardinality(stored) + Cardinality(rest)
  <2> DEFINE both == stored \cup rest
             common == stored \cap rest
  <2>1. both = read /\ common = {}
    BY <1>5
  <2>2. Cardinality(both) = Cardinality(stored) + Cardinality(rest) - Cardinality(common)
    BY <1>8, FS_Union
  <2> HIDE DEF rest, both, common
  <2>3. Cardinality(common) = 0
    BY <2>1, FS_EmptySet
  <2>4. Cardinality(stored) \in Nat /\ Cardinality(rest) \in Nat
    BY <1>8, FS_CardinalityType
  <2> QED
    BY <2>1, <2>2, <2>3, <2>4
<1> HIDE DEF rest
<1>10. /\ Cardinality(stored) \in Nat /\ Cardinality(rest) \in Nat
       /\ Cardinality(Displaced(lset)) \in Nat
  BY <1>7, <1>8, FS_CardinalityType
<1> QED
  BY <1>5, <1>7, <1>8, <1>9, <1>10 DEF read, stored, joined

\* Without chunks, the series itself is there still.
LEMMA StreamNamesJoined ==
    ASSUME TablesOK, NEW query,
           NEW rows \in QueryDatabaseSamples(query, metricLabels, metricValues),
           NEW skip \in BOOLEAN, NEW series \in BuildSeries(rows, skip),
           NEW pair \in Joined(query, metricLabels, metricValues)
    PROVE  \E i \in DOMAIN series : series[i].lset = SeenOf(pair[1])
<1> DEFINE joined == Joined(query, metricLabels, metricValues)
           keys == {RowKey(rows[i]) : i \in 1..Len(rows)}
           chunks(key) == EncodeXORChunks(SortedTimes(rows, Group(rows, key)))
<1>1. /\ Len(rows) \in Nat
      /\ \A i \in 1..Len(rows) : UnixMilli(rows[i].at) \in Int
      /\ \E f \in Bijection(1..Len(rows), joined) : \A i \in 1..Len(rows) :
            /\ RowKey(rows[i]) = KeyOf(f[i][1])
            /\ UnixMilli(rows[i].at) = ReadAt(f[i])
  BY RowsOfPairs
<1>2. /\ Len(series) \in Nat /\ DOMAIN series = 1..Len(series)
      /\ \A i, j \in 1..Len(series) : i < j => ~Precedes(series[j].lset, series[i].lset)
      /\ \E g \in Bijection(1..Len(series), keys) : \A i \in 1..Len(series) :
            series[i] = [lset   |-> PromLabels(g[i][1], g[i][2]),
                         chunks |-> IF skip THEN <<>> ELSE chunks(g[i])]
  <2>1. BuiltFrom(rows, skip, series)
    BY <1>1, SeriesBuilt
  <2> QED
    BY <2>1 DEF BuiltFrom
<1> HIDE DEF joined, keys, chunks
<1>3. PICK f \in Bijection(1..Len(rows), joined) : \A i \in 1..Len(rows) :
         RowKey(rows[i]) = KeyOf(f[i][1])
  BY <1>1
<1>4. PICK r \in 1..Len(rows) : f[r] = pair
  <2>1. \A x \in joined : \E i \in 1..Len(rows) : f[i] = x
    BY <1>3, Fun_BijectionProperties
  <2> QED
    BY <2>1 DEF joined
<1>5. PICK g \in Bijection(1..Len(series), keys) : \A i \in 1..Len(series) :
         series[i] = [lset   |-> PromLabels(g[i][1], g[i][2]),
                      chunks |-> IF skip THEN <<>> ELSE chunks(g[i])]
  BY <1>2
<1>6. PICK i \in 1..Len(series) : g[i] = RowKey(rows[r])
  <2>1. \A key \in keys : \E i \in 1..Len(series) : g[i] = key
    BY <1>5, Fun_BijectionProperties
  <2> QED
    BY <2>1 DEF keys
<1>7. series[i].lset = PromLabels(g[i][1], g[i][2])
  <2>1. series[i] = [lset   |-> PromLabels(g[i][1], g[i][2]),
                     chunks |-> IF skip THEN <<>> ELSE chunks(g[i])]
    BY <1>5
  <2> QED
    BY <2>1
<1>8. g[i] = KeyOf(pair[1])
  BY <1>3, <1>4, <1>6
<1> QED
  BY <1>2, <1>7, <1>8 DEF KeyOf, SeenOf

\* A call starts streaming in its query.
LEMMA WhoStreams ==
    ASSUME TypeInv, [Next]_vars, NEW c \in Calls, StartsStreaming(c)
    PROVE  SeriesQuery(c)
<1>1. phase[c] = "received" /\ phase'[c] = "streaming"
  BY DEF StartsStreaming
<1>2. phase \in [Calls -> {"idle", "received", "streaming", "ended"}]
  BY DEF TypeInv, TypeOK
<1>3. ASSUME NEW e \in Calls, Handler(e), e # c PROVE phase'[c] = phase[c]
  BY <1>2, <1>3
     DEF Handler, Receive, Refuse, AnswerNothing, QueryFails, Info, LabelNames, LabelValues,
         SeriesQuery, SendSeries, SendFails, SeriesDone, End, GoTo
<1>4. Handler(c)
  BY <1>1, <1>3 DEF Next, Register, Store, vars
<1> QED
  BY <1>1, <1>2, <1>4
     DEF Handler, Receive, Refuse, AnswerNothing, QueryFails, Info, LabelNames, LabelValues,
         SendSeries, SendFails, SeriesDone, End, GoTo

\* No stored sample that was asked for is lost on its way into the stream, and none
\* is made up or moved: for every time, as many are streamed as are stored, and
\* beside them at most those written for a time that int64 nanoseconds cannot say.
THEOREM StreamsAreComplete == Spec => SeriesComplete
<1> DEFINE Complete(c, l) ==
      LET series == SeriesOf[l.metric]
          lset   == PromLabels(series.name, series.labels)
          asked  == {t \in Times : request[c].start <= t /\ t <= request[c].end}
      IN  Satisfies(lset, ToSet(request[c].matchers)) =>
            IF request[c].skipChunks
            THEN (\E t \in asked : StoredAt(lset, t) # {}) =>
                    \E i \in DOMAIN stream'[c] : stream'[c][i].lset = lset
            ELSE \A t \in asked :
                    Cardinality(StreamedAt(lset, t, stream'[c]))
                        - Cardinality(StoredAt(lset, t))
                      \in 0..Cardinality(Displaced(lset))
<1>1. ASSUME TypeInv, [Next]_vars, NEW c \in Calls, StartsStreaming(c), NEW l \in metricLabels
      PROVE  Complete(c, l)
  <2> DEFINE lset == SeenOf(l)
             query == BuildSQLQuery(PromQuery(c))
             joined == Joined(query, metricLabels, metricValues)
             read(t) == {pair \in joined : SeenOf(pair[1]) = lset /\ ReadAt(pair) = t}
  <2> SUFFICES ASSUME Satisfies(lset, ToSet(request[c].matchers)),
                      NEW t \in Times, request[c].start <= t, t <= request[c].end
               PROVE  IF request[c].skipChunks
                      THEN StoredAt(lset, t) # {} =>
                              \E i \in DOMAIN stream'[c] : stream'[c][i].lset = lset
                      ELSE Cardinality(StreamedAt(lset, t, stream'[c]))
                             - Cardinality(StoredAt(lset, t)) \in 0..Cardinality(Displaced(lset))
    BY DEF SeenOf
  <2>1. SeriesQuery(c) /\ Admitted(c)
    BY <1>1, WhoStreams DEF SeriesQuery
  <2>2. TablesOK /\ request[c] \in Requests /\ request[c].skipChunks \in BOOLEAN /\ t \in Int
    BY <1>1, RequestType, StoreAPIAssumption DEF TypeInv, TypeOK, TablesOK
  <2>3. PICK rows \in QueryDatabaseSamples(query, metricLabels, metricValues) :
           stream'[c] \in BuildSeries(rows, request[c].skipChunks)
    BY <1>1, <2>1, QueryAnswers
  <2>4. /\ StoredAt(lset, t) \subseteq read(t) /\ IsFiniteSet(read(t))
        /\ Cardinality(read(t)) - Cardinality(StoredAt(lset, t)) \in 0..Cardinality(Displaced(lset))
    BY <2>1, <2>2, ReadFromStored
  <2>5. CASE request[c].skipChunks
    <3> SUFFICES ASSUME NEW pair \in StoredAt(lset, t)
                 PROVE  \E i \in DOMAIN stream'[c] : stream'[c][i].lset = lset
      BY <2>5
    <3>1. pair \in joined /\ SeenOf(pair[1]) = lset
      BY <2>4
    <3> HIDE DEF query, lset
    <3> QED
      BY <2>2, <2>3, <3>1, StreamNamesJoined
  <2>6. CASE ~request[c].skipChunks
    <3>1. stream'[c] \in BuildSeries(rows, FALSE)
      BY <2>2, <2>3, <2>6
    <3> HIDE DEF query, lset
    <3>2. read(t) = {pair \in Joined(query, metricLabels, metricValues) :
                       SeenOf(pair[1]) = lset /\ ReadAt(pair) = t}
      OBVIOUS
    <3> HIDE DEF read
    <3>3. ExistsBijection(StreamedAt(lset, t, stream'[c]), read(t))
      BY <2>2, <3>1, <3>2, StreamHoldsStored
    <3>4. Cardinality(StreamedAt(lset, t, stream'[c])) = Cardinality(read(t))
      BY <2>4, <3>3, Fun_ExistsBijSymmetric, FS_Bijection
    <3> QED
      BY <2>4, <2>6, <3>4
  <2> QED
    BY <2>2, <2>5, <2>6
<1>2. TypeInv /\ [Next]_vars =>
        [\A c \in Calls : StartsStreaming(c) => \A l \in metricLabels : Complete(c, l)]_vars
  <2> HIDE DEF Complete
  <2> QED
    BY <1>1
<1>3. Spec => []TypeInv
  BY TypeInvInit, TypeInvStep, PTL DEF Spec
<1>4. [][\A c \in Calls : StartsStreaming(c) => \A l \in metricLabels : Complete(c, l)]_vars
        => SeriesComplete
  BY DEF SeriesComplete
<1> HIDE DEF Complete
<1> QED
  BY <1>2, <1>3, <1>4, PTL DEF Spec
=============================================================================
