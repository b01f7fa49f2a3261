-------------------------- MODULE RemoteReadProofs --------------------------
(***************************************************************************)
(* What Prometheus may rely on in a remote read, proved for any tables,    *)
(* any requests and any interleaving of its queries with ingestion: rows   *)
(* are gathered under keys that no two series share, the answer has        *)
(* nothing but what was stored and asked for, and all of that but one row  *)
(* per label set.                                                          *)
(***************************************************************************)
EXTENDS RemoteRead, SelectionProofs, SequenceTheorems

-----------------------------------------------------------------------------
(* Keys.                                                                   *)

\* Bytes, of strings or of keys.
Text == Seq(Nat)
Sep == <<Separator>>

\* Texts without the separator.
Plain == {t \in Text : \A i \in 1..Len(t) : t[i] # Separator}

\* A text after another, with the separator between them.
After(u, x) == (u \o Sep) \o x

\* Texts written one after the other.
LEMMA Written ==
    ASSUME NEW p \in Text, NEW q \in Text
    PROVE  /\ p \o q \in Text /\ Len(p) \in Nat /\ Len(q) \in Nat
           /\ Len(p \o q) = Len(p) + Len(q)
           /\ \A i \in 1..Len(p) : (p \o q)[i] = p[i]
           /\ \A i \in 1..Len(q) : (p \o q)[Len(p) + i] = q[i]
<1>1. /\ p \o q \in Text /\ Len(p) \in Nat /\ Len(q) \in Nat /\ Len(p \o q) = Len(p) + Len(q)
      /\ \A i \in 1..(Len(p) + Len(q)) :
            (p \o q)[i] = IF i <= Len(p) THEN p[i] ELSE q[i - Len(p)]
  BY ConcatProperties, LenProperties DEF Text
<1>2. ASSUME NEW i \in 1..Len(p) PROVE (p \o q)[i] = p[i]
  <2>1. i \in 1..(Len(p) + Len(q)) /\ i <= Len(p)
    BY <1>1
  <2> QED
    BY <1>1, <2>1
<1>3. ASSUME NEW i \in 1..Len(q) PROVE (p \o q)[Len(p) + i] = q[i]
  <2>1. Len(p) + i \in 1..(Len(p) + Len(q)) /\ ~(Len(p) + i <= Len(p)) /\ (Len(p) + i) - Len(p) = i
    BY <1>1
  <2> QED
    BY <1>1, <2>1
<1> QED
  BY <1>1, <1>2, <1>3

LEMMA WithSeparator ==
    ASSUME NEW p \in Text
    PROVE  /\ p \o Sep \in Text /\ Len(p \o Sep) = Len(p) + 1
           /\ (p \o Sep)[Len(p) + 1] = Separator
           /\ \A i \in 1..Len(p) : (p \o Sep)[i] = p[i]
<1>1. Sep \in Text /\ Len(Sep) = 1 /\ Sep[1] = Separator
  BY DEF Text, Sep, Separator
<1>2. /\ p \o Sep \in Text /\ Len(p \o Sep) = Len(p) + Len(Sep)
      /\ \A i \in 1..Len(p) : (p \o Sep)[i] = p[i]
      /\ \A i \in 1..Len(Sep) : (p \o Sep)[Len(p) + i] = Sep[i]
  BY <1>1, Written
<1>3. 1 \in 1..Len(Sep)
  BY <1>1
<1>4. (p \o Sep)[Len(p) + 1] = Separator
  BY <1>1, <1>2, <1>3
<1> QED
  BY <1>1, <1>2, <1>4

\* What stands before the last separator and what stands after it.
LEMMA SplitAtSeparator ==
    \A u, v \in Text : \A x, y \in Plain :
        After(u, x) = After(v, y) => u = v /\ x = y
<1> SUFFICES ASSUME NEW u \in Text, NEW v \in Text, NEW x \in Plain, NEW y \in Plain,
                    (u \o Sep) \o x = (v \o Sep) \o y
             PROVE  u = v /\ x = y
  BY DEF After
<1> DEFINE s  == u \o Sep
           t  == v \o Sep
           lu == Len(u)
           lv == Len(v)
           lx == Len(x)
           ly == Len(y)
<1>0. /\ x \in Text /\ \A i \in 1..lx : x[i] # Separator
      /\ y \in Text /\ \A i \in 1..ly : y[i] # Separator
  BY DEF Plain
<1>1. lu \in Nat /\ lv \in Nat /\ lx \in Nat /\ ly \in Nat
  BY <1>0 DEF Text
<1>2. /\ s \in Text /\ Len(s) = lu + 1 /\ s[lu + 1] = Separator
      /\ \A i \in 1..lu : s[i] = u[i]
  BY WithSeparator
<1>3. /\ t \in Text /\ Len(t) = lv + 1 /\ t[lv + 1] = Separator
      /\ \A i \in 1..lv : t[i] = v[i]
  BY WithSeparator
<1> DEFINE w == s \o x
<1> HIDE DEF s, t
<1>4. /\ Len(w) = (lu + 1) + lx
      /\ \A i \in 1..(lu + 1) : w[i] = s[i]
      /\ \A i \in 1..lx : w[(lu + 1) + i] = x[i]
  <2>1. /\ Len(s \o x) = Len(s) + Len(x) /\ \A i \in 1..Len(s) : (s \o x)[i] = s[i]
        /\ \A i \in 1..Len(x) : (s \o x)[Len(s) + i] = x[i]
    BY <1>0, <1>2, Written
  <2> QED
    BY <1>2, <2>1
<1>5. w = t \o y
  BY DEF s, t
<1>6. /\ Len(w) = (lv + 1) + ly
      /\ \A i \in 1..(lv + 1) : w[i] = t[i]
      /\ \A i \in 1..ly : w[(lv + 1) + i] = y[i]
  <2>1. /\ Len(t \o y) = Len(t) + Len(y) /\ \A i \in 1..Len(t) : (t \o y)[i] = t[i]
        /\ \A i \in 1..Len(y) : (t \o y)[Len(t) + i] = y[i]
    BY <1>0, <1>3, Written
  <2> QED
    BY <1>3, <1>5, <2>1
<1> HIDE DEF w, lu, lv, lx, ly
<1>7. lu = lv
  <2>1. ASSUME lu < lv PROVE FALSE
    <3>1. lv - lu \in 1..lx /\ (lu + 1) + (lv - lu) = lv + 1
      BY <1>1, <1>4, <1>6, <2>1
    <3>2. w[lv + 1] = x[lv - lu]
      BY <1>4, <3>1
    <3>3. lv + 1 \in 1..(lv + 1)
      BY <1>1
    <3>4. w[lv + 1] = Separator
      BY <1>3, <1>6, <3>3
    <3>5. x[lv - lu] # Separator
      BY <1>0, <3>1
    <3> QED
      BY <3>2, <3>4, <3>5
  <2>2. ASSUME lv < lu PROVE FALSE
    <3>1. lu - lv \in 1..ly /\ (lv + 1) + (lu - lv) = lu + 1
      BY <1>1, <1>4, <1>6, <2>2
    <3>2. w[lu + 1] = y[lu - lv]
      BY <1>6, <3>1
    <3>3. lu + 1 \in 1..(lu + 1)
      BY <1>1
    <3>4. w[lu + 1] = Separator
      BY <1>2, <1>4, <3>3
    <3>5. y[lu - lv] # Separator
      BY <1>0, <3>1
    <3> QED
      BY <3>2, <3>4, <3>5
  <2> QED
    BY <1>1, <2>1, <2>2
<1>8. lx = ly
  BY <1>1, <1>4, <1>6, <1>7
<1>9. \A i \in 1..lu : u[i] = v[i]
  <2> SUFFICES ASSUME NEW i \in 1..lu PROVE u[i] = v[i]
    OBVIOUS
  <2>1. i \in 1..(lu + 1) /\ i \in 1..lv
    BY <1>1, <1>7
  <2> QED
    BY <1>2, <1>3, <1>4, <1>6, <1>7, <2>1
<1>10. \A i \in 1..lx : x[i] = y[i]
  BY <1>4, <1>6, <1>7, <1>8
<1> QED
  BY <1>0, <1>7, <1>8, <1>9, <1>10, SeqEqual DEF Text, lu, lv, lx, ly

\* The parts of a key, each but the first with the separator before it, and the
\* key as far as each of them.
LEMMA FlattenSeqUnfolds ==
    ASSUME NEW n \in Nat, n # 0, NEW parts \in [1..n -> Text]
    PROVE  \E f \in [1..n -> Text] :
              /\ FlattenSeq(parts) = f[n] /\ f[1] = parts[1]
              /\ \A i \in 2..n : f[i] = f[i - 1] \o parts[i]
<1> DEFINE Built(f, j) == /\ f \in [1..j -> Text] /\ f[1] = parts[1]
                          /\ \A i \in 2..j : f[i] = f[i - 1] \o parts[i]
           T == {j \in 1..n : ~\E f : Built(f, j)}
<1> HIDE DEF Built
<1>0. Len(parts) = n /\ Len(parts) # 0
  OBVIOUS
<1>1. T = {}
  <2> SUFFICES ASSUME T # {} PROVE FALSE
    OBVIOUS
  <2>1. T \subseteq 1..n /\ T \subseteq Int
    OBVIOUS
  <2>2. IsFiniteSet(T)
    BY <2>1, FS_Interval, FS_Subset
  <2> HIDE DEF T
  <2>3. PICK j \in T : \A k \in T : j <= k
    BY <2>1, <2>2, LeastExists
  <2>4. CASE j = 1
    <3> DEFINE f == [i \in 1..1 |-> parts[i]]
    <3>1. f \in [1..1 -> Text] /\ f[1] = parts[1]
      OBVIOUS
    <3>2. \A i \in 2..1 : FALSE
      OBVIOUS
    <3> HIDE DEF f
    <3>3. Built(f, 1)
      BY <3>1, <3>2 DEF Built
    <3> QED
      BY <2>4, <3>3 DEF T
  <2>5. CASE j # 1
    <3>1. j \in 1..n /\ j - 1 \in 1..n /\ ~(j <= j - 1)
      BY <2>1, <2>5
    <3>2. j - 1 \notin T
      BY <2>3, <3>1
    <3>3. PICK g : Built(g, j - 1)
      BY <3>1, <3>2 DEF T
    <3> DEFINE f == [i \in 1..j |-> IF i < j THEN g[i] ELSE g[j - 1] \o parts[j]]
    <3>4. f[j] = g[j - 1] \o parts[j] /\ \A i \in 1..(j - 1) : i \in 1..j /\ f[i] = g[i]
      BY <3>1
    <3>5. \A i \in 1..j : i = j \/ i \in 1..(j - 1)
      BY <3>1
    <3>6. j - 1 \in 1..(j - 1) /\ 1 \in 1..(j - 1)
      BY <3>1
    <3>7. f[j] \in Text
      BY <3>1, <3>3, <3>4, <3>6, Written DEF Built
    <3>8. f \in [1..j -> Text]
      <4>1. f = [i \in 1..j |-> f[i]]
        OBVIOUS
      <4> HIDE DEF f
      <4> QED
        BY <3>3, <3>4, <3>5, <3>7, <4>1 DEF Built
    <3> HIDE DEF f
    <3>9. ASSUME NEW i \in 2..j PROVE f[i] = f[i - 1] \o parts[i]
      <4>1. i - 1 \in 1..(j - 1) /\ i \in 1..j
        BY <3>1
      <4>2. CASE i = j
        BY <3>4, <4>1, <4>2
      <4>3. CASE i # j
        <5>1. i \in 1..(j - 1) /\ i \in 2..(j - 1)
          BY <3>1, <4>3
        <5> QED
          BY <3>3, <3>4, <4>1, <5>1 DEF Built
      <4> QED
        BY <4>2, <4>3
    <3>10. Built(f, j)
      BY <3>3, <3>4, <3>6, <3>8, <3>9 DEF Built
    <3> QED
      BY <3>10 DEF T
  <2> QED
    BY <2>4, <2>5
<1>2. PICK f : f \in [1..n -> Text] /\ f[1] = parts[1] /\ \A i \in 2..n : f[i] = f[i - 1] \o parts[i]
  <2>1. n \in 1..n
    OBVIOUS
  <2>2. PICK f : Built(f, n)
    BY <1>1, <2>1
  <2> QED
    BY <2>2 DEF Built
<1> DEFINE Flat(g) == g = [i \in 1..Len(parts) |-> IF i = 1 THEN parts[i] ELSE g[i - 1] \o parts[i]]
           flatten == CHOOSE g : Flat(g)
<1>3. Flat(f)
  <2>1. f = [i \in 1..n |-> f[i]]
    BY <1>2
  <2>2. ASSUME NEW i \in 1..n
        PROVE  f[i] = IF i = 1 THEN parts[i] ELSE f[i - 1] \o parts[i]
    <3>1. i # 1 => i \in 2..n
      OBVIOUS
    <3> QED
      BY <1>2, <3>1
  <2>3. [i \in 1..n |-> f[i]] =
          [i \in 1..Len(parts) |-> IF i = 1 THEN parts[i] ELSE f[i - 1] \o parts[i]]
    BY <1>0, <2>2
  <2> QED
    BY <2>1, <2>3
<1>4. Flat(flatten)
  <2> HIDE DEF Flat
  <2> QED
    BY <1>3
<1>5. FlattenSeq(parts) = flatten[n]
  <2>1. FlattenSeq(parts) = flatten[Len(parts)]
    BY <1>0 DEF FlattenSeq
  <2> QED
    BY <1>0, <2>1
<1> HIDE DEF flatten
<1>6. \A i \in 1..n : flatten[i] = IF i = 1 THEN parts[i] ELSE flatten[i - 1] \o parts[i]
  BY <1>0, <1>4
<1>7. \A i \in 1..n : flatten[i] = f[i]
  <2> DEFINE U == {i \in 1..n : flatten[i] # f[i]}
  <2> SUFFICES ASSUME U # {} PROVE FALSE
    OBVIOUS
  <2>1. U \subseteq 1..n /\ U \subseteq Int
    OBVIOUS
  <2>2. IsFiniteSet(U)
    BY <2>1, FS_Interval, FS_Subset
  <2>3. \A i \in 1..n : flatten[i] # f[i] => i \in U
    OBVIOUS
  <2>4. \A i \in U : flatten[i] # f[i]
    OBVIOUS
  <2> HIDE DEF U
  <2>5. PICK i \in U : \A k \in U : i <= k
    BY <2>1, <2>2, LeastExists
  <2>6. CASE i = 1
    BY <1>2, <1>6, <2>1, <2>4, <2>6
  <2>7. CASE i # 1
    <3>1. i \in 2..n /\ i \in 1..n /\ i - 1 \in 1..n /\ ~(i <= i - 1)
      BY <2>1, <2>7
    <3>2. flatten[i - 1] = f[i - 1]
      BY <2>3, <2>5, <3>1
    <3>3. flatten[i] = flatten[i - 1] \o parts[i]
      BY <1>6, <2>7, <3>1
    <3>4. f[i] = f[i - 1] \o parts[i]
      BY <1>2, <3>1
    <3>5. flatten[i] = f[i]
      BY <3>2, <3>3, <3>4, Zenon
    <3> QED
      BY <2>4, <3>5
  <2> QED
    BY <2>6, <2>7
<1>8. n \in 1..n
  OBVIOUS
<1> QED
  BY <1>2, <1>5, <1>7, <1>8

LEMMA Regrouped ==
    ASSUME NEW p \in Text, NEW q \in Text, NEW r \in Text
    PROVE  (p \o q) \o r = p \o (q \o r)
<1> DEFINE S == Nat
<1>1. p \in Seq(S) /\ q \in Seq(S) /\ r \in Seq(S)
  BY DEF Text
<1> HIDE DEF S
<1> QED
  BY <1>1, ConcatAssociative

\* The separator is in no string.
LEMMA StringBytes ==
    ASSUME NEW s \in Strings
    PROVE  Bytes[s] \in Plain /\ Bytes[s] \in Text
<1>1. Bytes[s] \in Seq(0..(Separator - 1))
  BY SampleLabelsAssumption
<1>2. \A i \in 1..Len(Bytes[s]) : Bytes[s][i] \in 0..(Separator - 1)
  BY <1>1, ElementOfSeq
<1>3. \A b \in 0..(Separator - 1) : b \in Nat /\ b # Separator
  BY DEF Separator
<1> DEFINE t == Bytes[s]
<1>4. Len(t) \in Nat /\ t \in [1..Len(t) -> 0..(Separator - 1)]
  BY <1>1, LenProperties
<1> HIDE DEF t
<1>5. t \in [1..Len(t) -> Nat]
  BY <1>3, <1>4
<1>6. t \in Seq(Nat)
  BY <1>4, <1>5
<1> QED
  BY <1>2, <1>3, <1>6 DEF t, Text, Plain

\* The names of a series' labels, each of them once.
LEMMA OrderedKeysList ==
    ASSUME NEW m \in Metrics
    PROVE  LET labels == SeriesOf[m].labels
               keys   == OrderedKeys(labels)
           IN  /\ Len(keys) \in Nat /\ keys \in [1..Len(keys) -> DOMAIN labels]
               /\ \A k \in DOMAIN labels : \E i \in 1..Len(keys) : keys[i] = k
<1> DEFINE labels == SeriesOf[m].labels
           names  == DOMAIN labels
           keys   == OrderedKeys(labels)
           identity == [k \in names |-> k]
<1>1. names \subseteq Strings /\ Strings \subseteq Nat /\ IsFiniteSet(names)
  BY SelectionAssumption, SampleLabelsAssumption
<1> HIDE DEF labels, names
<1>2. identity \in [names -> Int]
  BY <1>1
<1>3. PICK f \in SetToSeqs(names) : \A i, j \in DOMAIN f : i < j => identity[f[i]] <= identity[f[j]]
  BY <1>1, <1>2, SortedExists
<1>4. DOMAIN f = 1..Len(f) /\ f \in Bijection(1..Len(f), names)
  BY <1>1, <1>3, Enumeration
<1>5. /\ f \in [1..Len(f) -> names]
      /\ \A i, j \in 1..Len(f) : f[i] = f[j] => i = j
  BY <1>4, Fun_BijectionProperties
<1>6. \A i, j \in DOMAIN f : i < j => f[i] < f[j]
  <2> SUFFICES ASSUME NEW i \in 1..Len(f), NEW j \in 1..Len(f), i < j PROVE f[i] < f[j]
    BY <1>4
  <2>1. f[i] \in names /\ f[j] \in names
    BY <1>5
  <2>2. f[i] \in Nat /\ f[j] \in Nat
    BY <1>1, <2>1
  <2>3. identity[f[i]] = f[i] /\ identity[f[j]] = f[j] /\ identity[f[i]] <= identity[f[j]]
    BY <1>3, <1>4, <2>1
  <2>4. f[i] # f[j]
    BY <1>5
  <2> QED
    BY <2>2, <2>3, <2>4
<1>7. keys \in SetToSeqs(names)
  BY <1>6 DEF OrderedKeys, names
<1> HIDE DEF keys
<1>8. /\ keys \in Seq(names) /\ DOMAIN keys = 1..Len(keys) /\ Len(keys) \in Nat
      /\ keys \in Bijection(1..Len(keys), names)
  BY <1>1, <1>7, Enumeration, LenProperties
<1>9. /\ keys \in [1..Len(keys) -> names]
      /\ \A k \in names : \E i \in 1..Len(keys) : keys[i] = k
  BY <1>8, Fun_BijectionProperties
<1> QED
  BY <1>8, <1>9 DEF keys, names, labels

\* A pair with the separator before it.
LEMMA PairAfter ==
    ASSUME NEW e \in Text, NEW a \in Text, NEW b \in Text
    PROVE  e \o (Sep \o ((a \o Sep) \o b)) = After(After(e, a), b)
<1> DEFINE x == a \o Sep
           y == e \o Sep
           z == x \o b
<1>1. Sep \in Text
  BY DEF Text, Sep, Separator
<1>2. x \in Text /\ y \in Text
  BY WithSeparator
<1> HIDE DEF x, y
<1>3. z \in Text
  BY <1>2, Written
<1>4. (y \o x) \o b = y \o z
  BY <1>2, Regrouped
<1> HIDE DEF z
<1>5. y \o z = e \o (Sep \o z)
  BY <1>1, <1>3, Regrouped DEF y
<1>6. (y \o a) \o Sep = y \o x
  <2>1. y \in Text /\ a \in Text /\ Sep \in Text
    BY <1>1, <1>2
  <2>2. (y \o a) \o Sep = y \o (a \o Sep)
    BY <2>1, Regrouped
  <2> QED
    BY <2>2 DEF x
<1>7. After(After(e, a), b) = ((y \o a) \o Sep) \o b
  BY DEF After, y
<1>8. e \o (Sep \o z) = ((y \o a) \o Sep) \o b
  BY <1>4, <1>5, <1>6
<1> QED
  BY <1>7, <1>8 DEF x, z

\* A key grows by a name and a value at a time.
Grows(f, row) ==
    LET keys == OrderedKeys(row.labels)
    IN  /\ f \in [0..Len(keys) -> Text]
        /\ f[0] = Bytes[row.name] \o Sep
        /\ \A i \in 1..Len(keys) :
              f[i] = After(After(f[i - 1], Bytes[keys[i]]), Bytes[row.labels[keys[i]]])

LEMMA KeyGrows ==
    ASSUME NEW m \in Metrics
    PROVE  \E f : Grows(f, SeriesOf[m]) /\ Key(SeriesOf[m]) = f[Len(OrderedKeys(SeriesOf[m].labels))]
<1> DEFINE row  == SeriesOf[m]
           keys == OrderedKeys(row.labels)
           n    == Len(keys)
           head == Bytes[row.name] \o Sep
           pair(i) == Bytes[keys[i]] \o Sep \o Bytes[row.labels[keys[i]]]
           pairs == [i \in 1..n |-> pair(i)]
           parts == <<head>> \o pairs
           joined == [i \in 1..Len(parts) |-> IF i = 1 THEN parts[1] ELSE Sep \o parts[i]]
<1>1. n \in Nat /\ keys \in [1..n -> DOMAIN row.labels]
  BY OrderedKeysList
<1>2. /\ row.name \in Strings
      /\ \A i \in 1..n : keys[i] \in Strings /\ row.labels[keys[i]] \in Strings
  BY <1>1, SelectionAssumption
<1>3. Key(row) = FlattenSeq(joined)
  BY DEF Key, Join, Sep
<1>4. Sep \in Text
  BY DEF Text, Sep, Separator
<1> HIDE DEF row, keys, n
<1>5. head \in Text
  BY <1>2, <1>4, StringBytes, Written
<1>6. \A i \in 1..n : Bytes[keys[i]] \in Text /\ Bytes[row.labels[keys[i]]] \in Text
  BY <1>2, StringBytes
<1>7. \A i \in 1..n : pair(i) \in Text /\ Sep \o pair(i) \in Text
  BY <1>4, <1>6, Written
<1> HIDE DEF head, pair
<1>8. /\ Len(parts) = n + 1 /\ parts[1] = head
      /\ \A i \in 1..n : parts[i + 1] = pair(i)
  <2> DEFINE first == <<head>>
  <2>1. first \in Seq(Text) /\ Len(first) = 1 /\ first[1] = head
    BY <1>5
  <2>2. pairs \in Seq(Text) /\ Len(pairs) = n /\ \A i \in 1..n : pairs[i] = pair(i)
    BY <1>1, <1>7
  <2> HIDE DEF first, pairs
  <2>3. /\ Len(first \o pairs) = Len(first) + Len(pairs)
        /\ \A i \in 1..(Len(first) + Len(pairs)) :
              (first \o pairs)[i] = IF i <= Len(first) THEN first[i] ELSE pairs[i - Len(first)]
    BY <2>1, <2>2, ConcatProperties
  <2>4. parts = first \o pairs
    BY DEF first
  <2> HIDE DEF parts
  <2>5. 1 \in 1..(1 + n) /\ parts[1] = head /\ Len(parts) = n + 1
    BY <1>1, <2>1, <2>2, <2>3, <2>4
  <2>6. ASSUME NEW i \in 1..n PROVE parts[i + 1] = pair(i)
    <3>1. i + 1 \in 1..(1 + n) /\ ~(i + 1 <= 1) /\ (i + 1) - 1 = i
      BY <1>1
    <3> QED
      BY <2>1, <2>2, <2>3, <2>4, <3>1
  <2> QED
    BY <2>5, <2>6
<1> HIDE DEF parts
<1>9. joined[1] = head /\ DOMAIN joined = 1..(n + 1)
  BY <1>1, <1>8
<1>10. ASSUME NEW i \in 1..n PROVE joined[i + 1] = Sep \o pair(i)
  <2>1. i + 1 \in 1..Len(parts) /\ i + 1 # 1
    BY <1>1, <1>8
  <2>2. joined[i + 1] = Sep \o parts[i + 1]
    BY <2>1
  <2> QED
    BY <1>8, <2>2
<1>11. joined \in [1..(n + 1) -> Text]
  <2>1. joined = [i \in 1..(n + 1) |-> joined[i]]
    BY <1>9
  <2>2. ASSUME NEW i \in 1..(n + 1) PROVE joined[i] \in Text
    <3>1. i = 1 \/ (i - 1 \in 1..n /\ (i - 1) + 1 = i)
      BY <1>1
    <3> QED
      BY <1>5, <1>7, <1>9, <1>10, <3>1
  <2> HIDE DEF joined
  <2> QED
    BY <2>1, <2>2
<1> HIDE DEF joined
<1>12. PICK g \in [1..(n + 1) -> Text] :
          /\ FlattenSeq(joined) = g[n + 1] /\ g[1] = joined[1]
          /\ \A i \in 2..(n + 1) : g[i] = g[i - 1] \o joined[i]
  <2> DEFINE l == n + 1
  <2>1. l \in Nat /\ l # 0 /\ joined \in [1..l -> Text]
    BY <1>1, <1>11
  <2> HIDE DEF l
  <2>2. \E g \in [1..l -> Text] :
           /\ FlattenSeq(joined) = g[l] /\ g[1] = joined[1]
           /\ \A i \in 2..l : g[i] = g[i - 1] \o joined[i]
    BY <2>1, FlattenSeqUnfolds
  <2> QED
    BY <2>2 DEF l
<1> DEFINE f == [i \in 0..n |-> g[i + 1]]
<1>13. f[0] = head /\ f[n] = Key(row) /\ \A i \in 0..n : f[i] = g[i + 1]
  BY <1>1, <1>3, <1>9, <1>12
<1>14. f \in [0..n -> Text]
  BY <1>1, <1>12
<1> HIDE DEF f
<1>15. ASSUME NEW i \in 1..n
       PROVE  f[i] = After(After(f[i - 1], Bytes[keys[i]]), Bytes[row.labels[keys[i]]])
  <2> DEFINE a == Bytes[keys[i]]
             b == Bytes[row.labels[keys[i]]]
             e == f[i - 1]
  <2>1. i \in 0..n /\ i - 1 \in 0..n /\ i + 1 \in 2..(n + 1) /\ (i + 1) - 1 = i /\ (i - 1) + 1 = i
    BY <1>1
  <2>2. f[i] = e \o (Sep \o pair(i))
    <3>1. f[i] = g[i + 1] /\ e = g[i]
      BY <1>13, <2>1
    <3>2. g[i + 1] = g[(i + 1) - 1] \o joined[i + 1]
      BY <1>12, <2>1
    <3>3. g[(i + 1) - 1] = g[i] /\ joined[i + 1] = Sep \o pair(i)
      BY <1>10, <2>1
    <3> HIDE DEF e, pair
    <3> QED
      BY <3>1, <3>2, <3>3
  <2>3. e \in Text /\ a \in Text /\ b \in Text
    BY <1>6, <1>14, <2>1
  <2>4. pair(i) = (a \o Sep) \o b
    BY DEF pair
  <2> HIDE DEF e, a, b
  <2>5. e \o (Sep \o ((a \o Sep) \o b)) = After(After(e, a), b)
    BY <2>3, PairAfter
  <2>6. f[i] = After(After(e, a), b)
    BY <2>2, <2>4, <2>5
  <2> QED
    BY <2>6 DEF e, a, b
<1>16. Grows(f, row)
  BY <1>13, <1>14, <1>15 DEF Grows, n, keys, head
<1> QED
  BY <1>13, <1>16 DEF n, keys, row

\* Nothing is written after the separator of a key that is only a name.
LEMMA NothingAfter ==
    ASSUME NEW u \in Text
    PROVE  After(u, <<>>) = u \o Sep /\ <<>> \in Plain
<1>1. u \o Sep \in Seq(Nat)
  BY WithSeparator DEF Text
<1> QED
  BY <1>1, ConcatEmptySeq DEF After, Plain, Text

\* A key that is only a name has one separator, and no other key has.
LEMMA NameIsNoPair ==
    ASSUME NEW x \in Plain, NEW head \in Text, NEW a \in Plain, NEW b \in Plain,
           x \o Sep = After(After(head, a), b)
    PROVE  FALSE
<1> DEFINE none == <<>>
           u == After(head, a)
<1>1. x \in Text /\ a \in Text /\ none \in Plain /\ After(x, none) = x \o Sep
  BY NothingAfter DEF Plain
<1>2. /\ head \o Sep \in Text /\ Len(head) \in Nat /\ Len(head \o Sep) = Len(head) + 1
      /\ (head \o Sep)[Len(head) + 1] = Separator
  BY WithSeparator, LenProperties DEF Text
<1>3. /\ u \in Text /\ Len(a) \in Nat /\ Len(u) = Len(head \o Sep) + Len(a)
      /\ \A i \in 1..Len(head \o Sep) : u[i] = (head \o Sep)[i]
  BY <1>1, <1>2, Written DEF After
<1>4. Len(head) + 1 \in 1..Len(head \o Sep) /\ Len(head) + 1 \in 1..Len(u)
  BY <1>2, <1>3
<1>5. After(x, none) = After(u, b)
  BY <1>1
<1> HIDE DEF u, none
<1>6. x = u
  BY <1>1, <1>3, <1>5, SplitAtSeparator
<1> QED
  BY <1>2, <1>3, <1>4, <1>6 DEF Plain

\* Where two keys are the same so far, so are the names and values they are made of.
LEMMA SameSoFar ==
    ASSUME NEW m \in Metrics, NEW o \in Metrics,
           NEW f, Grows(f, SeriesOf[m]), NEW g, Grows(g, SeriesOf[o]),
           NEW i \in 0..Len(OrderedKeys(SeriesOf[m].labels)),
           NEW j \in 0..Len(OrderedKeys(SeriesOf[o].labels)), f[i] = g[j]
    PROVE  LET mine   == OrderedKeys(SeriesOf[m].labels)
               theirs == OrderedKeys(SeriesOf[o].labels)
           IN  /\ i = 0 <=> j = 0
               /\ i = 0 => SeriesOf[m].name = SeriesOf[o].name
               /\ i # 0 => /\ f[i - 1] = g[j - 1] /\ mine[i] = theirs[j]
                           /\ SeriesOf[m].labels[mine[i]] = SeriesOf[o].labels[theirs[j]]
<1> DEFINE mine   == OrderedKeys(SeriesOf[m].labels)
           theirs == OrderedKeys(SeriesOf[o].labels)
           name(x) == Bytes[SeriesOf[x].name]
<1>1. /\ Len(mine) \in Nat /\ mine \in [1..Len(mine) -> DOMAIN SeriesOf[m].labels]
      /\ Len(theirs) \in Nat /\ theirs \in [1..Len(theirs) -> DOMAIN SeriesOf[o].labels]
  BY OrderedKeysList
<1>2. /\ SeriesOf[m].name \in Strings /\ SeriesOf[o].name \in Strings
      /\ \A k \in 1..Len(mine) : mine[k] \in Strings /\ SeriesOf[m].labels[mine[k]] \in Strings
      /\ \A k \in 1..Len(theirs) :
            theirs[k] \in Strings /\ SeriesOf[o].labels[theirs[k]] \in Strings
  <2>1. \A x \in Metrics : /\ SeriesOf[x].name \in Strings /\ DOMAIN SeriesOf[x].labels \subseteq Strings
                           /\ \A n \in DOMAIN SeriesOf[x].labels : SeriesOf[x].labels[n] \in Strings
    BY SelectionAssumption
  <2> HIDE DEF mine, theirs
  <2>2. /\ \A k \in 1..Len(mine) : mine[k] \in DOMAIN SeriesOf[m].labels
        /\ \A k \in 1..Len(theirs) : theirs[k] \in DOMAIN SeriesOf[o].labels
    BY <1>1
  <2> QED
    BY <2>1, <2>2
<1>3. /\ f[0] = name(m) \o Sep /\ g[0] = name(o) \o Sep
      /\ f \in [0..Len(mine) -> Text] /\ g \in [0..Len(theirs) -> Text]
      /\ \A k \in 1..Len(mine) :
            f[k] = After(After(f[k - 1], Bytes[mine[k]]), Bytes[SeriesOf[m].labels[mine[k]]])
      /\ \A k \in 1..Len(theirs) :
            g[k] = After(After(g[k - 1], Bytes[theirs[k]]), Bytes[SeriesOf[o].labels[theirs[k]]])
  BY DEF Grows
<1>4. name(m) \in Plain /\ name(o) \in Plain /\ name(o) \in Text
  BY <1>2, StringBytes
<1> HIDE DEF mine, theirs, name
<1>5. ASSUME i # 0, j = 0 PROVE FALSE
  <2> DEFINE a == Bytes[mine[i]]
             b == Bytes[SeriesOf[m].labels[mine[i]]]
             head == f[i - 1]
  <2>1. i \in 1..Len(mine) /\ i - 1 \in 0..Len(mine)
    BY <1>1, <1>5 DEF mine
  <2>2. a \in Plain /\ b \in Plain /\ head \in Text
    BY <1>2, <1>3, <2>1, StringBytes
  <2>3. name(o) \o Sep = After(After(head, a), b)
    BY <1>3, <1>5, <2>1
  <2> HIDE DEF a, b, head
  <2> QED
    BY <1>4, <2>2, <2>3, NameIsNoPair
<1>6. ASSUME i = 0, j # 0 PROVE FALSE
  <2> DEFINE a == Bytes[theirs[j]]
             b == Bytes[SeriesOf[o].labels[theirs[j]]]
             head == g[j - 1]
  <2>1. j \in 1..Len(theirs) /\ j - 1 \in 0..Len(theirs)
    BY <1>1, <1>6 DEF theirs
  <2>2. a \in Plain /\ b \in Plain /\ head \in Text
    BY <1>2, <1>3, <2>1, StringBytes
  <2>3. name(m) \o Sep = After(After(head, a), b)
    BY <1>3, <1>6, <2>1
  <2> HIDE DEF a, b, head
  <2> QED
    BY <1>4, <2>2, <2>3, NameIsNoPair
<1>7. ASSUME i = 0, j = 0 PROVE SeriesOf[m].name = SeriesOf[o].name
  <2> DEFINE none == <<>>
  <2>1. /\ none \in Plain /\ name(m) \in Text /\ name(o) \in Text
        /\ After(name(m), none) = name(m) \o Sep /\ After(name(o), none) = name(o) \o Sep
    BY <1>4, NothingAfter DEF Plain
  <2> HIDE DEF none
  <2>2. name(m) = name(o)
    <3>1. After(name(m), none) = After(name(o), none)
      BY <1>3, <1>7, <2>1
    <3> QED
      BY <2>1, <3>1, SplitAtSeparator
  <2> QED
    BY <1>2, <2>2, SampleLabelsAssumption DEF name
<1>8. ASSUME i # 0, j # 0
      PROVE  /\ f[i - 1] = g[j - 1] /\ mine[i] = theirs[j]
             /\ SeriesOf[m].labels[mine[i]] = SeriesOf[o].labels[theirs[j]]
  <2> DEFINE a == Bytes[mine[i]]
             b == Bytes[SeriesOf[m].labels[mine[i]]]
             c == Bytes[theirs[j]]
             d == Bytes[SeriesOf[o].labels[theirs[j]]]
             e == f[i - 1]
             h == g[j - 1]
  <2>1. i \in 1..Len(mine) /\ i - 1 \in 0..Len(mine) /\ j \in 1..Len(theirs) /\ j - 1 \in 0..Len(theirs)
    BY <1>1, <1>8 DEF mine, theirs
  <2>2. /\ mine[i] \in Strings /\ SeriesOf[m].labels[mine[i]] \in Strings
        /\ theirs[j] \in Strings /\ SeriesOf[o].labels[theirs[j]] \in Strings
    BY <1>2, <2>1
  <2>3. a \in Plain /\ b \in Plain /\ c \in Plain /\ d \in Plain
    BY <2>2, StringBytes
  <2>4. After(After(e, a), b) = After(After(h, c), d)
    BY <1>3, <2>1
  <2>5. e \in Text /\ h \in Text
    BY <1>3, <2>1
  <2> HIDE DEF a, b, c, d, e, h
  <2> DEFINE u == After(e, a)
             v == After(h, c)
  <2>6. u \in Text /\ v \in Text
    BY <2>3, <2>5, WithSeparator, Written DEF Plain, After
  <2>7. u = v /\ b = d
    <3>1. After(u, b) = After(v, d)
      BY <2>4
    <3> HIDE DEF u, v
    <3> QED
      BY <2>3, <2>6, <3>1, SplitAtSeparator
  <2>8. e = h /\ a = c
    BY <2>3, <2>5, <2>7, SplitAtSeparator DEF Plain
  <2> QED
    BY <2>2, <2>7, <2>8, SampleLabelsAssumption DEF a, b, c, d, e, h
<1> QED
  BY <1>5, <1>6, <1>7, <1>8 DEF mine, theirs

\* Two series never share a key, whatever bytes their names, label names and
\* values are made of (SampleLabels.Key): what the separator is for.
THEOREM KeysTellSeriesApart ==
    \A m, o \in Metrics : Key(SeriesOf[m]) = Key(SeriesOf[o]) => m = o
<1> SUFFICES ASSUME NEW m \in Metrics, NEW o \in Metrics,
                    Key(SeriesOf[m]) = Key(SeriesOf[o])
             PROVE  m = o
  OBVIOUS
<1> DEFINE mine   == OrderedKeys(SeriesOf[m].labels)
           theirs == OrderedKeys(SeriesOf[o].labels)
           p == Len(mine)
           q == Len(theirs)
           SameValue(k) == /\ mine[k] = theirs[k]
                           /\ SeriesOf[m].labels[mine[k]] = SeriesOf[o].labels[theirs[k]]
           SameName == SeriesOf[m].name = SeriesOf[o].name
<1>1. /\ p \in Nat /\ mine \in [1..p -> DOMAIN SeriesOf[m].labels]
      /\ \A k \in DOMAIN SeriesOf[m].labels : \E i \in 1..p : mine[i] = k
      /\ q \in Nat /\ theirs \in [1..q -> DOMAIN SeriesOf[o].labels]
      /\ \A k \in DOMAIN SeriesOf[o].labels : \E i \in 1..q : theirs[i] = k
  BY OrderedKeysList
<1>2. PICK f : Grows(f, SeriesOf[m]) /\ Key(SeriesOf[m]) = f[p]
  BY KeyGrows
<1>3. PICK g : Grows(g, SeriesOf[o]) /\ Key(SeriesOf[o]) = g[q]
  BY KeyGrows
<1> DEFINE Agree(i, j) == f[i] = g[j] => i = j /\ SameName /\ \A k \in 1..i : SameValue(k)
           T == {i \in 0..p : \E j \in 0..q : ~Agree(i, j)}
<1>4. ASSUME NEW i \in 0..p, NEW j \in 0..q, f[i] = g[j]
      PROVE  /\ i = 0 <=> j = 0
             /\ i = 0 => SameName
             /\ i # 0 => f[i - 1] = g[j - 1] /\ mine[i] = theirs[j]
                          /\ SeriesOf[m].labels[mine[i]] = SeriesOf[o].labels[theirs[j]]
  BY <1>2, <1>3, <1>4, SameSoFar
<1> HIDE DEF mine, theirs, p, q, SameName
<1>5. T = {}
  <2> SUFFICES ASSUME T # {} PROVE FALSE
    OBVIOUS
  <2>1. T \subseteq 0..p /\ T \subseteq Int
    BY <1>1
  <2>3. \A i \in 0..p : i \notin T => \A j \in 0..q : Agree(i, j)
    OBVIOUS
  <2>4. \A i \in T : \E j \in 0..q : ~Agree(i, j)
    OBVIOUS
  <2> HIDE DEF T
  <2>2. IsFiniteSet(T)
    <3>1. 0 \in Int /\ p \in Int
      BY <1>1
    <3>2. IsFiniteSet(0..p)
      BY <3>1, FS_Interval
    <3> QED
      BY <2>1, <3>2, FS_Subset
  <2>5. PICK i \in T : \A k \in T : i <= k
    BY <2>1, <2>2, LeastExists
  <2>6. PICK j \in 0..q : ~Agree(i, j)
    BY <2>4
  <2>7. i \in 0..p /\ f[i] = g[j]
    BY <2>1, <2>6
  <2>8. CASE i = 0
    <3>1. j = 0 /\ SameName
      BY <1>4, <2>7, <2>8
    <3>2. \A k \in 1..i : FALSE
      BY <2>8
    <3> QED
      BY <2>6, <2>8, <3>1, <3>2
  <2>9. CASE i # 0
    <3>1. /\ j # 0 /\ f[i - 1] = g[j - 1] /\ mine[i] = theirs[j]
          /\ SeriesOf[m].labels[mine[i]] = SeriesOf[o].labels[theirs[j]]
      BY <1>4, <2>7, <2>9
    <3>2. i - 1 \in 0..p /\ j - 1 \in 0..q /\ ~(i <= i - 1)
      BY <1>1, <2>7, <2>9, <3>1
    <3>3. Agree(i - 1, j - 1)
      BY <2>3, <2>5, <3>2
    <3> HIDE DEF SameValue
    <3>4. i - 1 = j - 1 /\ SameName /\ \A k \in 1..(i - 1) : SameValue(k)
      BY <3>1, <3>3
    <3>5. i = j
      BY <1>1, <2>7, <3>4
    <3>6. SameValue(i)
      BY <3>1, <3>5 DEF SameValue
    <3>7. \A k \in 1..i : k = i \/ k \in 1..(i - 1)
      BY <1>1, <2>7
    <3> QED
      BY <2>6, <3>4, <3>5, <3>6, <3>7
  <2> QED
    BY <2>8, <2>9
<1>6. p = q /\ SameName /\ \A k \in 1..p : SameValue(k)
  <2>0. p \in 0..p /\ q \in 0..q
    BY <1>1
  <2>1. p \in 0..p /\ q \in 0..q /\ f[p] = g[q]
    BY <1>2, <1>3, <2>0, Zenon
  <2>2. Agree(p, q)
    BY <1>5, <2>1
  <2> QED
    BY <2>1, <2>2
<1>7. DOMAIN SeriesOf[m].labels = DOMAIN SeriesOf[o].labels
  <2>1. ASSUME NEW k \in DOMAIN SeriesOf[m].labels PROVE k \in DOMAIN SeriesOf[o].labels
    <3>1. PICK i \in 1..p : mine[i] = k
      BY <1>1
    <3>2. i \in 1..q /\ theirs[i] = k
      BY <1>6, <3>1
    <3> QED
      BY <1>1, <3>2
  <2>2. ASSUME NEW k \in DOMAIN SeriesOf[o].labels PROVE k \in DOMAIN SeriesOf[m].labels
    <3>1. PICK i \in 1..q : theirs[i] = k
      BY <1>1
    <3>2. i \in 1..p /\ mine[i] = k
      BY <1>6, <3>1
    <3> QED
      BY <1>1, <3>2
  <2> QED
    BY <2>1, <2>2
<1>8. ASSUME NEW k \in DOMAIN SeriesOf[m].labels
      PROVE  SeriesOf[m].labels[k] = SeriesOf[o].labels[k]
  <2>1. PICK i \in 1..p : mine[i] = k
    BY <1>1
  <2>2. SameValue(i)
    BY <1>6
  <2> QED
    BY <2>1, <2>2
<1>9. SeriesOf[m].labels = SeriesOf[o].labels
  <2> DEFINE a == SeriesOf[m].labels
             b == SeriesOf[o].labels
  <2>1. a \in [DOMAIN a -> Strings] /\ b \in [DOMAIN b -> Strings]
    BY SelectionAssumption
  <2>2. DOMAIN a = DOMAIN b /\ \A k \in DOMAIN a : a[k] = b[k]
    BY <1>7, <1>8
  <2> HIDE DEF a, b
  <2>3. a = b
    BY <2>1, <2>2
  <2> QED
    BY <2>3 DEF a, b
<1>10. SeriesOf[m] = SeriesOf[o]
  BY <1>6, <1>9, SelectionAssumption DEF SameName
<1> QED
  BY <1>10, SelectionAssumption

-----------------------------------------------------------------------------
(* Types.                                                                  *)

\* The tables, as far as the proofs need them: finitely many series.
TablesOK ==
    /\ metricLabels \subseteq Registrations /\ IsFiniteSet(metricLabels)
    /\ metricValues \in Seq(ValueRows)

\* A registered series is one of those that metrics stand for.
LEMMA RegisteredMetrics ==
    ASSUME NEW labelRows, labelRows \subseteq Registrations
    PROVE  \A l \in labelRows : l.metric \in Metrics
BY RemoteReadAssumption

\* A value was written for a time.
LEMMA WrittenTimes ==
    ASSUME NEW values \in Seq(ValueRows)
    PROVE  /\ Len(values) \in Nat
           /\ \A i \in 1..Len(values) : values[i].sample.at \in Times /\ values[i].sample.at \in Int
<1>1. Len(values) \in Nat /\ \A i \in 1..Len(values) : values[i] \in ValueRows
  BY LenProperties, ElementOfSeq
<1>2. ASSUME NEW row \in ValueRows
      PROVE  row.sample.at \in Times
  BY DEF ValueRows
<1> QED
  BY <1>1, <1>2, RemoteReadAssumption

\* A request is a sequence of queries.
LEMMA QueryType ==
    ASSUME NEW request \in Requests
    PROVE  /\ Len(request) \in Nat
           /\ \A i \in 1..Len(request) :
                 /\ request[i].matchers \subseteq Matcher
                 /\ request[i].start \in Int /\ request[i].end \in Int
<1> DEFINE Q == [matchers : SUBSET Matcher, start : Int, end : Int]
<1>1. request \in Seq(Q)
  BY RemoteReadAssumption
<1>2. \A q \in Q : q.matchers \subseteq Matcher /\ q.start \in Int /\ q.end \in Int
  OBVIOUS
<1> HIDE DEF Q
<1>3. Len(request) \in Nat /\ \A i \in 1..Len(request) : request[i] \in Q
  BY <1>1, LenProperties, ElementOfSeq
<1> QED
  BY <1>2, <1>3

\* The query that comes next is one of the request's.
LEMMA NextQuery ==
    ASSUME queries \in Requests, answered \in 0..Len(queries), answered < Len(queries)
    PROVE  /\ answered + 1 \in 1..Len(queries)
           /\ queries[answered + 1].matchers \subseteq Matcher
           /\ queries[answered + 1].start \in Int /\ queries[answered + 1].end \in Int
<1>1. Len(queries) \in Nat
  BY QueryType
<1>2. answered + 1 \in 1..Len(queries)
  BY <1>1
<1> QED
  BY <1>2, QueryType

\* A query returns rows, each made from a stored value.
LEMMA QueryReturnsRows ==
    ASSUME TablesOK, NEW query,
           NEW returned \in QueryDatabaseSamples(query, metricLabels, metricValues)
    PROVE  returned \in Seq(Rows)
<1> DEFINE joined == Joined(query, metricLabels, metricValues)
<1>1. returned \in Listings(query, metricLabels, metricValues)
  BY DEF QueryDatabaseSamples
<1>2. Len(metricValues) \in Nat
  BY WrittenTimes DEF TablesOK
<1>3. /\ IsFiniteSet(joined) /\ Len(returned) = Cardinality(joined)
      /\ \E f \in Bijection(1..Len(returned), joined) :
            returned = [i \in 1..Len(returned) |-> JoinedRow(f[i], metricValues)]
  BY <1>1, <1>2, ListingOfJoined DEF TablesOK
<1>4. Len(returned) \in Nat
  BY <1>3, FS_CardinalityType
<1>5. PICK f \in [1..Len(returned) -> joined] :
            returned = [i \in 1..Len(returned) |-> JoinedRow(f[i], metricValues)]
  BY <1>3 DEF Bijection, Injection
<1>6. ASSUME NEW pair \in joined
      PROVE  JoinedRow(pair, metricValues) \in Rows
  <2>1. pair[1] \in metricLabels /\ pair[2] \in 1..Len(metricValues)
    BY DEF Joined, Selected
  <2>2. pair[1].metric \in Metrics /\ metricValues[pair[2]].sample.at \in Times
    BY <2>1, RegisteredMetrics, WrittenTimes DEF TablesOK
  <2> QED
    BY <2>2 DEF JoinedRow, Rows
<1> HIDE DEF joined
<1>7. \A i \in 1..Len(returned) : returned[i] \in Rows
  BY <1>5, <1>6
<1> QED
  BY <1>4, <1>5, <1>7

\* The time of a row is that of a written sample.
LEMMA RowTimes ==
    ASSUME NEW row \in Rows
    PROVE  \E t \in Int : row.at = MetricTime(t)
BY RemoteReadAssumption DEF Rows

\* What is read of a row is a number of milliseconds.
LEMMA ReadType ==
    ASSUME NEW row \in Rows
    PROVE  ReadMilliseconds(row.at) \in Int
BY RowTimes, RowsAreReadable

-----------------------------------------------------------------------------
(* Merging rows.                                                           *)

\* A map of series holds each under the key of its label set.
WellKeyed(series) ==
    \A key \in DOMAIN series : \E m \in Metrics :
        /\ key = Key(SeriesOf[m])
        /\ series[key] \in [labels : {StoredLabels(SeriesOf[m])}, samples : Seq(Int)]

\* A series is told by its name and labels, so by the labels of its TimeSeries.
LEMMA LabelsTellSeriesApart ==
    \A m, o \in Metrics : StoredLabels(SeriesOf[m]) = StoredLabels(SeriesOf[o]) => m = o
<1> SUFFICES ASSUME NEW m \in Metrics, NEW o \in Metrics,
                    StoredLabels(SeriesOf[m]) = StoredLabels(SeriesOf[o])
             PROVE  m = o
  OBVIOUS
<1> DEFINE a == SeriesOf[m].labels
           b == SeriesOf[o].labels
           all == StoredLabels(SeriesOf[m])
<1>1. /\ a \in [DOMAIN a -> Strings] /\ NameLabel \notin DOMAIN a
      /\ b \in [DOMAIN b -> Strings] /\ NameLabel \notin DOMAIN b
  BY SelectionAssumption
<1>2. /\ DOMAIN all = DOMAIN a \cup {NameLabel} /\ DOMAIN all = DOMAIN b \cup {NameLabel}
      /\ all[NameLabel] = SeriesOf[m].name /\ all[NameLabel] = SeriesOf[o].name
      /\ \A n \in DOMAIN a : n # NameLabel => all[n] = a[n]
      /\ \A n \in DOMAIN b : n # NameLabel => all[n] = b[n]
  BY DEF StoredLabels
<1> HIDE DEF a, b, all
<1>3. DOMAIN a = DOMAIN b
  BY <1>1, <1>2
<1>4. \A n \in DOMAIN a : a[n] = b[n]
  BY <1>1, <1>2, <1>3
<1>5. a = b
  BY <1>1, <1>3, <1>4
<1>6. SeriesOf[m] = SeriesOf[o]
  BY <1>2, <1>5, SelectionAssumption DEF a, b
<1> QED
  BY <1>6, SelectionAssumption

\* A row has the key and the labels of its series.
LEMMA RowOfSeries ==
    ASSUME NEW row \in Rows
    PROVE  \E m \in Metrics : /\ RowKey(row) = Key(SeriesOf[m])
                              /\ StoredLabels(row) = StoredLabels(SeriesOf[m])
<1>1. PICK m \in Metrics : row.name = SeriesOf[m].name /\ row.labels = SeriesOf[m].labels
  BY DEF Rows
<1>2. RowKey(row) = Key(SeriesOf[m])
  BY <1>1 DEF RowKey, Key
<1>3. StoredLabels(row) = StoredLabels(SeriesOf[m])
  BY <1>1 DEF StoredLabels
<1> QED
  BY <1>2, <1>3

\* So a series' TimeSeries is the one with its labels.
LEMMA KeyedByLabels ==
    ASSUME NEW series, WellKeyed(series), NEW k \in DOMAIN series
    PROVE  /\ series[k].samples \in Seq(Int)
           /\ \A m \in Metrics :
                 series[k].labels = StoredLabels(SeriesOf[m]) <=> k = Key(SeriesOf[m])
<1>1. PICK o \in Metrics :
         /\ k = Key(SeriesOf[o])
         /\ series[k] \in [labels : {StoredLabels(SeriesOf[o])}, samples : Seq(Int)]
  BY DEF WellKeyed
<1>2. series[k].samples \in Seq(Int) /\ series[k].labels = StoredLabels(SeriesOf[o])
  BY <1>1
<1>3. ASSUME NEW m \in Metrics
      PROVE  series[k].labels = StoredLabels(SeriesOf[m]) <=> k = Key(SeriesOf[m])
  BY <1>1, <1>2, KeysTellSeriesApart, LabelsTellSeriesApart
<1> QED
  BY <1>2, <1>3

\* The row's series gets one sample more, or is made without one; the others
\* stay what they are.
LEMMA MergedRow ==
    ASSUME NEW series, WellKeyed(series), NEW row \in Rows
    PROVE  LET key    == RowKey(row)
               merged == AddRow(series, row)
           IN  /\ DOMAIN merged = DOMAIN series \cup {key}
               /\ \A k \in DOMAIN series : k # key => merged[k] = series[k]
               /\ merged[key].labels = StoredLabels(row)
               /\ key \in DOMAIN series =>
                     /\ series[key].labels = StoredLabels(row)
                     /\ merged[key].samples = Append(series[key].samples, ReadMilliseconds(row.at))
               /\ key \notin DOMAIN series => merged[key].samples = <<>>
               /\ WellKeyed(merged)
<1> DEFINE key == RowKey(row)
           lset == StoredLabels(row)
           merged == AddRow(series, row)
           read == ReadMilliseconds(row.at)
<1>1. read \in Int
  BY ReadType
<1>2. PICK m \in Metrics : key = Key(SeriesOf[m]) /\ lset = StoredLabels(SeriesOf[m])
  BY RowOfSeries
<1> HIDE DEF key, lset, read
<1>3. CASE key \in DOMAIN series
  <2>1. merged = [series EXCEPT ![key].samples = Append(@, read)]
    BY <1>3 DEF AddRow, key, read
  <2>2. series[key] \in [labels : {lset}, samples : Seq(Int)]
    <3>1. PICK o \in Metrics :
             /\ key = Key(SeriesOf[o])
             /\ series[key] \in [labels : {StoredLabels(SeriesOf[o])}, samples : Seq(Int)]
      BY <1>3 DEF WellKeyed
    <3>2. o = m
      BY <1>2, <3>1, KeysTellSeriesApart
    <3> QED
      BY <1>2, <3>1, <3>2
  <2>3. DOMAIN merged = DOMAIN series
    BY <2>1
  <2>4. \A k \in DOMAIN series : k # key => merged[k] = series[k]
    BY <2>1
  <2>5. merged[key] = [series[key] EXCEPT !.samples = Append(@, read)]
    BY <1>3, <2>1
  <2>6. /\ series[key].labels = lset /\ merged[key].labels = lset
        /\ merged[key].samples = Append(series[key].samples, read)
    BY <2>2, <2>5
  <2>7. merged[key] \in [labels : {lset}, samples : Seq(Int)]
    <3>1. Append(series[key].samples, read) \in Seq(Int)
      BY <1>1, <2>2, AppendProperties
    <3> QED
      BY <2>2, <2>5, <3>1
  <2> HIDE DEF merged
  <2>8. WellKeyed(merged)
    BY <1>2, <2>3, <2>4, <2>7 DEF WellKeyed
  <2> QED
    BY <1>3, <2>3, <2>4, <2>6, <2>8 DEF key, lset, read, merged
<1>4. CASE key \notin DOMAIN series
  <2>1. merged = [k \in DOMAIN series \cup {key} |->
                    IF k = key THEN [labels |-> lset, samples |-> <<>>] ELSE series[k]]
    BY <1>4 DEF AddRow, key, lset
  <2>2. DOMAIN merged = DOMAIN series \cup {key} /\ merged[key] = [labels |-> lset, samples |-> <<>>]
    BY <2>1
  <2>3. \A k \in DOMAIN series : k # key => merged[k] = series[k]
    BY <2>1
  <2> HIDE DEF merged
  <2>4. merged[key] \in [labels : {lset}, samples : Seq(Int)]
    BY <2>2
  <2>5. WellKeyed(merged)
    BY <1>2, <2>2, <2>3, <2>4 DEF WellKeyed
  <2> QED
    BY <1>4, <2>2, <2>3, <2>5 DEF key, lset, merged
<1> QED
  BY <1>3, <1>4

\* The steps of the environment and of the handler that neither run a query nor
\* merge a row.
Ends == BadBody \/ BuildError \/ QueryError \/ Respond

TypeInv == TypeOK /\ IsFiniteSet(metricLabels)

LEMMA TypeInvInit == Init => TypeInv
<1> SUFFICES ASSUME Init PROVE TypeInv
  OBVIOUS
<1>1. metricLabels = {} /\ metricValues = <<>>
  BY DEF Init, Ingestion!Init
<1>2. Len(queries) \in Nat
  BY QueryType DEF Init
<1>3. DOMAIN labelsToSeries = {}
  BY DEF Init
<1> QED
  BY <1>1, <1>2, <1>3, FS_EmptySet DEF Init, TypeInv, TypeOK

LEMMA TypeInvStep == TypeInv /\ [Next]_vars => TypeInv'
<1> SUFFICES ASSUME TypeInv, [Next]_vars PROVE TypeInv'
  OBVIOUS
<1>0. TablesOK /\ WellKeyed(labelsToSeries)
  BY DEF TypeInv, TypeOK, TablesOK, WellKeyed
<1>1. ASSUME NEW row \in Registrations, Register(row) PROVE TypeInv'
  <2>1. metricLabels' = metricLabels \cup {row} /\ metricValues' = metricValues
    BY <1>1 DEF Register, Ingestion!InsertLabel
  <2>2. IsFiniteSet(metricLabels')
    BY <2>1, FS_AddElement DEF TypeInv
  <2> QED
    BY <1>1, <2>1, <2>2 DEF Register, TypeInv, TypeOK
<1>2. ASSUME NEW row \in ValueRows, Store(row) PROVE TypeInv'
  <2>1. metricValues' = metricValues \o <<row>> /\ metricLabels' = metricLabels
    BY <1>2 DEF Store, Ingestion!CopyRows
  <2>2. metricValues' \in Seq(ValueRows)
    BY <2>1 DEF TypeInv, TypeOK
  <2> QED
    BY <1>2, <2>1, <2>2 DEF Store, TypeInv, TypeOK
<1>3. CASE Query
  <2>1. rows' \in Seq(Rows)
    BY <1>0, <1>3, QueryReturnsRows DEF Query
  <2>2. Len(queries) \in Nat /\ answered' \in 0..Len(queries)
    BY <1>3, QueryType DEF Query, Pending, TypeInv, TypeOK
  <2> QED
    BY <1>3, <2>1, <2>2 DEF Query, tableVars, TypeInv, TypeOK
<1>4. CASE Merge
  <2>1. Head(rows) \in Rows /\ Tail(rows) \in Seq(Rows)
    BY <1>4 DEF Merge, TypeInv, TypeOK
  <2>2. WellKeyed(labelsToSeries')
    BY <1>0, <1>4, <2>1, MergedRow DEF Merge
  <2> QED
    BY <1>4, <2>1, <2>2 DEF Merge, tableVars, TypeInv, TypeOK, WellKeyed
<1>5. CASE Ends
  BY <1>5 DEF Ends, BadBody, BuildError, QueryError, Respond, tableVars, TypeInv, TypeOK
<1>6. CASE UNCHANGED vars
  BY <1>6 DEF vars, tableVars, TypeInv, TypeOK
<1> QED
  BY <1>1, <1>2, <1>3, <1>4, <1>5, <1>6 DEF Next, Ends

\* Every variable has its type, whatever ingestion and the requests are.
THEOREM TypeCorrect == Spec => []TypeOK
<1>1. Spec => []TypeInv
  BY TypeInvInit, TypeInvStep, PTL DEF Spec
<1>2. TypeInv => TypeOK
  BY DEF TypeInv
<1> QED
  BY <1>1, <1>2, PTL

-----------------------------------------------------------------------------
(* Nothing but what was stored and asked for.                              *)

\* What a sample of a label set shows: it was stored, and a query asked for it.
WasAsked(lset, t) ==
    /\ StoredAt(lset, t) \cup Displaced(lset) # {}
    /\ \E q \in 1..answered : Asked(queries[q], lset, t)

\* Rows become samples as they are, so it has to hold of them before.
RowsWereAsked ==
    \A i \in 1..Len(rows) : WasAsked(StoredLabels(rows[i]), ReadMilliseconds(rows[i].at))

AskedInv == TypeInv /\ RowsWereAsked /\ OnlyWhatWasAsked

\* Ingestion takes nothing out of the tables, and no query is taken back.
LEMMA NothingIsTaken ==
    ASSUME TypeInv, [Next]_vars
    PROVE  /\ metricLabels \subseteq metricLabels' /\ queries' = queries
           /\ Len(metricValues) \in Nat /\ Len(metricValues') \in Nat
           /\ Len(metricValues) <= Len(metricValues')
           /\ \A i \in 1..Len(metricValues) : metricValues'[i] = metricValues[i]
           /\ answered \in Nat /\ answered' \in Nat /\ answered <= answered'
<1>1. Len(metricValues) \in Nat /\ answered \in Nat
  BY WrittenTimes DEF TypeInv, TypeOK
<1>2. ASSUME NEW row \in Registrations, Register(row)
      PROVE  /\ metricLabels \subseteq metricLabels' /\ metricValues' = metricValues
             /\ queries' = queries /\ answered' = answered
  BY <1>2 DEF Register, Ingestion!InsertLabel
<1>3. ASSUME NEW row \in ValueRows, Store(row)
      PROVE  /\ metricLabels' = metricLabels /\ queries' = queries /\ answered' = answered
             /\ Len(metricValues') = Len(metricValues) + 1
             /\ \A i \in 1..Len(metricValues) : metricValues'[i] = metricValues[i]
  BY <1>3 DEF Store, Ingestion!CopyRows, TypeInv, TypeOK
<1>4. CASE Query
  BY <1>1, <1>4 DEF Query, tableVars
<1>5. CASE Merge \/ Ends \/ UNCHANGED vars
  BY <1>1, <1>5 DEF Merge, Ends, BadBody, BuildError, QueryError, Respond, vars, tableVars
<1> QED
  BY <1>1, <1>2, <1>3, <1>4, <1>5 DEF Next, Ends

\* So what was stored and asked for once remains so.
LEMMA WasAskedKept ==
    ASSUME TypeInv, [Next]_vars, NEW lset, NEW t, WasAsked(lset, t)
    PROVE  WasAsked(lset, t)'
<1>1. /\ metricLabels \subseteq metricLabels' /\ queries' = queries
      /\ Len(metricValues) \in Nat /\ Len(metricValues') \in Nat
      /\ Len(metricValues) <= Len(metricValues')
      /\ \A i \in 1..Len(metricValues) : metricValues'[i] = metricValues[i]
      /\ answered \in Nat /\ answered' \in Nat /\ answered <= answered'
  BY NothingIsTaken
<1>2. StoredOf(lset) \subseteq StoredOf(lset)'
        /\ \A pair \in StoredOf(lset) : WrittenAt(pair)' = WrittenAt(pair)
  BY <1>1 DEF StoredOf, WrittenAt
<1>3. StoredAt(lset, t) \subseteq StoredAt(lset, t)' /\ Displaced(lset) \subseteq Displaced(lset)'
  BY <1>2 DEF StoredAt, Displaced
<1>4. \E q \in 1..answered' : Asked(queries'[q], lset, t)
  BY <1>1 DEF WasAsked
<1> QED
  BY <1>3, <1>4 DEF WasAsked

\* The pairs a query joins: those whose series satisfies the matchers and whose
\* row is read at a time of the range.
LEMMA JoinedIsAsked ==
    ASSUME TypeInv, Pending, ~BuildFails(queries[answered + 1].matchers),
           NEW pair \in Joined(BuildSQLQuery(queries[answered + 1]), metricLabels, metricValues)
    PROVE  LET row == JoinedRow(pair, metricValues)
           IN  /\ pair \in StoredOf(StoredLabels(row))
               /\ row.at = MetricTime(WrittenAt(pair)) /\ WrittenAt(pair) \in Times
               /\ StoredLabels(row) = StoredLabels(SeriesOf[pair[1].metric])
               /\ Asked(queries[answered + 1], StoredLabels(row), ReadMilliseconds(row.at))
               /\ StoredAt(StoredLabels(row), ReadMilliseconds(row.at))
                    \cup Displaced(StoredLabels(row)) # {}
<1> DEFINE query == queries[answered + 1]
           row == JoinedRow(pair, metricValues)
           read == ReadMilliseconds(MetricTime(metricValues[pair[2]].sample.at))
<1>1. query.matchers \subseteq Matcher /\ query.start \in Int /\ query.end \in Int
  BY NextQuery DEF Pending, TypeInv, TypeOK
<1>2. \A l \in metricLabels : l.metric \in Metrics
  BY RegisteredMetrics DEF TypeInv, TypeOK
<1>3. \A i \in 1..Len(metricValues) :
         metricValues[i].sample.at \in Times /\ metricValues[i].sample.at \in Int
  BY WrittenTimes DEF TypeInv, TypeOK
<1> HIDE DEF query
<1>4. /\ pair \in metricLabels \X (1..Len(metricValues))
      /\ pair[1].id = metricValues[pair[2]].id
      /\ Satisfies(StoredLabels(SeriesOf[pair[1].metric]), query.matchers)
      /\ query.start <= read /\ read <= query.end
  BY <1>1, <1>2, <1>3, QueryIsExact DEF query
<1>5. StoredLabels(row) = StoredLabels(SeriesOf[pair[1].metric])
  BY DEF JoinedRow, StoredLabels
<1>6. row.at = MetricTime(WrittenAt(pair)) /\ WrittenAt(pair) \in Times
  BY <1>3, <1>4 DEF JoinedRow, WrittenAt
<1>7. pair \in StoredOf(StoredLabels(row))
  BY <1>4, <1>5 DEF StoredOf
<1>8. Asked(query, StoredLabels(row), ReadMilliseconds(row.at))
  BY <1>4, <1>5, <1>6 DEF Asked, WrittenAt
<1> HIDE DEF row
<1>9. CASE Representable(WrittenAt(pair))
  <2>1. ReadMilliseconds(row.at) = WrittenAt(pair)
    BY <1>6, <1>9, RoundTrip, RemoteReadAssumption
  <2>2. pair \in StoredAt(StoredLabels(row), ReadMilliseconds(row.at))
    BY <1>7, <1>9, <2>1 DEF StoredAt
  <2> QED
    BY <1>5, <1>6, <1>7, <1>8, <2>2 DEF query, row
<1>10. CASE ~Representable(WrittenAt(pair))
  <2>1. pair \in Displaced(StoredLabels(row))
    BY <1>7, <1>10 DEF Displaced
  <2> QED
    BY <1>5, <1>6, <1>7, <1>8, <2>1 DEF query, row
<1> QED
  BY <1>9, <1>10

\* Each row that a query returns is one of a pair it joins.
LEMMA ReturnedAreJoined ==
    ASSUME TypeInv, Query
    PROVE  LET joined == Joined(BuildSQLQuery(queries[answered + 1]), metricLabels, metricValues)
           IN  /\ Len(rows') = Cardinality(joined) /\ IsFiniteSet(joined)
               /\ \E f \in Bijection(1..Len(rows'), joined) :
                     rows' = [i \in 1..Len(rows') |-> JoinedRow(f[i], metricValues)]
<1> DEFINE query == BuildSQLQuery(queries[answered + 1])
<1>1. rows' \in Listings(query, metricLabels, metricValues)
  BY DEF Query, QueryDatabaseSamples
<1>2. Len(metricValues) \in Nat /\ IsFiniteSet(metricLabels)
  BY WrittenTimes DEF TypeInv, TypeOK
<1> HIDE DEF query
<1>3. /\ IsFiniteSet(Joined(query, metricLabels, metricValues))
      /\ Len(rows') = Cardinality(Joined(query, metricLabels, metricValues))
      /\ \E f \in Bijection(1..Len(rows'), Joined(query, metricLabels, metricValues)) :
            rows' = [i \in 1..Len(rows') |-> JoinedRow(f[i], metricValues)]
  BY <1>1, <1>2, ListingOfJoined
<1> QED
  BY <1>3 DEF query

\* So each was stored and asked for.
LEMMA ReturnedWereAsked ==
    ASSUME TypeInv, Query
    PROVE  RowsWereAsked'
<1> DEFINE joined == Joined(BuildSQLQuery(queries[answered + 1]), metricLabels, metricValues)
<1>1. /\ Pending /\ ~BuildFails(queries[answered + 1].matchers)
      /\ metricLabels' = metricLabels /\ metricValues' = metricValues
      /\ queries' = queries /\ answered' = answered + 1
  BY DEF Query, tableVars
<1>2. answered \in Nat
  BY DEF TypeInv, TypeOK
<1>3. PICK f \in [1..Len(rows') -> joined] :
         rows' = [i \in 1..Len(rows') |-> JoinedRow(f[i], metricValues)]
  BY ReturnedAreJoined DEF Bijection, Injection
<1>4. ASSUME NEW lset, NEW t, StoredAt(lset, t) \cup Displaced(lset) # {},
             Asked(queries[answered + 1], lset, t)
      PROVE  WasAsked(lset, t)'
  <2>1. (StoredAt(lset, t) \cup Displaced(lset))' = StoredAt(lset, t) \cup Displaced(lset)
    BY <1>1 DEF StoredAt, Displaced, StoredOf, WrittenAt
  <2>2. answered + 1 \in 1..answered' /\ Asked(queries'[answered + 1], lset, t)
    BY <1>1, <1>2, <1>4
  <2> QED
    BY <1>4, <2>1, <2>2 DEF WasAsked
<1>5. ASSUME NEW i \in 1..Len(rows')
      PROVE  WasAsked(StoredLabels(rows[i]), ReadMilliseconds(rows[i].at))'
  <2>1. f[i] \in joined /\ rows'[i] = JoinedRow(f[i], metricValues)
    BY <1>3
  <2>2. /\ Asked(queries[answered + 1], StoredLabels(rows'[i]), ReadMilliseconds(rows'[i].at))
        /\ StoredAt(StoredLabels(rows'[i]), ReadMilliseconds(rows'[i].at))
             \cup Displaced(StoredLabels(rows'[i])) # {}
    BY <1>1, <2>1, JoinedIsAsked
  <2> QED
    BY <1>4, <2>2
<1> QED
  BY <1>5 DEF RowsWereAsked
LEMMA AskedInvInit == Init => AskedInv
<1> SUFFICES ASSUME Init PROVE AskedInv
  OBVIOUS
<1>1. rows = <<>> /\ DOMAIN labelsToSeries = {}
  BY DEF Init
<1> QED
  BY <1>1, TypeInvInit DEF AskedInv, RowsWereAsked, OnlyWhatWasAsked

LEMMA AskedInvStep == AskedInv /\ [Next]_vars => AskedInv'
<1> SUFFICES ASSUME AskedInv, [Next]_vars PROVE AskedInv'
  OBVIOUS
<1>1. TypeInv /\ TypeInv' /\ WellKeyed(labelsToSeries)
  BY TypeInvStep DEF AskedInv, TypeInv, TypeOK, WellKeyed
<1>2. \A lset, t : WasAsked(lset, t) => WasAsked(lset, t)'
  BY <1>1, WasAskedKept
<1>3. \A key \in DOMAIN labelsToSeries : \A i \in 1..Len(labelsToSeries[key].samples) :
         WasAsked(labelsToSeries[key].labels, labelsToSeries[key].samples[i])
  BY DEF AskedInv, OnlyWhatWasAsked, WasAsked
<1>4. ASSUME rows' = rows, labelsToSeries' = labelsToSeries PROVE AskedInv'
  <2>1. RowsWereAsked'
    BY <1>2, <1>4 DEF AskedInv, RowsWereAsked
  <2>2. OnlyWhatWasAsked'
    BY <1>2, <1>3, <1>4 DEF OnlyWhatWasAsked, WasAsked
  <2> QED
    BY <1>1, <2>1, <2>2 DEF AskedInv
<1>5. CASE Query
  <2>1. RowsWereAsked'
    BY <1>1, <1>5, ReturnedWereAsked
  <2>2. labelsToSeries' = labelsToSeries
    BY <1>5 DEF Query
  <2>3. OnlyWhatWasAsked'
    BY <1>2, <1>3, <2>2 DEF OnlyWhatWasAsked, WasAsked
  <2> QED
    BY <1>1, <2>1, <2>3 DEF AskedInv
<1>6. CASE Merge
  <2> DEFINE row == Head(rows)
             key == RowKey(row)
             lset == StoredLabels(row)
             read == ReadMilliseconds(row.at)
             merged == AddRow(labelsToSeries, row)
  <2>1. /\ row \in Rows /\ rows' \in Seq(Rows) /\ Len(rows) \in Nat /\ Len(rows) # 0
        /\ row = rows[1] /\ Len(rows') = Len(rows) - 1
        /\ \A i \in 1..Len(rows') : rows'[i] = rows[i + 1]
    BY <1>1, <1>6, HeadTailProperties DEF Merge, TypeInv, TypeOK
  <2>2. WasAsked(lset, read)
    BY <2>1 DEF AskedInv, RowsWereAsked
  <2>3. RowsWereAsked'
    <3>1. ASSUME NEW i \in 1..Len(rows')
          PROVE  WasAsked(StoredLabels(rows[i]), ReadMilliseconds(rows[i].at))'
      <4>1. i + 1 \in 1..Len(rows) /\ rows'[i] = rows[i + 1]
        BY <2>1
      <4> QED
        BY <1>2, <4>1 DEF AskedInv, RowsWereAsked
    <3> QED
      BY <3>1 DEF RowsWereAsked
  <2>4. labelsToSeries' = merged
    BY <1>6 DEF Merge
  <2> HIDE DEF row, key, lset, read
  <2>5. /\ DOMAIN merged = DOMAIN labelsToSeries \cup {key}
        /\ \A k \in DOMAIN labelsToSeries : k # key => merged[k] = labelsToSeries[k]
        /\ merged[key].labels = lset
        /\ key \in DOMAIN labelsToSeries =>
              /\ labelsToSeries[key].labels = lset
              /\ merged[key].samples = Append(labelsToSeries[key].samples, read)
        /\ key \notin DOMAIN labelsToSeries => merged[key].samples = <<>>
    BY <1>1, <2>1, MergedRow DEF key, lset, read
  <2> HIDE DEF merged
  <2>6. ASSUME NEW k \in DOMAIN merged, NEW i \in 1..Len(merged[k].samples)
        PROVE  WasAsked(merged[k].labels, merged[k].samples[i])
    <3>1. CASE k # key
      BY <1>3, <2>5, <3>1
    <3>2. CASE k = key /\ key \in DOMAIN labelsToSeries
      <4>1. labelsToSeries[key].samples \in Seq(Int) /\ labelsToSeries[key].labels = lset
        BY <1>1, <2>5, <3>2, KeyedByLabels
      <4>2. read \in Int
        BY <2>1, ReadType DEF read
      <4>3. CASE i = Len(labelsToSeries[key].samples) + 1
        BY <2>2, <2>5, <3>2, <4>1, <4>2, <4>3
      <4>4. CASE i # Len(labelsToSeries[key].samples) + 1
        <5>1. /\ i \in 1..Len(labelsToSeries[key].samples)
              /\ merged[k].samples[i] = labelsToSeries[key].samples[i]
          BY <2>5, <3>2, <4>1, <4>2, <4>4
        <5> QED
          BY <1>3, <2>5, <3>2, <4>1, <5>1
      <4> QED
        BY <4>3, <4>4
    <3>3. CASE k = key /\ key \notin DOMAIN labelsToSeries
      BY <2>5, <3>3
    <3> QED
      BY <3>1, <3>2, <3>3
  <2>7. OnlyWhatWasAsked'
    BY <1>2, <2>4, <2>6 DEF OnlyWhatWasAsked, WasAsked
  <2> QED
    BY <1>1, <2>3, <2>7 DEF AskedInv
<1>7. CASE Ends
  BY <1>4, <1>7 DEF Ends, BadBody, BuildError, QueryError, Respond
<1>8. CASE UNCHANGED vars
  BY <1>4, <1>8 DEF vars
<1>9. ASSUME NEW row \in Registrations, Register(row) PROVE AskedInv'
  BY <1>4, <1>9 DEF Register
<1>10. ASSUME NEW row \in ValueRows, Store(row) PROVE AskedInv'
  BY <1>4, <1>10 DEF Store
<1> QED
  BY <1>5, <1>6, <1>7, <1>8, <1>9, <1>10 DEF Next, Ends

\* Whatever a TimeSeries holds was written for exactly its label set and, as far
\* as int64 nanoseconds reach, its time, and a query that has run asked for it.
THEOREM AnswersWereAsked == Spec => []OnlyWhatWasAsked
<1>1. Spec => []AskedInv
  BY AskedInvInit, AskedInvStep, PTL DEF Spec
<1>2. AskedInv => OnlyWhatWasAsked
  BY DEF AskedInv
<1> QED
  BY <1>1, <1>2, PTL

-----------------------------------------------------------------------------
(* The order of time.                                                      *)

\* Before its only query, a request has neither rows nor series; after it, the
\* rows still to be merged are in order, and after the samples merged.
InOrder ==
    Len(queries) = 1 =>
        /\ answered = 0 => rows = <<>> /\ DOMAIN labelsToSeries = {}
        /\ \A i, j \in 1..Len(rows) : i < j => rows[i].at <= rows[j].at
        /\ \A key \in DOMAIN labelsToSeries : LET samples == labelsToSeries[key].samples IN
              /\ \A i, j \in 1..Len(samples) : i < j => samples[i] <= samples[j]
              /\ \A i \in 1..Len(samples), j \in 1..Len(rows) :
                    samples[i] <= ReadMilliseconds(rows[j].at)

OrderInv == TypeInv /\ InOrder

LEMMA OrderInvInit == Init => OrderInv
<1> SUFFICES ASSUME Init PROVE OrderInv
  OBVIOUS
<1>1. rows = <<>> /\ DOMAIN labelsToSeries = {}
  BY DEF Init
<1> QED
  BY <1>1, TypeInvInit DEF OrderInv, InOrder

LEMMA OrderInvStep == OrderInv /\ [Next]_vars => OrderInv'
<1> SUFFICES ASSUME OrderInv, [Next]_vars PROVE OrderInv'
  OBVIOUS
<1>1. TypeInv /\ TypeInv' /\ WellKeyed(labelsToSeries)
  BY TypeInvStep DEF OrderInv, TypeInv, TypeOK, WellKeyed
<1>2. ASSUME UNCHANGED <<queries, answered, rows, labelsToSeries>> PROVE OrderInv'
  BY <1>1, <1>2 DEF OrderInv, InOrder
<1>3. CASE Query
  <2> SUFFICES ASSUME Len(queries') = 1 PROVE InOrder'
    BY <1>1 DEF OrderInv, InOrder
  <2>1. answered = 0 /\ answered' = 1
    BY <1>1, <1>3 DEF Query, Pending, TypeInv, TypeOK
  <2>2. DOMAIN labelsToSeries' = {}
    BY <1>3, <2>1 DEF Query, OrderInv, InOrder
  <2>3. \A i, j \in DOMAIN rows' : i < j => rows'[i].at <= rows'[j].at
    BY <1>3 DEF Query, QueryDatabaseSamples
  <2>4. DOMAIN rows' = 1..Len(rows')
    BY <1>1, LenProperties DEF TypeInv, TypeOK
  <2> QED
    BY <2>1, <2>2, <2>3, <2>4 DEF InOrder
<1>4. CASE Merge
  <2> SUFFICES ASSUME Len(queries') = 1 PROVE InOrder'
    BY <1>1 DEF OrderInv, InOrder
  <2> DEFINE row == Head(rows)
             key == RowKey(row)
             read == ReadMilliseconds(row.at)
             merged == AddRow(labelsToSeries, row)
  <2>1. /\ row \in Rows /\ rows' \in Seq(Rows) /\ Len(rows) \in Nat /\ Len(rows) # 0
        /\ row = rows[1] /\ Len(rows') = Len(rows) - 1
        /\ \A i \in 1..Len(rows') : rows'[i] = rows[i + 1]
    BY <1>1, <1>4, HeadTailProperties DEF Merge, TypeInv, TypeOK
  <2>2. \A i \in 1..Len(rows) : rows[i] \in Rows
    BY <1>1 DEF TypeInv, TypeOK
  <2>3. \A i \in 1..Len(rows) : \E t \in Int : rows[i].at = MetricTime(t)
    BY <2>2, RowTimes
  <2>4. \A i, j \in 1..Len(rows) : i < j => rows[i].at <= rows[j].at
    BY <1>4 DEF Merge, OrderInv, InOrder
  <2>5. \A j \in 1..Len(rows') : read <= ReadMilliseconds(rows'[j].at)
    <3> SUFFICES ASSUME NEW j \in 1..Len(rows') PROVE read <= ReadMilliseconds(rows[j + 1].at)
      BY <2>1
    <3>1. j + 1 \in 1..Len(rows) /\ 1 \in 1..Len(rows) /\ 1 < j + 1
      BY <2>1
    <3>2. row.at <= rows[j + 1].at
      BY <2>1, <2>4, <3>1
    <3> QED
      BY <2>1, <2>3, <3>1, <3>2, ReadInOrder
  <2>6. /\ answered' # 0
        /\ \A k \in DOMAIN labelsToSeries : LET samples == labelsToSeries[k].samples IN
              /\ \A i, j \in 1..Len(samples) : i < j => samples[i] <= samples[j]
              /\ \A i \in 1..Len(samples), j \in 1..Len(rows) :
                    samples[i] <= ReadMilliseconds(rows[j].at)
    BY <1>4 DEF Merge, OrderInv, InOrder
  <2>7. \A i, j \in 1..Len(rows') : i < j => rows'[i].at <= rows'[j].at
    BY <2>1, <2>4
  <2>8. labelsToSeries' = merged /\ read \in Int
    BY <1>4, <2>1, ReadType DEF Merge
  <2> HIDE DEF row, key, read
  <2>9. /\ DOMAIN merged = DOMAIN labelsToSeries \cup {key}
        /\ \A k \in DOMAIN labelsToSeries : k # key => merged[k] = labelsToSeries[k]
        /\ key \in DOMAIN labelsToSeries =>
              merged[key].samples = Append(labelsToSeries[key].samples, read)
        /\ key \notin DOMAIN labelsToSeries => merged[key].samples = <<>>
    BY <1>1, <2>1, MergedRow DEF key, read
  <2>10. \A k \in DOMAIN labelsToSeries :
            /\ labelsToSeries[k].samples \in Seq(Int)
            /\ \A i \in 1..Len(labelsToSeries[k].samples) :
                  /\ labelsToSeries[k].samples[i] <= read
                  /\ \A j \in 1..Len(rows') :
                        labelsToSeries[k].samples[i] <= ReadMilliseconds(rows'[j].at)
    <3>1. \A k \in DOMAIN labelsToSeries : labelsToSeries[k].samples \in Seq(Int)
      BY <1>1, KeyedByLabels
    <3>2. 1 \in 1..Len(rows) /\ \A j \in 1..Len(rows') : j + 1 \in 1..Len(rows)
      BY <2>1
    <3>3. read = ReadMilliseconds(rows[1].at)
      BY <2>1 DEF read
    <3> QED
      BY <2>1, <2>6, <3>1, <3>2, <3>3
  <2> HIDE DEF merged
  <2>11. ASSUME NEW k \in DOMAIN merged
         PROVE  /\ \A i, j \in 1..Len(merged[k].samples) :
                      i < j => merged[k].samples[i] <= merged[k].samples[j]
                /\ \A i \in 1..Len(merged[k].samples), j \in 1..Len(rows') :
                      merged[k].samples[i] <= ReadMilliseconds(rows'[j].at)
    <3>1. CASE k # key
      BY <2>6, <2>9, <2>10, <3>1
    <3>2. CASE k = key /\ key \in DOMAIN labelsToSeries
      <4> DEFINE old == labelsToSeries[key].samples
      <4>1. /\ old \in Seq(Int) /\ merged[k].samples = Append(old, read)
            /\ \A i, j \in 1..Len(old) : i < j => old[i] <= old[j]
            /\ \A i \in 1..Len(old) : old[i] <= read
            /\ \A i \in 1..Len(old), j \in 1..Len(rows') : old[i] <= ReadMilliseconds(rows'[j].at)
        BY <2>6, <2>9, <2>10, <3>2
      <4> HIDE DEF old
      <4>2. /\ Len(old) \in Nat /\ Len(merged[k].samples) = Len(old) + 1
            /\ \A i \in 1..Len(old) : merged[k].samples[i] = old[i]
            /\ merged[k].samples[Len(old) + 1] = read
        BY <2>8, <4>1
      <4>3. \A i \in 1..Len(merged[k].samples) : i \in 1..Len(old) \/ i = Len(old) + 1
        BY <4>2
      <4> QED
        BY <2>5, <4>1, <4>2, <4>3
    <3>3. CASE k = key /\ key \notin DOMAIN labelsToSeries
      BY <2>9, <3>3
    <3> QED
      BY <3>1, <3>2, <3>3
  <2> QED
    BY <2>6, <2>7, <2>8, <2>11 DEF InOrder
<1>5. CASE Ends
  BY <1>2, <1>5 DEF Ends, BadBody, BuildError, QueryError, Respond
<1>6. CASE UNCHANGED vars
  BY <1>2, <1>6 DEF vars
<1>7. ASSUME NEW row \in Registrations, Register(row) PROVE OrderInv'
  BY <1>2, <1>7 DEF Register
<1>8. ASSUME NEW row \in ValueRows, Store(row) PROVE OrderInv'
  BY <1>2, <1>8 DEF Store
<1> QED
  BY <1>3, <1>4, <1>5, <1>6, <1>7, <1>8 DEF Next, Ends

\* The samples of a TimeSeries are in the order of time, as long as the request
\* is a single query.
THEOREM AnswersInTimeOrder == Spec => []InTimeOrder
<1>1. Spec => []OrderInv
  BY OrderInvInit, OrderInvStep, PTL DEF Spec
<1>2. OrderInv => InTimeOrder
  BY DEF OrderInv, InOrder, InTimeOrder
<1> QED
  BY <1>1, <1>2, PTL

-----------------------------------------------------------------------------
(* All that was asked for, but a row of each label set.                    *)

\* The rows of a label set among some, by their places.
PlacesOf(lset, returned) == {i \in 1..Len(returned) : StoredLabels(returned[i]) = lset}

\* The samples under a label set, by TimeSeries and place.
SamplesIn(series, lset) ==
    UNION {{<<key, i>> : i \in 1..Len(series[key].samples)} :
              key \in {k \in DOMAIN series : series[k].labels = lset}}

\* What a TimeSeries counts for: its samples and the row that made it.
CountOf(series, key) ==
    IF key \in DOMAIN series THEN Len(series[key].samples) + 1 ELSE 0

\* No TimeSeries but one counts for a label set.
LEMMA SamplesCounted ==
    ASSUME NEW series, WellKeyed(series), NEW m \in Metrics
    PROVE  LET lset  == StoredLabels(SeriesOf[m])
               count == CountOf(series, Key(SeriesOf[m]))
               under == SamplesIn(series, lset)
               made  == \E key \in DOMAIN series : series[key].labels = lset
           IN  /\ Cardinality(under) + (IF made THEN 1 ELSE 0) = count
               /\ Cardinality(under) \in Nat /\ count \in Nat
<1> DEFINE lset  == StoredLabels(SeriesOf[m])
           own   == Key(SeriesOf[m])
           keys  == {k \in DOMAIN series : series[k].labels = lset}
           under == SamplesIn(series, lset)
<1>1. \A key \in DOMAIN series :
         series[key].samples \in Seq(Int) /\ (series[key].labels = lset <=> key = own)
  BY KeyedByLabels
<1> HIDE DEF lset, own
<1>2. CASE own \in DOMAIN series
  <2> DEFINE n == Len(series[own].samples)
  <2>1. n \in Nat /\ keys = {own}
    BY <1>1, <1>2
  <2>2. under = {<<own, i>> : i \in 1..n}
    BY <2>1 DEF SamplesIn
  <2> HIDE DEF n, under, keys
  <2>3. Cardinality(under) = n
    <3> DEFINE f == [i \in 1..n |-> <<own, i>>]
    <3>1. f \in [1..n -> under] /\ \A i, j \in 1..n : f[i] = f[j] => i = j
      BY <2>2
    <3>2. \A s \in under : \E i \in 1..n : f[i] = s
      BY <2>2
    <3>3. f \in Bijection(1..n, under)
      BY <3>1, <3>2, Fun_IsBij
    <3> QED
      BY <2>1, <3>3, FS_CountingElements DEF ExistsBijection
  <2>4. \E key \in DOMAIN series : series[key].labels = lset
    BY <1>1, <1>2
  <2>5. CountOf(series, own) = n + 1
    BY <1>2 DEF CountOf, n
  <2> QED
    BY <2>1, <2>3, <2>4, <2>5 DEF under, lset, own
<1>3. CASE own \notin DOMAIN series
  <2>1. keys = {} /\ ~\E key \in DOMAIN series : series[key].labels = lset
    BY <1>1, <1>3
  <2>2. under = {}
    BY <2>1 DEF SamplesIn
  <2>3. Cardinality(under) = 0
    BY <2>2, FS_EmptySet
  <2> QED
    BY <1>3, <2>1, <2>3 DEF CountOf, lset, own
<1> QED
  BY <1>2, <1>3

\* The places of the rows of a label set are finitely many.
LEMMA PlacesFinite ==
    ASSUME NEW lset, NEW returned \in Seq(Rows)
    PROVE  /\ IsFiniteSet(PlacesOf(lset, returned)) /\ Cardinality(PlacesOf(lset, returned)) \in Nat
<1>1. IsFiniteSet(1..Len(returned))
  BY FS_Interval, LenProperties
<1>2. PlacesOf(lset, returned) \subseteq 1..Len(returned)
  BY DEF PlacesOf
<1> QED
  BY <1>1, <1>2, FS_Subset, FS_CardinalityType

\* Taking the first row away takes away its place, and moves the others.
LEMMA PlacesOfTail ==
    ASSUME NEW lset, NEW returned \in Seq(Rows), returned # <<>>
    PROVE  Cardinality(PlacesOf(lset, returned)) =
             Cardinality(PlacesOf(lset, Tail(returned)))
               + (IF StoredLabels(Head(returned)) = lset THEN 1 ELSE 0)
<1> DEFINE all  == PlacesOf(lset, returned)
           rest == PlacesOf(lset, Tail(returned))
           n == Len(returned)
<1>1. /\ n \in Nat /\ n # 0 /\ Head(returned) = returned[1]
      /\ Tail(returned) \in Seq(Rows) /\ Len(Tail(returned)) = n - 1
      /\ \A i \in 1..(n - 1) : Tail(returned)[i] = returned[i + 1]
  BY HeadTailProperties
<1>2. /\ IsFiniteSet(all) /\ Cardinality(all) \in Nat
      /\ IsFiniteSet(rest) /\ Cardinality(rest) \in Nat
  BY <1>1, PlacesFinite
<1>3. /\ all \subseteq 1..n /\ rest \subseteq 1..(n - 1)
      /\ \A i \in 1..n : i \in all <=> StoredLabels(returned[i]) = lset
      /\ \A i \in 1..(n - 1) : i \in rest <=> StoredLabels(returned[i + 1]) = lset
  BY <1>1 DEF PlacesOf
<1> HIDE DEF all, rest, n
<1>4. Cardinality(all \ {1}) = Cardinality(rest)
  <2> DEFINE f == [i \in rest |-> i + 1]
  <2>1. f \in [rest -> all \ {1}]
    BY <1>1, <1>3
  <2>2. \A i, j \in rest : f[i] = f[j] => i = j
    BY <1>1, <1>3
  <2>3. \A k \in all \ {1} : \E i \in rest : f[i] = k
    <3> SUFFICES ASSUME NEW k \in all \ {1} PROVE \E i \in rest : f[i] = k
      OBVIOUS
    <3>1. k \in 1..n /\ k # 1 /\ k - 1 \in 1..(n - 1) /\ (k - 1) + 1 = k
      BY <1>1, <1>3
    <3>2. k - 1 \in rest
      BY <1>3, <3>1
    <3> QED
      BY <3>1, <3>2
  <2>4. f \in Bijection(rest, all \ {1})
    BY <2>1, <2>2, <2>3, Fun_IsBij
  <2> QED
    BY <1>2, <2>4, FS_Bijection DEF ExistsBijection
<1>5. Cardinality(all \ {1}) = IF 1 \in all THEN Cardinality(all) - 1 ELSE Cardinality(all)
  BY <1>2, FS_RemoveElement
<1>6. 1 \in all <=> StoredLabels(Head(returned)) = lset
  BY <1>1, <1>3
<1> QED
  BY <1>2, <1>4, <1>5, <1>6 DEF all, rest

\* What queries have returned is what waits and what TimeSeries count for.
LEMMA ReturnedIs ==
    ASSUME TypeInv, TypeInv', NEW m \in Metrics
    PROVE  LET lset == StoredLabels(SeriesOf[m])
               own  == Key(SeriesOf[m])
           IN  /\ Returned(lset) = Cardinality(PlacesOf(lset, rows)) + CountOf(labelsToSeries, own)
               /\ Returned(lset)' = Cardinality(PlacesOf(lset, rows')) + CountOf(labelsToSeries', own)
               /\ CountOf(labelsToSeries, own) \in Nat /\ CountOf(labelsToSeries', own) \in Nat
<1> DEFINE lset == StoredLabels(SeriesOf[m])
           own  == Key(SeriesOf[m])
<1>1. WellKeyed(labelsToSeries) /\ WellKeyed(labelsToSeries')
  BY DEF TypeInv, TypeOK, WellKeyed
<1>2. Cardinality(PlacesOf(lset, rows)) \in Nat /\ Cardinality(PlacesOf(lset, rows')) \in Nat
  BY PlacesFinite DEF TypeInv, TypeOK
<1>3. SamplesUnder(lset) = SamplesIn(labelsToSeries, lset)
        /\ SamplesUnder(lset)' = SamplesIn(labelsToSeries', lset)
  BY DEF SamplesUnder, SamplesIn
<1>4. /\ Returned(lset) = Cardinality(PlacesOf(lset, rows)) + CountOf(labelsToSeries, own)
      /\ CountOf(labelsToSeries, own) \in Nat
  BY <1>1, <1>2, <1>3, SamplesCounted DEF Returned, PlacesOf
<1>5. /\ Returned(lset)' = Cardinality(PlacesOf(lset, rows')) + CountOf(labelsToSeries', own)
      /\ CountOf(labelsToSeries', own) \in Nat
  BY <1>1, <1>2, <1>3, SamplesCounted DEF Returned, PlacesOf
<1> QED
  BY <1>4, <1>5

\* The stored samples that a query wants are finitely many.
LEMMA StoredFinite ==
    ASSUME TypeInv, NEW lset, NEW pairs, pairs \subseteq StoredOf(lset)
    PROVE  IsFiniteSet(pairs) /\ Cardinality(pairs) \in Nat
<1>1. IsFiniteSet(1..Len(metricValues))
  BY WrittenTimes, FS_Interval DEF TypeInv, TypeOK
<1>2. IsFiniteSet(metricLabels \X (1..Len(metricValues)))
  BY <1>1, FS_Product DEF TypeInv
<1>3. pairs \subseteq metricLabels \X (1..Len(metricValues))
  BY DEF StoredOf
<1> QED
  BY <1>2, <1>3, FS_Subset, FS_CardinalityType

\* A query returns, of a label set, what is stored and asked for, and beside it
\* displaced samples only.
LEMMA QueryReturnsAll ==
    ASSUME TypeInv, Query, NEW lset
    PROVE  Cardinality(PlacesOf(lset, rows')) \in
             Cardinality(StoredAndAsked(queries[answered + 1], lset)) ..
             Cardinality(StoredAndAsked(queries[answered + 1], lset)) + Cardinality(Displaced(lset))
<1> DEFINE query == queries[answered + 1]
           joined == Joined(BuildSQLQuery(query), metricLabels, metricValues)
           found == {pair \in joined : StoredLabels(SeriesOf[pair[1].metric]) = lset}
           wanted == StoredAndAsked(query, lset)
           places == PlacesOf(lset, rows')
<1>1. Pending /\ ~BuildFails(query.matchers)
  BY DEF Query
<1>2. query.matchers \subseteq Matcher /\ query.start \in Int /\ query.end \in Int
  BY <1>1, NextQuery DEF Pending, TypeInv, TypeOK
<1>3. \A l \in metricLabels : l.metric \in Metrics
  BY RegisteredMetrics DEF TypeInv, TypeOK
<1>4. \A i \in 1..Len(metricValues) : metricValues[i].sample.at \in Int
  BY WrittenTimes DEF TypeInv, TypeOK
<1>5. found \subseteq wanted \cup Displaced(lset)
  <2> SUFFICES ASSUME NEW pair \in found PROVE pair \in wanted \cup Displaced(lset)
    OBVIOUS
  <2>1. /\ pair \in StoredOf(lset) /\ WrittenAt(pair) \in Times /\ WrittenAt(pair) \in Int
        /\ Asked(query, lset, ReadMilliseconds(MetricTime(WrittenAt(pair))))
    BY <1>1, JoinedIsAsked, RemoteReadAssumption
  <2>2. CASE Representable(WrittenAt(pair))
    <3>1. Asked(query, lset, WrittenAt(pair)) /\ pair \in StoredAt(lset, WrittenAt(pair))
      BY <2>1, <2>2, RoundTrip DEF StoredAt
    <3> QED
      BY <2>1, <3>1 DEF StoredAndAsked
  <2>3. CASE ~Representable(WrittenAt(pair))
    BY <2>1, <2>3 DEF Displaced
  <2> QED
    BY <2>2, <2>3
<1>6. wanted \subseteq found
  <2> SUFFICES ASSUME NEW pair \in wanted PROVE pair \in found
    OBVIOUS
  <2>1. PICK t \in Times : Asked(query, lset, t) /\ pair \in StoredAt(lset, t)
    BY DEF StoredAndAsked
  <2>2. /\ pair \in metricLabels \X (1..Len(metricValues))
        /\ pair[1].id = metricValues[pair[2]].id
        /\ StoredLabels(SeriesOf[pair[1].metric]) = lset
        /\ metricValues[pair[2]].sample.at = t /\ Representable(t)
    BY <2>1 DEF StoredAt, StoredOf, WrittenAt
  <2>3. ReadMilliseconds(MetricTime(metricValues[pair[2]].sample.at)) = t
    BY <2>2, RoundTrip, RemoteReadAssumption
  <2> HIDE DEF query
  <2>4. pair \in Joined(BuildSQLQuery(query), metricLabels, metricValues)
    BY <1>1, <1>2, <1>3, <1>4, <2>1, <2>2, <2>3, QueryIsExact DEF Asked
  <2> QED
    BY <2>2, <2>4
<1>7. wanted \subseteq StoredOf(lset) /\ Displaced(lset) \subseteq StoredOf(lset)
  BY DEF StoredAndAsked, StoredAt, Displaced
<1>8. PICK f \in Bijection(1..Len(rows'), joined) :
         rows' = [i \in 1..Len(rows') |-> JoinedRow(f[i], metricValues)]
  BY ReturnedAreJoined
<1>9. \A i \in 1..Len(rows') :
         StoredLabels(rows'[i]) = StoredLabels(SeriesOf[f[i][1].metric])
  BY <1>8 DEF StoredLabels, JoinedRow
<1> HIDE DEF joined, query, wanted
<1>10. ExistsBijection(places, found)
  <2> DEFINE g == [i \in places |-> f[i]]
  <2>1. /\ f \in [1..Len(rows') -> joined]
        /\ \A i, j \in 1..Len(rows') : f[i] = f[j] => i = j
        /\ \A pair \in joined : \E i \in 1..Len(rows') : f[i] = pair
    BY <1>8, Fun_BijectionProperties
  <2>2. places = {i \in 1..Len(rows') : StoredLabels(SeriesOf[f[i][1].metric]) = lset}
    BY <1>9 DEF PlacesOf
  <2> HIDE DEF places
  <2>3. g \in [places -> found] /\ \A i, j \in places : g[i] = g[j] => i = j
    BY <2>1, <2>2
  <2>4. \A pair \in found : \E i \in places : g[i] = pair
    BY <2>1, <2>2
  <2>5. g \in Bijection(places, found)
    BY <2>3, <2>4, Fun_IsBij
  <2> QED
    BY <2>5 DEF ExistsBijection
<1> HIDE DEF found
<1>11. rows' \in Seq(Rows)
  BY TypeInvStep DEF Next, TypeInv, TypeOK
<1>12. IsFiniteSet(places) /\ Cardinality(places) \in Nat
  BY <1>11, PlacesFinite
<1> HIDE DEF places
<1>13. IsFiniteSet(found) /\ Cardinality(found) = Cardinality(places)
  BY <1>10, <1>12, FS_Bijection
<1>14. /\ IsFiniteSet(wanted) /\ Cardinality(wanted) \in Nat
       /\ IsFiniteSet(Displaced(lset)) /\ Cardinality(Displaced(lset)) \in Nat
  BY <1>7, StoredFinite
<1>15. Cardinality(wanted) <= Cardinality(found)
  BY <1>6, <1>13, FS_Subset
<1>16. Cardinality(found) <= Cardinality(wanted) + Cardinality(Displaced(lset))
  <2> DEFINE both == wanted \cap Displaced(lset)
             either == wanted \cup Displaced(lset)
  <2>1. IsFiniteSet(both) /\ Cardinality(both) \in Nat
    BY <1>14, FS_Intersection, FS_CardinalityType
  <2>2. /\ IsFiniteSet(either)
        /\ Cardinality(either) =
             Cardinality(wanted) + Cardinality(Displaced(lset)) - Cardinality(both)
    BY <1>14, FS_Union
  <2>3. Cardinality(found) <= Cardinality(either)
    BY <1>5, <2>2, FS_Subset
  <2> HIDE DEF both, either
  <2> QED
    BY <1>12, <1>13, <1>14, <2>1, <2>2, <2>3
<1> QED
  BY <1>12, <1>13, <1>14, <1>15, <1>16 DEF wanted, places, query

\* Merging a row neither loses nor adds one.
LEMMA MergeKeepsCount ==
    ASSUME TypeInv, TypeInv', Merge, NEW m \in Metrics
    PROVE  Returned(StoredLabels(SeriesOf[m]))' = Returned(StoredLabels(SeriesOf[m]))
<1> DEFINE row == Head(rows)
           key == RowKey(row)
           lset == StoredLabels(SeriesOf[m])
           own == Key(SeriesOf[m])
           merged == AddRow(labelsToSeries, row)
<1>1. /\ rows \in Seq(Rows) /\ rows # <<>> /\ row \in Rows
      /\ rows' = Tail(rows) /\ labelsToSeries' = merged
  BY HeadTailProperties DEF Merge, TypeInv, TypeOK
<1>2. WellKeyed(labelsToSeries)
  BY DEF TypeInv, TypeOK, WellKeyed
<1>3. key = own <=> StoredLabels(row) = lset
  <2>1. PICK o \in Metrics : key = Key(SeriesOf[o]) /\ StoredLabels(row) = StoredLabels(SeriesOf[o])
    BY <1>1, RowOfSeries
  <2> HIDE DEF row, key
  <2> QED
    BY <2>1, KeysTellSeriesApart, LabelsTellSeriesApart
<1>4. Cardinality(PlacesOf(lset, rows)) =
        Cardinality(PlacesOf(lset, rows')) + (IF key = own THEN 1 ELSE 0)
  BY <1>1, <1>3, PlacesOfTail
<1>5. Cardinality(PlacesOf(lset, rows)) \in Nat /\ Cardinality(PlacesOf(lset, rows')) \in Nat
  BY PlacesFinite DEF TypeInv, TypeOK
<1> HIDE DEF row, key
<1>6. /\ DOMAIN merged = DOMAIN labelsToSeries \cup {key}
      /\ \A k \in DOMAIN labelsToSeries : k # key => merged[k] = labelsToSeries[k]
      /\ key \in DOMAIN labelsToSeries =>
            merged[key].samples = Append(labelsToSeries[key].samples, ReadMilliseconds(row.at))
      /\ key \notin DOMAIN labelsToSeries => merged[key].samples = <<>>
  BY <1>1, <1>2, MergedRow DEF key
<1>7. /\ Returned(lset) = Cardinality(PlacesOf(lset, rows)) + CountOf(labelsToSeries, own)
      /\ Returned(lset)' = Cardinality(PlacesOf(lset, rows')) + CountOf(merged, own)
      /\ CountOf(labelsToSeries, own) \in Nat
  BY <1>1, ReturnedIs
<1> HIDE DEF merged, own, lset
<1>8. CountOf(merged, own) = CountOf(labelsToSeries, own) + (IF key = own THEN 1 ELSE 0)
  <2>1. CASE key # own
    <3>1. own \in DOMAIN merged <=> own \in DOMAIN labelsToSeries
      BY <1>6, <2>1
    <3>2. own \in DOMAIN labelsToSeries => merged[own] = labelsToSeries[own]
      BY <1>6, <2>1
    <3>3. CountOf(merged, own) = CountOf(labelsToSeries, own)
      BY <3>1, <3>2 DEF CountOf
    <3> QED
      BY <1>7, <2>1, <3>3
  <2>2. CASE key = own /\ key \in DOMAIN labelsToSeries
    <3>1. labelsToSeries[key].samples \in Seq(Int) /\ ReadMilliseconds(row.at) \in Int
      BY <1>1, <1>2, <2>2, KeyedByLabels, ReadType
    <3>2. /\ Len(labelsToSeries[key].samples) \in Nat
          /\ Len(merged[key].samples) = Len(labelsToSeries[key].samples) + 1
      BY <1>6, <2>2, <3>1, AppendProperties, LenProperties
    <3> QED
      BY <1>6, <2>2, <3>2 DEF CountOf
  <2>3. CASE key = own /\ key \notin DOMAIN labelsToSeries
    BY <1>6, <2>3 DEF CountOf
  <2> QED
    BY <2>1, <2>2, <2>3
<1> QED
  BY <1>4, <1>5, <1>7, <1>8 DEF lset

\* A query adds to each label set every sample stored and asked for, and no other
\* but displaced ones; merging keeps all but the row that makes a TimeSeries.
THEOREM AllButFirst == Spec => OnlyFirstMissing
<1> DEFINE Kept ==
      \A l \in metricLabels :
          LET lset   == StoredLabels(SeriesOf[l.metric])
              wanted == Cardinality(StoredAndAsked(queries[answered + 1], lset))
              added  == Returned(lset)' - Returned(lset)
          IN  IF answered' = answered THEN added = 0
              ELSE added \in wanted .. wanted + Cardinality(Displaced(lset))
<1>1. TypeInv /\ TypeInv' /\ [Next]_vars => [Kept]_vars
  <2> SUFFICES ASSUME TypeInv, TypeInv', [Next]_vars, NEW l \in metricLabels
               PROVE  LET lset   == StoredLabels(SeriesOf[l.metric])
                          wanted == Cardinality(StoredAndAsked(queries[answered + 1], lset))
                          added  == Returned(lset)' - Returned(lset)
                      IN  IF answered' = answered THEN added = 0
                          ELSE added \in wanted .. wanted + Cardinality(Displaced(lset))
    OBVIOUS
  <2> DEFINE lset == StoredLabels(SeriesOf[l.metric])
             own  == Key(SeriesOf[l.metric])
  <2>0. l.metric \in Metrics
    BY RegisteredMetrics DEF TypeInv, TypeOK
  <2>1. /\ Returned(lset) = Cardinality(PlacesOf(lset, rows)) + CountOf(labelsToSeries, own)
        /\ Returned(lset)' = Cardinality(PlacesOf(lset, rows')) + CountOf(labelsToSeries', own)
        /\ CountOf(labelsToSeries, own) \in Nat /\ CountOf(labelsToSeries', own) \in Nat
    BY <2>0, ReturnedIs
  <2>2. Cardinality(PlacesOf(lset, rows)) \in Nat /\ Cardinality(PlacesOf(lset, rows')) \in Nat
    BY PlacesFinite DEF TypeInv, TypeOK
  <2>3. ASSUME UNCHANGED <<answered, rows, labelsToSeries>>
        PROVE  answered' = answered /\ Returned(lset)' - Returned(lset) = 0
    BY <2>1, <2>2, <2>3
  <2>4. CASE Query
    <3>1. answered' # answered
      BY <2>4 DEF Query, TypeInv, TypeOK
    <3>2. PlacesOf(lset, rows) = {}
      BY <2>4 DEF Query, Pending, PlacesOf
    <3>3. Cardinality(PlacesOf(lset, rows)) = 0 /\ labelsToSeries' = labelsToSeries
      BY <2>4, <3>2, FS_EmptySet DEF Query
    <3>4. Returned(lset)' - Returned(lset) = Cardinality(PlacesOf(lset, rows'))
      BY <2>1, <2>2, <3>3
    <3> QED
      BY <2>4, <3>1, <3>4, QueryReturnsAll
  <2>5. CASE Merge
    <3>1. Returned(lset)' = Returned(lset) /\ Returned(lset) \in Nat
      BY <2>0, <2>1, <2>2, <2>5, MergeKeepsCount
    <3> QED
      BY <2>5, <3>1 DEF Merge
  <2>6. CASE Ends
    BY <2>3, <2>6 DEF Ends, BadBody, BuildError, QueryError, Respond
  <2>7. CASE UNCHANGED vars
    BY <2>3, <2>7 DEF vars
  <2>8. ASSUME NEW row \in Registrations, Register(row)
        PROVE  answered' = answered /\ Returned(lset)' - Returned(lset) = 0
    BY <2>3, <2>8 DEF Register
  <2>9. ASSUME NEW row \in ValueRows, Store(row)
        PROVE  answered' = answered /\ Returned(lset)' - Returned(lset) = 0
    BY <2>3, <2>9 DEF Store
  <2> QED
    BY <2>4, <2>5, <2>6, <2>7, <2>8, <2>9 DEF Next, Ends
<1>2. Spec => []TypeInv
  BY TypeInvInit, TypeInvStep, PTL DEF Spec
<1>3. [][Kept]_vars => OnlyFirstMissing
  BY DEF OnlyFirstMissing
<1> HIDE DEF Kept
<1> QED
  BY <1>1, <1>2, <1>3, PTL DEF Spec
=============================================================================
