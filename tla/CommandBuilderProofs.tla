------------------------ MODULE CommandBuilderProofs ------------------------
(***************************************************************************)
(* Proofs about CommandBuilder, for every set of commands and every size   *)
(* of the buffer.                                                          *)
(***************************************************************************)
EXTENDS CommandBuilder, SumLemmas, FiniteSetTheorems, SequenceTheorems, TLAPS

Field == [val : Nat, len : {1, 2, 4}]

\* Where the fields of a command lie in data[]: field k begins at Offset(fs)[k - 1]
\* and ends before Offset(fs)[k].
Offset(fs) ==
    CHOOSE at \in [0 .. Len(fs) -> Nat] :
        at[0] = 0 /\ \A k \in 1 .. Len(fs) : at[k] = fs[k].len + at[k - 1]

Total(fs) == Offset(fs)[Len(fs)]

\* The bytes of field f are in data[] from a on.
StoredAt(a, f) == \A j \in 0 .. f.len - 1 : data[a + j] = BigEndian(f.val, f.len)[j]

-----------------------------------------------------------------------------
(* Numbers and bytes.                                                      *)

LEMMA ByteFacts == \A v : v \in Byte <=> v \in Nat /\ v < 256
BY DEF Byte

LEMMA Powers ==
    /\ \A n \in Nat : n = 0 => 256 ^ n = 1
    /\ \A n \in Nat : n = 1 => 256 ^ n = 256
    /\ \A n \in Nat : n = 2 => 256 ^ n = 256 * 256
    /\ \A n \in Nat : n = 3 => 256 ^ n = 256 * 256 * 256
<1>1. \A n \in Nat : n = 0 => 256 ^ n = 1
  OBVIOUS
<1>2. \A n \in Nat : n = 1 => 256 ^ n = 256
  OBVIOUS
<1>3. \A n \in Nat : n = 2 => 256 ^ n = 256 * 256
  OBVIOUS
<1>4. \A n \in Nat : n = 3 => 256 ^ n = 256 * 256 * 256
  OBVIOUS
<1> QED
  BY <1>1, <1>2, <1>3, <1>4

LEMMA UintFacts ==
    /\ \A v : v \in Uint(1) <=> v \in Nat /\ v < 256
    /\ \A v : v \in Uint(2) <=> v \in Nat /\ v < (256 * 256)
    /\ \A v : v \in Uint(4) <=> v \in Nat /\ v \div (256 * 256 * 256) < 256
<1>1. 256 ^ (1 - 1) = 1 /\ 256 ^ (2 - 1) = 256 /\ 256 ^ (4 - 1) = (256 * 256 * 256)
  OBVIOUS
<1>2. \A v \in Nat : v \div 1 = v /\ (v \div 256 < 256 <=> v < (256 * 256))
  OBVIOUS
<1> QED
  BY <1>1, <1>2 DEF Uint

\* The bytes of a value, the highest first.
LEMMA OneByte == ASSUME NEW v \in Nat PROVE BigEndian(v, 1)[0] = v % 256
<1>1. v \div 1 = v
  OBVIOUS
<1> QED
  BY <1>1, Powers DEF BigEndian

LEMMA TwoBytes ==
    ASSUME NEW v \in Nat
    PROVE  BigEndian(v, 2)[0] = (v \div 256) % 256 /\ BigEndian(v, 2)[1] = v % 256
<1>1. v \div 1 = v
  OBVIOUS
<1> QED
  BY <1>1, Powers DEF BigEndian

LEMMA FourBytes ==
    ASSUME NEW v \in Nat
    PROVE  /\ BigEndian(v, 4)[0] = (v \div (256 * 256 * 256)) % 256
           /\ BigEndian(v, 4)[1] = (v \div (256 * 256)) % 256
           /\ BigEndian(v, 4)[2] = (v \div 256) % 256
           /\ BigEndian(v, 4)[3] = v % 256
<1>0. v \div 1 = v
  OBVIOUS
<1>1. /\ BigEndian(v, 4)[0] = (v \div (256 * 256 * 256)) % 256
      /\ BigEndian(v, 4)[1] = (v \div (256 * 256)) % 256
  BY Powers DEF BigEndian
<1>2. BigEndian(v, 4)[2] = (v \div 256) % 256 /\ BigEndian(v, 4)[3] = v % 256
  BY <1>0, Powers DEF BigEndian
<1> QED
  BY <1>1, <1>2

LEMMA BigEndianType ==
    ASSUME NEW f \in Field, NEW j \in 0 .. f.len - 1
    PROVE  BigEndian(f.val, f.len)[j] \in Byte
<1> DEFINE v == f.val
<1>1. v \in Nat /\ f.len \in {1, 2, 4}
  BY DEF Field
<1> HIDE DEF v
<1>2. /\ v % 256 \in Byte /\ (v \div 256) % 256 \in Byte
      /\ (v \div (256 * 256)) % 256 \in Byte /\ (v \div (256 * 256 * 256)) % 256 \in Byte
  BY <1>1, ByteFacts
<1>3. CASE f.len = 1
  <2>1. j = 0
    BY <1>3
  <2>2. BigEndian(v, 1)[0] \in Byte
    BY <1>1, <1>2, OneByte
  <2> QED
    BY <1>3, <2>1, <2>2 DEF v
<1>4. CASE f.len = 2
  <2>1. j = 0 \/ j = 1
    BY <1>4
  <2>2. BigEndian(v, 2)[0] \in Byte /\ BigEndian(v, 2)[1] \in Byte
    BY <1>1, <1>2, TwoBytes
  <2> QED
    BY <1>4, <2>1, <2>2 DEF v
<1>5. CASE f.len = 4
  <2>1. j = 0 \/ j = 1 \/ j = 2 \/ j = 3
    BY <1>5
  <2>2. /\ BigEndian(v, 4)[0] \in Byte /\ BigEndian(v, 4)[1] \in Byte
        /\ BigEndian(v, 4)[2] \in Byte /\ BigEndian(v, 4)[3] \in Byte
    <3>1. /\ BigEndian(v, 4)[0] = (v \div (256 * 256 * 256)) % 256
          /\ BigEndian(v, 4)[1] = (v \div (256 * 256)) % 256
          /\ BigEndian(v, 4)[2] = (v \div 256) % 256
          /\ BigEndian(v, 4)[3] = v % 256
      BY <1>1, FourBytes, ZenonT(60)
    <3> QED
      BY <1>2, <3>1
  <2> QED
    BY <1>5, <2>1, <2>2 DEF v
<1> QED
  BY <1>1, <1>3, <1>4, <1>5

\* A TPM that unmarshals a field finds the value that was added.
LEMMA FieldBytes ==
    ASSUME NEW a \in Nat, NEW v, NEW n \in {1, 2, 4}, StoredAt(a, F(v, n)),
           NEW j \in 0 .. n - 1
    PROVE  data[a + j] = BigEndian(v, n)[j]
BY DEF StoredAt, F

LEMMA ByteIsRead ==
    ASSUME NEW a \in Nat, NEW v \in Byte, StoredAt(a, F(v, 1))
    PROVE  data[a] = v
<1>1. v \in Nat /\ v < 256
  BY ByteFacts
<1>2. data[a + 0] = BigEndian(v, 1)[0]
  BY FieldBytes
<1>3. BigEndian(v, 1)[0] = v % 256
  BY <1>1, OneByte
<1> QED
  BY <1>1, <1>2, <1>3

LEMMA Uint16IsRead ==
    ASSUME NEW a \in Nat, NEW v \in Uint(2), StoredAt(a, F(v, 2))
    PROVE  U(a, 2) = v
<1>1. v \in Nat /\ v < (256 * 256)
  BY UintFacts
<1>2. data[a + 0] = BigEndian(v, 2)[0] /\ data[a + 1] = BigEndian(v, 2)[1]
  BY FieldBytes
<1>3. data[a + 0] = (v \div 256) % 256 /\ data[a + 1] = v % 256
  BY <1>1, <1>2, TwoBytes
<1>4. U(a, 2) = data[a + 0] * 256 ^ (2 - 1 - 0) + data[a + 1] * 256 ^ (2 - 1 - 1)
  BY DEF U
<1>5. 256 ^ (2 - 1 - 0) = 256 /\ 256 ^ (2 - 1 - 1) = 1
  OBVIOUS
<1> QED
  BY <1>1, <1>3, <1>4, <1>5

LEMMA Uint32IsRead ==
    ASSUME NEW a \in Nat, NEW v \in Uint(4), StoredAt(a, F(v, 4))
    PROVE  U(a, 4) = v
<1>1. v \in Nat /\ v \div (256 * 256 * 256) < 256
  BY UintFacts
<1>2. /\ data[a + 0] = BigEndian(v, 4)[0] /\ data[a + 1] = BigEndian(v, 4)[1]
      /\ data[a + 2] = BigEndian(v, 4)[2] /\ data[a + 3] = BigEndian(v, 4)[3]
  BY FieldBytes
<1>3. /\ data[a + 0] = (v \div (256 * 256 * 256)) % 256
      /\ data[a + 1] = (v \div (256 * 256)) % 256
      /\ data[a + 2] = (v \div 256) % 256 /\ data[a + 3] = v % 256
  <2>1. /\ BigEndian(v, 4)[0] = (v \div (256 * 256 * 256)) % 256
        /\ BigEndian(v, 4)[1] = (v \div (256 * 256)) % 256
        /\ BigEndian(v, 4)[2] = (v \div 256) % 256
        /\ BigEndian(v, 4)[3] = v % 256
    BY <1>1, FourBytes, ZenonT(60)
  <2> QED
    BY <1>2, <2>1, ZenonT(60)
<1>4. U(a, 4) = data[a + 0] * 256 ^ (4 - 1 - 0) + data[a + 1] * 256 ^ (4 - 1 - 1)
                + data[a + 2] * 256 ^ (4 - 1 - 2) + data[a + 3] * 256 ^ (4 - 1 - 3)
  BY DEF U
<1>5. /\ 256 ^ (4 - 1 - 0) = 256 * 256 * 256 /\ 256 ^ (4 - 1 - 1) = 256 * 256
      /\ 256 ^ (4 - 1 - 2) = 256 /\ 256 ^ (4 - 1 - 3) = 1
  OBVIOUS
<1>6. ((v \div (256 * 256 * 256)) % 256) * (256 * 256 * 256)
        + ((v \div (256 * 256)) % 256) * (256 * 256)
        + ((v \div 256) % 256) * 256 + (v % 256) = v
  BY <1>1
<1> QED
  BY <1>1, <1>3, <1>4, <1>5, <1>6

LEMMA Uint8IsRead ==
    ASSUME NEW a \in Nat, NEW v \in Byte, StoredAt(a, F(v, 1))
    PROVE  U(a, 1) = v
<1>1. U(a, 1) = data[a + 0] * 256 ^ (1 - 1 - 0)
  BY DEF U
<1>2. data[a] = v /\ v \in Nat
  BY ByteIsRead, ByteFacts
<1> QED
  BY <1>1, <1>2
-----------------------------------------------------------------------------
(* Offsets.                                                                *)

LEMMA FieldFacts ==
    ASSUME NEW fs \in Seq(Field), NEW k \in 1 .. Len(fs)
    PROVE  /\ fs[k] \in Field
           /\ fs[k].val \in Nat /\ fs[k].len \in {1, 2, 4} /\ fs[k].len \in Nat
<1>1. fs[k] \in Field
  OBVIOUS
<1> QED
  BY <1>1 DEF Field

LEMMA OffsetFacts ==
    ASSUME NEW fs \in Seq(Field)
    PROVE  /\ Len(fs) \in Nat
           /\ Offset(fs) \in [0 .. Len(fs) -> Nat]
           /\ Offset(fs)[0] = 0
           /\ \A k \in 1 .. Len(fs) : Offset(fs)[k] = fs[k].len + Offset(fs)[k - 1]
           /\ Total(fs) \in Nat
<1> DEFINE n == Len(fs)
           w == [k \in 1 .. n |-> fs[k].len]
<1>1. n \in Nat /\ w \in [1 .. n -> Nat] /\ \A k \in 1 .. n : w[k] = fs[k].len
  <2>1. \A k \in 1 .. n : fs[k].len \in Nat
    BY FieldFacts, Zenon
  <2>2. w \in [1 .. n -> Nat]
    BY <2>1, Zenon
  <2> QED
    BY <2>2
<1>2. \E at \in [0 .. n -> Nat] : at[0] = 0 /\ \A k \in 1 .. n : at[k] = w[k] + at[k - 1]
  <2> HIDE DEF n, w
  <2> QED
    BY <1>1, SumExists
<1>3. \E at \in [0 .. Len(fs) -> Nat] :
          at[0] = 0 /\ \A k \in 1 .. Len(fs) : at[k] = fs[k].len + at[k - 1]
  BY <1>1, <1>2, Zenon
<1>4. /\ Offset(fs) \in [0 .. Len(fs) -> Nat]
      /\ Offset(fs)[0] = 0
      /\ \A k \in 1 .. Len(fs) : Offset(fs)[k] = fs[k].len + Offset(fs)[k - 1]
  BY <1>3, Zenon DEF Offset
<1>5. Total(fs) \in Nat
  BY <1>1, <1>4 DEF Total
<1> QED
  BY <1>1, <1>4, <1>5

\* A later field does not begin before an earlier one ends.
LEMMA OffsetsGrow ==
    ASSUME NEW fs \in Seq(Field), NEW k \in 0 .. Len(fs), NEW m \in k .. Len(fs)
    PROVE  Offset(fs)[k] <= Offset(fs)[m]
<1> DEFINE n == Len(fs)
           at == Offset(fs)
           S == {d \in Nat : k + d <= n => at[k] <= at[k + d]}
<1>1. /\ n \in Nat /\ at \in [0 .. n -> Nat]
      /\ \A i \in 1 .. n : at[i] >= at[i - 1]
  <2>1. \A i \in 1 .. n : fs[i].len \in Nat
    BY FieldFacts, Zenon
  <2>2. /\ n \in Nat /\ at \in [0 .. n -> Nat]
        /\ \A i \in 1 .. n : at[i] = fs[i].len + at[i - 1]
    BY OffsetFacts
  <2> HIDE DEF at, n
  <2>3. ASSUME NEW i \in 1 .. n PROVE at[i] >= at[i - 1]
    <3>1. i - 1 \in 0 .. n
      BY <2>2
    <3>2. at[i - 1] \in Nat /\ fs[i].len \in Nat /\ at[i] = fs[i].len + at[i - 1]
      BY <2>1, <2>2, <3>1
    <3> QED
      BY <3>2
  <2> QED
    BY <2>2, <2>3
<1> HIDE DEF n, at
<1>2. k \in 0 .. n /\ m \in k .. n
  BY DEF n
<1>3. 0 \in S
  BY <1>1, <1>2
<1>4. ASSUME NEW d \in S PROVE d + 1 \in S
  <2> SUFFICES ASSUME k + (d + 1) <= n PROVE at[k] <= at[k + (d + 1)]
    OBVIOUS
  <2>1. d \in Nat /\ at[k] <= at[k + d]
    BY <1>1, <1>2
  <2>2. k + (d + 1) \in 1 .. n /\ (k + (d + 1)) - 1 = k + d /\ k + d \in 0 .. n
    BY <1>1, <1>2, <2>1
  <2>3. at[k + (d + 1)] >= at[k + d]
    BY <1>1, <2>2
  <2> QED
    BY <1>1, <1>2, <2>1, <2>2, <2>3
<1>5. S = Nat
  <2>1. S \in SUBSET Nat
    OBVIOUS
  <2> HIDE DEF S
  <2> QED
    BY <1>3, <1>4, <2>1, SetInduction
<1>6. m - k \in Nat /\ k + (m - k) = m /\ m <= n
  BY <1>1, <1>2
<1>7. at[k] <= at[m]
  <2>1. m - k \in S
    BY <1>5, <1>6
  <2>2. k + (m - k) <= n => at[k] <= at[k + (m - k)]
    BY <2>1
  <2> QED
    BY <1>6, <2>2
<1> QED
  BY <1>7 DEF at

\* Fields of one byte follow each other byte by byte.
LEMMA ByteRun ==
    ASSUME NEW fs \in Seq(Field), NEW k \in 0 .. Len(fs), NEW n \in Nat, k + n <= Len(fs),
           \A i \in 1 .. n : fs[k + i].len = 1
    PROVE  \A i \in 0 .. n : Offset(fs)[k + i] = Offset(fs)[k] + i
<1> DEFINE at == Offset(fs)
           S == {d \in Nat : d <= n => at[k + d] = at[k] + d}
<1>1. /\ Len(fs) \in Nat /\ at \in [0 .. Len(fs) -> Nat]
      /\ \A i \in 1 .. Len(fs) : at[i] = fs[i].len + at[i - 1]
  BY OffsetFacts
<1> HIDE DEF at
<1>2. at[k] \in Nat
  BY <1>1
<1>3. 0 \in S
  BY <1>1, <1>2
<1>4. ASSUME NEW d \in S PROVE d + 1 \in S
  <2> SUFFICES ASSUME d + 1 <= n PROVE at[k + (d + 1)] = at[k] + (d + 1)
    OBVIOUS
  <2>1. d \in Nat /\ at[k + d] = at[k] + d
    OBVIOUS
  <2>2. k + (d + 1) \in 1 .. Len(fs) /\ (k + (d + 1)) - 1 = k + d /\ d + 1 \in 1 .. n
    BY <1>1, <2>1
  <2>3. at[k + (d + 1)] = fs[k + (d + 1)].len + at[k + d] /\ fs[k + (d + 1)].len = 1
    BY <1>1, <2>2
  <2> QED
    BY <1>2, <2>1, <2>3
<1>5. S = Nat
  <2>1. S \in SUBSET Nat
    OBVIOUS
  <2> HIDE DEF S
  <2> QED
    BY <1>3, <1>4, <2>1, SetInduction
<1>6. \A i \in 0 .. n : i \in Nat /\ i <= n /\ i \in S
  BY <1>5
<1>7. \A i \in 0 .. n : at[k + i] = at[k] + i
  BY <1>6
<1> QED
  BY <1>7 DEF at
-----------------------------------------------------------------------------
(* Commands put together from parts.                                       *)

\* The fields fs are in data[] one after the other from a on.
Stored(a, fs) == \A k \in 1 .. Len(fs) : StoredAt(a + Offset(fs)[k - 1], fs[k])

LEMMA ConcatFacts ==
    ASSUME NEW s \in Seq(Field), NEW t \in Seq(Field)
    PROVE  /\ s \o t \in Seq(Field) /\ Len(s \o t) = Len(s) + Len(t)
           /\ \A i \in 1 .. Len(s) : (s \o t)[i] = s[i]
           /\ \A i \in 1 .. Len(t) : (s \o t)[Len(s) + i] = t[i]
<1>0. Len(s) \in Nat /\ Len(t) \in Nat
  OBVIOUS
<1>1. /\ s \o t \in Seq(Field) /\ Len(s \o t) = Len(s) + Len(t)
      /\ \A i \in 1 .. Len(s) + Len(t) :
           (s \o t)[i] = IF i <= Len(s) THEN s[i] ELSE t[i - Len(s)]
  BY ConcatProperties
<1>2. ASSUME NEW i \in 1 .. Len(s) PROVE (s \o t)[i] = s[i]
  <2>1. i \in 1 .. Len(s) + Len(t) /\ i <= Len(s)
    BY <1>0
  <2> QED
    BY <1>1, <2>1, Zenon
<1>3. ASSUME NEW i \in 1 .. Len(t) PROVE (s \o t)[Len(s) + i] = t[i]
  <2>1. /\ Len(s) + i \in 1 .. Len(s) + Len(t) /\ ~(Len(s) + i <= Len(s))
        /\ (Len(s) + i) - Len(s) = i
    BY <1>0
  <2> QED
    BY <1>1, <2>1, Zenon
<1> QED
  BY <1>1, <1>2, <1>3

\* The first part begins at 0, the second where the first ends.
LEMMA OffsetConcat ==
    ASSUME NEW s \in Seq(Field), NEW t \in Seq(Field)
    PROVE  /\ \A i \in 0 .. Len(s) : Offset(s \o t)[i] = Offset(s)[i]
           /\ \A i \in 0 .. Len(t) : Offset(s \o t)[Len(s) + i] = Total(s) + Offset(t)[i]
<1> DEFINE m == Len(s)
           n == Len(t)
           st == s \o t
           at == Offset(st)
           a == Offset(s)
           b == Offset(t)
           S == {d \in Nat : d <= m => at[d] = a[d]}
           T == {d \in Nat : d <= n => at[m + d] = a[m] + b[d]}
<1>1. /\ st \in Seq(Field) /\ Len(st) = m + n
      /\ \A i \in 1 .. m : st[i] = s[i]
      /\ \A i \in 1 .. n : st[m + i] = t[i]
  BY ConcatFacts
<1>2. /\ m \in Nat /\ a \in [0 .. m -> Nat] /\ a[0] = 0
      /\ \A k \in 1 .. m : a[k] = s[k].len + a[k - 1]
  BY OffsetFacts
<1>3. /\ n \in Nat /\ b \in [0 .. n -> Nat] /\ b[0] = 0
      /\ \A k \in 1 .. n : b[k] = t[k].len + b[k - 1]
  BY OffsetFacts
<1> HIDE DEF st
<1>4. at[0] = 0 /\ \A k \in 1 .. m + n : at[k] = st[k].len + at[k - 1]
  <2>1. at[0] = 0 /\ \A k \in 1 .. Len(st) : at[k] = st[k].len + at[k - 1]
    BY <1>1, OffsetFacts
  <2> QED
    BY <1>1, <2>1
<1>5. \A k \in 1 .. n : t[k].len \in Nat
  BY FieldFacts, Zenon
<1> HIDE DEF at, a, b, m, n
<1>6. S = Nat
  <2>1. 0 \in S
    BY <1>2, <1>4
  <2>2. ASSUME NEW d \in S PROVE d + 1 \in S
    <3> SUFFICES ASSUME d + 1 <= m PROVE at[d + 1] = a[d + 1]
      OBVIOUS
    <3>1. d \in Nat /\ at[d] = a[d]
      BY <1>2
    <3>2. d + 1 \in 1 .. m /\ d + 1 \in 1 .. m + n /\ (d + 1) - 1 = d
      BY <1>2, <1>3, <3>1
    <3>3. at[d + 1] = st[d + 1].len + at[d] /\ a[d + 1] = s[d + 1].len + a[d]
      BY <1>2, <1>4, <3>2
    <3> QED
      BY <1>1, <3>1, <3>2, <3>3
  <2>3. S \in SUBSET Nat
    OBVIOUS
  <2> HIDE DEF S
  <2> QED
    BY <2>1, <2>2, <2>3, SetInduction
<1>7. at[m] = a[m]
  <2>1. m \in S
    BY <1>2, <1>6
  <2> QED
    BY <1>2, <2>1
<1>8. T = Nat
  <2>1. 0 \in T
    <3>1. a[m] \in Nat /\ m + 0 = m
      BY <1>2
    <3> QED
      BY <1>3, <1>7, <3>1
  <2>2. ASSUME NEW d \in T PROVE d + 1 \in T
    <3> SUFFICES ASSUME d + 1 <= n PROVE at[m + (d + 1)] = a[m] + b[d + 1]
      OBVIOUS
    <3>1. d \in Nat /\ at[m + d] = a[m] + b[d]
      BY <1>3
    <3>2. /\ m + (d + 1) \in 1 .. m + n /\ d + 1 \in 1 .. n /\ (d + 1) - 1 = d
          /\ (m + (d + 1)) - 1 = m + d
      BY <1>2, <1>3, <3>1
    <3>3. at[m + (d + 1)] = st[m + (d + 1)].len + at[m + d] /\ b[d + 1] = t[d + 1].len + b[d]
      BY <1>3, <1>4, <3>2
    <3>4. st[m + (d + 1)] = t[d + 1]
      BY <1>1, <3>2
    <3>5. a[m] \in Nat /\ b[d] \in Nat /\ t[d + 1].len \in Nat
      BY <1>2, <1>3, <1>5, <3>1, <3>2
    <3> QED
      BY <3>1, <3>3, <3>4, <3>5
  <2>3. T \in SUBSET Nat
    OBVIOUS
  <2> HIDE DEF T
  <2> QED
    BY <2>1, <2>2, <2>3, SetInduction
<1>9. ASSUME NEW i \in 0 .. m PROVE at[i] = a[i]
  <2>1. i \in Nat /\ i <= m
    BY <1>2
  <2>2. i \in S
    BY <1>6, <2>1, Zenon
  <2> QED
    BY <2>1, <2>2
<1>10. ASSUME NEW i \in 0 .. n PROVE at[m + i] = a[m] + b[i]
  <2>1. i \in Nat /\ i <= n
    BY <1>3
  <2>2. i \in T
    BY <1>8, <2>1, Zenon
  <2> QED
    BY <2>1, <2>2
<1> QED
  BY <1>9, <1>10 DEF at, a, b, m, n, st, Total

LEMMA TotalConcat ==
    ASSUME NEW s \in Seq(Field), NEW t \in Seq(Field)
    PROVE  Total(s \o t) = Total(s) + Total(t)
<1>1. Len(s \o t) = Len(s) + Len(t) /\ Len(t) \in Nat
  BY ConcatFacts
<1>2. Len(t) \in 0 .. Len(t)
  BY <1>1
<1>3. Offset(s \o t)[Len(s) + Len(t)] = Total(s) + Offset(t)[Len(t)]
  BY <1>2, OffsetConcat
<1> QED
  BY <1>1, <1>3, Zenon DEF Total

LEMMA StoredConcat ==
    ASSUME NEW a \in Nat, NEW s \in Seq(Field), NEW t \in Seq(Field), Stored(a, s \o t)
    PROVE  Stored(a, s) /\ Stored(a + Total(s), t)
<1>0. Len(s) \in Nat /\ Len(t) \in Nat
  OBVIOUS
<1>1. /\ Len(s \o t) = Len(s) + Len(t)
      /\ \A i \in 1 .. Len(s) : (s \o t)[i] = s[i]
      /\ \A i \in 1 .. Len(t) : (s \o t)[Len(s) + i] = t[i]
  BY ConcatFacts
<1>2. /\ \A i \in 0 .. Len(s) : Offset(s \o t)[i] = Offset(s)[i]
      /\ \A i \in 0 .. Len(t) : Offset(s \o t)[Len(s) + i] = Total(s) + Offset(t)[i]
  BY OffsetConcat
<1>3. \A k \in 1 .. Len(s) + Len(t) : StoredAt(a + Offset(s \o t)[k - 1], (s \o t)[k])
  BY <1>1, Zenon DEF Stored
<1>4. ASSUME NEW k \in 1 .. Len(s) PROVE StoredAt(a + Offset(s)[k - 1], s[k])
  <2>1. k \in 1 .. Len(s) + Len(t) /\ k - 1 \in 0 .. Len(s)
    BY <1>0
  <2> QED
    BY <1>1, <1>2, <1>3, <2>1, Zenon
<1>5. ASSUME NEW k \in 1 .. Len(t) PROVE StoredAt((a + Total(s)) + Offset(t)[k - 1], t[k])
  <2>1. /\ Len(s) + k \in 1 .. Len(s) + Len(t) /\ k - 1 \in 0 .. Len(t)
        /\ (Len(s) + k) - 1 = Len(s) + (k - 1)
    BY <1>0
  <2>2. StoredAt(a + (Total(s) + Offset(t)[k - 1]), t[k])
    BY <1>1, <1>2, <1>3, <2>1, Zenon
  <2>3. Total(s) \in Nat /\ Offset(t)[k - 1] \in Nat
    <3>1. Total(s) \in Nat /\ Offset(t) \in [0 .. Len(t) -> Nat]
      BY OffsetFacts
    <3> QED
      BY <2>1, <3>1, Zenon
  <2>4. a + (Total(s) + Offset(t)[k - 1]) = (a + Total(s)) + Offset(t)[k - 1]
    BY <2>3
  <2> QED
    BY <2>2, <2>4, Zenon
<1> QED
  BY <1>4, <1>5, Zenon DEF Stored

LEMMA FFacts ==
    ASSUME NEW v \in Nat, NEW n \in {1, 2, 4}
    PROVE  F(v, n) \in Field /\ F(v, n).val = v /\ F(v, n).len = n
BY DEF F, Field

LEMMA ByteArray ==
    ASSUME NEW b \in [1 .. 3 -> Byte]
    PROVE  b \in Seq(Byte) /\ Len(b) = 3
BY SMTT(40)

\* An array of bytes, added byte by byte.
LEMMA BytesFacts ==
    ASSUME NEW s \in Seq(Byte)
    PROVE  /\ Len(s) \in Nat /\ Bytes(s) \in Seq(Field) /\ Len(Bytes(s)) = Len(s)
           /\ \A i \in 1 .. Len(s) : s[i] \in Byte /\ Bytes(s)[i] = F(s[i], 1)
<1>1. Len(s) \in Nat /\ \A i \in 1 .. Len(s) : s[i] \in Byte
  OBVIOUS
<1>2. \A i \in 1 .. Len(s) : F(s[i], 1) \in Field
  BY <1>1, ByteFacts, FFacts
<1>3. Bytes(s) \in [1 .. Len(s) -> Field] /\ \A i \in 1 .. Len(s) : Bytes(s)[i] = F(s[i], 1)
  BY <1>2, Zenon DEF Bytes
<1>4. Bytes(s) \in Seq(Field) /\ Len(Bytes(s)) = Len(s)
  BY <1>1, <1>3
<1> QED
  BY <1>1, <1>3, <1>4

LEMMA BytesOffsets ==
    ASSUME NEW s \in Seq(Byte)
    PROVE  (\A i \in 0 .. Len(s) : Offset(Bytes(s))[i] = i) /\ Total(Bytes(s)) = Len(s)
<1> DEFINE fs == Bytes(s)
<1>1. /\ Len(s) \in Nat /\ fs \in Seq(Field) /\ Len(fs) = Len(s)
      /\ \A i \in 1 .. Len(s) : s[i] \in Byte /\ fs[i] = F(s[i], 1)
  BY BytesFacts
<1> HIDE DEF fs
<1>2. \A i \in 1 .. Len(s) : fs[0 + i].len = 1
  <2>1. \A i \in 1 .. Len(s) : s[i] \in Nat /\ fs[i] = F(s[i], 1) /\ 0 + i = i
    BY <1>1, ByteFacts
  <2> QED
    BY <2>1, FFacts
<1>3. 0 \in 0 .. Len(fs) /\ 0 + Len(s) <= Len(fs)
  BY <1>1
<1>4. \A i \in 0 .. Len(s) : Offset(fs)[0 + i] = Offset(fs)[0] + i
  BY <1>1, <1>2, <1>3, ByteRun
<1>5. Offset(fs)[0] = 0
  BY <1>1, OffsetFacts
<1>6. \A i \in 0 .. Len(s) : Offset(fs)[i] = i
  BY <1>4, <1>5
<1>7. Total(fs) = Len(s)
  BY <1>1, <1>6 DEF Total
<1> QED
  BY <1>6, <1>7 DEF fs

LEMMA BytesAreRead ==
    ASSUME NEW a \in Nat, NEW s \in Seq(Byte), Stored(a, Bytes(s))
    PROVE  /\ \A i \in 1 .. Len(s) : data[a + i - 1] = s[i]
           /\ Slice(a, Len(s)) = s
<1>1. /\ Len(s) \in Nat /\ Len(Bytes(s)) = Len(s)
      /\ \A i \in 1 .. Len(s) : s[i] \in Byte /\ Bytes(s)[i] = F(s[i], 1)
  BY BytesFacts
<1>2. \A i \in 0 .. Len(s) : Offset(Bytes(s))[i] = i
  BY BytesOffsets
<1>3. ASSUME NEW i \in 1 .. Len(s) PROVE data[a + i - 1] = s[i]
  <2>1. StoredAt(a + Offset(Bytes(s))[i - 1], Bytes(s)[i])
    BY <1>1, Zenon DEF Stored
  <2>2. i - 1 \in 0 .. Len(s) /\ a + (i - 1) \in Nat /\ a + i - 1 = a + (i - 1)
    BY <1>1
  <2>3. StoredAt(a + (i - 1), F(s[i], 1)) /\ s[i] \in Byte
    BY <1>1, <1>2, <2>1, <2>2, Zenon
  <2> QED
    BY <2>2, <2>3, ByteIsRead, Zenon
<1>4. Slice(a, Len(s)) = s
  <2>1. s = [i \in 1 .. Len(s) |-> s[i]]
    OBVIOUS
  <2> QED
    BY <1>3, <2>1, Zenon DEF Slice
<1> QED
  BY <1>3, <1>4
-----------------------------------------------------------------------------
(* The inductive invariant.                                                *)

\* data[] keeps its bounds, and everything stored lies below cmd_size.
BufferInv ==
    /\ InBounds
    /\ DOMAIN data = 0 .. MAX_CMD_DATA - 1
    /\ \A i \in DOMAIN data : i >= size - TPM_HEADER_SIZE => data[i] = 0

Added == Len(Fields(cmd)) - Len(todo)

\* As long as nothing went wrong the fields added so far lie at their offsets and
\* cmd_size ends with the last of them; an error means that not all will fit.
ProgressInv ==
    pc # "idle" =>
        /\ ArgumentsOk(cmd)
        /\ Added \in 0 .. Len(Fields(cmd))
        /\ \A i \in 1 .. Len(todo) : todo[i] = Fields(cmd)[Added + i]
        /\ error = "SUCCESS" =>
             /\ size = TPM_HEADER_SIZE + Offset(Fields(cmd))[Added]
             /\ \A k \in 1 .. Added : StoredAt(Offset(Fields(cmd))[k - 1], Fields(cmd)[k])
        /\ error # "SUCCESS" => TPM_HEADER_SIZE + Total(Fields(cmd)) > MAX_SIZE_CMDBUF
        /\ pc = "xfer" => todo = <<>> /\ error = "SUCCESS"

\* A call with good arguments is refused exactly if its fields do not fit.
ReturnInv ==
    pc = "idle" /\ ret # "NONE" /\ ArgumentsOk(cmd) =>
        (ret = "INVALID_PARAM") = (TPM_HEADER_SIZE + Total(Fields(cmd)) > MAX_SIZE_CMDBUF)

IInv == TypeOK /\ BufferInv /\ ProgressInv /\ ReturnInv

-----------------------------------------------------------------------------
(* The fields of the commands.                                             *)

LEMMA CallKinds ==
    ASSUME NEW c \in Commands
    PROVE  /\ c.api \in {"startup", "getcap", "extend", "pcr_read", "allocate"}
           /\ c.api = "startup" => c \in StartupCall
           /\ c.api = "getcap" => c \in GetcapCall
           /\ c.api = "extend" => c \in ExtendCall
           /\ c.api = "pcr_read" => c \in PcrReadCall
           /\ c.api = "allocate" => c \in AllocateCall
<1>1. \/ c \in StartupCall \/ c \in GetcapCall \/ c \in ExtendCall \/ c \in PcrReadCall
      \/ c \in AllocateCall
  BY CommandsAssumption, Zenon
<1>2. c \in StartupCall => c.api = "startup"
  BY Zenon DEF StartupCall
<1>3. c \in GetcapCall => c.api = "getcap"
  BY Zenon DEF GetcapCall
<1>4. c \in ExtendCall => c.api = "extend"
  BY Zenon DEF ExtendCall
<1>5. c \in PcrReadCall => c.api = "pcr_read"
  BY Zenon DEF PcrReadCall
<1>6. c \in AllocateCall => c.api = "allocate"
  BY Zenon DEF AllocateCall
<1> QED
  BY <1>1, <1>2, <1>3, <1>4, <1>5, <1>6

LEMMA UintIsNat == \A n : \A v \in Uint(n) : v \in Nat
BY DEF Uint

LEMMA ConstantFields ==
    /\ TPM_RS_PW \in Uint(4) /\ TPM_RH_PLATFORM \in Uint(4)
    /\ TPM_MIN_AUTH_SIZE = 9 /\ TPM_PCR_SELECT_SIZE = 3
<1>1. TPM_RS_PW \in Nat /\ TPM_RS_PW \div (256 * 256 * 256) < 256
  BY SMT DEF TPM_RS_PW
<1>2. TPM_RH_PLATFORM \in Nat /\ TPM_RH_PLATFORM \div (256 * 256 * 256) < 256
  BY SMT DEF TPM_RH_PLATFORM
<1> QED
  BY <1>1, <1>2, UintFacts DEF TPM_MIN_AUTH_SIZE, TPM_PCR_SELECT_SIZE

LEMMA StoredField ==
    ASSUME NEW a \in Nat, NEW fs \in Seq(Field), Stored(a, fs), NEW k \in 1 .. Len(fs),
           NEW o, Offset(fs)[k - 1] = o, NEW f, fs[k] = f
    PROVE  StoredAt(a + o, f)
BY Zenon DEF Stored

LEMMA StartupLayout ==
    ASSUME NEW c \in StartupCall
    PROVE  /\ StartupFields(c) \in Seq(Field) /\ Total(StartupFields(c)) = 2
           /\ Stored(0, StartupFields(c)) => U(0, 2) = c.mode
<1> DEFINE fs == StartupFields(c)
           at == Offset(fs)
<1>1. c.mode \in Uint(2) /\ c.mode \in Nat
  BY UintIsNat DEF StartupCall
<1>2. F(c.mode, 2) \in Field /\ F(c.mode, 2).len = 2
  BY <1>1, FFacts
<1>3. fs \in Seq(Field) /\ Len(fs) = 1 /\ fs[1] = F(c.mode, 2)
  BY <1>2 DEF StartupFields
<1> HIDE DEF fs
<1>4. at[0] = 0 /\ (\A k \in 1 .. Len(fs) : at[k] = fs[k].len + at[k - 1]) /\ Total(fs) = at[Len(fs)]
  BY <1>3, OffsetFacts DEF Total
<1> HIDE DEF at
<1>5. Total(fs) = 2
  BY <1>2, <1>3, <1>4
<1>6. ASSUME Stored(0, fs) PROVE U(0, 2) = c.mode
  <2>1. 1 \in 1 .. Len(fs) /\ 1 - 1 = 0
    BY <1>3
  <2>2. StoredAt(0 + 0, F(c.mode, 2))
    BY <1>3, <1>4, <1>6, <2>1, StoredField DEF at
  <2> QED
    BY <1>1, <2>2, Uint16IsRead
<1> QED
  BY <1>3, <1>5, <1>6 DEF fs

LEMMA GetcapLayout ==
    ASSUME NEW c \in GetcapCall
    PROVE  /\ GetcapFields(c) \in Seq(Field) /\ Total(GetcapFields(c)) = 12
           /\ Stored(0, GetcapFields(c)) =>
                U(0, 4) = c.capability /\ U(4, 4) = c.property /\ U(8, 4) = c.count
<1> DEFINE fs == GetcapFields(c)
           at == Offset(fs)
<1>1. /\ c.capability \in Uint(4) /\ c.property \in Uint(4) /\ c.count \in Uint(4)
      /\ c.capability \in Nat /\ c.property \in Nat /\ c.count \in Nat
  BY UintIsNat DEF GetcapCall
<1>2. /\ F(c.capability, 4) \in Field /\ F(c.property, 4) \in Field /\ F(c.count, 4) \in Field
      /\ F(c.capability, 4).len = 4 /\ F(c.property, 4).len = 4 /\ F(c.count, 4).len = 4
  BY <1>1, FFacts
<1>3. /\ fs \in Seq(Field) /\ Len(fs) = 3 /\ fs[1] = F(c.capability, 4)
      /\ fs[2] = F(c.property, 4) /\ fs[3] = F(c.count, 4)
  BY <1>2 DEF GetcapFields
<1> HIDE DEF fs
<1>4. at[0] = 0 /\ (\A k \in 1 .. 3 : at[k] = fs[k].len + at[k - 1]) /\ Total(fs) = at[3]
  BY <1>3, OffsetFacts DEF Total
<1> HIDE DEF at
<1>5. at[1] = 4 /\ at[2] = 8 /\ at[3] = 12
  BY <1>2, <1>3, <1>4
<1>6. ASSUME Stored(0, fs)
      PROVE  U(0, 4) = c.capability /\ U(4, 4) = c.property /\ U(8, 4) = c.count
  <2>1. /\ 1 \in 1 .. Len(fs) /\ 2 \in 1 .. Len(fs) /\ 3 \in 1 .. Len(fs)
        /\ 1 - 1 = 0 /\ 2 - 1 = 1 /\ 3 - 1 = 2
    BY <1>3
  <2>2. StoredAt(0 + 0, F(c.capability, 4))
    BY <1>3, <1>4, <1>6, <2>1, StoredField DEF at
  <2>3. StoredAt(0 + 4, F(c.property, 4))
    BY <1>3, <1>5, <1>6, <2>1, StoredField DEF at
  <2>4. StoredAt(0 + 8, F(c.count, 4))
    BY <1>3, <1>5, <1>6, <2>1, StoredField DEF at
  <2> QED
    BY <1>1, <2>2, <2>3, <2>4, Uint32IsRead
<1> QED
  BY <1>3, <1>4, <1>5, <1>6 DEF fs

\* A command with a handle and a password session begins with the handle, the
\* size of the authorisation area, the session, its empty nonce, its attributes
\* and the length of the password.
LEMMA SessionLayout ==
    ASSUME NEW fs \in Seq(Field), Len(fs) >= 6, NEW h \in Uint(4), NEW n \in Uint(2),
           NEW area, area = 9 + n,
           fs[1] = F(h, 4), fs[2] = F(area, 4), fs[3] = F(TPM_RS_PW, 4),
           fs[4] = F(0, 2), fs[5] = F(0, 1), fs[6] = F(n, 2)
    PROVE  /\ Offset(fs)[6] = 17
           /\ Stored(0, fs) =>
                /\ U(0, 4) = h /\ U(4, 4) = area /\ U(8, 4) = TPM_RS_PW
                /\ U(12, 2) = 0 /\ U(15, 2) = n
<1> DEFINE at == Offset(fs)
<1>1. h \in Nat /\ n \in Nat /\ TPM_RS_PW \in Nat /\ TPM_RS_PW \in Uint(4)
  BY UintIsNat, ConstantFields
<1>2. area \in Uint(4) /\ area \in Nat /\ 0 \in Uint(2)
  <2>1. n < 256 * 256
    BY UintFacts
  <2>2. area \div (256 * 256 * 256) < 256
    BY <1>1, <2>1
  <2>3. area \in Uint(4)
    <3>1. area \in Nat
      BY <1>1
    <3> QED
      BY <2>2, <3>1, UintFacts, Zenon
  <2>4. 0 \in Uint(2)
    BY UintFacts, SMTT(40)
  <2> QED
    BY <1>1, <2>3, <2>4
<1>3. /\ fs[1].len = 4 /\ fs[2].len = 4 /\ fs[3].len = 4 /\ fs[4].len = 2 /\ fs[5].len = 1
      /\ fs[6].len = 2
  BY <1>1, <1>2, FFacts
<1>4. /\ Len(fs) \in Nat /\ at[0] = 0
      /\ \A k \in 1 .. Len(fs) : at[k] = fs[k].len + at[k - 1]
  BY OffsetFacts
<1> HIDE DEF at
<1>5. \A k \in 1 .. 6 : at[k] = fs[k].len + at[k - 1]
  BY <1>4
<1>6. at[1] = 4 /\ at[2] = 8 /\ at[3] = 12 /\ at[4] = 14 /\ at[5] = 15 /\ at[6] = 17
  BY <1>3, <1>4, <1>5, SMTT(40)
<1>7. ASSUME Stored(0, fs)
      PROVE  /\ U(0, 4) = h /\ U(4, 4) = area /\ U(8, 4) = TPM_RS_PW
             /\ U(12, 2) = 0 /\ U(15, 2) = n
  <2>1. /\ 1 \in 1 .. Len(fs) /\ 2 \in 1 .. Len(fs) /\ 3 \in 1 .. Len(fs)
        /\ 4 \in 1 .. Len(fs) /\ 6 \in 1 .. Len(fs)
        /\ 1 - 1 = 0 /\ 2 - 1 = 1 /\ 3 - 1 = 2 /\ 4 - 1 = 3 /\ 6 - 1 = 5
    BY <1>4
  <2>2. StoredAt(0 + 0, F(h, 4))
    BY <1>4, <1>7, <2>1, StoredField DEF at
  <2>3. StoredAt(0 + 4, F(area, 4))
    BY <1>6, <1>7, <2>1, StoredField DEF at
  <2>4. StoredAt(0 + 8, F(TPM_RS_PW, 4))
    BY <1>6, <1>7, <2>1, StoredField DEF at
  <2>5. StoredAt(0 + 12, F(0, 2))
    BY <1>6, <1>7, <2>1, StoredField DEF at
  <2>6. StoredAt(0 + 15, F(n, 2))
    BY <1>6, <1>7, <2>1, StoredField DEF at
  <2>7. U(0, 4) = h /\ U(4, 4) = area /\ U(8, 4) = TPM_RS_PW
    BY <1>1, <1>2, <2>2, <2>3, <2>4, Uint32IsRead
  <2>8. U(12, 2) = 0 /\ U(15, 2) = n
    BY <1>2, <2>5, <2>6, Uint16IsRead
  <2> QED
    BY <2>7, <2>8
<1> QED
  BY <1>6, <1>7 DEF at

\* The authorisation area of tpm_pcr_extend has no password.
LEMMA ExtendLayout ==
    ASSUME NEW c \in ExtendCall
    PROVE  /\ ExtendFields(c) \in Seq(Field) /\ Total(ExtendFields(c)) = 23 + Len(c.digest)
           /\ Stored(0, ExtendFields(c)) =>
                /\ U(0, 4) = c.index /\ U(4, 4) = 9 /\ U(8, 4) = TPM_RS_PW
                /\ U(12, 2) = 0 /\ U(15, 2) = 0 /\ U(17, 4) = 1
                /\ U(21, 2) = c.algorithm /\ Slice(23, Len(c.digest)) = c.digest
<1> DEFINE A == <<F(c.index, 4), F(TPM_MIN_AUTH_SIZE, 4), F(TPM_RS_PW, 4), F(0, 2), F(0, 1),
                  F(0, 2), F(1, 4), F(c.algorithm, 2)>>
           B == Bytes(c.digest)
           at == Offset(A)
<1>1. /\ c.index \in Uint(4) /\ c.algorithm \in Uint(2) /\ c.digest \in Seq(Byte)
      /\ c.index \in Nat /\ c.algorithm \in Nat /\ TPM_RS_PW \in Nat
  BY UintIsNat, ConstantFields DEF ExtendCall
<1>2. TPM_MIN_AUTH_SIZE = 9 /\ TPM_MIN_AUTH_SIZE \in Nat
  BY DEF TPM_MIN_AUTH_SIZE
<1>3. /\ F(c.index, 4) \in Field /\ F(TPM_MIN_AUTH_SIZE, 4) \in Field
      /\ F(TPM_RS_PW, 4) \in Field
      /\ F(0, 2) \in Field /\ F(0, 1) \in Field /\ F(1, 4) \in Field
      /\ F(c.algorithm, 2) \in Field
  BY <1>1, <1>2, FFacts
<1>4. /\ A \in Seq(Field) /\ Len(A) = 8
      /\ A[1] = F(c.index, 4) /\ A[2] = F(9, 4) /\ A[3] = F(TPM_RS_PW, 4)
      /\ A[4] = F(0, 2) /\ A[5] = F(0, 1) /\ A[6] = F(0, 2)
      /\ A[7] = F(1, 4) /\ A[8] = F(c.algorithm, 2)
  BY <1>2, <1>3
<1>5. B \in Seq(Field) /\ Total(B) = Len(c.digest)
  BY <1>1, BytesFacts, BytesOffsets
<1>6. ExtendFields(c) = A \o B
  BY DEF ExtendFields
<1> HIDE DEF A, B
<1>7. 0 \in Uint(2) /\ 1 \in Uint(4)
  BY UintFacts
<1>8. /\ at[6] = 17
      /\ Stored(0, A) =>
           /\ U(0, 4) = c.index /\ U(4, 4) = 9 /\ U(8, 4) = TPM_RS_PW
           /\ U(12, 2) = 0 /\ U(15, 2) = 0
  <2>1. 9 = 9 + 0 /\ Len(A) >= 6
    BY <1>4
  <2> QED
    BY <1>1, <1>4, <1>7, <2>1, SessionLayout, Zenon
<1>9. at[7] = 21 /\ Total(A) = 23
  <2>1. at[7] = A[7].len + at[7 - 1] /\ at[8] = A[8].len + at[8 - 1] /\ Total(A) = at[8]
    <3>1. 7 \in 1 .. Len(A) /\ 8 \in 1 .. Len(A)
      BY <1>4
    <3>2. (\A k \in 1 .. Len(A) : at[k] = A[k].len + at[k - 1]) /\ Total(A) = at[Len(A)]
      BY <1>4, OffsetFacts DEF Total
    <3> QED
      BY <1>4, <3>1, <3>2, Zenon
  <2>2. A[7].len = 4 /\ A[8].len = 2
    BY <1>1, <1>4, FFacts
  <2> QED
    BY <1>8, <2>1, <2>2
<1>10. ASSUME Stored(0, A \o B)
       PROVE  /\ U(0, 4) = c.index /\ U(4, 4) = 9 /\ U(8, 4) = TPM_RS_PW
              /\ U(12, 2) = 0 /\ U(15, 2) = 0 /\ U(17, 4) = 1
              /\ U(21, 2) = c.algorithm /\ Slice(23, Len(c.digest)) = c.digest
  <2>1. Stored(0, A) /\ Stored(0 + Total(A), B)
    BY <1>4, <1>5, <1>10, StoredConcat
  <2>2. 7 \in 1 .. Len(A) /\ 8 \in 1 .. Len(A) /\ 7 - 1 = 6 /\ 8 - 1 = 7
    BY <1>4
  <2>3. StoredAt(0 + 17, F(1, 4))
    BY <1>4, <1>8, <2>1, <2>2, StoredField
  <2>4. StoredAt(0 + 21, F(c.algorithm, 2))
    BY <1>4, <1>9, <2>1, <2>2, StoredField
  <2>5. U(17, 4) = 1 /\ U(21, 2) = c.algorithm
    BY <1>1, <1>7, <2>3, <2>4, Uint32IsRead, Uint16IsRead
  <2>6. Stored(23, B)
    BY <1>9, <2>1
  <2>7. Slice(23, Len(c.digest)) = c.digest
    BY <1>1, <2>6, BytesAreRead DEF B
  <2> QED
    BY <1>8, <2>1, <2>5, <2>7
<1>11. A \o B \in Seq(Field) /\ Total(A \o B) = 23 + Len(c.digest)
  BY <1>4, <1>5, <1>9, ConcatFacts, TotalConcat, SMTT(40)
<1> QED
  BY <1>6, <1>10, <1>11

\* The bits of pcr_bitmask.
LEMMA BitValues ==
    ASSUME NEW r \in 0 .. 7
    PROVE  /\ 2 ^ r \in {1, 2, 4, 8, 16, 32, 64, 128}
           /\ 2 ^ (8 + r) = 256 * 2 ^ r /\ 2 ^ (16 + r) = 256 * 256 * 2 ^ r
<1>0. CASE r = 0
  <2>1. 2 ^ r = 1 /\ 2 ^ (8 + r) = 256 * 1 /\ 2 ^ (16 + r) = 256 * 256 * 1
    BY <1>0
  <2> QED
    BY <2>1
<1>1. CASE r = 1
  <2>1. 2 ^ r = 2 /\ 2 ^ (8 + r) = 256 * 2 /\ 2 ^ (16 + r) = 256 * 256 * 2
    BY <1>1
  <2> QED
    BY <2>1
<1>2. CASE r = 2
  <2>1. 2 ^ r = 4 /\ 2 ^ (8 + r) = 256 * 4 /\ 2 ^ (16 + r) = 256 * 256 * 4
    BY <1>2
  <2> QED
    BY <2>1
<1>3. CASE r = 3
  <2>1. 2 ^ r = 8 /\ 2 ^ (8 + r) = 256 * 8 /\ 2 ^ (16 + r) = 256 * 256 * 8
    BY <1>3
  <2> QED
    BY <2>1
<1>4. CASE r = 4
  <2>1. 2 ^ r = 16 /\ 2 ^ (8 + r) = 256 * 16 /\ 2 ^ (16 + r) = 256 * 256 * 16
    BY <1>4
  <2> QED
    BY <2>1
<1>5. CASE r = 5
  <2>1. 2 ^ r = 32 /\ 2 ^ (8 + r) = 256 * 32 /\ 2 ^ (16 + r) = 256 * 256 * 32
    BY <1>5
  <2> QED
    BY <2>1
<1>6. CASE r = 6
  <2>1. 2 ^ r = 64 /\ 2 ^ (8 + r) = 256 * 64 /\ 2 ^ (16 + r) = 256 * 256 * 64
    BY <1>6
  <2> QED
    BY <2>1
<1>7. CASE r = 7
  <2>1. 2 ^ r = 128 /\ 2 ^ (8 + r) = 256 * 128 /\ 2 ^ (16 + r) = 256 * 256 * 128
    BY <1>7
  <2> QED
    BY <2>1
<1> QED
  BY <1>0, <1>1, <1>2, <1>3, <1>4, <1>5, <1>6, <1>7

LEMMA BitTest ==
    ASSUME NEW r \in 0 .. 7, NEW b \in 0 .. 7
    PROVE  (2 ^ r \div 2 ^ b) % 2 = 1 <=> r = b
<1> DEFINE Table(n, v) == \/ (n = 0 /\ v = 1) \/ (n = 1 /\ v = 2) \/ (n = 2 /\ v = 4)
                          \/ (n = 3 /\ v = 8) \/ (n = 4 /\ v = 16) \/ (n = 5 /\ v = 32)
                          \/ (n = 6 /\ v = 64) \/ (n = 7 /\ v = 128)
<1>1. ASSUME NEW n \in 0 .. 7 PROVE Table(n, 2 ^ n)
  <2>0. CASE n = 0
    <3>1. 2 ^ n = 1
      BY <2>0
    <3> QED
      BY <2>0, <3>1, Zenon
  <2>1. CASE n = 1
    <3>1. 2 ^ n = 2
      BY <2>1
    <3> QED
      BY <2>1, <3>1, Zenon
  <2>2. CASE n = 2
    <3>1. 2 ^ n = 4
      BY <2>2
    <3> QED
      BY <2>2, <3>1, Zenon
  <2>3. CASE n = 3
    <3>1. 2 ^ n = 8
      BY <2>3
    <3> QED
      BY <2>3, <3>1, Zenon
  <2>4. CASE n = 4
    <3>1. 2 ^ n = 16
      BY <2>4
    <3> QED
      BY <2>4, <3>1, Zenon
  <2>5. CASE n = 5
    <3>1. 2 ^ n = 32
      BY <2>5
    <3> QED
      BY <2>5, <3>1, Zenon
  <2>6. CASE n = 6
    <3>1. 2 ^ n = 64
      BY <2>6
    <3> QED
      BY <2>6, <3>1, Zenon
  <2>7. CASE n = 7
    <3>1. 2 ^ n = 128
      BY <2>7
    <3> QED
      BY <2>7, <3>1, Zenon
  <2> QED
    BY <2>0, <2>1, <2>2, <2>3, <2>4, <2>5, <2>6, <2>7
<1>2. ASSUME NEW x, NEW y, Table(r, x), Table(b, y)
      PROVE  (x \div y) % 2 = 1 <=> r = b
  <2>0. CASE b = 0
    <3>1. y = 1
      BY <1>2, <2>0
    <3>2. (x \div 1) % 2 = 1 <=> r = 0
      BY <1>2
    <3> QED
      BY <2>0, <3>1, <3>2
  <2>1. CASE b = 1
    <3>1. y = 2
      BY <1>2, <2>1
    <3>2. (x \div 2) % 2 = 1 <=> r = 1
      BY <1>2
    <3> QED
      BY <2>1, <3>1, <3>2
  <2>2. CASE b = 2
    <3>1. y = 4
      BY <1>2, <2>2
    <3>2. (x \div 4) % 2 = 1 <=> r = 2
      BY <1>2
    <3> QED
      BY <2>2, <3>1, <3>2
  <2>3. CASE b = 3
    <3>1. y = 8
      BY <1>2, <2>3
    <3>2. (x \div 8) % 2 = 1 <=> r = 3
      BY <1>2
    <3> QED
      BY <2>3, <3>1, <3>2
  <2>4. CASE b = 4
    <3>1. y = 16
      BY <1>2, <2>4
    <3>2. (x \div 16) % 2 = 1 <=> r = 4
      BY <1>2
    <3> QED
      BY <2>4, <3>1, <3>2
  <2>5. CASE b = 5
    <3>1. y = 32
      BY <1>2, <2>5
    <3>2. (x \div 32) % 2 = 1 <=> r = 5
      BY <1>2
    <3> QED
      BY <2>5, <3>1, <3>2
  <2>6. CASE b = 6
    <3>1. y = 64
      BY <1>2, <2>6
    <3>2. (x \div 64) % 2 = 1 <=> r = 6
      BY <1>2
    <3> QED
      BY <2>6, <3>1, <3>2
  <2>7. CASE b = 7
    <3>1. y = 128
      BY <1>2, <2>7
    <3>2. (x \div 128) % 2 = 1 <=> r = 7
      BY <1>2
    <3> QED
      BY <2>7, <3>1, <3>2
  <2> QED
    BY <2>0, <2>1, <2>2, <2>3, <2>4, <2>5, <2>6, <2>7
<1> HIDE DEF Table
<1> QED
  BY <1>1, <1>2

LEMMA MaskBytes ==
    ASSUME NEW i \in 0 .. 23, NEW j \in 0 .. 2
    PROVE  (2 ^ i \div 256 ^ j) % 256 = IF i \div 8 = j THEN 2 ^ (i % 8) ELSE 0
<1> DEFINE r == i % 8
<1>1. r \in 0 .. 7 /\ (i = r \/ i = 8 + r \/ i = 16 + r)
  OBVIOUS
<1>2. PICK x \in Nat : x < 256 /\ x = 2 ^ r /\ 2 ^ (8 + r) = 256 * x /\ 2 ^ (16 + r) = 256 * 256 * x
  <2> HIDE DEF r
  <2>1. 2 ^ r \in {1, 2, 4, 8, 16, 32, 64, 128}
    BY <1>1, BitValues, ZenonT(60)
  <2>2. 2 ^ (8 + r) = 256 * 2 ^ r /\ 2 ^ (16 + r) = 256 * 256 * 2 ^ r
    BY <1>1, BitValues, ZenonT(60)
  <2>3. 2 ^ r \in Nat /\ 2 ^ r < 256
    BY <2>1
  <2> QED
    BY <2>2, <2>3, ZenonT(60)
<1>3. (j = 0 /\ 256 ^ j = 1) \/ (j = 1 /\ 256 ^ j = 256) \/ (j = 2 /\ 256 ^ j = 256 * 256)
  <2>1. j \in Nat /\ (j = 0 \/ j = 1 \/ j = 2)
    OBVIOUS
  <2>2. (j = 0 => 256 ^ j = 1) /\ (j = 1 => 256 ^ j = 256) /\ (j = 2 => 256 ^ j = 256 * 256)
    BY <2>1, Powers, ZenonT(60)
  <2> QED
    BY <2>1, <2>2, Zenon
<1>4. /\ x \div 1 = x /\ (256 * x) \div 1 = 256 * x /\ (256 * 256 * x) \div 1 = 256 * 256 * x
      /\ x % 256 = x /\ (256 * x) % 256 = 0 /\ (256 * 256 * x) % 256 = 0
      /\ (x \div 256) % 256 = 0 /\ ((256 * x) \div 256) % 256 = x
      /\ ((256 * 256 * x) \div 256) % 256 = 0
      /\ (x \div (256 * 256)) % 256 = 0 /\ ((256 * x) \div (256 * 256)) % 256 = 0
      /\ ((256 * 256 * x) \div (256 * 256)) % 256 = x
  BY <1>2
<1>5. CASE i = r
  <2>1. i \div 8 = 0 /\ 2 ^ i = x
    BY <1>1, <1>2, <1>5
  <2> HIDE DEF r
  <2>2. CASE j = 0
    BY <1>2, <1>3, <1>4, <2>1, <2>2 DEF r
  <2>3. CASE j = 1
    BY <1>3, <1>4, <2>1, <2>3
  <2>4. CASE j = 2
    BY <1>3, <1>4, <2>1, <2>4
  <2> QED
    BY <2>2, <2>3, <2>4
<1>6. CASE i = 8 + r
  <2>1. i \div 8 = 1 /\ 2 ^ i = 256 * x
    BY <1>1, <1>2, <1>6
  <2> HIDE DEF r
  <2>2. CASE j = 0
    BY <1>3, <1>4, <2>1, <2>2
  <2>3. CASE j = 1
    BY <1>2, <1>3, <1>4, <2>1, <2>3 DEF r
  <2>4. CASE j = 2
    BY <1>3, <1>4, <2>1, <2>4
  <2> QED
    BY <2>2, <2>3, <2>4
<1>7. CASE i = 16 + r
  <2>1. i \div 8 = 2 /\ 2 ^ i = 256 * 256 * x
    BY <1>1, <1>2, <1>7
  <2> HIDE DEF r
  <2>2. CASE j = 0
    BY <1>3, <1>4, <2>1, <2>2
  <2>3. CASE j = 1
    BY <1>3, <1>4, <2>1, <2>3
  <2>4. CASE j = 2
    BY <1>2, <1>3, <1>4, <2>1, <2>4 DEF r
  <2> QED
    BY <2>2, <2>3, <2>4
<1> QED
  BY <1>1, <1>5, <1>6, <1>7

\* A pcrSelect with the bytes of 2 ^ i selects PCR i and nothing else.
LEMMA OnlySelected ==
    ASSUME NEW i \in 0 .. 23, NEW a \in Nat,
           \A j \in 0 .. 2 : data[a + j] = IF i \div 8 = j THEN 2 ^ (i % 8) ELSE 0
    PROVE  Selected(a) = {i}
<1>1. ASSUME NEW p \in 0 .. 23
      PROVE  (data[a + p \div 8] \div 2 ^ (p % 8)) % 2 = 1 <=> p = i
  <2>1. /\ p \div 8 \in 0 .. 2 /\ p % 8 \in 0 .. 7 /\ i % 8 \in 0 .. 7
        /\ (p = i <=> p \div 8 = i \div 8 /\ p % 8 = i % 8)
    OBVIOUS
  <2>2. data[a + p \div 8] = IF i \div 8 = p \div 8 THEN 2 ^ (i % 8) ELSE 0
    BY <2>1
  <2>3. (2 ^ (i % 8) \div 2 ^ (p % 8)) % 2 = 1 <=> i % 8 = p % 8
    BY <2>1, BitTest
  <2>4. (0 \div 2 ^ (p % 8)) % 2 = 0
    <3>1. 2 ^ (p % 8) \in {1, 2, 4, 8, 16, 32, 64, 128}
      BY <2>1, BitValues, ZenonT(60)
    <3>2. ASSUME NEW y \in {1, 2, 4, 8, 16, 32, 64, 128} PROVE (0 \div y) % 2 = 0
      OBVIOUS
    <3> QED
      BY <3>1, <3>2
  <2>5. CASE i \div 8 = p \div 8
    BY <2>1, <2>2, <2>3, <2>5
  <2>6. CASE i \div 8 # p \div 8
    <3>1. data[a + p \div 8] = 0
      BY <2>2, <2>6, Zenon
    <3>2. (data[a + p \div 8] \div 2 ^ (p % 8)) % 2 = 0
      BY <2>4, <3>1, Zenon
    <3>3. 0 # 1 /\ p # i
      BY <2>6
    <3> QED
      BY <3>2, <3>3
  <2> QED
    BY <2>5, <2>6
<1>2. Selected(a) = {p \in 0 .. 23 : p = i}
  BY <1>1, Zenon DEF Selected
<1> QED
  BY <1>2, Zenon

LEMMA PcrReadLayout ==
    ASSUME NEW c \in PcrReadCall, c.index < 24
    PROVE  /\ PcrReadFields(c) \in Seq(Field) /\ Total(PcrReadFields(c)) = 10
           /\ Stored(0, PcrReadFields(c)) =>
                /\ U(0, 4) = 1 /\ U(4, 2) = c.algorithm /\ U(6, 1) = 3
                /\ Selected(7) = {c.index}
<1> DEFINE A == <<F(1, 4), F(c.algorithm, 2), F(TPM_PCR_SELECT_SIZE, 1)>>
           m == [j \in 1 .. 3 |-> (2 ^ c.index \div 256 ^ (j - 1)) % 256]
           B == Bytes(m)
           at == Offset(A)
<1>1. /\ c.algorithm \in Uint(2) /\ c.algorithm \in Nat /\ c.index \in 0 .. 23
      /\ TPM_PCR_SELECT_SIZE = 3
  BY UintIsNat, ConstantFields DEF PcrReadCall
<1>2. F(1, 4) \in Field /\ F(c.algorithm, 2) \in Field /\ F(3, 1) \in Field
  BY <1>1, FFacts
<1>3. /\ A \in Seq(Field) /\ Len(A) = 3
      /\ A[1] = F(1, 4) /\ A[2] = F(c.algorithm, 2) /\ A[3] = F(3, 1)
  BY <1>1, <1>2
<1>4. ASSUME NEW j \in 0 .. 2
      PROVE  /\ m[j + 1] = IF c.index \div 8 = j THEN 2 ^ (c.index % 8) ELSE 0
             /\ m[j + 1] \in Byte
  <2>1. m[j + 1] = (2 ^ c.index \div 256 ^ ((j + 1) - 1)) % 256 /\ (j + 1) - 1 = j
    <3>1. j + 1 \in 1 .. 3 /\ (j + 1) - 1 = j
      OBVIOUS
    <3> QED
      BY <3>1, Zenon
  <2>2. m[j + 1] = IF c.index \div 8 = j THEN 2 ^ (c.index % 8) ELSE 0
    <3> HIDE DEF m
    <3>1. m[j + 1] = (2 ^ c.index \div 256 ^ j) % 256
      BY <2>1, Zenon
    <3> QED
      BY <1>1, <3>1, MaskBytes, ZenonT(60)
  <2>3. 2 ^ (c.index % 8) \in Byte /\ 0 \in Byte
    <3>1. c.index % 8 \in 0 .. 7
      BY <1>1
    <3>2. 2 ^ (c.index % 8) \in {1, 2, 4, 8, 16, 32, 64, 128}
      BY <3>1, BitValues, ZenonT(60)
    <3> QED
      BY <3>2, ByteFacts
  <2> HIDE DEF m
  <2> QED
    BY <2>2, <2>3, Zenon
<1>5. m \in Seq(Byte) /\ Len(m) = 3
  <2>1. ASSUME NEW k \in 1 .. 3 PROVE m[k] \in Byte
    <3>1. k - 1 \in 0 .. 2 /\ (k - 1) + 1 = k
      OBVIOUS
    <3> HIDE DEF m
    <3> QED
      BY <1>4, <3>1
  <2>2. m \in [1 .. 3 -> Byte]
    BY <2>1, Zenon
  <2> QED
    BY <2>2, ByteArray, Zenon
<1>6. PcrReadFields(c) = A \o B
  <2>1. Len(m) = 3
    BY <1>5
  <2>2. B = [j \in 1 .. 3 |-> F(m[j], 1)]
    <3> HIDE DEF m
    <3> QED
      BY <2>1, Zenon DEF Bytes
  <2>3. B = [j \in 1 .. 3 |-> F((2 ^ c.index \div 256 ^ (j - 1)) % 256, 1)]
    BY <2>2, ZenonT(60)
  <2> HIDE DEF m, B
  <2> QED
    BY <1>1, <2>3, Zenon DEF PcrReadFields
<1> HIDE DEF m
<1>7. B \in Seq(Field) /\ Total(B) = 3
  BY <1>5, BytesFacts, BytesOffsets
<1> HIDE DEF A, B
<1>8. /\ at[0] = 0 /\ Total(A) = at[3]
      /\ \A k \in 1 .. 3 : at[k] = A[k].len + at[k - 1]
  BY <1>3, OffsetFacts DEF Total
<1>9. A[1].len = 4 /\ A[2].len = 2 /\ A[3].len = 1
  BY <1>1, <1>3, FFacts
<1>10. at[1] = 4 /\ at[2] = 6 /\ Total(A) = 7
  <2> HIDE DEF at
  <2> QED
    BY <1>8, <1>9
<1>11. ASSUME Stored(0, A \o B)
       PROVE  /\ U(0, 4) = 1 /\ U(4, 2) = c.algorithm /\ U(6, 1) = 3
              /\ Selected(7) = {c.index}
  <2>1. Stored(0, A) /\ Stored(0 + Total(A), B)
    BY <1>3, <1>7, <1>11, StoredConcat
  <2>2. /\ 1 \in 1 .. Len(A) /\ 2 \in 1 .. Len(A) /\ 3 \in 1 .. Len(A)
        /\ 1 - 1 = 0 /\ 2 - 1 = 1 /\ 3 - 1 = 2
    BY <1>3
  <2>3. StoredAt(0 + 0, F(1, 4))
    BY <1>3, <1>8, <2>1, <2>2, StoredField
  <2>4. StoredAt(0 + 4, F(c.algorithm, 2))
    BY <1>3, <1>10, <2>1, <2>2, StoredField
  <2>5. StoredAt(0 + 6, F(3, 1))
    BY <1>3, <1>10, <2>1, <2>2, StoredField
  <2>6. 1 \in Uint(4) /\ 3 \in Byte
    BY UintFacts, ByteFacts
  <2>7. U(0, 4) = 1 /\ U(4, 2) = c.algorithm /\ U(6, 1) = 3
    BY <1>1, <2>3, <2>4, <2>5, <2>6, Uint32IsRead, Uint16IsRead, Uint8IsRead
  <2>8. Stored(7, B)
    BY <1>10, <2>1
  <2>9. \A k \in 1 .. 3 : data[7 + k - 1] = m[k]
    BY <1>5, <2>8, BytesAreRead DEF B
  <2>10. ASSUME NEW j \in 0 .. 2 PROVE data[7 + j] = m[j + 1]
    <3>1. j + 1 \in 1 .. 3 /\ 7 + (j + 1) - 1 = 7 + j
      OBVIOUS
    <3> QED
      BY <2>9, <3>1
  <2>11. \A j \in 0 .. 2 : data[7 + j] = IF c.index \div 8 = j THEN 2 ^ (c.index % 8) ELSE 0
    BY <1>4, <2>10, Zenon
  <2>12. Selected(7) = {c.index}
    BY <1>1, <2>11, OnlySelected
  <2> QED
    BY <2>7, <2>12
<1>12. A \o B \in Seq(Field) /\ Total(A \o B) = 10
  BY <1>3, <1>7, <1>10, ConcatFacts, TotalConcat
<1> QED
  BY <1>6, <1>11, <1>12

\* The banks tpm_pcr_allocate counts are the ones before the first TPM_ALG_NULL.
LEMMA BanksCounted ==
    ASSUME NEW c \in Commands, c \in AllocateCall, ArgumentsOk(c)
    PROVE  /\ BankCount(c.banks) \in 1 .. 7 /\ BankCount(c.banks) < Len(c.banks)
           /\ \A i \in 1 .. BankCount(c.banks) : c.banks[i].hash_alg # TPM_ALG_NULL
           /\ c.banks[BankCount(c.banks) + 1].hash_alg = TPM_ALG_NULL
<1> DEFINE banks == c.banks
           Null(k) == banks[k].hash_alg = TPM_ALG_NULL
           P == {i \in 1 .. Len(banks) : i <= 8 /\ \A j \in 1 .. i : ~Null(j)}
           Out == {k \in Nat : k + 1 \notin P}
<1>1. /\ c.api = "allocate" /\ banks \in Seq(BankType) /\ Len(banks) \in Nat
  BY DEF AllocateCall
<1>2. BankCount(banks) = Cardinality(P)
  BY DEF BankCount, TPM_MAX_PCR_SELECTIONS
<1>3. Cardinality(P) \in 1 .. 7
  BY <1>1, <1>2 DEF ArgumentsOk, TPM_MAX_PCR_SELECTIONS
<1>4. (\E k \in 1 .. Len(banks) : Null(k)) \/ Len(banks) >= 8
  BY <1>1, CommandsAssumption DEF TPM_MAX_PCR_SELECTIONS
<1> HIDE DEF banks, Null
<1>5. PICK n \in Out : \A k \in Out : n <= k
  <2>1. 8 \in Out
    OBVIOUS
  <2>2. Out \in SUBSET Nat /\ Out # {}
    BY <2>1
  <2> HIDE DEF Out
  <2> QED
    BY <2>2, LeastElement
<1>6. n \in Nat /\ n + 1 \notin P
  BY <1>5
<1>7. P = 1 .. n
  <2>1. ASSUME NEW i \in 1 .. n PROVE i \in P
    <3>1. i - 1 \in Nat /\ (i - 1) + 1 = i /\ ~(n <= i - 1)
      BY <1>6
    <3>2. i - 1 \notin Out
      BY <1>5, <3>1, Zenon
    <3>3. (i - 1) + 1 \in P
      BY <3>1, <3>2, Zenon
    <3> HIDE DEF P
    <3> QED
      BY <3>1, <3>3
  <2>2. ASSUME NEW i \in P PROVE i \in 1 .. n
    <3>1. i \in 1 .. Len(banks) /\ i <= 8 /\ \A j \in 1 .. i : ~Null(j)
      OBVIOUS
    <3>2. CASE n + 1 <= i
      <4>1. n + 1 \in 1 .. Len(banks) /\ n + 1 <= 8 /\ \A j \in 1 .. n + 1 : j \in 1 .. i
        BY <1>1, <1>6, <3>1, <3>2
      <4> QED
        BY <1>6, <3>1, <4>1
    <3> QED
      BY <1>6, <3>1, <3>2
  <2>3. \A i \in P : i \in 1 .. n
    BY <2>2
  <2>4. \A i \in 1 .. n : i \in P
    BY <2>1
  <2> HIDE DEF P
  <2> QED
    BY <2>3, <2>4
<1>8. Cardinality(P) = n
  <2>1. Cardinality(1 .. n) = IF 1 > n THEN 0 ELSE n - 1 + 1
    BY <1>6, FS_Interval
  <2> HIDE DEF P
  <2> QED
    BY <1>6, <1>7, <2>1
<1>9. n \in 1 .. 7
  <2> HIDE DEF P
  <2> QED
    BY <1>3, <1>8
<1>10. ASSUME NEW i \in 1 .. n PROVE ~Null(i) /\ i \in 1 .. Len(banks)
  <2>1. i \in P
    BY <1>7, Zenon
  <2>2. i \in 1 .. Len(banks) /\ \A j \in 1 .. i : ~Null(j)
    BY <2>1
  <2>3. i \in 1 .. i
    BY <1>6
  <2> QED
    BY <2>2, <2>3, Zenon
<1>11. n < Len(banks)
  <2>1. n \in 1 .. Len(banks)
    BY <1>9, <1>10
  <2>2. CASE n = Len(banks)
    <3>1. \E k \in 1 .. n : Null(k)
      BY <1>4, <1>9, <2>2
    <3> QED
      BY <1>10, <3>1, Zenon
  <2> QED
    BY <1>1, <2>1, <2>2
<1>12. Null(n + 1)
  <2>1. n + 1 \in 1 .. Len(banks) /\ n + 1 <= 8
    BY <1>1, <1>9, <1>11
  <2>2. PICK j \in 1 .. n + 1 : Null(j)
    BY <1>6, <2>1
  <2>3. j \in 1 .. n \/ j = n + 1
    BY <1>6
  <2> QED
    BY <1>10, <2>2, <2>3, Zenon
<1>13. BankCount(banks) = n
  BY <1>2, <1>8, Zenon
<1> HIDE DEF P
<1>14. \A i \in 1 .. n : ~Null(i)
  BY <1>10
<1> QED
  BY <1>9, <1>11, <1>12, <1>13, <1>14, Zenon DEF banks, Null

\* One bank: the hash, the size of the selection and its bytes.
LEMMA BankLayout ==
    ASSUME NEW b \in BankType
    PROVE  /\ BankFields(b) \in Seq(Field) /\ Len(BankFields(b)) = 5
           /\ Total(BankFields(b)) = 6
           /\ \A a \in Nat : Stored(a, BankFields(b)) =>
                U(a, 2) = b.hash_alg /\ U(a + 2, 1) = 3 /\ Slice(a + 3, 3) = b.pcr_select
<1> DEFINE A == <<F(b.hash_alg, 2), F(TPM_PCR_SELECT_SIZE, 1)>>
           B == Bytes(b.pcr_select)
           at == Offset(A)
<1>1. /\ b.hash_alg \in Uint(2) /\ b.hash_alg \in Nat /\ TPM_PCR_SELECT_SIZE = 3
      /\ b.pcr_select \in [1 .. 3 -> Byte]
  BY UintIsNat, ConstantFields DEF BankType
<1>2. b.pcr_select \in Seq(Byte) /\ Len(b.pcr_select) = 3
  BY <1>1, ByteArray, Zenon
<1>3. F(b.hash_alg, 2) \in Field /\ F(3, 1) \in Field
  BY <1>1, FFacts
<1>4. A \in Seq(Field) /\ Len(A) = 2 /\ A[1] = F(b.hash_alg, 2) /\ A[2] = F(3, 1)
  BY <1>1, <1>3
<1>5. BankFields(b) = A \o B
  BY DEF BankFields
<1>6. B \in Seq(Field) /\ Len(B) = 3 /\ Total(B) = 3
  BY <1>2, BytesFacts, BytesOffsets
<1> HIDE DEF A, B
<1>7. at[0] = 0 /\ Total(A) = at[2] /\ \A k \in 1 .. 2 : at[k] = A[k].len + at[k - 1]
  BY <1>4, OffsetFacts DEF Total
<1>8. A[1].len = 2 /\ A[2].len = 1
  BY <1>1, <1>4, FFacts
<1>9. at[1] = 2 /\ Total(A) = 3
  <2> HIDE DEF at
  <2> QED
    BY <1>7, <1>8
<1>10. ASSUME NEW a \in Nat, Stored(a, A \o B)
       PROVE  U(a, 2) = b.hash_alg /\ U(a + 2, 1) = 3 /\ Slice(a + 3, 3) = b.pcr_select
  <2>1. Stored(a, A) /\ Stored(a + Total(A), B)
    BY <1>4, <1>6, <1>10, StoredConcat
  <2>2. 1 \in 1 .. Len(A) /\ 2 \in 1 .. Len(A) /\ 1 - 1 = 0 /\ 2 - 1 = 1 /\ a + 0 = a
    BY <1>4
  <2>3. StoredAt(a + 0, F(b.hash_alg, 2))
    BY <1>4, <1>7, <2>1, <2>2, StoredField
  <2>4. StoredAt(a + 2, F(3, 1))
    BY <1>4, <1>9, <2>1, <2>2, StoredField
  <2>5. 3 \in Byte /\ a + 2 \in Nat /\ a + 3 \in Nat
    BY ByteFacts
  <2>6. U(a, 2) = b.hash_alg /\ U(a + 2, 1) = 3
    BY <1>1, <2>2, <2>3, <2>4, <2>5, Uint16IsRead, Uint8IsRead
  <2>7. Stored(a + 3, Bytes(b.pcr_select))
    BY <1>9, <2>1, Zenon DEF B
  <2>8. Slice(a + 3, Len(b.pcr_select)) = b.pcr_select
    BY <1>2, <2>5, <2>7, BytesAreRead
  <2> QED
    BY <1>2, <2>6, <2>8, Zenon
<1>11. A \o B \in Seq(Field) /\ Len(A \o B) = 5 /\ Total(A \o B) = 6
  <2>1. A \o B \in Seq(Field) /\ Len(A \o B) = Len(A) + Len(B)
    BY <1>4, <1>6, ConcatFacts
  <2>2. Total(A \o B) = Total(A) + Total(B)
    BY <1>4, <1>6, TotalConcat
  <2> QED
    BY <1>4, <1>6, <1>9, <2>1, <2>2
<1> QED
  BY <1>5, <1>10, <1>11, Zenon

LEMMA BanksGrow ==
    ASSUME NEW banks \in Seq(BankType), NEW n \in Nat, n + 1 <= Len(banks),
           BanksFields(banks, n) \in Seq(Field), Len(BanksFields(banks, n)) = 5 * n
    PROVE  BanksFields(banks, n + 1) = BanksFields(banks, n) \o BankFields(banks[n + 1])
<1> DEFINE s == BanksFields(banks, n)
           t == BankFields(banks[n + 1])
           u == BanksFields(banks, n + 1)
           At(k) == BankFields(banks[(k - 1) \div 5 + 1])[((k - 1) % 5) + 1]
<1>1. FieldsPerBank = 5
  BY DEF FieldsPerBank, TPM_PCR_SELECT_SIZE
<1>2. /\ s = [k \in 1 .. 5 * n |-> At(k)] /\ u = [k \in 1 .. 5 * (n + 1) |-> At(k)]
  BY <1>1, Zenon DEF BanksFields
<1>3. t \in Seq(Field) /\ Len(t) = 5
  <2>1. n + 1 \in 1 .. Len(banks)
    OBVIOUS
  <2>2. banks[n + 1] \in BankType
    BY <2>1
  <2> QED
    BY <2>2, BankLayout
<1>4. s \in Seq(Field) /\ Len(s) = 5 * n
  OBVIOUS
<1> HIDE DEF At
<1>5. /\ s \o t \in Seq(Field) /\ Len(s \o t) = Len(s) + Len(t)
      /\ \A i \in 1 .. Len(s) : (s \o t)[i] = s[i]
      /\ \A i \in 1 .. Len(t) : (s \o t)[Len(s) + i] = t[i]
  <2> HIDE DEF s, t
  <2> QED
    BY <1>3, <1>4, ConcatFacts
<1> HIDE DEF s, u
<1>6. Len(s \o t) = 5 * (n + 1)
  <2> HIDE DEF t
  <2> QED
    BY <1>3, <1>4, <1>5
<1>7. ASSUME NEW k \in 1 .. 5 * n PROVE (s \o t)[k] = At(k)
  BY <1>2, <1>4, <1>5, Zenon
<1>8. ASSUME NEW i \in 1 .. 5 PROVE (s \o t)[5 * n + i] = At(5 * n + i)
  <2>1. ((5 * n + i) - 1) \div 5 + 1 = n + 1 /\ (((5 * n + i) - 1) % 5) + 1 = i
    OBVIOUS
  <2>2. At(5 * n + i) = t[i]
    BY <2>1, Zenon DEF At
  <2> HIDE DEF t
  <2> QED
    BY <1>3, <1>4, <1>5, <2>2, Zenon
<1>9. ASSUME NEW k \in 1 .. 5 * (n + 1) PROVE (s \o t)[k] = At(k)
  <2>1. k \in 1 .. 5 * n \/ (k - 5 * n \in 1 .. 5 /\ 5 * n + (k - 5 * n) = k)
    OBVIOUS
  <2>2. CASE k \in 1 .. 5 * n
    BY <1>7, <2>2, Zenon
  <2>3. CASE k - 5 * n \in 1 .. 5 /\ 5 * n + (k - 5 * n) = k
    <3>1. (s \o t)[5 * n + (k - 5 * n)] = At(5 * n + (k - 5 * n))
      BY <1>8, <2>3, Zenon
    <3> QED
      BY <2>3, <3>1, Zenon
  <2> QED
    BY <2>1, <2>2, <2>3
<1>10. s \o t = [k \in 1 .. 5 * (n + 1) |-> (s \o t)[k]]
  <2> HIDE DEF t
  <2>1. ASSUME NEW w \in Seq(Field), Len(w) = 5 * (n + 1)
        PROVE  w = [k \in 1 .. 5 * (n + 1) |-> w[k]]
    BY <2>1
  <2> QED
    BY <1>5, <1>6, <2>1, Zenon
<1>11. s \o t = u
  BY <1>2, <1>9, <1>10, Zenon
<1> QED
  BY <1>11 DEF s, u

\* The banks follow each other, six bytes each.
LEMMA BanksLayout ==
    ASSUME NEW banks \in Seq(BankType), NEW n \in Nat, n <= Len(banks)
    PROVE  /\ BanksFields(banks, n) \in Seq(Field)
           /\ Total(BanksFields(banks, n)) = 6 * n
           /\ \A a \in Nat : Stored(a, BanksFields(banks, n)) =>
                \A i \in 1 .. n : Stored(a + 6 * (i - 1), BankFields(banks[i]))
<1> DEFINE B(d) == BanksFields(banks, d)
           Good(d) == B(d) \in Seq(Field) /\ Len(B(d)) = 5 * d /\ Total(B(d)) = 6 * d
           S == {d \in Nat : d <= Len(banks) => Good(d)}
           Parts(d) == \A a \in Nat : Stored(a, B(d)) =>
                         \A i \in 1 .. d : Stored(a + 6 * (i - 1), BankFields(banks[i]))
           T == {d \in Nat : d <= Len(banks) => Parts(d)}
<1>0. FieldsPerBank = 5 /\ Len(banks) \in Nat
  BY DEF FieldsPerBank, TPM_PCR_SELECT_SIZE
<1>1. Good(0)
  <2>1. B(0) = << >>
    <3>1. 1 .. 5 * 0 = {}
      OBVIOUS
    <3> QED
      BY <1>0, <3>1 DEF BanksFields
  <2>2. << >> \in Seq(Field) /\ Len(<< >>) = 0 /\ 5 * 0 = 0 /\ 6 * 0 = 0
    OBVIOUS
  <2>3. Total(<< >>) = 0
    BY <2>2, OffsetFacts DEF Total
  <2> HIDE DEF B
  <2> QED
    BY <2>1, <2>2, <2>3
<1> DEFINE b(d) == BankFields(banks[d + 1])
<1>2. ASSUME NEW d \in Nat, d + 1 <= Len(banks), Good(d)
      PROVE  /\ B(d + 1) = B(d) \o b(d)
             /\ b(d) \in Seq(Field) /\ Len(b(d)) = 5 /\ Total(b(d)) = 6
  <2>1. d + 1 \in 1 .. Len(banks)
    BY <1>0, <1>2
  <2>2. banks[d + 1] \in BankType
    BY <2>1
  <2>3. B(d + 1) = B(d) \o b(d)
    BY <1>2, BanksGrow
  <2> QED
    BY <2>2, <2>3, BankLayout
<1> HIDE DEF B, b
<1>3. ASSUME NEW d \in Nat, d + 1 <= Len(banks), Good(d) PROVE Good(d + 1)
  <2>1. /\ B(d + 1) = B(d) \o b(d)
        /\ b(d) \in Seq(Field) /\ Len(b(d)) = 5 /\ Total(b(d)) = 6
    BY <1>2, <1>3
  <2>2. B(d) \o b(d) \in Seq(Field) /\ Len(B(d) \o b(d)) = Len(B(d)) + Len(b(d))
    BY <1>3, <2>1, ConcatFacts
  <2>3. Total(B(d) \o b(d)) = Total(B(d)) + Total(b(d))
    BY <1>3, <2>1, TotalConcat
  <2>4. 5 * d + 5 = 5 * (d + 1) /\ 6 * d + 6 = 6 * (d + 1)
    OBVIOUS
  <2> QED
    BY <1>3, <2>1, <2>2, <2>3, <2>4, Zenon
<1>4. S = Nat
  <2> HIDE DEF Good
  <2>1. 0 \in S
    BY <1>1
  <2>2. ASSUME NEW d \in S PROVE d + 1 \in S
    BY <1>0, <1>3
  <2>3. S \in SUBSET Nat
    OBVIOUS
  <2> HIDE DEF S
  <2> QED
    BY <2>1, <2>2, <2>3, SetInduction
<1>5. ASSUME NEW d \in Nat, d <= Len(banks) PROVE Good(d)
  <2> HIDE DEF Good
  <2>1. d \in S
    BY <1>4, Zenon
  <2> QED
    BY <1>5, <2>1
<1>6. Parts(0)
  OBVIOUS
<1>7. ASSUME NEW d \in Nat, d + 1 <= Len(banks), Parts(d) PROVE Parts(d + 1)
  <2>1. Good(d)
    <3>1. d <= Len(banks)
      BY <1>0, <1>7
    <3> HIDE DEF Good
    <3> QED
      BY <1>5, <3>1
  <2>2. /\ B(d + 1) = B(d) \o b(d)
        /\ b(d) \in Seq(Field) /\ Len(b(d)) = 5 /\ Total(b(d)) = 6
    BY <1>2, <1>7, <2>1
  <2> SUFFICES ASSUME NEW a \in Nat, Stored(a, B(d + 1)), NEW i \in 1 .. d + 1
               PROVE  Stored(a + 6 * (i - 1), BankFields(banks[i]))
    OBVIOUS
  <2>3. Stored(a, B(d)) /\ Stored(a + Total(B(d)), b(d))
    <3>1. Stored(a, B(d) \o b(d))
      BY <2>2, Zenon
    <3> QED
      BY <2>1, <2>2, <3>1, StoredConcat
  <2>4. i \in 1 .. d \/ (i = d + 1 /\ 6 * (i - 1) = 6 * d)
    OBVIOUS
  <2>5. CASE i \in 1 .. d
    BY <1>7, <2>3, <2>5, Zenon
  <2>6. CASE i = d + 1 /\ 6 * (i - 1) = 6 * d
    BY <2>1, <2>3, <2>6, Zenon DEF b
  <2> QED
    BY <2>4, <2>5, <2>6
<1>8. T = Nat
  <2> HIDE DEF Parts
  <2>1. 0 \in T
    BY <1>6
  <2>2. ASSUME NEW d \in T PROVE d + 1 \in T
    BY <1>0, <1>7
  <2>3. T \in SUBSET Nat
    OBVIOUS
  <2> HIDE DEF T
  <2> QED
    BY <2>1, <2>2, <2>3, SetInduction
<1>9. Parts(n)
  <2> HIDE DEF Parts
  <2>1. n \in T
    BY <1>8, Zenon
  <2> QED
    BY <2>1
<1> QED
  BY <1>5, <1>9 DEF B

LEMMA AllocateLayout ==
    ASSUME NEW c \in Commands, c \in AllocateCall, ArgumentsOk(c)
    PROVE  LET count == BankCount(c.banks)
               n == Len(c.password)
           IN  /\ AllocateFields(c) \in Seq(Field)
               /\ Total(AllocateFields(c)) = 21 + n + 6 * count
               /\ Stored(0, AllocateFields(c)) =>
                    /\ U(0, 4) = TPM_RH_PLATFORM /\ U(4, 4) = 9 + n /\ U(8, 4) = TPM_RS_PW
                    /\ U(12, 2) = 0 /\ U(15, 2) = n /\ Slice(17, n) = c.password
                    /\ U(17 + n, 4) = count
                    /\ \A i \in 1 .. count :
                         Stored((21 + n) + 6 * (i - 1), BankFields(c.banks[i]))
<1> DEFINE count == BankCount(c.banks)
           n == Len(c.password)
           area == TPM_MIN_AUTH_SIZE + n
           A == <<F(TPM_RH_PLATFORM, 4), F(area, 4), F(TPM_RS_PW, 4), F(0, 2), F(0, 1), F(n, 2)>>
           P == Bytes(c.password)
           C == <<F(count, 4)>>
           B == BanksFields(c.banks, count)
           at == Offset(A)
<1>1. /\ c.password \in Seq(Byte) /\ n \in Uint(2) /\ n \in Nat /\ c.banks \in Seq(BankType)
  BY UintIsNat DEF AllocateCall
<1>2. count \in 1 .. 7 /\ count < Len(c.banks)
  BY BanksCounted
<1>3. AllocateFields(c) = ((A \o P) \o C) \o B
  BY DEF AllocateFields
<1>4. P \in Seq(Field) /\ Total(P) = n
  BY <1>1, BytesFacts, BytesOffsets
<1>5. count \in Nat /\ count <= Len(c.banks)
  BY <1>1, <1>2
<1>6. /\ B \in Seq(Field) /\ Total(B) = 6 * count
      /\ \A a \in Nat : Stored(a, B) =>
           \A i \in 1 .. count : Stored(a + 6 * (i - 1), BankFields(c.banks[i]))
  BY <1>1, <1>5, BanksLayout
<1> HIDE DEF B, P, count, n
<1>7. count \in Uint(4)
  <2>1. count \in Nat /\ count \div (256 * 256 * 256) < 256
    BY <1>2
  <2> QED
    BY <2>1, UintFacts, Zenon
<1>8. area = 9 + n /\ area \in Nat
  BY <1>1 DEF TPM_MIN_AUTH_SIZE
<1> HIDE DEF area
<1>9. /\ TPM_RH_PLATFORM \in Uint(4) /\ TPM_RH_PLATFORM \in Nat /\ TPM_RS_PW \in Nat
  BY UintIsNat, ConstantFields
<1>10. /\ F(TPM_RH_PLATFORM, 4) \in Field /\ F(area, 4) \in Field /\ F(TPM_RS_PW, 4) \in Field
       /\ F(0, 2) \in Field /\ F(0, 1) \in Field /\ F(n, 2) \in Field
  BY <1>1, <1>8, <1>9, FFacts
<1>11. /\ A \in Seq(Field) /\ Len(A) = 6
       /\ A[1] = F(TPM_RH_PLATFORM, 4) /\ A[2] = F(area, 4) /\ A[3] = F(TPM_RS_PW, 4)
       /\ A[4] = F(0, 2) /\ A[5] = F(0, 1) /\ A[6] = F(n, 2)
  BY <1>10
<1>12. F(count, 4) \in Field /\ F(count, 4).len = 4
  BY <1>5, FFacts
<1>13. C \in Seq(Field) /\ Len(C) = 1 /\ C[1] = F(count, 4)
  BY <1>12
<1> HIDE DEF A, C
<1>14. Offset(C)[0] = 0 /\ Total(C) = 4
  <2>1. 1 \in 1 .. Len(C)
    BY <1>13
  <2>2. /\ Offset(C)[0] = 0 /\ Total(C) = Offset(C)[Len(C)]
        /\ \A k \in 1 .. Len(C) : Offset(C)[k] = C[k].len + Offset(C)[k - 1]
    BY <1>13, OffsetFacts DEF Total
  <2>3. Offset(C)[1] = C[1].len + Offset(C)[1 - 1]
    BY <2>1, <2>2, Zenon
  <2> QED
    BY <1>12, <1>13, <2>2, <2>3
<1>15. /\ at[6] = 17
       /\ Stored(0, A) =>
            /\ U(0, 4) = TPM_RH_PLATFORM /\ U(4, 4) = area /\ U(8, 4) = TPM_RS_PW
            /\ U(12, 2) = 0 /\ U(15, 2) = n
  <2>1. Len(A) >= 6
    BY <1>11
  <2> QED
    BY <1>1, <1>8, <1>9, <1>11, <2>1, SessionLayout, Zenon
<1>16. Total(A) = 17
  BY <1>11, <1>15 DEF Total
<1>17. A \o P \in Seq(Field) /\ Total(A \o P) = 17 + n
  <2>1. A \o P \in Seq(Field)
    BY <1>4, <1>11, ConcatFacts
  <2> QED
    BY <1>4, <1>11, <1>16, <2>1, TotalConcat
<1>18. (A \o P) \o C \in Seq(Field) /\ Total((A \o P) \o C) = 21 + n
  <2>1. (A \o P) \o C \in Seq(Field)
    BY <1>13, <1>17, ConcatFacts
  <2>2. Total((A \o P) \o C) = Total(A \o P) + Total(C)
    BY <1>13, <1>17, TotalConcat
  <2> QED
    BY <1>1, <1>14, <1>17, <2>1, <2>2
<1>19. AllocateFields(c) \in Seq(Field) /\ Total(AllocateFields(c)) = 21 + n + 6 * count
  <2>1. AllocateFields(c) \in Seq(Field)
    BY <1>3, <1>6, <1>18, ConcatFacts
  <2>2. Total(AllocateFields(c)) = Total((A \o P) \o C) + Total(B)
    BY <1>3, <1>6, <1>18, TotalConcat
  <2> QED
    BY <1>6, <1>18, <2>1, <2>2
<1>20. ASSUME Stored(0, AllocateFields(c))
       PROVE  /\ U(0, 4) = TPM_RH_PLATFORM /\ U(4, 4) = 9 + n /\ U(8, 4) = TPM_RS_PW
              /\ U(12, 2) = 0 /\ U(15, 2) = n /\ Slice(17, n) = c.password
              /\ U(17 + n, 4) = count
              /\ \A i \in 1 .. count :
                   Stored((21 + n) + 6 * (i - 1), BankFields(c.banks[i]))
  <2>0. 0 + 17 = 17 /\ 0 + (17 + n) = 17 + n /\ 0 + (21 + n) = 21 + n /\ 17 + n \in Nat
        /\ 21 + n \in Nat /\ (17 + n) + 0 = 17 + n
    BY <1>1
  <2>1. Stored(0, (A \o P) \o C) /\ Stored(21 + n, B)
    <3>1. Stored(0, (A \o P) \o C) /\ Stored(0 + Total((A \o P) \o C), B)
      <4>1. Stored(0, ((A \o P) \o C) \o B)
        BY <1>3, <1>20, Zenon
      <4> QED
        BY <1>6, <1>18, <4>1, StoredConcat
    <3> QED
      BY <1>18, <2>0, <3>1, Zenon
  <2>2. Stored(0, A \o P) /\ Stored(17 + n, C)
    <3>1. Stored(0, A \o P) /\ Stored(0 + Total(A \o P), C)
      BY <1>13, <1>17, <2>1, StoredConcat
    <3> QED
      BY <1>17, <2>0, <3>1, Zenon
  <2>3. Stored(0, A) /\ Stored(17, P)
    <3>1. Stored(0, A) /\ Stored(0 + Total(A), P)
      BY <1>4, <1>11, <2>2, StoredConcat
    <3> QED
      BY <1>16, <2>0, <3>1, Zenon
  <2>4. Slice(17, n) = c.password
    <3>1. Stored(17, Bytes(c.password))
      BY <2>3 DEF P
    <3> QED
      BY <1>1, <3>1, BytesAreRead DEF n
  <2>5. U(17 + n, 4) = count
    <3>1. 1 \in 1 .. Len(C) /\ 1 - 1 = 0
      BY <1>13
    <3>2. StoredAt((17 + n) + 0, F(count, 4))
      BY <1>13, <1>14, <2>0, <2>2, <3>1, StoredField
    <3>3. StoredAt(17 + n, F(count, 4))
      BY <2>0, <3>2, Zenon
    <3> QED
      BY <1>7, <2>0, <3>3, Uint32IsRead, Zenon
  <2>6. \A i \in 1 .. count : Stored((21 + n) + 6 * (i - 1), BankFields(c.banks[i]))
    BY <1>6, <2>0, <2>1, Zenon
  <2>7. /\ U(0, 4) = TPM_RH_PLATFORM /\ U(4, 4) = 9 + n /\ U(8, 4) = TPM_RS_PW
        /\ U(12, 2) = 0 /\ U(15, 2) = n
    BY <1>8, <1>15, <2>3, Zenon
  <2> QED
    BY <2>4, <2>5, <2>6, <2>7, Zenon
<1> QED
  BY <1>19, <1>20, Zenon DEF count, n

LEMMA FieldsOf ==
    ASSUME NEW c \in Commands, ArgumentsOk(c)
    PROVE  /\ Fields(c) \in Seq(Field) /\ Total(Fields(c)) = Needed(c)
           /\ c.api = "startup" => c \in StartupCall /\ Fields(c) = StartupFields(c)
           /\ c.api = "getcap" => c \in GetcapCall /\ Fields(c) = GetcapFields(c)
           /\ c.api = "extend" => c \in ExtendCall /\ Fields(c) = ExtendFields(c)
           /\ c.api = "pcr_read" =>
                c \in PcrReadCall /\ c.index < 24 /\ Fields(c) = PcrReadFields(c)
           /\ c.api = "allocate" => c \in AllocateCall /\ Fields(c) = AllocateFields(c)
<1>1. c.api \in {"startup", "getcap", "extend", "pcr_read", "allocate"}
  BY CallKinds
<1>2. CASE c.api = "startup"
  <2>1. c \in StartupCall /\ Fields(c) = StartupFields(c) /\ Needed(c) = 2
    BY <1>2, CallKinds DEF Fields, Needed
  <2> QED
    BY <1>2, <2>1, StartupLayout
<1>3. CASE c.api = "getcap"
  <2>1. c \in GetcapCall /\ Fields(c) = GetcapFields(c) /\ Needed(c) = 12
    BY <1>3, CallKinds DEF Fields, Needed
  <2> QED
    BY <1>3, <2>1, GetcapLayout
<1>4. CASE c.api = "extend"
  <2>1. c \in ExtendCall /\ Fields(c) = ExtendFields(c) /\ Needed(c) = 23 + Len(c.digest)
    BY <1>4, CallKinds DEF Fields, Needed
  <2> QED
    BY <1>4, <2>1, ExtendLayout
<1>5. CASE c.api = "pcr_read"
  <2>1. c \in PcrReadCall /\ Fields(c) = PcrReadFields(c) /\ Needed(c) = 10
    BY <1>5, CallKinds DEF Fields, Needed
  <2>2. c.index < 24
    BY <1>5 DEF ArgumentsOk, TPM_PCR_SELECT_SIZE
  <2> QED
    BY <1>5, <2>1, <2>2, PcrReadLayout
<1>6. CASE c.api = "allocate"
  <2>1. /\ c \in AllocateCall /\ Fields(c) = AllocateFields(c)
        /\ Needed(c) = 21 + Len(c.password) + 6 * BankCount(c.banks)
    BY <1>6, CallKinds DEF Fields, Needed
  <2> QED
    BY <1>6, <2>1, AllocateLayout
<1> QED
  BY <1>1, <1>2, <1>3, <1>4, <1>5, <1>6

LEMMA FieldsType ==
    ASSUME NEW c \in Commands, ArgumentsOk(c)
    PROVE  Fields(c) \in Seq(Field)
BY FieldsOf

-----------------------------------------------------------------------------
(* The start.                                                              *)

LEMMA InitInv == Init => IInv
<1> SUFFICES ASSUME Init PROVE IInv
  OBVIOUS
<1>1. BufferInv
  BY BuilderAssumption DEF Init, BufferInv, InBounds, MAX_CMD_DATA
<1>2. data \in [0 .. MAX_CMD_DATA - 1 -> Byte]
  <2>1. 0 \in Byte
    BY ByteFacts
  <2> QED
    BY <2>1, Zenon DEF Init
<1>3. TypeOK
  BY <1>2, BuilderAssumption DEF Init, TypeOK
<1> QED
  BY <1>1, <1>3 DEF Init, IInv, ProgressInv, ReturnInv

\* The store loop of tpm_update_buffer writes inside data[] whenever the
\* overflow check lets it run.
LEMMA StoreInside ==
    ASSUME BufferInv, NEW f, Fits(f)
    PROVE  LET start == size - TPM_HEADER_SIZE
           IN  start .. start + f.len - 1 \subseteq DOMAIN data
BY BuilderAssumption DEF BufferInv, InBounds, Fits, MAX_CMD_DATA

LEMMA StoreBuffer ==
    ASSUME BufferInv, NEW f, Fits(f), Store(f)
    PROVE  BufferInv'
<1>1. InBounds'
  BY BuilderAssumption DEF BufferInv, InBounds, Fits, Store
<1>2. (DOMAIN data)' = 0 .. MAX_CMD_DATA - 1
  BY DEF BufferInv, Store
<1>3. ASSUME NEW i \in 0 .. MAX_CMD_DATA - 1, i >= size' - TPM_HEADER_SIZE
      PROVE  data'[i] = 0
  <2>0. /\ size \in Nat /\ TPM_HEADER_SIZE \in Nat /\ f.len \in {1, 2, 4}
        /\ i \in Int /\ size' = size + f.len
    BY BuilderAssumption DEF BufferInv, InBounds, Fits, Store, MAX_CMD_DATA
  <2>1. i \notin (size - TPM_HEADER_SIZE) .. (size - TPM_HEADER_SIZE) + f.len - 1
    BY <1>3, <2>0
  <2>2. i >= size - TPM_HEADER_SIZE
    BY <1>3, <2>0
  <2> QED
    BY <2>1, <2>2 DEF BufferInv, Store
<1> QED
  BY <1>1, <1>2, <1>3 DEF BufferInv

\* What the store loop leaves in data[].
LEMMA StoreEffect ==
    ASSUME BufferInv, NEW f \in Field, Fits(f), Store(f), data \in [0 .. MAX_CMD_DATA - 1 -> Byte]
    PROVE  /\ data' \in [0 .. MAX_CMD_DATA - 1 -> Byte]
           /\ \A j \in 0 .. f.len - 1 :
                data'[(size - TPM_HEADER_SIZE) + j] = BigEndian(f.val, f.len)[j]
           /\ \A i \in DOMAIN data : i < size - TPM_HEADER_SIZE => data'[i] = data[i]
           /\ size' = size + f.len
<1> DEFINE start == size - TPM_HEADER_SIZE
           bytes == BigEndian(f.val, f.len)
<1>1. /\ start \in Nat /\ f.len \in {1, 2, 4}
      /\ \A i \in start .. start + f.len - 1 : i \in DOMAIN data
  BY BuilderAssumption, StoreInside DEF BufferInv, InBounds, Fits
<1>2. /\ data' = [i \in DOMAIN data |->
                    IF i \in start .. start + f.len - 1 THEN bytes[i - start] ELSE data[i]]
      /\ size' = size + f.len
  BY DEF Store
<1> HIDE DEF start
<1>3. \A j \in 0 .. f.len - 1 : bytes[j] \in Byte
  BY BigEndianType
<1> HIDE DEF bytes
<1>4. \A i \in start .. start + f.len - 1 : i - start \in 0 .. f.len - 1
  BY <1>1
<1>5. data' \in [0 .. MAX_CMD_DATA - 1 -> Byte]
  BY <1>2, <1>3, <1>4
<1>6. ASSUME NEW j \in 0 .. f.len - 1 PROVE data'[start + j] = bytes[j]
  <2>1. start + j \in start .. start + f.len - 1 /\ (start + j) - start = j
    BY <1>1
  <2> QED
    BY <1>1, <1>2, <2>1
<1>7. \A i \in DOMAIN data : i < start => data'[i] = data[i]
  <2>1. ASSUME NEW i \in DOMAIN data, i < start PROVE data'[i] = data[i]
    <3>1. i \notin start .. start + f.len - 1
      BY <1>1, <2>1
    <3> QED
      BY <1>2, <3>1
  <2> QED
    BY <2>1
<1> QED
  BY <1>2, <1>5, <1>6, <1>7 DEF bytes, start

-----------------------------------------------------------------------------
(* The steps.                                                              *)

LEMMA StartInv == ASSUME IInv, NEW c \in Commands, CmdInit(c) PROVE IInv'
<1>1. BufferInv'
  BY BuilderAssumption DEF CmdInit, BufferInv, InBounds, MAX_CMD_DATA
<1>2. Fields(c) \in Seq(Field)
  BY FieldsType DEF CmdInit
<1>3. TypeOK'
  <2>1. 0 \in Byte
    BY ByteFacts
  <2>2. data' \in [0 .. MAX_CMD_DATA - 1 -> Byte]
    BY <2>1, Zenon DEF CmdInit
  <2> QED
    BY <1>2, <2>2, BuilderAssumption DEF CmdInit, TypeOK, Field
<1>4. Fields(cmd)' = Fields(c) /\ todo' = Fields(c)
  BY DEF CmdInit, Fields
<1>5. Added' = 0 /\ Len(Fields(c)) \in Nat /\ Offset(Fields(c))[0] = 0
  BY <1>2, <1>4, OffsetFacts DEF Added
<1>6. ProgressInv'
  BY <1>4, <1>5, BuilderAssumption DEF CmdInit, ProgressInv
<1>7. ReturnInv'
  BY DEF CmdInit, ReturnInv
<1> QED
  BY <1>1, <1>3, <1>6, <1>7 DEF IInv

LEMMA RefuseInv == ASSUME IInv, NEW c \in Commands, RefuseArguments(c) PROVE IInv'
<1>1. TypeOK' /\ BufferInv'
  BY DEF RefuseArguments, IInv, TypeOK, BufferInv, InBounds
<1>2. ProgressInv' /\ ReturnInv'
  BY DEF RefuseArguments, ProgressInv, ReturnInv
<1> QED
  BY <1>1, <1>2 DEF IInv

\* A field is added, or is the first that does not fit, or comes after that one.
LEMMA AddInv == ASSUME IInv, UpdateBuffer PROVE IInv'
<1> DEFINE fs == Fields(cmd)
           at == Offset(fs)
           n == Len(fs)
           f == Head(todo)
<1> PICK k : k = Added
  OBVIOUS
<1>0. /\ TypeOK /\ BufferInv /\ ProgressInv /\ pc = "build" /\ todo # <<>>
      /\ todo' = Tail(todo) /\ UNCHANGED <<pc, cmd, ret>>
  BY DEF IInv, UpdateBuffer
<1>1. todo \in Seq(Field) /\ cmd \in Commands /\ ArgumentsOk(cmd)
  BY <1>0 DEF TypeOK, Field, ProgressInv
<1>2. fs \in Seq(Field)
  BY <1>1, FieldsType
<1>3. /\ n \in Nat /\ at \in [0 .. n -> Nat] /\ at[0] = 0 /\ Total(fs) = at[n]
      /\ \A i \in 1 .. n : at[i] = fs[i].len + at[i - 1]
  BY <1>2, OffsetFacts DEF Total
<1>4. /\ Len(todo) \in Nat /\ Len(todo) > 0 /\ f \in Field /\ f = todo[1]
      /\ todo' \in Seq(Field) /\ Len(todo') = Len(todo) - 1
      /\ \A i \in 1 .. Len(todo') : todo'[i] = todo[i + 1]
  BY <1>0, <1>1
<1>5. /\ k \in 0 .. n /\ k = n - Len(todo) /\ \A i \in 1 .. Len(todo) : todo[i] = fs[k + i]
  BY <1>0 DEF ProgressInv, Added
<1>6. fs' = fs /\ at' = at
  BY <1>0 DEF Fields
<1>7. Added' = k + 1 /\ k + 1 \in 1 .. n /\ fs[k + 1] = f
  <2>1. Added' = n - Len(todo')
    BY <1>6 DEF Added
  <2> HIDE DEF fs, f
  <2> QED
    BY <1>3, <1>4, <1>5, <2>1
<1>8. \A i \in 1 .. Len(todo') : todo'[i] = fs[(k + 1) + i]
  <2> HIDE DEF fs
  <2>1. ASSUME NEW i \in 1 .. Len(todo') PROVE todo'[i] = fs[(k + 1) + i]
    <3>1. i + 1 \in 1 .. Len(todo) /\ k + (i + 1) = (k + 1) + i
      BY <1>3, <1>4, <1>5
    <3> QED
      BY <1>4, <1>5, <3>1
  <2> QED
    BY <2>1
<1>9. at[k + 1] = f.len + at[k] /\ at[k + 1] <= Total(fs) /\ at[k] \in Nat /\ f.len \in Nat
  <2>1. at[k + 1] <= at[n]
    <3>1. k + 1 \in 0 .. n /\ n \in (k + 1) .. n
      BY <1>3, <1>7
    <3> QED
      BY <1>2, <3>1, OffsetsGrow
  <2>2. f.len \in Nat
    BY <1>4 DEF Field
  <2>3. at[k + 1] = fs[k + 1].len + at[(k + 1) - 1] /\ (k + 1) - 1 = k
    BY <1>3, <1>5, <1>7
  <2> HIDE DEF fs, at, n, f
  <2> QED
    BY <1>3, <1>5, <1>7, <2>1, <2>2, <2>3
<1>10. TypeOK /\ UNCHANGED <<size, data>> /\ error' \in {"SUCCESS", "INVALID_PARAM"} => TypeOK'
  BY <1>0, <1>4 DEF TypeOK, Field
<1>11. UNCHANGED <<size, data>> => BufferInv'
  BY <1>0 DEF BufferInv, InBounds
<1>12. ReturnInv'
  BY <1>0 DEF ReturnInv
<1>13. CASE error # "SUCCESS"
  <2>1. UNCHANGED <<size, data, error>>
    BY <1>13 DEF UpdateBuffer
  <2>2. TypeOK'
    BY <1>0, <1>10, <2>1 DEF TypeOK
  <2>3. TPM_HEADER_SIZE + Total(fs') > MAX_SIZE_CMDBUF
    BY <1>0, <1>6, <1>13 DEF ProgressInv
  <2>4. ProgressInv'
    BY <1>0, <1>1, <1>6, <1>7, <1>8, <1>13, <2>1, <2>3 DEF ProgressInv, ArgumentsOk
  <2> QED
    BY <1>11, <1>12, <2>1, <2>2, <2>4 DEF IInv
<1>14. CASE error = "SUCCESS" /\ ~Fits(f)
  <2>1. UNCHANGED <<size, data>> /\ error' = "INVALID_PARAM"
    BY <1>14 DEF UpdateBuffer
  <2>2. size = TPM_HEADER_SIZE + at[k]
    BY <1>0, <1>14 DEF ProgressInv
  <2>3. size + f.len > MAX_SIZE_CMDBUF
    BY <1>0, <1>4, <1>9, <1>14, BuilderAssumption DEF Fits, Field, BufferInv, InBounds
  <2>4. TPM_HEADER_SIZE + Total(fs) > MAX_SIZE_CMDBUF
    <3>1. Total(fs) \in Nat
      BY <1>2, OffsetFacts
    <3> HIDE DEF fs, at, f
    <3> QED
      BY <1>9, <2>2, <2>3, <3>1, BuilderAssumption
  <2>5. ProgressInv'
    BY <1>0, <1>1, <1>6, <1>7, <1>8, <2>1, <2>4 DEF ProgressInv, ArgumentsOk
  <2> QED
    BY <1>0, <1>10, <1>11, <1>12, <2>1, <2>5 DEF IInv
<1>15. CASE error = "SUCCESS" /\ Fits(f)
  <2>1. Store(f) /\ error' = "SUCCESS"
    BY <1>15 DEF UpdateBuffer
  <2>2. BufferInv'
    BY <1>0, <1>15, <2>1, StoreBuffer
  <2>3. /\ data' \in [0 .. MAX_CMD_DATA - 1 -> Byte] /\ size' = size + f.len
        /\ \A j \in 0 .. f.len - 1 :
             data'[(size - TPM_HEADER_SIZE) + j] = BigEndian(f.val, f.len)[j]
        /\ \A i \in DOMAIN data : i < size - TPM_HEADER_SIZE => data'[i] = data[i]
    <3>1. data \in [0 .. MAX_CMD_DATA - 1 -> Byte]
      BY <1>0 DEF TypeOK
    <3> QED
      BY <1>0, <1>4, <1>15, <2>1, <3>1, StoreEffect
  <2>4. TypeOK'
    <3>1. size' \in Nat
      BY <1>0, <1>9, <2>3 DEF TypeOK
    <3> QED
      BY <1>0, <1>4, <2>1, <2>3, <3>1 DEF TypeOK, Field
  <2>5. /\ size = TPM_HEADER_SIZE + at[k]
        /\ \A i \in 1 .. k : StoredAt(at[i - 1], fs[i])
    BY <1>0, <1>15 DEF ProgressInv
  <2>6. size' = TPM_HEADER_SIZE + at[k + 1] /\ size - TPM_HEADER_SIZE = at[k]
    <3> HIDE DEF fs, at, f
    <3> QED
      BY <1>9, <2>3, <2>5, BuilderAssumption
  <2>7. ASSUME NEW i \in 1 .. k PROVE StoredAt(at[i - 1], fs[i])'
    <3>1. i \in 1 .. n /\ i - 1 \in 0 .. n /\ i \in 0 .. n /\ k \in i .. n
      BY <1>3, <1>5
    <3>2. at[i] = fs[i].len + at[i - 1] /\ at[i] <= at[k]
      BY <1>2, <1>3, <3>1, OffsetsGrow
    <3>3. at[i - 1] \in Nat /\ fs[i].len \in Nat
      BY <1>2, <1>3, <3>1, FieldFacts
    <3>4. ASSUME NEW j \in 0 .. fs[i].len - 1
          PROVE  data'[at[i - 1] + j] = BigEndian(fs[i].val, fs[i].len)[j]
      <4>1. data[at[i - 1] + j] = BigEndian(fs[i].val, fs[i].len)[j]
        BY <2>5 DEF StoredAt
      <4>2. at[i - 1] + j < size - TPM_HEADER_SIZE /\ at[i - 1] + j \in Nat
        <5> HIDE DEF fs, at
        <5> QED
          BY <1>9, <2>6, <3>2, <3>3
      <4>3. at[i - 1] + j \in DOMAIN data
        BY <1>0, <4>2, BuilderAssumption DEF BufferInv, InBounds, MAX_CMD_DATA
      <4> QED
        BY <2>3, <4>1, <4>2, <4>3
    <3> QED
      BY <1>6, <3>4 DEF StoredAt
  <2>8. StoredAt(at[k], fs[k + 1])'
    <3>1. \A j \in 0 .. f.len - 1 : data'[at[k] + j] = BigEndian(f.val, f.len)[j]
      <4> HIDE DEF fs, at, f
      <4> QED
        BY <2>3, <2>6
    <3>2. \A j \in 0 .. fs[k + 1].len - 1 :
            data'[at[k] + j] = BigEndian(fs[k + 1].val, fs[k + 1].len)[j]
      <4> HIDE DEF fs, at, f
      <4> QED
        BY <1>7, <3>1
    <3> QED
      BY <1>6, <3>2 DEF StoredAt
  <2>9. \A i \in 1 .. k + 1 : StoredAt(at[i - 1], fs[i])'
    <3> SUFFICES ASSUME NEW i \in 1 .. k + 1 PROVE StoredAt(at[i - 1], fs[i])'
      OBVIOUS
    <3>1. k \in Nat
      BY <1>3, <1>5
    <3>2. i \in 1 .. k \/ (i = k + 1 /\ i - 1 = k)
      BY <3>1
    <3>3. CASE i \in 1 .. k
      BY <2>7, <3>3
    <3>4. CASE i = k + 1 /\ i - 1 = k
      BY <2>8, <3>4
    <3> QED
      BY <3>2, <3>3, <3>4
  <2>10. ProgressInv'
    BY <1>0, <1>1, <1>6, <1>7, <1>8, <2>1, <2>6, <2>9 DEF ProgressInv, ArgumentsOk
  <2> QED
    BY <1>12, <2>2, <2>4, <2>10 DEF IInv
<1> QED
  BY <1>13, <1>14, <1>15

LEMMA FinalizeInv == ASSUME IInv, Finalize PROVE IInv'
<1>0. /\ TypeOK /\ BufferInv /\ ProgressInv /\ pc = "build" /\ todo = <<>>
      /\ UNCHANGED <<cmd, todo, size, data, error>>
  BY DEF IInv, Finalize
<1>1. BufferInv'
  BY <1>0 DEF BufferInv, InBounds
<1>2. CASE error = "SUCCESS"
  <2>1. pc' = "xfer" /\ UNCHANGED ret
    BY <1>2 DEF Finalize
  <2>2. TypeOK' /\ ReturnInv'
    BY <1>0, <2>1 DEF TypeOK, ReturnInv
  <2>3. UNCHANGED <<Fields(cmd), Added, ArgumentsOk(cmd)>>
    BY <1>0 DEF Added, Fields, ArgumentsOk
  <2>4. ProgressInv'
    BY <1>0, <1>2, <2>1, <2>3 DEF ProgressInv, StoredAt
  <2> QED
    BY <1>1, <2>2, <2>4 DEF IInv
<1>3. CASE error # "SUCCESS"
  <2>1. pc' = "idle" /\ ret' = error /\ error = "INVALID_PARAM"
    BY <1>0, <1>3 DEF Finalize, TypeOK
  <2>2. TypeOK' /\ ProgressInv'
    BY <1>0, <2>1 DEF TypeOK, ProgressInv
  <2>3. ReturnInv'
    BY <1>0, <1>3, <2>1 DEF ProgressInv, ReturnInv
  <2> QED
    BY <1>1, <2>2, <2>3 DEF IInv
<1> QED
  BY <1>2, <1>3

LEMMA XferInv == ASSUME IInv, XferReturns PROVE IInv'
<1>0. /\ TypeOK /\ BufferInv /\ ProgressInv /\ pc = "xfer" /\ pc' = "idle" /\ ret' = "SENT"
      /\ UNCHANGED <<cmd, todo, size, data, error>>
  BY DEF IInv, XferReturns
<1>1. TypeOK' /\ BufferInv' /\ ProgressInv'
  BY <1>0 DEF TypeOK, BufferInv, InBounds, ProgressInv
<1>2. /\ todo = <<>> /\ error = "SUCCESS" /\ ArgumentsOk(cmd)
      /\ size = TPM_HEADER_SIZE + Offset(Fields(cmd))[Added]
  BY <1>0 DEF ProgressInv
<1>3. Fields(cmd) \in Seq(Field)
  BY <1>0, <1>2, FieldsType DEF TypeOK
<1>4. Added = Len(Fields(cmd))
  BY <1>2, <1>3 DEF Added
<1>5. ~(TPM_HEADER_SIZE + Total(Fields(cmd)) > MAX_SIZE_CMDBUF)
  BY <1>0, <1>2, <1>4, BuilderAssumption DEF Total, BufferInv, InBounds
<1>6. ReturnInv'
  BY <1>0, <1>5 DEF ReturnInv
<1> QED
  BY <1>1, <1>6 DEF IInv

LEMMA NextInv == IInv /\ [Next]_vars => IInv'
<1> SUFFICES ASSUME IInv, [Next]_vars PROVE IInv'
  OBVIOUS
<1>1. CASE UNCHANGED vars
  BY <1>1 DEF vars, IInv, TypeOK, BufferInv, InBounds, ProgressInv, ReturnInv, Added, StoredAt
<1> QED
  BY <1>1, StartInv, RefuseInv, AddInv, FinalizeInv, XferInv DEF Next

LEMMA Invariance == Spec => []IInv
BY InitInv, NextInv, PTL DEF Spec

-----------------------------------------------------------------------------
(* Theorems.                                                               *)

\* Every field that is added has a length tpm_update_buffer accepts, and only
\* bytes are stored in data[].
THEOREM TypeCorrect == Spec => []TypeOK
BY Invariance, PTL DEF IInv

\* Whatever a command function adds, in whatever lengths and however often it
\* goes on after the buffer is full, cmd_size never exceeds the buffer and
\* tpm_update_buffer never stores behind data[].
THEOREM BuilderStaysInBounds == Spec => []InBounds
<1>1. IInv => InBounds
  BY DEF IInv, BufferInv
<1> QED
  BY <1>1, Invariance, PTL

\* A command with good arguments is refused exactly when its encoding is longer
\* than the buffer, for every call and every size of the buffer.
THEOREM RefusedIfTooLong == Spec => []RefusedOnlyIfTooLong
<1>1. ASSUME IInv PROVE RefusedOnlyIfTooLong
  <2>1. cmd \in Commands /\ ReturnInv
    BY <1>1 DEF IInv, TypeOK
  <2> QED
    BY <2>1, FieldsOf DEF ReturnInv, RefusedOnlyIfTooLong
<1> QED
  BY <1>1, Invariance, PTL

\* What is in data[] when tpm_xfer gets the command is all the fields, at their
\* offsets, and nothing behind them.
LEMMA SentIsStored ==
    ASSUME IInv, pc = "xfer"
    PROVE  /\ cmd \in Commands /\ ArgumentsOk(cmd) /\ Stored(0, Fields(cmd))
           /\ DataEnd = Needed(cmd)
<1>1. /\ cmd \in Commands /\ ArgumentsOk(cmd) /\ todo = <<>>
      /\ size = TPM_HEADER_SIZE + Offset(Fields(cmd))[Added]
      /\ \A k \in 1 .. Added : StoredAt(Offset(Fields(cmd))[k - 1], Fields(cmd)[k])
  BY DEF IInv, TypeOK, ProgressInv
<1>2. Fields(cmd) \in Seq(Field) /\ Total(Fields(cmd)) = Needed(cmd)
  BY <1>1, FieldsOf
<1>3. Added = Len(Fields(cmd))
  BY <1>1, <1>2 DEF Added
<1>4. /\ Len(Fields(cmd)) \in Nat /\ Offset(Fields(cmd)) \in [0 .. Len(Fields(cmd)) -> Nat]
      /\ Total(Fields(cmd)) \in Nat
  BY <1>2, OffsetFacts
<1>5. DataEnd = Needed(cmd)
  <2>1. size = TPM_HEADER_SIZE + Total(Fields(cmd))
    BY <1>1, <1>3, Zenon DEF Total
  <2> QED
    BY <1>2, <1>4, <2>1, BuilderAssumption DEF DataEnd
<1>6. ASSUME NEW k \in 1 .. Len(Fields(cmd))
      PROVE  StoredAt(0 + Offset(Fields(cmd))[k - 1], Fields(cmd)[k])
  <2>1. k - 1 \in 0 .. Len(Fields(cmd))
    BY <1>4
  <2>2. 0 + Offset(Fields(cmd))[k - 1] = Offset(Fields(cmd))[k - 1]
    BY <1>4, <2>1
  <2> QED
    BY <1>1, <1>3, <2>2, Zenon
<1> QED
  BY <1>1, <1>5, <1>6, Zenon DEF Stored

LEMMA ExtendUnderstood ==
    ASSUME cmd \in ExtendCall, Stored(0, ExtendFields(cmd)), DataEnd = 23 + Len(cmd.digest),
           cmd.api = "extend"
    PROVE  TpmUnderstands(cmd)
<1>1. /\ U(0, 4) = cmd.index /\ U(4, 4) = 9 /\ U(8, 4) = TPM_RS_PW
      /\ U(12, 2) = 0 /\ U(15, 2) = 0 /\ U(17, 4) = 1
      /\ U(21, 2) = cmd.algorithm /\ Slice(23, Len(cmd.digest)) = cmd.digest
  BY ExtendLayout
<1>2. PasswordAreaIs(<<>>)
  <2>1. Len(<<>>) = 0 /\ 4 + 2 + 1 + 2 + 0 = 9
    OBVIOUS
  <2>2. Slice(17, 0) = <<>>
    BY DEF Slice
  <2> QED
    BY <1>1, <2>1, <2>2, Zenon DEF PasswordAreaIs
<1>3. Len(cmd.digest) \in Nat
  BY DEF ExtendCall
<1>4. ParametersAt = 17
  BY <1>1 DEF ParametersAt
<1>5. DataEnd - ParametersAt - 6 = Len(cmd.digest)
  BY <1>3, <1>4
<1>6. ParametersAt + 4 = 21 /\ ParametersAt + 6 = 23
  BY <1>4
<1>7. U(ParametersAt, 4) = 1 /\ U(ParametersAt + 4, 2) = cmd.algorithm
  BY <1>1, <1>4, <1>6, Zenon
<1>8. Slice(ParametersAt + 6, DataEnd - ParametersAt - 6) = cmd.digest
  BY <1>1, <1>5, <1>6, Zenon
<1> QED
  BY <1>1, <1>2, <1>7, <1>8 DEF TpmUnderstands

LEMMA AllocateUnderstood ==
    ASSUME cmd \in Commands, cmd \in AllocateCall, ArgumentsOk(cmd), cmd.api = "allocate",
           Stored(0, AllocateFields(cmd)),
           DataEnd = 21 + Len(cmd.password) + 6 * BankCount(cmd.banks)
    PROVE  TpmUnderstands(cmd)
<1> DEFINE n == Len(cmd.password)
           count == BankCount(cmd.banks)
<1>1. /\ U(0, 4) = TPM_RH_PLATFORM /\ U(4, 4) = 9 + n /\ U(8, 4) = TPM_RS_PW
      /\ U(12, 2) = 0 /\ U(15, 2) = n /\ Slice(17, n) = cmd.password
      /\ U(17 + n, 4) = count
      /\ \A i \in 1 .. count : Stored((21 + n) + 6 * (i - 1), BankFields(cmd.banks[i]))
  BY AllocateLayout
<1>2. /\ count \in 1 .. 7 /\ count < Len(cmd.banks)
      /\ \A i \in 1 .. count : cmd.banks[i].hash_alg # TPM_ALG_NULL
      /\ cmd.banks[count + 1].hash_alg = TPM_ALG_NULL
  BY BanksCounted
<1>3. n \in Nat /\ cmd.banks \in Seq(BankType) /\ Len(cmd.banks) \in Nat
  BY DEF AllocateCall
<1> HIDE DEF n, count
<1>4. PasswordAreaIs(cmd.password)
  <2>1. 4 + 2 + 1 + 2 + n = 9 + n
    BY <1>3
  <2> QED
    BY <1>1, <2>1, Zenon DEF PasswordAreaIs, n
<1>5. ParametersAt = 17 + n
  BY <1>1, <1>3 DEF ParametersAt
<1>6. U(ParametersAt, 4) = count
  BY <1>1, <1>5, Zenon
<1>7. DataEnd = ParametersAt + 4 + 6 * count /\ ParametersAt + 4 = 21 + n
  BY <1>2, <1>3, <1>5 DEF n, count
<1>8. ASSUME NEW i \in 1 .. count, NEW at, at = (21 + n) + 6 * (i - 1)
      PROVE  /\ U(at, 2) = cmd.banks[i].hash_alg /\ cmd.banks[i].hash_alg # TPM_ALG_NULL
             /\ U(at + 2, 1) = 3 /\ Slice(at + 3, 3) = cmd.banks[i].pcr_select
  <2>1. at \in Nat /\ i \in 1 .. Len(cmd.banks)
    BY <1>2, <1>3, <1>8
  <2>2. cmd.banks[i] \in BankType
    BY <1>3, <2>1
  <2>3. Stored(at, BankFields(cmd.banks[i]))
    BY <1>1, <1>8, Zenon
  <2> QED
    BY <1>2, <2>1, <2>2, <2>3, BankLayout, Zenon
<1>9. ASSUME NEW i \in 1 .. U(ParametersAt, 4)
      PROVE  LET at == ParametersAt + 4 + 6 * (i - 1)
             IN  /\ U(at, 2) = cmd.banks[i].hash_alg
                 /\ cmd.banks[i].hash_alg # TPM_ALG_NULL
                 /\ U(at + 2, 1) = 3
                 /\ Slice(at + 3, 3) = cmd.banks[i].pcr_select
  <2>1. i \in 1 .. count
    BY <1>6, Zenon
  <2>2. ParametersAt + 4 + 6 * (i - 1) = (21 + n) + 6 * (i - 1)
    BY <1>7, Zenon
  <2> QED
    BY <1>8, <2>1, <2>2, Zenon
<1>10. DataEnd = ParametersAt + 4 + 6 * U(ParametersAt, 4)
  BY <1>6, <1>7, Zenon
<1>11. cmd.banks[U(ParametersAt, 4) + 1].hash_alg = TPM_ALG_NULL
  BY <1>2, <1>6, Zenon
<1> QED
  BY <1>1, <1>4, <1>9, <1>10, <1>11, Zenon DEF TpmUnderstands

\* Every command that reaches tpm_xfer can be unmarshalled by a TPM into exactly
\* the arguments of the call: the authorisation area has the size it declares, the
\* digest and the banks are complete, and pcr_bitmask selects the one PCR asked
\* for, for every call of a command function and every size of the buffer.
THEOREM SentIsUnderstood == Spec => []SentMeansUnderstood
<1>1. ASSUME IInv, pc = "xfer" PROVE TpmUnderstands(cmd)
  <2>1. /\ cmd \in Commands /\ ArgumentsOk(cmd) /\ Stored(0, Fields(cmd))
        /\ DataEnd = Needed(cmd)
    BY <1>1, SentIsStored
  <2>2. cmd.api \in {"startup", "getcap", "extend", "pcr_read", "allocate"}
    BY <2>1, CallKinds
  <2>3. CASE cmd.api = "startup"
    <3>1. cmd \in StartupCall /\ Stored(0, StartupFields(cmd)) /\ DataEnd = 2
      BY <2>1, <2>3, FieldsOf DEF Needed
    <3>2. U(0, 2) = cmd.mode
      BY <3>1, StartupLayout
    <3> QED
      BY <2>3, <3>1, <3>2 DEF TpmUnderstands
  <2>4. CASE cmd.api = "getcap"
    <3>1. cmd \in GetcapCall /\ Stored(0, GetcapFields(cmd)) /\ DataEnd = 12
      BY <2>1, <2>4, FieldsOf DEF Needed
    <3>2. U(0, 4) = cmd.capability /\ U(4, 4) = cmd.property /\ U(8, 4) = cmd.count
      BY <3>1, GetcapLayout
    <3> QED
      BY <2>4, <3>1, <3>2 DEF TpmUnderstands
  <2>5. CASE cmd.api = "extend"
    <3>1. /\ cmd \in ExtendCall /\ Stored(0, ExtendFields(cmd))
          /\ DataEnd = 23 + Len(cmd.digest)
      BY <2>1, <2>5, FieldsOf DEF Needed
    <3> QED
      BY <2>5, <3>1, ExtendUnderstood
  <2>6. CASE cmd.api = "pcr_read"
    <3>1. /\ cmd \in PcrReadCall /\ cmd.index < 24 /\ Stored(0, PcrReadFields(cmd))
          /\ DataEnd = 10
      BY <2>1, <2>6, FieldsOf DEF Needed
    <3>2. /\ U(0, 4) = 1 /\ U(4, 2) = cmd.algorithm /\ U(6, 1) = 3
          /\ Selected(7) = {cmd.index}
      BY <3>1, PcrReadLayout
    <3> QED
      BY <2>6, <3>1, <3>2 DEF TpmUnderstands
  <2>7. CASE cmd.api = "allocate"
    <3>1. /\ cmd \in AllocateCall /\ Stored(0, AllocateFields(cmd))
          /\ DataEnd = 21 + Len(cmd.password) + 6 * BankCount(cmd.banks)
      BY <2>1, <2>7, FieldsOf DEF Needed
    <3> QED
      BY <2>1, <2>7, <3>1, AllocateUnderstood
  <2> QED
    BY <2>2, <2>3, <2>4, <2>5, <2>6, <2>7
<1>2. IInv => SentMeansUnderstood
  BY <1>1 DEF SentMeansUnderstood
<1> QED
  BY <1>2, Invariance, PTL
=============================================================================
