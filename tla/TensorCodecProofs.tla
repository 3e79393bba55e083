-------------------------- MODULE TensorCodecProofs --------------------------
(***************************************************************************)
(* The theorems about TensorCodec: what each codec keeps of a tensor, for  *)
(* every set of tensors and every format of half floats.                   *)
(*                                                                         *)
(* The state machine adds little: CodecInv says that what is restored is   *)
(* what the decoder makes of what some encoder made of the tensor.  The    *)
(* argument is in the lemmas about the operators, one section each for     *)
(* integer arithmetic, lengths, half floats, precision and sums.           *)
(***************************************************************************)
EXTENDS TensorCodec, ArithmeticLemmas, TLAPS, FiniteSetTheorems, SequenceTheorems

-----------------------------------------------------------------------------
(* Integers.                                                               *)

\* Division with remainder.
LEMMA DivisionFacts ==
  ASSUME NEW a \in Int, NEW b \in Nat \ {0}
  PROVE  /\ a \div b \in Int /\ a % b \in 0 .. b - 1
         /\ a = b * (a \div b) + (a % b)
  OBVIOUS

\* Absolute is the distance from zero.
LEMMA AbsoluteFacts ==
  ASSUME NEW x \in Int
  PROVE  /\ Absolute(x) \in Nat
         /\ x > 0 => Absolute(x) = x
         /\ x < 0 => Absolute(x) = -x
         /\ Absolute(x) = 0 <=> x = 0
  BY DEF Absolute

\* Round is off by at most one half.
LEMMA RoundNear ==
  ASSUME NEW a \in Int, NEW b \in Nat \ {0}
  PROVE  /\ Round(a, b) \in Int
         /\ 2 * (b * Round(a, b) - a) <= b /\ -b <= 2 * (b * Round(a, b) - a)
<1> DEFINE q == a \div b
           r == a % b
<1>1. q \in Int /\ r \in 0 .. b - 1 /\ a = b * q + r
  BY DivisionFacts
<1>2. Round(a, b) = IF 2 * r < b \/ (2 * r = b /\ q % 2 = 0) THEN q ELSE q + 1
  BY DEF Round
<1> HIDE DEF q, r
<1>3. CASE 2 * r < b \/ (2 * r = b /\ q % 2 = 0)
  <2>1. Round(a, b) = q
    BY <1>2, <1>3
  <2>2. 2 * r <= b
    BY <1>1, <1>3
  <2>3. b * q - a = -r
    BY <1>1
  <2> QED BY <1>1, <2>1, <2>2, <2>3
<1>4. CASE ~(2 * r < b \/ (2 * r = b /\ q % 2 = 0))
  <2>1. Round(a, b) = q + 1
    BY <1>2, <1>4
  <2>2. 2 * r >= b
    BY <1>1, <1>4
  <2>3. b * (q + 1) - a = b - r
    BY <1>1
  <2> QED BY <1>1, <2>1, <2>2, <2>3
<1> QED BY <1>3, <1>4

\* Round does not leave an interval whose bounds are whole.
LEMMA RoundBounded ==
  ASSUME NEW a \in Int, NEW b \in Nat \ {0}, NEW k \in Int
  PROVE  /\ a <= k * b => Round(a, b) <= k
         /\ a >= k * b => Round(a, b) >= k
<1> DEFINE z == Round(a, b)
<1>1. z \in Int /\ 2 * (b * z - a) <= b /\ -b <= 2 * (b * z - a)
  BY RoundNear
<1> HIDE DEF z
<1>2. ASSUME a <= k * b, z > k PROVE FALSE
  <2>1. z - k - 1 \in Nat
    BY <1>1, <1>2
  <2>2. b * (z - k - 1) \in Nat /\ b * (z - k - 1) = b * z - k * b - b
    BY <2>1, <1>1
  <2> QED BY <1>1, <1>2, <2>2
<1>3. ASSUME a >= k * b, z < k PROVE FALSE
  <2>1. k - z - 1 \in Nat
    BY <1>1, <1>3
  <2>2. b * (k - z - 1) \in Nat /\ b * (k - z - 1) = k * b - b * z - b
    BY <2>1, <1>1
  <2> QED BY <1>1, <1>3, <2>2
<1> QED BY <1>1, <1>2, <1>3 DEF z

\* Int8 cuts the fraction off, and nothing else in its range.
LEMMA Int8Near ==
  ASSUME NEW a \in Int, NEW b \in Nat \ {0}, -(128 * b) <= a, a <= 127 * b
  PROVE  /\ Int8(a, b) \in Int
         /\ b * Int8(a, b) - a < b /\ -b < b * Int8(a, b) - a
<1> DEFINE q == IF a < 0 THEN -((-a) \div b) ELSE a \div b
<1>1. /\ q \in Int
      /\ b * q - a < b /\ -b < b * q - a
      /\ a < 0 => b * q >= a
      /\ a >= 0 => b * q <= a /\ q >= 0
  <2>1. CASE a < 0
    <3> DEFINE c == -a
    <3>1. c \in Int
      OBVIOUS
    <3>2. q = -(c \div b)
      BY <2>1
    <3> HIDE DEF c, q
    <3>3. c \div b \in Int /\ c % b \in 0 .. b - 1 /\ c = b * (c \div b) + (c % b)
      BY <3>1, DivisionFacts
    <3>4. b * q = -(b * (c \div b))
      BY <3>2, <3>3
    <3>5. -a = c
      BY DEF c
    <3> QED BY <2>1, <3>1, <3>2, <3>3, <3>4, <3>5
  <2>2. CASE a >= 0
    <3>1. a \div b \in Int /\ a % b \in 0 .. b - 1 /\ a = b * (a \div b) + (a % b)
      BY DivisionFacts
    <3>2. q = a \div b /\ q >= 0
      BY <2>2
    <3> QED BY <2>2, <3>1, <3>2
  <2> QED BY <2>1, <2>2
<1>2. Int8(a, b) = ((q + 128) % 256) - 128
  BY DEF Int8
<1> HIDE DEF q
<1>3. q >= -128
  <2>1. SUFFICES ASSUME q < -128 PROVE FALSE
    BY <1>1
  <2>2. -129 - q \in Nat /\ b * (-129 - q) \in Nat /\ b * (-129 - q) = -(129 * b) - b * q
    BY <2>1, <1>1
  <2> QED BY <1>1, <2>2
<1>4. q <= 127
  <2>1. SUFFICES ASSUME q > 127 PROVE FALSE
    BY <1>1
  <2>2. q - 128 \in Nat /\ b * (q - 128) \in Nat /\ b * (q - 128) = b * q - 128 * b
    BY <2>1, <1>1
  <2> QED BY <1>1, <2>2
<1>5. q + 128 \in 0 .. 255 /\ (q + 128) % 256 = q + 128
  BY <1>1, <1>3, <1>4
<1> QED BY <1>1, <1>2, <1>5

-----------------------------------------------------------------------------
(* Tensors.                                                                *)

\* A tensor is a nonempty function from 1 .. n to integers.
LEMMA TensorShape ==
  ASSUME NEW t \in Tensor
  PROVE  /\ t \in Seq(Int) /\ t # <<>>
         /\ Len(t) \in Nat \ {0}
         /\ DOMAIN t = 1 .. Len(t)
         /\ \A i \in DOMAIN t : t[i] \in Int
<1>1. t \in Seq(Int) /\ t # <<>>
  BY TensorAssumption
<1>2. Len(t) \in Nat \ {0} /\ DOMAIN t = 1 .. Len(t) /\ t \in [1 .. Len(t) -> Int]
  BY <1>1, EmptySeq, LenProperties
<1> QED BY <1>1, <1>2

\* A function from 1 .. n is a sequence of length n.
LEMMA FunctionLength ==
  ASSUME NEW n \in Nat, NEW f, f = [i \in 1 .. n |-> f[i]]
  PROVE  Len(f) = n
<1> DEFINE S == {f[i] : i \in 1 .. n}
<1>1. f \in [1 .. n -> S]
  OBVIOUS
<1> HIDE DEF S
<1>2. f \in Seq(S)
  BY <1>1, SeqDef
<1>3. Len(f) \in Nat /\ DOMAIN f = 1 .. Len(f)
  BY <1>2, LenProperties
<1>4. 1 .. Len(f) = 1 .. n
  BY <1>1, <1>3
<1> QED BY <1>3, <1>4

\* A tensor has a smallest and a largest value.
LEMMA Extremes ==
  ASSUME NEW t \in Tensor
  PROVE  /\ Smallest(t) \in Int \cap Range(t) /\ Largest(t) \in Int \cap Range(t)
         /\ \A i \in DOMAIN t : Smallest(t) <= t[i] /\ t[i] <= Largest(t)
<1> DEFINE n == Len(t)
           Below == {m \in 0 .. n : m > 0 => \E i \in 1 .. m : \A j \in 1 .. m : t[i] <= t[j]}
           Above == {m \in 0 .. n : m > 0 => \E i \in 1 .. m : \A j \in 1 .. m : t[i] >= t[j]}
<1>1. n \in Nat \ {0} /\ DOMAIN t = 1 .. n /\ \A i \in 1 .. n : t[i] \in Int
  BY TensorShape
<1> HIDE DEF n
<1>2. n \in Below
  <2>1. 0 \in Below
    BY <1>1
  <2>2. ASSUME NEW m \in 0 .. n, m < n, m \in Below PROVE m + 1 \in Below
    <3>0. m < n
      BY <2>2
    <3>1. m + 1 \in 0 .. n /\ 1 .. m + 1 = (1 .. m) \cup {m + 1}
      BY <1>1, <3>0
    <3>2. CASE m = 0
      BY <1>1, <3>1, <3>2
    <3>3. CASE m > 0
      <4>1. PICK i \in 1 .. m : \A j \in 1 .. m : t[i] <= t[j]
        BY <2>2, <3>3
      <4>2. t[i] \in Int /\ t[m + 1] \in Int /\ \A j \in 1 .. m : t[j] \in Int
        BY <1>1, <2>2, <3>1
      <4>3. CASE t[i] <= t[m + 1]
        <5>1. \A j \in 1 .. m + 1 : t[i] <= t[j]
          BY <3>1, <4>1, <4>3
        <5> QED BY <3>1, <5>1
      <4>4. CASE t[m + 1] < t[i]
        <5>1. \A j \in 1 .. m + 1 : t[m + 1] <= t[j]
          BY <3>1, <4>1, <4>2, <4>4
        <5> QED BY <3>1, <5>1
      <4> QED BY <4>2, <4>3, <4>4
    <3> QED BY <2>2, <3>2, <3>3
  <2> HIDE DEF Below
  <2>3. \A m \in 0 .. n : m \in Below
    BY <1>1, <2>1, <2>2, InductionUpTo
  <2> QED BY <1>1, <2>3
<1>3. n \in Above
  <2>1. 0 \in Above
    BY <1>1
  <2>2. ASSUME NEW m \in 0 .. n, m < n, m \in Above PROVE m + 1 \in Above
    <3>0. m < n
      BY <2>2
    <3>1. m + 1 \in 0 .. n /\ 1 .. m + 1 = (1 .. m) \cup {m + 1}
      BY <1>1, <3>0
    <3>2. CASE m = 0
      BY <1>1, <3>1, <3>2
    <3>3. CASE m > 0
      <4>1. PICK i \in 1 .. m : \A j \in 1 .. m : t[i] >= t[j]
        BY <2>2, <3>3
      <4>2. t[i] \in Int /\ t[m + 1] \in Int /\ \A j \in 1 .. m : t[j] \in Int
        BY <1>1, <2>2, <3>1
      <4>3. CASE t[i] >= t[m + 1]
        <5>1. \A j \in 1 .. m + 1 : t[i] >= t[j]
          BY <3>1, <4>1, <4>3
        <5> QED BY <3>1, <5>1
      <4>4. CASE t[m + 1] > t[i]
        <5>1. \A j \in 1 .. m + 1 : t[m + 1] >= t[j]
          BY <3>1, <4>1, <4>2, <4>4
        <5> QED BY <3>1, <5>1
      <4> QED BY <4>2, <4>3, <4>4
    <3> QED BY <2>2, <3>2, <3>3
  <2> HIDE DEF Above
  <2>3. \A m \in 0 .. n : m \in Above
    BY <1>1, <2>1, <2>2, InductionUpTo
  <2> QED BY <1>1, <2>3
<1>4. PICK i \in 1 .. n : \A j \in 1 .. n : t[i] <= t[j]
  BY <1>1, <1>2
<1>5. PICK k \in 1 .. n : \A j \in 1 .. n : t[k] >= t[j]
  BY <1>1, <1>3
<1> HIDE DEF Below, Above
<1>6. Smallest(t) \in Range(t) /\ \A v \in Range(t) : Smallest(t) <= v
  <2>1. t[i] \in Range(t) /\ \A v \in Range(t) : t[i] <= v
    BY <1>1, <1>4 DEF Range
  <2> QED BY <2>1 DEF Smallest, Min
<1>7. Largest(t) \in Range(t) /\ \A v \in Range(t) : Largest(t) >= v
  <2>1. t[k] \in Range(t) /\ \A v \in Range(t) : t[k] >= v
    BY <1>1, <1>5 DEF Range
  <2> QED BY <2>1 DEF Largest, Max
<1>8. Range(t) \subseteq Int /\ \A j \in DOMAIN t : t[j] \in Range(t)
  BY <1>1 DEF Range
<1> QED BY <1>1, <1>6, <1>7, <1>8

\* The largest absolute value is that of one of them.
LEMMA LargestSize ==
  ASSUME NEW t \in Tensor, NEW i \in DOMAIN t
  PROVE  LET size == Max({Absolute(v) : v \in Range(t)})
         IN  size \in Nat /\ Absolute(t[i]) <= size
<1> DEFINE sizes == {Absolute(v) : v \in Range(t)}
           low == Smallest(t)
           high == Largest(t)
           m == IF Absolute(low) <= Absolute(high) THEN Absolute(high) ELSE Absolute(low)
<1>1. low \in Range(t) /\ high \in Range(t) /\ low \in Int /\ high \in Int
  BY Extremes
<1>2. Range(t) \subseteq Int /\ t[i] \in Range(t)
      /\ \A v \in Range(t) : low <= v /\ v <= high
  BY TensorShape, Extremes DEF Range
<1> HIDE DEF low, high
<1>3. m \in sizes /\ m \in Nat
  BY <1>1, AbsoluteFacts
<1>4. ASSUME NEW v \in Range(t) PROVE Absolute(v) <= m
  BY <1>1, <1>2 DEF Absolute
<1>5. m \in sizes /\ \A y \in sizes : m >= y
  <2>1. \A v \in Range(t) : Absolute(v) \in Nat
    BY <1>2, AbsoluteFacts
  <2> HIDE DEF m
  <2>2. ASSUME NEW v \in Range(t) PROVE m >= Absolute(v)
    BY <1>3, <1>4, <2>1
  <2> QED BY <1>3, <2>2
<1> HIDE DEF m
<1>6. Max(sizes) \in sizes /\ \A y \in sizes : Max(sizes) >= y
  <2> HIDE DEF sizes
  <2> QED BY <1>5 DEF Max
<1>7. sizes \subseteq Nat
  BY <1>2, AbsoluteFacts
<1>8. Absolute(t[i]) \in sizes
  BY <1>2
<1> HIDE DEF sizes
<1>9. Max(sizes) \in Nat /\ Absolute(t[i]) <= Max(sizes)
  BY <1>6, <1>7, <1>8
<1> QED BY <1>9 DEF sizes

-----------------------------------------------------------------------------
(* The codecs, one at a time.                                              *)

\* The router has a codec for every tensor.
LEMMA RouterType ==
  ASSUME NEW t
  PROVE  get_optimal_compression(t) \in CompressionType
<1> DEFINE zeros == Cardinality({i \in DOMAIN t : t[i] = 0})
           outlier_count == Cardinality(Outliers(t))
<1>1. CASE 10 * zeros > 3 * Len(t)
  BY <1>1 DEF get_optimal_compression, CompressionType
<1>2. CASE ~(10 * zeros > 3 * Len(t))
  BY <1>2 DEF get_optimal_compression, CompressionType
<1> QED BY <1>1, <1>2

\* Per codec: the decoded tensor's numerators are a function from 1 .. n.
LEMMA ExactLength ==
  ASSUME NEW t \in Tensor, NEW comp \in {"NONE", "FP16"}, NEW p \in Packed(t, comp)
  PROVE  p.comp = comp /\ Len(Unpacked(p).num) = Len(t)
<1>1. Len(t) \in Nat /\ DOMAIN t = 1 .. Len(t)
  BY TensorShape
<1>2. CASE comp = "NONE"
  <2>1. p = [comp |-> "NONE", data |-> t]
    BY <1>2 DEF Packed
  <2> QED BY <1>2, <2>1 DEF Unpacked, Exact
<1>3. CASE comp = "FP16"
  <2> DEFINE h == [i \in 1 .. Len(t) |-> Half(t[i])]
  <2>1. p = [comp |-> "FP16", data |-> h]
    BY <1>1, <1>3 DEF Packed
  <2>2. h = [i \in 1 .. Len(t) |-> h[i]]
    OBVIOUS
  <2> HIDE DEF h
  <2>3. Len(h) = Len(t)
    BY <1>1, <2>2, FunctionLength
  <2> QED BY <1>3, <2>1, <2>3 DEF Unpacked, Exact
<1> QED BY <1>2, <1>3

LEMMA Int8Packed ==
  ASSUME NEW t \in Tensor, NEW p \in Packed(t, "INT8")
  PROVE  \E stream \in StreamLength(t) : p = PackInt8(t, stream)
  BY DEF Packed

LEMMA Int8Length ==
  ASSUME NEW t \in Tensor, NEW p \in Packed(t, "INT8")
  PROVE  p.comp = "INT8" /\ Len(Unpacked(p).num) = Len(t)
<1>1. Len(t) \in Nat /\ DOMAIN t = 1 .. Len(t)
  BY TensorShape
<1>2. /\ p.comp = "INT8"
      /\ DOMAIN p.data = 1 .. Len(t)
  <2>1. PICK stream \in StreamLength(t) : p = PackInt8(t, stream)
    BY Int8Packed
  <2>2. p.comp = "INT8" /\ p.data = QuantizeInt8(t)
    BY <2>1 DEF PackInt8
  <2> QED BY <1>1, <2>2 DEF QuantizeInt8
<1> DEFINE q == IF p.original_length # p.compressed_length THEN p.data
                ELSE [i \in DOMAIN p.data |-> 120]
           f == [i \in 1 .. Len(t) |-> (q[i] + 128) * p.range + 255 * p.min]
<1>3. DOMAIN q = 1 .. Len(t)
  BY <1>2
<1>4. Unpacked(p).num = f
  <2>1. Unpacked(p) = UnpackInt8(p)
    BY <1>2 DEF Unpacked
  <2>2. UnpackInt8(p).num = [i \in DOMAIN q |-> (q[i] + 128) * p.range + 255 * p.min]
    BY DEF UnpackInt8
  <2> QED BY <1>3, <2>1, <2>2
<1>5. f = [i \in 1 .. Len(t) |-> f[i]]
  OBVIOUS
<1> HIDE DEF f
<1> QED BY <1>1, <1>2, <1>4, <1>5, FunctionLength

LEMMA BinaryLength ==
  ASSUME NEW t \in Tensor, NEW p \in Packed(t, "BINARY")
  PROVE  p.comp = "BINARY" /\ Len(Unpacked(p).num) = Len(t)
<1>1. Len(t) \in Nat
  BY TensorShape
<1>2. p.comp = "BINARY" /\ p.original_length = Len(t)
  BY DEF Packed, PackBinary
<1> DEFINE f == [i \in 1 .. Len(t) |-> IF p.bits[i] THEN p.abs_sum ELSE -p.abs_sum]
<1>3. Unpacked(p).num = f
  BY <1>2 DEF Unpacked, UnpackBinary, Bits
<1>4. f = [i \in 1 .. Len(t) |-> f[i]]
  OBVIOUS
<1> HIDE DEF f
<1> QED BY <1>1, <1>2, <1>3, <1>4, FunctionLength

LEMMA SparseLength ==
  ASSUME NEW t \in Tensor, NEW p \in Packed(t, "SPARSE")
  PROVE  p.comp = "SPARSE" /\ Len(Unpacked(p).num) = Len(t)
<1>1. Len(t) \in Nat
  BY TensorShape
<1>2. p.comp = "SPARSE" /\ p.original_length = Len(t)
  BY DEF Packed, PackSparse
<1> DEFINE f == [i \in 1 .. Len(t) |-> IF i \in DOMAIN p.values THEN p.values[i] ELSE 0]
<1>3. Unpacked(p).num = f
  BY <1>2 DEF Unpacked, UnpackSparse, Exact
<1>4. f = [i \in 1 .. Len(t) |-> f[i]]
  OBVIOUS
<1> HIDE DEF f
<1> QED BY <1>1, <1>2, <1>3, <1>4, FunctionLength

\* What the outlier codecs send of every value.
Quantized(t, buckets) ==
  LET range == Largest(t) - Smallest(t)
  IN  [i \in DOMAIN t |->
         IF range = 0 THEN 0 ELSE Round((t[i] - Smallest(t)) * buckets, range)]

Buckets(comp) == IF comp = "OUTLIER_INT8" THEN 255 ELSE 15

LEMMA OutlierPacked ==
  ASSUME NEW t \in Tensor, NEW comp \in {"OUTLIER_INT8", "OUTLIER_INT4"},
         NEW p \in Packed(t, comp)
  PROVE  /\ p.comp = comp
         /\ p.buckets = Buckets(comp)
         /\ p.min = Smallest(t)
         /\ p.range = Largest(t) - Smallest(t)
         /\ p.data = IF comp = "OUTLIER_INT4" /\ Len(t) % 2 = 1
                     THEN Append(Quantized(t, Buckets(comp)), 0) ELSE Quantized(t, Buckets(comp))
         /\ p.outliers = [i \in Outliers(t) |-> Half(t[i])]
         /\ Unpacked(p) = UnpackOutlier(p)
<1>1. p = PackOutlier(t, comp, Buckets(comp))
  <2>1. CASE comp = "OUTLIER_INT8"
    BY <2>1 DEF Packed, Buckets
  <2>2. CASE comp = "OUTLIER_INT4"
    BY <2>2 DEF Packed, Buckets
  <2> QED BY <2>1, <2>2
<1>2. Buckets(comp) = 15 <=> comp = "OUTLIER_INT4"
  BY DEF Buckets
<1>3. /\ p.comp = comp
      /\ p.buckets = Buckets(comp)
      /\ p.min = Smallest(t)
      /\ p.range = Largest(t) - Smallest(t)
      /\ p.outliers = [i \in Sent(t) |-> Half(t[i])]
  BY <1>1 DEF PackOutlier
<1>4. p.data = IF Buckets(comp) = 15 /\ Len(t) % 2 = 1
               THEN Append(Quantized(t, Buckets(comp)), 0) ELSE Quantized(t, Buckets(comp))
  BY <1>1 DEF PackOutlier, Quantized
<1>5. Unpacked(p) = UnpackOutlier(p)
  BY <1>3 DEF Unpacked
<1> QED BY <1>2, <1>3, <1>4, <1>5 DEF Sent

\* Only the padding of four bits changes the number of values.
LEMMA OutlierLength ==
  ASSUME NEW t \in Tensor, NEW comp \in {"OUTLIER_INT8", "OUTLIER_INT4"},
         NEW p \in Packed(t, comp), ~(comp = "OUTLIER_INT4" /\ Len(t) % 2 = 1)
  PROVE  p.comp = comp /\ Len(Unpacked(p).num) = Len(t)
<1>1. Len(t) \in Nat /\ DOMAIN t = 1 .. Len(t)
  BY TensorShape
<1>2. /\ p.comp = comp
      /\ p.data = Quantized(t, Buckets(comp))
      /\ Unpacked(p) = UnpackOutlier(p)
  BY OutlierPacked
<1>3. DOMAIN p.data = 1 .. Len(t)
  BY <1>1, <1>2 DEF Quantized
<1> DEFINE f == [i \in 1 .. Len(t) |-> IF i \in DOMAIN p.outliers THEN p.outliers[i] * p.buckets
                                       ELSE p.data[i] * p.range + p.min * p.buckets]
<1>4. Unpacked(p).num = f
  BY <1>2, <1>3 DEF UnpackOutlier
<1>5. f = [i \in 1 .. Len(t) |-> f[i]]
  OBVIOUS
<1> HIDE DEF f
<1> QED BY <1>1, <1>2, <1>4, <1>5, FunctionLength

\* The receiver finds the codec in the payload, and the number of values that was sent.
LEMMA UnpackedLength ==
  ASSUME NEW t \in Tensor, NEW comp \in CompressionType, NEW p \in Packed(t, comp)
  PROVE  /\ p.comp = comp
         /\ ~(comp = "OUTLIER_INT4" /\ Len(t) % 2 = 1) => Len(Unpacked(p).num) = Len(t)
<1>1. CASE comp \in {"NONE", "FP16"}
  BY <1>1, ExactLength
<1>2. CASE comp = "INT8"
  BY <1>2, Int8Length
<1>3. CASE comp = "BINARY"
  BY <1>3, BinaryLength
<1>4. CASE comp = "SPARSE"
  BY <1>4, SparseLength
<1>5. CASE comp \in {"OUTLIER_INT8", "OUTLIER_INT4"}
  BY <1>5, OutlierPacked, OutlierLength
<1> QED BY <1>1, <1>2, <1>3, <1>4, <1>5 DEF CompressionType

-----------------------------------------------------------------------------
(* The invariant.                                                          *)

\* The payload is one of those the packer makes of the tensor, and what is restored
\* is what the unpacker makes of that payload.
CodecInv ==
  /\ tensor \in Tensor
  /\ FORCE_COMPRESSION \in CompressionType \cup {None}
  /\ pc \in {"pack", "unpack", "done", "failed"}
  /\ pc # "pack" => \E comp \in CompressionType : payload \in Packed(tensor, comp)
  /\ pc \in {"done", "failed"} =>
       /\ restored = Unpacked(payload)
       /\ pc = "done" <=> Len(restored.num) = Len(tensor)

LEMMA CodecInit == Init => CodecInv
  BY DEF Init, CodecInv

LEMMA CodecNext == CodecInv /\ [Next]_vars => CodecInv'
<1> SUFFICES ASSUME CodecInv, [Next]_vars PROVE CodecInv'
  OBVIOUS
<1>1. CASE pack_tensor
  <2> DEFINE comp == IF FORCE_COMPRESSION # None THEN FORCE_COMPRESSION
                     ELSE get_optimal_compression(tensor)
  <2>1. comp \in CompressionType
    BY RouterType DEF CodecInv
  <2>2. /\ payload' \in Packed(tensor, comp) /\ pc' = "unpack"
        /\ UNCHANGED <<tensor, FORCE_COMPRESSION>>
    BY <1>1 DEF pack_tensor
  <2> HIDE DEF comp
  <2> QED BY <2>1, <2>2 DEF CodecInv
<1>2. CASE unpack_tensor
  <2>1. /\ pc = "unpack" /\ pc' \in {"done", "failed"}
        /\ restored' = Unpacked(payload)
        /\ pc' = "done" <=> Len(restored'.num) = Len(tensor)
        /\ UNCHANGED <<tensor, FORCE_COMPRESSION, payload>>
    BY <1>2 DEF unpack_tensor
  <2> QED BY <2>1 DEF CodecInv
<1>3. CASE UNCHANGED vars
  BY <1>3 DEF CodecInv, vars
<1> QED BY <1>1, <1>2, <1>3 DEF Next

\* The invariant of packing and unpacking.
THEOREM CodecInvariance == Spec => []CodecInv
  BY CodecInit, CodecNext, PTL DEF Spec

\* Every codec's decoder restores the number of values its encoder was given, except
\* for an odd number in four bits.
THEOREM ShapeIsKept == Spec => []ShapeKept
<1>1. CodecInv => ShapeKept
  <2> SUFFICES ASSUME CodecInv, pc = "failed"
               PROVE  payload.comp = "OUTLIER_INT4" /\ Len(tensor) % 2 = 1
    BY DEF ShapeKept
  <2>1. PICK comp \in CompressionType : payload \in Packed(tensor, comp)
    BY DEF CodecInv
  <2>2. Len(Unpacked(payload).num) # Len(tensor)
    BY DEF CodecInv
  <2>3. tensor \in Tensor
    BY DEF CodecInv
  <2> QED BY <2>1, <2>2, <2>3, UnpackedLength
<1> QED BY <1>1, CodecInvariance, PTL

-----------------------------------------------------------------------------
(* Half floats.                                                            *)

\* The distances of neighbouring half floats.
Ulps == {2 ^ e : e \in 0 .. 15}

\* Of two of them, the smaller divides the larger.
LEMMA UlpsDivide ==
  /\ \A u \in Ulps : u \in Nat \ {0}
  /\ 2 ^ 15 \in Ulps
  /\ \A u, w \in Ulps : u <= w => w = u * (w \div u)
<1>1. Ulps = {1, 2, 4, 8, 16, 32, 64, 128, 256, 512, 1024, 2048, 4096, 8192, 16384, 32768}
  BY DEF Ulps
<1>2. \A u, w \in {1, 2, 4, 8, 16, 32, 64, 128, 256, 512, 1024, 2048, 4096, 8192, 16384, 32768} :
        u <= w => w % u = 0
  OBVIOUS
<1>3. \A u \in Ulps : u \in Nat \ {0}
  BY <1>1
<1>4. 2 ^ 15 \in Ulps
  BY DEF Ulps
<1>5. ASSUME NEW u \in Ulps, NEW w \in Ulps, u <= w PROVE w = u * (w \div u)
  <2>1. w % u = 0
    BY <1>1, <1>2, <1>5
  <2>2. u \in Nat \ {0} /\ w \in Int
    BY <1>3
  <2>3. w \div u \in Int /\ w = u * (w \div u) + (w % u)
    BY <2>2, DivisionFacts
  <2> QED BY <2>1, <2>2, <2>3
<1> QED BY <1>3, <1>4, <1>5

\* Ulp is the least one that suffices for the number of significands.
LEMMA UlpFacts ==
  ASSUME NEW x \in Int
  PROVE  /\ Ulp(x) \in Ulps
         /\ \A u \in Ulps : Absolute(x) < u * HalfSignificands => Ulp(x) <= u
<1> DEFINE S == {u \in Ulps : Absolute(x) < u * HalfSignificands \/ u = 2 ^ 15}
<1>1. S \in SUBSET Nat /\ S # {}
  BY UlpsDivide
<1>2. Ulp(x) = Min(S)
  BY DEF Ulp, Ulps
<1>3. Min(S) \in S /\ \A y \in S : Min(S) <= y
  BY <1>1, MinOfNats
<1> QED BY <1>2, <1>3

\* A half float in the range is off by at most half that distance.
LEMMA HalfNear ==
  ASSUME NEW x \in Int, Absolute(x) <= HalfMax
  PROVE  /\ Half(x) \in Int
         /\ 2 * Absolute(Half(x) - x) <= Ulp(x)
<1> DEFINE u == Ulp(x)
           a == Absolute(x)
           z == Round(a, u)
<1>1. PICK e \in 0 .. 15 : HalfMax = (HalfSignificands - 1) * 2 ^ e
  BY HalfAssumption
<1> DEFINE w == 2 ^ e
<1>2. w \in Ulps
  BY DEF Ulps
<1>3. u \in Ulps /\ (a < w * HalfSignificands => u <= w)
  BY <1>2, UlpFacts
<1>4. u \in Nat \ {0} /\ w \in Nat \ {0}
  BY <1>2, <1>3, UlpsDivide
<1>5. a \in Nat /\ (x >= 0 => a = x) /\ (x < 0 => a = -x)
  BY AbsoluteFacts DEF Absolute
<1>6. z \in Int /\ 2 * (u * z - a) <= u /\ -u <= 2 * (u * z - a)
  BY <1>4, <1>5, RoundNear
<1>7. Half(x) = LET half == IF u * z > HalfMax THEN Infinity ELSE u * z
                IN  IF x < 0 THEN -half ELSE half
  BY DEF Half
<1> HIDE DEF u, a, z, w
<1>8. HalfSignificands \in Nat \ {0} /\ HalfMax = (HalfSignificands - 1) * w
  BY <1>1, HalfAssumption DEF w
<1>9. a <= HalfMax
  BY DEF a
<1>10. u <= w
  <2>1. (HalfSignificands - 1) * w = w * HalfSignificands - w
    BY <1>4, <1>8
  <2>2. w * HalfSignificands \in Int
    BY <1>4, <1>8
  <2> QED BY <1>3, <1>4, <1>5, <1>8, <1>9, <2>1, <2>2
<1>11. u * z <= HalfMax
  <2> DEFINE m == w \div u
             k == (HalfSignificands - 1) * m
  <2>1. m \in Int /\ w = u * m
    BY <1>2, <1>3, <1>4, <1>10, UlpsDivide
  <2> HIDE DEF m
  <2>2. k \in Int /\ HalfMax = k * u
    BY <1>4, <1>8, <2>1
  <2> HIDE DEF k
  <2>3. z <= k
    BY <1>4, <1>5, <1>9, <2>2, RoundBounded DEF z
  <2>4. k - z \in Nat /\ u * (k - z) \in Nat /\ u * (k - z) = k * u - u * z
    BY <1>4, <1>6, <2>2, <2>3
  <2> QED BY <1>4, <1>6, <2>2, <2>4
<1>12. u * z \in Int /\ HalfMax \in Int
  BY <1>4, <1>6, <1>8
<1>13. Half(x) = IF x < 0 THEN -(u * z) ELSE u * z
  BY <1>7, <1>11, <1>12
<1>14. 2 * Absolute(Half(x) - x) <= u
  <2>1. CASE x < 0
    BY <1>4, <1>5, <1>6, <1>12, <1>13, <2>1 DEF Absolute
  <2>2. CASE x >= 0
    BY <1>4, <1>5, <1>6, <1>12, <1>13, <2>2 DEF Absolute
  <2> QED BY <2>1, <2>2
<1> QED BY <1>12, <1>13, <1>14 DEF u

-----------------------------------------------------------------------------
(* Precision.                                                              *)

\* INT8 is off by less than a step unless it reads the stream as data.
LEMMA Int8WithinStep ==
  ASSUME NEW t \in Tensor, NEW p \in Packed(t, "INT8"), NEW i \in DOMAIN t,
         p.original_length # p.compressed_length
  PROVE  Absolute(Unpacked(p).num[i] - t[i] * Unpacked(p).den) <= p.range
<1> DEFINE least == Smallest(t)
           range == Largest(t) - least
           v == t[i]
           q == IF range = 0 THEN 0 ELSE Int8((v - least) * 255 - 128 * range, range)
<1>1. /\ Unpacked(p).num[i] = (q + 128) * range + 255 * least
      /\ Unpacked(p).den = 255
      /\ p.range = range
  <2>1. PICK stream \in StreamLength(t) : p = PackInt8(t, stream)
    BY Int8Packed
  <2>2. /\ p.comp = "INT8" /\ p.data = QuantizeInt8(t)
        /\ p.min = least /\ p.range = range
    BY <2>1 DEF PackInt8
  <2>3. QuantizeInt8(t) = [j \in DOMAIN t |-> IF range = 0 THEN 0
                             ELSE Int8((t[j] - least) * 255 - 128 * range, range)]
    BY DEF QuantizeInt8, Shift
  <2>4. DOMAIN p.data = DOMAIN t /\ p.data[i] = q
    BY <2>2, <2>3
  <2> HIDE DEF q, range, least
  <2>5. Unpacked(p) = UnpackInt8(p)
    BY <2>2 DEF Unpacked
  <2>6. UnpackInt8(p) = [num |-> [j \in DOMAIN p.data |-> (p.data[j] + 128) * p.range + 255 * p.min],
                         den |-> 255]
    BY DEF UnpackInt8
  <2> QED BY <2>2, <2>4, <2>5, <2>6
<1>2. least \in Int /\ range \in Nat /\ v \in Int /\ least <= v /\ v <= least + range
  BY Extremes, TensorShape
<1> HIDE DEF least, v
<1>3. CASE range = 0
  <2>1. v = least /\ q = 0
    BY <1>2, <1>3
  <2>2. (q + 128) * range + 255 * least - v * 255 = 0
    BY <1>2, <1>3, <2>1
  <2> QED BY <1>1, <1>2, <1>3, <2>2 DEF Absolute, v
<1>4. CASE range # 0
  <2> DEFINE a == (v - least) * 255 - 128 * range
  <2>1. q = Int8(a, range)
    BY <1>4
  <2> HIDE DEF q, range
  <2>2. a \in Int /\ range \in Nat \ {0} /\ -(128 * range) <= a /\ a <= 127 * range
    BY <1>2, <1>4
  <2> HIDE DEF a
  <2>3. q \in Int /\ range * q - a < range /\ -range < range * q - a
    BY <2>1, <2>2, Int8Near
  <2>4. (q + 128) * range + 255 * least - v * 255 = range * q - a
    BY <1>2, <2>3 DEF a
  <2>5. range * q - a \in Int
    BY <2>2, <2>3
  <2> QED BY <1>1, <1>2, <2>2, <2>3, <2>4, <2>5 DEF Absolute, v
<1> QED BY <1>3, <1>4

\* The values that the receiver of an outlier codec reads, padding aside.
LEMMA OutlierValues ==
  ASSUME NEW t \in Tensor, NEW comp \in {"OUTLIER_INT8", "OUTLIER_INT4"},
         NEW p \in Packed(t, comp), NEW i \in DOMAIN t
  PROVE  /\ Unpacked(p).den = Buckets(comp)
         /\ Unpacked(p).num[i] =
              IF i \in Outliers(t) THEN Half(t[i]) * Buckets(comp)
              ELSE Quantized(t, Buckets(comp))[i] * p.range + p.min * Buckets(comp)
<1> DEFINE q == Quantized(t, Buckets(comp))
<1>1. Len(t) \in Nat \ {0} /\ DOMAIN t = 1 .. Len(t) /\ \A j \in DOMAIN t : t[j] \in Int
  BY TensorShape
<1>2. q \in Seq(Int) /\ Len(q) = Len(t)
  <2>1. Buckets(comp) \in Int
    BY DEF Buckets
  <2>2. Smallest(t) \in Int /\ Largest(t) - Smallest(t) \in Nat
    <3>1. Smallest(t) \in Int /\ Largest(t) \in Int /\ Smallest(t) <= t[i] /\ t[i] <= Largest(t)
      BY Extremes
    <3> QED BY <1>1, <3>1
  <2> DEFINE range == Largest(t) - Smallest(t)
             f(j) == IF range = 0 THEN 0 ELSE Round((t[j] - Smallest(t)) * Buckets(comp), range)
  <2>3. ASSUME NEW j \in 1 .. Len(t) PROVE f(j) \in Int
    <3>1. (t[j] - Smallest(t)) * Buckets(comp) \in Int
      BY <1>1, <2>1, <2>2
    <3> HIDE DEF range
    <3>2. range # 0 => Round((t[j] - Smallest(t)) * Buckets(comp), range) \in Int
      BY <2>2, <3>1, RoundNear DEF range
    <3> QED BY <3>2
  <2>4. q = [j \in 1 .. Len(t) |-> f(j)]
    BY <1>1 DEF Quantized
  <2> HIDE DEF f, q
  <2>5. q \in [1 .. Len(t) -> Int]
    BY <2>3, <2>4
  <2>6. q \in Seq(Int)
    BY <1>1, <2>5, SeqDef
  <2>7. q = [j \in 1 .. Len(t) |-> q[j]]
    BY <2>5
  <2> QED BY <1>1, <2>6, <2>7, FunctionLength
<1>3. /\ p.buckets = Buckets(comp)
      /\ p.data = IF comp = "OUTLIER_INT4" /\ Len(t) % 2 = 1 THEN Append(q, 0) ELSE q
      /\ p.outliers = [j \in Outliers(t) |-> Half(t[j])]
      /\ Unpacked(p) = UnpackOutlier(p)
  BY OutlierPacked
<1> HIDE DEF q
<1>4. i \in DOMAIN p.data /\ p.data[i] = q[i]
  <2>1. i \in 1 .. Len(q) /\ DOMAIN q = 1 .. Len(q)
    BY <1>1, <1>2, LenProperties
  <2>2. /\ Append(q, 0) \in Seq(Int) /\ Len(Append(q, 0)) = Len(q) + 1
        /\ Append(q, 0)[i] = q[i]
    BY <1>2, <2>1, AppendProperties
  <2>3. DOMAIN Append(q, 0) = 1 .. Len(q) + 1
    BY <2>2, LenProperties
  <2>4. i \in 1 .. Len(q) + 1
    BY <1>1, <1>2, <2>1
  <2> QED BY <1>3, <2>1, <2>2, <2>3, <2>4
<1> QED BY <1>3, <1>4 DEF UnpackOutlier, q

\* The outlier codecs are off by at most half a step, outliers aside.
LEMMA OutlierWithinStep ==
  ASSUME NEW t \in Tensor, NEW comp \in {"OUTLIER_INT8", "OUTLIER_INT4"},
         NEW p \in Packed(t, comp), NEW i \in DOMAIN t \ Outliers(t)
  PROVE  2 * Absolute(Unpacked(p).num[i] - t[i] * Unpacked(p).den) <= p.range
<1> DEFINE least == Smallest(t)
           range == Largest(t) - least
           b == Buckets(comp)
           v == t[i]
           q == IF range = 0 THEN 0 ELSE Round((v - least) * b, range)
           error == Unpacked(p).num[i] - v * Unpacked(p).den
<1>1. error = (q * range + least * b) - v * b /\ p.range = range
  <2>1. p.range = range /\ p.min = least
    BY OutlierPacked
  <2>2. Quantized(t, b)[i] = q
    BY DEF Quantized
  <2>3. Unpacked(p).den = b /\ Unpacked(p).num[i] = Quantized(t, b)[i] * p.range + p.min * b
    BY OutlierValues
  <2>4. Unpacked(p).num[i] = q * range + least * b
    BY <2>1, <2>2, <2>3
  <2> QED BY <2>1, <2>3, <2>4
<1>2. least \in Int /\ range \in Nat /\ v \in Int /\ least <= v /\ v <= least + range
  BY Extremes, TensorShape
<1>3. b \in Nat
  BY DEF Buckets
<1> HIDE DEF least, v, b, error
<1>4. CASE range = 0
  <2>1. v = least /\ q = 0
    BY <1>2, <1>4
  <2>2. (q * range + least * b) - v * b = 0
    BY <1>2, <1>3, <1>4, <2>1
  <2> QED BY <1>1, <1>4, <2>2 DEF Absolute, error, v
<1>5. CASE range # 0
  <2> DEFINE a == (v - least) * b
  <2>1. q = Round(a, range)
    BY <1>5
  <2> HIDE DEF q, range
  <2>2. a \in Int /\ range \in Nat \ {0}
    BY <1>2, <1>3, <1>5
  <2>3. a = v * b - least * b /\ v * b \in Int /\ least * b \in Int
    BY <1>2, <1>3
  <2> HIDE DEF a
  <2>4. q \in Int /\ 2 * (range * q - a) <= range /\ -range <= 2 * (range * q - a)
    BY <2>1, <2>2, RoundNear
  <2>5. range * q \in Int /\ q * range = range * q
    BY <2>2, <2>4
  <2>6. (q * range + least * b) - v * b = range * q - a
    BY <2>2, <2>3, <2>5
  <2>7. error \in Int /\ error = range * q - a
    BY <1>1, <2>2, <2>5, <2>6
  <2>8. 2 * Absolute(error) <= range
    BY <2>2, <2>4, <2>5, <2>7 DEF Absolute
  <2> QED BY <1>1, <2>8 DEF error, v
<1> QED BY <1>4, <1>5

\* Outliers have the precision of a half float.
LEMMA OutlierAsHalf ==
  ASSUME NEW t \in Tensor, NEW comp \in {"OUTLIER_INT8", "OUTLIER_INT4"},
         NEW p \in Packed(t, comp), NEW i \in Outliers(t), Absolute(t[i]) <= HalfMax
  PROVE  2 * Absolute(Unpacked(p).num[i] - t[i] * Unpacked(p).den)
           <= Ulp(t[i]) * Unpacked(p).den
<1> DEFINE v == t[i]
           h == Half(v)
           b == Buckets(comp)
           u == Ulp(v)
<1>1. i \in DOMAIN t /\ v \in Int
  BY TensorShape DEF Outliers
<1>2. Unpacked(p).num[i] = h * b /\ Unpacked(p).den = b
  BY <1>1, OutlierValues
<1>3. h \in Int /\ 2 * Absolute(h - v) <= u
  BY <1>1, HalfNear
<1>4. b \in Nat \ {0}
  BY DEF Buckets
<1>5. u \in Nat \ {0}
  BY <1>1, UlpFacts, UlpsDivide
<1> HIDE DEF v, h, b, u
<1>6. 2 * (h - v) <= u /\ -u <= 2 * (h - v)
  BY <1>1, <1>3, <1>5 DEF Absolute
<1> DEFINE d == h - v
<1>7. d \in Int /\ h * b - v * b = d * b /\ d * b \in Int /\ u * b \in Int
  BY <1>1, <1>3, <1>4, <1>5
<1>8. 2 * d <= u /\ -u <= 2 * d
  BY <1>6
<1> HIDE DEF d
<1>9. 2 * (d * b) <= u * b /\ -(u * b) <= 2 * (d * b)
  <2>1. u - 2 * d \in Nat /\ u + 2 * d \in Nat
    BY <1>5, <1>7, <1>8
  <2>2. (u - 2 * d) * b \in Nat /\ (u - 2 * d) * b = u * b - 2 * (d * b)
    BY <1>4, <1>5, <1>7, <2>1
  <2>3. (u + 2 * d) * b \in Nat /\ (u + 2 * d) * b = u * b + 2 * (d * b)
    BY <1>4, <1>5, <1>7, <2>1
  <2> QED BY <1>7, <2>2, <2>3
<1>10. 2 * Absolute(d * b) <= u * b
  BY <1>7, <1>9 DEF Absolute
<1> QED BY <1>2, <1>7, <1>10 DEF v, u

\* So has every value of a tensor of half floats.
LEMMA AllAsHalf ==
  ASSUME NEW t \in Tensor, NEW p \in Packed(t, "FP16"), NEW i \in DOMAIN t,
         Absolute(t[i]) <= HalfMax
  PROVE  2 * Absolute(Unpacked(p).num[i] - t[i] * Unpacked(p).den)
           <= Ulp(t[i]) * Unpacked(p).den
<1> DEFINE v == t[i]
           h == Half(v)
           u == Ulp(v)
<1>1. v \in Int
  BY TensorShape
<1>2. Unpacked(p).num[i] = h /\ Unpacked(p).den = 1
  <2>1. p = [comp |-> "FP16", data |-> [j \in DOMAIN t |-> Half(t[j])]]
    BY DEF Packed
  <2> QED BY <2>1 DEF Unpacked, Exact
<1>3. h \in Int /\ 2 * Absolute(h - v) <= u
  BY <1>1, HalfNear
<1>4. u \in Nat \ {0}
  BY <1>1, UlpFacts, UlpsDivide
<1> HIDE DEF v, h, u
<1>5. h - v * 1 = h - v /\ u * 1 = u
  BY <1>1, <1>3, <1>4
<1> QED BY <1>2, <1>3, <1>5 DEF v, u

\* No value exceeds six times the largest: the sparse codec sends none.
LEMMA SparseLost ==
  ASSUME NEW t \in Tensor, NEW p \in Packed(t, "SPARSE")
  PROVE  /\ p.values = <<>>
         /\ \A i \in DOMAIN t : Unpacked(p).num[i] = 0
<1> DEFINE sizes == {Absolute(v) : v \in Range(t)}
           max_val == IF \A i \in DOMAIN t : t[i] = 0 THEN 1 ELSE Max(sizes)
           significant == {i \in DOMAIN t : Absolute(t[i]) > 6 * max_val}
<1>1. DOMAIN t = 1 .. Len(t) /\ \A i \in DOMAIN t : t[i] \in Int
  BY TensorShape
<1>2. \A i \in DOMAIN t : Absolute(t[i]) \in Nat /\ (Absolute(t[i]) = 0 <=> t[i] = 0)
  BY <1>1, AbsoluteFacts
<1>3. /\ p.comp = "SPARSE" /\ p.original_length = Len(t)
      /\ p.values = [i \in significant |-> t[i]]
  <2>1. p = PackSparse(t)
    BY DEF Packed
  <2>2. PackSparse(t) = [comp |-> "SPARSE", original_length |-> Len(t),
                         values |-> [i \in significant |-> t[i]]]
    BY DEF PackSparse
  <2> HIDE DEF significant
  <2> QED BY <2>1, <2>2
<1>4. significant = {}
  <2>1. CASE \A i \in DOMAIN t : t[i] = 0
    BY <1>2, <2>1
  <2>2. CASE ~(\A i \in DOMAIN t : t[i] = 0)
    <3>1. max_val = Max(sizes)
      BY <2>2
    <3>2. \A i \in DOMAIN t : Max(sizes) \in Nat /\ Absolute(t[i]) <= Max(sizes)
      BY LargestSize
    <3> HIDE DEF sizes, max_val
    <3>3. ASSUME NEW i \in DOMAIN t PROVE ~(Absolute(t[i]) > 6 * max_val)
      BY <1>2, <3>1, <3>2
    <3> QED BY <3>3
  <2> QED BY <2>1, <2>2
<1> HIDE DEF significant
<1>5. p.values = <<>> /\ DOMAIN p.values = {}
  BY <1>3, <1>4
<1>6. \A i \in 1 .. Len(t) : Unpacked(p).num[i] = 0
  BY <1>3, <1>5 DEF Unpacked, UnpackSparse, Exact
<1> QED BY <1>1, <1>5, <1>6

-----------------------------------------------------------------------------
(* The sum of absolute values, as the recursive function over the subsets  *)
(* of the indices that MapThenSumSet defines.                              *)

Pick(s) == CHOOSE x \in s : TRUE

\* What one step of the recursion adds.
Weight(t, s) == Absolute(t[Pick(s)])

SolvesSum(t, g) ==
  g = [s \in SUBSET DOMAIN t |-> IF s = {} THEN 0 ELSE Weight(t, s) + g[s \ {Pick(s)}]]

\* Picking an element of an index set leaves a smaller one.
LEMMA PickFacts ==
  ASSUME NEW t \in Tensor, NEW s \in SUBSET DOMAIN t
  PROVE  /\ IsFiniteSet(s) /\ Cardinality(s) \in 0 .. Len(t)
         /\ s = {} <=> Cardinality(s) = 0
         /\ s # {} => /\ Pick(s) \in s
                      /\ s \ {Pick(s)} \in SUBSET DOMAIN t
                      /\ Cardinality(s \ {Pick(s)}) = Cardinality(s) - 1
                      /\ Weight(t, s) \in Nat
<1>1. Len(t) \in Nat /\ DOMAIN t = 1 .. Len(t) /\ \A i \in DOMAIN t : t[i] \in Int
  BY TensorShape
<1>2. IsFiniteSet(DOMAIN t) /\ Cardinality(DOMAIN t) = Len(t)
  <2>1. /\ IsFiniteSet(1 .. Len(t))
        /\ Cardinality(1 .. Len(t)) = IF 1 > Len(t) THEN 0 ELSE Len(t) - 1 + 1
    BY <1>1, FS_Interval
  <2> QED BY <1>1, <2>1
<1>3. IsFiniteSet(s) /\ Cardinality(s) \in Nat /\ Cardinality(s) <= Len(t)
  BY <1>2, FS_Subset, FS_CardinalityType
<1>4. s = {} <=> Cardinality(s) = 0
  BY <1>3, FS_EmptySet
<1>5. ASSUME s # {}
      PROVE  /\ Pick(s) \in s
             /\ Cardinality(s \ {Pick(s)}) = Cardinality(s) - 1
             /\ Weight(t, s) \in Nat
  <2>1. Pick(s) \in s
    BY <1>5 DEF Pick
  <2>2. Cardinality(s \ {Pick(s)}) = Cardinality(s) - 1
    BY <1>3, <2>1, FS_RemoveElement
  <2>3. Weight(t, s) \in Nat
    BY <1>1, <2>1, AbsoluteFacts DEF Weight
  <2> QED BY <2>1, <2>2, <2>3
<1> QED BY <1>1, <1>3, <1>4, <1>5

\* The recursion has a solution: one for the sets of up to m indices for every m.
LEMMA SumSolved ==
  ASSUME NEW t \in Tensor
  PROVE  \E g : SolvesSum(t, g)
<1> DEFINE n == Len(t)
           UpTo(m) == {s \in SUBSET DOMAIN t : Cardinality(s) <= m}
           Solves(g, m) ==
             /\ g \in [UpTo(m) -> Nat]
             /\ \A s \in UpTo(m) :
                  g[s] = IF s = {} THEN 0 ELSE Weight(t, s) + g[s \ {Pick(s)}]
           S == {m \in 0 .. n : \E g : Solves(g, m)}
<1>1. n \in Nat
  BY TensorShape
<1>2. \A s \in SUBSET DOMAIN t :
        /\ Cardinality(s) \in 0 .. n
        /\ s = {} <=> Cardinality(s) = 0
        /\ s # {} => /\ s \ {Pick(s)} \in SUBSET DOMAIN t
                     /\ Cardinality(s \ {Pick(s)}) = Cardinality(s) - 1
                     /\ Weight(t, s) \in Nat
  BY PickFacts
<1> HIDE DEF n
<1>3. 0 \in S
  <2> DEFINE g == [s \in UpTo(0) |-> 0]
  <2>1. \A s \in UpTo(0) : s = {}
    <3>1. ASSUME NEW s \in SUBSET DOMAIN t, Cardinality(s) <= 0 PROVE s = {}
      <4>1. Cardinality(s) \in 0 .. n
        BY <1>2
      <4>2. Cardinality(s) = 0
        BY <1>1, <3>1, <4>1
      <4> QED BY <1>2, <4>2
    <3> QED BY <3>1
  <2>2. Solves(g, 0)
    BY <2>1
  <2> HIDE DEF Solves
  <2> QED BY <1>1, <2>2
<1>4. ASSUME NEW m \in 0 .. n, m < n, m \in S PROVE m + 1 \in S
  <2>1. PICK f : Solves(f, m)
    BY <1>4
  <2> DEFINE g == [s \in UpTo(m + 1) |->
                     IF s \in UpTo(m) THEN f[s] ELSE Weight(t, s) + f[s \ {Pick(s)}]]
  <2>2. m + 1 \in 0 .. n
    BY <1>1, <1>4
  <2>3. ASSUME NEW s \in UpTo(m + 1), s # {}
        PROVE  s \ {Pick(s)} \in UpTo(m)
    BY <1>2, <2>2, <2>3
  <2>4. UpTo(m) \subseteq UpTo(m + 1) /\ {} \in UpTo(m)
    <3>1. ASSUME NEW s \in UpTo(m) PROVE s \in UpTo(m + 1)
      <4>1. s \in SUBSET DOMAIN t /\ Cardinality(s) <= m
        OBVIOUS
      <4>2. Cardinality(s) \in 0 .. n
        BY <1>2, <4>1
      <4>3. Cardinality(s) <= m + 1
        BY <1>1, <4>1, <4>2
      <4> QED BY <4>1, <4>3
    <3>2. {} \in SUBSET DOMAIN t /\ Cardinality({}) = 0
      BY <1>2
    <3> QED BY <3>1, <3>2
  <2>5. \A s \in UpTo(m + 1) : s # {} => Weight(t, s) \in Nat
    BY <1>2
  <2>6. /\ f \in [UpTo(m) -> Nat]
        /\ \A s \in UpTo(m) : f[s] = IF s = {} THEN 0 ELSE Weight(t, s) + f[s \ {Pick(s)}]
    BY <2>1
  <2> HIDE DEF UpTo
  <2>7. g \in [UpTo(m + 1) -> Nat]
    <3>1. ASSUME NEW s \in UpTo(m + 1)
          PROVE  (IF s \in UpTo(m) THEN f[s] ELSE Weight(t, s) + f[s \ {Pick(s)}]) \in Nat
      <4>1. CASE s \in UpTo(m)
        BY <2>6, <4>1
      <4>2. CASE s \notin UpTo(m)
        <5>1. s # {}
          BY <2>4, <4>2
        <5>2. f[s \ {Pick(s)}] \in Nat /\ Weight(t, s) \in Nat
          BY <2>3, <2>5, <2>6, <5>1
        <5> QED BY <4>2, <5>2
      <4> QED BY <4>1, <4>2
    <3> QED BY <3>1
  <2>8. ASSUME NEW s \in UpTo(m + 1)
        PROVE  g[s] = IF s = {} THEN 0 ELSE Weight(t, s) + g[s \ {Pick(s)}]
    <3>1. CASE s = {}
      BY <2>4, <2>6, <3>1
    <3>2. CASE s # {}
      <4>1. s \ {Pick(s)} \in UpTo(m)
        BY <2>3, <3>2
      <4>2. g[s \ {Pick(s)}] = f[s \ {Pick(s)}]
        BY <2>4, <4>1
      <4>3. g[s] = Weight(t, s) + f[s \ {Pick(s)}]
        BY <2>6, <3>2
      <4> QED BY <3>2, <4>2, <4>3
    <3> QED BY <3>1, <3>2
  <2> HIDE DEF g
  <2>9. Solves(g, m + 1)
    BY <2>7, <2>8
  <2> HIDE DEF Solves
  <2> QED BY <2>2, <2>9
<1> HIDE DEF S
<1>5. n \in S
  <2>1. \A m \in 0 .. n : m \in S
    BY <1>1, <1>3, <1>4, InductionUpTo
  <2> QED BY <1>1, <2>1
<1>6. PICK g : Solves(g, n)
  BY <1>5 DEF S
<1>7. UpTo(n) = SUBSET DOMAIN t
  <2>1. ASSUME NEW s \in SUBSET DOMAIN t PROVE Cardinality(s) <= n
    <3>1. Cardinality(s) \in 0 .. n
      BY <1>2
    <3> QED BY <1>1, <3>1
  <2> QED BY <2>1
<1>8. g = [s \in SUBSET DOMAIN t |-> IF s = {} THEN 0 ELSE Weight(t, s) + g[s \ {Pick(s)}]]
  BY <1>6, <1>7
<1> QED BY <1>8 DEF SolvesSum

\* SumOf returns what a solution returns for all indices.
LEMMA SumIsSolution ==
  ASSUME NEW t \in Tensor
  PROVE  \E g : SolvesSum(t, g) /\ SumOf(Absolute, t) = g[DOMAIN t]
<1> DEFINE g == CHOOSE f : SolvesSum(t, f)
<1>1. SolvesSum(t, g)
  BY SumSolved
<1>2. SumOf(Absolute, t) =
        (CHOOSE iter :
           iter = [s \in SUBSET DOMAIN t |->
                     IF s = {} THEN 0
                     ELSE Absolute(t[CHOOSE x \in s : TRUE])
                            + iter[s \ {CHOOSE x \in s : TRUE}]])[DOMAIN t]
  BY DEF SumOf, MapThenSumSet, MapThenFoldSet
<1>3. SumOf(Absolute, t) = g[DOMAIN t]
  BY <1>2 DEF SolvesSum, Weight, Pick
<1> QED BY <1>1, <1>3

\* The sum is positive if a value is not zero, and the length times the absolute value
\* that all have in common.
LEMMA SumFacts ==
  ASSUME NEW t \in Tensor
  PROVE  /\ SumOf(Absolute, t) \in Nat
         /\ (\E i \in DOMAIN t : t[i] # 0) => SumOf(Absolute, t) > 0
         /\ \A k \in Nat : (\A i \in DOMAIN t : Absolute(t[i]) = k) =>
                            SumOf(Absolute, t) = k * Len(t)
<1>1. PICK g : SolvesSum(t, g) /\ SumOf(Absolute, t) = g[DOMAIN t]
  BY SumIsSolution
<1> DEFINE n == Len(t)
           Good(s) ==
             /\ g[s] \in Nat
             /\ (\E i \in s : t[i] # 0) => g[s] > 0
             /\ \A k \in Nat : (\A i \in s : Absolute(t[i]) = k) => g[s] = k * Cardinality(s)
           S == {m \in 0 .. n : \A s \in SUBSET DOMAIN t : Cardinality(s) = m => Good(s)}
<1>2. n \in Nat /\ DOMAIN t = 1 .. n /\ \A i \in DOMAIN t : t[i] \in Int
  BY TensorShape
<1>3. \A s \in SUBSET DOMAIN t :
        /\ Cardinality(s) \in 0 .. n
        /\ s = {} <=> Cardinality(s) = 0
        /\ s # {} => /\ Pick(s) \in s
                     /\ s \ {Pick(s)} \in SUBSET DOMAIN t
                     /\ Cardinality(s \ {Pick(s)}) = Cardinality(s) - 1
                     /\ Weight(t, s) \in Nat
  BY PickFacts
<1>4. \A s \in SUBSET DOMAIN t :
        g[s] = IF s = {} THEN 0 ELSE Weight(t, s) + g[s \ {Pick(s)}]
  BY <1>1 DEF SolvesSum
<1> HIDE DEF n
<1>5. 0 \in S
  <2>1. ASSUME NEW s \in SUBSET DOMAIN t, Cardinality(s) = 0 PROVE Good(s)
    <3>1. s = {} /\ g[s] = 0
      BY <1>3, <1>4, <2>1
    <3> QED BY <2>1, <3>1
  <2> HIDE DEF Good
  <2> QED BY <1>2, <2>1
<1>6. ASSUME NEW m \in 0 .. n, m < n, m \in S PROVE m + 1 \in S
  <2>1. ASSUME NEW s \in SUBSET DOMAIN t, Cardinality(s) = m + 1 PROVE Good(s)
    <3> DEFINE x == Pick(s)
               r == s \ {x}
    <3>1. s # {} /\ x \in s /\ r \in SUBSET DOMAIN t /\ Cardinality(r) = m
      <4>1. s # {}
        BY <1>3, <2>1
      <4> QED BY <1>3, <2>1, <4>1
    <3>2. Good(r)
      <4> HIDE DEF Good, r
      <4> QED BY <1>6, <3>1
    <3>3. g[s] = Absolute(t[x]) + g[r]
      BY <1>4, <3>1 DEF Weight
    <3>4. t[x] \in Int /\ Absolute(t[x]) \in Nat /\ (Absolute(t[x]) = 0 <=> t[x] = 0)
      BY <1>2, <3>1, AbsoluteFacts
    <3>5. s = r \cup {x}
      BY <3>1
    <3> HIDE DEF x, r
    <3>6. g[s] \in Nat
      BY <3>2, <3>3, <3>4
    <3>7. ASSUME NEW i \in s, t[i] # 0 PROVE g[s] > 0
      <4>1. CASE i = x
        BY <3>2, <3>3, <3>4, <3>7, <4>1
      <4>2. CASE i \in r
        BY <3>2, <3>3, <3>4, <3>7, <4>2
      <4> QED BY <3>5, <4>1, <4>2
    <3>8. ASSUME NEW k \in Nat, \A i \in s : Absolute(t[i]) = k
          PROVE  g[s] = k * Cardinality(s)
      <4>1. g[r] = k * m
        BY <3>1, <3>2, <3>5, <3>8
      <4>2. g[s] = k + k * m
        BY <3>1, <3>3, <3>8, <4>1
      <4> QED BY <2>1, <4>2
    <3> QED BY <3>6, <3>7, <3>8
  <2>2. m + 1 \in 0 .. n
    BY <1>2, <1>6
  <2> HIDE DEF Good
  <2> QED BY <2>1, <2>2
<1> HIDE DEF S
<1>7. n \in S
  <2>1. \A m \in 0 .. n : m \in S
    BY <1>2, <1>5, <1>6, InductionUpTo
  <2> QED BY <1>2, <2>1
<1>8. Cardinality(DOMAIN t) = n
  BY <1>2, FS_Interval
<1>9. Good(DOMAIN t)
  <2> HIDE DEF Good
  <2> QED BY <1>7, <1>8 DEF S
<1> QED BY <1>1, <1>8, <1>9 DEF n

\* BINARY restores signs, and a tensor whose values differ in nothing else.
LEMMA BinarySigns ==
  ASSUME NEW t \in Tensor, NEW p \in Packed(t, "BINARY"), NEW i \in DOMAIN t
  PROVE  /\ t[i] > 0 => Unpacked(p).num[i] > 0
         /\ t[i] < 0 => Unpacked(p).num[i] < 0
         /\ (\A j, k \in DOMAIN t : Absolute(t[j]) = Absolute(t[k])) =>
              Unpacked(p).num[i] = t[i] * Unpacked(p).den
<1> DEFINE n == Len(t)
           sum == SumOf(Absolute, t)
<1>1. n \in Nat \ {0} /\ DOMAIN t = 1 .. n /\ t[i] \in Int
  BY TensorShape
<1>2. i \in 1 .. 8 * ((n + 7) \div 8)
  <2> HIDE DEF n
  <2>1. n + 7 \in Int /\ 8 \in Nat \ {0}
    BY <1>1
  <2>2. /\ (n + 7) \div 8 \in Int /\ (n + 7) % 8 \in 0 .. 8 - 1
        /\ n + 7 = 8 * ((n + 7) \div 8) + ((n + 7) % 8)
    BY <2>1, DivisionFacts
  <2>3. n <= 8 * ((n + 7) \div 8)
    BY <1>1, <2>2
  <2> QED BY <1>1, <2>2, <2>3
<1>3. p.comp = "BINARY" /\ p.original_length = n /\ p.abs_sum = sum
  BY DEF Packed, PackBinary
<1>4. p.bits[i] = (t[i] > 0)
  <2>1. p.bits = [j \in 1 .. 8 * ((n + 7) \div 8) |-> j \in DOMAIN t /\ Positive(t[j])]
    BY DEF Packed, PackBinary
  <2> QED BY <1>1, <1>2, <2>1 DEF Positive
<1>5. /\ Unpacked(p).num[i] = IF t[i] > 0 THEN sum ELSE -sum
      /\ Unpacked(p).den = n
  BY <1>1, <1>3, <1>4 DEF Unpacked, UnpackBinary, Bits
<1>6. /\ sum \in Nat
      /\ t[i] # 0 => sum > 0
      /\ \A k \in Nat : (\A j \in DOMAIN t : Absolute(t[j]) = k) => sum = k * n
  BY SumFacts
<1> HIDE DEF n, sum
<1>7. t[i] > 0 => Unpacked(p).num[i] > 0
  BY <1>1, <1>5, <1>6
<1>8. t[i] < 0 => Unpacked(p).num[i] < 0
  BY <1>1, <1>5, <1>6
<1>9. ASSUME \A j, k \in DOMAIN t : Absolute(t[j]) = Absolute(t[k])
      PROVE  Unpacked(p).num[i] = t[i] * Unpacked(p).den
  <2> DEFINE a == Absolute(t[i])
  <2>1. a \in Nat /\ (t[i] > 0 => a = t[i]) /\ (~(t[i] > 0) => a = -t[i])
    BY <1>1 DEF Absolute
  <2>2. sum = a * n
    BY <1>6, <1>9, <2>1
  <2> HIDE DEF a
  <2>3. CASE t[i] > 0
    BY <1>1, <1>5, <2>1, <2>2, <2>3
  <2>4. CASE ~(t[i] > 0)
    <3>1. Unpacked(p).num[i] = -(a * n)
      BY <1>5, <2>2, <2>4
    <3>2. t[i] = -a
      BY <1>1, <2>1, <2>4
    <3>3. -(a * n) = (-a) * n
      BY <1>1, <2>1
    <3> QED BY <1>5, <3>1, <3>2, <3>3
  <2> QED BY <2>3, <2>4
<1> QED BY <1>7, <1>8, <1>9

-----------------------------------------------------------------------------
(* What arrives.                                                           *)

\* A decoded tensor is what the codec that the payload names made of the tensor.
LEMMA DoneFacts ==
  ASSUME CodecInv, pc = "done"
  PROVE  /\ tensor \in Tensor
         /\ payload.comp \in CompressionType
         /\ payload \in Packed(tensor, payload.comp)
         /\ restored = Unpacked(payload)
<1>1. tensor \in Tensor /\ restored = Unpacked(payload)
  BY DEF CodecInv
<1>2. PICK comp \in CompressionType : payload \in Packed(tensor, comp)
  BY DEF CodecInv
<1>3. payload.comp = comp
  BY <1>1, <1>2, UnpackedLength
<1> QED BY <1>1, <1>2, <1>3

\* The codecs that quantise move no value by more than a step of their scale, or half a
\* step if they round: for every tensor of integers and not only those of the instance.
THEOREM ValuesStayWithinStep == Spec => []QuantisedWithinStep
<1>1. CodecInv => QuantisedWithinStep
  <2> SUFFICES ASSUME CodecInv, pc = "done", NEW i \in DOMAIN tensor
               PROVE  LET error == Absolute(restored.num[i] - tensor[i] * restored.den) IN
                      /\ payload.comp = "INT8"
                           /\ payload.original_length # payload.compressed_length
                           => error <= payload.range
                      /\ payload.comp \in {"OUTLIER_INT8", "OUTLIER_INT4"}
                           /\ i \notin Outliers(tensor)
                           => 2 * error <= payload.range
    BY DEF QuantisedWithinStep
  <2>1. /\ tensor \in Tensor
        /\ payload \in Packed(tensor, payload.comp)
        /\ restored = Unpacked(payload)
    BY DoneFacts
  <2>2. ASSUME payload.comp = "INT8", payload.original_length # payload.compressed_length
        PROVE  Absolute(restored.num[i] - tensor[i] * restored.den) <= payload.range
    BY <2>1, <2>2, Int8WithinStep
  <2>3. ASSUME payload.comp \in {"OUTLIER_INT8", "OUTLIER_INT4"}, i \notin Outliers(tensor)
        PROVE  2 * Absolute(restored.num[i] - tensor[i] * restored.den) <= payload.range
    BY <2>1, <2>3, OutlierWithinStep
  <2> QED BY <2>2, <2>3
<1> QED BY <1>1, CodecInvariance, PTL

\* Whatever is sent as a half float arrives as the nearest one, unless it overflows.
THEOREM HalvesArrive == Spec => []HalvesKept
<1>1. CodecInv => HalvesKept
  <2> SUFFICES ASSUME CodecInv, pc = "done", NEW i \in DOMAIN tensor,
                      Absolute(tensor[i]) <= HalfMax,
                      \/ payload.comp = "FP16"
                      \/ payload.comp \in {"OUTLIER_INT8", "OUTLIER_INT4"} /\ i \in Outliers(tensor)
               PROVE  2 * Absolute(restored.num[i] - tensor[i] * restored.den)
                        <= Ulp(tensor[i]) * restored.den
    BY DEF HalvesKept
  <2>1. /\ tensor \in Tensor
        /\ payload \in Packed(tensor, payload.comp)
        /\ restored = Unpacked(payload)
    BY DoneFacts
  <2>2. CASE payload.comp = "FP16"
    BY <2>1, <2>2, AllAsHalf
  <2>3. CASE payload.comp \in {"OUTLIER_INT8", "OUTLIER_INT4"} /\ i \in Outliers(tensor)
    BY <2>1, <2>3, OutlierAsHalf
  <2> QED BY <2>2, <2>3
<1> QED BY <1>1, CodecInvariance, PTL

\* SPARSE is given the compression level, 6, for its threshold, and loses every tensor:
\* what the run of TensorRestored shows of one holds of all.
SparseLosesAll ==
  pc = "done" /\ payload.comp = "SPARSE" =>
    /\ payload.values = <<>>
    /\ \A i \in DOMAIN tensor : restored.num[i] = 0

\* The threshold of the sparse codec exceeds every value.
THEOREM SparseTensorsAreLost == Spec => []SparseLosesAll
<1>1. CodecInv => SparseLosesAll
  <2> SUFFICES ASSUME CodecInv, pc = "done", payload.comp = "SPARSE"
               PROVE  /\ payload.values = <<>>
                      /\ \A i \in DOMAIN tensor : restored.num[i] = 0
    BY DEF SparseLosesAll
  <2>1. /\ tensor \in Tensor
        /\ payload \in Packed(tensor, "SPARSE")
        /\ restored = Unpacked(payload)
    BY DoneFacts
  <2> QED BY <2>1, SparseLost
<1> QED BY <1>1, CodecInvariance, PTL

\* BINARY tells the signs apart, and restores what differs in nothing else.
THEOREM SignsArrive == Spec => []SignsKept
<1>1. CodecInv => SignsKept
  <2> SUFFICES ASSUME CodecInv, pc = "done", payload.comp = "BINARY"
               PROVE  /\ \A i \in DOMAIN tensor : tensor[i] > 0 => restored.num[i] > 0
                      /\ \A i \in DOMAIN tensor : tensor[i] < 0 => restored.num[i] < 0
                      /\ (\A i, j \in DOMAIN tensor : Absolute(tensor[i]) = Absolute(tensor[j])) =>
                           \A i \in DOMAIN tensor : restored.num[i] = tensor[i] * restored.den
    BY DEF SignsKept
  <2>1. /\ tensor \in Tensor
        /\ payload \in Packed(tensor, "BINARY")
        /\ restored = Unpacked(payload)
    BY DoneFacts
  <2> QED BY <2>1, BinarySigns
<1> QED BY <1>1, CodecInvariance, PTL
=============================================================================
