----------------------------- MODULE TensorCodec -----------------------------
(***************************************************************************)
(* What a tensor becomes on its way to the next stage: pack_tensor and     *)
(* unpack_tensor (pipeline/utils.py), the router and the codecs of         *)
(* compression_lab/tensor_compression_new.py.                              *)
(*                                                                         *)
(* A tensor is a nonempty sequence of integers, its values in some unit.   *)
(* A decoded tensor is a sequence of numerators with one denominator, the  *)
(* float32 arithmetic being exact here; the constants 1e-7 and 1e-6 that   *)
(* keep the code from dividing by zero are left out.  The byte layout is   *)
(* a record; zstandard and zlib give back what they were given, but the    *)
(* length of a zlib stream matters to one codec.                           *)
(***************************************************************************)
EXTENDS Integers, SequencesExt

CONSTANTS
  Tensor,             \* the tensors packed
  None,               \* no override
  HalfSignificands,   \* of float16: values of the significand, 2048,
  HalfMax,            \* largest value, 65504,
  Infinity            \* and a number beyond all values in its stead

CompressionType ==
  {"NONE", "FP16", "INT8", "BINARY", "SPARSE", "OUTLIER_INT8", "OUTLIER_INT4"}

ASSUME TensorAssumption == \A t \in Tensor : t \in Seq(Int) /\ t # <<>>
ASSUME OverrideAssumption == None \notin CompressionType
ASSUME HalfAssumption ==
  /\ HalfSignificands \in Nat \ {0}
  /\ \E e \in 0 .. 15 : HalfMax = (HalfSignificands - 1) * 2 ^ e
  /\ Infinity \in Nat /\ Infinity > HalfMax
  /\ \A t \in Tensor : \A i \in DOMAIN t : Infinity > t[i] /\ Infinity > -t[i]

VARIABLES
  pc,
  tensor,
  FORCE_COMPRESSION,
  payload,
  restored

vars == <<pc, tensor, FORCE_COMPRESSION, payload, restored>>

-----------------------------------------------------------------------------
(* Arithmetic.                                                             *)

Absolute(x) == IF x < 0 THEN -x ELSE x

\* a / b for b > 0, to the nearest integer, ties to even: np.round.
Round(a, b) ==
  LET q == a \div b
      r == a % b
  IN  IF 2 * r < b \/ (2 * r = b /\ q % 2 = 0) THEN q ELSE q + 1

\* a / b for b > 0, towards zero, in eight bits: astype(np.int8).
Int8(a, b) ==
  LET q == IF a < 0 THEN -((-a) \div b) ELSE a \div b
  IN  ((q + 128) % 256) - 128

\* The distance of neighbouring half floats at x, for any x in their range.
Ulp(x) ==
  Min({u \in {2 ^ e : e \in 0 .. 15} : Absolute(x) < u * HalfSignificands \/ u = 2 ^ 15})

\* astype(np.float16).
Half(x) ==
  LET size == Ulp(x) * Round(Absolute(x), Ulp(x))
      half == IF size > HalfMax THEN Infinity ELSE size
  IN  IF x < 0 THEN -half ELSE half

Smallest(t) == Min(Range(t))
Largest(t) == Max(Range(t))
SumOf(f(_), t) == MapThenSumSet(LAMBDA i : f(t[i]), DOMAIN t)
Sum(t) == SumOf(LAMBDA v : v, t)

\* The square of n times the standard deviation.
Spread(t) == Len(t) * SumOf(LAMBDA v : v * v, t) - Sum(t) * Sum(t)

\* |v| > |mean| + 3 * std.
Outliers(t) ==
  {i \in DOMAIN t :
     LET d == Len(t) * Absolute(t[i]) - Absolute(Sum(t))
     IN  d > 0 /\ d * d > 9 * Spread(t)}

\* (max - min) / std > factor.
RangeExceeds(t, factor) ==
  LET range == Len(t) * (Largest(t) - Smallest(t))
  IN  range > 0 /\ (range * range - 1) \div (factor * factor) >= Spread(t)

-----------------------------------------------------------------------------
(* The router.                                                             *)

get_optimal_compression(t) ==
  LET zeros == Cardinality({i \in DOMAIN t : t[i] = 0})
      outlier_count == Cardinality(Outliers(t))
  IN  CASE 10 * zeros > 3 * Len(t) -> "SPARSE"
        [] OTHER ->
      CASE Cardinality(Range(t)) <= 2 -> "BINARY"
        [] OTHER ->
      CASE outlier_count > 0 /\ 20 * outlier_count < Len(t) ->
             IF RangeExceeds(t, 1000) THEN "OUTLIER_INT8" ELSE "OUTLIER_INT4"
        [] OTHER -> IF RangeExceeds(t, 100) THEN "INT8" ELSE "FP16"

-----------------------------------------------------------------------------
(* The codecs.  The payload's first field is pack_tensor's header byte.    *)

Exact(t) == [num |-> t, den |-> 1]

\* Mutant: values are not shifted into the range of int8.
Unshifted(range) == 0

Shift(range) == 128 * range

\* To 256 levels.
QuantizeInt8(t) ==
  LET range == Largest(t) - Smallest(t)
  IN  [i \in DOMAIN t |-> IF range = 0 THEN 0
                          ELSE Int8((t[i] - Smallest(t)) * 255 - Shift(range), range)]

PackInt8(t, stream) ==
  [comp |-> "INT8", original_length |-> Len(t), compressed_length |-> stream,
   data |-> QuantizeInt8(t), min |-> Smallest(t), range |-> Largest(t) - Smallest(t)]

\* Whether the data was compressed is told from the lengths.  When they agree the
\* zlib stream itself is read, of which only the first byte is certain.
UnpackInt8(p) ==
  LET q == IF p.original_length # p.compressed_length THEN p.data
           ELSE [i \in DOMAIN p.data |-> 120]
  IN  [num |-> [i \in DOMAIN q |-> (q[i] + 128) * p.range + 255 * p.min], den |-> 255]

\* Mutant: every value but zero counts as positive.
Nonzero(v) == v # 0

Positive(v) == v > 0

\* One bit per value, padded to whole bytes.
PackBinary(t) ==
  [comp |-> "BINARY", original_length |-> Len(t), abs_sum |-> SumOf(Absolute, t),
   bits |-> [i \in 1 .. 8 * ((Len(t) + 7) \div 8) |-> i \in DOMAIN t /\ Positive(t[i])]]

\* Mutant: the padding is not cut off.
AllBits(p) == DOMAIN p.bits

Bits(p) == 1 .. p.original_length

\* Plus or minus the mean of the absolute values.
UnpackBinary(p) ==
  [num |-> [i \in Bits(p) |-> IF p.bits[i] THEN p.abs_sum ELSE -p.abs_sum],
   den |-> p.original_length]

\* compress passes the compression level, 6, as the threshold.
PackSparse(t) ==
  LET max_val == IF \A i \in DOMAIN t : t[i] = 0 THEN 1
                 ELSE Max({Absolute(v) : v \in Range(t)})
      significant == {i \in DOMAIN t : Absolute(t[i]) > 6 * max_val}
  IN  [comp |-> "SPARSE", original_length |-> Len(t),
       values |-> [i \in significant |-> t[i]]]

UnpackSparse(p) ==
  Exact([i \in 1 .. p.original_length |->
           IF i \in DOMAIN p.values THEN p.values[i] ELSE 0])

\* Mutant: the outliers are masked, but their values are not sent.
SentNone(t) == {}

Sent(t) == Outliers(t)

\* All values in buckets + 1 levels, the outliers once more as half floats.  With
\* four bits an odd number of values is padded.
PackOutlier(t, comp, buckets) ==
  LET range == Largest(t) - Smallest(t)
      quantized == [i \in DOMAIN t |->
                      IF range = 0 THEN 0 ELSE Round((t[i] - Smallest(t)) * buckets, range)]
  IN  [comp |-> comp, min |-> Smallest(t), range |-> range, buckets |-> buckets,
       data |-> IF buckets = 15 /\ Len(t) % 2 = 1 THEN Append(quantized, 0) ELSE quantized,
       outliers |-> [i \in Sent(t) |-> Half(t[i])]]

UnpackOutlier(p) ==
  [num |-> [i \in DOMAIN p.data |->
              IF i \in DOMAIN p.outliers THEN p.outliers[i] * p.buckets
              ELSE p.data[i] * p.range + p.min * p.buckets],
   den |-> p.buckets]

\* The possible lengths of a zlib stream, as far as they matter: that of the data,
\* which a stream of at least nine bytes may have by accident, or another one.
StreamLength(t) == {Len(t) + 11} \cup (IF Len(t) < 9 THEN {} ELSE {Len(t)})

Packed(t, comp) ==
  CASE comp = "NONE" -> {[comp |-> comp, data |-> t]}
    [] comp = "FP16" -> {[comp |-> comp, data |-> [i \in DOMAIN t |-> Half(t[i])]]}
    [] comp = "INT8" -> {PackInt8(t, stream) : stream \in StreamLength(t)}
    [] comp = "BINARY" -> {PackBinary(t)}
    [] comp = "SPARSE" -> {PackSparse(t)}
    [] comp = "OUTLIER_INT8" -> {PackOutlier(t, comp, 255)}
    [] comp = "OUTLIER_INT4" -> {PackOutlier(t, comp, 15)}

Unpacked(p) ==
  CASE p.comp \in {"NONE", "FP16"} -> Exact(p.data)
    [] p.comp = "INT8" -> UnpackInt8(p)
    [] p.comp = "BINARY" -> UnpackBinary(p)
    [] p.comp = "SPARSE" -> UnpackSparse(p)
    [] p.comp \in {"OUTLIER_INT8", "OUTLIER_INT4"} -> UnpackOutlier(p)

-----------------------------------------------------------------------------
Init ==
  /\ pc = "pack"
  /\ tensor \in Tensor
  /\ FORCE_COMPRESSION \in CompressionType \cup {None}
  /\ payload = None /\ restored = None

pack_tensor ==
  /\ pc = "pack"
  /\ payload' \in Packed(tensor, IF FORCE_COMPRESSION # None THEN FORCE_COMPRESSION
                                 ELSE get_optimal_compression(tensor))
  /\ pc' = "unpack"
  /\ UNCHANGED <<tensor, FORCE_COMPRESSION, restored>>

\* reshape raises unless the number of elements is that of the tensor's shape.
unpack_tensor ==
  /\ pc = "unpack"
  /\ restored' = Unpacked(payload)
  /\ pc' = IF Len(restored'.num) = Len(tensor) THEN "done" ELSE "failed"
  /\ UNCHANGED <<tensor, FORCE_COMPRESSION, payload>>

Next == pack_tensor \/ unpack_tensor

Spec == Init /\ [][Next]_vars

-----------------------------------------------------------------------------
\* The receiver gets a tensor of the shape that was sent, except for an odd number
\* of values in four bits, whose padding nobody cuts off.
ShapeKept ==
  pc = "failed" => payload.comp = "OUTLIER_INT4" /\ Len(tensor) % 2 = 1

\* Quantisation moves no value by more than one step of the codec's scale, and by
\* half a step if it rounds, outliers aside; for INT8 unless its length is
\* mistaken for that of uncompressed data.
QuantisedWithinStep ==
  pc = "done" => \A i \in DOMAIN tensor :
    LET error == Absolute(restored.num[i] - tensor[i] * restored.den) IN
    /\ payload.comp = "INT8" /\ payload.original_length # payload.compressed_length
         => error <= payload.range
    /\ payload.comp \in {"OUTLIER_INT8", "OUTLIER_INT4"} /\ i \notin Outliers(tensor)
         => 2 * error <= payload.range

\* A value that is sent as a half float, as an outlier is however coarse the scale
\* of the rest, arrives as the nearest one if it is in their range.
HalvesKept ==
  pc = "done" => \A i \in DOMAIN tensor :
    /\ \/ payload.comp = "FP16"
       \/ payload.comp \in {"OUTLIER_INT8", "OUTLIER_INT4"} /\ i \in Outliers(tensor)
    /\ Absolute(tensor[i]) <= HalfMax
    => 2 * Absolute(restored.num[i] - tensor[i] * restored.den) <= Ulp(tensor[i]) * restored.den

\* One bit tells the sign of every value, and restores a tensor that has no more
\* than that to tell.
SignsKept ==
  pc = "done" /\ payload.comp = "BINARY" =>
    /\ \A i \in DOMAIN tensor : tensor[i] > 0 => restored.num[i] > 0
    /\ \A i \in DOMAIN tensor : tensor[i] < 0 => restored.num[i] < 0
    /\ (\A i, j \in DOMAIN tensor : Absolute(tensor[i]) = Absolute(tensor[j])) =>
         \A i \in DOMAIN tensor : restored.num[i] = tensor[i] * restored.den

-----------------------------------------------------------------------------
\* utils.py:74: unpack_tensor restores the tensor.  The least that means without
\* an override: it returns, and not everything it returns is lost.
TensorRestored ==
  FORCE_COMPRESSION = None =>
    /\ pc # "failed"
    /\ pc = "done" /\ (\E i \in DOMAIN tensor : tensor[i] # 0) =>
         \E i \in DOMAIN tensor : restored.num[i] # 0
=============================================================================
