------------------------------ MODULE MCCodec ------------------------------
(***************************************************************************)
(* Instances of the codec for TLC: all short tensors over a few values, and *)
(* tensors long enough for an outlier to be rare, odd and even.             *)
(***************************************************************************)
EXTENDS TensorCodec

Short == UNION {[1 .. n -> {-5, -1, 0, 1, 4, 40}] : n \in 1 .. 4}

\* Small values with two others in front, of either sign, one of which may be
\* beyond the largest half float of the instance.
Long ==
  {[i \in 1 .. n |-> IF i = 1 THEN first ELSE IF i = 2 THEN second ELSE 1 + (i % 3)] :
     n \in {21, 22, 41, 42}, first \in {-90, 2, 90, 100, 200}, second \in {-90, 2, 90}}

ShortAndLong == Short \cup Long
=============================================================================
