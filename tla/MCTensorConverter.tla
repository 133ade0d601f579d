------------------------- MODULE MCTensorConverter --------------------------
(* TensorConverter with an int of 3 bits, an unsigned int of 3 and a       *)
(* size_t of 5: every width still overflows, and dimensions reach from     *)
(* zero to the largest size.  The NUL of a String is its first char or its *)
(* second, which is in the buffer or behind it, depending on the shape.    *)
EXTENDS TensorConverter

CONSTANTS MaxRank, MaxTensors

Dims == {0, 1, 2, 3, SizeRange \div 2, SizeRange - 1}
Shapes == UNION {[1..n -> Dims] : n \in 0..MaxRank}
TensorSet == [shape : Shapes, datatype : {"Fp32", "Fp16"}, nul : {0}]
             \cup [shape : Shapes, datatype : {"String"}, nul : {0, 1}]
InputLists == UNION {[1..n -> TensorSet] : n \in 0..MaxTensors}
=============================================================================
