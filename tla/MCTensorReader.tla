--------------------------- MODULE MCTensorReader ---------------------------
(* TensorReader with an unsigned int of 3 bits and a size_t of 5, for all  *)
(* responses of at most MaxOutputs outputs of at most MaxRank dimensions,  *)
(* from the smallest to the largest int64.  "BYTES" is the name that other *)
(* servers give to strings.                                                *)
EXTENDS TensorReader

CONSTANTS MaxRank, MaxOutputs

Dims == {-(SizeRange \div 2), -1, 0, 1, 2, 3, SizeRange \div 2 - 1}
Shapes == UNION {[1..n -> Dims] : n \in 0..MaxRank}
WireNames == Names \cup {"BYTES"}
Several == {"INT8", "UINT16", "FP64", "BYTES"}
ResponseLists ==
    [1..1 -> [shape : Shapes, datatype : WireNames]]
        \cup UNION {[1..n -> [shape : Shapes, datatype : Several]] : n \in 0..MaxOutputs}
=============================================================================
