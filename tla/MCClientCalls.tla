--------------------------- MODULE MCClientCalls ----------------------------
(* Small instances of ClientCalls for TLC: the example programs, two at a  *)
(* time.                                                                   *)
EXTENDS ClientCalls

CONSTANTS u1, u2, w1, common

Examples == INSTANCE ClientExamples

ModelPrograms == [u \in {u1, u2} |->
    IF u = u1 THEN Examples!ModelInfo ELSE Examples!ModelInfer]
ServerPrograms == [u \in {u1, u2} |->
    IF u = u1 THEN Examples!ServerInfo ELSE Examples!SimpleInference]
=============================================================================
