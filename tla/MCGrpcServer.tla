---------------------------- MODULE MCGrpcServer ----------------------------
(* Small instances of GrpcServer for TLC.                                  *)
EXTENDS GrpcServer, TLC

CONSTANTS q1, q2, common, infer, live, ready, c1, c2, c3

OneCommon == <<live>>
TwoCommon == <<live, ready>>

InferOnce == (c1 :> infer)
InferTwice == (c1 :> infer @@ c2 :> infer)
InferAndLive == (c1 :> infer @@ c2 :> live)
InferTwiceAndLive == (c1 :> infer @@ c2 :> infer @@ c3 :> live)

(* Bounds of the runs: what is explored beyond these is left to another.   *)
RaceFree == "data_race" \notin faults
ServingOnly == BeforeStop /\ RaceFree

(* The inference queues are alike.                                         *)
QueueSymmetry == Permutations(InferQueues)
=============================================================================
