--------------------------- MODULE MCGrpcExample ----------------------------
(* GrpcExample with three runs of the client program, and an object for    *)
(* each of them beside the one that listens at the end.                    *)
EXTENDS GrpcExample

CONSTANTS c1, c2, c3

ThreeRuns == {c1, c2, c3}
=============================================================================
