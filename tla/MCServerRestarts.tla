-------------------------- MODULE MCServerRestarts --------------------------
(* Small instances of ServerRestarts for TLC.                              *)
EXTENDS ServerRestarts, TLC

CONSTANTS q1, common, infer, live, c1, c2

OneCommon == <<live>>
InferAndLive == (c1 :> infer @@ c2 :> live)

(* tie_server --restart_server, and nothing else.                          *)
RestartLine == {[flags |-> [f \in {"restart", "console", "file", "http", "grpc"} |->
                              IF f = "restart" THEN "true" ELSE "absent"],
                 options |-> {}, valid |-> TRUE]}

(* Two rounds with a signal for each, which may come at any moment of the *)
(* round; behind a race on the map nothing is promised.                    *)
TwoRounds == starts <= 2 /\ raised <= starts /\ ~Raced
=============================================================================
