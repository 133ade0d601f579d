--------------------------- MODULE ClientExamples ---------------------------
(***************************************************************************)
(* The four example programs of the client library, as scripts for the     *)
(* users of ClientCalls.  Each makes its calls one after the other on one  *)
(* client, and goes on whatever a call returns: no result is looked at     *)
(* except to be printed.  (client_example_simple_inference, at its end,    *)
(* turns a failed inference into its exit status.)  Images are left out.   *)
(***************************************************************************)
Ask(method, name, version) == [method |-> method, name |-> name, version |-> version]
AskServer(method) == Ask(method, "none", "none")

(* client_example_server_info.                                             *)
ServerInfo == <<AskServer("ServerLive"), AskServer("ServerReady"), AskServer("ServerMetadata")>>

(* client_example_model_info, for the model m in the version v.            *)
ModelInfo == <<Ask("ModelReady", "m", "v"), AskServer("ModelList"), Ask("ModelLoad", "m", "v"),
               Ask("ModelUnload", "m", "v"), Ask("ModelMetadata", "m", "v")>>

(* client_example_model_infer: infer({}), in a thread of its own that      *)
(* main() joins.                                                           *)
ModelInfer == <<AskServer("ModelInfer")>>

(* client_example_simple_inference: the model has an empty version.        *)
SimpleInference == <<Ask("ModelLoad", "m", "none"), Ask("ModelInfer", "m", "none")>>
=============================================================================
