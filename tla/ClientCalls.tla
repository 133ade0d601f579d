---------------------------- MODULE ClientCalls -----------------------------
(***************************************************************************)
(* Threads of client programs that call the methods of grpc_client, one    *)
(* after the other, against one server: what a method puts on the wire,    *)
(* what the class of its RPC asks of the engine and writes in the reply,   *)
(* and what the method makes of the reply or of a failure.                 *)
(*                                                                         *)
(* The front end of the server is InferenceService, which GrpcServer       *)
(* implements; here its calls get contents.  grpc_client keeps no state    *)
(* between two calls, and sets no deadline and no retry.                   *)
(***************************************************************************)
EXTENDS Naturals, Sequences, FiniteSets

CONSTANTS Users,         \* the threads of client programs
          Names,         \* of models and versions, "none" if there is none
          Script,        \* the requests each of them makes, in order
          InferWorkers,  \* the server's threads for ModelInfer
          CommonWorker,  \* its thread for everything else
          NoCall         \* what an idle thread executes

(* The methods that go to the engine, and those that do not.               *)
EngineMethods == {"ServerReady", "ModelList", "ModelReady", "ModelMetadata",
                  "ModelLoad", "ModelUnload"}
Methods == EngineMethods \cup {"ServerLive", "ServerMetadata", "ModelInfer"}
Requests == [method : Methods, name : Names, version : Names]

Workers == InferWorkers \cup {CommonWorker}
Calls == UNION {{u} \X (1..Len(Script[u])) : u \in Users}
Asked(c) == Script[c[1]][c[2]]

ASSUME WorkersAssumption == CommonWorker \notin InferWorkers
ASSUME NamesAssumption == "none" \in Names
ASSUME ScriptAssumption ==
    /\ \A u \in Users : Len(Script[u]) \in Nat
    /\ \A c \in Calls : Asked(c) \in Requests
    /\ NoCall \notin Calls

VARIABLES
    phase, status, accepted, busy,  \* of InferenceService
    next,     \* the number of the request each user makes or waits for
    waiting,  \* the users inside a method
    stage,    \* of process_request() in each thread of the server
    log,      \* what the engine was asked, in order
    reply,    \* the response message of each call
    result,   \* what the method returned for each call
    dead      \* the server process has died

serviceVars == <<phase, status, accepted, busy>>
vars == <<serviceVars, next, waiting, stage, log, reply, result, dead>>

Service == INSTANCE InferenceService WITH
    CanServe <- {x \in Workers \X Calls :
                   (x[1] \in InferWorkers) <=> (Asked(x[2]).method = "ModelInfer")}

(* A question to the engine, and a call that asked one.                    *)
Functions == {"is_engine_ready", "model_list", "is_model_ready", "model_load", "model_unload",
              "model_metadata"}
Questions == [f : Functions, name : Names, version : Names]
Entry == [call : Calls, question : Questions]

(* Contents, as far as anyone tells them apart: a flag that is set or not, *)
(* the server's name and version, or an empty message, list or metadata.   *)
Contents == {"true", "false", "identity", "nothing"}
Results == [code : {"none", "OK", "ERROR"}, value : Contents]

Init == /\ Service!Init
        /\ next = [u \in Users |-> 1] /\ waiting = {}
        /\ stage = [w \in Workers |-> "begun"]
        /\ log = <<>>
        /\ reply = [c \in Calls |-> "nothing"]
        /\ result = [c \in Calls |-> [code |-> "none", value |-> "nothing"]]
        /\ dead = FALSE

-----------------------------------------------------------------------------
(* The engine, over the null backend: the only one its factory is asked    *)
(* for.                                                                    *)
null_is_model_ready(name, version) == "true"
(* Mutant: a backend that can refuse.                                      *)
null_model_load_refuses(name, version) == "false"
null_model_load(name, version) == "true"
null_model_unload(name, version) == "true"
null_model_metadata(name, version) == "nothing"

engine_is_ready == "true"
engine_model_list == "nothing"

Answer(q) == [is_engine_ready |-> engine_is_ready,
              model_list      |-> engine_model_list,
              is_model_ready  |-> null_is_model_ready(q.name, q.version),
              model_load      |-> null_model_load(q.name, q.version),
              model_unload    |-> null_model_unload(q.name, q.version),
              model_metadata  |-> null_model_metadata(q.name, q.version)][q.f]

-----------------------------------------------------------------------------
(* process_request() and write_response() of each RPC class: the question  *)
(* to the engine, if any, and the reply, which is always sent with status  *)
(* OK.  setup_request() and create_rpc() are the posting and reposting of  *)
(* GrpcServer.                                                             *)
Question(f, name, version) == [f |-> f, name |-> name, version |-> version]
Silent(content) == [asks |-> {}, content |-> content]
Forward(q) == [asks |-> {q}, content |-> Answer(q)]
(* An argument a method does not have, or leaves empty, is "none".         *)
AskAndForget(q) == [asks |-> {q}, content |-> "nothing"]

rpc_server_live(r) == Silent("true")
rpc_server_metadata(r) == Silent("identity")
rpc_server_ready(r) == Forward(Question("is_engine_ready", "none", "none"))
rpc_model_list(r) == Forward(Question("model_list", "none", "none"))
rpc_model_ready(r) == Forward(Question("is_model_ready", r.name, r.version))
(* What the engine says of these three goes nowhere.                       *)
rpc_model_load(r) == AskAndForget(Question("model_load", r.name, "none"))
rpc_model_unload(r) == AskAndForget(Question("model_unload", r.name, "none"))
rpc_model_metadata(r) == AskAndForget(Question("model_metadata", r.name, r.version))
(* Mutant: an inference goes to the engine like the rest.                  *)
rpc_model_infer_asks(r) == AskAndForget(Question("model_metadata", r.name, r.version))
(* It sleeps, and does not ask the engine.                                 *)
rpc_model_infer(r) == Silent("nothing")

rpc(r) == [ServerLive     |-> rpc_server_live(r),
           ServerReady    |-> rpc_server_ready(r),
           ServerMetadata |-> rpc_server_metadata(r),
           ModelList      |-> rpc_model_list(r),
           ModelReady     |-> rpc_model_ready(r),
           ModelMetadata  |-> rpc_model_metadata(r),
           ModelLoad      |-> rpc_model_load(r),
           ModelUnload    |-> rpc_model_unload(r),
           ModelInfer     |-> rpc_model_infer(r)][r.method]

-----------------------------------------------------------------------------
(* The methods of grpc_client: what they return, given whether rpc_status  *)
(* is ok and the response.                                                 *)
Returns(code, value) == [code |-> code, value |-> value]
OkOr(ok, value, default) ==
    IF ok THEN Returns("OK", value) ELSE Returns("ERROR", default)

is_server_live(ok, response) == OkOr(ok, response, "false")
is_server_ready(ok, response) == OkOr(ok, response, "false")
server_metadata(ok, response) == OkOr(ok, response, "nothing")
is_model_ready(ok, response) == OkOr(ok, response, "false")
model_list(ok, response) == OkOr(ok, response, "nothing")
(* An answer, whatever it holds, is a success.                             *)
model_load(ok, response) == OkOr(ok, "true", "false")
model_unload(ok, response) == OkOr(ok, "true", "false")
model_metadata(ok, response) == OkOr(ok, response, "nothing")
infer(ok, response) == OkOr(ok, response, "nothing")

Returned(m, ok, response) ==
    [ServerLive     |-> is_server_live(ok, response),
     ServerReady    |-> is_server_ready(ok, response),
     ServerMetadata |-> server_metadata(ok, response),
     ModelList      |-> model_list(ok, response),
     ModelReady     |-> is_model_ready(ok, response),
     ModelMetadata  |-> model_metadata(ok, response),
     ModelLoad      |-> model_load(ok, response),
     ModelUnload    |-> model_unload(ok, response),
     ModelInfer     |-> infer(ok, response)][m]

-----------------------------------------------------------------------------
(* Users.  The call of a user is <<user, number of the request>>.          *)
Current(u) == <<u, next[u]>>

Call(u) ==
    /\ u \notin waiting
    /\ next[u] <= Len(Script[u])
    /\ Service!Send(Current(u))
    /\ waiting' = waiting \cup {u}
    /\ UNCHANGED <<next, stage, log, reply, result, dead>>

(* Mutant: the call is only started, and reported as done.                 *)
ReturnAtOnce(u) ==
    LET c == Current(u) IN
    /\ u \in waiting
    /\ result' = [result EXCEPT ![c] =
                    Returned(Asked(c).method, status[c] # "failed", reply[c])]
    /\ next' = [next EXCEPT ![u] = @ + 1]
    /\ waiting' = waiting \ {u}
    /\ UNCHANGED <<serviceVars, stage, log, reply, dead>>

(* The synchronous stub comes back.                                        *)
Return(u) ==
    LET c == Current(u) IN
    /\ u \in waiting
    /\ status[c] \in {"ok", "failed"}
    /\ result' = [result EXCEPT ![c] =
                    Returned(Asked(c).method, status[c] = "ok", reply[c])]
    /\ next' = [next EXCEPT ![u] = @ + 1]
    /\ waiting' = waiting \ {u}
    /\ UNCHANGED <<serviceVars, stage, log, reply, dead>>

-----------------------------------------------------------------------------
(* A thread of the server that has begun a call asks the engine, fills in  *)
(* the reply, and writes it.                                               *)
clientVars == <<next, waiting, result>>
Does(w) == rpc(Asked(busy[w]))
At(w, s) == ~dead /\ busy[w] # NoCall /\ stage[w] = s

Ask(w) ==
    /\ At(w, "begun")
    /\ \E q \in Does(w).asks : log' = Append(log, [call |-> busy[w], question |-> q])
    /\ stage' = [stage EXCEPT ![w] = "asking"]
    /\ UNCHANGED <<serviceVars, clientVars, reply, dead>>

Fill(w) ==
    /\ \/ At(w, "asking")
       \/ At(w, "begun") /\ Does(w).asks = {}
    /\ reply' = [reply EXCEPT ![busy[w]] = Does(w).content]
    /\ stage' = [stage EXCEPT ![w] = "filled"]
    /\ UNCHANGED <<serviceVars, clientVars, log, dead>>

(* Mutants: the reply is written before the request is processed; nothing  *)
(* is written when there is nothing to tell.                               *)
WriteFirst(w) ==
    /\ ~dead /\ busy[w] # NoCall
    /\ Service!Answer(w)
    /\ stage' = [stage EXCEPT ![w] = "begun"]
    /\ UNCHANGED <<clientVars, log, reply, dead>>

WriteIfAny(w) ==
    /\ At(w, "filled")
    /\ reply[busy[w]] # "nothing"
    /\ Service!Answer(w)
    /\ stage' = [stage EXCEPT ![w] = "begun"]
    /\ UNCHANGED <<clientVars, log, reply, dead>>

Write(w) ==
    /\ At(w, "filled")
    /\ Service!Answer(w)
    /\ stage' = [stage EXCEPT ![w] = "begun"]
    /\ UNCHANGED <<clientVars, log, reply, dead>>

-----------------------------------------------------------------------------
(* What GrpcServer, gRPC and the network do.                               *)
contentVars == <<next, waiting, stage, log, reply, result, dead>>

Open == ~dead /\ Service!Open /\ UNCHANGED contentVars
Accept(c) == ~dead /\ Service!Accept(c) /\ UNCHANGED contentVars
Begin(c, w) == ~dead /\ Service!Begin(c, w) /\ UNCHANGED contentVars
Lose(c) == Service!Lose(c) /\ UNCHANGED contentVars
Close == ~dead /\ Service!Close /\ UNCHANGED contentVars
Drop(c) == ~dead /\ Service!Drop(c) /\ UNCHANGED contentVars
Stop == ~dead /\ Service!Stop /\ UNCHANGED contentVars

(* The process dies, as GrpcServer shows it can.                           *)
Die == /\ ~dead /\ phase \in {"up", "closed"}
       /\ dead' = TRUE
       /\ UNCHANGED <<serviceVars, clientVars, stage, log, reply>>

AllReturned == \A u \in Users : next[u] > Len(Script[u])
Ended == AllReturned /\ UNCHANGED vars

Next == \/ \E u \in Users : Call(u) \/ Return(u)
        \/ \E w \in Workers : Ask(w) \/ Fill(w) \/ Write(w)
        \/ Open \/ Close \/ Stop \/ Die
        \/ \E c \in Calls : Accept(c) \/ Lose(c) \/ Drop(c)
        \/ \E c \in Calls, w \in Workers : Begin(c, w)
        \/ Ended

Spec == Init /\ [][Next]_vars

(* The server's threads and gRPC keep running, and the connection to a     *)
(* process that has died breaks.                                           *)
Fairness ==
    /\ \A u \in Users : WF_vars(Return(u))
    /\ \A w \in Workers : WF_vars(Ask(w) \/ Fill(w) \/ Write(w) \/ \E c \in Calls : Begin(c, w))
    /\ \A c \in Calls : WF_vars(Accept(c)) /\ WF_vars(dead /\ Lose(c))

FairSpec == Spec /\ Fairness

-----------------------------------------------------------------------------
(* Every variable has its type.                                            *)
TypeOK ==
    /\ phase \in {"down", "up", "closed", "stopped"}
    /\ status \in [Calls -> {"idle", "sent", "open", "ok", "failed"}]
    /\ accepted \subseteq Calls
    /\ busy \in [Workers -> Calls \cup {NoCall}]
    /\ next \in [Users -> Nat \ {0}]
    /\ waiting \subseteq {u \in Users : next[u] <= Len(Script[u]) /\ status[Current(u)] # "idle"}
    /\ stage \in [Workers -> {"begun", "asking", "filled"}]
    /\ log \in Seq(Entry)
    /\ reply \in [Calls -> Contents]
    /\ result \in [Calls -> Results]
    /\ dead \in BOOLEAN

Ok(c) == result[c].code = "OK"
Recorded(c) == \E k \in 1..Len(log) :
    log[k].call = c /\ log[k].question.name \in {"none", Asked(c).name}

(* A method that returned OK has had the engine asked exactly once, about  *)
(* the model it was called with; one that returned an error may or may not *)
(* have had the engine asked, but never twice.                             *)
AskedOnce ==
    /\ \A j, k \in 1..Len(log) : log[j].call = log[k].call => j = k
    /\ \A c \in Calls : Ok(c) /\ Asked(c).method \in EngineMethods => Recorded(c)

(* What a method returns with OK is what the engine answered.  For         *)
(* model_load, model_unload and model_metadata, whose replies do not carry *)
(* the answer, it holds only because the null backend never refuses.       *)
ToldTheTruth ==
    \A k \in 1..Len(log) :
        Ok(log[k].call) => result[log[k].call].value = Answer(log[k].question)

(* The engine is asked in the order in which a user calls the methods,     *)
(* unless an earlier one returned an error: the server may still be at it  *)
(* when the user goes on to the next.                                      *)
InOrder ==
    \A j, k \in 1..Len(log) :
        /\ log[j].call[1] = log[k].call[1]
        /\ j < k /\ log[j].call[2] > log[k].call[2]
        => ~Ok(log[k].call)

(* The engine, which has no lock, is inside one question at a time,        *)
(* although the server has several threads.                                *)
EngineIsSerial ==
    \A v, w \in Workers : stage[v] = "asking" /\ stage[w] = "asking" => v = w

(* A method that was called returns, although it sets no deadline.         *)
MethodsReturn ==
    \A c \in Calls : c[1] \in waiting /\ next[c[1]] = c[2] ~> result[c].code # "none"

(* The state behind it: a user inside a method waits for something that    *)
(* can come.  Its call is over, or is with a thread or due to one, or the  *)
(* server is there to take it; if the process is dead, it can still break. *)
UsersGoOn == \A u \in waiting :
    \/ status[Current(u)] \in {"ok", "failed"}
    \/ Current(u) \in accepted \/ \E w \in Workers : busy[w] = Current(u)
    \/ status[Current(u)] = "sent" /\ phase = "up"

-----------------------------------------------------------------------------
(* The inductive invariant.                                                *)

(* A user's calls are made one by one.                                     *)
SentInv == \A c \in Calls :
    c[2] > next[c[1]] \/ (c[2] = next[c[1]] /\ c[1] \notin waiting) => status[c] = "idle"

(* A call is in one place, and a thread serves the methods of its queue.   *)
WorkInv ==
    /\ \A c \in accepted : status[c] \in {"open", "failed"}
    /\ \A w \in Workers : busy[w] # NoCall =>
          /\ status[busy[w]] \in {"open", "failed"}
          /\ busy[w] \notin accepted
          /\ (w \in InferWorkers) <=> (Asked(busy[w]).method = "ModelInfer")
    /\ \A v, w \in Workers : busy[v] = busy[w] /\ busy[v] # NoCall => v = w
    /\ \A w \in Workers : stage[w] # "begun" => busy[w] # NoCall
    /\ \A w \in Workers : stage[w] = "asking" => w = CommonWorker

(* A question was asked for a call that was begun, and is past asking.     *)
LogInv == \A k \in 1..Len(log) :
    /\ status[log[k].call] \notin {"idle", "sent"}
    /\ log[k].call \notin accepted
    /\ \A w \in Workers : busy[w] = log[k].call => stage[w] # "begun"
    /\ log[k].question \in rpc(Asked(log[k].call)).asks

(* A call that is past asking has asked, and an answered one has its reply.*)
PastInv ==
    /\ \A w \in Workers : stage[w] # "begun" /\ Asked(busy[w]).method \in EngineMethods
                             => Recorded(busy[w])
    /\ \A w \in Workers : stage[w] = "filled" => reply[busy[w]] = Does(w).content
    /\ \A c \in Calls : status[c] = "ok" =>
          /\ reply[c] = rpc(Asked(c)).content
          /\ Asked(c).method \in EngineMethods => Recorded(c)

(* OK is the result of an answer.                                          *)
ResultInv == \A c \in Calls : Ok(c) =>
    /\ status[c] = "ok"
    /\ result[c] = Returned(Asked(c).method, TRUE, reply[c])

(* A call under way is in the hands of a server that is up, or with one of *)
(* its threads: the close and the stop leave none behind.                  *)
WaitInv == /\ \A c \in Calls : status[c] = "sent" => phase = "up"
           /\ Service!Remembered

IInv == /\ TypeOK /\ SentInv /\ WorkInv /\ LogInv /\ PastInv /\ ResultInv
        /\ AskedOnce /\ InOrder
=============================================================================
