-------------------------- MODULE ClientCallsProofs -------------------------
(***************************************************************************)
(* What ClientCalls promises, for any number of users, any scripts and any *)
(* number of threads of the server.                                        *)
(***************************************************************************)
EXTENDS ClientCalls, TLAPS

(* A call is a user and the number of one of its requests.                 *)
LEMMA CallShape ==
    /\ \A c \in Calls : /\ c = <<c[1], c[2]>> /\ c[1] \in Users
                        /\ c[2] \in 1..Len(Script[c[1]])
                        /\ Asked(c) \in Requests /\ c # NoCall
    /\ \A u \in Users : \A k \in 1..Len(Script[u]) : <<u, k>> \in Calls
    /\ \A u \in Users : Len(Script[u]) \in Nat
BY ScriptAssumption DEF Calls

(* A request goes to the class of its method.                              *)
LEMMA Dispatch ==
    ASSUME NEW r \in Requests
    PROVE  /\ r.method = "ServerLive" => rpc(r) = rpc_server_live(r)
           /\ r.method = "ServerReady" => rpc(r) = rpc_server_ready(r)
           /\ r.method = "ServerMetadata" => rpc(r) = rpc_server_metadata(r)
           /\ r.method = "ModelList" => rpc(r) = rpc_model_list(r)
           /\ r.method = "ModelReady" => rpc(r) = rpc_model_ready(r)
           /\ r.method = "ModelMetadata" => rpc(r) = rpc_model_metadata(r)
           /\ r.method = "ModelLoad" => rpc(r) = rpc_model_load(r)
           /\ r.method = "ModelUnload" => rpc(r) = rpc_model_unload(r)
           /\ r.method = "ModelInfer" => rpc(r) = rpc_model_infer(r)
BY DEF rpc

(* A method of the client returns OK exactly if its RPC did.               *)
LEMMA ReturnedFacts ==
    ASSUME NEW m \in Methods, NEW ok \in BOOLEAN, NEW v \in Contents
    PROVE  /\ Returned(m, ok, v) \in Results
           /\ Returned(m, ok, v).code = "OK" <=> ok
<1>1. CASE m = "ServerLive"
  <2>1. Returned(m, ok, v) = is_server_live(ok, v)
    BY <1>1 DEF Returned
  <2>. QED BY <2>1 DEF is_server_live, OkOr, Returns, Results, Contents
<1>2. CASE m = "ServerReady"
  <2>1. Returned(m, ok, v) = is_server_ready(ok, v)
    BY <1>2 DEF Returned
  <2>. QED BY <2>1 DEF is_server_ready, OkOr, Returns, Results, Contents
<1>3. CASE m = "ServerMetadata"
  <2>1. Returned(m, ok, v) = server_metadata(ok, v)
    BY <1>3 DEF Returned
  <2>. QED BY <2>1 DEF server_metadata, OkOr, Returns, Results, Contents
<1>4. CASE m = "ModelList"
  <2>1. Returned(m, ok, v) = model_list(ok, v)
    BY <1>4 DEF Returned
  <2>. QED BY <2>1 DEF model_list, OkOr, Returns, Results, Contents
<1>5. CASE m = "ModelReady"
  <2>1. Returned(m, ok, v) = is_model_ready(ok, v)
    BY <1>5 DEF Returned
  <2>. QED BY <2>1 DEF is_model_ready, OkOr, Returns, Results, Contents
<1>6. CASE m = "ModelMetadata"
  <2>1. Returned(m, ok, v) = model_metadata(ok, v)
    BY <1>6 DEF Returned
  <2>. QED BY <2>1 DEF model_metadata, OkOr, Returns, Results, Contents
<1>7. CASE m = "ModelLoad"
  <2>1. Returned(m, ok, v) = model_load(ok, v)
    BY <1>7 DEF Returned
  <2>. QED BY <2>1 DEF model_load, OkOr, Returns, Results, Contents
<1>8. CASE m = "ModelUnload"
  <2>1. Returned(m, ok, v) = model_unload(ok, v)
    BY <1>8 DEF Returned
  <2>. QED BY <2>1 DEF model_unload, OkOr, Returns, Results, Contents
<1>9. CASE m = "ModelInfer"
  <2>1. Returned(m, ok, v) = infer(ok, v)
    BY <1>9 DEF Returned
  <2>. QED BY <2>1 DEF infer, OkOr, Returns, Results, Contents
<1>. QED BY <1>1, <1>2, <1>3, <1>4, <1>5, <1>6, <1>7, <1>8, <1>9 DEF Methods, EngineMethods

(* What an RPC class asks and replies: only the engine's methods ask, about *)
(* the model of the request, and what the client makes of the reply is the *)
(* engine's answer.                                                        *)
LEMMA RpcFacts ==
    ASSUME NEW r \in Requests
    PROVE  /\ rpc(r).asks \subseteq Questions
           /\ rpc(r).content \in Contents
           /\ rpc(r).asks # {} <=> r.method \in EngineMethods
           /\ \A q \in rpc(r).asks :
                 /\ q.name \in {"none", r.name}
                 /\ Returned(r.method, TRUE, rpc(r).content).value = Answer(q)
<1>. DEFINE m == r.method
<1>1. m \in Methods /\ r.name \in Names /\ r.version \in Names
  BY DEF Requests
<1>2. CASE m = "ServerLive"
  <2>1. rpc(r).asks = {} /\ rpc(r).content \in Contents
    BY <1>2, Dispatch DEF rpc_server_live, Silent, Contents
  <2>. QED BY <1>2, <2>1 DEF EngineMethods
<1>3. CASE m = "ServerReady"
  <2>. DEFINE q == Question("is_engine_ready", "none", "none")
  <2>1. Answer(q) = "true"
    BY DEF Answer, Question, engine_is_ready
  <2>2. rpc(r) = [asks |-> {q}, content |-> "true"]
    BY <1>3, <2>1, Dispatch DEF rpc_server_ready, Forward
  <2>3. Returned(m, TRUE, "true") = is_server_ready(TRUE, "true")
    BY <1>3 DEF Returned
  <2>4. is_server_ready(TRUE, "true").value = "true"
    BY DEF is_server_ready, OkOr, Returns
  <2>5. q \in Questions /\ q.name \in {"none", r.name}
    BY <1>1, NamesAssumption DEF Question, Questions, Functions
  <2>6. rpc(r).asks = {q} /\ rpc(r).content = "true"
    BY <2>2
  <2>7. m \in EngineMethods
    BY <1>3 DEF EngineMethods
  <2>. HIDE DEF q
  <2>. QED BY <2>1, <2>3, <2>4, <2>5, <2>6, <2>7 DEF Contents
<1>4. CASE m = "ServerMetadata"
  <2>1. rpc(r).asks = {} /\ rpc(r).content \in Contents
    BY <1>4, Dispatch DEF rpc_server_metadata, Silent, Contents
  <2>. QED BY <1>4, <2>1 DEF EngineMethods
<1>5. CASE m = "ModelList"
  <2>. DEFINE q == Question("model_list", "none", "none")
  <2>1. Answer(q) = "nothing"
    BY DEF Answer, Question, engine_model_list
  <2>2. rpc(r) = [asks |-> {q}, content |-> "nothing"]
    BY <1>5, <2>1, Dispatch DEF rpc_model_list, Forward
  <2>3. Returned(m, TRUE, "nothing") = model_list(TRUE, "nothing")
    BY <1>5 DEF Returned
  <2>4. model_list(TRUE, "nothing").value = "nothing"
    BY DEF model_list, OkOr, Returns
  <2>5. q \in Questions /\ q.name \in {"none", r.name}
    BY <1>1, NamesAssumption DEF Question, Questions, Functions
  <2>6. rpc(r).asks = {q} /\ rpc(r).content = "nothing"
    BY <2>2
  <2>7. m \in EngineMethods
    BY <1>5 DEF EngineMethods
  <2>. HIDE DEF q
  <2>. QED BY <2>1, <2>3, <2>4, <2>5, <2>6, <2>7 DEF Contents
<1>6. CASE m = "ModelReady"
  <2>. DEFINE q == Question("is_model_ready", r.name, r.version)
  <2>1. Answer(q) = "true"
    BY DEF Answer, Question, null_is_model_ready
  <2>2. rpc(r) = [asks |-> {q}, content |-> "true"]
    BY <1>6, <2>1, Dispatch DEF rpc_model_ready, Forward
  <2>3. Returned(m, TRUE, "true") = is_model_ready(TRUE, "true")
    BY <1>6 DEF Returned
  <2>4. is_model_ready(TRUE, "true").value = "true"
    BY DEF is_model_ready, OkOr, Returns
  <2>5. q \in Questions /\ q.name \in {"none", r.name}
    BY <1>1, NamesAssumption DEF Question, Questions, Functions
  <2>6. rpc(r).asks = {q} /\ rpc(r).content = "true"
    BY <2>2
  <2>7. m \in EngineMethods
    BY <1>6 DEF EngineMethods
  <2>. HIDE DEF q
  <2>. QED BY <2>1, <2>3, <2>4, <2>5, <2>6, <2>7 DEF Contents
<1>7. CASE m = "ModelMetadata"
  <2>. DEFINE q == Question("model_metadata", r.name, r.version)
  <2>1. Answer(q) = "nothing"
    BY DEF Answer, Question, null_model_metadata
  <2>2. rpc(r) = [asks |-> {q}, content |-> "nothing"]
    BY <1>7, <2>1, Dispatch DEF rpc_model_metadata, AskAndForget
  <2>3. Returned(m, TRUE, "nothing") = model_metadata(TRUE, "nothing")
    BY <1>7 DEF Returned
  <2>4. model_metadata(TRUE, "nothing").value = "nothing"
    BY DEF model_metadata, OkOr, Returns
  <2>5. q \in Questions /\ q.name \in {"none", r.name}
    BY <1>1, NamesAssumption DEF Question, Questions, Functions
  <2>6. rpc(r).asks = {q} /\ rpc(r).content = "nothing"
    BY <2>2
  <2>7. m \in EngineMethods
    BY <1>7 DEF EngineMethods
  <2>. HIDE DEF q
  <2>. QED BY <2>1, <2>3, <2>4, <2>5, <2>6, <2>7 DEF Contents
<1>8. CASE m = "ModelLoad"
  <2>. DEFINE q == Question("model_load", r.name, "none")
  <2>1. Answer(q) = "true"
    BY DEF Answer, Question, null_model_load
  <2>2. rpc(r) = [asks |-> {q}, content |-> "nothing"]
    BY <1>8, <2>1, Dispatch DEF rpc_model_load, AskAndForget
  <2>3. Returned(m, TRUE, "nothing") = model_load(TRUE, "nothing")
    BY <1>8 DEF Returned
  <2>4. model_load(TRUE, "nothing").value = "true"
    BY DEF model_load, OkOr, Returns
  <2>5. q \in Questions /\ q.name \in {"none", r.name}
    BY <1>1, NamesAssumption DEF Question, Questions, Functions
  <2>6. rpc(r).asks = {q} /\ rpc(r).content = "nothing"
    BY <2>2
  <2>7. m \in EngineMethods
    BY <1>8 DEF EngineMethods
  <2>. HIDE DEF q
  <2>. QED BY <2>1, <2>3, <2>4, <2>5, <2>6, <2>7 DEF Contents
<1>9. CASE m = "ModelUnload"
  <2>. DEFINE q == Question("model_unload", r.name, "none")
  <2>1. Answer(q) = "true"
    BY DEF Answer, Question, null_model_unload
  <2>2. rpc(r) = [asks |-> {q}, content |-> "nothing"]
    BY <1>9, <2>1, Dispatch DEF rpc_model_unload, AskAndForget
  <2>3. Returned(m, TRUE, "nothing") = model_unload(TRUE, "nothing")
    BY <1>9 DEF Returned
  <2>4. model_unload(TRUE, "nothing").value = "true"
    BY DEF model_unload, OkOr, Returns
  <2>5. q \in Questions /\ q.name \in {"none", r.name}
    BY <1>1, NamesAssumption DEF Question, Questions, Functions
  <2>6. rpc(r).asks = {q} /\ rpc(r).content = "nothing"
    BY <2>2
  <2>7. m \in EngineMethods
    BY <1>9 DEF EngineMethods
  <2>. HIDE DEF q
  <2>. QED BY <2>1, <2>3, <2>4, <2>5, <2>6, <2>7 DEF Contents
<1>10. CASE m = "ModelInfer"
  <2>1. rpc(r).asks = {} /\ rpc(r).content \in Contents
    BY <1>10, Dispatch DEF rpc_model_infer, Silent, Contents
  <2>. QED BY <1>10, <2>1 DEF EngineMethods
<1>. HIDE DEF m
<1>. QED BY <1>1, <1>2, <1>3, <1>4, <1>5, <1>6, <1>7, <1>8, <1>9, <1>10 DEF Methods, EngineMethods

-----------------------------------------------------------------------------
(* One lemma for each part of the inductive invariant: every step keeps it.*)

(* Types are kept.                                                         *)
LEMMA TypeOKStep ==
    ASSUME TypeOK, [Next]_vars
    PROVE  TypeOK'
<1>1. ASSUME NEW u \in Users, Call(u)
      PROVE  TypeOK'
  BY <1>1, CallShape DEF TypeOK, Current, Call, Service!Send, Current
<1>2. ASSUME NEW u \in Users, Return(u)
      PROVE  TypeOK'
  <2>. DEFINE k == Current(u)
  <2>0. next[u] \in 1..Len(Script[u])
    BY <1>2, CallShape DEF TypeOK, Return
  <2>1. k \in Calls /\ Asked(k).method \in Methods
    BY <2>0, CallShape DEF Current, Requests
  <2>2. Returned(Asked(k).method, status[k] = "ok", reply[k]) \in Results
    BY <2>1, ReturnedFacts DEF TypeOK
  <2>3. result' \in [Calls -> Results]
    BY <1>2, <2>1, <2>2 DEF TypeOK, Return
  <2>. QED BY <1>2, <2>3 DEF TypeOK, Return, Current, serviceVars
<1>3. ASSUME NEW w \in Workers, Ask(w)
      PROVE  TypeOK'
  <2>1. busy[w] \in Calls
    BY <1>3 DEF TypeOK, Ask, At
  <2>2. \A q \in Does(w).asks : [call |-> busy[w], question |-> q] \in Entry
    BY <2>1, CallShape, RpcFacts DEF Does, Entry
  <2>3. log' \in Seq(Entry)
    BY <1>3, <2>2 DEF TypeOK, Ask
  <2>. QED BY <1>3, <2>3 DEF TypeOK, Current, Ask, serviceVars, clientVars
<1>4. ASSUME NEW w \in Workers, Fill(w)
      PROVE  TypeOK'
  <2>1. busy[w] \in Calls
    BY <1>4 DEF TypeOK, Fill, At
  <2>2. Does(w).content \in Contents
    BY <2>1, CallShape, RpcFacts DEF Does
  <2>. QED BY <1>4, <2>2 DEF TypeOK, Current, Fill, serviceVars, clientVars
<1>5. ASSUME NEW w \in Workers, Write(w)
      PROVE  TypeOK'
  BY <1>5, CallShape DEF TypeOK, Current, Write, At, Service!Answer, clientVars
<1>6. CASE Open
  BY <1>6, CallShape DEF TypeOK, Current, Open, Service!Open, contentVars
<1>7. CASE Close
  BY <1>7, CallShape DEF TypeOK, Current, Close, Service!Close, contentVars
<1>8. CASE Stop
  BY <1>8, CallShape DEF TypeOK, Current, Stop, Service!Stop, contentVars
<1>9. CASE Die
  BY <1>9, CallShape DEF TypeOK, Current, Die, serviceVars, clientVars
<1>10. ASSUME NEW c \in Calls, Accept(c)
      PROVE  TypeOK'
  BY <1>10, CallShape DEF TypeOK, Current, Accept, Service!Accept, contentVars
<1>11. ASSUME NEW c \in Calls, Lose(c)
      PROVE  TypeOK'
  BY <1>11, CallShape DEF TypeOK, Current, Lose, Service!Lose, contentVars
<1>12. ASSUME NEW c \in Calls, Drop(c)
      PROVE  TypeOK'
  BY <1>12, CallShape DEF TypeOK, Current, Drop, Service!Drop, contentVars
<1>13. ASSUME NEW c \in Calls, NEW w \in Workers, Begin(c, w)
      PROVE  TypeOK'
  BY <1>13, CallShape DEF TypeOK, Current, Begin, Service!Begin, contentVars
<1>14. CASE UNCHANGED vars
  BY <1>14 DEF TypeOK, Current, vars, serviceVars
<1>. QED BY <1>1, <1>2, <1>3, <1>4, <1>5, <1>6, <1>7, <1>8, <1>9, <1>10, <1>11, <1>12, <1>13, <1>14 DEF Next, Ended

(* Nothing is sent for a request the user has not come to.                 *)
LEMMA SentInvStep ==
    ASSUME TypeOK, SentInv, [Next]_vars
    PROVE  SentInv'
<1>1. ASSUME NEW u \in Users, Call(u)
      PROVE  SentInv'
  BY <1>1, CallShape DEF TypeOK, SentInv, Current, Call, Service!Send, Current
<1>2. ASSUME NEW u \in Users, Return(u)
      PROVE  SentInv'
  BY <1>2, CallShape DEF TypeOK, SentInv, Current, Return, Current, serviceVars
<1>3. ASSUME NEW w \in Workers, Ask(w)
      PROVE  SentInv'
  BY <1>3, CallShape DEF TypeOK, SentInv, Current, Ask, At, Does, serviceVars, clientVars
<1>4. ASSUME NEW w \in Workers, Fill(w)
      PROVE  SentInv'
  BY <1>4, CallShape DEF TypeOK, SentInv, Current, Fill, At, Does, serviceVars, clientVars
<1>5. ASSUME NEW w \in Workers, Write(w)
      PROVE  SentInv'
  BY <1>5, CallShape DEF TypeOK, SentInv, Current, Write, At, Service!Answer, clientVars
<1>6. CASE Open
  BY <1>6, CallShape DEF TypeOK, SentInv, Current, Open, Service!Open, contentVars
<1>7. CASE Close
  BY <1>7, CallShape DEF TypeOK, SentInv, Current, Close, Service!Close, contentVars
<1>8. CASE Stop
  BY <1>8, CallShape DEF TypeOK, SentInv, Current, Stop, Service!Stop, contentVars
<1>9. CASE Die
  BY <1>9, CallShape DEF TypeOK, SentInv, Current, Die, serviceVars, clientVars
<1>10. ASSUME NEW c \in Calls, Accept(c)
      PROVE  SentInv'
  BY <1>10, CallShape DEF TypeOK, SentInv, Current, Accept, Service!Accept, contentVars
<1>11. ASSUME NEW c \in Calls, Lose(c)
      PROVE  SentInv'
  BY <1>11, CallShape DEF TypeOK, SentInv, Current, Lose, Service!Lose, contentVars
<1>12. ASSUME NEW c \in Calls, Drop(c)
      PROVE  SentInv'
  BY <1>12, CallShape DEF TypeOK, SentInv, Current, Drop, Service!Drop, contentVars
<1>13. ASSUME NEW c \in Calls, NEW w \in Workers, Begin(c, w)
      PROVE  SentInv'
  BY <1>13, CallShape DEF TypeOK, SentInv, Current, Begin, Service!Begin, contentVars
<1>14. CASE UNCHANGED vars
  BY <1>14 DEF TypeOK, SentInv, Current, vars, serviceVars
<1>. QED BY <1>1, <1>2, <1>3, <1>4, <1>5, <1>6, <1>7, <1>8, <1>9, <1>10, <1>11, <1>12, <1>13, <1>14 DEF Next, Ended

(* The entries of the log are of calls.                                    *)
LEMMA LogShape ==
    ASSUME TypeOK
    PROVE  /\ Len(log) \in Nat
           /\ \A k \in 1..Len(log) : log[k].call \in Calls /\ log[k].question \in Questions
<1>1. log \in Seq(Entry)
  BY DEF TypeOK
<1>2. Len(log) \in Nat /\ \A k \in 1..Len(log) : log[k] \in Entry
  BY <1>1
<1>. QED BY <1>2 DEF Entry

(* Asking adds one entry at the end of the log.                            *)
LEMMA AskAppends ==
    ASSUME TypeOK, NEW w \in Workers, Ask(w)
    PROVE  \E q \in rpc(Asked(busy[w])).asks :
              /\ Len(log') = Len(log) + 1
              /\ \A k \in 1..Len(log) : log'[k] = log[k]
              /\ log'[Len(log) + 1].call = busy[w]
              /\ log'[Len(log) + 1].question = q
<1>1. PICK q \in rpc(Asked(busy[w])).asks :
         log' = Append(log, [call |-> busy[w], question |-> q])
  BY DEF Ask, Does
<1>2. log \in Seq(Entry)
  BY DEF TypeOK
<1>. DEFINE e == [call |-> busy[w], question |-> q]
<1>3. e.call = busy[w] /\ e.question = q
  OBVIOUS
<1>. HIDE DEF e
<1>4. /\ Len(log') = Len(log) + 1
      /\ \A k \in 1..Len(log) : log'[k] = log[k]
      /\ log'[Len(log) + 1] = e
  BY <1>1, <1>2 DEF e
<1>. QED BY <1>3, <1>4

(* A call is in one place, and in the right thread.                        *)
LEMMA WorkInvStep ==
    ASSUME TypeOK, WorkInv, [Next]_vars
    PROVE  WorkInv'
<1>1. ASSUME NEW u \in Users, Call(u)
      PROVE  WorkInv'
  BY <1>1, CallShape DEF TypeOK, WorkInv, Call, Service!Send, Current
<1>2. ASSUME NEW u \in Users, Return(u)
      PROVE  WorkInv'
  BY <1>2, CallShape DEF TypeOK, WorkInv, Return, Current, serviceVars
<1>3. ASSUME NEW w \in Workers, Ask(w)
      PROVE  WorkInv'
  <2>1. busy[w] \in Calls
    BY <1>3 DEF TypeOK, Ask, At
  <2>2. Asked(busy[w]).method # "ModelInfer"
    BY <1>3, <2>1, CallShape, RpcFacts DEF Ask, Does, EngineMethods
  <2>3. w = CommonWorker
    BY <1>3, <2>2 DEF Ask, At, WorkInv, Workers
  <2>. QED BY <1>3, <2>3 DEF TypeOK, WorkInv, Ask, At, serviceVars, clientVars
<1>4. ASSUME NEW w \in Workers, Fill(w)
      PROVE  WorkInv'
  BY <1>4, CallShape DEF TypeOK, WorkInv, Fill, At, Does, serviceVars, clientVars
<1>5. ASSUME NEW w \in Workers, Write(w)
      PROVE  WorkInv'
  BY <1>5, CallShape DEF TypeOK, WorkInv, Write, At, Service!Answer, clientVars
<1>6. CASE Open
  BY <1>6, CallShape DEF TypeOK, WorkInv, Open, Service!Open, contentVars
<1>7. CASE Close
  BY <1>7, CallShape DEF TypeOK, WorkInv, Close, Service!Close, contentVars
<1>8. CASE Stop
  BY <1>8, CallShape DEF TypeOK, WorkInv, Stop, Service!Stop, contentVars
<1>9. CASE Die
  BY <1>9, CallShape DEF TypeOK, WorkInv, Die, serviceVars, clientVars
<1>10. ASSUME NEW c \in Calls, Accept(c)
      PROVE  WorkInv'
  BY <1>10, CallShape DEF TypeOK, WorkInv, Accept, Service!Accept, contentVars
<1>11. ASSUME NEW c \in Calls, Lose(c)
      PROVE  WorkInv'
  BY <1>11, CallShape DEF TypeOK, WorkInv, Lose, Service!Lose, contentVars
<1>12. ASSUME NEW c \in Calls, Drop(c)
      PROVE  WorkInv'
  BY <1>12, CallShape DEF TypeOK, WorkInv, Drop, Service!Drop, contentVars
<1>13. ASSUME NEW c \in Calls, NEW w \in Workers, Begin(c, w)
      PROVE  WorkInv'
  BY <1>13, CallShape DEF TypeOK, WorkInv, Begin, Service!Begin, contentVars
<1>14. CASE UNCHANGED vars
  BY <1>14 DEF TypeOK, WorkInv, vars, serviceVars
<1>. QED BY <1>1, <1>2, <1>3, <1>4, <1>5, <1>6, <1>7, <1>8, <1>9, <1>10, <1>11, <1>12, <1>13, <1>14 DEF Next, Ended

(* Only calls that are past asking have asked.                             *)
LEMMA LogInvStep ==
    ASSUME TypeOK, WorkInv, LogInv, [Next]_vars
    PROVE  LogInv'
<1>1. ASSUME NEW u \in Users, Call(u)
      PROVE  LogInv'
  BY <1>1, CallShape, LogShape, ZenonT(30) DEF TypeOK, WorkInv, LogInv, Call, Service!Send, Current
<1>2. ASSUME NEW u \in Users, Return(u)
      PROVE  LogInv'
  BY <1>2, CallShape, LogShape DEF TypeOK, WorkInv, LogInv, Return, Current, serviceVars
<1>3. ASSUME NEW w \in Workers, Ask(w)
      PROVE  LogInv'
  <2>1. busy[w] \in Calls /\ Len(log) \in Nat
    BY <1>3, LogShape DEF TypeOK, Ask, At
  <2>2. PICK q \in rpc(Asked(busy[w])).asks :
           /\ Len(log') = Len(log) + 1
           /\ \A k \in 1..Len(log) : log'[k] = log[k]
           /\ log'[Len(log) + 1].call = busy[w]
           /\ log'[Len(log) + 1].question = q
    BY <1>3, AskAppends
  <2>3. UNCHANGED <<status, accepted, busy>> /\ stage' = [stage EXCEPT ![w] = "asking"]
    BY <1>3 DEF Ask, serviceVars
  <2>4. stage \in [Workers -> {"begun", "asking", "filled"}] /\ busy[w] # NoCall
    BY <1>3 DEF TypeOK, Ask, At
  <2>5. ASSUME NEW k \in 1..Len(log')
        PROVE  /\ status[log'[k].call] \notin {"idle", "sent"}
               /\ log'[k].call \notin accepted
               /\ \A v \in Workers : busy[v] = log'[k].call => stage'[v] # "begun"
               /\ log'[k].question \in rpc(Asked(log'[k].call)).asks
    <3>1. CASE k \in 1..Len(log)
      BY <2>2, <2>3, <2>4, <3>1 DEF LogInv
    <3>2. CASE k = Len(log) + 1
      BY <2>2, <2>3, <2>4, <3>2 DEF WorkInv
    <3>. QED BY <2>1, <2>2, <3>1, <3>2
  <2>. QED BY <2>3, <2>5 DEF LogInv
<1>4. ASSUME NEW w \in Workers, Fill(w)
      PROVE  LogInv'
  BY <1>4, CallShape, LogShape DEF TypeOK, WorkInv, LogInv, Fill, At, Does, serviceVars, clientVars
<1>5. ASSUME NEW w \in Workers, Write(w)
      PROVE  LogInv'
  BY <1>5, CallShape, LogShape DEF TypeOK, WorkInv, LogInv, Write, At, Service!Answer, clientVars
<1>6. CASE Open
  BY <1>6, CallShape, LogShape DEF TypeOK, WorkInv, LogInv, Open, Service!Open, contentVars
<1>7. CASE Close
  BY <1>7, CallShape, LogShape DEF TypeOK, WorkInv, LogInv, Close, Service!Close, contentVars
<1>8. CASE Stop
  BY <1>8, CallShape, LogShape DEF TypeOK, WorkInv, LogInv, Stop, Service!Stop, contentVars
<1>9. CASE Die
  BY <1>9, CallShape, LogShape DEF TypeOK, WorkInv, LogInv, Die, serviceVars, clientVars
<1>10. ASSUME NEW c \in Calls, Accept(c)
      PROVE  LogInv'
  BY <1>10, CallShape, LogShape DEF TypeOK, WorkInv, LogInv, Accept, Service!Accept, contentVars
<1>11. ASSUME NEW c \in Calls, Lose(c)
      PROVE  LogInv'
  BY <1>11, CallShape, LogShape DEF TypeOK, WorkInv, LogInv, Lose, Service!Lose, contentVars
<1>12. ASSUME NEW c \in Calls, Drop(c)
      PROVE  LogInv'
  BY <1>12, CallShape, LogShape DEF TypeOK, WorkInv, LogInv, Drop, Service!Drop, contentVars
<1>13. ASSUME NEW c \in Calls, NEW w \in Workers, Begin(c, w)
      PROVE  LogInv'
  BY <1>13, CallShape, LogShape DEF TypeOK, WorkInv, LogInv, Begin, Service!Begin, contentVars
<1>14. CASE UNCHANGED vars
  BY <1>14 DEF TypeOK, WorkInv, LogInv, vars, serviceVars
<1>. QED BY <1>1, <1>2, <1>3, <1>4, <1>5, <1>6, <1>7, <1>8, <1>9, <1>10, <1>11, <1>12, <1>13, <1>14 DEF Next, Ended

(* A call that is past asking has asked, an answered one has its reply.    *)
LEMMA PastInvStep ==
    ASSUME TypeOK, WorkInv, LogInv, PastInv, [Next]_vars
    PROVE  PastInv'
<1>1. ASSUME NEW u \in Users, Call(u)
      PROVE  PastInv'
  BY <1>1, CallShape DEF TypeOK, WorkInv, PastInv, Recorded, Does, Call, Service!Send, Current
<1>2. ASSUME NEW u \in Users, Return(u)
      PROVE  PastInv'
  BY <1>2, CallShape DEF TypeOK, WorkInv, PastInv, Recorded, Does, Return, Current, serviceVars
<1>3. ASSUME NEW w \in Workers, Ask(w)
      PROVE  PastInv'
  <2>1. busy[w] \in Calls /\ Len(log) \in Nat
    BY <1>3, LogShape DEF TypeOK, Ask, At
  <2>2. PICK q \in rpc(Asked(busy[w])).asks :
           /\ Len(log') = Len(log) + 1
           /\ \A k \in 1..Len(log) : log'[k] = log[k]
           /\ log'[Len(log) + 1].call = busy[w]
           /\ log'[Len(log) + 1].question = q
    BY <1>3, AskAppends
  <2>3. UNCHANGED <<status, busy, reply>> /\ stage' = [stage EXCEPT ![w] = "asking"]
    BY <1>3 DEF Ask, serviceVars
  <2>4. q.name \in {"none", Asked(busy[w]).name}
    BY <2>1, CallShape, RpcFacts
  <2>5. Recorded(busy[w])'
    BY <2>1, <2>2, <2>3, <2>4 DEF Recorded
  <2>6. ASSUME NEW c, Recorded(c)
        PROVE  Recorded(c)'
    <3>1. PICK k \in 1..Len(log) : log[k].call = c /\ log[k].question.name \in {"none", Asked(c).name}
      BY <2>6 DEF Recorded
    <3>2. k \in 1..Len(log') /\ log'[k] = log[k]
      BY <2>1, <2>2
    <3>. QED BY <3>1, <3>2 DEF Recorded
  <2>7. stage \in [Workers -> {"begun", "asking", "filled"}]
    BY DEF TypeOK
  <2>8. \A v \in Workers : stage'[v] # "begun" => v = w \/ stage[v] # "begun"
    BY <2>3, <2>7
  <2>9. \A v \in Workers : stage'[v] = "filled" => stage[v] = "filled"
    BY <2>3, <2>7
  <2>. QED BY <2>3, <2>5, <2>6, <2>8, <2>9 DEF PastInv, Does
<1>4. ASSUME NEW w \in Workers, Fill(w)
      PROVE  PastInv'
  <2>1. \A c : Recorded(c)' <=> Recorded(c)
    BY <1>4 DEF Recorded, Fill
  <2>2. busy[w] \in Calls /\ status[busy[w]] # "ok"
    BY <1>4 DEF TypeOK, WorkInv, Fill, At
  <2>3. Asked(busy[w]).method \in EngineMethods => Recorded(busy[w])
    <3>1. CASE Does(w).asks = {}
      BY <2>2, <3>1, CallShape, RpcFacts DEF Does
    <3>2. CASE At(w, "asking")
      BY <3>2 DEF At, PastInv
    <3>. QED BY <1>4, <3>1, <3>2 DEF Fill
  <2>4. /\ reply' = [reply EXCEPT ![busy[w]] = Does(w).content]
        /\ stage' = [stage EXCEPT ![w] = "filled"]
        /\ UNCHANGED <<status, busy>>
    BY <1>4 DEF Fill, serviceVars
  <2>5. \A v \in Workers : busy[v] = busy[w] => v = w
    BY <1>4 DEF WorkInv, Fill, At
  <2>6. \A v \in Workers : stage[v] # "begun" => busy[v] \in Calls
    BY DEF WorkInv, TypeOK
  <2>7. \A v \in Workers : stage'[v] # "begun" /\ Asked(busy[v]).method \in EngineMethods
                             => Recorded(busy[v])
    BY <2>3, <2>4 DEF TypeOK, PastInv
  <2>8. \A v \in Workers : stage'[v] = "filled" => reply'[busy[v]] = Does(v).content
    BY <2>2, <2>4, <2>5, <2>6 DEF TypeOK, PastInv
  <2>9. \A c \in Calls : status[c] = "ok" => reply'[c] = rpc(Asked(c)).content
    BY <2>2, <2>4 DEF TypeOK, PastInv
  <2>. QED BY <2>1, <2>4, <2>7, <2>8, <2>9 DEF PastInv, Does
<1>5. ASSUME NEW w \in Workers, Write(w)
      PROVE  PastInv'
  <2>1. \A c : Recorded(c)' <=> Recorded(c)
    BY <1>5 DEF Recorded, Write, clientVars
  <2>2. busy[w] \in Calls /\ stage[w] = "filled" /\ busy[w] # NoCall
    BY <1>5 DEF TypeOK, Write, At
  <2>3. /\ status' = [status EXCEPT ![busy[w]] = IF @ = "open" THEN "ok" ELSE @]
        /\ busy' = [busy EXCEPT ![w] = NoCall]
        /\ stage' = [stage EXCEPT ![w] = "begun"]
        /\ UNCHANGED reply
    BY <1>5 DEF Write, Service!Answer, clientVars
  <2>4. \A v \in Workers : stage'[v] # "begun" => /\ v # w /\ stage'[v] = stage[v]
                                                  /\ busy'[v] = busy[v]
    BY <2>3 DEF TypeOK
  <2>5. \A c \in Calls : status'[c] = "ok" => status[c] = "ok" \/ c = busy[w]
    BY <2>3 DEF TypeOK
  <2>6. /\ reply[busy[w]] = rpc(Asked(busy[w])).content
        /\ Asked(busy[w]).method \in EngineMethods => Recorded(busy[w])
    BY <2>2 DEF PastInv, Does
  <2>. QED BY <2>1, <2>3, <2>4, <2>5, <2>6 DEF PastInv, Does
<1>6. CASE Open
  BY <1>6, CallShape DEF TypeOK, WorkInv, PastInv, Recorded, Does, Open, Service!Open, contentVars
<1>7. CASE Close
  BY <1>7, CallShape DEF TypeOK, WorkInv, PastInv, Recorded, Does, Close, Service!Close, contentVars
<1>8. CASE Stop
  BY <1>8, CallShape DEF TypeOK, WorkInv, PastInv, Recorded, Does, Stop, Service!Stop, contentVars
<1>9. CASE Die
  BY <1>9, CallShape DEF TypeOK, WorkInv, PastInv, Recorded, Does, Die, serviceVars, clientVars
<1>10. ASSUME NEW c \in Calls, Accept(c)
      PROVE  PastInv'
  BY <1>10, CallShape DEF TypeOK, WorkInv, PastInv, Recorded, Does, Accept, Service!Accept, contentVars
<1>11. ASSUME NEW c \in Calls, Lose(c)
      PROVE  PastInv'
  BY <1>11, CallShape DEF TypeOK, WorkInv, PastInv, Recorded, Does, Lose, Service!Lose, contentVars
<1>12. ASSUME NEW c \in Calls, Drop(c)
      PROVE  PastInv'
  BY <1>12, CallShape DEF TypeOK, WorkInv, PastInv, Recorded, Does, Drop, Service!Drop, contentVars
<1>13. ASSUME NEW c \in Calls, NEW w \in Workers, Begin(c, w)
      PROVE  PastInv'
  <2>1. \A d : Recorded(d)' <=> Recorded(d)
    BY <1>13 DEF Recorded, Begin, contentVars
  <2>2. stage[w] = "begun"
    BY <1>13 DEF WorkInv, Begin, Service!Begin
  <2>3. UNCHANGED <<status, stage, reply>> /\ busy' = [busy EXCEPT ![w] = c]
    BY <1>13 DEF Begin, Service!Begin, contentVars
  <2>4. \A v \in Workers : stage[v] # "begun" => busy'[v] = busy[v]
    BY <2>2, <2>3 DEF TypeOK
  <2>. QED BY <2>1, <2>3, <2>4 DEF PastInv, Does
<1>14. CASE UNCHANGED vars
  BY <1>14 DEF TypeOK, WorkInv, PastInv, Recorded, Does, vars, serviceVars
<1>. QED BY <1>1, <1>2, <1>3, <1>4, <1>5, <1>6, <1>7, <1>8, <1>9, <1>10, <1>11, <1>12, <1>13, <1>14 DEF Next, Ended

(* OK is the result of an answer.                                          *)
LEMMA ResultInvStep ==
    ASSUME TypeOK, WorkInv, PastInv, ResultInv, [Next]_vars
    PROVE  ResultInv'
<1>1. ASSUME NEW u \in Users, Call(u)
      PROVE  ResultInv'
  BY <1>1, CallShape DEF TypeOK, WorkInv, ResultInv, Ok, Call, Service!Send, Current
<1>2. ASSUME NEW u \in Users, Return(u)
      PROVE  ResultInv'
  <2>. DEFINE k == Current(u)
  <2>0. next[u] \in 1..Len(Script[u])
    BY <1>2, CallShape DEF TypeOK, Return
  <2>1. k \in Calls /\ Asked(k).method \in Methods
    BY <2>0, CallShape DEF Current, Requests
  <2>2. /\ result' = [result EXCEPT ![k] = Returned(Asked(k).method, status[k] = "ok", reply[k])]
        /\ UNCHANGED <<status, reply>>
    BY <1>2 DEF Return, serviceVars
  <2>. HIDE DEF k
  <2>3. CASE status[k] = "ok"
    <3>1. result' = [result EXCEPT ![k] = Returned(Asked(k).method, TRUE, reply[k])]
      BY <2>2, <2>3
    <3>2. /\ result'[k] = Returned(Asked(k).method, TRUE, reply'[k])
          /\ \A c \in Calls \ {k} : result'[c] = result[c]
      BY <2>1, <2>2, <3>1 DEF TypeOK
    <3>3. status'[k] = "ok"
      BY <2>2, <2>3
    <3>4. ASSUME NEW c \in Calls, c # k, Ok(c)'
          PROVE  status'[c] = "ok" /\ result'[c] = Returned(Asked(c).method, TRUE, reply'[c])
      BY <2>2, <3>2, <3>4 DEF ResultInv, Ok
    <3>. QED BY <3>2, <3>3, <3>4 DEF ResultInv
  <2>4. CASE status[k] # "ok"
    <3>1. result' = [result EXCEPT ![k] = Returned(Asked(k).method, FALSE, reply[k])]
      BY <2>2, <2>4
    <3>2. Returned(Asked(k).method, FALSE, reply[k]).code # "OK"
      BY <2>1, ReturnedFacts DEF TypeOK
    <3>. QED BY <2>1, <2>2, <3>1, <3>2 DEF TypeOK, ResultInv, Ok
  <2>. QED BY <2>3, <2>4
<1>3. ASSUME NEW w \in Workers, Ask(w)
      PROVE  ResultInv'
  BY <1>3, CallShape DEF TypeOK, WorkInv, ResultInv, Ok, Ask, At, Does, serviceVars, clientVars
<1>4. ASSUME NEW w \in Workers, Fill(w)
      PROVE  ResultInv'
  BY <1>4, CallShape DEF TypeOK, WorkInv, ResultInv, Ok, Fill, At, Does, serviceVars, clientVars
<1>5. ASSUME NEW w \in Workers, Write(w)
      PROVE  ResultInv'
  BY <1>5, CallShape DEF TypeOK, WorkInv, ResultInv, Ok, Write, At, Service!Answer, clientVars
<1>6. CASE Open
  BY <1>6, CallShape DEF TypeOK, WorkInv, ResultInv, Ok, Open, Service!Open, contentVars
<1>7. CASE Close
  BY <1>7, CallShape DEF TypeOK, WorkInv, ResultInv, Ok, Close, Service!Close, contentVars
<1>8. CASE Stop
  BY <1>8, CallShape DEF TypeOK, WorkInv, ResultInv, Ok, Stop, Service!Stop, contentVars
<1>9. CASE Die
  BY <1>9, CallShape DEF TypeOK, WorkInv, ResultInv, Ok, Die, serviceVars, clientVars
<1>10. ASSUME NEW c \in Calls, Accept(c)
      PROVE  ResultInv'
  BY <1>10, CallShape DEF TypeOK, WorkInv, ResultInv, Ok, Accept, Service!Accept, contentVars
<1>11. ASSUME NEW c \in Calls, Lose(c)
      PROVE  ResultInv'
  BY <1>11, CallShape DEF TypeOK, WorkInv, ResultInv, Ok, Lose, Service!Lose, contentVars
<1>12. ASSUME NEW c \in Calls, Drop(c)
      PROVE  ResultInv'
  BY <1>12, CallShape DEF TypeOK, WorkInv, ResultInv, Ok, Drop, Service!Drop, contentVars
<1>13. ASSUME NEW c \in Calls, NEW w \in Workers, Begin(c, w)
      PROVE  ResultInv'
  BY <1>13, CallShape DEF TypeOK, WorkInv, ResultInv, Ok, Begin, Service!Begin, contentVars
<1>14. CASE UNCHANGED vars
  BY <1>14 DEF TypeOK, WorkInv, ResultInv, Ok, vars, serviceVars
<1>. QED BY <1>1, <1>2, <1>3, <1>4, <1>5, <1>6, <1>7, <1>8, <1>9, <1>10, <1>11, <1>12, <1>13, <1>14 DEF Next, Ended

(* Only asking changes the log, and only returning changes a result.       *)
LEMMA Otherwise ==
    ASSUME [Next]_vars
    PROVE  /\ (\E w \in Workers : Ask(w)) \/ UNCHANGED log
           /\ (\E u \in Users : Return(u)) \/ UNCHANGED result
BY DEF Next, Ended, vars, Ask, Return, Call, Service!Send, Current, Fill, At, Does, serviceVars, clientVars, Write, Service!Answer, Open, Service!Open, contentVars, Close, Service!Close, Stop,
        Service!Stop, Die,
       Accept, Service!Accept, Lose, Service!Lose, Drop, Service!Drop, Begin, Service!Begin

(* Nothing is asked twice, and OK means it was asked.                      *)
LEMMA AskedOnceStep ==
    ASSUME TypeOK, LogInv, AskedOnce, [Next]_vars, PastInv', ResultInv'
    PROVE  AskedOnce'
<1>1. \A c \in Calls : Ok(c)' /\ Asked(c).method \in EngineMethods => Recorded(c)'
  BY DEF PastInv, ResultInv
<1>2. CASE UNCHANGED log
  BY <1>1, <1>2 DEF AskedOnce
<1>3. ASSUME NEW w \in Workers, Ask(w)
      PROVE  \A j, k \in 1..Len(log') : log'[j].call = log'[k].call => j = k
  <2>1. /\ Len(log) \in Nat
        /\ Len(log') = Len(log) + 1
        /\ \A k \in 1..Len(log) : log'[k] = log[k]
        /\ log'[Len(log) + 1].call = busy[w]
    BY <1>3, AskAppends, LogShape
  <2>2. \A k \in 1..Len(log) : log[k].call # busy[w]
    BY <1>3 DEF LogInv, Ask, At
  <2>. QED BY <2>1, <2>2 DEF AskedOnce
<1>. QED BY <1>1, <1>2, <1>3, Otherwise DEF AskedOnce

(* Only calls that failed are overtaken.                                   *)
LEMMA InOrderStep ==
    ASSUME TypeOK, SentInv, WorkInv, LogInv, ResultInv, InOrder, [Next]_vars
    PROVE  InOrder'
<1>1. CASE UNCHANGED <<log, result>>
  BY <1>1 DEF InOrder, Ok
<1>2. ASSUME NEW w \in Workers, Ask(w)
      PROVE  InOrder'
  <2>1. /\ Len(log) \in Nat
        /\ Len(log') = Len(log) + 1
        /\ \A k \in 1..Len(log) : log'[k] = log[k]
        /\ log'[Len(log) + 1].call = busy[w]
    BY <1>2, AskAppends, LogShape
  <2>2. UNCHANGED result /\ busy[w] \in Calls /\ busy[w] # NoCall
    BY <1>2 DEF TypeOK, Ask, At, clientVars
  <2>3. ~Ok(busy[w])
    BY <2>2 DEF WorkInv, ResultInv
  <2>4. ASSUME NEW j \in 1..Len(log'), NEW k \in 1..Len(log'),
               log'[j].call[1] = log'[k].call[1],
               j < k, log'[j].call[2] > log'[k].call[2]
        PROVE  ~Ok(log'[k].call)
    <3>1. CASE k = Len(log) + 1
      BY <2>1, <2>3, <3>1
    <3>2. CASE k \in 1..Len(log)
      <4>1. j \in 1..Len(log) /\ log'[j] = log[j] /\ log'[k] = log[k]
        BY <2>1, <2>4, <3>2
      <4>. QED BY <2>4, <3>2, <4>1 DEF InOrder
    <3>. QED BY <2>1, <3>1, <3>2
  <2>. QED BY <2>2, <2>4 DEF InOrder, Ok
<1>3. ASSUME NEW u \in Users, Return(u)
      PROVE  InOrder'
  <2>1. /\ UNCHANGED <<log, status>>
        /\ \A c \in Calls : c # Current(u) => result'[c] = result[c]
    BY <1>3 DEF TypeOK, Return, serviceVars
  <2>2. ASSUME NEW j \in 1..Len(log), NEW k \in 1..Len(log),
               log[j].call[1] = log[k].call[1],
               j < k, log[j].call[2] > log[k].call[2]
        PROVE  ~Ok(log[k].call)'
    <3>1. log[j].call \in Calls /\ log[k].call \in Calls
      BY LogShape
    <3>2. log[k].call # Current(u)
      <4>1. SUFFICES ASSUME log[k].call = Current(u) PROVE FALSE
        OBVIOUS
      <4>2. log[j].call[1] = u /\ log[j].call[2] > next[u]
        BY <2>2, <4>1 DEF Current
      <4>3. status[log[j].call] = "idle"
        BY <3>1, <4>2 DEF SentInv
      <4>. QED BY <4>3 DEF LogInv
    <3>3. ~Ok(log[k].call)
      BY <2>2 DEF InOrder
    <3>. QED BY <2>1, <3>1, <3>2, <3>3 DEF Ok
  <2>. QED BY <2>1, <2>2 DEF InOrder, Ok
<1>. QED BY <1>1, <1>2, <1>3, Otherwise

-----------------------------------------------------------------------------
(* All of it holds at first.                                               *)
LEMMA InitIInv == ASSUME Init PROVE IInv
<1>. USE DEF Init, Service!Init
<1>1. TypeOK
  <2>1. [code |-> "none", value |-> "nothing"] \in Results
    BY DEF Results, Contents
  <2>2. result \in [Calls -> Results]
    BY <2>1
  <2>3. log \in Seq(Entry)
    OBVIOUS
  <2>4. /\ reply \in [Calls -> Contents]
        /\ busy \in [Workers -> Calls \cup {NoCall}]
        /\ next \in [Users -> Nat \ {0}]
    BY DEF Contents
  <2>. QED BY <2>2, <2>3, <2>4 DEF TypeOK
<1>2. SentInv /\ WorkInv
  BY DEF SentInv, WorkInv
<1>3. LogInv /\ PastInv /\ InOrder
  BY DEF LogInv, PastInv, InOrder
<1>4. ResultInv /\ AskedOnce
  BY DEF ResultInv, AskedOnce, Ok
<1>. QED BY <1>1, <1>2, <1>3, <1>4 DEF IInv

(* Where every call is, what was asked for it and what was answered, after *)
(* every step: the strengthening all the theorems below come from.         *)
THEOREM CallsInvariant == Spec => []IInv
<1>1. IInv /\ [Next]_vars => IInv'
  BY TypeOKStep, SentInvStep, WorkInvStep, LogInvStep, PastInvStep, ResultInvStep,
     AskedOnceStep, InOrderStep DEF IInv
<1>. QED BY InitIInv, <1>1, PTL DEF Spec

(* Every variable keeps its type.                                          *)
THEOREM CallsTyped == Spec => []TypeOK
<1>1. IInv => TypeOK
  BY DEF IInv
<1>. QED BY CallsInvariant, <1>1, PTL

(* No question is asked twice for one call, and OK means it was asked.     *)
THEOREM EngineAskedOnce == Spec => []AskedOnce
<1>1. IInv => AskedOnce
  BY DEF IInv
<1>. QED BY CallsInvariant, <1>1, PTL

(* The calls of one user reach the engine in their order, unless the       *)
(* overtaken one was reported as an error.                                 *)
THEOREM CallsInOrder == Spec => []InOrder
<1>1. IInv => InOrder
  BY DEF IInv
<1>. QED BY CallsInvariant, <1>1, PTL

(* One thread at a time is inside the engine, however many there are.      *)
THEOREM EngineSerial == Spec => []EngineIsSerial
<1>1. IInv => EngineIsSerial
  BY DEF IInv, WorkInv, EngineIsSerial
<1>. QED BY CallsInvariant, <1>1, PTL

(* With the null backend, whatever a method reports with OK is what the    *)
(* engine answered.                                                        *)
THEOREM ClientsToldTheTruth == Spec => []ToldTheTruth
<1>1. ASSUME IInv PROVE ToldTheTruth
  <2>1. SUFFICES ASSUME NEW k \in 1..Len(log), Ok(log[k].call)
                 PROVE  result[log[k].call].value = Answer(log[k].question)
    BY DEF ToldTheTruth
  <2>. DEFINE c == log[k].call
  <2>2. c \in Calls /\ Asked(c) \in Requests
    BY <1>1, LogShape, CallShape DEF IInv
  <2>3. log[k].question \in rpc(Asked(c)).asks
    BY <1>1 DEF IInv, LogInv
  <2>4. result[c] = Returned(Asked(c).method, TRUE, rpc(Asked(c)).content)
    BY <1>1, <2>1, <2>2 DEF IInv, ResultInv, PastInv
  <2>. QED BY <2>2, <2>3, <2>4, RpcFacts
<1>. QED BY CallsInvariant, <1>1, PTL

-----------------------------------------------------------------------------
(* No call is left behind by the close, the stop, or a thread.             *)
LEMMA WaitInvStep ==
    ASSUME TypeOK, WaitInv, [Next]_vars
    PROVE  WaitInv'
<1>. USE DEF WaitInv, Service!Remembered
<1>1. ASSUME NEW u \in Users, Call(u)
      PROVE  WaitInv'
  BY <1>1 DEF TypeOK, Call, Service!Send
<1>2. ASSUME NEW w \in Workers, Ask(w) \/ Fill(w)
      PROVE  WaitInv'
  BY <1>2 DEF Ask, Fill, serviceVars
<1>3. ASSUME NEW w \in Workers, Write(w)
      PROVE  WaitInv'
  <2>1. /\ UNCHANGED <<phase, accepted>>
        /\ busy[w] \in Calls
        /\ status' = [status EXCEPT ![busy[w]] = IF @ = "open" THEN "ok" ELSE @]
        /\ busy' = [busy EXCEPT ![w] = NoCall]
    BY <1>3 DEF TypeOK, Write, Service!Answer
  <2>2. \A c \in Calls : /\ status'[c] = "sent" => status[c] = "sent"
                         /\ status'[c] = "open" => status[c] = "open" /\ c # busy[w]
    BY <2>1 DEF TypeOK
  <2>3. \A v \in Workers : v # w => busy'[v] = busy[v]
    BY <2>1 DEF TypeOK
  <2>. QED BY <2>1, <2>2, <2>3
<1>4. CASE Open \/ Close \/ Stop
  BY <1>4 DEF TypeOK, Open, Service!Open, Close, Service!Close, Stop, Service!Stop
<1>5. ASSUME NEW c \in Calls, Accept(c) \/ Lose(c) \/ Drop(c)
      PROVE  WaitInv'
  BY <1>5 DEF TypeOK, Accept, Service!Accept, Lose, Service!Lose, Drop, Service!Drop
<1>6. ASSUME NEW c \in Calls, NEW w \in Workers, Begin(c, w)
      PROVE  WaitInv'
  <2>1. /\ UNCHANGED <<phase, status>>
        /\ accepted' = accepted \ {c}
        /\ busy[w] = NoCall /\ busy' = [busy EXCEPT ![w] = c]
    BY <1>6 DEF Begin, Service!Begin
  <2>2. busy'[w] = c /\ \A v \in Workers : v # w => busy'[v] = busy[v]
    BY <2>1 DEF TypeOK
  <2>3. \A d \in Calls : d # NoCall
    BY CallShape
  <2>4. ASSUME NEW d \in Calls, status[d] = "open"
        PROVE  d \in accepted' \/ \E v \in Workers : busy'[v] = d
    BY <2>1, <2>2, <2>3, <2>4
  <2>. QED BY <2>1, <2>4
<1>7. CASE Die \/ UNCHANGED vars
  BY <1>7 DEF Die, vars, serviceVars
<1>8. ASSUME NEW u \in Users, Return(u)
      PROVE  WaitInv'
  BY <1>8 DEF Return, serviceVars
<1>. QED BY <1>1, <1>2, <1>3, <1>4, <1>5, <1>6, <1>7, <1>8 DEF Next, Ended

LEMMA WaitInvariant == Spec => []WaitInv
<1>1. Init => WaitInv
  BY DEF Init, Service!Init, WaitInv, Service!Remembered
<1>2. IInv /\ WaitInv /\ [Next]_vars => WaitInv'
  BY WaitInvStep DEF IInv
<1>. QED BY CallsInvariant, <1>1, <1>2, PTL DEF Spec

(* The calls that clients make run on the promise of the front end and on  *)
(* no more: what is on the wire is a behaviour of InferenceService, which  *)
(* GrpcServer implements.                                                  *)
THEOREM CallsRunOnService == Spec => Service!Spec
<1>1. Init => Service!Init
  BY DEF Init
<1>2. ASSUME TypeOK, [Next]_vars PROVE [Service!Next]_<<phase, status, accepted, busy>>
  <2>. USE DEF Service!Next
  <2>1. ASSUME NEW u \in Users, Call(u)
        PROVE  Service!Next
    <3>1. Current(u) \in Calls
      BY <1>2, <2>1, CallShape DEF TypeOK, Call, Current
    <3>. QED BY <2>1, <3>1 DEF Call
  <2>2. ASSUME NEW u \in Users, Return(u)
        PROVE  UNCHANGED <<phase, status, accepted, busy>>
    BY <2>2 DEF Return, serviceVars
  <2>3. ASSUME NEW w \in Workers, Ask(w) \/ Fill(w)
        PROVE  UNCHANGED <<phase, status, accepted, busy>>
    BY <2>3 DEF Ask, Fill, serviceVars
  <2>4. ASSUME NEW w \in Workers, Write(w)
        PROVE  Service!Next
    BY <2>4 DEF Write
  <2>5. CASE Open \/ Close \/ Stop
    BY <2>5 DEF Open, Close, Stop
  <2>6. ASSUME NEW c \in Calls, Accept(c) \/ Lose(c) \/ Drop(c)
        PROVE  Service!Next
    BY <2>6 DEF Accept, Lose, Drop
  <2>7. ASSUME NEW c \in Calls, NEW w \in Workers, Begin(c, w)
        PROVE  Service!Next
    BY <2>7 DEF Begin
  <2>8. CASE Die \/ UNCHANGED vars
    BY <2>8 DEF Die, vars, serviceVars
  <2>. QED BY <1>2, <2>1, <2>2, <2>3, <2>4, <2>5, <2>6, <2>7, <2>8 DEF Next, Ended
<1>. QED BY CallsTyped, <1>1, <1>2, PTL DEF Spec, Service!Spec, Service!svars

(* A user inside a method always has something to wait for: whatever the   *)
(* server has done in the meantime, it has not forgotten the call.  That   *)
(* it comes, under fairness, is MethodsReturn, which TLC checks.           *)
THEOREM NoUserIsForgotten == Spec => []UsersGoOn
<1>1. ASSUME IInv, WaitInv PROVE UsersGoOn
  <2>1. SUFFICES ASSUME NEW u \in waiting,
                        status[Current(u)] \notin {"ok", "failed"}
                 PROVE  \/ Current(u) \in accepted
                        \/ \E w \in Workers : busy[w] = Current(u)
                        \/ status[Current(u)] = "sent" /\ phase = "up"
    BY DEF UsersGoOn
  <2>2. u \in Users /\ next[u] \in 1..Len(Script[u]) /\ status[Current(u)] # "idle"
    BY <1>1, <2>1, CallShape DEF IInv, TypeOK
  <2>3. Current(u) \in Calls
    BY <2>2, CallShape DEF Current
  <2>4. status[Current(u)] \in {"sent", "open"}
    BY <1>1, <2>1, <2>2, <2>3 DEF IInv, TypeOK
  <2>. QED BY <1>1, <2>3, <2>4 DEF WaitInv, Service!Remembered
<1>. QED BY CallsInvariant, WaitInvariant, <1>1, PTL
=============================================================================
