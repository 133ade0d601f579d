------------------------- MODULE GrpcExampleProofs --------------------------
(* What holds of the example server for any number of runs of the client.  *)
EXTENDS GrpcExample, TLAPS

(* Types.                                                                  *)
LEMMA TypeStep == ExampleInv /\ [Next]_vars => ExampleTypeOK'
<1>. SUFFICES ASSUME ExampleInv, [Next]_vars PROVE ExampleTypeOK'
  OBVIOUS
<1>. USE ExampleAssumption DEF ExampleInv, ExampleTypeOK, serverVars, grpcVars, Ids, Event
<1>1. CASE BuildAndStart
  BY <1>1 DEF BuildAndStart
<1>2. CASE CreateFirst
  BY <1>2 DEF CreateFirst, NewCallData
<1>3. CASE NextEvent
  BY <1>3 DEF NextEvent
<1>4. CASE Replace
  BY <1>4 DEF Replace, NewCallData
<1>5. CASE Respond
  <2>. DEFINE c == serves[got.tag]
              done == [tag |-> got.tag, kind |-> "finish", ok |-> call[c] = "open"]
  <2>1. c \in Calls
    BY <1>5 DEF Respond, CallInv, TagInv, InHand
  <2>2. call'[c] \in {"ok", "failed", "open", "idle", "sent"}
    BY <1>5, <2>1 DEF Respond
  <2>3. call' \in [Calls -> {"idle", "sent", "open", "ok", "failed"}]
    BY <1>5, <2>1 DEF Respond
  <2>4. done \in Event
    BY DEF Event
  <2>5. state' \in [Ids -> {"none", "PROCESS", "FINISH", "deleted"}]
    BY <1>5 DEF Respond
  <2>. HIDE DEF done
  <2>6. events' = events \cup {done} /\ at' = "next"
        /\ UNCHANGED <<bound, created, got, serves, listening, result>>
    BY <1>5 DEF Respond, done
  <2>. QED BY <2>3, <2>4, <2>5, <2>6
<1>6. CASE DeleteThis
  BY <1>6 DEF DeleteThis
<1>7. CASE \E c \in Calls : Send(c)
  BY <1>7 DEF Send, Serving
<1>8. CASE \E c \in Calls : Match(c)
  <2>1. PICK c \in Calls : Match(c)
    BY <1>8
  <2>2. PICK i \in listening :
          /\ listening' = listening \ {i}
          /\ serves' = [serves EXCEPT ![i] = c]
          /\ events' = events \cup {[tag |-> i, kind |-> "request", ok |-> TRUE]}
    BY <2>1 DEF Match
  <2>3. /\ bound /\ at # "dead" /\ call[c] = "sent"
        /\ call' = [call EXCEPT ![c] = "open"]
        /\ UNCHANGED <<serverVars, result>>
    BY <2>1 DEF Match, Serving
  <2>. DEFINE made == [tag |-> i, kind |-> "request", ok |-> TRUE]
  <2>4. i \in Ids /\ made \in Event /\ made.tag = i /\ made.kind = "request" /\ made.ok
    OBVIOUS
  <2>5. events' = events \cup {made}
    BY <2>2
  <2>. HIDE DEF made
  <2>. QED BY <2>2, <2>3, <2>4, <2>5
<1>9. CASE \E c \in Calls : Lose(c)
  BY <1>9 DEF Lose, Serving
<1>10. CASE \E c \in Calls : Return(c)
  BY <1>10 DEF Return, Serving
<1>11. CASE UNCHANGED vars
  BY <1>11 DEF vars
<1>. QED BY <1>1, <1>2, <1>3, <1>4, <1>5, <1>6, <1>7, <1>8, <1>9, <1>10, <1>11 DEF Next, HandleRPCs, AllReturned

(* Where an address is.                                                    *)
LEMMA TagStep == ExampleInv /\ [Next]_vars => TagInv'
<1>. SUFFICES ASSUME ExampleInv, [Next]_vars PROVE TagInv'
  OBVIOUS
<1>. USE ExampleAssumption DEF ExampleInv, ExampleTypeOK, TagInv, InHand, serverVars, grpcVars, Ids, Event
<1>1. CASE BuildAndStart
  BY <1>1 DEF BuildAndStart
<1>2. CASE CreateFirst
  BY <1>2 DEF CreateFirst, NewCallData
<1>3. CASE NextEvent
  BY <1>3 DEF NextEvent
<1>4. CASE Replace
  BY <1>4 DEF Replace, NewCallData
<1>5. CASE Respond
  BY <1>5 DEF Respond
<1>6. CASE DeleteThis
  BY <1>6 DEF DeleteThis
<1>7. CASE \E c \in Calls : Send(c)
  BY <1>7 DEF Send, Serving
<1>8. CASE \E c \in Calls : Match(c)
  <2>1. PICK c \in Calls : Match(c)
    BY <1>8
  <2>2. PICK i \in listening :
          /\ listening' = listening \ {i}
          /\ serves' = [serves EXCEPT ![i] = c]
          /\ events' = events \cup {[tag |-> i, kind |-> "request", ok |-> TRUE]}
    BY <2>1 DEF Match
  <2>3. /\ bound /\ at # "dead" /\ call[c] = "sent"
        /\ call' = [call EXCEPT ![c] = "open"]
        /\ UNCHANGED <<serverVars, result>>
    BY <2>1 DEF Match, Serving
  <2>. DEFINE made == [tag |-> i, kind |-> "request", ok |-> TRUE]
  <2>4. i \in Ids /\ made \in Event /\ made.tag = i /\ made.kind = "request" /\ made.ok
    OBVIOUS
  <2>5. events' = events \cup {made}
    BY <2>2
  <2>. HIDE DEF made
  <2>. QED BY <2>2, <2>3, <2>4, <2>5
<1>9. CASE \E c \in Calls : Lose(c)
  BY <1>9 DEF Lose, Serving
<1>10. CASE \E c \in Calls : Return(c)
  BY <1>10 DEF Return, Serving
<1>11. CASE UNCHANGED vars
  BY <1>11 DEF vars
<1>. QED BY <1>1, <1>2, <1>3, <1>4, <1>5, <1>6, <1>7, <1>8, <1>9, <1>10, <1>11 DEF Next, HandleRPCs, AllReturned

(* The state of an object.                                                 *)
LEMMA StateStep == ExampleInv /\ [Next]_vars => StateInv'
<1>. SUFFICES ASSUME ExampleInv, [Next]_vars PROVE StateInv'
  OBVIOUS
<1>. USE ExampleAssumption DEF ExampleInv, ExampleTypeOK, TagInv, InHand, StateInv, ProceedsInState, serverVars, grpcVars, Ids, Event
<1>1. CASE BuildAndStart
  BY <1>1 DEF BuildAndStart
<1>2. CASE CreateFirst
  BY <1>2 DEF CreateFirst, NewCallData
<1>3. CASE NextEvent
  BY <1>3 DEF NextEvent
<1>4. CASE Replace
  BY <1>4 DEF Replace, NewCallData
<1>5. CASE Respond
  BY <1>5 DEF Respond
<1>6. CASE DeleteThis
  BY <1>6 DEF DeleteThis
<1>7. CASE \E c \in Calls : Send(c)
  BY <1>7 DEF Send, Serving
<1>8. CASE \E c \in Calls : Match(c)
  <2>1. PICK c \in Calls : Match(c)
    BY <1>8
  <2>2. PICK i \in listening :
          /\ listening' = listening \ {i}
          /\ serves' = [serves EXCEPT ![i] = c]
          /\ events' = events \cup {[tag |-> i, kind |-> "request", ok |-> TRUE]}
    BY <2>1 DEF Match
  <2>3. /\ bound /\ at # "dead" /\ call[c] = "sent"
        /\ call' = [call EXCEPT ![c] = "open"]
        /\ UNCHANGED <<serverVars, result>>
    BY <2>1 DEF Match, Serving
  <2>. DEFINE made == [tag |-> i, kind |-> "request", ok |-> TRUE]
  <2>4. i \in Ids /\ made \in Event /\ made.tag = i /\ made.kind = "request" /\ made.ok
    OBVIOUS
  <2>5. events' = events \cup {made}
    BY <2>2
  <2>. HIDE DEF made
  <2>. QED BY <2>2, <2>3, <2>4, <2>5
<1>9. CASE \E c \in Calls : Lose(c)
  BY <1>9 DEF Lose, Serving
<1>10. CASE \E c \in Calls : Return(c)
  BY <1>10 DEF Return, Serving
<1>11. CASE UNCHANGED vars
  BY <1>11 DEF vars
<1>. QED BY <1>1, <1>2, <1>3, <1>4, <1>5, <1>6, <1>7, <1>8, <1>9, <1>10, <1>11 DEF Next, HandleRPCs, AllReturned

(* The call of an object.                                                  *)
LEMMA CallStep == ExampleInv /\ [Next]_vars => CallInv'
<1>. SUFFICES ASSUME ExampleInv, [Next]_vars PROVE CallInv'
  OBVIOUS
<1>. USE ExampleAssumption DEF ExampleInv, ExampleTypeOK, TagInv, InHand, StateInv, ProceedsInState, CallInv, serverVars, grpcVars, Ids, Event
<1>1. CASE BuildAndStart
  BY <1>1 DEF BuildAndStart
<1>2. CASE CreateFirst
  BY <1>2 DEF CreateFirst, NewCallData
<1>3. CASE NextEvent
  BY <1>3 DEF NextEvent
<1>4. CASE Replace
  BY <1>4 DEF Replace, NewCallData
<1>5. CASE Respond
  <2>. DEFINE c == serves[got.tag]
              done == [tag |-> got.tag, kind |-> "finish", ok |-> call[c] = "open"]
  <2>1. /\ at = "respond" /\ got \in Event /\ got.tag \in Ids
        /\ state[got.tag] = "PROCESS" /\ got.kind = "request"
    BY <1>5 DEF Respond, StateInv
  <2>5. c \in Calls /\ call[c] \in {"open", "failed"}
    BY <2>1 DEF CallInv
  <2>6. done.tag = got.tag /\ done.kind = "finish" /\ done.ok = (call[c] = "open")
    OBVIOUS
  <2>7. done.ok <=> call[c] = "open"
    BY <2>6
  <2>2. /\ at = "respond" /\ at' = "next" /\ events' = events \cup {done}
        /\ state' = [state EXCEPT ![got.tag] = "FINISH"]
        /\ UNCHANGED <<bound, created, got, serves, listening, result>>
    BY <1>5 DEF Respond
  <2>3. call' = [call EXCEPT ![c] = IF call[c] = "open" THEN "ok" ELSE call[c]]
    BY <1>5 DEF Respond
  <2>. HIDE DEF done, c
  <2>4. /\ call' \in [Calls -> {"idle", "sent", "open", "ok", "failed"}]
        /\ call'[c] = IF call[c] = "open" THEN "ok" ELSE "failed"
        /\ \A d \in Calls : d # c => call'[d] = call[d]
    BY <2>3, <2>5
  <2>. QED BY <2>1, <2>2, <2>4, <2>5, <2>6, <2>7 DEF c
<1>6. CASE DeleteThis
  BY <1>6 DEF DeleteThis
<1>7. CASE \E c \in Calls : Send(c)
  BY <1>7 DEF Send, Serving
<1>8. CASE \E c \in Calls : Match(c)
  <2>1. PICK c \in Calls : Match(c)
    BY <1>8
  <2>2. PICK i \in listening :
          /\ listening' = listening \ {i}
          /\ serves' = [serves EXCEPT ![i] = c]
          /\ events' = events \cup {[tag |-> i, kind |-> "request", ok |-> TRUE]}
    BY <2>1 DEF Match
  <2>3. /\ bound /\ at # "dead" /\ call[c] = "sent"
        /\ call' = [call EXCEPT ![c] = "open"]
        /\ UNCHANGED <<serverVars, result>>
    BY <2>1 DEF Match, Serving
  <2>. DEFINE made == [tag |-> i, kind |-> "request", ok |-> TRUE]
  <2>4. i \in Ids /\ made \in Event /\ made.tag = i /\ made.kind = "request" /\ made.ok
    OBVIOUS
  <2>5. events' = events \cup {made}
    BY <2>2
  <2>. HIDE DEF made
  <2>. QED BY <2>2, <2>3, <2>4, <2>5, SMTT(20)
<1>9. CASE \E c \in Calls : Lose(c)
  BY <1>9 DEF Lose, Serving
<1>10. CASE \E c \in Calls : Return(c)
  BY <1>10 DEF Return, Serving
<1>11. CASE UNCHANGED vars
  BY <1>11 DEF vars
<1>. QED BY <1>1, <1>2, <1>3, <1>4, <1>5, <1>6, <1>7, <1>8, <1>9, <1>10, <1>11 DEF Next, HandleRPCs, AllReturned

(* An object is there while its address is held.                           *)
LEMMA OwnsStep == ExampleInv /\ [Next]_vars => OwnsItself'
<1>. SUFFICES ASSUME ExampleInv, [Next]_vars PROVE OwnsItself'
  OBVIOUS
<1>. USE ExampleAssumption DEF ExampleInv, ExampleTypeOK, TagInv, InHand, StateInv, ProceedsInState, OwnsItself, Held, serverVars, grpcVars, Ids, Event
<1>1. CASE BuildAndStart
  BY <1>1 DEF BuildAndStart
<1>2. CASE CreateFirst
  BY <1>2 DEF CreateFirst, NewCallData
<1>3. CASE NextEvent
  BY <1>3 DEF NextEvent
<1>4. CASE Replace
  BY <1>4 DEF Replace, NewCallData
<1>5. CASE Respond
  <2>. DEFINE done == [tag |-> got.tag, kind |-> "finish", ok |-> call[serves[got.tag]] = "open"]
  <2>1. /\ at = "respond" /\ got.tag \in Ids /\ got.tag < created
        /\ state[got.tag] = "PROCESS" /\ got.kind = "request"
    BY <1>5 DEF Respond
  <2>2. done.tag = got.tag /\ done.kind = "finish"
    OBVIOUS
  <2>3. /\ at' = "next" /\ events' = events \cup {done}
        /\ state' = [state EXCEPT ![got.tag] = "FINISH"]
        /\ UNCHANGED <<bound, created, got, serves, listening, result>>
    BY <1>5 DEF Respond
  <2>. HIDE DEF done
  <2>. QED BY <2>1, <2>2, <2>3
<1>6. CASE DeleteThis
  BY <1>6 DEF DeleteThis
<1>7. CASE \E c \in Calls : Send(c)
  BY <1>7 DEF Send, Serving
<1>8. CASE \E c \in Calls : Match(c)
  <2>1. PICK c \in Calls : Match(c)
    BY <1>8
  <2>2. PICK i \in listening :
          /\ listening' = listening \ {i}
          /\ serves' = [serves EXCEPT ![i] = c]
          /\ events' = events \cup {[tag |-> i, kind |-> "request", ok |-> TRUE]}
    BY <2>1 DEF Match
  <2>3. /\ bound /\ at # "dead" /\ call[c] = "sent"
        /\ call' = [call EXCEPT ![c] = "open"]
        /\ UNCHANGED <<serverVars, result>>
    BY <2>1 DEF Match, Serving
  <2>. DEFINE made == [tag |-> i, kind |-> "request", ok |-> TRUE]
  <2>4. i \in Ids /\ made \in Event /\ made.tag = i /\ made.kind = "request" /\ made.ok
    OBVIOUS
  <2>5. events' = events \cup {made}
    BY <2>2
  <2>. HIDE DEF made
  <2>. QED BY <2>2, <2>3, <2>4, <2>5
<1>9. CASE \E c \in Calls : Lose(c)
  BY <1>9 DEF Lose, Serving
<1>10. CASE \E c \in Calls : Return(c)
  BY <1>10 DEF Return, Serving
<1>11. CASE UNCHANGED vars
  BY <1>11 DEF vars
<1>. QED BY <1>1, <1>2, <1>3, <1>4, <1>5, <1>6, <1>7, <1>8, <1>9, <1>10, <1>11 DEF Next, HandleRPCs, AllReturned

(* One object listens.                                                     *)
LEMMA ListensStep == ExampleInv /\ [Next]_vars => OneListens'
<1>. SUFFICES ASSUME ExampleInv, [Next]_vars PROVE OneListens'
  OBVIOUS
<1>. USE ExampleAssumption DEF ExampleInv, ExampleTypeOK, TagInv, InHand, StateInv, ProceedsInState, OneListens, Awaiting, serverVars, grpcVars, Ids, Event
<1>1. CASE BuildAndStart
  BY <1>1 DEF BuildAndStart
<1>2. CASE CreateFirst
  BY <1>2 DEF CreateFirst, NewCallData
<1>3. CASE NextEvent
  BY <1>3 DEF NextEvent
<1>4. CASE Replace
  BY <1>4 DEF Replace, NewCallData
<1>5. CASE Respond
  <2>. DEFINE done == [tag |-> got.tag, kind |-> "finish", ok |-> call[serves[got.tag]] = "open"]
  <2>1. /\ at = "respond" /\ got.tag \in Ids /\ got.tag < created
        /\ state[got.tag] = "PROCESS" /\ got.kind = "request"
    BY <1>5 DEF Respond
  <2>2. done.tag = got.tag /\ done.kind = "finish"
    OBVIOUS
  <2>3. /\ at' = "next" /\ events' = events \cup {done}
        /\ state' = [state EXCEPT ![got.tag] = "FINISH"]
        /\ UNCHANGED <<bound, created, got, serves, listening, result>>
    BY <1>5 DEF Respond
  <2>. HIDE DEF done
  <2>. QED BY <2>1, <2>2, <2>3, SMTT(20)
<1>6. CASE DeleteThis
  BY <1>6 DEF DeleteThis
<1>7. CASE \E c \in Calls : Send(c)
  BY <1>7 DEF Send, Serving
<1>8. CASE \E c \in Calls : Match(c)
  <2>1. PICK c \in Calls : Match(c)
    BY <1>8
  <2>2. PICK i \in listening :
          /\ listening' = listening \ {i}
          /\ serves' = [serves EXCEPT ![i] = c]
          /\ events' = events \cup {[tag |-> i, kind |-> "request", ok |-> TRUE]}
    BY <2>1 DEF Match
  <2>3. /\ bound /\ at # "dead" /\ call[c] = "sent"
        /\ call' = [call EXCEPT ![c] = "open"]
        /\ UNCHANGED <<serverVars, result>>
    BY <2>1 DEF Match, Serving
  <2>. DEFINE made == [tag |-> i, kind |-> "request", ok |-> TRUE]
  <2>4. i \in Ids /\ made \in Event /\ made.tag = i /\ made.kind = "request" /\ made.ok
    OBVIOUS
  <2>5. events' = events \cup {made}
    BY <2>2
  <2>. HIDE DEF made
  <2>. QED BY <2>2, <2>3, <2>4, <2>5
<1>9. CASE \E c \in Calls : Lose(c)
  BY <1>9 DEF Lose, Serving
<1>10. CASE \E c \in Calls : Return(c)
  BY <1>10 DEF Return, Serving
<1>11. CASE UNCHANGED vars
  BY <1>11 DEF vars
<1>. QED BY <1>1, <1>2, <1>3, <1>4, <1>5, <1>6, <1>7, <1>8, <1>9, <1>10, <1>11 DEF Next, HandleRPCs, AllReturned

(* An abort has a lost client.                                             *)
LEMMA AbortStep == ExampleInv /\ [Next]_vars => AbortNeedsLostClient'
<1>. SUFFICES ASSUME ExampleInv, [Next]_vars PROVE AbortNeedsLostClient'
  OBVIOUS
<1>. USE ExampleAssumption DEF ExampleInv, ExampleTypeOK, TagInv, InHand, StateInv, ProceedsInState, CallInv, AbortNeedsLostClient, serverVars, grpcVars, Ids, Event
<1>1. CASE BuildAndStart
  BY <1>1 DEF BuildAndStart
<1>2. CASE CreateFirst
  BY <1>2 DEF CreateFirst, NewCallData
<1>3. CASE NextEvent
  BY <1>3 DEF NextEvent
<1>4. CASE Replace
  BY <1>4 DEF Replace, NewCallData
<1>5. CASE Respond
  <2>. DEFINE c == serves[got.tag]
              done == [tag |-> got.tag, kind |-> "finish", ok |-> call[c] = "open"]
  <2>1. /\ at = "respond" /\ got \in Event /\ got.tag \in Ids
        /\ state[got.tag] = "PROCESS" /\ got.kind = "request"
    BY <1>5 DEF Respond, StateInv
  <2>5. c \in Calls /\ call[c] \in {"open", "failed"}
    BY <2>1 DEF CallInv
  <2>6. done.tag = got.tag /\ done.kind = "finish" /\ done.ok = (call[c] = "open")
    OBVIOUS
  <2>7. done.ok <=> call[c] = "open"
    BY <2>6
  <2>2. /\ at = "respond" /\ at' = "next" /\ events' = events \cup {done}
        /\ state' = [state EXCEPT ![got.tag] = "FINISH"]
        /\ UNCHANGED <<bound, created, got, serves, listening, result>>
    BY <1>5 DEF Respond
  <2>3. call' = [call EXCEPT ![c] = IF call[c] = "open" THEN "ok" ELSE call[c]]
    BY <1>5 DEF Respond
  <2>. HIDE DEF done, c
  <2>4. /\ call' \in [Calls -> {"idle", "sent", "open", "ok", "failed"}]
        /\ call'[c] = IF call[c] = "open" THEN "ok" ELSE "failed"
        /\ \A d \in Calls : d # c => call'[d] = call[d]
    BY <2>3, <2>5
  <2>. QED BY <2>1, <2>2, <2>4, <2>5, <2>6, <2>7 DEF c
<1>6. CASE DeleteThis
  BY <1>6 DEF DeleteThis
<1>7. CASE \E c \in Calls : Send(c)
  BY <1>7 DEF Send, Serving
<1>8. CASE \E c \in Calls : Match(c)
  <2>1. PICK c \in Calls : Match(c)
    BY <1>8
  <2>2. PICK i \in listening :
          /\ listening' = listening \ {i}
          /\ serves' = [serves EXCEPT ![i] = c]
          /\ events' = events \cup {[tag |-> i, kind |-> "request", ok |-> TRUE]}
    BY <2>1 DEF Match
  <2>3. /\ bound /\ at # "dead" /\ call[c] = "sent"
        /\ call' = [call EXCEPT ![c] = "open"]
        /\ UNCHANGED <<serverVars, result>>
    BY <2>1 DEF Match, Serving
  <2>. DEFINE made == [tag |-> i, kind |-> "request", ok |-> TRUE]
  <2>4. i \in Ids /\ made \in Event /\ made.tag = i /\ made.kind = "request" /\ made.ok
    OBVIOUS
  <2>5. events' = events \cup {made}
    BY <2>2
  <2>. HIDE DEF made
  <2>. QED BY <2>2, <2>3, <2>4, <2>5
<1>9. CASE \E c \in Calls : Lose(c)
  BY <1>9 DEF Lose, Serving
<1>10. CASE \E c \in Calls : Return(c)
  BY <1>10 DEF Return, Serving
<1>11. CASE UNCHANGED vars
  BY <1>11 DEF vars
<1>. QED BY <1>1, <1>2, <1>3, <1>4, <1>5, <1>6, <1>7, <1>8, <1>9, <1>10, <1>11 DEF Next, HandleRPCs, AllReturned

(* A client that was told so was answered.                                 *)
LEMMA LiveStep == ExampleInv /\ [Next]_vars => LiveIsTrue'
<1>. SUFFICES ASSUME ExampleInv, [Next]_vars PROVE LiveIsTrue'
  OBVIOUS
<1>. USE ExampleAssumption DEF ExampleInv, ExampleTypeOK, TagInv, InHand, StateInv, CallInv, LiveIsTrue, serverVars, grpcVars, Ids, Event
<1>1. CASE BuildAndStart
  BY <1>1 DEF BuildAndStart
<1>2. CASE CreateFirst
  BY <1>2 DEF CreateFirst, NewCallData
<1>3. CASE NextEvent
  BY <1>3 DEF NextEvent
<1>4. CASE Replace
  BY <1>4 DEF Replace, NewCallData
<1>5. CASE Respond
  <2>. DEFINE c == serves[got.tag]
              done == [tag |-> got.tag, kind |-> "finish", ok |-> call[c] = "open"]
  <2>1. /\ at = "respond" /\ got \in Event /\ got.tag \in Ids
        /\ state[got.tag] = "PROCESS" /\ got.kind = "request"
    BY <1>5 DEF Respond, StateInv
  <2>5. c \in Calls /\ call[c] \in {"open", "failed"}
    BY <2>1 DEF CallInv
  <2>6. done.tag = got.tag /\ done.kind = "finish" /\ done.ok = (call[c] = "open")
    OBVIOUS
  <2>7. done.ok <=> call[c] = "open"
    BY <2>6
  <2>2. /\ at = "respond" /\ at' = "next" /\ events' = events \cup {done}
        /\ state' = [state EXCEPT ![got.tag] = "FINISH"]
        /\ UNCHANGED <<bound, created, got, serves, listening, result>>
    BY <1>5 DEF Respond
  <2>3. call' = [call EXCEPT ![c] = IF call[c] = "open" THEN "ok" ELSE call[c]]
    BY <1>5 DEF Respond
  <2>. HIDE DEF done, c
  <2>4. /\ call' \in [Calls -> {"idle", "sent", "open", "ok", "failed"}]
        /\ call'[c] = IF call[c] = "open" THEN "ok" ELSE "failed"
        /\ \A d \in Calls : d # c => call'[d] = call[d]
    BY <2>3, <2>5
  <2>. QED BY <2>1, <2>2, <2>4, <2>5, <2>6, <2>7 DEF c
<1>6. CASE DeleteThis
  BY <1>6 DEF DeleteThis
<1>7. CASE \E c \in Calls : Send(c)
  BY <1>7 DEF Send, Serving
<1>8. CASE \E c \in Calls : Match(c)
  <2>1. PICK c \in Calls : Match(c)
    BY <1>8
  <2>2. PICK i \in listening :
          /\ listening' = listening \ {i}
          /\ serves' = [serves EXCEPT ![i] = c]
          /\ events' = events \cup {[tag |-> i, kind |-> "request", ok |-> TRUE]}
    BY <2>1 DEF Match
  <2>3. /\ bound /\ at # "dead" /\ call[c] = "sent"
        /\ call' = [call EXCEPT ![c] = "open"]
        /\ UNCHANGED <<serverVars, result>>
    BY <2>1 DEF Match, Serving
  <2>. DEFINE made == [tag |-> i, kind |-> "request", ok |-> TRUE]
  <2>4. i \in Ids /\ made \in Event /\ made.tag = i /\ made.kind = "request" /\ made.ok
    OBVIOUS
  <2>5. events' = events \cup {made}
    BY <2>2
  <2>. HIDE DEF made
  <2>. QED BY <2>2, <2>3, <2>4, <2>5
<1>9. CASE \E c \in Calls : Lose(c)
  BY <1>9 DEF Lose, Serving
<1>10. CASE \E c \in Calls : Return(c)
  BY <1>10 DEF Return, Serving
<1>11. CASE UNCHANGED vars
  BY <1>11 DEF vars
<1>. QED BY <1>1, <1>2, <1>3, <1>4, <1>5, <1>6, <1>7, <1>8, <1>9, <1>10, <1>11 DEF Next, HandleRPCs, AllReturned

(* At first nothing is created, held or called.                            *)
LEMMA InitExampleInv == Init => ExampleInv
<1>. SUFFICES ASSUME Init PROVE ExampleInv
  OBVIOUS
<1>. USE ExampleAssumption DEF Init, Ids, Event
<1>0. got \in Event /\ created \in 0..MaxObjects
  OBVIOUS
<1>1. ExampleTypeOK
  BY <1>0 DEF ExampleTypeOK
<1>2. TagInv /\ StateInv
  BY DEF TagInv, StateInv, InHand, ProceedsInState
<1>3. CallInv
  BY DEF CallInv
<1>4. OwnsItself /\ OneListens
  BY DEF OwnsItself, OneListens, Held, InHand
<1>5. AbortNeedsLostClient /\ LiveIsTrue
  BY DEF AbortNeedsLostClient, LiveIsTrue
<1>. QED BY <1>1, <1>2, <1>3, <1>4, <1>5 DEF ExampleInv

(* Where every CallData and every call is, after every step: the           *)
(* strengthening the theorems below come from.                             *)
THEOREM ExampleInvariant == ExampleSpec => []ExampleInv
<1>1. ExampleInv /\ [Next]_vars => ExampleInv'
  BY TypeStep, TagStep, StateStep, CallStep, OwnsStep, ListensStep, AbortStep, LiveStep
     DEF ExampleInv
<1>. QED BY InitExampleInv, <1>1, PTL DEF ExampleSpec

(* No CallData is deleted while gRPC holds its address, and none leaks.    *)
THEOREM CallDataOwnsItself == ExampleSpec => []OwnsItself
<1>1. ExampleInv => OwnsItself
  BY DEF ExampleInv
<1>. QED BY ExampleInvariant, <1>1, PTL

(* One CallData listens, or is about to be replaced by one that does.      *)
THEOREM ExampleListens == ExampleSpec => []OneListens
<1>1. ExampleInv => OneListens
  BY DEF ExampleInv
<1>. QED BY ExampleInvariant, <1>1, PTL

(* A server that was bound aborts only after a client went away.           *)
THEOREM AbortHasLostClient == ExampleSpec => []AbortNeedsLostClient
<1>1. ExampleInv => AbortNeedsLostClient
  BY DEF ExampleInv
<1>. QED BY ExampleInvariant, <1>1, PTL

-----------------------------------------------------------------------------
(* The refinement: the calls that InferenceService holds as accepted are   *)
(* those of the request events, in the queue or in the thread's hand.      *)
Accepted == {serves[e.tag] : e \in {f \in events : f.kind = "request"}}
            \cup (IF at = "proceed" /\ got.kind = "request" THEN {serves[got.tag]} ELSE {})
Busy == [w \in {"thread"} |-> IF at = "respond" THEN serves[got.tag] ELSE NoCall]
Phase == IF bound THEN "up" ELSE "down"

LEMMA InitMaps == Init => Service!Init
  BY Zenon DEF Init, Service!Init

LEMMA StepMaps ==
    ASSUME ExampleInv, ExampleInv', [Next]_vars
    PROVE  [Service!Next]_<<Phase, call, Accepted, Busy>>
<1>. USE ExampleAssumption DEF ExampleInv, ExampleTypeOK, Ids, Event
<1>. DEFINE same == UNCHANGED <<Phase, call, Accepted, Busy>>
<1>1. CASE BuildAndStart
  <2>1. at = "starting" /\ at' = "create" /\ ~bound /\ UNCHANGED <<got, serves, events, call>>
    BY <1>1 DEF BuildAndStart, CallInv, grpcVars
  <2>2. Accepted' = Accepted /\ Busy' = Busy /\ call' = call
    BY <2>1 DEF Accepted, Busy
  <2>3. CASE bound'
    BY <2>1, <2>2, <2>3 DEF Service!Next, Service!Open, Phase, Accepted, Busy
  <2>4. CASE ~bound'
    BY <2>1, <2>2, <2>4 DEF Phase
  <2>. QED BY <2>3, <2>4
<1>2. CASE CreateFirst
  BY <1>2 DEF CreateFirst, Accepted, Busy, Phase
<1>3. CASE NextEvent
  <2>1. PICK e \in events : /\ events' = events \ {e} /\ got' = e
                            /\ at' = IF e.ok THEN "proceed" ELSE "dead"
    BY <1>3 DEF NextEvent
  <2>2. at = "next" /\ UNCHANGED <<bound, serves, call>>
    BY <1>3 DEF NextEvent
  <2>3. e.kind = "request" => e.ok
    BY DEF CallInv
  <2>4. e.kind \in {"request", "finish"}
    OBVIOUS
  <2>5. Accepted' = Accepted
    BY <2>1, <2>2, <2>3, <2>4 DEF Accepted
  <2>6. Busy' = Busy /\ Phase' = Phase
    BY <2>1, <2>2 DEF Busy, Phase
  <2>. QED BY <2>2, <2>5, <2>6
<1>4. CASE Replace
  <2>. DEFINE c == serves[got.tag]
  <2>1. /\ at = "proceed" /\ at' = "respond" /\ UNCHANGED <<bound, got, serves, events, call>>
        /\ state[got.tag] = "PROCESS"
    BY <1>4 DEF Replace, NewCallData
  <2>2. got.kind = "request" /\ c \in Calls /\ got.tag \in Ids
    BY <2>1 DEF StateInv, ProceedsInState, CallInv
  <2>3. \A e \in events : serves[e.tag] # c
    BY <2>1, <2>2 DEF CallInv, TagInv, InHand
  <2>4. c \in Accepted /\ Accepted' = Accepted \ {c}
    BY <2>1, <2>2, <2>3 DEF Accepted
  <2>5. Busy["thread"] = NoCall /\ Busy' = [Busy EXCEPT !["thread"] = c] /\ Phase' = Phase
    BY <2>1 DEF Busy, Phase
  <2>6. Service!Begin(c, "thread")
    BY <2>1, <2>2, <2>4, <2>5 DEF Service!Begin, Phase, Accepted, Busy
  <2>. QED BY <2>2, <2>6 DEF Service!Next
<1>5. CASE Respond
  <2>. DEFINE c == serves[got.tag]
              done == [tag |-> got.tag, kind |-> "finish", ok |-> call[c] = "open"]
  <2>1. /\ at = "respond" /\ at' = "next" /\ UNCHANGED <<bound, got, serves>>
        /\ events' = events \cup {done}
        /\ call' = [call EXCEPT ![c] = IF @ = "open" THEN "ok" ELSE @]
    BY <1>5 DEF Respond
  <2>2. done.kind = "finish"
    OBVIOUS
  <2>3. c # NoCall
    BY <2>1 DEF CallInv
  <2>. HIDE DEF done
  <2>4. Accepted' = Accepted
    BY <2>1, <2>2 DEF Accepted
  <2>5. Busy["thread"] = c /\ Busy' = [Busy EXCEPT !["thread"] = NoCall] /\ Phase' = Phase
    BY <2>1 DEF Busy, Phase
  <2>6. Service!Answer("thread")
    BY <2>1, <2>3, <2>4, <2>5 DEF Service!Answer, Phase, Accepted, Busy
  <2>. QED BY <2>6 DEF Service!Next
<1>6. CASE DeleteThis
  <2>1. /\ at = "proceed" /\ at' = "next" /\ UNCHANGED <<bound, got, serves, events, call>>
        /\ state[got.tag] = "FINISH"
    BY <1>6 DEF DeleteThis, grpcVars
  <2>2. got.kind # "request"
    BY <2>1 DEF StateInv, ProceedsInState
  <2>3. Accepted' = Accepted
    BY <2>1, <2>2 DEF Accepted
  <2>. QED BY <2>1, <2>3 DEF Busy, Phase
<1>7. ASSUME NEW c \in Calls, Send(c) PROVE Service!Send(c)
  <2>1. /\ call[c] = "idle" /\ call' = [call EXCEPT ![c] = IF bound THEN "sent" ELSE "failed"]
        /\ UNCHANGED <<serverVars, serves, events>>
    BY <1>7 DEF Send
  <2>2. Phase' = Phase /\ Accepted' = Accepted /\ Busy' = Busy
    BY <2>1 DEF serverVars, Phase, Accepted, Busy
  <2>3. bound <=> Phase = "up"
    BY DEF Phase
  <2>. QED BY <2>1, <2>2, <2>3 DEF Service!Send, Phase, Accepted, Busy
<1>8. ASSUME NEW c \in Calls, Match(c) PROVE Service!Accept(c)
  <2>1. PICK i \in listening :
          /\ serves' = [serves EXCEPT ![i] = c]
          /\ events' = events \cup {[tag |-> i, kind |-> "request", ok |-> TRUE]}
    BY <1>8 DEF Match
  <2>. DEFINE made == [tag |-> i, kind |-> "request", ok |-> TRUE]
  <2>2. made.tag = i /\ made.kind = "request"
    OBVIOUS
  <2>3. events' = events \cup {made}
    BY <2>1
  <2>. HIDE DEF made
  <2>4. /\ bound /\ call[c] = "sent" /\ call' = [call EXCEPT ![c] = "open"]
        /\ UNCHANGED serverVars
    BY <1>8 DEF Match, Serving
  <2>5. /\ i \in Ids /\ serves'[i] = c
        /\ \A e \in events : serves'[e.tag] = serves[e.tag]
        /\ at = "proceed" => serves'[got.tag] = serves[got.tag]
    BY <2>1 DEF TagInv, InHand
  <2>6. Accepted' = Accepted \cup {c}
    BY <2>2, <2>3, <2>4, <2>5 DEF Accepted, serverVars
  <2>7. at = "respond" => serves'[got.tag] = serves[got.tag]
    BY <2>1 DEF TagInv, InHand
  <2>8. Busy' = Busy /\ Phase' = Phase /\ Phase = "up"
    BY <2>4, <2>7 DEF Busy, Phase, serverVars
  <2>. QED BY <2>4, <2>6, <2>8 DEF Service!Accept, Phase, Accepted, Busy
<1>9. ASSUME NEW c \in Calls, Lose(c) PROVE Service!Lose(c)
  <2>1. /\ call[c] \in {"sent", "open"} /\ call' = [call EXCEPT ![c] = "failed"]
        /\ UNCHANGED <<serverVars, serves, events>>
    BY <1>9 DEF Lose
  <2>2. Phase' = Phase /\ Accepted' = Accepted /\ Busy' = Busy
    BY <2>1 DEF serverVars, Phase, Accepted, Busy
  <2>. QED BY <2>1, <2>2 DEF Service!Lose, Phase, Accepted, Busy
<1>10. CASE (\E c \in Calls : Return(c)) \/ UNCHANGED vars
  BY <1>10 DEF Return, vars, serverVars, grpcVars, Phase, Accepted, Busy
<1>. QED
  BY <1>1, <1>2, <1>3, <1>4, <1>5, <1>6, <1>7, <1>8, <1>9, <1>10
     DEF Next, HandleRPCs, AllReturned, Service!Next

(* The example server implements InferenceService: a call it takes is      *)
(* executed at most once and answered only after that.                     *)
THEOREM ExampleImplementsService == ExampleSpec => ExampleServes
<1>1. ExampleInv /\ ExampleInv' /\ [Next]_vars => [Service!Next]_(Service!svars)
  BY StepMaps DEF Service!svars, Phase, Accepted, Busy
<1>. QED BY InitMaps, <1>1, ExampleInvariant, PTL DEF ExampleSpec, ExampleServes, Service!Spec

-----------------------------------------------------------------------------
(* A call that was taken keeps the object that answers it.                 *)
AnswerDue == \A c \in Calls :
    /\ call[c] = "sent" => bound
    /\ call[c] = "open" => at = "dead" \/ \E i \in Ids :
          serves[i] = c /\ (Awaiting(i) \/ (at = "respond" /\ got.tag = i))

LEMMA AnswerDueStep ==
    ASSUME ExampleInv, AnswerDue, [Next]_vars
    PROVE  AnswerDue'
<1>. USE ExampleAssumption DEF ExampleInv, ExampleTypeOK, AnswerDue, Awaiting
<1>1. CASE BuildAndStart
  BY <1>1 DEF BuildAndStart, CallInv, grpcVars
<1>2. CASE CreateFirst
  BY <1>2 DEF CreateFirst, NewCallData
<1>3. CASE NextEvent
  BY <1>3 DEF NextEvent, CallInv
<1>4. CASE Replace
  BY <1>4 DEF Replace, NewCallData
<1>5. CASE Respond
  <2>. DEFINE c == serves[got.tag]
              done == [tag |-> got.tag, kind |-> "finish", ok |-> call[c] = "open"]
  <2>1. /\ at = "respond" /\ at' = "next" /\ UNCHANGED <<bound, got, serves, listening>>
        /\ events' = events \cup {done}
        /\ call' = [call EXCEPT ![c] = IF @ = "open" THEN "ok" ELSE @]
    BY <1>5 DEF Respond
  <2>2. \A d \in Calls : /\ call'[d] = "sent" => call[d] = "sent"
                         /\ call'[d] = "open" => call[d] = "open" /\ d # c
    BY <2>1
  <2>. HIDE DEF done, c
  <2>3. ASSUME NEW d \in Calls, call'[d] = "open"
        PROVE  \E i \in Ids : serves[i] = d /\ Awaiting(i)'
    <3>1. PICK i \in Ids : serves[i] = d /\ (Awaiting(i) \/ got.tag = i)
      BY <2>1, <2>2, <2>3
    <3>2. got.tag # i
      BY <2>2, <2>3, <3>1 DEF c
    <3>. QED BY <2>1, <3>1, <3>2
  <2>. QED BY <2>1, <2>2, <2>3
<1>6. CASE DeleteThis
  <2>1. at = "proceed" /\ state[got.tag] = "FINISH" /\ at' = "next" /\ UNCHANGED <<bound, got, grpcVars>>
    BY <1>6 DEF DeleteThis
  <2>2. got.kind # "request"
    BY <2>1 DEF StateInv, ProceedsInState
  <2>. QED BY <2>1, <2>2 DEF grpcVars
<1>7. CASE \E c \in Calls : Send(c) \/ Lose(c) \/ Return(c)
  BY <1>7 DEF Send, Lose, Return, serverVars, grpcVars
<1>8. ASSUME NEW c \in Calls, Match(c)
      PROVE  AnswerDue'
  <2>1. PICK i \in listening :
          /\ listening' = listening \ {i}
          /\ serves' = [serves EXCEPT ![i] = c]
          /\ events' = events \cup {[tag |-> i, kind |-> "request", ok |-> TRUE]}
    BY <1>8 DEF Match
  <2>2. /\ call' = [call EXCEPT ![c] = "open"] /\ bound
        /\ UNCHANGED <<at, bound, got>>
    BY <1>8 DEF Match, Serving, serverVars
  <2>. DEFINE made == [tag |-> i, kind |-> "request", ok |-> TRUE]
  <2>3. made.tag = i /\ made.kind = "request" /\ events' = events \cup {made}
    BY <2>1
  <2>. HIDE DEF made
  <2>4. serves'[i] = c /\ Awaiting(i)' /\ i \in Ids /\ serves[i] = NoCall
    BY <2>1, <2>3 DEF CallInv
  <2>5. ASSUME NEW d \in Calls, d # c, call[d] = "open", at # "dead"
        PROVE  \E j \in Ids : serves'[j] = d /\ (Awaiting(j)' \/ (at' = "respond" /\ got'.tag = j))
    <3>1. PICK j \in Ids : serves[j] = d /\ (Awaiting(j) \/ (at = "respond" /\ got.tag = j))
      BY <2>5
    <3>2. j # i /\ serves'[j] = d
      BY <2>1, <2>4, <3>1
    <3>. QED BY <2>1, <2>2, <2>3, <3>1, <3>2
  <2>. QED BY <2>2, <2>4, <2>5
<1>9. CASE UNCHANGED vars
  BY <1>9 DEF vars, serverVars, grpcVars
<1>. QED BY <1>1, <1>2, <1>3, <1>4, <1>5, <1>6, <1>7, <1>8, <1>9 DEF Next, HandleRPCs, AllReturned

(* No client waits in vain: its call has an object, or one is to come.     *)
(* That it is answered, under fairness, is ClientsReturn, which TLC checks.*)
THEOREM NoClientIsForgotten == ExampleSpec => []ClientsGoOn
<1>1. Init => AnswerDue
  BY DEF Init, AnswerDue
<1>2. ExampleInv /\ AnswerDue /\ [Next]_vars => AnswerDue'
  BY AnswerDueStep
<1>3. ExampleInv /\ AnswerDue => ClientsGoOn
  <2>1. ExampleInv => (bound /\ at \notin {"create", "dead"} => \E i \in Ids : Awaiting(i))
    BY DEF ExampleInv, ExampleTypeOK, CallInv, OneListens
  <2>. QED BY <2>1 DEF AnswerDue, ClientsGoOn
<1>. QED BY ExampleInvariant, <1>1, <1>2, <1>3, PTL DEF ExampleSpec
=============================================================================
