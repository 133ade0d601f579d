---------------------------- MODULE GrpcExample -----------------------------
(***************************************************************************)
(* grpc_example: a server of the one method ServerLive, and its client.    *)
(* One thread both takes the events of the one queue and executes them; a  *)
(* CallData owns itself, is replaced before it answers, and deletes itself *)
(* when its answer is out.  Any failed event aborts the server.            *)
(*                                                                         *)
(* It is the pattern that grpc_server grew from, without pool, ids, second *)
(* thread and stop: ~ServerImpl is not reached, for Run() does not return. *)
(***************************************************************************)
EXTENDS Naturals, FiniteSets

CONSTANTS Calls,      \* the runs of the client program, one call each
          NoCall,     \* "serves no call"
          MaxObjects  \* bound on the CallData objects ever created

ASSUME ExampleAssumption == NoCall \notin Calls /\ MaxObjects \in Nat \ {0}

Ids == 0..(MaxObjects - 1)
Event == [tag : Ids, kind : {"request", "finish"}, ok : BOOLEAN]

VARIABLES
    at,         \* where the server's thread is
    bound,      \* BuildAndStart() returned a server
    created,    \* how many objects were created
    got,        \* the event in hand
    state,      \* of each object: its _status, or that it is not there
    serves,     \* the call whose context an object holds
    listening,  \* the objects whose RequestServerLive waits for a call
    events,     \* the events in _queue
    call,       \* what each client's call has come to
    result      \* what ServerLive() of each client returned

serverVars == <<at, bound, created, got, state>>
grpcVars == <<serves, listening, events, call>>
vars == <<serverVars, grpcVars, result>>

Init == /\ at = "starting" /\ bound = FALSE
        /\ created = 0 /\ got = [tag |-> 0, kind |-> "finish", ok |-> FALSE]
        /\ state = [i \in Ids |-> "none"]
        /\ serves = [i \in Ids |-> NoCall]
        /\ listening = {} /\ events = {}
        /\ call = [c \in Calls |-> "idle"]
        /\ result = [c \in Calls |-> "none"]

-----------------------------------------------------------------------------
(* The server's thread.                                                    *)

(* BuildAndStart() binds the port or returns null, which nobody checks.    *)
BuildAndStart ==
    /\ at = "starting"
    /\ bound' \in BOOLEAN
    /\ at' = "create"
    /\ UNCHANGED <<created, got, state, grpcVars, result>>

(* The constructor of CallData, which runs Proceed() in CREATE.            *)
NewCallData ==
    /\ created < MaxObjects
    /\ created' = created + 1
    /\ state' = [state EXCEPT ![created] = "PROCESS"]
    /\ listening' = listening \cup {created}

(* The first object.  Without a server the request is posted through a     *)
(* null pointer: the process ends, or waits for events that never come.    *)
CreateFirst ==
    /\ at = "create"
    /\ NewCallData
    /\ at' = "next" \/ (~bound /\ at' = "dead")
    /\ UNCHANGED <<bound, got, serves, events, call, result>>

(* Mutant: the condition is inverted.                                      *)
NextEventInverted ==
    /\ at = "next"
    /\ \E e \in events :
         /\ events' = events \ {e}
         /\ got' = e
         /\ at' = IF e.ok THEN "dead" ELSE "proceed"
    /\ UNCHANGED <<bound, created, state, serves, listening, call, result>>

(* _queue->Next() returns an event; one that failed aborts the process.    *)
NextEvent ==
    /\ at = "next"
    /\ \E e \in events :
         /\ events' = events \ {e}
         /\ got' = e
         /\ at' = IF e.ok THEN "proceed" ELSE "dead"
    /\ UNCHANGED <<bound, created, state, serves, listening, call, result>>

(* Mutant: the object is not replaced.                                     *)
ReplaceNothing ==
    /\ at = "proceed" /\ state[got.tag] = "PROCESS"
    /\ at' = "respond"
    /\ UNCHANGED <<bound, created, got, state, grpcVars, result>>

(* Proceed() in PROCESS: first a successor that listens ...                *)
Replace ==
    /\ at = "proceed" /\ state[got.tag] = "PROCESS"
    /\ NewCallData
    /\ at' = "respond"
    /\ UNCHANGED <<bound, got, serves, events, call, result>>

(* Mutants: the state stays PROCESS; the object deletes itself at once.    *)
RespondUnmarked ==
    LET c == serves[got.tag] IN
    /\ at = "respond"
    /\ events' = events \cup {[tag |-> got.tag, kind |-> "finish", ok |-> call[c] = "open"]}
    /\ call' = [call EXCEPT ![c] = IF @ = "open" THEN "ok" ELSE @]
    /\ at' = "next"
    /\ UNCHANGED <<bound, created, got, state, serves, listening, result>>

RespondAndDelete ==
    LET c == serves[got.tag] IN
    /\ at = "respond"
    /\ state' = [state EXCEPT ![got.tag] = "deleted"]
    /\ events' = events \cup {[tag |-> got.tag, kind |-> "finish", ok |-> call[c] = "open"]}
    /\ call' = [call EXCEPT ![c] = IF @ = "open" THEN "ok" ELSE @]
    /\ at' = "next"
    /\ UNCHANGED <<bound, created, got, serves, listening, result>>

(* ... then the state, and Finish, whose event is ok if the client waits.  *)
Respond ==
    LET c == serves[got.tag] IN
    /\ at = "respond"
    /\ state' = [state EXCEPT ![got.tag] = "FINISH"]
    /\ events' = events \cup {[tag |-> got.tag, kind |-> "finish", ok |-> call[c] = "open"]}
    /\ call' = [call EXCEPT ![c] = IF @ = "open" THEN "ok" ELSE @]
    /\ at' = "next"
    /\ UNCHANGED <<bound, created, got, serves, listening, result>>

(* Proceed() in FINISH.                                                    *)
DeleteThis ==
    /\ at = "proceed" /\ state[got.tag] = "FINISH"
    /\ state' = [state EXCEPT ![got.tag] = "deleted"]
    /\ at' = "next"
    /\ UNCHANGED <<bound, created, got, grpcVars, result>>

HandleRPCs == BuildAndStart \/ CreateFirst \/ NextEvent \/ Replace \/ Respond \/ DeleteThis

-----------------------------------------------------------------------------
(* Clients and gRPC.                                                       *)

Serving == bound /\ at # "dead"

(* A client starts its call; it fails at once if nobody ever listened.     *)
Send(c) ==
    /\ call[c] = "idle"
    /\ call' = [call EXCEPT ![c] = IF bound THEN "sent" ELSE "failed"]
    /\ UNCHANGED <<serverVars, serves, listening, events, result>>

Match(c) ==
    /\ Serving /\ call[c] = "sent"
    /\ \E i \in listening :
         /\ listening' = listening \ {i}
         /\ serves' = [serves EXCEPT ![i] = c]
         /\ events' = events \cup {[tag |-> i, kind |-> "request", ok |-> TRUE]}
    /\ call' = [call EXCEPT ![c] = "open"]
    /\ UNCHANGED <<serverVars, result>>

(* The client, the connection or the server goes away.                     *)
Lose(c) ==
    /\ call[c] \in {"sent", "open"}
    /\ call' = [call EXCEPT ![c] = "failed"]
    /\ UNCHANGED <<serverVars, serves, listening, events, result>>

(* ServerLive() of the client: the flag of the reply, false on an error.   *)
Return(c) ==
    /\ call[c] \in {"ok", "failed"} /\ result[c] = "none"
    /\ result' = [result EXCEPT ![c] = IF call[c] = "ok" THEN "true" ELSE "false"]
    /\ UNCHANGED <<serverVars, grpcVars>>

AllReturned == (\A c \in Calls : result[c] # "none") /\ UNCHANGED vars

Next == \/ HandleRPCs
        \/ \E c \in Calls : Send(c) \/ Match(c) \/ Lose(c) \/ Return(c)
        \/ AllReturned

ExampleSpec == Init /\ [][Next]_vars

(* The server's thread, gRPC and the clients keep running, and a           *)
(* connection to a process that is gone breaks.                            *)
FairExample ==
    /\ ExampleSpec
    /\ WF_vars(HandleRPCs)
    /\ \A c \in Calls : WF_vars(Match(c)) /\ WF_vars(at = "dead" /\ Lose(c)) /\ WF_vars(Return(c))

-----------------------------------------------------------------------------
(* Every variable has its type.                                            *)
ExampleTypeOK ==
    /\ at \in {"starting", "create", "next", "proceed", "respond", "dead"}
    /\ bound \in BOOLEAN /\ created \in 0..MaxObjects /\ got \in Event
    /\ state \in [Ids -> {"none", "PROCESS", "FINISH", "deleted"}]
    /\ serves \in [Ids -> Calls \cup {NoCall}]
    /\ listening \subseteq Ids /\ events \subseteq Event
    /\ call \in [Calls -> {"idle", "sent", "open", "ok", "failed"}]
    /\ result \in [Calls -> {"none", "true", "false"}]

InHand(i) == at \in {"proceed", "respond"} /\ got.tag = i
Held(i) == i \in listening \/ InHand(i) \/ \E e \in events : e.tag = i

(* An object that deletes itself is there exactly as long as gRPC or the   *)
(* thread holds its address: none is deleted under gRPC's eyes, and none   *)
(* leaks, unless the process aborts.                                       *)
OwnsItself ==
    /\ \A i \in Ids : Held(i) => state[i] \in {"PROCESS", "FINISH"}
    /\ at # "dead" => \A i \in Ids : state[i] \in {"PROCESS", "FINISH"} => Held(i)

(* An event finds its object in the state that Proceed() needs for it.     *)
ProceedsInState ==
    /\ \A e \in events : state[e.tag] = (IF e.kind = "request" THEN "PROCESS" ELSE "FINISH")
    /\ at = "proceed" => state[got.tag] = (IF got.kind = "request" THEN "PROCESS" ELSE "FINISH")

(* While the server runs, exactly one object listens for the next call or  *)
(* is the matched one that has yet to make its successor.                  *)
Awaiting(i) ==
    \/ i \in listening
    \/ \E e \in events : e.tag = i /\ e.kind = "request"
    \/ at = "proceed" /\ got.tag = i /\ got.kind = "request"
OneListens == at \in {"next", "proceed", "respond"} =>
    \E i \in Ids : Awaiting(i) /\ \A j \in Ids : Awaiting(j) => i = j

(* server.cpp:111-112: only a client that went away after its call was     *)
(* taken makes a running server abort, for all other clients too.          *)
AbortNeedsLostClient ==
    at = "dead" /\ bound => \E i \in Ids : serves[i] # NoCall /\ call[serves[i]] = "failed"

(* A client that prints 1 was answered by the server's thread.             *)
LiveIsTrue == \A c \in Calls : result[c] = "true" =>
    call[c] = "ok" /\ \E i \in Ids : serves[i] = c /\ state[i] \in {"FINISH", "deleted"}

(* A client that called comes back.                                        *)
ClientsReturn == \A c \in Calls : call[c] = "sent" ~> result[c] # "none"

(* The state behind it: while the process lives, a call that was sent has  *)
(* an object that listens for it or will make one, and a call that was     *)
(* taken has the object that is going to answer it.                        *)
ClientsGoOn == at # "dead" => \A c \in Calls :
    /\ call[c] = "sent" => bound /\ (at = "create" \/ \E i \in Ids : Awaiting(i))
    /\ call[c] = "open" => \E i \in Ids :
          serves[i] = c /\ (Awaiting(i) \/ (at = "respond" /\ got.tag = i))

(* This front end, too, implements InferenceService.                       *)
Service == INSTANCE InferenceService WITH
    Workers <- {"thread"},
    CanServe <- {"thread"} \X Calls,
    phase <- IF bound THEN "up" ELSE "down",
    status <- call,
    accepted <- {serves[e.tag] : e \in {f \in events : f.kind = "request"}}
                \cup (IF at = "proceed" /\ got.kind = "request" THEN {serves[got.tag]} ELSE {}),
    busy <- [w \in {"thread"} |-> IF at = "respond" THEN serves[got.tag] ELSE NoCall]
ExampleServes == Service!Spec

-----------------------------------------------------------------------------
(* The inductive invariant.                                                *)

(* The address of an object is in one place: posted, in the queue, or in   *)
(* the thread's hand.                                                      *)
TagInv ==
    /\ \A i \in listening : i < created /\ ~InHand(i)
    /\ \A e \in events : e.tag < created /\ e.tag \notin listening /\ ~InHand(e.tag)
    /\ \A e, f \in events : e.tag = f.tag => e = f
    /\ at \in {"proceed", "respond"} => got.tag < created /\ got.ok
    /\ at \in {"starting", "create"} => created = 0

StateInv ==
    /\ \A i \in Ids : state[i] = "none" <=> i >= created
    /\ \A i \in listening : state[i] = "PROCESS"
    /\ ProceedsInState
    /\ at = "respond" => state[got.tag] = "PROCESS" /\ got.kind = "request"

(* An object serves at most one call and a call is served by at most one   *)
(* object; what is known of the call goes with where the object is.        *)
CallInv ==
    /\ \A i \in Ids : state[i] = "none" \/ i \in listening => serves[i] = NoCall
    /\ \A i, j \in Ids : serves[i] = serves[j] /\ serves[i] # NoCall => i = j
    /\ \A i \in Ids : serves[i] # NoCall => call[serves[i]] \in {"open", "ok", "failed"}
    /\ \A e \in events :
          /\ serves[e.tag] # NoCall
          /\ e.kind = "request" => e.ok /\ call[serves[e.tag]] \in {"open", "failed"}
          /\ ~e.ok => call[serves[e.tag]] = "failed"
    /\ at \in {"proceed", "respond"} =>
          /\ serves[got.tag] # NoCall
          /\ got.kind = "request" => call[serves[got.tag]] \in {"open", "failed"}
    /\ ~bound => events = {} /\ at \notin {"proceed", "respond"}
    /\ at = "starting" => ~bound
    /\ \A c \in Calls : call[c] = "ok" =>
          \E i \in Ids : serves[i] = c /\ state[i] \in {"FINISH", "deleted"}

ExampleInv == /\ ExampleTypeOK /\ TagInv /\ StateInv /\ CallInv
              /\ OwnsItself /\ OneListens /\ AbortNeedsLostClient /\ LiveIsTrue
=============================================================================
