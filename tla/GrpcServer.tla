----------------------------- MODULE GrpcServer -----------------------------
(***************************************************************************)
(* tie::server::grpc_server from start() to the end of stop(), with the    *)
(* rpc_pool it allocates request objects from, the CREATE / PROCESS /      *)
(* FINISH life of each rpc_unary_async, the threads that run rpc_handler   *)
(* (one per inference queue, one for the common queue) and the thread that *)
(* calls start() and stop().                                               *)
(*                                                                         *)
(* gRPC itself (completion queues, matching a call with a posted request,  *)
(* Shutdown) is external and modelled from how the code relies on it.      *)
(*                                                                         *)
(* Two kinds of undefined behaviour are reachable and are outcomes of the  *)
(* steps that meet them, recorded in "faults": the map of the pool is used *)
(* by two threads at once (its lock is commented out), and a request       *)
(* object is used after it was freed.  After either the process goes on    *)
(* with what it finds, or dies (Crash).                                    *)
(***************************************************************************)
EXTENDS Integers, Sequences, FiniteSets

CONSTANTS InferQueues,   \* _rpc_inference_queues, one thread each
          CommonQueue,   \* _rpc_common_queue
          ModelInfer,    \* the method of the inference queues
          CommonRpcs,    \* the methods of the common queue, in boot order
          Calls,         \* the calls clients make
          MethodOf,      \* the method of each call
          NoCall,        \* "serves no call"
          MaxRpcs        \* bound on the values of next_id

Queues == InferQueues \cup {CommonQueue}
CommonMethods == {CommonRpcs[k] : k \in 1..Len(CommonRpcs)}
Methods == {ModelInfer} \cup CommonMethods
Ids == 0..(MaxRpcs - 1)

ASSUME QueuesAssumption == CommonQueue \notin InferQueues
ASSUME RpcsAssumption ==
    /\ CommonRpcs \in Seq(CommonMethods) /\ Len(CommonRpcs) > 0
    /\ ModelInfer \notin CommonMethods
    /\ \A j, k \in 1..Len(CommonRpcs) : CommonRpcs[j] = CommonRpcs[k] => j = k
ASSUME CallsAssumption == NoCall \notin Calls /\ MethodOf \in [Calls -> Methods]
ASSUME MaxRpcsAssumption == MaxRpcs \in Nat \ {0}

VARIABLES
    main,       \* where the thread that runs start() and stop() is
    bound,      \* BuildAndStart() returned a server (_is_running of start)
    srvDown,    \* _server->Shutdown() was called
    shut,       \* the completion queues that were shut down
    draining,   \* the queue stop() is draining
    pc,         \* where each server thread is
    booted,     \* how many of its first requests each thread has posted
    got,        \* the event each thread took from its queue
    fresh,      \* the request object each thread is creating
    nextId,     \* rpc_pool::next_id
    pool,       \* the ids in rpc_pool::_rpcs
    mem,        \* the memory of each request object
    rpcState,   \* _rpc_state of each request object
    home,       \* _cq of each request object
    method,     \* the class of each request object
    serves,     \* the call whose context a request object holds
    listening,  \* the objects posted with RequestXxx and not yet matched
    events,     \* the completion events waiting in the queues
    call,       \* what each client's call has come to
    faults,     \* the undefined behaviour and aborts met so far
    crashed,    \* the process is dead
    earlyStop   \* history: stop() began before every thread was listening

threadVars == <<pc, booted, got, fresh>>
poolVars == <<nextId, pool, mem>>
rpcVars == <<rpcState, home, method>>
grpcVars == <<serves, listening, events, call>>
mainVars == <<main, bound, srvDown, shut, draining, earlyStop>>
vars == <<main, bound, srvDown, shut, draining, pc, booted, got, fresh, nextId, pool, mem,
          rpcState, home, method, serves, listening, events, call, faults, crashed, earlyStop>>

Event == [tag : Ids, kind : {"request", "finish"}, ok : BOOLEAN]
NoEvent == [tag |-> 0, kind |-> "finish", ok |-> FALSE]

BootList(q) == IF q = CommonQueue THEN CommonRpcs ELSE <<ModelInfer>>

Init ==
    /\ main = "starting" /\ bound = FALSE /\ srvDown = FALSE
    /\ shut = {} /\ draining = CommonQueue /\ earlyStop = FALSE
    /\ pc = [q \in Queues |-> "off"]
    /\ booted = [q \in Queues |-> 0]
    /\ got = [q \in Queues |-> NoEvent]
    /\ fresh = [q \in Queues |-> 0]
    /\ nextId = 0 /\ pool = {}
    /\ mem = [i \in Ids |-> "none"]
    /\ rpcState = [i \in Ids |-> "CREATE"]
    /\ home = [i \in Ids |-> CommonQueue]
    /\ method = [i \in Ids |-> ModelInfer]
    /\ serves = [i \in Ids |-> NoCall]
    /\ listening = {} /\ events = {}
    /\ call = [c \in Calls |-> "idle"]
    /\ faults = {} /\ crashed = FALSE

-----------------------------------------------------------------------------
(* The pool.  No lock is taken, so two threads that stand at an access are *)
(* inside the map together; then an insertion or an erasure may be lost.   *)

AtPool(q) == pc[q] \in {"create", "respawn", "remove"}
Racing(q) == main = "release" \/ \E r \in Queues \ {q} : AtPool(r)
RaceFault(racing) == IF racing THEN {"data_race"} ELSE {}
Touch(i) == IF mem[i] = "freed" THEN {"use_after_free"} ELSE {}

(* The local shared_ptr of create_rpc(...)->execute() keeps its object.    *)
Posting(q) == pc[q] \in {"post", "repost"}
HeldLocally(i) == \E q \in Queues : Posting(q) /\ fresh[q] = i

(* create_rpc<T>: take an id, construct the object, insert it in the map.  *)
Insert(q, m) ==
    /\ nextId < MaxRpcs
    /\ nextId' = nextId + 1
    /\ mem' = [mem EXCEPT ![nextId] = "live"]
    /\ rpcState' = [rpcState EXCEPT ![nextId] = "CREATE"]
    /\ home' = [home EXCEPT ![nextId] = q]
    /\ method' = [method EXCEPT ![nextId] = m]
    /\ fresh' = [fresh EXCEPT ![q] = nextId]
    /\ \/ pool' = pool \cup {nextId}
       \/ Racing(q) /\ pool' = pool

(* Mutant: finished objects are never erased.                              *)
EraseNothing(q, i) == UNCHANGED <<pool, mem>>

(* remove_rpc: the pool owned the object, so erasing its id frees it.      *)
Erase(q, i) ==
    \/ /\ pool' = pool \ {i}
       /\ mem' = IF i \in pool THEN [mem EXCEPT ![i] = "freed"] ELSE mem
    \/ Racing(q) /\ UNCHANGED <<pool, mem>>

-----------------------------------------------------------------------------
(* A server thread on queue q.                                             *)

At(q, label) == ~crashed /\ pc[q] = label
Goto(q, label) == pc' = [pc EXCEPT ![q] = label]

(* The thread creates the next object of its boot list.                    *)
BootCreate(q) ==
    /\ At(q, "create")
    /\ Insert(q, BootList(q)[booted[q] + 1])
    /\ Goto(q, "post")
    /\ faults' = faults \cup RaceFault(Racing(q))
    /\ UNCHANGED <<booted, got, grpcVars, mainVars, crashed>>

(* execute() in CREATE: setup_request() posts the object's RequestXxx on   *)
(* its queue, the state moves on, and the local shared_ptr goes away.  A   *)
(* server that is down completes the request with ok = FALSE; posting on a *)
(* queue that is shut down aborts; without a server the post uses garbage. *)
PostRequest(q) ==
    LET i == fresh[q] IN
    /\ rpcState' = [rpcState EXCEPT ![i] = "PROCESS"]
    /\ mem' = IF i \in pool THEN mem ELSE [mem EXCEPT ![i] = "freed"]
    /\ listening' = IF bound /\ ~srvDown THEN listening \cup {i} ELSE listening
    /\ events' = IF bound /\ srvDown /\ q \notin shut
                 THEN events \cup {[tag |-> i, kind |-> "request", ok |-> FALSE]}
                 ELSE events
    /\ faults' = faults \cup (IF q \in shut THEN {"shut_queue_op"} ELSE {})
                        \cup (IF bound THEN {} ELSE {"no_server"})
    /\ crashed' = (q \in shut)

BootPost(q) ==
    /\ At(q, "post")
    /\ PostRequest(q)
    /\ booted' = [booted EXCEPT ![q] = @ + 1]
    /\ Goto(q, IF booted[q] + 1 < Len(BootList(q)) THEN "create" ELSE "next")
    /\ UNCHANGED <<got, fresh, nextId, pool, home, method, serves, call, mainVars>>

(* cq->Next returns an event.                                              *)
NextEvent(q) ==
    /\ At(q, "next")
    /\ \E e \in events :
         /\ home[e.tag] = q
         /\ got' = [got EXCEPT ![q] = e]
         /\ events' = events \ {e}
    /\ Goto(q, "dispatch")
    /\ UNCHANGED <<booted, fresh, poolVars, rpcVars, serves, listening, call,
                   mainVars, faults, crashed>>

(* cq->Next returns false: the queue is shut down and empty.               *)
NextEnd(q) ==
    /\ At(q, "next")
    /\ q \in shut
    /\ \A e \in events : home[e.tag] # q
    /\ Goto(q, "done")
    /\ UNCHANGED <<booted, got, fresh, poolVars, rpcVars, grpcVars, mainVars, faults, crashed>>

(* The tag is used as an rpc: by its id if the event failed, else by       *)
(* execute(), which goes by _rpc_state.  (No event reaches an object still *)
(* in CREATE: EventMatchesState.)                                          *)
Dispatch(q) ==
    LET i == got[q].tag IN
    /\ At(q, "dispatch")
    /\ \/ ~got[q].ok /\ Goto(q, "remove")
       \/ got[q].ok /\ rpcState[i] = "PROCESS" /\ Goto(q, "respawn")
       \/ got[q].ok /\ rpcState[i] = "FINISH" /\ Goto(q, "remove")
    /\ faults' = faults \cup Touch(i)
    /\ UNCHANGED <<booted, got, fresh, poolVars, rpcVars, grpcVars, mainVars, crashed>>

(* Mutant: nobody listens for the next call of the method.                 *)
RespawnNothing(q) ==
    /\ At(q, "respawn")
    /\ Goto(q, "process")
    /\ UNCHANGED <<booted, got, fresh, poolVars, rpcVars, grpcVars, mainVars, faults, crashed>>

(* create_rpc() of the class: a new object of the same class and queue.    *)
Respawn(q) ==
    LET i == got[q].tag IN
    /\ At(q, "respawn")
    /\ Insert(q, method[i])
    /\ Goto(q, "repost")
    /\ faults' = faults \cup Touch(i) \cup RaceFault(Racing(q))
    /\ UNCHANGED <<booted, got, grpcVars, mainVars, crashed>>

RespawnPost(q) ==
    /\ At(q, "repost")
    /\ PostRequest(q)
    /\ Goto(q, "process")
    /\ UNCHANGED <<booted, got, fresh, nextId, pool, home, method, serves, call, mainVars>>

(* process_request(): an engine call, or the 3 s sleep of an inference.    *)
Process(q) ==
    /\ At(q, "process")
    /\ Goto(q, "write")
    /\ faults' = faults \cup Touch(got[q].tag)
    /\ UNCHANGED <<booted, got, fresh, poolVars, rpcVars, grpcVars, mainVars, crashed>>

(* write_response(): Finish, whose completion is ok unless the client has  *)
(* gone.  On a queue that is shut down it aborts.                          *)
Write(q) ==
    LET i == got[q].tag
        c == serves[i] IN
    /\ At(q, "write")
    /\ Goto(q, "mark")
    /\ events' = IF q \in shut THEN events
                 ELSE events \cup {[tag |-> i, kind |-> "finish", ok |-> call[c] = "open"]}
    /\ call' = IF q \notin shut /\ call[c] = "open" THEN [call EXCEPT ![c] = "ok"] ELSE call
    /\ faults' = faults \cup Touch(i) \cup (IF q \in shut THEN {"shut_queue_op"} ELSE {})
    /\ crashed' = (q \in shut)
    /\ UNCHANGED <<booted, got, fresh, poolVars, rpcVars, serves, listening, mainVars>>

(* Mutants: the state stays PROCESS; the object is removed at once.        *)
MarkNothing(q) ==
    /\ At(q, "mark")
    /\ Goto(q, "next")
    /\ UNCHANGED <<booted, got, fresh, poolVars, rpcVars, grpcVars, mainVars, faults, crashed>>

MarkAndRemove(q) ==
    /\ At(q, "mark")
    /\ rpcState' = [rpcState EXCEPT ![got[q].tag] = "FINISH"]
    /\ Goto(q, "remove")
    /\ UNCHANGED <<booted, got, fresh, poolVars, home, method, grpcVars, mainVars, faults, crashed>>

(* Only now, after Finish, the state becomes FINISH.                       *)
MarkFinish(q) ==
    LET i == got[q].tag IN
    /\ At(q, "mark")
    /\ rpcState' = [rpcState EXCEPT ![i] = "FINISH"]
    /\ Goto(q, "next")
    /\ faults' = faults \cup Touch(i)
    /\ UNCHANGED <<booted, got, fresh, poolVars, home, method, grpcVars, mainVars, crashed>>

(* remove_rpc(rpc->id), after a failed event or a finished request.        *)
Remove(q) ==
    LET i == got[q].tag IN
    /\ At(q, "remove")
    /\ Erase(q, i)
    /\ Goto(q, "next")
    /\ faults' = faults \cup Touch(i) \cup RaceFault(Racing(q))
    /\ UNCHANGED <<booted, got, fresh, nextId, rpcVars, grpcVars, mainVars, crashed>>

ThreadStep(q) == \/ BootCreate(q) \/ BootPost(q) \/ NextEvent(q) \/ NextEnd(q) \/ Dispatch(q)
                 \/ Respawn(q) \/ RespawnPost(q) \/ Process(q) \/ Write(q) \/ MarkFinish(q)
                 \/ Remove(q)

-----------------------------------------------------------------------------
(* The thread that runs start() and stop().                                *)

MainAt(label) == ~crashed /\ main = label

(* BuildAndStart() binds the port or returns nullptr.                      *)
Start ==
    /\ MainAt("starting")
    /\ bound' \in BOOLEAN
    /\ main' = "spawning"
    /\ UNCHANGED <<srvDown, shut, draining, earlyStop, threadVars, poolVars, rpcVars, grpcVars,
                   faults, crashed>>

(* Mutant: only the thread of the common queue is started.                 *)
SpawnCommonOnly(q) ==
    /\ MainAt("spawning")
    /\ q = CommonQueue
    /\ Goto(q, "create")
    /\ main' = "serving"
    /\ UNCHANGED <<bound, srvDown, shut, draining, earlyStop, booted, got, fresh, poolVars,
                   rpcVars, grpcVars, faults, crashed>>

(* Threads are created whatever BuildAndStart() returned, the one of the   *)
(* common queue last.                                                      *)
Spawn(q) ==
    /\ MainAt("spawning")
    /\ pc[q] = "off"
    /\ q = CommonQueue => \A r \in InferQueues : pc[r] # "off"
    /\ Goto(q, "create")
    /\ main' = IF q = CommonQueue THEN "serving" ELSE main
    /\ UNCHANGED <<bound, srvDown, shut, draining, earlyStop, booted, got, fresh, poolVars,
                   rpcVars, grpcVars, faults, crashed>>

Booting(q) == pc[q] \in {"create", "post"}

(* Mutant: the server counts as not running before it is stopped.          *)
StopForgetsRunning ==
    /\ MainAt("serving") /\ bound
    /\ main' = "release" /\ bound' = FALSE
    /\ earlyStop' = \E q \in Queues : Booting(q)
    /\ UNCHANGED <<srvDown, shut, draining, threadVars, poolVars, rpcVars, grpcVars,
                   faults, crashed>>

(* stop() of a running server.                                             *)
Stop ==
    /\ MainAt("serving") /\ bound
    /\ main' = "release"
    /\ earlyStop' = \E q \in Queues : Booting(q)
    /\ UNCHANGED <<bound, srvDown, shut, draining, threadVars, poolVars, rpcVars, grpcVars,
                   faults, crashed>>

(* stop() returns at once if the server never ran; then the destructor     *)
(* meets joinable threads and std::terminate is called.                    *)
StopNotRunning ==
    /\ MainAt("serving") /\ ~bound
    /\ main' = "stopped"
    /\ faults' = faults \cup {"joinable_thread"}
    /\ crashed' = TRUE
    /\ UNCHANGED <<bound, srvDown, shut, draining, earlyStop, threadVars, poolVars, rpcVars,
                   grpcVars>>

(* Mutant: the pool is not emptied.                                        *)
ReleaseNothing ==
    /\ MainAt("release")
    /\ main' = "shutdown"
    /\ UNCHANGED <<bound, srvDown, shut, draining, earlyStop, threadVars, poolVars, rpcVars,
                   grpcVars, faults, crashed>>

(* rpc_pool::release(): every pooled object is freed, whoever uses it.     *)
Release ==
    LET racing == \E q \in Queues : AtPool(q) IN
    /\ MainAt("release")
    /\ main' = "shutdown"
    /\ \/ /\ pool' = {}
          /\ mem' = [i \in Ids |-> IF i \in pool /\ ~HeldLocally(i) THEN "freed" ELSE mem[i]]
       \/ racing /\ UNCHANGED <<pool, mem>>
    /\ faults' = faults \cup RaceFault(racing)
    /\ UNCHANGED <<bound, srvDown, shut, draining, earlyStop, threadVars, nextId, rpcVars,
                   grpcVars, crashed>>

(* Mutant: the queues are closed without it.                               *)
ServerShutdownForgotten ==
    /\ MainAt("shutdown")
    /\ main' = "closing"
    /\ UNCHANGED <<bound, srvDown, shut, draining, earlyStop, threadVars, poolVars, rpcVars,
                   grpcVars, faults, crashed>>

(* _server->Shutdown(): posted requests complete with ok = FALSE and calls *)
(* not yet matched are refused ...                                         *)
ServerShutdown ==
    /\ MainAt("shutdown")
    /\ main' = "quiesce"
    /\ srvDown' = TRUE
    /\ events' = events \cup {[tag |-> i, kind |-> "request", ok |-> FALSE] : i \in listening}
    /\ listening' = {}
    /\ call' = [c \in Calls |-> IF call[c] = "sent" THEN "failed" ELSE call[c]]
    /\ UNCHANGED <<bound, shut, draining, earlyStop, threadVars, poolVars, rpcVars, serves,
                   faults, crashed>>

(* ... and it returns when every matched call is over.                     *)
ShutdownReturns ==
    /\ MainAt("quiesce")
    /\ \A c \in Calls : call[c] # "open"
    /\ main' = "closing"
    /\ UNCHANGED <<bound, srvDown, shut, draining, earlyStop, threadVars, poolVars, rpcVars,
                   grpcVars, faults, crashed>>

(* Queue by queue, the common one first: Shutdown() and then drain, side   *)
(* by side with the queue's own thread.                                    *)
CloseQueue(q) ==
    /\ MainAt("closing")
    /\ q \notin shut
    /\ shut = {} => q = CommonQueue
    /\ shut' = shut \cup {q}
    /\ draining' = q
    /\ main' = "draining"
    /\ UNCHANGED <<bound, srvDown, earlyStop, threadVars, poolVars, rpcVars, grpcVars,
                   faults, crashed>>

DrainEvent ==
    /\ MainAt("draining")
    /\ \E e \in events : home[e.tag] = draining /\ events' = events \ {e}
    /\ UNCHANGED <<mainVars, threadVars, poolVars, rpcVars, serves, listening, call,
                   faults, crashed>>

(* Mutant: the inference queues are not closed.                            *)
DrainCommonOnly ==
    /\ MainAt("draining")
    /\ \A e \in events : home[e.tag] # draining
    /\ main' = "joining"
    /\ UNCHANGED <<bound, srvDown, shut, draining, earlyStop, threadVars, poolVars, rpcVars,
                   grpcVars, faults, crashed>>

DrainEnd ==
    /\ MainAt("draining")
    /\ \A e \in events : home[e.tag] # draining
    /\ main' = IF shut = Queues THEN "joining" ELSE "closing"
    /\ UNCHANGED <<bound, srvDown, shut, draining, earlyStop, threadVars, poolVars, rpcVars,
                   grpcVars, faults, crashed>>

(* Mutant: the threads are left to themselves.                             *)
JoinNobody ==
    /\ MainAt("joining")
    /\ main' = "stopped"
    /\ UNCHANGED <<bound, srvDown, shut, draining, earlyStop, threadVars, poolVars, rpcVars,
                   grpcVars, faults, crashed>>

Join ==
    /\ MainAt("joining")
    /\ \A q \in Queues : pc[q] = "done"
    /\ main' = "stopped"
    /\ UNCHANGED <<bound, srvDown, shut, draining, earlyStop, threadVars, poolVars, rpcVars,
                   grpcVars, faults, crashed>>

MainStep == \/ Start \/ \E q \in Queues : Spawn(q)
            \/ Release \/ ServerShutdown \/ ShutdownReturns
            \/ \E q \in Queues : CloseQueue(q)
            \/ DrainEvent \/ DrainEnd \/ Join

-----------------------------------------------------------------------------
(* Clients and the gRPC library.                                           *)

Serving == bound /\ ~srvDown

(* A client starts its call; a port nobody listens on fails it at once.    *)
Send(c) ==
    /\ ~crashed
    /\ call[c] = "idle"
    /\ call' = [call EXCEPT ![c] = IF Serving THEN "sent" ELSE "failed"]
    /\ UNCHANGED <<serves, listening, events, mainVars, threadVars, poolVars, rpcVars,
                   faults, crashed>>

(* gRPC matches a call with any request posted for its method.             *)
Match(c) ==
    /\ ~crashed
    /\ Serving
    /\ call[c] = "sent"
    /\ \E i \in listening :
         /\ method[i] = MethodOf[c]
         /\ listening' = listening \ {i}
         /\ serves' = [serves EXCEPT ![i] = c]
         /\ events' = events \cup {[tag |-> i, kind |-> "request", ok |-> TRUE]}
    /\ call' = [call EXCEPT ![c] = "open"]
    /\ UNCHANGED <<mainVars, threadVars, poolVars, rpcVars, faults, crashed>>

(* The client or its connection goes away before the answer.               *)
Lose(c) ==
    /\ ~crashed
    /\ call[c] \in {"sent", "open"}
    /\ call' = [call EXCEPT ![c] = "failed"]
    /\ UNCHANGED <<serves, listening, events, mainVars, threadVars, poolVars, rpcVars,
                   faults, crashed>>

(* After undefined behaviour the process may die at any moment.            *)
Crash ==
    /\ ~crashed
    /\ faults # {}
    /\ crashed' = TRUE
    /\ UNCHANGED <<mainVars, threadVars, poolVars, rpcVars, grpcVars, faults>>

(* The end of stop(), or of the process: nothing else may stand still.     *)
Ended == (crashed \/ main = "stopped") /\ UNCHANGED vars

Next == \/ \E q \in Queues : ThreadStep(q)
        \/ MainStep \/ Stop \/ StopNotRunning
        \/ \E c \in Calls : Send(c) \/ Match(c) \/ Lose(c)
        \/ Crash \/ Ended

Spec == Init /\ [][Next]_vars

(* The threads and gRPC keep running; nobody has to call stop(), send a    *)
(* call, or lose one.                                                      *)
Fairness ==
    /\ \A q \in Queues : WF_vars(ThreadStep(q))
    /\ WF_vars(MainStep)
    /\ \A c \in Calls : WF_vars(Match(c))

FairSpec == Spec /\ Fairness

-----------------------------------------------------------------------------
(* Types. *)
PcLabels == {"off", "create", "post", "next", "dispatch", "respawn", "repost", "process",
             "write", "mark", "remove", "done"}
MainLabels == {"starting", "spawning", "serving", "release", "shutdown", "quiesce", "closing",
               "draining", "joining", "stopped"}
FaultNames == {"data_race", "use_after_free", "shut_queue_op", "no_server", "joinable_thread"}

MainOK == /\ main \in MainLabels
          /\ bound \in BOOLEAN /\ srvDown \in BOOLEAN /\ earlyStop \in BOOLEAN
          /\ shut \subseteq Queues /\ draining \in Queues
ThreadsOK == /\ pc \in [Queues -> PcLabels]
             /\ booted \in [Queues -> Nat]
             /\ got \in [Queues -> Event]
             /\ fresh \in [Queues -> Ids]
             /\ \A q \in Queues : pc[q] \in {"off", "create", "post"} =>
                  booted[q] < Len(BootList(q))
PoolOK == /\ nextId \in 0..MaxRpcs
          /\ pool \subseteq Ids
          /\ mem \in [Ids -> {"none", "live", "freed"}]
RpcsOK == /\ rpcState \in [Ids -> {"CREATE", "PROCESS", "FINISH"}]
          /\ home \in [Ids -> Queues]
          /\ method \in [Ids -> Methods]
GrpcOK == /\ serves \in [Ids -> Calls \cup {NoCall}]
          /\ listening \subseteq Ids
          /\ events \subseteq Event
          /\ call \in [Calls -> {"idle", "sent", "open", "ok", "failed"}]
FaultsOK == faults \subseteq FaultNames /\ crashed \in BOOLEAN

(* Every variable has its type. *)
TypeOK == MainOK /\ ThreadsOK /\ PoolOK /\ RpcsOK /\ GrpcOK /\ FaultsOK

-----------------------------------------------------------------------------
(* Who refers to an object: gRPC, by its tag, or a thread.                 *)
Working(q) == pc[q] \in {"dispatch", "respawn", "repost", "process", "write", "mark", "remove"}
InQueue(i) == \E e \in events : e.tag = i
InHand(i) == \E q \in Queues : Working(q) /\ got[q].tag = i
Held(i) == i \in listening \/ InQueue(i) \/ InHand(i) \/ HeldLocally(i)

BeforeStop == main \in {"starting", "spawning", "serving"}
Quiet == BeforeStop /\ "data_race" \notin faults

(* Until stop() begins, only the missing lock of the pool can hurt the     *)
(* server: no object is used after it was freed and nothing aborts.        *)
SafeWhileServing == Quiet /\ bound => faults = {} /\ ~crashed

(* Until then the pool holds an object exactly as long as gRPC or a thread *)
(* refers to it: remove_rpc comes neither too early nor never.             *)
PoolExact == Quiet /\ bound => pool = {i \in Ids : Held(i)}

(* An event finds its object in the state execute() needs for it: PROCESS  *)
(* for a matched call, and FINISH for a Finish, although _rpc_state is set *)
(* only after the operation that produces the event was started.           *)
Marking(i) == \E q \in Queues : pc[q] = "mark" /\ got[q].tag = i
EventMatchesState ==
    /\ \A e \in events :
          rpcState[e.tag] = (IF e.kind = "request" \/ Marking(e.tag)
                             THEN "PROCESS" ELSE "FINISH")
    /\ \A q \in Queues : pc[q] = "dispatch" =>
          rpcState[got[q].tag] = (IF got[q].kind = "request" THEN "PROCESS" ELSE "FINISH")

(* The request objects a new call of their method can still reach.         *)
Fresh(e) == e.kind = "request" /\ e.ok
Awaiting(i) ==
    \/ i \in listening \/ HeldLocally(i)
    \/ \E e \in events : e.tag = i /\ Fresh(e)
    \/ \E q \in Queues : /\ got[q].tag = i
                         /\ pc[q] = "respawn" \/ (pc[q] = "dispatch" /\ Fresh(got[q]))

(* A method that was posted stays posted: each queue has exactly one       *)
(* object listening, or about to be replaced by one, for each of its       *)
(* methods, as long as the server is up.                                   *)
ListenerChain ==
    Serving /\ ~crashed =>
        \A q \in Queues : \A k \in 1..booted[q] :
            Cardinality({i \in Ids : /\ home[i] = q /\ method[i] = BootList(q)[k]
                                    /\ Awaiting(i)}) = 1

(* The only ways to operate on a queue that is shut down, which aborts the *)
(* process: stop() came before the threads had posted their first requests,*)
(* or Shutdown() did not wait for a call because its client had gone.      *)
AbortNeedsCause ==
    "shut_queue_op" \in faults =>
        \/ earlyStop
        \/ \E i \in Ids : serves[i] # NoCall /\ call[serves[i]] = "failed"

(* After a race on the map nothing is promised: it may even hang.          *)
GivenUp == crashed \/ "data_race" \in faults

(* A call that was sent is answered or fails, unless the process dies.     *)
CallsComplete == \A c \in Calls :
    call[c] = "sent" ~> call[c] \in {"ok", "failed"} \/ GivenUp

(* A stop() that began returns, unless the process dies.                   *)
StopCompletes == main = "release" ~> main = "stopped" \/ GivenUp

(* The comment left where the lock was (rpc_pool.cpp:21, rpc_pool.hpp:35): *)
(* the pool is accessed by one thread at a time.                           *)
PoolIsExclusive == "data_race" \notin faults

(* "Restart server after shutdown" (command_line_parser.cpp:16): a server  *)
(* whose threads all run, whose clients all wait for their answers and     *)
(* whose pool is used by one thread at a time survives its stop().         *)
SurvivesStop ==
    crashed /\ bound => "data_race" \in faults \/ earlyStop
                        \/ \E c \in Calls : call[c] = "failed"

(* The front end implements InferenceService.                              *)
Executing(q) == pc[q] \in {"respawn", "repost", "process", "write"}
Matched(i) == \/ \E e \in events : e.tag = i /\ Fresh(e)
              \/ \E q \in Queues : got[q].tag = i /\ pc[q] = "dispatch" /\ Fresh(got[q])
Phase == IF ~bound THEN "down"
         ELSE IF ~srvDown THEN "up"
         ELSE IF main = "stopped" THEN "stopped" ELSE "closed"
Accepted == {serves[i] : i \in {j \in Ids : Matched(j)}}
Busy == [q \in Queues |-> IF Executing(q) THEN serves[got[q].tag] ELSE NoCall]
CanServe == {w \in Queues \X Calls :
               \E k \in 1..Len(BootList(w[1])) : BootList(w[1])[k] = MethodOf[w[2]]}
Service == INSTANCE InferenceService WITH
    Workers <- Queues, phase <- Phase, status <- call, accepted <- Accepted, busy <- Busy
ServiceSpec == Service!Spec

(* A thread waits in cq->Next only, until its queue has an event or is     *)
(* shut down.                                                              *)
Blocked(q) == pc[q] = "next" /\ q \notin shut /\ \A e \in events : home[e.tag] # q
CanGoOn(q) == pc[q] \notin {"off", "done"} /\ ~Blocked(q)

(* A call that was sent has, on every queue of its method, a listener or a *)
(* thread that is about to post one; one that was accepted is in the hand  *)
(* or in the queue of a thread that can go on.                             *)
CallGoesOn(c) ==
    /\ call[c] = "sent" =>
          /\ Serving
          /\ \A q \in Queues : <<q, c>> \in CanServe =>
                \/ \E i \in listening : home[i] = q /\ method[i] = MethodOf[c]
                \/ CanGoOn(q) \/ (pc[q] = "off" /\ main = "spawning")
    /\ call[c] = "open" => \E q \in Queues :
          /\ CanGoOn(q)
          /\ Busy[q] = c \/ \E i \in Ids : Matched(i) /\ home[i] = q /\ serves[i] = c

(* What the thread of start() and stop() needs to go on is there, or on    *)
(* its way: the common queue's thread is started last, a queue is left to  *)
(* close, every thread that is still to be joined can go on.               *)
MainGoesOn ==
    /\ main = "spawning" => pc[CommonQueue] = "off"
    /\ main = "closing" => shut # Queues
    /\ main = "joining" => \A q \in Queues : pc[q] = "done" \/ CanGoOn(q)

(* Nobody waits for what nobody can still do: neither a client, nor a call *)
(* Shutdown() waits for, nor the thread that stops the server.             *)
NobodyWaitsInVain == ~crashed => (\A c \in Calls : CallGoesOn(c)) /\ MainGoesOn

-----------------------------------------------------------------------------
(* The inductive invariant.                                                *)

(* A tag is in one place: posted, in a queue, in a thread's hand, or being *)
(* posted.  The exception is a Finish that was started and whose event     *)
(* waits while its thread still has to set the state.                      *)
ListeningTags == \A i \in listening : i < nextId /\ ~InQueue(i) /\ ~InHand(i) /\ ~HeldLocally(i)
QueuedTags == /\ \A e \in events : e.tag < nextId /\ ~HeldLocally(e.tag)
              /\ \A e, f \in events : e.tag = f.tag => e = f
HandTags == \A q \in Queues : Working(q) =>
    /\ got[q].tag < nextId /\ home[got[q].tag] = q /\ ~HeldLocally(got[q].tag)
    /\ \A e \in events : got[q].tag = e.tag => pc[q] = "mark" /\ e.kind = "finish"
PostTags == \A q \in Queues : Posting(q) => fresh[q] < nextId /\ home[fresh[q]] = q
TagInv == ListeningTags /\ QueuedTags /\ HandTags /\ PostTags

(* The state of an object, wherever its tag is.                            *)
StateInv ==
    /\ EventMatchesState
    /\ \A i \in listening : rpcState[i] = "PROCESS"
    /\ \A q \in Queues : Executing(q) \/ pc[q] = "mark" => rpcState[got[q].tag] = "PROCESS"

(* Nothing is posted, held or broken before start() has built the server.  *)
StartInv == main = "starting" =>
    /\ \A q \in Queues : pc[q] = "off"
    /\ pool = {} /\ listening = {} /\ events = {} /\ faults = {} /\ ~crashed

(* Until stop() begins and while no race happened.                         *)
Calm == Quiet /\ bound
PoolInv ==
    /\ BeforeStop => shut = {} /\ ~srvDown
    /\ SafeWhileServing
    /\ PoolExact
    /\ Calm => /\ \A i \in pool : mem[i] = "live"
               /\ \A q \in Queues : pc[q] = "mark" => InQueue(got[q].tag)

IInv == TypeOK /\ TagInv /\ StateInv /\ StartInv /\ PoolInv

(* For AbortNeedsCause.  A call has one object, which is answered once;    *)
(* what is taken from a queue as a new request has not been answered.      *)
Unanswered(i) == serves[i] # NoCall /\ call[serves[i]] \in {"open", "failed"}
CallInv ==
    /\ \A i \in Ids : serves[i] # NoCall => call[serves[i]] \notin {"idle", "sent"}
    /\ \A i, j \in Ids : serves[i] # NoCall /\ serves[i] = serves[j] => i = j
    /\ \A e \in events : Fresh(e) => Unanswered(e.tag)
    /\ \A q \in Queues : Executing(q) \/ (pc[q] = "dispatch" /\ Fresh(got[q]))
                            => Unanswered(got[q].tag)

(* Queues are shut down only when no call is open any more, which remains  *)
(* so when stop() has returned, and, if stop() did not come early, only    *)
(* when every thread has posted its requests.                              *)
Closing == main \in {"closing", "draining", "joining"} \/ (main = "stopped" /\ ~crashed)
CloseInv ==
    /\ BeforeStop => shut = {} /\ ~srvDown
    /\ main = "quiesce" => srvDown
    /\ Closing \/ shut # {} => srvDown /\ \A c \in Calls : call[c] # "open"
    /\ ~BeforeStop /\ ~crashed /\ ~earlyStop => \A q \in Queues : ~Booting(q)

(* For ListenerChain.  Nothing is posted before start().  Later, a method  *)
(* that was posted has one object awaiting calls, and one not yet posted   *)
(* has none, but the one about to be posted.                               *)
WaitsFor(q, k, i) == home[i] = q /\ method[i] = BootList(q)[k] /\ Awaiting(i)
OneWaits == \A q \in Queues : \A k \in 1..Len(BootList(q)) :
    /\ k <= booted[q] => /\ \E i \in Ids : WaitsFor(q, k, i)
                         /\ \A i, j \in Ids : WaitsFor(q, k, i) /\ WaitsFor(q, k, j) => i = j
    /\ k > booted[q] => \A i \in Ids : WaitsFor(q, k, i) =>
                           pc[q] = "post" /\ k = booted[q] + 1 /\ i = fresh[q]
ChainInv ==
    /\ \A q \in Queues : booted[q] <= Len(BootList(q))
    /\ main = "starting" => /\ \A q \in Queues : booted[q] = 0 /\ pc[q] = "off"
                            /\ listening = {} /\ events = {}
    /\ \A q \in Queues : pc[q] = "post" => method[fresh[q]] = BootList(q)[booted[q] + 1]
    /\ Serving /\ ~crashed => OneWaits

(* For ServiceSpec.  stop() follows a start() that bound the port, and     *)
(* takes the server down before it closes a queue; a thread ends when its  *)
(* queue is closed and empty, and nothing enters the queue after that; an  *)
(* object serves a call of its own method, on a queue of that method.      *)
ServeInv ==
    /\ main = "starting" => ~bound
    /\ main \notin {"starting", "spawning", "serving", "stopped"} => bound
    /\ main \in {"release", "shutdown"} => ~srvDown
    /\ main \in {"release", "shutdown", "quiesce"} => shut = {}
    /\ \A q \in Queues : pc[q] = "done" => q \in shut /\ \A e \in events : home[e.tag] # q
    /\ \A i \in Ids : serves[i] # NoCall => i < nextId /\ method[i] = MethodOf[serves[i]]
    /\ \A i \in Ids : i < nextId =>
          \E k \in 1..Len(BootList(home[i])) : BootList(home[i])[k] = method[i]

(* For NobodyWaitsInVain.  An accepted call is in a queue or with a        *)
(* thread; threads that are off have nothing and are still to be started,  *)
(* and a thread that has not posted all its methods is booting; stop()     *)
(* closes queue after queue.                                               *)
WaitInv ==
    /\ Service!Remembered
    /\ \A c \in Calls : call[c] = "sent" => Serving
    /\ \A q \in Queues : pc[q] = "off" =>
          /\ main \in {"starting", "spawning"}
          /\ \A e \in events : home[e.tag] # q
          /\ \A i \in listening : home[i] # q
    /\ \A q \in Queues : booted[q] < Len(BootList(q)) => pc[q] \in {"off", "create", "post"}
    /\ main = "spawning" => pc[CommonQueue] = "off"
    /\ main = "closing" => shut # Queues
    /\ main = "joining" => shut = Queues
    /\ srvDown => listening = {}

(* All that needs no pool: with TypeOK, TagInv and StateInv it is          *)
(* inductive, and it holds over every round of ServerRestarts.             *)
LifeInv == CallInv /\ CloseInv /\ ChainInv /\ ServeInv /\ WaitInv

(* All of it. *)
ServerInv == IInv /\ LifeInv
=============================================================================
