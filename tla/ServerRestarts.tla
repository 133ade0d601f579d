--------------------------- MODULE ServerRestarts ---------------------------
(***************************************************************************)
(* The whole server over several rounds of main()'s loop: GrpcServer, one  *)
(* incarnation after the other, inside ServerProcess.                      *)
(*                                                                         *)
(* Each round has a grpc_server of its own, with new queues and threads,   *)
(* but there is one rpc_pool: its map and its next_id are static and       *)
(* outlive every server.  An object that is inserted after stop() has      *)
(* called release(), and whose last event stop() drains, is left in the    *)
(* map when the next server starts.  So what GrpcServer says of the pool   *)
(* of one server is said here of that server's share of it.                *)
(***************************************************************************)
EXTENDS GrpcServer

CONSTANTS MaxSignals,    \* of ServerProcess
          CommandLines

VARIABLES
    at, restart, fileOn, grpcOn, httpOn, signal, http, port, raised, starts,  \* of ServerProcess
    since,     \* history: next_id when the server of this round was made
    carried    \* history: the undefined behaviour of earlier rounds

processVars == <<at, restart, fileOn, grpcOn, httpOn, signal, http, port, raised, starts>>
history == <<since, carried>>
systemVars == <<vars, processVars, history>>

(* What ServerProcess sees of the server.                                  *)
AllListening == \A q \in Queues : pc[q] # "off" /\ ~Booting(q)
View == IF at = "dead" \/ main = "starting" THEN "none"
        ELSE IF ~bound THEN "failed"
        ELSE IF main = "stopped" THEN "stopped"
        ELSE IF AllListening THEN "listening" ELSE "booting"

Manager == INSTANCE ServerProcess WITH grpc <- View

ASSUME RestartsAssumption == /\ MaxSignals \in Nat
                             /\ CommandLines \subseteq Manager!CommandLine

SystemInit == Init /\ Manager!Init /\ since = 0 /\ carried = {}

-----------------------------------------------------------------------------
(* Steps of main() and of the world around it that leave the server alone. *)
(* start_http() follows when start() has returned.                         *)
ProcessOnly ==
    /\ UNCHANGED <<vars, history>>
    /\ \/ Manager!Install \/ Manager!Parse \/ Manager!Refuse \/ Manager!SetupLoggers
       \/ main = "starting" /\ Manager!Construct
       \/ ~grpcOn /\ (Manager!StartGrpc \/ Manager!StopGrpc)
       \/ (grpcOn => main = "serving") /\ Manager!StartHttp
       \/ Manager!LoopExit \/ Manager!Reset \/ Manager!StopHttp
       \/ Manager!Signal \/ Manager!Others

(* Mutant: next_id starts again with each server.                          *)
NewServerNewIds ==
    /\ main = "stopped"
    /\ main' = "starting" /\ bound' = FALSE /\ srvDown' = FALSE
    /\ shut' = {} /\ draining' = CommonQueue /\ earlyStop' = FALSE
    /\ pc' = [q \in Queues |-> "off"] /\ booted' = [q \in Queues |-> 0]
    /\ got' = [q \in Queues |-> NoEvent] /\ fresh' = [q \in Queues |-> 0]
    /\ listening' = {} /\ events' = {}
    /\ since' = 0 /\ nextId' = 0
    /\ carried' = carried \cup faults /\ faults' = {}
    /\ UNCHANGED <<pool, mem, rpcVars, serves, call, crashed>>
    /\ Manager!Construct

(* The server_manager of the next round: the threads of the old server are *)
(* gone and its queues out of use (an object that is left in the pool      *)
(* keeps its queue and its engine in memory); the pool, its objects and    *)
(* its ids stay.                                                           *)
NewServer ==
    /\ main = "stopped"
    /\ main' = "starting" /\ bound' = FALSE /\ srvDown' = FALSE
    /\ shut' = {} /\ draining' = CommonQueue /\ earlyStop' = FALSE
    /\ pc' = [q \in Queues |-> "off"] /\ booted' = [q \in Queues |-> 0]
    /\ got' = [q \in Queues |-> NoEvent] /\ fresh' = [q \in Queues |-> 0]
    /\ listening' = {} /\ events' = {}
    /\ since' = nextId
    /\ carried' = carried \cup faults /\ faults' = {}
    /\ UNCHANGED <<poolVars, rpcVars, serves, call, crashed>>
    /\ Manager!Construct

(* start_grpc(): BuildAndStart() succeeds if nobody has the port.          *)
StartServer == /\ grpcOn
               /\ Start /\ bound' = (port = "free")
               /\ Manager!StartGrpc
               /\ UNCHANGED history

(* A step of the server ends the process, or leaves main() where it is.    *)
Aside == /\ at' = IF crashed' THEN "dead" ELSE at
         /\ port' = IF crashed' /\ port = "ours" THEN "free" ELSE port
         /\ UNCHANGED <<restart, fileOn, grpcOn, httpOn, signal, http, raised, starts, history>>

Threads(q) == ThreadStep(q) /\ Aside
Spawning == (\E q \in Queues : Spawn(q)) /\ Aside
Stopping == /\ \/ at = "stop_grpc" /\ (Stop \/ StopNotRunning)
               \/ Release \/ ServerShutdown \/ ShutdownReturns
               \/ (\E q \in Queues : CloseQueue(q)) \/ DrainEvent \/ DrainEnd
            /\ Aside

(* stop() returns, and stop_grpc() with it.                                *)
StopReturns == Join /\ Manager!StopGrpc /\ UNCHANGED history

(* The process dies of this round's undefined behaviour, or of an earlier  *)
(* round's.                                                                *)
Collapse == /\ ~crashed /\ ~Manager!Ended
            /\ faults \cup carried # {}
            /\ crashed' = TRUE
            /\ UNCHANGED <<mainVars, threadVars, poolVars, rpcVars, grpcVars, faults>>
            /\ Aside

Clients(c) == (Send(c) \/ Match(c) \/ Lose(c)) /\ UNCHANGED <<processVars, history>>

(* main_loop() waits for a signal, or the process has ended.               *)
Idle == /\ Manager!Ended \/ (at = "loop" /\ ~signal)
        /\ UNCHANGED systemVars

MainGoes == Spawning \/ Stopping \/ StopReturns \/ NewServer \/ StartServer \/
            (ProcessOnly /\ Manager!MainStep)

SystemNext == \/ ProcessOnly \/ NewServer \/ StartServer \/ Spawning \/ Stopping \/ StopReturns
              \/ \E q \in Queues : Threads(q)
              \/ \E c \in Calls : Clients(c)
              \/ Collapse \/ Idle

SystemSpec == SystemInit /\ [][SystemNext]_systemVars

(* The fairness of GrpcServer and of ServerProcess.                        *)
FairSystem == /\ SystemSpec
              /\ WF_systemVars(MainGoes)
              /\ \A q \in Queues : WF_systemVars(Threads(q))
              /\ \A c \in Calls : WF_systemVars(Match(c) /\ UNCHANGED <<processVars, history>>)

-----------------------------------------------------------------------------
(* Every variable has its type: GrpcServer's and ServerProcess's hold in   *)
(* every round, and a dead process is dead for both.                       *)
SystemTypeOK == /\ TypeOK /\ Manager!TypeOK
                /\ since \in 0..nextId /\ carried \subseteq FaultNames
                /\ crashed => at = "dead"

(* When stop() has returned and the server is destroyed, no request object *)
(* is referred to any more: nothing is posted, no event waits in a queue   *)
(* (gRPC asserts that a queue is empty when it is destroyed), and no       *)
(* thread is inside execute().  So what is left in the pool is only ever   *)
(* freed.                                                                  *)
NothingOutlivesStop == main = "stopped" /\ ~crashed => \A i \in Ids : ~Held(i)

(* A server starts on a pool that may hold objects of the server before    *)
(* it.  Of the objects made since, the pool holds those that are referred  *)
(* to, exactly as if it were the server's own.                             *)
OwnShareExact == Quiet /\ bound => {i \in pool : i >= since} = {i \in Ids : Held(i)}

(* A server whose threads do not race in the map uses nothing after it was *)
(* freed and aborts nowhere until it is stopped, whatever the servers      *)
(* before it left behind in the pool; only their undefined behaviour can   *)
(* still end the process.                                                  *)
NewServerIsSafe == Quiet /\ bound => faults = {} /\ (crashed => carried # {})

(* What one stop() leaves behind is freed by the next, unless release() or *)
(* a thread of this round raced: the pool does not grow from round to      *)
(* round.                                                                  *)
LeftoversAreFreed ==
    main = "stopped" /\ ~crashed /\ "data_race" \notin faults => \A i \in pool : i >= since

(* An abort on a queue that is shut down has its cause in its own round:   *)
(* stop() came early, or a client went away whose call this server         *)
(* matched.                                                                *)
AbortHasOwnCause ==
    "shut_queue_op" \in faults =>
        \/ earlyStop
        \/ \E i \in Ids : i >= since /\ serves[i] # NoCall /\ call[serves[i]] = "failed"

(* The clients of all rounds see one InferenceService, which opens again   *)
(* after it has stopped: a restart begins, loses and answers no call.      *)
Reopen == Phase = "stopped" /\ Phase' = "down" /\ UNCHANGED <<call, Accepted, Busy>>
ServiceOverRounds == Service!Init /\ [][Service!Next \/ Reopen]_(Service!svars)

(* The server over all its rounds is a ServerProcess.                      *)
ProcessSpec == Manager!Spec

(* After a race on the map nothing is promised.                            *)
Raced == "data_race" \in faults \cup carried

(* With --restart_server, a signal brings a new server, all the way        *)
(* through the stop() of the old one.                                      *)
RestartCompletes ==
    at = "loop" /\ signal /\ restart ~> at \in {"start_http", "dead"} \/ Raced

-----------------------------------------------------------------------------
(* How main() and the server of the round go together: there is no server  *)
(* before the command line is read, threads are only between start() and   *)
(* stop(), and undefined behaviour needs a server.                         *)
RoundInv ==
    /\ at \in {"install", "parse", "loggers"} =>
          main = "starting" /\ faults = {} /\ carried = {}
    /\ main = "starting" => \A q \in Queues : pc[q] = "off"
    /\ main # "starting" \/ faults \cup carried # {} => grpcOn /\ starts > 0
    /\ ~crashed /\ main \notin {"starting", "stopped"} =>
          at \in {"start_http", "loop", "reset", "stop_grpc"}
    /\ ~crashed /\ main = "stopped" => \A q \in Queues : pc[q] = "done"

(* The server of this round never sees an object of an earlier one: every  *)
(* tag that is posted, queued or in a thread's hand is of an id taken      *)
(* since the server was made.                                              *)
SinceInv ==
    /\ \A i \in pool : i < nextId
    /\ \A i \in listening : i >= since
    /\ \A e \in events : e.tag >= since
    /\ \A q \in Queues : /\ Working(q) => got[q].tag >= since
                         /\ Posting(q) => fresh[q] >= since

(* The share of the pool and of the memory that belongs to the server of   *)
(* this round.                                                             *)
OwnPool == {i \in pool : i >= since}
OwnMem == [i \in Ids |-> IF i < since THEN "none" ELSE mem[i]]
=============================================================================
