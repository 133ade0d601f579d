--------------------------- MODULE ServerProcess ----------------------------
(***************************************************************************)
(* The server process around grpc_server: main(), the command line, the    *)
(* loggers, the restart loop, server_manager, and the shutdown signal that *)
(* server_shutdown keeps in a sig_atomic_t.  A signal may be delivered     *)
(* between any two steps.                                                  *)
(*                                                                         *)
(* grpc_server appears by what GrpcServer shows of it, and ServerRestarts  *)
(* shows that nothing is missing: start() binds the port or fails, stop()  *)
(* returns, and the process may die of what either did.  http_server is a  *)
(* stub whose start() and stop() do nothing.                               *)
(***************************************************************************)
EXTENDS Naturals

CONSTANTS MaxSignals,    \* bound on the signals that are sent
          CommandLines   \* the command lines (and environments) users give

(* The flags of the command line, and what each is if it is not given.     *)
Flags == {"restart", "console", "file", "http", "grpc"}
Default == [restart |-> FALSE, console |-> TRUE, file |-> FALSE, http |-> FALSE, grpc |-> TRUE]

(* The options that may only be given together with a flag.                *)
Needs == [console_logger_level |-> "console",
          file_logger_level |-> "file", log_file |-> "file",
          http_address |-> "http", http_port |-> "http",
          grpc_address |-> "grpc", grpc_port |-> "grpc", grpc_inference_threads |-> "grpc"]

(* A command line; valid if every value passes its check and neither help  *)
(* nor the version is asked for.                                           *)
CommandLine == [flags : [Flags -> {"absent", "true", "false"}],
                options : SUBSET DOMAIN Needs, valid : BOOLEAN]

ASSUME SignalsAssumption == MaxSignals \in Nat
ASSUME LinesAssumption == CommandLines \subseteq CommandLine

(* A flag that is only on by default does not count as given.              *)
Accepted(line) ==
    line.valid /\ \A o \in line.options : line.flags[Needs[o]] # "absent"
Value(line, f) ==
    IF line.flags[f] = "absent" THEN Default[f] ELSE line.flags[f] = "true"

VARIABLES
    at,        \* where main() is
    restart,   \* config.restart_server
    fileOn,    \* config.enable_file_logger
    grpcOn,    \* config.is_grpc_server_enabled
    httpOn,    \* config.is_http_server_enabled
    signal,    \* shutdown_signal # 0
    grpc,      \* the grpc_server of this server_manager
    http,      \* there is an http_server
    port,      \* who listens on the gRPC port
    raised,    \* the signals sent so far
    starts     \* the times start_grpc() was entered

config == <<restart, fileOn, grpcOn, httpOn>>
vars == <<at, restart, fileOn, grpcOn, httpOn, signal, grpc, http, port, raised, starts>>

Ended == at \in {"exited", "dead"}

Init == /\ at = "install"
        /\ restart = Default.restart /\ fileOn = Default.file
        /\ grpcOn = Default.grpc /\ httpOn = Default.http
        /\ signal = FALSE /\ raised = 0 /\ starts = 0
        /\ grpc = "none" /\ http = FALSE /\ port = "free"

(* install_shutdown_signal_handlers()                                      *)
Install == /\ at = "install"
           /\ at' = "parse"
           /\ UNCHANGED <<config, signal, grpc, http, port, raised, starts>>

(* The command line is parsed into the configuration ...                   *)
Parse ==
    /\ at = "parse"
    /\ at' = "loggers"
    /\ \E line \in CommandLines :
         /\ Accepted(line)
         /\ restart' = Value(line, "restart") /\ fileOn' = Value(line, "file")
         /\ grpcOn' = Value(line, "grpc") /\ httpOn' = Value(line, "http")
    /\ UNCHANGED <<signal, grpc, http, port, raised, starts>>

(* ... or refused, and main() returns.                                     *)
Refuse == /\ at = "parse"
          /\ \E line \in CommandLines : ~Accepted(line)
          /\ at' = "exited"
          /\ UNCHANGED <<config, signal, grpc, http, port, raised, starts>>

(* setup_loggers(): a log file that cannot be opened is an exception that  *)
(* nobody catches.                                                         *)
SetupLoggers ==
    /\ at = "loggers"
    /\ \/ at' = "construct"
       \/ fileOn /\ at' = "dead"
    /\ UNCHANGED <<config, signal, grpc, http, port, raised, starts>>

(* Mutant: a signal that came early is forgotten.                          *)
ConstructAndReset ==
    /\ at = "construct"
    /\ at' = "start_grpc"
    /\ grpc' = "none" /\ http' = FALSE /\ signal' = FALSE
    /\ UNCHANGED <<config, port, raised, starts>>

(* A new server_manager, with an engine and no server yet.                 *)
Construct == /\ at = "construct"
             /\ at' = "start_grpc"
             /\ grpc' = "none" /\ http' = FALSE
             /\ UNCHANGED <<config, signal, port, raised, starts>>

(* run(): the port is bound unless somebody has it; what start() returns   *)
(* is not looked at, and its threads go on booting by themselves.          *)
StartGrpc ==
    /\ at = "start_grpc"
    /\ at' = "start_http"
    /\ starts' = starts + 1
    /\ \/ ~grpcOn /\ UNCHANGED <<grpc, port>>
       \/ grpcOn /\ port = "free" /\ grpc' = "booting" /\ port' = "ours"
       \/ grpcOn /\ port # "free" /\ grpc' = "failed" /\ UNCHANGED port
    /\ UNCHANGED <<config, signal, http, raised>>

(* The threads of grpc_server have posted their first requests.            *)
Booted == /\ grpc = "booting" /\ ~Ended
          /\ grpc' = "listening"
          /\ UNCHANGED <<at, config, signal, http, port, raised, starts>>

StartHttp == /\ at = "start_http"
             /\ at' = "loop"
             /\ http' = httpOn
             /\ UNCHANGED <<config, signal, grpc, port, raised, starts>>

(* main_loop() sleeps, a second at a time, until a signal is noted.        *)
Tick == at = "loop" /\ ~signal /\ UNCHANGED vars

LoopExit == /\ at = "loop" /\ signal
            /\ at' = "reset"
            /\ UNCHANGED <<config, signal, grpc, http, port, raised, starts>>

(* Mutant: the signal is not cleared.                                      *)
ResetNothing == /\ at = "reset"
                /\ at' = "stop_grpc"
                /\ UNCHANGED <<config, signal, grpc, http, port, raised, starts>>

(* reset_shutdown_signal_handlers(), while the server still runs: it is    *)
(* stopped by the destructor of server_manager at the end of the loop body.*)
Reset == /\ at = "reset"
         /\ at' = "stop_grpc"
         /\ signal' = FALSE
         /\ UNCHANGED <<config, grpc, http, port, raised, starts>>

(* Mutant: the destructor leaves the server to itself.                     *)
StopNothing == /\ at = "stop_grpc"
               /\ at' = "stop_http"
               /\ UNCHANGED <<config, signal, grpc, http, port, raised, starts>>

(* stop() of the server.  Of one that failed to start it returns at once,  *)
(* but the server's threads are still joinable when it is destroyed, and   *)
(* the process ends.                                                       *)
StopGrpc ==
    /\ at = "stop_grpc"
    /\ \/ /\ grpc = "none"
          /\ at' = "stop_http"
          /\ UNCHANGED <<grpc, port>>
       \/ /\ grpc \in {"booting", "listening"}
          /\ at' = "stop_http" /\ grpc' = "stopped" /\ port' = "free"
       \/ /\ grpc = "failed"
          /\ at' = "dead" /\ grpc' = "none"
          /\ UNCHANGED port
    /\ UNCHANGED <<config, signal, http, raised, starts>>

(* Once a grpc_server has run, the process may die of the undefined        *)
(* behaviour of its pool, or of an assertion of gRPC, at any moment.       *)
Die == /\ ~Ended /\ grpcOn /\ starts > 0
       /\ at' = "dead" /\ grpc' = "none"
       /\ port' = IF port = "ours" THEN "free" ELSE port
       /\ UNCHANGED <<config, signal, http, raised, starts>>

(* Mutant: main() leaves the loop after the first server.                  *)
StopHttpAndExit == /\ at = "stop_http"
                   /\ http' = FALSE
                   /\ at' = "exited"
                   /\ UNCHANGED <<config, signal, grpc, port, raised, starts>>

(* The end of the loop body, and the decision to go round again.           *)
StopHttp == /\ at = "stop_http"
            /\ http' = FALSE
            /\ at' = IF restart THEN "construct" ELSE "exited"
            /\ UNCHANGED <<config, signal, grpc, port, raised, starts>>

(* SIGINT, SIGTERM, SIGILL or SIGABRT: before the handlers are installed   *)
(* it ends the process, afterwards it is noted.                            *)
Signal == /\ ~Ended /\ raised < MaxSignals
          /\ raised' = raised + 1
          /\ IF at = "install" THEN at' = "dead" /\ UNCHANGED signal
                               ELSE signal' = TRUE /\ UNCHANGED at
          /\ UNCHANGED <<config, grpc, http, port, starts>>

(* Other processes take the port and leave it.                             *)
Others == /\ ~Ended
          /\ \/ port = "free" /\ port' = "theirs"
             \/ port = "theirs" /\ port' = "free"
          /\ UNCHANGED <<at, config, signal, grpc, http, raised, starts>>

MainStep == \/ Install \/ Parse \/ Refuse \/ SetupLoggers \/ Construct \/ StartGrpc \/ StartHttp
            \/ LoopExit \/ Reset \/ StopGrpc \/ StopHttp

Next == MainStep \/ Tick \/ Booted \/ Die \/ Signal \/ Others \/ (Ended /\ UNCHANGED vars)

(* The main thread runs; the threads boot; signals need not come.          *)
Spec == Init /\ [][Next]_vars
FairSpec == Spec /\ WF_vars(MainStep) /\ WF_vars(Booted)

-----------------------------------------------------------------------------
(* Every variable has its type, and a server exists only if it is enabled. *)
TypeOK ==
    /\ at \in {"install", "parse", "loggers", "construct", "start_grpc", "start_http", "loop",
               "reset", "stop_grpc", "stop_http", "exited", "dead"}
    /\ restart \in BOOLEAN /\ fileOn \in BOOLEAN /\ grpcOn \in BOOLEAN /\ httpOn \in BOOLEAN
    /\ signal \in BOOLEAN /\ http \in BOOLEAN
    /\ grpc \in {"none", "booting", "listening", "failed", "stopped"}
    /\ port \in {"free", "ours", "theirs"}
    /\ (http => httpOn) /\ (grpc # "none" => grpcOn)
    /\ at \in {"install", "parse", "loggers"} => grpc = "none" /\ ~http
    /\ raised \in 0..MaxSignals /\ starts \in Nat

(* The server restarts only when it was told to stop: every time round the *)
(* loop has a signal of its own, although the flag is cleared long after   *)
(* it was read and while further signals may come.                         *)
NoSpuriousRestart == starts <= raised + 1

(* A server never finds its port taken by its own predecessor, and none    *)
(* outlives main().                                                        *)
PortHandedOver ==
    /\ port = "ours" <=> grpc \in {"booting", "listening"}
    /\ at \in {"construct", "start_grpc", "exited"} => port # "ours"

(* Without --restart_server one signal ends the process, whenever it comes:*)
(* before the loop, in it, or while the server is being stopped.           *)
Configured == at \notin {"install", "parse"}
SignalEndsProcess == raised > 0 /\ Configured /\ ~restart ~> Ended

(* The state behind it: a signal is noted until main() has left the loop   *)
(* for good.  The flag is cleared once, while the signal is being obeyed.  *)
SignalNotLost == raised > 0 /\ Configured /\ ~restart =>
    signal \/ at \in {"stop_grpc", "stop_http", "exited", "dead"}

(* With it, a signal the loop can see brings a new server, or the process  *)
(* died stopping the old one.                                              *)
SignalRestarts == at = "loop" /\ signal /\ restart ~> at \in {"start_http", "dead"}

(* The inductive invariant of NoSpuriousRestart: what the signals that     *)
(* were sent still allow.                                                  *)
Pending == IF signal THEN 1 ELSE 0
SignalBudget ==
    /\ at \in {"install", "parse", "loggers"} => starts = 0
    /\ at \in {"install", "parse", "loggers", "construct", "start_grpc", "stop_grpc", "stop_http",
               "exited"} => starts + Pending <= raised
    /\ at \in {"start_http", "loop", "dead"} => starts + Pending <= raised + 1
    /\ at = "reset" => signal /\ starts <= raised
=============================================================================
