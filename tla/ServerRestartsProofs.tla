------------------------ MODULE ServerRestartsProofs ------------------------
(* What holds of the whole server over any number of rounds: it is a       *)
(* ServerProcess, and what GrpcServerProofs says of the request objects of *)
(* one server survives the change from one server to the next.             *)
EXTENDS ServerRestarts, GrpcServerProofs

(* A step of the whole is one of the server of this round, its successor's *)
(* beginning, or the end of the process.                                   *)
LEMMA ServerStep == [SystemNext]_systemVars => [Next]_vars \/ NewServer \/ Collapse
BY DEF SystemNext, systemVars, ProcessOnly, StartServer, Spawning, Stopping, StopReturns,
       Threads, Clients, Idle, Next, MainStep

-----------------------------------------------------------------------------
(* Type correctness of the server, in every round.                         *)

(* The next server finds everything in the state it must be in.            *)
LEMMA NewServerTyped == TypeOK /\ NewServer => TypeOK'
<1>. SUFFICES ASSUME TypeOK, NewServer PROVE TypeOK'
  OBVIOUS
<1>1. MainOK'
  BY DEF NewServer, MainOK, MainLabels, Queues
<1>2. ThreadsOK'
  BY IdsTyped, BootListTyped DEF NewServer, ThreadsOK, PcLabels
<1>3. PoolOK' /\ RpcsOK'
  BY DEF NewServer, TypeOK, PoolOK, RpcsOK, poolVars, rpcVars
<1>4. GrpcOK' /\ FaultsOK'
  BY DEF NewServer, TypeOK, GrpcOK, FaultsOK
<1>. QED BY <1>1, <1>2, <1>3, <1>4 DEF TypeOK

(* The end of the process changes no type.                                 *)
LEMMA CollapseTyped == TypeOK /\ Collapse => TypeOK'
BY DEF Collapse, TypeOK, MainOK, ThreadsOK, PoolOK, RpcsOK, GrpcOK, FaultsOK,
       mainVars, threadVars, poolVars, rpcVars, grpcVars

(* Every variable of the server keeps its type over all rounds.            *)
LEMMA ServerTyped == SystemSpec => []TypeOK
<1>1. SystemInit => TypeOK
  BY TypeInit DEF SystemInit
<1>2. TypeOK /\ [SystemNext]_systemVars => TypeOK'
  BY ServerStep, TypeStep, NewServerTyped, CollapseTyped
<1>. QED BY <1>1, <1>2, PTL DEF SystemSpec

-----------------------------------------------------------------------------
(* Tags and states, over all rounds.                                       *)

(* No tag of the old server reaches the next one.                          *)
LEMMA NewServerTags == NewServer => TagInv' /\ StateInv'
BY DEF NewServer, TagInv, ListeningTags, QueuedTags, HandTags, PostTags, Working, Posting,
       StateInv, EventMatchesState, Executing

(* Nor does the end of the process move one.                               *)
LEMMA CollapseTags == Collapse /\ TagInv /\ StateInv => TagInv' /\ StateInv'
<1>. SUFFICES ASSUME Collapse, TagInv, StateInv PROVE TagInv' /\ StateInv'
  OBVIOUS
<1>1. UNCHANGED <<pc, got, fresh, nextId, home, listening, events, rpcState>>
  BY DEF Collapse, threadVars, poolVars, rpcVars, grpcVars
<1>2. TagInv'
  BY <1>1, TagKept DEF Working, Posting
<1>3. StateInv'
  BY <1>1, StateKept
<1>. QED BY <1>2, <1>3

(* A tag is in one place, over all rounds.                                 *)
LEMMA RoundsKeepTags == SystemSpec => [](TagInv /\ StateInv)
<1>1. SystemInit => TagInv /\ StateInv
  BY TagInit, StateInit DEF SystemInit
<1>2. TypeOK /\ TagInv /\ StateInv /\ [Next]_vars => TagInv' /\ StateInv'
  BY TagThread, TagRest, StateThread, StateRest DEF Next, Ended
<1>3. TypeOK /\ TagInv /\ StateInv /\ [SystemNext]_systemVars => TagInv' /\ StateInv'
  BY <1>2, ServerStep, NewServerTags, CollapseTags
<1>. QED BY <1>1, <1>3, ServerTyped, PTL DEF SystemSpec

(* In whatever round: an event finds its object in the state execute()     *)
(* needs for it, although objects of earlier servers are still in the pool *)
(* when a new server begins.                                               *)
THEOREM RoundsMatchStates == SystemSpec => []EventMatchesState
<1>1. StateInv => EventMatchesState
  BY DEF StateInv
<1>. QED BY <1>1, RoundsKeepTags, PTL

-----------------------------------------------------------------------------
(* How main() and the server go together.                                  *)

(* The steps of main() inside the server, and where they lead.             *)
LEMMA StoppingMoves ==
    ASSUME Stopping
    PROVE  /\ ~crashed /\ main \notin {"starting", "stopped"} /\ main' # "starting"
           /\ main = "serving" => at = "stop_grpc"
           /\ crashed' \/ main' # "stopped"
           /\ UNCHANGED <<bound, pc>>
           /\ main' # "serving"
BY DEF Stopping, Stop, StopNotRunning, Release, ServerShutdown, ShutdownReturns, CloseQueue,
       DrainEvent, DrainEnd, MainAt, threadVars, mainVars

(* The coupling holds in the beginning and is kept by every step.          *)
LEMMA RoundInit == SystemInit => RoundInv /\ starts \in Nat
BY DEF SystemInit, Init, Manager!Init, RoundInv

(* main() alone.                                                           *)
LEMMA RoundProcess ==
    ASSUME RoundInv, starts \in Nat, ProcessOnly
    PROVE  RoundInv' /\ starts' \in Nat
<1>. USE DEF RoundInv, Manager!config
<1>0. UNCHANGED <<main, faults, carried, pc, crashed>>
  BY DEF ProcessOnly, vars, history
<1>1. CASE Manager!Install \/ Manager!Parse \/ Manager!Refuse \/ Manager!SetupLoggers
  BY <1>0, <1>1 DEF Manager!Install, Manager!Parse, Manager!Refuse, Manager!SetupLoggers
<1>2. CASE main = "starting" /\ Manager!Construct
  BY <1>0, <1>2 DEF Manager!Construct
<1>3. CASE ~grpcOn /\ (Manager!StartGrpc \/ Manager!StopGrpc)
  BY <1>0, <1>3 DEF Manager!StartGrpc, Manager!StopGrpc
<1>4. CASE Manager!StartHttp \/ Manager!LoopExit \/ Manager!Reset \/ Manager!StopHttp
  BY <1>0, <1>4 DEF Manager!StartHttp, Manager!LoopExit, Manager!Reset, Manager!StopHttp
<1>5. CASE Manager!Signal \/ Manager!Others
  BY <1>0, <1>5 DEF Manager!Signal, Manager!Others, Manager!Ended
<1>. QED BY <1>1, <1>2, <1>3, <1>4, <1>5 DEF ProcessOnly

(* Every step.                                                             *)
LEMMA RoundStep ==
    ASSUME TypeOK, RoundInv, starts \in Nat, [SystemNext]_systemVars
    PROVE  RoundInv' /\ starts' \in Nat
<1>1. CASE ProcessOnly
  BY <1>1, RoundProcess
<1>2. CASE NewServer
  BY <1>2 DEF NewServer, RoundInv, Manager!Construct, Manager!config
<1>3. CASE StartServer
  BY <1>3 DEF StartServer, Start, MainAt, RoundInv, Manager!StartGrpc, Manager!config, history,
              threadVars
<1>4. CASE Spawning
  <2>1. PICK q \in Queues : Spawn(q)
    BY <1>4 DEF Spawning
  <2>2. /\ ~crashed /\ crashed' = crashed /\ main = "spawning" /\ main' \in {"spawning", "serving"}
        /\ faults' = faults
    BY <2>1 DEF Spawn, MainAt
  <2>. QED BY <1>4, <2>2 DEF Spawning, Aside, RoundInv, history
<1>5. CASE Stopping
  BY <1>5, StoppingMoves DEF Stopping, Aside, RoundInv, history
<1>6. CASE StopReturns
  BY <1>6 DEF StopReturns, Join, MainAt, RoundInv, Manager!StopGrpc, Manager!config, history,
              threadVars
<1>7. ASSUME NEW q \in Queues, Threads(q) PROVE RoundInv' /\ starts' \in Nat
  <2>1. /\ ~crashed /\ pc[q] \notin {"off", "done"} /\ main' = main
    BY <1>7, ThreadIsOn DEF Threads, mainVars
  <2>2. main \notin {"starting", "stopped"}
    BY <2>1 DEF RoundInv
  <2>. QED BY <1>7, <2>1, <2>2 DEF Threads, Aside, RoundInv, history
<1>8. ASSUME NEW c \in Calls, Clients(c) PROVE RoundInv' /\ starts' \in Nat
  BY <1>8 DEF Clients, Send, Match, Lose, RoundInv, processVars, history, mainVars, threadVars
<1>9. CASE Collapse
  BY <1>9 DEF Collapse, Aside, RoundInv, Manager!Ended, mainVars, threadVars, history
<1>10. CASE UNCHANGED systemVars
  BY <1>10 DEF systemVars, vars, processVars, history, RoundInv
<1>. QED BY <1>1, <1>2, <1>3, <1>4, <1>5, <1>6, <1>7, <1>8, <1>9, <1>10 DEF SystemNext, Idle

(* A server exists only while main() is between start_grpc() and           *)
(* stop_grpc(), and nothing undefined happens without one.                 *)
THEOREM RoundsFit == SystemSpec => []RoundInv
<1>1. TypeOK /\ (RoundInv /\ starts \in Nat) /\ [SystemNext]_systemVars
        => (RoundInv /\ starts \in Nat)'
  BY RoundStep
<1>. QED BY <1>1, RoundInit, ServerTyped, PTL DEF SystemSpec

-----------------------------------------------------------------------------
(* The whole is a ServerProcess.                                           *)

(* What ServerProcess sees depends on these only.                          *)
LEMMA ViewKept ==
    ASSUME UNCHANGED <<at, main, bound, pc>>
    PROVE  View' = View
BY DEF View, AllListening, Booting

(* A thread that has posted its first requests never starts over, so that  *)
(* a server that listens goes on listening.                                *)
LEMMA ListensOn ==
    ASSUME TypeOK, NEW q \in Queues, ThreadStep(q)
    PROVE  AllListening => AllListening'
<1>. USE DEF At, Goto
<1>1. pc \in [Queues -> PcLabels] /\ \E l \in PcLabels : pc' = [pc EXCEPT ![q] = l]
  BY DEF ThreadStep, BootCreate, BootPost, NextEvent, NextEnd, Dispatch, Respawn, RespawnPost,
         Process, Write, MarkFinish, Remove, TypeOK, ThreadsOK, PcLabels
<1>2. ~Booting(q) => pc'[q] \notin {"off", "create", "post"}
  BY <1>1 DEF ThreadStep, BootCreate, BootPost, NextEvent, NextEnd, Dispatch, Respawn,
         RespawnPost, Process, Write, MarkFinish, Remove, TypeOK, ThreadsOK, Booting
<1>. QED BY <1>1, <1>2 DEF AllListening, Booting

(* The end of the process, seen from main().                               *)
LEMMA DeathSeen ==
    ASSUME RoundInv, at \notin {"exited", "dead"}, main # "starting" \/ faults \cup carried # {},
           crashed', Aside
    PROVE  Manager!Die
BY DEF Aside, RoundInv, Manager!Die, Manager!Ended, Manager!config, View, history

(* A step of the server that ends nothing and leaves its looks alone.      *)
LEMMA NothingSeen ==
    ASSUME ~crashed', Aside, View' = View
    PROVE  UNCHANGED Manager!vars
BY DEF Aside, Manager!vars

(* A step of a thread is seen when it is the last to listen.               *)
LEMMA ThreadSeen ==
    ASSUME TypeOK, RoundInv, NEW q \in Queues, Threads(q)
    PROVE  Manager!Next \/ UNCHANGED Manager!vars
<1>1. ThreadStep(q) /\ Aside
  BY DEF Threads
<1>2. /\ ~crashed /\ pc[q] \notin {"off", "done"} /\ UNCHANGED mainVars
      /\ main \notin {"starting", "stopped"}
  BY <1>1, ThreadIsOn DEF RoundInv
<1>3. at \in {"start_http", "loop", "reset", "stop_grpc"}
  BY <1>2 DEF RoundInv
<1>4. CASE crashed'
  BY <1>1, <1>2, <1>3, <1>4, DeathSeen DEF Manager!Next
<1>5. CASE ~crashed'
  <2>1. at' = at /\ main' = main /\ bound' = bound
    BY <1>1, <1>2, <1>5 DEF Aside, mainVars
  <2>2. AllListening => AllListening'
    BY <1>1, ListensOn
  <2>3. View' = View \/ (View = "booting" /\ View' = "listening")
    BY <1>2, <1>3, <2>1, <2>2 DEF View
  <2>4. CASE View' = View
    BY <1>1, <1>5, <2>4, NothingSeen
  <2>5. CASE View = "booting" /\ View' = "listening"
    <3>1. Manager!Booted
      BY <1>1, <1>3, <1>5, <2>5 DEF Aside, Manager!Booted, Manager!Ended, Manager!config
    <3>. QED BY <3>1 DEF Manager!Next
  <2>. QED BY <2>3, <2>4, <2>5
<1>. QED BY <1>4, <1>5

(* A step of main() inside start() or stop() is not seen, unless the       *)
(* process ends.                                                           *)
LEMMA InsideSeen ==
    ASSUME TypeOK, RoundInv, Spawning \/ Stopping
    PROVE  Manager!Next \/ UNCHANGED Manager!vars
<1>1. CASE Spawning
  <2>1. PICK q \in Queues : Spawn(q)
    BY <1>1 DEF Spawning
  <2>2. /\ ~crashed /\ crashed' = crashed /\ main = "spawning" /\ main' \in {"spawning", "serving"}
        /\ pc[q] = "off" /\ pc' = [pc EXCEPT ![q] = "create"] /\ bound' = bound
    BY <2>1 DEF Spawn, MainAt, Goto
  <2>3. ~AllListening /\ ~AllListening' /\ at' = at
    BY <1>1, <2>2 DEF AllListening, Booting, TypeOK, ThreadsOK, Spawning, Aside
  <2>4. View' = View
    BY <2>2, <2>3 DEF View
  <2>. QED BY <1>1, <2>2, <2>4, NothingSeen DEF Spawning
<1>2. CASE Stopping
  <2>1. /\ ~crashed /\ main \notin {"starting", "stopped"} /\ main' # "starting"
        /\ crashed' \/ main' # "stopped"
        /\ UNCHANGED <<bound, pc>> /\ Aside
    BY <1>2, StoppingMoves DEF Stopping
  <2>2. at \in {"start_http", "loop", "reset", "stop_grpc"}
    BY <2>1 DEF RoundInv
  <2>3. CASE crashed'
    BY <2>1, <2>2, <2>3, DeathSeen DEF Manager!Next
  <2>4. CASE ~crashed'
    <3>1. View' = View
      BY <2>1, <2>4 DEF View, AllListening, Booting, Aside
    <3>. QED BY <2>1, <2>4, <3>1, NothingSeen
  <2>. QED BY <2>3, <2>4
<1>. QED BY <1>1, <1>2

(* Every step of the whole is one of ServerProcess or a stutter.           *)
LEMMA StepSeen ==
    ASSUME TypeOK, RoundInv, [SystemNext]_systemVars
    PROVE  Manager!Next \/ UNCHANGED Manager!vars
<1>1. CASE ProcessOnly
  BY <1>1 DEF ProcessOnly, Manager!Next, Manager!MainStep
<1>2. CASE NewServer
  BY <1>2 DEF NewServer, Manager!Next, Manager!MainStep
<1>3. CASE StartServer
  BY <1>3 DEF StartServer, Manager!Next, Manager!MainStep
<1>4. CASE Spawning \/ Stopping
  BY <1>4, InsideSeen
<1>5. CASE StopReturns
  BY <1>5 DEF StopReturns, Manager!Next, Manager!MainStep
<1>6. ASSUME NEW q \in Queues, Threads(q) PROVE Manager!Next \/ UNCHANGED Manager!vars
  BY <1>6, ThreadSeen
<1>7. ASSUME NEW c \in Calls, Clients(c) PROVE Manager!Next \/ UNCHANGED Manager!vars
  <2>1. UNCHANGED <<processVars, main, bound, pc>>
    BY <1>7 DEF Clients, Send, Match, Lose, mainVars, threadVars
  <2>2. View' = View
    BY <2>1, ViewKept DEF processVars
  <2>. QED BY <2>1, <2>2 DEF processVars, Manager!vars
<1>8. CASE Collapse
  BY <1>8, DeathSeen DEF Collapse, Manager!Ended, Manager!Next
<1>9. CASE UNCHANGED systemVars
  <2>1. UNCHANGED <<processVars, main, bound, pc>>
    BY <1>9 DEF systemVars, vars
  <2>2. View' = View
    BY <2>1, ViewKept DEF processVars
  <2>. QED BY <2>1, <2>2 DEF processVars, Manager!vars
<1>. QED BY <1>1, <1>2, <1>3, <1>4, <1>5, <1>6, <1>7, <1>8, <1>9 DEF SystemNext, Idle

(* The server over all its rounds implements ServerProcess, whatever its   *)
(* threads, its clients and the races in its pool do.                      *)
THEOREM SystemImplementsProcess == SystemSpec => ProcessSpec
<1>1. SystemInit => Manager!Init
  BY DEF SystemInit
<1>2. TypeOK /\ RoundInv /\ [SystemNext]_systemVars => [Manager!Next]_(Manager!vars)
  BY StepSeen
<1>. QED BY <1>1, <1>2, ServerTyped, RoundsFit, PTL DEF SystemSpec, ProcessSpec, Manager!Spec

-----------------------------------------------------------------------------
(* So everything that is proved of ServerProcess holds of the whole.       *)
Proofs == INSTANCE ServerProcessProofs WITH grpc <- View

(* The module and its proofs speak of the same process.                    *)
LEMMA SameProcess == Manager!Spec <=> Proofs!Spec
BY DEF Manager!Default, Proofs!Default, Manager!Needs, Proofs!Needs, Manager!CommandLine,
       Proofs!CommandLine, Manager!Accepted, Proofs!Accepted, Manager!Value, Proofs!Value,
       Manager!config, Proofs!config, Manager!vars, Proofs!vars, Manager!Ended, Proofs!Ended,
       Manager!Init, Proofs!Init, Manager!Install, Proofs!Install, Manager!Parse,
       Proofs!Parse, Manager!Refuse, Proofs!Refuse, Manager!SetupLoggers,
       Proofs!SetupLoggers, Manager!Construct, Proofs!Construct, Manager!StartGrpc,
       Proofs!StartGrpc, Manager!Booted, Proofs!Booted, Manager!StartHttp, Proofs!StartHttp,
       Manager!Tick, Proofs!Tick, Manager!LoopExit, Proofs!LoopExit, Manager!Reset,
       Proofs!Reset, Manager!StopGrpc, Proofs!StopGrpc, Manager!Die, Proofs!Die,
       Manager!StopHttp, Proofs!StopHttp, Manager!Signal, Proofs!Signal, Manager!Others,
       Proofs!Others, Manager!MainStep, Proofs!MainStep, Manager!Next, Proofs!Next,
       Manager!Spec, Proofs!Spec, Manager!Flags, Proofs!Flags

(* And of the same types, bounds and ports.                                *)
LEMMA SameProperties ==
    /\ Manager!TypeOK <=> Proofs!TypeOK
    /\ Manager!NoSpuriousRestart <=> Proofs!NoSpuriousRestart
    /\ Manager!PortHandedOver <=> Proofs!PortHandedOver
    /\ Manager!SignalNotLost <=> Proofs!SignalNotLost
BY DEF Manager!TypeOK, Proofs!TypeOK, Manager!NoSpuriousRestart, Proofs!NoSpuriousRestart,
       Manager!PortHandedOver, Proofs!PortHandedOver, Manager!SignalNotLost,
       Proofs!SignalNotLost, Manager!Configured, Proofs!Configured

(* What the proofs assume of the command lines.                            *)
LEMMA LinesTyped == MaxSignals \in Nat /\ CommandLines \subseteq Proofs!CommandLine
BY RestartsAssumption DEF Manager!CommandLine, Proofs!CommandLine, Manager!Flags, Proofs!Flags,
       Manager!Needs, Proofs!Needs

(* Counters and history keep their types, and a dead process is dead for   *)
(* main() and for the server.                                              *)
LEMMA HistoryStep ==
    ASSUME TypeOK, TypeOK', since \in 0..nextId, carried \subseteq FaultNames,
           crashed => at = "dead", [SystemNext]_systemVars
    PROVE  /\ since' \in 0..nextId' /\ carried' \subseteq FaultNames
           /\ crashed' => at' = "dead"
<1>0. nextId \in Nat /\ nextId' \in Nat /\ faults \subseteq FaultNames
  BY MaxRpcsAssumption DEF TypeOK, PoolOK, FaultsOK
<1>1. CASE ProcessOnly
  <2>1. UNCHANGED <<nextId, since, carried, crashed>>
    BY <1>1 DEF ProcessOnly, vars, history
  <2>2. at = "dead" => at' = "dead"
    BY <1>1 DEF ProcessOnly, Manager!Install, Manager!Parse, Manager!Refuse,
         Manager!SetupLoggers, Manager!Construct, Manager!StartGrpc, Manager!StopGrpc,
         Manager!StartHttp, Manager!LoopExit, Manager!Reset, Manager!StopHttp, Manager!Signal,
         Manager!Others, Manager!Ended
  <2>. QED BY <2>1, <2>2
<1>2. CASE NewServer
  BY <1>0, <1>2 DEF NewServer, Manager!Construct, poolVars
<1>3. CASE StartServer
  BY <1>3 DEF StartServer, Start, MainAt, history, poolVars
<1>4. CASE Spawning
  BY <1>4 DEF Spawning, Spawn, MainAt, Aside, history, poolVars
<1>5. CASE Stopping
  <2>1. nextId' = nextId /\ ~crashed
    BY <1>5 DEF Stopping, Stop, StopNotRunning, Release, ServerShutdown, ShutdownReturns,
         CloseQueue, DrainEvent, DrainEnd, MainAt, poolVars
  <2>. QED BY <1>5, <2>1 DEF Stopping, Aside, history
<1>6. CASE StopReturns
  BY <1>6 DEF StopReturns, Join, MainAt, history, poolVars
<1>7. ASSUME NEW q \in Queues, Threads(q)
      PROVE  /\ since' \in 0..nextId' /\ carried' \subseteq FaultNames
             /\ crashed' => at' = "dead"
  <2>1. nextId' \in {nextId, nextId + 1}
    BY <1>7 DEF Threads, ThreadStep, BootCreate, BootPost, NextEvent, NextEnd, Dispatch, Respawn,
         RespawnPost, Process, Write, MarkFinish, Remove, Insert, poolVars
  <2>. QED BY <1>0, <1>7, <2>1 DEF Threads, Aside, history
<1>8. ASSUME NEW c \in Calls, Clients(c)
      PROVE  /\ since' \in 0..nextId' /\ carried' \subseteq FaultNames
             /\ crashed' => at' = "dead"
  BY <1>8 DEF Clients, Send, Match, Lose, processVars, history, poolVars
<1>9. CASE Collapse
  BY <1>9 DEF Collapse, Aside, history, poolVars
<1>10. CASE UNCHANGED systemVars
  BY <1>10 DEF systemVars, vars, processVars, history
<1>. QED BY <1>1, <1>2, <1>3, <1>4, <1>5, <1>6, <1>7, <1>8, <1>9, <1>10 DEF SystemNext, Idle

(* Every variable of the server and of main() keeps its type over all      *)
(* rounds.                                                                 *)
THEOREM SystemTyped == SystemSpec => []SystemTypeOK
<1>. DEFINE History == /\ since \in 0..nextId /\ carried \subseteq FaultNames
                       /\ crashed => at = "dead"
<1>1. Proofs!Spec => []Proofs!TypeOK
  BY LinesTyped, Proofs!ProcessTyped
<1>2. Manager!Spec => []Manager!TypeOK
  BY <1>1, SameProcess, SameProperties, PTL
<1>3. SystemSpec => []History
  <2>1. SystemInit => History
    BY DEF SystemInit, Init
  <2>2. TypeOK /\ TypeOK' /\ History /\ [SystemNext]_systemVars => History'
    BY HistoryStep
  <2>. HIDE DEF History
  <2>. QED BY <2>1, <2>2, ServerTyped, PTL DEF SystemSpec
<1>4. TypeOK /\ Manager!TypeOK /\ History => SystemTypeOK
  BY DEF SystemTypeOK
<1>. HIDE DEF History
<1>. QED BY <1>2, <1>3, <1>4, ServerTyped, SystemImplementsProcess, PTL DEF ProcessSpec

(* However often main() goes round and whatever its servers do: every      *)
(* start after the first was asked for by a signal of its own, no server   *)
(* finds the port taken by its predecessor, and no signal is lost.         *)
THEOREM RoundsAreAskedFor ==
    SystemSpec => [](/\ Manager!NoSpuriousRestart
                     /\ Manager!PortHandedOver
                     /\ Manager!SignalNotLost)
<1>1. Proofs!Spec => []Proofs!NoSpuriousRestart
  BY LinesTyped, Proofs!RestartsAreAskedFor
<1>2. Proofs!Spec => []Proofs!PortHandedOver
  BY LinesTyped, Proofs!PortIsHandedOver
<1>3. Proofs!Spec => []Proofs!SignalNotLost
  BY LinesTyped, Proofs!SignalsAreNotLost
<1>. QED BY <1>1, <1>2, <1>3, SameProcess, SameProperties, SystemImplementsProcess, PTL DEF ProcessSpec

-----------------------------------------------------------------------------
(* The server of this round with its share of the pool is a GrpcServer, so *)
(* that what is proved of the pool of one server holds of each.            *)
Own == INSTANCE GrpcServerProofs WITH pool <- OwnPool, mem <- OwnMem

(* A new object is of this round.                                          *)
LEMMA SinceInsert ==
    ASSUME TypeOK, SinceInv, since \in 0..nextId, NEW q \in Queues, NEW m, Insert(q, m),
           \/ pc[q] = "create" /\ pc' = [pc EXCEPT ![q] = "post"]
           \/ pc[q] = "respawn" /\ pc' = [pc EXCEPT ![q] = "repost"],
           UNCHANGED <<got, listening, events, since>>
    PROVE  SinceInv'
<1>1. nextId \in Nat /\ nextId' = nextId + 1 /\ pool \subseteq Nat /\ since \in Nat
  BY MaxRpcsAssumption DEF Insert, TypeOK, PoolOK, Ids
<1>2. \A i \in pool' : i < nextId'
  <2>. SUFFICES ASSUME NEW i \in pool' PROVE i < nextId'
    OBVIOUS
  <2>1. CASE i \in pool
    <3>1. i \in Nat /\ i < nextId
      BY <1>1, <2>1 DEF SinceInv
    <3>. QED BY <1>1, <3>1
  <2>2. CASE i = nextId
    BY <1>1, <2>2
  <2>. QED BY <2>1, <2>2 DEF Insert
<1>3. \A r \in Queues : /\ Working(r)' => Working(r)
                        /\ Posting(r)' /\ r # q => Posting(r) /\ fresh'[r] = fresh[r]
  BY DEF Working, Posting, TypeOK, ThreadsOK, Insert
<1>4. fresh'[q] = nextId
  BY DEF Insert, TypeOK, ThreadsOK
<1>5. \A r \in Queues : /\ Working(r)' => got'[r].tag >= since'
                        /\ Posting(r)' => fresh'[r] >= since'
  BY <1>1, <1>3, <1>4 DEF SinceInv
<1>. QED BY <1>2, <1>5 DEF SinceInv

(* Posting an object makes a tag of the one that was being created.        *)
LEMMA SincePost ==
    ASSUME TypeOK, SinceInv, NEW q \in Queues, PostRequest(q), Posting(q),
           NEW l \in {"create", "next", "process"}, pc' = [pc EXCEPT ![q] = l],
           l = "process" => pc[q] = "repost",
           UNCHANGED <<got, fresh, pool, nextId, since>>
    PROVE  SinceInv'
<1>1. fresh[q] >= since
  BY DEF SinceInv
<1>2. /\ \A i \in listening' : i >= since
      /\ \A e \in events' : e.tag >= since
  BY <1>1 DEF PostRequest, SinceInv
<1>3. \A r \in Queues : /\ Working(r)' => Working(r)
                        /\ Posting(r)' => Posting(r)
  BY DEF Working, Posting, TypeOK, ThreadsOK
<1>. QED BY <1>2, <1>3 DEF SinceInv

(* Every step of a thread keeps to the tags of the round.                  *)
LEMMA SinceThread ==
    ASSUME TypeOK, SinceInv, since \in 0..nextId, NEW q \in Queues, ThreadStep(q), since' = since
    PROVE  SinceInv'
<1>. USE DEF At, Goto
<1>0. pc \in [Queues -> PcLabels] /\ got \in [Queues -> Event]
  BY DEF TypeOK, ThreadsOK
<1>1. CASE BootCreate(q)
  BY <1>1, SinceInsert DEF BootCreate, grpcVars
<1>2. CASE Respawn(q)
  BY <1>2, SinceInsert DEF Respawn, grpcVars
<1>3. CASE BootPost(q)
  <2>1. Posting(q) /\ \E l \in {"create", "next"} : pc' = [pc EXCEPT ![q] = l]
    BY <1>3 DEF BootPost, Posting
  <2>. QED BY <1>3, <2>1, SincePost DEF BootPost
<1>4. CASE RespawnPost(q)
  <2>1. Posting(q) /\ pc' = [pc EXCEPT ![q] = "process"]
    BY <1>4 DEF RespawnPost, Posting
  <2>. QED BY <1>4, <2>1, SincePost DEF RespawnPost
<1>5. CASE NextEvent(q)
  <2>1. PICK e \in events : got' = [got EXCEPT ![q] = e] /\ events' = events \ {e}
    BY <1>5 DEF NextEvent
  <2>2. e.tag >= since
    BY DEF SinceInv
  <2>3. got'[q] = e /\ \A r \in Queues : r # q => got'[r] = got[r] /\ pc'[r] = pc[r]
    BY <1>0, <1>5, <2>1 DEF NextEvent
  <2>4. UNCHANGED <<fresh, pool, nextId, listening>> /\ pc'[q] = "dispatch"
    BY <1>0, <1>5 DEF NextEvent, poolVars
  <2>. QED BY <2>1, <2>2, <2>3, <2>4 DEF SinceInv, Working, Posting
<1>6. CASE NextEnd(q) \/ Dispatch(q) \/ Process(q) \/ MarkFinish(q)
  <2>1. UNCHANGED <<got, fresh, pool, nextId, listening, events>>
    BY <1>6 DEF NextEnd, Dispatch, Process, MarkFinish, poolVars, grpcVars
  <2>2. \A r \in Queues : (Working(r)' => Working(r)) /\ (Posting(r)' => Posting(r))
    BY <1>0, <1>6 DEF NextEnd, Dispatch, Process, MarkFinish, Working, Posting
  <2>. QED BY <2>1, <2>2 DEF SinceInv
<1>7. CASE Write(q)
  <2>1. /\ UNCHANGED <<got, fresh, pool, nextId, listening>> /\ Working(q)
        /\ \A e \in events' : e \in events \/ e.tag = got[q].tag
    BY <1>7 DEF Write, Working, poolVars
  <2>2. \A r \in Queues : (Working(r)' => Working(r)) /\ (Posting(r)' => Posting(r))
    BY <1>0, <1>7 DEF Write, Working, Posting
  <2>. QED BY <2>1, <2>2 DEF SinceInv
<1>8. CASE Remove(q)
  <2>1. UNCHANGED <<got, fresh, nextId, listening, events>> /\ pool' \subseteq pool
    BY <1>8 DEF Remove, Erase, grpcVars
  <2>2. \A r \in Queues : (Working(r)' => Working(r)) /\ (Posting(r)' => Posting(r))
    BY <1>0, <1>8 DEF Remove, Working, Posting
  <2>. QED BY <2>1, <2>2 DEF SinceInv
<1>. QED BY <1>1, <1>2, <1>3, <1>4, <1>5, <1>6, <1>7, <1>8 DEF ThreadStep

(* Steps of main(), of the clients and of gRPC move tags only from the     *)
(* posted objects to the queues.                                           *)
LEMMA SinceRest ==
    ASSUME TypeOK, SinceInv, since' = since,
           \/ MainStep \/ Stop \/ StopNotRunning \/ Crash \/ UNCHANGED vars
           \/ \E c \in Calls : Send(c) \/ Match(c) \/ Lose(c)
    PROVE  SinceInv'
<1>1. ASSUME UNCHANGED <<got, fresh, nextId>>, pool' \subseteq pool, listening' \subseteq listening,
             \A e \in events' : e \in events \/ e.tag \in listening,
             \A q \in Queues : (Working(q)' => Working(q)) /\ (Posting(q)' => Posting(q))
      PROVE  SinceInv'
  BY <1>1 DEF SinceInv
<1>2. CASE \E q \in Queues : Spawn(q)
  <2>1. PICK q \in Queues : Spawn(q)
    BY <1>2
  <2>2. \A r \in Queues : (Working(r)' => Working(r)) /\ (Posting(r)' => Posting(r))
    BY <2>1 DEF Spawn, Goto, Working, Posting, TypeOK, ThreadsOK
  <2>. QED BY <1>1, <2>1, <2>2 DEF Spawn, poolVars, grpcVars
<1>3. CASE ServerShutdown
  BY <1>1, <1>3 DEF ServerShutdown, threadVars, poolVars, Working, Posting
<1>4. CASE \E c \in Calls : Match(c)
  BY <1>1, <1>4 DEF Match, threadVars, poolVars, Working, Posting
<1>5. CASE Release
  BY <1>1, <1>5 DEF Release, threadVars, grpcVars, Working, Posting
<1>6. CASE DrainEvent
  BY <1>1, <1>6 DEF DrainEvent, threadVars, poolVars, Working, Posting
<1>7. CASE \/ Start \/ ShutdownReturns \/ (\E q \in Queues : CloseQueue(q)) \/ DrainEnd \/ Join
           \/ Stop \/ StopNotRunning \/ Crash \/ UNCHANGED vars
           \/ \E c \in Calls : Send(c) \/ Lose(c)
  <2>1. UNCHANGED <<pc, got, fresh, nextId, pool, listening, events>>
    BY <1>7 DEF Start, ShutdownReturns, CloseQueue, DrainEnd, Join, Stop, StopNotRunning, Crash,
         vars, Send, Lose, threadVars, poolVars, grpcVars
  <2>. QED BY <1>1, <2>1 DEF Working, Posting
<1>. QED BY <1>2, <1>3, <1>4, <1>5, <1>6, <1>7 DEF MainStep

(* A server never sees an object of an earlier one.                        *)
THEOREM RoundsKeepApart == SystemSpec => []SinceInv
<1>1. SystemInit => SinceInv
  BY DEF SystemInit, Init, SinceInv, Working, Posting
<1>2. SystemTypeOK /\ SinceInv /\ [SystemNext]_systemVars => SinceInv'
  <2>. SUFFICES ASSUME SystemTypeOK, SinceInv, [SystemNext]_systemVars PROVE SinceInv'
    OBVIOUS
  <2>0. TypeOK /\ since \in 0..nextId
    BY DEF SystemTypeOK
  <2>1. CASE NewServer
    <3>1. pool' = pool /\ nextId' = nextId
      BY <2>1 DEF NewServer, poolVars
    <3>. QED BY <2>1, <3>1 DEF NewServer, SinceInv, Working, Posting
  <2>2. CASE Collapse
    BY <2>2 DEF Collapse, Aside, history, SinceInv, Working, Posting, threadVars, poolVars,
                grpcVars
  <2>3. CASE [Next]_vars /\ since' = since
    BY <2>0, <2>3, SinceThread, SinceRest DEF Next, Ended
  <2>4. NewServer \/ Collapse \/ since' = since
    BY DEF SystemNext, systemVars, history, ProcessOnly, StartServer, Spawning, Stopping,
           StopReturns, Threads, Clients, Idle, Aside
  <2>. QED BY <2>1, <2>2, <2>3, <2>4, ServerStep
<1>. QED BY <1>1, <1>2, SystemTyped, PTL DEF SystemSpec

-----------------------------------------------------------------------------
(* With its share, the server of a round takes the steps of a GrpcServer.  *)

(* What does not look into the pool is the same.                           *)
LEMMA OwnConstants ==
    /\ Own!Queues = Queues /\ Own!Methods = Methods /\ Own!Ids = Ids
    /\ Own!CommonMethods = CommonMethods /\ Own!Event = Event
    /\ Own!FaultNames = FaultNames
    /\ \A q : Own!BootList(q) = BootList(q)
BY DEF Own!Queues, Queues, Own!Methods, Methods, Own!CommonMethods, CommonMethods, Own!Ids, Ids,
       Own!Event, Event, Own!FaultNames, FaultNames, Own!BootList, BootList

(* Nor do threads look at the pool to know where they are.                 *)
LEMMA OwnLooks ==
    /\ \A q : (Own!Racing(q) <=> Racing(q)) /\ (Own!Posting(q) <=> Posting(q))
    /\ \A q : Own!AtPool(q) <=> AtPool(q)
    /\ \A q : Own!RaceFault(Own!Racing(q)) = RaceFault(Racing(q))
    /\ \A i : Own!HeldLocally(i) <=> HeldLocally(i)
<1>1. \A q : (Own!Racing(q) <=> Racing(q)) /\ (Own!Posting(q) <=> Posting(q))
  BY OwnConstants DEF Own!Racing, Racing, Own!AtPool, AtPool, Own!Posting, Posting
<1>2. \A q : Own!RaceFault(Own!Racing(q)) = RaceFault(Racing(q))
  BY <1>1 DEF Own!RaceFault, RaceFault
<1>3. \A q : Own!AtPool(q) <=> AtPool(q)
  BY DEF Own!AtPool, AtPool
<1>4. \A i : Own!HeldLocally(i) <=> HeldLocally(i)
  BY <1>1, OwnConstants DEF Own!HeldLocally, HeldLocally
<1>. QED BY <1>1, <1>2, <1>3, <1>4

(* An unchanged pool is an unchanged share.                                *)
LEMMA OwnKept == UNCHANGED <<pool, mem, since>> => UNCHANGED <<OwnPool, OwnMem>>
BY DEF OwnPool, OwnMem

(* The share is typed.                                                     *)
LEMMA OwnShareTyped ==
    ASSUME TypeOK
    PROVE  OwnPool \subseteq Ids /\ OwnMem \in [Ids -> {"none", "live", "freed"}]
BY DEF TypeOK, PoolOK, OwnPool, OwnMem

(* Memory of this round is touched alike.                                  *)
LEMMA OwnTouch ==
    ASSUME NEW i \in Ids, i >= since, since \in Nat
    PROVE  Own!Touch(i) = Touch(i)
<1>1. ~(i < since)
  BY MaxRpcsAssumption DEF Ids
<1>. QED BY <1>1 DEF Own!Touch, Touch, OwnMem

(* An insertion into the pool is one into the share.                       *)
LEMMA OwnInsert ==
    ASSUME TypeOK, SinceInv, since \in 0..nextId, since' = since,
           NEW q \in Queues, NEW m, Insert(q, m)
    PROVE  Own!Insert(q, m)
<1>1. nextId \in Ids /\ nextId >= since /\ since \in Nat /\ \A i \in Ids : i \in Nat
  BY MaxRpcsAssumption DEF Insert, TypeOK, PoolOK, Ids
<1>2. OwnMem' = [OwnMem EXCEPT ![nextId] = "live"]
  <2>1. mem' = [mem EXCEPT ![nextId] = "live"] /\ ~(nextId < since) /\ since' = since
    BY <1>1 DEF Insert
  <2>. QED BY <1>1, <2>1 DEF OwnMem, TypeOK, PoolOK
<1>3. pool' = pool \cup {nextId} => OwnPool' = OwnPool \cup {nextId}
  BY <1>1 DEF OwnPool
<1>4. pool' = pool => OwnPool' = OwnPool
  BY DEF OwnPool
<1>. QED BY <1>2, <1>3, <1>4, OwnLooks DEF Insert, Own!Insert

(* An object of the share that is posted.                                  *)
LEMMA OwnPost ==
    ASSUME TypeOK, since \in Nat, UNCHANGED <<since, pool>>,
           NEW q \in Queues, fresh[q] >= since, PostRequest(q)
    PROVE  Own!PostRequest(q)
<1>. DEFINE i == fresh[q]
<1>1. i \in Ids /\ ~(i < since) /\ \A j \in Ids : j \in Nat
  BY MaxRpcsAssumption DEF TypeOK, ThreadsOK, Ids
<1>2. i \in OwnPool <=> i \in pool
  BY DEF OwnPool
<1>3. OwnMem' = IF i \in OwnPool THEN OwnMem ELSE [OwnMem EXCEPT ![i] = "freed"]
  <2>1. mem' = IF i \in pool THEN mem ELSE [mem EXCEPT ![i] = "freed"]
    BY DEF PostRequest
  <2>2. CASE i \in pool
    BY <1>2, <2>1, <2>2 DEF OwnMem
  <2>3. CASE i \notin pool
    <3>1. mem' = [mem EXCEPT ![i] = "freed"]
      BY <2>1, <2>3
    <3>2. OwnMem' = [OwnMem EXCEPT ![i] = "freed"]
      BY <1>1, <3>1 DEF OwnMem, TypeOK, PoolOK
    <3>. QED BY <1>2, <2>3, <3>2
  <2>. QED BY <2>2, <2>3
<1>. QED BY <1>3 DEF PostRequest, Own!PostRequest

(* An object of the share that is erased.                                  *)
LEMMA OwnErase ==
    ASSUME TypeOK, since \in Nat, since' = since,
           NEW q \in Queues, NEW i \in Ids, i >= since, Erase(q, i)
    PROVE  Own!Erase(q, i)
<1>1. ~(i < since) /\ \A j \in Ids : j \in Nat
  BY MaxRpcsAssumption DEF Ids
<1>2. i \in OwnPool <=> i \in pool
  BY DEF OwnPool
<1>3. ASSUME pool' = pool \ {i}, mem' = IF i \in pool THEN [mem EXCEPT ![i] = "freed"] ELSE mem
      PROVE  /\ OwnPool' = OwnPool \ {i}
             /\ OwnMem' = IF i \in OwnPool THEN [OwnMem EXCEPT ![i] = "freed"] ELSE OwnMem
  <2>1. OwnPool' = OwnPool \ {i}
    BY <1>3 DEF OwnPool
  <2>2. CASE i \in pool
    <3>1. mem' = [mem EXCEPT ![i] = "freed"]
      BY <1>3, <2>2
    <3>2. OwnMem' = [OwnMem EXCEPT ![i] = "freed"]
      BY <1>1, <3>1 DEF OwnMem, TypeOK, PoolOK
    <3>. QED BY <1>2, <2>1, <2>2, <3>2
  <2>3. CASE i \notin pool
    BY <1>2, <1>3, <2>1, <2>3 DEF OwnMem
  <2>. QED BY <2>2, <2>3
<1>4. UNCHANGED <<pool, mem>> => UNCHANGED <<OwnPool, OwnMem>>
  BY OwnKept
<1>. QED BY <1>3, <1>4, OwnLooks DEF Erase, Own!Erase

(* A thread of the server takes a step of its GrpcServer.                  *)
LEMMA OwnThread ==
    ASSUME TypeOK, SinceInv, since \in 0..nextId, since' = since,
           NEW q \in Queues, ThreadStep(q)
    PROVE  Own!ThreadStep(q)
<1>. USE DEF Own!At, At, Own!Goto, Goto, Own!threadVars, threadVars, Own!poolVars, poolVars,
             Own!rpcVars, rpcVars, Own!grpcVars, grpcVars, Own!mainVars, mainVars
<1>. DEFINE i == got[q].tag
<1>0. i \in Ids /\ since \in Nat /\ nextId \in Nat
  BY MaxRpcsAssumption DEF TypeOK, ThreadsOK, PoolOK, Event
<1>a. Working(q) => i >= since /\ Own!Touch(i) = Touch(i)
  BY <1>0, OwnTouch DEF SinceInv
<1>1. CASE BootCreate(q)
  <2>1. Own!Insert(q, Own!BootList(q)[booted[q] + 1])
    BY <1>1, OwnInsert, OwnConstants DEF BootCreate
  <2>2. Own!BootCreate(q)
    BY <1>1, <2>1, OwnLooks DEF BootCreate, Own!BootCreate
  <2>. QED BY <2>2 DEF Own!ThreadStep
<1>2. CASE BootPost(q)
  <2>1. fresh[q] >= since
    BY <1>2 DEF BootPost, SinceInv, Posting
  <2>2. Own!PostRequest(q) /\ OwnPool' = OwnPool
    BY <1>0, <1>2, <2>1, OwnPost DEF BootPost, OwnPool
  <2>3. Own!BootPost(q)
    BY <1>2, <2>2, OwnConstants DEF BootPost, Own!BootPost
  <2>. QED BY <2>3 DEF Own!ThreadStep
<1>3. CASE NextEvent(q)
  BY <1>3, OwnKept DEF NextEvent, Own!NextEvent, Own!ThreadStep
<1>4. CASE NextEnd(q)
  BY <1>4, OwnKept DEF NextEnd, Own!NextEnd, Own!ThreadStep
<1>5. CASE Dispatch(q)
  BY <1>5, <1>a, OwnKept DEF Dispatch, Own!Dispatch, Own!ThreadStep, Working
<1>6. CASE Respawn(q)
  <2>1. Own!Insert(q, method[i])
    BY <1>6, OwnInsert DEF Respawn
  <2>2. Own!Respawn(q)
    BY <1>6, <1>a, <2>1, OwnLooks DEF Respawn, Own!Respawn, Working
  <2>. QED BY <2>2 DEF Own!ThreadStep
<1>7. CASE RespawnPost(q)
  <2>1. fresh[q] >= since
    BY <1>7 DEF RespawnPost, SinceInv, Posting
  <2>2. Own!PostRequest(q) /\ OwnPool' = OwnPool
    BY <1>0, <1>7, <2>1, OwnPost DEF RespawnPost, OwnPool
  <2>3. Own!RespawnPost(q)
    BY <1>7, <2>2 DEF RespawnPost, Own!RespawnPost
  <2>. QED BY <2>3 DEF Own!ThreadStep
<1>8. CASE Process(q)
  BY <1>8, <1>a, OwnKept DEF Process, Own!Process, Own!ThreadStep, Working
<1>9. CASE Write(q)
  BY <1>9, <1>a, OwnKept DEF Write, Own!Write, Own!ThreadStep, Working
<1>10. CASE MarkFinish(q)
  BY <1>10, <1>a, OwnKept DEF MarkFinish, Own!MarkFinish, Own!ThreadStep, Working
<1>11. CASE Remove(q)
  <2>1. i >= since /\ Own!Touch(i) = Touch(i)
    BY <1>11, <1>a DEF Remove, Working
  <2>2. Own!Erase(q, i)
    BY <1>0, <1>11, <2>1, OwnErase DEF Remove
  <2>3. Own!Remove(q)
    BY <1>11, <2>1, <2>2, OwnLooks DEF Remove, Own!Remove
  <2>. QED BY <2>3 DEF Own!ThreadStep
<1>. QED BY <1>1, <1>2, <1>3, <1>4, <1>5, <1>6, <1>7, <1>8, <1>9, <1>10, <1>11 DEF ThreadStep

(* So does release(), which frees what earlier servers left as well.       *)
LEMMA OwnRelease ==
    ASSUME TypeOK, since \in Nat, since' = since, Release
    PROVE  Own!Release
<1>. USE DEF Own!MainAt, MainAt, Own!threadVars, threadVars, Own!rpcVars, rpcVars, Own!grpcVars,
             grpcVars
<1>. DEFINE racing == \E q \in Queues : AtPool(q)
            ownRacing == \E q \in Own!Queues : Own!AtPool(q)
<1>1. racing <=> ownRacing
  BY OwnConstants, OwnLooks
<1>2. RaceFault(racing) = Own!RaceFault(ownRacing)
  BY <1>1 DEF RaceFault, Own!RaceFault
<1>. HIDE DEF racing, ownRacing
<1>3. \/ /\ pool' = {}
         /\ mem' = [i \in Ids |-> IF i \in pool /\ ~HeldLocally(i) THEN "freed" ELSE mem[i]]
      \/ racing /\ UNCHANGED <<pool, mem>>
  BY DEF Release, racing
<1>4. ASSUME pool' = {},
             mem' = [i \in Ids |-> IF i \in pool /\ ~HeldLocally(i) THEN "freed" ELSE mem[i]]
      PROVE  /\ OwnPool' = {}
             /\ OwnMem' = [i \in Own!Ids |-> IF i \in OwnPool /\ ~Own!HeldLocally(i)
                                             THEN "freed" ELSE OwnMem[i]]
  <2>1. OwnPool' = {}
    BY <1>4 DEF OwnPool
  <2>2. \A i \in Ids : i \in Nat /\ (i \in OwnPool <=> i \in pool /\ ~(i < since))
    BY MaxRpcsAssumption DEF OwnPool, Ids
  <2>3. \A i \in Ids : OwnMem'[i] = IF i \in OwnPool /\ ~HeldLocally(i)
                                    THEN "freed" ELSE OwnMem[i]
    BY <1>4, <2>2 DEF OwnMem
  <2>4. OwnMem' = [i \in Ids |-> OwnMem'[i]]
    BY DEF OwnMem
  <2>5. OwnMem' = [i \in Ids |-> IF i \in OwnPool /\ ~HeldLocally(i)
                                 THEN "freed" ELSE OwnMem[i]]
    BY <2>3, <2>4
  <2>. QED BY <2>1, <2>5, OwnConstants, OwnLooks
<1>5. racing /\ UNCHANGED <<pool, mem>> => ownRacing /\ UNCHANGED <<OwnPool, OwnMem>>
  BY <1>1, OwnKept
<1>6. \/ /\ OwnPool' = {}
         /\ OwnMem' = [i \in Own!Ids |-> IF i \in OwnPool /\ ~Own!HeldLocally(i)
                                         THEN "freed" ELSE OwnMem[i]]
      \/ ownRacing /\ UNCHANGED <<OwnPool, OwnMem>>
  BY <1>3, <1>4, <1>5
<1>7. /\ Own!MainAt("release") /\ main' = "shutdown"
      /\ faults' = faults \cup Own!RaceFault(ownRacing)
      /\ UNCHANGED <<bound, srvDown, shut, draining, earlyStop, threadVars, nextId, rpcVars,
                     grpcVars, crashed>>
  BY <1>2 DEF Release, racing
<1>. QED BY <1>6, <1>7 DEF Own!Release, ownRacing

(* So does the thread that runs start() and stop().                        *)
LEMMA OwnMain ==
    ASSUME TypeOK, since \in Nat, since' = since, MainStep \/ Stop \/ StopNotRunning
    PROVE  Own!MainStep \/ Own!Stop \/ Own!StopNotRunning
<1>. USE DEF Own!MainAt, MainAt, Own!Goto, Goto, Own!threadVars, threadVars, Own!poolVars, poolVars,
             Own!rpcVars, rpcVars, Own!grpcVars, grpcVars, Own!mainVars, mainVars
<1>1. CASE Start
  BY <1>1, OwnKept DEF Start, Own!Start, Own!MainStep
<1>2. CASE \E q \in Queues : Spawn(q)
  BY <1>2, OwnKept, OwnConstants DEF Spawn, Own!Spawn, Own!MainStep
<1>3. CASE Release
  BY <1>3, OwnRelease DEF Own!MainStep
<1>4. CASE ServerShutdown
  BY <1>4, OwnKept DEF ServerShutdown, Own!ServerShutdown, Own!MainStep
<1>5. CASE ShutdownReturns
  BY <1>5, OwnKept DEF ShutdownReturns, Own!ShutdownReturns, Own!MainStep
<1>6. CASE \E q \in Queues : CloseQueue(q)
  BY <1>6, OwnKept, OwnConstants DEF CloseQueue, Own!CloseQueue, Own!MainStep
<1>7. CASE DrainEvent
  BY <1>7, OwnKept DEF DrainEvent, Own!DrainEvent, Own!MainStep
<1>8. CASE DrainEnd
  BY <1>8, OwnKept, OwnConstants DEF DrainEnd, Own!DrainEnd, Own!MainStep
<1>9. CASE Join
  BY <1>9, OwnKept, OwnConstants DEF Join, Own!Join, Own!MainStep
<1>10. CASE Stop
  BY <1>10, OwnKept, OwnConstants DEF Stop, Own!Stop, Own!Booting, Booting
<1>11. CASE StopNotRunning
  BY <1>11, OwnKept DEF StopNotRunning, Own!StopNotRunning
<1>. QED BY <1>1, <1>2, <1>3, <1>4, <1>5, <1>6, <1>7, <1>8, <1>9, <1>10, <1>11 DEF MainStep

(* Clients and gRPC do not know of the pool.                               *)
LEMMA OwnWorld ==
    ASSUME since' = since, NEW c \in Calls, Send(c) \/ Match(c) \/ Lose(c)
    PROVE  Own!Send(c) \/ Own!Match(c) \/ Own!Lose(c)
<1>1. UNCHANGED <<OwnPool, OwnMem>>
  BY OwnKept DEF Send, Match, Lose, poolVars
<1>. USE DEF Own!threadVars, threadVars, Own!poolVars, poolVars, Own!rpcVars, rpcVars,
             Own!mainVars, mainVars, Own!Serving, Serving
<1>2. CASE Send(c)
  BY <1>1, <1>2 DEF Send, Own!Send
<1>3. CASE Match(c)
  BY <1>1, <1>3 DEF Match, Own!Match
<1>4. CASE Lose(c)
  BY <1>1, <1>4 DEF Lose, Own!Lose
<1>. QED BY <1>2, <1>3, <1>4

(* Every step of the server is one of a GrpcServer with its share.         *)
LEMMA OwnStep ==
    ASSUME TypeOK, SinceInv, since \in 0..nextId, since' = since, [Next]_vars
    PROVE  [Own!Next]_(Own!vars)
<1>0. since \in Nat
  BY DEF TypeOK, PoolOK
<1>1. ASSUME NEW q \in Queues, ThreadStep(q) PROVE Own!Next
  BY <1>1, OwnThread, OwnConstants DEF Own!Next
<1>2. CASE MainStep \/ Stop \/ StopNotRunning
  BY <1>0, <1>2, OwnMain DEF Own!Next
<1>3. CASE \E c \in Calls : Send(c) \/ Match(c) \/ Lose(c)
  BY <1>3, OwnWorld DEF Own!Next
<1>4. CASE Crash
  <2>1. Own!Crash
    BY <1>4, OwnKept DEF Crash, Own!Crash, Own!threadVars, threadVars, Own!poolVars, poolVars,
       Own!rpcVars, rpcVars, Own!grpcVars, grpcVars, Own!mainVars, mainVars
  <2>. QED BY <2>1 DEF Own!Next
<1>5. CASE UNCHANGED vars
  <2>1. UNCHANGED <<pool, mem, since>>
    BY <1>5 DEF vars
  <2>2. UNCHANGED <<OwnPool, OwnMem>>
    BY <2>1, OwnKept
  <2>. QED BY <1>5, <2>2 DEF vars, Own!vars
<1>. QED BY <1>1, <1>2, <1>3, <1>4, <1>5 DEF Next, Ended

-----------------------------------------------------------------------------
(* What is assumed of a GrpcServer is assumed of each round's.             *)
LEMMA OwnAssumptions ==
    /\ CommonQueue \notin InferQueues
    /\ CommonRpcs \in Seq(Own!CommonMethods) /\ Len(CommonRpcs) > 0
    /\ ModelInfer \notin Own!CommonMethods
    /\ \A j, k \in 1..Len(CommonRpcs) : CommonRpcs[j] = CommonRpcs[k] => j = k
    /\ NoCall \notin Calls /\ MethodOf \in [Calls -> Own!Methods]
    /\ MaxRpcs \in Nat \ {0}
BY QueuesAssumption, RpcsAssumption, CallsAssumption, MaxRpcsAssumption, OwnConstants

(* Its inductive invariant is kept while it runs ...                       *)
LEMMA OwnInvKept ==
    ASSUME TypeOK, SinceInv, since \in 0..nextId, since' = since, [Next]_vars, Own!IInv
    PROVE  Own!IInv'
<1>1. [Own!Next]_(Own!vars)
  BY OwnStep
<1>2. Own!IInv /\ [Own!Next]_(Own!vars) => Own!IInv'
  BY OwnAssumptions, Own!InvStep
<1>. QED BY <1>1, <1>2

(* ... and holds of every server that begins.                              *)
LEMMA OwnInvBegins ==
    ASSUME TypeOK, SinceInv, NewServer, ~crashed
    PROVE  Own!IInv'
<1>1. OwnPool' = {}
  <2>1. nextId \in Nat /\ pool \subseteq Ids /\ since' = nextId /\ pool' = pool
    BY MaxRpcsAssumption DEF NewServer, TypeOK, PoolOK, poolVars
  <2>2. \A i \in pool : i \in Nat /\ i < nextId
    BY <2>1, MaxRpcsAssumption DEF SinceInv, Ids
  <2>. QED BY <2>1, <2>2 DEF OwnPool
<1>2. TypeOK'
  BY NewServerTyped
<1>3. Own!TypeOK'
  <2>1. OwnPool' \subseteq Ids /\ OwnMem' \in [Ids -> {"none", "live", "freed"}]
    BY <1>1, <1>2 DEF TypeOK, PoolOK, OwnMem
  <2>. QED BY <1>2, <2>1, OwnConstants
       DEF TypeOK, MainOK, ThreadsOK, PoolOK, RpcsOK, GrpcOK, FaultsOK, PcLabels, MainLabels,
           Own!TypeOK, Own!MainOK, Own!ThreadsOK, Own!PoolOK, Own!RpcsOK, Own!GrpcOK,
           Own!FaultsOK, Own!PcLabels, Own!MainLabels
<1>4. Own!TagInv'
  BY OwnConstants DEF NewServer, Own!TagInv, Own!ListeningTags, Own!QueuedTags, Own!HandTags,
     Own!PostTags, Own!Working, Own!Posting
<1>5. Own!StateInv'
  BY OwnConstants DEF NewServer, Own!StateInv, Own!EventMatchesState, Own!Executing
<1>6. Own!StartInv'
  BY <1>1, OwnConstants DEF NewServer, Own!StartInv
<1>7. Own!PoolInv'
  BY DEF NewServer, Own!PoolInv, Own!Calm, Own!Quiet, Own!BeforeStop, Own!SafeWhileServing,
     Own!PoolExact
<1>. QED BY <1>3, <1>4, <1>5, <1>6, <1>7 DEF Own!IInv

(* The first server begins with it, too.                                   *)
LEMMA OwnInvInit == SystemInit => Own!IInv
<1>1. SystemInit => Own!Init
  <2>. SUFFICES ASSUME SystemInit PROVE Own!Init
    OBVIOUS
  <2>1. OwnPool = {} /\ OwnMem = [i \in Ids |-> "none"]
    BY DEF SystemInit, Init, OwnPool, OwnMem
  <2>. QED BY <2>1, OwnConstants DEF SystemInit, Init, Own!Init, Own!NoEvent, NoEvent
<1>2. Own!Init => Own!TypeOK
  BY OwnAssumptions, Own!TypeInit
<1>3. Own!Init => Own!TagInv
  BY OwnAssumptions, Own!TagInit
<1>4. Own!Init => Own!StateInv
  BY OwnAssumptions, Own!StateInit
<1>5. Own!Init => Own!StartInv /\ Own!PoolInv
  BY OwnAssumptions, Own!PoolInit
<1>. QED BY <1>1, <1>2, <1>3, <1>4, <1>5 DEF Own!IInv

(* Who refers to an object does not depend on the pool.                    *)
LEMMA OwnHeld == \A i : Own!Held(i) <=> Held(i)
BY OwnConstants, OwnLooks
   DEF Own!Held, Held, Own!InQueue, InQueue, Own!InHand, InHand, Own!Working, Working

(* What the invariant of a round's server says of the whole.               *)
LEMMA OwnInvSays ==
    ASSUME Own!IInv
    PROVE  NewServerIsSafe /\ OwnShareExact
<1>1. Own!SafeWhileServing /\ Own!PoolExact
  BY DEF Own!IInv, Own!PoolInv
<1>2. Own!Quiet <=> Quiet
  BY DEF Own!Quiet, Quiet, Own!BeforeStop, BeforeStop
<1>3. {i \in Own!Ids : Own!Held(i)} = {i \in Ids : Held(i)}
  BY OwnConstants, OwnHeld
<1>. QED BY <1>1, <1>2, <1>3 DEF Own!SafeWhileServing, Own!PoolExact, NewServerIsSafe,
            OwnShareExact, OwnPool

(* The two promises to each round, with the invariant they come from.      *)
RoundSafe == (~crashed => Own!IInv) /\ NewServerIsSafe /\ OwnShareExact

(* Every step keeps the promises.                                          *)
LEMMA RoundSafeStep ==
    ASSUME SystemTypeOK, SinceInv, RoundSafe, [SystemNext]_systemVars
    PROVE  RoundSafe'
<1>0. TypeOK /\ since \in 0..nextId
  BY DEF SystemTypeOK
<1>1. CASE NewServer
  <2>1. ~crashed
    BY <1>1 DEF NewServer, Manager!Construct, SystemTypeOK
  <2>2. Own!IInv'
    BY <1>0, <1>1, <2>1, OwnInvBegins
  <2>3. NewServerIsSafe' /\ OwnShareExact'
    BY <1>1 DEF NewServer, NewServerIsSafe, OwnShareExact
  <2>. QED BY <2>2, <2>3 DEF RoundSafe
<1>2. CASE Collapse
  <2>1. crashed' /\ UNCHANGED <<pc, got, fresh, listening, events, pool, since, carried, faults,
                                main, bound>> /\ faults \cup carried # {}
    BY <1>2 DEF Collapse, Aside, history, mainVars, threadVars, poolVars, grpcVars
  <2>2. NewServerIsSafe'
    BY <2>1 DEF RoundSafe, NewServerIsSafe, Quiet, BeforeStop
  <2>3. OwnShareExact'
    BY <2>1 DEF RoundSafe, OwnShareExact, Quiet, BeforeStop, Held, InQueue, InHand, HeldLocally,
       Working, Posting
  <2>. QED BY <2>1, <2>2, <2>3 DEF RoundSafe
<1>3. CASE [Next]_vars /\ UNCHANGED history
  <2>1. since' = since /\ carried' = carried
    BY <1>3 DEF history
  <2>2. CASE crashed
    <3>1. UNCHANGED vars
      BY <1>3, <2>2, DeadStands
    <3>2. NewServerIsSafe' /\ OwnShareExact' /\ crashed'
      BY <2>1, <2>2, <3>1 DEF vars, RoundSafe, NewServerIsSafe, OwnShareExact, Quiet, BeforeStop,
         Held, InQueue, InHand, HeldLocally, Working, Posting
    <3>. QED BY <3>2 DEF RoundSafe
  <2>3. CASE ~crashed
    <3>1. Own!IInv'
      BY <1>0, <1>3, <2>1, <2>3, OwnInvKept DEF RoundSafe
    <3>2. NewServerIsSafe' /\ OwnShareExact'
      BY <3>1, OwnInvSays, PTL
    <3>. QED BY <3>1, <3>2 DEF RoundSafe
  <2>. QED BY <2>2, <2>3
<1>4. NewServer \/ Collapse \/ UNCHANGED history
  BY DEF SystemNext, systemVars, ProcessOnly, StartServer, Spawning, Stopping, StopReturns,
         Threads, Clients, Idle, Aside, history
<1>. QED BY <1>1, <1>2, <1>3, <1>4, ServerStep

(* So they hold in every round.                                            *)
LEMMA RoundsSafe == SystemSpec => []RoundSafe
<1>1. SystemInit => RoundSafe
  BY OwnInvInit, OwnInvSays DEF RoundSafe
<1>2. SystemTypeOK /\ SinceInv /\ RoundSafe /\ [SystemNext]_systemVars => RoundSafe'
  BY RoundSafeStep
<1>. QED BY <1>1, <1>2, SystemTyped, RoundsKeepApart, PTL DEF SystemSpec

(* In every round, until stop() begins and while the map is not raced: the *)
(* server uses nothing after it was freed and aborts nowhere, whatever its *)
(* predecessors left in the pool.                                          *)
THEOREM EveryServerIsSafe == SystemSpec => []NewServerIsSafe
<1>1. RoundSafe => NewServerIsSafe
  BY DEF RoundSafe
<1>. QED BY <1>1, RoundsSafe, PTL

(* And of the objects made in its round, the pool holds exactly those that *)
(* gRPC or a thread refers to.                                             *)
THEOREM EveryShareIsExact == SystemSpec => []OwnShareExact
<1>1. RoundSafe => OwnShareExact
  BY DEF RoundSafe
<1>. QED BY <1>1, RoundsSafe, PTL

-----------------------------------------------------------------------------
(* What needs no pool holds in every round.                                *)

(* A server begins when its predecessor's stop() has returned, so that no  *)
(* call waits for an answer any more.                                      *)
LEMMA NewServerLife ==
    ASSUME TypeOK, LifeInv, NewServer, ~crashed
    PROVE  LifeInv'
<1>1. /\ main = "stopped" /\ main' = "starting" /\ ~bound' /\ ~srvDown' /\ shut' = {}
      /\ \A q \in Queues : pc'[q] = "off" /\ booted'[q] = 0
      /\ listening' = {} /\ events' = {}
      /\ UNCHANGED <<nextId, home, method, serves, call>>
  BY DEF NewServer, poolVars, rpcVars
<1>2. srvDown /\ \A c \in Calls : call[c] \notin {"open", "sent"}
  BY <1>1 DEF LifeInv, CloseInv, Closing, WaitInv, Serving
<1>3. CallInv'
  BY <1>1 DEF LifeInv, CallInv, Executing
<1>4. CloseInv'
  BY <1>1 DEF CloseInv, BeforeStop, Closing
<1>5. ChainInv'
  BY <1>1, BootListTyped DEF ChainInv, Serving, BootList
<1>6. ServeInv'
  BY <1>1 DEF LifeInv, ServeInv, BootList
<1>7. WaitInv'
  BY <1>1, <1>2 DEF WaitInv, Service!Remembered
<1>. QED BY <1>3, <1>4, <1>5, <1>6, <1>7 DEF LifeInv

(* The end of the process disturbs none of it.                             *)
LEMMA CollapseLife ==
    ASSUME LifeInv, Collapse
    PROVE  LifeInv'
<1>1. /\ UNCHANGED <<main, bound, srvDown, shut, earlyStop, pc, booted, got, fresh, nextId, rpcState,
                     home, method, serves, listening, events, call>>
      /\ crashed'
  BY DEF Collapse, mainVars, threadVars, poolVars, rpcVars, grpcVars
<1>2. CallInv'
  BY <1>1 DEF LifeInv, CallInv, Executing, Fresh, Unanswered
<1>3. CloseInv'
  BY <1>1 DEF LifeInv, CloseInv, BeforeStop, Closing
<1>4. ChainInv'
  BY <1>1 DEF LifeInv, ChainInv, BootList
<1>5. ServeInv'
  BY <1>1 DEF LifeInv, ServeInv, BootList
<1>6. WaitInv'
  <2>1. Accepted' = Accepted /\ Busy' = Busy
    BY <1>1 DEF Accepted, Busy, Matched, Executing, Fresh
  <2>. QED BY <1>1, <2>1 DEF LifeInv, WaitInv, Service!Remembered, Serving, BootList
<1>. QED BY <1>2, <1>3, <1>4, <1>5, <1>6 DEF LifeInv

(* So every step keeps it.                                                 *)
LEMMA RoundsKeepLife == SystemSpec => []LifeInv
<1>1. SystemInit => LifeInv
  BY LifeInit DEF SystemInit
<1>2. SystemTypeOK /\ TagInv /\ StateInv /\ LifeInv /\ [SystemNext]_systemVars => LifeInv'
  <2>. SUFFICES ASSUME SystemTypeOK, TagInv, StateInv, LifeInv, [SystemNext]_systemVars
                PROVE  LifeInv'
    OBVIOUS
  <2>0. TypeOK
    BY DEF SystemTypeOK
  <2>1. NewServer => ~crashed
    BY DEF NewServer, Manager!Construct, SystemTypeOK
  <2>. QED BY <2>0, <2>1, ServerStep, LifeStep, NewServerLife, CollapseLife
<1>. QED BY <1>1, <1>2, SystemTyped, RoundsKeepTags, PTL DEF SystemSpec

(* In every round: a method a thread of the server has posted has exactly  *)
(* one object that listens for its calls, or is about to replace one,      *)
(* whatever earlier servers left in the pool.                              *)
THEOREM RoundsStayPosted == SystemSpec => []ListenerChain
<1>1. LifeInv => ChainInv
  BY DEF LifeInv
<1>. QED BY <1>1, ChainListens, RoundsKeepLife, ServerTyped, PTL

(* In every round, while the process lives: no call, no Shutdown() and no  *)
(* join waits for what nobody can still do.                                *)
THEOREM RoundsDoNotDeadlock == SystemSpec => []NobodyWaitsInVain
BY WaitsSay, RoundsKeepLife, RoundsKeepTags, ServerTyped, PTL

(* When stop() has returned, nothing of its server is referred to any      *)
(* more: the threads have ended, which they do on queues that are shut     *)
(* down and empty, and a server that is down posts nothing.                *)
THEOREM StopLeavesNothing == SystemSpec => []NothingOutlivesStop
<1>1. TypeOK /\ RoundInv /\ LifeInv => NothingOutlivesStop
  <2>. SUFFICES ASSUME TypeOK, RoundInv, LifeInv, main = "stopped", ~crashed, NEW i \in Ids
                PROVE  ~Held(i)
    BY DEF NothingOutlivesStop
  <2>1. \A q \in Queues : pc[q] = "done" /\ \A e \in events : home[e.tag] # q
    BY DEF RoundInv, LifeInv, ServeInv
  <2>2. events = {}
    BY <2>1 DEF TypeOK, RpcsOK, GrpcOK, Event
  <2>3. listening = {}
    BY DEF LifeInv, CloseInv, Closing, WaitInv
  <2>. QED BY <2>1, <2>2, <2>3 DEF Held, InQueue, InHand, Working, HeldLocally, Posting
<1>. QED BY <1>1, RoundsKeepLife, RoundsFit, ServerTyped, PTL

-----------------------------------------------------------------------------
(* What release() frees.                                                   *)

(* From release() on, the pool holds only what was made since.             *)
Released == main \in {"shutdown", "quiesce", "closing", "draining", "joining", "stopped"}
LeftInv == Released /\ ~crashed /\ "data_race" \notin faults => \A i \in pool : i >= since

(* An insertion is of this round; release() empties the pool or races.     *)
LEMMA LeftStep ==
    ASSUME TypeOK, since \in 0..nextId, since' = since, LeftInv, [Next]_vars
    PROVE  LeftInv'
<1>. USE DEF LeftInv, Released
<1>1. ASSUME UNCHANGED <<pool, main>>, faults \subseteq faults', crashed => crashed'
      PROVE  LeftInv'
  BY <1>1
<1>2. ASSUME NEW q \in Queues, ThreadStep(q) PROVE LeftInv'
  <2>1. main' = main /\ ~crashed /\ faults \subseteq faults'
    BY <1>2, ThreadIsOn DEF mainVars, ThreadStep, BootCreate, BootPost, NextEvent, NextEnd, Dispatch,
       Respawn, RespawnPost, PostRequest, Process, Write, MarkFinish, Remove
  <2>2. \A i \in pool' : i \in pool \/ (i = nextId /\ nextId >= since)
    <3>1. CASE BootCreate(q) \/ Respawn(q)
      BY <3>1, MaxRpcsAssumption DEF BootCreate, Respawn, Insert, TypeOK, PoolOK
    <3>2. CASE Remove(q)
      BY <3>2 DEF Remove, Erase
    <3>3. CASE ~BootCreate(q) /\ ~Respawn(q) /\ ~Remove(q)
      BY <1>2, <3>3 DEF ThreadStep, BootPost, NextEvent, NextEnd, Dispatch, RespawnPost, Process,
         Write, MarkFinish, poolVars
    <3>. QED BY <3>1, <3>2, <3>3
  <2>. QED BY <2>1, <2>2
<1>3. CASE Release
  BY <1>3 DEF Release, MainAt, RaceFault
<1>4. CASE \/ Start \/ (\E q \in Queues : Spawn(q)) \/ Stop \/ StopNotRunning
  BY <1>4 DEF Start, Spawn, Stop, StopNotRunning, MainAt
<1>5. CASE \/ ServerShutdown \/ ShutdownReturns \/ (\E q \in Queues : CloseQueue(q)) \/ DrainEnd \/ Join
  BY <1>5 DEF ServerShutdown, ShutdownReturns, CloseQueue, DrainEnd, Join, MainAt, poolVars
<1>6. CASE DrainEvent \/ Crash \/ UNCHANGED vars \/ \E c \in Calls : Send(c) \/ Match(c) \/ Lose(c)
  <2>1. UNCHANGED <<pool, main>> /\ faults \subseteq faults' /\ (crashed => crashed')
    BY <1>6 DEF DrainEvent, Crash, vars, Send, Match, Lose, mainVars, poolVars
  <2>. QED BY <1>1, <2>1
<1>. QED BY <1>2, <1>3, <1>4, <1>5, <1>6 DEF Next, Ended, MainStep

(* What earlier rounds left in the pool is gone when stop() returns: the   *)
(* pool does not grow from round to round, unless this round raced in it.  *)
THEOREM StopFreesLeftovers == SystemSpec => []LeftoversAreFreed
<1>1. SystemInit => LeftInv
  BY DEF SystemInit, Init, LeftInv, Released
<1>2. SystemTypeOK /\ LeftInv /\ [SystemNext]_systemVars => LeftInv'
  <2>. SUFFICES ASSUME SystemTypeOK, LeftInv, [SystemNext]_systemVars PROVE LeftInv'
    OBVIOUS
  <2>0. TypeOK /\ since \in 0..nextId
    BY DEF SystemTypeOK
  <2>1. CASE NewServer \/ Collapse
    BY <2>1 DEF NewServer, Collapse, LeftInv, Released
  <2>2. NewServer \/ Collapse \/ since' = since
    BY DEF SystemNext, systemVars, history, ProcessOnly, StartServer, Spawning, Stopping,
           StopReturns, Threads, Clients, Idle, Aside
  <2>. QED BY <2>0, <2>1, <2>2, ServerStep, LeftStep
<1>3. LeftInv => LeftoversAreFreed
  BY DEF LeftInv, Released, LeftoversAreFreed
<1>. QED BY <1>1, <1>2, <1>3, SystemTyped, PTL DEF SystemSpec

-----------------------------------------------------------------------------
(* Aborts, and the calls, in every round.                                  *)

(* In every round: the process is aborted on a queue that is shut down     *)
(* only if the stop() of this round came early, or a client went away      *)
(* whose call the server of this round had matched.                        *)
THEOREM RoundsAbortForCause == SystemSpec => []AbortHasOwnCause
<1>. DEFINE Inv == ("shut_queue_op" \in faults => crashed) /\ AbortHasOwnCause
<1>1. SystemInit => Inv
  BY DEF SystemInit, Init, AbortHasOwnCause
<1>2. SystemTypeOK /\ SinceInv /\ LifeInv /\ Inv /\ [SystemNext]_systemVars => Inv'
  <2>. SUFFICES ASSUME SystemTypeOK, SinceInv, LifeInv, Inv, [SystemNext]_systemVars PROVE Inv'
    OBVIOUS
  <2>0. TypeOK /\ CallInv /\ CloseInv
    BY DEF SystemTypeOK, LifeInv
  <2>1. CASE NewServer
    BY <2>1 DEF NewServer, AbortHasOwnCause
  <2>2. CASE Collapse
    BY <2>2 DEF Collapse, Aside, history, AbortHasOwnCause, mainVars, grpcVars
  <2>3. CASE [Next]_vars /\ since' = since
    <3>1. CASE crashed
      <4>1. UNCHANGED vars
        BY <2>3, <3>1, DeadStands
      <4>. QED BY <2>3, <4>1 DEF vars, AbortHasOwnCause
    <3>2. CASE ~crashed /\ "shut_queue_op" \in faults'
      <4>1. \A q \in Queues : Working(q) => got[q].tag >= since
        BY DEF SinceInv
      <4>. QED BY <2>0, <2>3, <3>2, <4>1, AbortMeets DEF AbortHasOwnCause
    <3>3. CASE "shut_queue_op" \notin faults'
      BY <3>3 DEF AbortHasOwnCause
    <3>. QED BY <3>1, <3>2, <3>3
  <2>4. NewServer \/ Collapse \/ since' = since
    BY DEF SystemNext, systemVars, history, ProcessOnly, StartServer, Spawning, Stopping,
           StopReturns, Threads, Clients, Idle, Aside
  <2>. QED BY <2>1, <2>2, <2>3, <2>4, ServerStep
<1>3. Inv => AbortHasOwnCause
  OBVIOUS
<1>. HIDE DEF Inv
<1>. QED BY <1>1, <1>2, <1>3, SystemTyped, RoundsKeepApart, RoundsKeepLife, PTL DEF SystemSpec

(* Over all rounds: a call is executed by one thread and answered once,    *)
(* and a call that waits for its answer is never forgotten, not even when  *)
(* its server is stopped and the next one begins.                          *)
THEOREM RoundsKeepTheirPlace == SystemSpec => [](Service!OnePlace /\ Service!Remembered)
<1>1. SystemInit => Service!OnePlace
  BY PromiseInit DEF SystemInit
<1>2. TypeOK /\ TagInv /\ StateInv /\ LifeInv /\ Service!OnePlace /\ [SystemNext]_systemVars
        => Service!OnePlace'
  <2>. SUFFICES ASSUME TypeOK, TagInv, StateInv, LifeInv, Service!OnePlace,
                       [SystemNext]_systemVars
                PROVE  Service!OnePlace'
    OBVIOUS
  <2>1. CASE NewServer
    <3>1. events' = {} /\ \A q \in Queues : pc'[q] = "off"
      BY <2>1 DEF NewServer
    <3>2. Accepted' = {} /\ \A q \in Queues : Busy'[q] = NoCall
      BY <3>1 DEF Accepted, Matched, Busy, Executing
    <3>. QED BY <3>2 DEF Service!OnePlace
  <2>2. CASE Collapse
    <3>1. UNCHANGED <<pc, got, serves, events, call>>
      BY <2>2 DEF Collapse, threadVars, grpcVars
    <3>2. Accepted' = Accepted /\ Busy' = Busy
      BY <3>1 DEF Accepted, Busy, Matched, Executing, Fresh
    <3>. QED BY <3>1, <3>2 DEF Service!OnePlace
  <2>3. CASE [Next]_vars
    BY <2>3, MapStep, OnePlaceStep DEF LifeInv, TypeOK, GrpcOK, Statuses
  <2>. QED BY <2>1, <2>2, <2>3, ServerStep
<1>3. LifeInv => Service!Remembered
  BY DEF LifeInv, WaitInv
<1>. QED BY <1>1, <1>2, <1>3, ServerTyped, RoundsKeepTags, RoundsKeepLife, PTL DEF SystemSpec

(* Over all rounds, with crashes and races: every step of the system is    *)
(* one of InferenceService, a stutter, or the service opening again when   *)
(* the next server takes over from one that has stopped.                   *)
THEOREM EveryRoundServes == SystemSpec => ServiceOverRounds
<1>1. SystemInit => Service!Init
  BY MapInit DEF SystemInit
<1>2. SystemTypeOK /\ TagInv /\ StateInv /\ LifeInv /\ RoundInv /\ [SystemNext]_systemVars
        => [Service!Next \/ Reopen]_(Service!svars)
  <2>. SUFFICES ASSUME SystemTypeOK, TagInv, StateInv, LifeInv, RoundInv,
                       [SystemNext]_systemVars
                PROVE  Service!Next \/ Reopen \/ UNCHANGED <<Phase, call, Accepted, Busy>>
    BY DEF Service!svars
  <2>0. TypeOK
    BY DEF SystemTypeOK
  <2>1. CASE NewServer
    <3>1. ~crashed /\ main = "stopped"
      BY <2>1 DEF NewServer, Manager!Construct, SystemTypeOK
    <3>2. \A q \in Queues : pc[q] = "done" /\ \A e \in events : home[e.tag] # q
      BY <3>1 DEF RoundInv, LifeInv, ServeInv
    <3>3. events = {}
      BY <2>0, <3>2 DEF TypeOK, RpcsOK, GrpcOK, Event
    <3>4. events' = {} /\ (\A q \in Queues : pc'[q] = "off") /\ ~bound' /\ call' = call
      BY <2>1 DEF NewServer
    <3>5. Accepted = {} /\ Busy = [q \in Queues |-> NoCall]
      BY <3>2, <3>3 DEF Accepted, Matched, Busy, Executing
    <3>6. Accepted' = {} /\ Busy' = [q \in Queues |-> NoCall]
      BY <3>4 DEF Accepted, Matched, Busy, Executing
    <3>7. Phase \in {"down", "stopped"} /\ Phase' = "down"
      BY <3>1, <3>4 DEF Phase, LifeInv, CloseInv, Closing
    <3>. QED BY <3>4, <3>5, <3>6, <3>7 DEF Reopen
  <2>2. CASE Collapse
    <3>1. UNCHANGED <<mainVars, pc, got, serves, events, call>>
      BY <2>2 DEF Collapse, threadVars, grpcVars
    <3>2. Accepted' = Accepted /\ Busy' = Busy /\ Phase' = Phase
      BY <3>1 DEF Accepted, Busy, Matched, Executing, Fresh, Phase, mainVars
    <3>. QED BY <3>1, <3>2
  <2>3. CASE [Next]_vars
    BY <2>0, <2>3, MapStep DEF LifeInv
  <2>. QED BY <2>1, <2>2, <2>3, ServerStep
<1>. QED BY <1>1, <1>2, SystemTyped, RoundsKeepTags, RoundsKeepLife, RoundsFit, PTL
         DEF SystemSpec, ServiceOverRounds
=============================================================================
