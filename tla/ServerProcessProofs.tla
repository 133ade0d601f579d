------------------------ MODULE ServerProcessProofs -------------------------
(* What holds of the server process however many signals it is sent.       *)
EXTENDS ServerProcess, TLAPS

(* A flag has a value, given or by default.                                *)
LEMMA ValueTyped ==
    ASSUME NEW line, NEW f \in Flags
    PROVE  Value(line, f) \in BOOLEAN
<1>1. /\ Default["restart"] \in BOOLEAN
      /\ Default["console"] \in BOOLEAN
      /\ Default["file"] \in BOOLEAN
      /\ Default["http"] \in BOOLEAN
      /\ Default["grpc"] \in BOOLEAN
  BY DEF Default
<1>2. Default[f] \in BOOLEAN
  BY <1>1 DEF Flags
<1> QED BY <1>2 DEF Value

LEMMA ParsedTyped ==
    ASSUME Parse
    PROVE  restart' \in BOOLEAN /\ fileOn' \in BOOLEAN /\ grpcOn' \in BOOLEAN /\ httpOn' \in BOOLEAN
<1>1. PICK line \in CommandLines :
        /\ restart' = Value(line, "restart") /\ fileOn' = Value(line, "file")
        /\ grpcOn' = Value(line, "grpc") /\ httpOn' = Value(line, "http")
  BY DEF Parse
<1>2. "restart" \in Flags /\ "file" \in Flags /\ "grpc" \in Flags /\ "http" \in Flags
  BY DEF Flags
<1> QED BY <1>1, <1>2, ValueTyped

(* ServerProcess: the types, and no server that the configuration did not  *)
(* enable.                                                                 *)
THEOREM ProcessTyped == Spec => []TypeOK
<1>1. Init => TypeOK
  <2>1. 0 \in 0..MaxSignals /\ 0 \in Nat
    BY SignalsAssumption
  <2>2. /\ Default.restart \in BOOLEAN /\ Default.file \in BOOLEAN
        /\ Default.grpc \in BOOLEAN /\ Default.http \in BOOLEAN
    BY DEF Default
  <2> QED BY <2>1, <2>2, Zenon DEF Init, TypeOK
<1>2. TypeOK /\ [Next]_vars => TypeOK'
  <2> SUFFICES ASSUME TypeOK, [Next]_vars PROVE TypeOK'
    OBVIOUS
  <2> USE SignalsAssumption DEF TypeOK, config
  <2>1. CASE Install
    BY <2>1 DEF Install
  <2>2. CASE Parse
    <3>1. restart' \in BOOLEAN /\ fileOn' \in BOOLEAN /\ grpcOn' \in BOOLEAN /\ httpOn' \in BOOLEAN
      BY <2>2, ParsedTyped
    <3> QED BY <2>2, <3>1 DEF Parse
  <2>3. CASE Refuse
    BY <2>3 DEF Refuse
  <2>4. CASE Construct
    BY <2>4 DEF Construct
  <2>5. CASE StartGrpc
    BY <2>5 DEF StartGrpc
  <2>6. CASE StartHttp
    BY <2>6 DEF StartHttp
  <2>7. CASE LoopExit
    BY <2>7 DEF LoopExit
  <2>8. CASE Reset
    BY <2>8 DEF Reset
  <2>9. CASE StopGrpc
    BY <2>9 DEF StopGrpc
  <2>10. CASE StopHttp
    BY <2>10 DEF StopHttp
  <2>11. CASE Booted
    BY <2>11 DEF Booted
  <2>12. CASE Signal
    <3>1. raised' \in 0..MaxSignals
      BY <2>12 DEF Signal
    <3> QED BY <2>12, <3>1, ZenonT(30) DEF Signal
  <2>13. CASE Others
    BY <2>13 DEF Others
  <2>14. CASE UNCHANGED vars
    BY <2>14 DEF vars
  <2>15. CASE SetupLoggers
    BY <2>15 DEF SetupLoggers
  <2>16. CASE Die
    BY <2>16 DEF Die, Ended
  <2> QED
    BY <2>1, <2>2, <2>3, <2>4, <2>5, <2>6, <2>7, <2>8, <2>9, <2>10, <2>11, <2>12, <2>13, <2>14,
       <2>15, <2>16
    DEF Next, MainStep, Tick
<1> QED BY <1>1, <1>2, PTL DEF Spec

(* The budget of signals is kept by every step.                            *)
THEOREM BudgetKept == Spec => []SignalBudget
<1>1. Init => SignalBudget
  BY DEF Init, SignalBudget, Pending
<1>2. TypeOK /\ SignalBudget /\ [Next]_vars => SignalBudget'
  <2> SUFFICES ASSUME TypeOK, SignalBudget, [Next]_vars PROVE SignalBudget'
    OBVIOUS
  <2>0. starts \in Nat /\ raised \in Nat /\ signal \in BOOLEAN
    BY SignalsAssumption DEF TypeOK
  <2> USE <2>0 DEF SignalBudget, Pending, config
  <2>1. CASE Install
    BY <2>1 DEF Install
  <2>2. CASE Parse
    BY <2>2 DEF Parse
  <2>3. CASE Refuse
    BY <2>3 DEF Refuse
  <2>4. CASE Construct
    BY <2>4 DEF Construct
  <2>5. CASE StartGrpc
    BY <2>5 DEF StartGrpc
  <2>6. CASE StartHttp
    BY <2>6 DEF StartHttp
  <2>7. CASE LoopExit
    BY <2>7 DEF LoopExit
  <2>8. CASE Reset
    BY <2>8 DEF Reset
  <2>9. CASE StopGrpc
    BY <2>9 DEF StopGrpc
  <2>10. CASE StopHttp
    BY <2>10 DEF StopHttp
  <2>11. CASE Booted
    BY <2>11 DEF Booted, Ended
  <2>12. CASE Signal
    BY <2>12 DEF Signal, Ended
  <2>13. CASE Others
    BY <2>13 DEF Others, Ended
  <2>14. CASE UNCHANGED vars
    BY <2>14 DEF vars
  <2>15. CASE SetupLoggers
    BY <2>15 DEF SetupLoggers
  <2>16. CASE Die
    BY <2>16 DEF Die, Ended, TypeOK
  <2> QED
    BY <2>1, <2>2, <2>3, <2>4, <2>5, <2>6, <2>7, <2>8, <2>9, <2>10, <2>11, <2>12, <2>13, <2>14,
       <2>15, <2>16
    DEF Next, MainStep, Tick
<1> QED BY <1>1, <1>2, ProcessTyped, PTL DEF Spec

(* ServerProcess: every start after the first was asked for by a signal of *)
(* its own, whatever the moment the signals come.                          *)
THEOREM RestartsAreAskedFor == Spec => []NoSpuriousRestart
<1>1. TypeOK /\ SignalBudget => NoSpuriousRestart
  BY SignalsAssumption DEF TypeOK, SignalBudget, NoSpuriousRestart, Pending
<1> QED BY <1>1, ProcessTyped, BudgetKept, PTL

(* ServerProcess: a server that starts never finds the port held by the    *)
(* one before it, and main() leaves none behind.                           *)
THEOREM PortIsHandedOver == Spec => []PortHandedOver
<1> DEFINE Inv == /\ PortHandedOver
                  /\ at \in {"install", "parse", "loggers"} => grpc = "none"
                  /\ at \in {"construct", "start_grpc", "stop_http", "exited", "dead"}
                       => grpc \in {"none", "failed", "stopped"}
<1>1. Init => Inv
  BY DEF Init, PortHandedOver
<1>2. TypeOK /\ Inv /\ [Next]_vars => Inv'
  <2> SUFFICES ASSUME TypeOK, Inv, [Next]_vars PROVE Inv'
    OBVIOUS
  <2> USE DEF PortHandedOver, config
  <2>1. CASE Install
    BY <2>1 DEF Install
  <2>2. CASE Parse
    BY <2>2 DEF Parse
  <2>3. CASE Refuse
    BY <2>3 DEF Refuse
  <2>4. CASE Construct
    BY <2>4 DEF Construct
  <2>5. CASE StartGrpc
    BY <2>5 DEF StartGrpc, TypeOK
  <2>6. CASE StartHttp
    BY <2>6 DEF StartHttp
  <2>7. CASE LoopExit
    BY <2>7 DEF LoopExit
  <2>8. CASE Reset
    BY <2>8 DEF Reset
  <2>9. CASE StopGrpc
    BY <2>9 DEF StopGrpc, TypeOK
  <2>10. CASE StopHttp
    BY <2>10 DEF StopHttp
  <2>11. CASE Booted
    BY <2>11 DEF Booted, Ended
  <2>12. CASE Signal
    BY <2>12 DEF Signal, Ended
  <2>13. CASE Others
    BY <2>13 DEF Others
  <2>14. CASE UNCHANGED vars
    BY <2>14 DEF vars
  <2>15. CASE SetupLoggers
    BY <2>15 DEF SetupLoggers
  <2>16. CASE Die
    BY <2>16 DEF Die, Ended
  <2> QED
    BY <2>1, <2>2, <2>3, <2>4, <2>5, <2>6, <2>7, <2>8, <2>9, <2>10, <2>11, <2>12, <2>13, <2>14,
       <2>15, <2>16
    DEF Next, MainStep, Tick
<1>3. Inv => PortHandedOver
  OBVIOUS
<1> QED BY <1>1, <1>2, <1>3, ProcessTyped, PTL DEF Spec

(* ServerProcess: without --restart_server no signal is ever lost, neither *)
(* one that comes before the configuration is known nor one that comes     *)
(* between the reading of the flag and its clearing.  That the process     *)
(* then ends, under fairness, is SignalEndsProcess, which TLC checks.      *)
THEOREM SignalsAreNotLost == Spec => []SignalNotLost
<1> DEFINE Inv == /\ SignalNotLost
                  /\ at = "install" => raised = 0
                  /\ at \in {"parse", "loggers"} /\ raised > 0 => signal
<1>1. Init => Inv
  BY DEF Init, SignalNotLost, Configured
<1>2. TypeOK /\ SignalBudget /\ Inv /\ [Next]_vars => Inv'
  <2> SUFFICES ASSUME TypeOK, SignalBudget, Inv, [Next]_vars PROVE Inv'
    OBVIOUS
  <2> USE DEF SignalNotLost, Configured, config
  <2>1. CASE Install
    BY <2>1 DEF Install
  <2>2. CASE Parse \/ Refuse
    BY <2>2 DEF Parse, Refuse
  <2>3. CASE SetupLoggers \/ Construct
    BY <2>3 DEF SetupLoggers, Construct
  <2>4. CASE StartGrpc \/ StartHttp
    BY <2>4 DEF StartGrpc, StartHttp
  <2>5. CASE LoopExit \/ Reset
    BY <2>5 DEF LoopExit, Reset
  <2>6. CASE StopGrpc
    BY <2>6 DEF StopGrpc
  <2>7. CASE StopHttp
    BY <2>7 DEF StopHttp
  <2>8. CASE Signal
    BY <2>8 DEF Signal, Ended, TypeOK
  <2>9. CASE Booted \/ Others \/ Die \/ UNCHANGED vars
    BY <2>9 DEF Booted, Others, Die, Ended, vars
  <2> QED
    BY <2>1, <2>2, <2>3, <2>4, <2>5, <2>6, <2>7, <2>8, <2>9 DEF Next, MainStep, Tick
<1>3. Inv => SignalNotLost
  OBVIOUS
<1> QED BY <1>1, <1>2, <1>3, ProcessTyped, BudgetKept, PTL DEF Spec
=============================================================================
