-------------------------- MODULE GrpcServerProofs --------------------------
(* What holds of grpc_server for any number of inference queues, common    *)
(* methods, calls and request objects.                                     *)
EXTENDS GrpcServer, FiniteSetTheorems, TLAPS

(* The first requests of a queue are of methods the server has.            *)
LEMMA BootListTyped ==
    ASSUME NEW q \in Queues
    PROVE  /\ Len(BootList(q)) \in Nat \ {0}
           /\ \A k \in 1..Len(BootList(q)) : BootList(q)[k] \in Methods
<1>1. CASE q = CommonQueue
  BY <1>1, RpcsAssumption DEF BootList, CommonMethods, Methods
<1>2. CASE q # CommonQueue
  BY <1>2 DEF BootList, Methods
<1> QED BY <1>1, <1>2

(* The event no thread has taken is an event.                              *)
LEMMA IdsTyped == 0 \in Ids /\ NoEvent \in Event
BY MaxRpcsAssumption DEF Ids, NoEvent, Event

-----------------------------------------------------------------------------
(* Type correctness.                                                       *)

(* The initial state is typed.                                             *)
LEMMA TypeInit == Init => TypeOK
<1> SUFFICES ASSUME Init PROVE TypeOK
  OBVIOUS
<1>1. MainOK
  BY DEF Init, MainOK, MainLabels, Queues
<1>2. ThreadsOK
  BY IdsTyped, BootListTyped DEF Init, ThreadsOK, PcLabels
<1>3. PoolOK
  BY MaxRpcsAssumption DEF Init, PoolOK
<1>4. RpcsOK
  BY DEF Init, RpcsOK, Queues, Methods
<1>5. GrpcOK
  BY DEF Init, GrpcOK
<1>6. FaultsOK
  BY DEF Init, FaultsOK
<1> QED BY <1>1, <1>2, <1>3, <1>4, <1>5, <1>6 DEF TypeOK

(* Creating an object keeps the pool and the objects typed.                *)
LEMMA InsertTyped ==
    ASSUME TypeOK, NEW q \in Queues, NEW m \in Methods, Insert(q, m)
    PROVE  PoolOK' /\ RpcsOK' /\ fresh' \in [Queues -> Ids]
<1>1. nextId \in Ids /\ nextId' \in 0..MaxRpcs
  BY MaxRpcsAssumption DEF Insert, TypeOK, PoolOK, Ids
<1>2. PoolOK'
  BY <1>1 DEF Insert, TypeOK, PoolOK
<1>3. RpcsOK'
  BY <1>1 DEF Insert, TypeOK, RpcsOK
<1>4. fresh' \in [Queues -> Ids]
  BY <1>1 DEF Insert, TypeOK, ThreadsOK
<1> QED BY <1>2, <1>3, <1>4

(* Posting one keeps everything it changes typed.                          *)
LEMMA PostTyped ==
    ASSUME TypeOK, NEW q \in Queues, PostRequest(q)
    PROVE  /\ rpcState' \in [Ids -> {"CREATE", "PROCESS", "FINISH"}]
           /\ mem' \in [Ids -> {"none", "live", "freed"}]
           /\ listening' \subseteq Ids /\ events' \subseteq Event
           /\ FaultsOK'
<1> DEFINE i == fresh[q]
<1>1. i \in Ids
  BY DEF TypeOK, ThreadsOK
<1>2. [tag |-> i, kind |-> "request", ok |-> FALSE] \in Event
  BY <1>1 DEF Event
<1>3. rpcState' \in [Ids -> {"CREATE", "PROCESS", "FINISH"}]
  BY <1>1 DEF PostRequest, TypeOK, RpcsOK
<1>4. mem' \in [Ids -> {"none", "live", "freed"}]
  BY <1>1 DEF PostRequest, TypeOK, PoolOK
<1>5. listening' \subseteq Ids /\ events' \subseteq Event
  BY <1>1, <1>2 DEF PostRequest, TypeOK, GrpcOK
<1>6. FaultsOK'
  BY DEF PostRequest, TypeOK, FaultsOK, FaultNames
<1> QED BY <1>3, <1>4, <1>5, <1>6

(* The steps of a thread keep the types.                                   *)
LEMMA TypeThread ==
    ASSUME TypeOK, NEW q \in Queues, ThreadStep(q)
    PROVE  TypeOK'
<1> DEFINE i == got[q].tag
<1>0. /\ i \in Ids /\ got[q].ok \in BOOLEAN
      /\ Touch(i) \subseteq FaultNames
      /\ RaceFault(Racing(q)) \subseteq FaultNames
      /\ booted[q] \in Nat
  BY DEF TypeOK, ThreadsOK, Event, Touch, RaceFault, FaultNames
<1>1. CASE BootCreate(q)
  <2> DEFINE m == BootList(q)[booted[q] + 1]
  <2>1. booted[q] + 1 \in 1..Len(BootList(q))
    BY <1>0, <1>1, BootListTyped DEF BootCreate, At, TypeOK, ThreadsOK
  <2>2. m \in Methods /\ Insert(q, m)
    BY <1>1, <2>1, BootListTyped DEF BootCreate
  <2>3. PoolOK' /\ RpcsOK' /\ fresh' \in [Queues -> Ids]
    BY <2>2, InsertTyped
  <2>4. MainOK' /\ GrpcOK' /\ FaultsOK'
    BY <1>0, <1>1 DEF BootCreate, TypeOK, MainOK, GrpcOK, FaultsOK, mainVars, grpcVars
  <2>5. ThreadsOK'
    BY <1>1, <2>3 DEF BootCreate, At, Goto, TypeOK, ThreadsOK, PcLabels
  <2> QED BY <2>3, <2>4, <2>5 DEF TypeOK
<1>2. CASE BootPost(q)
  <2>1. PostRequest(q)
    BY <1>2 DEF BootPost
  <2>2. PoolOK' /\ RpcsOK' /\ GrpcOK' /\ FaultsOK'
    BY <1>2, <2>1, PostTyped DEF BootPost, TypeOK, PoolOK, RpcsOK, GrpcOK
  <2>3. MainOK'
    BY <1>2 DEF BootPost, TypeOK, MainOK, mainVars
  <2>4. ThreadsOK'
    BY <1>0, <1>2, BootListTyped DEF BootPost, At, Goto, TypeOK, ThreadsOK, PcLabels
  <2> QED BY <2>2, <2>3, <2>4 DEF TypeOK
<1>3. CASE NextEvent(q)
  <2>1. MainOK' /\ PoolOK' /\ RpcsOK' /\ GrpcOK' /\ FaultsOK'
    BY <1>3 DEF NextEvent, TypeOK, MainOK, PoolOK, RpcsOK, GrpcOK, FaultsOK,
                mainVars, poolVars, rpcVars
  <2>2. ThreadsOK'
    BY <1>3 DEF NextEvent, Goto, TypeOK, ThreadsOK, GrpcOK, PcLabels
  <2> QED BY <2>1, <2>2 DEF TypeOK
<1>4. CASE NextEnd(q)
  BY <1>4 DEF NextEnd, Goto, TypeOK, MainOK, ThreadsOK, PoolOK, RpcsOK, GrpcOK, FaultsOK,
              mainVars, poolVars, rpcVars, grpcVars, PcLabels
<1>5. CASE Dispatch(q)
  <2>1. MainOK' /\ PoolOK' /\ RpcsOK' /\ GrpcOK' /\ FaultsOK'
    BY <1>0, <1>5 DEF Dispatch, TypeOK, MainOK, PoolOK, RpcsOK, GrpcOK, FaultsOK,
                mainVars, poolVars, rpcVars, grpcVars
  <2>2. ThreadsOK'
    BY <1>5 DEF Dispatch, At, Goto, TypeOK, ThreadsOK, PcLabels
  <2> QED BY <2>1, <2>2 DEF TypeOK
<1>6. CASE Respawn(q)
  <2>1. method[i] \in Methods
    BY <1>0 DEF TypeOK, RpcsOK
  <2>2. PoolOK' /\ RpcsOK' /\ fresh' \in [Queues -> Ids]
    BY <1>6, <2>1, InsertTyped DEF Respawn
  <2>3. MainOK' /\ GrpcOK' /\ FaultsOK'
    BY <1>0, <1>6 DEF Respawn, TypeOK, MainOK, GrpcOK, FaultsOK, mainVars, grpcVars
  <2>4. ThreadsOK'
    BY <1>6, <2>2 DEF Respawn, Goto, TypeOK, ThreadsOK, PcLabels
  <2> QED BY <2>2, <2>3, <2>4 DEF TypeOK
<1>7. CASE RespawnPost(q)
  <2>1. PostRequest(q)
    BY <1>7 DEF RespawnPost
  <2>2. PoolOK' /\ RpcsOK' /\ GrpcOK' /\ FaultsOK'
    BY <1>7, <2>1, PostTyped DEF RespawnPost, TypeOK, PoolOK, RpcsOK, GrpcOK
  <2>3. MainOK' /\ ThreadsOK'
    BY <1>7 DEF RespawnPost, Goto, TypeOK, MainOK, ThreadsOK, mainVars, PcLabels
  <2> QED BY <2>2, <2>3 DEF TypeOK
<1>8. CASE Process(q)
  <2>1. MainOK' /\ PoolOK' /\ RpcsOK' /\ GrpcOK' /\ FaultsOK'
    BY <1>0, <1>8 DEF Process, TypeOK, MainOK, PoolOK, RpcsOK, GrpcOK, FaultsOK,
                mainVars, poolVars, rpcVars, grpcVars
  <2>2. ThreadsOK'
    BY <1>8 DEF Process, Goto, TypeOK, ThreadsOK, PcLabels
  <2> QED BY <2>1, <2>2 DEF TypeOK
<1>9. CASE Write(q)
  <2>1. [tag |-> i, kind |-> "finish", ok |-> call[serves[i]] = "open"] \in Event
    BY <1>0 DEF Event
  <2>2. events' \subseteq Event
    BY <1>9, <2>1 DEF Write, TypeOK, GrpcOK
  <2>3. GrpcOK'
    BY <1>9, <2>2 DEF Write, TypeOK, GrpcOK
  <2>4. MainOK' /\ PoolOK' /\ RpcsOK'
    BY <1>9 DEF Write, TypeOK, MainOK, PoolOK, RpcsOK, mainVars, poolVars, rpcVars
  <2>5. FaultsOK'
    <3>1. faults' \subseteq faults \cup Touch(i) \cup {"shut_queue_op"}
      BY <1>9 DEF Write
    <3>2. crashed' \in BOOLEAN
      BY <1>9 DEF Write
    <3> QED BY <1>0, <3>1, <3>2 DEF TypeOK, FaultsOK, FaultNames
  <2>6. ThreadsOK'
    BY <1>9 DEF Write, Goto, TypeOK, ThreadsOK, PcLabels
  <2> QED BY <2>3, <2>4, <2>5, <2>6 DEF TypeOK
<1>10. CASE MarkFinish(q)
  <2>1. MainOK' /\ PoolOK' /\ RpcsOK' /\ GrpcOK' /\ FaultsOK'
    BY <1>0, <1>10 DEF MarkFinish, TypeOK, MainOK, PoolOK, RpcsOK, GrpcOK, FaultsOK,
                mainVars, poolVars, grpcVars
  <2>2. ThreadsOK'
    BY <1>10 DEF MarkFinish, Goto, TypeOK, ThreadsOK, PcLabels
  <2> QED BY <2>1, <2>2 DEF TypeOK
<1>11. CASE Remove(q)
  <2>1. PoolOK'
    BY <1>0, <1>11 DEF Remove, Erase, TypeOK, PoolOK
  <2>2. MainOK' /\ RpcsOK' /\ GrpcOK' /\ FaultsOK'
    BY <1>0, <1>11 DEF Remove, TypeOK, MainOK, RpcsOK, GrpcOK, FaultsOK,
                mainVars, rpcVars, grpcVars
  <2>3. ThreadsOK'
    BY <1>11 DEF Remove, Goto, TypeOK, ThreadsOK, PcLabels
  <2> QED BY <2>1, <2>2, <2>3 DEF TypeOK
<1> QED BY <1>1, <1>2, <1>3, <1>4, <1>5, <1>6, <1>7, <1>8, <1>9, <1>10, <1>11 DEF ThreadStep

(* So do those of the thread that starts and stops the server.             *)
LEMMA TypeMain ==
    ASSUME TypeOK, MainStep \/ Stop \/ StopNotRunning
    PROVE  TypeOK'
<1> USE DEF MainAt
<1>1. CASE Start
  BY <1>1 DEF Start, TypeOK, MainOK, ThreadsOK, PoolOK, RpcsOK, GrpcOK, FaultsOK, MainLabels,
              threadVars, poolVars, rpcVars, grpcVars
<1>2. ASSUME NEW q \in Queues, Spawn(q) PROVE TypeOK'
  <2>1. MainOK' /\ PoolOK' /\ RpcsOK' /\ GrpcOK' /\ FaultsOK'
    BY <1>2 DEF Spawn, TypeOK, MainOK, PoolOK, RpcsOK, GrpcOK, FaultsOK, MainLabels,
                poolVars, rpcVars, grpcVars
  <2>2. ThreadsOK'
    BY <1>2, BootListTyped DEF Spawn, Goto, TypeOK, ThreadsOK, PcLabels
  <2> QED BY <2>1, <2>2 DEF TypeOK
<1>3. CASE Stop
  <2>1. MainOK'
    BY <1>3 DEF Stop, TypeOK, MainOK, MainLabels
  <2> QED BY <1>3, <2>1 DEF Stop, TypeOK, ThreadsOK, PoolOK, RpcsOK, GrpcOK, FaultsOK,
                            threadVars, poolVars, rpcVars, grpcVars
<1>4. CASE StopNotRunning
  BY <1>4 DEF StopNotRunning, TypeOK, MainOK, ThreadsOK, PoolOK, RpcsOK, GrpcOK, FaultsOK,
              MainLabels, FaultNames, threadVars, poolVars, rpcVars, grpcVars
<1>5. CASE Release
  <2>1. PoolOK'
    BY <1>5 DEF Release, TypeOK, PoolOK
  <2>2. FaultsOK'
    BY <1>5 DEF Release, TypeOK, FaultsOK, FaultNames, RaceFault
  <2> QED BY <1>5, <2>1, <2>2 DEF Release, TypeOK, MainOK, ThreadsOK, RpcsOK, GrpcOK, MainLabels,
                                  threadVars, rpcVars, grpcVars
<1>6. CASE ServerShutdown
  <2>1. \A j \in listening : [tag |-> j, kind |-> "request", ok |-> FALSE] \in Event
    BY DEF TypeOK, GrpcOK, Event
  <2>2. events' \subseteq Event /\ listening' \subseteq Ids
    BY <1>6, <2>1 DEF ServerShutdown, TypeOK, GrpcOK
  <2>3. GrpcOK'
    BY <1>6, <2>2 DEF ServerShutdown, TypeOK, GrpcOK
  <2>4. MainOK' /\ ThreadsOK' /\ PoolOK' /\ RpcsOK' /\ FaultsOK'
    BY <1>6 DEF ServerShutdown, TypeOK, MainOK, ThreadsOK, PoolOK, RpcsOK, FaultsOK,
                MainLabels, threadVars, poolVars, rpcVars
  <2> QED BY <2>3, <2>4 DEF TypeOK
<1>7. ASSUME ShutdownReturns \/ (\E q \in Queues : CloseQueue(q)) \/ DrainEvent
             \/ DrainEnd \/ Join
      PROVE  TypeOK'
  BY <1>7 DEF ShutdownReturns, CloseQueue, DrainEvent, DrainEnd, Join, TypeOK, MainOK, ThreadsOK,
              PoolOK, RpcsOK, GrpcOK, FaultsOK, MainLabels,
              mainVars, threadVars, poolVars, rpcVars, grpcVars
<1> QED BY <1>1, <1>2, <1>3, <1>4, <1>5, <1>6, <1>7 DEF MainStep

(* So do those of the clients, of gRPC, and the end of the process.        *)
LEMMA TypeWorld ==
    ASSUME TypeOK, NEW c \in Calls, Send(c) \/ Match(c) \/ Lose(c)
    PROVE  TypeOK'
<1>1. CASE Match(c)
  <2>1. \A j \in listening : [tag |-> j, kind |-> "request", ok |-> TRUE] \in Event
    BY DEF TypeOK, GrpcOK, Event
  <2>2. GrpcOK'
    BY <1>1, <2>1 DEF Match, TypeOK, GrpcOK
  <2> QED BY <1>1, <2>2 DEF Match, TypeOK, MainOK, ThreadsOK, PoolOK, RpcsOK, FaultsOK,
                            mainVars, threadVars, poolVars, rpcVars
<1>2. CASE Send(c) \/ Lose(c)
  BY <1>2 DEF Send, Lose, TypeOK, MainOK, ThreadsOK, PoolOK, RpcsOK, GrpcOK, FaultsOK,
              mainVars, threadVars, poolVars, rpcVars
<1> QED BY <1>1, <1>2

(* A crash, or no step, leaves the types alone.                            *)
LEMMA TypeStutter == TypeOK /\ (Crash \/ UNCHANGED vars) => TypeOK'
<1>1. ASSUME TypeOK, Crash PROVE TypeOK'
  BY <1>1 DEF Crash, TypeOK, MainOK, ThreadsOK, PoolOK, RpcsOK, GrpcOK, FaultsOK,
              mainVars, threadVars, poolVars, rpcVars, grpcVars
<1>2. ASSUME TypeOK, UNCHANGED vars PROVE TypeOK'
  BY <1>2 DEF vars, TypeOK, MainOK, ThreadsOK, PoolOK, RpcsOK, GrpcOK, FaultsOK
<1> QED BY <1>1, <1>2

(* Every step keeps the types.                                             *)
LEMMA TypeStep == TypeOK /\ [Next]_vars => TypeOK'
BY TypeThread, TypeMain, TypeWorld, TypeStutter DEF Next, Ended

(* The type invariant of GrpcServer holds in every reachable state: no     *)
(* thread leaves its loop, no id the range of the counter, and a thread    *)
(* that is still creating its first objects has one left to create.        *)
THEOREM TypeCorrect == Spec => []TypeOK
BY TypeInit, TypeStep, PTL DEF Spec

-----------------------------------------------------------------------------
(* A tag is in one place.                                                  *)

(* At first no tag is anywhere.                                            *)
LEMMA TagInit == Init => TagInv
BY DEF Init, TagInv, ListeningTags, QueuedTags, HandTags, PostTags, Working, Posting

(* Creating an object: its id is not in use anywhere.                      *)
LEMMA TagInsert ==
    ASSUME TypeOK, TagInv, NEW q \in Queues, NEW m, Insert(q, m),
           ~Posting(q),
           \/ pc[q] = "create" /\ pc' = [pc EXCEPT ![q] = "post"]
           \/ pc[q] = "respawn" /\ pc' = [pc EXCEPT ![q] = "repost"],
           UNCHANGED <<got, listening, events>>
    PROVE  TagInv'
<1>1. nextId \in Ids /\ nextId' = nextId + 1 /\ nextId \in Int /\ \A j \in Ids : j \in Int
  BY MaxRpcsAssumption DEF Insert, TypeOK, PoolOK, Ids
<1>2. /\ listening \subseteq Ids /\ \A e \in events : e.tag \in Ids
      /\ \A r \in Queues : got[r].tag \in Ids /\ fresh[r] \in Ids
  BY DEF TypeOK, ThreadsOK, GrpcOK, Event
<1>3. \A j \in Ids : j < nextId => (HeldLocally(j)' => HeldLocally(j)) /\ home'[j] = home[j]
  BY <1>1 DEF Insert, TypeOK, ThreadsOK, RpcsOK, HeldLocally, Posting
<1>4. \A r \in Queues : (Working(r)' <=> Working(r)) /\ (pc'[r] = "mark" <=> pc[r] = "mark")
  BY DEF TypeOK, ThreadsOK, Working
<1>5. \A j : (InHand(j)' <=> InHand(j)) /\ (InQueue(j)' <=> InQueue(j))
  BY <1>4 DEF InHand, InQueue
<1>6. \A j \in Ids : j < nextId => j < nextId'
  BY <1>1
<1>7. ListeningTags'
  BY <1>2, <1>3, <1>5, <1>6 DEF TagInv, ListeningTags
<1>8. QueuedTags'
  BY <1>2, <1>3, <1>6 DEF TagInv, QueuedTags
<1>9. HandTags'
  BY <1>2, <1>3, <1>4, <1>6 DEF TagInv, HandTags
<1>10. PostTags'
  <2>1. fresh'[q] = nextId /\ home'[nextId] = q
    BY <1>1 DEF Insert, TypeOK, ThreadsOK, RpcsOK
  <2>2. \A r \in Queues \ {q} : fresh'[r] = fresh[r] /\ (Posting(r)' => Posting(r))
    BY DEF Insert, TypeOK, ThreadsOK, Posting
  <2>3. \A j \in Ids : j < nextId => home'[j] = home[j]
    BY <1>1 DEF Insert, TypeOK, RpcsOK
  <2>4. nextId < nextId'
    BY <1>1
  <2>5. \A r \in Queues \ {q} : Posting(r)' => fresh'[r] < nextId' /\ home'[fresh'[r]] = r
    BY <1>2, <1>6, <2>2, <2>3 DEF TagInv, PostTags
  <2> QED BY <2>1, <2>4, <2>5 DEF PostTags
<1> QED BY <1>7, <1>8, <1>9, <1>10 DEF TagInv

(* Posting it: the tag passes from the thread to gRPC.                     *)
LEMMA TagPost ==
    ASSUME TypeOK, TagInv, NEW q \in Queues, PostRequest(q),
           \/ pc[q] = "post" /\ \E l \in {"create", "next"} : pc' = [pc EXCEPT ![q] = l]
           \/ pc[q] = "repost" /\ pc' = [pc EXCEPT ![q] = "process"],
           UNCHANGED <<got, fresh, nextId, home>>
    PROVE  TagInv'
<1> USE DEF TypeOK, ThreadsOK, PoolOK, RpcsOK, GrpcOK, Event, TagInv
<1> DEFINE i == fresh[q]
<1>1. i \in Ids /\ i < nextId /\ home[i] = q /\ HeldLocally(i)
  BY DEF PostTags, Posting, HeldLocally
<1>2. \A r \in Queues : (Working(r) <=> Working(r)') /\ (pc[r] = "mark" <=> pc'[r] = "mark")
  BY DEF Working
<1>3. \A r \in Queues : Posting(r)' => Posting(r) /\ r # q
  BY DEF Posting
<1>4. ~HeldLocally(i)' /\ \A j : HeldLocally(j)' => HeldLocally(j)
  <2>1. \A r \in Queues : Posting(r) /\ fresh[r] = i => r = q
    BY <1>1 DEF PostTags
  <2> QED BY <1>3, <2>1 DEF HeldLocally
<1>5. listening' \subseteq listening \cup {i} /\ (i \in listening' => events' = events)
  BY <1>1 DEF PostRequest, ListeningTags
<1>6. events' \subseteq events \cup {[tag |-> i, kind |-> "request", ok |-> FALSE]}
  BY DEF PostRequest
<1>7. i \notin listening /\ ~InQueue(i) /\ ~InHand(i)
  BY <1>1 DEF ListeningTags, QueuedTags, HandTags, InQueue, InHand
<1>8. \A j : j # i => (InQueue(j)' => InQueue(j))
  BY <1>6, SMTT(20) DEF InQueue
<1>9. \A j : InHand(j)' <=> InHand(j)
  BY <1>2 DEF InHand
<1>10. ListeningTags'
  BY <1>1, <1>4, <1>5, <1>7, <1>8, <1>9 DEF ListeningTags, InQueue
<1>11. QueuedTags'
  <2> DEFINE new == [tag |-> i, kind |-> "request", ok |-> FALSE]
  <2>1. new.tag = i /\ \A e \in events' : e \in events \/ e = new
    BY <1>6
  <2>2. \A e \in events : e.tag # i
    BY <1>7 DEF InQueue
  <2> QED BY <1>1, <1>4, <2>1, <2>2 DEF QueuedTags
<1>12. HandTags'
  BY <1>1, <1>2, <1>4, <1>6, <1>7, SMTT(20) DEF HandTags, InHand
<1>13. PostTags'
  BY <1>3 DEF PostTags
<1> QED BY <1>10, <1>11, <1>12, <1>13

(* Steps that move no tag, or only let go of one.                          *)
LEMMA TagKept ==
    ASSUME TagInv, events' \subseteq events,
           UNCHANGED <<got, fresh, nextId, home, listening>>,
           \A q \in Queues : /\ Working(q)' => Working(q)
                             /\ Posting(q)' => Posting(q)
                             /\ Working(q)' /\ pc[q] = "mark" => pc'[q] = "mark"
    PROVE  TagInv'
<1>1. \A j : (InHand(j)' => InHand(j)) /\ (InQueue(j)' => InQueue(j))
             /\ (HeldLocally(j)' => HeldLocally(j))
  BY DEF InHand, InQueue, HeldLocally
<1>2. ListeningTags'
  BY <1>1 DEF TagInv, ListeningTags
<1>3. QueuedTags'
  BY <1>1 DEF TagInv, QueuedTags
<1>4. HandTags'
  BY <1>1 DEF TagInv, HandTags
<1>5. PostTags'
  BY DEF TagInv, PostTags
<1> QED BY <1>2, <1>3, <1>4, <1>5 DEF TagInv

(* Taking an event: its tag passes from the queue to the thread.           *)
LEMMA TagNextEvent ==
    ASSUME TypeOK, TagInv, NEW q \in Queues, NextEvent(q)
    PROVE  TagInv'
<1>1. PICK e \in events : /\ home[e.tag] = q
                          /\ got' = [got EXCEPT ![q] = e]
                          /\ events' = events \ {e}
  BY DEF NextEvent
<1>2. /\ pc[q] = "next" /\ pc' = [pc EXCEPT ![q] = "dispatch"]
      /\ UNCHANGED <<fresh, nextId, home, listening>>
  BY DEF NextEvent, At, Goto, poolVars, rpcVars
<1>3. /\ got'[q] = e /\ pc'[q] = "dispatch"
      /\ \A r \in Queues \ {q} : got'[r] = got[r] /\ pc'[r] = pc[r]
  BY <1>1, <1>2 DEF TypeOK, ThreadsOK
<1>4. /\ \A r \in Queues : Posting(r)' <=> Posting(r)
      /\ \A r \in Queues : Working(r)' <=> (r = q \/ Working(r))
  BY <1>2, <1>3 DEF Posting, Working
<1>5. /\ \A j : HeldLocally(j)' <=> HeldLocally(j)
      /\ \A j : InHand(j)' => InHand(j) \/ j = e.tag
      /\ \A j : InQueue(j)' => InQueue(j)
      /\ InQueue(e.tag)
  BY <1>1, <1>2, <1>3, <1>4 DEF HeldLocally, InHand, InQueue
<1>6. ListeningTags'
  BY <1>2, <1>5 DEF TagInv, ListeningTags
<1>7. QueuedTags'
  BY <1>1, <1>2, <1>5 DEF TagInv, QueuedTags
<1>8. HandTags'
  <2>1. /\ e.tag < nextId /\ ~HeldLocally(e.tag)
        /\ \A f \in events' : f \in events /\ f.tag # e.tag
    BY <1>1 DEF TagInv, QueuedTags
  <2>2. \A r \in Queues \ {q} : Working(r)' =>
          /\ got[r].tag < nextId /\ home[got[r].tag] = r /\ ~HeldLocally(got[r].tag)
          /\ \A f \in events' : got[r].tag = f.tag => pc[r] = "mark" /\ f.kind = "finish"
    BY <1>4, <2>1 DEF TagInv, HandTags
  <2>3. \A r \in Queues \ {q} : Working(r)' =>
          /\ got'[r].tag < nextId' /\ home'[got'[r].tag] = r /\ ~HeldLocally(got[r].tag)'
          /\ \A f \in events' : got'[r].tag = f.tag => pc'[r] = "mark" /\ f.kind = "finish"
    BY <1>2, <1>3, <1>5, <2>2
  <2>4. /\ got'[q].tag < nextId' /\ home'[got'[q].tag] = q /\ ~HeldLocally(got[q].tag)'
        /\ \A f \in events' : got'[q].tag # f.tag
    BY <1>1, <1>2, <1>3, <1>5, <2>1
  <2> QED BY <2>3, <2>4 DEF HandTags
<1>9. PostTags'
  BY <1>2, <1>4 DEF TagInv, PostTags
<1> QED BY <1>6, <1>7, <1>8, <1>9 DEF TagInv

(* Finish: its event may be there while the thread still has the tag.      *)
LEMMA TagWrite ==
    ASSUME TypeOK, TagInv, NEW q \in Queues, Write(q)
    PROVE  TagInv'
<1> DEFINE i == got[q].tag
           new == [tag |-> i, kind |-> "finish", ok |-> call[serves[i]] = "open"]
<1>1. /\ pc[q] = "write" /\ pc' = [pc EXCEPT ![q] = "mark"]
      /\ UNCHANGED <<got, fresh, nextId, home, listening>>
  BY DEF Write, At, Goto, poolVars, rpcVars
<1>2. new.tag = i /\ new.kind = "finish" /\ \A e \in events' : e \in events \/ e = new
  BY DEF Write
<1>3. pc'[q] = "mark" /\ \A r \in Queues \ {q} : pc'[r] = pc[r]
  BY <1>1 DEF TypeOK, ThreadsOK
<1>4. /\ \A r \in Queues : Posting(r)' <=> Posting(r)
      /\ \A r \in Queues : Working(r)' <=> Working(r)
      /\ Working(q)
  BY <1>1, <1>3 DEF Posting, Working
<1>5. /\ \A j : HeldLocally(j)' <=> HeldLocally(j)
      /\ \A j : InHand(j)' <=> InHand(j)
      /\ \A j : j # i => (InQueue(j)' => InQueue(j))
      /\ InHand(i)
  BY <1>1, <1>2, <1>4 DEF HeldLocally, InHand, InQueue
<1>6. i < nextId /\ home[i] = q /\ ~HeldLocally(i) /\ \A e \in events : e.tag # i
  BY <1>1, <1>4 DEF TagInv, HandTags
<1>7. ListeningTags'
  BY <1>1, <1>5 DEF TagInv, ListeningTags
<1>8. QueuedTags'
  BY <1>1, <1>2, <1>5, <1>6 DEF TagInv, QueuedTags
<1>9. \A r \in Queues : Working(r) /\ got[r].tag = i => r = q
  BY <1>6 DEF TagInv, HandTags
<1>10. HandTags'
  BY <1>1, <1>2, <1>3, <1>4, <1>5, <1>9 DEF TagInv, HandTags
<1>11. PostTags'
  BY <1>1, <1>4 DEF TagInv, PostTags
<1> QED BY <1>7, <1>8, <1>10, <1>11 DEF TagInv

(* gRPC completes posted requests: their tags pass to the queues.          *)
LEMMA TagComplete ==
    ASSUME TypeOK, TagInv, NEW S \in SUBSET listening,
           listening' \subseteq listening \ S,
           NEW b \in BOOLEAN,
           events' = events \cup {[tag |-> i, kind |-> "request", ok |-> b] : i \in S},
           UNCHANGED <<pc, got, fresh, nextId, home>>
    PROVE  TagInv'
<1>1. \A e \in events' : \/ e \in events /\ e.tag \notin S
                         \/ /\ e.tag \in S /\ e.tag \in listening
                            /\ e = [tag |-> e.tag, kind |-> "request", ok |-> b]
  BY DEF TagInv, ListeningTags, InQueue
<1>2. \A e \in events' : e \in events \/ e.tag \in listening
  BY <1>1
<1>3. \A j : (InHand(j)' <=> InHand(j)) /\ (HeldLocally(j)' <=> HeldLocally(j))
  BY DEF InHand, Working, HeldLocally, Posting
<1>4. ListeningTags'
  <2>1. \A j \in listening' : ~InQueue(j)'
    BY <1>1 DEF InQueue, TagInv, ListeningTags
  <2> QED BY <1>3, <2>1 DEF TagInv, ListeningTags
<1>5. QueuedTags'
  <2>1. \A e \in events' : e.tag < nextId /\ ~HeldLocally(e.tag)
    BY <1>2 DEF TagInv, ListeningTags, QueuedTags
  <2>2. \A e, f \in events' : e.tag = f.tag => e = f
    BY <1>1 DEF TagInv, QueuedTags
  <2> QED BY <1>3, <2>1, <2>2 DEF QueuedTags
<1>6. HandTags'
  <2>1. \A q \in Queues : Working(q) => got[q].tag \notin listening
    BY DEF TagInv, ListeningTags, InHand
  <2>2. \A q \in Queues : Working(q)' <=> Working(q)
    BY DEF Working
  <2> QED BY <1>2, <1>3, <2>1, <2>2 DEF TagInv, HandTags
<1>7. PostTags'
  BY DEF TagInv, PostTags, Posting
<1> QED BY <1>4, <1>5, <1>6, <1>7 DEF TagInv

(* Every step of a thread leaves each tag in one place.                    *)
LEMMA TagThread ==
    ASSUME TypeOK, TagInv, NEW q \in Queues, ThreadStep(q)
    PROVE  TagInv'
<1> USE DEF At, Goto
<1>0. pc \in [Queues -> PcLabels]
  BY DEF TypeOK, ThreadsOK
<1>1. CASE BootCreate(q)
  <2>1. /\ Insert(q, BootList(q)[booted[q] + 1]) /\ ~Posting(q)
        /\ pc[q] = "create" /\ pc' = [pc EXCEPT ![q] = "post"]
        /\ UNCHANGED <<got, listening, events>>
    BY <1>1 DEF BootCreate, Posting, grpcVars
  <2> QED BY <2>1, TagInsert
<1>2. CASE Respawn(q)
  <2>1. /\ Insert(q, method[got[q].tag]) /\ ~Posting(q)
        /\ pc[q] = "respawn" /\ pc' = [pc EXCEPT ![q] = "repost"]
        /\ UNCHANGED <<got, listening, events>>
    BY <1>2 DEF Respawn, Posting, grpcVars
  <2> QED BY <2>1, TagInsert
<1>3. CASE BootPost(q)
  <2>1. /\ PostRequest(q) /\ pc[q] = "post"
        /\ \E l \in {"create", "next"} : pc' = [pc EXCEPT ![q] = l]
        /\ UNCHANGED <<got, fresh, nextId, home>>
    BY <1>3 DEF BootPost
  <2> QED BY <2>1, TagPost
<1>4. CASE RespawnPost(q)
  <2>1. /\ PostRequest(q) /\ pc[q] = "repost" /\ pc' = [pc EXCEPT ![q] = "process"]
        /\ UNCHANGED <<got, fresh, nextId, home>>
    BY <1>4 DEF RespawnPost
  <2> QED BY <2>1, TagPost
<1>5. CASE NextEvent(q)
  BY <1>5, TagNextEvent
<1>6. CASE Write(q)
  BY <1>6, TagWrite
<1>7. ASSUME NextEnd(q) \/ Dispatch(q) \/ Process(q) \/ MarkFinish(q) \/ Remove(q)
      PROVE  TagInv'
  <2>1. events' \subseteq events /\ UNCHANGED <<got, fresh, nextId, home, listening>>
    BY <1>7 DEF NextEnd, Dispatch, Process, MarkFinish, Remove, poolVars, rpcVars, grpcVars
  <2>2. \A r \in Queues : /\ Working(r)' => Working(r)
                          /\ Posting(r)' => Posting(r)
                          /\ Working(r)' /\ pc[r] = "mark" => pc'[r] = "mark"
    BY <1>0, <1>7 DEF NextEnd, Dispatch, Process, MarkFinish, Remove, Working, Posting
  <2> QED BY <2>1, <2>2, TagKept
<1> QED BY <1>1, <1>2, <1>3, <1>4, <1>5, <1>6, <1>7 DEF ThreadStep

(* So does every step of the main thread, the clients and gRPC.            *)
LEMMA TagRest ==
    ASSUME TypeOK, TagInv,
           \/ MainStep \/ Stop \/ StopNotRunning \/ Crash \/ UNCHANGED vars
           \/ \E c \in Calls : Send(c) \/ Match(c) \/ Lose(c)
    PROVE  TagInv'
<1>1. CASE ServerShutdown
  <2>1. /\ listening' \subseteq listening \ listening
        /\ events' = events \cup {[tag |-> i, kind |-> "request", ok |-> FALSE] : i \in listening}
        /\ UNCHANGED <<pc, got, fresh, nextId, home>>
    BY <1>1 DEF ServerShutdown, threadVars, poolVars, rpcVars
  <2> QED BY <2>1, TagComplete
<1>2. ASSUME NEW c \in Calls, Match(c) PROVE TagInv'
  <2>1. PICK j \in listening :
          /\ listening' = listening \ {j}
          /\ events' = events \cup {[tag |-> j, kind |-> "request", ok |-> TRUE]}
    BY <1>2 DEF Match
  <2>2. /\ {j} \in SUBSET listening
        /\ events' = events \cup {[tag |-> i, kind |-> "request", ok |-> TRUE] : i \in {j}}
    BY <2>1
  <2>3. UNCHANGED <<pc, got, fresh, nextId, home>>
    BY <1>2 DEF Match, threadVars, poolVars, rpcVars
  <2> QED BY <2>1, <2>2, <2>3, TagComplete
<1>3. ASSUME NEW q \in Queues, Spawn(q) PROVE TagInv'
  <2>1. UNCHANGED <<got, fresh, nextId, home, listening, events>>
    BY <1>3 DEF Spawn, poolVars, rpcVars, grpcVars
  <2>2. \A r \in Queues : /\ Working(r)' => Working(r)
                          /\ Posting(r)' => Posting(r)
                          /\ Working(r)' /\ pc[r] = "mark" => pc'[r] = "mark"
    BY <1>3 DEF Spawn, Goto, Working, Posting, TypeOK, ThreadsOK
  <2> QED BY <2>1, <2>2, TagKept
<1>4. ASSUME \/ Start \/ Stop \/ StopNotRunning \/ Release \/ ShutdownReturns
             \/ (\E q \in Queues : CloseQueue(q)) \/ DrainEvent \/ DrainEnd \/ Join
             \/ Crash \/ UNCHANGED vars \/ \E c \in Calls : Send(c) \/ Lose(c)
      PROVE  TagInv'
  <2>1. events' \subseteq events /\ UNCHANGED <<pc, got, fresh, nextId, home, listening>>
    BY <1>4 DEF Start, Stop, StopNotRunning, Release, ShutdownReturns, CloseQueue, DrainEvent,
                DrainEnd, Join, Crash, Send, Lose, vars, threadVars, poolVars, rpcVars, grpcVars
  <2> QED BY <2>1, TagKept DEF Working, Posting
<1> QED BY <1>1, <1>2, <1>3, <1>4 DEF MainStep

(* The tag of a request object is never in two places: no object is        *)
(* matched with two calls, handed to two threads, or posted while its      *)
(* previous operation is still to complete.                                *)
THEOREM TagsInOnePlace == Spec => []TagInv
<1>1. TypeOK /\ TagInv /\ [Next]_vars => TagInv'
  BY TagThread, TagRest DEF Next, Ended
<1> QED BY <1>1, TagInit, TypeCorrect, PTL DEF Spec

-----------------------------------------------------------------------------
(* An object is in the state its next event needs.                         *)

(* At first there is no event that could find a wrong state.               *)
LEMMA StateInit == Init => StateInv
BY DEF Init, StateInv, EventMatchesState, Executing

(* Steps that change no state and no thread.                               *)
LEMMA StateKept ==
    ASSUME StateInv, UNCHANGED <<pc, got, rpcState>>, listening' \subseteq listening,
           \A e \in events' : e \in events \/ (e.tag \in listening /\ e.kind = "request")
    PROVE  StateInv'
BY DEF StateInv, EventMatchesState, Executing, Marking

(* Creating an object touches no other, posting it only itself.            *)
LEMMA StateInsert ==
    ASSUME TypeOK, TagInv, StateInv, NEW q \in Queues, NEW m, Insert(q, m),
           \/ pc[q] = "create" /\ pc' = [pc EXCEPT ![q] = "post"]
           \/ pc[q] = "respawn" /\ pc' = [pc EXCEPT ![q] = "repost"],
           UNCHANGED <<got, listening, events>>
    PROVE  StateInv'
<1>1. /\ nextId \in Int
      /\ \A j \in Ids : j < nextId => rpcState'[j] = rpcState[j]
  BY DEF Insert, TypeOK, PoolOK, RpcsOK, Ids
<1>2. /\ \A j \in listening : j \in Ids /\ j < nextId
      /\ \A e \in events : e.tag \in Ids /\ e.tag < nextId
      /\ \A r \in Queues : Working(r) => got[r].tag \in Ids /\ got[r].tag < nextId
  BY DEF TagInv, ListeningTags, QueuedTags, HandTags, TypeOK, ThreadsOK, GrpcOK, Event
<1>3. \A r \in Queues : /\ Executing(r)' <=> Executing(r)
                        /\ pc'[r] = "mark" <=> pc[r] = "mark"
                        /\ pc'[r] = "dispatch" <=> pc[r] = "dispatch"
  BY DEF Executing, TypeOK, ThreadsOK
<1>4. \A j : Marking(j)' <=> Marking(j)
  BY <1>3 DEF Marking
<1>5. EventMatchesState'
  BY <1>1, <1>2, <1>3, <1>4 DEF StateInv, EventMatchesState, Working
<1> QED BY <1>1, <1>2, <1>3, <1>5 DEF StateInv, Executing, Working

(* A posted object is in PROCESS, and no other state changes.              *)
LEMMA StatePost ==
    ASSUME TypeOK, TagInv, StateInv, NEW q \in Queues, PostRequest(q),
           \/ pc[q] = "post" /\ \E l \in {"create", "next"} : pc' = [pc EXCEPT ![q] = l]
           \/ pc[q] = "repost" /\ pc' = [pc EXCEPT ![q] = "process"],
           UNCHANGED got
    PROVE  StateInv'
<1> DEFINE i == fresh[q]
<1>1. i \in Ids /\ HeldLocally(i)
  BY DEF HeldLocally, Posting, TypeOK, ThreadsOK
<1>2. rpcState'[i] = "PROCESS" /\ \A j \in Ids : j # i => rpcState'[j] = rpcState[j]
  BY <1>1 DEF PostRequest, TypeOK, RpcsOK
<1>3. /\ listening' \subseteq listening \cup {i}
      /\ \A e \in events' : e \in events \/ (e.tag = i /\ e.kind = "request")
  BY DEF PostRequest
<1>4. /\ \A j \in listening : j \in Ids /\ j # i
      /\ \A e \in events : e.tag \in Ids /\ e.tag # i
      /\ \A r \in Queues : Working(r) => got[r].tag \in Ids /\ got[r].tag # i
  BY <1>1 DEF TagInv, ListeningTags, QueuedTags, HandTags, TypeOK, ThreadsOK, GrpcOK, Event
<1>5. \A r \in Queues : /\ Executing(r)' => Executing(r)
                        /\ pc'[r] = "mark" <=> pc[r] = "mark"
                        /\ pc'[r] = "dispatch" <=> pc[r] = "dispatch"
  BY DEF Executing, TypeOK, ThreadsOK
<1>6. \A j : Marking(j)' <=> Marking(j)
  BY <1>5 DEF Marking
<1>7. EventMatchesState'
  BY <1>2, <1>3, <1>4, <1>5, <1>6 DEF StateInv, EventMatchesState, Working
<1>8. \A j \in listening' : rpcState'[j] = "PROCESS"
  BY <1>2, <1>3, <1>4 DEF StateInv
<1> QED BY <1>2, <1>4, <1>5, <1>7, <1>8 DEF StateInv, Executing, Working

(* The tag two threads cannot both have.                                   *)
LEMMA OneHand ==
    ASSUME TagInv, NEW q \in Queues, NEW r \in Queues, Working(q), Working(r),
           got[q].tag = got[r].tag
    PROVE  q = r
BY DEF TagInv, HandTags

(* A step of a thread keeps events and states in agreement.                *)
LEMMA StateThread ==
    ASSUME TypeOK, TagInv, StateInv, NEW q \in Queues, ThreadStep(q)
    PROVE  StateInv'
<1> USE DEF At, Goto
<1> DEFINE i == got[q].tag
<1>0. pc \in [Queues -> PcLabels] /\ i \in Ids
  BY DEF TypeOK, ThreadsOK, Event
<1>1. CASE BootCreate(q)
  BY <1>1, StateInsert DEF BootCreate, grpcVars
<1>2. CASE Respawn(q)
  BY <1>2, StateInsert DEF Respawn, grpcVars
<1>3. CASE BootPost(q)
  BY <1>3, StatePost DEF BootPost
<1>4. CASE RespawnPost(q)
  BY <1>4, StatePost DEF RespawnPost
<1>5. CASE NextEvent(q)
  <2>1. PICK e \in events : /\ home[e.tag] = q
                            /\ got' = [got EXCEPT ![q] = e]
                            /\ events' = events \ {e}
    BY <1>5 DEF NextEvent
  <2>2. /\ pc[q] = "next" /\ pc' = [pc EXCEPT ![q] = "dispatch"]
        /\ UNCHANGED <<rpcState, listening>>
    BY <1>5 DEF NextEvent, rpcVars
  <2>3. /\ got'[q] = e /\ pc'[q] = "dispatch"
        /\ \A r \in Queues \ {q} : got'[r] = got[r] /\ pc'[r] = pc[r]
    BY <2>1, <2>2 DEF TypeOK, ThreadsOK
  <2>4. \A j : Marking(j)' <=> Marking(j)
    BY <2>2, <2>3 DEF Marking
  <2>5. ~Marking(e.tag)
    BY <2>1, <2>2 DEF Marking, TagInv, HandTags, Working
  <2>6. EventMatchesState'
    BY <2>1, <2>2, <2>3, <2>4, <2>5 DEF StateInv, EventMatchesState
  <2> QED BY <2>2, <2>3, <2>6 DEF StateInv, Executing
<1>6. CASE Dispatch(q)
  <2>1. /\ UNCHANGED <<got, rpcState, listening, events>> /\ pc[q] = "dispatch"
        /\ \/ pc' = [pc EXCEPT ![q] = "remove"]
           \/ pc' = [pc EXCEPT ![q] = "respawn"] /\ rpcState[i] = "PROCESS"
    BY <1>6 DEF Dispatch, rpcVars, grpcVars
  <2>2. \A j : Marking(j)' <=> Marking(j)
    BY <1>0, <2>1 DEF Marking
  <2>3. EventMatchesState'
    BY <1>0, <2>1, <2>2 DEF StateInv, EventMatchesState
  <2> QED BY <1>0, <2>1, <2>3 DEF StateInv, Executing
<1>7. CASE Write(q)
  <2>1. /\ UNCHANGED <<got, rpcState, listening>>
        /\ pc[q] = "write" /\ pc' = [pc EXCEPT ![q] = "mark"]
        /\ \A e \in events' : e \in events \/ (e.tag = i /\ e.kind = "finish")
    BY <1>7 DEF Write, rpcVars
  <2>2. \A j : Marking(j)' <=> (Marking(j) \/ j = i)
    BY <1>0, <2>1 DEF Marking
  <2>3. rpcState[i] = "PROCESS" /\ \A e \in events : e.tag # i
    BY <2>1 DEF StateInv, Executing, TagInv, HandTags, Working
  <2>4. EventMatchesState'
    BY <1>0, <2>1, <2>2, <2>3 DEF StateInv, EventMatchesState
  <2> QED BY <1>0, <2>1, <2>3, <2>4 DEF StateInv, Executing
<1>8. CASE MarkFinish(q)
  <2>1. /\ UNCHANGED <<got, listening, events>>
        /\ pc[q] = "mark" /\ pc' = [pc EXCEPT ![q] = "next"]
        /\ rpcState' = [rpcState EXCEPT ![i] = "FINISH"]
    BY <1>8 DEF MarkFinish, grpcVars
  <2>2. rpcState'[i] = "FINISH" /\ \A j \in Ids : j # i => rpcState'[j] = rpcState[j]
    BY <1>0, <2>1 DEF TypeOK, RpcsOK
  <2>3. \A r \in Queues \ {q} : Working(r) => got[r].tag # i
    BY <2>1, OneHand DEF Working
  <2>4. /\ ~Marking(i)' /\ \A j : j # i => (Marking(j)' <=> Marking(j))
    BY <1>0, <2>1, <2>3 DEF Marking, Working
  <2>5. /\ i \notin listening
        /\ \A e \in events : e.tag = i => e.kind = "finish"
    BY <2>1 DEF TagInv, ListeningTags, HandTags, InHand, Working
  <2>6. /\ \A j \in listening : j \in Ids
        /\ \A e \in events : e.tag \in Ids
        /\ \A r \in Queues : got[r].tag \in Ids
    BY DEF TypeOK, ThreadsOK, GrpcOK, Event
  <2>7. EventMatchesState'
    BY <1>0, <2>1, <2>2, <2>3, <2>4, <2>5, <2>6 DEF StateInv, EventMatchesState, Working
  <2> QED BY <1>0, <2>1, <2>2, <2>3, <2>5, <2>6, <2>7 DEF StateInv, Executing, Working
<1>9. ASSUME NextEnd(q) \/ Process(q) \/ Remove(q)
      PROVE  StateInv'
  <2>1. /\ UNCHANGED <<got, rpcState, listening, events>>
        /\ \/ pc[q] = "next" /\ pc' = [pc EXCEPT ![q] = "done"]
           \/ pc[q] = "process" /\ pc' = [pc EXCEPT ![q] = "write"]
           \/ pc[q] = "remove" /\ pc' = [pc EXCEPT ![q] = "next"]
    BY <1>9 DEF NextEnd, Process, Remove, rpcVars, grpcVars
  <2>2. \A j : Marking(j)' <=> Marking(j)
    BY <1>0, <2>1 DEF Marking
  <2>3. EventMatchesState'
    BY <1>0, <2>1, <2>2 DEF StateInv, EventMatchesState
  <2> QED BY <1>0, <2>1, <2>3 DEF StateInv, Executing
<1> QED BY <1>1, <1>2, <1>3, <1>4, <1>5, <1>6, <1>7, <1>8, <1>9 DEF ThreadStep

(* So does every step of the main thread, the clients and gRPC.            *)
LEMMA StateRest ==
    ASSUME TypeOK, StateInv,
           \/ MainStep \/ Stop \/ StopNotRunning \/ Crash \/ UNCHANGED vars
           \/ \E c \in Calls : Send(c) \/ Match(c) \/ Lose(c)
    PROVE  StateInv'
<1>1. ASSUME NEW q \in Queues, Spawn(q) PROVE StateInv'
  <2>1. /\ UNCHANGED <<got, rpcState, listening, events>>
        /\ pc[q] = "off" /\ pc' = [pc EXCEPT ![q] = "create"]
    BY <1>1 DEF Spawn, Goto, rpcVars, grpcVars
  <2>2. \A j : Marking(j)' <=> Marking(j)
    BY <2>1 DEF Marking, TypeOK, ThreadsOK
  <2>3. EventMatchesState'
    BY <2>1, <2>2 DEF StateInv, EventMatchesState, TypeOK, ThreadsOK
  <2> QED BY <2>1, <2>3 DEF StateInv, Executing, TypeOK, ThreadsOK
<1>2. CASE ServerShutdown
  BY <1>2, StateKept DEF ServerShutdown, threadVars, rpcVars
<1>3. ASSUME NEW c \in Calls, Match(c) PROVE StateInv'
  BY <1>3, StateKept DEF Match, threadVars, rpcVars
<1>4. ASSUME \/ Start \/ Stop \/ StopNotRunning \/ Release \/ ShutdownReturns
             \/ (\E q \in Queues : CloseQueue(q)) \/ DrainEvent \/ DrainEnd \/ Join
             \/ Crash \/ UNCHANGED vars \/ \E c \in Calls : Send(c) \/ Lose(c)
      PROVE  StateInv'
  <2>1. events' \subseteq events /\ UNCHANGED <<pc, got, rpcState, listening>>
    BY <1>4 DEF Start, Stop, StopNotRunning, Release, ShutdownReturns, CloseQueue, DrainEvent,
                DrainEnd, Join, Crash, Send, Lose, vars, threadVars, poolVars, rpcVars, grpcVars
  <2> QED BY <2>1, StateKept
<1> QED BY <1>1, <1>2, <1>3, <1>4 DEF MainStep

(* Whatever the interleaving, even during stop() and after undefined       *)
(* behaviour: an event finds its object in the state execute() expects,    *)
(* although _rpc_state is assigned after the operation was handed to gRPC. *)
THEOREM EventsMatchStates == Spec => []EventMatchesState
<1>1. TypeOK /\ TagInv /\ StateInv /\ [Next]_vars => StateInv'
  BY StateThread, StateRest DEF Next, Ended
<1>2. StateInv => EventMatchesState
  BY DEF StateInv
<1> QED BY <1>1, <1>2, StateInit, TypeCorrect, TagsInOnePlace, PTL DEF Spec

-----------------------------------------------------------------------------
(* Before stop(), and while no race has happened, the pool is exact.       *)

Marked == \A q \in Queues : pc[q] = "mark" => InQueue(got[q].tag)
Good == /\ faults = {} /\ ~crashed
        /\ pool = {i \in Ids : Held(i)}
        /\ \A i \in pool : mem[i] = "live"
        /\ Marked

(* The invariant of the pool, with its one condition factored out.         *)
LEMMA PoolInvIsGood == PoolInv <=> /\ BeforeStop => shut = {} /\ ~srvDown
                                   /\ Calm => Good
BY DEF PoolInv, Good, Marked, Calm, SafeWhileServing, PoolExact

(* Before start() the pool is empty and nothing has gone wrong.            *)
LEMMA PoolInit == Init => StartInv /\ PoolInv
BY DEF Init, StartInv, PoolInv, Calm, SafeWhileServing, PoolExact

(* Steps that let go of no tag and take up none.                           *)
LEMMA GoodKept ==
    ASSUME Good, UNCHANGED <<faults, crashed, pool, mem>>,
           \A i \in Ids : Held(i)' <=> Held(i),
           Marked'
    PROVE  Good'
BY DEF Good

(* What a thread works on is alive.                                        *)
LEMMA InHandLive ==
    ASSUME TypeOK, Good, NEW q \in Queues, Working(q)
    PROVE  got[q].tag \in pool /\ Touch(got[q].tag) = {}
<1>1. got[q].tag \in Ids /\ Held(got[q].tag)
  BY DEF TypeOK, ThreadsOK, Event, Held, InHand
<1>2. got[q].tag \in pool
  BY <1>1 DEF Good
<1> QED BY <1>2 DEF Good, Touch

(* create_rpc without a race.                                              *)
LEMMA GoodInsert ==
    ASSUME TypeOK, Good, NEW q \in Queues, NEW m, Insert(q, m), ~Racing(q),
           \/ pc[q] = "create" /\ pc' = [pc EXCEPT ![q] = "post"]
           \/ pc[q] = "respawn" /\ pc' = [pc EXCEPT ![q] = "repost"],
           UNCHANGED <<got, listening, events, faults, crashed>>
    PROVE  Good'
<1>1. nextId \in Ids /\ pool' = pool \cup {nextId}
  BY MaxRpcsAssumption DEF Insert, TypeOK, PoolOK, Ids
<1>2. mem'[nextId] = "live" /\ \A j \in Ids : j # nextId => mem'[j] = mem[j]
  BY <1>1 DEF Insert, TypeOK, PoolOK
<1>3. /\ Posting(q)' /\ fresh'[q] = nextId /\ ~Posting(q)
      /\ \A r \in Queues \ {q} : (Posting(r)' <=> Posting(r)) /\ fresh'[r] = fresh[r]
  BY DEF Insert, Posting, TypeOK, ThreadsOK
<1>4. \A j : HeldLocally(j)' <=> (HeldLocally(j) \/ j = nextId)
  BY <1>3 DEF HeldLocally
<1>5. \A r \in Queues : (Working(r)' <=> Working(r)) /\ (pc'[r] = "mark" <=> pc[r] = "mark")
  BY DEF Working, TypeOK, ThreadsOK
<1>6. \A j : (InHand(j)' <=> InHand(j)) /\ (InQueue(j)' <=> InQueue(j))
  BY <1>5 DEF InHand, InQueue
<1>7. \A j : Held(j)' <=> (Held(j) \/ j = nextId)
  BY <1>4, <1>6 DEF Held
<1>8. pool' = {i \in Ids : Held(i)'}
  BY <1>1, <1>7 DEF Good
<1>9. \A i \in pool' : mem'[i] = "live"
  BY <1>1, <1>2 DEF Good, TypeOK, PoolOK
<1>10. Marked'
  BY <1>5, <1>6 DEF Good, Marked, InQueue
<1> QED BY <1>8, <1>9, <1>10 DEF Good

(* RequestXxx to a server that is up.                                      *)
LEMMA GoodPost ==
    ASSUME TypeOK, Good, bound, ~srvDown, shut = {}, NEW q \in Queues, PostRequest(q),
           \/ pc[q] = "post" /\ \E l \in {"create", "next"} : pc' = [pc EXCEPT ![q] = l]
           \/ pc[q] = "repost" /\ pc' = [pc EXCEPT ![q] = "process"],
           UNCHANGED <<got, fresh, pool>>
    PROVE  Good'
<1> DEFINE i == fresh[q]
<1>1. i \in Ids /\ HeldLocally(i) /\ i \in pool
  BY DEF HeldLocally, Posting, Held, Good, TypeOK, ThreadsOK
<1>2. /\ listening' = listening \cup {i}
      /\ UNCHANGED <<mem, events, faults, crashed>>
  BY <1>1 DEF PostRequest, Good, TypeOK, FaultsOK
<1>3. /\ \A r \in Queues \ {q} : Posting(r)' <=> Posting(r)
      /\ ~Posting(q)' /\ Posting(q)
  BY DEF Posting, TypeOK, ThreadsOK
<1>4. \A j : j # i => (HeldLocally(j)' <=> HeldLocally(j))
  BY <1>3 DEF HeldLocally
<1>5. \A r \in Queues : (Working(r)' <=> Working(r)) /\ (pc'[r] = "mark" <=> pc[r] = "mark")
  BY DEF Working, TypeOK, ThreadsOK
<1>6. \A j : (InHand(j)' <=> InHand(j)) /\ (InQueue(j)' <=> InQueue(j))
  BY <1>2, <1>5 DEF InHand, InQueue
<1>7. \A j : Held(j)' <=> Held(j)
  BY <1>1, <1>2, <1>4, <1>6 DEF Held
<1>8. Marked'
  BY <1>2, <1>5 DEF Good, Marked, InQueue
<1> QED BY <1>2, <1>7, <1>8, GoodKept

(* A step of a thread of a calm server frees only what nobody refers to.   *)
LEMMA GoodThread ==
    ASSUME TypeOK, TagInv, Good, bound, ~srvDown, shut = {},
           NEW q \in Queues, ThreadStep(q), "data_race" \notin faults'
    PROVE  Good'
<1> USE DEF At, Goto
<1> DEFINE i == got[q].tag
<1>0. pc \in [Queues -> PcLabels] /\ got \in [Queues -> Event] /\ i \in Ids
  BY DEF TypeOK, ThreadsOK, Event
<1>1. CASE BootCreate(q)
  <2>1. ~Racing(q) /\ UNCHANGED <<faults, crashed, got, listening, events>>
    BY <1>1 DEF BootCreate, RaceFault, grpcVars
  <2> QED BY <1>1, <2>1, GoodInsert DEF BootCreate
<1>2. CASE Respawn(q)
  <2>1. Touch(i) = {}
    BY <1>2, InHandLive DEF Respawn, Working
  <2>2. ~Racing(q) /\ UNCHANGED <<faults, crashed, got, listening, events>>
    BY <1>2, <2>1 DEF Respawn, RaceFault, grpcVars
  <2> QED BY <1>2, <2>2, GoodInsert DEF Respawn
<1>3. CASE BootPost(q)
  BY <1>3, GoodPost DEF BootPost
<1>4. CASE RespawnPost(q)
  BY <1>4, GoodPost DEF RespawnPost
<1>5. CASE NextEvent(q)
  <2>1. PICK e \in events : /\ home[e.tag] = q
                            /\ got' = [got EXCEPT ![q] = e]
                            /\ events' = events \ {e}
    BY <1>5 DEF NextEvent
  <2>2. /\ pc[q] = "next" /\ pc' = [pc EXCEPT ![q] = "dispatch"]
        /\ UNCHANGED <<fresh, pool, mem, listening, faults, crashed>>
    BY <1>5 DEF NextEvent, poolVars
  <2>3. /\ got'[q] = e /\ pc'[q] = "dispatch"
        /\ \A r \in Queues \ {q} : got'[r] = got[r] /\ pc'[r] = pc[r]
    BY <1>0, <2>1, <2>2
  <2>4. /\ \A r \in Queues : Posting(r)' <=> Posting(r)
        /\ Working(q)' /\ ~Working(q)
        /\ \A r \in Queues \ {q} : Working(r)' <=> Working(r)
    BY <2>2, <2>3 DEF Posting, Working
  <2>5. /\ \A j : HeldLocally(j)' <=> HeldLocally(j)
        /\ \A j : InHand(j)' <=> (InHand(j) \/ j = e.tag)
        /\ \A j : j # e.tag => (InQueue(j)' <=> InQueue(j))
        /\ InQueue(e.tag)
    BY <2>1, <2>2, <2>3, <2>4 DEF HeldLocally, InHand, InQueue
  <2>6. \A j : Held(j)' <=> Held(j)
    BY <2>2, <2>5 DEF Held
  <2>7. \A r \in Queues \ {q} : Working(r) => got[r].tag # e.tag \/ home[e.tag] = r
    BY DEF TagInv, HandTags
  <2>8. \A r \in Queues : pc'[r] = "mark" => InQueue(got[r].tag)' /\ got'[r] = got[r]
    BY <2>1, <2>3, <2>5, <2>7 DEF Good, Marked, Working
  <2>9. Marked'
    BY <2>8 DEF Marked, InQueue
  <2> QED BY <2>2, <2>6, <2>9, GoodKept
<1>6. CASE NextEnd(q)
  BY <1>6 DEF NextEnd
<1>7. ASSUME Dispatch(q) \/ Process(q) PROVE Good'
  <2>1. Touch(i) = {}
    BY <1>7, InHandLive DEF Dispatch, Process, Working
  <2>2. UNCHANGED <<got, fresh, pool, mem, listening, events, faults, crashed>>
    BY <1>7, <2>1 DEF Dispatch, Process, poolVars, grpcVars
  <2>3. \A r \in Queues : /\ Posting(r)' <=> Posting(r)
                          /\ Working(r)' <=> Working(r)
                          /\ pc'[r] = "mark" <=> pc[r] = "mark"
    BY <1>0, <1>7 DEF Dispatch, Process, Posting, Working
  <2>4. \A j : Held(j)' <=> Held(j)
    BY <2>2, <2>3 DEF Held, HeldLocally, InHand, InQueue
  <2>5. Marked'
    BY <2>2, <2>3 DEF Good, Marked, InQueue
  <2> QED BY <2>2, <2>4, <2>5, GoodKept
<1>8. CASE Write(q)
  <2>1. Touch(i) = {}
    BY <1>8, InHandLive DEF Write, Working
  <2>2. /\ UNCHANGED <<got, fresh, pool, mem, listening, faults, crashed>>
        /\ pc[q] = "write" /\ pc' = [pc EXCEPT ![q] = "mark"]
        /\ events' = events \cup {[tag |-> i, kind |-> "finish", ok |-> call[serves[i]] = "open"]}
    BY <1>8, <2>1 DEF Write, Good, poolVars, TypeOK, FaultsOK
  <2>3. \A r \in Queues : (Posting(r)' <=> Posting(r)) /\ (Working(r)' <=> Working(r))
    BY <1>0, <2>2 DEF Posting, Working
  <2>4. \A j : InQueue(j)' <=> (InQueue(j) \/ j = i)
    <3> DEFINE new == [tag |-> i, kind |-> "finish", ok |-> call[serves[i]] = "open"]
    <3>1. new.tag = i /\ events' = events \cup {new}
      BY <2>2
    <3> QED BY <3>1 DEF InQueue
  <2>5. InHand(i)
    BY <2>2 DEF InHand, Working
  <2>6. \A j : Held(j)' <=> Held(j)
    BY <2>2, <2>3, <2>4, <2>5 DEF Held, HeldLocally, InHand
  <2>7. \A r \in Queues : pc'[r] = "mark" => InQueue(got[r].tag)'
    BY <1>0, <2>2, <2>4 DEF Good, Marked
  <2>8. Marked'
    BY <2>2, <2>7 DEF Marked, InQueue
  <2> QED BY <2>2, <2>6, <2>8, GoodKept
<1>9. CASE MarkFinish(q)
  <2>1. Touch(i) = {}
    BY <1>9, InHandLive DEF MarkFinish, Working
  <2>2. /\ UNCHANGED <<got, fresh, pool, mem, listening, events, faults, crashed>>
        /\ pc[q] = "mark" /\ pc' = [pc EXCEPT ![q] = "next"]
    BY <1>9, <2>1 DEF MarkFinish, poolVars, grpcVars
  <2>3. /\ \A r \in Queues : Posting(r)' <=> Posting(r)
        /\ \A r \in Queues \ {q} : Working(r)' <=> Working(r)
        /\ Working(q) /\ ~Working(q)'
    BY <1>0, <2>2 DEF Posting, Working
  <2>4. InQueue(i)
    BY <2>2 DEF Good, Marked
  <2>5. \A j : j # i => (InHand(j)' <=> InHand(j))
    BY <2>2, <2>3 DEF InHand
  <2>6. \A j : Held(j)' <=> Held(j)
    BY <2>2, <2>3, <2>4, <2>5 DEF Held, HeldLocally, InQueue
  <2>7. Marked'
    BY <1>0, <2>2 DEF Good, Marked, InQueue
  <2> QED BY <2>2, <2>6, <2>7, GoodKept
<1>10. CASE Remove(q)
  <2>1. Touch(i) = {} /\ i \in pool
    BY <1>10, InHandLive DEF Remove, Working
  <2>2. /\ UNCHANGED <<got, fresh, listening, events, faults, crashed>> /\ ~Racing(q)
        /\ pc[q] = "remove" /\ pc' = [pc EXCEPT ![q] = "next"]
    BY <1>10, <2>1 DEF Remove, RaceFault, grpcVars
  <2>3. pool' = pool \ {i} /\ mem' = [mem EXCEPT ![i] = "freed"]
    BY <1>10, <2>1, <2>2 DEF Remove, Erase
  <2>4. /\ \A r \in Queues : Posting(r)' <=> Posting(r)
        /\ \A r \in Queues \ {q} : Working(r)' <=> Working(r)
        /\ Working(q) /\ ~Working(q)'
    BY <1>0, <2>2 DEF Posting, Working
  <2>5. i \notin listening /\ ~HeldLocally(i) /\ ~InQueue(i)
    BY <2>2, <2>4 DEF TagInv, ListeningTags, HandTags, InHand, InQueue
  <2>6. \A r \in Queues \ {q} : Working(r) => got[r].tag # i
    BY <2>4, OneHand
  <2>7. ~InHand(i)' /\ \A j : j # i => (InHand(j)' <=> InHand(j))
    BY <2>2, <2>4, <2>6 DEF InHand
  <2>8. \A j : Held(j)' <=> (Held(j) /\ j # i)
    BY <2>2, <2>4, <2>5, <2>7 DEF Held, HeldLocally, InQueue
  <2>9. pool' = {j \in Ids : Held(j)'}
    BY <2>3, <2>8 DEF Good
  <2>10. \A j \in pool' : mem'[j] = "live"
    BY <2>3 DEF Good, TypeOK, PoolOK
  <2>11. Marked'
    BY <1>0, <2>2 DEF Good, Marked, InQueue
  <2> QED BY <2>2, <2>9, <2>10, <2>11 DEF Good
<1> QED BY <1>1, <1>2, <1>3, <1>4, <1>5, <1>6, <1>7, <1>8, <1>9, <1>10 DEF ThreadStep

(* The other steps of a calm server free nothing.                          *)
LEMMA GoodRest ==
    ASSUME TypeOK, StartInv, PoolInv, Calm',
           \/ MainStep \/ Stop \/ StopNotRunning \/ Crash \/ UNCHANGED vars
           \/ \E c \in Calls : Send(c) \/ Match(c) \/ Lose(c)
    PROVE  Good'
<1> USE DEF MainAt, Calm, Quiet, BeforeStop
<1>1. CASE Start
  <2>1. /\ pc \in [Queues -> PcLabels] /\ \A q \in Queues : pc[q] = "off"
        /\ pool = {} /\ listening = {} /\ events = {} /\ faults = {} /\ ~crashed
    BY <1>1 DEF Start, StartInv, TypeOK, ThreadsOK
  <2>2. UNCHANGED <<pc, pool, listening, events, faults, crashed>>
    BY <1>1 DEF Start, threadVars, poolVars, grpcVars
  <2>3. \A i : ~Held(i)'
    BY <2>1, <2>2 DEF Held, InQueue, InHand, HeldLocally, Working, Posting
  <2>4. Marked'
    BY <2>1, <2>2 DEF Marked
  <2> QED BY <2>1, <2>2, <2>3, <2>4 DEF Good
<1>2. ASSUME NEW q \in Queues, Spawn(q) PROVE Good'
  <2>1. Good
    BY <1>2, PoolInvIsGood DEF Spawn
  <2>2. /\ UNCHANGED <<got, fresh, pool, mem, listening, events, faults, crashed>>
        /\ pc[q] = "off" /\ pc' = [pc EXCEPT ![q] = "create"]
    BY <1>2 DEF Spawn, Goto, poolVars, grpcVars
  <2>3. \A r \in Queues : /\ Posting(r)' <=> Posting(r)
                          /\ Working(r)' <=> Working(r)
                          /\ pc'[r] = "mark" <=> pc[r] = "mark"
    BY <2>2 DEF Posting, Working, TypeOK, ThreadsOK
  <2>4. \A j : Held(j)' <=> Held(j)
    BY <2>2, <2>3 DEF Held, HeldLocally, InHand, InQueue
  <2>5. Marked'
    BY <2>1, <2>2, <2>3 DEF Good, Marked, InQueue
  <2> QED BY <2>1, <2>2, <2>4, <2>5, GoodKept
<1>3. ASSUME NEW c \in Calls, Match(c) PROVE Good'
  <2>1. Good
    BY <1>3, PoolInvIsGood DEF Match, mainVars
  <2>2. PICK i \in listening :
          /\ listening' = listening \ {i}
          /\ events' = events \cup {[tag |-> i, kind |-> "request", ok |-> TRUE]}
    BY <1>3 DEF Match
  <2>3. UNCHANGED <<pc, got, fresh, pool, mem, faults, crashed>>
    BY <1>3 DEF Match, threadVars, poolVars
  <2> DEFINE new == [tag |-> i, kind |-> "request", ok |-> TRUE]
  <2>4. new.tag = i /\ events' = events \cup {new}
    BY <2>2
  <2>5. \A j : InQueue(j)' <=> (InQueue(j) \/ j = i)
    BY <2>4 DEF InQueue
  <2>6. \A j : (HeldLocally(j)' <=> HeldLocally(j)) /\ (InHand(j)' <=> InHand(j))
    BY <2>3 DEF HeldLocally, InHand, Posting, Working
  <2>7. \A j : Held(j)' <=> Held(j)
    BY <2>2, <2>5, <2>6 DEF Held
  <2>8. Marked'
    BY <2>1, <2>3, <2>4 DEF Good, Marked, InQueue
  <2> QED BY <2>1, <2>3, <2>7, <2>8, GoodKept
<1>4. ASSUME NEW c \in Calls, Send(c) \/ Lose(c) PROVE Good'
  <2>1. Good
    BY <1>4, PoolInvIsGood DEF Send, Lose, mainVars
  <2>2. UNCHANGED <<pc, got, fresh, pool, mem, listening, events, faults, crashed>>
    BY <1>4 DEF Send, Lose, threadVars, poolVars
  <2> QED BY <2>1, <2>2, GoodKept
          DEF Held, HeldLocally, InHand, InQueue, Posting, Working, Good, Marked
<1>5. CASE UNCHANGED vars
  <2>1. Good
    BY <1>5, PoolInvIsGood DEF vars
  <2> QED BY <1>5, <2>1, GoodKept
          DEF vars, Held, HeldLocally, InHand, InQueue, Posting, Working, Good, Marked
<1>6. CASE Crash
  BY <1>6, PoolInvIsGood DEF Crash, Good, mainVars
<1>7. ASSUME \/ Stop \/ StopNotRunning \/ Release \/ ServerShutdown \/ ShutdownReturns
             \/ (\E q \in Queues : CloseQueue(q)) \/ DrainEvent \/ DrainEnd \/ Join
      PROVE  FALSE
  <2>1. main' \notin {"starting", "spawning", "serving"}
    BY <1>7 DEF Stop, StopNotRunning, Release, ServerShutdown, ShutdownReturns, CloseQueue,
                DrainEvent, DrainEnd, Join, mainVars
  <2> QED BY <2>1
<1> QED BY <1>1, <1>2, <1>3, <1>4, <1>5, <1>6, <1>7 DEF MainStep

(* The start and the order of the steps of start() and stop().             *)
LEMMA StartStep ==
    ASSUME StartInv, [Next]_vars
    PROVE  StartInv'
<1> SUFFICES ASSUME main' = "starting"
             PROVE  /\ main = "starting" /\ UNCHANGED <<pc, pool, listening, events, faults, crashed>>
  BY DEF StartInv
<1> USE DEF MainAt, At
<1>1. ASSUME NEW q \in Queues, ThreadStep(q) PROVE FALSE
  <2>1. main = "starting"
    BY <1>1 DEF ThreadStep, BootCreate, BootPost, NextEvent, NextEnd, Dispatch, Respawn, RespawnPost,
                Process, Write, MarkFinish, Remove, mainVars
  <2>2. pc[q] = "off"
    BY <2>1 DEF StartInv
  <2> QED BY <1>1, <2>2 DEF ThreadStep, BootCreate, BootPost, NextEvent, NextEnd, Dispatch, Respawn,
                RespawnPost, Process, Write, MarkFinish, Remove
<1>2. ASSUME NEW q \in Queues, Spawn(q) \/ CloseQueue(q) PROVE FALSE
  BY <1>2 DEF Spawn, CloseQueue
<1>3. ASSUME \/ Start \/ Release \/ ServerShutdown \/ ShutdownReturns \/ DrainEvent \/ DrainEnd
             \/ Join \/ Stop \/ StopNotRunning
      PROVE  FALSE
  BY <1>3 DEF Start, Release, ServerShutdown, ShutdownReturns, DrainEvent, DrainEnd, Join, Stop,
              StopNotRunning, mainVars
<1>4. ASSUME NEW c \in Calls, Match(c) PROVE FALSE
  BY <1>4 DEF Match, StartInv, mainVars
<1>5. ASSUME NEW c \in Calls, Send(c) \/ Lose(c)
      PROVE  main = "starting" /\ UNCHANGED <<pc, pool, listening, events, faults, crashed>>
  BY <1>5 DEF Send, Lose, mainVars, threadVars, poolVars
<1>6. ASSUME Crash PROVE FALSE
  BY <1>6 DEF Crash, StartInv, mainVars
<1>7. ASSUME UNCHANGED vars
      PROVE  main = "starting" /\ UNCHANGED <<pc, pool, listening, events, faults, crashed>>
  BY <1>7 DEF vars
<1> QED BY <1>1, <1>2, <1>3, <1>4, <1>5, <1>6, <1>7 DEF Next, MainStep, Ended

(* Every step keeps the invariant of the pool.                             *)
LEMMA PoolStep ==
    ASSUME TypeOK, TagInv, StartInv, PoolInv, [Next]_vars
    PROVE  PoolInv'
<1> USE DEF MainAt, At
<1>1. (BeforeStop => shut = {} /\ ~srvDown)'
  <2>1. ASSUME NEW q \in Queues, ThreadStep(q) PROVE UNCHANGED <<main, shut, srvDown>>
    BY <2>1 DEF ThreadStep, BootCreate, BootPost, NextEvent, NextEnd, Dispatch, Respawn, RespawnPost,
                Process, Write, MarkFinish, Remove, mainVars
  <2>2. ASSUME Start \/ \E q \in Queues : Spawn(q)
        PROVE  BeforeStop /\ UNCHANGED <<shut, srvDown>>
    BY <2>2 DEF Start, Spawn, BeforeStop
  <2>3. ASSUME \/ Stop \/ StopNotRunning \/ Release \/ ServerShutdown \/ ShutdownReturns
               \/ (\E q \in Queues : CloseQueue(q)) \/ DrainEvent \/ DrainEnd \/ Join
        PROVE  ~BeforeStop'
    BY <2>3 DEF Stop, StopNotRunning, Release, ServerShutdown, ShutdownReturns, CloseQueue,
                DrainEvent, DrainEnd, Join, BeforeStop, mainVars
  <2>4. ASSUME Crash \/ UNCHANGED vars \/ \E c \in Calls : Send(c) \/ Match(c) \/ Lose(c)
        PROVE  UNCHANGED <<main, shut, srvDown>>
    BY <2>4 DEF Crash, vars, Send, Match, Lose, mainVars
  <2> QED BY <2>1, <2>2, <2>3, <2>4 DEF Next, MainStep, Ended, PoolInv, BeforeStop
<1>2. ASSUME Calm' PROVE Good'
  <2>1. ASSUME NEW q \in Queues, ThreadStep(q) PROVE Good'
    <3>1. UNCHANGED <<main, bound, shut, srvDown>> /\ faults \subseteq faults'
      BY <2>1 DEF ThreadStep, BootCreate, BootPost, NextEvent, NextEnd, Dispatch, Respawn, RespawnPost,
                  PostRequest, Process, Write, MarkFinish, Remove, mainVars
    <3>2. Calm /\ BeforeStop /\ "data_race" \notin faults'
      BY <1>2, <3>1 DEF Calm, Quiet, BeforeStop
    <3>3. Good /\ bound /\ shut = {} /\ ~srvDown
      BY <3>2, PoolInvIsGood DEF Calm
    <3> QED BY <2>1, <3>2, <3>3, GoodThread
  <2> QED BY <1>2, <2>1, GoodRest DEF Next, Ended
<1> QED BY <1>1, <1>2, PoolInvIsGood DEF Calm, Quiet, BeforeStop, Good, Marked, Held, InQueue, InHand,
        HeldLocally, Working, Posting, PoolInv, SafeWhileServing, PoolExact

(* Every step keeps the inductive invariant.                               *)
LEMMA InvStep == IInv /\ [Next]_vars => IInv'
<1> SUFFICES ASSUME IInv, [Next]_vars PROVE IInv'
  OBVIOUS
<1>1. TypeOK /\ TagInv /\ StateInv /\ StartInv /\ PoolInv
  BY DEF IInv
<1>2. TypeOK'
  BY <1>1, TypeStep
<1>3. TagInv'
  BY <1>1, TagThread, TagRest DEF Next, Ended
<1>4. StateInv' /\ StartInv' /\ PoolInv'
  BY <1>1, StateThread, StateRest, StartStep, PoolStep DEF Next, Ended
<1> QED BY <1>2, <1>3, <1>4 DEF IInv

(* Until stop() begins, the missing lock of the pool is the only thing     *)
(* that can make the server use freed memory or abort, and the pool holds  *)
(* exactly the objects that gRPC or a thread still refers to.              *)
THEOREM InductiveInvariant == Spec => []IInv
<1>1. Init => IInv
  BY TypeInit, TagInit, StateInit, PoolInit DEF IInv
<1> QED BY <1>1, InvStep, PTL DEF Spec

(* See InductiveInvariant; the two halves under the names the runs check.  *)
THEOREM ServingIsSafe == Spec => []SafeWhileServing
<1>1. IInv => SafeWhileServing
  BY DEF IInv, PoolInv
<1> QED BY <1>1, InductiveInvariant, PTL

(* Until stop() begins, and while the map of the pool is not raced, it     *)
(* holds exactly the request objects that gRPC or a thread still refers to:*)
(* remove_rpc() is called neither too early nor never.                     *)
THEOREM PoolIsExact == Spec => []PoolExact
<1>1. IInv => PoolExact
  BY DEF IInv, PoolInv
<1> QED BY <1>1, InductiveInvariant, PTL

-----------------------------------------------------------------------------
(* What an abort needs.                                                    *)

(* A thread that takes a step is neither off nor done.                     *)
LEMMA ThreadIsOn ==
    ASSUME NEW q \in Queues, ThreadStep(q)
    PROVE  /\ ~crashed /\ pc[q] \notin {"off", "done"}
           /\ UNCHANGED mainVars
BY DEF ThreadStep, At, BootCreate, BootPost, NextEvent, NextEnd, Dispatch, Respawn, RespawnPost,
       Process, Write, MarkFinish, Remove

(* A dead process takes no step.                                           *)
LEMMA DeadStands ==
    ASSUME crashed, [Next]_vars
    PROVE  UNCHANGED vars
<1>1. ASSUME NEW q \in Queues, ThreadStep(q) PROVE FALSE
  BY <1>1, ThreadIsOn
<1>2. CASE MainStep \/ Stop \/ StopNotRunning
  BY <1>2 DEF MainStep, MainAt, Start, Spawn, Release, ServerShutdown, ShutdownReturns, CloseQueue,
     DrainEvent, DrainEnd, Join, Stop, StopNotRunning
<1>3. CASE Crash \/ \E c \in Calls : Send(c) \/ Match(c) \/ Lose(c)
  BY <1>3 DEF Crash, Send, Match, Lose
<1> QED BY <1>1, <1>2, <1>3 DEF Next, Ended

(* At first no call is served.                                             *)
LEMMA CallInit == Init => CallInv
BY DEF Init, CallInv, Executing

(* The thread has a request in hand that no one has answered.              *)
TakenUp(q) == Executing(q) \/ (pc[q] = "dispatch" /\ Fresh(got[q]))

(* Steps that answer nothing and take up only what is unanswered.          *)
LEMMA CallKept ==
    ASSUME CallInv, UNCHANGED <<serves, call>>,
           \A e \in events' : Fresh(e) => e \in events,
           \A q \in Queues : TakenUp(q)' => Unanswered(got'[q].tag)
    PROVE  CallInv'
<1>1. \A i : Unanswered(i)' <=> Unanswered(i)
  BY DEF Unanswered
<1>2. \A e \in events' : Fresh(e) => Unanswered(e.tag)'
  BY <1>1 DEF CallInv
<1>3. \A q \in Queues : TakenUp(q)' => Unanswered(got[q].tag)'
  BY DEF Unanswered
<1> QED BY <1>2, <1>3 DEF CallInv, TakenUp, Fresh

(* A thread answers the call of its own object only.                       *)
LEMMA CallWrite ==
    ASSUME TypeOK, TagInv, CallInv, NEW q \in Queues, Write(q)
    PROVE  CallInv'
<1> USE DEF At, Goto
<1> DEFINE i == got[q].tag
           c == serves[i]
<1>1. /\ i \in Ids /\ pc \in [Queues -> PcLabels] /\ call \in [Calls -> {"idle", "sent", "open", "ok", "failed"}]
      /\ serves \in [Ids -> Calls \cup {NoCall}]
  BY DEF TypeOK, ThreadsOK, GrpcOK, Event
<1>2. Unanswered(i) /\ c \in Calls
  <2>1. Unanswered(i)
    BY DEF Write, CallInv, Executing
  <2> QED BY <1>1, <2>1 DEF Unanswered
<1>3. /\ UNCHANGED <<serves, got>> /\ pc' = [pc EXCEPT ![q] = "mark"] /\ pc[q] = "write"
      /\ call' = call \/ call' = [call EXCEPT ![c] = "ok"]
      /\ \A e \in events' : e \in events \/ ~Fresh(e)
  BY DEF Write, Fresh
<1>4. \A j \in Ids : serves[j] # NoCall => call'[serves[j]] = call[serves[j]] \/ call'[serves[j]] = "ok"
  BY <1>1, <1>3
<1>5. \A j \in Ids : j # i /\ Unanswered(j) => Unanswered(j)'
  <2> SUFFICES ASSUME NEW j \in Ids, j # i, Unanswered(j) PROVE Unanswered(j)'
    OBVIOUS
  <2>1. serves[j] # c
    BY <1>1, <1>2 DEF CallInv, Unanswered
  <2> QED BY <1>1, <1>2, <1>3, <2>1 DEF Unanswered
<1>6. \A e \in events : e.tag \in Ids /\ e.tag # i
  BY <1>3 DEF TypeOK, GrpcOK, Event, TagInv, HandTags, Working
<1>7. \A r \in Queues : TakenUp(r)' => r # q /\ TakenUp(r)
  BY <1>1, <1>3 DEF TakenUp, Executing
<1>8. \A r \in Queues : TakenUp(r) /\ r # q => got[r].tag \in Ids /\ got[r].tag # i
  <2>1. \A r \in Queues : TakenUp(r) => Working(r)
    BY DEF TakenUp, Executing, Working
  <2>2. Working(q)
    BY <1>3 DEF Working
  <2> QED BY <2>1, <2>2 DEF TypeOK, ThreadsOK, Event, TagInv, HandTags
<1>9. \A e \in events' : Fresh(e) => Unanswered(e.tag)'
  BY <1>3, <1>5, <1>6 DEF CallInv
<1>10. \A r \in Queues : TakenUp(r)' => Unanswered(got[r].tag)'
  <2> SUFFICES ASSUME NEW r \in Queues, TakenUp(r)' PROVE Unanswered(got[r].tag)'
    OBVIOUS
  <2>1. r # q /\ TakenUp(r) /\ got[r].tag \in Ids /\ got[r].tag # i
    BY <1>7, <1>8
  <2>2. Unanswered(got[r].tag)
    BY <2>1 DEF CallInv, TakenUp
  <2> QED BY <1>3, <1>5, <2>1, <2>2 DEF Unanswered
<1>11. /\ \A j \in Ids : serves'[j] # NoCall => call'[serves'[j]] \notin {"idle", "sent"}
       /\ \A j, k \in Ids : serves'[j] # NoCall /\ serves'[j] = serves'[k] => j = k
  BY <1>3, <1>4 DEF CallInv
<1> QED BY <1>9, <1>10, <1>11 DEF CallInv, TakenUp, Fresh

(* A thread takes up what was not answered.                                *)
LEMMA CallThread ==
    ASSUME TypeOK, TagInv, StateInv, CallInv, NEW q \in Queues, ThreadStep(q)
    PROVE  CallInv'
<1> USE DEF At, Goto
<1>0. pc \in [Queues -> PcLabels] /\ got \in [Queues -> Event]
  BY DEF TypeOK, ThreadsOK
<1>1. CASE Write(q)
  BY <1>1, CallWrite
<1>2. CASE BootCreate(q) \/ BootPost(q)
  <2>1. /\ UNCHANGED <<serves, call, got>>
        /\ \A e \in events' : Fresh(e) => e \in events
        /\ pc[q] \in {"create", "post"}
        /\ \E l \in {"create", "post", "next"} : pc' = [pc EXCEPT ![q] = l]
    BY <1>2 DEF BootCreate, BootPost, PostRequest, Fresh, grpcVars
  <2>2. \A r \in Queues : TakenUp(r)' => TakenUp(r)
    BY <1>0, <2>1 DEF TakenUp, Executing, Fresh
  <2> QED BY <2>1, <2>2, CallKept DEF CallInv, TakenUp
<1>3. CASE NextEvent(q)
  <2>1. PICK e \in events : got' = [got EXCEPT ![q] = e] /\ events' = events \ {e}
    BY <1>3 DEF NextEvent
  <2>2. /\ got'[q] = e /\ pc'[q] = "dispatch"
        /\ \A r \in Queues : r # q => got'[r] = got[r] /\ pc'[r] = pc[r]
    BY <1>0, <1>3, <2>1 DEF NextEvent
  <2>3. \A r \in Queues : TakenUp(r)' => Unanswered(got'[r].tag)
    <3> SUFFICES ASSUME NEW r \in Queues, TakenUp(r)' PROVE Unanswered(got'[r].tag)
      OBVIOUS
    <3>1. CASE r = q
      BY <2>1, <2>2, <3>1 DEF TakenUp, Executing, CallInv, Fresh
    <3>2. CASE r # q
      BY <2>2, <3>2 DEF TakenUp, Executing, CallInv, Fresh
    <3> QED BY <3>1, <3>2
  <2> QED BY <1>3, <2>1, <2>3, CallKept DEF NextEvent
<1>4. CASE Dispatch(q)
  <2>1. /\ UNCHANGED <<serves, call, got, events>>
        /\ \A r \in Queues : r # q => pc'[r] = pc[r]
    BY <1>0, <1>4 DEF Dispatch, grpcVars
  <2>2. TakenUp(q)' => TakenUp(q)
    <3> SUFFICES ASSUME TakenUp(q)' PROVE TakenUp(q)
      OBVIOUS
    <3>1. pc'[q] = "respawn" /\ pc[q] = "dispatch" /\ got[q].ok /\ rpcState[got[q].tag] = "PROCESS"
      BY <1>0, <1>4 DEF Dispatch, TakenUp, Executing
    <3>2. got[q].kind = "request"
      BY <3>1 DEF StateInv, EventMatchesState
    <3> QED BY <3>1, <3>2 DEF TakenUp, Fresh
  <2>3. \A r \in Queues : TakenUp(r)' => TakenUp(r)
    BY <2>1, <2>2 DEF TakenUp, Executing, Fresh
  <2> QED BY <2>1, <2>3, CallKept DEF CallInv, TakenUp
<1>5. CASE NextEnd(q) \/ Respawn(q) \/ RespawnPost(q) \/ Process(q) \/ MarkFinish(q) \/ Remove(q)
  <2>1. /\ UNCHANGED <<serves, call, got>>
        /\ \A e \in events' : Fresh(e) => e \in events
    BY <1>5 DEF NextEnd, Respawn, RespawnPost, PostRequest, Process, MarkFinish, Remove, Fresh,
                grpcVars
  <2>2. \A r \in Queues : TakenUp(r)' => TakenUp(r)
    BY <1>0, <1>5, <2>1 DEF NextEnd, Respawn, RespawnPost, Process, MarkFinish, Remove, TakenUp,
                Executing, Fresh
  <2> QED BY <2>1, <2>2, CallKept DEF CallInv, TakenUp
<1> QED BY <1>1, <1>2, <1>3, <1>4, <1>5 DEF ThreadStep

(* gRPC matches a call that no object has served.                          *)
LEMMA CallMatch ==
    ASSUME TypeOK, TagInv, CallInv, NEW c \in Calls, Match(c)
    PROVE  CallInv'
<1>1. PICK i \in listening :
        /\ serves' = [serves EXCEPT ![i] = c]
        /\ events' = events \cup {[tag |-> i, kind |-> "request", ok |-> TRUE]}
  BY DEF Match
<1>2. /\ call[c] = "sent" /\ call' = [call EXCEPT ![c] = "open"] /\ UNCHANGED <<pc, got>>
      /\ i \in Ids /\ c # NoCall
      /\ call \in [Calls -> {"idle", "sent", "open", "ok", "failed"}]
      /\ serves \in [Ids -> Calls \cup {NoCall}]
  BY CallsAssumption DEF Match, TypeOK, GrpcOK, threadVars
<1>3. \A j \in Ids : serves[j] # c
  BY <1>2 DEF CallInv
<1>4. /\ serves'[i] = c /\ call'[c] = "open"
      /\ \A j \in Ids : j # i => serves'[j] = serves[j]
      /\ \A j \in Ids : serves[j] # NoCall => call'[serves[j]] = call[serves[j]]
  BY <1>1, <1>2, <1>3
<1>5. \A j \in Ids : (j # i /\ Unanswered(j) => Unanswered(j)') /\ Unanswered(i)'
  BY <1>2, <1>4 DEF Unanswered
<1>6. \A e \in events : e.tag \in Ids /\ e.tag # i
  BY DEF TagInv, ListeningTags, InQueue, TypeOK, GrpcOK, Event
<1>7. \A q \in Queues : TakenUp(q) => got[q].tag \in Ids /\ got[q].tag # i
  BY DEF TakenUp, Executing, TagInv, ListeningTags, InHand, Working, TypeOK, ThreadsOK, Event
<1>8. \A e \in events' : Fresh(e) => Unanswered(e.tag)'
  <2> SUFFICES ASSUME NEW e \in events', Fresh(e) PROVE Unanswered(e.tag)'
    OBVIOUS
  <2>1. CASE e \in events
    BY <1>5, <1>6, <2>1 DEF CallInv
  <2>2. CASE e.tag = i
    BY <1>2, <1>4, <2>2 DEF Unanswered
  <2> QED BY <1>1, <2>1, <2>2
<1>9. \A q \in Queues : TakenUp(q)' => Unanswered(got[q].tag)'
  <2> SUFFICES ASSUME NEW q \in Queues, TakenUp(q)' PROVE Unanswered(got[q].tag)'
    OBVIOUS
  <2>1. TakenUp(q)
    BY <1>2 DEF TakenUp, Executing, Fresh
  <2>2. Unanswered(got[q].tag)
    BY <2>1 DEF CallInv, TakenUp
  <2> QED BY <1>2, <1>4, <1>7, <2>1, <2>2 DEF Unanswered
<1>10. /\ \A j \in Ids : serves'[j] # NoCall => call'[serves'[j]] \notin {"idle", "sent"}
       /\ \A j, k \in Ids : serves'[j] # NoCall /\ serves'[j] = serves'[k] => j = k
  BY <1>2, <1>3, <1>4 DEF CallInv
<1> QED BY <1>2, <1>8, <1>9, <1>10 DEF CallInv, TakenUp, Fresh

(* Other steps answer no call and take none up.                            *)
LEMMA CallRest ==
    ASSUME TypeOK, TagInv, CallInv,
           \/ MainStep \/ Stop \/ StopNotRunning \/ Crash \/ UNCHANGED vars
           \/ \E c \in Calls : Send(c) \/ Match(c) \/ Lose(c)
    PROVE  CallInv'
<1>0. /\ call \in [Calls -> {"idle", "sent", "open", "ok", "failed"}]
      /\ serves \in [Ids -> Calls \cup {NoCall}]
      /\ \A e \in events : e.tag \in Ids
      /\ \A q \in Queues : got[q].tag \in Ids
  BY DEF TypeOK, GrpcOK, ThreadsOK, Event
<1>1. CASE \E q \in Queues : Spawn(q)
  <2>1. PICK q \in Queues : Spawn(q)
    BY <1>1
  <2>2. \A r \in Queues : TakenUp(r)' => TakenUp(r) /\ got'[r] = got[r]
    BY <2>1 DEF Spawn, Goto, TakenUp, Executing, Fresh, TypeOK, ThreadsOK
  <2> QED BY <2>1, <2>2, CallKept DEF Spawn, CallInv, TakenUp, grpcVars
<1>2. CASE \E c \in Calls : Match(c)
  BY <1>2, CallMatch
<1>3. ASSUME UNCHANGED <<serves, pc, got>>,
             \A e \in events' : Fresh(e) => e \in events,
             \A c \in Calls : call'[c] = call[c] \/ (call[c] = "idle" /\ call'[c] \in {"sent", "failed"})
                              \/ (call[c] \in {"sent", "open"} /\ call'[c] = "failed")
      PROVE  CallInv'
  <2>1. \A i \in Ids : serves[i] # NoCall =>
          /\ call'[serves[i]] \notin {"idle", "sent"}
          /\ Unanswered(i) => call'[serves[i]] \in {"open", "failed"}
    BY <1>0, <1>3 DEF CallInv, Unanswered
  <2>2. \A i \in Ids : Unanswered(i) => Unanswered(i)'
    BY <1>3, <2>1 DEF Unanswered
  <2>3. \A e \in events' : Fresh(e) => Unanswered(e.tag)'
    BY <1>0, <1>3, <2>2 DEF CallInv
  <2>4. \A q \in Queues : TakenUp(q)' => Unanswered(got[q].tag)'
    <3>1. \A q \in Queues : TakenUp(q)' => TakenUp(q)
      BY <1>3 DEF TakenUp, Executing, Fresh
    <3>2. \A q \in Queues : TakenUp(q) => Unanswered(got[q].tag)
      BY DEF CallInv, TakenUp
    <3> QED BY <1>0, <1>3, <2>2, <3>1, <3>2 DEF Unanswered
  <2> QED BY <1>3, <2>1, <2>3, <2>4 DEF CallInv, TakenUp, Fresh
<1>4. CASE ServerShutdown
  <2>1. \A e \in events' : Fresh(e) => e \in events
    BY <1>4 DEF ServerShutdown, Fresh
  <2>2. \A c \in Calls : call'[c] = call[c] \/ (call[c] = "sent" /\ call'[c] = "failed")
    BY <1>4 DEF ServerShutdown
  <2> QED BY <1>3, <1>4, <2>1, <2>2 DEF ServerShutdown, threadVars
<1>5. CASE \E c \in Calls : Send(c) \/ Lose(c)
  <2>1. \A c \in Calls : call'[c] = call[c] \/ (call[c] = "idle" /\ call'[c] \in {"sent", "failed"})
                         \/ (call[c] \in {"sent", "open"} /\ call'[c] = "failed")
    BY <1>0, <1>5 DEF Send, Lose
  <2> QED BY <1>3, <1>5, <2>1 DEF Send, Lose, threadVars
<1>6. CASE \/ Start \/ Release \/ ShutdownReturns \/ (\E q \in Queues : CloseQueue(q)) \/ DrainEvent
           \/ DrainEnd \/ Join \/ Stop \/ StopNotRunning \/ Crash \/ UNCHANGED vars
  <2>1. UNCHANGED <<serves, pc, got, call>> /\ events' \subseteq events
    BY <1>6 DEF Start, Release, ShutdownReturns, CloseQueue, DrainEvent, DrainEnd, Join, Stop,
         StopNotRunning, Crash, vars, threadVars, grpcVars
  <2> QED BY <1>3, <2>1
<1> QED BY <1>1, <1>2, <1>4, <1>5, <1>6 DEF MainStep

(* At first nothing is closed.                                             *)
LEMMA CloseInit == Init => CloseInv
BY DEF Init, CloseInv, BeforeStop, Closing

(* A thread starts no stop, opens no call, and boots only once.            *)
LEMMA CloseThread ==
    ASSUME TypeOK, CloseInv, NEW q \in Queues, ThreadStep(q)
    PROVE  CloseInv'
<1>1. UNCHANGED mainVars /\ ~crashed
  BY ThreadIsOn
<1>2. \A c \in Calls : call'[c] = "open" => call[c] = "open"
  <2>1. CASE Write(q)
    BY <2>1 DEF Write, TypeOK, GrpcOK
  <2>2. CASE ~Write(q)
    BY <2>2 DEF ThreadStep, BootCreate, BootPost, NextEvent, NextEnd, Dispatch, Respawn,
                RespawnPost, Process, MarkFinish, Remove, grpcVars
  <2> QED BY <2>1, <2>2
<1>3. \A r \in Queues : Booting(r)' => Booting(r)
  BY DEF Booting, TypeOK, ThreadsOK, At, Goto, ThreadStep, BootCreate, BootPost, NextEvent,
         NextEnd, Dispatch, Respawn, RespawnPost, Process, Write, MarkFinish, Remove
<1> QED BY <1>1, <1>2, <1>3 DEF CloseInv, BeforeStop, Closing, mainVars

(* stop() closes the queues after the wait of Shutdown(), and a server     *)
(* that is down matches no call.                                           *)
LEMMA CloseRest ==
    ASSUME TypeOK, CloseInv,
           \/ MainStep \/ Stop \/ StopNotRunning \/ Crash \/ UNCHANGED vars
           \/ \E c \in Calls : Send(c) \/ Match(c) \/ Lose(c)
    PROVE  CloseInv'
<1> USE DEF CloseInv, BeforeStop, Closing, MainAt
<1>0. call \in [Calls -> {"idle", "sent", "open", "ok", "failed"}]
  BY DEF TypeOK, GrpcOK
<1>1. CASE Start \/ \E q \in Queues : Spawn(q)
  BY <1>1 DEF Start, Spawn, grpcVars
<1>2. CASE ServerShutdown
  <2>1. \A c \in Calls : call'[c] = "open" => call[c] = "open"
    BY <1>2 DEF ServerShutdown
  <2> QED BY <1>2, <2>1 DEF ServerShutdown, Booting, threadVars
<1>3. CASE ShutdownReturns
  BY <1>3 DEF ShutdownReturns, Booting, threadVars, grpcVars
<1>4. CASE \/ Release \/ (\E q \in Queues : CloseQueue(q)) \/ DrainEvent \/ DrainEnd \/ Join
           \/ UNCHANGED vars
  <2>1. CASE Release \/ \E q \in Queues : CloseQueue(q)
    BY <2>1 DEF Release, CloseQueue, Booting, threadVars, grpcVars
  <2>2. CASE DrainEvent \/ UNCHANGED vars
    BY <2>2 DEF DrainEvent, Booting, threadVars, mainVars, vars
  <2>3. CASE DrainEnd \/ Join
    BY <2>3 DEF DrainEnd, Join, Booting, threadVars, grpcVars
  <2> QED BY <1>4, <2>1, <2>2, <2>3
<1>5. CASE Stop
  BY <1>5 DEF Stop, Booting, threadVars, grpcVars
<1>6. CASE StopNotRunning \/ Crash
  BY <1>6 DEF StopNotRunning, Crash, grpcVars, mainVars
<1>7. CASE \E c \in Calls : Send(c) \/ Match(c) \/ Lose(c)
  <2>1. PICK c \in Calls : Send(c) \/ Match(c) \/ Lose(c)
    BY <1>7
  <2>2. /\ UNCHANGED <<mainVars, crashed, pc>>
        /\ \A d \in Calls : call'[d] = "open" => call[d] = "open" \/ ~srvDown
    BY <1>0, <2>1 DEF Send, Match, Lose, Serving, mainVars, threadVars
  <2> QED BY <2>2 DEF Booting, mainVars
<1> QED BY <1>1, <1>2, <1>3, <1>4, <1>5, <1>6, <1>7 DEF MainStep

(* An operation on a queue that is shut down is the last thing the process *)
(* does.                                                                   *)
AbortInv == ("shut_queue_op" \in faults => crashed) /\ AbortNeedsCause

(* Only three steps of a thread operate on a queue.                        *)
LEMMA OtherFaults ==
    ASSUME ~crashed, [Next]_vars, "shut_queue_op" \notin faults, "shut_queue_op" \in faults'
    PROVE  \E q \in shut : /\ q \in Queues
                           /\ BootPost(q) \/ RespawnPost(q) \/ Write(q)
<1>1. CASE \E q \in Queues : ThreadStep(q)
  <2>1. PICK q \in Queues : ThreadStep(q)
    BY <1>1
  <2>2. BootPost(q) \/ RespawnPost(q) \/ Write(q)
    BY <2>1 DEF ThreadStep, BootCreate, NextEvent, NextEnd, Dispatch, Respawn, Process,
                MarkFinish, Remove, Touch, RaceFault
  <2>3. q \in shut
    BY <2>2 DEF BootPost, RespawnPost, Write, PostRequest, Touch
  <2> QED BY <2>2, <2>3
<1>2. CASE MainStep \/ Stop \/ StopNotRunning
  <2>1. faults' = faults \/ Release \/ StopNotRunning
    BY <1>2 DEF MainStep, Start, Spawn, ServerShutdown, ShutdownReturns, CloseQueue, DrainEvent,
                DrainEnd, Join, Stop
  <2>2. faults' \subseteq faults \cup {"data_race", "joinable_thread"}
    BY <2>1 DEF Release, StopNotRunning, RaceFault
  <2> QED BY <2>2
<1>3. CASE Crash \/ UNCHANGED vars \/ \E c \in Calls : Send(c) \/ Match(c) \/ Lose(c)
  BY <1>3 DEF Crash, Send, Match, Lose, vars
<1> QED BY <1>1, <1>2, <1>3 DEF Next, Ended

(* A thread that meets its queue shut down is booting after a stop() that  *)
(* came early, or works for a call that Shutdown() did not wait for.       *)
LEMMA AbortMeets ==
    ASSUME TypeOK, CallInv, CloseInv, ~crashed, [Next]_vars,
           "shut_queue_op" \notin faults, "shut_queue_op" \in faults'
    PROVE  /\ crashed' /\ UNCHANGED <<call, serves, earlyStop>>
           /\ \/ earlyStop
              \/ \E q \in Queues : /\ Working(q) /\ got[q].tag \in Ids
                                   /\ serves[got[q].tag] # NoCall
                                   /\ call[serves[got[q].tag]] = "failed"
<1>1. PICK q \in shut : q \in Queues /\ (BootPost(q) \/ RespawnPost(q) \/ Write(q))
  BY OtherFaults
<1>2. crashed' /\ call' = call /\ UNCHANGED <<serves, earlyStop>>
  BY <1>1 DEF BootPost, RespawnPost, Write, PostRequest, mainVars
<1>3. shut # {} /\ ~BeforeStop /\ \A c \in Calls : call[c] # "open"
  BY <1>1 DEF CloseInv
<1>4. CASE BootPost(q)
  <2>1. Booting(q)
    BY <1>4 DEF BootPost, At, Booting
  <2> QED BY <1>1, <1>2, <1>3, <2>1 DEF CloseInv
<1>5. CASE RespawnPost(q) \/ Write(q)
  <2>1. Unanswered(got[q].tag) /\ Working(q)
    BY <1>1, <1>5 DEF RespawnPost, Write, At, Executing, CallInv, Working
  <2>2. got[q].tag \in Ids /\ serves \in [Ids -> Calls \cup {NoCall}]
    BY <1>1 DEF TypeOK, ThreadsOK, GrpcOK, Event
  <2>3. serves[got[q].tag] # NoCall /\ call[serves[got[q].tag]] = "failed"
    BY <1>3, <2>1, <2>2 DEF Unanswered
  <2> QED BY <1>1, <1>2, <2>1, <2>2, <2>3
<1> QED BY <1>1, <1>4, <1>5

(* So every abort has its cause.                                           *)
LEMMA AbortStep ==
    ASSUME TypeOK, CallInv, CloseInv, AbortInv, [Next]_vars
    PROVE  AbortInv'
<1>1. CASE crashed
  <2>1. UNCHANGED vars
    BY <1>1, DeadStands
  <2> QED BY <2>1 DEF AbortInv, AbortNeedsCause, vars
<1>2. CASE ~crashed /\ "shut_queue_op" \in faults'
  BY <1>2, AbortMeets DEF AbortInv, AbortNeedsCause
<1>3. CASE "shut_queue_op" \notin faults'
  BY <1>3 DEF AbortInv, AbortNeedsCause
<1> QED BY <1>1, <1>2, <1>3

(* The process is aborted on a queue that is shut down only if stop() came *)
(* before every thread had posted its first requests, or if Shutdown() did *)
(* not wait for a call because its client had gone.                        *)
THEOREM AbortsHaveACause == Spec => []AbortNeedsCause
<1>1. Init => CallInv /\ CloseInv /\ AbortInv
  BY CallInit, CloseInit DEF Init, AbortInv, AbortNeedsCause
<1>2. IInv /\ CallInv /\ CloseInv /\ AbortInv /\ [Next]_vars => (CallInv /\ CloseInv /\ AbortInv)'
  <2> SUFFICES ASSUME IInv, CallInv, CloseInv, AbortInv, [Next]_vars
               PROVE  CallInv' /\ CloseInv' /\ AbortInv'
    OBVIOUS
  <2>1. TypeOK /\ TagInv /\ StateInv
    BY DEF IInv
  <2>2. CallInv'
    BY <2>1, CallThread, CallRest DEF Next, Ended
  <2>3. CloseInv'
    BY <2>1, CloseThread, CloseRest DEF Next, Ended
  <2> QED BY <2>1, <2>2, <2>3, AbortStep
<1>3. AbortInv => AbortNeedsCause
  BY DEF AbortInv
<1> QED BY <1>1, <1>2, <1>3, InductiveInvariant, PTL DEF Spec

-----------------------------------------------------------------------------
(* The listeners of the methods.                                           *)

(* A method is booted at one place.                                        *)
LEMMA BootedOnce ==
    ASSUME NEW q \in Queues, NEW j \in 1..Len(BootList(q)), NEW k \in 1..Len(BootList(q)),
           BootList(q)[j] = BootList(q)[k]
    PROVE  j = k
<1>1. CASE q = CommonQueue
  BY <1>1, RpcsAssumption DEF BootList
<1>2. CASE q # CommonQueue
  BY <1>2 DEF BootList
<1> QED BY <1>1, <1>2

(* What a thread has taken from its queue for a new call.                  *)
Taken(q, i) == /\ got[q].tag = i
               /\ pc[q] = "respawn" \/ (pc[q] = "dispatch" /\ Fresh(got[q]))

(* Where an awaiting object can be.                                        *)
LEMMA WhereAwaiting ==
    ASSUME NEW i
    PROVE  Awaiting(i) <=> \/ i \in listening \/ HeldLocally(i)
                           \/ \E e \in events : e.tag = i /\ Fresh(e)
                           \/ \E q \in Queues : Taken(q, i)
BY DEF Awaiting, Taken

(* It has an id already.                                                   *)
LEMMA AwaitingIsOld ==
    ASSUME TypeOK, TagInv, NEW i, Awaiting(i)
    PROVE  i \in Ids /\ i < nextId
<1>1. CASE i \in listening
  BY <1>1 DEF TypeOK, GrpcOK, TagInv, ListeningTags
<1>2. CASE HeldLocally(i)
  BY <1>2 DEF TypeOK, ThreadsOK, TagInv, PostTags, HeldLocally
<1>3. CASE \E e \in events : e.tag = i
  BY <1>3 DEF TypeOK, GrpcOK, Event, TagInv, QueuedTags
<1>4. CASE \E q \in Queues : Taken(q, i)
  BY <1>4 DEF Taken, Working, TypeOK, ThreadsOK, Event, TagInv, HandTags
<1> QED BY <1>1, <1>2, <1>3, <1>4, WhereAwaiting

(* At first nothing is posted.                                             *)
LEMMA ChainInit == Init => ChainInv
<1> SUFFICES ASSUME Init PROVE ChainInv
  OBVIOUS
<1>1. \A q \in Queues : booted[q] = 0 /\ pc[q] = "off" /\ Len(BootList(q)) \in Nat
  BY BootListTyped DEF Init
<1> QED BY <1>1 DEF Init, ChainInv, Serving

(* No thread runs before start().                                          *)
LEMMA StartedFirst ==
    ASSUME ChainInv, NEW q \in Queues, ThreadStep(q)
    PROVE  main # "starting" /\ main' # "starting"
<1>1. pc[q] # "off" /\ main' = main
  BY ThreadIsOn DEF mainVars
<1> QED BY <1>1 DEF ChainInv

(* Steps that change neither the objects nor which of them await a call.   *)
LEMMA ChainKept ==
    ASSUME TypeOK, ChainInv, UNCHANGED <<booted, home, method, fresh>>,
           main' = "starting" => main = "starting" /\ UNCHANGED <<pc, listening, events>>,
           \A q \in Queues : pc'[q] = "post" <=> pc[q] = "post",
           (Serving /\ ~crashed)' =>
               Serving /\ ~crashed /\ \A i \in Ids : Awaiting(i)' <=> Awaiting(i)
    PROVE  ChainInv'
<1>1. ASSUME (Serving /\ ~crashed)' PROVE OneWaits'
  <2>1. \A q \in Queues : \A k : \A i \in Ids : WaitsFor(q, k, i)' <=> WaitsFor(q, k, i)
    BY <1>1 DEF WaitsFor, BootList
  <2>2. OneWaits
    BY <1>1 DEF ChainInv
  <2> QED BY <2>1, <2>2 DEF OneWaits, BootList
<1>2. \A q \in Queues : booted'[q] <= Len(BootList(q))
  BY DEF ChainInv
<1>3. \A q \in Queues : pc'[q] = "post" => method'[fresh'[q]] = BootList(q)[booted'[q] + 1]
  BY DEF ChainInv
<1> QED BY <1>1, <1>2, <1>3 DEF ChainInv, BootList

(* create_rpc(), by a thread that boots or that takes up a call.           *)
Creates(q, m) ==
    /\ Insert(q, m)
    /\ \/ pc[q] = "create" /\ pc' = [pc EXCEPT ![q] = "post"]
       \/ pc[q] = "respawn" /\ pc' = [pc EXCEPT ![q] = "repost"]
    /\ UNCHANGED <<got, listening, events>>

(* A created object awaits calls in place of the one whose call it follows.*)
LEMMA AwaitInsert ==
    ASSUME TypeOK, TagInv, NEW q \in Queues, NEW m \in Methods, Creates(q, m),
           NEW n, n = nextId
    PROVE  /\ n \in Ids /\ ~Awaiting(n) /\ Awaiting(n)'
           /\ home'[n] = q /\ method'[n] = m /\ fresh'[q] = n
           /\ \A i \in Ids : i # n =>
                /\ home'[i] = home[i] /\ method'[i] = method[i]
                /\ Awaiting(i)' <=> Awaiting(i) /\ ~Taken(q, i)
           /\ \A r \in Queues : r # q => fresh'[r] = fresh[r] /\ pc'[r] = pc[r]
<1> USE DEF Creates
<1>1. n \in Ids /\ n \in Int /\ ~(n < nextId)
  BY MaxRpcsAssumption DEF Insert, TypeOK, PoolOK, Ids
<1>2. ~Awaiting(n)
  BY <1>1, AwaitingIsOld
<1>3. /\ home'[n] = q /\ method'[n] = m /\ fresh'[q] = n
      /\ \A i \in Ids : i # n => home'[i] = home[i] /\ method'[i] = method[i]
      /\ \A r \in Queues : r # q => fresh'[r] = fresh[r] /\ pc'[r] = pc[r]
      /\ Posting(q)' /\ ~Posting(q) /\ pc'[q] \notin {"dispatch", "respawn"}
  BY <1>1 DEF Insert, Posting, TypeOK, RpcsOK, ThreadsOK
<1>4. \A i : HeldLocally(i)' <=> (HeldLocally(i) \/ i = n)
  BY <1>3 DEF HeldLocally, Posting
<1>5. Awaiting(n)'
  BY <1>4 DEF Awaiting
<1>6. \A i : (\E r \in Queues : Taken(r, i)') <=> \E r \in Queues \ {q} : Taken(r, i)
  BY <1>3 DEF Taken, Fresh
<1>7. \A i : Taken(q, i) => /\ i \notin listening /\ ~HeldLocally(i)
                            /\ ~\E e \in events : e.tag = i
                            /\ ~\E r \in Queues \ {q} : Taken(r, i)
  <2> SUFFICES ASSUME NEW i, Taken(q, i)
               PROVE  /\ i \notin listening /\ ~HeldLocally(i)
                      /\ ~\E e \in events : e.tag = i
                      /\ ~\E r \in Queues \ {q} : Taken(r, i)
    OBVIOUS
  <2>1. got[q].tag = i /\ Working(q) /\ pc[q] # "mark"
    BY DEF Taken, Working
  <2>2. home[i] = q /\ ~HeldLocally(i) /\ i \notin listening /\ ~\E e \in events : e.tag = i
    BY <2>1 DEF TagInv, HandTags, ListeningTags, InHand
  <2>3. \A r \in Queues : Taken(r, i) => home[i] = r
    BY DEF Taken, Working, TagInv, HandTags
  <2> QED BY <2>2, <2>3
<1>8. \A i \in Ids : i # n => (Awaiting(i)' <=> Awaiting(i) /\ ~Taken(q, i))
  <2> SUFFICES ASSUME NEW i \in Ids, i # n PROVE Awaiting(i)' <=> Awaiting(i) /\ ~Taken(q, i)
    OBVIOUS
  <2>1. Awaiting(i)' <=> \/ i \in listening \/ HeldLocally(i)
                         \/ \E e \in events : e.tag = i /\ Fresh(e)
                         \/ \E r \in Queues \ {q} : Taken(r, i)
    BY <1>4, <1>6 DEF Awaiting, Taken, Fresh
  <2> QED BY <2>1, <1>7, WhereAwaiting
<1> QED BY <1>1, <1>2, <1>3, <1>5, <1>8

(* A thread creates the first object of a method, and none waits for it    *)
(* yet.                                                                    *)
LEMMA ChainBootCreate ==
    ASSUME TypeOK, TagInv, ChainInv, NEW q \in Queues, BootCreate(q)
    PROVE  ChainInv'
<1> USE DEF At, Goto
<1> DEFINE b == booted[q] + 1
           m == BootList(q)[b]
<1>0. PICK n : n = nextId
  OBVIOUS
<1>1. /\ Insert(q, m) /\ pc[q] = "create" /\ pc' = [pc EXCEPT ![q] = "post"]
      /\ UNCHANGED <<booted, got, listening, events, main, bound, srvDown, crashed>>
  BY DEF BootCreate, grpcVars, mainVars
<1>2. b \in 1..Len(BootList(q)) /\ m \in Methods /\ \A r \in Queues : booted[r] \in Nat
  BY <1>1, BootListTyped DEF TypeOK, ThreadsOK
<1>3. /\ n \in Ids /\ ~Awaiting(n) /\ Awaiting(n)'
      /\ home'[n] = q /\ method'[n] = m /\ fresh'[q] = n
      /\ \A i \in Ids : i # n => /\ home'[i] = home[i] /\ method'[i] = method[i]
                                 /\ Awaiting(i)' <=> Awaiting(i)
      /\ \A r \in Queues : r # q => fresh'[r] = fresh[r] /\ pc'[r] = pc[r]
      /\ pc'[q] = "post"
  <2>1. /\ n \in Ids /\ ~Awaiting(n) /\ Awaiting(n)'
        /\ home'[n] = q /\ method'[n] = m /\ fresh'[q] = n
        /\ \A i \in Ids : i # n => /\ home'[i] = home[i] /\ method'[i] = method[i]
                                   /\ Awaiting(i)' <=> Awaiting(i) /\ ~Taken(q, i)
        /\ \A r \in Queues : r # q => fresh'[r] = fresh[r] /\ pc'[r] = pc[r]
    <3>1. Creates(q, m) /\ m \in Methods
      BY <1>1, <1>2 DEF Creates
    <3> QED BY <1>0, <3>1, AwaitInsert
  <2>2. \A i : ~Taken(q, i)
    BY <1>1 DEF Taken
  <2>3. pc'[q] = "post"
    BY <1>1 DEF TypeOK, ThreadsOK
  <2> QED BY <2>1, <2>2, <2>3
<1>4. \A r \in Queues : pc'[r] = "post" => method'[fresh'[r]] = BootList(r)[booted[r] + 1]
  <2>1. \A r \in Queues : pc[r] = "post" => fresh[r] \in Ids /\ fresh[r] # n
    BY <1>0, MaxRpcsAssumption DEF TagInv, PostTags, Posting, TypeOK, ThreadsOK, PoolOK, Ids
  <2> QED BY <1>3, <2>1 DEF ChainInv
<1>5. ASSUME Serving /\ ~crashed PROVE OneWaits'
  <2> SUFFICES ASSUME NEW r \in Queues, NEW k \in 1..Len(BootList(r))
               PROVE  /\ k <= booted[r] =>
                           /\ \E i \in Ids : WaitsFor(r, k, i)'
                           /\ \A i, j \in Ids : WaitsFor(r, k, i)' /\ WaitsFor(r, k, j)' => i = j
                      /\ k > booted[r] => \A i \in Ids : WaitsFor(r, k, i)' =>
                           pc'[r] = "post" /\ k = booted[r] + 1 /\ i = fresh'[r]
    BY <1>1 DEF OneWaits, BootList
  <2>1. WaitsFor(r, k, n)' <=> r = q /\ k = b
    BY <1>2, <1>3, BootedOnce DEF WaitsFor, BootList
  <2>2. \A i \in Ids : i # n => (WaitsFor(r, k, i)' <=> WaitsFor(r, k, i))
    BY <1>3 DEF WaitsFor, BootList
  <2>3. ~WaitsFor(r, k, n)
    BY <1>3 DEF WaitsFor
  <2>4. CASE k <= booted[r]
    <3>1. ~WaitsFor(r, k, n)'
      BY <1>2, <2>1, <2>4
    <3>2. \A i \in Ids : WaitsFor(r, k, i)' <=> WaitsFor(r, k, i)
      BY <2>2, <2>3, <3>1
    <3> QED BY <1>2, <1>5, <2>4, <3>2 DEF ChainInv, OneWaits
  <2>5. CASE k > booted[r]
    <3>1. \A i \in Ids : WaitsFor(r, k, i) =>
            pc[r] = "post" /\ k = booted[r] + 1 /\ i = fresh[r] /\ r # q
      BY <1>1, <1>5, <2>5 DEF ChainInv, OneWaits
    <3> QED BY <1>2, <1>3, <2>1, <2>2, <2>5, <3>1
  <2> QED BY <1>2, <2>4, <2>5
<1>6. (Serving /\ ~crashed)' => Serving /\ ~crashed
  BY <1>1 DEF Serving
<1>7. main' # "starting"
  BY StartedFirst DEF ThreadStep
<1> QED BY <1>1, <1>4, <1>5, <1>6, <1>7 DEF ChainInv, BootList

(* A thread that takes up a call hands the wait to a new object.           *)
LEMMA ChainRespawn ==
    ASSUME TypeOK, TagInv, ChainInv, NEW q \in Queues, Respawn(q)
    PROVE  ChainInv'
<1> USE DEF At, Goto
<1> DEFINE o == got[q].tag
           m == method[o]
<1>0. PICK n : n = nextId
  OBVIOUS
<1>1. /\ Insert(q, m) /\ pc[q] = "respawn" /\ pc' = [pc EXCEPT ![q] = "repost"]
      /\ UNCHANGED <<booted, got, listening, events, main, bound, srvDown, crashed>>
  BY DEF Respawn, grpcVars, mainVars
<1>2. o \in Ids /\ m \in Methods /\ home[o] = q /\ Awaiting(o) /\ \A r \in Queues : booted[r] \in Nat
  BY <1>1 DEF TypeOK, ThreadsOK, RpcsOK, Event, TagInv, HandTags, Working, Awaiting
<1>3. /\ n \in Ids /\ ~Awaiting(n) /\ Awaiting(n)'
      /\ home'[n] = q /\ method'[n] = m /\ fresh'[q] = n
      /\ \A i \in Ids : i # n => /\ home'[i] = home[i] /\ method'[i] = method[i]
                                 /\ Awaiting(i)' <=> Awaiting(i) /\ i # o
      /\ \A r \in Queues : r # q => fresh'[r] = fresh[r] /\ pc'[r] = pc[r]
      /\ pc'[q] = "repost"
  <2>1. /\ n \in Ids /\ ~Awaiting(n) /\ Awaiting(n)'
        /\ home'[n] = q /\ method'[n] = m /\ fresh'[q] = n
        /\ \A i \in Ids : i # n => /\ home'[i] = home[i] /\ method'[i] = method[i]
                                   /\ Awaiting(i)' <=> Awaiting(i) /\ ~Taken(q, i)
        /\ \A r \in Queues : r # q => fresh'[r] = fresh[r] /\ pc'[r] = pc[r]
    <3>1. Creates(q, m) /\ m \in Methods
      BY <1>1, <1>2 DEF Creates
    <3> QED BY <1>0, <3>1, AwaitInsert
  <2>2. \A i : Taken(q, i) <=> i = o
    BY <1>1 DEF Taken
  <2>3. pc'[q] = "repost"
    BY <1>1 DEF TypeOK, ThreadsOK
  <2> QED BY <2>1, <2>2, <2>3
<1>4. \A r \in Queues : pc'[r] = "post" => method'[fresh'[r]] = BootList(r)[booted[r] + 1]
  <2>1. \A r \in Queues : pc[r] = "post" => fresh[r] \in Ids /\ fresh[r] # n
    BY <1>0, MaxRpcsAssumption DEF TagInv, PostTags, Posting, TypeOK, ThreadsOK, PoolOK, Ids
  <2> QED BY <1>3, <2>1 DEF ChainInv
<1>5. ASSUME Serving /\ ~crashed PROVE OneWaits'
  <2> SUFFICES ASSUME NEW r \in Queues, NEW k \in 1..Len(BootList(r))
               PROVE  /\ k <= booted[r] =>
                           /\ \E i \in Ids : WaitsFor(r, k, i)'
                           /\ \A i, j \in Ids : WaitsFor(r, k, i)' /\ WaitsFor(r, k, j)' => i = j
                      /\ k > booted[r] => \A i \in Ids : WaitsFor(r, k, i)' =>
                           pc'[r] = "post" /\ k = booted[r] + 1 /\ i = fresh'[r]
    BY <1>1 DEF OneWaits, BootList
  <2>1. WaitsFor(r, k, n)' <=> WaitsFor(r, k, o)
    BY <1>2, <1>3 DEF WaitsFor, BootList
  <2>2. \A i \in Ids : i # n => (WaitsFor(r, k, i)' <=> WaitsFor(r, k, i) /\ i # o)
    BY <1>3 DEF WaitsFor, BootList
  <2>3. ~WaitsFor(r, k, n)
    BY <1>3 DEF WaitsFor
  <2>4. CASE k <= booted[r]
    <3>1. PICK w \in Ids : WaitsFor(r, k, w)
      BY <1>5, <2>4 DEF ChainInv, OneWaits
    <3>2. \A i \in Ids : WaitsFor(r, k, i) => i = w
      BY <1>5, <2>4, <3>1 DEF ChainInv, OneWaits
    <3>3. CASE w = o
      <4>1. n \in Ids /\ WaitsFor(r, k, n)'
        BY <1>3, <2>1, <3>1, <3>3
      <4>2. \A i \in Ids : WaitsFor(r, k, i)' => i = n
        BY <2>2, <3>2, <3>3
      <4> QED BY <1>2, <2>4, <4>1, <4>2
    <3>4. CASE w # o
      <4>1. ~WaitsFor(r, k, n)'
        BY <1>2, <2>1, <3>2, <3>4
      <4>2. WaitsFor(r, k, w)'
        BY <2>2, <2>3, <3>1, <3>4
      <4>3. \A i \in Ids : WaitsFor(r, k, i)' => i = w
        BY <2>2, <3>2, <4>1
      <4> QED BY <1>2, <2>4, <4>2, <4>3
    <3> QED BY <3>3, <3>4
  <2>5. CASE k > booted[r]
    <3>1. \A i \in Ids : WaitsFor(r, k, i) =>
            pc[r] = "post" /\ k = booted[r] + 1 /\ i = fresh[r] /\ r # q
      BY <1>1, <1>5, <2>5 DEF ChainInv, OneWaits
    <3>2. ~WaitsFor(r, k, o)
      BY <1>2, <3>1 DEF WaitsFor
    <3> QED BY <1>2, <1>3, <2>1, <2>2, <2>5, <3>1, <3>2
  <2> QED BY <1>2, <2>4, <2>5
<1>6. (Serving /\ ~crashed)' => Serving /\ ~crashed
  BY <1>1 DEF Serving
<1>7. main' # "starting"
  BY StartedFirst DEF ThreadStep
<1> QED BY <1>1, <1>4, <1>5, <1>6, <1>7 DEF ChainInv, BootList

(* A request posted on a server that is up goes on waiting, with gRPC.     *)
LEMMA AwaitPost ==
    ASSUME TypeOK, Serving, NEW q \in Queues, PostRequest(q),
           \/ pc[q] = "post" /\ \E l \in {"create", "next"} : pc' = [pc EXCEPT ![q] = l]
           \/ pc[q] = "repost" /\ pc' = [pc EXCEPT ![q] = "process"],
           UNCHANGED <<got, fresh>>,
           NEW i
    PROVE  Awaiting(i)' <=> Awaiting(i)
<1>1. listening' = listening \cup {fresh[q]} /\ events' = events
  BY DEF PostRequest, Serving
<1>2. /\ \A r \in Queues \ {q} : Posting(r)' <=> Posting(r)
      /\ ~Posting(q)' /\ Posting(q)
  BY DEF Posting, TypeOK, ThreadsOK
<1>3. i # fresh[q] => (HeldLocally(i)' <=> HeldLocally(i))
  BY <1>2 DEF HeldLocally
<1>4. \A r \in Queues : Taken(r, i)' <=> Taken(r, i)
  BY DEF Taken, Fresh, TypeOK, ThreadsOK
<1>5. Awaiting(i)' <=> \/ i \in listening' \/ HeldLocally(i)'
                       \/ \E e \in events : e.tag = i /\ Fresh(e)
                       \/ \E r \in Queues : Taken(r, i)
  BY <1>1, <1>4 DEF Awaiting, Taken, Fresh
<1>6. CASE i = fresh[q]
  <2>1. HeldLocally(i) /\ i \in listening'
    BY <1>1, <1>2, <1>6 DEF HeldLocally
  <2> QED BY <1>5, <2>1, WhereAwaiting
<1>7. CASE i # fresh[q]
  BY <1>1, <1>3, <1>5, <1>7, WhereAwaiting
<1> QED BY <1>6, <1>7

(* With its first request posted, a method has its one object.             *)
LEMMA ChainBootPost ==
    ASSUME TypeOK, TagInv, ChainInv, NEW q \in Queues, BootPost(q)
    PROVE  ChainInv'
<1> USE DEF At, Goto
<1>1. /\ PostRequest(q) /\ pc[q] = "post" /\ ~crashed
      /\ booted' = [booted EXCEPT ![q] = booted[q] + 1]
      /\ UNCHANGED <<got, fresh, home, method, main, bound, srvDown>>
      /\ \E l \in {"create", "next"} : pc' = [pc EXCEPT ![q] = l]
  BY DEF BootPost, mainVars
<1>2. /\ booted[q] \in Nat /\ booted[q] < Len(BootList(q)) /\ Len(BootList(q)) \in Nat
      /\ booted'[q] = booted[q] + 1 /\ pc'[q] # "post"
      /\ \A r \in Queues : booted[r] \in Nat
      /\ \A r \in Queues : r # q => booted'[r] = booted[r] /\ pc'[r] = pc[r]
  BY <1>1, BootListTyped DEF TypeOK, ThreadsOK
<1>3. fresh[q] \in Ids /\ home[fresh[q]] = q /\ Awaiting(fresh[q])
  BY <1>1 DEF TypeOK, ThreadsOK, TagInv, PostTags, Posting, HeldLocally, Awaiting
<1>4. \A r \in Queues : booted'[r] <= Len(BootList(r))
  BY <1>2 DEF ChainInv
<1>5. \A r \in Queues : pc'[r] = "post" => method'[fresh'[r]] = BootList(r)[booted'[r] + 1]
  BY <1>1, <1>2 DEF ChainInv
<1>6. main' # "starting"
  BY StartedFirst DEF ThreadStep
<1>7. ASSUME Serving PROVE OneWaits'
  <2> SUFFICES ASSUME NEW r \in Queues, NEW k \in 1..Len(BootList(r))
               PROVE  /\ k <= booted'[r] =>
                           /\ \E i \in Ids : WaitsFor(r, k, i)'
                           /\ \A i, j \in Ids : WaitsFor(r, k, i)' /\ WaitsFor(r, k, j)' => i = j
                      /\ k > booted'[r] => \A i \in Ids : WaitsFor(r, k, i)' =>
                           pc'[r] = "post" /\ k = booted'[r] + 1 /\ i = fresh'[r]
    BY DEF OneWaits, BootList
  <2>1. \A i \in Ids : WaitsFor(r, k, i)' <=> WaitsFor(r, k, i)
    BY <1>1, <1>7, AwaitPost DEF WaitsFor, BootList
  <2>2. OneWaits
    BY <1>1, <1>7 DEF ChainInv
  <2>3. CASE r # q
    BY <1>1, <1>2, <2>1, <2>2, <2>3 DEF OneWaits
  <2>4. CASE r = q /\ k <= booted[q]
    BY <1>2, <2>1, <2>2, <2>4 DEF OneWaits
  <2>5. CASE r = q /\ k = booted[q] + 1
    <3>1. WaitsFor(r, k, fresh[q])
      BY <1>1, <1>3, <2>5 DEF WaitsFor, ChainInv
    <3>2. \A i \in Ids : WaitsFor(r, k, i) => i = fresh[q]
      BY <1>2, <2>2, <2>5 DEF OneWaits
    <3> QED BY <1>2, <1>3, <2>1, <2>5, <3>1, <3>2
  <2>6. CASE r = q /\ k > booted[q] + 1
    <3>1. \A i \in Ids : ~WaitsFor(r, k, i)
      BY <1>2, <2>2, <2>6 DEF OneWaits
    <3> QED BY <1>2, <2>1, <2>6, <3>1
  <2> QED BY <1>2, <2>3, <2>4, <2>5, <2>6
<1> QED BY <1>1, <1>4, <1>5, <1>6, <1>7 DEF ChainInv, BootList, Serving

(* Taking an event from a queue, and telling what it is, ends no wait.     *)
LEMMA AwaitTake ==
    ASSUME TypeOK, StateInv, NEW q \in Queues, NextEvent(q) \/ Dispatch(q), NEW i
    PROVE  Awaiting(i)' <=> Awaiting(i)
<1> USE DEF At, Goto
<1>1. /\ UNCHANGED <<listening, fresh>>
      /\ \A r \in Queues : r # q => got'[r] = got[r] /\ pc'[r] = pc[r]
      /\ pc[q] \in {"next", "dispatch"} /\ pc'[q] \in {"dispatch", "remove", "respawn"}
  BY DEF NextEvent, Dispatch, TypeOK, ThreadsOK, grpcVars
<1>2. HeldLocally(i)' <=> HeldLocally(i)
  BY <1>1 DEF HeldLocally, Posting
<1>3. \A r \in Queues : r # q => (Taken(r, i)' <=> Taken(r, i))
  BY <1>1 DEF Taken, Fresh
<1>4. Awaiting(i)' <=> \/ i \in listening \/ HeldLocally(i)
                       \/ \E e \in events' : e.tag = i /\ Fresh(e)
                       \/ \E r \in Queues : Taken(r, i)'
  BY <1>1, <1>2 DEF Awaiting, Taken, Fresh
<1>5. CASE NextEvent(q)
  <2>1. PICK e \in events : got' = [got EXCEPT ![q] = e] /\ events' = events \ {e}
    BY <1>5 DEF NextEvent
  <2>2. got'[q] = e /\ pc'[q] = "dispatch" /\ pc[q] = "next"
    BY <1>5, <2>1 DEF NextEvent, TypeOK, ThreadsOK
  <2>3. ~Taken(q, i) /\ (Taken(q, i)' <=> e.tag = i /\ Fresh(e))
    BY <2>2 DEF Taken, Fresh
  <2> QED BY <1>3, <1>4, <2>1, <2>3, WhereAwaiting
<1>6. CASE Dispatch(q)
  <2>1. UNCHANGED <<got, events>> /\ pc[q] = "dispatch"
    BY <1>6 DEF Dispatch, grpcVars
  <2>2. Fresh(got[q]) <=> pc'[q] = "respawn"
    BY <1>6 DEF Dispatch, Fresh, StateInv, EventMatchesState, TypeOK, ThreadsOK, Event
  <2>3. Taken(q, i)' <=> Taken(q, i)
    BY <1>1, <2>1, <2>2 DEF Taken, Fresh
  <2> QED BY <1>3, <1>4, <2>1, <2>3, WhereAwaiting
<1> QED BY <1>5, <1>6

(* The other steps of a thread touch nothing that awaits a call.           *)
LEMMA AwaitIdle ==
    ASSUME TypeOK, NEW q \in Queues,
           NextEnd(q) \/ Process(q) \/ Write(q) \/ MarkFinish(q) \/ Remove(q), NEW i
    PROVE  Awaiting(i)' <=> Awaiting(i)
<1>1. /\ UNCHANGED <<listening, fresh, got>>
      /\ \A r \in Queues : r # q => pc'[r] = pc[r]
      /\ {pc[q], pc'[q]} \subseteq {"next", "done", "process", "write", "mark", "remove"}
  BY DEF At, Goto, NextEnd, Process, Write, MarkFinish, Remove, TypeOK, ThreadsOK, grpcVars
<1>2. \A e : Fresh(e) => (e \in events' <=> e \in events)
  BY DEF NextEnd, Process, Write, MarkFinish, Remove, grpcVars, Fresh
<1>3. HeldLocally(i)' <=> HeldLocally(i)
  BY <1>1 DEF HeldLocally, Posting
<1>4. \A r \in Queues : Taken(r, i)' <=> Taken(r, i)
  BY <1>1 DEF Taken, Fresh
<1>5. Awaiting(i)' <=> \/ i \in listening \/ HeldLocally(i)
                       \/ \E e \in events' : e.tag = i /\ Fresh(e)
                       \/ \E r \in Queues : Taken(r, i)'
  BY <1>1, <1>3 DEF Awaiting, Taken, Fresh
<1> QED BY <1>2, <1>4, <1>5, WhereAwaiting

(* A thread replaces what it takes up, and posts each method once.         *)
LEMMA ChainThread ==
    ASSUME TypeOK, TagInv, StateInv, ChainInv, NEW q \in Queues, ThreadStep(q)
    PROVE  ChainInv'
<1>1. UNCHANGED mainVars /\ ~crashed /\ main' # "starting"
  BY ThreadIsOn, StartedFirst
<1>2. CASE RespawnPost(q)
  <2>1. /\ PostRequest(q) /\ pc[q] = "repost" /\ pc' = [pc EXCEPT ![q] = "process"]
        /\ UNCHANGED <<booted, got, fresh, home, method, main, bound, srvDown>>
    BY <1>2 DEF RespawnPost, At, Goto, mainVars
  <2>2. \A r \in Queues : pc'[r] = "post" <=> pc[r] = "post"
    BY <2>1 DEF TypeOK, ThreadsOK
  <2>3. Serving => \A i \in Ids : Awaiting(i)' <=> Awaiting(i)
    BY <2>1, AwaitPost
  <2> QED BY <1>1, <2>1, <2>2, <2>3, ChainKept DEF Serving
<1>3. CASE NextEvent(q) \/ Dispatch(q) \/ NextEnd(q) \/ Process(q) \/ Write(q) \/ MarkFinish(q)
           \/ Remove(q)
  <2>1. UNCHANGED <<booted, fresh, home, method>>
    BY <1>3 DEF NextEvent, Dispatch, NextEnd, Process, Write, MarkFinish, Remove, rpcVars
  <2>2. \A r \in Queues : pc'[r] = "post" <=> pc[r] = "post"
    BY <1>3 DEF NextEvent, Dispatch, NextEnd, Process, Write, MarkFinish, Remove, At, Goto,
                TypeOK, ThreadsOK
  <2>3. \A i \in Ids : Awaiting(i)' <=> Awaiting(i)
    BY <1>3, AwaitTake, AwaitIdle
  <2> QED BY <1>1, <2>1, <2>2, <2>3, ChainKept DEF Serving, mainVars
<1> QED BY <1>2, <1>3, ChainBootCreate, ChainBootPost, ChainRespawn DEF ThreadStep

(* While the server is up no other step ends a wait or begins one.         *)
LEMMA ChainRest ==
    ASSUME TypeOK, CloseInv, ChainInv,
           \/ MainStep \/ Stop \/ StopNotRunning \/ Crash \/ UNCHANGED vars
           \/ \E c \in Calls : Send(c) \/ Match(c) \/ Lose(c)
    PROVE  ChainInv'
<1> USE DEF MainAt
<1>1. CASE Start
  <2>1. /\ UNCHANGED <<threadVars, poolVars, rpcVars, grpcVars, crashed>>
        /\ main = "starting" /\ main' = "spawning"
    BY <1>1 DEF Start
  <2>2. \A q \in Queues : pc[q] = "off" /\ booted[q] = 0
    BY <2>1 DEF ChainInv
  <2>3. \A i : ~Awaiting(i)'
    BY <2>1, <2>2 DEF ChainInv, Awaiting, HeldLocally, Posting, threadVars, grpcVars
  <2>4. OneWaits'
    BY <2>1, <2>2, <2>3, BootListTyped DEF OneWaits, WaitsFor, threadVars, BootList
  <2> QED BY <2>1, <2>2, <2>4 DEF ChainInv, threadVars, rpcVars, BootList
<1>2. ASSUME UNCHANGED <<booted, home, method, fresh>>, main' # "starting",
             \A q \in Queues : pc'[q] = "post" <=> pc[q] = "post", ~(Serving /\ ~crashed)'
      PROVE  ChainInv'
  BY <1>2, ChainKept
<1>3. CASE ServerShutdown \/ DrainEvent \/ StopNotRunning
  <2>1. UNCHANGED threadVars /\ UNCHANGED rpcVars /\ main' # "starting" /\ ~(Serving /\ ~crashed)'
    BY <1>3 DEF ServerShutdown, DrainEvent, StopNotRunning, Serving, CloseInv, Closing,
                mainVars
  <2> QED BY <1>2, <2>1 DEF threadVars, rpcVars
<1>4. ASSUME UNCHANGED <<booted, home, method, fresh, got>>,
             main' = "starting" => main = "starting" /\ UNCHANGED <<pc, listening, events>>,
             \A q \in Queues : \A l \in {"post", "repost", "dispatch", "respawn"} :
                 pc'[q] = l <=> pc[q] = l,
             \A i : i \in listening' \/ (\E e \in events' : e.tag = i /\ Fresh(e))
                    <=> i \in listening \/ (\E e \in events : e.tag = i /\ Fresh(e)),
             (Serving /\ ~crashed)' => Serving /\ ~crashed
      PROVE  ChainInv'
  <2>1. \A i : HeldLocally(i)' <=> HeldLocally(i)
    BY <1>4 DEF HeldLocally, Posting
  <2>2. \A i : (\E q \in Queues : Taken(q, i)') <=> (\E q \in Queues : Taken(q, i))
    BY <1>4 DEF Taken, Fresh
  <2>3. \A i : Awaiting(i)' <=> \/ i \in listening' \/ HeldLocally(i)'
                                \/ \E e \in events' : e.tag = i /\ Fresh(e)
                                \/ \E q \in Queues : Taken(q, i)'
    BY DEF Awaiting, Taken, Fresh
  <2>4. \A i : Awaiting(i)' <=> Awaiting(i)
    BY <1>4, <2>1, <2>2, <2>3, WhereAwaiting
  <2> QED BY <1>4, <2>4, ChainKept
<1>5. CASE \E q \in Queues : Spawn(q)
  BY <1>4, <1>5 DEF Spawn, Goto, TypeOK, ThreadsOK, rpcVars, grpcVars, Serving
<1>6. CASE \/ Release \/ ShutdownReturns \/ (\E q \in Queues : CloseQueue(q)) \/ DrainEnd \/ Join
           \/ Stop \/ Crash \/ UNCHANGED vars \/ \E c \in Calls : Send(c) \/ Lose(c)
  <2>1. /\ UNCHANGED <<threadVars, rpcVars, listening, events, bound, srvDown>>
        /\ main' = "starting" => main = "starting"
        /\ crashed' = crashed \/ crashed'
    BY <1>6 DEF Release, ShutdownReturns, CloseQueue, DrainEnd, Join, Stop, Crash, Send, Lose, vars,
                mainVars, grpcVars, threadVars, rpcVars
  <2> QED BY <1>4, <2>1 DEF threadVars, rpcVars, Serving
<1>7. CASE \E c \in Calls : Match(c)
  <2>1. PICK c \in Calls : Match(c)
    BY <1>7
  <2>2. PICK i \in listening :
          /\ listening' = listening \ {i}
          /\ events' = events \cup {[tag |-> i, kind |-> "request", ok |-> TRUE]}
    BY <2>1 DEF Match
  <2>3. \A j : j \in listening' \/ (\E e \in events' : e.tag = j /\ Fresh(e))
               <=> j \in listening \/ (\E e \in events : e.tag = j /\ Fresh(e))
    <3>1. Fresh([tag |-> i, kind |-> "request", ok |-> TRUE])
      BY DEF Fresh
    <3> QED BY <2>2, <3>1
  <2>4. main' # "starting"
    BY <2>1, <2>2 DEF ChainInv, Match, mainVars
  <2> QED BY <1>4, <2>1, <2>3, <2>4 DEF Match, mainVars, threadVars, rpcVars, Serving
<1> QED BY <1>1, <1>3, <1>5, <1>6, <1>7 DEF MainStep

(* Exactly one is a set of one.                                            *)
LEMMA ChainListens == TypeOK /\ ChainInv => ListenerChain
<1> SUFFICES ASSUME TypeOK, ChainInv, Serving, ~crashed, NEW q \in Queues, NEW k \in 1..booted[q]
             PROVE  Cardinality({i \in Ids : /\ home[i] = q /\ method[i] = BootList(q)[k]
                                             /\ Awaiting(i)}) = 1
  BY DEF ListenerChain
<1>1. k \in 1..Len(BootList(q)) /\ k <= booted[q]
  BY BootListTyped DEF TypeOK, ThreadsOK, ChainInv
<1>2. PICK i \in Ids : WaitsFor(q, k, i) /\ \A j \in Ids : WaitsFor(q, k, j) => j = i
  BY <1>1 DEF ChainInv, OneWaits
<1>3. {j \in Ids : home[j] = q /\ method[j] = BootList(q)[k] /\ Awaiting(j)} = {i}
  BY <1>2 DEF WaitsFor
<1> QED BY <1>3, FS_Singleton

(* As long as the server is up, every method a thread has posted has       *)
(* exactly one object that listens for its calls, or is about to replace   *)
(* one: no method goes deaf, and none listens twice.                       *)
THEOREM MethodsStayPosted == Spec => []ListenerChain
<1>1. Init => CloseInv /\ ChainInv
  BY CloseInit, ChainInit
<1>2. IInv /\ CloseInv /\ ChainInv /\ [Next]_vars => (CloseInv /\ ChainInv)'
  <2> SUFFICES ASSUME IInv, CloseInv, ChainInv, [Next]_vars PROVE CloseInv' /\ ChainInv'
    OBVIOUS
  <2>1. TypeOK /\ TagInv /\ StateInv
    BY DEF IInv
  <2>2. CloseInv'
    BY <2>1, CloseThread, CloseRest DEF Next, Ended
  <2>3. ChainInv'
    BY <2>1, ChainThread, ChainRest DEF Next, Ended
  <2> QED BY <2>2, <2>3
<1>3. TypeOK /\ ChainInv => ListenerChain
  BY ChainListens
<1>4. IInv => TypeOK
  BY DEF IInv
<1> QED BY <1>1, <1>2, <1>3, <1>4, InductiveInvariant, PTL DEF Spec

-----------------------------------------------------------------------------
(* The front end implements InferenceService.                              *)

(* At first no object exists.                                              *)
LEMMA ServeInit == Init => ServeInv
<1> SUFFICES ASSUME Init PROVE ServeInv
  OBVIOUS
<1>1. \A i \in Ids : ~(i < nextId)
  BY MaxRpcsAssumption DEF Init, Ids
<1> QED BY <1>1 DEF Init, ServeInv

(* A new object is of a method of its queue and serves no call.            *)
LEMMA ServeInsert ==
    ASSUME TypeOK, TagInv, ServeInv, NEW q \in Queues, NEW m \in Methods, Insert(q, m),
           \E k \in 1..Len(BootList(q)) : BootList(q)[k] = m,
           UNCHANGED <<serves, events, shut, main, bound, srvDown>>,
           \A r \in Queues : pc'[r] = "done" => pc[r] = "done"
    PROVE  ServeInv'
<1>0. PICK n : n = nextId
  OBVIOUS
<1>1. n \in Ids /\ nextId' = n + 1 /\ n \in Int /\ \A i \in Ids : i \in Int
  BY <1>0, MaxRpcsAssumption DEF Insert, TypeOK, PoolOK, Ids
<1>2. /\ home'[n] = q /\ method'[n] = m
      /\ \A i \in Ids : i # n => home'[i] = home[i] /\ method'[i] = method[i]
  BY <1>0, <1>1 DEF Insert, TypeOK, RpcsOK
<1>3. \A e \in events : e.tag \in Ids /\ e.tag # n
  BY <1>0, <1>1 DEF TypeOK, GrpcOK, Event, TagInv, QueuedTags
<1>4. \A i \in Ids : serves[i] # NoCall => i < nextId' /\ method'[i] = MethodOf[serves[i]]
  <2>1. ASSUME NEW i \in Ids, i < nextId PROVE i # n /\ i < nextId'
    <3>1. i \in Int /\ n \in Int /\ nextId' = n + 1 /\ i < n
      BY <1>0, <1>1, <2>1
    <3> QED BY <3>1
  <2> QED BY <1>2, <2>1 DEF ServeInv
<1>5. ASSUME NEW i \in Ids, i < nextId'
      PROVE  \E k \in 1..Len(BootList(home'[i])) : BootList(home'[i])[k] = method'[i]
  <2>1. CASE i = n
    BY <1>2, <2>1
  <2>2. CASE i # n
    <3>1. i < nextId
      BY <1>0, <1>1, <1>5, <2>2
    <3> QED BY <1>2, <2>2, <3>1 DEF ServeInv
  <2> QED BY <2>1, <2>2
<1>6. \A r \in Queues : pc'[r] = "done" => r \in shut /\ \A e \in events : home'[e.tag] # r
  BY <1>2, <1>3 DEF ServeInv
<1> QED BY <1>4, <1>5, <1>6 DEF ServeInv, BootList

(* What a thread does for its queue happens before it ends.                *)
LEMMA ServeThread ==
    ASSUME TypeOK, TagInv, ServeInv, NEW q \in Queues, ThreadStep(q)
    PROVE  ServeInv'
<1> USE DEF At, Goto
<1>0. UNCHANGED <<main, bound, srvDown, shut>> /\ pc \in [Queues -> PcLabels]
  BY ThreadIsOn DEF mainVars, TypeOK, ThreadsOK
<1>1. CASE BootCreate(q)
  <2> DEFINE b == booted[q] + 1
  <2>1. b \in 1..Len(BootList(q)) /\ BootList(q)[b] \in Methods
    BY <1>1, BootListTyped DEF BootCreate, TypeOK, ThreadsOK
  <2>2. Insert(q, BootList(q)[b]) /\ UNCHANGED <<serves, events>>
    BY <1>1 DEF BootCreate, grpcVars
  <2>3. \A r \in Queues : pc'[r] = "done" => pc[r] = "done"
    BY <1>0, <1>1 DEF BootCreate
  <2> QED BY <1>0, <2>1, <2>2, <2>3, ServeInsert
<1>2. CASE Respawn(q)
  <2> DEFINE o == got[q].tag
  <2>1. o \in Ids /\ o < nextId /\ home[o] = q /\ method[o] \in Methods
    BY <1>2 DEF Respawn, Working, TagInv, HandTags, TypeOK, ThreadsOK, RpcsOK, Event
  <2>2. \E k \in 1..Len(BootList(q)) : BootList(q)[k] = method[o]
    BY <2>1 DEF ServeInv
  <2>3. Insert(q, method[o]) /\ UNCHANGED <<serves, events>>
    BY <1>2 DEF Respawn, grpcVars
  <2>4. \A r \in Queues : pc'[r] = "done" => pc[r] = "done"
    BY <1>0, <1>2 DEF Respawn
  <2> QED BY <1>0, <2>1, <2>2, <2>3, <2>4, ServeInsert
<1>3. CASE ~BootCreate(q) /\ ~Respawn(q)
  <2>1. UNCHANGED <<serves, nextId, home, method>>
    BY <1>3 DEF ThreadStep, BootPost, NextEvent, NextEnd, Dispatch, RespawnPost, Process, Write,
                MarkFinish, Remove, grpcVars, poolVars, rpcVars
  <2>2. \A e \in events' : e \in events \/ home[e.tag] = q
    <3>1. CASE BootPost(q) \/ RespawnPost(q)
      BY <3>1 DEF BootPost, RespawnPost, PostRequest, Posting, TagInv, PostTags
    <3>2. CASE Write(q)
      BY <3>2 DEF Write, Working, TagInv, HandTags
    <3>3. CASE NextEvent(q) \/ NextEnd(q) \/ Dispatch(q) \/ Process(q) \/ MarkFinish(q) \/ Remove(q)
      BY <3>3 DEF NextEvent, NextEnd, Dispatch, Process, MarkFinish, Remove, grpcVars
    <3> QED BY <1>3, <3>1, <3>2, <3>3 DEF ThreadStep
  <2>3. \A r \in Queues : r # q => pc'[r] = pc[r]
    BY <1>0 DEF ThreadStep, BootCreate, BootPost, NextEvent, NextEnd, Dispatch, Respawn,
                RespawnPost, Process, Write, MarkFinish, Remove
  <2>4. pc'[q] = "done" => q \in shut /\ \A e \in events' : home[e.tag] # q
    <3>1. CASE NextEnd(q)
      BY <3>1 DEF NextEnd, grpcVars
    <3>2. CASE ~NextEnd(q)
      BY <1>0, <1>3, <3>2 DEF ThreadStep, BootPost, NextEvent, Dispatch, RespawnPost, Process,
                              Write, MarkFinish, Remove
    <3> QED BY <3>1, <3>2
  <2>5. \A r \in Queues : pc'[r] = "done" => r \in shut /\ \A e \in events' : home[e.tag] # r
    BY <2>2, <2>3, <2>4 DEF ServeInv
  <2> QED BY <1>0, <2>1, <2>5 DEF ServeInv, BootList
<1> QED BY <1>1, <1>2, <1>3

(* stop() keeps its order, and a closed queue belongs to a server that is  *)
(* down.                                                                   *)
LEMMA ServeRest ==
    ASSUME TypeOK, TagInv, CloseInv, ServeInv,
           \/ MainStep \/ Stop \/ StopNotRunning \/ Crash \/ UNCHANGED vars
           \/ \E c \in Calls : Send(c) \/ Match(c) \/ Lose(c)
    PROVE  ServeInv'
<1> USE DEF MainAt
<1>0. BeforeStop => shut = {} /\ ~srvDown
  BY DEF CloseInv
<1>1. CASE \E c \in Calls : Match(c)
  <2>1. PICK c \in Calls : Match(c)
    BY <1>1
  <2>2. PICK i \in listening :
          /\ method[i] = MethodOf[c]
          /\ serves' = [serves EXCEPT ![i] = c]
    BY <2>1 DEF Match
  <2>3. /\ i \in Ids /\ i < nextId /\ serves \in [Ids -> Calls \cup {NoCall}]
        /\ UNCHANGED <<mainVars, threadVars, poolVars, rpcVars>>
    BY <2>1 DEF TypeOK, GrpcOK, TagInv, ListeningTags, Match
  <2>4. \A j \in Ids : serves'[j] # NoCall => j < nextId /\ method[j] = MethodOf[serves'[j]]
    BY <2>2, <2>3 DEF ServeInv
  <2>5. \A q \in Queues : pc[q] # "done"
    BY <2>1 DEF Match, Serving, ServeInv, CloseInv
  <2> QED BY <2>3, <2>4, <2>5 DEF ServeInv, mainVars, threadVars, poolVars, rpcVars, BootList
<1>2. CASE \E q \in Queues : Spawn(q)
  <2>1. PICK q \in Queues : Spawn(q)
    BY <1>2
  <2>2. \A r \in Queues : pc'[r] = "done" => pc[r] = "done"
    BY <2>1 DEF Spawn, Goto, TypeOK, ThreadsOK
  <2>3. main \in {"spawning"} /\ main' \in {"spawning", "serving"}
        /\ UNCHANGED <<shut, nextId, home, method, serves, events>>
    BY <2>1 DEF Spawn, poolVars, rpcVars, grpcVars
  <2> QED BY <2>2, <2>3 DEF ServeInv, BootList
<1>3. ASSUME UNCHANGED <<pc, nextId, home, method, serves>>, shut \subseteq shut',
             \A q \in Queues : pc[q] = "done" => \A e \in events' : e \in events,
             main' = "starting" => ~bound',
             main' \notin {"starting", "spawning", "serving", "stopped"} => bound',
             main' \in {"release", "shutdown"} => ~srvDown',
             main' \in {"release", "shutdown", "quiesce"} => shut' = {}
      PROVE  ServeInv'
  BY <1>3 DEF ServeInv, BootList
<1>4. CASE ServerShutdown
  <2>1. \A q \in Queues : pc[q] # "done"
    BY <1>4 DEF ServerShutdown, ServeInv
  <2> QED BY <1>3, <1>4, <2>1 DEF ServerShutdown, threadVars, poolVars, rpcVars, ServeInv
<1>5. CASE \/ Start \/ Stop \/ StopNotRunning \/ Release \/ ShutdownReturns
           \/ (\E q \in Queues : CloseQueue(q)) \/ DrainEnd \/ Join
  <2>1. UNCHANGED <<pc, nextId, home, method, serves, events>> /\ shut \subseteq shut'
    BY <1>5 DEF Start, Stop, StopNotRunning, Release, ShutdownReturns, CloseQueue, DrainEnd, Join,
                threadVars, poolVars, rpcVars, grpcVars
  <2>2. /\ main' # "starting"
        /\ main' \notin {"starting", "spawning", "serving", "stopped"} => bound'
        /\ main' \in {"release", "shutdown"} => ~srvDown'
        /\ main' \in {"release", "shutdown", "quiesce"} => shut' = {}
    <3>1. CASE Start \/ StopNotRunning
      BY <3>1 DEF Start, StopNotRunning
    <3>2. CASE Stop
      BY <1>0, <3>2 DEF Stop, BeforeStop
    <3>4. CASE Release
      BY <3>4 DEF Release, ServeInv
    <3>5. CASE ShutdownReturns \/ Join
      BY <3>5 DEF ShutdownReturns, Join, ServeInv
    <3>3. CASE DrainEnd \/ \E q \in Queues : CloseQueue(q)
      BY <3>3 DEF DrainEnd, CloseQueue, ServeInv
    <3> QED BY <1>5, <3>1, <3>2, <3>3, <3>4, <3>5
  <2> QED BY <1>3, <2>1, <2>2
<1>6. CASE DrainEvent \/ Crash \/ UNCHANGED vars \/ \E c \in Calls : Send(c) \/ Lose(c)
  <2>1. UNCHANGED <<main, bound, srvDown, shut, pc, nextId, home, method, serves>>
        /\ events' \subseteq events
    BY <1>6 DEF DrainEvent, Crash, Send, Lose, vars, mainVars, threadVars, poolVars, rpcVars,
                grpcVars
  <2> QED BY <1>3, <2>1 DEF ServeInv
<1> QED BY <1>1, <1>2, <1>4, <1>5, <1>6 DEF MainStep

(* The initial state maps to the initial state.                            *)
LEMMA MapInit == Init => Service!Init
<1> SUFFICES ASSUME Init PROVE Service!Init
  OBVIOUS
<1>1. \A i : ~Matched(i)
  BY DEF Init, Matched
<1>2. Accepted = {} /\ Phase = "down" /\ Busy = [q \in Queues |-> NoCall]
  BY <1>1 DEF Init, Accepted, Phase, Busy, Executing
<1> QED BY <1>2 DEF Init, Service!Init

(* A step that matches nothing and takes up nothing that was matched.      *)
LEMMA AcceptedKept ==
    ASSUME \A i \in Ids : Matched(i)' <=> Matched(i),
           \A i \in Ids : Matched(i) => serves'[i] = serves[i]
    PROVE  Accepted' = Accepted
BY DEF Accepted

(* A step after which every thread works for the call it worked for.       *)
LEMMA BusyKept ==
    ASSUME \A q \in Queues : Executing(q)' <=> Executing(q),
           \A q \in Queues : Executing(q) => serves'[got'[q].tag] = serves[got[q].tag]
    PROVE  Busy' = Busy
BY DEF Busy

(* What is matched has a tag of its own, and a call of its own.            *)
LEMMA MatchedAlone ==
    ASSUME TypeOK, TagInv, CallInv, NEW i, Matched(i)
    PROVE  /\ i \in Ids /\ i < nextId /\ serves[i] \in Calls /\ Unanswered(i)
           /\ \A j \in Ids : serves[j] = serves[i] => j = i
           /\ i \notin listening
           /\ \A q \in Queues : Executing(q) => got[q].tag # i
<1>1. i \in Ids /\ i < nextId /\ Unanswered(i) /\ i \notin listening
  <2>1. CASE \E e \in events : e.tag = i /\ Fresh(e)
    BY <2>1 DEF TypeOK, GrpcOK, Event, TagInv, QueuedTags, ListeningTags, InQueue, CallInv
  <2>2. CASE \E q \in Queues : got[q].tag = i /\ pc[q] = "dispatch" /\ Fresh(got[q])
    BY <2>2 DEF TypeOK, ThreadsOK, Event, TagInv, HandTags, ListeningTags, InHand, Working, CallInv
  <2> QED BY <2>1, <2>2 DEF Matched
<1>2. serves[i] \in Calls /\ \A j \in Ids : serves[j] = serves[i] => j = i
  BY <1>1 DEF TypeOK, GrpcOK, CallInv, Unanswered
<1>3. ASSUME NEW q \in Queues, Executing(q), got[q].tag = i PROVE FALSE
  <2>1. Working(q) /\ pc[q] # "mark" /\ pc[q] # "dispatch" /\ home[i] = q
    BY <1>3 DEF Executing, Working, TagInv, HandTags
  <2>2. ~\E e \in events : e.tag = i
    BY <1>3, <2>1 DEF TagInv, HandTags
  <2>3. PICK r \in Queues : got[r].tag = i /\ pc[r] = "dispatch"
    BY <2>2 DEF Matched
  <2>4. home[i] = r
    BY <2>3 DEF Working, TagInv, HandTags
  <2> QED BY <2>1, <2>3, <2>4
<1> QED BY <1>1, <1>2, <1>3

(* A thread that takes a new call from its queue begins it.                *)
LEMMA MapDispatch ==
    ASSUME TypeOK, TagInv, StateInv, CallInv, ServeInv, NEW q \in Queues, Dispatch(q)
    PROVE  \/ \E c \in Calls : Service!Begin(c, q)
           \/ UNCHANGED <<Phase, call, Accepted, Busy>>
<1> USE DEF At, Goto
<1> DEFINE i == got[q].tag
<1>1. /\ pc[q] = "dispatch" /\ UNCHANGED <<got, events, serves, call, mainVars>>
      /\ \A r \in Queues : r # q => pc'[r] = pc[r]
      /\ pc'[q] \in {"respawn", "remove"}
  BY DEF Dispatch, grpcVars, TypeOK, ThreadsOK
<1>2. Phase' = Phase
  BY <1>1 DEF Phase, mainVars
<1>3. Fresh(got[q]) <=> pc'[q] = "respawn"
  BY DEF Dispatch, Fresh, StateInv, EventMatchesState, TypeOK, ThreadsOK, Event
<1>4. i \in Ids /\ home[i] = q /\ ~\E e \in events : e.tag = i
  BY <1>1 DEF TypeOK, ThreadsOK, Event, TagInv, HandTags, Working
<1>5. \A r \in Queues : r # q /\ pc[r] = "dispatch" => got[r].tag # i
  BY <1>4 DEF TagInv, HandTags, Working
<1>6. CASE Fresh(got[q])
  <2> DEFINE c == serves[i]
  <2>1. Matched(i)
    BY <1>1, <1>6 DEF Matched
  <2>2. /\ c \in Calls /\ i < nextId /\ \A j \in Ids : serves[j] = c => j = i
    BY <2>1, MatchedAlone
  <2>3. \A j \in Ids : Matched(j)' <=> Matched(j) /\ j # i
    BY <1>1, <1>4, <1>5, <1>6, <1>3 DEF Matched, Fresh
  <2>4. c \in Accepted /\ Accepted' = Accepted \ {c}
    BY <1>1, <1>4, <2>1, <2>2, <2>3 DEF Accepted
  <2>5. Busy[q] = NoCall /\ Busy' = [Busy EXCEPT ![q] = c]
    <3>1. ~Executing(q) /\ Executing(q)' /\ \A r \in Queues : r # q => (Executing(r)' <=> Executing(r))
      BY <1>1, <1>3, <1>6 DEF Executing
    <3>2. Busy'[q] = c /\ \A r \in Queues : r # q => Busy'[r] = Busy[r]
      BY <1>1, <3>1 DEF Busy
    <3> QED BY <3>1, <3>2 DEF Busy
  <2>6. <<q, c>> \in CanServe
    <3>1. c # NoCall /\ method[i] = MethodOf[c]
      BY <1>4, <2>2, CallsAssumption DEF ServeInv
    <3>2. \E k \in 1..Len(BootList(q)) : BootList(q)[k] = MethodOf[c]
      BY <1>4, <2>2, <3>1 DEF ServeInv
    <3> QED BY <2>2, <3>2 DEF CanServe
  <2>7. Service!Begin(c, q)
    BY <1>1, <1>2, <2>4, <2>5, <2>6 DEF Service!Begin
  <2> QED BY <2>2, <2>7
<1>7. CASE ~Fresh(got[q])
  <2>1. \A j \in Ids : Matched(j)' <=> Matched(j)
    BY <1>1, <1>3, <1>7 DEF Matched, Fresh
  <2>2. \A r \in Queues : Executing(r)' <=> Executing(r)
    BY <1>1, <1>3, <1>7 DEF Executing
  <2> QED BY <1>1, <1>2, <2>1, <2>2, AcceptedKept, BusyKept
<1> QED BY <1>6, <1>7

(* Finish is the answer.                                                   *)
LEMMA MapWrite ==
    ASSUME TypeOK, TagInv, CallInv, CloseInv, NEW q \in Queues, Write(q)
    PROVE  Service!Answer(q)
<1> USE DEF At, Goto
<1> DEFINE i == got[q].tag
           c == serves[i]
<1>1. /\ pc[q] = "write" /\ pc' = [pc EXCEPT ![q] = "mark"]
      /\ UNCHANGED <<got, serves, mainVars>>
      /\ pc \in [Queues -> PcLabels] /\ call \in [Calls -> {"idle", "sent", "open", "ok", "failed"}]
  BY DEF Write, TypeOK, ThreadsOK, GrpcOK
<1>2. Unanswered(i) /\ i \in Ids /\ c \in Calls /\ c # NoCall
  BY <1>1 DEF CallInv, Executing, Unanswered, TypeOK, ThreadsOK, GrpcOK, Event
<1>3. call' = [call EXCEPT ![c] = IF @ = "open" THEN "ok" ELSE @]
  <2>1. CASE q \in shut
    <3>1. call' = call /\ call[c] # "open"
      BY <1>2, <2>1 DEF Write, CloseInv
    <3> QED BY <1>1, <1>2, <3>1
  <2>2. CASE q \notin shut
    BY <1>1, <1>2, <2>2 DEF Write
  <2> QED BY <2>1, <2>2
<1>4. Accepted' = Accepted
  <2>1. \A e : Fresh(e) => (e \in events' <=> e \in events)
    BY DEF Write, Fresh
  <2>2. \A r \in Queues : pc'[r] = "dispatch" <=> pc[r] = "dispatch"
    BY <1>1
  <2>3. \A j \in Ids : Matched(j)' <=> Matched(j)
    BY <1>1, <2>1, <2>2 DEF Matched, Fresh
  <2> QED BY <1>1, <2>3, AcceptedKept
<1>5. Busy[q] = c /\ Busy' = [Busy EXCEPT ![q] = NoCall]
  <2>1. Executing(q) /\ ~Executing(q)' /\ \A r \in Queues : r # q => (Executing(r)' <=> Executing(r))
    BY <1>1 DEF Executing
  <2>2. Busy'[q] = NoCall /\ \A r \in Queues : r # q => Busy'[r] = Busy[r]
    BY <1>1, <2>1 DEF Busy
  <2> QED BY <2>1, <2>2 DEF Busy
<1>6. Phase' = Phase
  BY <1>1 DEF Phase, mainVars
<1> QED BY <1>2, <1>3, <1>4, <1>5, <1>6 DEF Service!Answer

(* The other steps of a thread are not seen from outside.                  *)
LEMMA MapThread ==
    ASSUME TypeOK, NEW q \in Queues, ThreadStep(q), ~Dispatch(q), ~Write(q)
    PROVE  UNCHANGED <<Phase, call, Accepted, Busy>>
<1> USE DEF At, Goto
<1>1. UNCHANGED mainVars
  BY ThreadIsOn
<1>2. UNCHANGED <<serves, call>>
  BY DEF ThreadStep, BootCreate, BootPost, NextEvent, NextEnd, Respawn, RespawnPost, Process,
         MarkFinish, Remove, grpcVars
<1>3. \A r \in Queues : r # q => got'[r] = got[r] /\ pc'[r] = pc[r]
  BY DEF ThreadStep, BootCreate, BootPost, NextEvent, NextEnd, Respawn, RespawnPost, Process,
         MarkFinish, Remove, TypeOK, ThreadsOK
<1>4. Phase' = Phase
  BY <1>1 DEF Phase, mainVars
<1>5. CASE NextEvent(q)
  <2>1. PICK e \in events : got' = [got EXCEPT ![q] = e] /\ events' = events \ {e}
    BY <1>5 DEF NextEvent
  <2>2. got'[q] = e /\ pc'[q] = "dispatch" /\ pc[q] = "next"
    BY <1>5, <2>1 DEF NextEvent, TypeOK, ThreadsOK
  <2>3. \A i \in Ids : Matched(i)' <=> Matched(i)
    BY <1>3, <2>1, <2>2 DEF Matched, Fresh
  <2>4. \A r \in Queues : /\ Executing(r)' <=> Executing(r)
                          /\ Executing(r) => got'[r] = got[r]
    BY <1>3, <2>2 DEF Executing
  <2> QED BY <1>2, <1>4, <2>3, <2>4, AcceptedKept, BusyKept
<1>6. CASE ~NextEvent(q)
  <2>1. /\ got'[q] = got[q] /\ pc[q] # "dispatch" /\ pc'[q] # "dispatch"
        /\ pc[q] \in {"respawn", "repost", "process"} <=> pc'[q] \in {"repost", "process", "write"}
    BY <1>6 DEF ThreadStep, BootCreate, BootPost, NextEnd, Respawn, RespawnPost, Process,
         MarkFinish, Remove, TypeOK, ThreadsOK
  <2>2. pc[q] # "write" /\ pc'[q] # "respawn"
    BY <1>6 DEF ThreadStep, BootCreate, BootPost, NextEnd, Respawn, RespawnPost, Process,
         MarkFinish, Remove, TypeOK, ThreadsOK
  <2>3. \A e : Fresh(e) => (e \in events' <=> e \in events)
    BY <1>6 DEF ThreadStep, BootCreate, BootPost, NextEnd, Respawn, RespawnPost, PostRequest,
         Process, MarkFinish, Remove, grpcVars, Fresh
  <2>4. \A i \in Ids : Matched(i)' <=> Matched(i)
    BY <1>3, <2>1, <2>3 DEF Matched, Fresh
  <2>5. \A r \in Queues : /\ Executing(r)' <=> Executing(r)
                          /\ got'[r] = got[r]
    BY <1>3, <2>1, <2>2 DEF Executing
  <2> QED BY <1>2, <1>4, <2>4, <2>5, AcceptedKept, BusyKept
<1> QED BY <1>5, <1>6
(* start() opens the service; stop() closes it, drops what was matched and *)
(* is not waited for, and stops it.                                        *)
LEMMA MapMain ==
    ASSUME TypeOK, TagInv, CallInv, CloseInv, ChainInv, ServeInv,
           MainStep \/ Stop \/ StopNotRunning \/ Crash \/ UNCHANGED vars
    PROVE  Service!Next \/ UNCHANGED <<Phase, call, Accepted, Busy>>
<1> USE DEF MainAt
<1>0. BeforeStop => shut = {} /\ ~srvDown
  BY DEF CloseInv
<1>1. ASSUME UNCHANGED <<got, serves>>,
             \A e : Fresh(e) => (e \in events' <=> e \in events),
             \A q \in Queues : \A l \in {"dispatch", "respawn", "repost", "process", "write"} :
                 pc'[q] = l <=> pc[q] = l
      PROVE  Accepted' = Accepted /\ Busy' = Busy
  <2>1. \A i \in Ids : Matched(i)' <=> Matched(i)
    BY <1>1 DEF Matched, Fresh
  <2>2. \A q \in Queues : Executing(q)' <=> Executing(q)
    BY <1>1 DEF Executing
  <2> QED BY <1>1, <2>1, <2>2, AcceptedKept, BusyKept
<1>2. CASE Start
  <2>1. /\ main = "starting" /\ main' = "spawning" /\ bound' \in BOOLEAN
        /\ UNCHANGED <<srvDown, threadVars, grpcVars>>
    BY <1>2 DEF Start
  <2>2. Accepted' = Accepted /\ Busy' = Busy /\ call' = call
    BY <1>1, <2>1 DEF threadVars, grpcVars
  <2>3. Accepted = {} /\ Busy = [q \in Queues |-> NoCall] /\ ~srvDown
    <3>1. /\ events = {} /\ ~srvDown
          /\ \A q \in Queues : pc[q] = "off"
      BY <1>0, <2>1 DEF ChainInv, BeforeStop
    <3>2. \A i \in Ids : ~Matched(i)
      BY <3>1 DEF Matched
    <3> QED BY <3>1, <3>2 DEF Accepted, Busy, Executing
  <2>4. ~bound
    BY <2>1 DEF ServeInv
  <2> QED BY <2>1, <2>2, <2>3, <2>4 DEF Phase, Service!Next, Service!Open
<1>3. CASE ServerShutdown
  <2>1. /\ main = "shutdown" /\ main' = "quiesce" /\ srvDown' = TRUE /\ bound' = bound
        /\ call' = [c \in Calls |-> IF call[c] = "sent" THEN "failed" ELSE call[c]]
        /\ UNCHANGED <<threadVars, serves>>
    BY <1>3 DEF ServerShutdown
  <2>2. bound /\ ~srvDown
    BY <2>1 DEF ServeInv
  <2>3. \A e : Fresh(e) => (e \in events' <=> e \in events)
    BY <1>3 DEF ServerShutdown, Fresh
  <2>4. Accepted' = Accepted /\ Busy' = Busy
    BY <1>1, <2>1, <2>3 DEF threadVars
  <2>5. Phase = "up" /\ Phase' = "closed"
    BY <2>1, <2>2 DEF Phase
  <2> QED BY <2>1, <2>4, <2>5 DEF Service!Next, Service!Close
<1>4. CASE DrainEvent
  <2>1. PICK e \in events : events' = events \ {e}
    BY <1>4 DEF DrainEvent
  <2>2. main = "draining" /\ UNCHANGED <<mainVars, got, pc, serves, call>>
    BY <1>4 DEF DrainEvent, threadVars
  <2>3. bound /\ srvDown /\ \A c \in Calls : call[c] # "open"
    BY <2>2 DEF ServeInv, CloseInv, Closing
  <2>4. Phase = "closed" /\ Phase' = "closed"
    BY <2>2, <2>3 DEF Phase, mainVars
  <2>5. CASE ~Fresh(e)
    <3>1. \A f : Fresh(f) => (f \in events' <=> f \in events)
      BY <2>1, <2>5
    <3> QED BY <1>1, <2>2, <2>4, <3>1
  <2>6. CASE Fresh(e)
    <3> DEFINE i == e.tag
               c == serves[i]
    <3>1. Matched(i)
      BY <2>6 DEF Matched
    <3>2. i \in Ids /\ c \in Calls /\ \A j \in Ids : serves[j] = c => j = i
      BY <3>1, MatchedAlone
    <3>3. \A j \in Ids : Matched(j)' <=> Matched(j) /\ j # i
      <4>1. \A f \in events : f.tag = i => f = e
        BY DEF TagInv, QueuedTags
      <4>2. \A q \in Queues : pc[q] = "dispatch" => got[q].tag # i
        BY DEF TagInv, HandTags, Working
      <4> QED BY <2>1, <2>2, <4>1, <4>2 DEF Matched, Fresh
    <3>4. c \in Accepted /\ Accepted' = Accepted \ {c}
      BY <2>2, <3>1, <3>2, <3>3 DEF Accepted
    <3>5. Busy' = Busy
      BY <2>2, BusyKept DEF Executing
    <3> QED BY <2>2, <2>3, <2>4, <3>2, <3>4, <3>5 DEF Service!Next, Service!Drop
  <2> QED BY <2>5, <2>6
<1>5. CASE Join
  <2>1. /\ main = "joining" /\ main' = "stopped" /\ UNCHANGED <<bound, srvDown, threadVars, grpcVars>>
        /\ \A q \in Queues : pc[q] = "done"
    BY <1>5 DEF Join
  <2>2. bound /\ srvDown /\ \A c \in Calls : call[c] # "open"
    BY <2>1 DEF ServeInv, CloseInv, Closing
  <2>3. Phase = "closed" /\ Phase' = "stopped"
    BY <2>1, <2>2 DEF Phase
  <2>4. Accepted' = Accepted /\ Busy' = Busy /\ call' = call
    BY <1>1, <2>1 DEF threadVars, grpcVars
  <2>5. Accepted = {}
    <3>1. events = {}
      BY <2>1 DEF ServeInv, TypeOK, RpcsOK, GrpcOK, Event
    <3>2. \A i \in Ids : ~Matched(i)
      BY <2>1, <3>1 DEF Matched
    <3> QED BY <3>2 DEF Accepted
  <2>6. \A q \in Queues : Busy[q] = NoCall
    BY <2>1 DEF Busy, Executing
  <2> QED BY <2>2, <2>3, <2>4, <2>5, <2>6 DEF Service!Next, Service!Stop
<1>6. CASE \E q \in Queues : Spawn(q)
  <2>1. PICK q \in Queues : Spawn(q)
    BY <1>6
  <2>2. /\ UNCHANGED <<got, serves, events, call, bound, srvDown>>
        /\ main' # "stopped" /\ main # "stopped"
        /\ \A r \in Queues : \A l \in {"dispatch", "respawn", "repost", "process", "write"} :
                 pc'[r] = l <=> pc[r] = l
    BY <2>1 DEF Spawn, Goto, TypeOK, ThreadsOK, grpcVars
  <2>3. Accepted' = Accepted /\ Busy' = Busy
    BY <1>1, <2>2
  <2> QED BY <2>2, <2>3 DEF Phase
<1>7. CASE \/ Release \/ ShutdownReturns \/ (\E q \in Queues : CloseQueue(q)) \/ DrainEnd
           \/ Stop \/ StopNotRunning \/ Crash \/ UNCHANGED vars
  <2>1. /\ UNCHANGED <<got, pc, serves, events, call, bound, srvDown>>
        /\ bound => (main' = "stopped" <=> main = "stopped")
    BY <1>7 DEF Release, ShutdownReturns, CloseQueue, DrainEnd, Stop, StopNotRunning, Crash, vars,
                mainVars, threadVars, grpcVars
  <2>2. Accepted' = Accepted /\ Busy' = Busy
    BY <1>1, <2>1
  <2> QED BY <2>1, <2>2 DEF Phase
<1> QED BY <1>2, <1>3, <1>4, <1>5, <1>6, <1>7 DEF MainStep

(* What clients and gRPC do is what clients of the service do.             *)
LEMMA MapClients ==
    ASSUME TypeOK, TagInv, CallInv, NEW c \in Calls
    PROVE  /\ Send(c) => Service!Send(c)
           /\ Match(c) => Service!Accept(c)
           /\ Lose(c) => Service!Lose(c)
<1>1. ASSUME UNCHANGED <<serves, events, mainVars, threadVars>>
      PROVE  UNCHANGED <<Phase, Accepted, Busy>>
  BY <1>1 DEF Phase, Accepted, Busy, Matched, Executing, Fresh, mainVars, threadVars
<1>2. Serving <=> Phase = "up"
  BY DEF Serving, Phase
<1>3. ASSUME Send(c) PROVE Service!Send(c)
  BY <1>1, <1>2, <1>3 DEF Send, Service!Send
<1>4. ASSUME Lose(c) PROVE Service!Lose(c)
  BY <1>1, <1>4 DEF Lose, Service!Lose
<1>5. ASSUME Match(c) PROVE Service!Accept(c)
  <2>1. PICK i \in listening :
          /\ serves' = [serves EXCEPT ![i] = c]
          /\ events' = events \cup {[tag |-> i, kind |-> "request", ok |-> TRUE]}
    BY <1>5 DEF Match
  <2>2. /\ call[c] = "sent" /\ call' = [call EXCEPT ![c] = "open"] /\ Phase = "up"
        /\ UNCHANGED <<mainVars, threadVars>>
    BY <1>2, <1>5 DEF Match
  <2>3. /\ i \in Ids /\ serves'[i] = c
        /\ \A j \in Ids : j # i => serves'[j] = serves[j]
    BY <2>1 DEF TypeOK, GrpcOK
  <2>4. \A j \in Ids : Matched(j)' <=> Matched(j) \/ j = i
    <3> DEFINE made == [tag |-> i, kind |-> "request", ok |-> TRUE]
    <3>1. Fresh(made) /\ made.tag = i /\ events' = events \cup {made}
      BY <2>1 DEF Fresh
    <3> HIDE DEF made
    <3>2. (\E e \in events' : e.tag = i /\ Fresh(e))
      BY <3>1
    <3>3. \A j \in Ids : j # i => ((\E e \in events' : e.tag = j /\ Fresh(e))
                                  <=> \E e \in events : e.tag = j /\ Fresh(e))
      BY <3>1
    <3>4. \A j : Matched(j)' <=> \/ \E e \in events' : e.tag = j /\ Fresh(e)
                                \/ \E q \in Queues : /\ got[q].tag = j /\ pc[q] = "dispatch"
                                                      /\ Fresh(got[q])
      BY <2>2 DEF Matched, Fresh, threadVars
    <3> QED BY <3>2, <3>3, <3>4 DEF Matched
  <2>5. ~Matched(i)
    BY MatchedAlone
  <2>6. Accepted' = Accepted \cup {c}
    BY <2>3, <2>4, <2>5 DEF Accepted
  <2>7. \A q \in Queues : Executing(q) => got[q].tag \in Ids /\ got[q].tag # i
    BY DEF Executing, Working, TypeOK, ThreadsOK, Event, TagInv, ListeningTags, InHand
  <2>8. Busy' = Busy /\ Phase' = Phase
    BY <2>2, <2>3, <2>7, BusyKept DEF Phase, Executing, mainVars, threadVars
  <2> QED BY <2>2, <2>6, <2>8 DEF Service!Accept
<1> QED BY <1>3, <1>4, <1>5

(* Every step is one of the service or a stutter.                          *)
LEMMA MapStep ==
    ASSUME TypeOK, TagInv, StateInv, CallInv, CloseInv, ChainInv, ServeInv, [Next]_vars
    PROVE  Service!Next \/ UNCHANGED <<Phase, call, Accepted, Busy>>
<1>1. ASSUME NEW q \in Queues, ThreadStep(q)
      PROVE  Service!Next \/ UNCHANGED <<Phase, call, Accepted, Busy>>
  BY <1>1, MapDispatch, MapWrite, MapThread DEF Service!Next
<1>2. ASSUME NEW c \in Calls, Send(c) \/ Match(c) \/ Lose(c) PROVE Service!Next
  BY <1>2, MapClients DEF Service!Next
<1> QED BY <1>1, <1>2, MapMain DEF Next, Ended

(* What needs no pool is kept by every step.                               *)
LEMMA ServedStep ==
    ASSUME TypeOK, TagInv, StateInv, CallInv, CloseInv, ChainInv, ServeInv, [Next]_vars
    PROVE  CallInv' /\ CloseInv' /\ ChainInv' /\ ServeInv'
<1>1. CASE \E q \in Queues : ThreadStep(q)
  BY <1>1, CallThread, CloseThread, ChainThread, ServeThread
<1>2. CASE ~\E q \in Queues : ThreadStep(q)
  <2>1. \/ MainStep \/ Stop \/ StopNotRunning \/ Crash \/ UNCHANGED vars
        \/ \E c \in Calls : Send(c) \/ Match(c) \/ Lose(c)
    BY <1>2 DEF Next, Ended
  <2> QED BY <2>1, CallRest, CloseRest, ChainRest, ServeRest
<1> QED BY <1>1, <1>2

(* grpc_server, with its queues, pool, request objects and threads, and    *)
(* with stop() at any moment, implements InferenceService: a call is       *)
(* executed at most once and answered only after that, and stop() ends     *)
(* when no call it accepted waits for its answer.                          *)
THEOREM ServerImplementsService == Spec => ServiceSpec
<1>1. Init => Service!Init /\ CallInv /\ CloseInv /\ ChainInv /\ ServeInv
  BY MapInit, CallInit, CloseInit, ChainInit, ServeInit
<1>2. TypeOK /\ TagInv /\ StateInv /\ CallInv /\ CloseInv /\ ChainInv /\ ServeInv /\ [Next]_vars
        => /\ [Service!Next]_(Service!svars)
           /\ (CallInv /\ CloseInv /\ ChainInv /\ ServeInv)'
  BY MapStep, ServedStep DEF Service!svars
<1>3. IInv => TypeOK /\ TagInv /\ StateInv
  BY DEF IInv
<1> QED BY <1>1, <1>2, <1>3, InductiveInvariant, PTL DEF Spec, ServiceSpec, Service!Spec

-----------------------------------------------------------------------------
(* What InferenceService promises of each call, through the refinement.    *)
Statuses == {"idle", "sent", "open", "ok", "failed"}

(* At first there is no call.                                              *)
LEMMA PromiseInit == Init => Service!OnePlace /\ Service!Remembered
<1> SUFFICES ASSUME Init PROVE Service!OnePlace /\ Service!Remembered
  OBVIOUS
<1>1. Service!Init
  BY MapInit
<1> QED BY <1>1 DEF Service!Init, Service!OnePlace, Service!Remembered

(* A step of the service keeps each call in one place ...                  *)
LEMMA OnePlaceStep ==
    ASSUME call \in [Calls -> Statuses], Service!OnePlace,
           Service!Next \/ UNCHANGED <<Phase, call, Accepted, Busy>>
    PROVE  Service!OnePlace'
<1> USE DEF Service!OnePlace
<1>0. DOMAIN Busy = Queues /\ Busy = [q \in Queues |-> Busy[q]] /\ NoCall \notin Calls
  BY CallsAssumption DEF Busy
<1>1. CASE Service!Open \/ Service!Stop
  BY <1>1 DEF Service!Open, Service!Stop
<1>2. CASE Service!Close
  BY <1>2 DEF Service!Close
<1>3. ASSUME NEW c \in Calls, Service!Send(c) PROVE Service!OnePlace'
  BY <1>3 DEF Service!Send
<1>4. ASSUME NEW c \in Calls, Service!Accept(c) PROVE Service!OnePlace'
  <2>1. /\ call[c] = "sent" /\ call'[c] = "open" /\ Accepted' = Accepted \cup {c} /\ Busy' = Busy
        /\ \A d \in Calls : d # c => call'[d] = call[d]
    BY <1>4 DEF Service!Accept
  <2>2. c \notin Accepted /\ \A q \in Queues : Busy[q] # c
    BY <2>1, <1>0
  <2> QED BY <1>0, <2>1, <2>2
<1>5. ASSUME NEW c \in Calls, Service!Lose(c) PROVE Service!OnePlace'
  BY <1>5 DEF Service!Lose
<1>6. ASSUME NEW c \in Calls, Service!Drop(c) PROVE Service!OnePlace'
  BY <1>6 DEF Service!Drop
<1>7. ASSUME NEW w \in Queues, Service!Answer(w) PROVE Service!OnePlace'
  <2>1. /\ Busy[w] # NoCall /\ Busy'[w] = NoCall /\ Accepted' = Accepted
        /\ \A v \in Queues : v # w => Busy'[v] = Busy[v]
        /\ \A d \in Calls : d # Busy[w] => call'[d] = call[d]
    BY <1>0, <1>7 DEF Service!Answer
  <2> QED BY <1>0, <2>1
<1>8. ASSUME NEW c \in Calls, NEW w \in Queues, Service!Begin(c, w) PROVE Service!OnePlace'
  <2>1. /\ c \in Accepted /\ Accepted' = Accepted \ {c} /\ Busy[w] = NoCall /\ Busy'[w] = c
        /\ \A v \in Queues : v # w => Busy'[v] = Busy[v]
        /\ call' = call
    BY <1>0, <1>8 DEF Service!Begin
  <2> QED BY <1>0, <2>1
<1>9. CASE UNCHANGED <<Phase, call, Accepted, Busy>>
  BY <1>9
<1> QED BY <1>1, <1>2, <1>3, <1>4, <1>5, <1>6, <1>7, <1>8, <1>9 DEF Service!Next

(* ... and forgets none.                                                   *)
LEMMA RememberedStep ==
    ASSUME call \in [Calls -> Statuses], Service!Remembered,
           Service!Next \/ UNCHANGED <<Phase, call, Accepted, Busy>>
    PROVE  Service!Remembered'
<1> USE DEF Service!Remembered
<1>0. DOMAIN Busy = Queues /\ Busy = [q \in Queues |-> Busy[q]] /\ NoCall \notin Calls
  BY CallsAssumption DEF Busy
<1>1. CASE Service!Open \/ Service!Stop
  BY <1>1 DEF Service!Open, Service!Stop
<1>2. CASE Service!Close
  BY <1>2 DEF Service!Close
<1>3. ASSUME NEW c \in Calls, Service!Send(c) \/ Service!Accept(c) \/ Service!Lose(c)
      PROVE  Service!Remembered'
  BY <1>3 DEF Service!Send, Service!Accept, Service!Lose
<1>6. ASSUME NEW c \in Calls, Service!Drop(c) PROVE Service!Remembered'
  BY <1>6 DEF Service!Drop
<1>7. ASSUME NEW w \in Queues, Service!Answer(w) PROVE Service!Remembered'
  <2>1. /\ Busy[w] # NoCall /\ Accepted' = Accepted
        /\ \A v \in Queues : v # w => Busy'[v] = Busy[v]
        /\ \A d \in Calls : d # Busy[w] => call'[d] = call[d]
        /\ Busy[w] \in Calls => call'[Busy[w]] # "open"
    BY <1>0, <1>7 DEF Service!Answer
  <2> QED BY <1>0, <2>1
<1>8. ASSUME NEW c \in Calls, NEW w \in Queues, Service!Begin(c, w) PROVE Service!Remembered'
  <2>1. /\ Accepted' = Accepted \ {c} /\ Busy[w] = NoCall /\ Busy'[w] = c
        /\ \A v \in Queues : v # w => Busy'[v] = Busy[v]
        /\ call' = call
    BY <1>0, <1>8 DEF Service!Begin
  <2> QED BY <1>0, <2>1
<1>9. CASE UNCHANGED <<Phase, call, Accepted, Busy>>
  BY <1>9
<1> QED BY <1>1, <1>2, <1>3, <1>6, <1>7, <1>8, <1>9 DEF Service!Next

-----------------------------------------------------------------------------
(* Nobody waits in vain.                                                   *)

(* At first every thread is off.                                           *)
LEMMA WaitInit == Init => WaitInv
<1>1. Init => Service!Remembered
  BY PromiseInit
<1> QED BY <1>1 DEF Init, WaitInv

(* A thread adds events to its own queue only, posts nothing on a server   *)
(* that is down, and is booting until it has posted all.                   *)
LEMMA WaitThread ==
    ASSUME TypeOK, TagInv, WaitInv, NEW q \in Queues, ThreadStep(q), Service!Remembered'
    PROVE  WaitInv'
<1> USE DEF At, Goto
<1>0. /\ UNCHANGED <<main, bound, srvDown, shut>> /\ pc[q] \notin {"off", "done"}
      /\ pc \in [Queues -> PcLabels] /\ call \in [Calls -> Statuses]
      /\ \A r \in Queues : booted[r] \in Nat /\ Len(BootList(r)) \in Nat
  BY ThreadIsOn, BootListTyped DEF mainVars, TypeOK, ThreadsOK, GrpcOK, Statuses
<1>1. \A r \in Queues : r # q => pc'[r] = pc[r] /\ booted'[r] = booted[r]
  BY <1>0 DEF ThreadStep, BootCreate, BootPost, NextEvent, NextEnd, Dispatch, Respawn,
     RespawnPost, Process, Write, MarkFinish, Remove, TypeOK, ThreadsOK
<1>2. \A c \in Calls : call'[c] = "sent" => call[c] = "sent"
  <2>1. CASE Write(q)
    BY <1>0, <2>1 DEF Write
  <2>2. CASE ~Write(q)
    BY <2>2 DEF ThreadStep, BootCreate, BootPost, NextEvent, NextEnd, Dispatch, Respawn,
       RespawnPost, Process, MarkFinish, Remove, grpcVars
  <2> QED BY <2>1, <2>2
<1>3. \A e \in events' : (e \in events /\ home'[e.tag] = home[e.tag]) \/ home'[e.tag] = q
  <2>1. CASE BootCreate(q) \/ Respawn(q)
    <3>1. /\ events' = events /\ \E m : home' = [home EXCEPT ![nextId] = m]
      BY <2>1 DEF BootCreate, Respawn, Insert, grpcVars
    <3>2. \A e \in events : e.tag # nextId
      BY MaxRpcsAssumption DEF TypeOK, PoolOK, GrpcOK, Event, Ids, TagInv, QueuedTags
    <3> QED BY <3>1, <3>2 DEF TypeOK, RpcsOK, GrpcOK, Event
  <2>2. CASE BootPost(q) \/ RespawnPost(q)
    BY <2>2 DEF BootPost, RespawnPost, PostRequest, Posting, TagInv, PostTags
  <2>3. CASE Write(q)
    BY <2>3 DEF Write, Working, TagInv, HandTags, rpcVars
  <2>4. CASE NextEvent(q) \/ NextEnd(q) \/ Dispatch(q) \/ Process(q) \/ MarkFinish(q) \/ Remove(q)
    BY <2>4 DEF NextEvent, NextEnd, Dispatch, Process, MarkFinish, Remove, grpcVars, rpcVars
  <2> QED BY <2>1, <2>2, <2>3, <2>4 DEF ThreadStep
<1>4. pc'[q] # "off" /\ (booted'[q] < Len(BootList(q)) => pc'[q] \in {"create", "post"})
  <2>1. CASE BootPost(q)
    BY <1>0, <2>1 DEF BootPost, TypeOK, ThreadsOK
  <2>2. CASE BootCreate(q)
    BY <1>0, <2>2 DEF BootCreate
  <2>3. CASE ~BootPost(q) /\ ~BootCreate(q)
    <3>1. booted'[q] = booted[q] /\ pc[q] \notin {"create", "post", "off"}
      BY <1>0, <2>3 DEF ThreadStep, NextEvent, NextEnd, Dispatch, Respawn, RespawnPost, Process,
         Write, MarkFinish, Remove
    <3>2. pc'[q] # "off"
      BY <1>0, <2>3 DEF ThreadStep, NextEvent, NextEnd, Dispatch, Respawn, RespawnPost, Process,
         Write, MarkFinish, Remove
    <3> QED BY <3>1, <3>2 DEF WaitInv
  <2> QED BY <2>1, <2>2, <2>3
<1>5. srvDown => listening' = listening
  BY DEF ThreadStep, BootCreate, BootPost, NextEvent, NextEnd, Dispatch, Respawn, RespawnPost,
     PostRequest, Process, Write, MarkFinish, Remove, grpcVars
<1>9. \A i \in listening' : (i \in listening /\ home'[i] = home[i]) \/ home'[i] = q
  <2>1. CASE BootCreate(q) \/ Respawn(q)
    <3>1. /\ listening' = listening /\ \E m : home' = [home EXCEPT ![nextId] = m]
      BY <2>1 DEF BootCreate, Respawn, Insert, grpcVars
    <3>2. \A i \in listening : i # nextId
      BY MaxRpcsAssumption DEF TypeOK, PoolOK, GrpcOK, Ids, TagInv, ListeningTags
    <3> QED BY <3>1, <3>2 DEF TypeOK, RpcsOK, GrpcOK
  <2>2. CASE BootPost(q) \/ RespawnPost(q)
    BY <2>2 DEF BootPost, RespawnPost, PostRequest, Posting, TagInv, PostTags
  <2>3. CASE \/ Write(q) \/ NextEvent(q) \/ NextEnd(q) \/ Dispatch(q) \/ Process(q)
             \/ MarkFinish(q) \/ Remove(q)
    BY <2>3 DEF Write, NextEvent, NextEnd, Dispatch, Process, MarkFinish, Remove, grpcVars, rpcVars
  <2> QED BY <2>1, <2>2, <2>3 DEF ThreadStep
<1>6. \A r \in Queues : pc'[r] = "off" =>
        /\ pc[r] = "off"
        /\ \A e \in events' : home'[e.tag] # r
        /\ \A i \in listening' : home'[i] # r
  BY <1>0, <1>1, <1>3, <1>4, <1>9 DEF WaitInv
<1>7. \A r \in Queues : booted'[r] < Len(BootList(r)) => pc'[r] \in {"off", "create", "post"}
  BY <1>1, <1>4 DEF WaitInv
<1>8. main = "spawning" => pc'[CommonQueue] = "off"
  BY <1>0, <1>1 DEF WaitInv, Queues
<1> QED BY <1>0, <1>2, <1>5, <1>6, <1>7, <1>8 DEF WaitInv, Serving, BootList

(* stop() closes one queue after the other and joins when none is left.    *)
LEMMA WaitRest ==
    ASSUME TypeOK, TagInv, CloseInv, ChainInv, ServeInv, WaitInv, Service!Remembered',
           \/ MainStep \/ Stop \/ StopNotRunning \/ Crash \/ UNCHANGED vars
           \/ \E c \in Calls : Send(c) \/ Match(c) \/ Lose(c)
    PROVE  WaitInv'
<1> USE DEF MainAt
<1>0. pc \in [Queues -> PcLabels] /\ call \in [Calls -> Statuses] /\ CommonQueue \in Queues
  BY DEF TypeOK, ThreadsOK, GrpcOK, Statuses, Queues
<1>1. ASSUME UNCHANGED <<pc, booted, home>>,
             \A c \in Calls : call'[c] = "sent" => Serving',
             \A q \in Queues : pc[q] = "off" =>
                 /\ main' \in {"starting", "spawning"}
                 /\ \A e \in events' : home[e.tag] # q
                 /\ \A i \in listening' : home[i] # q,
             main' = "spawning" => pc[CommonQueue] = "off",
             main' = "closing" => shut' # Queues, main' = "joining" => shut' = Queues,
             srvDown' => listening' = {}
      PROVE  WaitInv'
  BY <1>1 DEF WaitInv, BootList
<1>2. CASE Start
  <2>1. /\ UNCHANGED <<threadVars, rpcVars, events, listening, call, srvDown, shut>>
        /\ main' = "spawning"
        /\ main = "starting"
    BY <1>2 DEF Start, grpcVars
  <2>2. ~bound /\ (\A q \in Queues : pc[q] = "off") /\ events = {} /\ listening = {}
    BY <2>1 DEF ServeInv, ChainInv
  <2>3. \A c \in Calls : call[c] # "sent"
    BY <2>2 DEF WaitInv, Serving
  <2> QED BY <1>0, <1>1, <2>1, <2>2, <2>3 DEF threadVars, rpcVars
<1>3. CASE \E q \in Queues : Spawn(q)
  <2>1. PICK q \in Queues : Spawn(q)
    BY <1>3
  <2>2. /\ main = "spawning" /\ main' = IF q = CommonQueue THEN "serving" ELSE main
        /\ UNCHANGED <<bound, srvDown, shut, booted, home, events, listening, call>>
        /\ pc'[q] = "create" /\ \A r \in Queues : r # q => pc'[r] = pc[r]
        /\ q = CommonQueue => \A r \in InferQueues : pc[r] # "off"
    BY <1>0, <2>1 DEF Spawn, Goto, rpcVars, grpcVars
  <2>3. \A r \in Queues : pc'[r] = "off" => pc[r] = "off" /\ main' = "spawning"
    BY <2>2 DEF Queues
  <2>4. main' = "spawning" => pc'[CommonQueue] = "off"
    BY <1>0, <2>2 DEF WaitInv
  <2>5. \A r \in Queues : booted'[r] < Len(BootList(r)) => pc'[r] \in {"off", "create", "post"}
    BY <2>2 DEF WaitInv
  <2> QED BY <2>2, <2>3, <2>4, <2>5 DEF WaitInv, Serving, BootList
<1>4. CASE ServerShutdown
  <2>1. /\ UNCHANGED <<pc, booted, home>> /\ main = "shutdown" /\ main' = "quiesce" /\ listening' = {}
        /\ \A c \in Calls : call'[c] # "sent"
    BY <1>4 DEF ServerShutdown, threadVars, rpcVars
  <2>2. \A q \in Queues : pc[q] # "off"
    BY <2>1 DEF WaitInv
  <2> QED BY <1>1, <2>1, <2>2
<1>5. CASE \E c \in Calls : Match(c)
  <2>1. PICK c \in Calls : Match(c)
    BY <1>5
  <2>2. PICK i \in listening :
          events' = events \cup {[tag |-> i, kind |-> "request", ok |-> TRUE]}
    BY <2>1 DEF Match
  <2>3. /\ UNCHANGED <<pc, booted, home, main, bound, srvDown, shut>> /\ listening' \subseteq listening
        /\ \A d \in Calls : call'[d] = "sent" => call[d] = "sent"
    BY <1>0, <2>1 DEF Match, threadVars, rpcVars, mainVars
  <2>4. \A q \in Queues : pc[q] = "off" => home[i] # q
    BY DEF WaitInv
  <2> QED BY <1>1, <2>2, <2>3, <2>4 DEF WaitInv, Serving
<1>6. CASE \E c \in Calls : Send(c) \/ Lose(c)
  <2>1. PICK c \in Calls : Send(c) \/ Lose(c)
    BY <1>6
  <2>2. /\ UNCHANGED <<pc, booted, home, main, bound, srvDown, shut, listening, events>>
        /\ \A d \in Calls : call'[d] = "sent" => call[d] = "sent" \/ Serving
    BY <1>0, <2>1 DEF Send, Lose, threadVars, rpcVars, mainVars
  <2> QED BY <1>1, <2>2 DEF WaitInv, Serving
<1>7. CASE \/ Stop \/ StopNotRunning \/ Release \/ ShutdownReturns \/ DrainEnd \/ Join
           \/ \E q \in Queues : CloseQueue(q)
  <2>1. UNCHANGED <<pc, booted, home, events, listening, call, bound, srvDown>>
    BY <1>7 DEF Stop, StopNotRunning, Release, ShutdownReturns, DrainEnd, Join, CloseQueue,
       threadVars, rpcVars, grpcVars
  <2>2. \A q \in Queues : pc[q] # "off"
    BY <1>7 DEF Stop, StopNotRunning, Release, ShutdownReturns, DrainEnd, Join, CloseQueue, WaitInv
  <2>3. main' # "spawning" /\ (main' = "closing" => shut' # Queues)
        /\ (main' = "joining" => shut' = Queues)
    <3>1. CASE ShutdownReturns
      BY <1>0, <3>1 DEF ShutdownReturns, ServeInv
    <3>2. CASE DrainEnd
      BY <3>2 DEF DrainEnd
    <3>3. CASE Stop \/ StopNotRunning \/ Release \/ Join \/ \E q \in Queues : CloseQueue(q)
      BY <3>3 DEF Stop, StopNotRunning, Release, Join, CloseQueue
    <3> QED BY <1>7, <3>1, <3>2, <3>3
  <2> QED BY <1>1, <2>1, <2>2, <2>3 DEF WaitInv, Serving
<1>8. CASE DrainEvent \/ Crash \/ UNCHANGED vars
  <2>1. /\ UNCHANGED <<pc, booted, home, main, bound, srvDown, shut, listening, call>>
        /\ events' \subseteq events
    BY <1>8 DEF DrainEvent, Crash, vars, mainVars, threadVars, rpcVars, grpcVars
  <2> QED BY <1>1, <2>1 DEF WaitInv, Serving
<1> QED BY <1>2, <1>3, <1>4, <1>5, <1>6, <1>7, <1>8 DEF MainStep

(* So all that needs no pool is inductive.                                 *)
LEMMA LifeInit == Init => LifeInv
BY CallInit, CloseInit, ChainInit, ServeInit, WaitInit DEF LifeInv

LEMMA LifeStep ==
    ASSUME TypeOK, TagInv, StateInv, LifeInv, [Next]_vars
    PROVE  LifeInv'
<1>0. CallInv /\ CloseInv /\ ChainInv /\ ServeInv /\ WaitInv
  BY DEF LifeInv
<1>1. CallInv' /\ CloseInv' /\ ChainInv' /\ ServeInv'
  BY <1>0, ServedStep
<1>2. Service!Remembered'
  BY <1>0, MapStep, RememberedStep DEF WaitInv, TypeOK, GrpcOK, Statuses
<1>3. WaitInv'
  <2>1. CASE \E q \in Queues : ThreadStep(q)
    BY <1>0, <1>2, <2>1, WaitThread
  <2>2. CASE ~\E q \in Queues : ThreadStep(q)
    <3>1. \/ MainStep \/ Stop \/ StopNotRunning \/ Crash \/ UNCHANGED vars
          \/ \E c \in Calls : Send(c) \/ Match(c) \/ Lose(c)
      BY <2>2 DEF Next, Ended
    <3> QED BY <1>0, <1>2, <3>1, WaitRest
  <2> QED BY <2>1, <2>2
<1> QED BY <1>1, <1>3 DEF LifeInv

(* The listener of a method, or what stands for it, moves a sent call on.  *)
LEMMA SentGoesOn ==
    ASSUME TypeOK, TagInv, LifeInv, ~crashed, NEW c \in Calls, call[c] = "sent",
           NEW q \in Queues, <<q, c>> \in CanServe
    PROVE  \/ \E i \in listening : home[i] = q /\ method[i] = MethodOf[c]
           \/ CanGoOn(q) \/ (pc[q] = "off" /\ main = "spawning")
<1>0. /\ CloseInv /\ ChainInv /\ ServeInv /\ WaitInv /\ Serving
      /\ Len(BootList(q)) \in Nat /\ booted[q] \in Nat
  BY BootListTyped DEF LifeInv, WaitInv, TypeOK, ThreadsOK
<1>1. PICK k \in 1..Len(BootList(q)) : BootList(q)[k] = MethodOf[c]
  BY DEF CanServe
<1>2. shut = {} /\ pc[q] # "done" /\ main # "starting"
  BY <1>0 DEF CloseInv, ServeInv, Serving
<1>3. CASE pc[q] = "off"
  BY <1>0, <1>2, <1>3 DEF WaitInv
<1>4. CASE pc[q] # "off" /\ k > booted[q]
  BY <1>0, <1>1, <1>4 DEF WaitInv, CanGoOn, Blocked
<1>5. CASE pc[q] # "off" /\ k <= booted[q]
  <2>1. PICK i \in Ids : WaitsFor(q, k, i)
    BY <1>0, <1>5 DEF ChainInv, OneWaits
  <2>2. home[i] = q /\ method[i] = MethodOf[c] /\ Awaiting(i)
    BY <1>1, <2>1 DEF WaitsFor
  <2>3. CASE i \in listening
    BY <2>2, <2>3
  <2>4. CASE HeldLocally(i)
    BY <1>2, <2>2, <2>4 DEF HeldLocally, Posting, TagInv, PostTags, CanGoOn, Blocked
  <2>5. CASE \E e \in events : e.tag = i
    BY <1>2, <1>5, <2>2, <2>5 DEF CanGoOn, Blocked
  <2>6. CASE \E r \in Queues : Taken(r, i)
    <3>1. PICK r \in Queues : Taken(r, i)
      BY <2>6
    <3>2. r = q
      BY <2>2, <3>1 DEF Taken, Working, TagInv, HandTags
    <3> QED BY <3>1, <3>2 DEF Taken, CanGoOn, Blocked
  <2> QED BY <2>2, <2>3, <2>4, <2>5, <2>6, WhereAwaiting
<1> QED BY <1>0, <1>3, <1>4, <1>5

(* So does the thread that has an accepted call, or has it in its queue.   *)
LEMMA OpenGoesOn ==
    ASSUME TypeOK, TagInv, LifeInv, NEW c \in Calls, call[c] = "open"
    PROVE  \E q \in Queues :
             /\ CanGoOn(q)
             /\ Busy[q] = c \/ \E i \in Ids : Matched(i) /\ home[i] = q /\ serves[i] = c
<1>0. CallInv /\ ServeInv /\ WaitInv /\ c # NoCall
  BY CallsAssumption DEF LifeInv
<1>1. CASE \E q \in Queues : Busy[q] = c
  <2>1. PICK q \in Queues : Busy[q] = c
    BY <1>1
  <2>2. Executing(q)
    BY <1>0, <2>1 DEF Busy
  <2> QED BY <2>1, <2>2 DEF Executing, CanGoOn, Blocked
<1>2. CASE c \in Accepted
  <2>1. PICK i \in Ids : Matched(i) /\ serves[i] = c
    BY <1>2 DEF Accepted
  <2>2. CASE \E e \in events : e.tag = i
    <3>1. home[i] \in Queues /\ pc[home[i]] \notin {"off", "done"}
      BY <1>0, <2>2 DEF TypeOK, RpcsOK, WaitInv, ServeInv
    <3> QED BY <2>1, <2>2, <3>1 DEF CanGoOn, Blocked
  <2>3. CASE \E q \in Queues : got[q].tag = i /\ pc[q] = "dispatch"
    <3>1. PICK q \in Queues : got[q].tag = i /\ pc[q] = "dispatch"
      BY <2>3
    <3>2. home[i] = q
      BY <3>1 DEF Working, TagInv, HandTags
    <3> QED BY <2>1, <3>1, <3>2 DEF CanGoOn, Blocked
  <2> QED BY <2>1, <2>2, <2>3 DEF Matched
<1> QED BY <1>0, <1>1, <1>2 DEF WaitInv, Service!Remembered

(* What the invariant says of those who wait.                              *)
LEMMA WaitsSay == TypeOK /\ TagInv /\ LifeInv => NobodyWaitsInVain
<1> SUFFICES ASSUME TypeOK, TagInv, LifeInv, ~crashed
             PROVE  (\A c \in Calls : CallGoesOn(c)) /\ MainGoesOn
  BY DEF NobodyWaitsInVain
<1>1. ASSUME NEW c \in Calls PROVE CallGoesOn(c)
  <2>1. call[c] = "sent" => Serving
    BY DEF LifeInv, WaitInv
  <2> QED BY <2>1, SentGoesOn, OpenGoesOn DEF CallGoesOn
<1>2. MainGoesOn
  BY DEF MainGoesOn, LifeInv, WaitInv, CanGoOn, Blocked
<1> QED BY <1>1, <1>2

(* What needs no pool holds in every state of one server.                  *)
LEMMA LifeCorrect == Spec => []LifeInv
<1>1. IInv => TypeOK /\ TagInv /\ StateInv
  BY DEF IInv
<1> QED BY <1>1, LifeInit, LifeStep, InductiveInvariant, PTL DEF Spec

(* No deadlock, for any number of queues, methods and calls: while the     *)
(* process lives, a call that was sent has a listener or a thread about to *)
(* post one, a call that was accepted is with a thread that can go on, and *)
(* so is everything start() and stop() wait for.                           *)
THEOREM NoDeadlock == Spec => []NobodyWaitsInVain
<1>1. IInv => TypeOK /\ TagInv
  BY DEF IInv
<1> QED BY <1>1, WaitsSay, LifeCorrect, InductiveInvariant, PTL

(* What InferenceService promises of every call, for the calls of          *)
(* grpc_server: a call is executed by one thread and answered once, and a  *)
(* call that waits for its answer is never forgotten.                      *)
THEOREM CallsKeepTheirPlace == Spec => [](Service!OnePlace /\ Service!Remembered)
<1>1. TypeOK /\ TagInv /\ StateInv /\ LifeInv /\ Service!OnePlace /\ [Next]_vars
        => Service!OnePlace'
  BY MapStep, OnePlaceStep DEF LifeInv, TypeOK, GrpcOK, Statuses
<1>2. IInv => TypeOK /\ TagInv /\ StateInv
  BY DEF IInv
<1>3. LifeInv => Service!Remembered
  BY DEF LifeInv, WaitInv
<1> QED BY <1>1, <1>2, <1>3, PromiseInit, LifeCorrect, InductiveInvariant, PTL DEF Spec

(* The inductive invariant as a whole, which the run stopping checks.      *)
THEOREM ServerInvariant == Spec => []ServerInv
BY InductiveInvariant, LifeCorrect, PTL DEF ServerInv
=============================================================================
