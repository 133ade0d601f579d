# Verification of the Tiny Inference Engine

TLA+ models of the server, the client library and the examples of this repository, TLC
configurations that check them on small instances, and TLAPS proofs for every value of the
constants. Paths below are relative to the repository; `tie_server/`, `tie_client/` and
`tie_engine/` stand for `tiny_inference_server/tie_server/`, `tiny_inference_client/tie_client/` and
`tiny_inference_engine/tie_engine/`.

## 1. The system

A gRPC inference server over a pluggable engine, and a client library for it.

| Part | State it keeps | Operations | Talks to | In the models |
|---|---|---|---|---|
| `grpc_server` (`tie_server/src/grpc_server.cpp`) | `_is_running`, the gRPC server, one completion queue and one thread per inference queue, one common queue and thread | `start()`, `stop()`, `rpc_handler()` (the loop of each thread) | gRPC, `rpc_pool`, the request objects | `GrpcServer`; over several rounds `ServerRestarts` |
| `rpc_pool` (`rpc/rpc_pool.cpp`) | `_rpcs` (id to object), `next_id`; its mutex is commented out | `create_rpc`, `remove_rpc`, `release` | used by every server thread, and by `stop()`; static, outlives every server | `GrpcServer`, `ServerRestarts` |
| `rpc_unary_async` and the nine RPC classes (`rpc/rpc_*.cpp`) | `_rpc_state` (CREATE, PROCESS, FINISH), request, response, context | `execute()`: `setup_request`, `create_rpc`, `process_request`, `write_response` | gRPC, the engine | `GrpcServer` (life), `ClientCalls` (contents) |
| server process (`main.cpp`, `server_manager.cpp`) | the configuration, the `server_manager` of this round | restart loop, `run()`, `main_loop()`, destructor | `grpc_server`, `http_server`, the signal flag | `ServerProcess` |
| shutdown signal (`server_shutdown.cpp`) | one `sig_atomic_t` | handler, test, reset | asynchronous signals | `ServerProcess` |
| `http_server` | none (a stub) | `start()`, `stop()` do nothing | | `ServerProcess` |
| engine, null backend (`tie_engine/src`) | the backend; no lock | readiness, list, load, unload, metadata, `infer` (called by no RPC) | asked by the common queue's thread | `ClientCalls` |
| `grpc_client` (`tie_client/src/grpc_client.cpp`) | a stub; nothing between two calls | nine synchronous methods without deadline or retry | gRPC | `ClientCalls` |
| `tensor_converter` (`tie_client/src/tensor_converter.*`, `data_type.cpp`) | none | `get_infer_request`, `get_infer_response` | called by `infer` | `TensorConverter`, `TensorReader` |
| command line (`command_line_parser.cpp`) | `server_config` | parse or refuse | `main()` | `ServerProcess` (`Flags`, `Needs`, `Parse`, `Refuse`) |
| loggers (`logging.cpp`) | none that matters here | `setup_loggers()` | `main()` | `ServerProcess` (`SetupLoggers`) |
| client examples (`tiny_inference_client/examples/src`) | none | four programs, each a sequence of calls | `grpc_client` | `ClientExamples`, run by `ClientCalls` |
| `grpc_example` (`src/grpc_example`) | one queue, one thread, objects that own themselves; a client of one call | `Run()`, `HandleRPCs()`, `CallData::Proceed()`, `ServerLive()` | gRPC | `GrpcExample` |

### What is hard

* **Threads without a lock.** Every server has at least two queue threads. All insert into and
  erase from one `std::unordered_map`; the engine has no lock either and relies on a convention.
* **Tags are raw pointers.** gRPC holds the address of a request object from `RequestXxx` or
  `Finish` until the event comes back. The pool must keep the object exactly that long.
* **A state set after the operation it belongs to.** `execute()` starts `Finish` and only then sets
  `_rpc_state = FINISH` (`rpc_unary_async.cpp:42`).
* **Self-replacement.** The server goes on serving a method only because each request posts its
  successor before it is processed.
* **Shutdown.** `stop()` may come at any moment: while threads post their first requests, while
  events wait in queues, while an inference sleeps, after a client has gone. It drains each queue
  side by side with the queue's own thread.
* **Restarts.** Each round of `main()`'s loop has a server of its own, but the pool and its ids are
  static: what one server leaves in the pool is there when the next one starts.
* **Signals.** The flag is read in `main_loop()`, cleared later, and the server is stopped later
  still; a signal may come between any two of these.
* **Failures.** A port that cannot be bound; clients that disappear; a server that dies while
  clients wait without deadline.
* **Machine integers.** `std::accumulate` runs in an `int` over `uint64_t` dimensions and its result
  becomes a `size_t` that bounds a loop counted in `unsigned int`. The response side multiplies
  `int64_t` dimensions that the server chose, modulo 2^64, and takes bytes for elements.

### What makes each part correct

* Front end: a call is executed at most once, by one idle thread of its queue; it is answered only
  after it was executed; it is answered or fails; the server does not stop while an accepted call
  waits. No object is used after it was freed, none leaks, no method ceases to be served.
* Process: one signal ends it or, with `--restart_server`, brings exactly one new server, which
  finds the port free. A new server behaves as the first one did, whatever is left of the old one.
* Calls: the engine is asked at most once for each call and in the order of the caller; what a
  method reports as OK is what the engine said.
* Tensors: the elements read from the caller's buffer are those of the shape in the message; the
  room made for an output is that of its shape; a tensor that is passed on keeps shape and type.
* `grpc_example`: an object lives exactly as long as gRPC or the thread holds its address, and one
  listens at any time.

`PROJECT.json` lists under `hazards` every place where this is hard to test, with the properties
that would notice. Four have none, because the code as it is does what they describe and nothing in
the repository says otherwise: a port that cannot be bound takes the process down with it
(`grpc_server.cpp:66`), an Fp16 tensor loses its elements (`tensor_converter.hpp:207`), a String is
read up to a NUL wherever that is (`tensor_converter.hpp:139`), and a client that goes away aborts
`grpc_example` (`server.cpp:112`). The models contain all four; properties that concern them say
under which condition they do not happen, or what else holds when they do.

## 2. Modules

    InferenceService                 what a front end promises
       ^ implemented by                        ^ given contents by
    GrpcServer       GrpcExample          ClientCalls <-- scripts -- ClientExamples
       ^ extended by
    ServerRestarts -- implements --> ServerProcess

    TensorConverter      TensorReader          both over Shapes; Modular holds the arithmetic

`MCGrpcServer`, `MCServerRestarts`, `MCServerProcess`, `MCClientCalls`, `MCTensorConverter`,
`MCTensorReader` and `MCGrpcExample` are the instances for TLC. `GrpcServerProofs`,
`ServerRestartsProofs`, `ServerProcessProofs`, `ClientCallsProofs`, `TensorConverterProofs`,
`TensorReaderProofs` and `GrpcExampleProofs` hold the theorems, and `Modular` the lemmas on division
with remainder and on the product of a shape (`Shapes`) that two of them share.

`GrpcServer` is shown to implement `InferenceService`; `ClientCalls` is built on
`InferenceService` (it INSTANCEs it and adds contents to its steps), so the two halves meet in
the abstract specification. `ServerProcess` uses of `grpc_server` only that `start()` binds or
fails, that `stop()` returns, and that the process may die of either; `ServerRestarts` puts the
real server in that place and is shown to implement it.

### GrpcServer

One thread step per statement that touches shared state. The mapping to `rpc_handler()` and
`execute()`:

| Action | Code |
|---|---|
| `Start`, `Spawn` | `start()`: `BuildAndStart`, then the threads, whatever it returned |
| `BootCreate`, `BootPost` | the lambda of each thread: `create_rpc<T>(...)->execute()` for its methods |
| `NextEvent`, `NextEnd` | `cq->Next` in `rpc_handler()` |
| `Dispatch` | the cast of the tag; `!ok` leads to `remove_rpc(rpc->id)`, else `execute()` by `_rpc_state` |
| `Respawn`, `RespawnPost` | `create_rpc()` of the class: insert, then post the successor |
| `Process`, `Write`, `MarkFinish` | `process_request()`, `write_response()`, `_rpc_state = FINISH` |
| `Remove` | `remove_rpc` |
| `Stop`, `Release`, `ServerShutdown`, `ShutdownReturns`, `CloseQueue`, `DrainEvent`, `DrainEnd`, `Join` | `stop()` |
| `StopNotRunning` | `stop()` of a server that never ran, then the destructor over joinable threads |
| `Send`, `Match`, `Lose` | gRPC and the clients (external) |

*Undefined behaviour* is explicit. Two threads at the pool's map at once make an insertion or an
erasure that may or may not take effect, and record `data_race`. A use of a freed object records
`use_after_free`. After either, the process goes on with what it finds, or dies at any later
moment (`Crash`). `RequestXxx` and `Finish` on a completion queue that is shut down fail an
assertion of gRPC: `shut_queue_op`, and the process is dead. A memory model finer than this
(what a torn map looks like) is not modelled: after a race nothing is promised.

`nextId` is bounded by `MaxRpcs` in the guard of `Insert`. The bound of each run is at least the
number of first requests of all rounds plus one successor for each call, so it never blocks an
insertion.

### InferenceService

The promise of the front end without queues, pool or request objects: `Open`, `Send`, `Accept`,
`Begin`, `Answer`, `Lose`, `Close`, `Drop`, `Stop`. `Drop` is the one thing a reader may not
expect: after the close an accepted call that nobody waits for any more may be thrown away
unexecuted, which is what draining the queues does. The refinement mapping is `Phase`, `Accepted`,
`Busy` and `CanServe` in `GrpcServer`: a call is `accepted` while its matched event waits or is in
the thread's hand, and a thread is `busy` from there to `Finish`.

### ServerProcess

`main()` from the installation of the handlers, through the restart loop, to its end; each
statement that reads or writes the flag, the port or a server is an action, and `Signal` may come
between any two. Before the handlers are installed a signal has its default effect. A command line
is the five flags, each absent or given a value, the options that are given, and whether all values
pass their checks (`valid`, which also stands for neither `--help` nor `--version`). `Needs` is the
table of `needs()` calls, and `Default` the defaults; an option whose flag is only on by default
counts as lacking its flag. `SetupLoggers` can fail: spdlog throws if the log file cannot be opened,
and nobody catches. `Others` are processes that take the port and leave it, the reason why `start()`
can fail. `Die` is the end of the process by what `GrpcServer` calls undefined behaviour, at any
time after a server was started.

### ServerRestarts

`GrpcServer`, one incarnation after the other, inside `ServerProcess`. It EXTENDS the first and
INSTANCEs the second with `grpc <- View`, so every step is written as a step of both, or of one
while the other stands still. `NewServer` is the constructor of the next `server_manager`: the
threads, queues and the gRPC server are new, the pool, its objects and `nextId` stay. `since` is
`next_id` at that moment and divides the objects of this round from older ones; `carried` is the
undefined behaviour of earlier rounds, of which the process can still die (`Collapse`).

What is left in the pool after a `stop()` are objects that were inserted after its `release()` and
whose last event the drain threw away. They keep their old queue and engine in memory until the
`release()` of the next `stop()`. Nothing refers to them any more (`NothingOutlivesStop`), the next
server never meets one (`SinceInv`), and they do not accumulate (`LeftoversAreFreed`), unless
a race of the same round keeps them there: `release()` is one of those that race.

### ClientCalls

Users are threads of client programs, each with a script of requests. `Call` and `Return` are the
two ends of a synchronous method. A server thread does `Ask` (inside the engine), `Fill` and
`Write`. What each RPC class asks, what it replies and what each client method makes of the reply
are operators named after the code (`rpc_model_load`, `model_load`, ...). Names and contents are
small sets: a content is told apart only as a flag, the server's identity, or an empty message,
which is all the null backend gives. The code's empty string is `"none"`.

The scripts that are run are those of `ClientExamples`: the calls of the four example programs, in
order. None of them looks at the result of one call before it makes the next.

### TensorConverter

`get_infer_request`, one dimension and one element at a time, with the widths of `int`,
`unsigned int` and `size_t` as parameters. `elements` is a variable of the specification only:
the true product of the dimensions so far. A read behind the caller's buffer is undefined, so it
ends the process or yields a value (`overrun`). `MaxElements` is where memory ends.

`Write` is the loop of the plain types. A String takes another way (`AddString`,
`tensor_converter.hpp:137`): the writer makes one string of the bare pointer, so the chars up to the
first NUL are read, whatever the shape and the size computed from it, and also if the shape has no
element. The buffer of a String is one char for each place of its shape, which is how
`tensor_data_reader` makes one (`tensor_converter.hpp:168`); `nul` is how far the first NUL is from
the pointer, and the read goes beyond the buffer unless it is among those chars. `Readable` is what
the caller must see to: that an `int` can count the elements of a plain tensor, that a String has a
NUL in its buffer. `ReadsInBounds` shows that this is enough for every read to stay in the buffer, and
`Converts` that the conversion then ends. Nothing is read of an Fp16 tensor, whose writer is commented
out.

### TensorReader

`get_infer_response`, one dimension and, in the branch that copies element by element, one element
at a time. The server of this repository sends no output tensor (`rpc_model_infer` answers with an
empty response), but the client library is written for servers that do, so the responses here are
any lists of outputs: shapes of `int64_t`, also negative ones, and names of data types, also unknown
ones. `elements` is a variable of the specification only. The reader copies from the address of the
protobuf field object; its size is `ObjectSize`, and a read behind it, or a write behind the vector
(`spilled`), ends the process or goes on with foreign bytes. What becomes of the pointer is in
`data`: `"gone"` is a pointer into the vector that was destroyed.

### GrpcExample

The server and client from which `grpc_server` grew: one thread takes an event and executes it;
a `CallData` is replaced before it answers and deletes itself when its answer is out. There is no
pool, id, lock or stop; any failed event reaches `std::abort()`. Every statement between two
accesses to gRPC is one action. Without a server (`BuildAndStart` failed and nobody looks) the first
request is posted through a null pointer. It implements the same `InferenceService` with one worker.

## 3. Runs

| Run | Asks | Instance |
|---|---|---|
| `serving` | is anything used after it was freed, leaked, or no longer listening while the server is up? | two inference queues, two common methods, three calls (two inferences, one other), up to 7 objects |
| `stopping` | does the whole of `start()` to `stop()` keep the inductive invariant (`ServerInv`), does anyone ever wait for what nobody can still do (`NobodyWaitsInVain`), does it abort only for the two known reasons, and implement `InferenceService`; is each call answered, and does `stop()` return? | one inference queue, one common method, two inferences that wait for each other, up to 5 objects |
| `restarts` | what does a server find of the one before it, does a restart complete, and is the whole a `ServerProcess`? | two rounds, two queues, an inference and a call of the common queue, up to 6 objects |
| `process` | signals at any moment, any command line | four signals; every setting of the flags, with no option, each option, all options |
| `calls` | what is the engine asked, and what is the caller told? | `client_example_model_info` beside `client_example_model_infer` |
| `calls_return` | does every method return? (With what the engine said: `calls`, and for every script by proof.) | `client_example_server_info` beside `client_example_simple_inference` |
| `tensor` | sizes, reads, messages of requests | 3-bit `int`, 5-bit `size_t`, up to two tensors of up to two dimensions |
| `reading` | sizes, room, writes, types of responses | 3-bit `unsigned int`, 5-bit `size_t`, one output of every type or two of the types that differ |
| `example` | the one-thread example server: who owns an object, what aborts it, who is answered | three runs of its client |
| `pool_race`, `stop_survival`, `outputs_arrive` | the three findings, below | one inference queue and one common method; one output tensor |

**Why the bounds are enough.** Two inference queues and the common one are the least in which
threads of one kind, and of both kinds, meet; two calls of one method let one wait behind the other
and let a successor object be matched before its predecessor is removed; a third of another method
crosses queues. Two common methods make a boot list with a middle. In `restarts` two rounds are what
it takes for one server to find the objects of another, which no later round can do differently: a
round starts in the same state whatever its number, but for the ids and what the last round left in
the pool (`SinceInv`, `LeftoversAreFreed`), and the proofs do not bound the rounds. In `calls`, a
user with several calls is needed for order, a second for interleaving in the common thread, and an
inference for the second kind of thread. In `process` four signals allow two rounds of the restart
loop with a signal to spare in each. In `tensor` the dimensions are zero, one, two, three, the sign
bit of 64-bit and the largest size, so that every conversion wraps, and two dimensions give a
product that overflows and one that overflows and comes back; the NUL of a String is its first or
second char, so that it is in the buffer or behind it, and the buffer may be empty; `reading` adds the negative ones. In
`example` three clients let one be served, one wait and one be lost.

**Bounds on numbers.** `MaxRpcs` and `MaxObjects` bound ids in the guards of `Insert` and
`NewCallData`: one for each object a run can create, so that they never block. `MaxSignals` bounds
`Signal`; `MaxElements` and `MaxBytes` are where memory ends.

**Constraints and symmetry.** `RaceFree` (in `stopping`) does not continue behind a state with a
race: the properties of this run promise nothing there (`PoolInv` and the liveness properties say
so), except `NobodyWaitsInVain`, `AbortNeedsCause`, `ServiceSpec` and the rest of `ServerInv`, which
are proved without it.
`ServingOnly` also stops at `stop()`, because every property of `serving` except `EventMatchesState`
speaks of the time before it; `stopping` covers the rest. `TwoRounds` cuts off a third round, states
behind a race, and signals that come before the server of their round has been started, of which
`process` has every kind. The liveness properties are met in any state that is cut off for a race
(`GivenUp`, `Raced`). `QueueSymmetry` permutes the inference queues, which the code treats alike,
and is used with invariants only. Deadlock is checked in every run; a specification that has ended
stutters explicitly.

**Fairness.** `GrpcServer`: each thread is an operating-system thread that keeps being scheduled
(`WF(ThreadStep(q))`), the thread in `start()` or `stop()` keeps running (`WF(MainStep)`), and gRPC
eventually matches a call with a posted request (`WF(Match(c))`). Nobody has to call `stop()`, send
a call or lose one. `ServerProcess`: main runs and the threads boot; signals need not come.
`ServerRestarts`: both of these, and no more; in particular no signal has to come and no process has
to give the port back. `ClientCalls`: the same for the server's threads and for acceptance, the stub
returns once the call is over, and the connection to a process that has died breaks. That the server
opens, closes or dies is not assumed. `TensorConverter`, `TensorReader`: the function keeps running.
`GrpcExample`: the thread, gRPC and the clients keep running, and a connection to a process that has
aborted breaks.

**Mutants.** `PROJECT.json` gives for every property a plausible bug (a dropped reset, a step in
the wrong order, a forgotten removal) that makes the run fail; the definitions stand beside the
originals and say "Mutant".

### Findings

* `pool_race`: the pool's lock is a comment (`rpc_pool.cpp:21`, `rpc_pool.hpp:35`). Two threads are
  in `_rpcs` at once as soon as they post their first requests, and `release()` in `stop()` is a
  third.
* `stop_survival`: `stop()` calls `release()` before `Shutdown()` (`grpc_server.cpp:114`), which
  frees the posted objects whose addresses gRPC still holds; their tags come back with
  `ok = false` and `rpc_handler` reads `rpc->id` from freed memory (`grpc_server.cpp:158`). No race,
  lost call or early stop is needed.
* `outputs_arrive`: the reader of a response copies from the address of the protobuf field object
  (`tensor_converter.hpp:188`) and hands out a pointer into a vector that is destroyed on return, so
  no element of an output tensor reaches the caller. It does not show with the present server, which
  sends none.

Everything else that is checked holds of the code. Facts worth knowing that are not findings:
`AbortNeedsCause` names the only two ways to the assertion of a closed queue (a stop before all
threads listen; a client that went away during an inference), and `AbortNeedsLostClient` the one way
to the `abort()` of `grpc_example`; `ToldTheTruth` holds of `model_load` and `model_unload` only
because the null backend never refuses: the replies do not carry its answer. An inference that
returns OK was not put to the engine: `rpc_model_infer` waits three seconds and answers. A String that
was read from a response has no NUL of its own behind its chars, which is what sending it on needs.

## 4. Proofs

All proofs are checked by TLAPS with SMT, Zenon and, for temporal steps, LS4. They assume of the
constants only the named `ASSUME`s of the modules, which TLC evaluates in the runs. Every invariant
and action property of the passing runs is stated by a theorem, and so is every refinement. Type
correctness of every module but `InferenceService` is proved (`TypeCorrect`, `SystemTyped`,
`ProcessTyped`, `CallsTyped`, `ConverterTyped`, `ReaderTyped`, and within `ExampleInvariant`), which
is why the runs do not check it again, except inside `ServerInv`.

*Liveness and what is proved of it.* Fairness and ENABLED are out of reach of TLAPS. But a liveness
property fails in one of two ways: somebody is stuck, or something goes on for ever. The first is a
matter of safety, and is proved wherever one party waits for another: nobody waits for what nobody
can still do (`NoDeadlock`, `RoundsDoNotDeadlock`), no call is forgotten (`CallsKeepTheirPlace`,
`NoUserIsForgotten`, `NoClientIsForgotten`), no signal is lost (`SignalsAreNotLost`), no conversion
gets stuck (`ConversionNeverStuck`). The second is proved of the two functions that run in loops:
each step makes a measure in the natural numbers smaller (`ConversionComesToAnEnd`,
`ReadComesToAnEnd`). That these, with the fairness, imply the liveness property is the part that only
TLC checks.

**GrpcServerProofs**, for any queues, methods, calls and bound on ids. None of `SafeWhileServing`,
`PoolExact`, `EventMatchesState` is inductive. The strengthening is

    IInv == TypeOK /\ TagInv /\ StateInv /\ StartInv /\ PoolInv

*TagInv* says that a tag is in one place: posted, in a queue, in a thread's hand, or being posted.
The one exception is why the code is subtle: between `Finish` and `_rpc_state = FINISH` the tag is
already back in the queue while its thread still holds it. *StateInv* gives the object's state for
each place; together they yield `EventMatchesState`: the event that may come too early can only be
taken by the thread that still has to set the state. *PoolInv* says that, until `stop()` and
without a race, what is referred to is in the pool and alive, and nothing else is in it. *StartInv*
is what makes `PoolInv` true when the server comes up. `TagInv` and `StateInv` hold unconditionally,
also after races and during the stop. Results: `TypeCorrect`, `TagsInOnePlace`,
`EventsMatchStates`, `InductiveInvariant`, `ServingIsSafe`, `PoolIsExact`. Three more invariants lead
to the others, and a fourth to the last:

* `AbortsHaveACause` from *CallInv* (a call has one object, which answers it once; an event taken as
  a new request was not answered yet) and *CloseInv* (a queue is closed only when no call is open,
  and, unless `stop()` came early, when every thread has posted its requests). So a thread that still
  executes when its queue closes holds a call that failed.
* `MethodsStayPosted` from *ChainInv*: for each method a thread has posted exactly one object awaits
  calls, and for the others none but the one being posted. Each step either leaves it, or takes the
  object and inserts its successor in the same action; that the set has cardinality one follows from
  `FS_Singleton`.
* `ServerImplementsService`: each step of `GrpcServer` is one of `InferenceService` under the mapping,
  or a stutter. It needs CallInv (who is accepted), CloseInv (nothing is open after the close) and
  *ServeInv* (what the places of `stop()` say of the phase; an object serves calls of its own method,
  on a queue of that method; a thread that ended leaves an empty queue).
* `NoDeadlock`, that `NobodyWaitsInVain`: what a call, `Shutdown()`, `join()` or a thread waits for
  has an actor that can take the next step. It needs all of the above and *WaitInv*: an accepted call
  is in a queue or with a thread (`Service!Remembered`); a thread that is off is still to be started
  and holds nothing; one that has not posted all its methods is booting; `stop()` reaches the join
  with every queue closed. `CallsKeepTheirPlace` is what `InferenceService` promises of each call.

`LifeInv` collects CallInv, CloseInv, ChainInv, ServeInv and WaitInv. With the types, TagInv and
StateInv it is inductive and needs no pool, so it holds also after races and with crashes, and over
every round. `ServerInv` is `IInv /\ LifeInv` (`ServerInvariant`).

**ServerRestartsProofs**, for any number of rounds and signals. A step of the system is a step of
`GrpcServer`, `NewServer`, or `Collapse`, so the lemmas of GrpcServerProofs are used as they are and
only the other two are new. *RoundInv* says at which places of `main()` there is a server, and that
after `stop()` no thread is left; with it every step maps to one of `ServerProcess`
(`SystemImplementsProcess`), whose theorems follow for the whole (`RoundsAreAskedFor`). *SinceInv*
keeps the rounds apart. What is left in the pool breaks `PoolExact` for the second server, so the
safety of a round is proved through a second instance of GrpcServerProofs, with `pool` and `mem`
replaced by the share of this round (`OwnPool`, `OwnMem`): a step of the system is a step of that
instance, `NewServer` leads to one of its initial states in all that matters, and its `PoolInv`
gives `EveryServerIsSafe` and `EveryShareIsExact`.

`LifeInv`, which needs no pool, carries over from round to round by itself: after `stop()` there is
no thread, event or posted request (`StopLeavesNothing`, from CloseInv, ServeInv and WaitInv), which
is just what `NewServer` needs to begin with. Hence `RoundsStayPosted`, `RoundsDoNotDeadlock`,
`RoundsKeepTheirPlace`, `RoundsAbortForCause` (the cause is in the same round: the client that went
away was this server's, by SinceInv), and `EveryRoundServes`: over all rounds the clients see one
`InferenceService` that now and then opens again. `StopFreesLeftovers` needs only *LeftInv*: once
`release()` has been called, what is in the pool was made by this server.

**ServerProcessProofs**, for any number of signals and any command lines: `NoSpuriousRestart`
follows from `SignalBudget`, which counts, for each place in `main()`, how many starts the signals
so far and the one pending still allow. `PortHandedOver` needs beside the types only which servers
can exist at each place of `main()`. `SignalsAreNotLost`: the flag is cleared at one place, which is
reached only with the signal noted (`SignalBudget`) and, without `--restart_server`, never left
backwards. By the refinement all three hold over all rounds of the real server.

**TensorConverterProofs**, for any widths that satisfy `WidthsAssumption`: the accumulator equals
the number of elements modulo the width of `int` after each dimension (`SizeExact`), because
`size_t` is a whole number of times wider, so that cutting to it and multiplying in it are
compatible with the residue (`SizeKept`, `SameIntTimes`), and a residue has one `int`
(`SameIntConverts`). `ReadsInBounds` and `CopiesAll` follow from `CopyInv`, the place of the loop.
`ConversionNeverStuck` needs of the caller what `Readable` says: of the tensor in the loop that an
`int` can count it (`CurrentFits`), of a String that its NUL is in the buffer (`CurrentEnds`).

`SizeExact` compares the accumulator with `elements`, a counter of the model. That this counter is
the product of the caller's shape (`SizeFollowsShape`), and that the message has one element for each
place of the shape it carries (`MessagesMatchShapes`), speak of `Product`, a recursive function over
a shape of any rank. Induction over data is out of reach, but not needed: `std::accumulate` goes
through the shape one dimension at a time, so the induction is the one over the run.
`Multiplied(s, d, n)` says that `n` is the product of the first `d` dimensions of `s`: some function
satisfies the recursion up to `d` and has this value there, and every one that satisfies it to the
end agrees. It holds at 1 before the first dimension (`MultipliedNothing`), is kept by each step
(`MultipliedNext`), and at the end gives the value that `Product` chooses (`MultipliedAll`). *ShapeInv*
keeps it for the tensor in hand, and the result for those that are done.

**TensorReaderProofs**, for any widths that satisfy `ReaderWidths` and any responses: `ReaderInv` is
inductive. Its core is that a product modulo the width of `size_t` can be taken dimension by
dimension, negative ones included, and that a residue equals a number that fits (`Modular`).
`RoomFollowsShape` ties its counter to the product of the shape, in the same way as above (*CountInv*).
`ForwardedAlike` needs that the casts between `int64_t` and `uint64_t` undo each other, and a case
for each name of a data type.

**ClientCallsProofs**, for any users, scripts and number of inference threads: the invariant adds
to the types which calls are made (`SentInv`), that a call is in one place and a thread serves the
methods of its queue (`WorkInv`), that what the engine was asked belongs to a call that was begun
(`LogInv`), that a call past asking has asked and an answered one has its reply (`PastInv`), and
that OK is the result of an answer (`ResultInv`). `EngineIsSerial` rests on the convention
(in `WorkInv`) that the class served by the inference threads does not ask. `CallsRunOnService`: what
happens to a call here is a behaviour of `InferenceService`, the specification that `GrpcServer`
implements, so nothing is assumed of the server that it does not keep. `NoUserIsForgotten` adds
*WaitInv*: a call that was sent and not accepted is with a server that is up.

**GrpcExampleProofs**, for any number of clients: `ExampleInv` is inductive; as in `GrpcServer` it
says that an address is in one place, and adds what is known of the call an object serves. The
refinement of `InferenceService` follows step by step. `NoClientIsForgotten` follows from `OneListens`
and *AnswerDue*: a call that was taken keeps its object until it is answered or lost.

**Only model-checked**: that the waiting ends under the fairness stated (`CallsComplete`,
`StopCompletes`, `RestartCompletes`, `SignalEndsProcess`, `SignalRestarts`, `Converts`, `ReadEnds`,
`MethodsReturn`, `ClientsReturn`).

## 5. What is not modelled

* `onnx_backend`: no build file names it, the factory has it commented out, and it does not compile
  (a `continue` outside of a loop, `onnx_backend.cpp:40`). A model of it would be a model of code
  that is no part of the program.
* `engine::infer` and `infer` of the null backend: no RPC calls them (`rpc_model_infer` sleeps
  instead).
* `client_rpc_unary_async.hpp`: included by nothing, and the client's completion queue for it is a
  comment.
* `scratchpad.cpp`: templates evaluated by the compiler. `server_backend_runner.cpp`: written
  against a namespace that the engine library does not have.
* `nvidia.proto` and `amd.proto`, which are not compiled.
* What is logged; names, defaults and checks of the options' values; image reading and scaling in
  the examples.
* The destructor of the static `rpc_pool`, which runs after `main()` with no thread left.
* gRPC, protobuf and the operating system are external, modelled from how the code relies on them.

## 6. Plan

Done, most important first: the front end and the pool with their proofs and their abstract
specification, the process and its signals, restarts over one pool, the tensors in both directions,
the client calls and the RPC contents, the examples, theorems for every invariant that is checked and
a safety core behind most liveness properties (section 4). Left, should the code grow there:

1. When `rpc_model_infer` calls the engine, `ClientCalls` gets its question, and `EngineIsSerial`
   will no longer hold without a lock.
2. When `onnx_backend` is built: the map of sessions it keeps and its use from several threads.
