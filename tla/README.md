# Verification of the XML-RPC multi-RPC client

TLA+ models of the asynchronous multi-RPC added to xmlrpc-c in
`src/xmlrpc-c/src/xmlrpc_client_global.c` and `src/xmlrpc-c/src/xmlrpc_client.c`:
one logical call is sent to N servers by N detached threads. Their
completions share one counter and one mutex, and the completion that
reaches the N-th count calls the user's completion function.

## 1. Inventory

### Components

| Component | Source | State | Operations |
|---|---|---|---|
| **CompletionGroup** | `asynchComplete`, xmlrpc_client.c 1165-1286 | `*requestsRequired`, `*requestsCompleted`, `*requestMutex` (heap, shared by the N call infos); per call `requestOrder` | lock, `completed++`, `requestOrder = completed`, unlock. Then, *outside the lock*, test `completed == required`. If equal: parse the response, call `completionFn`, destroy the call info, free the counters, destroy the mutex. Otherwise print the progress. |
| **FanoutCoordinator (global client)** | `multirpc_globalclient_asynch` 579-667, `performAsynch` 535-574 | caller's stack `env` (shared by every thread), `threadParamArray`, detached threads | validate the global client; allocate the counters (`required` is the *pointer* argument, line 609); build params; init the mutex; create one detached thread per server. Each thread runs `xmlrpc_server_info_new`, tests the **shared** env's fault flag, then calls `xmlrpc_client_start_rpc` or the user's handler directly. |
| **start_rpc** | `xmlrpc_client_start_rpc`, xmlrpc_client.c 1313-1375; `callInfoCreate` 1024-1105 | call info (binds the counters, the mutex and the serialized XML) | build the call info, then `transportOps.send_request(..., asynchComplete, callInfo)`. On a fault, destroy the call info. No completion will come. |
| **Transport** (not in `src/`) | curl/libwww/wininet | in-flight requests | calls `asynchComplete` once per accepted request (spec 4.3). |
| **FanoutCoordinator (client object)** | `xmlrpc_client_multi_asynch` / `performAsync`, xmlrpc_client.c 1398-1509 | as above, with `required` copied correctly | same fan-out; the code does not compile (section 5) |
| **Synchronous multi-RPC** | `xmlrpc_globalclient_multi_synch` 335-403, `performSynch` 236-302 | static `count`, per-call mutex | one thread per server, "joined" one at a time. The threads are detached, so the join does not wait. |
| **Global client lifecycle** | `xmlrpc_client_init2`, `xmlrpc_client_cleanup`, `validateGlobalClientExists`, event-loop finish | `globalClientP`, `globalClientExists` | create, destroy, check, and wait for the transport's pending RPCs |
| **Single calls** | `xmlrpc_client_call*`, `*_asynch*`, `xmlrpc_client_start_rpcf` | none shared (each asynch call is a group of one) | wrappers that build params and call `call2` or `start_rpc` |
| **Examples** | `examples/*.c` | repeated multi-RPCs | drivers. version2 does not check the fault of `init2`. |

### How the components interact

The caller calls `multirpc_globalclient_asynch`. It spawns N threads and
returns; its `env` goes out of scope, but every thread still holds a
pointer to it. Each thread's `start_rpc` hands a call info to the transport.
Later the transport calls `asynchComplete` for that call info, from
whichever thread completes it. The N completions meet only in the shared
counter and mutex. The caller waits, if at all, with
`xmlrpc_client_event_loop_finish_asynch`.

### What is hard

* Concurrent completions: the increment is locked, but the quorum test
  is not. That test re-reads the counter instead of using `requestOrder`.
* Retirement: the reporting completion frees the counters and the mutex
  that other completions may still be using.
* Partial failure: a failed setup step never produces a completion. The
  env is shared, so one thread's fault changes what the other threads do.
* Liveness: the group reports only if every one of the N completions is
  counted.

### What makes it correct

The spec's properties (spec 4.2, 8) are the following:

* no completion is lost or double-counted;
* no report before the N-th completion;
* exactly one report, made by the triggering completion;
* no access to the group after it is retired;
* per-target faults are contained;
* the report eventually happens.

## 2. Modules

### `FanoutGroup` (core; written first)

One multi-RPC. Each server `w \in 1..N` is one process. It covers the
server's thread and later the transport's callback for it. `pc[w]` takes
these values:

`unborn → created → checkEnv → startRpc → inFlight → lock → load → store → unlock → check → (report | progress) → done`

There are also the early exits to `done`.

| Action | Code |
|---|---|
| `Init` | `multirpc_globalclient_asynch` up to the thread loop: counters zeroed, mutex free |
| `Spawn(w)` | `pthread_create` in loop order |
| `ServerInfoNew(w)` | `xmlrpc_server_info_new`. On failure it faults the shared env. |
| `CheckEnv(w)` | `if (!envP->fault_occurred)`. The else branch calls the handler directly (`direct`). |
| `StartRpc(w)` | `xmlrpc_client_start_rpc`. On success the request is in flight. On a fault the call info is destroyed and the env faulted. |
| `Deliver(w)` | transport calls `asynchComplete` (spec-modelled) |
| `Lock`, `Load`, `Store`, `Unlock` | lines 1186-1191. The C `+1` is split into its load and store, so that only the mutex protects it. |
| `Check(w)` | line 1200, the unlocked re-read. After the free the read is undefined, so both outcomes are possible. |
| `Report(w)` | lines 1201-1273: `fired + 1`, counters and mutex freed |
| `Progress(w)` | lines 1274-1286: the printf that reads the counters again |

The module has four constants:

* `N`: the number of servers.
* `Required`: the value that `*newRequestsRequired` holds.
* `StartMayFail`: whether the setup steps can fault.
* `SerialCompletion`: whether the transport runs completions one at a time.

The curl transport, for example, runs them one at a time inside
`finish_asynch`. The mutex in `asynchComplete` exists for transports that
do not, and the spec allows both (4.3).

The auxiliary variable `failed` records which servers' own steps faulted.
`FaultContained` uses it; no action reads it.

**Fairness.** There is weak fairness on every process's step. Threads are
scheduled by the OS. The transport's contract is to deliver every
accepted request (spec 4.3). A dropped completion is the same as a failed
`StartRpc`, which `StartMayFail` covers.

**Deadlock.** The runs set `CHECK_DEADLOCK FALSE`. The system really stops
once every thread is `done`.

### `MCFanoutGroup`

This module gives N = 3, the three servers of the examples. `MCPointerAsCount`
stands for the address that line 609 stores as the required count. The double report and
the use after free already occur with N = 2. N = 3 adds a completion that
is neither first nor last, so a stale read can skip over a completion and
a lost update can hide between two others. It still keeps every run under a few thousand states.

### `GlobalClient` and `MCGlobalClient`

This module covers the global client over a whole program run. The caller is `main` of the
example drivers. Every multi-RPC round adds one thread per server.

| Variable | Code |
|---|---|
| `client` | `globalClientExists` / `globalClientP`: `"none"`, `"live"`, `"destroyed"` |
| `caller` | where `main` is |
| `round` | the driver's loop counter |
| `thr[<<r, s>>]` | server `s`'s thread of round `r`: `unborn`, `running` (spawned, RPC not started), `inFlight`, `done` |

| Action | Code |
|---|---|
| `Init2` | `xmlrpc_client_init2` (stable 47-78). A fault leads to `AfterInitFault`: `multi_rpc_client.c` exits, but version2 does not check the fault. |
| `Dispatch` | `validateGlobalClientExists`, then one `pthread_create` per server. The failure branch only prints. |
| `Join` | stable version: `sleep(5)`, then `pthread_join` on each thread (the thread has returned from `start_rpcf`) |
| `InnerFinish` | stable version: `xmlrpc_client_event_loop_finish_asynch` before returning (`NothingInFlight`) |
| `Wait` | the driver's loop tail. `multi_rpc_client.c` finishes the event loop itself. |
| `Cleanup`, `Exit` | `xmlrpc_client_cleanup`, then `main` returns and the process ends its threads |
| `ThreadStart(t)` | the thread routine starts its RPC on the client. It may fault, and then no completion comes. |
| `Complete(t)` | the transport completes the RPC (spec-modelled) |

There are two boolean constants:

* `Joined`: the stable library (`xmlrpc_client_global_stable_verstion.c`) or the
  detached one (`xmlrpc_client_global.c`).
* `InitChecked`: whether the driver dies on a fault of `init2`.
  `multi_rpc_client.c` does; version2 does not. With the check, a cleanup
  of a client that `init2` never created cannot happen, because that is the
  guard itself. Without it, version2 calls `xmlrpc_client_cleanup` on a
  missing client (hazard at version2 line 119). No run is left to show
  that case.

The instance has 3 servers (as in version2) and 3 rounds. With 3 rounds,
one round's threads can overtake the next round's dispatch, and the run
passes 100 distinct states.

**Fairness** is weak fairness on the caller and on each thread's start
and completion. The OS schedules the threads, and the transport delivers
every accepted request.

### `MultiSynch` and `MCMultiSynch`

This module covers `xmlrpc_globalclient_multi_synch` and `performSynch`, over `Calls`
calls in one program. Nothing in the repository calls the function, and
`performSynch` as written does not compile: it calls `va_start` in a
non-variadic function and uses an undeclared `format`. The model follows
the control flow that the code evidently intends.

| Action | Code |
|---|---|
| `NewInfo` | `xmlrpc_server_info_new` on the shared env. On success the thread's parameters are filled and a detached thread is created. On a fault, or a fault left by an earlier server, the server is skipped. |
| `JoinAndFree` | `pthread_join` (undefined on a detached thread; glibc returns at once), `va_end`, `xmlrpc_server_info_free` |
| `Return` | end of the loop. The next call keeps the static `count`. |
| `CallServer(t)` | validate, build the parameters, `xmlrpc_client_call2` with the thread's server info, then `xmlrpc_read_int`. On a fault of the shared env the process ends with `exit(1)`. |
| `Lock`, `Test`, `Store` | `pthread_mutex_lock` on the call's own `requestMutex`; `if (count >= semantic)` unlock and exit; otherwise `count++` as a load and a store, then unlock |

Each call mallocs its own `requestMutex` (line 349), so `mutex` is a
function from calls to holders, while the static `count` is shared by all
calls. The instance has 3 servers and 2 calls, so the count saturates in the
first call and the second call starts from it. No fairness is assumed,
because the property checked is a safety property.

`SynchCountSpec` says what the count section is meant to do. Each thread
passes it once, in one atomic step (`Pass`) that counts the thread unless
the count has reached `Semantic`. MultiSynch instantiates it as
`SC == INSTANCE SynchCountSpec WITH Semantic <- NS, finished <- Finished`,
where `Finished` is the set of threads at `"done"`, and states
`ImplementsSynchCount == SC!Spec`. In the mapping, `Store` is a `Pass` that
counts, a `Test` that finds the bound reached is a `Pass` that does not, and
every other step stutters. This holds for one call and is proved
(section 4). It fails for two calls (hazard at `xmlrpc_client_global.c:297`).
Threads of the two calls hold different mutexes, both load the same
`count`, and one increment is lost. TLC finds this with two servers and two
calls, in a 15-state trace. With one server the bound hides the lost
increment. All 12 run slots are taken, so this violation has no run of its
own; it was found with a cfg of `MultiSynch` that checks
`PROPERTY ImplementsSynchCount`.

### `AsynchCall` and `MCAsynchCall`

This module covers one asynchronous RPC to one server: a completion group of
one. Its entry points (`Entries`) are `xmlrpc_client_start_rpcf`, the global
client's `xmlrpc_client_call_server_asynch_params`, and the three wrappers
in front of that one. Every entry point goes through
`xmlrpc_client_start_rpc` with `callInfoCreate`, then the transport's
`send_request`, then `asynchComplete`. The state is the heap: for each block
(mutex, the two counters of `start_rpcf`, the single two-int block of
`call_server_asynch_params`, server info, call info), whether it is unallocated,
live or freed. The module also records how far `callInfoCreate` filled the
call info, and which pointers the call info holds as its counters. The
second counter of `call_server_asynch_params` is the pointer `"info+1"`.
The parsed result value is one more block: `xmlrpc_DECREF` of its only
reference frees it. `misuse` records that some `free`, `callInfoDestroy`,
`xmlrpc_DECREF` or read through a pointer was given something other than a
live, fully initialised block (`Live`).

| Action | Code |
|---|---|
| `StartRpcf` | `start_rpcf` up to the server info. It builds the parameters and allocates and inits the mutex (also after a build fault). It checks the suffix, allocates both counters, and calls `xmlrpc_server_info_new`. |
| `Wrapper` | `xmlrpc_client_call_asynch` (validate, build, suffix, then `call_asynch_params`), `xmlrpc_client_call_asynch_params` (`xmlrpc_server_info_new`) and `xmlrpc_client_call_server_asynch` (build, suffix). Each hands some faults to the handler (`HandlerOn`) and drops the others. |
| `CallServerAsynchParams` | `validateGlobalClientExists`, one `malloc` of two ints, then the mutex. After that, `start_rpc`, or the handler on a fault. |
| `CreateCallInfo` | `callInfoCreate` and `callInfoSetCompletion`. A malloc fault leaves the call info NULL. A `makeCallXml` fault leaves it allocated with its fields unset. A `strdup` fault frees it. The pointer is handed back in every case. |
| `Send` | the rest of `start_rpc`: `send_request`, and `callInfoDestroy` on any fault |
| `FreeServerInfo` | `xmlrpc_server_info_free`, also after `server_info_new` faulted; `call_asynch_params` frees its own server info after `call_server_asynch_params` |
| `Complete` | `asynchComplete` for a group of one. The transport, the parse or the server may fault, and only a clean parse sets `resultP`. Then the handler, the `DECREF` of `resultP` when the env has no fault, `callInfoDestroy`, the two counter pointers read from the destroyed call info and freed, and the second `xmlrpc_DECREF(resultP)` at line 1284 |

With every fault enabled, TLC needs 2 steps to find the first misuse.
`xmlrpc_server_info_new` faults in `start_rpcf`, and the server info is
freed anyway. Each of the other bad paths can be shown by narrowing the cfg:

* `FaultsPossible = FALSE` with any single entry point other than `"rpcf"`:
  the success path frees `requestInfos+1`.
* With faults and only `"rpcf"`, `start_rpc` calls `callInfoDestroy` on a
  NULL, a half-initialised or an already freed call info.
* `FaultsPossible = FALSE` with only `"rpcf"`: the one successful call
  reads the destroyed call info at line 1271, and releases `resultP`
  twice (lines 1261 and 1284).

With every fault and every entry point, the model has 103 states, and
`TypeOK` holds in all of them. Several wrapper faults never reach the
handler: the build and suffix faults of `call_asynch`, the suffix fault of
`call_server_asynch`, and a `start_rpc` fault under
`call_server_asynch_params`. No run states this yet (hazard at
`xmlrpc_client_global.c:526`).

### `ClientLibrary` and `MCClientLibrary`

This module covers the library's global constants and client objects: `constSetupCount`, and
whether the transports' global constants are set up (`xportGlobal`).
Users 1..NU each run setup, create, destroy and teardown in the documented
order, with no teardown after a failed setup. User 0 is the global client,
with `init2` and `cleanup`. The functions are documented as not
thread-safe, so each call is one step, and the users' calls interleave in
any order.

| Definition | Code |
|---|---|
| `SetupGlobalConst` | the transports are set up only when the count is 0, and `++constSetupCount` runs in every case |
| `TeardownGlobalConst` | `--constSetupCount`, and the teardown when the count reaches 0 |
| `TransportInfoFault`, `TransportName` | `getTransportInfo` and `getTransportParmsFromClientParms`: ops without a transport, a name with a transport, parameters without a name |
| `CreateResults` | `xmlrpc_client_create`: the count check, the transport lookup (an unknown name faults), the transport's create (may fault), and `clientCreate` (its malloc may fault, and then the new transport is destroyed) |
| `Init2`, `Cleanup` | `xmlrpc_client_init2` (setup; create if no fault; teardown if the create faulted) and `xmlrpc_client_cleanup` |

`ClientParms` enumerates every combination of the parameters that creation
reads. The instance has two users besides the global client and
`MaxSetups = 4`, which is above the three users, so the bound never blocks a
balanced run.

### `CompletionGroupSpec`

The abstract completion group of the spec (section 4.2). Its state is
`completed`, `reports` and `retired`. `RecordCompletion` is one atomic
increment below `Required`. `ReportAndRetire` is the one report at
`completed = Required` together with the release of the counters. `Spec`
adds weak fairness of the report. `FanoutGroup` instantiates it as
`CG == INSTANCE CompletionGroupSpec WITH reports <- fired, retired <- freed`
(`completed` and `Required` map to themselves), and
`ImplementsCompletionGroup == CG!Spec`. In the mapping a completion's
`Store` is `RecordCompletion`, its `Report` (the handler call and the free)
is `ReportAndRetire`, and every other step stutters.

### `SynchCountSpec`

The abstract count section of `performSynch`, with state `count` and
`finished`. `Pass(t)` is one atomic step of a thread that has not passed:
it adds the thread to `finished` and increments `count` below `Semantic`.
`MultiSynch` refines it for one call (section 2, `MultiSynch`).

### `FanoutGroupProofs`, `FanoutReportProofs`, `GlobalClientProofs`, `ClientLibraryProofs`, `MultiSynchProofs` and `AsynchCallProofs`

These modules hold the TLAPS proofs (section 4).

### Plan for the next sittings, in order

1. Done: **GlobalClient**. Still open: composing it with `FanoutGroup`
   through INSTANCE, and the caller's env frame used after return (hazard
   at `xmlrpc_client_global.c:597`).
2. Done: **MultiSynch** (with `SynchCountSpec` and the refinement for one
   call), and **ClientLibrary** (the setup count and the client objects).
3. **Single asynch calls**: `xmlrpc_client_multi_asynch` does not compile
   and is left out (section 5); its completions would be `FanoutGroup`
   with `Required = N`.
   * Done: `AsynchCall`. Still open: a property for the silently lost
     requests (hazard at `xmlrpc_client_global.c:526`).
4. Done: **CompletionGroupSpec** and the refinement, model-checked under
   `SerialCompletion` and proved for its safety part.
5. Done: **Proofs** of the passing runs' safety properties for
   `FanoutGroup` (under `SerialCompletion`), for `GlobalClient` (stable
   driver) and for `ClientLibrary` (setup without faults).

## 3. Runs

The first six runs use `MCFanoutGroup` with N = 3. The next two use
`MCGlobalClient`, then one uses `MCMultiSynch`, two use `MCClientLibrary` and one uses `MCAsynchCall`.

| Run (cfg) | Expect | Properties | Shows |
|---|---|---|---|
| fanout_safety (`FanoutSafety.cfg`) | pass | NoLostUpdate, NoPrematureReport, TypeOK | Concurrent completions with setup failures: the mutex makes the increment lossless, and nothing is reported before the N-th count. |
| fanout_serial (`FanoutSerial.cfg`) | pass | AtMostOneReport, NoUseAfterFree, ReportByQuorumCompletion, EventuallyReported, ImplementsCompletionGroup | A serialising transport makes the design correct: one report, by the completion that reached the quorum, nothing touched after the free, and when every start succeeds the report comes. The group then implements `CompletionGroupSpec`, fairness included. Under concurrent completions (`FanoutSafety.cfg`) the same property fails at the double report. |
| double_report | violation | AtMostOneReport | Completions 1 and 2 unlock, 3 stores; then both 2 and 3 read 3 and both report. |
| use_after_free | violation | NoUseAfterFree | The reporter frees the group while another completion is at its quorum read, or still holds the mutex. |
| fault_containment | violation | FaultContained | Server 1's fault in the shared env makes server 2 call its handler directly and abandon its request. |
| pointer_as_count | violation | EventuallyReported | `required` is the pointer value, so the quorum is never seen. |
| global_stable (`GlobalStable.cfg`) | pass | TypeOK, NoReplyLostAtExit, ClientUsedOnlyWhileLive, Terminates | The stable library with a driver that dies on an `init2` fault. The join and the inner finish keep every use of the client before cleanup. No RPC is cut off by the exit, and the program ends. |
| global_detached_cleanup (`GlobalDetached.cfg`) | violation | ClientUsedOnlyWhileLive | Detached threads: the driver's finish does not wait for a thread that has not started its RPC, so the thread uses the client after cleanup. |
| synch_info_freed | violation | InfoLiveWhileCalled | The join does not wait, and the caller frees the server info before the thread's `call2`. For the same reason the "synchronous" call returns while its threads still run, against the spec's `dispatchSync`. |
| library_setup (`LibrarySetup.cfg`) | pass | SetupCountMatchesUsers, GlobalsUpForTransports | With a transport setup that succeeds, any interleaving of users and of init2/cleanup with every creation fault keeps the count equal to the users holding a setup. No transport lives without the global constants. Deadlock is checked. |
| library_setup_fault (`LibrarySetupFault.cfg`) | violation | GlobalsUpForTransports | init2 fails in the transports' setup, but the count is already 1. A second init2 skips the setup and creates a curl transport without `curl_global_init`. |
| asynch_heap_misuse (`AsynchHeapMisuse.cfg`) | violation | NoHeapMisuse | `start_rpc` calls `callInfoDestroy` on whatever `callInfoCreate` left after a fault: NULL, half initialised, or already freed. `start_rpcf` frees a server info that was never created. `asynchComplete` frees `requestInfos+1`, reads the counter pointers from the call info it has just destroyed, and releases `resultP` a second time. |

`EventuallyReported` fails as soon as `StartMayFail` holds (try it on
`FanoutSafety.cfg`). One failed `start_rpc` or server-info creation drops that
server's completion, and the count never reaches the quorum (finding
`xmlrpc_client.c:1364`, kept in the hazards). Under concurrent completions, `ReportByQuorumCompletion` fails for the same
reason as `AtMostOneReport`: completion 1 can report with its own response
after completion 3's increment. The spec leaves the reporting policy open
(section 9), so no separate run is kept for it. The static `count` of
`MultiSynch` is never reset between calls. It is read only by its own test,
and both branches of that test end the thread, so the missing reset is not
observable. No property is stated about it.

Every property of a passing run has a mutant of the code that breaks it.
The mutants are listed in `PROJECT.json` and defined in `FanoutGroup`:

* `LockUnguarded`: a missing lock;
* `CheckOffByOne`: an off-by-one quorum test;
* `CheckPastQuorum`: a quorum test that asks for more than the required count, so no completion ever reports;
* `DeliverTwice`: a transport that notifies twice;
* `ReportThenLog`: a trailing read after the free.

In `GlobalClient`:

* `JoinNoWait`: no join;
* `InnerFinishNoWait`: a finish that does not wait;
* `WaitOffByOne`: one round too many;
* `NothingInFlightAllRounds`: a pending count that includes requests never started;

In `ClientLibrary`:

* `TeardownNoDecrement`: a teardown that forgets the decrement;
* `TeardownGlobalConstEarly`: the transports torn down while another user holds a setup.

## 4. Proved (TLAPS)

These theorems hold for every `N \in Nat \ {0}` and for every `Required`,
`StartMayFail` and `SerialCompletion`:

* `IInvInvariant`: `Spec => []IInv`, the inductive invariant of the
  two theorems below. It is proved, and is not checked as a run property.
* `TypeCorrect`: `Spec => []TypeOK`. In particular `completed <= N`.
* `LostUpdateFree`: `Spec => []NoLostUpdate`. The requestOrders are
  exactly `1..completed`, one per recorded completion.

`NoLostUpdate` is not inductive by itself. A completion between its load
and its store would break it if another completion could store in
between. `IInv` therefore adds three facts:

* `MutexHeld`: a completion in load, store or unlock holds the mutex;
* `LoadedCurrent`: at the store, the loaded value is the counter;
* `UnorderedBeforeStore`: no order is set before the store.

The bound `completed <= N` in `TypeOK` rests on the count. `Recorded` is
a subset of `1..N`, so its cardinality is at most N (`FS_Subset`), and a
store adds a fresh element (`FS_AddElement`).

The proof has one step per action. Only `Store` needs sub-steps: for the
cardinality, the order set, and the type of the new counter.

`FanoutReportProofs` proves more, for every `N`, with `Required = N`
(what `xmlrpc_client_multi_asynch` stores at `xmlrpc_client.c:1458`;
`multirpc_globalclient_asynch` stores a pointer at
`xmlrpc_client_global.c:609` instead, as run `pointer_as_count` shows):

* `PrematureReportFree`: `Spec => []NoPrematureReport`, for every
  transport. The inductive invariant `PInv` adds to `IInv`:
  * once the handler has run, `completed = N`;
  * a freed group has reported;
  * `QuorumReached`: a completion at its report saw `completed = N`, or the group is already freed.

  The last fact needs the lemma `AllRecorded`: at `completed = N` every
  completion is past its store (the orders fill `1..N`). Without it, a
  completion that read the quorum could meet a later increment.
* `SerialAtMostOneReport` and `SerialNoUseAfterFree`, under
  `SerialCompletion`, from `SerialInvariant` (`Spec => []SInv`). `SInv`
  adds to `IInv`:
  * `OneInGroup`: at most one completion is in the shared steps;
  * `ReportOnce`: `fired \in {0,1}`, and `freed` exactly when `fired = 1`;
  * `RetiredQuorum`: a freed group is at quorum, with nobody before its store;
  * `ReportAtQuorum`;
  * `NoUseAfterFree`.

  `AtMostOneReport` alone is not inductive: a second completion at its
  report would break it. `OneInGroup` and `RetiredQuorum` exclude that state.
* `SerialReportByQuorum`: `Spec => ReportByQuorumCompletion` under
  `SerialCompletion`. `OrderCurrent` is an invariant given `SInv`: a
  completion past its store has the counter as its order. `OneInGroup`
  keeps every other store out while that completion is still in
  `asynchComplete`.
* `SerialRefinement`: `Spec => CG!SafeSpec` under `SerialCompletion`. The
  initial states map to `CG!Init`. `StepRefines` shows that, between two
  `SInv` states, a `Store` is `CG!RecordCompletion` (`LoadedCurrent` gives
  the increment, `NoUseAfterFree` that the group is not retired), a
  `Report` is `CG!ReportAndRetire` (`ReportAtQuorum`), and every other
  step leaves `completed`, `fired` and `freed` alone.

`GlobalClientProofs` proves every safety property of the `global_stable`
run for every `N` and `Rounds`. Each theorem assumes only the flag that it
needs:

* `TypeCorrect`: `Spec => []TypeOK`, with no assumption, for every driver
  version.
* `StableNoReplyLost`: `Spec => []NoReplyLostAtExit`, under `Joined` (a
  driver that joins its threads). This covers the stable driver and
  version2, which ignores an `init2` fault.
* `StableClientUsedOnlyWhileLive`: `Spec => ClientUsedOnlyWhileLive`,
  under `Joined`.

The two `Joined` theorems follow from the inductive invariant
`GInv` (`StableInvariant`).
Outside the join and the inner finish of a multi-RPC, every thread is
unborn or done (`Settled`). Inside them, the threads of the other rounds
are (`OthersSettled`), and the client is live from `init2` to `cleanup`.
`NoReplyLostAtExit` alone is not inductive. It says nothing while the
caller is still looping, and the join is what makes it hold later.
`Settled` carries the join's and the inner finish's waits from round to
round. The lemma `BusyThread` turns this around: a running or in-flight
thread means the caller is in that thread's round's join or inner finish,
where the client is live. The action properties are proved from `GInv`
with `PTL`.

`ClientLibraryProofs` proves the `library_setup` run's invariants for
every `NU` and `MaxSetups`, under `~SetupMayFail`:

* `SetupCountExact`: `Spec => []SetupCountMatchesUsers`;
* `TransportsUnderGlobals`: `Spec => []GlobalsUpForTransports`.

The inductive invariant `LInv` (`LibraryInvariant`) adds two facts to the
count:

* `GlobalsUp`: the constants are set up exactly while the count is
  positive;
* `OwnTransportsOfClients`: an own transport belongs to a user whose
  client exists.

`GlobalsUpForTransports` alone is not inductive. A teardown would break it
if a user holding a client could have a count of zero. The lemmas
`HoldersJoin`, `HoldersLeave` and `HoldersStay` give the cardinality of
`SetupHolders` after a setup or init2, a teardown or cleanup, and a create
or destroy (`FS_AddElement`, `FS_RemoveElement`). `GlobalsAfterSetup` and
`GlobalsAfterTeardown` follow the flag through the count's change. With
`SetupMayFail` the invariant fails (run `library_setup_fault`), and so
nothing is proved there.

`MultiSynchProofs` proves, for every `NS \in Nat` and `Calls \in Nat \ {0}`:

* `MutexPerCall`: `Spec => []MInv`. `MInv` states that a thread is in the
  count section (`test` or `store`) exactly when it holds its call's
  mutex, and that a call's mutex is held only by a thread of that call. It
  also states that a thread about to store loaded a count below `NS`, that
  `k <= NS` at the join, and that no thread of a later server or a later
  call has started (`Ahead`). The last fact is what `NewInfo` needs to
  start an unborn thread.
* `SingleCallRefinement`: with `Calls = 1`, `Spec => ImplementsSynchCount`.
  The inductive invariant `RInv` adds to `MInv` that a storing thread's
  loaded value is still `count`. Only one thread can be in the section
  (`OneInSection`), because with one call all threads share one mutex.
  `StepRefinesSynch` then maps each `Store` and each `Test` at the bound to
  `SC!Pass`, using `FinishedExcept` for the set of finished threads. For
  two calls `RInv` fails, and so does the theorem (section 2).

`AsynchCallProofs` proves, for every set of entry points and every
`FaultsPossible \in BOOLEAN`:

* `TypeCorrect`: `Spec => []TypeOK`;
* `HandlerCalledAtMostOnce`: `Spec => []HandlerAtMostOnce`. On no path
  do the wrappers, `call_server_asynch_params` and `asynchComplete`
  together call the response handler twice;
* `SentCallInfoComplete`: `Spec => []TransportHoldsCompleteCall`. The
  transport holds only a call info that is complete and live.

All three follow from the inductive invariant `AInv`. Before the request
is handed over (`Early`), no handler has run and the transport holds
nothing. While the transport holds the request, no handler has run. At
`send`, the env is clean exactly when `callInfoCreate` filled a live call
info. These results do not contradict the `asynch_heap_misuse` run: the
misuse happens in the frees and reads after the handover, which these
invariants do not cover.

The following are only model-checked:

* the liveness properties `EventuallyReported`, `Terminates` and the
  fairness part of `ImplementsCompletionGroup` (TLAPS does not prove
  liveness under fairness);
* the violations: these are shown by TLC's counterexamples. `AsynchCall`
  and `MultiSynch` have no passing run, so their proved invariants are
  checked by TLC only on the instances used while developing the proofs
  (`AInv` on all 103 states of `MCAsynchCall`, `MInv` with two calls of
  three servers, `ImplementsSynchCount` with one call);
* `ImplementsSynchCount` for two or more calls, which TLC refutes.

## 5. Not modelled, and why

* **XML building and response parsing** (`makeCallXml`, `parseResponse`,
  `xmlrpc_parse_response2`): data conversion. They enter the model only as
  a success or a fault.
* **Transport internals**: not in `src/`. Only their contract is modelled,
  in `Deliver`.
* **Reference counts of values**: only the parsed result's release is
  modelled (`AsynchCall`), as one block freed by its last `DECREF`. The
  parameter arrays' counts are left out.
* **The hello server**: server-side dispatch, outside the client.
* **The client-object multi-RPC** (`xmlrpc_client_multi_asynch`,
  `performAsync`) and **the backup global client**: neither compiles
  (undeclared `threadArray` and `newrequestsCompleted`, a nonexistent type
  and fields; the backup passes the undeclared `Asynch_multirpc_thread_routine`
  to `pthread_create`), so they have no behaviour to model.
  `multi_rpc_client_asynch.c` calls the backup's signature and builds only
  against it.
