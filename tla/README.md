# TLA+ verification of the Spooled Python SDK

The Spooled SDK (`src/src/spooled`) is the client of a job queue service. Most of
its files are one call of the API per method; the behaviour that is hard to get right is
in a few places that keep state and run on several threads or tasks: the two worker
runtimes, the HTTP clients with their retries, circuit breaker and token refresh, the
realtime clients with their reconnects, and the gRPC streams. This directory models those
parts in TLA+, checks the models with TLC on small instances, and proves the most important
invariants with TLAPS for every instance.

Run a model with `tlc -config MCX_run.cfg MCX.tla`, a proof with `tlapm M.tla`.

## 1. Inventory

| Component | State | Operations | What is hard |
|---|---|---|---|
| Synchronous worker, `worker/worker.py` | `_state`, `_active_jobs`, `_abandoned_running`, `_intake_closed`, worker ids, per job `ActiveJob` flags and two timers, the thread pool | `start`, `_poll`, `_process_job`, `_execute_handler`, `_complete_job`/`_send_fail`, `_abandon_job`, heartbeats, `stop` | a handler thread, a timeout timer, a heartbeat timer, the poll thread and `stop()` share one job; every ack is an HTTP call in the middle of it |
| Asynchronous worker, `worker/async_worker.py` | the same, on one event loop | the same | cancellation may arrive at any `await`, also in an ack, and before a task's first step |
| HTTP clients, `utils/http.py`, `utils/async_http.py`, `utils/retry.py` | bearer token, refresh lock, the "refreshing" mark | `request` = retry loop around breaker around one request, with one replay after a 401 | concurrent 401s, a refresh that goes through the client itself, lost answers of writes, tasks that are cancelled |
| Circuit breaker, `utils/circuit_breaker.py` | state, failure and success counts, time of the last failure | `is_allowed`, `record_success`, `record_failure`, `reset` | results arrive long after the state they were allowed in |
| Clients, `client.py`, `async_client.py`, `utils/jwt.py` | configured tokens, cached realtime JWT and its expiry | `get_jwt_token`, `_refresh_access_token`, the token provider of `realtime()` | expiry against the clock, single flight, a coroutine awaited from threads |
| WebSocket clients, `realtime/websocket.py` | socket, state, retry budget, timer, receive thread, subscriptions | `connect`, `disconnect`, `subscribe`, receiving, reconnecting | three threads without a lock; in the asynchronous one, two tasks |
| SSE clients, `realtime/sse.py` | response, `_closed`, `_finished`, retry budget | `connect`, `events`, `close` | `close()` on another thread or task during a reconnect |
| Unified realtime, `realtime/unified.py` | as WebSocket and SSE, and an event queue of 10000 | the same, `events()` from a queue | the stop event is shared by successive connections |
| gRPC client, `grpc/client.py` | request queue and flags of `ProcessJobsStream`, flag of `JobStream` | `send`, `receive`, `end`, `cancel`, the request generator; unary calls | end against late sends, two threads that start a stream, cancel against a blocked reader |
| Resources, `resources/` | none | one call each | which calls are sent again after a lost answer, and what the caller is told |
| Errors, `errors.py` | none | the classification of an answer | a lost lease, a plan limit and a rate limit share status codes, and REST and gRPC say it differently |
| Types, configuration, casing, event types, stubs | none, or immutable | | nothing: no module |

How they interact: a worker calls `jobs.claim/complete/fail/heartbeat` and
`workers.register/deregister/heartbeat` of the resources, which call the HTTP
client; that one calls back into the client's `_refresh_access_token`, which
calls `auth.refresh`, again through the HTTP client. Realtime clients take their
token from `get_jwt_token`. The queue server is not in this repository; each model says
what it takes of it.

What makes each correct:

* workers: one ack per execution; the jobs held and the threads in use never exceed
  the concurrency; slots are given back; `stop()` ends, and leaves no job behind
  that nobody answers;
* HTTP clients: a refresh never deadlocks and is not repeated for a token that was
  just replaced; a write is not replayed unless that is safe; every request ends;
* API calls: what is sent again acts once; a refusal means that nothing happened; an answer
  that will stay the same is not tried again; a lost lease is told as one;
* breaker: opens exactly on enough failures without a success in between, closes
  only after enough successes, never stays open for good;
* realtime: a dropped connection is retried until the budget is spent, and not after
  a rejection; subscriptions survive; `close()` ends the iteration, `disconnect()` the reconnects;
* gRPC streams: what is sent is transmitted; `end()` and `cancel()` release the readers.

`PROJECT.json` lists every component with its status, and under `hazards` the lines
where each of these can go wrong with the properties that watch over it.

## 2. Plan

Modules are written so that they can be proved about: parameters are CONSTANTS with named
assumptions, one action per operation, locked section or stretch between two awaits,
invariants are conjunctions of named parts, and no module uses RECURSIVE.

| Step | Modules | Status |
|---|---|---|
| 1 | `JobLeases`, `SpooledWorker`: the synchronous worker against a lease server | done |
| 2 | `WorkerContract`, `SpooledWorkerRefinement`: what a worker promises, and that it keeps it | done |
| 3 | `SpooledWorkerInvariants`, `SpooledWorkerProofs`, `SpooledWorkerContractProofs` | done for all safety properties of the runs |
| 4 | `CircuitBreaker` | done |
| 5 | `HttpClient` (extends `CircuitBreaker`), `AsyncHttpClient` (extends that), `HttpClients` (their executions), `HttpClientProofs` (theorems of all four) | done |
| 6 | `WebSocketClient`, `AsyncWebSocketClient`; `WebSocketClientInvariants`, `WebSocketClientProofs` | done for all safety properties of the run |
| 7 | `SSEClient`, `AsyncSSEClient` (on the operators of `SSEClient`), `SpooledRealtime`, `RealtimeTokens`, `RealtimeClients` (their executions); `RealtimeTokensProofs`, `RealtimeClientsInvariants`, `RealtimeClientsProofs` | done for all safety properties of the run |
| 8 | `AsyncSpooledWorker`: the contract of step 2 kept by tasks and cancellation, with `JobLeases` again; `AsyncSpooledWorkerInvariants`, `AsyncSpooledWorkerProofs` | done for all safety properties of the passing runs |
| 9 | `ApiErrors`, `RetryPolicy`, `ApiCalls`, `JobsApi`, `ManagementApi`: the calls of the API over REST and gRPC; `ApiCallsProofs` | done |
| 10 | `GrpcStreams` | done |
| 11 | the worker's own heartbeat thread in `SpooledWorker`, a second `stop()`, the bounded event queue of `events()` | left |
| 12 | safety properties of `GrpcStreams` worth a proof: besides liveness it has only `EndSendsTheRest`, which the code violates | left |

Composition: both workers extend `JobLeases` and instantiate `WorkerContract`; `AsyncHttpClient` extends
`HttpClient`, which extends `CircuitBreaker`; `JobsApi` and `ManagementApi` extend `ApiCalls`, which extends
`RetryPolicy` and that `ApiErrors`. A worker and the HTTP client are not put together, because all
that the worker can tell of a request is its outcome and that an answer may belong to a replay,
and its model has both (`AckRejected`).

Runs: one per question and instance. `HttpClients`, `RealtimeClients` and the MC module `MCJobCalls` put
several small models side by side: an execution is one of a single model, chosen in the
initial state, while the others rest. Bounds: the smallest at which every action of a module
happens and two of each kind of actor meet (two executions, two threads, two tokens).

In the component modules, a definition under a comment that begins with "Slip" is no part of the
model: it is a plausible mistake, kept next to the definition it would replace. `PROJECT.json`
pairs each checked property with one of them, under which TLC finds the property violated.

## 3. The workers

### Modules

* `JobLeases` is the queue server as a worker sees it (external): it leases jobs
  to a claim, takes expired leases back and accepts an ack only from the execution
  that holds the live lease. An *execution* is `<<job, n>>`, the n-th lease of a job.
* `SpooledWorker` is `worker.py`, `AsyncSpooledWorker` is `async_worker.py`, each against that server.
* `WorkerContract` is what a worker promises, without threads: executions are
  taken on, answered once, and the worker closes only when all it took on is
  answered or lost. `SpooledWorkerRefinement` maps the synchronous worker's state to it,
  the asynchronous worker's mapping is at the end of its module.
* `SpooledWorkerInvariants` holds the inductive invariants,
  `SpooledWorkerProofs` and `SpooledWorkerContractProofs` the theorems;
  `AsyncSpooledWorkerInvariants` and `AsyncSpooledWorkerProofs` those of the asynchronous worker.
* `MCSpooledWorker` and `MCAsyncWorker` instantiate them for TLC.

### State and steps of the synchronous worker

| Model | Code |
|---|---|
| `wstate`, `workerId`, `registeredId`, `executor`, `intakeClosed`, `abandonedRunning` | the attributes of the same name |
| `active` | `_active_jobs`: per job the lease number whose `ActiveJob` is stored |
| `settled`, `abandoned`, `leaseLost` | the flags of `ActiveJob` |
| `mainPc` | where `start()`/`_poll` is; `limit` the limit of the claim in flight |
| `phase[x]` | path of an execution from the claim through `_process_job`, the pool, the handler and `_cleanup_job`, or through `_release_unstarted_job`; or where it is left: "orphaned" (a slot and no pool), "dropped" (its claim's delivery was given up), "late" and "stranded" (it got its slot when `stop()` was over) |
| `ack[x][c]` | progress of the ack of `x` by caller `c`: the handler's thread, the timeout timer, `stop()`; "quit" when the handler ended with a BaseException |
| `heartbeat[x]`, `timeoutTimer[x]` | the two timers of a job |
| `stopPc`, `stopTodo`, `stopOnMain`, `deadlinePassed` | where `stop()` is, what it has still to abandon, whether it runs as a signal handler on the poll thread, whether `shutdown_timeout` ran out |

One action is one section under `self._lock`, or one half of an HTTP call: the
request leaves in one step (`AckSend`), lands or fails in another (`AckArrives`)
and is answered in a third (`AckAnswered`, `AckRejected`), so every other thread can run in
between. `AckRejected` covers a 409 to a replayed request whose first answer was
lost, which is how the retries of the HTTP layer show here. Unlocked sequences
(the two reads of `self._executor`, the abandon after the fail, the end of `stop()`) are
separate actions. Durations are not modelled: a timer that is armed may fire at
any time, the deadline may pass at any time, a lease may run out at any time.

Four paths are easily missed:

* `_execute_handler` catches `Exception`. A handler that ends with anything else (a `SystemExit`, a
  `CancelledError` out of `asyncio.run`) goes to `_cleanup_job` and asks for no ack (`HandlerQuits`).
* `_process_job` reads `self._executor` twice. A pool shut down in between makes `submit` raise the
  `RuntimeError` that is cleaned up after; an attribute that is None by then is an `AttributeError`, which nobody
  cleans up after and which ends `_poll` with the rest of its jobs (`Submit`).
* `self._lock` is re-entrant. A `stop()` on another thread waits for the locked section of `_process_job`; one
  that runs as a signal handler of the poll thread may do all of its work between the look at `_intake_closed`
  and the store of the job (`CheckIntake`, `RegisterJob`), and leave a job that neither runs nor is answered. (In
  the locked section of `_poll` no job is in hand: a `stop()` there comes before the claim, whose worker id is then
  None and fails validation, or while it is in flight.)
* `stop()` says "stopped" before it calls its callbacks, clears the worker id and sets `_stopped_event`
  (`StopDeregister`, `StopFinishes`). `start()` may look in between and return while `stop()` still runs; the
  worker is deregistered by then.

A job's timeout is armed only if it has one: `TimedJobs`. `StopDrain` closes the intake in the locked step that ends the wait, as
`_wait_for_idle` does. The list of jobs `stop()` abandons is the set of owned
executions at that moment.

### State and steps of the asynchronous worker

The variables are those above where the attributes are the same. What is different:

* Everything runs on one event loop, so an action is the code between two awaits. The lock
  `_active_jobs_lock` is never held across an await that suspends, so acquiring it suspends nobody.
* `Task.cancel()` leaves a request, `cancelled[x]`; the task finds it at its await when it runs next:
  before its first step (`TaskNeverStarts`), in the handler (`CancelReachesHandler`, which the
  handler may catch or swallow) or at the await of its ack (`AckCut`). `reason` is
  `ActiveJob.cancel_reason`, by which `_execute_handler` tells `stop()`'s cancellation from another.
* A handler of a job with a timeout is a task of its own (`timedJobs`), which a cancellation
  reaches through the task that waits for it.
* `stop()` waits for the claim in flight, drains, cancels what is not settled, gives it the
  ack grace (`StopGrace`) and abandons the rest (`StopAbandons`); the worker's heartbeat task is modelled.

### Runs

| Run | Instance | Shows |
|---|---|---|
| `worker_redelivery` | 1 job with a timeout, leased twice, 2 threads, `stop()` as a signal handler of the poll thread, one of the two timeouts fires (`OneTimeout`); 2.4 million states | `TypeOK`, `SingleAck`, `ThreadCapacity`, `ResultDroppedForAReason` while the second execution takes the slot of the first |
| `worker_shutdown` | 2 jobs without timeouts, 2 threads, `stop()` on another thread or on the main one; 950 000 states | `NoSlotLeak`, `NothingLeftBehind`, `StartReturnsLast`, and that the worker implements `WorkerContract` (`KeepsContract`) |
| `worker_liveness` | 1 job with a timeout, 1 thread, both kinds of `stop()`, also while `start()` registers | `StopTerminates`, `HeldJobsAreAnswered` |
| `worker_slotleak` (violation) | 1 job | finding 1 |
| `async_redelivery` | 1 job leased twice, concurrency 1 | `NoSilentDrop`, `KeepsContract`, `StopTerminates`, with cancellations at each kind of await |
| `async_shutdown` | 2 jobs, concurrency 2 | `AckCutOnlyWhenLost`, `SlotsWithinLimit`, `QuietWhenStopped`, while one job's ack is on the wire as the other is cancelled |
| `async_owncancel` (violation) | 1 job | finding 2 |

Bounds: two leases of one job are enough for everything that concerns a superseded
execution (a third one replaces the second as the second replaced the first); two
threads with one job let both executions run at the same time; two jobs in one claim are the least of which
one may be left behind. With both kinds of `stop()`, two leases and two timeouts the states are too many, so
`worker_redelivery` has the kind that can come between the halves of a locked section and lets the timeout of
one execution fire, and `worker_shutdown` has both without timeouts; the proofs have all of it. Each run takes at most four minutes with two
workers. Symmetry is used only where jobs are interchangeable and no liveness is
checked. Deadlock checking is off: a worker that has stopped stops for good.

Fairness (`Fairness`, in `worker_liveness` and `async_redelivery`): threads and tasks that can run do
run; HTTP calls end, because `HttpClient` always passes a timeout; timers expire. Nothing is
assumed of user code or of the server: a handler may never return, a call may fail,
leases may run out. Claim steps are part of `MainStep`, whose fairness says that a claim
ends, not how; `DeadlinePasses` is fair as time passes.

### Findings

1. `worker_slotleak`: `_abandon_job` marks and counts the job after its fail was sent. A
   handler that returns during that call has been through `_cleanup_job` already, and
   the count is never taken back: the worker has one slot less for good.
2. `async_owncancel`: a handler that lets out a CancelledError of something it awaited is not reported as
   failed, against the comment in `_execute_handler`; its job stays leased. Jobs that end so are the
   *dropped* ones (`Dropped`), which the other properties of the asynchronous worker leave out.

Met while modelling, without a run of their own: a `stop()` called while `start()` registers has
no effect, as the registration sets the state to running afterwards (`EarlyStop` is TRUE in `worker_liveness`,
which says nothing of such a `stop()`, and FALSE in the other runs). `docs/WORKER.md` says of a claim in flight at `stop()` that its
jobs are left unstarted; the code waits for the claim and runs them within the shutdown
timeout. A handler that wakes up on the signal `stop()` sends after that timeout can still have its
result sent, although the documentation says that it is discarded: whoever settles first wins. And of the synchronous worker:

* A handler that ends with a BaseException is never reported, against the comment at `worker.py:556` ("always
  report it"): its slot is freed, and its job stays leased until the lease runs out. It is finding 2 on a thread.
* The `AttributeError` at `worker.py:525` leaves the jobs after it in the claim leased, neither started nor failed,
  and its own job in its slot, where `stop()` fails it only if its lease is not lost.
* A `stop()` in a signal handler that interrupts the locked section of `_process_job` misses the job that takes its slot
  afterwards, against the docstring of `_wait_for_idle` ("so a poll cannot register a job after stop()
  decided nothing is left to drain"): the job is neither run nor failed.

The properties name these cases as exceptions (`Quit`, `NeverAnswered`, the two of `NoSlotLeak`) and say that there are no others.

### Proofs

Of the synchronous worker, for every finite set of jobs, every concurrency and every number of leases:

* `TypeInvariant`: `Spec => []TypeOK`. Not mere typing in one place: `abandonedRunning \in Nat`
  is the `max(0, ..)` of `_cleanup_job`.
* `SingleAckHolds`: `Spec => []SingleAck`. `SingleAck` alone is not inductive: a caller may be granted
  the ack of an execution that another was granted before unless the grant is known to
  have set `settled`. `AckInv` adds `GrantedAreSettled`, and `_claim_settlement` tests
  and sets `settled` in one locked step.
* `NothingLeftBehindHolds`: `Spec => []NothingLeftBehind`, of the executions that joined the drain and did not end with a
  BaseException. The invariant `ShutdownInv` follows `stop()`
  through its stages (`StopProgress`): when the drain ends, a live unsettled execution
  owns its slot (`UnsettledOwnTheirSlot`), so it is on the list to abandon; it stays there or is
  signalled until `stop()` asks for the settlement, which succeeds because the worker
  id is still set (`IdAndPoolWhileRunning`) and a live lease was not reported lost
  (`LostAreLost`); nothing is taken on any more since the intake is closed. A newer
  execution cannot take the slot of a live one because it is younger
  (`ReceivedAreNew`, `KnownAreLeased`), and `_cleanup_job` runs only for what is settled or lost
  (`ReturnedAreSettled`).
* `NoSlotLeakHolds`: `Spec => []NoSlotLeak`. A job that `stop()` took the pool away from owns its slot until
  `stop()` has failed it, unless its lease is lost (`UnstartedAreFailed`); so when the slot outlives that, the lease is lost.
* `StartReturnsLastHolds`: `Spec => []StartReturnsLast`. `StartInv` adds that jobs in delivery keep `mainPc`
  at "deliver" and that the registered id outlives the live one, so that a late job is never stuck.
* `WorkerKeepsContract`: `Spec => KeepsContract`, the refinement. `ContractInv` adds to `ShutdownInv` that each
  of the three callers asks for the settlement once (`AskedOnce`), so a grant is for good
  (`GrantedForGood`), and what is settled was granted (`SettledAreGranted`); with `SingleAck` the answers of an
  execution are one if it is settled or released, else none (`AnswersAre`). Then a claim maps to `Lease`, the
  locked section of `_process_job` to `TakeOn`, a granted settlement or a release to `Answer`, an ack that
  lands or a lease that runs out to `EndLease`, deregistering to `Close` (`StepSeen`).
* `ResultDroppedForAReasonHolds`: an execution whose settlement is refused while its lease is live was settled by
  its timer or by `stop()`, and `stop()` abandons after the deadline only (`AbandonedAfterDeadline`): a drain that
  ends before it found no slot in use.
* `ThreadCapacityHolds`: `CapacityInv` adds that `_abandoned_running` is the number of executions marked
  (`AbandonedCountExact`), that an execution keeps its slot until it is cleaned up, abandoned or
  superseded (`SlotUntilGivenUp`), and that only a claim in flight has a limit. Then each step moves a unit
  between the sets that are counted or takes one away; `_poll` adds what the count says is free, which is
  at most what is.

Of the asynchronous worker, as generally:

* `TypeInvariant` and `ShutdownInvariant`. Most of its steps concern one execution. The lemma
  `ExecStepActs` sums them up once: what the step may do to the execution it is about (`Effect`), and that
  it leaves every other one as it was (`Kept`). Each conjunct of the invariant is then kept by
  that summary, by the claim, by `StartJobs` and by `StopDrain`. The conjuncts: an ack is sent exactly by who
  settled (`SettledOnce`); a task is at the await of its ack as long as that is on its way, and is cancelled
  there only after a lost lease (`AckAwaited`); `KnownAreLeased`, `LostAreLost`, `ReceivedAreNew`,
  `UnsettledOwnTheirSlot` and `StopProgress` as above, for one loop; heartbeats beat for the owner of a
  slot or for a superseded execution (`BeatingOwn`).
* `NoSilentDropHolds`, `AckCutOnlyWhenLostHolds`, `QuietWhenStoppedHolds` follow from it: the first
  because a live, unsettled execution would own its slot, the second is a conjunct, the third because the list
  to abandon is empty when the heartbeat task is cancelled and nobody beats without a slot.
* `SlotsWithinLimitHolds`: `ClaimFits` adds that a claim brings as many jobs as its limit at most; a job that is
  started moves from the claim into a slot.
* `AsyncWorkerKeepsContract`: `Spec => KeepsContract`. What the contract shows of an execution is whether it
  is answered (`Done`: settled, or being released) and whether it is live and not dropped
  (`LiveShown`). A claim maps to `Lease`, `StartJobs` to one `TakeOn` of all that were
  received (there is no await between them), a settlement or a release to `Answer`, an ack that lands,
  a lease that runs out or a handler that drops its job to `EndLease`, the end of `stop()` to `Close`; every other step
  is a stutter (`Unseen`).

The proofs assume the named ASSUMEs of `JobLeases` and of the two workers (a finite set of
jobs, positive bounds, `StopThreads \subseteq BOOLEAN`), which TLC evaluates on each run. The
lemmas under "What a step may do" and "Who does what" state, for one variable or
flag, which steps can change it; the lemmas after them combine these into one preservation
step per conjunct of the invariant. All invariants were checked with TLC on the instances of the runs above
before they were proved.

Checked and not proved: the liveness properties (fairness and ENABLED are beyond the prover).

## 4. The circuit breaker and the HTTP clients

### Modules

* `CircuitBreaker` is `utils/circuit_breaker.py`. A call is an `execute(fn)`: one locked step
  lets it in (`Admit`) or not (`Reject`), another records its result (`Succeed`, `Fail`,
  `FailUncounted`), and any number of calls are in between.
* `HttpClient` extends it with `utils/http.py`, the control of `utils/retry.py` and the token refresh of
  `client.py`. A thread sends one request or renews the configured token
  (`get_jwt_token`).
* `AsyncHttpClient` extends that with `utils/async_http.py` and `async_client.py`: the same steps, with one task
  at a time between two awaits (`OnLoop`), and a cancellation at any await (`Cancelled`).
* `HttpClients` has the executions of all three, one model in each; `HttpClientProofs` holds the theorems, `MCHttpClients` the
  instance.

### State and steps

| Model | Code |
|---|---|
| `cbState`, `failureCount`, `successCount` | `_state`, `_failure_count` (counted up to the threshold, with which alone it is compared), `_success_count` |
| `timeoutElapsed` | `time.time() - _last_failure_time >= timeout`, evaluated when the state is looked at |
| `failuresInARow`, `successesInARow` | history: results recorded since the last one of the other kind |
| `authToken`, `configToken` | `HttpClient._auth_token`, `config.access_token` |
| `refreshLock` | `_refresh_lock` and the "refreshing" mark, which is set only inside it |
| `issued`, `due`, `expired` | the server's tokens, numbered in the order it issues them: the newest, those about to expire, those expired |
| `pc[f]`, `attempt[f]`, `replaying[f]` | where a frame is; `attempt` of `with_retry`; `not _allow_refresh` |
| `tokenBefore[f]`, `tokenSent[f]` | `auth_before`, the bearer of the headers |
| `processed[t]` | history: how often the server acted on the request |

A *frame* is an invocation of `HttpClient.request`: `<<t, "call">>` the one of thread t,
`<<t, "refresh">>` the `auth.refresh()` inside it, which goes through the same retry loop,
breaker and 401 handling. One attempt is: let in by the breaker, read `auth_before`, build the
headers (a second read of the token), one call on the wire, and the result, which the breaker
records before the retry loop sees it. The server acts on a call and its answer
arrives or is lost (`Processed`), or it does not act (`NotProcessed`: network error, 5xx, 429, any
other error), or it answers 401 (`Unauthorized`). The two places that a refreshed token is
stored in are two steps (`SetAuthToken`, `RefreshReturns`).

Left out: URLs, bodies, header formats and delays, which change nothing here (which errors are
retried, and after what delay, is in section 6); back-off takes no step of its own, as whatever happens
meanwhile may happen anyway. `get_stats` and `reset` of the breaker are actions of `CircuitBreaker` only.
`skip_retry` is `MaxRetries = 0`, a client without refresh token is one whose server rejects each refresh.

### Run

`http`: two threads of the synchronous client, or two tasks of the asynchronous one, or the breaker on its
own with the four calls of two threads; one request safe to replay and one not, one retry, two
tokens, two failures open and two successes close the breaker. It shows `WriteOnce`, `RefreshNeverWaits` (no
thread or task awaits the lock it holds, and none that is gone keeps it), `RefreshOnlyIfDue`,
`OpensAndClosesOnEvidence`, for tasks the stronger `TasksRefreshOnlyIfDue`, and under fairness `RequestsEnd`
and `OpenPeriodEnds`.

Bounds: four calls let a failure arrive in each state of the breaker while others are in flight; two
threads with one retry and one replay each cover all that two requests can do to each
other, and the proofs cover the rest. `MaxTokens` bounds the refreshes that the server
grants; further ones fail, as they may.

Fairness: each thread or task goes on as long as it can; calls end because the client
always passes a timeout to httpx. Nothing is assumed of the server, of tokens or of
cancellations: requests end when everything fails, too. Weak fairness is enough for
the refresh lock as each thread takes it a bounded number of times. For the breaker,
time passes and somebody calls again (`WF` of `Admit`): without another call an open breaker
stays as it is, since nothing else looks at the clock.

Met while modelling: among threads a renewal is not single-flight with a refresh after a 401, as the
docstring of `refresh_now` says. `_refresh_static_token_if_due` judges `config.access_token`, `refresh_now`
compares `_auth_token`, and the refresh writes the second before the first; a renewal that
runs in between takes the new token for the one to replace and spends it. `RefreshOnlyIfDue` is therefore
about requests. Between tasks the two writes have no await between them, and `TasksRefreshOnlyIfDue`
holds for renewals, too.

### Proofs

For every set of calls and threads and all thresholds and bounds:

* `BreakerInvariant`, `ClosedOnFewFailuresHolds`, `OpensAndClosesOnEvidenceHolds`: the count of a closed breaker
  is the number of failures in a row. For the closing, the invariant adds `ProbesCounted`:
  while half open, the counted successes are at most the successes in a row, which needs that the count
  restarts with each half-open period.
* `ClientUsesBreaker`: `Spec => BreakerSpec`, so the above holds of the breaker inside the client.
* `ClientTypeInvariant`, and `WriteOnceHolds` from `WritesInv`, which says where a request is once it was
  processed: in places that lead to no other attempt unless replaying is safe.
* `RefreshNeverWaitsHolds`: inductive by itself with the types. It is the safety part of "no
  thread waits for itself"; that requests end is checked, not proved.
* `RefreshOnlyIfDueHolds`: from `TokensInv`: the token compared under the lock is no newer than the
  one sent (it is read first), and that one had expired when the server answered 401.
* `TasksInvariant`: the invariant of the threads holds of tasks, too, where cancellation adds steps and `OnLoop`
  takes some away; from it `TasksWriteOnce`, `TasksRefreshNeverWait` (a cancelled refresh gives the
  lock back) and `TasksBreakerEvidence`. `AsyncRefreshOnlyIfDueHolds` needs `LoopInv`, `StoredInv` and
  `RenewalInv` besides: the two places of the token are written without an await between them.
* `TasksRefreshOnlyIfDueHolds` is the same of the executions that the run checks, from `HttpInv`: whichever
  client an execution is of, it satisfies that client's invariant.

They assume `ThresholdAssumption`, `EnabledAssumption`, `ThreadsAssumption` and `BoundsAssumption`.

## 5. The realtime clients

### WebSocket clients

`WebSocketClient` is the synchronous client: the user's thread, one receive thread per
socket and one timer thread per reconnect, which share the attributes of the client
without a lock. The variables are those attributes under their names; per thread, `pc` is the point it is at,
`sock` its socket and `iter` its iteration over the dictionary of subscriptions. The server is
two functions: `sockets`, and `subscribed`, what it was told to send.

| Action | Code |
|---|---|
| `Connect`, `DialSucceeds`, `DialFails`, `SetConnected`, `StartReceiver` | `connect()`; with a timer for the user, `do_reconnect` |
| `ResubscribeNext`, `ResubscribeSend`, `Resubscribed`, `ResubscribeFails` | `_resubscribe_all`; the last is the RuntimeError of a dictionary that changed while it was iterated over; `Overtaken` below |
| `Check`, `Recv`, `Received`, `RecvFails`, `Failed` | `_receive_loop`; `self._ws` is read twice, and a second `recv()` on one socket raises |
| `Lost`, `Budget`, `SpendAttempt`, `GiveUp`, `StartTimer` | `_handle_disconnect`, `_schedule_reconnect`; the comparison with the budget and the increment are two steps |
| `DisconnectCancel`, `DisconnectStop`, `DisconnectClose`, `DisconnectEnds` | `disconnect()`, between whose steps the other threads run |
| `Subscribe`, `SubscribeEnds`, `Unsubscribe`, `UnsubscribeEnds` | the dictionary, then the command |

What a Python dictionary does to an iteration that it changes under is part of the model. The iteration raises when
the size is not what it was or when it meets more entries than there were (`Intact`). But an insert may also make
the dictionary a new table, without the holes that removed entries left; the iteration keeps its position and is
past the entries that closed up over holes behind it. After `unsubscribe()` and `subscribe()` the size is what it was, and
the entry is skipped without a word. How full a table is, is left open: a `subscribe()` under an iteration that has
yielded an entry may move it past any entries that it has not (`Overtaken`, `iter[x].skip`; the
history variable `passed` collects them for the socket there is). A change while the command of an entry is sent counts
as one under the iteration.

Time is left out: a timer may fire at any moment, and `MayBeStable` says whether a socket may
reach `STABLE_CONNECTION_SECONDS`. `auto_reconnect = False` is a budget of zero. What `recv`
and `send` of the websockets library do is taken from their use here: a closed socket
raises, an open one times out after a second.

`AsyncWebSocketClient` is the asynchronous client: a task in `events()`, which reconnects inside the
iteration, and a task of the user. An action is the code between two awaits. Sockets are slots that
are used again once closed and unread, so no number of reconnects bounds a behaviour.

### SSE clients, unified client, tokens

* `SSEClient`: a consumer thread in `events()` and another thread that connects and closes. The attributes are one
  record, which the methods without a wait in them transform; the operators on that record (`Opened`,
  `Dialing`, `MayReconnect`, `Delivered`, ...) are shared with `AsyncSSEClient`, where closing the response
  is an await after which `_teardown` forgets whatever the attributes hold by then.
* `SpooledRealtime`: the unified client over SSE, with a receive thread per stream, a timer per reconnect and
  the filter each stream was opened for. `_sse_response` and `_sse_client` are two attributes, which `_connect_sse` uses,
  stores and does not look at again in separate steps (`CreateClient`, `SetConnected`), and which the receive thread reads
  twice (`ReceiverStarts`, `ReceiverBegins`); without `sseclient` there is no client to receive with (`HasSSE`).
  `_disconnect_sse` and the state that follows it are one step where nothing waits in between. Over a WebSocket the same methods do what `WebSocketClient` does.
* `RealtimeTokens`: the cached JWT of the asynchronous client under `_jwt_lock`, its token provider called by
  reconnects on timer threads, and a `connect()` on the event loop, which blocks it. The
  synchronous client has the same cache and the same lock, and no loop to block.

### Runs

* `websocket_sessions`: one `connect()`, one `disconnect()`, two `subscribe()` and one `unsubscribe()`
  of a filter, in any order, two sockets, a budget of one reconnect, no stable socket. One filter is what TLC can do with
  liveness: the entry that is skipped is then the one that was dropped and subscribed again; an entry that was there
  all along is skipped in `streams`, by the asynchronous client, and the theorem has it for this one. It checks
  `BudgetHeld` (accept-then-close spends the budget), `SubscriptionsReachServer`, `DisconnectIsFinal` and
  `LossesAreHandled` (each closed socket is noticed, and connecting and reconnecting come to an end). Two
  sockets are the least with a reconnect, and two `subscribe()` around
  an `unsubscribe()` the least that make the two errors of the iteration differ.
* `streams`: the other clients side by side. `RedialsAreEarned` (quiet streams spend the budget of each
  client, and a rejection ends its retries), `ConnectedReceives`, `AsyncSubscriptionsReachServer`, `LoginsAreShared`;
  under fairness `CloseEndsIteration`, `RealtimePendingEnds`, `ProviderAnswered`. Two calls of each
  method (six in all for the asynchronous WebSocket: with two filters that is what it takes for an entry to be skipped) let a call meet a dial, a backoff, a loss and
  another call; two slots are a stream and its successor; three tokens let one be
  shared, expire and be replaced while others wait.

Fairness: threads and tasks run, dials and `recv` end (they have timeouts), timers expire, and the lock of
`RealtimeTokens` is first come, first served (`SF`). Neither the user nor the server has to do anything. A
read of a stream that has been closed ends; a read of a silent open one need not.

### Proofs

Every safety property of both runs is a theorem, for any finite set of filters, any budget and any number of
threads, calls, sockets and tokens.

*Tokens.* `LoginsAreSharedHolds`, `JwtSpec => []LoginsAreShared`. The invariant `JwtInv` counts reasons: logins begun and
forced refreshes on their way to the lock are together at most one more than the tokens that came near their
expiry and the refreshes forced; a login is begun only by the holder of the lock (`LockInv`).

*The synchronous WebSocket client* (`WebSocketClientInvariants`, `WebSocketClientProofs`). `WebSocketInvariant` is the theorem
`Spec => []WebSocketInv`; the properties follow from its parts.

* `BudgetHeldHolds`, from `BudgetInv`: threads that dial, receive or handle a loss, and the timer that will, are a chain. As long
  as the user has called `connect()` once and nothing else there is one such thread at a time (`InChain`), it has
  compared with the budget what it then spends, and the timers started are `1 .. Used`, the attempts spent but the
  one that has no timer yet. A stable socket or a `disconnect()` would refill the budget; both are excluded by `Quiet`.
* `DisconnectIsFinalHolds`, from `FinalInv`: until the stop event is set, the one receive thread reads an
  open socket (`ReceivingAlone`) and cannot fail; from then on, no thread that fails takes it for a loss.
* `SubscriptionsReachServerHolds`, from `SubscriptionsInv`. For what the server does not know (`MissingInv`), a thread is on its way
  to tell it, or a timer to drop the socket. An iteration of a timer may be about to subscribe to what the user has just
  dropped, which nobody would take back; it has then lost an entry it was past, and what it is past and may still yield
  (`IterInv`) cannot add up to the size it began with: the iteration is `Doomed` to raise, the timer to let
  go of the socket (`ExtraInv`). This is where the proof needs the cardinalities of finite sets.

*The other clients* (`RealtimeClientsInvariants`, `RealtimeClientsProofs`). `StreamsInvariant` is `StreamsSpec => []StreamsInv`, one
invariant per client, each about the executions of that client.

* `RedialsAreEarnedHolds`: in the SSE clients an iteration that nobody interferes with has spent an attempt on each
  redial and on the one it waits for (`RedialsSpent`); in the asynchronous WebSocket client redials never outnumber attempts
  (`AWBudgetInv`); in the unified client a calm history is a chain as above (`Chain`), and a rejection has ended it.
* `ConnectedReceivesHolds`: a connected client that was not `deaf` when it became so has a thread that receives, or one
  that is on its way to it or away from being connected (`ReceivedInv`), which needs to know who has set the stop event (`StopInv`) and
  who has taken the stream away (`StreamGoneInv`).
* `AsyncSubscriptionsReachServerHolds`, from `ToldInv`: the missing direction as in `MissingInv`, with the entries an iteration was moved past; the other needs no
  exception, as nothing runs between the change of the dictionary and the command.

The proofs assume `BoundsAssumption` and `FiltersAssumption` of `WebSocketClient` and the assumptions of the modules that
`RealtimeClients` extends and instantiates. Liveness (`LossesAreHandled`, `CloseEndsIteration`, `RealtimePendingEnds`, `ProviderAnswered`)
stays with TLC.

What the proofs brought to light: three properties that the run had passed were not true of every instance, and now say
what is.

* `BudgetHeld` needs that `connect()` is called once: a second one during RECONNECTING starts a second chain, which spends the same
  budget.
* `DisconnectIsFinal` needs that the timer which waits is `self._reconnect_timer` and that one thread receives (`Settled`): an
  iteration that raises and a receive thread may handle one loss twice and start a timer each, of which `disconnect()`
  cancels the last.
* `SubscriptionsReachServer` has an exception, `untold`: an `unsubscribe()` while the socket there is cannot take the command, or a
  `disconnect()` that clears the dictionary while a timer has dialed a socket and told the server, leaves the server
  with what the client has dropped, until the next socket.

Two exceptions are of the code, not of the proofs: `passed` of both WebSocket clients, entries that an iteration was moved past,
and `deaf` of the unified client, CONNECTED without an SSE client.

### What the runs do not say

Met while modelling, and left out of the properties or bounded away, as the repository neither
rules it out nor promises the opposite:

* `disconnect()` cancels the timer it finds. A receive thread that has looked at the stop event
  already starts another one, and a dial under way clears the event; the client is connected
  again after `disconnect()` returned. `DisconnectIsFinal` is about a `disconnect()` that meets no loss
  half way. In the same way an `_open()` under way undoes a `close()` of an SSE client.
* An iteration that was moved past an entry leaves a subscription untold on the new socket without an error, against the
  docstring of `_resubscribe_all` ("Resubscribe to all subscriptions after reconnect"), until the next reconnect.
* A `disconnect()` of the unified client between the making of the SSE client and CONNECTED (`unified.py:564`, `567`) leaves a
  client that says it is connected, with a receive thread that returned at once: it receives nothing and does not reconnect.
* With a second `connect()` during RECONNECTING a timer is still pending: two sockets, two receive
  threads, and the socket that is not `self._ws` is never closed. `websocket_sessions` has one `connect()`; the theorems on
  subscriptions and on `disconnect()` hold with any number, the budget is then spent once per chain.
* `BudgetHeld` is about histories with one `connect()` and no `subscribe()`: when an iteration raises while its receive thread
  handles a loss, two threads pass the comparison before either spends, and one attempt more is made.
* A failed redial of the asynchronous WebSocket client ends `events()` with an exception in state
  RECONNECTING although attempts are left; a normal close by the library leaves CONNECTED. An SSE client that gives up
  may leave CONNECTED as well.
* Over SSE the unified client redials the stream of a job that has finished if the stream breaks
  with an error after its last event (a quiet end it takes for the end); and a reconnect restores the first of the subscriptions, not necessarily the filter
  `connect()` was given.

## 6. API calls and errors

### Modules

* `ApiErrors` is `errors.py` and `_map_grpc_error`: how an HTTP answer or a gRPC status becomes an error, `is_retryable`,
  `is_lease_expired`, the parsing of Retry-After.
* `RetryPolicy` is `should_retry`, `calculate_delay` and `_is_idempotent`.
* `ApiCalls` is one call: over REST it may be sent again, over gRPC it is sent once; an answer
  may get lost after the server acted (`NotServed` and the lost errors of `Answered`).
* `JobsApi`: the calls that move a job, of `JobsResource`, `DlqResource` and `GrpcQueueService`, against a server whose
  other workers and scheduler act on the same jobs. `known` is the lease that the caller claimed a job with.
* `ManagementApi`: the methods of the other resources that change something, each a verb and an
  effect (makes one more, writes, removes, refreshes), against another administrator.
* `ApiCallsProofs` holds the theorems, `MCJobCalls` the instance.

The table of a resource (`JobCalls`, `WorkerCalls`, ...) is the verb and the `idempotent` argument of each method, as the code
passes them. Bodies are what the properties need: an idempotency key or none, the lease, the
`retry` of a fail as unset, true or false - over JSON `exclude_none` drops what is None, over gRPC
the field is set only if it is given, so the server gets what the caller passed.

### Run

`calls`: one caller making one call after the other, with one retry. `ActsOnce`, `RefusalsChangedNothing`, `LeaseLossIsTold`,
`RetriesAreBounded`. Two jobs with one lease between them, or two leases of one job (`WithinBounds`): the second lease is what makes
a replayed ack find another worker's, the second job what a claim may bring in its stead. A base
delay above the cap and a Retry-After above it make the caps of `calculate_delay` count.

What the properties leave to the caller: a PUT or DELETE that is sent again may overwrite or
remove what somebody else wrote in between (`ActsOnce` excepts them); the replay of a `fail` that
landed is answered with LEASE_EXPIRED; the jitter is added after the cap, so that a wait may exceed
`max_delay` by a quarter.

### Proofs

For any set of jobs, any number of leases and any retry policy, of the calls of `JobsApi`: `JobsActOnce`, `JobsRefusedUnchanged`,
`JobsRetriesBounded`, `JobsLeaseLossTold` and `JobsTypeCorrect`.

The inductive invariant is `JobsInv`: the types, `CallInv` (in particular, a call that is not safe to send
again has not acted as long as it runs), `ArgsInv` (which calls are safe to send again, with which verb) and
`EvidenceInv`, what the server shows for a call that acted and is sent again: the lease that an ack
carries is not its job's any more, a complete has completed its job, a keyed create has made
one; so the next attempt cannot act. The first lemmas are about one attempt and do not know the calls: `ErrorsFit` says
which class of error each answer becomes (a finite case analysis over answers and statuses), `DelaysBounded` that
each delay is within the cap and its jitter, and `AttemptInv`, `AnsweredInv`, `RefusedInv`, `NotServedInv` that each outcome of an
attempt keeps `CallInv`. Then there is one preservation step per call.

The calls of `ManagementApi` keep the same promises against another administrator: `ManagementActsOnce`, `ManagementRefusedUnchanged`,
`ManagementRetriesBounded`, `ManagementTypeCorrect`. `ManagementInv` is the types, `CallInv`, `ActsOnce` and `SafeCalls`: a call that is
safe to send again is so by its verb (PUT, DELETE, which `ActsOnce` excepts), or is the heartbeat of a worker, which
leaves no trace, or is an `ingest.custom` with a key, which makes one job. `ResourceMethods` says so of every method of the
tables, resource by resource.

Assumptions: `JobsAssumption`, `RetryAssumption`, and `BackoffAssumption`, which only says that the powers in `calculate_delay` are
numbers, as the provers do not know `^`.

## 7. gRPC streams

`GrpcStreams` is `ProcessJobsStream` and `JobStream`. Threads of the application send, receive, end and cancel; a thread of the gRPC
library drains the queue through `request_generator`, one for each call that was opened, and the
queue, the end signal and the flags are shared. `_ensure_started` takes no lock, so that two threads
may each open a call (`EnsureStarted`, `OpenCall`, `MarkStarted` are separate steps).

* `calls` checks it next to the API calls: `RequestsAreSent` (what is put into the queue of a stream that
  nobody ends is sent) and `ReadersAreReleased` (after `end()` or `cancel()` no reader waits for good, also with two
  calls and one end signal). Two threads and one request each are the least that open two calls and
  let one generator take what the other waits for.
* `grpc_laststream` (violation): finding 3.

Fairness: threads run, the generator's `get` returns after a second, a call whose requests have
ended ends. A server that is asked nothing answers nothing.

3. `grpc_laststream`: the generator ends when its `get()` has timed out and it then sees `_ended`, without looking
   into the queue again: a request sent just before `end()` is never transmitted.

Met while modelling: a `JobStream` that another thread cancels ends with an error on the reader if the
cancellation reaches it inside `next()`, and quietly otherwise.

## 8. What is not modelled

`PROJECT.json` gives the reason for each component. In short: types, configuration, casing, event types and the
generated stubs keep no state; reads of resources change nothing. In the synchronous worker, the
heartbeat thread of the worker itself; in both workers a second `stop()` and the event handlers of `on()`. In the
clients, construction, `with_options()` and `close()`. In the realtime clients, `connect_async`, `ping`, calls from
handlers, parsing, the bounded queue behind `events()` of the unified client, and its WebSocket side, which
repeats `WebSocketClient`.

Liveness is only model-checked: `StopTerminates`, `HeldJobsAreAnswered`, `LossesAreHandled`, `CloseEndsIteration`, `RealtimePendingEnds`,
`ProviderAnswered`, `RequestsEnd`, `OpenPeriodEnds`, `RequestsAreSent` and `ReadersAreReleased` need fairness, and with it ENABLED,
which the provers cannot reason about. `GrpcStreams` has liveness properties, and `EndSendsTheRest`, an invariant which the code
violates: there is no theorem about it.
