# Omnigres: a TLA+ verification project

Omnigres is a set of PostgreSQL extensions in one repository. Most of them are
libraries of functions; a few keep state over transactions, processes and
threads, and these are the subject of this project: the `omni` loader that all
native extensions run on, the `omni_httpd` server, the worker pool of
`omni_worker`, the transaction helpers of `omni_txn`, and the scoped variables of
`omni_var`. Modules are translated from the C and C++ source; `PROJECT.json`
maps every definition to the lines it stands for.

## 1. Inventory

### The parts that keep state

| part | state | operations | interacts with |
| --- | --- | --- | --- |
| **omni: shared memory** (`omni/omni.c`) | `omni_allocations` (name to chunk and refcounter), one DSA, a list of acquisitions per backend | `allocate_shmem`, `lookup_shmem`, `deallocate_shmem`, unloading, backend exit | every native extension, from many backends, through its `omni_handle` |
| **omni: hook harness** (`omni/hook_harness.c`, `omni/omni.c`) | an array of entry points per hook type | `register_hook` (plain, wrapping), dispatch, removal at unload | the server calls it; hooks may run SQL, which dispatches again and may load or unload modules |
| **omni: background worker requests** (`omni/omni.c`, `omni/hook_harness.c`) | one-shot callbacks of a transaction, shared worker handles | start and termination, at once or after the commit | `omni_httpd`, `omni_worker` |
| **omni: module loading** (`omni/omni.c`, `module.c`, `extension.c`) | `initialized_modules` per backend, shared module table, `backend_force_reload` | load, upgrade, unload when `pg_extension` changes | calls `_Omni_init` / `_Omni_deinit` of the modules |
| **omni_httpd: control** (`omni_httpd/omni_httpd.c`) | `should_start`, `started` under a lock, the master's handle | `start`, `stop`, loading of the module | worker requests of omni |
| **omni_httpd: reload** (`master_worker.c`, `http_worker.c`, `fd.c`) | listeners table and its lock, sockets, a semaphore, per-worker lists | notification, reload, hand-over of sockets, restart of workers | master and HTTP worker processes, SQL sessions that change the table |
| **omni_httpd: worker threads** (`http_worker.c`, `event_loop.c`) | two flags and two condition variables, wake-up messages, signal flags | suspend, resume, reload, terminate | main thread, event loop thread, signals |
| **omni_httpd: requests** (`event_loop.c`, `http_worker.c`) | messages in two queues, `requests_in_flight`, paused listeners | accept, handle, answer, dispose | both threads, clients that go away |
| **omni_httpd: handlers and router** (`http_worker.c`) | transaction, user and security context of the worker's session, routes of a message | load and sort routes, call them, commit, answer, clean up | SQL functions and procedures, which may end transactions and change roles |
| **omni_httpd: WebSockets** (`event_loop.c`, `omni_httpd.c`) | a connection and a Unix socket per WebSocket | upgrade, open, message, close, sending from backends | both threads, handlers in SQL |
| **omni_txn: linearization** (`linearization.c`) | a slot per backend with status and conflicts, writes of the transaction | `linearize()`, executor hook, commit hook | the server's predicate locks, all other backends |
| **omni_txn: retry** (`retry.c`) | attempts, backoffs, a table of plans | `retry()`, reset of plans | linearization |
| **omni_var** (`txn.c`, `statement.c`, `session.c`) | tables in memory of the transaction, the portal, the session | set and get, transaction callbacks | transactions, savepoints, portals |
| **omni_worker** (`handlers.cpp`, `omni_worker.cpp`, `deps/oink.hpp`) | a message queue in shared memory, handlers and timers per worker, numbers of timers | `sql`, `timer_after`, `timer_cancel`, change of handlers, autostart | workers with three threads each, callers, restarts of the server |
| **omni_httpc**, **omni_ledger**, **omni_shmem** | a connection pool; balances; arenas | | |

The other extensions (`omni_sql`, `omni_types`, `omni_web`, `omni_regex`, ...)
are conversions without state of their own or are written in SQL; `PROJECT.json`
lists them all with the reason why they are not modelled.

### What is hard, and what makes each part correct

* **Shared memory.** Calls of several backends interleave around a locked
  section: a chunk is allocated before it and freed after it, an init callback
  may fail in between, backends exit normally or not. Correct means: no
  reference dangles, the counter covers what is held, a chunk has one owner.
* **Hooks.** Registration, unloading and nested dispatches all change an array
  that is being iterated. Correct means: hooks run in the intended order, and a
  wrapping hook finds its own context.
* **Modules.** Backends learn of changes of `pg_extension` by invalidations,
  by statements of their own and by rollbacks, while the loading of one module
  may load others. Correct means: a backend with nothing left to notice has
  exactly the modules it should, each initialized once.
* **Control.** Flags change at the call, what they describe after the commit.
  Correct means: at most one master, a stopped server is stopped, calls return.
* **Reload.** Processes wait for each other over a semaphore, a table lock and a
  socket, while workers restart and the table changes. Correct means: reloads
  end, workers end up with the sockets of the listeners under their own ids.
* **Threads.** Signals and wake-ups at any point. Correct means: none is lost,
  nobody waits for ever, no request is lost over a reload.
* **Requests.** Two threads share messages that a third party, the client, may
  make obsolete. Correct means: a message is not released while a thread has it,
  the count is right, listeners do not stay paused.
* **Handlers.** Functions and procedures of several routes run in one session,
  under different users, and may end its transaction. Correct means: what a
  client is told has been committed, enforced roles hold, nothing is left for
  the next message, routes run by priority.
* **Workers.** Messages that nobody accepts are sent again, workers die, timers
  are cancelled while they expire. Correct means: work is done, and done once.
* **Linearization.** The commit hook reads and writes shared state in many steps
  without a lock. Correct means: the rules of its documentation.
* **Retry.** Failures in statements and in the commit. Correct means: one effect,
  one pause for each retry.
* **Variables.** Memory that goes with transactions and portals is recognised by
  ids and times. Correct means: values have the lifetime of their scope, and
  freed memory is not used.

## 2. Modules

Runs are made from an `MCX.tla` with the constants that a configuration needs.
`MCOmniSession` puts together what a session keeps for itself (`OmniTxnRetry`,
`OmniVarTxn`, `OmniVarStatement`, `OmniHooks`): these share no state, so that one run
explores each of them with the others at rest.
Comments name the source files. Definitions marked "Mutant" are plausible errors
in the code; each property is violated when one of them replaces the definition
it follows, as `PROJECT.json` lists under `mutants`.

| module | state and actions |
| --- | --- |
| `OmniShmem` | The locked section of a call is one step; the tentative allocation before it and init callback, acquisition list and `dsa_free` after it are others. Addresses of chunks and of list entries are model values that are reused. |
| `OmniHooks` | One backend. Arrays with their counts as in the code, one higher indices; dispatches in progress are a stack of frames, each with its own index and contexts. `_Omni_init` is two steps: `LoadModule` registers the hook, `ListModule` lists the module; dispatches, loads and unloads come in between. `RaiseError` leaves any number of dispatches and calls of `_Omni_init`, and what was registered stays; the next unload of any module removes the entries of modules that are not listed (`PurgeRound`). `since` numbers the loads, which is what the intended order of hooks is made of. A read of a context that was never written yields `Garbage`. |
| `OmniModules` | Backends with their transactions, the nested calls of `load_pending_modules` as a stack, the call of `_Omni_init` and the listing of its module as two steps, with an error in between; invalidations as a flag per backend that is set when another one commits. `pg18` chooses the server version, which decides what is invalidated; `CacheInvalidateCatalog(PROCOID)` (`extension.c:181`) queues nothing, since PROCOID is no catalog. |
| `HttpdControl` | The flags, the handle, every process with a program counter; the end of a transaction in its steps (events, reset callbacks in reverse order of registration, requests one by one). A registration may find no free slot (`Register`), after which the handle is that of nobody, or reading it ends the backend (`RegisterCrashes`). The module combines `omni_httpd.c` with the worker requests of `omni.c`, because neither means anything alone. |
| `HttpdReload` | Master and workers with program counters, the table, its lock, the semaphore. A listener is its id, and so is its socket. Sockets have numbers in the master, which are used again once they are closed; workers match what they receive with what they have by these numbers, and give ids by position. `MaxFds` limits the list. |
| `HttpdThreads` | One worker: the two threads, the flags as the code reads and writes them inside and outside of the mutex, signals at any point. The main thread has the mutex of a queue while it takes messages and while it sends an outcome; a signal that comes then has it wait for itself (`Stuck`), because the signal handlers lock these mutexes too. Requests are a number here. |
| `HttpdRequests` | One worker: messages, their queues, who releases them. `req_dispose` releases a message whenever h2o disposes of its request, answered or not, since h2o has cleared the generator by then. No threads, signals or reloads: it is the abstract specification of what the worker does with requests. |
| `HttpdWorker` | The composition: extends `HttpdThreads` with the state of `HttpdRequests`; every step is a step of both or of one of them. Handlers run only while the main thread takes messages, and whatever the event loop does for clients happens while it polls. A reload may dispose of the context of requests in flight (`orphans`). What the event loop does with these, or with the answer to a message that was released, is undefined: it goes on, or the process ends (`Crash`). |
| `HttpdHandler` | What the main thread does inside of one step of `HttpdWorker`: `handler()` and `prepare_routers` with transaction, identity (user and security context), routes and answers. A called function is any sequence of SET ROLE, COMMIT, ROLLBACK, `stop_handling`, and an outcome or an error. |
| `OmniWorker` | The queue, callers, the three threads of every worker, handlers that appear and disappear with commits, timers, deaths and restarts. |
| `OmniLinearize` | The hooks of `linearization.c` step by step over an abstract server: snapshots are overlaps, predicate locks are pairs of transaction and relation that the server may forget when no transaction overlaps any more. `linearize()` may be called again. Errors end the transaction or are caught in a savepoint, after which the transaction goes on without its conflicts (`FailReset`). The test of another slot's status and the reservation in it are two steps, and so is the filling. |
| `OmniTxnRetry` | The loop of `retry()`, with failures of any kind in statements and commits, and pauses that may be interrupted. The entry of a statement is made before its plan; one without a plan runs nothing, and the call succeeds all the same. |
| `OmniVarTxn` | The chains of values with their subtransaction ids, the callbacks, and beside them, as history variables, what each scope should see: the abstract specification that the chains are compared with. |
| `OmniVarStatement` | Portals and the one table. The table lives with the portal that made it, a value with the portal that set it (`valueOwner`), unless it is passed by value. What each portal has set is a history variable. |
| `OmniLoaderProofs`, `HttpdWorkerProofs`, `HttpdHandlerProofs`, `HttpdReloadProofs`, `HttpdControlProofs`, `OmniWorkerProofs`, `OmniLinearizeProofs`, `OmniSessionProofs` | Theorems, see section 5. |

How definitions correspond to the code:

* Locked sections without a wait in them are one step. Where the code waits or
  calls out while it holds a lock, the lock is a variable (`locked` in
  `HttpdReload`, `lock` in `HttpdControl`).
* Errors raised by the server (`ereport(ERROR)`) are actions of their own
  (`AllocateInitError`, `PrepareFails`, `Abort`).
* Memory that is freed is a fact of the state (`dsa`, `tabFreed`, `live`,
  `released`); what is read from it is a nondeterministic choice, the end of the
  process included (`Crash` in `HttpdWorker`, `AcceptCrash` in `HttpdReload`,
  `AbortSubCrash` in `OmniVarTxn`).

## 3. Runs

A passing run is about a component or a composition, or about several that share
no state: it contains the irregular cases
(errors, restarts, aborts, clients that leave, nested unloads) together with
the regular ones. Where the code keeps a promise only in the absence of one of
these cases, the property names the case, and a history variable of the model
(`events` in `HttpdReload`, `mishaps` in `HttpdControl`, `gone` in
`HttpdRequests`, `exposed` and the `changes` of a frame in `OmniHooks`,
`repeated` in `OmniVarTxn`, `unseen`, `raised`, `failed` and `overtaken` in `OmniModules`,
`orphans` in `HttpdWorker`, `interrupted` and `lost` in `OmniWorker`, `lost` and
`forgotten` in `OmniLinearize`) records whether it has happened.
Section 4 lists these cases. Three runs expect a violation: each states what a
document or a comment of the repository says, and the code does otherwise.

### omni and omni_worker

| run | shows |
| --- | --- |
| `shmem` | Two backends, one module, two names, three chunks and three list entries: in every order of calls, unloads, errors, exits and crashes, no reference dangles, counters cover references, a chunk has one owner. |
| `control` | Two sessions, one of which has yet to load the module, call `start` and `stop` with both timings, commit and abort, and a master fails or finds no free slot: at most one master, flags and handle agree with it at rest, a stopped server is stopped, calls return. |
| `modules` | Two backends, an installed extension and one without functions, with two versions and an `_Omni_init` that runs statements; two extension statements and an error, in transactions that commit, fail in the commit, roll back or roll back to a savepoint, before and since Postgres 18: no backend misses a change that it is told of, no module is initialized twice unless its `_Omni_init` has raised an error. |
| `modules_nofun` | Violation: before Postgres 18 a backend is not told that another one has created an extension without functions. |
| `worker` | Two workers and a queue with room for one message; a statement or a timer, its owner and another role that cancel it; one change of handlers, interrupt, error, death or restart at any time: answers tell the truth, work is run once at most, a cancelled timer does not run, autostart statements take effect once, work is done unless it was lost for a reason the property names. |

### omni_httpd

| run | shows |
| --- | --- |
| `httpd_reload` | Two workers, three listeners of which two can be listed, two changes of the listeners and any one irregular event (a change during the start, a socket that cannot be opened, a number that is used again, too many listeners, a restarted worker, an interrupted wait, DROP EXTENSION): reloads end, workers converge, ids and sockets belong together, the master serves exactly its open sockets and never while it keeps the table locked. |
| `httpd_worker` | Two requests with every outcome, clients that leave at any time, a failing main thread, and SIGUSR2 (after the reload of the start) or SIGTERM at any point of both threads: the threads never wait for each other, the count of requests in flight is exact, messages that a thread still has are released only when their client has left; signals are taken unless they find the main thread with a mutex, requests are answered over reloads and paused listeners resumed, unless the worker stalls for good or waits for itself. |
| `handler` | Messages of every kind, one after another, and every table of up to three routes: handlers and middleware, functions and procedures, with and without a role, that match or not. Answers follow the commit, errors are followed by the abort, the next message finds a clean session, a function with a role runs under it, routes are called by priority. |

### omni_txn and omni_var

| run | shows |
| --- | --- |
| `linearize` | Two backends, one with two transactions, and an array of one conflict, with index locks, writes in WITH, repeated `linearize()` and errors caught in savepoints: what is visible before the commit hook starts is detected, and so are readers that are still open when it is done. That a conflict slot is reserved twice takes a third backend; the theorems cover any number. |
| `linearize_rule2` | Violation: a reader that reads and enters its commit between two steps of the commit hook of a writer is missed by both. |
| `linearize_again` | Violation: what was written before a second `linearize()` is not compared with what others have read, and both commit. |
| `session` | `retry()`: three calls of ordinary, unpreparable and plan-resetting statements with 0, 1 or 3 attempts and failures anywhere; one effect, the right backoffs, a plan whenever something is run. Transaction variables, in three transactions with up to five subtransactions, PREPARE included: rolled back values are never seen, values are restored unless they were set twice in one subtransaction. Statement variables, for statements and cursors of several messages in any order: a variable is carried at most within a message, and not at all between messages of one statement. Hooks (of omni): two wrapping modules, one of them omni itself, and two plain ones are loaded and unloaded in every order, between dispatches, from within them (depth two) and from within an `_Omni_init`, with errors anywhere; a dispatch whose array is left alone runs its hooks in the intended order and each with its context, and omni's own wrapping hook runs twice, also while plain modules are unloaded around it, as long as no later registration cuts the array. That a registration cuts it so far that a dispatch calls behind it takes more plain modules of one type than the run has; the theorems cover any number. |

### Bounds

Two backends, workers or sessions are enough for races between a pair, which is
all the code coordinates: shared memory, conflicts and flags are compared one
other at a time. `HttpdReload` needs two workers so that the semaphore passes
through a value that is neither zero nor the expected one. What takes more than
two is left to the theorems of section 5, which hold for any number. Three chunks allow
one in the table, one tentative and one about to be freed. Three hooks of one
type are needed for a wrapping hook around another one, with entries above and
below that move; three loads allow a module to be loaded again beside another
one. Three listeners of which two fit into the list give one that is removed, one
that stays and one that is too many, and four file numbers one that is free when
all are open. One irregular event of a reload comes at every point of it; what
the safety properties say after several is proved. Five subtransactions
nest three deep with a released and a rolled back one. A worker starts with a
reload pending; one more signal arrives during it or later, and two requests give
one in each queue; the safety properties of `httpd_worker` are proved for any
number of both. Two extension statements give a
change that another one undoes or overtakes. A queue of one message is full as
soon as anything is in it, which is what makes workers wait for each other. Three
routes give a handler that is skipped, and a route without a role after one with
a role after one that ended the transaction. `Masters` has more numbers than
there are calls, so that they never run out. Counters that only bound a run (`MaxCalls`, `MaxTxn`, ...) stand
in guards of the environment's actions, not of the code's. Symmetry is used for
backends, names and addresses in safety runs only.

Deadlock is checked in every run but `modules`, where backends may end and the
bound on extension statements may be reached at any point. Where another system may
rest, an `Idle` or `Done` step says when.

### Fairness

* `HttpdWorker`: weak fairness of each thread, which are threads of the
  operating system; condition variables and messages wake them. The event loop
  polls for many things and may be suspended in between, so that taking a message
  is enabled again and again rather than always: strong fairness of it, because
  h2o's loop reports every event that is ready whenever it polls. The same holds
  for proxied requests, whose servers answer or time out, and for the disposal of
  a complete request. No fairness for clients and signals.
* `HttpdReload`: weak fairness of the master and of every worker, which are
  processes. The polling of the semaphore is a step that changes nothing, so
  fairness of the master does not hide a wait that never ends.
* `HttpdControl`: weak fairness of what processes do by themselves and of the
  postmaster. A user need not call anything or end a transaction. Calls are
  bounded, so weak fairness is enough to obtain the lock, which the server hands
  out in order.
* `OmniWorker`: weak fairness of the receivers together, since the queue gives a
  message to any of them; strong fairness of the main and the timer thread of
  every worker, which wait for room in the queue and are woken whenever there is
  some. Nobody has to call, cancel or restart anything.

## 4. Where the code and its promises differ

Three runs end in a violation; `findings` in `PROJECT.json` quotes the lines:

* `linearize_rule2`: nothing is locked between the search for predicate locks
  and the recording of a conflict, so two conflicting transactions may both
  commit;
* `linearize_again`: a second `linearize()` empties the list of what the
  transaction has written (`linearization.c:262`), so that this is not checked;
* `modules_nofun`: the invalidation that a comment of `init.c` relies on for
  extensions without functions is not queued (`extension.c:181`).

In other places the code does not do what one would expect, and the passing runs say
exactly where, because a property leaves the case out or an action of the model
stands for it. `hazards` in `PROJECT.json` has them at their lines:

* a second `set()` of a transaction variable in one subtransaction drops the
  values to be restored (`RestoredUnlessRepeated`);
* after PREPARE TRANSACTION the subtransaction callback works on freed memory
  (`AbortSubCrash`), and the second statement of a message uses the table of
  the first after its portal is gone (`SetStatementDangling`);
* a value of a statement variable is copied into the memory of the portal that
  runs, not into that of the table (`statement.c:68-80`): what a cursor has set is
  gone when it is closed, although the statement's table still has it
  (`CarriedOnlyWithinMessage` is about values that exist);
* a client that leaves before its request is answered has its message
  released in the queue, since h2o clears the generator that `req_dispose`
  (`event_loop.c:538`) takes for a sign of completion, and its request counted for
  ever (`gone` in `ReleasedUnused`, `InFlightExact`, `PausedResumes`);
* the handlers of signals lock the mutexes of the queues, which the thread they
  interrupt may have (`http_worker.c:197-198`): it then waits for itself (`Stuck`
  in `SignalsTaken`, `RequestsAnswered`, `PausedResumes`);
* a reload disposes of the contexts of removed listeners while requests still use
  them (`http_worker.c:505-515`; `orphans` in `RequestsAnswered`);
* a worker that reads the listeners while they are not locked, or that is not
  told that a socket could not be opened or that there are too many, pairs sockets
  with wrong ids; one that was not told of a closed socket takes the next one with
  its number for it, and keeps the old one under the id of the new listener
  (`PairedByIndex`); a signal of another kind empties the list of sockets
  (`ServesOpenSockets`); DROP EXTENSION and a reload can wait for each other, and
  a worker that restarts during a reload counts itself twice, so that the
  semaphore passes the number it is compared for equality with and the master
  waits for ever (`ReloadEnds`); when the last listener is removed, workers keep
  the sockets they have (`WorkersConverge`);
* a reload that the main thread takes at the top of its loop is made while the
  event loop runs, although the comment at `http_worker.c:607` says that it is
  suspended; the event loop may then suspend itself after it was resumed, until
  the next signal (`Stalled` in `HttpdWorker`);
* a request whose WebSocket cannot get its socket is never answered
  (`"stranded"`);
* an error in the commit, or a proxy without a URL, ends the worker instead of
  being answered (`CommitFails`, `MainFails`); a route without a role runs as
  whoever the one before it left (`IdentityFor`); a renamed router table makes
  every request fail until the worker ends, because its query is kept by name;
* before Postgres 18, changes of an extension without functions are not noticed
  by other backends, and their rollback not by their own (`unseen` in
  `ModulesMatch`); a module whose `_Omni_init` runs statements is initialized a
  second time within the first, and one whose `_Omni_init` has raised an error
  (`omni.c:586-593`) is called again, with the hooks it registered still there
  (`raised` in `InitializedOnce`, `exposed` in `HooksRunInOrder`);
* in `omni_worker`, an interrupted caller is told that its statement ran
  (`AnswerHonest`), the cancellation of an unknown timer goes round until a timer
  with its number appears, also one of the next life of the server, an expired
  timer can be cancelled too late (`CancelStops`), a leader that dies in between
  loses the autostart statements (`AutostartOnce`), and workers that all wait for
  room in the queue wait for ever (`Jammed`);
* an aborted `stop()` leaves a master that nobody knows of
  (`AtMostOneMaster`), a failed master leaves `started` set
  (`FlagsTruthful`), and so does a registration without a free slot, whose result is
  ignored (`omni.c:981`); an immediate `stop()` of a master that has not loaded the
  module does not return (`CallsReturn`);
* the unloading of a module that stands between the two entries of a wrapping
  hook leaves a context slot outside of the array (`exposed`); when hooks unload
  modules under a dispatch and then load a plain one, `register_hook` reallocates
  the array to its smaller count (`omni.c:644`) and the dispatch, which goes on
  from its old index, calls through memory behind it (`CallBehindArray`, `"cut"`
  in `UpgradeHookRunsTwice`; it takes three plain modules of one type and came up
  in the proof);
* an array of conflicts that is full crashes the backend (`PushCrash`), and
  index locks and writes in WITH are not compared; a conflict slot that one
  writer has reserved and not yet filled (`linearization.c:209` and `:218`) may be
  reserved by another one, after the reader has reset its slots for its next
  transaction, and what the second has recorded is overwritten when the first
  fills it: the reader misses a conflict (it takes three backends and came up in the
  proof); a linearization failure that is caught in a savepoint has reset the
  conflicts of its transaction (`linearization.c:74`), which may commit (both are
  `lost` in `OpenReaderDetected`);
* a statement that could not be prepared is run without a plan by the next call,
  which does nothing and reports success (`retry.c:205-219`; `TakesEffectOnce`,
  `PlannedWhenRun`); only the first attempt of `retry()` is linearized
  (`retry.c:191`);
* `allocate_shmem` does not free its tentative chunk when the name was found or
  the arguments are rejected (`omni.c:685`).

## 5. Proofs

TLAPS proves the following for every value of the constants that satisfies the
named assumptions of the modules.

**`OmniLoaderProofs`**, in three parts. It extends `OmniShmem`, and `MCOmniModules` and
`MCOmniHooks`, which give the backends and modules of each part names of their own
(`LoadingBackends`, `HookModules`), instantiate `OmniModules` and `OmniHooks` for
them as `L` and `H`, and state what these require of the constants
(`LoadAssumption`, `HooksAssumption`). Of `OmniShmem`: `TypeCorrect`,
`CountsEveryReference`, `ChunkHasOneOwner`, `NoUseAfterFree`. The properties are inductive only together:
`NoDanglingReference` needs that the refcounter covers the references, or the
last `deallocate_shmem` would free too early; the counter needs the finiteness
of the set of references to speak of its size; a late `dsa_free` is harmless
only since a chunk has one owner. `IndInv` adds `GrantedTracked`: a call
whose init callback runs holds a counted reference that is not on the
acquisition list yet. Lemmas on cardinalities (`AddRef`, `DropRef`, `FewerRefs`,
`ExitRefs`) carry the counting; there is one lemma per action; `NextInv` puts
them together. Assumptions: there is a "no chunk" value outside of the chunks,
finitely many addresses of list entries, and a limit of the counter.

Of `OmniModules` (`L!`): `LoadedModulesMatch` and `LoadedModulesInitializedOnce`, for
any number of backends, extensions, versions, statements and failures. `LoadInv`
says of every backend and extension (`Match`) that the modules it has, together
with those that the call in progress has yet to list (`Coming`), are the ones it
sees, or else that it will look again: its flag is set, an invalidation has come or
is about to be sent (`Pending`), or a call has yet to read the table; changes it is
not told of are `unseen`. To leave the rows that others see alone, no two
transactions may have touched the same one (`Locked`), and one that has committed
has no changes left (`CleanOK`).
`CallsOK` is about the stack of nested calls: there is one at most unless one was
overtaken, and below the top one are only calls of an `_Omni_init` that runs
statements (`BelowOK`), which is why no other module is initialized a second time
unless its own `_Omni_init` has `raised` an error. Assumption: the row of omni
itself is not one of the extensions, and every extension has a version at least.

Of `OmniHooks` (`H!`): `DispatchesRunInOrder` and `UpgradeHookInPairs`, for any
number of modules, hook types, loads and nested dispatches. An entry stands for a
run (`RunAt`): its module, and the context it is to find, none at the upper entry
of a pair and the module's own at the lower one. `ArrayOK` says that an array has
the runs of the registered modules, each once, the last turn first, where turns are
numbered by the loads (`TurnIn`), and that both entries of a pair have the index
of the upper one. That `RemoveEntry` keeps this needs `NothingCrosses`: no pair
reaches over the entry that goes, unless a wrapping hook was registered after it,
which is the case that `exposed` records. Registered are the listed modules and
those whose `_Omni_init` has not returned or has failed; `SinceOK` bounds their
numbers, and `PurgeOK` says that only exposed types have entries left that the
rounds of a purge have yet to remove. An error
cuts the stack of dispatches, whose lower part is as before. `InOrder` relates a dispatch to the
array it runs over: what is above its index was run, in this order, and wrapping
hooks there have left their contexts. `Twice` says as much of the entries of omni
only, which stay in place when plain modules are unloaded, since these were loaded
after it or the type is exposed. Assumptions: omni's own hook wraps, wrapping hooks are of
types that have a default entry, and null and wild contexts and the default handle
are no modules.

**`HttpdWorkerProofs`**, in three parts. The threads: `ThreadsTypeCorrect` and
`ThreadsNotBothWaiting`, for any number of reloads and requests. `IndInv` adds
`Counted` (the main thread is about to handle a request only if there is one, and
no more are queued than were made) and `Handshake` (what the two flags say about
the places of the threads when either waits), which is what rules out the mutual
wait. The requests, as `HttpdRequests` specifies them (`R!Spec`):
`RequestsInFlightExact` and `RequestsReleasedUnused`, for any finite set of
requests. The count is the size of a set of requests (`CountedRequests`), so
`RequestsInv` has to say where every request is: which state and answer go together
(`Life`), and which queue it waits in (`Waiting`). `Released` adds that a message is
released when its request is disposed of, and not before. The
composition: every step of it is a step of the threads and of the requests
(lemmas `WorkerImplementsThreads` and `WorkerImplementsRequests`), by which what was
proved of the parts is carried over to a worker that reloads, crashes and ends at
any time (`WorkerNotBothWaiting`, `WorkerInFlightExact`, `WorkerReleasedUnused`).

**`HttpdHandlerProofs`**: `HandlerAnswerTruthful`, `HandlerClean` and
`HandlerEnforcedRole`, for any routes, roles and sequences of messages. `Stages`
says what is known about transaction and answers at each place of `handler()`;
`Guarded` strengthens `EnforcedRole` by the security context that keeps a function
from changing its role.

`HandlerRoutesByPriority` rests on an invariant of its own, `Routing`: what was
called is in the order of priorities (`Called`), nothing that is still to be
looked at has priority over it (`Ahead`), `handler_invoked` tells whether a
handler is among it (`Invoked`), and a route that matches was called, is ahead or
is a handler after the first (`Complete`). The table is finite and its priorities
are integers (`TablesAssumption`).

**`HttpdReloadProofs`**: `ReloadPairedByIndex` and `ReloadServesOpenSockets`, for
any finite sets of listeners and workers. A worker pairs sockets and ids by their
position in two lists that were made at different times by different processes,
and matches sockets by the numbers they had in the master, so the invariant follows
a round: `Listed` (the list is the table, which is locked while workers read it)
and `Rounds`, which bounds the semaphore by the number of workers that have read
this list and are not to read another one (`Current`). `Matching` says that a
worker's number for a socket is the master's as long as the master has it open, and
`Paired` that its id is right; they need that no two open sockets have one number
(`Numbers`) and that the table fits into the list (`Few`, `ListableLists`,
`LoadLists`). All of this but `Numbers` and `Few` is claimed until one of the five events that
`PairedByIndex` names (`Clean`).
When the semaphore has reached the number of workers, all of them are current.
`SortedExists` and `ByIdLists` say that a finite set of ids has a sorted list and
that the list holds just these. `Serving` is about the master alone and needs no `Clean`.

**`HttpdControlProofs`**: `ControlAtMostOneMaster` and `ControlFlagsTruthful`, for
any number of processes, masters, calls and failures. `BasicInv` (types, numbers
of masters given out once, who has the lock and what the flags are meanwhile,
which requests a transaction has at which place) holds always. As long as nothing
irregular has happened, one request waits at most over all processes; the
invariant says which master there may be while a start waits (`Start1`), while a
stop waits, and when none does (`Settled`), and that it is there unless one has
failed to start or ended with an error (`Present`). A restart of the server after a
failed registration begins anew (`CrashStep`). Numbers of backends and masters are different and not zero.

**`OmniWorkerProofs`**: `WorkerRunsOnce`, `WorkerCancelStops`, `WorkerAnswerHonest`
and `WorkerAutostartOnce`, for any number of workers and calls, any capacity of
the queue, and any deaths and restarts. What a call asks for is in one place: once
in the queue, among the tasks of one worker, among its timers or with its timer
thread, and in no two of these; `NotYetRun` adds that it was neither run nor
cancelled there. `OneMessage` is why it stays so when a receiver sends a message
again that nobody has accepted: besides timers to run, a worker has one message
among its tasks at most, which is the one its receiver waits for. `ReplyOK` and
`AutostartsOK` are for the other two.

**`OmniLinearizeProofs`**: `LinearizeReadBeforeCommitDetected` and
`LinearizeOpenReaderDetected`, for any number of backends, relations, transactions
and conflict slots. The first rests on `LocksKept` (the server has the lock of a
read as long as its transaction or one that overlaps runs) and `ReadBeforeOK`: a
writer that others have read before still has the relation to check, so it cannot
come to its commit. The second follows a conflict through the steps of the writer
(`Provided`): the relation is to be checked, the reader is one of the backends
left, its slot is reserved (`Filling`), the slot is filled (`Recorded`); and then
through those of the reader (`Finds`). A slot counts only when nobody else is
about to fill it, and an error that is caught resets the slots (`FailReset`): that is
where the proof needs `lost`.

**`OmniSessionProofs`**: what a session keeps for itself. Of `OmniTxnRetry`:
`RetryTakesEffectOnce`, `RetryBackoffsOfCall`, `RetryPlannedWhenRun`, for any
number of attempts and any failures, with the bounds of a pause in `Pause`; `Effect`
and `Plans` say which calls may succeed without an effect. Of `OmniVarStatement`:
`StatementCarriedOnlyWithinMessage`, about values and tables that still exist, and
`StatementTableOfOwn`; of
`OmniVarTxn`: `TxnNoRolledBackValue`, `TxnRestoredUnlessRepeated`, for any depth of
nesting. `TxnInv` compares the chain of a variable with every level of
subtransactions, since a rollback goes back to any of them (`ChainOK`, `Shows`);
`UnwoundKeeps` says what the walk of `subtransaction_callback` leaves of a chain.

Only model-checked:

* liveness (`ReloadEnds`, `WorkersConverge`, `CallsReturn`, `WorkDone`,
  `SignalsTaken`, `RequestsAnswered`, `PausedResumes`), which is out of the prover's
  reach;
* `Rule2`, `Rule2CallAgain` and `ChangesNoticed`, which do not hold.

## 6. Plan

A component has one passing run with its few most telling properties; what is
added below replaces weaker properties rather than joining them. In this order:

1. `HttpdWebsockets`: close and message handlers in order, and the sockets over
   which backends send to WebSockets.
2. `HttpcPool` and `Ledger`: the connection pool of `omni_httpc`; balances and
   limits of `omni_ledger`.
3. Abstract specifications: scopes of variables as a specification of their own
   that `OmniVarTxn` implements where nothing is set twice; a reload as an
   atomic change that `HttpdReload` without faults implements.

## 7. Not modelled

Contents of requests, responses and SQL; ports and addresses; memory exhaustion,
that of the arena of `omni_worker` included, where the envelopes of statements and
timers are never released (`oink.hpp:283-295`); a worker that is killed while it
holds the mutex of the message queue; GUC variables; the algorithms of the server
and of the libraries (h2o, boost, PCRE, SQLite); template databases; conversions
and formatting. Extensions without state of their own, extensions written in SQL,
the test runner, and build and packaging are listed in `PROJECT.json` with the
reason.

The mapped lines are a small share of all C and C++ lines of the repository,
because most of these are not the project's own logic: the deparser of the server
in one copy per version (`omni_sql/deparse_*.c`), the JSON library
(`misc/inja/nlohmann/json.hpp`), `cppgres.hpp` and other headers make up more
than three quarters of them. Of the files that keep state over
processes or threads (`omni`, `omni_httpd`, `omni_txn`, `omni_var`, `omni_worker`)
most functions are mapped; what they convert, print or declare is not.

## 8. Running

    tlc -config MCOmniShmem.cfg MCOmniShmem
    tlapm OmniLoaderProofs.tla

`PROJECT.json` names module, configuration and expected outcome of each run.
