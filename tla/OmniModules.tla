---------------------------- MODULE OmniModules ----------------------------
(***************************************************************************)
(* How the backends of omni keep the modules they have initialized in step  *)
(* with pg_extension (load_pending_modules and unload_module in omni.c,     *)
(* extension_upgrade_hook in extension.c, init.c and hook_harness.c).       *)
(*                                                                         *)
(* backend_force_reload asks a backend to look at pg_extension again.  It   *)
(* is set by extension statements, by invalidation messages that other      *)
(* backends send when they commit, and by rollbacks; it is cleared when     *)
(* the next statement begins to look.  A module is a library: every version *)
(* of an extension has its own.  _Omni_init of a module may run statements, *)
(* which look at pg_extension themselves.                                  *)
(***************************************************************************)
EXTENDS Integers, Sequences, FiniteSets

CONSTANTS
  Backends,
  Extensions,
  NoFun,         \* the extensions that have no functions
  Versions,      \* how many versions each extension has
  Installed,     \* the extensions there are when the server starts
  SqlInit,       \* the extensions whose _Omni_init runs statements
  MaxChanges,    \* bound on extension statements
  MaxFailures    \* bound on errors while modules are loaded

\* The row of omni itself is not among the extensions.
ConstantsOK ==
  /\ "omni" \notin Extensions
  /\ NoFun \subseteq Extensions /\ SqlInit \subseteq Extensions /\ Installed \subseteq Extensions
  /\ Versions \in [Extensions -> Nat \ {0}]
  /\ MaxChanges \in Nat /\ MaxFailures \in Nat

Absent == 0
Same == -1                        \* a transaction has not touched the row
Modules == UNION {{e} \X (1..Versions[e]) : e \in Extensions}
Self == <<"omni", 1>>             \* the module of omni itself

VARIABLES
  pg18,                  \* the server has a syscache of extensions
  pg_extension,          \* the committed version of each extension, or Absent
  changes,               \* what the transaction of each backend has made of it
  pc,                    \* where each backend is
  block,                 \* its transaction is a transaction block
  ext,                   \* extension of the statement it runs
  load,                  \* its nested calls of load_pending_modules
  backend_force_reload,
  initialized_modules,
  omni_loaded,           \* Self was considered
  oneshot,               \* force_backend_reload_on_rollback is registered
  queued,                \* its transaction has invalidations for others
  invalidated,           \* invalidations of others it has not received
  inits,                 \* _Omni_init less _Omni_deinit calls, for each module
  raised,                \* history: the modules whose _Omni_init raised an error
  failed,                \* history: its last look at pg_extension failed
  overtaken,             \* history: a look was made during another one's _Omni_init
  unseen,                \* history: extensions that changed since it last looked
                         \* and that it was not told of
  bounds                 \* statements and failures so far

transaction == <<changes, block, ext, oneshot, queued>>
modules == <<load, initialized_modules, omni_loaded, inits, raised, failed, overtaken>>
ghosts == <<unseen, bounds>>
vars == <<pg18, pg_extension, transaction, pc, modules, backend_force_reload, invalidated,
          ghosts>>

\* A call of load_pending_modules is about to read pg_extension, or has the
\* modules of the set todo to load, one of which may be inside _Omni_init.
Scan == [at |-> "scan", todo |-> {}, init |-> <<>>]
Loading(todo) == [at |-> "load", todo |-> todo, init |-> <<>>]

Untouched == [e \in Extensions |-> Same]

Init ==
  /\ pg18 \in BOOLEAN
  /\ pg_extension = [e \in Extensions |-> IF e \in Installed THEN 1 ELSE Absent]
  /\ changes = [b \in Backends |-> Untouched]
  /\ pc = [b \in Backends |-> "none"]
  /\ block = [b \in Backends |-> FALSE]
  /\ ext = [b \in Backends |-> "none"]
  /\ load = [b \in Backends |-> <<>>]
  /\ backend_force_reload = [b \in Backends |-> TRUE]
  /\ initialized_modules = [b \in Backends |-> {}]
  /\ omni_loaded = [b \in Backends |-> FALSE]
  /\ oneshot = [b \in Backends |-> FALSE]
  /\ queued = [b \in Backends |-> FALSE]
  /\ invalidated = [b \in Backends |-> FALSE]
  /\ inits = [b \in Backends |-> [m \in Modules \union {Self} |-> 0]]
  /\ raised = [b \in Backends |-> {}]
  /\ failed = [b \in Backends |-> FALSE]
  /\ overtaken = [b \in Backends |-> FALSE]
  /\ unseen = [b \in Backends |-> {}]
  /\ bounds = [changes |-> 0, failures |-> 0]

\* What a scan of pg_extension in the transaction of b returns
Visible(b, e) == IF changes[b][e] = Same THEN pg_extension[e] ELSE changes[b][e]

Wanted(b) == {<<e, Visible(b, e)>> : e \in {x \in Extensions : Visible(b, x) # Absent}}

----------------------------------------------------------------------------
(* load_pending_modules                                                    *)

\* The call does nothing unless the flag is set, and clears it first.
LoadPendingModules(b, force) ==
  /\ load' = IF force THEN [load EXCEPT ![b] = Append(@, Scan)] ELSE load
  /\ backend_force_reload' = [backend_force_reload EXCEPT ![b] = FALSE]
  /\ failed' = [failed EXCEPT ![b] = @ /\ ~force]
  /\ overtaken' = [overtaken EXCEPT ![b] = IF force THEN load[b] # <<>> ELSE @]

Loads(b) == load[b] # <<>>
Top(b) == load[b][Len(load[b])]

\* A call with nothing left to load returns.
SetTop(b, f) ==
  load' = [load EXCEPT ![b] = IF f.at = "load" /\ f.todo = {} THEN SubSeq(@, 1, Len(@) - 1)
                              ELSE [@ EXCEPT ![Len(@)] = f]]

\* pg_extension is locked, which receives invalidations, and read; modules that
\* are no longer there are unloaded first.
ReadPgExtension(b) ==
  /\ Loads(b) /\ Top(b).at = "scan"
  /\ LET loaded == Wanted(b) \union (IF omni_loaded[b] THEN {} ELSE {Self})
         remove == initialized_modules[b] \ (loaded \union {Self})
     IN /\ initialized_modules' = [initialized_modules EXCEPT ![b] = @ \ remove]
        /\ inits' = [inits EXCEPT ![b] = [m \in DOMAIN @ |-> @[m] - (IF m \in remove THEN 1 ELSE 0)]]
        /\ SetTop(b, Loading(loaded \ initialized_modules[b]))
  /\ omni_loaded' = [omni_loaded EXCEPT ![b] = TRUE]
  /\ backend_force_reload' = [backend_force_reload EXCEPT ![b] = @ \/ invalidated[b]]
  /\ invalidated' = [invalidated EXCEPT ![b] = FALSE]
  /\ unseen' = [unseen EXCEPT ![b] = {}]
  /\ UNCHANGED <<pg18, pg_extension, transaction, pc, raised, failed, overtaken, bounds>>

\* The module is listed once its _Omni_init has returned.
Listed(b, m) ==
  /\ initialized_modules' = [initialized_modules EXCEPT ![b] = @ \union {m}]
  /\ SetTop(b, Loading(Top(b).todo \ {m}))

\* The modules that are inside _Omni_init
Running(b) == {load[b][i].init[1] : i \in {j \in DOMAIN load[b] : load[b][j].init # <<>>}}

\* Mutant: what a call made meanwhile has loaded is not looked at
InitModuleUnchecked(b, m) ==
  /\ Loads(b) /\ Top(b).init = <<>> /\ m \in Top(b).todo
  /\ inits' = [inits EXCEPT ![b][m] = @ + 1]
  /\ SetTop(b, [Top(b) EXCEPT !.init = <<m>>])
  /\ UNCHANGED initialized_modules
  /\ UNCHANGED <<pg18, pg_extension, transaction, pc, omni_loaded, raised, failed, overtaken,
                 backend_force_reload, invalidated, ghosts>>

\* _Omni_init is called, unless a call made meanwhile has loaded the module.
InitModule(b, m) ==
  /\ Loads(b) /\ Top(b).init = <<>> /\ m \in Top(b).todo
  /\ IF m \in initialized_modules[b] THEN Listed(b, m) /\ UNCHANGED inits
     ELSE /\ inits' = [inits EXCEPT ![b][m] = @ + 1]
          /\ SetTop(b, [Top(b) EXCEPT !.init = <<m>>])
          /\ UNCHANGED initialized_modules
  /\ UNCHANGED <<pg18, pg_extension, transaction, pc, omni_loaded, raised, failed, overtaken,
                 backend_force_reload, invalidated, ghosts>>

\* _Omni_init runs a statement, which is a call of its own.
InitStatement(b) ==
  /\ Loads(b) /\ Top(b).init # <<>> /\ Top(b).init[1][1] \in SqlInit
  /\ backend_force_reload[b]
  /\ LoadPendingModules(b, TRUE)
  /\ UNCHANGED <<pg18, pg_extension, transaction, pc, initialized_modules, omni_loaded, inits,
                 raised, invalidated, ghosts>>

InitReturns(b) ==
  /\ Loads(b) /\ Top(b).init # <<>>
  /\ Listed(b, Top(b).init[1])
  /\ UNCHANGED <<pg18, pg_extension, transaction, pc, omni_loaded, inits, raised, failed,
                 overtaken, backend_force_reload, invalidated, ghosts>>

----------------------------------------------------------------------------
(* Transactions and invalidations                                          *)

\* When a statement takes a lock, the messages of others are received.
AcceptInvalidations(b) ==
  /\ pc[b] \in {"query", "script", "scripted"} \/ Loads(b)
  /\ invalidated[b]
  /\ invalidated' = [invalidated EXCEPT ![b] = FALSE]
  /\ backend_force_reload' = [backend_force_reload EXCEPT ![b] = TRUE]
  /\ UNCHANGED <<pg18, pg_extension, transaction, pc, modules, ghosts>>

\* A transaction begins, with a statement of its own or as a block.
Begin(b) ==
  /\ pc[b] = "idle"
  /\ pc' = [pc EXCEPT ![b] = "ready"]
  /\ block' \in {[block EXCEPT ![b] = x] : x \in BOOLEAN}
  /\ invalidated' = [invalidated EXCEPT ![b] = FALSE]
  /\ backend_force_reload' = [backend_force_reload EXCEPT ![b] = @ \/ invalidated[b]]
  /\ UNCHANGED <<pg18, pg_extension, changes, ext, modules, oneshot, queued, ghosts>>

\* A statement of a block ends.
EndStatement(b) ==
  /\ pc[b] = "done" /\ ~Loads(b) /\ block[b]
  /\ pc' = [pc EXCEPT ![b] = "ready"]
  /\ UNCHANGED <<pg18, pg_extension, transaction, modules, backend_force_reload, invalidated,
                 ghosts>>

\* omni_xact_callback_hook: callbacks are used up by the event before the commit.
PreCommit(b) ==
  /\ pc[b] = (IF block[b] THEN "ready" ELSE "done") /\ ~Loads(b)
  /\ pc' = [pc EXCEPT ![b] = "precommit"]
  /\ oneshot' = [oneshot EXCEPT ![b] = FALSE]
  /\ UNCHANGED <<pg18, pg_extension, changes, block, ext, modules, queued,
                 backend_force_reload, invalidated, ghosts>>

\* The extensions whose rows the transaction of b has changed
Touched(b) == {e \in Extensions : changes[b][e] # Same}

\* Others see the transaction before they are told, if they are.
Commit(b) ==
  /\ pc[b] = "precommit"
  /\ pc' = [pc EXCEPT ![b] = "committed"]
  /\ pg_extension' = [e \in Extensions |-> Visible(b, e)]
  /\ changes' = [changes EXCEPT ![b] = Untouched]
  /\ unseen' = [x \in Backends |->
                  IF x = b \/ queued[b] THEN unseen[x] ELSE unseen[x] \union Touched(b)]
  /\ UNCHANGED <<pg18, block, ext, modules, oneshot, queued, backend_force_reload,
                 invalidated, bounds>>

\* What belongs to the transaction is gone.
EndTransaction(b) ==
  /\ changes' = [changes EXCEPT ![b] = Untouched]
  /\ block' = [block EXCEPT ![b] = FALSE]
  /\ ext' = [ext EXCEPT ![b] = "none"]
  /\ oneshot' = [oneshot EXCEPT ![b] = FALSE]
  /\ queued' = [queued EXCEPT ![b] = FALSE]

Announce(b) ==
  /\ pc[b] = "committed"
  /\ pc' = [pc EXCEPT ![b] = "idle"]
  /\ invalidated' = [x \in Backends |->
                       invalidated[x] \/ (queued[b] /\ pc[x] # "none")]
  /\ EndTransaction(b)
  /\ UNCHANGED <<pg18, pg_extension, modules, backend_force_reload, ghosts>>

\* What b undoes without noticing, unless it is made to look again
Undone(b, again) ==
  /\ backend_force_reload' = [backend_force_reload EXCEPT ![b] = @ \/ again]
  /\ unseen' = [unseen EXCEPT ![b] = IF again THEN @ ELSE @ \union Touched(b)]

\* Mutant: a rollback only undoes the transaction
AbortEffectSilent(b) ==
  /\ backend_force_reload' = [backend_force_reload EXCEPT ![b] = @ \/ queued[b]]
  /\ unseen' = [unseen EXCEPT ![b] = IF oneshot[b] \/ queued[b] THEN @ ELSE @ \union Touched(b)]

\* force_backend_reload_on_rollback, if it is still registered; the invalidations
\* of the transaction are processed again.
AbortEffect(b) == Undone(b, oneshot[b] \/ queued[b])

Abort(b) ==
  /\ pc[b] \in {"ready", "query", "script", "scripted", "done", "precommit"} /\ ~Loads(b)
  /\ pc' = [pc EXCEPT ![b] = "idle"]
  /\ AbortEffect(b)
  /\ EndTransaction(b)
  /\ UNCHANGED <<pg18, pg_extension, modules, invalidated, bounds>>

\* To a savepoint at the beginning of the block: no event of the transaction.
RollbackToSavepoint(b) ==
  /\ pc[b] = "ready" /\ block[b] /\ ~Loads(b) /\ changes[b] # Untouched
  /\ changes' = [changes EXCEPT ![b] = Untouched]
  /\ Undone(b, queued[b])
  /\ queued' = [queued EXCEPT ![b] = FALSE]
  /\ UNCHANGED <<pg18, pg_extension, pc, block, ext, modules, oneshot, invalidated, bounds>>

\* The process ends; the next one starts with the flag and the lists of the
\* postmaster.
Gone(b) ==
  /\ pc' = [pc EXCEPT ![b] = "none"]
  /\ load' = [load EXCEPT ![b] = <<>>]
  /\ backend_force_reload' = [backend_force_reload EXCEPT ![b] = TRUE]
  /\ initialized_modules' = [initialized_modules EXCEPT ![b] = {}]
  /\ omni_loaded' = [omni_loaded EXCEPT ![b] = FALSE]
  /\ inits' = [inits EXCEPT ![b] = [m \in DOMAIN @ |-> 0]]
  /\ raised' = [raised EXCEPT ![b] = {}]
  /\ failed' = [failed EXCEPT ![b] = FALSE]
  /\ overtaken' = [overtaken EXCEPT ![b] = FALSE]
  /\ unseen' = [unseen EXCEPT ![b] = {}]
  /\ invalidated' = [invalidated EXCEPT ![b] = FALSE]
  /\ EndTransaction(b)

\* load_module refuses another library of omni, the look is cancelled, or an
\* _Omni_init raises an error, which leaves its module called and not listed.
\* When a backend starts, that is the end of it.
LoadFails(b) ==
  /\ Loads(b) /\ bounds.failures < MaxFailures
  /\ bounds' = [bounds EXCEPT !.failures = @ + 1]
  /\ IF pc[b] = "starting"
     THEN Gone(b)
     ELSE /\ pc' = [pc EXCEPT ![b] = "idle"]
          /\ load' = [load EXCEPT ![b] = <<>>]
          /\ failed' = [failed EXCEPT ![b] = TRUE]
          /\ raised' = [raised EXCEPT ![b] = @ \union Running(b)]
          /\ AbortEffect(b)
          /\ EndTransaction(b)
          /\ UNCHANGED <<initialized_modules, omni_loaded, inits, overtaken, invalidated>>
  /\ UNCHANGED <<pg18, pg_extension>>

----------------------------------------------------------------------------
(* Backends and their statements                                           *)

\* init_backend: a transaction of its own in which modules are loaded
StartBackend(b) ==
  /\ pc[b] = "none"
  /\ pc' = [pc EXCEPT ![b] = "starting"]
  /\ LoadPendingModules(b, backend_force_reload[b])
  /\ UNCHANGED <<pg18, pg_extension, transaction, initialized_modules, omni_loaded, inits,
                 raised, invalidated, ghosts>>

StartedBackend(b) ==
  /\ pc[b] = "starting" /\ ~Loads(b)
  /\ pc' = [pc EXCEPT ![b] = "idle"]
  /\ UNCHANGED <<pg18, pg_extension, transaction, modules, backend_force_reload, invalidated,
                 ghosts>>

ExitBackend(b) ==
  /\ pc[b] = "idle"
  /\ Gone(b)
  /\ UNCHANGED <<pg18, pg_extension, bounds>>

\* omni_executor_start_hook
StartQuery(b) ==
  /\ pc[b] = "ready" /\ ~Loads(b)
  /\ pc' = [pc EXCEPT ![b] = "query"]
  /\ LoadPendingModules(b, backend_force_reload[b])
  /\ UNCHANGED <<pg18, pg_extension, transaction, initialized_modules, omni_loaded, inits,
                 raised, invalidated, ghosts>>

\* omni_executor_end_hook
EndQuery(b) ==
  /\ pc[b] = "query" /\ ~Loads(b)
  /\ pc' = [pc EXCEPT ![b] = "done"]
  /\ LoadPendingModules(b, backend_force_reload[b])
  /\ UNCHANGED <<pg18, pg_extension, transaction, initialized_modules, omni_loaded, inits,
                 raised, invalidated, ghosts>>

\* The row of e changes to version v; its lock keeps others from changing it.
ChangeRow(b, e, v) ==
  /\ pc[b] = "ready" /\ ~Loads(b) /\ bounds.changes < MaxChanges
  /\ \A x \in Backends \ {b} : changes[x][e] = Same
  /\ Visible(b, e) # v
  /\ bounds' = [bounds EXCEPT !.changes = @ + 1]
  /\ changes' = [changes EXCEPT ![b][e] = v]
  /\ ext' = [ext EXCEPT ![b] = e]

\* CREATE EXTENSION and ALTER EXTENSION: the first call of the upgrade hook and
\* the row; the script is still to be run.
BeginExtensionStatement(b, e, v) ==
  /\ ChangeRow(b, e, v)
  /\ pc' = [pc EXCEPT ![b] = "script"]
  /\ backend_force_reload' = [backend_force_reload EXCEPT ![b] = TRUE]
  /\ queued' = [queued EXCEPT ![b] = @ \/ pg18]
  /\ UNCHANGED <<pg18, pg_extension, block, modules, oneshot, invalidated, unseen>>

\* Statements of the script load modules too.
Script(b) ==
  /\ pc[b] = "script" /\ ~Loads(b)
  /\ pc' = [pc EXCEPT ![b] = "scripted"]
  /\ queued' = [queued EXCEPT ![b] = @ \/ ext[b] \notin NoFun]
  /\ LoadPendingModules(b, backend_force_reload[b] \/ ext[b] \notin NoFun)
  /\ UNCHANGED <<pg18, pg_extension, changes, block, ext, initialized_modules, omni_loaded,
                 inits, raised, oneshot, invalidated, ghosts>>

\* The second call of the upgrade hook, then load_pending_modules.  The hook hands
\* the number of a syscache to CacheInvalidateCatalog, which takes the relation of
\* a catalog: nobody is told of anything by it.
EndExtensionStatement(b) ==
  /\ pc[b] = "scripted" \/ (pc[b] = "script" /\ ext[b] \in NoFun)
  /\ ~Loads(b)
  /\ pc' = [pc EXCEPT ![b] = "done"]
  /\ oneshot' = [oneshot EXCEPT ![b] = TRUE]
  /\ LoadPendingModules(b, TRUE)
  /\ UNCHANGED <<pg18, pg_extension, changes, block, ext, queued, initialized_modules,
                 omni_loaded, inits, raised, invalidated, ghosts>>

\* DROP EXTENSION: only the first call of the hook does something.
DropExtension(b, e) ==
  /\ ChangeRow(b, e, Absent)
  /\ pc' = [pc EXCEPT ![b] = "done"]
  /\ queued' = [queued EXCEPT ![b] = @ \/ pg18 \/ e \notin NoFun]
  /\ LoadPendingModules(b, TRUE)
  /\ UNCHANGED <<pg18, pg_extension, block, initialized_modules, omni_loaded, inits, raised,
                 oneshot, invalidated, unseen>>

----------------------------------------------------------------------------
\* Steps that a backend takes by itself
Step(b) ==
  \/ ReadPgExtension(b) \/ InitReturns(b)
  \/ \E m \in Modules \union {Self} : InitModule(b, m)
  \/ Commit(b) \/ Announce(b) \/ StartedBackend(b)
  \/ Script(b) \/ EndExtensionStatement(b) \/ EndQuery(b) \/ EndStatement(b)

\* Steps that its client or the server decide on
Choice(b) ==
  \/ AcceptInvalidations(b) \/ InitStatement(b) \/ LoadFails(b)
  \/ Abort(b) \/ RollbackToSavepoint(b) \/ PreCommit(b)
  \/ StartBackend(b) \/ ExitBackend(b)
  \/ \E e \in Extensions :
       \/ DropExtension(b, e)
       \/ \E v \in 1..Versions[e] : BeginExtensionStatement(b, e, v)

Next == \E b \in Backends : Step(b) \/ Choice(b) \/ Begin(b) \/ StartQuery(b)

Spec == Init /\ [][Next]_vars

----------------------------------------------------------------------------
(* Properties                                                              *)

\* The modules of e that backend b has initialized
Initialized(b, e) == {m \in initialized_modules[b] : m[1] = e}

\* Nothing is left that would make b look at pg_extension again.
Settled(b) ==
  /\ pc[b] \notin {"none", "starting"} /\ ~Loads(b)
  /\ ~backend_force_reload[b] /\ ~invalidated[b]
  /\ \A x \in Backends : pc[x] # "committed"

InSync(b, e) == Initialized(b, e) = {m \in Wanted(b) : m[1] = e}

\* A backend that has no reason to look at pg_extension again has exactly the
\* modules of the extensions it sees, whatever transactions committed, were
\* rolled back or failed in whatever order: no invalidation is lost.  Excepted
\* are a look that failed, one that was overtaken by a statement in _Omni_init
\* and, until the backend looks again for another reason, changes of extensions
\* without functions before Postgres 18: those that others commit, and those of
\* its own that are rolled back when no callback is registered.
ModulesMatch ==
  \A b \in Backends, e \in Extensions :
    Settled(b) /\ ~failed[b] /\ ~overtaken[b] /\ e \notin unseen[b] => InSync(b, e)

\* "we also intercept extension utility statements, where we invalidate PROCOID
\* upon such changes" (init.c:178): a backend that has no reason to look at
\* pg_extension again has the modules of all extensions, those without functions
\* too.
ChangesNoticed ==
  \A b \in Backends :
    Settled(b) /\ ~failed[b] /\ ~overtaken[b] => Wanted(b) \subseteq initialized_modules[b]

\* _Omni_init and _Omni_deinit of a module alternate in every backend, although
\* statements in the _Omni_init of another module may load it first: a module
\* never registers its hooks twice.  Excepted are a module whose own _Omni_init
\* runs statements and one whose _Omni_init has raised an error: it is called
\* again at the next look, and what it had registered by then stays.
InitializedOnce ==
  \A b \in Backends, m \in Modules \union {Self} :
    m[1] \notin SqlInit /\ m \notin raised[b] =>
      inits[b][m] = (IF m \in initialized_modules[b] \union Running(b) THEN 1 ELSE 0)
=============================================================================
