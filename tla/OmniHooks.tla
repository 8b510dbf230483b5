----------------------------- MODULE OmniHooks -----------------------------
(***************************************************************************)
(* The hook harness of the omni loader, in one backend                     *)
(* (extensions/omni/hook_harness.c, register_hook in omni.c).              *)
(*                                                                         *)
(* Every hook type has an array of entry points that is run from the last  *)
(* to the first.  A plain hook is appended; a wrapping hook is put at both *)
(* ends, so that it runs before and after everything registered so far,    *)
(* and its two entries share a context slot through state_index.  Unloading *)
(* a module closes the gaps its entries leave.                             *)
(*                                                                         *)
(* A hook may run SQL, which dispatches hooks again and may load or unload  *)
(* modules while the outer dispatch is in the middle of the array: the     *)
(* dispatches in progress form a stack, and each keeps the index it is at  *)
(* and the array of contexts it sized when it began.  _Omni_init may run    *)
(* SQL as well: its module has registered its hook then and is not listed   *)
(* yet, and an error leaves it so.                                          *)
(*                                                                         *)
(* Indices and state indices are one higher than in the code.              *)
(***************************************************************************)
EXTENDS Integers, FiniteSets, SequencesExt

CONSTANTS
  Modules,       \* modules that register one hook each
  HookType,      \* the type of the hook of a module
  Wrapping,      \* the modules whose hook has .wrap set
  Types,         \* hook types
  DefaultTypes,  \* types with a default entry
  Self,          \* omni itself, never unloaded
  Default,       \* the handle (NULL) of a default entry
  Null,          \* the null context
  Garbage,       \* a context read out of bounds or before it was written
  MaxDepth,      \* bound on nested dispatches
  MaxLoads       \* bound on how often modules are loaded

\* What the code guarantees of them: omni's own hook wraps, and wrapping hooks are
\* of types with a default entry.
ConstantsOK ==
  /\ HookType \in [Modules -> Types]
  /\ Wrapping \subseteq Modules
  /\ Self \in Wrapping
  /\ Default \notin Modules /\ Null \notin Modules /\ Garbage \notin Modules
  /\ Null # Garbage
  /\ DefaultTypes \subseteq Types
  /\ \A m \in Wrapping : HookType[m] \in DefaultTypes

VARIABLES
  hook_entry_points,    \* per type: the array of [handle, state_index] and its count
  initialized_modules,  \* modules initialized in this backend
  stack,                \* dispatches in progress, innermost last
  initializing,         \* modules inside _Omni_init, with the dispatches around them
  purging,              \* reorganize_hooks has more entries to remove
  since,                \* history: the number of the load that has registered the
                        \* hook of each module, or 0
  exposed,              \* history: types that lost a hook from within a wrapping one,
                        \* or one of a module that was not listed, or have one twice
  loads                 \* how often modules were loaded

control == <<stack, initializing, purging>>
registry == <<hook_entry_points, initialized_modules, since, exposed>>
vars == <<registry, control, loads>>

----------------------------------------------------------------------------
(* The array                                                               *)

\* register_hook with .wrap: every existing entry moves up by one
RegisterWrap(h, m) ==
  LET e == [handle |-> m, state_index |-> h.count + 2]
      shifted == [j \in 1..h.count |->
                    [h.array[j] EXCEPT !.state_index = @ + 1]]
  IN  [array |-> <<e>> \o shifted \o <<e>>, count |-> h.count + 2]

\* Mutant: the plain hook is put before the others
RegisterPlainFirst(h, m) ==
  [array |-> <<[handle |-> m, state_index |-> 1]>> \o
             [j \in 1..h.count |-> [h.array[j] EXCEPT !.state_index = @ + 1]],
   count |-> h.count + 1]

\* register_hook without .wrap: the array is cut or grown to count + 1
RegisterPlain(h, m) ==
  [array |-> Append(SubSeq(h.array, 1, h.count),
                    [handle |-> m, state_index |-> h.count + 1]),
   count |-> h.count + 1]

RegisterHook(h, m) ==
  IF m \in Wrapping THEN RegisterWrap(h, m) ELSE RegisterPlain(h, m)

\* The inner loop of reorganize_hooks: entry i is overwritten by its successors,
\* which are reindexed; the memory behind the new count keeps its contents.
RemoveEntry(h, i) ==
  LET reindexed(j) == IF h.array[j].state_index >= j
                      THEN [h.array[j] EXCEPT !.state_index = @ - 1]
                      ELSE h.array[j]
  IN  [array |-> [j \in DOMAIN h.array |->
                    CASE j < i \/ j > h.count  -> h.array[j]
                      [] i <= j /\ j < h.count -> reindexed(j + 1)
                      [] i < j /\ j = h.count  -> reindexed(j)
                      [] i = j /\ j = h.count  -> h.array[j]],
       count |-> h.count - 1]

\* Mutant: the successors are moved without being reindexed
ReorganizeNoReindex(h, kept) ==
  LET live == SelectSeq(SubSeq(h.array, 1, h.count),
                        LAMBDA e : e.handle \in kept \cup {Default})
  IN  [array |-> live, count |-> Len(live)]

Victims(h, kept) == {i \in 1..h.count : h.array[i].handle \notin kept \cup {Default}}

\* One round of the loop that finds an entry to remove
RemoveLowest(h, kept) ==
  IF Victims(h, kept) = {} THEN h ELSE RemoveEntry(h, Min(Victims(h, kept)))

\* The first rounds of reorganize_hooks for one type, as many as a module has
\* entries: entries of modules that are not initialized are removed, lowest first.
Reorganize(h, kept) == RemoveLowest(RemoveLowest(h, kept), kept)

----------------------------------------------------------------------------
(* The order hooks are meant to run in: the last registered first, and a    *)
(* wrapping hook once more after everything registered before it            *)

\* The modules whose hooks are in the arrays
Registered == {m \in Modules : since[m] # 0}

\* The runs of a dispatch, as modules with the context they are to find
Runs(t) ==
  LET hooks == {m \in Registered : HookType[m] = t}
  IN  {<<m, Null>> : m \in hooks} \cup {<<m, m>> : m \in hooks \cap Wrapping}
        \cup (IF t \in DefaultTypes THEN {<<Default, Null>>} ELSE {})

Turn(r) == IF r[1] = Default THEN 0 ELSE IF r[2] = Null THEN 0 - since[r[1]] ELSE since[r[1]]

----------------------------------------------------------------------------
NoHooks ==
  [t \in Types |->
     IF t \in DefaultTypes
     THEN [array |-> <<[handle |-> Default, state_index |-> 1]>>, count |-> 1]
     ELSE [array |-> <<>>, count |-> 0]]

Init ==
  /\ hook_entry_points = NoHooks
  /\ initialized_modules = {}
  /\ stack = <<>>
  /\ initializing = <<>>
  /\ purging = FALSE
  /\ since = [m \in Modules |-> 0]
  /\ exposed = {}
  /\ loads = 0

FreshBackend ==
  /\ hook_entry_points' = NoHooks
  /\ initialized_modules' = {}
  /\ stack' = <<>>
  /\ initializing' = <<>>
  /\ since' = [m \in Modules |-> 0]
  /\ exposed' = {}

Top == stack[Len(stack)]

\* load_pending_modules runs between statements or in a statement that a
\* running hook or an _Omni_init has issued.
Quiescent == stack = <<>> /\ ~purging
Nested == stack # <<>> /\ Top.running /\ ~purging

\* _Omni_init of the module loaded last runs, and none of its statements.
InInit == initializing # <<>> /\ Last(initializing).depth = Len(stack)

\* What happens to the array of m's type while dispatches of it are in progress
Changing(m, changes) ==
  [d \in DOMAIN stack |->
     IF stack[d].type = HookType[m]
     THEN [stack[d] EXCEPT !.changes = @ \cup changes] ELSE stack[d]]

\* load_pending_modules, the part that initializes a module: _Omni_init is
\* called and registers its hook.  Modules come in the order of their rows in
\* pg_extension, so that omni may come before, between or after the others, but
\* in the first call, which no running hook has made.
LoadModule(m) ==
  /\ Quiescent \/ Nested
  /\ m = Self /\ Nested => initializing # <<>>
  /\ m \notin initialized_modules
  /\ loads < MaxLoads
  /\ hook_entry_points' =
       [hook_entry_points EXCEPT ![HookType[m]] = RegisterHook(@, m)]
  /\ since' = [since EXCEPT ![m] = loads + 1]
  /\ loads' = loads + 1
  /\ stack' = LET h == hook_entry_points[HookType[m]]
              IN  Changing(m, IF m \in Wrapping THEN {"shift"}
                              ELSE IF Len(h.array) > h.count + 1 THEN {"cut"} ELSE {})
  /\ initializing' = Append(initializing, [module |-> m, depth |-> Len(stack)])
  /\ exposed' = IF m \in Registered THEN exposed \cup {HookType[m]} ELSE exposed
  /\ UNCHANGED <<initialized_modules, purging>>

\* _Omni_init returns and the module is listed.
ListModule ==
  /\ Quiescent \/ Nested
  /\ InInit
  /\ initialized_modules' = initialized_modules \cup {Last(initializing).module}
  /\ initializing' = Front(initializing)
  /\ UNCHANGED <<hook_entry_points, stack, purging, since, exposed, loads>>

\* An error in a statement, an _Omni_init or a hook, caught further out or not at
\* all: j calls of _Omni_init and k dispatches are left, and the modules of the
\* other calls are not listed.
RaiseError(j, k) ==
  /\ Quiescent \/ Nested
  /\ j + k < Len(initializing) + Len(stack)
  /\ j > 0 => initializing[j].depth <= k
  /\ j < Len(initializing) => k <= initializing[j + 1].depth
  /\ initializing' = SubSeq(initializing, 1, j)
  /\ stack' = SubSeq(stack, 1, k)
  /\ UNCHANGED <<registry, purging, loads>>

RegisteredAfter(w, m) == HookType[w] = HookType[m] /\ since[w] > since[m]

\* unload_module: off the list of initialized modules, then reorganize_hooks
\* over all types, which also removes the hooks of modules that are not listed.
UnloadModule(m) ==
  /\ Quiescent \/ Nested
  /\ m \in initialized_modules \ {Self}
  /\ initialized_modules' = initialized_modules \ {m}
  /\ hook_entry_points' =
       [t \in Types |-> Reorganize(hook_entry_points[t], initialized_modules')]
  /\ purging' = \E t \in Types : Victims(hook_entry_points'[t], initialized_modules') # {}
  /\ since' = [x \in Modules |-> IF x \in initialized_modules' THEN since[x] ELSE 0]
  /\ stack' = Changing(m, IF m \in Wrapping THEN {"unload", "shift"} ELSE {"unload"})
  /\ exposed' = exposed \cup {HookType[x] : x \in Registered \ initialized_modules}
                   \cup (IF \E w \in Wrapping : RegisteredAfter(w, m) THEN {HookType[m]} ELSE {})
  /\ UNCHANGED <<initializing, loads>>

\* A further round, where modules that are not listed had entries
PurgeRound(t) ==
  /\ purging
  /\ Victims(hook_entry_points[t], initialized_modules) # {}
  /\ hook_entry_points' = [hook_entry_points EXCEPT ![t] = RemoveLowest(@, initialized_modules)]
  /\ purging' = \E u \in Types : Victims(hook_entry_points'[u], initialized_modules) # {}
  /\ UNCHANGED <<initialized_modules, stack, initializing, since, exposed, loads>>

\* iterate_hooks is entered: the context array has the size of the moment.
Dispatch(t) ==
  /\ Quiescent \/ Nested
  /\ Len(stack) < MaxDepth
  /\ LET n == hook_entry_points[t].count
     IN  stack' = Append(stack,
           [type |-> t, i |-> n, ctxs |-> [j \in 1..n |-> Garbage],
            running |-> FALSE, finished |-> FALSE, ctx |-> Null,
            log |-> <<>>, changes |-> {}, intended |-> [r \in Runs(t) |-> Turn(r)]])
  /\ UNCHANGED <<registry, initializing, purging, loads>>

ReplaceTop(f) == stack' = [stack EXCEPT ![Len(stack)] = f]

\* Reading ctxs[j] after ctxs[i] was set to NULL
ContextAt(f, j) == IF j = f.i THEN Null
                   ELSE IF j \in DOMAIN f.ctxs THEN f.ctxs[j] ELSE Garbage

\* The body of the loop up to the call of the hook: the array is read again in
\* every iteration.
CallHook ==
  /\ stack # <<>> /\ ~Top.running /\ ~Top.finished
  /\ Top.i \in DOMAIN hook_entry_points[Top.type].array
  /\ LET e == hook_entry_points[Top.type].array[Top.i]
         ctx == ContextAt(Top, e.state_index)
     IN  ReplaceTop([Top EXCEPT !.running = TRUE,
                                !.ctxs[Top.i] = Null,
                                !.ctx = ctx,
                                !.log = Append(@, <<e.handle, ctx>>)])
  /\ UNCHANGED <<registry, initializing, purging, loads>>

\* Registrations after nested unloads may have cut the array below the index of
\* a dispatch, which then calls through memory that is not its own: the hook
\* that was there before, or the end of the backend and a new one.
CallBehindArray ==
  /\ stack # <<>> /\ ~Top.running /\ ~Top.finished
  /\ Top.i > Len(hook_entry_points[Top.type].array)
  /\ \/ /\ \E m \in Modules :
              ReplaceTop([Top EXCEPT !.running = TRUE, !.ctxs[Top.i] = Null,
                                     !.ctx = Garbage,
                                     !.log = Append(@, <<m, Garbage>>)])
        /\ UNCHANGED <<registry, initializing>>
     \/ FreshBackend
  /\ UNCHANGED <<purging, loads>>

\* The hook returns with next_action next or finish.  A wrapping hook leaves a
\* context when it found none and takes it back otherwise.
ReturnHook(finish) ==
  /\ Nested /\ ~InInit
  /\ LET m == Last(Top.log)[1]
         ctx == IF m \notin Wrapping THEN Top.ctx
                ELSE IF Top.ctx = Null THEN m ELSE Null
     IN  ReplaceTop([Top EXCEPT !.running = FALSE,
                                !.ctxs[Top.i] = ctx,
                                !.i = @ - 1,
                                !.finished = finish])
  /\ UNCHANGED <<registry, initializing, purging, loads>>

\* The loop is done (or was never entered); the statement of the outer hook
\* goes on.
EndDispatch ==
  /\ stack # <<>> /\ ~Top.running /\ (Top.finished \/ Top.i = 0)
  /\ stack' = Front(stack)
  /\ UNCHANGED <<registry, initializing, purging, loads>>

Next ==
  \/ \E m \in Modules : LoadModule(m) \/ UnloadModule(m)
  \/ ListModule
  \/ \E j \in 0..Len(initializing), k \in 0..Len(stack) : RaiseError(j, k)
  \/ \E t \in Types : Dispatch(t) \/ PurgeRound(t)
  \/ CallHook \/ CallBehindArray
  \/ \E finish \in BOOLEAN : ReturnHook(finish)
  \/ EndDispatch

Spec == Init /\ [][Next]_vars

----------------------------------------------------------------------------
(* Properties                                                              *)

Completed(f) == f.i = 0 /\ ~f.running /\ ~f.finished

\* A dispatch runs the hooks that were registered when it began, each once (a
\* wrapping hook once before and once after what it wraps), in the intended
\* order, and the second run of a wrapping hook gets the context that the first
\* one left; it leaves none out and runs all of them unless one says finish.
\* This holds whatever was loaded and unloaded before and whatever errors were
\* raised, also for hooks of modules whose _Omni_init has not returned or has
\* failed, and whatever plain hooks are registered by the statements of the
\* running hooks.  Excepted are the types that have lost a hook registered before
\* a wrapping one, or a hook of a module that was not listed when another one was
\* unloaded, and those where such a module has registered its hook again.
HooksRunInOrder ==
  \A d \in DOMAIN stack :
    LET f == stack[d]
        turn(k) == f.intended[f.log[k]]
    IN  f.type \notin exposed /\ f.changes = {} =>
          /\ \A k \in DOMAIN f.log : f.log[k] \in DOMAIN f.intended
          /\ \A j, k \in DOMAIN f.log : j < k => turn(j) < turn(k)
          /\ \A r \in DOMAIN f.intended :
               \/ \E k \in DOMAIN f.log : f.log[k] = r
               \/ ~Completed(f) /\ \A k \in DOMAIN f.log : turn(k) < f.intended[r]

\* extension_upgrade_hook tells its two invocations apart by the context
\* ("IsFirstInvocation = state == NULL") and does its work "Once done" in the
\* second one: in a dispatch, its first run has no context, its second run has
\* the one it left, and a dispatch that runs to its end has both.  Unloads of
\* plain modules in the middle of the dispatch do not disturb this, as long as no
\* registration after them cuts the array.
UpgradeHookRunsTwice ==
  \A d \in DOMAIN stack :
    LET f == stack[d]
        runs == {k \in DOMAIN f.log : f.log[k][1] = Self}
        second(k) == \E j \in runs : j < k
    IN  f.type \notin exposed /\ f.changes \subseteq {"unload"} =>
          /\ \A k \in runs : f.log[k] = <<Self, IF second(k) THEN Self ELSE Null>>
          /\ \A j, k \in runs : second(j) /\ second(k) => j = k
          /\ Completed(f) /\ runs # {} => \E k \in runs : second(k)
============================================================================
