----------------------------- MODULE OmniShmem -----------------------------
(***************************************************************************)
(* Named shared memory of the omni loader (extensions/omni/omni.c).        *)
(*                                                                         *)
(* Modules running in several backends share memory by name.  The table    *)
(* omni_allocations maps (module, name) to a DSA chunk and a refcounter;   *)
(* every backend remembers what it acquired in backend_shmem_acquisitions  *)
(* and gives it back when it exits.                                        *)
(*                                                                         *)
(* The locked section of a call (OMNI_LOCK_ALLOCATION and the partition    *)
(* lock of the table) is one step; what a call does before it takes the    *)
(* lock (the tentative DSA allocation) and after it releases it (the init  *)
(* callback, the acquisitions list, dsa_free) are steps of their own,      *)
(* because other backends run in between.                                  *)
(***************************************************************************)
EXTENDS Integers, FiniteSets

CONSTANTS
  Backends,       \* process slots
  Modules,        \* modules, by id (omni_handle_private.id)
  Names,          \* names of allocations
  Blocks,         \* addresses of chunks in the DSA
  NoBlock,        \* "no entry"
  RefIds,         \* addresses of palloc'ed ModuleAllocationKey's
  MaxRefcounter   \* the largest value of the uint32 refcounter

ASSUME NoBlockAssumption == NoBlock \notin Blocks
ASSUME RefIdsAssumption == IsFiniteSet(RefIds)
ASSUME MaxRefcounterAssumption == MaxRefcounter \in Nat

Keys == Modules \X Names

\* An entry of omni_allocations; a free slot has no pointer.
Entry == [pointer : Blocks \cup {NoBlock}, refcounter : Nat]
NoEntry == [pointer |-> NoBlock, refcounter |-> 0]

\* A counted reference a backend holds: what one successful allocate_shmem or
\* lookup_shmem returned and what nobody has given back yet.
Ref == [id : RefIds, backend : Backends, key : Keys, pointer : Blocks]

\* A call in progress: "tentative" after dsa_allocate0, "granted" once the
\* entry is found or made (the init callback runs), "freeing" once the entry
\* is deleted (dsa_free is due).
Call == [op : {"idle"}] \cup
        [op : {"tentative", "freeing"}, key : Keys, pointer : Blocks] \cup
        [op : {"granted"}, key : Keys, pointer : Blocks, id : RefIds,
         tentative : Blocks]
Idle == [op |-> "idle"]

VARIABLES
  running,              \* backends whose backend_initialized is set
  initialized_modules,  \* per backend: modules it initialized
  initializing,         \* per backend: modules whose _Omni_init runs
  deinitializing,       \* per backend: modules whose _Omni_deinit runs
  omni_allocations,     \* the shared table
  dsa,                  \* chunks currently allocated in the DSA
  refs,                 \* references held, see Ref
  acquisitions,         \* those in some backend_shmem_acquisitions list
  call                  \* per backend: the call in progress

vars == <<running, initialized_modules, initializing, deinitializing,
          omni_allocations, dsa, refs, acquisitions, call>>

modvars == <<running, initialized_modules, initializing, deinitializing>>

Init ==
  /\ running = {}
  /\ initialized_modules = [b \in Backends |-> {}]
  /\ initializing = [b \in Backends |-> {}]
  /\ deinitializing = [b \in Backends |-> {}]
  /\ omni_allocations = [k \in Keys |-> NoEntry]
  /\ dsa = {}
  /\ refs = {}
  /\ acquisitions = {}
  /\ call = [b \in Backends |-> Idle]

Found(k) == omni_allocations[k].pointer # NoBlock
RefsOf(k) == {r \in refs : r.key = k}
HeldBy(b) == {r \in refs : r.backend = b}
FreshIds == RefIds \ {r.id : r \in refs}

\* Modules of backend b whose code can be calling the loader.
Active(b) == initialized_modules[b] \cup initializing[b] \cup deinitializing[b]

\* Module code of backend b, about to call the loader for key k.
Calling(b, k) == b \in running /\ call[b].op = "idle" /\ k[1] \in Active(b)

----------------------------------------------------------------------------
(* Backends and the modules they initialize                                *)

\* init_backend, ensure_backend_initialized
BackendStart(b) ==
  /\ b \notin running
  /\ running' = running \cup {b}
  /\ UNCHANGED <<initialized_modules, initializing, deinitializing,
                 omni_allocations, dsa, refs, acquisitions, call>>

\* load_pending_modules is about to run _Omni_init; the module is not yet in
\* initialized_modules.
InitBegin(b, m) ==
  /\ b \in running /\ call[b].op = "idle"
  /\ initializing[b] = {} /\ deinitializing[b] = {}
  /\ m \notin initialized_modules[b]
  /\ initializing' = [initializing EXCEPT ![b] = {m}]
  /\ UNCHANGED <<running, initialized_modules, deinitializing,
                 omni_allocations, dsa, refs, acquisitions, call>>

InitEnd(b) ==
  /\ call[b].op = "idle"
  /\ initializing[b] # {}
  /\ initialized_modules' =
       [initialized_modules EXCEPT ![b] = @ \cup initializing[b]]
  /\ initializing' = [initializing EXCEPT ![b] = {}]
  /\ UNCHANGED <<running, deinitializing, omni_allocations, dsa, refs,
                 acquisitions, call>>

\* _Omni_init raises an error: the module is not initialized, what it acquired
\* stays in the acquisitions list.
InitFail(b) ==
  /\ call[b].op = "idle"
  /\ initializing[b] # {}
  /\ initializing' = [initializing EXCEPT ![b] = {}]
  /\ UNCHANGED <<running, initialized_modules, deinitializing,
                 omni_allocations, dsa, refs, acquisitions, call>>

\* unload_module up to the call of _Omni_deinit
UnloadBegin(b, m) ==
  /\ b \in running /\ call[b].op = "idle"
  /\ initializing[b] = {} /\ deinitializing[b] = {}
  /\ m \in initialized_modules[b]
  /\ initialized_modules' = [initialized_modules EXCEPT ![b] = @ \ {m}]
  /\ deinitializing' = [deinitializing EXCEPT ![b] = {m}]
  /\ UNCHANGED <<running, initializing, omni_allocations, dsa, refs,
                 acquisitions, call>>

\* unload_module after _Omni_deinit: the acquisitions of the module are taken
\* off the list, their refcounters are left alone.
UnloadEnd(b) ==
  /\ call[b].op = "idle"
  /\ deinitializing[b] # {}
  /\ LET dropped == {r \in HeldBy(b) : r.key[1] \in deinitializing[b]}
     IN  /\ refs' = refs \ dropped
         /\ acquisitions' = acquisitions \ dropped
  /\ deinitializing' = [deinitializing EXCEPT ![b] = {}]
  /\ UNCHANGED <<running, initialized_modules, initializing,
                 omni_allocations, dsa, call>>

----------------------------------------------------------------------------
(* allocate_shmem, lookup_shmem, deallocate_shmem                          *)

\* find_or_allocate_shmem_dsa(HASH_ENTER) allocates before it locks
AllocateTentative(b, k) ==
  /\ Calling(b, k)
  /\ \E p \in Blocks \ dsa :
       /\ dsa' = dsa \cup {p}
       /\ call' = [call EXCEPT ![b] =
                     [op |-> "tentative", key |-> k, pointer |-> p]]
  /\ UNCHANGED <<modvars, omni_allocations, refs, acquisitions>>

\* A name that is too long or a size of 0 raises an error here; the chunk
\* stays allocated.
AllocateInvalid(b) ==
  /\ call[b].op = "tentative"
  /\ call' = [call EXCEPT ![b] = Idle]
  /\ UNCHANGED <<modvars, omni_allocations, dsa, refs, acquisitions>>

\* The locked section of HASH_ENTER.  When the entry was found the tentative
\* chunk is not used, and nothing frees it.
AllocateEnter(b) ==
  /\ call[b].op = "tentative"
  /\ LET k == call[b].key
         p == IF Found(k) THEN omni_allocations[k].pointer ELSE call[b].pointer
     IN  /\ omni_allocations[k].refcounter < MaxRefcounter
         /\ omni_allocations' =
              [omni_allocations EXCEPT ![k] =
                 [pointer |-> p, refcounter |-> @.refcounter + 1]]
         /\ \E i \in FreshIds :
              /\ refs' = refs \cup
                   {[id |-> i, backend |-> b, key |-> k, pointer |-> p]}
              /\ call' = [call EXCEPT ![b] =
                   [op |-> "granted", key |-> k, pointer |-> p, id |-> i,
                    tentative |-> call[b].pointer]]
  /\ UNCHANGED <<modvars, dsa, acquisitions>>

GrantedRef(b) == [id |-> call[b].id, backend |-> b, key |-> call[b].key,
                  pointer |-> call[b].pointer]

\* The init callback returns and find_or_allocate_shmem records the
\* acquisition.
AllocateReturn(b) ==
  /\ call[b].op = "granted"
  /\ acquisitions' = acquisitions \cup {GrantedRef(b)}
  /\ call' = [call EXCEPT ![b] = Idle]
  /\ UNCHANGED <<modvars, omni_allocations, dsa, refs>>

\* The init callback raises an error: counted, never recorded.
AllocateInitError(b) ==
  /\ call[b].op = "granted"
  /\ refs' = refs \ {GrantedRef(b)}
  /\ call' = [call EXCEPT ![b] = Idle]
  /\ UNCHANGED <<modvars, omni_allocations, dsa, acquisitions>>

\* Mutant: lookup_shmem forgets to count
LookupUncounted(b, k) ==
  /\ Calling(b, k)
  /\ Found(k)
  /\ \E i \in FreshIds :
       LET r == [id |-> i, backend |-> b, key |-> k,
                 pointer |-> omni_allocations[k].pointer]
       IN  /\ refs' = refs \cup {r}
           /\ acquisitions' = acquisitions \cup {r}
  /\ UNCHANGED <<modvars, omni_allocations, dsa, call>>

\* lookup_shmem: HASH_FIND has no callback, so finding and recording are one
\* step.
Lookup(b, k) ==
  /\ Calling(b, k)
  /\ Found(k)
  /\ omni_allocations[k].refcounter < MaxRefcounter
  /\ omni_allocations' =
       [omni_allocations EXCEPT ![k].refcounter = @ + 1]
  /\ \E i \in FreshIds :
       LET r == [id |-> i, backend |-> b, key |-> k,
                 pointer |-> omni_allocations[k].pointer]
       IN  /\ refs' = refs \cup {r}
           /\ acquisitions' = acquisitions \cup {r}
  /\ UNCHANGED <<modvars, dsa, call>>

\* Mutant: deallocate_shmem deletes the entry without looking at the refcounter
DeallocateAlways(b, k) ==
  /\ Calling(b, k)
  /\ \E r \in RefsOf(k) : r.backend = b /\ refs' = refs \ {r}
  /\ acquisitions' = {a \in acquisitions : ~(a.key = k /\ a.backend = b)}
  /\ omni_allocations' = [omni_allocations EXCEPT ![k] = NoEntry]
  /\ call' = [call EXCEPT ![b] = [op |-> "freeing", key |-> k,
                                  pointer |-> omni_allocations[k].pointer]]
  /\ UNCHANGED <<modvars, dsa>>

\* deallocate_shmem: the locked section of HASH_REMOVE gives up one reference
\* and deletes the entry at zero; then every acquisition of this key by this
\* backend is taken off the list.  A module deallocates only what it holds
\* (every caller pairs it with an allocation).
Deallocate(b, k) ==
  /\ Calling(b, k)
  /\ \E r \in RefsOf(k) : r.backend = b /\ refs' = refs \ {r}
  /\ acquisitions' = {a \in acquisitions : ~(a.key = k /\ a.backend = b)}
  /\ IF omni_allocations[k].refcounter - 1 = 0
     THEN /\ omni_allocations' = [omni_allocations EXCEPT ![k] = NoEntry]
          /\ call' = [call EXCEPT ![b] =
               [op |-> "freeing", key |-> k,
                pointer |-> omni_allocations[k].pointer]]
     ELSE /\ omni_allocations' =
               [omni_allocations EXCEPT ![k].refcounter = @ - 1]
          /\ UNCHANGED call
  /\ UNCHANGED <<modvars, dsa>>

\* Mutant: deallocate_shmem frees before it deletes: it looks the chunk up again
\* by key after the lock was released
DeallocateFreeEntry(b) ==
  /\ call[b].op = "freeing"
  /\ dsa' = dsa \ {call[b].pointer, omni_allocations[call[b].key].pointer}
  /\ call' = [call EXCEPT ![b] = Idle]
  /\ UNCHANGED <<modvars, omni_allocations, refs, acquisitions>>

\* the dsa_free at the end of deallocate_shmem
DeallocateFree(b) ==
  /\ call[b].op = "freeing"
  /\ dsa' = dsa \ {call[b].pointer}
  /\ call' = [call EXCEPT ![b] = Idle]
  /\ UNCHANGED <<modvars, omni_allocations, refs, acquisitions>>

----------------------------------------------------------------------------
(* Exit                                                                    *)

\* What the backend leaves behind in every kind of exit.
Gone(b) ==
  /\ running' = running \ {b}
  /\ initialized_modules' = [initialized_modules EXCEPT ![b] = {}]
  /\ initializing' = [initializing EXCEPT ![b] = {}]
  /\ deinitializing' = [deinitializing EXCEPT ![b] = {}]
  /\ refs' = refs \ HeldBy(b)
  /\ acquisitions' = acquisitions \ HeldBy(b)
  /\ call' = [call EXCEPT ![b] = Idle]

\* Acquisitions that deinitialize_backend visits
Visited(b) == {a \in acquisitions :
                 a.backend = b /\ a.key[1] \in initialized_modules[b]}

\* deinitialize_backend: one decrement per visited acquisition whose key is
\* found in the table.  The key was copied with strncpy into palloc'ed memory
\* without its last byte, and the table compares all bytes of a key, so any
\* of the visited acquisitions may go unfound.  Entries are never deleted.
BackendExit(b) ==
  /\ b \in running /\ call[b].op = "idle"
  /\ initializing[b] = {} /\ deinitializing[b] = {}
  /\ \E found \in SUBSET Visited(b) :
       omni_allocations' =
         [k \in Keys |->
            [omni_allocations[k] EXCEPT
               !.refcounter = @ - Cardinality({a \in found : a.key = k})]]
  /\ Gone(b)
  /\ UNCHANGED dsa

\* deinitialize_backend with code 1 (FATAL) returns at once.
BackendFatal(b) ==
  /\ b \in running /\ call[b].op # "freeing"
  /\ Gone(b)
  /\ UNCHANGED <<omni_allocations, dsa>>

\* A backend crashes: the postmaster restarts everyone on fresh memory.
Crash ==
  /\ running # {}
  /\ running' = {}
  /\ initialized_modules' = [b \in Backends |-> {}]
  /\ initializing' = [b \in Backends |-> {}]
  /\ deinitializing' = [b \in Backends |-> {}]
  /\ omni_allocations' = [k \in Keys |-> NoEntry]
  /\ dsa' = {}
  /\ refs' = {}
  /\ acquisitions' = {}
  /\ call' = [b \in Backends |-> Idle]

----------------------------------------------------------------------------
Next ==
  \/ \E b \in Backends :
       \/ BackendStart(b)
       \/ \E m \in Modules : InitBegin(b, m) \/ UnloadBegin(b, m)
       \/ InitEnd(b)
       \/ InitFail(b)
       \/ UnloadEnd(b)
       \/ \E k \in Keys :
            AllocateTentative(b, k) \/ Lookup(b, k) \/ Deallocate(b, k)
       \/ AllocateInvalid(b)
       \/ AllocateEnter(b)
       \/ AllocateReturn(b)
       \/ AllocateInitError(b)
       \/ DeallocateFree(b)
       \/ BackendExit(b)
       \/ BackendFatal(b)
  \/ Crash

Spec == Init /\ [][Next]_vars

----------------------------------------------------------------------------
(* Properties                                                              *)

\* The state keeps its shape; in particular the unsigned refcounter is never
\* taken below zero by deallocate_shmem or deinitialize_backend.
TypeOK ==
  /\ running \subseteq Backends
  /\ initialized_modules \in [Backends -> SUBSET Modules]
  /\ initializing \in [Backends -> SUBSET Modules]
  /\ deinitializing \in [Backends -> SUBSET Modules]
  /\ omni_allocations \in [Keys -> Entry]
  /\ dsa \subseteq Blocks
  /\ refs \subseteq Ref
  /\ acquisitions \subseteq refs
  /\ call \in [Backends -> Call]

\* Every reference a backend still holds is counted: the refcounter of an
\* entry never drops below the number of references to it, whatever was
\* unloaded, lost to an error or given back twice over at exit.
RefcounterCovers ==
  \A k \in Keys : Cardinality(RefsOf(k)) <= omni_allocations[k].refcounter

\* Memory handed out by allocate_shmem or lookup_shmem stays allocated, and
\* stays what the name stands for, as long as the reference is held: nobody's
\* deallocate_shmem frees it under another backend, and two backends that
\* hold the same name hold the same memory.
NoDanglingReference ==
  \A r \in refs : r.pointer \in dsa /\ omni_allocations[r.key].pointer = r.pointer

\* A chunk belongs to at most one entry of the table or one call in progress:
\* the chunk deallocate_shmem frees after it released the lock is not one that
\* another backend has meanwhile entered under the same or another name.
ChunkOwnership ==
  /\ \A k \in Keys : Found(k) => omni_allocations[k].pointer \in dsa
  /\ \A k1, k2 \in Keys :
       Found(k1) /\ omni_allocations[k1].pointer = omni_allocations[k2].pointer
         => k1 = k2
  /\ \A b \in Backends : call[b].op \in {"tentative", "freeing"} =>
       /\ call[b].pointer \in dsa
       /\ \A k \in Keys : omni_allocations[k].pointer # call[b].pointer
  /\ \A b1, b2 \in Backends :
       /\ call[b1].op \in {"tentative", "freeing"}
       /\ call[b2].op \in {"tentative", "freeing"}
       /\ call[b1].pointer = call[b2].pointer
       => b1 = b2
============================================================================
