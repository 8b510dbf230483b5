------------------------- MODULE OmniLoaderProofs --------------------------
(***************************************************************************)
(* Proofs about the omni loader: its shared memory (OmniShmem), the modules *)
(* that backends load (OmniModules) and their hooks (OmniHooks), for any    *)
(* number of backends, modules, names, blocks, extensions and hook types.   *)
(***************************************************************************)
EXTENDS OmniShmem, MCOmniModules, MCOmniHooks,
        FiniteSetTheorems, SequenceTheorems, WellFoundedInduction, TLAPS

\* What a call between its locked section and its return has been granted:
\* a counted reference that is not on the acquisitions list yet.
GrantedTracked ==
  \A b \in Backends : call[b].op = "granted" =>
    GrantedRef(b) \in refs \ acquisitions

\* The inductive invariant.  RefcounterCovers is what keeps an entry alive,
\* ChunkOwnership what keeps its chunk from being freed by a late dsa_free.
IndInv ==
  /\ TypeOK
  /\ IsFiniteSet(refs)
  /\ RefcounterCovers
  /\ NoDanglingReference
  /\ ChunkOwnership
  /\ GrantedTracked

\* The module bookkeeping part of the type invariant.
ModulesTypeOK ==
  /\ running \subseteq Backends
  /\ initialized_modules \in [Backends -> SUBSET Modules]
  /\ initializing \in [Backends -> SUBSET Modules]
  /\ deinitializing \in [Backends -> SUBSET Modules]

----------------------------------------------------------------------------
(* Counting references                                                     *)

\* The references to one key are finitely many when all references are.
LEMMA RefsOfFinite ==
  ASSUME IsFiniteSet(refs), NEW k \in Keys
  PROVE  IsFiniteSet(RefsOf(k)) /\ Cardinality(RefsOf(k)) \in Nat
<1>1. RefsOf(k) \in SUBSET refs  BY DEF RefsOf
<1> QED  BY <1>1, FS_Subset, FS_CardinalityType

\* Taking a new reference to a key counts once, and for that key only.
LEMMA AddRef ==
  ASSUME IsFiniteSet(refs), NEW r, r \notin refs, refs' = refs \cup {r},
         r.key \in Keys
  PROVE  /\ IsFiniteSet(refs')
         /\ Cardinality(RefsOf(r.key)') = Cardinality(RefsOf(r.key)) + 1
         /\ \A k \in Keys : k # r.key => RefsOf(k)' = RefsOf(k)
<1>1. RefsOf(r.key)' = RefsOf(r.key) \cup {r}  BY DEF RefsOf
<1>2. r \notin RefsOf(r.key)  BY DEF RefsOf
<1>3. IsFiniteSet(refs')  BY FS_AddElement
<1>4. Cardinality(RefsOf(r.key)') = Cardinality(RefsOf(r.key)) + 1
  BY <1>1, <1>2, RefsOfFinite, FS_AddElement
<1>5. \A k \in Keys : k # r.key => RefsOf(k)' = RefsOf(k)  BY DEF RefsOf
<1> QED  BY <1>3, <1>4, <1>5

\* Giving up a reference to a key counts once, and for that key only.
LEMMA DropRef ==
  ASSUME IsFiniteSet(refs), NEW r \in refs, refs' = refs \ {r},
         r.key \in Keys
  PROVE  /\ IsFiniteSet(refs')
         /\ Cardinality(RefsOf(r.key)') = Cardinality(RefsOf(r.key)) - 1
         /\ \A k \in Keys : k # r.key => RefsOf(k)' = RefsOf(k)
<1>1. RefsOf(r.key)' = RefsOf(r.key) \ {r}  BY DEF RefsOf
<1>2. r \in RefsOf(r.key)  BY DEF RefsOf
<1>3. IsFiniteSet(refs')  BY FS_RemoveElement
<1>4. Cardinality(RefsOf(r.key)') = Cardinality(RefsOf(r.key)) - 1
  BY <1>1, <1>2, RefsOfFinite, FS_RemoveElement
<1>5. \A k \in Keys : k # r.key => RefsOf(k)' = RefsOf(k)  BY DEF RefsOf
<1> QED  BY <1>3, <1>4, <1>5

\* Forgetting references never raises a count.
LEMMA FewerRefs ==
  ASSUME IsFiniteSet(refs), refs' \subseteq refs
  PROVE  /\ IsFiniteSet(refs')
         /\ \A k \in Keys : Cardinality(RefsOf(k)') <= Cardinality(RefsOf(k))
<1>1. IsFiniteSet(refs')  BY FS_Subset
<1>2. ASSUME NEW k \in Keys
      PROVE  Cardinality(RefsOf(k)') <= Cardinality(RefsOf(k))
  <2>1. RefsOf(k)' \in SUBSET RefsOf(k)  BY DEF RefsOf
  <2> QED  BY <2>1, RefsOfFinite, FS_Subset
<1> QED  BY <1>1, <1>2

\* A backend that goes away takes at least the references it gives back with
\* it, whichever of them deinitialize_backend finds.
LEMMA ExitRefs ==
  ASSUME IsFiniteSet(refs), NEW b, refs' = refs \ HeldBy(b),
         NEW found \in SUBSET HeldBy(b), NEW k \in Keys
  PROVE  LET given == Cardinality({a \in found : a.key = k})
         IN  given \in Nat /\ Cardinality(RefsOf(k)') + given <= Cardinality(RefsOf(k))
<1> DEFINE F == {a \in found : a.key = k}
<1>1. F \in SUBSET RefsOf(k) /\ RefsOf(k)' \in SUBSET RefsOf(k)
  BY DEF RefsOf, HeldBy
<1>2. RefsOf(k)' \cap F = {}  BY DEF RefsOf, HeldBy
<1>3. IsFiniteSet(F) /\ IsFiniteSet(RefsOf(k)')
  BY <1>1, RefsOfFinite, FS_Subset
<1>4. Cardinality(RefsOf(k)' \cup F) = Cardinality(RefsOf(k)') + Cardinality(F)
  <2>1. Cardinality(RefsOf(k)' \cup F)
          = Cardinality(RefsOf(k)') + Cardinality(F) - Cardinality(RefsOf(k)' \cap F)
    BY <1>3, FS_Union
  <2>2. Cardinality(RefsOf(k)' \cap F) = 0  BY <1>2, FS_EmptySet
  <2> HIDE DEF F
  <2> QED  BY <2>1, <2>2, <1>3, FS_CardinalityType
<1>5. Cardinality(RefsOf(k)' \cup F) <= Cardinality(RefsOf(k))
  <2>1. RefsOf(k)' \cup F \in SUBSET RefsOf(k)  BY <1>1
  <2> HIDE DEF F
  <2> QED  BY <2>1, RefsOfFinite, FS_Subset
<1>6. Cardinality(F) \in Nat  BY <1>3, FS_CardinalityType
<1> QED  BY <1>4, <1>5, <1>6

----------------------------------------------------------------------------
(* The invariant is inductive                                              *)

\* The invariant holds before any backend has started.
LEMMA InitInv == Init => IndInv
<1> SUFFICES ASSUME Init PROVE IndInv  OBVIOUS
<1>1. TypeOK  BY DEF Init, TypeOK, Entry, NoEntry, Call, Idle
<1>2. IsFiniteSet(refs)  BY FS_EmptySet DEF Init
<1>3. RefcounterCovers
  <2>1. \A k \in Keys : RefsOf(k) = {} /\ omni_allocations[k].refcounter = 0
    BY DEF Init, RefsOf, NoEntry
  <2> QED  BY <2>1, FS_EmptySet DEF RefcounterCovers
<1>4. NoDanglingReference /\ ChunkOwnership /\ GrantedTracked
  BY DEF Init, NoDanglingReference, ChunkOwnership, GrantedTracked, Found,
         NoEntry, Idle
<1> QED  BY <1>1, <1>2, <1>3, <1>4 DEF IndInv

\* Steps that only touch the bookkeeping of modules.
LEMMA BookkeepingInv ==
  ASSUME IndInv, ModulesTypeOK',
         UNCHANGED <<omni_allocations, dsa, refs, acquisitions, call>>
  PROVE  IndInv'
<1>1. TypeOK'  BY DEF IndInv, TypeOK, ModulesTypeOK
<1>2. IsFiniteSet(refs')  BY DEF IndInv
<1>3. RefcounterCovers'  BY DEF IndInv, RefcounterCovers, RefsOf
<1>4. NoDanglingReference'  BY DEF IndInv, NoDanglingReference
<1>5. ChunkOwnership'  BY DEF IndInv, ChunkOwnership, Found
<1>6. GrantedTracked'  BY DEF IndInv, GrantedTracked, GrantedRef
<1> QED  BY <1>1, <1>2, <1>3, <1>4, <1>5, <1>6 DEF IndInv

\* A chunk fresh from the DSA belongs to nobody else.
LEMMA AllocateTentativeInv ==
  ASSUME IndInv, NEW b \in Backends, NEW k \in Keys, AllocateTentative(b, k)
  PROVE  IndInv'
<1> PICK p \in Blocks \ dsa :
      /\ dsa' = dsa \cup {p}
      /\ call' = [call EXCEPT ![b] =
                    [op |-> "tentative", key |-> k, pointer |-> p]]
  BY DEF AllocateTentative
<1> UNCHANGED <<modvars, omni_allocations, refs, acquisitions>>
  BY DEF AllocateTentative
<1> TypeOK  BY DEF IndInv
<1>1. TypeOK'  BY DEF TypeOK, Call, modvars
<1>2. IsFiniteSet(refs')  BY DEF IndInv
<1>3. RefcounterCovers'  BY DEF IndInv, RefcounterCovers, RefsOf
<1>4. NoDanglingReference'  BY DEF IndInv, NoDanglingReference
<1>5. ChunkOwnership'
  <2>1. \A k2 \in Keys : omni_allocations[k2].pointer # p
    BY NoBlockAssumption DEF IndInv, ChunkOwnership, Found
  <2>2. \A c \in Backends : call[c].op \in {"tentative", "freeing"} =>
          call[c].pointer # p
    BY DEF IndInv, ChunkOwnership
  <2> QED  BY <2>1, <2>2 DEF IndInv, ChunkOwnership, Found, TypeOK
<1>6. GrantedTracked'  BY DEF IndInv, GrantedTracked, GrantedRef, TypeOK
<1> QED  BY <1>1, <1>2, <1>3, <1>4, <1>5, <1>6 DEF IndInv

\* A call that raises an error only forgets what it had allocated.
LEMMA AllocateInvalidInv ==
  ASSUME IndInv, NEW b \in Backends, AllocateInvalid(b)
  PROVE  IndInv'
<1> call' = [call EXCEPT ![b] = Idle] /\
    UNCHANGED <<modvars, omni_allocations, dsa, refs, acquisitions>>
  BY DEF AllocateInvalid
<1> TypeOK  BY DEF IndInv
<1>1. TypeOK'  BY DEF TypeOK, Call, Idle, modvars
<1>2. IsFiniteSet(refs')  BY DEF IndInv
<1>3. RefcounterCovers'  BY DEF IndInv, RefcounterCovers, RefsOf
<1>4. NoDanglingReference'  BY DEF IndInv, NoDanglingReference
<1>5. ChunkOwnership'  BY DEF IndInv, ChunkOwnership, Found, TypeOK, Idle
<1>6. GrantedTracked'  BY DEF IndInv, GrantedTracked, GrantedRef, TypeOK, Idle
<1> QED  BY <1>1, <1>2, <1>3, <1>4, <1>5, <1>6 DEF IndInv

\* The locked section of allocate_shmem counts the reference it creates, and
\* gives the tentative chunk to the entry only when there was none.
LEMMA AllocateEnterInv ==
  ASSUME IndInv, NEW b \in Backends, AllocateEnter(b)
  PROVE  IndInv'
<1> TypeOK  BY DEF IndInv
<1> PICK k \in Keys : k = call[b].key
  BY DEF AllocateEnter, TypeOK, Call
<1>a. call[b].op = "tentative" /\ call[b].pointer \in Blocks
  BY DEF AllocateEnter, TypeOK, Call
<1> PICK p \in Blocks :
      p = IF Found(k) THEN omni_allocations[k].pointer ELSE call[b].pointer
  BY <1>a DEF TypeOK, Entry, Found
<1>b. p \in dsa
  BY <1>a DEF IndInv, ChunkOwnership, Found
<1>c. omni_allocations' = [omni_allocations EXCEPT ![k] =
                 [pointer |-> p, refcounter |-> @.refcounter + 1]]
  BY DEF AllocateEnter
<1> PICK i \in FreshIds :
      /\ refs' = refs \cup
           {[id |-> i, backend |-> b, key |-> k, pointer |-> p]}
      /\ call' = [call EXCEPT ![b] =
           [op |-> "granted", key |-> k, pointer |-> p, id |-> i,
            tentative |-> call[b].pointer]]
  BY DEF AllocateEnter
<1> DEFINE r == [id |-> i, backend |-> b, key |-> k, pointer |-> p]
<1>d. UNCHANGED <<modvars, dsa, acquisitions>>  BY DEF AllocateEnter
<1>e. r \notin refs /\ i \in RefIds  BY DEF FreshIds
<1>f. omni_allocations[k].refcounter \in Nat  BY <1>a DEF TypeOK, Entry
<1>g. /\ IsFiniteSet(refs')
      /\ Cardinality(RefsOf(k)') = Cardinality(RefsOf(k)) + 1
      /\ \A k2 \in Keys : k2 # k => RefsOf(k2)' = RefsOf(k2)
  <2>1. r.key = k /\ refs' = refs \cup {r}  OBVIOUS
  <2> HIDE DEF r
  <2> QED  BY <2>1, <1>a, <1>e, AddRef DEF IndInv
<1>1. TypeOK'
  <2>1. omni_allocations' \in [Keys -> Entry]
    BY <1>a, <1>b, <1>c, <1>f DEF TypeOK, Entry
  <2>2. refs' \subseteq Ref /\ acquisitions' \subseteq refs'
    BY <1>a, <1>b, <1>d, <1>e DEF TypeOK, Ref
  <2>3. call' \in [Backends -> Call]
    BY <1>a, <1>b, <1>e DEF TypeOK, Call
  <2> QED  BY <2>1, <2>2, <2>3, <1>d DEF TypeOK, modvars
<1>3. RefcounterCovers'
  <2>1. Cardinality(RefsOf(k)) \in Nat  BY <1>a, RefsOfFinite DEF IndInv
  <2>2. ASSUME NEW k2 \in Keys
        PROVE  Cardinality(RefsOf(k2)') <= omni_allocations'[k2].refcounter
    <3>1. CASE k2 = k
      <4>1. omni_allocations'[k].refcounter = omni_allocations[k].refcounter + 1
        BY <1>a, <1>c DEF TypeOK
      <4>2. Cardinality(RefsOf(k)) <= omni_allocations[k].refcounter
        BY <1>a DEF IndInv, RefcounterCovers
      <4> QED  BY <4>1, <4>2, <3>1, <2>1, <1>f, <1>g
    <3>2. CASE k2 # k
      BY <3>2, <1>c, <1>g DEF IndInv, RefcounterCovers, TypeOK
    <3> QED  BY <3>1, <3>2
  <2> QED  BY <2>2 DEF RefcounterCovers
<1>4. NoDanglingReference'
  <2>1. \A q \in refs : omni_allocations'[q.key].pointer = q.pointer
    <3> SUFFICES ASSUME NEW q \in refs
                 PROVE  omni_allocations'[q.key].pointer = q.pointer
      OBVIOUS
    <3>1. q.key \in Keys /\ q.pointer \in Blocks
      BY DEF TypeOK, Ref
    <3>2. omni_allocations[q.key].pointer = q.pointer
      BY DEF IndInv, NoDanglingReference
    <3>3. q.key = k => p = q.pointer
      BY <3>1, <3>2, NoBlockAssumption DEF Found
    <3> QED  BY <3>1, <3>2, <3>3, <1>a, <1>c DEF TypeOK
  <2>2. omni_allocations'[k].pointer = p  BY <1>a, <1>c DEF TypeOK
  <2> QED  BY <2>1, <2>2, <1>b, <1>d DEF IndInv, NoDanglingReference
<1>5. ChunkOwnership'
  <2>1. \A k2 \in Keys : k2 # k => omni_allocations'[k2] = omni_allocations[k2]
    BY <1>c DEF TypeOK
  <2>2. omni_allocations'[k].pointer = p  BY <1>a, <1>c DEF TypeOK
  <2>3. \A c \in Backends : c # b => call'[c] = call[c]  BY DEF TypeOK
  <2>4. call'[b].op = "granted"  BY DEF TypeOK
  <2>5. \A k2 \in Keys : k2 # k => omni_allocations[k2].pointer # p
    BY <1>a, <1>b, NoBlockAssumption DEF IndInv, ChunkOwnership, Found
  <2>6. \A c \in Backends :
          c # b /\ call[c].op \in {"tentative", "freeing"} => call[c].pointer # p
    BY <1>a DEF IndInv, ChunkOwnership, Found
  <2> QED
    BY <2>1, <2>2, <2>3, <2>4, <2>5, <2>6, <1>a, <1>b, <1>d
    DEF IndInv, ChunkOwnership, Found
<1>6. GrantedTracked'
  <2>1. call'[b].op = "granted" /\ GrantedRef(b)' = r
    BY DEF TypeOK, GrantedRef
  <2>2. r \in refs' \ acquisitions'  BY <1>d, <1>e DEF TypeOK
  <2>3. \A c \in Backends : c # b => call'[c] = call[c]  BY DEF TypeOK
  <2> HIDE DEF r
  <2> QED  BY <2>1, <2>2, <2>3, <1>d DEF IndInv, GrantedTracked, GrantedRef
<1> QED  BY <1>1, <1>g, <1>3, <1>4, <1>5, <1>6 DEF IndInv

\* Recording the acquisition moves no reference.
LEMMA AllocateReturnInv ==
  ASSUME IndInv, NEW b \in Backends, AllocateReturn(b)
  PROVE  IndInv'
<1> /\ call[b].op = "granted"
    /\ acquisitions' = acquisitions \cup {GrantedRef(b)}
    /\ call' = [call EXCEPT ![b] = Idle]
    /\ UNCHANGED <<modvars, omni_allocations, dsa, refs>>
  BY DEF AllocateReturn
<1> TypeOK  BY DEF IndInv
<1>a. GrantedRef(b) \in refs  BY DEF IndInv, GrantedTracked
<1>1. TypeOK'  BY <1>a DEF TypeOK, Call, Idle, modvars
<1>2. IsFiniteSet(refs')  BY DEF IndInv
<1>3. RefcounterCovers'  BY DEF IndInv, RefcounterCovers, RefsOf
<1>4. NoDanglingReference'  BY DEF IndInv, NoDanglingReference
<1>5. ChunkOwnership'  BY DEF IndInv, ChunkOwnership, Found, TypeOK, Idle
<1>6. GrantedTracked'
  <2> SUFFICES ASSUME NEW c \in Backends, call'[c].op = "granted"
               PROVE  GrantedRef(c)' \in refs' \ acquisitions'
    BY DEF GrantedTracked
  <2>1. c # b /\ call'[c] = call[c]  BY DEF TypeOK, Idle
  <2>2. GrantedRef(c)' = GrantedRef(c)  BY <2>1 DEF GrantedRef
  <2>3. GrantedRef(c) # GrantedRef(b)  BY <2>1 DEF GrantedRef
  <2> QED  BY <2>1, <2>2, <2>3 DEF IndInv, GrantedTracked
<1> QED  BY <1>1, <1>2, <1>3, <1>4, <1>5, <1>6 DEF IndInv

\* An error in the init callback forgets a reference that stays counted.
LEMMA AllocateInitErrorInv ==
  ASSUME IndInv, NEW b \in Backends, AllocateInitError(b)
  PROVE  IndInv'
<1> /\ call[b].op = "granted"
    /\ refs' = refs \ {GrantedRef(b)}
    /\ call' = [call EXCEPT ![b] = Idle]
    /\ UNCHANGED <<modvars, omni_allocations, dsa, acquisitions>>
  BY DEF AllocateInitError
<1> TypeOK  BY DEF IndInv
<1>a. GrantedRef(b) \notin acquisitions  BY DEF IndInv, GrantedTracked
<1>1. TypeOK'  BY <1>a DEF TypeOK, Call, Idle, modvars
<1>2. /\ IsFiniteSet(refs')
      /\ \A k \in Keys : Cardinality(RefsOf(k)') <= Cardinality(RefsOf(k))
      /\ \A k \in Keys : Cardinality(RefsOf(k)') \in Nat
                           /\ Cardinality(RefsOf(k)) \in Nat
  <2>1. refs' \subseteq refs  OBVIOUS
  <2>2. /\ IsFiniteSet(refs')
        /\ \A k \in Keys : Cardinality(RefsOf(k)') <= Cardinality(RefsOf(k))
    BY <2>1, FewerRefs DEF IndInv
  <2>3. \A k \in Keys : RefsOf(k)' \in SUBSET refs' /\ RefsOf(k) \in SUBSET refs
    BY DEF RefsOf
  <2> QED  BY <2>2, <2>3, FS_Subset, FS_CardinalityType DEF IndInv
<1>3. RefcounterCovers'
  BY <1>2 DEF IndInv, RefcounterCovers, TypeOK, Entry
<1>4. NoDanglingReference'  BY DEF IndInv, NoDanglingReference
<1>5. ChunkOwnership'  BY DEF IndInv, ChunkOwnership, Found, TypeOK, Idle
<1>6. GrantedTracked'
  <2> SUFFICES ASSUME NEW c \in Backends, call'[c].op = "granted"
               PROVE  GrantedRef(c)' \in refs' \ acquisitions'
    BY DEF GrantedTracked
  <2>1. c # b /\ call'[c] = call[c]  BY DEF TypeOK, Idle
  <2>2. GrantedRef(c)' = GrantedRef(c)  BY <2>1 DEF GrantedRef
  <2>3. GrantedRef(c) # GrantedRef(b)  BY <2>1 DEF GrantedRef
  <2> QED  BY <2>1, <2>2, <2>3 DEF IndInv, GrantedTracked
<1> QED  BY <1>1, <1>2, <1>3, <1>4, <1>5, <1>6 DEF IndInv

\* lookup_shmem counts the reference it creates.
LEMMA LookupInv ==
  ASSUME IndInv, NEW b \in Backends, NEW k \in Keys, Lookup(b, k)
  PROVE  IndInv'
<1> TypeOK  BY DEF IndInv
<1>a. /\ Found(k)
      /\ omni_allocations' = [omni_allocations EXCEPT ![k].refcounter = @ + 1]
      /\ UNCHANGED <<modvars, dsa, call>>
  BY DEF Lookup
<1> PICK p \in Blocks : p = omni_allocations[k].pointer
  BY <1>a DEF TypeOK, Entry, Found
<1> PICK i \in FreshIds :
      LET r == [id |-> i, backend |-> b, key |-> k, pointer |-> p]
      IN  /\ refs' = refs \cup {r}
          /\ acquisitions' = acquisitions \cup {r}
  BY DEF Lookup
<1> DEFINE r == [id |-> i, backend |-> b, key |-> k, pointer |-> p]
<1>b. r \notin refs /\ r \in Ref  BY DEF FreshIds, Ref
<1>c. omni_allocations[k].refcounter \in Nat  BY DEF TypeOK, Entry
<1>d. /\ omni_allocations'[k].pointer = p
      /\ omni_allocations'[k].refcounter = omni_allocations[k].refcounter + 1
      /\ \A k2 \in Keys : k2 # k => omni_allocations'[k2] = omni_allocations[k2]
      /\ \A k2 \in Keys : omni_allocations'[k2].pointer = omni_allocations[k2].pointer
  BY <1>a DEF TypeOK, Entry
<1>e. /\ IsFiniteSet(refs')
      /\ Cardinality(RefsOf(k)') = Cardinality(RefsOf(k)) + 1
      /\ \A k2 \in Keys : k2 # k => RefsOf(k2)' = RefsOf(k2)
  <2>1. r.key = k /\ refs' = refs \cup {r}  OBVIOUS
  <2> HIDE DEF r
  <2> QED  BY <2>1, <1>b, AddRef DEF IndInv
<1>1. TypeOK'
  <2>1. omni_allocations' \in [Keys -> Entry]
    BY <1>a, <1>c DEF TypeOK, Entry
  <2>2. refs' \subseteq Ref /\ acquisitions' \subseteq refs'
    BY <1>b DEF TypeOK
  <2> QED  BY <2>1, <2>2, <1>a DEF TypeOK, modvars
<1>3. RefcounterCovers'
  <2>1. Cardinality(RefsOf(k)) \in Nat  BY RefsOfFinite DEF IndInv
  <2>2. Cardinality(RefsOf(k)) <= omni_allocations[k].refcounter
    BY DEF IndInv, RefcounterCovers
  <2>3. Cardinality(RefsOf(k)') <= omni_allocations'[k].refcounter
    BY <2>1, <2>2, <1>c, <1>d, <1>e
  <2>4. \A k2 \in Keys : k2 # k =>
          Cardinality(RefsOf(k2)') <= omni_allocations'[k2].refcounter
    BY <1>d, <1>e DEF IndInv, RefcounterCovers
  <2> QED  BY <2>3, <2>4 DEF RefcounterCovers
<1>4. NoDanglingReference'
  <2>1. p \in dsa  BY <1>a DEF IndInv, ChunkOwnership
  <2>2. \A q \in refs : q.key \in Keys  BY DEF TypeOK, Ref
  <2> QED  BY <2>1, <2>2, <1>a, <1>d DEF IndInv, NoDanglingReference
<1>5. ChunkOwnership'
  BY <1>a, <1>d DEF IndInv, ChunkOwnership, Found
<1>6. GrantedTracked'
  <2>1. call[b].op # "granted"  BY DEF Lookup, Calling
  <2>2. \A c \in Backends : GrantedRef(c)' = GrantedRef(c)
    BY <1>a DEF GrantedRef
  <2>3. \A c \in Backends : c # b => GrantedRef(c) # r  BY DEF GrantedRef
  <2> QED  BY <2>1, <2>2, <2>3, <1>a DEF IndInv, GrantedTracked
<1> QED  BY <1>1, <1>e, <1>3, <1>4, <1>5, <1>6 DEF IndInv

\* deallocate_shmem deletes the entry only when the reference it gives up was
\* the last one.
LEMMA DeallocateInv ==
  ASSUME IndInv, NEW b \in Backends, NEW k \in Keys, Deallocate(b, k)
  PROVE  IndInv'
<1> TypeOK  BY DEF IndInv
<1> PICK r \in RefsOf(k) : r.backend = b /\ refs' = refs \ {r}
  BY DEF Deallocate
<1>a. r \in refs /\ r.key = k /\ r \in Ref  BY DEF RefsOf, TypeOK
<1>b. /\ acquisitions' = {a \in acquisitions : ~(a.key = k /\ a.backend = b)}
      /\ UNCHANGED <<modvars, dsa>>
      /\ call[b].op = "idle"
  BY DEF Deallocate, Calling
<1>c. omni_allocations[k].refcounter \in Nat  BY DEF TypeOK, Entry
<1>d. /\ IsFiniteSet(refs')
      /\ Cardinality(RefsOf(k)') = Cardinality(RefsOf(k)) - 1
      /\ \A k2 \in Keys : k2 # k => RefsOf(k2)' = RefsOf(k2)
  BY <1>a, DropRef DEF IndInv
<1>e. Cardinality(RefsOf(k)) \in Nat /\ Cardinality(RefsOf(k)) # 0
  BY RefsOfFinite, FS_EmptySet DEF IndInv
<1>f. Cardinality(RefsOf(k)) <= omni_allocations[k].refcounter
  BY DEF IndInv, RefcounterCovers
<1>g. PICK p \in Blocks : p = omni_allocations[k].pointer /\ p \in dsa
  BY <1>a DEF IndInv, NoDanglingReference, Ref
<1>h. refs' \subseteq Ref /\ acquisitions' \subseteq refs'
  BY <1>a, <1>b DEF TypeOK
<1>i. \A c \in Backends : c # b => GrantedRef(c) # r
  BY DEF GrantedRef
<1>1. CASE omni_allocations[k].refcounter - 1 = 0
  <2>a. /\ omni_allocations' = [omni_allocations EXCEPT ![k] = NoEntry]
        /\ call' = [call EXCEPT ![b] =
             [op |-> "freeing", key |-> k, pointer |-> p]]
    BY <1>1, <1>g DEF Deallocate
  <2>b. /\ omni_allocations'[k] = NoEntry
        /\ \A k2 \in Keys : k2 # k => omni_allocations'[k2] = omni_allocations[k2]
    BY <2>a DEF TypeOK
  <2>c. RefsOf(k)' = {}
    <3>1. Cardinality(RefsOf(k)') = 0  BY <1>1, <1>c, <1>d, <1>e, <1>f
    <3>2. RefsOf(k)' \in SUBSET refs'  BY DEF RefsOf
    <3> QED  BY <3>1, <3>2, <1>d, FS_Subset, FS_EmptySet
  <2>1. TypeOK'
    <3>1. omni_allocations' \in [Keys -> Entry]
      BY <2>a DEF TypeOK, Entry, NoEntry
    <3>2. call' \in [Backends -> Call]  BY <2>a DEF TypeOK, Call
    <3> QED  BY <3>1, <3>2, <1>b, <1>h DEF TypeOK, modvars
  <2>3. RefcounterCovers'
    <3>1. Cardinality(RefsOf(k)') <= omni_allocations'[k].refcounter
      BY <2>b, <2>c, FS_EmptySet DEF NoEntry
    <3>2. \A k2 \in Keys : k2 # k =>
            Cardinality(RefsOf(k2)') <= omni_allocations'[k2].refcounter
      BY <2>b, <1>d DEF IndInv, RefcounterCovers
    <3> QED  BY <3>1, <3>2 DEF RefcounterCovers
  <2>4. NoDanglingReference'
    <3> SUFFICES ASSUME NEW q \in refs'
                 PROVE  q.pointer \in dsa'
                        /\ omni_allocations'[q.key].pointer = q.pointer
      BY DEF NoDanglingReference
    <3>1. q \in refs /\ q.key \in Keys  BY <1>h DEF TypeOK, Ref
    <3>2. q.key # k  BY <2>c DEF RefsOf
    <3> QED  BY <3>1, <3>2, <2>b, <1>b DEF IndInv, NoDanglingReference
  <2>5. ChunkOwnership'
    <3>1. \A k2 \in Keys : k2 # k => omni_allocations[k2].pointer # p
      BY <1>g, NoBlockAssumption DEF IndInv, ChunkOwnership, Found
    <3>2. \A c \in Backends : call[c].op \in {"tentative", "freeing"} =>
            call[c].pointer # p
      BY <1>g DEF IndInv, ChunkOwnership
    <3>3. call'[b].op = "freeing" /\ call'[b].pointer = p  BY <2>a DEF TypeOK
    <3>4. \A c \in Backends : c # b => call'[c] = call[c]  BY <2>a DEF TypeOK
    <3>5. omni_allocations'[k].pointer = NoBlock  BY <2>b DEF NoEntry
    <3>6. \A c \in Backends : call[c].op \in {"tentative", "freeing"} =>
            call[c].pointer # NoBlock
      BY NoBlockAssumption DEF IndInv, ChunkOwnership, TypeOK
    <3> QED
      BY <3>1, <3>2, <3>3, <3>4, <3>5, <3>6, <2>b, <1>b, <1>g, NoBlockAssumption
      DEF IndInv, ChunkOwnership, Found
  <2>6. GrantedTracked'
    <3> SUFFICES ASSUME NEW c \in Backends, call'[c].op = "granted"
                 PROVE  GrantedRef(c)' \in refs' \ acquisitions'
      BY DEF GrantedTracked
    <3>1. c # b /\ call'[c] = call[c]  BY <2>a DEF TypeOK
    <3>2. GrantedRef(c)' = GrantedRef(c)  BY <3>1 DEF GrantedRef
    <3> QED  BY <3>1, <3>2, <1>b, <1>i DEF IndInv, GrantedTracked
  <2> QED  BY <2>1, <1>d, <2>3, <2>4, <2>5, <2>6 DEF IndInv
<1>2. CASE omni_allocations[k].refcounter - 1 # 0
  <2>a. /\ omni_allocations' = [omni_allocations EXCEPT ![k].refcounter = @ - 1]
        /\ UNCHANGED call
    BY <1>2 DEF Deallocate
  <2>b. /\ omni_allocations'[k].refcounter = omni_allocations[k].refcounter - 1
        /\ \A k2 \in Keys : k2 # k => omni_allocations'[k2] = omni_allocations[k2]
        /\ \A k2 \in Keys : omni_allocations'[k2].pointer = omni_allocations[k2].pointer
    BY <2>a DEF TypeOK, Entry
  <2>1. TypeOK'
    <3>1. omni_allocations[k].refcounter - 1 \in Nat  BY <1>c, <1>e, <1>f
    <3>2. omni_allocations' \in [Keys -> Entry]
      BY <2>a, <3>1 DEF TypeOK, Entry
    <3> QED  BY <3>2, <2>a, <1>b, <1>h DEF TypeOK, modvars
  <2>3. RefcounterCovers'
    <3>1. Cardinality(RefsOf(k)') <= omni_allocations'[k].refcounter
      BY <2>b, <1>c, <1>d, <1>e, <1>f
    <3>2. \A k2 \in Keys : k2 # k =>
            Cardinality(RefsOf(k2)') <= omni_allocations'[k2].refcounter
      BY <2>b, <1>d DEF IndInv, RefcounterCovers
    <3> QED  BY <3>1, <3>2 DEF RefcounterCovers
  <2>4. NoDanglingReference'
    <3>1. \A q \in refs : q.key \in Keys  BY DEF TypeOK, Ref
    <3> QED  BY <3>1, <2>b, <1>b DEF IndInv, NoDanglingReference
  <2>5. ChunkOwnership'
    BY <2>a, <2>b, <1>b DEF IndInv, ChunkOwnership, Found
  <2>6. GrantedTracked'
    BY <2>a, <1>b, <1>i DEF IndInv, GrantedTracked, GrantedRef
  <2> QED  BY <2>1, <1>d, <2>3, <2>4, <2>5, <2>6 DEF IndInv
<1> QED  BY <1>1, <1>2

\* The chunk freed after the lock was released belongs to no entry.
LEMMA DeallocateFreeInv ==
  ASSUME IndInv, NEW b \in Backends, DeallocateFree(b)
  PROVE  IndInv'
<1> /\ call[b].op = "freeing"
    /\ dsa' = dsa \ {call[b].pointer}
    /\ call' = [call EXCEPT ![b] = Idle]
    /\ UNCHANGED <<modvars, omni_allocations, refs, acquisitions>>
  BY DEF DeallocateFree
<1> TypeOK  BY DEF IndInv
<1>a. \A k \in Keys : omni_allocations[k].pointer # call[b].pointer
  BY DEF IndInv, ChunkOwnership
<1>1. TypeOK'  BY DEF TypeOK, Call, Idle, modvars
<1>2. IsFiniteSet(refs')  BY DEF IndInv
<1>3. RefcounterCovers'  BY DEF IndInv, RefcounterCovers, RefsOf
<1>4. NoDanglingReference'
  <2>1. \A q \in refs : q.key \in Keys  BY DEF TypeOK, Ref
  <2> QED  BY <2>1, <1>a DEF IndInv, NoDanglingReference
<1>5. ChunkOwnership'
  <2>1. \A c \in Backends : c # b => call'[c] = call[c]  BY DEF TypeOK
  <2>2. call'[b].op = "idle"  BY DEF TypeOK, Idle
  <2> QED  BY <2>1, <2>2, <1>a DEF IndInv, ChunkOwnership, Found
<1>6. GrantedTracked'  BY DEF IndInv, GrantedTracked, GrantedRef, TypeOK, Idle
<1> QED  BY <1>1, <1>2, <1>3, <1>4, <1>5, <1>6 DEF IndInv

\* Steps that forget references of a backend and call nothing: refcounters
\* drop by no more than what is forgotten.
LEMMA ForgetInv ==
  ASSUME IndInv, NEW b \in Backends, ModulesTypeOK',
         refs' \subseteq refs,
         \A q \in refs \ refs' : q.backend = b,
         acquisitions' = acquisitions \cap refs',
         call[b].op # "granted" \/ call' = [call EXCEPT ![b] = Idle],
         UNCHANGED call \/ call' = [call EXCEPT ![b] = Idle],
         UNCHANGED dsa,
         omni_allocations' \in [Keys -> Entry],
         \A k \in Keys : omni_allocations'[k].pointer = omni_allocations[k].pointer,
         IsFiniteSet(refs'),
         \A k \in Keys : Cardinality(RefsOf(k)') <= omni_allocations'[k].refcounter
  PROVE  IndInv'
<1> TypeOK  BY DEF IndInv
<1>0. /\ call' \in [Backends -> Call]
      /\ \A c \in Backends : call'[c] = call[c] \/ call'[c] = Idle
  BY DEF TypeOK, Call, Idle
<1>1. TypeOK'  BY <1>0 DEF TypeOK, ModulesTypeOK
<1>3. RefcounterCovers'  BY DEF RefcounterCovers
<1>4. NoDanglingReference'
  <2>1. \A q \in refs : q.key \in Keys  BY DEF TypeOK, Ref
  <2> QED  BY <2>1 DEF IndInv, NoDanglingReference
<1>5. ChunkOwnership'
  BY <1>0 DEF IndInv, ChunkOwnership, Found, Idle
<1>6. GrantedTracked'
  <2> SUFFICES ASSUME NEW c \in Backends, call'[c].op = "granted"
               PROVE  GrantedRef(c)' \in refs' \ acquisitions'
    BY DEF GrantedTracked
  <2>1. c # b /\ call'[c] = call[c]  BY DEF TypeOK, Idle
  <2>2. GrantedRef(c)' = GrantedRef(c) /\ GrantedRef(c).backend = c
    BY <2>1 DEF GrantedRef
  <2> QED  BY <2>1, <2>2 DEF IndInv, GrantedTracked
<1> QED  BY <1>1, <1>3, <1>4, <1>5, <1>6 DEF IndInv

\* unload_module forgets references, and leaves them counted.
LEMMA UnloadEndInv ==
  ASSUME IndInv, NEW b \in Backends, UnloadEnd(b)
  PROVE  IndInv'
<1> TypeOK  BY DEF IndInv
<1>1. ModulesTypeOK'  BY DEF UnloadEnd, TypeOK, ModulesTypeOK
<1>2. /\ refs' \subseteq refs
      /\ \A q \in refs \ refs' : q.backend = b
      /\ acquisitions' = acquisitions \cap refs'
      /\ UNCHANGED <<omni_allocations, dsa, call>>
      /\ call[b].op = "idle"
  BY DEF UnloadEnd, HeldBy, TypeOK
<1>3. /\ IsFiniteSet(refs')
      /\ \A k \in Keys : Cardinality(RefsOf(k)') <= Cardinality(RefsOf(k))
  BY <1>2, FewerRefs DEF IndInv
<1>4. ASSUME NEW k \in Keys
      PROVE  Cardinality(RefsOf(k)') <= omni_allocations'[k].refcounter
  <2>1. RefsOf(k)' \in SUBSET refs'  BY DEF RefsOf
  <2>2. Cardinality(RefsOf(k)') \in Nat
    BY <1>3, <2>1, FS_Subset, FS_CardinalityType
  <2>3. Cardinality(RefsOf(k)) \in Nat  BY RefsOfFinite DEF IndInv
  <2>4. Cardinality(RefsOf(k)) <= omni_allocations[k].refcounter
    BY DEF IndInv, RefcounterCovers
  <2>5. omni_allocations[k].refcounter \in Nat  BY DEF TypeOK, Entry
  <2> QED  BY <2>2, <2>3, <2>4, <2>5, <1>2, <1>3
<1>5. omni_allocations' \in [Keys -> Entry]  BY <1>2 DEF TypeOK
<1> QED  BY <1>1, <1>2, <1>3, <1>4, <1>5, ForgetInv

\* An exit gives back no more than the backend held.
LEMMA BackendExitInv ==
  ASSUME IndInv, NEW b \in Backends, BackendExit(b)
  PROVE  IndInv'
<1> TypeOK  BY DEF IndInv
<1>1. ModulesTypeOK'  BY DEF BackendExit, Gone, TypeOK, ModulesTypeOK
<1>2. /\ refs' = refs \ HeldBy(b)
      /\ refs' \subseteq refs
      /\ \A q \in refs \ refs' : q.backend = b
      /\ acquisitions' = acquisitions \cap refs'
      /\ call' = [call EXCEPT ![b] = Idle]
      /\ UNCHANGED dsa
  BY DEF BackendExit, Gone, HeldBy, TypeOK
<1>3. PICK found \in SUBSET Visited(b) :
        omni_allocations' =
          [k \in Keys |->
             [omni_allocations[k] EXCEPT
                !.refcounter = @ - Cardinality({a \in found : a.key = k})]]
  BY DEF BackendExit
<1>4. found \in SUBSET HeldBy(b)  BY DEF Visited, HeldBy, TypeOK
<1>5. IsFiniteSet(refs')  BY <1>2, FewerRefs DEF IndInv
<1>6. ASSUME NEW k \in Keys
      PROVE  /\ omni_allocations'[k] \in Entry
             /\ omni_allocations'[k].pointer = omni_allocations[k].pointer
             /\ Cardinality(RefsOf(k)') <= omni_allocations'[k].refcounter
  <2> DEFINE given == Cardinality({a \in found : a.key = k})
  <2>1. given \in Nat /\ Cardinality(RefsOf(k)') + given <= Cardinality(RefsOf(k))
    BY <1>2, <1>4, ExitRefs DEF IndInv
  <2>2. RefsOf(k)' \in SUBSET refs'  BY DEF RefsOf
  <2>3. Cardinality(RefsOf(k)') \in Nat
    BY <1>5, <2>2, FS_Subset, FS_CardinalityType
  <2>4. Cardinality(RefsOf(k)) \in Nat  BY RefsOfFinite DEF IndInv
  <2>5. Cardinality(RefsOf(k)) <= omni_allocations[k].refcounter
    BY DEF IndInv, RefcounterCovers
  <2>6. omni_allocations[k] \in Entry  BY DEF TypeOK
  <2>7. /\ omni_allocations'[k].pointer = omni_allocations[k].pointer
        /\ omni_allocations'[k].refcounter = omni_allocations[k].refcounter - given
        /\ omni_allocations'[k] = [omni_allocations[k] EXCEPT !.refcounter = @ - given]
    BY <1>3, <2>6 DEF Entry
  <2> HIDE DEF given
  <2>8. omni_allocations[k].refcounter - given \in Nat
    BY <2>1, <2>3, <2>4, <2>5, <2>6 DEF Entry
  <2>9. omni_allocations'[k] \in Entry  BY <2>6, <2>7, <2>8 DEF Entry
  <2> QED  BY <2>1, <2>3, <2>4, <2>5, <2>6, <2>7, <2>9 DEF Entry
<1>7. omni_allocations' \in [Keys -> Entry]
  <2>1. omni_allocations' = [k \in Keys |-> omni_allocations'[k]]  BY <1>3
  <2> QED  BY <2>1, <1>6
<1> QED  BY <1>1, <1>2, <1>5, <1>6, <1>7, ForgetInv

\* A FATAL exit gives nothing back.
LEMMA BackendFatalInv ==
  ASSUME IndInv, NEW b \in Backends, BackendFatal(b)
  PROVE  IndInv'
<1> TypeOK  BY DEF IndInv
<1>1. ModulesTypeOK'  BY DEF BackendFatal, Gone, TypeOK, ModulesTypeOK
<1>2. /\ refs' \subseteq refs
      /\ \A q \in refs \ refs' : q.backend = b
      /\ acquisitions' = acquisitions \cap refs'
      /\ call' = [call EXCEPT ![b] = Idle]
      /\ UNCHANGED <<omni_allocations, dsa>>
  BY DEF BackendFatal, Gone, HeldBy, TypeOK
<1>3. /\ IsFiniteSet(refs')
      /\ \A k \in Keys : Cardinality(RefsOf(k)') <= Cardinality(RefsOf(k))
  BY <1>2, FewerRefs DEF IndInv
<1>4. ASSUME NEW k \in Keys
      PROVE  Cardinality(RefsOf(k)') <= omni_allocations'[k].refcounter
  <2>1. RefsOf(k)' \in SUBSET refs'  BY DEF RefsOf
  <2>2. Cardinality(RefsOf(k)') \in Nat
    BY <1>3, <2>1, FS_Subset, FS_CardinalityType
  <2>3. Cardinality(RefsOf(k)) \in Nat  BY RefsOfFinite DEF IndInv
  <2>4. Cardinality(RefsOf(k)) <= omni_allocations[k].refcounter
    BY DEF IndInv, RefcounterCovers
  <2>5. omni_allocations[k].refcounter \in Nat  BY DEF TypeOK, Entry
  <2> QED  BY <2>2, <2>3, <2>4, <2>5, <1>2, <1>3
<1>5. omni_allocations' \in [Keys -> Entry]  BY <1>2 DEF TypeOK
<1> QED  BY <1>1, <1>2, <1>3, <1>4, <1>5, ForgetInv

\* A crash starts over.
LEMMA CrashInv == Crash => IndInv'
<1> SUFFICES ASSUME Crash PROVE IndInv'  OBVIOUS
<1>1. TypeOK'  BY DEF Crash, TypeOK, Entry, NoEntry, Call, Idle
<1>2. IsFiniteSet(refs')  BY FS_EmptySet DEF Crash
<1>3. RefcounterCovers'
  <2>1. \A k \in Keys : RefsOf(k)' = {} /\ omni_allocations'[k].refcounter = 0
    BY DEF Crash, RefsOf, NoEntry
  <2> QED  BY <2>1, FS_EmptySet DEF RefcounterCovers
<1>4. NoDanglingReference' /\ ChunkOwnership' /\ GrantedTracked'
  BY DEF Crash, NoDanglingReference, ChunkOwnership, GrantedTracked, Found,
         NoEntry, Idle
<1> QED  BY <1>1, <1>2, <1>3, <1>4 DEF IndInv

\* Every step of the specification preserves the invariant.
LEMMA NextInv == IndInv /\ [Next]_vars => IndInv'
<1> SUFFICES ASSUME IndInv, [Next]_vars PROVE IndInv'  OBVIOUS
<1> TypeOK  BY DEF IndInv
<1>1. ASSUME NEW b \in Backends, BackendStart(b) PROVE IndInv'
  BY <1>1, BookkeepingInv DEF BackendStart, TypeOK, ModulesTypeOK
<1>2. ASSUME NEW b \in Backends, NEW m \in Modules, InitBegin(b, m)
      PROVE  IndInv'
  BY <1>2, BookkeepingInv DEF InitBegin, TypeOK, ModulesTypeOK
<1>3. ASSUME NEW b \in Backends, NEW m \in Modules, UnloadBegin(b, m)
      PROVE  IndInv'
  BY <1>3, BookkeepingInv DEF UnloadBegin, TypeOK, ModulesTypeOK
<1>4. ASSUME NEW b \in Backends, InitEnd(b) PROVE IndInv'
  BY <1>4, BookkeepingInv DEF InitEnd, TypeOK, ModulesTypeOK
<1>5. ASSUME NEW b \in Backends, InitFail(b) PROVE IndInv'
  BY <1>5, BookkeepingInv DEF InitFail, TypeOK, ModulesTypeOK
<1>6. CASE UNCHANGED vars
  BY <1>6, BookkeepingInv DEF vars, TypeOK, ModulesTypeOK
<1> QED
  BY <1>1, <1>2, <1>3, <1>4, <1>5, <1>6, UnloadEndInv, AllocateTentativeInv,
     LookupInv, DeallocateInv, AllocateInvalidInv, AllocateEnterInv,
     AllocateReturnInv, AllocateInitErrorInv, DeallocateFreeInv,
     BackendExitInv, BackendFatalInv, CrashInv
  DEF Next

\* The inductive invariant holds in every state of every behaviour.
THEOREM IndInvHolds == Spec => []IndInv
BY InitInv, NextInv, PTL DEF Spec

\* Type correctness of the loader's shared memory state; the refcounter of an
\* allocation never goes below zero.
THEOREM TypeCorrect == Spec => []TypeOK
<1>1. IndInv => TypeOK  BY DEF IndInv
<1> QED  BY <1>1, IndInvHolds, PTL

\* The refcounter of an allocation is never below the number of references
\* that backends hold to it.
THEOREM CountsEveryReference == Spec => []RefcounterCovers
<1>1. IndInv => RefcounterCovers  BY DEF IndInv
<1> QED  BY <1>1, IndInvHolds, PTL

\* No chunk has two owners among the entries and the calls in progress, so the
\* dsa_free that runs after the lock was released frees nobody's memory.
THEOREM ChunkHasOneOwner == Spec => []ChunkOwnership
<1>1. IndInv => ChunkOwnership  BY DEF IndInv
<1> QED  BY <1>1, IndInvHolds, PTL

\* No backend ever holds memory that was freed or that its name no longer
\* stands for.
THEOREM NoUseAfterFree == Spec => []NoDanglingReference
<1>1. IndInv => NoDanglingReference  BY DEF IndInv
<1> QED  BY <1>1, IndInvHolds, PTL

----------------------------------------------------------------------------
(* Modules: the inductive invariant                                        *)

\* The modules a backend may have: one for each version of an extension, and omni
AllModules == L!Modules \union {L!Self}

\* The versions of extension e in pg_extension
Rows(e) == 0..Versions[e]

\* A call of load_pending_modules
LoadCall == [at : {"scan", "load"}, todo : SUBSET AllModules, init : Seq(AllModules)]
\* The module inside _Omni_init is one of those to be listed; a call that has yet to
\* read pg_extension has nothing to load.
CallOK(f) ==
  /\ f.init = <<>> \/ \E m \in f.todo : f.init = <<m>>
  /\ f.at = "scan" => f.init = <<>> /\ f.todo = {}

\* The versions that pg_extension and the transactions give to the extensions
RowsOK ==
  /\ pg_extension \in [Extensions -> Int] /\ \A e \in Extensions : pg_extension[e] \in Rows(e)
  /\ changes \in [LoadingBackends -> [Extensions -> Int]]
  /\ \A b \in LoadingBackends, e \in Extensions : changes[b][e] \in Rows(e) \union {L!Same}

\* The types of what a backend knows of itself
FlagsOK ==
  /\ pg18 \in BOOLEAN
  /\ pc \in [LoadingBackends -> {"none", "starting", "idle", "ready", "query", "script", "scripted", "done",
                          "precommit", "committed"}]
  /\ DOMAIN ext = LoadingBackends /\ DOMAIN block = LoadingBackends
  /\ backend_force_reload \in [LoadingBackends -> BOOLEAN] /\ invalidated \in [LoadingBackends -> BOOLEAN]
  /\ failed \in [LoadingBackends -> BOOLEAN] /\ overtaken \in [LoadingBackends -> BOOLEAN]
  /\ oneshot \in [LoadingBackends -> BOOLEAN] /\ queued \in [LoadingBackends -> BOOLEAN]
  /\ DOMAIN unseen = LoadingBackends

\* A backend loads modules only where its statements do, and one call at a time
\* unless one of them was overtaken.
CallsOK ==
  /\ load \in [LoadingBackends -> Seq(LoadCall)]
  /\ \A b \in LoadingBackends :
       /\ \A i \in 1..Len(load[b]) : CallOK(load[b][i])
       /\ ~overtaken[b] => Len(load[b]) <= 1
       /\ L!Loads(b) => pc[b] \in {"starting", "query", "scripted", "done"}

\* The types of the lists of modules
ModulesOK ==
  /\ backend_modules \in [LoadingBackends -> SUBSET AllModules]
  /\ inits \in [LoadingBackends -> [AllModules -> Int]]
  /\ DOMAIN raised = LoadingBackends

\* Only an _Omni_init that runs statements has calls above its own.
Below(b) ==
  \A i \in 1..Len(load[b]) :
    i < Len(load[b]) => load[b][i].init # <<>> /\ load[b][i].init[1][1] \in SqlInit

\* Below for all backends
BelowOK == \A b \in LoadingBackends : Below(b)

\* Extension statements lock the row they change until their transaction ends.
Locked ==
  \A e \in Extensions, x, y \in LoadingBackends :
    changes[x][e] # L!Same /\ changes[y][e] # L!Same => x = y

\* A process that has yet to start is to look at pg_extension, and a transaction that
\* has committed has no changes left.
Clean(b) ==
  /\ pc[b] = "none" => backend_force_reload[b]
  /\ pc[b] = "committed" => L!Touched(b) = {}

\* Clean for all backends
CleanOK == \A b \in LoadingBackends : Clean(b)

\* Backend b will look at pg_extension again.
Pending(b) ==
  \/ backend_force_reload[b] \/ invalidated[b]
  \/ \E x \in LoadingBackends : pc[x] = "committed" /\ queued[x]

\* The modules of e once the call in progress has returned
Coming(b, e) ==
  L!Initialized(b, e) \union {m \in IF L!Loads(b) THEN load[b][1].todo ELSE {} : m[1] = e}

\* What a look at pg_extension has found, or will find, is right or will be looked
\* at again.
Match(b, e) ==
  ~failed[b] /\ ~overtaken[b] /\ e \notin unseen[b] =>
    \/ Pending(b)
    \/ L!Loads(b) /\ load[b][1].at = "scan"
    \/ Coming(b, e) = {m \in L!Wanted(b) : m[1] = e}

\* Match for all backends and extensions
MatchOK == \A b \in LoadingBackends, e \in Extensions : Match(b, e)

\* The inductive invariant.  Match is the heart of it; Locked keeps a commit from
\* overwriting another one's rows, and Below keeps a module that is inside _Omni_init
\* from being loaded meanwhile.
LoadInv ==
  /\ RowsOK /\ FlagsOK /\ CallsOK /\ ModulesOK /\ BelowOK /\ Locked /\ CleanOK /\ MatchOK
  /\ L!InitializedOnce

----------------------------------------------------------------------------
(* Modules: rows, flags and calls                                          *)

\* What a scan returns are modules of extensions.
LEMMA WantedAreModules ==
  ASSUME L!ConstantsOK, RowsOK, NEW b \in LoadingBackends
  PROVE  L!Wanted(b) \subseteq L!Modules /\ L!Self \notin L!Modules
<1>1. \A e \in Extensions : L!Visible(b, e) \in Rows(e)
  BY DEF RowsOK, L!Visible, L!Same
<1>2. \A e \in Extensions : Versions[e] \in Nat
  BY DEF L!ConstantsOK
<1>3. ASSUME NEW m \in L!Wanted(b) PROVE m \in L!Modules
  <2>1. PICK e \in Extensions : L!Visible(b, e) # L!Absent /\ m = <<e, L!Visible(b, e)>>
    BY <1>3 DEF L!Wanted
  <2>2. L!Visible(b, e) \in 1..Versions[e]
    BY <1>1, <1>2, <2>1 DEF Rows, L!Absent
  <2> QED
    BY <2>1, <2>2 DEF L!Modules
<1>4. L!Self \notin L!Modules
  BY DEF L!Modules, L!Self, L!ConstantsOK
<1> QED
  BY <1>3, <1>4

\* What a step may do to the rows of pg_extension
LEMMA RowSteps ==
  ASSUME L!ConstantsOK, NEW b \in LoadingBackends, L!Step(b) \/ L!Choice(b) \/ L!Begin(b) \/ L!StartQuery(b)
  PROVE  \/ UNCHANGED <<pg_extension, changes>>
         \/ UNCHANGED pg_extension /\ changes' = [changes EXCEPT ![b] = L!Untouched]
         \/ L!Commit(b)
         \/ \E e \in Extensions : \E v \in Rows(e) : UNCHANGED pg_extension /\ L!ChangeRow(b, e, v)
<1>1. CASE L!Step(b)
  BY <1>1 DEF L!Step, L!ReadPgExtension, L!InitReturns, L!InitModule, L!Announce, L!StartedBackend, L!Script,
     L!EndExtensionStatement, L!EndQuery, L!EndStatement, L!transaction, L!EndTransaction
<1>2. CASE L!Begin(b) \/ L!StartQuery(b)
  BY <1>2 DEF L!Begin, L!StartQuery, L!transaction
<1>3. ASSUME NEW e \in Extensions, L!DropExtension(b, e)
      PROVE  UNCHANGED pg_extension /\ L!ChangeRow(b, e, L!Absent) /\ L!Absent \in Rows(e)
  <2>1. L!Absent \in Rows(e)
    BY DEF Rows, L!Absent, L!ConstantsOK
  <2> QED
    BY <1>3, <2>1 DEF L!DropExtension
<1>4. ASSUME NEW e \in Extensions, NEW v \in 1..Versions[e], L!BeginExtensionStatement(b, e, v)
      PROVE  UNCHANGED pg_extension /\ L!ChangeRow(b, e, v) /\ v \in Rows(e)
  <2>1. v \in Rows(e)
    BY DEF Rows, L!ConstantsOK
  <2> QED
    BY <1>4, <2>1 DEF L!BeginExtensionStatement
<1>5. CASE L!AcceptInvalidations(b) \/ L!InitStatement(b) \/ L!PreCommit(b) \/ L!StartBackend(b)
  BY <1>5 DEF L!AcceptInvalidations, L!InitStatement, L!PreCommit, L!StartBackend, L!transaction
<1>6. CASE L!LoadFails(b) \/ L!Abort(b) \/ L!RollbackToSavepoint(b) \/ L!ExitBackend(b)
  BY <1>6 DEF L!LoadFails, L!Abort, L!RollbackToSavepoint, L!ExitBackend, L!Gone, L!EndTransaction
<1> QED
  BY <1>1, <1>2, <1>3, <1>4, <1>5, <1>6 DEF L!Choice

\* A step leaves versions in the rows.
LEMMA RowsKept ==
  ASSUME L!ConstantsOK, RowsOK, NEW b \in LoadingBackends, L!Step(b) \/ L!Choice(b) \/ L!Begin(b) \/ L!StartQuery(b)
  PROVE  RowsOK'
<1>0. L!Untouched \in [Extensions -> Int] /\ \A e \in Extensions : L!Untouched[e] = L!Same
  BY DEF L!Untouched, L!Same
<1>1. CASE UNCHANGED <<pg_extension, changes>>
  BY <1>1 DEF RowsOK
<1>2. CASE UNCHANGED pg_extension /\ changes' = [changes EXCEPT ![b] = L!Untouched]
  BY <1>0, <1>2 DEF RowsOK
<1>3. CASE L!Commit(b)
  <2>1. \A e \in Extensions : L!Visible(b, e) \in Rows(e) /\ L!Visible(b, e) \in Int
    BY DEF RowsOK, L!Visible, L!Same
  <2> QED
    BY <1>0, <1>3, <2>1 DEF RowsOK, L!Commit
<1>4. ASSUME NEW e \in Extensions, NEW v \in Rows(e), UNCHANGED pg_extension, L!ChangeRow(b, e, v)
      PROVE  RowsOK'
  <2>1. v \in Int
    BY DEF Rows
  <2>2. /\ changes' = [changes EXCEPT ![b] = [changes[b] EXCEPT ![e] = v]] /\ pg_extension' = pg_extension
    BY <1>4 DEF L!ChangeRow
  <2> QED
    BY <2>1, <2>2 DEF RowsOK
<1> QED
  BY <1>1, <1>2, <1>3, <1>4, RowSteps

\* No step touches a row that another transaction has touched.
LEMMA LockedKept ==
  ASSUME L!ConstantsOK, RowsOK, Locked, NEW b \in LoadingBackends,
         L!Step(b) \/ L!Choice(b) \/ L!Begin(b) \/ L!StartQuery(b)
  PROVE  Locked'
<1>0. L!Untouched \in [Extensions -> Int] /\ \A e \in Extensions : L!Untouched[e] = L!Same
  BY DEF L!Untouched, L!Same
<1>1. CASE UNCHANGED <<pg_extension, changes>>
  BY <1>1 DEF Locked
<1>2. CASE changes' = [changes EXCEPT ![b] = L!Untouched]
  BY <1>0, <1>2 DEF RowsOK, Locked
<1>3. CASE L!Commit(b)
  BY <1>2, <1>3 DEF L!Commit
<1>4. ASSUME NEW e \in Extensions, NEW v \in Rows(e), L!ChangeRow(b, e, v)
      PROVE  Locked'
  <2>1. /\ changes' = [changes EXCEPT ![b] = [changes[b] EXCEPT ![e] = v]]
        /\ \A x \in LoadingBackends \ {b} : changes[x][e] = L!Same
    BY <1>4 DEF L!ChangeRow
  <2> QED
    BY <2>1 DEF RowsOK, Locked
<1> QED
  BY <1>1, <1>2, <1>3, <1>4, RowSteps

\* The flags keep their types.
LEMMA FlagsKept ==
  ASSUME L!ConstantsOK, FlagsOK, NEW b \in LoadingBackends,
         L!Step(b) \/ L!Choice(b) \/ L!Begin(b) \/ L!StartQuery(b)
  PROVE  FlagsOK'
<1>1. ASSUME NEW force \in BOOLEAN, L!LoadPendingModules(b, force)
      PROVE  /\ backend_force_reload' \in [LoadingBackends -> BOOLEAN]
             /\ failed' \in [LoadingBackends -> BOOLEAN] /\ overtaken' \in [LoadingBackends -> BOOLEAN]
  BY <1>1 DEF L!LoadPendingModules, FlagsOK
<1>2. L!EndTransaction(b) =>
        /\ oneshot' \in [LoadingBackends -> BOOLEAN] /\ queued' \in [LoadingBackends -> BOOLEAN]
        /\ DOMAIN ext' = LoadingBackends /\ DOMAIN block' = LoadingBackends
  BY DEF L!EndTransaction, FlagsOK
<1>3. CASE L!ReadPgExtension(b) \/ L!InitReturns(b) \/ \E m \in L!Modules \union {L!Self} : L!InitModule(b, m)
  BY <1>3 DEF L!ReadPgExtension, L!InitReturns, L!InitModule, FlagsOK, L!ghosts, L!transaction
<1>4. CASE L!Commit(b) \/ L!StartedBackend(b)
  BY <1>4 DEF L!Commit, L!StartedBackend, FlagsOK, L!ghosts, L!modules, L!transaction
<1>5. CASE L!Announce(b)
  BY <1>2, <1>5 DEF L!Announce, FlagsOK, L!ghosts, L!modules
<1>6. CASE L!Script(b)
  <2>1. (backend_force_reload[b] \/ ext[b] \notin NoFun) \in BOOLEAN
    BY DEF FlagsOK
  <2> QED
    BY <1>1, <1>6, <2>1 DEF L!Script, FlagsOK, L!ghosts
<1>7. CASE L!EndExtensionStatement(b)
  BY <1>1, <1>7 DEF L!EndExtensionStatement, FlagsOK, L!ghosts
<1>8. CASE L!EndQuery(b) \/ L!StartQuery(b) \/ L!StartBackend(b)
  <2>1. backend_force_reload[b] \in BOOLEAN
    BY DEF FlagsOK
  <2> QED
    BY <1>1, <1>8, <2>1 DEF L!EndQuery, L!StartQuery, L!StartBackend, FlagsOK, L!ghosts, L!transaction
<1>10. CASE L!EndStatement(b)
  BY <1>10 DEF L!EndStatement, FlagsOK, L!ghosts, L!modules, L!transaction
<1>11. CASE L!Begin(b)
  BY <1>11 DEF L!Begin, FlagsOK, L!ghosts, L!modules
<1>12. CASE L!AcceptInvalidations(b) \/ L!PreCommit(b)
  BY <1>12 DEF L!AcceptInvalidations, L!PreCommit, FlagsOK, L!ghosts, L!modules, L!transaction
<1>13. CASE L!InitStatement(b)
  BY <1>1, <1>13 DEF L!InitStatement, FlagsOK, L!ghosts, L!transaction
<1>14. CASE L!Abort(b)
  BY <1>2, <1>14 DEF L!Abort, L!AbortEffect, L!Undone, FlagsOK, L!modules
<1>15. CASE L!RollbackToSavepoint(b)
  BY <1>15 DEF L!RollbackToSavepoint, L!Undone, FlagsOK, L!modules
<1>16. ASSUME L!Gone(b), UNCHANGED pg18 PROVE FlagsOK'
  BY <1>2, <1>16 DEF L!Gone, FlagsOK
<1>17. CASE L!LoadFails(b)
  <2>1. CASE pc[b] = "starting"
    BY <1>16, <1>17, <2>1 DEF L!LoadFails
  <2>2. CASE pc[b] # "starting"
    BY <1>2, <1>17, <2>2 DEF L!LoadFails, L!AbortEffect, L!Undone, FlagsOK
  <2> QED
    BY <2>1, <2>2
<1>18. CASE L!ExitBackend(b)
  BY <1>16, <1>18 DEF L!ExitBackend
<1>19. ASSUME NEW e, NEW v, L!ChangeRow(b, e, v) PROVE DOMAIN ext' = LoadingBackends
  BY <1>19 DEF L!ChangeRow, FlagsOK
<1>20. ASSUME NEW e, L!DropExtension(b, e) PROVE FlagsOK'
  BY <1>1, <1>19, <1>20 DEF L!DropExtension, FlagsOK
<1>21. ASSUME NEW e, NEW v, L!BeginExtensionStatement(b, e, v) PROVE FlagsOK'
  BY <1>19, <1>21 DEF L!BeginExtensionStatement, FlagsOK, L!modules
<1> QED
  BY <1>3, <1>4, <1>5, <1>6, <1>7, <1>8, <1>10, <1>11, <1>12, <1>13, <1>14, <1>15, <1>17, <1>18,
     <1>20, <1>21 DEF L!Step, L!Choice

\* The innermost call goes on as f, or returns.
LEMMA SetTopKeeps ==
  ASSUME load \in [LoadingBackends -> Seq(LoadCall)], NEW b \in LoadingBackends, L!Loads(b),
         NEW f \in LoadCall, L!SetTop(b, f)
  PROVE  /\ load' \in [LoadingBackends -> Seq(LoadCall)]
         /\ \A x \in LoadingBackends \ {b} : load'[x] = load[x]
         /\ Len(load'[b]) <= Len(load[b])
         /\ \A i \in 1..Len(load'[b]) : load'[b][i] \in {load[b][i], f}
         /\ Len(load[b]) = 1 =>
              load'[b] = IF f.at = "load" /\ f.todo = {} THEN <<>> ELSE <<f>>
<1> DEFINE s == load[b]
<1>1. s \in Seq(LoadCall) /\ s # <<>> /\ Len(s) \in Nat /\ Len(s) >= 1 /\ DOMAIN s = 1..Len(s)
  BY DEF L!Loads
<1>2. CASE f.at = "load" /\ f.todo = {}
  <2> DEFINE t == SubSeq(s, 1, Len(s) - 1)
  <2>1. load' = [load EXCEPT ![b] = t]
    BY <1>2 DEF L!SetTop
  <2>2. t \in Seq(LoadCall) /\ Len(t) = Len(s) - 1 /\ \A i \in 1..Len(t) : t[i] = s[i]
    BY <1>1
  <2>3. Len(s) = 1 => t = <<>>
    BY <2>2
  <2> QED
    BY <1>1, <1>2, <2>1, <2>2, <2>3
<1>3. CASE ~(f.at = "load" /\ f.todo = {})
  <2> DEFINE t == [s EXCEPT ![Len(s)] = f]
  <2>1. load' = [load EXCEPT ![b] = t]
    BY <1>3 DEF L!SetTop
  <2>2. t \in Seq(LoadCall) /\ Len(t) = Len(s) /\ \A i \in 1..Len(t) : t[i] \in {s[i], f}
    BY <1>1
  <2>3. Len(s) = 1 => t = <<f>>
    BY <1>1, <2>2
  <2>4. load'[b] = t /\ \A x \in LoadingBackends \ {b} : load'[x] = load[x]
    BY <2>1
  <2>5. load' \in [LoadingBackends -> Seq(LoadCall)]
    BY <2>1, <2>2
  <2> HIDE DEF t
  <2> QED
    BY <1>1, <1>3, <2>2, <2>3, <2>4, <2>5
<1> QED
  BY <1>2, <1>3

\* The innermost call, which is the only one if nothing was overtaken
LEMMA TopIsCall ==
  ASSUME L!ConstantsOK, CallsOK, NEW b \in LoadingBackends, L!Loads(b)
  PROVE  /\ L!Top(b) \in LoadCall /\ CallOK(L!Top(b)) /\ Len(load[b]) \in Nat \ {0}
         /\ ~overtaken[b] => Len(load[b]) = 1 /\ load[b] = <<L!Top(b)>> /\ load[b][1] = L!Top(b)
<1>1. load[b] \in Seq(LoadCall) /\ load[b] # <<>> /\ Len(load[b]) \in Nat \ {0}
  BY DEF CallsOK, L!Loads
<1>2. Len(load[b]) = 1 => load[b] = <<load[b][1]>>
  BY <1>1
<1>3. Len(load[b]) \in 1..Len(load[b]) /\ L!Top(b) = load[b][Len(load[b])]
  BY <1>1 DEF L!Top
<1>4. CallOK(L!Top(b)) /\ L!Top(b) \in LoadCall
  BY <1>1, <1>3 DEF CallsOK
<1>5. ASSUME ~overtaken[b] PROVE Len(load[b]) = 1
  <2>1. Len(load[b]) <= 1
    BY <1>5 DEF CallsOK
  <2>2. \A n \in Nat \ {0} : n <= 1 => n = 1
    OBVIOUS
  <2> QED
    BY <1>1, <2>1, <2>2
<1> QED
  BY <1>1, <1>2, <1>3, <1>4, <1>5

\* Calls that are put in a list
LEMMA FramesAreCalls ==
  /\ L!Scan \in LoadCall /\ CallOK(L!Scan)
  /\ \A todo \in SUBSET AllModules :
       /\ L!Loading(todo) \in LoadCall /\ CallOK(L!Loading(todo))
       /\ L!Loading(todo).at = "load" /\ L!Loading(todo).todo = todo /\ L!Loading(todo).init = <<>>
  BY DEF L!Scan, L!Loading, LoadCall, CallOK

\* A call that enters _Omni_init
LEMMA InitFrame ==
  ASSUME NEW f \in LoadCall, CallOK(f), f.init = <<>>, NEW m \in f.todo
  PROVE  LET g == [f EXCEPT !.init = <<m>>]
         IN  g \in LoadCall /\ CallOK(g) /\ g.at = "load" /\ g.todo = f.todo /\ g.todo # {}
<1> DEFINE g == [f EXCEPT !.init = <<m>>]
<1>1. /\ f = [at |-> f.at, todo |-> f.todo, init |-> f.init] /\ f.at \in {"scan", "load"}
      /\ f.todo \subseteq AllModules
  BY DEF LoadCall
<1>2. m \in AllModules /\ <<m>> \in Seq(AllModules)
  BY <1>1
<1>3. g.at = f.at /\ g.todo = f.todo /\ g.init = <<m>> /\ g \in LoadCall
  BY <1>1, <1>2 DEF LoadCall
<1>4. f.at = "load"
  BY <1>1 DEF CallOK
<1> QED
  BY <1>3, <1>4 DEF CallOK

\* The innermost call goes on.
LEMMA TopCalls ==
  ASSUME L!ConstantsOK, CallsOK, NEW b \in LoadingBackends, L!Loads(b), NEW f \in LoadCall, CallOK(f), L!SetTop(b, f),
         UNCHANGED <<pc, overtaken>>
  PROVE  CallsOK'
<1>1. /\ load' \in [LoadingBackends -> Seq(LoadCall)]
      /\ \A x \in LoadingBackends \ {b} : load'[x] = load[x]
      /\ Len(load'[b]) <= Len(load[b])
      /\ \A i \in 1..Len(load'[b]) : load'[b][i] \in {load[b][i], f}
  BY SetTopKeeps DEF CallsOK
<1>2. load[b] \in Seq(LoadCall) /\ load'[b] \in Seq(LoadCall)
  BY <1>1 DEF CallsOK
<1>3. ASSUME NEW i \in 1..Len(load'[b]) PROVE CallOK(load'[b][i])
  <2>1. i \in 1..Len(load[b])
    BY <1>1, <1>2
  <2>2. CallOK(load[b][i])
    BY <2>1 DEF CallsOK
  <2>3. load'[b][i] = load[b][i] \/ load'[b][i] = f
    BY <1>1
  <2>4. CASE load'[b][i] = load[b][i]
    BY <2>2, <2>4
  <2>5. CASE load'[b][i] = f
    BY <2>5
  <2> QED
    BY <2>3, <2>4, <2>5
<1> QED
  BY <1>1, <1>2, <1>3 DEF CallsOK, L!Loads

\* A new call is made.
LEMMA NewCalls ==
  ASSUME L!ConstantsOK, CallsOK, FlagsOK, NEW b \in LoadingBackends, NEW force \in BOOLEAN,
         L!LoadPendingModules(b, force),
         pc'[b] \in {"starting", "query", "scripted", "done"}, \A x \in LoadingBackends \ {b} : pc'[x] = pc[x]
  PROVE  CallsOK'
<1>1. CASE ~force
  BY <1>1 DEF L!LoadPendingModules, CallsOK, FlagsOK, L!Loads
<1>2. CASE force
  <2>1. load[b] \in Seq(LoadCall) /\ L!Scan \in LoadCall
    BY FramesAreCalls DEF CallsOK
  <2>2. load' = [load EXCEPT ![b] = Append(load[b], L!Scan)]
    BY <1>2 DEF L!LoadPendingModules
  <2>3. /\ load'[b] \in Seq(LoadCall) /\ Len(load'[b]) = Len(load[b]) + 1
        /\ \A i \in 1..Len(load'[b]) : load'[b][i] \in {load[b][i], L!Scan}
        /\ \A i \in 1..Len(load'[b]) : i <= Len(load[b]) \/ load'[b][i] = L!Scan
        /\ Len(load[b]) \in Nat
    BY <2>1, <2>2 DEF CallsOK
  <2>4. load' \in [LoadingBackends -> Seq(LoadCall)] /\ \A x \in LoadingBackends \ {b} : load'[x] = load[x]
    BY <2>2, <2>3 DEF CallsOK
  <2>5. \A i \in 1..Len(load[b]) : load'[b][i] = load[b][i]
    BY <2>1, <2>2 DEF CallsOK
  <2>6. \A i \in 1..Len(load'[b]) : CallOK(load'[b][i])
    BY <2>3, <2>5, FramesAreCalls DEF CallsOK
  <2>7. /\ \A x \in LoadingBackends \ {b} : overtaken'[x] = overtaken[x]
        /\ overtaken'[b] = (load[b] # <<>>)
    BY <1>2 DEF L!LoadPendingModules, FlagsOK
  <2>8. load[b] = <<>> => Len(load[b]) = 0
    OBVIOUS
  <2>9. ASSUME NEW x \in LoadingBackends
        PROVE  /\ \A i \in 1..Len(load'[x]) : CallOK(load'[x][i])
               /\ ~overtaken'[x] => Len(load'[x]) <= 1
               /\ load'[x] # <<>> => pc'[x] \in {"starting", "query", "scripted", "done"}
    <3>1. CASE x = b
      <4>1. ~overtaken'[b] => load[b] = <<>>
        BY <2>7
      <4>2. ~overtaken'[b] => Len(load'[b]) <= 1
        BY <2>3, <2>8, <4>1
      <4> QED
        BY <2>6, <3>1, <4>2
    <3>2. CASE x # b
      BY <2>4, <2>7, <3>2 DEF CallsOK, L!Loads
    <3> QED
      BY <3>1, <3>2
  <2> QED
    BY <2>4, <2>9 DEF CallsOK, L!Loads
<1> QED
  BY <1>1, <1>2

\* What the only call of a backend has left to load
LEMMA TodoLeft ==
  ASSUME CallsOK, NEW b \in LoadingBackends, L!Loads(b), Len(load[b]) = 1,
         NEW todo \in SUBSET AllModules, L!SetTop(b, L!Loading(todo))
  PROVE  (IF L!Loads(b)' THEN load'[b][1].todo ELSE {}) = todo
<1>1. load \in [LoadingBackends -> Seq(LoadCall)]
  BY DEF CallsOK
<1>2. PICK f \in LoadCall : f = L!Loading(todo) /\ f.at = "load" /\ f.todo = todo
  BY FramesAreCalls
<1>3. load'[b] = IF f.at = "load" /\ f.todo = {} THEN <<>> ELSE <<f>>
  BY <1>1, <1>2, SetTopKeeps
<1>4. CASE todo = {}
  BY <1>2, <1>3, <1>4 DEF L!Loads
<1>5. CASE todo # {}
  <2>1. load'[b] = <<f>>
    BY <1>2, <1>3, <1>5
  <2>2. L!Loads(b)' /\ load'[b][1] = f
    BY <2>1 DEF L!Loads
  <2> QED
    BY <1>2, <2>2
<1> QED
  BY <1>4, <1>5

\* The calls of load_pending_modules stay in order.
LEMMA CallsKept ==
  ASSUME L!ConstantsOK, RowsOK, FlagsOK, CallsOK, ModulesOK, NEW b \in LoadingBackends,
         L!Step(b) \/ L!Choice(b) \/ L!Begin(b) \/ L!StartQuery(b)
  PROVE  CallsOK'
<1>1. CASE L!ReadPgExtension(b)
  <2>1. PICK todo \in SUBSET AllModules : L!SetTop(b, L!Loading(todo))
    BY <1>1, WantedAreModules DEF L!ReadPgExtension, AllModules
  <2> QED
    BY <1>1, <2>1, TopCalls, FramesAreCalls DEF L!ReadPgExtension
<1>2. ASSUME NEW m, L!Loads(b), L!Listed(b, m), UNCHANGED <<pc, overtaken>> PROVE CallsOK'
  <2>1. L!Top(b).todo \ {m} \in SUBSET AllModules
    BY <1>2, TopIsCall DEF LoadCall
  <2> QED
    BY <1>2, <2>1, TopCalls, FramesAreCalls DEF L!Listed
<1>3. CASE L!InitReturns(b)
  BY <1>2, <1>3 DEF L!InitReturns, L!transaction
<1>4. ASSUME NEW m \in L!Modules \union {L!Self}, L!InitModule(b, m) PROVE CallsOK'
  <2>1. L!Loads(b) /\ L!Top(b).init = <<>> /\ m \in L!Top(b).todo /\ UNCHANGED <<pc, overtaken>>
    BY <1>4 DEF L!InitModule
  <2>2. CASE L!Listed(b, m)
    BY <1>2, <2>1, <2>2
  <2>3. CASE L!SetTop(b, [L!Top(b) EXCEPT !.init = <<m>>])
    BY <2>1, <2>3, TopIsCall, InitFrame, TopCalls
  <2> QED
    BY <1>4, <2>2, <2>3 DEF L!InitModule
<1>5. CASE L!InitStatement(b)
  <2>1. L!Loads(b) /\ L!LoadPendingModules(b, TRUE) /\ pc' = pc
    BY <1>5 DEF L!InitStatement
  <2> QED
    BY <2>1, NewCalls DEF CallsOK
<1>6. ASSUME NEW force \in BOOLEAN, L!LoadPendingModules(b, force),
             NEW p \in {"starting", "query", "scripted", "done"}, pc' = [pc EXCEPT ![b] = p]
      PROVE  CallsOK'
  <2>1. pc'[b] = p /\ \A x \in LoadingBackends \ {b} : pc'[x] = pc[x]
    BY <1>6 DEF FlagsOK
  <2> QED
    BY <1>6, <2>1, NewCalls
<1>7. CASE L!Script(b)
  <2>1. (backend_force_reload[b] \/ ext[b] \notin NoFun) \in BOOLEAN
    OBVIOUS
  <2> QED
    BY <1>6, <1>7, <2>1 DEF L!Script
<1>8. CASE L!StartBackend(b) \/ L!StartQuery(b) \/ L!EndQuery(b)
  <2>1. backend_force_reload[b] \in BOOLEAN
    BY DEF FlagsOK
  <2> QED
    BY <1>6, <1>8, <2>1 DEF L!StartBackend, L!StartQuery, L!EndQuery
<1>9. CASE L!EndExtensionStatement(b) \/ \E e \in Extensions : L!DropExtension(b, e)
  BY <1>6, <1>9 DEF L!EndExtensionStatement, L!DropExtension
<1>10. ASSUME load' = load \/ load' = [load EXCEPT ![b] = <<>>], load'[b] = <<>>,
              \A x \in LoadingBackends \ {b} : pc'[x] = pc[x] /\ overtaken'[x] = overtaken[x]
       PROVE  CallsOK'
  <2>0. <<>> \in Seq(LoadCall)
    OBVIOUS
  <2>1. load' \in [LoadingBackends -> Seq(LoadCall)] /\ \A x \in LoadingBackends \ {b} : load'[x] = load[x]
    BY <1>10, <2>0 DEF CallsOK
  <2>2. Len(load'[b]) = 0
    BY <1>10
  <2> SUFFICES ASSUME NEW x \in LoadingBackends
               PROVE  /\ \A i \in 1..Len(load'[x]) : CallOK(load'[x][i])
                      /\ ~overtaken'[x] => Len(load'[x]) <= 1
                      /\ load'[x] # <<>> => pc'[x] \in {"starting", "query", "scripted", "done"}
    BY <2>1 DEF CallsOK, L!Loads
  <2>3. CASE x = b
    BY <1>10, <2>2, <2>3
  <2>4. CASE x # b
    <3>1. load'[x] = load[x] /\ pc'[x] = pc[x] /\ overtaken'[x] = overtaken[x]
      BY <1>10, <2>1, <2>4
    <3> QED
      BY <3>1 DEF CallsOK, L!Loads
  <2> QED
    BY <2>3, <2>4
<1>11. ASSUME load' = load, pc[b] \notin {"starting", "query", "scripted", "done"} \/ ~L!Loads(b),
              overtaken' = overtaken, \A x \in LoadingBackends \ {b} : pc'[x] = pc[x]
       PROVE  CallsOK'
  BY <1>10, <1>11 DEF CallsOK, L!Loads
<1>12. CASE L!Announce(b) \/ L!Commit(b) \/ L!Begin(b)
  <2>1. pc[b] \in {"committed", "precommit", "idle"}
    BY <1>12 DEF L!Announce, L!Commit, L!Begin
  <2>2. load' = load /\ overtaken' = overtaken /\ \A x \in LoadingBackends \ {b} : pc'[x] = pc[x]
    BY <1>12 DEF L!Announce, L!Commit, L!Begin, L!modules, FlagsOK
  <2> QED
    BY <1>11, <2>1, <2>2
<1>13. CASE L!StartedBackend(b) \/ L!EndStatement(b) \/ L!PreCommit(b) \/ L!Abort(b) \/ L!RollbackToSavepoint(b)
  <2>1. ~L!Loads(b)
    BY <1>13 DEF L!StartedBackend, L!EndStatement, L!PreCommit, L!Abort, L!RollbackToSavepoint
  <2>2. load' = load /\ overtaken' = overtaken /\ \A x \in LoadingBackends \ {b} : pc'[x] = pc[x]
    BY <1>13 DEF L!StartedBackend, L!EndStatement, L!PreCommit, L!Abort, L!RollbackToSavepoint, L!modules, FlagsOK
  <2> QED
    BY <1>11, <2>1, <2>2
<1>14. ASSUME NEW e \in Extensions, NEW v, L!BeginExtensionStatement(b, e, v) PROVE CallsOK'
  <2>1. /\ ~L!Loads(b) /\ load' = load /\ overtaken' = overtaken
        /\ \A x \in LoadingBackends \ {b} : pc'[x] = pc[x]
    BY <1>14 DEF L!BeginExtensionStatement, L!ChangeRow, L!modules, FlagsOK
  <2> QED
    BY <1>11, <2>1
<1>15. CASE L!AcceptInvalidations(b)
  BY <1>15 DEF L!AcceptInvalidations, L!modules, CallsOK, L!Loads
<1>16. ASSUME L!Gone(b) PROVE CallsOK'
  BY <1>10, <1>16 DEF L!Gone, FlagsOK, CallsOK
<1>17. CASE L!LoadFails(b) \/ L!ExitBackend(b)
  <2>1. CASE L!Gone(b)
    BY <1>16, <2>1
  <2>2. CASE ~L!Gone(b)
    BY <1>10, <1>17, <2>2 DEF L!LoadFails, L!ExitBackend, FlagsOK, CallsOK
  <2> QED
    BY <2>1, <2>2
<1> QED
  BY <1>1, <1>3, <1>4, <1>5, <1>7, <1>8, <1>9, <1>12, <1>13, <1>14, <1>15, <1>17
  DEF L!Step, L!Choice

\* The modules of a backend are modules.
LEMMA ModulesKept ==
  ASSUME L!ConstantsOK, FlagsOK, CallsOK, ModulesOK, NEW b \in LoadingBackends,
         L!Step(b) \/ L!Choice(b) \/ L!Begin(b) \/ L!StartQuery(b)
  PROVE  ModulesOK'
<1>1. CASE L!ReadPgExtension(b)
  <2>1. PICK remove \in SUBSET (backend_modules[b] \ {L!Self}) :
          /\ backend_modules' = [backend_modules EXCEPT ![b] = @ \ remove]
          /\ inits' = [inits EXCEPT ![b] = [m \in DOMAIN @ |-> @[m] - (IF m \in remove THEN 1 ELSE 0)]]
    BY <1>1 DEF L!ReadPgExtension
  <2>0. raised' = raised
    BY <1>1 DEF L!ReadPgExtension
  <2>2. \A m \in AllModules : inits[b][m] \in Int /\ DOMAIN inits[b] = AllModules
    BY DEF ModulesOK
  <2>3. inits'[b] \in [AllModules -> Int]
    BY <2>1, <2>2 DEF ModulesOK
  <2>4. inits' \in [LoadingBackends -> [AllModules -> Int]]
    BY <2>1, <2>3 DEF ModulesOK
  <2> QED
    BY <2>0, <2>1, <2>4 DEF ModulesOK
<1>2. ASSUME NEW m \in AllModules, L!Listed(b, m), UNCHANGED <<inits, raised>> PROVE ModulesOK'
  BY <1>2 DEF L!Listed, ModulesOK
<1>3. CASE L!InitReturns(b)
  <2>1. L!Loads(b) /\ L!Top(b).init # <<>> /\ L!Listed(b, L!Top(b).init[1]) /\ UNCHANGED <<inits, raised>>
    BY <1>3 DEF L!InitReturns
  <2>2. PICK m \in L!Top(b).todo : L!Top(b).init = <<m>>
    BY <2>1, TopIsCall DEF CallOK
  <2>3. m \in AllModules
    BY <2>1, <2>2, TopIsCall DEF LoadCall
  <2> QED
    BY <1>2, <2>1, <2>2, <2>3
<1>4. ASSUME NEW m \in AllModules, L!InitModule(b, m) PROVE ModulesOK'
  <2>1. CASE L!Listed(b, m) /\ UNCHANGED <<inits, raised>>
    BY <1>2, <2>1
  <2>2. CASE inits' = [inits EXCEPT ![b] = [inits[b] EXCEPT ![m] = @ + 1]] /\ UNCHANGED <<backend_modules, raised>>
    <3>1. inits[b] \in [AllModules -> Int] /\ inits[b][m] \in Int
      BY DEF ModulesOK
    <3>2. [inits[b] EXCEPT ![m] = @ + 1] \in [AllModules -> Int]
      BY <3>1
    <3> QED
      BY <2>2, <3>2 DEF ModulesOK
  <2> QED
    BY <1>4, <2>1, <2>2 DEF L!InitModule
<1>5. ASSUME UNCHANGED <<inits, backend_modules>>, DOMAIN raised' = LoadingBackends PROVE ModulesOK'
  BY <1>5 DEF ModulesOK
<1>6. ASSUME L!Gone(b) PROVE ModulesOK'
  <2>1. /\ backend_modules' = [backend_modules EXCEPT ![b] = {}]
        /\ inits' = [inits EXCEPT ![b] = [m \in AllModules |-> 0]]
        /\ DOMAIN raised' = LoadingBackends
    BY <1>6 DEF L!Gone, ModulesOK
  <2> QED
    BY <2>1 DEF ModulesOK
<1>7. CASE L!Commit(b) \/ L!Announce(b) \/ L!StartedBackend(b) \/ L!Script(b) \/ L!EndExtensionStatement(b)
           \/ L!EndQuery(b) \/ L!EndStatement(b) \/ L!Begin(b) \/ L!StartQuery(b)
  BY <1>5, <1>7 DEF L!Commit, L!Announce, L!StartedBackend, L!Script, L!EndExtensionStatement, L!EndQuery,
     L!EndStatement, L!Begin, L!StartQuery, L!modules, ModulesOK
<1>8. CASE L!Choice(b)
  BY <1>5, <1>6, <1>8 DEF L!Choice, L!AcceptInvalidations, L!InitStatement, L!LoadFails, L!Abort,
     L!RollbackToSavepoint, L!PreCommit, L!StartBackend, L!ExitBackend, L!DropExtension,
     L!BeginExtensionStatement, L!modules, ModulesOK
<1> QED
  BY <1>1, <1>3, <1>4, <1>7, <1>8 DEF L!Step, AllModules

\* A step of one backend leaves the others alone, but for invalidations.
LEMMA OthersKept ==
  ASSUME FlagsOK, CallsOK, RowsOK, ModulesOK, NEW b \in LoadingBackends, NEW x \in LoadingBackends, x # b,
         L!Step(b) \/ L!Choice(b) \/ L!Begin(b) \/ L!StartQuery(b)
  PROVE  /\ pc'[x] = pc[x] /\ ext'[x] = ext[x] /\ queued'[x] = queued[x]
         /\ changes'[x] = changes[x] /\ backend_force_reload'[x] = backend_force_reload[x]
         /\ load'[x] = load[x] /\ backend_modules'[x] = backend_modules[x]
         /\ inits'[x] = inits[x] /\ raised'[x] = raised[x]
         /\ failed'[x] = failed[x] /\ overtaken'[x] = overtaken[x]
<1>0. ASSUME NEW force, L!LoadPendingModules(b, force)
      PROVE  /\ load'[x] = load[x] /\ backend_force_reload'[x] = backend_force_reload[x]
             /\ failed'[x] = failed[x] /\ overtaken'[x] = overtaken[x]
  BY <1>0 DEF L!LoadPendingModules, FlagsOK, CallsOK
<1>1. L!EndTransaction(b) => changes'[x] = changes[x] /\ ext'[x] = ext[x] /\ queued'[x] = queued[x]
  BY DEF L!EndTransaction, RowsOK, FlagsOK
<1>2. ASSUME NEW f, L!SetTop(b, f) PROVE load'[x] = load[x]
  BY <1>2 DEF L!SetTop, CallsOK
<1>3. CASE L!ReadPgExtension(b)
  BY <1>2, <1>3 DEF L!ReadPgExtension, ModulesOK, FlagsOK, L!transaction
<1>4. CASE L!InitReturns(b) \/ \E m \in L!Modules \union {L!Self} : L!InitModule(b, m)
  BY <1>2, <1>4 DEF L!InitReturns, L!InitModule, L!Listed, ModulesOK, L!transaction
<1>5. CASE L!Commit(b) \/ L!StartedBackend(b) \/ L!EndStatement(b)
  BY <1>5 DEF L!Commit, L!StartedBackend, L!EndStatement, RowsOK, FlagsOK, L!modules, L!transaction
<1>6. CASE L!Announce(b) \/ L!Abort(b)
  BY <1>1, <1>6 DEF L!Announce, L!Abort, L!AbortEffect, L!Undone, FlagsOK, L!modules
<1>7. CASE L!Script(b) \/ L!EndExtensionStatement(b) \/ L!EndQuery(b) \/ L!StartQuery(b) \/ L!StartBackend(b)
  BY <1>0, <1>7 DEF L!Script, L!EndExtensionStatement, L!EndQuery, L!StartQuery, L!StartBackend, FlagsOK,
     L!transaction
<1>8. CASE L!AcceptInvalidations(b) \/ L!Begin(b) \/ L!PreCommit(b) \/ L!RollbackToSavepoint(b)
  BY <1>8 DEF L!AcceptInvalidations, L!Begin, L!PreCommit, L!RollbackToSavepoint, L!Undone, FlagsOK, RowsOK, L!modules,
     L!transaction
<1>9. CASE L!InitStatement(b)
  BY <1>0, <1>9 DEF L!InitStatement, FlagsOK, L!transaction
<1>10. ASSUME L!Gone(b) PROVE /\ pc'[x] = pc[x] /\ load'[x] = load[x]
         /\ backend_force_reload'[x] = backend_force_reload[x]
         /\ backend_modules'[x] = backend_modules[x]
         /\ inits'[x] = inits[x] /\ raised'[x] = raised[x]
         /\ failed'[x] = failed[x] /\ overtaken'[x] = overtaken[x]
  BY <1>10 DEF L!Gone, FlagsOK, CallsOK, ModulesOK
<1>11. CASE L!ExitBackend(b)
  BY <1>1, <1>10, <1>11 DEF L!ExitBackend, L!Gone
<1>12. CASE L!LoadFails(b)
  <2>1. CASE pc[b] = "starting"
    BY <1>1, <1>10, <1>12, <2>1 DEF L!LoadFails, L!Gone
  <2>2. CASE pc[b] # "starting"
    BY <1>1, <1>12, <2>2 DEF L!LoadFails, L!AbortEffect, L!Undone, FlagsOK, CallsOK, ModulesOK
  <2> QED
    BY <2>1, <2>2
<1>13. ASSUME NEW e, NEW v, L!ChangeRow(b, e, v)
       PROVE  changes'[x] = changes[x] /\ ext'[x] = ext[x]
  BY <1>13 DEF L!ChangeRow, RowsOK, FlagsOK
<1>14. ASSUME NEW e, L!DropExtension(b, e) \/ \E v \in 1..Versions[e] : L!BeginExtensionStatement(b, e, v)
       PROVE  /\ changes'[x] = changes[x] /\ ext'[x] = ext[x] /\ queued'[x] = queued[x]
              /\ pc'[x] = pc[x] /\ backend_force_reload'[x] = backend_force_reload[x]
              /\ load'[x] = load[x] /\ backend_modules'[x] = backend_modules[x]
              /\ inits'[x] = inits[x] /\ raised'[x] = raised[x]
              /\ failed'[x] = failed[x] /\ overtaken'[x] = overtaken[x]
  BY <1>0, <1>13, <1>14 DEF L!DropExtension, L!BeginExtensionStatement, FlagsOK, L!modules
<1> QED
  BY <1>3, <1>4, <1>5, <1>6, <1>7, <1>8, <1>9, <1>11, <1>12, <1>14 DEF L!Step, L!Choice

\* A module whose _Omni_init runs no statements is inside it in the innermost call only.
LEMMA RunningTop ==
  ASSUME CallsOK, BelowOK, NEW x \in LoadingBackends, NEW m, m[1] \notin SqlInit
  PROVE  m \in L!Running(x) <=> L!Loads(x) /\ L!Top(x).init = <<m>>
<1>1. load[x] \in Seq(LoadCall) /\ DOMAIN load[x] = 1..Len(load[x]) /\ Len(load[x]) \in Nat
  BY DEF CallsOK
<1>2. ASSUME m \in L!Running(x) PROVE L!Loads(x) /\ L!Top(x).init = <<m>>
  <2>1. PICK i \in 1..Len(load[x]) : load[x][i].init # <<>> /\ load[x][i].init[1] = m
    BY <1>1, <1>2 DEF L!Running
  <2>2. ~(i < Len(load[x]))
    BY <2>1 DEF BelowOK, Below
  <2>3. i = Len(load[x]) /\ load[x] # <<>>
    BY <1>1, <2>1, <2>2
  <2>4. CallOK(load[x][i])
    BY <2>1 DEF CallsOK
  <2>5. load[x][i].init = <<m>>
    BY <2>1, <2>4 DEF CallOK
  <2> QED
    BY <2>3, <2>5 DEF L!Loads, L!Top
<1>3. ASSUME L!Loads(x), L!Top(x).init = <<m>> PROVE m \in L!Running(x)
  <2>1. Len(load[x]) \in DOMAIN load[x]
    BY <1>1, <1>3 DEF L!Loads
  <2>2. load[x][Len(load[x])].init = <<m>> /\ <<m>> # <<>> /\ <<m>>[1] = m
    BY <1>3 DEF L!Top
  <2> QED
    BY <2>1, <2>2 DEF L!Running
<1> QED
  BY <1>2, <1>3

\* What the calls of backend b become
LEMMA LoadSteps ==
  ASSUME L!ConstantsOK, RowsOK, FlagsOK, CallsOK, ModulesOK, NEW b \in LoadingBackends,
         L!Step(b) \/ L!Choice(b) \/ L!Begin(b) \/ L!StartQuery(b)
  PROVE  \/ UNCHANGED load
         \/ load' = [load EXCEPT ![b] = <<>>]
         \/ L!Loads(b) /\ \E f \in LoadCall : CallOK(f) /\ L!SetTop(b, f)
         \/ /\ load' = [load EXCEPT ![b] = Append(load[b], L!Scan)]
            /\ L!Loads(b) => L!Top(b).init # <<>> /\ L!Top(b).init[1][1] \in SqlInit
<1>1. CASE L!ReadPgExtension(b)
  <2>1. PICK todo \in SUBSET AllModules : L!SetTop(b, L!Loading(todo))
    BY <1>1, WantedAreModules DEF L!ReadPgExtension, AllModules
  <2> QED
    BY <1>1, <2>1, FramesAreCalls DEF L!ReadPgExtension
<1>2. ASSUME NEW m, L!Loads(b), L!Listed(b, m)
      PROVE  \E f \in LoadCall : CallOK(f) /\ L!SetTop(b, f)
  <2>1. L!Top(b).todo \ {m} \in SUBSET AllModules
    BY <1>2, TopIsCall DEF LoadCall
  <2> QED
    BY <1>2, <2>1, FramesAreCalls DEF L!Listed
<1>3. CASE L!InitReturns(b)
  BY <1>2, <1>3 DEF L!InitReturns
<1>4. ASSUME NEW m \in L!Modules \union {L!Self}, L!InitModule(b, m)
      PROVE  L!Loads(b) /\ \E f \in LoadCall : CallOK(f) /\ L!SetTop(b, f)
  <2>1. L!Loads(b) /\ L!Top(b).init = <<>> /\ m \in L!Top(b).todo
    BY <1>4 DEF L!InitModule
  <2>2. CASE L!Listed(b, m)
    BY <1>2, <2>1, <2>2
  <2>3. CASE L!SetTop(b, [L!Top(b) EXCEPT !.init = <<m>>])
    BY <2>1, <2>3, TopIsCall, InitFrame
  <2> QED
    BY <1>4, <2>2, <2>3 DEF L!InitModule
<1>5. CASE L!InitStatement(b)
  BY <1>5 DEF L!InitStatement, L!LoadPendingModules
<1>6. CASE \/ L!StartBackend(b) \/ L!StartQuery(b) \/ L!EndQuery(b) \/ L!Script(b) \/ L!EndExtensionStatement(b)
           \/ \E e \in Extensions : L!DropExtension(b, e)
  <2>1. ~L!Loads(b)
    BY <1>6 DEF L!StartBackend, L!StartQuery, L!EndQuery, L!Script, L!EndExtensionStatement, L!DropExtension,
       L!ChangeRow, CallsOK
  <2>2. UNCHANGED load \/ load' = [load EXCEPT ![b] = Append(load[b], L!Scan)]
    BY <1>6 DEF L!StartBackend, L!StartQuery, L!EndQuery, L!Script, L!EndExtensionStatement, L!DropExtension,
       L!LoadPendingModules
  <2> QED
    BY <2>1, <2>2
<1>7. CASE L!Commit(b) \/ L!Announce(b) \/ L!StartedBackend(b) \/ L!EndStatement(b) \/ L!Begin(b)
           \/ L!AcceptInvalidations(b) \/ L!Abort(b) \/ L!RollbackToSavepoint(b) \/ L!PreCommit(b)
           \/ \E e \in Extensions : \E v \in 1..Versions[e] : L!BeginExtensionStatement(b, e, v)
  BY <1>7 DEF L!Commit, L!Announce, L!StartedBackend, L!EndStatement, L!Begin, L!AcceptInvalidations, L!Abort,
     L!RollbackToSavepoint, L!PreCommit, L!BeginExtensionStatement, L!modules
<1>8. CASE L!LoadFails(b) \/ L!ExitBackend(b)
  BY <1>8 DEF L!LoadFails, L!ExitBackend, L!Gone
<1> QED
  BY <1>1, <1>3, <1>4, <1>5, <1>6, <1>7, <1>8 DEF L!Step, L!Choice

\* Calls are made above an _Omni_init that runs statements.
LEMMA BelowKept ==
  ASSUME L!ConstantsOK, RowsOK, FlagsOK, CallsOK, ModulesOK, BelowOK, NEW b \in LoadingBackends,
         L!Step(b) \/ L!Choice(b) \/ L!Begin(b) \/ L!StartQuery(b)
  PROVE  BelowOK'
<1>0. load \in [LoadingBackends -> Seq(LoadCall)] /\ load[b] \in Seq(LoadCall) /\ Len(load[b]) \in Nat
  BY DEF CallsOK
<1>1. ASSUME \A x \in LoadingBackends \ {b} : load'[x] = load[x], Below(b)' PROVE BelowOK'
  BY <1>1 DEF BelowOK, Below
<1>2. CASE UNCHANGED load
  BY <1>2 DEF BelowOK, Below
<1>3. CASE load' = [load EXCEPT ![b] = <<>>]
  <2>1. load'[b] = <<>> /\ \A x \in LoadingBackends \ {b} : load'[x] = load[x]
    BY <1>0, <1>3
  <2>2. Len(load'[b]) = 0
    BY <2>1
  <2> QED
    BY <1>1, <2>1, <2>2 DEF Below
<1>4. ASSUME L!Loads(b), NEW f \in LoadCall, L!SetTop(b, f) PROVE BelowOK'
  <2>1. load[b] \in Seq(LoadCall) /\ Len(load[b]) \in Nat /\ load[b] # <<>> /\ Len(load[b]) >= 1
    BY <1>0, <1>4 DEF L!Loads
  <2>2. CASE f.at = "load" /\ f.todo = {}
    <3>1. load'[b] = SubSeq(load[b], 1, Len(load[b]) - 1) /\ \A x \in LoadingBackends \ {b} : load'[x] = load[x]
      BY <1>0, <1>4, <2>2 DEF L!SetTop
    <3>2. Len(load'[b]) = Len(load[b]) - 1 /\ \A i \in 1..Len(load'[b]) : load'[b][i] = load[b][i]
      BY <2>1, <3>1
    <3>3. \A i \in 1..Len(load'[b]) : i \in 1..Len(load[b]) /\ i < Len(load[b])
      BY <1>0, <3>2
    <3>4. Below(b)'
      BY <3>2, <3>3 DEF BelowOK, Below
    <3> QED
      BY <1>1, <3>1, <3>4
  <2>3. CASE ~(f.at = "load" /\ f.todo = {})
    <3>1. load'[b] = [load[b] EXCEPT ![Len(load[b])] = f] /\ \A x \in LoadingBackends \ {b} : load'[x] = load[x]
      BY <1>0, <1>4, <2>3 DEF L!SetTop
    <3>2. /\ Len(load'[b]) = Len(load[b])
          /\ \A i \in 1..Len(load[b]) : i < Len(load[b]) => load'[b][i] = load[b][i]
      BY <1>0, <2>1, <3>1
    <3>3. Below(b)'
      BY <3>2 DEF BelowOK, Below
    <3> QED
      BY <1>1, <3>1, <3>3
  <2> QED
    BY <2>2, <2>3
<1>5. CASE /\ load' = [load EXCEPT ![b] = Append(load[b], L!Scan)]
           /\ L!Loads(b) => L!Top(b).init # <<>> /\ L!Top(b).init[1][1] \in SqlInit
  <2>1. load'[b] = Append(load[b], L!Scan) /\ \A x \in LoadingBackends \ {b} : load'[x] = load[x]
    BY <1>0, <1>5
  <2>2. Len(load'[b]) = Len(load[b]) + 1 /\ \A i \in 1..Len(load[b]) : load'[b][i] = load[b][i]
    BY <1>0, <2>1, FramesAreCalls
  <2>3. ASSUME NEW i \in 1..Len(load'[b]), i < Len(load'[b])
        PROVE  load'[b][i].init # <<>> /\ load'[b][i].init[1][1] \in SqlInit
    <3>1. i \in 1..Len(load[b]) /\ load[b] # <<>> /\ (i < Len(load[b]) \/ i = Len(load[b]))
      BY <1>0, <2>2, <2>3
    <3>2. CASE i < Len(load[b])
      BY <2>2, <3>1, <3>2 DEF BelowOK, Below
    <3>3. CASE i = Len(load[b])
      BY <1>5, <2>2, <3>1, <3>3 DEF L!Loads, L!Top
    <3> QED
      BY <3>1, <3>2, <3>3
  <2>4. Below(b)'
    BY <2>3 DEF Below
  <2> QED
    BY <1>1, <2>1, <2>4
<1> QED
  BY <1>2, <1>3, <1>4, <1>5, LoadSteps

\* A module whose _Omni_init runs no statements and raises no errors is inside it after
\* the innermost call went on as f only if f says so.
LEMMA RunningAfter ==
  ASSUME CallsOK, CallsOK', BelowOK, BelowOK', NEW b \in LoadingBackends, L!Loads(b),
         NEW f \in LoadCall, L!SetTop(b, f), NEW m, m[1] \notin SqlInit
  PROVE  m \in L!Running(b)' <=> f.init = <<m>> /\ ~(f.at = "load" /\ f.todo = {})
<1>1. load[b] \in Seq(LoadCall) /\ Len(load[b]) \in Nat /\ load[b] # <<>> /\ Len(load[b]) >= 1
  BY DEF CallsOK, L!Loads
<1>2. m \in L!Running(b)' <=> L!Loads(b)' /\ L!Top(b)'.init = <<m>>
  <2>1. DOMAIN load'[b] = 1..Len(load'[b]) /\ Len(load'[b]) \in Nat
    BY DEF CallsOK
  <2>2. ASSUME m \in L!Running(b)' PROVE L!Loads(b)' /\ L!Top(b)'.init = <<m>>
    <3>1. PICK i \in 1..Len(load'[b]) : load'[b][i].init # <<>> /\ load'[b][i].init[1] = m
      BY <2>1, <2>2 DEF L!Running
    <3>2. ~(i < Len(load'[b]))
      BY <3>1 DEF BelowOK, Below
    <3>3. i = Len(load'[b]) /\ load'[b] # <<>>
      BY <2>1, <3>1, <3>2
    <3>4. CallOK(load'[b][i])
      BY <3>1 DEF CallsOK
    <3>5. load'[b][i].init = <<m>>
      BY <3>1, <3>4 DEF CallOK
    <3> QED
      BY <3>3, <3>5 DEF L!Loads, L!Top
  <2>3. ASSUME L!Loads(b)', L!Top(b)'.init = <<m>> PROVE m \in L!Running(b)'
    <3>1. Len(load'[b]) \in DOMAIN load'[b]
      BY <2>1, <2>3 DEF L!Loads, CallsOK
    <3>2. load'[b][Len(load'[b])].init = <<m>> /\ <<m>> # <<>> /\ <<m>>[1] = m
      BY <2>3 DEF L!Top
    <3> QED
      BY <3>1, <3>2 DEF L!Running
  <2> QED
    BY <2>2, <2>3
<1>3. CASE f.at = "load" /\ f.todo = {}
  <2>1. load'[b] = SubSeq(load[b], 1, Len(load[b]) - 1)
    BY <1>3 DEF L!SetTop, CallsOK
  <2>2. Len(load'[b]) = Len(load[b]) - 1 /\ \A i \in 1..Len(load'[b]) : load'[b][i] = load[b][i]
    BY <1>1, <2>1
  <2>3. ASSUME L!Loads(b)' PROVE L!Top(b)'.init[1][1] \in SqlInit
    <3>1. load'[b] # <<>> /\ load'[b] \in Seq(LoadCall)
      BY <2>3 DEF L!Loads, CallsOK
    <3>2. Len(load'[b]) \in 1..Len(load'[b]) /\ Len(load'[b]) \in 1..Len(load[b]) /\ Len(load'[b]) < Len(load[b])
      BY <1>1, <2>2, <3>1
    <3>3. load[b][Len(load'[b])].init[1][1] \in SqlInit
      BY <3>2 DEF BelowOK, Below
    <3> QED
      BY <2>2, <3>2, <3>3 DEF L!Top
  <2> QED
    BY <1>2, <1>3, <2>3
<1>4. CASE ~(f.at = "load" /\ f.todo = {})
  <2>1. load'[b] = [load[b] EXCEPT ![Len(load[b])] = f]
    BY <1>4 DEF L!SetTop, CallsOK
  <2>2. Len(load'[b]) = Len(load[b]) /\ load'[b][Len(load[b])] = f /\ load'[b] # <<>>
    BY <1>1, <2>1
  <2>3. L!Loads(b)' /\ L!Top(b)' = f
    BY <2>2 DEF L!Loads, L!Top
  <2> QED
    BY <1>2, <1>4, <2>3
<1> QED
  BY <1>3, <1>4

\* What InitializedOnce says of module m in backend x
Once(x, m) ==
  m[1] \notin SqlInit /\ m \notin raised[x] =>
    inits[x][m] = (IF m \in backend_modules[x] \union L!Running(x) THEN 1 ELSE 0)

\* A module is called when it is neither listed nor inside _Omni_init, and unloaded
\* when it is listed and not inside.
LEMMA OnceKept ==
  ASSUME L!ConstantsOK, RowsOK, FlagsOK, CallsOK, ModulesOK, BelowOK, L!InitializedOnce, NEW b \in LoadingBackends,
         L!Step(b) \/ L!Choice(b) \/ L!Begin(b) \/ L!StartQuery(b)
  PROVE  L!InitializedOnce'
<1>0. CallsOK' /\ BelowOK' /\ ModulesOK'
  BY CallsKept, BelowKept, ModulesKept
<1>1. \A x \in LoadingBackends, m \in AllModules : Once(x, m)
  BY DEF L!InitializedOnce, Once, AllModules
<1> SUFFICES ASSUME NEW x \in LoadingBackends, NEW m \in AllModules PROVE Once(x, m)'
  BY DEF L!InitializedOnce, Once, AllModules
<1>2. ASSUME inits'[x] = inits[x], backend_modules'[x] = backend_modules[x], load'[x] = load[x], raised'[x] = raised[x]
      PROVE  Once(x, m)'
  <2>1. L!Running(x)' = L!Running(x)
    BY <1>2 DEF L!Running
  <2> QED
    BY <1>1, <1>2, <2>1 DEF Once
<1>3. CASE x # b
  BY <1>2, <1>3, OthersKept
<1>4. CASE x = b
  <2> SUFFICES ASSUME m[1] \notin SqlInit, m \notin raised'[b]
               PROVE  inits'[b][m] = (IF m \in backend_modules'[b] \union L!Running(b)' THEN 1 ELSE 0)
    BY <1>4 DEF Once
  <2>1. CASE L!ReadPgExtension(b)
    <3>1. PICK todo \in SUBSET AllModules : L!SetTop(b, L!Loading(todo))
      BY <2>1, WantedAreModules DEF L!ReadPgExtension, AllModules
    <3>2. L!Loads(b) /\ L!Top(b).at = "scan" /\ raised' = raised
      BY <2>1 DEF L!ReadPgExtension
    <3>3. L!Top(b).init = <<>> /\ m \notin L!Running(b)
      BY <3>2, TopIsCall, RunningTop DEF CallOK
    <3>4. m \notin L!Running(b)'
      BY <1>0, <3>1, <3>2, FramesAreCalls, RunningAfter
    <3>5. PICK remove \in SUBSET (backend_modules[b] \ {L!Self}) :
            /\ backend_modules' = [backend_modules EXCEPT ![b] = @ \ remove]
            /\ inits' = [inits EXCEPT ![b] = [n \in DOMAIN @ |-> @[n] - (IF n \in remove THEN 1 ELSE 0)]]
      BY <2>1 DEF L!ReadPgExtension
    <3>6. /\ inits'[b][m] = inits[b][m] - (IF m \in remove THEN 1 ELSE 0)
          /\ backend_modules'[b] = backend_modules[b] \ remove
      BY <3>5 DEF ModulesOK
    <3>7. inits[b][m] = (IF m \in backend_modules[b] THEN 1 ELSE 0)
      BY <1>1, <3>2, <3>3 DEF Once
    <3> QED
      BY <3>4, <3>5, <3>6, <3>7
  <2>2. CASE L!InitReturns(b)
    <3>1. L!Loads(b) /\ L!Top(b).init # <<>> /\ L!Listed(b, L!Top(b).init[1]) /\ UNCHANGED <<inits, raised>>
      BY <2>2 DEF L!InitReturns
    <3>2. PICK n \in L!Top(b).todo : L!Top(b).init = <<n>>
      BY <3>1, TopIsCall DEF CallOK
    <3>3. L!Listed(b, n)
      BY <3>1, <3>2
    <3>4. L!Top(b).todo \ {n} \in SUBSET AllModules
      BY <3>1, TopIsCall DEF LoadCall
    <3>5. m \notin L!Running(b)'
      BY <1>0, <3>1, <3>3, <3>4, FramesAreCalls, RunningAfter DEF L!Listed
    <3>6. m \in L!Running(b) <=> m = n
      BY <3>1, <3>2, RunningTop
    <3>7. backend_modules'[b] = backend_modules[b] \union {n}
      BY <3>3 DEF L!Listed, ModulesOK
    <3>8. inits[b][m] = (IF m \in backend_modules[b] \union L!Running(b) THEN 1 ELSE 0)
      BY <1>1, <3>1 DEF Once
    <3> QED
      BY <3>1, <3>5, <3>6, <3>7, <3>8
  <2>3. ASSUME NEW n \in AllModules, L!InitModule(b, n)
        PROVE  inits'[b][m] = (IF m \in backend_modules'[b] \union L!Running(b)' THEN 1 ELSE 0)
    <3>1. L!Loads(b) /\ L!Top(b).init = <<>> /\ n \in L!Top(b).todo /\ raised' = raised
      BY <2>3 DEF L!InitModule
    <3>2. m \notin L!Running(b)
      BY <3>1, RunningTop
    <3>3. inits[b][m] = (IF m \in backend_modules[b] THEN 1 ELSE 0)
      BY <1>1, <3>1, <3>2 DEF Once
    <3>4. CASE n \in backend_modules[b]
      <4>1. L!Listed(b, n) /\ inits' = inits
        BY <2>3, <3>4 DEF L!InitModule
      <4>2. L!Top(b).todo \ {n} \in SUBSET AllModules
        BY <3>1, TopIsCall DEF LoadCall
      <4>3. m \notin L!Running(b)'
        BY <1>0, <3>1, <4>1, <4>2, FramesAreCalls, RunningAfter DEF L!Listed
      <4>4. backend_modules'[b] = backend_modules[b]
        BY <3>4, <4>1 DEF L!Listed, ModulesOK
      <4> QED
        BY <3>3, <4>1, <4>3, <4>4
    <3>5. CASE n \notin backend_modules[b]
      <4> DEFINE f == [L!Top(b) EXCEPT !.init = <<n>>]
      <4>1. /\ L!SetTop(b, f) /\ backend_modules' = backend_modules
            /\ inits' = [inits EXCEPT ![b] = [inits[b] EXCEPT ![n] = @ + 1]]
        BY <2>3, <3>5 DEF L!InitModule
      <4>2. f \in LoadCall /\ f.todo # {}
        BY <3>1, TopIsCall, InitFrame
      <4>3. f.init = <<n>>
        BY <3>1, TopIsCall DEF LoadCall
      <4> HIDE DEF f
      <4>4. m \in L!Running(b)' <=> m = n
        BY <1>0, <3>1, <4>1, <4>2, <4>3, RunningAfter
      <4>5. inits'[b][m] = IF m = n THEN inits[b][m] + 1 ELSE inits[b][m]
        BY <4>1 DEF ModulesOK
      <4> QED
        BY <3>3, <3>5, <4>1, <4>4, <4>5
    <3> QED
      BY <3>4, <3>5
  \* Nothing runs before or after the step.
  <2>4. ASSUME m \notin L!Running(b), m \notin L!Running(b)', UNCHANGED <<inits, backend_modules>>, raised'[b] = raised[b]
        PROVE  inits'[b][m] = (IF m \in backend_modules'[b] \union L!Running(b)' THEN 1 ELSE 0)
    BY <1>1, <2>4 DEF Once
  <2>5. ASSUME UNCHANGED <<inits, backend_modules, raised>>, UNCHANGED load
        PROVE  inits'[b][m] = (IF m \in backend_modules'[b] \union L!Running(b)' THEN 1 ELSE 0)
    BY <1>2, <1>4, <2>5 DEF Once
  <2>6. ASSUME UNCHANGED <<inits, backend_modules, raised>>, load' = [load EXCEPT ![b] = Append(load[b], L!Scan)],
               L!Loads(b) => L!Top(b).init # <<>> /\ L!Top(b).init[1][1] \in SqlInit
        PROVE  inits'[b][m] = (IF m \in backend_modules'[b] \union L!Running(b)' THEN 1 ELSE 0)
    <3>1. m \notin L!Running(b)
      BY <2>6, RunningTop
    <3>2. load[b] \in Seq(LoadCall) /\ Len(load[b]) \in Nat /\ load'[b] = Append(load[b], L!Scan)
      BY <2>6 DEF CallsOK
    <3>3. DOMAIN load'[b] = 1..(Len(load[b]) + 1) /\ load'[b][Len(load[b]) + 1] = L!Scan
      BY <3>2, FramesAreCalls
    <3>4. \A i \in 1..Len(load[b]) : load'[b][i] = load[b][i]
      BY <3>2, FramesAreCalls
    <3>5. \A i \in 1..(Len(load[b]) + 1) : i \in 1..Len(load[b]) \/ i = Len(load[b]) + 1
      BY <3>2
    <3>6. DOMAIN load[b] = 1..Len(load[b]) /\ L!Scan.init = <<>>
      BY <3>2 DEF L!Scan
    <3>7. m \notin L!Running(b)'
      BY <3>1, <3>3, <3>4, <3>5, <3>6 DEF L!Running
    <3> QED
      BY <2>4, <2>6, <3>1, <3>7
  <2>7. CASE L!InitStatement(b)
    <3>1. UNCHANGED <<inits, backend_modules, raised>>
      BY <2>7 DEF L!InitStatement
    <3>2. /\ load' = [load EXCEPT ![b] = Append(load[b], L!Scan)]
          /\ L!Top(b).init # <<>> /\ L!Top(b).init[1][1] \in SqlInit
      BY <2>7 DEF L!InitStatement, L!LoadPendingModules
    <3> QED
      BY <2>6, <3>1, <3>2
  <2>8. CASE \/ L!StartBackend(b) \/ L!StartQuery(b) \/ L!EndQuery(b) \/ L!Script(b) \/ L!EndExtensionStatement(b)
             \/ \E e \in Extensions : L!DropExtension(b, e)
    <3>1. ~L!Loads(b)
      BY <2>8 DEF L!StartBackend, L!StartQuery, L!EndQuery, L!Script, L!EndExtensionStatement, L!DropExtension,
         L!ChangeRow, CallsOK
    <3>2. UNCHANGED load \/ load' = [load EXCEPT ![b] = Append(load[b], L!Scan)]
      BY <2>8 DEF L!StartBackend, L!StartQuery, L!EndQuery, L!Script, L!EndExtensionStatement, L!DropExtension,
         L!LoadPendingModules
    <3>3. UNCHANGED <<inits, backend_modules, raised>>
      BY <2>8 DEF L!StartBackend, L!StartQuery, L!EndQuery, L!Script, L!EndExtensionStatement, L!DropExtension
    <3> QED
      BY <2>5, <2>6, <3>1, <3>2, <3>3
  <2>9. CASE L!Commit(b) \/ L!Announce(b) \/ L!StartedBackend(b) \/ L!EndStatement(b) \/ L!Begin(b)
             \/ L!AcceptInvalidations(b) \/ L!Abort(b) \/ L!RollbackToSavepoint(b) \/ L!PreCommit(b)
             \/ \E e \in Extensions : \E v \in 1..Versions[e] : L!BeginExtensionStatement(b, e, v)
    <3>1. UNCHANGED <<inits, backend_modules, raised, load>>
      BY <2>9 DEF L!Commit, L!Announce, L!StartedBackend, L!EndStatement, L!Begin, L!AcceptInvalidations, L!Abort,
         L!RollbackToSavepoint, L!PreCommit, L!BeginExtensionStatement, L!modules
    <3> QED
      BY <2>5, <3>1
  <2>10. load' = [load EXCEPT ![b] = <<>>] => L!Running(b)' = {}
    BY DEF L!Running, CallsOK
  <2>11. ASSUME L!Gone(b)
         PROVE  inits'[b][m] = (IF m \in backend_modules'[b] \union L!Running(b)' THEN 1 ELSE 0)
    <3>1. backend_modules'[b] = {} /\ inits'[b][m] = 0 /\ load' = [load EXCEPT ![b] = <<>>]
      BY <2>11 DEF L!Gone, ModulesOK
    <3> QED
      BY <2>10, <3>1
  <2>12. CASE L!LoadFails(b) /\ ~L!Gone(b)
    <3>1. /\ UNCHANGED <<inits, backend_modules>> /\ load' = [load EXCEPT ![b] = <<>>]
          /\ raised' = [raised EXCEPT ![b] = raised[b] \union L!Running(b)]
      BY <2>12 DEF L!LoadFails
    <3>2. m \notin raised[b] /\ m \notin L!Running(b)
      BY <3>1 DEF ModulesOK
    <3>3. inits[b][m] = (IF m \in backend_modules[b] THEN 1 ELSE 0)
      BY <1>1, <3>2 DEF Once
    <3> QED
      BY <2>10, <3>1, <3>3
  <2>13. CASE L!ExitBackend(b) \/ L!LoadFails(b)
    BY <2>11, <2>12, <2>13 DEF L!ExitBackend
  <2> QED
    BY <2>1, <2>2, <2>3, <2>7, <2>8, <2>9, <2>13 DEF L!Step, L!Choice, AllModules
<1> QED
  BY <1>3, <1>4

----------------------------------------------------------------------------
(* Modules: what backends tell each other                                  *)

\* Invalidations reach the others and are not taken from them, and what they were not
\* told of is not forgotten.
LEMMA SharedKept ==
  ASSUME FlagsOK, NEW b \in LoadingBackends, L!Step(b) \/ L!Choice(b) \/ L!Begin(b) \/ L!StartQuery(b)
  PROVE  \A x \in LoadingBackends \ {b} :
           (invalidated[x] => invalidated'[x]) /\ unseen[x] \subseteq unseen'[x]
<1>1. CASE L!Step(b)
  <2>1. CASE L!ReadPgExtension(b)
    BY <2>1 DEF L!ReadPgExtension, FlagsOK
  <2>2. CASE L!Commit(b)
    BY <2>2 DEF L!Commit, FlagsOK
  <2>3. CASE L!Announce(b)
    BY <2>3 DEF L!Announce, FlagsOK, L!ghosts
  <2>4. CASE L!InitReturns(b) \/ \E m \in L!Modules \union {L!Self} : L!InitModule(b, m)
    BY <2>4 DEF L!InitReturns, L!InitModule, L!ghosts
  <2>5. CASE L!StartedBackend(b) \/ L!Script(b) \/ L!EndExtensionStatement(b) \/ L!EndQuery(b) \/ L!EndStatement(b)
    BY <2>5 DEF L!StartedBackend, L!Script, L!EndExtensionStatement, L!EndQuery, L!EndStatement, L!ghosts
  <2> QED
    BY <1>1, <2>1, <2>2, <2>3, <2>4, <2>5 DEF L!Step
<1>2. CASE L!Choice(b)
  <2>1. CASE L!LoadFails(b) \/ L!Abort(b) \/ L!ExitBackend(b)
    BY <2>1 DEF L!LoadFails, L!Abort, L!ExitBackend, L!AbortEffect, L!Undone, L!Gone, FlagsOK
  <2>2. CASE L!AcceptInvalidations(b) \/ L!InitStatement(b) \/ L!RollbackToSavepoint(b) \/ L!PreCommit(b)
             \/ L!StartBackend(b)
    BY <2>2 DEF L!AcceptInvalidations, L!InitStatement, L!RollbackToSavepoint, L!Undone, L!PreCommit,
       L!StartBackend, FlagsOK, L!ghosts
  <2>3. ASSUME NEW e \in Extensions,
               L!DropExtension(b, e) \/ \E v \in 1..Versions[e] : L!BeginExtensionStatement(b, e, v)
        PROVE  UNCHANGED <<invalidated, unseen>>
    BY <2>3 DEF L!DropExtension, L!BeginExtensionStatement
  <2> QED
    BY <1>2, <2>1, <2>2, <2>3 DEF L!Choice
<1>3. CASE L!Begin(b) \/ L!StartQuery(b)
  BY <1>3 DEF L!Begin, L!StartQuery, FlagsOK, L!ghosts
<1> QED
  BY <1>1, <1>2, <1>3

\* What is clean does not depend on the steps of others.
LEMMA CleanOfOthers ==
  ASSUME FlagsOK, CallsOK, RowsOK, ModulesOK, CleanOK, NEW b \in LoadingBackends, NEW x \in LoadingBackends, x # b,
         L!Step(b) \/ L!Choice(b) \/ L!Begin(b) \/ L!StartQuery(b)
  PROVE  Clean(x)'
<1>1. Clean(x)
  BY DEF CleanOK
<1>2. pc'[x] = pc[x] /\ changes'[x] = changes[x] /\ backend_force_reload'[x] = backend_force_reload[x]
  BY OthersKept
<1> QED
  BY <1>1, <1>2 DEF Clean, L!Touched

\* A process ends with the flag set, and a commit makes the changes those of all.
LEMMA CleanOfSelf ==
  ASSUME L!ConstantsOK, FlagsOK, CallsOK, RowsOK, ModulesOK, CleanOK, NEW b \in LoadingBackends,
         L!Step(b) \/ L!Choice(b) \/ L!Begin(b) \/ L!StartQuery(b)
  PROVE  Clean(b)'
<1>0. Clean(b)
  BY DEF CleanOK
<1>1. pc'[b] \notin {"none", "committed"} => Clean(b)'
  BY DEF Clean
<1>2. ASSUME UNCHANGED <<pc, changes>>, backend_force_reload[b] => backend_force_reload'[b] PROVE Clean(b)'
  BY <1>0, <1>2 DEF Clean, L!Touched
<1>3. CASE L!ReadPgExtension(b) \/ L!InitReturns(b) \/ \E m \in L!Modules \union {L!Self} : L!InitModule(b, m)
  BY <1>2, <1>3 DEF L!ReadPgExtension, L!InitReturns, L!InitModule, FlagsOK, L!transaction
<1>4. CASE L!Commit(b)
  <2>1. L!Touched(b)' = {} /\ pc'[b] = "committed"
    BY <1>4 DEF L!Commit, L!Touched, L!Untouched, RowsOK, FlagsOK
  <2> QED
    BY <2>1 DEF Clean
<1>5. CASE L!Announce(b) \/ L!StartedBackend(b) \/ L!Script(b) \/ L!EndExtensionStatement(b) \/ L!EndQuery(b)
           \/ L!EndStatement(b) \/ L!Begin(b) \/ L!StartQuery(b)
  BY <1>1, <1>5 DEF L!Announce, L!StartedBackend, L!Script, L!EndExtensionStatement, L!EndQuery, L!EndStatement,
     L!Begin, L!StartQuery, FlagsOK
<1>6. CASE L!AcceptInvalidations(b)
  BY <1>2, <1>6 DEF L!AcceptInvalidations, FlagsOK, L!transaction
<1>7. CASE L!InitStatement(b)
  <2>1. pc'[b] \in {"starting", "query", "scripted", "done"}
    BY <1>7 DEF L!InitStatement, CallsOK
  <2> QED
    BY <1>1, <2>1
<1>8. CASE L!Abort(b) \/ L!RollbackToSavepoint(b) \/ L!PreCommit(b) \/ L!StartBackend(b)
  BY <1>1, <1>8 DEF L!Abort, L!RollbackToSavepoint, L!PreCommit, L!StartBackend, FlagsOK
<1>9. CASE L!LoadFails(b) \/ L!ExitBackend(b)
  <2>1. (pc'[b] = "none" /\ backend_force_reload'[b]) \/ pc'[b] = "idle"
    BY <1>9 DEF L!LoadFails, L!ExitBackend, L!Gone, FlagsOK
  <2> QED
    BY <1>1, <2>1 DEF Clean
<1>10. ASSUME NEW e \in Extensions,
              L!DropExtension(b, e) \/ \E v \in 1..Versions[e] : L!BeginExtensionStatement(b, e, v)
       PROVE  Clean(b)'
  BY <1>1, <1>10 DEF L!DropExtension, L!BeginExtensionStatement, FlagsOK
<1> QED
  BY <1>3, <1>4, <1>5, <1>6, <1>7, <1>8, <1>9, <1>10 DEF L!Step, L!Choice

\* Both together
LEMMA CleanKept ==
  ASSUME L!ConstantsOK, FlagsOK, CallsOK, RowsOK, ModulesOK, CleanOK, NEW b \in LoadingBackends,
         L!Step(b) \/ L!Choice(b) \/ L!Begin(b) \/ L!StartQuery(b)
  PROVE  CleanOK'
<1>1. ASSUME NEW x \in LoadingBackends PROVE Clean(x)'
  BY CleanOfOthers, CleanOfSelf
<1> QED
  BY <1>1 DEF CleanOK

\* What is pending stays so for the other backends.
LEMMA PendingKept ==
  ASSUME FlagsOK, CallsOK, RowsOK, ModulesOK, CleanOK, NEW b \in LoadingBackends, NEW x \in LoadingBackends, x # b,
         L!Step(b) \/ L!Choice(b) \/ L!Begin(b) \/ L!StartQuery(b), Pending(x)
  PROVE  Pending(x)'
<1>1. /\ pc'[x] = pc[x] /\ backend_force_reload'[x] = backend_force_reload[x]
      /\ invalidated[x] => invalidated'[x]
  BY OthersKept, SharedKept
<1>2. ASSUME NEW y \in LoadingBackends, y # b, pc[y] = "committed", queued[y] PROVE Pending(x)'
  <2>1. pc'[y] = pc[y] /\ queued'[y] = queued[y]
    BY <1>2, OthersKept
  <2> QED
    BY <1>2, <2>1 DEF Pending
<1>3. ASSUME pc[b] = "committed", queued[b], ~backend_force_reload[x] PROVE Pending(x)'
  <2>1. ~L!Loads(b)
    BY <1>3 DEF CallsOK
  <2>2. L!Announce(b)
    BY <1>3, <2>1 DEF L!Step, L!Choice, L!Begin, L!StartQuery, L!ReadPgExtension, L!InitReturns, L!InitModule, L!Commit,
       L!StartedBackend, L!Script, L!EndExtensionStatement, L!EndQuery, L!EndStatement, L!AcceptInvalidations,
       L!InitStatement, L!LoadFails, L!Abort, L!RollbackToSavepoint, L!PreCommit, L!StartBackend, L!ExitBackend,
       L!DropExtension, L!BeginExtensionStatement, L!ChangeRow
  <2>3. pc[x] # "none"
    BY <1>3 DEF CleanOK, Clean
  <2> QED
    BY <1>3, <2>2, <2>3 DEF L!Announce, Pending
<1> QED
  BY <1>1, <1>2, <1>3 DEF Pending

\* The modules of e that are wanted
LEMMA WantedOf ==
  ASSUME NEW b, NEW e \in Extensions
  PROVE  {m \in L!Wanted(b) : m[1] = e} = IF L!Visible(b, e) = L!Absent THEN {} ELSE {<<e, L!Visible(b, e)>>}
  BY DEF L!Wanted

----------------------------------------------------------------------------
(* Modules: every backend is up to date, or will look again                *)

\* The module of e that is wanted changes with its visible version only.
LEMMA VisibleOf ==
  ASSUME NEW b, NEW e \in Extensions, L!Visible(b, e)' = L!Visible(b, e)
  PROVE  {m \in L!Wanted(b) : m[1] = e}' = {m \in L!Wanted(b) : m[1] = e}
<1>1. {m \in L!Wanted(b) : m[1] = e} = IF L!Visible(b, e) = L!Absent THEN {} ELSE {<<e, L!Visible(b, e)>>}
  BY WantedOf
<1>2. {m \in L!Wanted(b) : m[1] = e}' = IF L!Visible(b, e)' = L!Absent THEN {} ELSE {<<e, L!Visible(b, e)'>>}
  BY DEF L!Wanted, L!Absent
<1> QED
  BY <1>1, <1>2

\* A step of b keeps x up to date, or makes it look again: a commit that changes what
\* x sees is announced to x.
LEMMA MatchOfOthers ==
  ASSUME L!ConstantsOK, FlagsOK, CallsOK, RowsOK, ModulesOK, Locked, CleanOK, NEW b \in LoadingBackends,
         NEW x \in LoadingBackends, x # b, NEW e \in Extensions, Match(x, e),
         L!Step(b) \/ L!Choice(b) \/ L!Begin(b) \/ L!StartQuery(b)
  PROVE  Match(x, e)'
<1>1. /\ load'[x] = load[x] /\ backend_modules'[x] = backend_modules[x]
      /\ failed'[x] = failed[x] /\ overtaken'[x] = overtaken[x] /\ changes'[x] = changes[x]
      /\ unseen[x] \subseteq unseen'[x]
  BY OthersKept, SharedKept
<1>2. Coming(x, e)' = Coming(x, e) /\ L!Loads(x)' = L!Loads(x)
  BY <1>1 DEF Coming, L!Initialized, L!Loads
<1>3. CASE L!Visible(x, e)' = L!Visible(x, e)
  <2>1. {m \in L!Wanted(x) : m[1] = e}' = {m \in L!Wanted(x) : m[1] = e}
    BY <1>3, VisibleOf
  <2> QED
    BY <1>1, <1>2, <2>1, PendingKept DEF Match
<1>4. CASE L!Visible(x, e)' # L!Visible(x, e)
  <2>1. pg_extension'[e] # pg_extension[e] /\ changes[x][e] = L!Same
    BY <1>1, <1>4 DEF L!Visible
  <2>2. L!Commit(b)
    BY <2>1, RowSteps
  <2>3. /\ pg_extension'[e] = L!Visible(b, e) /\ pc'[b] = "committed" /\ queued' = queued
        /\ queued[b] \/ unseen'[x] = unseen[x] \union L!Touched(b)
    BY <2>2 DEF L!Commit, FlagsOK
  <2>4. e \in L!Touched(b)
    BY <2>1, <2>3 DEF L!Visible, L!Touched
  <2>5. CASE queued[b]
    BY <2>3, <2>5 DEF Match, Pending
  <2>6. CASE e \in unseen'[x]
    BY <2>6 DEF Match
  <2> QED
    BY <2>3, <2>4, <2>5, <2>6
<1> QED
  BY <1>3, <1>4

\* A step of b keeps b up to date, or makes it look again.
LEMMA MatchOfSelf ==
  ASSUME L!ConstantsOK, FlagsOK, CallsOK, RowsOK, ModulesOK, CleanOK, NEW b \in LoadingBackends,
         NEW e \in Extensions, Match(b, e),
         L!Step(b) \/ L!Choice(b) \/ L!Begin(b) \/ L!StartQuery(b)
  PROVE  Match(b, e)'
<1> DEFINE told == \E y \in LoadingBackends \ {b} : pc[y] = "committed" /\ queued[y]
<1>2. told => Pending(b)'
  <2>1. ASSUME NEW y \in LoadingBackends \ {b}, pc[y] = "committed", queued[y] PROVE Pending(b)'
    <3>1. pc'[y] = pc[y] /\ queued'[y] = queued[y]
      BY <2>1, OthersKept
    <3> QED
      BY <2>1, <3>1 DEF Pending
  <2> QED
    BY <2>1
<1>3. pc[b] # "committed" /\ Pending(b) => backend_force_reload[b] \/ invalidated[b] \/ told
  BY DEF Pending
\* Nothing that matters to b changes.
<1>4. ASSUME UNCHANGED <<load, backend_modules, failed, overtaken>>, L!Visible(b, e)' = L!Visible(b, e),
             Pending(b) => Pending(b)', e \in unseen[b] => e \in unseen'[b]
      PROVE  Match(b, e)'
  <2>1. {m \in L!Wanted(b) : m[1] = e}' = {m \in L!Wanted(b) : m[1] = e}
    BY <1>4, VisibleOf
  <2>2. Coming(b, e)' = Coming(b, e) /\ L!Loads(b)' = L!Loads(b)
    BY <1>4 DEF Coming, L!Initialized, L!Loads
  <2> QED
    BY <1>4, <2>1, <2>2 DEF Match
<1>5. UNCHANGED <<pg_extension, changes>> => L!Visible(b, e)' = L!Visible(b, e)
  BY DEF L!Visible
<1>6. backend_force_reload'[b] => Match(b, e)'
  BY DEF Match, Pending
<1>7. CASE L!AcceptInvalidations(b)
  BY <1>6, <1>7 DEF L!AcceptInvalidations, FlagsOK
<1>8. CASE L!Begin(b) \/ L!EndStatement(b) \/ L!PreCommit(b) \/ L!StartedBackend(b)
  <2>1. /\ UNCHANGED <<load, backend_modules, failed, overtaken, pg_extension, changes>>
        /\ backend_force_reload[b] \/ invalidated[b] => backend_force_reload'[b] \/ invalidated'[b]
        /\ pc[b] # "committed" /\ unseen' = unseen
    BY <1>8 DEF L!Begin, L!EndStatement, L!PreCommit, L!StartedBackend, L!modules, L!transaction, L!ghosts, FlagsOK
  <2>2. Pending(b) => Pending(b)'
    BY <1>2, <1>3, <2>1 DEF Pending
  <2> QED
    BY <1>4, <1>5, <2>1, <2>2
<1>9. CASE L!Commit(b)
  <2>1. /\ UNCHANGED <<load, backend_modules, failed, overtaken, backend_force_reload, invalidated>>
        /\ pc[b] # "committed" /\ pg_extension'[e] = L!Visible(b, e) /\ changes'[b][e] = L!Same
        /\ unseen'[b] = unseen[b]
    BY <1>9 DEF L!Commit, L!modules, L!Untouched, RowsOK, FlagsOK
  <2>2. L!Visible(b, e)' = L!Visible(b, e)
    BY <2>1 DEF L!Visible
  <2>3. Pending(b) => Pending(b)'
    BY <1>2, <1>3, <2>1 DEF Pending
  <2> QED
    BY <1>4, <2>1, <2>2, <2>3
\* The transaction ends without having touched e unseen.
<1>10. ASSUME UNCHANGED pg_extension, changes' = [changes EXCEPT ![b] = L!Untouched], e \notin L!Touched(b)
       PROVE  L!Visible(b, e)' = L!Visible(b, e)
  <2>1. changes[b][e] = L!Same /\ changes'[b][e] = L!Same
    BY <1>10 DEF L!Touched, L!Untouched, RowsOK
  <2> QED
    BY <1>10, <2>1 DEF L!Visible
<1>11. CASE L!Announce(b)
  <2>1. /\ UNCHANGED <<load, backend_modules, failed, overtaken, pg_extension, unseen>>
        /\ changes' = [changes EXCEPT ![b] = L!Untouched]
        /\ queued[b] => invalidated'[b] /\ UNCHANGED backend_force_reload
        /\ pc[b] = "committed" /\ backend_force_reload' = backend_force_reload
        /\ invalidated[b] => invalidated'[b]
    BY <1>11 DEF L!Announce, L!EndTransaction, L!modules, L!ghosts
  <2>2. CASE queued[b]
    BY <2>1, <2>2 DEF Match, Pending
  <2>3. CASE ~queued[b]
    <3>1. e \notin L!Touched(b)
      BY <2>1 DEF CleanOK, Clean
    <3>2. Pending(b) => Pending(b)'
      <4>1. Pending(b) => backend_force_reload[b] \/ invalidated[b] \/ told
        BY <2>3 DEF Pending
      <4> QED
        BY <1>2, <2>1, <4>1 DEF Pending
    <3> QED
      BY <1>4, <1>10, <2>1, <3>1, <3>2
  <2> QED
    BY <2>2, <2>3
<1>12. CASE L!Abort(b)
  <2>1. /\ UNCHANGED <<load, backend_modules, failed, overtaken, pg_extension, invalidated>>
        /\ changes' = [changes EXCEPT ![b] = L!Untouched] /\ pc[b] # "committed"
        /\ \/ backend_force_reload'[b]
           \/ unseen'[b] = unseen[b] \union L!Touched(b) /\ ~backend_force_reload[b]
    BY <1>12 DEF L!Abort, L!AbortEffect, L!Undone, L!EndTransaction, L!modules, FlagsOK
  <2>2. CASE e \notin unseen'[b] /\ ~backend_force_reload'[b]
    <3>1. Pending(b) => Pending(b)'
      BY <1>2, <1>3, <2>1, <2>2 DEF Pending
    <3> QED
      BY <1>4, <1>10, <2>1, <2>2, <3>1
  <2>3. CASE e \in unseen'[b]
    BY <2>3 DEF Match
  <2> QED
    BY <1>6, <2>2, <2>3
<1>13. CASE L!RollbackToSavepoint(b)
  <2>1. /\ UNCHANGED <<load, backend_modules, failed, overtaken, pg_extension, invalidated>>
        /\ changes' = [changes EXCEPT ![b] = L!Untouched] /\ pc[b] # "committed"
        /\ \/ backend_force_reload'[b]
           \/ unseen'[b] = unseen[b] \union L!Touched(b) /\ ~backend_force_reload[b]
    BY <1>13 DEF L!RollbackToSavepoint, L!Undone, L!modules, FlagsOK
  <2>2. CASE e \notin unseen'[b] /\ ~backend_force_reload'[b]
    <3>1. Pending(b) => Pending(b)'
      BY <1>2, <1>3, <2>1, <2>2 DEF Pending
    <3> QED
      BY <1>4, <1>10, <2>1, <2>2, <3>1
  <2>3. CASE e \in unseen'[b]
    BY <2>3 DEF Match
  <2> QED
    BY <1>6, <2>2, <2>3
<1>14. CASE L!LoadFails(b) \/ L!ExitBackend(b)
  <2>1. backend_force_reload'[b] \/ failed'[b]
    BY <1>14 DEF L!LoadFails, L!ExitBackend, L!Gone, FlagsOK
  <2> QED
    BY <1>6, <2>1 DEF Match
\* load_pending_modules is called.
<1>15. ASSUME L!LoadPendingModules(b, TRUE) PROVE Match(b, e)'
  <2>1. CASE L!Loads(b)
    <3>1. overtaken'[b]
      BY <1>15, <2>1 DEF L!LoadPendingModules, L!Loads, FlagsOK
    <3> QED
      BY <3>1 DEF Match
  <2>2. CASE ~L!Loads(b)
    <3>1. load'[b] = Append(<<>>, L!Scan)
      BY <1>15, <2>2 DEF L!LoadPendingModules, L!Loads, CallsOK
    <3>2. load'[b] # <<>> /\ load'[b][1].at = "scan"
      BY <3>1 DEF L!Scan
    <3> QED
      BY <3>2 DEF Match, L!Loads
  <2> QED
    BY <2>1, <2>2
<1>16. CASE L!InitStatement(b) \/ L!EndExtensionStatement(b)
            \/ \E d \in Extensions : L!DropExtension(b, d)
  BY <1>15, <1>16 DEF L!InitStatement, L!EndExtensionStatement, L!DropExtension
<1>17. CASE \E d \in Extensions : \E v \in 1..Versions[d] : L!BeginExtensionStatement(b, d, v)
  BY <1>6, <1>17 DEF L!BeginExtensionStatement, FlagsOK
<1>18. ASSUME NEW force \in BOOLEAN, L!LoadPendingModules(b, force), ~force => ~backend_force_reload[b],
              UNCHANGED <<backend_modules, pg_extension, changes, invalidated, unseen>>, pc[b] # "committed"
       PROVE  Match(b, e)'
  <2>1. CASE force = TRUE
    BY <1>15, <1>18, <2>1
  <2>2. CASE force = FALSE
    <3>1. UNCHANGED <<load, failed, overtaken>>
      BY <1>18, <2>2 DEF L!LoadPendingModules, FlagsOK
    <3>2. Pending(b) => Pending(b)'
      BY <1>2, <1>3, <1>18, <2>2 DEF Pending
    <3> QED
      BY <1>4, <1>5, <1>18, <3>1, <3>2
  <2> QED
    BY <2>1, <2>2
<1>19. CASE L!Script(b)
  <2>1. (backend_force_reload[b] \/ ext[b] \notin NoFun) \in BOOLEAN
    OBVIOUS
  <2> QED
    BY <1>18, <1>19, <2>1 DEF L!Script, L!ghosts
<1>20. CASE L!StartBackend(b) \/ L!StartQuery(b) \/ L!EndQuery(b)
  <2>1. backend_force_reload[b] \in BOOLEAN
    BY DEF FlagsOK
  <2> QED
    BY <1>18, <1>20, <2>1 DEF L!StartBackend, L!StartQuery, L!EndQuery, L!transaction, L!ghosts
<1>21. CASE L!ReadPgExtension(b)
  <2> DEFINE loaded == L!Wanted(b) \union (IF omni_loaded[b] THEN {} ELSE {L!Self})
             todo == loaded \ backend_modules[b]
  <2>1. /\ L!Loads(b) /\ L!SetTop(b, L!Loading(todo))
        /\ backend_modules'[b] =
             backend_modules[b] \ (backend_modules[b] \ (loaded \union {L!Self}))
        /\ UNCHANGED <<pg_extension, changes, overtaken>>
    BY <1>21 DEF L!ReadPgExtension, ModulesOK, L!transaction
  <2>2. CASE overtaken[b]
    BY <2>1, <2>2 DEF Match
  <2>3. CASE ~overtaken[b]
    <3>1. todo \subseteq AllModules
      BY WantedAreModules DEF AllModules
    <3>2. Len(load[b]) = 1
      BY <2>1, <2>3, TopIsCall
    <3>4. (IF L!Loads(b)' THEN load'[b][1].todo ELSE {}) = todo
      BY <2>1, <3>1, <3>2, TodoLeft
    <3>5. Coming(b, e)' = {m \in backend_modules'[b] : m[1] = e} \union {m \in todo : m[1] = e}
      BY <3>4 DEF Coming, L!Initialized
    <3>6. L!Self[1] # e
      BY DEF L!Self, L!ConstantsOK
    <3>7. Coming(b, e)' = {m \in L!Wanted(b) : m[1] = e}
      BY <2>1, <3>5, <3>6
    <3>8. {m \in L!Wanted(b) : m[1] = e}' = {m \in L!Wanted(b) : m[1] = e}
      BY <1>5, <2>1, VisibleOf
    <3> QED
      BY <3>7, <3>8 DEF Match
  <2> QED
    BY <2>2, <2>3
\* One of the modules to load is loaded, or inside _Omni_init.
<1>22. ASSUME UNCHANGED <<pg_extension, changes, overtaken, failed, pc, queued, invalidated,
                          backend_force_reload, unseen>>,
              L!Loads(b), L!Top(b).at = "load", NEW m \in L!Top(b).todo,
              \/ L!Listed(b, m)
              \/ /\ L!Top(b).init = <<>> /\ UNCHANGED backend_modules
                 /\ L!SetTop(b, [L!Top(b) EXCEPT !.init = <<m>>])
       PROVE  Match(b, e)'
  <2>1. CASE overtaken[b]
    BY <1>22, <2>1 DEF Match
  <2>2. CASE ~overtaken[b]
    <3>1. Len(load[b]) = 1 /\ load[b][1] = L!Top(b) /\ L!Top(b) \in LoadCall /\ CallOK(L!Top(b))
      BY <1>22, <2>2, TopIsCall
    <3>2. ~(L!Loads(b) /\ load[b][1].at = "scan")
      BY <1>22, <3>1
    <3>3. Coming(b, e) = {n \in backend_modules[b] \union L!Top(b).todo : n[1] = e}
      BY <1>22, <3>1 DEF Coming, L!Initialized
    <3>4. Coming(b, e)' = {n \in backend_modules[b] \union L!Top(b).todo : n[1] = e}
      <4>1. CASE L!Listed(b, m)
        <5> DEFINE todo == L!Top(b).todo \ {m}
        <5>1. todo \in SUBSET AllModules
          BY <3>1 DEF LoadCall
        <5>3. (IF L!Loads(b)' THEN load'[b][1].todo ELSE {}) = todo
          BY <1>22, <3>1, <4>1, <5>1, TodoLeft DEF L!Listed
        <5>4. backend_modules'[b] = backend_modules[b] \union {m}
          BY <4>1 DEF L!Listed, ModulesOK
        <5>5. Coming(b, e)' = {n \in backend_modules'[b] : n[1] = e} \union {n \in todo : n[1] = e}
          BY <5>3 DEF Coming, L!Initialized
        <5> QED
          BY <5>4, <5>5
      <4>2. CASE /\ L!Top(b).init = <<>> /\ UNCHANGED backend_modules
                 /\ L!SetTop(b, [L!Top(b) EXCEPT !.init = <<m>>])
        <5> DEFINE f == [L!Top(b) EXCEPT !.init = <<m>>]
        <5>1. f \in LoadCall /\ f.todo = L!Top(b).todo /\ f.todo # {}
          BY <3>1, <4>2, InitFrame
        <5>2. L!SetTop(b, f)
          BY <4>2
        <5> HIDE DEF f
        <5>3. load'[b] = <<f>>
          BY <1>22, <3>1, <5>1, <5>2, SetTopKeeps DEF CallsOK
        <5>4. (IF L!Loads(b)' THEN load'[b][1].todo ELSE {}) = L!Top(b).todo
          BY <5>1, <5>3 DEF L!Loads
        <5>5. Coming(b, e)' = {n \in backend_modules'[b] : n[1] = e} \union {n \in L!Top(b).todo : n[1] = e}
          BY <5>4 DEF Coming, L!Initialized
        <5> QED
          BY <4>2, <5>5
      <4> QED
        BY <1>22, <4>1, <4>2
    <3>5. {n \in L!Wanted(b) : n[1] = e}' = {n \in L!Wanted(b) : n[1] = e}
      BY <1>5, <1>22, VisibleOf
    <3>6. Pending(b) => Pending(b)'
      BY <1>22 DEF Pending
    <3> QED
      BY <1>22, <3>2, <3>3, <3>4, <3>5, <3>6 DEF Match
  <2> QED
    BY <2>1, <2>2
<1>23. CASE L!InitReturns(b)
  <2>1. /\ L!Loads(b) /\ L!Top(b).init # <<>> /\ L!Listed(b, L!Top(b).init[1])
        /\ UNCHANGED <<pg_extension, changes, overtaken, failed, pc, queued, invalidated,
                       backend_force_reload, unseen>>
    BY <1>23 DEF L!InitReturns, L!transaction, L!ghosts
  <2>2. CallOK(L!Top(b)) /\ L!Top(b) \in LoadCall
    BY <2>1, TopIsCall
  <2>3. PICK m \in L!Top(b).todo : L!Top(b).init = <<m>>
    BY <2>1, <2>2 DEF CallOK
  <2>4. L!Top(b).at = "load" /\ L!Listed(b, m)
    BY <2>1, <2>2, <2>3 DEF CallOK, LoadCall
  <2> QED
    BY <1>22, <2>1, <2>3, <2>4
<1>24. ASSUME NEW m \in L!Modules \union {L!Self}, L!InitModule(b, m) PROVE Match(b, e)'
  <2>1. /\ L!Loads(b) /\ L!Top(b).init = <<>> /\ m \in L!Top(b).todo
        /\ UNCHANGED <<pg_extension, changes, overtaken, failed, pc, queued, invalidated,
                       backend_force_reload, unseen>>
    BY <1>24 DEF L!InitModule, L!transaction, L!ghosts
  <2>2. CallOK(L!Top(b)) /\ L!Top(b) \in LoadCall
    BY <2>1, TopIsCall
  <2>3. L!Top(b).at = "load"
    BY <2>1, <2>2 DEF CallOK, LoadCall
  <2>4. \/ L!Listed(b, m)
        \/ /\ L!Top(b).init = <<>> /\ UNCHANGED backend_modules
           /\ L!SetTop(b, [L!Top(b) EXCEPT !.init = <<m>>])
    BY <1>24, <2>1 DEF L!InitModule
  <2> QED
    BY <1>22, <2>1, <2>3, <2>4
<1> QED
  BY <1>7, <1>8, <1>9, <1>11, <1>12, <1>13, <1>14, <1>16, <1>17, <1>19, <1>20, <1>21, <1>23, <1>24
  DEF L!Step, L!Choice

\* The invariant holds when the server starts.
LEMMA LoadInvInit == L!ConstantsOK /\ L!Init => LoadInv
<1> SUFFICES ASSUME L!ConstantsOK, L!Init PROVE LoadInv
  OBVIOUS
<1>1. Installed \subseteq Extensions /\ Versions \in [Extensions -> Nat \ {0}]
  BY DEF L!ConstantsOK
<1>2. RowsOK
  <2>1. \A e \in Extensions : 0 \in Rows(e) /\ 1 \in Rows(e)
    BY <1>1 DEF Rows
  <2> QED
    BY <2>1 DEF L!Init, RowsOK, L!Untouched, L!Same, L!Absent
<1>3. FlagsOK
  BY DEF L!Init, FlagsOK
<1>4. CallsOK
  BY DEF L!Init, CallsOK, L!Loads
<1>5. ModulesOK /\ BelowOK /\ L!InitializedOnce
  <2>1. \A b \in LoadingBackends : load[b] = <<>> /\ Len(load[b]) = 0 /\ L!Running(b) = {}
    BY DEF L!Init, L!Running
  <2> QED
    BY <2>1 DEF L!Init, ModulesOK, BelowOK, Below, L!InitializedOnce, AllModules
<1>6. Locked
  BY DEF L!Init, Locked, L!Untouched
<1>7. CleanOK
  BY DEF L!Init, CleanOK, Clean, L!Touched, L!Untouched
<1>8. MatchOK
  BY DEF L!Init, MatchOK, Match, Pending
<1> QED
  BY <1>2, <1>3, <1>4, <1>5, <1>6, <1>7, <1>8 DEF LoadInv

\* Every step preserves the invariant.
LEMMA LoadInvNext == L!ConstantsOK /\ LoadInv /\ [L!Next]_L!vars => LoadInv'
<1> SUFFICES ASSUME L!ConstantsOK, LoadInv, [L!Next]_L!vars PROVE LoadInv'
  OBVIOUS
<1> USE DEF LoadInv
<1>1. ASSUME NEW b \in LoadingBackends, L!Step(b) \/ L!Choice(b) \/ L!Begin(b) \/ L!StartQuery(b)
      PROVE  LoadInv'
  <2>1. RowsOK' /\ FlagsOK' /\ CallsOK' /\ ModulesOK' /\ BelowOK' /\ Locked' /\ CleanOK' /\ L!InitializedOnce'
    BY <1>1, RowsKept, FlagsKept, CallsKept, ModulesKept, BelowKept, OnceKept, LockedKept, CleanKept
  <2>2. ASSUME NEW x \in LoadingBackends, NEW e \in Extensions PROVE Match(x, e)'
    <3>1. Match(x, e)
      BY DEF MatchOK
    <3>2. CASE x = b
      BY <1>1, <3>1, <3>2, MatchOfSelf
    <3>3. CASE x # b
      BY <1>1, <3>1, <3>3, MatchOfOthers
    <3> QED
      BY <3>2, <3>3
  <2> QED
    BY <2>1, <2>2 DEF MatchOK
<1>2. CASE UNCHANGED L!vars
  <2>1. UNCHANGED <<pg18, pg_extension, changes, block, ext, oneshot, queued, pc>>
    BY <1>2 DEF L!vars, L!transaction
  <2>2. UNCHANGED <<load, backend_modules, omni_loaded, inits, raised, failed, overtaken,
                    backend_force_reload, invalidated, unseen>>
    BY <1>2 DEF L!vars, L!modules, L!ghosts
  <2>3. RowsOK' /\ FlagsOK' /\ CallsOK' /\ ModulesOK' /\ Locked'
    BY <2>1, <2>2 DEF RowsOK, FlagsOK, CallsOK, ModulesOK, Locked, L!Loads
  <2>6. BelowOK' /\ L!InitializedOnce'
    BY <2>2 DEF BelowOK, Below, L!InitializedOnce, L!Running
  <2>4. CleanOK'
    BY <2>1, <2>2 DEF CleanOK, Clean, L!Touched
  <2>5. MatchOK'
    BY <2>1, <2>2 DEF MatchOK, Match, Pending, Coming, L!Loads, L!Initialized, L!Wanted, L!Visible
  <2> QED
    BY <2>3, <2>4, <2>5, <2>6
<1> QED
  BY <1>1, <1>2 DEF L!Next

\* A settled backend has nothing pending and no call in progress.
LEMMA LoadInvMatches == LoadInv => L!ModulesMatch
<1> SUFFICES ASSUME LoadInv, NEW b \in LoadingBackends, NEW e \in Extensions,
                    L!Settled(b), ~failed[b], ~overtaken[b], e \notin unseen[b]
             PROVE  L!InSync(b, e)
  BY DEF L!ModulesMatch
<1>1. Match(b, e)
  BY DEF LoadInv, MatchOK
<1>2. ~Pending(b) /\ ~L!Loads(b)
  BY DEF L!Settled, Pending
<1>3. Coming(b, e) = {m \in L!Wanted(b) : m[1] = e}
  BY <1>1, <1>2 DEF Match
<1>4. Coming(b, e) = L!Initialized(b, e)
  BY <1>2 DEF Coming
<1> QED
  BY <1>3, <1>4 DEF L!InSync

\* load_pending_modules, unload_module and the invalidations keep every backend in
\* step with pg_extension, or make it look again.
THEOREM LoadIndInv == L!Spec => []LoadInv
<1>1. L!Init => LoadInv
  BY LoadInvInit, LoadAssumption
<1>2. LoadInv /\ [L!Next]_L!vars => LoadInv'
  BY LoadInvNext, LoadAssumption
<1> QED
  BY <1>1, <1>2, PTL DEF L!Spec

\* A backend that has nothing left to notice has the modules of the extensions it sees
\* and no others, whatever other backends create, alter, drop, commit and roll back,
\* except for changes of extensions without functions that it was not told of.
THEOREM LoadedModulesMatch == L!Spec => []ModulesMatch
<1>1. LoadInv => ModulesMatch
  BY LoadInvMatches DEF ModulesMatch
<1> QED
  BY <1>1, LoadIndInv, PTL

\* A module whose _Omni_init runs no statements and has raised no error is not
\* initialized twice without being deinitialized in between, although the _Omni_init of
\* another one may load it first.
THEOREM LoadedModulesInitializedOnce == L!Spec => []InitializedOnce
<1>1. LoadInv => InitializedOnce
  BY DEF LoadInv, InitializedOnce
<1> QED
  BY <1>1, LoadIndInv, PTL

----------------------------------------------------------------------------
(* Hooks: the inductive invariant                                          *)

\* Types: handles and contexts of hooks, entries, arrays, the turns of the runs of a
\* dispatch, and dispatches
Handles == HookModules \cup {Default}
Contexts == HookModules \cup {Null, Garbage}
HookEntry == [handle : Handles, state_index : Int]
HookArray == [array : Seq(HookEntry), count : Nat]
Orders == UNION {[R -> Int] : R \in SUBSET (Handles \X Contexts)}
Frame == [type : Types, i : Nat, ctxs : Seq(Contexts), running : BOOLEAN, finished : BOOLEAN,
          ctx : Contexts, log : Seq(Handles \X Contexts), changes : SUBSET {"shift", "cut", "unload"},
          intended : Orders]

\* A dispatch is at an entry that it has a context for, and at one entry at least
\* while a hook runs.
FrameOK(f) ==
  /\ f \in Frame /\ f.i <= Len(f.ctxs)
  /\ f.running => f.i >= 1 /\ f.log # <<>>

\* The type invariant
HookTypes ==
  /\ hook_entry_points \in [Types -> HookArray]
  /\ \A t \in Types : hook_entry_points[t].count <= Len(hook_entry_points[t].array)
  /\ stack \in Seq(Frame)
  /\ \A d \in 1..Len(stack) : FrameOK(stack[d])

\* The hooks that are registered have the numbers of loads.
SinceOK ==
  /\ loads \in Nat
  /\ since \in [HookModules -> Nat]
  /\ \A m \in HookModules : since[m] <= loads

\* The run that an entry stands for
RunAt(h, p) ==
  <<h.array[p].handle, IF h.array[p].state_index = p THEN Null ELSE h.array[p].handle>>

\* When a run has its turn, if modules were loaded in the order s
TurnIn(s, r) == IF r[1] = Default THEN 0 ELSE IF r[2] = Null THEN 0 - s[r[1]] ELSE s[r[1]]

\* The array has the runs R, each once, the last one first; both entries of a pair
\* have the index of the upper one.
ArrayOK(h, R, s) ==
  /\ \A p \in 1..h.count : RunAt(h, p) \in R
  /\ \A p, q \in 1..h.count : p < q => TurnIn(s, RunAt(h, p)) > TurnIn(s, RunAt(h, q))
  /\ \A r \in R : \E p \in 1..h.count : RunAt(h, p) = r
  /\ \A p \in 1..h.count :
       /\ h.array[p].state_index \in p..h.count
       /\ h.array[h.array[p].state_index].handle = h.array[p].handle
       /\ h.array[h.array[p].state_index].state_index = h.array[p].state_index

\* Every array has the runs it should, but those that the code lets go out of order
ArraysOK == \A t \in Types \ exposed : ArrayOK(hook_entry_points[t], H!Runs(t), since)

\* A dispatch that is left alone has run the entries above its index.
InOrder(f, h, s) ==
  f.changes = {} =>
    /\ Len(f.ctxs) <= h.count
    /\ Len(f.log) = Len(f.ctxs) - f.i + (IF f.running THEN 1 ELSE 0)
    /\ \A p \in 1..Len(f.ctxs) :
         /\ RunAt(h, p) \in DOMAIN f.intended
         /\ f.intended[RunAt(h, p)] = TurnIn(s, RunAt(h, p))
         /\ h.array[p].state_index <= Len(f.ctxs)
    /\ \A r \in DOMAIN f.intended : \E p \in 1..Len(f.ctxs) : RunAt(h, p) = r
    /\ \A k \in 1..Len(f.log) : f.log[k] = RunAt(h, Len(f.ctxs) + 1 - k)
    /\ \A p \in f.i + 1..Len(f.ctxs) :
         h.array[p].handle \in Wrapping /\ h.array[p].state_index = p => f.ctxs[p] = h.array[p].handle
    /\ f.running => f.ctx = RunAt(h, f.i)[2]

\* An entry of omni, and whether a dispatch has called it
SelfAt(h, p) == h.array[p].handle = Self
Ran(f, p) == f.i < p \/ (f.i = p /\ f.running)

\* The entries of omni stay where they are under a dispatch.
Twice(f, h) ==
  f.changes \subseteq {"unload"} =>
    /\ Len(f.ctxs) <= Len(h.array)
    /\ \A p \in 1..Len(f.ctxs) : SelfAt(h, p) => p <= h.count /\ h.array[p].state_index <= Len(f.ctxs)
    /\ \A k \in 1..Len(f.log) :
         f.log[k][1] = Self => \E p \in 1..Len(f.ctxs) : SelfAt(h, p) /\ Ran(f, p) /\ f.log[k] = RunAt(h, p)
    /\ \A p \in 1..Len(f.ctxs) :
         SelfAt(h, p) /\ Ran(f, p) => \E k \in 1..Len(f.log) : f.log[k] = RunAt(h, p)
    /\ \A j, k \in 1..Len(f.log) : f.log[j][1] = Self /\ f.log[j] = f.log[k] => j = k
    /\ \A j, k \in 1..Len(f.log) : f.log[j] = <<Self, Null>> /\ f.log[k] = <<Self, Self>> => j < k
    /\ \A p \in f.i + 1..Len(f.ctxs) : SelfAt(h, p) /\ h.array[p].state_index = p => f.ctxs[p] = Self
    /\ f.running => /\ f.log[Len(f.log)][1] = Self <=> SelfAt(h, f.i)
                    /\ SelfAt(h, f.i) => f.ctx = RunAt(h, f.i)[2]

\* The two invariants of dispatches, for those of types that are not exposed
FramesOK ==
  \A d \in 1..Len(stack) :
    stack[d].type \notin exposed =>
      /\ InOrder(stack[d], hook_entry_points[stack[d].type], since)
      /\ Twice(stack[d], hook_entry_points[stack[d].type])

\* Only exposed types have entries left when reorganize_hooks goes on.
PurgeOK == purging => \A t \in Types \ exposed : H!Victims(hook_entry_points[t], hook_modules) = {}

\* The inductive invariant
HooksInv == HookTypes /\ SinceOK /\ ArraysOK /\ FramesOK /\ PurgeOK

----------------------------------------------------------------------------
(* Hooks: registering and removing entries                                 *)

\* What register_hook makes of an array
LEMMA PlainArray ==
  ASSUME H!ConstantsOK, NEW h \in HookArray, h.count <= Len(h.array), NEW m \in HookModules,
         NEW g, g = H!RegisterPlain(h, m)
  PROVE  /\ g \in HookArray /\ g.count = h.count + 1 /\ Len(g.array) = h.count + 1
         /\ \A p \in 1..h.count : g.array[p] = h.array[p]
         /\ g.array[h.count + 1].handle = m /\ g.array[h.count + 1].state_index = h.count + 1
<1> DEFINE a == SubSeq(h.array, 1, h.count)
           e == [handle |-> m, state_index |-> h.count + 1]
<1>1. h.array \in Seq(HookEntry) /\ h.count \in Nat
  BY DEF HookArray
<1>2. e \in HookEntry /\ e.handle = m /\ e.state_index = h.count + 1
  BY <1>1 DEF HookEntry, Handles
<1>3. a \in Seq(HookEntry) /\ Len(a) = h.count /\ \A p \in 1..h.count : a[p] = h.array[p]
  BY <1>1
<1>4. g.array = Append(a, e) /\ g.count = h.count + 1 /\ g = [array |-> Append(a, e), count |-> h.count + 1]
  BY DEF H!RegisterPlain
<1> HIDE DEF a, e
<1>5. /\ Append(a, e) \in Seq(HookEntry) /\ Len(Append(a, e)) = h.count + 1
      /\ \A p \in 1..h.count : Append(a, e)[p] = a[p]
      /\ Append(a, e)[h.count + 1] = e
  BY <1>1, <1>2, <1>3
<1> QED
  BY <1>1, <1>2, <1>3, <1>4, <1>5 DEF HookArray

\* The same with .wrap
LEMMA WrapArray ==
  ASSUME H!ConstantsOK, NEW h \in HookArray, h.count <= Len(h.array), NEW m \in HookModules,
         NEW g, g = H!RegisterWrap(h, m)
  PROVE  /\ g \in HookArray /\ g.count = h.count + 2 /\ Len(g.array) = h.count + 2
         /\ \A p \in 1..h.count : /\ g.array[p + 1].handle = h.array[p].handle
                                  /\ g.array[p + 1].state_index = h.array[p].state_index + 1
         /\ g.array[1].handle = m /\ g.array[1].state_index = h.count + 2
         /\ g.array[h.count + 2].handle = m /\ g.array[h.count + 2].state_index = h.count + 2
<1> DEFINE e == [handle |-> m, state_index |-> h.count + 2]
           a == [j \in 1..h.count |-> [h.array[j] EXCEPT !.state_index = @ + 1]]
<1>1. h.array \in Seq(HookEntry) /\ h.count \in Nat
  BY DEF HookArray
<1>2. e \in HookEntry /\ e.handle = m /\ e.state_index = h.count + 2
  BY <1>1 DEF HookEntry, Handles
<1>3. ASSUME NEW p \in 1..h.count
      PROVE  /\ a[p] \in HookEntry /\ a[p].handle = h.array[p].handle
             /\ a[p].state_index = h.array[p].state_index + 1
  <2>1. h.array[p] \in HookEntry
    BY <1>1
  <2> QED
    BY <2>1 DEF HookEntry
<1>4. a \in Seq(HookEntry) /\ Len(a) = h.count
  <2>1. DOMAIN a = 1..h.count /\ a = [j \in DOMAIN a |-> a[j]]
    OBVIOUS
  <2> HIDE DEF a
  <2>2. a \in [1..h.count -> HookEntry]
    BY <1>3, <2>1
  <2> QED
    BY <1>1, <2>2
<1>5. g.array = <<e>> \o a \o <<e>> /\ g.count = h.count + 2
      /\ g = [array |-> <<e>> \o a \o <<e>>, count |-> h.count + 2]
  BY DEF H!RegisterWrap
<1> HIDE DEF a, e
<1>6. <<e>> \in Seq(HookEntry) /\ Len(<<e>>) = 1 /\ <<e>>[1] = e
  BY <1>2
<1>7. /\ <<e>> \o a \in Seq(HookEntry) /\ Len(<<e>> \o a) = h.count + 1 /\ (<<e>> \o a)[1] = e
      /\ \A p \in 1..h.count : (<<e>> \o a)[p + 1] = a[p]
  BY <1>1, <1>4, <1>6
<1>8. /\ <<e>> \o a \o <<e>> \in Seq(HookEntry) /\ Len(<<e>> \o a \o <<e>>) = h.count + 2
      /\ \A p \in 1..h.count + 1 : (<<e>> \o a \o <<e>>)[p] = (<<e>> \o a)[p]
      /\ (<<e>> \o a \o <<e>>)[h.count + 2] = e
  BY <1>1, <1>6, <1>7
<1>9. /\ g \in HookArray /\ g.count = h.count + 2 /\ Len(g.array) = h.count + 2
      /\ g.array[1] = e /\ g.array[h.count + 2] = e
      /\ \A p \in 1..h.count : g.array[p + 1] = a[p]
  BY <1>1, <1>5, <1>7, <1>8 DEF HookArray
<1> QED
  BY <1>2, <1>3, <1>9

\* g is h without entry v: the entries after it moved down by one, and the index of
\* one that pointed at itself or beyond moved with it
Removed(h, v, g) ==
  /\ g \in HookArray /\ g.count = h.count - 1 /\ Len(g.array) = Len(h.array)
  /\ \A p \in 1..Len(h.array) :
         /\ p < v \/ p > h.count => g.array[p] = h.array[p]
         /\ p = h.count => g.array[p].handle = h.array[p].handle
         /\ v <= p /\ p < h.count =>
              /\ g.array[p].handle = h.array[p + 1].handle
              /\ g.array[p].state_index =
                   IF h.array[p + 1].state_index >= p + 1 THEN h.array[p + 1].state_index - 1
                   ELSE h.array[p + 1].state_index

\* What the removal of entry v makes of an array
LEMMA RemovedArray ==
  ASSUME NEW h \in HookArray, h.count <= Len(h.array), NEW v \in 1..h.count,
         NEW g, g = H!RemoveEntry(h, v)
  PROVE  Removed(h, v, g)
<1> DEFINE re(j) == IF h.array[j].state_index >= j THEN [h.array[j] EXCEPT !.state_index = @ - 1]
                    ELSE h.array[j]
           a == [j \in DOMAIN h.array |->
                    CASE j < v \/ j > h.count  -> h.array[j]
                      [] v <= j /\ j < h.count -> re(j + 1)
                      [] v < j /\ j = h.count  -> re(j)
                      [] v = j /\ j = h.count  -> h.array[j]]
<1>1. h.array \in Seq(HookEntry) /\ h.count \in Nat /\ DOMAIN h.array = 1..Len(h.array) /\ Len(h.array) \in Nat
  BY DEF HookArray
<1>2. ASSUME NEW j \in 1..Len(h.array)
      PROVE  /\ re(j) \in HookEntry /\ re(j).handle = h.array[j].handle
             /\ re(j).state_index = IF h.array[j].state_index >= j THEN h.array[j].state_index - 1
                                    ELSE h.array[j].state_index
  <2>1. h.array[j] \in HookEntry
    BY <1>1
  <2> QED
    BY <2>1 DEF HookEntry
<1>3. g.array = a /\ g.count = h.count - 1 /\ g = [array |-> a, count |-> h.count - 1]
  BY DEF H!RemoveEntry
<1> HIDE DEF re
<1>4. ASSUME NEW j \in 1..Len(h.array)
      PROVE  /\ j < v \/ j > h.count => a[j] = h.array[j]
             /\ v <= j /\ j < h.count => a[j] = re(j + 1)
             /\ v < j /\ j = h.count => a[j] = re(j)
             /\ v = j /\ j = h.count => a[j] = h.array[j]
  BY <1>1
<1>5. ASSUME NEW j \in 1..Len(h.array) PROVE a[j] \in HookEntry
  <2>1. h.array[j] \in HookEntry
    BY <1>1
  <2> QED
    BY <1>1, <1>2, <1>4, <2>1
<1>6. DOMAIN a = 1..Len(h.array) /\ a = [j \in DOMAIN a |-> a[j]]
  BY <1>1
<1> HIDE DEF a
<1>7. a \in Seq(HookEntry) /\ Len(a) = Len(h.array)
  <2>1. a \in [1..Len(h.array) -> HookEntry]
    BY <1>5, <1>6
  <2> QED
    BY <1>1, <2>1
<1>8. g \in HookArray
  BY <1>1, <1>3, <1>7 DEF HookArray
<1>9. ASSUME NEW p \in 1..Len(h.array)
      PROVE  /\ p < v \/ p > h.count => g.array[p] = h.array[p]
             /\ p = h.count => g.array[p].handle = h.array[p].handle
             /\ v <= p /\ p < h.count =>
                   /\ g.array[p].handle = h.array[p + 1].handle
                   /\ g.array[p].state_index =
                        IF h.array[p + 1].state_index >= p + 1 THEN h.array[p + 1].state_index - 1
                        ELSE h.array[p + 1].state_index
  <2>1. p < v \/ p > h.count => g.array[p] = h.array[p]
    BY <1>3, <1>4
  <2>2. CASE p = h.count
    BY <1>1, <1>2, <1>3, <1>4, <2>2
  <2>3. CASE v <= p /\ p < h.count
    <3>1. g.array[p] = re(p + 1) /\ p + 1 \in 1..Len(h.array)
      BY <1>1, <1>3, <1>4, <2>3
    <3> QED
      BY <1>1, <1>2, <2>3, <3>1
  <2> QED
    BY <2>1, <2>2, <2>3
<1> QED
  BY <1>3, <1>7, <1>8, <1>9 DEF Removed

\* The numbers of the loads once load n + 1 was that of m
Loaded(s, m, n) == [s EXCEPT ![m] = n + 1]

\* The runs R and those of m
WithRuns(R, m) == R \cup {<<m, Null>>} \cup (IF m \in Wrapping THEN {<<m, m>>} ELSE {})

\* Runs that were registered before m, by load n at the latest
Before(R, s, n, m) ==
  \A r \in R : r[1] \in Handles \ {m} /\ (r[1] # Default => s[r[1]] \in 0..n)

\* Their turns do not change, and come after the first run of m and before the
\* second one.
LEMMA TurnsBefore ==
  ASSUME H!ConstantsOK, NEW s \in [HookModules -> Nat], NEW n \in Nat, NEW m \in HookModules, NEW R,
         Before(R, s, n, m)
  PROVE  /\ TurnIn(Loaded(s, m, n), <<m, Null>>) = 0 - (n + 1) /\ TurnIn(Loaded(s, m, n), <<m, m>>) = n + 1
         /\ \A r \in R : /\ TurnIn(Loaded(s, m, n), r) = TurnIn(s, r) /\ TurnIn(s, r) \in Int
                         /\ 0 - (n + 1) < TurnIn(s, r) /\ TurnIn(s, r) < n + 1
<1> DEFINE z == Loaded(s, m, n)
<1>1. z[m] = n + 1 /\ \A x \in HookModules \ {m} : z[x] = s[x]
  BY DEF Loaded
<1> HIDE DEF z
<1> SUFFICES /\ TurnIn(z, <<m, Null>>) = 0 - (n + 1) /\ TurnIn(z, <<m, m>>) = n + 1
             /\ \A r \in R : /\ TurnIn(z, r) = TurnIn(s, r) /\ TurnIn(s, r) \in Int
                             /\ 0 - (n + 1) < TurnIn(s, r) /\ TurnIn(s, r) < n + 1
  BY DEF z
<1>2. m # Default /\ m # Null
  BY DEF H!ConstantsOK
<1>3. TurnIn(z, <<m, Null>>) = 0 - (n + 1) /\ TurnIn(z, <<m, m>>) = n + 1
  BY <1>1, <1>2 DEF TurnIn
<1>4. ASSUME NEW r \in R
      PROVE  /\ TurnIn(z, r) = TurnIn(s, r) /\ TurnIn(s, r) \in Int
             /\ 0 - (n + 1) < TurnIn(s, r) /\ TurnIn(s, r) < n + 1
  <2>1. r[1] \in Handles /\ r[1] # m /\ (r[1] # Default => s[r[1]] \in 0..n)
    BY DEF Before
  <2>2. CASE r[1] = Default
    BY <2>2 DEF TurnIn
  <2>3. CASE r[1] # Default
    <3>1. PICK y \in 0..n : z[r[1]] = y /\ s[r[1]] = y
      BY <1>1, <2>1, <2>3 DEF Handles
    <3>2. TurnIn(z, r) = TurnIn(s, r) /\ (TurnIn(s, r) = 0 - y \/ TurnIn(s, r) = y)
      BY <2>3, <3>1 DEF TurnIn
    <3>3. CASE TurnIn(s, r) = 0 - y
      BY <3>2, <3>3
    <3>4. CASE TurnIn(s, r) = y
      BY <3>2, <3>4
    <3> QED
      BY <3>2, <3>3, <3>4
  <2> QED
    BY <2>2, <2>3
<1> QED
  BY <1>3, <1>4

\* A plain registration keeps an array in order.
LEMMA PlainOK ==
  ASSUME H!ConstantsOK, NEW h \in HookArray, h.count <= Len(h.array), NEW m \in HookModules, m \notin Wrapping,
         NEW s \in [HookModules -> Nat], NEW n \in Nat, NEW R, Before(R, s, n, m), ArrayOK(h, R, s)
  PROVE  ArrayOK(H!RegisterPlain(h, m), WithRuns(R, m), Loaded(s, m, n))
<1> DEFINE N == h.count
<1>r. \A r : r \in WithRuns(R, m) <=> r \in R \/ r = <<m, Null>>
  BY DEF WithRuns
<1>q. PICK Q : Q = WithRuns(R, m)
  OBVIOUS
<1>s. \A r : r \in Q <=> r \in R \/ r = <<m, Null>>
  BY <1>q, <1>r, Zenon
<1>1. PICK g : g = H!RegisterPlain(h, m)
  OBVIOUS
<1>0. PICK z : z = Loaded(s, m, n)
  OBVIOUS
<1>t. /\ TurnIn(z, <<m, Null>>) = 0 - (n + 1) /\ TurnIn(z, <<m, m>>) = n + 1
      /\ \A r \in R : /\ TurnIn(z, r) = TurnIn(s, r) /\ TurnIn(s, r) \in Int
                      /\ 0 - (n + 1) < TurnIn(s, r) /\ TurnIn(s, r) < n + 1
  <2>1. Before(R, s, n, m)
    OBVIOUS
  <2>2. /\ TurnIn(Loaded(s, m, n), <<m, Null>>) = 0 - (n + 1) /\ TurnIn(Loaded(s, m, n), <<m, m>>) = n + 1
        /\ \A r \in R : /\ TurnIn(Loaded(s, m, n), r) = TurnIn(s, r) /\ TurnIn(s, r) \in Int
                        /\ 0 - (n + 1) < TurnIn(s, r) /\ TurnIn(s, r) < n + 1
    BY <2>1, TurnsBefore, Zenon
  <2> QED
    BY <1>0, <2>2
<1>2. /\ g \in HookArray /\ g.count = N + 1
      /\ \A p \in 1..N : g.array[p] = h.array[p]
      /\ g.array[N + 1].handle = m /\ g.array[N + 1].state_index = N + 1 /\ N \in Nat
  BY <1>1, PlainArray DEF HookArray
<1>3. (\A p \in 1..N : RunAt(g, p) = RunAt(h, p)) /\ RunAt(g, N + 1) = <<m, Null>>
  BY <1>2 DEF RunAt
<1>4. \A p \in 1..N : RunAt(h, p) \in R
  BY DEF ArrayOK
<1>5. \A p \in 1..N + 1 : RunAt(g, p) \in Q
  BY <1>2, <1>3, <1>4, <1>s
<1>6. ASSUME NEW p \in 1..N + 1, NEW q \in 1..N + 1, p < q
      PROVE  TurnIn(z, RunAt(g, p)) > TurnIn(z, RunAt(g, q))
  <2>1. p \in 1..N /\ RunAt(g, p) = RunAt(h, p) /\ RunAt(h, p) \in R
    BY <1>2, <1>3, <1>4, <1>6
  <2>2. CASE q = N + 1
    <3>1. TurnIn(z, <<m, Null>>) < TurnIn(z, RunAt(h, p))
      BY <2>1, <1>t
    <3>2. TurnIn(z, RunAt(h, p)) \in Int /\ TurnIn(z, <<m, Null>>) \in Int
      BY <2>1, <1>t
    <3> QED
      BY <1>3, <2>1, <2>2, <3>1, <3>2
  <2>3. CASE q \in 1..N
    <3>1. TurnIn(s, RunAt(h, p)) > TurnIn(s, RunAt(h, q))
      BY <1>6, <2>1, <2>3 DEF ArrayOK
    <3>2. TurnIn(z, RunAt(h, p)) = TurnIn(s, RunAt(h, p)) /\ TurnIn(z, RunAt(h, q)) = TurnIn(s, RunAt(h, q))
      BY <1>4, <2>1, <2>3, <1>t
    <3> QED
      BY <1>3, <2>1, <2>3, <3>1, <3>2
  <2> QED
    BY <1>2, <2>2, <2>3
<1>7. ASSUME NEW r \in Q PROVE \E p \in 1..N + 1 : RunAt(g, p) = r
  <2>1. CASE r \in R
    <3>1. PICK p \in 1..N : RunAt(h, p) = r
      BY <2>1 DEF ArrayOK
    <3> QED
      BY <1>2, <1>3, <3>1
  <2>2. CASE r = <<m, Null>>
    BY <1>2, <1>3, <2>2
  <2> QED
    BY <1>s, <2>1, <2>2
<1>8. ASSUME NEW p \in 1..N + 1
      PROVE  /\ g.array[p].state_index \in p..N + 1
             /\ g.array[g.array[p].state_index].handle = g.array[p].handle
             /\ g.array[g.array[p].state_index].state_index = g.array[p].state_index
  <2>1. CASE p \in 1..N
    <3>1. /\ h.array[p].state_index \in p..N
          /\ h.array[h.array[p].state_index].handle = h.array[p].handle
          /\ h.array[h.array[p].state_index].state_index = h.array[p].state_index
      BY <2>1 DEF ArrayOK
    <3>2. PICK y \in 1..N : y = h.array[p].state_index /\ y >= p
      BY <1>2, <2>1, <3>1
    <3>3. h.array[y].handle = h.array[p].handle /\ h.array[y].state_index = y
      BY <3>1, <3>2
    <3>4. g.array[p] = h.array[p] /\ g.array[y] = h.array[y]
      BY <1>2, <2>1, <3>2
    <3>5. y \in p..N + 1
      BY <1>2, <2>1, <3>2
    <3> QED
      BY <3>2, <3>3, <3>4, <3>5
  <2>2. CASE p = N + 1
    BY <1>2, <2>2
  <2> QED
    BY <1>2, <2>1, <2>2
<1>9. ArrayOK(g, Q, z)
  BY <1>2, <1>5, <1>6, <1>7, <1>8 DEF ArrayOK
<1> QED
  BY <1>0, <1>1, <1>9, <1>q

\* So does a wrapping one.
LEMMA WrapOK ==
  ASSUME H!ConstantsOK, NEW h \in HookArray, h.count <= Len(h.array), NEW m \in HookModules, m \in Wrapping,
         NEW s \in [HookModules -> Nat], NEW n \in Nat, NEW R, Before(R, s, n, m), ArrayOK(h, R, s)
  PROVE  ArrayOK(H!RegisterWrap(h, m), WithRuns(R, m), Loaded(s, m, n))
<1> DEFINE N == h.count
<1>r. \A r : r \in WithRuns(R, m) <=> r \in R \/ r \in {<<m, Null>>, <<m, m>>}
  BY DEF WithRuns
<1>q. PICK Q : Q = WithRuns(R, m)
  OBVIOUS
<1>s. \A r : r \in Q <=> r \in R \/ r \in {<<m, Null>>, <<m, m>>}
  BY <1>q, <1>r, Zenon
<1>1. PICK g : g = H!RegisterWrap(h, m)
  OBVIOUS
<1>0. PICK z : z = Loaded(s, m, n)
  OBVIOUS
<1>t. /\ TurnIn(z, <<m, Null>>) = 0 - (n + 1) /\ TurnIn(z, <<m, m>>) = n + 1
      /\ \A r \in R : /\ TurnIn(z, r) = TurnIn(s, r) /\ TurnIn(s, r) \in Int
                      /\ 0 - (n + 1) < TurnIn(s, r) /\ TurnIn(s, r) < n + 1
  <2>1. Before(R, s, n, m)
    OBVIOUS
  <2>2. /\ TurnIn(Loaded(s, m, n), <<m, Null>>) = 0 - (n + 1) /\ TurnIn(Loaded(s, m, n), <<m, m>>) = n + 1
        /\ \A r \in R : /\ TurnIn(Loaded(s, m, n), r) = TurnIn(s, r) /\ TurnIn(s, r) \in Int
                        /\ 0 - (n + 1) < TurnIn(s, r) /\ TurnIn(s, r) < n + 1
    BY <2>1, TurnsBefore, Zenon
  <2> QED
    BY <1>0, <2>2
<1>n. N \in Nat
  BY DEF HookArray
<1>w. /\ g \in HookArray /\ g.count = h.count + 2 /\ Len(g.array) = h.count + 2
      /\ \A p \in 1..h.count : /\ g.array[p + 1].handle = h.array[p].handle
                               /\ g.array[p + 1].state_index = h.array[p].state_index + 1
      /\ g.array[1].handle = m /\ g.array[1].state_index = h.count + 2
      /\ g.array[h.count + 2].handle = m /\ g.array[h.count + 2].state_index = h.count + 2
  BY <1>1, WrapArray
<1>2. /\ g \in HookArray /\ g.count = N + 2 /\ N \in Nat
      /\ \A p \in 1..N : /\ g.array[p + 1].handle = h.array[p].handle
                         /\ g.array[p + 1].state_index = h.array[p].state_index + 1
      /\ g.array[1].handle = m /\ g.array[1].state_index = N + 2
      /\ g.array[N + 2].handle = m /\ g.array[N + 2].state_index = N + 2
  BY <1>n, <1>w
<1>3. \A p \in 1..N : /\ h.array[p].state_index \in p..N
                      /\ h.array[h.array[p].state_index].handle = h.array[p].handle
                      /\ h.array[h.array[p].state_index].state_index = h.array[p].state_index
                      /\ RunAt(h, p) \in R
  BY DEF ArrayOK
<1>4. (\A p \in 1..N : RunAt(g, p + 1) = RunAt(h, p)) /\ RunAt(g, N + 2) = <<m, Null>> /\ RunAt(g, 1) = <<m, m>>
  <2>1. ASSUME NEW p \in 1..N PROVE RunAt(g, p + 1) = RunAt(h, p)
    <3>1. g.array[p + 1].state_index = p + 1 <=> h.array[p].state_index = p
      BY <1>2, <1>3
    <3> QED
      BY <1>2, <3>1 DEF RunAt
  <2>2. RunAt(g, N + 2) = <<m, Null>> /\ RunAt(g, 1) = <<m, m>>
    BY <1>2 DEF RunAt
  <2> QED
    BY <2>1, <2>2
<1>5. \A p \in 1..N + 2 : p = 1 \/ p = N + 2 \/ \E x \in 1..N : p = x + 1
  <2>1. ASSUME NEW p \in 1..N + 2, p # 1, p # N + 2 PROVE p - 1 \in 1..N /\ p = (p - 1) + 1
    BY <1>2, <2>1
  <2> QED
    BY <2>1
<1>6. \A p \in 1..N + 2 : RunAt(g, p) \in Q
  BY <1>3, <1>4, <1>5, <1>s
<1>7. ASSUME NEW p \in 1..N + 2, NEW q \in 1..N + 2, p < q
      PROVE  TurnIn(z, RunAt(g, p)) > TurnIn(z, RunAt(g, q))
  <2>1. CASE p = 1 /\ q = N + 2
    <3>1. n + 1 > 0 - (n + 1)
      OBVIOUS
    <3> QED
      BY <1>4, <1>t, <2>1, <3>1
  <2>2. ASSUME p = 1, NEW x \in 1..N, q = x + 1 PROVE TurnIn(z, RunAt(g, p)) > TurnIn(z, RunAt(g, q))
    <3>1. RunAt(h, x) \in R /\ RunAt(g, q) = RunAt(h, x) /\ RunAt(g, p) = <<m, m>>
      BY <1>3, <1>4, <2>2
    <3> QED
      BY <3>1, <1>t
  <2>3. ASSUME q = N + 2, NEW x \in 1..N, p = x + 1 PROVE TurnIn(z, RunAt(g, p)) > TurnIn(z, RunAt(g, q))
    <3>1. RunAt(h, x) \in R /\ RunAt(g, p) = RunAt(h, x) /\ RunAt(g, q) = <<m, Null>>
      BY <1>3, <1>4, <2>3
    <3>2. /\ TurnIn(z, <<m, Null>>) < TurnIn(z, RunAt(h, x))
          /\ TurnIn(z, RunAt(h, x)) \in Int /\ TurnIn(z, <<m, Null>>) \in Int
      BY <3>1, <1>t
    <3> QED
      BY <3>1, <3>2
  <2>4. ASSUME NEW x \in 1..N, p = x + 1, NEW y \in 1..N, q = y + 1
        PROVE  TurnIn(z, RunAt(g, p)) > TurnIn(z, RunAt(g, q))
    <3>1. x < y /\ RunAt(g, p) = RunAt(h, x) /\ RunAt(g, q) = RunAt(h, y) /\ RunAt(h, x) \in R /\ RunAt(h, y) \in R
      BY <1>3, <1>4, <1>7, <2>4
    <3>2. TurnIn(s, RunAt(h, x)) > TurnIn(s, RunAt(h, y))
      BY <3>1 DEF ArrayOK
    <3>3. TurnIn(z, RunAt(h, x)) = TurnIn(s, RunAt(h, x)) /\ TurnIn(z, RunAt(h, y)) = TurnIn(s, RunAt(h, y))
      BY <3>1, <1>t
    <3> QED
      BY <3>1, <3>2, <3>3
  <2>5. p # N + 2 /\ q # 1
    BY <1>2, <1>7
  <2> QED
    BY <1>5, <2>1, <2>2, <2>3, <2>4, <2>5
<1>8. ASSUME NEW r \in Q PROVE \E p \in 1..N + 2 : RunAt(g, p) = r
  <2>1. CASE r \in R
    <3>1. PICK p \in 1..N : RunAt(h, p) = r
      BY <2>1 DEF ArrayOK
    <3>2. p + 1 \in 1..N + 2 /\ RunAt(g, p + 1) = r
      BY <1>2, <1>4, <3>1
    <3> QED
      BY <3>2
  <2>2. CASE r \in {<<m, Null>>, <<m, m>>}
    <3>1. 1 \in 1..N + 2 /\ N + 2 \in 1..N + 2
      BY <1>2
    <3> QED
      BY <1>4, <2>2, <3>1
  <2> QED
    BY <1>s, <2>1, <2>2
<1>9. ASSUME NEW p \in 1..N + 2
      PROVE  /\ g.array[p].state_index \in p..N + 2
             /\ g.array[g.array[p].state_index].handle = g.array[p].handle
             /\ g.array[g.array[p].state_index].state_index = g.array[p].state_index
  <2>1. CASE p = 1 \/ p = N + 2
    BY <1>2, <2>1
  <2>2. ASSUME NEW x \in 1..N, p = x + 1
        PROVE  /\ g.array[p].state_index \in p..N + 2
               /\ g.array[g.array[p].state_index].handle = g.array[p].handle
               /\ g.array[g.array[p].state_index].state_index = g.array[p].state_index
    <3>1. PICK y \in 1..N : y = h.array[x].state_index /\ y >= x
      BY <1>n, <1>3
    <3>2. g.array[p].state_index = y + 1 /\ g.array[p].handle = h.array[x].handle
      BY <1>2, <2>2, <3>1
    <3>5. y + 1 \in p..N + 2
      <4> HIDE DEF N
      <4>1. p = x + 1 /\ x <= y /\ y <= N /\ x \in Int /\ y \in Int /\ N \in Int
        BY <1>n, <2>2, <3>1
      <4> QED
        BY <4>1
    <3>3. g.array[y + 1].handle = h.array[y].handle /\ g.array[y + 1].state_index = y + 1
      BY <1>2, <1>3, <3>1
    <3>4. h.array[y].handle = h.array[x].handle
      BY <1>3, <3>1
    <3> QED
      BY <3>2, <3>3, <3>4, <3>5
  <2> QED
    BY <1>5, <2>1, <2>2
<1>10. ArrayOK(g, Q, z)
  BY <1>2, <1>6, <1>7, <1>8, <1>9 DEF ArrayOK
<1> QED
  BY <1>0, <1>1, <1>10, <1>q

\* Taking out an entry that no pair below it reaches over keeps an array in order.
LEMMA RemovedOK ==
  ASSUME NEW h \in HookArray, h.count <= Len(h.array), NEW R, NEW s, ArrayOK(h, R, s),
         \A r \in R : TurnIn(s, r) \in Int,
         NEW v \in 1..h.count, \A p \in 1..h.count : p < v => h.array[p].state_index < v,
         NEW g, g = H!RemoveEntry(h, v)
  PROVE  /\ ArrayOK(g, R \ {RunAt(h, v)}, s)
         /\ \A p \in 1..h.count : p < v => RunAt(g, p) = RunAt(h, p) /\ g.array[p] = h.array[p]
         /\ \A p \in 1..h.count : v < p => RunAt(g, p - 1) = RunAt(h, p)
<1> DEFINE N == h.count
           Q == R \ {RunAt(h, v)}
<1>n. N \in Nat /\ N >= 1 /\ Len(h.array) \in Nat /\ v \in Nat
  BY DEF HookArray
<1>1. /\ g \in HookArray /\ g.count = h.count - 1 /\ Len(g.array) = Len(h.array)
      /\ \A p \in 1..Len(h.array) :
              /\ p < v \/ p > h.count => g.array[p] = h.array[p]
              /\ p = h.count => g.array[p].handle = h.array[p].handle
              /\ v <= p /\ p < h.count =>
                   /\ g.array[p].handle = h.array[p + 1].handle
                   /\ g.array[p].state_index =
                        IF h.array[p + 1].state_index >= p + 1 THEN h.array[p + 1].state_index - 1
                        ELSE h.array[p + 1].state_index
  <2>1. Removed(h, v, g)
    BY RemovedArray
  <2> QED
    BY <2>1 DEF Removed
<1>2. \A p \in 1..N : /\ h.array[p].state_index \in p..N
                      /\ h.array[h.array[p].state_index].handle = h.array[p].handle
                      /\ h.array[h.array[p].state_index].state_index = h.array[p].state_index
                      /\ RunAt(h, p) \in R
  BY DEF ArrayOK
<1>3. ASSUME NEW p \in 1..N, p < v PROVE g.array[p] = h.array[p] /\ RunAt(g, p) = RunAt(h, p)
  <2>1. g.array[p] = h.array[p]
    BY <1>n, <1>1, <1>3
  <2> QED
    BY <2>1 DEF RunAt
<1>4. ASSUME NEW p \in 1..N, v < p
      PROVE  /\ g.array[p - 1].handle = h.array[p].handle
             /\ g.array[p - 1].state_index = h.array[p].state_index - 1
             /\ RunAt(g, p - 1) = RunAt(h, p)
  <2>1. PICK q \in 1..Len(h.array) : q = p - 1 /\ p = q + 1 /\ v <= q /\ q < h.count
    BY <1>n, <1>4
  <2>2. PICK y \in p..N : y = h.array[p].state_index
    BY <1>2
  <2>3. /\ g.array[q].handle = h.array[q + 1].handle
        /\ g.array[q].state_index = IF h.array[q + 1].state_index >= q + 1 THEN h.array[q + 1].state_index - 1
                                    ELSE h.array[q + 1].state_index
    BY <1>1, <2>1
  <2>4. g.array[p - 1].handle = h.array[p].handle /\ g.array[p - 1].state_index = y - 1
    BY <1>n, <2>1, <2>2, <2>3
  <2>5. g.array[p - 1].state_index = p - 1 <=> h.array[p].state_index = p
    BY <1>n, <2>2, <2>4
  <2> QED
    BY <2>2, <2>4, <2>5 DEF RunAt
<1>5. \A p \in 1..N - 1 : p \in 1..N /\ (p < v \/ \E x \in 1..N : v < x /\ p = x - 1)
  <2>1. ASSUME NEW p \in 1..N - 1, ~(p < v) PROVE p + 1 \in 1..N /\ v < p + 1 /\ p = (p + 1) - 1
    BY <1>n, <2>1
  <2>2. \A p \in 1..N - 1 : p \in 1..N
    BY <1>n
  <2> QED
    BY <2>1, <2>2
<1>6. ASSUME NEW p \in 1..N, NEW q \in 1..N, p < q
      PROVE  TurnIn(s, RunAt(h, p)) > TurnIn(s, RunAt(h, q)) /\ RunAt(h, p) # RunAt(h, q)
  <2>1. TurnIn(s, RunAt(h, p)) > TurnIn(s, RunAt(h, q))
    BY <1>6 DEF ArrayOK
  <2>2. TurnIn(s, RunAt(h, p)) \in Int
    BY <1>2
  <2> QED
    BY <2>1, <2>2
<1>7. ASSUME NEW p \in 1..N - 1
      PROVE  \E x \in 1..N : /\ x # v /\ RunAt(g, p) = RunAt(h, x)
                             /\ (p < v /\ x = p) \/ (v < x /\ p = x - 1)
  BY <1>3, <1>4, <1>5, <1>n
<1>8. \A p \in 1..N - 1 : RunAt(g, p) \in Q
  <2> SUFFICES ASSUME NEW p \in 1..N - 1 PROVE RunAt(g, p) \in Q
    OBVIOUS
  <2>1. PICK x \in 1..N : x # v /\ RunAt(g, p) = RunAt(h, x)
    BY <1>7
  <2>2. x < v \/ v < x
    BY <1>n, <2>1
  <2> QED
    BY <1>2, <1>6, <2>1, <2>2
<1>9. ASSUME NEW p \in 1..N - 1, NEW q \in 1..N - 1, p < q
      PROVE  TurnIn(s, RunAt(g, p)) > TurnIn(s, RunAt(g, q))
  <2>1. PICK x \in 1..N : x # v /\ RunAt(g, p) = RunAt(h, x) /\ ((p < v /\ x = p) \/ (v < x /\ p = x - 1))
    BY <1>7
  <2>2. PICK y \in 1..N : y # v /\ RunAt(g, q) = RunAt(h, y) /\ ((q < v /\ y = q) \/ (v < y /\ q = y - 1))
    BY <1>7
  <2>3. x < y
    BY <1>n, <1>9, <2>1, <2>2
  <2> QED
    BY <1>6, <2>1, <2>2, <2>3
<1>10. ASSUME NEW r \in Q PROVE \E p \in 1..N - 1 : RunAt(g, p) = r
  <2>1. PICK x \in 1..N : RunAt(h, x) = r /\ x # v
    BY DEF ArrayOK
  <2>2. CASE x < v
    <3>1. x \in 1..N - 1
      BY <1>n, <2>2
    <3> QED
      BY <1>3, <2>1, <2>2, <3>1
  <2>3. CASE v < x
    <3>1. x - 1 \in 1..N - 1
      BY <1>n, <2>3
    <3> QED
      BY <1>4, <2>1, <2>3, <3>1
  <2> QED
    BY <1>n, <2>1, <2>2, <2>3
<1>11. ASSUME NEW p \in 1..N - 1
      PROVE  /\ g.array[p].state_index \in p..N - 1
             /\ g.array[g.array[p].state_index].handle = g.array[p].handle
             /\ g.array[g.array[p].state_index].state_index = g.array[p].state_index
  <2>1. CASE p < v
    <3>0. p \in 1..N
      BY <1>n
    <3>1. PICK y \in p..N : y = h.array[p].state_index /\ y < v
      BY <1>2, <2>1, <3>0
    <3>2. y \in 1..N /\ y \in p..N - 1 /\ p \in 1..N
      BY <1>n, <3>1
    <3>3. h.array[y].handle = h.array[p].handle /\ h.array[y].state_index = y
      BY <1>2, <3>1, <3>2
    <3>4. g.array[p] = h.array[p] /\ g.array[y] = h.array[y]
      BY <1>3, <2>1, <3>1, <3>2
    <3> QED
      BY <3>1, <3>2, <3>3, <3>4
  <2>2. ASSUME NEW x \in 1..N, v < x, p = x - 1
        PROVE  /\ g.array[p].state_index \in p..N - 1
               /\ g.array[g.array[p].state_index].handle = g.array[p].handle
               /\ g.array[g.array[p].state_index].state_index = g.array[p].state_index
    <3>1. PICK y \in x..N : y = h.array[x].state_index
      BY <1>2
    <3>2. y \in 1..N /\ v < y /\ y - 1 \in p..N - 1
      BY <1>n, <2>2, <3>1
    <3>3. h.array[y].handle = h.array[x].handle /\ h.array[y].state_index = y
      BY <1>2, <3>1
    <3>4. g.array[p].handle = h.array[x].handle /\ g.array[p].state_index = y - 1
      BY <1>4, <2>2, <3>1
    <3>5. g.array[y - 1].handle = h.array[y].handle /\ g.array[y - 1].state_index = y - 1
      BY <1>4, <3>2, <3>3
    <3> QED
      BY <3>2, <3>3, <3>4, <3>5
  <2> QED
    BY <1>5, <2>1, <2>2
<1>12. ArrayOK(g, Q, s)
  <2>1. g.count = N - 1
    BY <1>1
  <2> QED
    BY <2>1, <1>8, <1>9, <1>10, <1>11 DEF ArrayOK
<1> QED
  BY <1>3, <1>4, <1>12

\* The victim of a round of reorganize_hooks is the lowest one.
LEMMA LowestOf ==
  ASSUME NEW V, V \subseteq Nat, V # {}
  PROVE  H!Min(V) \in V /\ \A x \in V : H!Min(V) <= x
<1>1. PICK v \in V : \A x \in V : <<x, v>> \notin OpToRel(<, Nat)
  BY NatLessThanWellFounded, WFMin, Zenon
<1>2. \A x \in V : ~(x < v)
  BY <1>1 DEF OpToRel
<1>3. \A x \in V : v <= x
  BY <1>2
<1> QED
  BY <1>1, <1>3, Zenon DEF H!Min

\* An array that m is leaving: it has runs of m and of the modules that are kept,
\* and no wrapping hook was registered after that of m.
Leaving(h, R, s, m, kept) ==
  /\ h \in HookArray /\ h.count <= Len(h.array) /\ R \subseteq Handles \X Contexts
  /\ ArrayOK(h, R, s)
  /\ \A r \in R : /\ r[1] \in kept \cup {Default, m}
                  /\ r[2] = Null \/ (r[2] = r[1] /\ r[1] \in Wrapping)
                  /\ r[1] \in Wrapping => s[r[1]] <= s[m]

\* The turn of a run of module x
LEMMA TurnOf ==
  ASSUME H!ConstantsOK, NEW s \in [HookModules -> Nat], NEW r \in Handles \X Contexts
  PROVE  /\ TurnIn(s, r) \in Int
         /\ r[1] = Default => TurnIn(s, r) = 0
         /\ r[1] # Default => r[1] \in HookModules /\ s[r[1]] \in Nat
         /\ r[1] # Default /\ r[2] = Null => TurnIn(s, r) = 0 - s[r[1]]
         /\ r[1] # Default /\ r[2] # Null => TurnIn(s, r) = s[r[1]]
<1>1. r[1] \in Handles
  OBVIOUS
<1>2. r[1] # Default => r[1] \in HookModules /\ s[r[1]] \in Nat
  BY <1>1 DEF Handles
<1> QED
  BY <1>2 DEF TurnIn

\* No pair below the lowest entry of m reaches over it, and both entries of a
\* wrapping hook are below the entry of a plain hook that was registered later.
LEMMA NothingCrosses ==
  ASSUME H!ConstantsOK, NEW s \in [HookModules -> Nat], NEW m \in HookModules, NEW kept, m \notin kept,
         NEW h, NEW R, Leaving(h, R, s, m, kept),
         NEW v \in 1..h.count, h.array[v].handle = m,
         NEW p \in 1..h.count, p # v, h.array[p].handle # m
  PROVE  /\ p < v => h.array[p].state_index < v
         /\ m \notin Wrapping /\ h.array[p].handle \in Wrapping => p < v
<1>n. h.count \in Nat
  BY DEF Leaving, HookArray
<1>1. \A q \in 1..h.count : /\ h.array[q].state_index \in q..h.count
                            /\ h.array[h.array[q].state_index].handle = h.array[q].handle
                            /\ h.array[h.array[q].state_index].state_index = h.array[q].state_index
                            /\ RunAt(h, q) \in R
  BY DEF Leaving, ArrayOK
<1>2. \A x, y \in 1..h.count : x < y => TurnIn(s, RunAt(h, x)) > TurnIn(s, RunAt(h, y))
  BY DEF Leaving, ArrayOK
<1>3. \A r \in R : /\ r \in Handles \X Contexts
                   /\ r[2] = Null \/ (r[2] = r[1] /\ r[1] \in Wrapping)
                   /\ r[1] \in Wrapping => s[r[1]] <= s[m]
  BY DEF Leaving
<1>4. m # Default /\ m # Null /\ s[m] \in Nat /\ Default \notin Wrapping
  BY DEF H!ConstantsOK
<1>5. \A q \in 1..h.count : RunAt(h, q)[1] = h.array[q].handle
  BY DEF RunAt
<1>6. TurnIn(s, RunAt(h, v)) = 0 - s[m] \/ (m \in Wrapping /\ TurnIn(s, RunAt(h, v)) = s[m])
  <2>1. RunAt(h, v) \in Handles \X Contexts /\ RunAt(h, v)[1] = m
    BY <1>1, <1>3, <1>5
  <2>2. RunAt(h, v)[2] # Null => m \in Wrapping
    BY <1>1, <1>3, <2>1
  <2>3. RunAt(h, v)[2] = Null => TurnIn(s, RunAt(h, v)) = 0 - s[m]
    BY <1>4, <2>1, TurnOf
  <2>4. RunAt(h, v)[2] # Null => TurnIn(s, RunAt(h, v)) = s[m]
    BY <1>4, <2>1, TurnOf
  <2> QED
    BY <2>2, <2>3, <2>4
<1>7. ASSUME p < v, ~(h.array[p].state_index < v) PROVE FALSE
  <2>1. PICK y \in 1..h.count : y = h.array[p].state_index /\ y >= v
    BY <1>n, <1>1, <1>7
  <2>2. h.array[y].handle = h.array[p].handle /\ h.array[y].state_index = y /\ v < y /\ y # p
    <3>1. h.array[y].handle = h.array[p].handle /\ h.array[y].state_index = y
      BY <1>1, <2>1
    <3> QED
      BY <1>n, <1>7, <2>1, <3>1
  <2> DEFINE w == h.array[p].handle
  <2>3. RunAt(h, y) = <<w, Null>> /\ RunAt(h, p) = <<w, w>> /\ RunAt(h, y) \in R /\ RunAt(h, p) \in R
    BY <1>1, <2>1, <2>2 DEF RunAt
  <2> HIDE DEF w
  <2>4. <<w, Null>> \in Handles \X Contexts /\ <<w, w>> \in Handles \X Contexts
        /\ (w # Null => w \in Wrapping /\ s[w] <= s[m])
    BY <1>3, <2>3
  <2>5. TurnIn(s, <<w, w>>) > TurnIn(s, RunAt(h, v)) /\ TurnIn(s, RunAt(h, v)) > TurnIn(s, <<w, Null>>)
    BY <1>2, <1>7, <2>2, <2>3
  <2>6. CASE w = Default \/ w = Null
    <3>1. TurnIn(s, <<w, w>>) = TurnIn(s, <<w, Null>>) /\ TurnIn(s, <<w, w>>) \in Int
      BY <2>4, <2>6, TurnOf DEF TurnIn
    <3> QED
      BY <1>4, <1>6, <2>5, <3>1
  <2>7. CASE w # Default /\ w # Null
    <3>1. TurnIn(s, <<w, w>>) = s[w] /\ TurnIn(s, <<w, Null>>) = 0 - s[w] /\ s[w] \in Nat
      <4>1. <<w, w>>[1] = w /\ <<w, w>>[2] = w /\ <<w, Null>>[1] = w /\ <<w, Null>>[2] = Null
        OBVIOUS
      <4>2. TurnIn(s, <<w, w>>) = s[w] /\ s[w] \in Nat
        BY <2>4, <2>7, <4>1, TurnOf
      <4>3. TurnIn(s, <<w, Null>>) = 0 - s[w]
        BY <2>4, <2>7, <4>1, TurnOf
      <4> QED
        BY <4>2, <4>3
    <3>2. s[w] <= s[m]
      BY <2>4, <2>7
    <3> QED
      BY <1>4, <1>6, <2>5, <3>1, <3>2
  <2> QED
    BY <2>6, <2>7
<1>8. ASSUME m \notin Wrapping, h.array[p].handle \in Wrapping, v < p PROVE FALSE
  <2> DEFINE w == h.array[p].handle
  <2>1. /\ RunAt(h, p) \in Handles \X Contexts /\ RunAt(h, p)[1] = w /\ w # Default /\ s[w] <= s[m]
    BY <1>1, <1>3, <1>4, <1>5, <1>8
  <2>2. s[w] \in Nat /\ (TurnIn(s, RunAt(h, p)) = 0 - s[w] \/ TurnIn(s, RunAt(h, p)) = s[w])
    <3> HIDE DEF w
    <3>1. s[w] \in Nat
      BY <2>1, TurnOf
    <3>2. RunAt(h, p)[2] = Null => TurnIn(s, RunAt(h, p)) = 0 - s[w]
      BY <2>1, TurnOf
    <3>3. RunAt(h, p)[2] # Null => TurnIn(s, RunAt(h, p)) = s[w]
      BY <2>1, TurnOf
    <3> QED
      BY <3>1, <3>2, <3>3
  <2>3. TurnIn(s, RunAt(h, v)) > TurnIn(s, RunAt(h, p))
    BY <1>2, <1>8
  <2> HIDE DEF w
  <2> QED
    BY <1>4, <1>6, <1>8, <2>1, <2>2, <2>3
<1> QED
  BY <1>n, <1>1, <1>7, <1>8

\* What of omni's own entries survives
SelfStays(h, g) ==
  /\ Len(g.array) = Len(h.array)
  /\ \A p \in 1..Len(h.array) : SelfAt(g, p) <=> SelfAt(h, p)
  /\ \A p \in 1..h.count : SelfAt(h, p) => p <= g.count /\ g.array[p] = h.array[p]

\* The runs of m in an array, and how a round of reorganize_hooks changes them
RunsOf(R, m) == {r \in R : r[1] = m}

\* A round of reorganize_hooks takes out one run of m, if there is any.
LEMMA RoundOK ==
  ASSUME H!ConstantsOK, NEW s \in [HookModules -> Nat], NEW m \in HookModules, NEW kept, m \notin kept,
         NEW h, NEW R, Leaving(h, R, s, m, kept), NEW g, g = H!RemoveLowest(h, kept)
  PROVE  \E Q : /\ Leaving(g, Q, s, m, kept)
                /\ \/ RunsOf(R, m) = {} /\ Q = R /\ g = h
                   \/ \E r \in RunsOf(R, m) : Q = R \ {r}
                /\ m \notin Wrapping => SelfStays(h, g)
<1> DEFINE V == {i \in 1..h.count : h.array[i].handle \notin kept \cup {Default}}
<1>1. /\ h \in HookArray /\ h.count <= Len(h.array) /\ R \subseteq Handles \X Contexts
      /\ h.count \in Nat /\ Len(h.array) \in Nat /\ ArrayOK(h, R, s)
      /\ \A q \in 1..h.count : RunAt(h, q) \in R
      /\ \A r \in R : \E q \in 1..h.count : RunAt(h, q) = r
  BY DEF Leaving, HookArray, ArrayOK
<1>2. \A q \in 1..h.count : RunAt(h, q)[1] = h.array[q].handle
  BY DEF RunAt
<1>3. m # Default /\ Self \in Wrapping
  BY DEF H!ConstantsOK
<1>4. \A i \in 1..h.count : i \in V <=> h.array[i].handle = m
  BY <1>1, <1>2, <1>3 DEF Leaving
<1>5. CASE V = {}
  <2>1. g = h
    BY <1>5 DEF H!RemoveLowest, H!Victims
  <2>2. RunsOf(R, m) = {}
    BY <1>1, <1>2, <1>4, <1>5 DEF RunsOf
  <2>3. SelfStays(h, h)
    BY <1>1 DEF SelfStays
  <2> QED
    BY <2>1, <2>2, <2>3
<1>6. CASE V # {}
  <2>0. V \subseteq Nat
    BY <1>1
  <2>1. PICK v \in V : v = H!Min(V) /\ \A x \in V : v <= x
    <3> HIDE DEF V
    <3> QED
      BY <1>6, <2>0, LowestOf
  <2>2. g = H!RemoveEntry(h, v) /\ v \in 1..h.count /\ h.array[v].handle = m
    BY <1>4, <1>6, <2>1 DEF H!RemoveLowest, H!Victims
  <2>3. ASSUME NEW p \in 1..h.count, p < v PROVE h.array[p].state_index < v
    <3>1. p # v /\ ~(v <= p)
      BY <1>1, <2>2, <2>3
    <3>2. p \notin V
      <4> HIDE DEF V
      <4> QED
        BY <2>1, <3>1
    <3>3. h.array[p].handle # m
      <4> HIDE DEF V
      <4> QED
        BY <1>4, <3>2
    <3> QED
      BY <2>2, <2>3, <3>1, <3>3, NothingCrosses
  <2>4. \A r \in R : TurnIn(s, r) \in Int
    BY <1>1, TurnOf
  <2> HIDE DEF V
  <2>5. ArrayOK(g, R \ {RunAt(h, v)}, s)
    BY <1>1, <2>2, <2>3, <2>4, RemovedOK
  <2>a. h \in HookArray /\ h.count <= Len(h.array) /\ v \in 1..h.count /\ g = H!RemoveEntry(h, v)
    BY <1>1, <2>2
  <2>6. /\ g \in HookArray /\ g.count = h.count - 1 /\ Len(g.array) = Len(h.array)
        /\ \A p \in 1..Len(h.array) :
              /\ p < v \/ p > h.count => g.array[p] = h.array[p]
              /\ p = h.count => g.array[p].handle = h.array[p].handle
              /\ v <= p /\ p < h.count =>
                   /\ g.array[p].handle = h.array[p + 1].handle
                   /\ g.array[p].state_index =
                        IF h.array[p + 1].state_index >= p + 1 THEN h.array[p + 1].state_index - 1
                        ELSE h.array[p + 1].state_index
    <3>1. Removed(h, v, g)
      BY <2>a, RemovedArray
    <3> QED
      BY <3>1 DEF Removed
  <2>7. Leaving(g, R \ {RunAt(h, v)}, s, m, kept)
    BY <1>1, <2>5, <2>6 DEF Leaving
  <2>8. RunAt(h, v) \in RunsOf(R, m)
    BY <1>1, <1>2, <2>2 DEF RunsOf
  <2>9. ASSUME m \notin Wrapping PROVE SelfStays(h, g)
    <3>1. ASSUME NEW p \in 1..h.count, SelfAt(h, p) PROVE p < v
      <4>1. h.array[p].handle # m /\ p # v /\ h.array[p].handle \in Wrapping
        BY <1>3, <2>2, <2>9, <3>1 DEF SelfAt
      <4> QED
        BY <2>2, <2>9, <4>1, NothingCrosses
    <3>2. ASSUME NEW p \in 1..Len(h.array) PROVE SelfAt(g, p) <=> SelfAt(h, p)
      <4>1. CASE p < v \/ p >= h.count
        BY <1>1, <2>6, <4>1 DEF SelfAt
      <4>2. CASE v <= p /\ p < h.count
        <5>1. p \in 1..h.count /\ p + 1 \in 1..h.count /\ ~(p < v) /\ ~(p + 1 < v)
          BY <1>1, <2>2, <4>2
        <5>2. ~SelfAt(h, p) /\ ~SelfAt(h, p + 1)
          BY <3>1, <5>1
        <5> QED
          BY <2>6, <4>2, <5>2 DEF SelfAt
      <4> QED
        BY <1>1, <2>2, <4>1, <4>2
    <3>3. ASSUME NEW p \in 1..h.count, SelfAt(h, p) PROVE p <= g.count /\ g.array[p] = h.array[p]
      <4>1. p < v
        BY <3>1, <3>3
      <4>2. p \in 1..Len(h.array) /\ p <= h.count - 1
        BY <1>1, <2>2, <4>1
      <4>3. g.count = h.count - 1 /\ g.array[p] = h.array[p]
        BY <2>6, <4>1, <4>2
      <4> QED
        BY <4>2, <4>3
    <3> QED
      BY <2>6, <3>2, <3>3 DEF SelfStays
  <2> QED
    BY <2>7, <2>8, <2>9
<1> QED
  BY <1>5, <1>6

\* reorganize_hooks takes out all runs of m.
LEMMA ReorganizeOK ==
  ASSUME H!ConstantsOK, NEW s \in [HookModules -> Nat], NEW m \in HookModules, NEW kept, m \notin kept,
         NEW h, NEW R, Leaving(h, R, s, m, kept), NEW g, g = H!Reorganize(h, kept)
  PROVE  /\ ArrayOK(g, R \ RunsOf(R, m), s)
         /\ RunsOf(R, m) = {} => g = h
         /\ m \notin Wrapping => SelfStays(h, g)
<1>1. PICK k : k = H!RemoveLowest(h, kept)
  OBVIOUS
<1>2. PICK P : /\ Leaving(k, P, s, m, kept)
               /\ \/ RunsOf(R, m) = {} /\ P = R /\ k = h
                  \/ \E r \in RunsOf(R, m) : P = R \ {r}
               /\ m \notin Wrapping => SelfStays(h, k)
  BY <1>1, RoundOK
<1>3. g = H!RemoveLowest(k, kept)
  BY <1>1 DEF H!Reorganize
<1>4. PICK Q : /\ Leaving(g, Q, s, m, kept)
               /\ \/ RunsOf(P, m) = {} /\ Q = P /\ g = k
                  \/ \E r \in RunsOf(P, m) : Q = P \ {r}
               /\ m \notin Wrapping => SelfStays(k, g)
  BY <1>2, <1>3, RoundOK
<1>5. RunsOf(R, m) \subseteq {<<m, Null>>, <<m, m>>}
  <2> SUFFICES ASSUME NEW r \in R, r[1] = m PROVE r \in {<<m, Null>>, <<m, m>>}
    BY DEF RunsOf
  <2>1. r \in Handles \X Contexts /\ (r[2] = Null \/ r[2] = r[1])
    BY DEF Leaving
  <2>2. r = <<r[1], r[2]>>
    BY <2>1
  <2> QED
    BY <2>1, <2>2
<1>6. Q = R \ RunsOf(R, m)
  <2>1. CASE RunsOf(R, m) = {} /\ P = R
    BY <1>4, <2>1 DEF RunsOf
  <2>2. ASSUME NEW r \in RunsOf(R, m), P = R \ {r} PROVE Q = R \ RunsOf(R, m)
    <3>1. RunsOf(P, m) = RunsOf(R, m) \ {r}
      BY <2>2 DEF RunsOf
    <3>2. CASE RunsOf(P, m) = {} /\ Q = P
      BY <2>2, <3>1, <3>2
    <3>3. ASSUME NEW x \in RunsOf(P, m), Q = P \ {x} PROVE Q = R \ RunsOf(R, m)
      <4>1. RunsOf(R, m) = {r, x}
        BY <1>5, <2>2, <3>1, <3>3
      <4> QED
        BY <2>2, <3>3, <4>1
    <3> QED
      BY <1>4, <3>2, <3>3
  <2> QED
    BY <1>2, <2>1, <2>2
<1>7. RunsOf(R, m) = {} => g = h
  BY <1>2, <1>4
<1>8. ASSUME m \notin Wrapping PROVE SelfStays(h, g)
  <2>1. SelfStays(h, k) /\ SelfStays(k, g)
    BY <1>2, <1>4, <1>8
  <2>2. h.count \in Nat /\ k.count \in Nat
    BY <1>2 DEF Leaving, HookArray
  <2>3. ASSUME NEW p \in 1..h.count, SelfAt(h, p) PROVE p <= g.count /\ g.array[p] = h.array[p]
    <3>1. p <= k.count /\ k.array[p] = h.array[p]
      BY <2>1, <2>3 DEF SelfStays
    <3>2. p \in 1..k.count /\ SelfAt(k, p)
      BY <2>2, <2>3, <3>1 DEF SelfAt
    <3> QED
      BY <2>1, <3>1, <3>2 DEF SelfStays
  <2>4. Len(g.array) = Len(h.array) /\ \A p \in 1..Len(h.array) : SelfAt(g, p) <=> SelfAt(h, p)
    BY <2>1 DEF SelfStays
  <2> QED
    BY <2>3, <2>4 DEF SelfStays
<1> QED
  BY <1>4, <1>6, <1>7, <1>8 DEF Leaving

\* The types of the arrays
LEMMA ReorganizeTypes ==
  ASSUME NEW h \in HookArray, h.count <= Len(h.array), NEW kept, NEW g,
         g = H!Reorganize(h, kept) \/ g = H!RemoveLowest(h, kept)
  PROVE  g \in HookArray /\ g.count <= Len(g.array)
<1>1. ASSUME NEW k \in HookArray, k.count <= Len(k.array), NEW l, l = H!RemoveLowest(k, kept)
      PROVE  l \in HookArray /\ l.count <= Len(l.array)
  <2> DEFINE V == {i \in 1..k.count : k.array[i].handle \notin kept \cup {Default}}
  <2>1. k.count \in Nat /\ Len(k.array) \in Nat
    BY DEF HookArray
  <2>2. CASE V = {}
    BY <1>1, <2>2 DEF H!RemoveLowest, H!Victims
  <2>3. CASE V # {}
    <3>0. V \subseteq Nat
      BY <2>1
    <3>1. PICK v \in V : v = H!Min(V)
      <4> HIDE DEF V
      <4> QED
        BY <2>3, <3>0, LowestOf
    <3>2. l = H!RemoveEntry(k, v) /\ v \in 1..k.count
      BY <1>1, <2>3, <3>1 DEF H!RemoveLowest, H!Victims
    <3>3. l \in HookArray /\ l.count = k.count - 1 /\ Len(l.array) = Len(k.array)
      <4>1. Removed(k, v, l)
        BY <1>1, <3>2, RemovedArray
      <4> QED
        BY <4>1 DEF Removed
    <3> QED
      BY <1>1, <2>1, <3>3
  <2> QED
    BY <2>2, <2>3
<1> QED
  BY <1>1 DEF H!Reorganize

\* The runs of a dispatch of type t, if the modules M are loaded
RunsIn(M, t) ==
  LET hooks == {m \in M : HookType[m] = t}
  IN  {<<m, Null>> : m \in hooks} \cup {<<m, m>> : m \in hooks \cap Wrapping}
        \cup (IF t \in DefaultTypes THEN {<<Default, Null>>} ELSE {})

----------------------------------------------------------------------------
(* Hooks: the arrays stay in order                                         *)

\* The runs of the modules now and after a step
LEMMA RunsInNow == ASSUME NEW t PROVE H!Runs(t) = RunsIn(H!Registered, t) /\ H!Registered \subseteq HookModules
  BY DEF H!Runs, RunsIn, H!Registered

LEMMA RunsInNext == ASSUME NEW t PROVE H!Runs(t)' = RunsIn(H!Registered', t) /\ H!Registered' \subseteq HookModules
  BY DEF H!Runs, RunsIn, H!Registered

\* What the runs of modules M are
LEMMA RunsInAre ==
  ASSUME H!ConstantsOK, NEW M, M \subseteq HookModules, NEW t
  PROVE  /\ RunsIn(M, t) \subseteq Handles \X Contexts
         /\ \A r \in RunsIn(M, t) :
              /\ r[1] = Default \/ (r[1] \in M /\ HookType[r[1]] = t)
              /\ r[2] = Null \/ (r[2] = r[1] /\ r[1] \in Wrapping)
         /\ \A m \in M : HookType[m] = t => <<m, Null>> \in RunsIn(M, t)
         /\ \A m \in M \cap Wrapping : HookType[m] = t => <<m, m>> \in RunsIn(M, t)
<1>1. ASSUME NEW r \in RunsIn(M, t)
      PROVE  /\ r \in Handles \X Contexts
             /\ r[1] = Default \/ (r[1] \in M /\ HookType[r[1]] = t)
             /\ r[2] = Null \/ (r[2] = r[1] /\ r[1] \in Wrapping)
  <2>1. \/ \E m \in M : HookType[m] = t /\ r = <<m, Null>>
        \/ \E m \in M : HookType[m] = t /\ m \in Wrapping /\ r = <<m, m>>
        \/ r = <<Default, Null>>
    BY <1>1 DEF RunsIn
  <2>2. ASSUME NEW m \in M, HookType[m] = t, r = <<m, Null>> \/ (m \in Wrapping /\ r = <<m, m>>)
        PROVE  /\ r \in Handles \X Contexts /\ r[1] = m /\ m \in M /\ HookType[m] = t
               /\ r[2] = Null \/ (r[2] = m /\ m \in Wrapping)
    BY <2>2 DEF Handles, Contexts
  <2>3. CASE r = <<Default, Null>>
    BY <2>3 DEF Handles, Contexts
  <2> QED
    BY <2>1, <2>2, <2>3
<1>2. \A m \in M : HookType[m] = t => <<m, Null>> \in RunsIn(M, t)
  BY DEF RunsIn
<1>3. \A m \in M \cap Wrapping : HookType[m] = t => <<m, m>> \in RunsIn(M, t)
  BY DEF RunsIn
<1> QED
  BY <1>1, <1>2, <1>3

\* The runs once m is loaded
LEMMA RunsWith ==
  ASSUME NEW M, NEW m, NEW t
  PROVE  /\ HookType[m] # t => RunsIn(M \cup {m}, t) = RunsIn(M, t)
         /\ HookType[m] = t => RunsIn(M \cup {m}, t) = WithRuns(RunsIn(M, t), m)
<1> DEFINE arrays == {x \in M : HookType[x] = t}
           G == {x \in M \cup {m} : HookType[x] = t}
           D == IF t \in DefaultTypes THEN {<<Default, Null>>} ELSE {}
<1>1. /\ RunsIn(M, t) = {<<x, Null>> : x \in arrays} \cup {<<x, x>> : x \in arrays \cap Wrapping} \cup D
      /\ RunsIn(M \cup {m}, t) = {<<x, Null>> : x \in G} \cup {<<x, x>> : x \in G \cap Wrapping} \cup D
  BY DEF RunsIn
<1>2. (HookType[m] # t => G = arrays) /\ (HookType[m] = t => G = arrays \cup {m})
  OBVIOUS
<1> HIDE DEF arrays, G, D
<1>3. CASE HookType[m] # t
  BY <1>1, <1>2, <1>3
<1>4. CASE HookType[m] = t /\ m \notin Wrapping
  <2>1. G \cap Wrapping = arrays \cap Wrapping
    BY <1>2, <1>4
  <2>2. {<<x, Null>> : x \in G} = {<<x, Null>> : x \in arrays} \cup {<<m, Null>>}
    BY <1>2, <1>4
  <2> QED
    BY <1>1, <1>4, <2>1, <2>2 DEF WithRuns
<1>5. CASE HookType[m] = t /\ m \in Wrapping
  <2>1. {<<x, x>> : x \in G \cap Wrapping} = {<<x, x>> : x \in arrays \cap Wrapping} \cup {<<m, m>>}
    BY <1>2, <1>5
  <2>2. {<<x, Null>> : x \in G} = {<<x, Null>> : x \in arrays} \cup {<<m, Null>>}
    BY <1>2, <1>5
  <2> QED
    BY <1>1, <1>5, <2>1, <2>2 DEF WithRuns
<1> QED
  BY <1>3, <1>4, <1>5

\* The runs once m is unloaded
LEMMA RunsWithout ==
  ASSUME H!ConstantsOK, NEW M, NEW m \in HookModules, NEW t
  PROVE  RunsIn(M \ {m}, t) = RunsIn(M, t) \ RunsOf(RunsIn(M, t), m)
<1>0. m # Default
  BY DEF H!ConstantsOK
<1>1. ASSUME NEW r \in RunsIn(M \ {m}, t) PROVE r \in RunsIn(M, t) /\ r[1] # m
  BY <1>0, <1>1 DEF RunsIn
<1>2. ASSUME NEW r \in RunsIn(M, t), r[1] # m PROVE r \in RunsIn(M \ {m}, t)
  BY <1>2 DEF RunsIn
<1> QED
  BY <1>1, <1>2 DEF RunsOf

\* Only the turns of its runs matter to an array.
LEMMA SameTurns ==
  ASSUME NEW h, NEW R, NEW s, NEW z, ArrayOK(h, R, s), \A r \in R : TurnIn(z, r) = TurnIn(s, r)
  PROVE  ArrayOK(h, R, z)
<1>1. \A p \in 1..h.count : RunAt(h, p) \in R
  BY DEF ArrayOK
<1> QED
  BY <1>1 DEF ArrayOK

\* The numbers of the loads of all but m are the same.
SameBut(z, s, m) == \A x \in HookModules \ {m} : z[x] = s[x]

\* A load or an unload of m does not change the turns of others.
LEMMA OthersTurns ==
  ASSUME H!ConstantsOK, NEW s \in [HookModules -> Nat], NEW m \in HookModules,
         NEW z, SameBut(z, s, m), NEW r \in Handles \X Contexts, r[1] # m
  PROVE  TurnIn(z, r) = TurnIn(s, r)
<1>1. r[1] # Default => z[r[1]] = s[r[1]]
  BY DEF Handles, SameBut
<1> QED
  BY <1>1 DEF TurnIn

\* The numbers of the loads
LEMMA SinceKept ==
  ASSUME H!ConstantsOK, SinceOK, [H!Next]_H!vars
  PROVE  SinceOK'
<1>1. ASSUME NEW m \in HookModules, H!LoadModule(m) PROVE SinceOK'
  BY <1>1 DEF SinceOK, H!LoadModule
<1>2. ASSUME NEW m \in HookModules, H!UnloadModule(m) PROVE SinceOK'
  <2>1. /\ since' = [x \in HookModules |-> IF x \in hook_modules' THEN since[x] ELSE 0]
        /\ loads' = loads
    BY <1>2 DEF H!UnloadModule
  <2> QED
    BY <2>1 DEF SinceOK
<1>3. CASE UNCHANGED <<since, loads>>
  BY <1>3 DEF SinceOK
<1>4. CASE H!FreshBackend /\ UNCHANGED loads
  BY <1>4 DEF SinceOK, H!FreshBackend
<1>5. \/ \E m \in HookModules : H!LoadModule(m) \/ H!UnloadModule(m)
      \/ UNCHANGED <<since, loads>>
      \/ H!FreshBackend /\ UNCHANGED loads
  BY Zenon DEF H!Next, H!vars, H!registry, H!ListModule, H!RaiseError, H!PurgeRound, H!Dispatch, H!CallHook,
     H!CallBehindArray, H!ReturnHook, H!EndDispatch
<1> QED
  BY <1>1, <1>2, <1>3, <1>4, <1>5

\* The arrays after a load
LEMMA ArraysLoaded ==
  ASSUME H!ConstantsOK, HookTypes, SinceOK, ArraysOK, NEW m \in HookModules, H!LoadModule(m)
  PROVE  ArraysOK'
<1> DEFINE T == HookType[m]
           M == H!Registered
<1>0. /\ since' = Loaded(since, m, loads) /\ since \in [HookModules -> Nat] /\ loads \in Nat
      /\ since' = [since EXCEPT ![m] = loads + 1]
  BY DEF H!LoadModule, SinceOK, Loaded
<1>b. HookType[m] \in exposed' \/ m \notin M
  BY DEF H!LoadModule
<1>c. exposed \subseteq exposed'
  BY DEF H!LoadModule
<1>d. H!Registered' = M \cup {m}
  BY <1>0 DEF H!Registered
<1>1. /\ H!Registered' = M \cup {m} /\ since' = Loaded(since, m, loads)
      /\ M \subseteq HookModules /\ since \in [HookModules -> Nat] /\ loads \in Nat
      /\ since' = [since EXCEPT ![m] = loads + 1]
  BY <1>0, <1>d, RunsInNow
<1>a. SameBut(since', since, m)
  BY <1>1 DEF SameBut
<1>2. T \in Types /\ \A t \in Types : hook_entry_points'[t] =
        IF t = T THEN H!RegisterHook(hook_entry_points[t], m) ELSE hook_entry_points[t]
  BY DEF H!LoadModule, HookTypes, H!ConstantsOK
<1> SUFFICES ASSUME NEW t \in Types \ exposed'
             PROVE  ArrayOK(hook_entry_points'[t], RunsIn(M \cup {m}, t), since')
  BY <1>1, RunsInNext DEF ArraysOK
<1>e. t \in Types \ exposed /\ (m \in M => HookType[m] # t)
  BY <1>b, <1>c
<1> HIDE DEF M
<1>3. PICK h \in HookArray : h = hook_entry_points[t] /\ h.count <= Len(h.array)
  BY DEF HookTypes
<1>4. PICK R : R = RunsIn(M, t)
  OBVIOUS
<1>5. ArrayOK(h, R, since)
  BY <1>3, <1>4, <1>e, RunsInNow DEF ArraysOK, M
<1>6. \A r \in R : r \in Handles \X Contexts /\ (r[1] = Default \/ (r[1] \in M /\ HookType[r[1]] = t))
  BY <1>1, <1>4, RunsInAre
<1>7. Before(R, since, loads, m)
  <2>1. m # Default
    BY DEF H!ConstantsOK
  <2>2. \A x \in HookModules : since[x] \in 0..loads
    BY DEF SinceOK
  <2>3. \A r \in R : r[1] \in Handles /\ (r[1] = Default \/ (r[1] \in M /\ HookType[r[1]] = t))
    BY <1>6
  <2> QED
    BY <1>1, <1>e, <2>1, <2>2, <2>3 DEF Before
<1>8. CASE t # T
  <2>1. RunsIn(M \cup {m}, t) = R
    BY <1>4, <1>8, RunsWith
  <2>4. hook_entry_points'[t] = h
    BY <1>2, <1>3, <1>8
  <2>2. \A r \in R : r \in Handles \X Contexts /\ r[1] # m
    BY <1>1, <1>6, <1>8 DEF H!ConstantsOK
  <2>3. \A r \in R : TurnIn(since', r) = TurnIn(since, r)
    BY <1>1, <1>a, <2>2, OthersTurns
  <2> QED
    BY <1>5, <2>1, <2>3, <2>4, SameTurns
<1>9. CASE t = T /\ m \notin Wrapping
  <2>1. RunsIn(M \cup {m}, t) = WithRuns(R, m)
    BY <1>4, <1>9, RunsWith
  <2>2. hook_entry_points'[t] = H!RegisterPlain(h, m)
    BY <1>2, <1>3, <1>9 DEF H!RegisterHook
  <2>3. ArrayOK(H!RegisterPlain(h, m), WithRuns(R, m), Loaded(since, m, loads))
    BY <1>1, <1>3, <1>5, <1>7, <1>9, PlainOK
  <2> QED
    BY <1>1, <2>1, <2>2, <2>3
<1>10. CASE t = T /\ m \in Wrapping
  <2>1. RunsIn(M \cup {m}, t) = WithRuns(R, m)
    BY <1>4, <1>10, RunsWith
  <2>2. hook_entry_points'[t] = H!RegisterWrap(h, m)
    BY <1>2, <1>3, <1>10 DEF H!RegisterHook
  <2>3. ArrayOK(H!RegisterWrap(h, m), WithRuns(R, m), Loaded(since, m, loads))
    BY <1>1, <1>3, <1>5, <1>7, <1>10, WrapOK
  <2> QED
    BY <1>1, <2>1, <2>2, <2>3
<1> QED
  BY <1>8, <1>9, <1>10

\* The arrays after an unload
LEMMA ArraysUnloaded ==
  ASSUME H!ConstantsOK, HookTypes, SinceOK, ArraysOK, NEW m \in HookModules, H!UnloadModule(m)
  PROVE  /\ ArraysOK'
         /\ \A t \in Types \ exposed' :
              /\ t # HookType[m] => hook_entry_points'[t] = hook_entry_points[t]
              /\ m \notin Wrapping => SelfStays(hook_entry_points[t], hook_entry_points'[t])
<1> DEFINE T == HookType[m]
           M == H!Registered
           kept == hook_modules \ {m}
<1>0. /\ hook_modules' = kept /\ since' = [x \in HookModules |-> IF x \in kept THEN since[x] ELSE 0]
      /\ exposed \subseteq exposed' /\ since \in [HookModules -> Nat]
      /\ \A t \in Types : hook_entry_points'[t] = H!Reorganize(hook_entry_points[t], kept)
  BY DEF H!UnloadModule, SinceOK
<1>b. T \in exposed' \/ \A w \in Wrapping : ~H!RegisteredAfter(w, m)
  BY DEF H!UnloadModule
<1>c. M \subseteq HookModules /\ H!Registered' = M \cap kept
  BY <1>0 DEF H!Registered
<1> HIDE DEF kept
<1>1. /\ hook_modules' = kept /\ exposed \subseteq exposed'
      /\ M \subseteq HookModules /\ since \in [HookModules -> Nat]
      /\ \A t \in Types : hook_entry_points'[t] = H!Reorganize(hook_entry_points[t], kept)
      /\ T \in exposed' \/ \A w \in Wrapping : ~H!RegisteredAfter(w, m)
  BY <1>0, <1>b, <1>c
<1> SUFFICES ASSUME NEW t \in Types \ exposed'
             PROVE  /\ ArrayOK(hook_entry_points'[t], RunsIn(H!Registered', t), since')
                    /\ t # HookType[m] => hook_entry_points'[t] = hook_entry_points[t]
                    /\ m \notin Wrapping => SelfStays(hook_entry_points[t], hook_entry_points'[t])
  BY <1>1, RunsInNext DEF ArraysOK
<1>d. \A x \in M : HookType[x] = t => x \in kept \/ x = m
  BY DEF H!UnloadModule, kept
<1>e. RunsIn(H!Registered', t) = RunsIn(M \ {m}, t)
  <2>1. {x \in H!Registered' : HookType[x] = t} = {x \in M \ {m} : HookType[x] = t}
    BY <1>c, <1>d DEF kept
  <2> QED
    BY <2>1 DEF RunsIn
<1> HIDE DEF M
<1>2. m # Default
  BY DEF H!ConstantsOK
<1>3. PICK h \in HookArray : h = hook_entry_points[t] /\ h.count <= Len(h.array)
  BY DEF HookTypes
<1>4. PICK R : R = RunsIn(M, t)
  OBVIOUS
<1>5. ArrayOK(h, R, since)
  BY <1>1, <1>3, <1>4, RunsInNow DEF ArraysOK, M
<1>6. \A r \in R : /\ r \in Handles \X Contexts
                   /\ r[1] = Default \/ (r[1] \in M /\ HookType[r[1]] = t)
                   /\ r[2] = Null \/ (r[2] = r[1] /\ r[1] \in Wrapping)
  BY <1>1, <1>4, RunsInAre
<1>7. RunsIn(H!Registered', t) = R \ RunsOf(R, m)
  BY <1>4, <1>e, RunsWithout
<1>8. \A r \in R \ RunsOf(R, m) : TurnIn(since', r) = TurnIn(since, r)
  <2> SUFFICES ASSUME NEW r \in R, r[1] # m PROVE TurnIn(since', r) = TurnIn(since, r)
    BY DEF RunsOf
  <2>1. r[1] # Default => r[1] \in HookModules /\ r[1] \in kept
    BY <1>1, <1>6, <1>d
  <2>2. r[1] # Default => since'[r[1]] = since[r[1]]
    BY <1>0, <2>1
  <2> QED
    BY <2>2 DEF TurnIn
<1>9. CASE t # T
  <2>1. \A p \in 1..h.count : RunAt(h, p) \in R /\ RunAt(h, p)[1] = h.array[p].handle
    BY <1>5 DEF ArrayOK, RunAt
  <2>2. \A p \in 1..h.count : h.array[p].handle \in kept \cup {Default}
    BY <1>6, <1>9, <1>d, <2>1
  <2>3. H!RemoveLowest(h, kept) = h
    BY <2>2 DEF H!RemoveLowest, H!Victims
  <2>4. hook_entry_points'[t] = h
    BY <1>1, <1>3, <2>3 DEF H!Reorganize
  <2>5. SelfStays(h, h)
    BY <1>3 DEF SelfStays, HookArray
  <2>6. RunsOf(R, m) = {}
    BY <1>2, <1>6, <1>9 DEF RunsOf
  <2>7. ArrayOK(h, R \ RunsOf(R, m), since)
    BY <1>5, <2>6
  <2>8. ArrayOK(h, R \ RunsOf(R, m), since')
    BY <1>8, <2>7, SameTurns
  <2> QED
    BY <1>3, <1>7, <2>4, <2>5, <2>8
<1>10. CASE t = T
  <2>1. \A w \in Wrapping : HookType[w] = t => since[w] <= since[m]
    <3>1. \A w \in Wrapping : ~(HookType[w] = t /\ since[w] > since[m])
      BY <1>1, <1>10 DEF H!RegisteredAfter
    <3>2. \A w \in HookModules : since[w] \in Nat
      BY <1>1
    <3>3. Wrapping \subseteq HookModules
      BY DEF H!ConstantsOK
    <3> QED
      BY <3>1, <3>2, <3>3
  <2>2. Default \notin Wrapping
    BY DEF H!ConstantsOK
  <2>3. Leaving(h, R, since, m, kept)
    <3>1. R \subseteq Handles \X Contexts
      BY <1>6
    <3>2. \A r \in R : /\ r[1] \in kept \cup {Default, m}
                       /\ r[2] = Null \/ (r[2] = r[1] /\ r[1] \in Wrapping)
                       /\ r[1] \in Wrapping => since[r[1]] <= since[m]
      BY <1>6, <1>d, <2>1, <2>2
    <3> QED
      BY <1>3, <1>5, <3>1, <3>2 DEF Leaving
  <2>4. PICK g : g = H!Reorganize(h, kept)
    OBVIOUS
  <2>5. m \notin kept /\ hook_entry_points'[t] = g
    BY <1>1, <1>3, <2>4 DEF kept
  <2>6. ArrayOK(g, R \ RunsOf(R, m), since) /\ (m \notin Wrapping => SelfStays(h, g))
    BY <1>1, <2>3, <2>4, <2>5, ReorganizeOK
  <2>7. ArrayOK(g, R \ RunsOf(R, m), since')
    BY <1>8, <2>6, SameTurns
  <2> QED
    BY <1>3, <1>7, <1>10, <2>5, <2>6, <2>7
<1> QED
  BY <1>9, <1>10

\* An array with runs of modules that are kept has nothing to remove.
LEMMA NoVictims ==
  ASSUME H!ConstantsOK, NEW M, M \subseteq HookModules, NEW kept, M \subseteq kept, NEW t, NEW s,
         NEW h, ArrayOK(h, RunsIn(M, t), s)
  PROVE  H!Victims(h, kept) = {}
<1>1. \A p \in 1..h.count : RunAt(h, p) \in RunsIn(M, t) /\ RunAt(h, p)[1] = h.array[p].handle
  BY DEF ArrayOK, RunAt
<1>2. \A r \in RunsIn(M, t) : r[1] = Default \/ r[1] \in M
  BY RunsInAre
<1>3. \A p \in 1..h.count : h.array[p].handle \in kept \cup {Default}
  BY <1>1, <1>2
<1> QED
  BY <1>3 DEF H!Victims

\* The arrays of a new backend
LEMMA ArraysFresh ==
  ASSUME H!ConstantsOK, NEW t \in Types, NEW s
  PROVE  /\ H!NoHooks[t] \in HookArray /\ H!NoHooks[t].count <= Len(H!NoHooks[t].array)
         /\ ArrayOK(H!NoHooks[t], RunsIn({}, t), s)
<1>1. CASE t \in DefaultTypes
  <2> DEFINE e == [handle |-> Default, state_index |-> 1]
  <2>1. PICK h : h = [array |-> <<e>>, count |-> 1]
    OBVIOUS
  <2>2. h.array = <<e>> /\ h.count = 1 /\ H!NoHooks[t] = h
    BY <1>1, <2>1 DEF H!NoHooks
  <2>3. e \in HookEntry /\ e.handle = Default /\ e.state_index = 1
    BY DEF HookEntry, Handles
  <2> HIDE DEF e
  <2>4. <<e>> \in Seq(HookEntry) /\ Len(<<e>>) = 1 /\ <<e>>[1] = e
    BY <2>3
  <2>5. h \in HookArray /\ Len(h.array) = 1 /\ h.array[1] = e
    BY <2>1, <2>2, <2>4 DEF HookArray
  <2>6. RunAt(h, 1) = <<Default, Null>>
    BY <2>3, <2>5 DEF RunAt
  <2>7. PICK R : R = RunsIn({}, t)
    OBVIOUS
  <2>a. \A r : r \in R <=> r = <<Default, Null>>
    <3>1. \A r : r \in RunsIn({}, t) <=> r = <<Default, Null>>
      BY <1>1 DEF RunsIn
    <3> QED
      BY <2>7, <3>1, Zenon
  <2>8. \A p \in 1..1 : p = 1
    OBVIOUS
  <2>9. ArrayOK(h, R, s)
    BY <2>2, <2>3, <2>5, <2>6, <2>a, <2>8 DEF ArrayOK
  <2>10. ArrayOK(h, RunsIn({}, t), s) /\ h.count <= Len(h.array)
    BY <2>2, <2>5, <2>7, <2>9
  <2> QED
    BY <2>2, <2>5, <2>10, Zenon
<1>2. CASE t \notin DefaultTypes
  <2>1. PICK h : h = [array |-> <<>>, count |-> 0]
    OBVIOUS
  <2>2. h \in HookArray /\ h.count = 0 /\ Len(h.array) = 0 /\ H!NoHooks[t] = h
    BY <1>2, <2>1 DEF H!NoHooks, HookArray
  <2>3. PICK R : R = RunsIn({}, t)
    OBVIOUS
  <2>a. \A r : r \notin R
    <3>1. \A r : r \notin RunsIn({}, t)
      BY <1>2 DEF RunsIn
    <3> QED
      BY <2>3, <3>1, Zenon
  <2>4. ArrayOK(h, R, s)
    BY <2>2, <2>a DEF ArrayOK
  <2> QED
    BY <2>2, <2>3, <2>4
<1> QED
  BY <1>1, <1>2

----------------------------------------------------------------------------
(* Hooks: what the steps do to the dispatches                              *)

\* A frame whose fields are as they should be
LEMMA FrameFields ==
  ASSUME NEW f \in Frame
  PROVE  /\ f.type \in Types /\ f.i \in Nat /\ f.ctxs \in Seq(Contexts) /\ f.running \in BOOLEAN
         /\ f.finished \in BOOLEAN /\ f.ctx \in Contexts /\ f.log \in Seq(Handles \X Contexts)
         /\ f.changes \subseteq {"shift", "cut", "unload"} /\ f.intended \in Orders
         /\ Len(f.ctxs) \in Nat /\ Len(f.log) \in Nat
  BY DEF Frame

\* The frame once the hook is called
Called(f, w, ctx) ==
  [f EXCEPT !.running = TRUE, !.ctxs[f.i] = Null, !.ctx = ctx, !.log = Append(@, <<w, ctx>>)]

\* The same, field by field
IsCalled(f, g, w, ctx) ==
  /\ g.type = f.type /\ g.i = f.i /\ g.running /\ g.finished = f.finished /\ g.ctx = ctx
  /\ g.changes = f.changes /\ g.intended = f.intended
  /\ Len(g.ctxs) = Len(f.ctxs)
  /\ \A p \in 1..Len(f.ctxs) : p # f.i => g.ctxs[p] = f.ctxs[p]
  /\ Len(g.log) = Len(f.log) + 1 /\ g.log[Len(f.log) + 1] = <<w, ctx>>
  /\ \A k \in 1..Len(f.log) : g.log[k] = f.log[k]

\* The call changes the frame so.
LEMMA CalledFrame ==
  ASSUME NEW f, FrameOK(f), f.i \in 1..Len(f.ctxs), NEW w \in Handles, NEW ctx \in Contexts, Null \in Contexts,
         NEW g, g = Called(f, w, ctx)
  PROVE  FrameOK(g) /\ IsCalled(f, g, w, ctx)
<1>0. f \in Frame
  BY DEF FrameOK
<1>1. /\ f.type \in Types /\ f.i \in Nat /\ f.ctxs \in Seq(Contexts) /\ f.running \in BOOLEAN
      /\ f.finished \in BOOLEAN /\ f.ctx \in Contexts /\ f.log \in Seq(Handles \X Contexts)
      /\ f.changes \subseteq {"shift", "cut", "unload"} /\ f.intended \in Orders
      /\ Len(f.ctxs) \in Nat /\ Len(f.log) \in Nat
  BY <1>0, FrameFields
<1> DEFINE c == [f.ctxs EXCEPT ![f.i] = Null]
           l == Append(f.log, <<w, ctx>>)
<1>2. c \in Seq(Contexts) /\ Len(c) = Len(f.ctxs) /\ \A p \in 1..Len(f.ctxs) : p # f.i => c[p] = f.ctxs[p]
  BY <1>1
<1>3. /\ l \in Seq(Handles \X Contexts) /\ Len(l) = Len(f.log) + 1 /\ l[Len(f.log) + 1] = <<w, ctx>>
      /\ \A k \in 1..Len(f.log) : l[k] = f.log[k]
  BY <1>1
<1>4. l # <<>>
  <2> HIDE DEF l
  <2> QED
    BY <1>1, <1>3
<1>5. g = [type |-> f.type, i |-> f.i, ctxs |-> c, running |-> TRUE, finished |-> f.finished,
           ctx |-> ctx, log |-> l, changes |-> f.changes, intended |-> f.intended]
  BY <1>0 DEF Frame, Called
<1> HIDE DEF c, l
<1>a. /\ c \in Seq(Contexts) /\ l \in Seq(Handles \X Contexts)
      /\ f.type \in Types /\ f.i \in Nat /\ f.finished \in BOOLEAN
      /\ f.changes \in SUBSET {"shift", "cut", "unload"} /\ f.intended \in Orders
  BY <1>1, <1>2, <1>3
<1>b. g \in Frame
  BY <1>a, <1>5 DEF Frame
<1>6. g \in Frame /\ g.type = f.type /\ g.i = f.i /\ g.running /\ g.finished = f.finished /\ g.ctx = ctx
      /\ g.changes = f.changes /\ g.intended = f.intended /\ g.ctxs = c /\ g.log = l
  BY <1>5, <1>b
<1>7. FrameOK(g)
  BY <1>1, <1>2, <1>4, <1>6 DEF FrameOK
<1> QED
  BY <1>2, <1>3, <1>6, <1>7 DEF IsCalled

\* The frame once the hook has returned
Returned(f, ctx, finish) ==
  [f EXCEPT !.running = FALSE, !.ctxs[f.i] = ctx, !.i = @ - 1, !.finished = finish]

\* The same, field by field
IsReturned(f, g, ctx, finish) ==
  /\ g.type = f.type /\ g.i = f.i - 1 /\ g.running = FALSE /\ g.finished = finish /\ g.ctx = f.ctx
  /\ g.changes = f.changes /\ g.intended = f.intended /\ g.log = f.log
  /\ Len(g.ctxs) = Len(f.ctxs) /\ g.ctxs[f.i] = ctx
  /\ \A p \in 1..Len(f.ctxs) : p # f.i => g.ctxs[p] = f.ctxs[p]

\* The return changes the frame so.
LEMMA ReturnedFrame ==
  ASSUME NEW f, FrameOK(f), f.running, NEW ctx \in Contexts, NEW finish \in BOOLEAN,
         NEW g, g = Returned(f, ctx, finish)
  PROVE  FrameOK(g) /\ f.i \in 1..Len(f.ctxs) /\ IsReturned(f, g, ctx, finish)
<1>0. f \in Frame
  BY DEF FrameOK
<1>1. /\ f.type \in Types /\ f.i \in Nat /\ f.ctxs \in Seq(Contexts) /\ f.running \in BOOLEAN
      /\ f.finished \in BOOLEAN /\ f.ctx \in Contexts /\ f.log \in Seq(Handles \X Contexts)
      /\ f.changes \subseteq {"shift", "cut", "unload"} /\ f.intended \in Orders
      /\ Len(f.ctxs) \in Nat /\ Len(f.log) \in Nat
  BY <1>0, FrameFields
<1> DEFINE c == [f.ctxs EXCEPT ![f.i] = ctx]
<1>2. f.i \in 1..Len(f.ctxs) /\ f.i - 1 \in Nat /\ f.i - 1 <= Len(f.ctxs)
  BY <1>1 DEF FrameOK
<1>3. /\ c \in Seq(Contexts) /\ Len(c) = Len(f.ctxs) /\ c[f.i] = ctx
      /\ \A p \in 1..Len(f.ctxs) : p # f.i => c[p] = f.ctxs[p]
  BY <1>1, <1>2
<1>5. g = [type |-> f.type, i |-> f.i - 1, ctxs |-> c, running |-> FALSE, finished |-> finish,
           ctx |-> f.ctx, log |-> f.log, changes |-> f.changes, intended |-> f.intended]
  BY <1>0 DEF Frame, Returned
<1> HIDE DEF c
<1>a. /\ c \in Seq(Contexts) /\ f.log \in Seq(Handles \X Contexts) /\ f.ctx \in Contexts
      /\ f.type \in Types /\ f.i - 1 \in Nat
      /\ f.changes \in SUBSET {"shift", "cut", "unload"} /\ f.intended \in Orders
  BY <1>1, <1>2, <1>3
<1>b. g \in Frame
  BY <1>a, <1>5 DEF Frame
<1>6. g \in Frame /\ g.type = f.type /\ g.i = f.i - 1 /\ g.running = FALSE /\ g.finished = finish
      /\ g.ctx = f.ctx /\ g.changes = f.changes /\ g.intended = f.intended /\ g.ctxs = c /\ g.log = f.log
  BY <1>5, <1>b
<1>7. FrameOK(g)
  BY <1>2, <1>3, <1>6 DEF FrameOK
<1> QED
  BY <1>2, <1>3, <1>6, <1>7 DEF IsReturned

\* The frame once the array has changed
Changed(f, c) == [f EXCEPT !.changes = @ \cup c]

\* Frames that differ in what happened to the array
Alike(f, g) ==
  /\ g.type = f.type /\ g.i = f.i /\ g.running = f.running /\ g.finished = f.finished /\ g.ctx = f.ctx
  /\ g.intended = f.intended /\ g.log = f.log /\ g.ctxs = f.ctxs /\ f.changes \subseteq g.changes

\* Noting a change leaves the rest of a frame alone.
LEMMA ChangedFrame ==
  ASSUME NEW f, FrameOK(f), NEW c, c \subseteq {"shift", "cut", "unload"},
         NEW g, g = Changed(f, c)
  PROVE  FrameOK(g) /\ Alike(f, g) /\ c \subseteq g.changes
<1>0. f \in Frame
  BY DEF FrameOK
<1>1. /\ f.type \in Types /\ f.i \in Nat /\ f.ctxs \in Seq(Contexts) /\ f.running \in BOOLEAN
      /\ f.finished \in BOOLEAN /\ f.ctx \in Contexts /\ f.log \in Seq(Handles \X Contexts)
      /\ f.changes \subseteq {"shift", "cut", "unload"} /\ f.intended \in Orders
  BY <1>0, FrameFields
<1>2. g = [type |-> f.type, i |-> f.i, ctxs |-> f.ctxs, running |-> f.running, finished |-> f.finished,
           ctx |-> f.ctx, log |-> f.log, changes |-> f.changes \cup c, intended |-> f.intended]
  BY <1>0 DEF Frame, Changed
<1>3. PICK u : u = f.changes \cup c /\ u \subseteq {"shift", "cut", "unload"}
  BY <1>1
<1>4. g \in Frame /\ g.type = f.type /\ g.i = f.i /\ g.running = f.running /\ g.finished = f.finished
      /\ g.ctx = f.ctx /\ g.changes = f.changes \cup c /\ g.intended = f.intended /\ g.ctxs = f.ctxs /\ g.log = f.log
  BY <1>1, <1>2, <1>3 DEF Frame
<1>5. FrameOK(g)
  BY <1>4 DEF FrameOK
<1>6. f.changes \subseteq g.changes /\ c \subseteq g.changes
  BY <1>4
<1> QED
  BY <1>4, <1>5, <1>6 DEF Alike

\* The stack once its top is replaced
LEMMA TopReplaced ==
  ASSUME stack \in Seq(Frame), stack # <<>>, NEW f \in Frame, H!ReplaceTop(f)
  PROVE  /\ stack' \in Seq(Frame) /\ Len(stack') = Len(stack)
         /\ Len(stack) \in 1..Len(stack) /\ stack'[Len(stack)] = f
         /\ \A d \in 1..Len(stack) : d # Len(stack) => stack'[d] = stack[d]
<1>1. Len(stack) \in Nat /\ Len(stack) # 0
  OBVIOUS
<1>2. Len(stack) \in 1..Len(stack)
  BY <1>1
<1> QED
  BY <1>1, <1>2 DEF H!ReplaceTop

\* The stack once the arrays of m's type have changed
LEMMA StackChanged ==
  ASSUME HookTypes, NEW m, NEW c, c \subseteq {"shift", "cut", "unload"}, stack' = H!Changing(m, c)
  PROVE  /\ stack' \in Seq(Frame) /\ Len(stack') = Len(stack) /\ Len(stack) \in Nat
         /\ \A d \in 1..Len(stack) :
              /\ FrameOK(stack[d]) /\ FrameOK(stack'[d])
              /\ stack[d].type = HookType[m] => stack'[d] = Changed(stack[d], c)
              /\ stack[d].type # HookType[m] => stack'[d] = stack[d]
<1>1. stack \in Seq(Frame) /\ Len(stack) \in Nat /\ DOMAIN stack = 1..Len(stack)
  BY DEF HookTypes
<1>2. \A d \in 1..Len(stack) : FrameOK(stack[d])
  BY DEF HookTypes
<1>3. \A d \in 1..Len(stack) : /\ stack[d].type = HookType[m] => stack'[d] = Changed(stack[d], c)
                               /\ stack[d].type # HookType[m] => stack'[d] = stack[d]
  BY <1>1 DEF H!Changing, Changed
<1>4. \A d \in 1..Len(stack) : FrameOK(stack'[d])
  <2> SUFFICES ASSUME NEW d \in 1..Len(stack) PROVE FrameOK(stack'[d])
    OBVIOUS
  <2>1. FrameOK(stack[d])
    BY <1>2
  <2>2. FrameOK(Changed(stack[d], c))
    BY <2>1, ChangedFrame
  <2> QED
    BY <1>3, <2>1, <2>2
<1>5. DOMAIN stack' = 1..Len(stack) /\ stack' = [d \in 1..Len(stack) |-> stack'[d]]
  BY <1>1 DEF H!Changing
<1>6. \A d \in 1..Len(stack) : stack'[d] \in Frame
  BY <1>4 DEF FrameOK
<1>7. stack' \in [1..Len(stack) -> Frame]
  BY <1>5, <1>6
<1>8. stack' \in Seq(Frame) /\ Len(stack') = Len(stack)
  BY <1>1, <1>7
<1> QED
  BY <1>1, <1>2, <1>3, <1>4, <1>8

\* What CallHook calls
LEMMA CallStep ==
  ASSUME H!ConstantsOK, HookTypes, H!CallHook
  PROVE  \E f, h, ctx :
           /\ f = stack[Len(stack)] /\ FrameOK(f) /\ stack # <<>> /\ ~f.running /\ ~f.finished
           /\ h = hook_entry_points[f.type] /\ h \in HookArray /\ h.count <= Len(h.array)
           /\ f.i \in 1..Len(f.ctxs) /\ f.i \in 1..Len(h.array)
           /\ h.array[f.i].handle \in Handles /\ h.array[f.i].state_index \in Int
           /\ ctx = H!ContextAt(f, h.array[f.i].state_index) /\ ctx \in Contexts
           /\ H!ReplaceTop(Called(f, h.array[f.i].handle, ctx))
           /\ FrameOK(Called(f, h.array[f.i].handle, ctx))
<1>1. PICK f : f = stack[Len(stack)]
  OBVIOUS
<1>2. stack # <<>> /\ stack \in Seq(Frame) /\ Len(stack) \in 1..Len(stack)
  BY DEF H!CallHook, HookTypes
<1>3. FrameOK(f) /\ f \in Frame
  BY <1>1, <1>2 DEF HookTypes, FrameOK
<1>4. f.type \in Types /\ f.i \in Nat /\ f.ctxs \in Seq(Contexts) /\ Len(f.ctxs) \in Nat
  BY <1>3, FrameFields
<1>5. PICK h \in HookArray : h = hook_entry_points[f.type] /\ h.count <= Len(h.array)
  BY <1>4 DEF HookTypes
<1>6. h.array \in Seq(HookEntry) /\ DOMAIN h.array = 1..Len(h.array) /\ Len(h.array) \in Nat
  BY DEF HookArray
<1>7. f.i \in 1..Len(h.array) /\ ~f.running /\ ~f.finished
  BY <1>1, <1>5, <1>6 DEF H!CallHook, H!Top
<1>8. f.i \in 1..Len(f.ctxs)
  BY <1>3, <1>4, <1>6, <1>7 DEF FrameOK
<1>9. h.array[f.i].handle \in Handles /\ h.array[f.i].state_index \in Int
  <2>1. h.array[f.i] \in HookEntry
    BY <1>6, <1>7
  <2> QED
    BY <2>1 DEF HookEntry
<1>10. PICK ctx : ctx = H!ContextAt(f, h.array[f.i].state_index)
  OBVIOUS
<1>11. ctx \in Contexts /\ Null \in Contexts
  BY <1>4, <1>10 DEF H!ContextAt, Contexts
<1>12. H!ReplaceTop(Called(f, h.array[f.i].handle, ctx))
  BY <1>1, <1>5, <1>10, Zenon DEF H!CallHook, H!Top, Called
<1>13. FrameOK(Called(f, h.array[f.i].handle, ctx))
  BY <1>3, <1>8, <1>9, <1>11, CalledFrame
<1> QED
  BY <1>1, <1>2, <1>3, <1>5, <1>7, <1>8, <1>9, <1>10, <1>11, <1>12, <1>13, Zenon

\* What ReturnHook leaves
LEMMA ReturnStep ==
  ASSUME H!ConstantsOK, HookTypes, NEW finish \in BOOLEAN, H!ReturnHook(finish)
  PROVE  \E f, m, ctx :
           /\ f = stack[Len(stack)] /\ FrameOK(f) /\ stack # <<>> /\ f.running
           /\ m = f.log[Len(f.log)][1]
           /\ ctx = (IF m \notin Wrapping THEN f.ctx ELSE IF f.ctx = Null THEN m ELSE Null)
           /\ ctx \in Contexts
           /\ H!ReplaceTop(Returned(f, ctx, finish))
           /\ FrameOK(Returned(f, ctx, finish))
<1>1. PICK f : f = stack[Len(stack)]
  OBVIOUS
<1>2. stack # <<>> /\ stack \in Seq(Frame) /\ Len(stack) \in 1..Len(stack) /\ f.running
  BY <1>1 DEF H!ReturnHook, H!Nested, HookTypes, H!Top
<1>3. FrameOK(f) /\ f \in Frame
  BY <1>1, <1>2 DEF HookTypes, FrameOK
<1>4. f.log \in Seq(Handles \X Contexts) /\ f.ctx \in Contexts
  BY <1>3, FrameFields
<1>5. PICK m : m = f.log[Len(f.log)][1]
  OBVIOUS
<1>6. PICK ctx : ctx = (IF m \notin Wrapping THEN f.ctx ELSE IF f.ctx = Null THEN m ELSE Null)
  OBVIOUS
<1>7. ctx \in Contexts
  BY <1>4, <1>6 DEF Contexts, H!ConstantsOK
<1>8. H!ReplaceTop(Returned(f, ctx, finish))
  BY <1>1, <1>5, <1>6 DEF H!ReturnHook, H!Top, Returned, H!Last
<1>9. FrameOK(Returned(f, ctx, finish))
  BY <1>2, <1>3, <1>7, ReturnedFrame
<1> QED
  BY <1>1, <1>2, <1>3, <1>5, <1>6, <1>7, <1>8, <1>9

\* What CallBehindArray calls, if the backend goes on
LEMMA BehindStep ==
  ASSUME H!ConstantsOK, HookTypes, H!CallBehindArray, ~H!FreshBackend
  PROVE  \E f, m :
           /\ f = stack[Len(stack)] /\ FrameOK(f) /\ stack # <<>> /\ m \in HookModules
           /\ f.i > Len(hook_entry_points[f.type].array)
           /\ f.i \in 1..Len(f.ctxs)
           /\ H!ReplaceTop(Called(f, m, Garbage))
           /\ FrameOK(Called(f, m, Garbage))
           /\ UNCHANGED <<hook_entry_points, hook_modules, since, exposed, loads>>
<1>1. PICK f : f = stack[Len(stack)]
  OBVIOUS
<1>a. stack # <<>> /\ stack \in Seq(Frame)
  BY Zenon DEF H!CallBehindArray, HookTypes
<1>2. stack # <<>> /\ stack \in Seq(Frame) /\ Len(stack) \in 1..Len(stack)
  BY <1>a
<1>3. FrameOK(f) /\ f \in Frame
  BY <1>1, <1>2 DEF HookTypes, FrameOK
<1>4. f.type \in Types /\ f.i \in Nat /\ Len(f.ctxs) \in Nat
  BY <1>3, FrameFields
<1>5. Len(hook_entry_points[f.type].array) \in Nat
  BY <1>4 DEF HookTypes, HookArray
<1>6. f.i > Len(hook_entry_points[f.type].array)
  BY <1>1, Zenon DEF H!CallBehindArray, H!Top
<1>7. f.i \in 1..Len(f.ctxs)
  BY <1>3, <1>4, <1>5, <1>6 DEF FrameOK
<1>8. PICK m \in HookModules : H!ReplaceTop(Called(f, m, Garbage))
  BY <1>1, Zenon DEF H!CallBehindArray, H!Top, Called
<1>9. UNCHANGED <<hook_entry_points, hook_modules, since, exposed, loads>>
  BY Zenon DEF H!CallBehindArray, H!registry
<1>10. m \in Handles /\ Garbage \in Contexts /\ Null \in Contexts
  BY DEF Handles, Contexts
<1>11. FrameOK(Called(f, m, Garbage))
  BY <1>3, <1>7, <1>10, CalledFrame
<1> QED
  BY <1>1, <1>2, <1>3, <1>6, <1>7, <1>8, <1>9, <1>11

\* The frame of a new dispatch
LEMMA DispatchStep ==
  ASSUME H!ConstantsOK, HookTypes, SinceOK, NEW t \in Types, H!Dispatch(t)
  PROVE  \E f : /\ stack' = Append(stack, f) /\ FrameOK(f)
                /\ f.type = t /\ f.i = hook_entry_points[t].count /\ Len(f.ctxs) = f.i
                /\ f.running = FALSE /\ f.changes = {} /\ f.log = <<>>
                /\ DOMAIN f.intended = H!Runs(t)
                /\ \A r \in H!Runs(t) : f.intended[r] = TurnIn(since, r)
<1> DEFINE n == hook_entry_points[t].count
           c == [j \in 1..n |-> Garbage]
           o == [r \in H!Runs(t) |-> H!Turn(r)]
<1>1. PICK f : f = [type |-> t, i |-> n, ctxs |-> c, running |-> FALSE, finished |-> FALSE, ctx |-> Null,
                    log |-> <<>>, changes |-> {}, intended |-> o]
  OBVIOUS
<1>2. stack' = Append(stack, f)
  BY <1>1 DEF H!Dispatch
<1>3. n \in Nat
  BY DEF HookTypes, HookArray
<1>4. Garbage \in Contexts /\ Null \in Contexts
  BY DEF Contexts
<1>5. c \in Seq(Contexts) /\ Len(c) = n
  BY <1>3, <1>4
<1>6. H!Runs(t) \subseteq Handles \X Contexts
  BY RunsInNow, RunsInAre DEF SinceOK
<1>7. \A r : H!Turn(r) = TurnIn(since, r)
  BY DEF H!Turn, TurnIn
<1>8. \A r \in H!Runs(t) : TurnIn(since, r) \in Int
  BY <1>6, TurnOf DEF SinceOK
<1>9. o \in [H!Runs(t) -> Int]
  BY <1>7, <1>8
<1>10. o \in Orders
  BY <1>6, <1>9 DEF Orders
<1>11. DOMAIN o = H!Runs(t) /\ \A r \in H!Runs(t) : o[r] = TurnIn(since, r)
  BY <1>7
<1>12. <<>> \in Seq(Handles \X Contexts)
  OBVIOUS
<1> HIDE DEF n, c, o
<1>13. f \in Frame
  BY <1>1, <1>3, <1>4, <1>5, <1>10, <1>12 DEF Frame
<1>14. /\ f.type = t /\ f.i = n /\ f.ctxs = c /\ f.running = FALSE /\ f.changes = {} /\ f.log = <<>>
       /\ f.intended = o
  BY <1>1
<1>15. FrameOK(f)
  BY <1>3, <1>5, <1>13, <1>14 DEF FrameOK
<1> QED
  BY <1>2, <1>5, <1>11, <1>14, <1>15 DEF n

\* The types of the arrays of a backend
ArrayTypes(arrays) == arrays \in [Types -> HookArray] /\ \A t \in Types : arrays[t].count <= Len(arrays[t].array)

\* Every step leaves arrays.
LEMMA ArrayTypesKept ==
  ASSUME H!ConstantsOK, HookTypes, [H!Next]_H!vars
  PROVE  ArrayTypes(hook_entry_points')
<1>0. ArrayTypes(hook_entry_points)
  BY DEF HookTypes, ArrayTypes
<1>1. ASSUME NEW m \in HookModules, H!LoadModule(m) PROVE ArrayTypes(hook_entry_points')
  <2>1. PICK h \in HookArray : h = hook_entry_points[HookType[m]] /\ h.count <= Len(h.array)
    BY <1>0 DEF ArrayTypes, H!ConstantsOK
  <2>2. PICK g : g = H!RegisterHook(h, m)
    OBVIOUS
  <2>3. g \in HookArray /\ g.count <= Len(g.array)
    <3>1. h.count \in Nat
      BY DEF HookArray
    <3>2. CASE m \in Wrapping
      <4>1. g = H!RegisterWrap(h, m)
        BY <2>2, <3>2 DEF H!RegisterHook
      <4>2. g \in HookArray /\ g.count = h.count + 2 /\ Len(g.array) = h.count + 2
        BY <2>1, <4>1, WrapArray
      <4> QED
        BY <3>1, <4>2
    <3>3. CASE m \notin Wrapping
      <4>1. g = H!RegisterPlain(h, m)
        BY <2>2, <3>3 DEF H!RegisterHook
      <4>2. g \in HookArray /\ g.count = h.count + 1 /\ Len(g.array) = h.count + 1
        BY <2>1, <4>1, PlainArray
      <4> QED
        BY <3>1, <4>2
    <3> QED
      BY <3>2, <3>3
  <2>4. hook_entry_points' = [hook_entry_points EXCEPT ![HookType[m]] = g]
    BY <1>1, <2>1, <2>2 DEF H!LoadModule
  <2> QED
    BY <1>0, <2>3, <2>4 DEF ArrayTypes
<1>2. ASSUME NEW m \in HookModules, H!UnloadModule(m) PROVE ArrayTypes(hook_entry_points')
  <2>1. hook_entry_points' = [t \in Types |-> H!Reorganize(hook_entry_points[t], hook_modules')]
    BY <1>2 DEF H!UnloadModule
  <2>2. ASSUME NEW t \in Types
        PROVE  hook_entry_points'[t] \in HookArray /\ hook_entry_points'[t].count <= Len(hook_entry_points'[t].array)
    <3>1. PICK h \in HookArray : h = hook_entry_points[t] /\ h.count <= Len(h.array)
      BY <1>0 DEF ArrayTypes
    <3>2. hook_entry_points'[t] = H!Reorganize(h, hook_modules')
      BY <2>1, <3>1
    <3> QED
      BY <3>1, <3>2, ReorganizeTypes
  <2>3. DOMAIN hook_entry_points' = Types /\ hook_entry_points' = [t \in Types |-> hook_entry_points'[t]]
    BY <2>1
  <2> QED
    BY <2>2, <2>3 DEF ArrayTypes
<1>3. ASSUME hook_entry_points' = H!NoHooks PROVE ArrayTypes(hook_entry_points')
  <2>1. \A t \in Types : H!NoHooks[t] \in HookArray /\ H!NoHooks[t].count <= Len(H!NoHooks[t].array)
    BY ArraysFresh
  <2>2. DOMAIN H!NoHooks = Types /\ H!NoHooks = [t \in Types |-> H!NoHooks[t]]
    BY DEF H!NoHooks
  <2> QED
    BY <1>3, <2>1, <2>2 DEF ArrayTypes
<1>4. CASE UNCHANGED hook_entry_points
  BY <1>0, <1>4
<1>6. ASSUME NEW t \in Types, H!PurgeRound(t) PROVE ArrayTypes(hook_entry_points')
  <2>1. PICK h \in HookArray : h = hook_entry_points[t] /\ h.count <= Len(h.array)
    BY <1>0 DEF ArrayTypes
  <2>2. PICK g : g = H!RemoveLowest(h, hook_modules)
    OBVIOUS
  <2>3. g \in HookArray /\ g.count <= Len(g.array)
    BY <2>1, <2>2, ReorganizeTypes
  <2>4. hook_entry_points' = [hook_entry_points EXCEPT ![t] = g]
    BY <1>6, <2>1, <2>2 DEF H!PurgeRound
  <2> QED
    BY <1>0, <2>3, <2>4 DEF ArrayTypes
<1>5. \/ \E m \in HookModules : H!LoadModule(m) \/ H!UnloadModule(m)
      \/ \E t \in Types : H!PurgeRound(t)
      \/ hook_entry_points' = H!NoHooks \/ UNCHANGED hook_entry_points
  BY Zenon DEF H!Next, H!vars, H!registry, H!ListModule, H!RaiseError, H!Dispatch, H!CallHook, H!CallBehindArray,
     H!FreshBackend, H!ReturnHook, H!EndDispatch
<1> QED
  BY <1>1, <1>2, <1>3, <1>4, <1>5, <1>6

\* The frames that an error or the end of a dispatch leaves
LEMMA StackPrefix ==
  ASSUME HookTypes, NEW n \in Nat, n <= Len(stack), NEW z, z = SubSeq(stack, 1, n)
  PROVE  z \in Seq(Frame) /\ Len(z) = n /\ \A d \in 1..n : d \in 1..Len(stack) /\ z[d] = stack[d]
<1>1. stack \in Seq(Frame) /\ Len(stack) \in Nat
  BY DEF HookTypes
<1>2. \A d \in 1..n : d \in 1..Len(stack)
  BY <1>1
<1>3. Len(SubSeq(stack, 1, n)) = n /\ \A d \in 1..n : SubSeq(stack, 1, n)[d] = stack[d]
  BY <1>1
<1>4. SubSeq(stack, 1, n) \in Seq(Frame)
  BY <1>1, <1>2
<1> QED
  BY <1>2, <1>3, <1>4

\* The end of a dispatch leaves the frames below it.
LEMMA EndStep ==
  ASSUME HookTypes, H!EndDispatch
  PROVE  \E n \in Nat : n <= Len(stack) /\ stack' = SubSeq(stack, 1, n)
<1>1. stack # <<>> /\ stack' = H!Front(stack) /\ stack \in Seq(Frame)
  BY DEF H!EndDispatch, HookTypes
<1>2. Len(stack) \in Nat /\ Len(stack) # 0
  BY <1>1
<1>3. Len(stack) - 1 \in Nat /\ Len(stack) - 1 <= Len(stack)
  BY <1>2
<1> QED
  BY <1>1, <1>3 DEF H!Front

\* Every step leaves a stack of frames.
LEMMA StackTypesKept ==
  ASSUME H!ConstantsOK, HookTypes, SinceOK, [H!Next]_H!vars
  PROVE  stack' \in Seq(Frame) /\ \A d \in 1..Len(stack') : FrameOK(stack'[d])
<1>0. stack \in Seq(Frame) /\ Len(stack) \in Nat /\ \A d \in 1..Len(stack) : FrameOK(stack[d])
  BY DEF HookTypes
<1> DEFINE G == stack' \in Seq(Frame) /\ \A d \in 1..Len(stack') : FrameOK(stack'[d])
<1>1. ASSUME NEW m, NEW c, c \subseteq {"shift", "cut", "unload"}, stack' = H!Changing(m, c) PROVE G
  BY <1>1, StackChanged
<1>2. ASSUME NEW m \in HookModules, H!LoadModule(m) PROVE G
  <2>1. PICK c : c \subseteq {"shift", "cut", "unload"} /\ stack' = H!Changing(m, c)
    BY <1>2 DEF H!LoadModule
  <2> QED
    BY <1>1, <2>1
<1>3. ASSUME NEW m \in HookModules, H!UnloadModule(m) PROVE G
  <2>1. PICK c : c \subseteq {"shift", "cut", "unload"} /\ stack' = H!Changing(m, c)
    BY <1>3 DEF H!UnloadModule
  <2> QED
    BY <1>1, <2>1
<1>4. ASSUME NEW t \in Types, H!Dispatch(t) PROVE G
  <2>1. PICK f : stack' = Append(stack, f) /\ FrameOK(f)
    BY <1>4, DispatchStep
  <2>2. f \in Frame
    BY <2>1 DEF FrameOK
  <2>3. stack' \in Seq(Frame) /\ Len(stack') = Len(stack) + 1 /\ stack'[Len(stack) + 1] = f
        /\ \A d \in 1..Len(stack) : stack'[d] = stack[d]
    BY <1>0, <2>1, <2>2
  <2>4. \A d \in 1..Len(stack) + 1 : d \in 1..Len(stack) \/ d = Len(stack) + 1
    BY <1>0
  <2> QED
    BY <1>0, <2>1, <2>3, <2>4
<1>5. ASSUME stack # <<>>, NEW f, FrameOK(f), H!ReplaceTop(f) PROVE G
  <2>1. f \in Frame
    BY <1>5 DEF FrameOK
  <2>2. /\ stack' \in Seq(Frame) /\ Len(stack') = Len(stack) /\ stack'[Len(stack)] = f
        /\ \A d \in 1..Len(stack) : d # Len(stack) => stack'[d] = stack[d]
    BY <1>0, <1>5, <2>1, TopReplaced
  <2> QED
    BY <1>0, <1>5, <2>2
<1>6. CASE H!CallHook
  <2>1. PICK f : stack # <<>> /\ FrameOK(f) /\ H!ReplaceTop(f)
    BY <1>6, CallStep
  <2> QED
    BY <1>5, <2>1
<1>7. CASE H!CallBehindArray
  <2>1. CASE H!FreshBackend
    BY <2>1 DEF H!FreshBackend
  <2>2. CASE ~H!FreshBackend
    <3>1. PICK f : stack # <<>> /\ FrameOK(f) /\ H!ReplaceTop(f)
      BY <1>7, <2>2, BehindStep
    <3> QED
      BY <1>5, <3>1
  <2> QED
    BY <2>1, <2>2
<1>8. ASSUME NEW finish \in BOOLEAN, H!ReturnHook(finish) PROVE G
  <2>1. PICK f : stack # <<>> /\ FrameOK(f) /\ H!ReplaceTop(f)
    BY <1>8, ReturnStep
  <2> QED
    BY <1>5, <2>1
<1>9. ASSUME NEW n \in Nat, n <= Len(stack), stack' = SubSeq(stack, 1, n) PROVE G
  <2>1. /\ stack' \in Seq(Frame) /\ Len(stack') = n
        /\ \A d \in 1..n : d \in 1..Len(stack) /\ stack'[d] = stack[d]
    BY <1>9, StackPrefix
  <2> QED
    BY <1>0, <2>1
<1>10. CASE H!EndDispatch
  BY <1>9, <1>10, EndStep
<1>11. ASSUME NEW j, NEW k \in 0..Len(stack), H!RaiseError(j, k) PROVE G
  <2>1. k \in Nat /\ k <= Len(stack) /\ stack' = SubSeq(stack, 1, k)
    BY <1>0, <1>11 DEF H!RaiseError
  <2> QED
    BY <1>9, <2>1
<1>12. CASE UNCHANGED stack
  BY <1>0, <1>12
<1>13. H!ListModule \/ (\E t \in Types : H!PurgeRound(t)) \/ UNCHANGED H!vars => UNCHANGED stack
  BY Zenon DEF H!ListModule, H!PurgeRound, H!vars, H!control
<1> HIDE DEF G
<1> QED
  BY <1>2, <1>3, <1>4, <1>6, <1>7, <1>8, <1>10, <1>11, <1>12, <1>13 DEF H!Next, G

\* Every step preserves the type invariant.
LEMMA HookTypesKept ==
  ASSUME H!ConstantsOK, HookTypes, SinceOK, [H!Next]_H!vars
  PROVE  HookTypes'
<1>1. ArrayTypes(hook_entry_points')
  BY ArrayTypesKept
<1>2. stack' \in Seq(Frame) /\ \A d \in 1..Len(stack') : FrameOK(stack'[d])
  BY StackTypesKept
<1> QED
  BY <1>1, <1>2 DEF HookTypes, ArrayTypes, FrameOK, Frame, Handles, Contexts, Orders, HookArray, HookEntry

\* The runs that there may be
RunsOK(R) ==
  R \subseteq Handles \X Contexts /\ \A r \in R : r[2] = Null \/ (r[2] = r[1] /\ r[1] \in Wrapping)

----------------------------------------------------------------------------
(* Hooks: the dispatches stay in order                                     *)

\* The lower entry of a pair belongs to a wrapping hook.
LEMMA LowerEntry ==
  ASSUME H!ConstantsOK, NEW s \in [HookModules -> Nat], NEW h, NEW R, h.count \in Nat, RunsOK(R),
         ArrayOK(h, R, s), NEW p \in 1..h.count, h.array[p].state_index # p
  PROVE  \E y \in 1..h.count :
           /\ y = h.array[p].state_index /\ p < y
           /\ h.array[y].handle = h.array[p].handle /\ h.array[y].state_index = y
           /\ h.array[p].handle \in Wrapping
<1>1. \A q \in 1..h.count : /\ h.array[q].state_index \in q..h.count
                            /\ h.array[h.array[q].state_index].handle = h.array[q].handle
                            /\ h.array[h.array[q].state_index].state_index = h.array[q].state_index
                            /\ RunAt(h, q) \in R
  BY DEF ArrayOK
<1>2. PICK y \in 1..h.count : /\ y = h.array[p].state_index /\ p < y
                              /\ h.array[y].handle = h.array[p].handle /\ h.array[y].state_index = y
  <2>1. PICK y \in p..h.count : y = h.array[p].state_index
    BY <1>1
  <2>2. y \in 1..h.count /\ p < y
    BY <2>1
  <2> QED
    BY <1>1, <2>1, <2>2
<1>3. RunAt(h, p) = <<h.array[p].handle, h.array[p].handle>> /\ RunAt(h, y) = <<h.array[p].handle, Null>>
      /\ RunAt(h, p) \in R /\ RunAt(h, y) \in R
  BY <1>1, <1>2 DEF RunAt
<1>4. h.array[p].handle # Null
  <2> SUFFICES ASSUME h.array[p].handle = Null PROVE FALSE
    OBVIOUS
  <2>1. RunAt(h, p) = RunAt(h, y) /\ RunAt(h, p) \in Handles \X Contexts
    BY <1>3 DEF RunsOK
  <2>2. TurnIn(s, RunAt(h, p)) \in Int
    BY <2>1, TurnOf
  <2>3. TurnIn(s, RunAt(h, p)) > TurnIn(s, RunAt(h, y))
    BY <1>2 DEF ArrayOK
  <2> QED
    BY <2>1, <2>2, <2>3
<1>5. h.array[p].handle \in Wrapping
  BY <1>3, <1>4 DEF RunsOK
<1> QED
  BY <1>2, <1>5

\* Entries that stand for the same run are the same.
LEMMA RunsOnce ==
  ASSUME H!ConstantsOK, NEW s \in [HookModules -> Nat], NEW h, NEW R, h.count \in Nat, RunsOK(R),
         ArrayOK(h, R, s), NEW p \in 1..h.count, NEW q \in 1..h.count, p < q
  PROVE  /\ RunAt(h, p) # RunAt(h, q) /\ TurnIn(s, RunAt(h, p)) > TurnIn(s, RunAt(h, q))
         /\ TurnIn(s, RunAt(h, p)) \in Int /\ TurnIn(s, RunAt(h, q)) \in Int
<1>1. RunAt(h, p) \in Handles \X Contexts /\ RunAt(h, q) \in Handles \X Contexts
  BY DEF ArrayOK, RunsOK
<1>2. TurnIn(s, RunAt(h, p)) \in Int /\ TurnIn(s, RunAt(h, q)) \in Int
  BY <1>1, TurnOf
<1>3. TurnIn(s, RunAt(h, p)) > TurnIn(s, RunAt(h, q))
  BY DEF ArrayOK
<1> QED
  BY <1>2, <1>3

\* The first run of omni comes before the second one.
LEMMA SelfOnce ==
  ASSUME H!ConstantsOK, NEW s \in [HookModules -> Nat], NEW h, NEW R, h.count \in Nat, RunsOK(R),
         ArrayOK(h, R, s), NEW p \in 1..h.count, NEW q \in 1..h.count,
         RunAt(h, p) = <<Self, Null>>, RunAt(h, q) = <<Self, Self>>
  PROVE  q < p
<1>1. Self # Default /\ Self # Null /\ s[Self] \in Nat
  BY DEF H!ConstantsOK
<1>2. TurnIn(s, <<Self, Null>>) = 0 - s[Self] /\ TurnIn(s, <<Self, Self>>) = s[Self]
  BY <1>1 DEF TurnIn
<1>3. p # q
  BY <1>1
<1>4. ~(p < q)
  <2> SUFFICES ASSUME p < q PROVE FALSE
    OBVIOUS
  <2>1. TurnIn(s, RunAt(h, p)) > TurnIn(s, RunAt(h, q))
    BY RunsOnce
  <2> QED
    BY <1>1, <1>2, <2>1
<1> QED
  BY <1>3, <1>4

\* The part of the array that a dispatch of size n is about stays as it is.
Stays(n, h, k, s, z) ==
  /\ n <= k.count
  /\ \A p \in 1..n : k.array[p] = h.array[p] /\ TurnIn(z, RunAt(h, p)) = TurnIn(s, RunAt(h, p))

\* The same for the entries of omni only
SelfStaysIn(n, h, k) ==
  /\ n <= Len(k.array)
  /\ \A p \in 1..n : /\ SelfAt(k, p) <=> SelfAt(h, p)
                     /\ SelfAt(h, p) => p <= k.count /\ k.array[p] = h.array[p]

\* A dispatch whose entries stay stays in order.
LEMMA InOrderStays ==
  ASSUME NEW f, NEW g, NEW h, NEW k, NEW s, NEW z, FrameOK(f), InOrder(f, h, s), Alike(f, g),
         g.changes = {} => Stays(Len(f.ctxs), h, k, s, z)
  PROVE  InOrder(g, k, z)
<1> SUFFICES ASSUME g.changes = {} PROVE InOrder(g, k, z)
  BY DEF InOrder
<1>1. /\ g.i = f.i /\ g.running = f.running /\ g.ctx = f.ctx
      /\ g.intended = f.intended /\ g.log = f.log /\ g.ctxs = f.ctxs /\ f.changes = {}
  BY DEF Alike
<1> DEFINE n == Len(f.ctxs)
<1>2. f.i \in Nat /\ n \in Nat /\ f.i <= n /\ (f.running => f.i >= 1)
  BY FrameFields DEF FrameOK
<1>3. n <= k.count /\ \A p \in 1..n : /\ k.array[p] = h.array[p] /\ RunAt(k, p) = RunAt(h, p)
                                      /\ TurnIn(z, RunAt(h, p)) = TurnIn(s, RunAt(h, p))
  BY DEF Stays, RunAt
<1>4. /\ Len(f.log) = n - f.i + (IF f.running THEN 1 ELSE 0)
      /\ \A p \in 1..n : /\ RunAt(h, p) \in DOMAIN f.intended
                         /\ f.intended[RunAt(h, p)] = TurnIn(s, RunAt(h, p))
                         /\ h.array[p].state_index <= n
      /\ \A r \in DOMAIN f.intended : \E p \in 1..n : RunAt(h, p) = r
      /\ \A j \in 1..Len(f.log) : f.log[j] = RunAt(h, n + 1 - j)
      /\ \A p \in f.i + 1..n :
           h.array[p].handle \in Wrapping /\ h.array[p].state_index = p => f.ctxs[p] = h.array[p].handle
      /\ f.running => f.ctx = RunAt(h, f.i)[2]
  BY <1>1 DEF InOrder
<1>5. \A p \in 1..n : /\ RunAt(k, p) \in DOMAIN f.intended
                      /\ f.intended[RunAt(k, p)] = TurnIn(z, RunAt(k, p))
                      /\ k.array[p].state_index <= n
  BY <1>3, <1>4
<1>6. \A r \in DOMAIN f.intended : \E p \in 1..n : RunAt(k, p) = r
  BY <1>3, <1>4
<1>7. \A j \in 1..Len(f.log) : f.log[j] = RunAt(k, n + 1 - j)
  <2> SUFFICES ASSUME NEW j \in 1..Len(f.log) PROVE f.log[j] = RunAt(k, n + 1 - j)
    OBVIOUS
  <2>1. n + 1 - j \in 1..n
    BY <1>2, <1>4
  <2> QED
    BY <1>3, <1>4, <2>1
<1>8. \A p \in f.i + 1..n :
        k.array[p].handle \in Wrapping /\ k.array[p].state_index = p => f.ctxs[p] = k.array[p].handle
  <2>1. \A p \in f.i + 1..n : p \in 1..n
    BY <1>2
  <2> QED
    BY <1>3, <1>4, <2>1
<1>9. f.running => f.ctx = RunAt(k, f.i)[2]
  <2>1. f.running => f.i \in 1..n
    BY <1>2
  <2> QED
    BY <1>3, <1>4, <2>1
<1> QED
  BY <1>1, <1>3, <1>4, <1>5, <1>6, <1>7, <1>8, <1>9 DEF InOrder

\* A dispatch under which omni's entries stay knows where they are.
LEMMA TwiceStays ==
  ASSUME NEW f, NEW g, NEW h, NEW k, FrameOK(f), Twice(f, h), Alike(f, g),
         g.changes \subseteq {"unload"} => SelfStaysIn(Len(f.ctxs), h, k)
  PROVE  Twice(g, k)
<1> SUFFICES ASSUME g.changes \subseteq {"unload"} PROVE Twice(g, k)
  BY DEF Twice
<1>1. /\ g.i = f.i /\ g.running = f.running /\ g.ctx = f.ctx
      /\ g.log = f.log /\ g.ctxs = f.ctxs /\ f.changes \subseteq {"unload"}
  BY DEF Alike
<1> DEFINE n == Len(f.ctxs)
<1>2. f.i \in Nat /\ n \in Nat /\ f.i <= n /\ (f.running => f.i >= 1)
  BY FrameFields DEF FrameOK
<1>3. n <= Len(k.array) /\ \A p \in 1..n :
        /\ SelfAt(k, p) <=> SelfAt(h, p)
        /\ SelfAt(h, p) => p <= k.count /\ k.array[p] = h.array[p] /\ RunAt(k, p) = RunAt(h, p)
  BY DEF SelfStaysIn, RunAt
<1>4. /\ \A p \in 1..n : SelfAt(h, p) => p <= h.count /\ h.array[p].state_index <= n
      /\ \A j \in 1..Len(f.log) :
           f.log[j][1] = Self => \E p \in 1..n : SelfAt(h, p) /\ Ran(f, p) /\ f.log[j] = RunAt(h, p)
      /\ \A p \in 1..n : SelfAt(h, p) /\ Ran(f, p) => \E j \in 1..Len(f.log) : f.log[j] = RunAt(h, p)
      /\ \A i, j \in 1..Len(f.log) : f.log[i][1] = Self /\ f.log[i] = f.log[j] => i = j
      /\ \A i, j \in 1..Len(f.log) : f.log[i] = <<Self, Null>> /\ f.log[j] = <<Self, Self>> => i < j
      /\ \A p \in f.i + 1..n : SelfAt(h, p) /\ h.array[p].state_index = p => f.ctxs[p] = Self
      /\ f.running => /\ f.log[Len(f.log)][1] = Self <=> SelfAt(h, f.i)
                      /\ SelfAt(h, f.i) => f.ctx = RunAt(h, f.i)[2]
  BY <1>1 DEF Twice
<1>5. \A p : Ran(g, p) <=> Ran(f, p)
  BY <1>1 DEF Ran
<1>6. \A p \in 1..n : SelfAt(k, p) => p <= k.count /\ k.array[p].state_index <= n
  BY <1>3, <1>4
<1>7. \A j \in 1..Len(f.log) :
        f.log[j][1] = Self => \E p \in 1..n : SelfAt(k, p) /\ Ran(g, p) /\ f.log[j] = RunAt(k, p)
  BY <1>3, <1>4, <1>5
<1>8. \A p \in 1..n : SelfAt(k, p) /\ Ran(g, p) => \E j \in 1..Len(f.log) : f.log[j] = RunAt(k, p)
  BY <1>3, <1>4, <1>5
<1>9. \A p \in f.i + 1..n : SelfAt(k, p) /\ k.array[p].state_index = p => f.ctxs[p] = Self
  <2>1. \A p \in f.i + 1..n : p \in 1..n
    BY <1>2
  <2> QED
    BY <1>3, <1>4, <2>1
<1>10. f.running => /\ f.log[Len(f.log)][1] = Self <=> SelfAt(k, f.i)
                    /\ SelfAt(k, f.i) => f.ctx = RunAt(k, f.i)[2]
  <2>1. f.running => f.i \in 1..n
    BY <1>2
  <2> QED
    BY <1>3, <1>4, <2>1
<1> QED
  BY <1>1, <1>3, <1>4, <1>6, <1>7, <1>8, <1>9, <1>10 DEF Twice

\* The call of the hook at the index of a dispatch
LEMMA CalledInOrder ==
  ASSUME H!ConstantsOK, NEW s \in [HookModules -> Nat], NEW h \in HookArray, NEW R, RunsOK(R), ArrayOK(h, R, s),
         NEW f, FrameOK(f), ~f.running, f.i \in 1..Len(f.ctxs), InOrder(f, h, s),
         NEW ctx \in Contexts, ctx = H!ContextAt(f, h.array[f.i].state_index), h.array[f.i].handle \in Handles,
         NEW g, g = Called(f, h.array[f.i].handle, ctx)
  PROVE  InOrder(g, h, s)
<1>0. PICK n \in Nat, l \in Nat : n = Len(f.ctxs) /\ l = Len(f.log)
  BY FrameFields DEF FrameOK
<1>1. PICK i \in 1..n : n = Len(f.ctxs) /\ l = Len(f.log) /\ i = f.i
  BY <1>0
<1>2. PICK w \in Handles : w = h.array[i].handle
  BY <1>1
<1>3. g = Called(f, w, ctx) /\ ctx = H!ContextAt(f, h.array[i].state_index)
  BY <1>1, <1>2
<1>4. FrameOK(f) /\ f.i \in 1..Len(f.ctxs) /\ Null \in Contexts
  BY DEF Contexts
<1>5. IsCalled(f, g, w, ctx)
  BY <1>3, <1>4, CalledFrame
<1>a. g.i = i /\ g.running /\ g.ctx = ctx /\ g.changes = f.changes /\ g.intended = f.intended
  BY <1>1, <1>5, Zenon DEF IsCalled
<1>b. Len(g.ctxs) = n /\ \A p \in 1..n : p # i => g.ctxs[p] = f.ctxs[p]
  BY <1>1, <1>5, Zenon DEF IsCalled
<1>c. Len(g.log) = l + 1 /\ g.log[l + 1] = <<w, ctx>> /\ \A k \in 1..l : g.log[k] = f.log[k]
  BY <1>1, <1>5, Zenon DEF IsCalled
<1> SUFFICES ASSUME f.changes = {} PROVE InOrder(g, h, s)
  BY <1>a, Zenon DEF InOrder
<1>6. DOMAIN f.ctxs = 1..n
  BY <1>1, FrameFields DEF FrameOK
<1>7. h.count \in Nat
  BY DEF HookArray
<1>8. n <= h.count /\ l = n - i
  BY <1>1 DEF InOrder
<1>9. \A p \in 1..n : /\ RunAt(h, p) \in DOMAIN f.intended
                      /\ f.intended[RunAt(h, p)] = TurnIn(s, RunAt(h, p))
                      /\ h.array[p].state_index <= n
  BY <1>1 DEF InOrder
<1>10. \A r \in DOMAIN f.intended : \E p \in 1..n : RunAt(h, p) = r
  BY <1>1 DEF InOrder
<1>11. \A j \in 1..l : f.log[j] = RunAt(h, n + 1 - j)
  BY <1>1 DEF InOrder
<1>12. \A p \in i + 1..n :
          h.array[p].handle \in Wrapping /\ h.array[p].state_index = p => f.ctxs[p] = h.array[p].handle
  BY <1>1 DEF InOrder
<1>13. RunAt(h, i) = <<w, ctx>>
  <2>1. CASE h.array[i].state_index = i
    BY <1>1, <1>2, <1>3, <2>1 DEF RunAt, H!ContextAt
  <2>2. CASE h.array[i].state_index # i
    <3>0. i \in 1..h.count
      BY <1>7, <1>8
    <3>1. PICK y \in 1..h.count :
             /\ y = h.array[i].state_index /\ i < y
             /\ h.array[y].handle = h.array[i].handle /\ h.array[y].state_index = y
             /\ h.array[i].handle \in Wrapping
      BY <1>7, <2>2, <3>0, LowerEntry
    <3>2. y <= n
      BY <1>9, <3>1
    <3>3. y \in i + 1..n /\ y \in DOMAIN f.ctxs
      BY <1>6, <1>7, <3>1, <3>2
    <3>4. ctx = f.ctxs[y]
      BY <1>1, <1>3, <2>2, <3>1, <3>3, Zenon DEF H!ContextAt
    <3>5. f.ctxs[y] = w
      BY <1>2, <1>12, <3>1, <3>3
    <3> QED
      BY <1>2, <2>2, <3>4, <3>5 DEF RunAt
  <2> QED
    BY <2>1, <2>2
<1>14. \A j \in 1..l + 1 : g.log[j] = RunAt(h, n + 1 - j)
  <2> SUFFICES ASSUME NEW j \in 1..l + 1 PROVE g.log[j] = RunAt(h, n + 1 - j)
    OBVIOUS
  <2>1. CASE j \in 1..l
    BY <1>c, <1>11, <2>1, Zenon
  <2>2. CASE j = l + 1
    <3>1. n + 1 - j = i
      BY <1>8, <2>2
    <3> QED
      BY <1>c, <1>13, <2>2, <3>1, Zenon
  <2> QED
    BY <2>1, <2>2
<1>15. \A p \in i + 1..n :
        h.array[p].handle \in Wrapping /\ h.array[p].state_index = p => g.ctxs[p] = h.array[p].handle
  <2>1. \A p \in i + 1..n : p \in 1..n /\ p # i
    OBVIOUS
  <2> QED
    BY <1>b, <1>12, <2>1
<1>16. l + 1 = n - i + 1 /\ g.ctx = RunAt(h, i)[2]
  BY <1>a, <1>8, <1>13
<1>17. /\ Len(g.ctxs) <= h.count
       /\ Len(g.log) = Len(g.ctxs) - g.i + (IF g.running THEN 1 ELSE 0)
       /\ g.running => g.ctx = RunAt(h, g.i)[2]
  BY <1>a, <1>b, <1>c, <1>8, <1>16, Zenon
<1>18. \A j \in 1..Len(g.log) : g.log[j] = RunAt(h, Len(g.ctxs) + 1 - j)
  BY <1>b, <1>c, <1>14, Zenon
<1>19. \A p \in g.i + 1..Len(g.ctxs) :
         h.array[p].handle \in Wrapping /\ h.array[p].state_index = p => g.ctxs[p] = h.array[p].handle
  BY <1>a, <1>b, <1>15, Zenon
<1>20. \A p \in 1..Len(g.ctxs) : /\ RunAt(h, p) \in DOMAIN g.intended
                                 /\ g.intended[RunAt(h, p)] = TurnIn(s, RunAt(h, p))
                                 /\ h.array[p].state_index <= Len(g.ctxs)
  BY <1>a, <1>b, <1>9
<1>21. \A r \in DOMAIN g.intended : \E p \in 1..Len(g.ctxs) : RunAt(h, p) = r
  BY <1>a, <1>b, <1>10
<1> QED
  BY <1>17, <1>18, <1>19, <1>20, <1>21, Zenon DEF InOrder

\* The same for the entries of omni
LEMMA CalledTwice ==
  ASSUME H!ConstantsOK, NEW s \in [HookModules -> Nat], NEW h \in HookArray, NEW R, RunsOK(R), ArrayOK(h, R, s),
         NEW f, FrameOK(f), ~f.running, f.i \in 1..Len(f.ctxs), Twice(f, h),
         NEW ctx \in Contexts, ctx = H!ContextAt(f, h.array[f.i].state_index), h.array[f.i].handle \in Handles,
         NEW g, g = Called(f, h.array[f.i].handle, ctx)
  PROVE  Twice(g, h)
<1>0. PICK n \in Nat, l \in Nat : n = Len(f.ctxs) /\ l = Len(f.log)
  BY FrameFields DEF FrameOK
<1>1. PICK i \in 1..n : n = Len(f.ctxs) /\ l = Len(f.log) /\ i = f.i
  BY <1>0
<1>2. PICK w \in Handles : w = h.array[i].handle
  BY <1>1
<1>3. g = Called(f, w, ctx) /\ ctx = H!ContextAt(f, h.array[i].state_index)
  BY <1>1, <1>2
<1>4. FrameOK(f) /\ f.i \in 1..Len(f.ctxs) /\ Null \in Contexts
  BY DEF Contexts
<1>5. IsCalled(f, g, w, ctx)
  BY <1>3, <1>4, CalledFrame
<1>a. g.i = i /\ g.running /\ g.ctx = ctx /\ g.changes = f.changes
  BY <1>1, <1>5, Zenon DEF IsCalled
<1>b. Len(g.ctxs) = n /\ \A p \in 1..n : p # i => g.ctxs[p] = f.ctxs[p]
  BY <1>1, <1>5, Zenon DEF IsCalled
<1>c. Len(g.log) = l + 1 /\ g.log[l + 1] = <<w, ctx>> /\ \A k \in 1..l : g.log[k] = f.log[k]
  BY <1>1, <1>5, Zenon DEF IsCalled
<1> SUFFICES ASSUME f.changes \subseteq {"unload"} PROVE Twice(g, h)
  BY <1>a, Zenon DEF Twice
<1>6. DOMAIN f.ctxs = 1..n
  BY <1>1, FrameFields DEF FrameOK
<1>7. h.count \in Nat
  BY DEF HookArray
<1>8. n <= Len(h.array) /\ \A p \in 1..n : SelfAt(h, p) => p <= h.count /\ h.array[p].state_index <= n
  BY <1>1 DEF Twice
<1>9. \A p : (Ran(f, p) <=> i < p) /\ (Ran(g, p) <=> i < p \/ i = p)
  BY <1>1, <1>a DEF Ran
<1>10. \A k \in 1..l : f.log[k][1] = Self => \E p \in 1..n : SelfAt(h, p) /\ i < p /\ f.log[k] = RunAt(h, p)
  BY <1>1, <1>9 DEF Twice
<1>11. \A p \in 1..n : SelfAt(h, p) /\ i < p => \E k \in 1..l : f.log[k] = RunAt(h, p)
  BY <1>1, <1>9 DEF Twice
<1>12. \A j, k \in 1..l : f.log[j][1] = Self /\ f.log[j] = f.log[k] => j = k
  BY <1>1 DEF Twice
<1>13. \A j, k \in 1..l : f.log[j] = <<Self, Null>> /\ f.log[k] = <<Self, Self>> => j < k
  BY <1>1 DEF Twice
<1>14. \A p \in i + 1..n : SelfAt(h, p) /\ h.array[p].state_index = p => f.ctxs[p] = Self
  BY <1>1 DEF Twice
<1>15. SelfAt(h, i) <=> w = Self
  BY <1>2 DEF SelfAt
<1>16. ASSUME w = Self PROVE <<w, ctx>> = RunAt(h, i) /\ i \in 1..h.count
  <2>0. SelfAt(h, i) /\ i \in 1..h.count
    BY <1>7, <1>8, <1>15, <1>16
  <2>1. CASE h.array[i].state_index = i
    BY <1>1, <1>2, <1>3, <2>0, <2>1 DEF RunAt, H!ContextAt
  <2>2. CASE h.array[i].state_index # i
    <3>1. PICK y \in 1..h.count :
             /\ y = h.array[i].state_index /\ i < y
             /\ h.array[y].handle = h.array[i].handle /\ h.array[y].state_index = y
             /\ h.array[i].handle \in Wrapping
      BY <1>7, <2>0, <2>2, LowerEntry
    <3>2. y <= n
      BY <1>8, <2>0, <3>1
    <3>3. y \in i + 1..n /\ y \in DOMAIN f.ctxs
      BY <1>6, <1>7, <3>1, <3>2
    <3>4. ctx = f.ctxs[y]
      BY <1>1, <1>3, <2>2, <3>1, <3>3, Zenon DEF H!ContextAt
    <3>5. f.ctxs[y] = w
      BY <1>2, <1>14, <1>16, <3>1, <3>3 DEF SelfAt
    <3> QED
      BY <1>2, <2>0, <2>2, <3>4, <3>5 DEF RunAt
  <2> QED
    BY <2>1, <2>2
<1>17. ASSUME NEW k \in 1..l, f.log[k][1] = Self, w = Self
       PROVE  f.log[k] # <<w, ctx>> /\ (f.log[k] = <<Self, Self>> => <<w, ctx>> # <<Self, Null>>)
  <2>1. PICK p \in 1..n : SelfAt(h, p) /\ i < p /\ f.log[k] = RunAt(h, p)
    BY <1>10, <1>17
  <2>2. p \in 1..h.count /\ i \in 1..h.count /\ <<w, ctx>> = RunAt(h, i)
    BY <1>7, <1>8, <1>16, <1>17, <2>1
  <2>3. RunAt(h, i) # RunAt(h, p)
    BY <1>7, <2>1, <2>2, RunsOnce
  <2>4. ASSUME RunAt(h, p) = <<Self, Self>>, RunAt(h, i) = <<Self, Null>> PROVE FALSE
    <3>1. p < i
      BY <1>7, <2>2, <2>4, SelfOnce
    <3> QED
      BY <2>1, <3>1
  <2> QED
    BY <2>1, <2>2, <2>3, <2>4
<1>18. /\ \A k \in 1..l + 1 : k \in 1..l \/ k = l + 1
       /\ \A k \in 1..l : k < l + 1 /\ k \in 1..l + 1
       /\ l + 1 \in 1..l + 1
  OBVIOUS
<1>p. PICK e : e = <<w, ctx>>
  BY Zenon
<1>d. e = <<w, ctx>> /\ e[1] = w /\ e[2] = ctx
  BY <1>p
<1>e. g.log[l + 1] = e
  BY <1>c, <1>d, Zenon
<1>19. \A k \in 1..l + 1 :
         g.log[k][1] = Self => \E p \in 1..n : SelfAt(h, p) /\ Ran(g, p) /\ g.log[k] = RunAt(h, p)
  <2> SUFFICES ASSUME NEW k \in 1..l + 1, g.log[k][1] = Self
               PROVE  \E p \in 1..n : SelfAt(h, p) /\ Ran(g, p) /\ g.log[k] = RunAt(h, p)
    BY Zenon
  <2>1. CASE k \in 1..l
    BY <1>9, <1>10, <1>c, <2>1, Zenon
  <2>2. CASE k = l + 1
    <3>1. w = Self /\ g.log[k] = e
      BY <1>d, <1>e, <2>2, Zenon
    <3>2. SelfAt(h, i) /\ g.log[k] = RunAt(h, i) /\ Ran(g, i)
      BY <1>9, <1>15, <1>16, <1>d, <3>1, Zenon
    <3> QED
      BY <3>2
  <2> QED
    BY <1>18, <2>1, <2>2
<1>20. \A p \in 1..n : SelfAt(h, p) /\ Ran(g, p) => \E k \in 1..l + 1 : g.log[k] = RunAt(h, p)
  <2> SUFFICES ASSUME NEW p \in 1..n, SelfAt(h, p), Ran(g, p)
               PROVE  \E k \in 1..l + 1 : g.log[k] = RunAt(h, p)
    OBVIOUS
  <2>1. CASE i < p
    <3>1. PICK k \in 1..l : f.log[k] = RunAt(h, p)
      BY <1>11, <2>1
    <3>2. k \in 1..l + 1 /\ g.log[k] = RunAt(h, p)
      BY <1>c, <1>18, <3>1, Zenon
    <3> QED
      BY <3>2
  <2>2. CASE i = p
    <3>1. l + 1 \in 1..l + 1
      OBVIOUS
    <3> QED
      BY <1>15, <1>16, <1>c, <2>2, <3>1, Zenon
  <2> QED
    BY <1>9, <2>1, <2>2, Zenon
<1>21. \A j, k \in 1..l + 1 : g.log[j][1] = Self /\ g.log[j] = g.log[k] => j = k
  <2> SUFFICES ASSUME NEW j \in 1..l + 1, NEW k \in 1..l + 1, g.log[j][1] = Self, g.log[j] = g.log[k]
               PROVE  j = k
    BY Zenon
  <2>1. CASE j \in 1..l /\ k \in 1..l
    BY <1>12, <1>c, <2>1, Zenon
  <2>2. ASSUME NEW x \in 1..l, f.log[x] = e, e[1] = Self PROVE FALSE
    <3>1. w = Self /\ f.log[x][1] = Self
      BY <1>d, <2>2
    <3> QED
      BY <1>17, <1>d, <2>2, <3>1
  <2>3. CASE (j \in 1..l /\ k = l + 1) \/ (j = l + 1 /\ k \in 1..l)
    <3>1. CASE j \in 1..l /\ k = l + 1
      <4>1. f.log[j] = e /\ e[1] = Self
        BY <1>c, <1>e, <3>1, Zenon
      <4> QED
        BY <2>2, <3>1, <4>1
    <3>2. CASE j = l + 1 /\ k \in 1..l
      <4>1. f.log[k] = e /\ e[1] = Self
        BY <1>c, <1>e, <3>2, Zenon
      <4> QED
        BY <2>2, <3>2, <4>1
    <3> QED
      BY <2>3, <3>1, <3>2
  <2> QED
    BY <1>18, <2>1, <2>3
<1>22. \A j, k \in 1..l + 1 : g.log[j] = <<Self, Null>> /\ g.log[k] = <<Self, Self>> => j < k
  <2> SUFFICES ASSUME NEW j \in 1..l + 1, NEW k \in 1..l + 1, g.log[j] = <<Self, Null>>, g.log[k] = <<Self, Self>>
               PROVE  j < k
    BY Zenon
  <2>1. CASE j \in 1..l /\ k \in 1..l
    BY <1>13, <1>c, <2>1, Zenon
  <2>2. CASE j \in 1..l /\ k = l + 1
    BY <1>18, <2>2, Zenon
  <2>3. CASE j = l + 1 /\ k \in 1..l
    <3>1. e = <<Self, Null>> /\ f.log[k] = <<Self, Self>>
      BY <1>c, <1>e, <2>3, Zenon
    <3>a. <<Self, Null>>[1] = Self /\ <<Self, Self>>[1] = Self
      BY Zenon
    <3>2. w = Self /\ f.log[k][1] = Self /\ <<w, ctx>> = <<Self, Null>>
      BY <1>d, <3>1, <3>a, Zenon
    <3> QED
      BY <1>17, <2>3, <3>1, <3>2
  <2>4. CASE j = k
    <3>1. <<Self, Null>> = <<Self, Self>>
      BY <2>4, Zenon
    <3>2. Null = Self
      BY <3>1, Zenon
    <3> QED
      BY <3>2, Zenon DEF H!ConstantsOK
  <2> QED
    BY <1>18, <2>1, <2>2, <2>3, <2>4, Zenon
<1>23. \A p \in i + 1..n : SelfAt(h, p) /\ h.array[p].state_index = p => g.ctxs[p] = Self
  <2>1. \A p \in i + 1..n : p \in 1..n /\ p # i
    OBVIOUS
  <2> QED
    BY <1>b, <1>14, <2>1
<1>24. /\ g.log[l + 1][1] = Self <=> SelfAt(h, i)
       /\ SelfAt(h, i) => g.ctx = RunAt(h, i)[2]
  <2>1. <<w, ctx>>[1] = w /\ <<w, ctx>>[2] = ctx
    OBVIOUS
  <2> QED
    BY <1>15, <1>16, <1>a, <1>c, <2>1, Zenon
<1>25. g.i = i /\ Len(g.ctxs) = n /\ Len(g.log) = l + 1
  BY <1>a, <1>b, <1>c, Zenon
<1>26. /\ Len(g.ctxs) <= Len(h.array)
       /\ \A p \in 1..Len(g.ctxs) : SelfAt(h, p) => p <= h.count /\ h.array[p].state_index <= Len(g.ctxs)
  BY <1>8, <1>25
<1>27. \A k \in 1..Len(g.log) :
         g.log[k][1] = Self => \E p \in 1..Len(g.ctxs) : SelfAt(h, p) /\ Ran(g, p) /\ g.log[k] = RunAt(h, p)
  BY <1>19, <1>25, Zenon
<1>28. \A p \in 1..Len(g.ctxs) :
         SelfAt(h, p) /\ Ran(g, p) => \E k \in 1..Len(g.log) : g.log[k] = RunAt(h, p)
  BY <1>20, <1>25, Zenon
<1>29. /\ \A j, k \in 1..Len(g.log) : g.log[j][1] = Self /\ g.log[j] = g.log[k] => j = k
       /\ \A j, k \in 1..Len(g.log) : g.log[j] = <<Self, Null>> /\ g.log[k] = <<Self, Self>> => j < k
  BY <1>21, <1>22, <1>25, Zenon
<1>30. /\ \A p \in g.i + 1..Len(g.ctxs) : SelfAt(h, p) /\ h.array[p].state_index = p => g.ctxs[p] = Self
       /\ g.log[Len(g.log)][1] = Self <=> SelfAt(h, g.i)
       /\ SelfAt(h, g.i) => g.ctx = RunAt(h, g.i)[2]
  BY <1>23, <1>24, <1>25, Zenon
<1> QED
  BY <1>26, <1>27, <1>28, <1>29, <1>30, Zenon DEF Twice

\* The return of the hook at the index of a dispatch
LEMMA ReturnedInOrder ==
  ASSUME NEW h, NEW s, NEW f, FrameOK(f), f.running, InOrder(f, h, s),
         NEW m, m = f.log[Len(f.log)][1],
         NEW ctx \in Contexts, ctx = (IF m \notin Wrapping THEN f.ctx ELSE IF f.ctx = Null THEN m ELSE Null),
         NEW finish \in BOOLEAN, NEW g, g = Returned(f, ctx, finish)
  PROVE  InOrder(g, h, s)
<1>0. PICK n \in Nat, l \in Nat : n = Len(f.ctxs) /\ l = Len(f.log)
  BY FrameFields DEF FrameOK
<1>4. f.i \in 1..Len(f.ctxs) /\ IsReturned(f, g, ctx, finish)
  BY ReturnedFrame
<1>1. PICK i \in 1..n : n = Len(f.ctxs) /\ l = Len(f.log) /\ i = f.i
  BY <1>0, <1>4
<1>a. g.i = i - 1 /\ g.changes = f.changes /\ g.intended = f.intended /\ g.log = f.log
  BY <1>1, <1>4 DEF IsReturned
<1>r. ~g.running
  BY <1>4 DEF IsReturned
<1>c. g.i + 1 = i /\ Len(g.log) = l
  BY <1>1, <1>a
<1>b. Len(g.ctxs) = n /\ g.ctxs[i] = ctx /\ \A p \in 1..n : p # i => g.ctxs[p] = f.ctxs[p]
  BY <1>1, <1>4 DEF IsReturned
<1> SUFFICES ASSUME f.changes = {} PROVE InOrder(g, h, s)
  BY <1>a, Zenon DEF InOrder
<1>8. n <= h.count /\ l = n - i + 1 /\ f.ctx = RunAt(h, i)[2]
  BY <1>1 DEF InOrder
<1>9. \A p \in 1..n : /\ RunAt(h, p) \in DOMAIN f.intended
                      /\ f.intended[RunAt(h, p)] = TurnIn(s, RunAt(h, p))
                      /\ h.array[p].state_index <= n
  BY <1>1 DEF InOrder
<1>10. \A r \in DOMAIN f.intended : \E p \in 1..n : RunAt(h, p) = r
  BY <1>1 DEF InOrder
<1>11. \A j \in 1..l : f.log[j] = RunAt(h, n + 1 - j)
  BY <1>1 DEF InOrder
<1>12. \A p \in i + 1..n :
          h.array[p].handle \in Wrapping /\ h.array[p].state_index = p => f.ctxs[p] = h.array[p].handle
  BY <1>1 DEF InOrder
<1>13. l \in 1..l /\ n + 1 - l = i
  BY <1>8
<1>14. m = h.array[i].handle
  <2>1. f.log[l] = RunAt(h, i)
    BY <1>11, <1>13
  <2>2. RunAt(h, i)[1] = h.array[i].handle
    BY DEF RunAt
  <2> QED
    BY <1>1, <2>1, <2>2
<1>15. ASSUME h.array[i].handle \in Wrapping, h.array[i].state_index = i PROVE ctx = h.array[i].handle
  <2>1. RunAt(h, i)[2] = Null
    BY <1>15 DEF RunAt
  <2> QED
    BY <1>8, <1>14, <1>15, <2>1
<1>16. \A p \in i..n :
          h.array[p].handle \in Wrapping /\ h.array[p].state_index = p => g.ctxs[p] = h.array[p].handle
  <2>1. \A p \in i..n : p = i \/ (p \in i + 1..n /\ p \in 1..n /\ p # i)
    OBVIOUS
  <2> QED
    BY <1>b, <1>12, <1>15, <2>1
<1>17. /\ Len(g.ctxs) <= h.count
       /\ Len(g.log) = Len(g.ctxs) - g.i + (IF g.running THEN 1 ELSE 0)
  <2>1. (IF g.running THEN 1 ELSE 0) = 0
    BY <1>r
  <2>2. l = n - (i - 1) + 0
    BY <1>8
  <2>3. Len(g.ctxs) = n /\ g.i = i - 1 /\ Len(g.log) = l
    BY <1>a, <1>b, <1>c
  <2> QED
    BY <1>8, <2>1, <2>2, <2>3
<1>18. \A j \in 1..Len(g.log) : g.log[j] = RunAt(h, Len(g.ctxs) + 1 - j)
  <2> SUFFICES ASSUME NEW j \in 1..Len(g.log) PROVE g.log[j] = RunAt(h, Len(g.ctxs) + 1 - j)
    OBVIOUS
  <2>1. j \in 1..l
    BY <1>c
  <2>2. g.log[j] = f.log[j] /\ f.log[j] = RunAt(h, n + 1 - j)
    BY <1>a, <1>11, <2>1
  <2> QED
    BY <1>b, <2>2
<1>19. \A p \in g.i + 1..Len(g.ctxs) :
         h.array[p].handle \in Wrapping /\ h.array[p].state_index = p => g.ctxs[p] = h.array[p].handle
  BY <1>b, <1>c, <1>16
<1>20. \A p \in 1..Len(g.ctxs) : /\ RunAt(h, p) \in DOMAIN g.intended
                                 /\ g.intended[RunAt(h, p)] = TurnIn(s, RunAt(h, p))
                                 /\ h.array[p].state_index <= Len(g.ctxs)
  BY <1>a, <1>b, <1>9
<1>21. \A r \in DOMAIN g.intended : \E p \in 1..Len(g.ctxs) : RunAt(h, p) = r
  BY <1>a, <1>b, <1>10
<1> QED
  BY <1>r, <1>17, <1>18, <1>19, <1>20, <1>21, Zenon DEF InOrder

\* The same for the entries of omni
LEMMA ReturnedTwice ==
  ASSUME H!ConstantsOK, NEW h, NEW f, FrameOK(f), f.running, Twice(f, h),
         NEW m, m = f.log[Len(f.log)][1],
         NEW ctx \in Contexts, ctx = (IF m \notin Wrapping THEN f.ctx ELSE IF f.ctx = Null THEN m ELSE Null),
         NEW finish \in BOOLEAN, NEW g, g = Returned(f, ctx, finish)
  PROVE  Twice(g, h)
<1>0. PICK n \in Nat, l \in Nat : n = Len(f.ctxs) /\ l = Len(f.log)
  BY FrameFields DEF FrameOK
<1>4. f.i \in 1..Len(f.ctxs) /\ IsReturned(f, g, ctx, finish)
  BY ReturnedFrame
<1>1. PICK i \in 1..n : n = Len(f.ctxs) /\ l = Len(f.log) /\ i = f.i
  BY <1>0, <1>4
<1>a. g.i = i - 1 /\ g.changes = f.changes /\ g.log = f.log
  BY <1>1, <1>4 DEF IsReturned
<1>r. ~g.running
  BY <1>4 DEF IsReturned
<1>c. g.i + 1 = i /\ Len(g.log) = l
  BY <1>1, <1>a
<1>b. Len(g.ctxs) = n /\ g.ctxs[i] = ctx /\ \A p \in 1..n : p # i => g.ctxs[p] = f.ctxs[p]
  BY <1>1, <1>4, Zenon DEF IsReturned
<1> SUFFICES ASSUME f.changes \subseteq {"unload"} PROVE Twice(g, h)
  BY <1>a, Zenon DEF Twice
<1>8. n <= Len(h.array) /\ \A p \in 1..n : SelfAt(h, p) => p <= h.count /\ h.array[p].state_index <= n
  BY <1>1 DEF Twice
<1>9. \A p \in 1..n : Ran(f, p) <=> Ran(g, p)
  BY <1>1, <1>a, <1>r DEF Ran
<1>10. \A k \in 1..l : f.log[k][1] = Self => \E p \in 1..n : SelfAt(h, p) /\ Ran(f, p) /\ f.log[k] = RunAt(h, p)
  BY <1>1 DEF Twice
<1>11. \A p \in 1..n : SelfAt(h, p) /\ Ran(f, p) => \E k \in 1..l : f.log[k] = RunAt(h, p)
  BY <1>1 DEF Twice
<1>12. \A j, k \in 1..l : f.log[j][1] = Self /\ f.log[j] = f.log[k] => j = k
  BY <1>1 DEF Twice
<1>13. \A j, k \in 1..l : f.log[j] = <<Self, Null>> /\ f.log[k] = <<Self, Self>> => j < k
  BY <1>1 DEF Twice
<1>14. \A p \in i + 1..n : SelfAt(h, p) /\ h.array[p].state_index = p => f.ctxs[p] = Self
  BY <1>1 DEF Twice
<1>15. ASSUME SelfAt(h, i), h.array[i].state_index = i PROVE ctx = Self
  <2>1. f.log[l][1] = Self /\ f.ctx = RunAt(h, i)[2]
    BY <1>1, <1>15 DEF Twice
  <2>2. RunAt(h, i)[2] = Null
    BY <1>15 DEF RunAt
  <2>3. Self \in Wrapping
    BY DEF H!ConstantsOK
  <2> QED
    BY <1>1, <2>1, <2>2, <2>3
<1>16. \A p \in i..n : SelfAt(h, p) /\ h.array[p].state_index = p => g.ctxs[p] = Self
  <2>1. \A p \in i..n : p = i \/ (p \in i + 1..n /\ p \in 1..n /\ p # i)
    OBVIOUS
  <2> QED
    BY <1>b, <1>14, <1>15, <2>1
<1>26. /\ Len(g.ctxs) <= Len(h.array)
       /\ \A p \in 1..Len(g.ctxs) : SelfAt(h, p) => p <= h.count /\ h.array[p].state_index <= Len(g.ctxs)
  BY <1>8, <1>b
<1>27. \A k \in 1..Len(g.log) :
         g.log[k][1] = Self => \E p \in 1..Len(g.ctxs) : SelfAt(h, p) /\ Ran(g, p) /\ g.log[k] = RunAt(h, p)
  BY <1>9, <1>10, <1>a, <1>b, <1>c
<1>28. \A p \in 1..Len(g.ctxs) :
         SelfAt(h, p) /\ Ran(g, p) => \E k \in 1..Len(g.log) : g.log[k] = RunAt(h, p)
  BY <1>9, <1>11, <1>a, <1>b, <1>c
<1>29. ASSUME NEW j \in 1..Len(g.log), NEW k \in 1..Len(g.log)
       PROVE  /\ g.log[j][1] = Self /\ g.log[j] = g.log[k] => j = k
              /\ g.log[j] = <<Self, Null>> /\ g.log[k] = <<Self, Self>> => j < k
  <2>1. j \in 1..l /\ k \in 1..l
    BY <1>c
  <2>2. g.log[j] = f.log[j] /\ g.log[k] = f.log[k]
    BY <1>a
  <2> QED
    BY <1>12, <1>13, <2>1, <2>2, Zenon
<1>30. \A p \in g.i + 1..Len(g.ctxs) : SelfAt(h, p) /\ h.array[p].state_index = p => g.ctxs[p] = Self
  BY <1>b, <1>c, <1>16
<1>31. /\ \A j, k \in 1..Len(g.log) : g.log[j][1] = Self /\ g.log[j] = g.log[k] => j = k
       /\ \A j, k \in 1..Len(g.log) : g.log[j] = <<Self, Null>> /\ g.log[k] = <<Self, Self>> => j < k
  BY <1>29, Zenon
<1> QED
  BY <1>r, <1>26, <1>27, <1>28, <1>30, <1>31, Zenon DEF Twice

\* A dispatch that begins
LEMMA NewInOrder ==
  ASSUME NEW s, NEW h, NEW R, h.count \in Nat, h.count <= Len(h.array), ArrayOK(h, R, s),
         NEW f, f.i = h.count, Len(f.ctxs) = f.i, f.running = FALSE, f.log = <<>>,
         DOMAIN f.intended = R, \A r \in R : f.intended[r] = TurnIn(s, r)
  PROVE  InOrder(f, h, s) /\ Twice(f, h)
<1>1. PICK n \in Nat : n = h.count /\ Len(f.ctxs) = n /\ f.i = n
  OBVIOUS
<1>2. Len(f.log) = 0 /\ ~f.running
  OBVIOUS
<1>3. \A p \in 1..n : /\ RunAt(h, p) \in DOMAIN f.intended
                      /\ f.intended[RunAt(h, p)] = TurnIn(s, RunAt(h, p))
                      /\ h.array[p].state_index <= n
  BY <1>1 DEF ArrayOK
<1>4. \A r \in DOMAIN f.intended : \E p \in 1..n : RunAt(h, p) = r
  BY <1>1 DEF ArrayOK
<1>5. \A p \in n + 1..n : FALSE
  OBVIOUS
<1>6. \A p \in 1..n : ~Ran(f, p)
  BY <1>1, <1>2 DEF Ran
<1>a. Len(f.ctxs) <= h.count /\ Len(f.log) = Len(f.ctxs) - f.i + (IF f.running THEN 1 ELSE 0)
  <2>1. n - n + 0 = 0
    OBVIOUS
  <2> QED
    BY <1>1, <1>2, <2>1
<1>b. (\A k \in 1..Len(f.log) : FALSE) /\ \A p \in f.i + 1..Len(f.ctxs) : FALSE
  BY <1>1, <1>2, <1>5
<1>c. /\ \A p \in 1..Len(f.ctxs) : /\ RunAt(h, p) \in DOMAIN f.intended
                                   /\ f.intended[RunAt(h, p)] = TurnIn(s, RunAt(h, p))
                                   /\ h.array[p].state_index <= Len(f.ctxs)
      /\ \A r \in DOMAIN f.intended : \E p \in 1..Len(f.ctxs) : RunAt(h, p) = r
  BY <1>1, <1>3, <1>4
<1>7. InOrder(f, h, s)
  BY <1>2, <1>a, <1>b, <1>c DEF InOrder
<1>8. Len(f.ctxs) <= Len(h.array)
  BY <1>1
<1>9. Twice(f, h)
  BY <1>1, <1>2, <1>3, <1>5, <1>6, <1>8 DEF Twice
<1> QED
  BY <1>7, <1>9

\* The frame f is right about the arrays.
Good(f, arrays, s, E) == f.type \notin E => InOrder(f, arrays[f.type], s) /\ Twice(f, arrays[f.type])

\* Loads and unloads of other types do not concern a dispatch.
LEMMA UntouchedStays ==
  ASSUME H!ConstantsOK, NEW s \in [HookModules -> Nat], NEW m \in HookModules, NEW z, SameBut(z, s, m),
         NEW h, NEW k, NEW R, h.count \in Nat, k.count \in Nat, h.count <= k.count, RunsOK(R), ArrayOK(h, R, s),
         \A r \in R : r[1] # m, \A p \in 1..h.count : k.array[p] = h.array[p],
         NEW n \in Nat, n <= h.count
  PROVE  Stays(n, h, k, s, z)
<1>1. \A p \in 1..n : p \in 1..h.count
  OBVIOUS
<1>2. ASSUME NEW p \in 1..n PROVE TurnIn(z, RunAt(h, p)) = TurnIn(s, RunAt(h, p))
  <2>1. RunAt(h, p) \in R
    BY <1>1 DEF ArrayOK
  <2>2. RunAt(h, p) \in Handles \X Contexts /\ RunAt(h, p)[1] # m
    BY <2>1 DEF RunsOK
  <2> QED
    BY <2>2, OthersTurns
<1> QED
  BY <1>1, <1>2 DEF Stays

\* What a dispatch knows of the size of the array
LEMMA FrameSizes ==
  ASSUME NEW f, NEW h, NEW s, FrameOK(f), InOrder(f, h, s), Twice(f, h)
  PROVE  /\ Len(f.ctxs) \in Nat
         /\ f.changes = {} => Len(f.ctxs) <= h.count
         /\ f.changes \subseteq {"unload"} =>
              Len(f.ctxs) <= Len(h.array) /\ \A p \in 1..Len(f.ctxs) : SelfAt(h, p) => p <= h.count
<1>1. Len(f.ctxs) \in Nat
  BY FrameFields DEF FrameOK
<1> QED
  BY <1>1 DEF InOrder, Twice

\* The runs of a type are runs.
LEMMA RunsNowOK == ASSUME H!ConstantsOK, SinceOK, NEW t PROVE RunsOK(H!Runs(t))
  BY RunsInNow, RunsInAre DEF SinceOK, RunsOK

\* The dispatches in progress after a load
LEMMA FramesLoaded ==
  ASSUME H!ConstantsOK, HookTypes, SinceOK, ArraysOK, FramesOK, NEW m \in HookModules, H!LoadModule(m)
  PROVE  \A d \in 1..Len(stack') : Good(stack'[d], hook_entry_points', since', exposed')
<1> DEFINE T == HookType[m]
           arrays == hook_entry_points
           c == IF m \in Wrapping THEN {"shift"} ELSE IF Len(arrays[T].array) > arrays[T].count + 1 THEN {"cut"} ELSE {}
<1>1. /\ stack' = H!Changing(m, c) /\ c \subseteq {"shift", "cut", "unload"} /\ exposed \subseteq exposed'
      /\ m \notin H!Registered \/ T \in exposed'
  BY DEF H!LoadModule
<1>2. /\ SameBut(since', since, m) /\ since \in [HookModules -> Nat]
  BY DEF H!LoadModule, SinceOK, SameBut
<1>3. T \in Types /\ \A t \in Types : arrays'[t] = IF t = T THEN H!RegisterHook(arrays[t], m) ELSE arrays[t]
  BY DEF H!LoadModule, HookTypes, H!ConstantsOK
<1>4. /\ Len(stack') = Len(stack)
      /\ \A d \in 1..Len(stack) :
           /\ FrameOK(stack[d]) /\ FrameOK(stack'[d])
           /\ stack[d].type = T => stack'[d] = Changed(stack[d], c)
           /\ stack[d].type # T => stack'[d] = stack[d]
  <2> HIDE DEF c
  <2> QED
    BY <1>1, StackChanged
<1> SUFFICES ASSUME NEW d \in 1..Len(stack) PROVE Good(stack'[d], arrays', since', exposed')
  BY <1>4
<1>5. PICK f, g : f = stack[d] /\ g = stack'[d] /\ FrameOK(f)
  BY <1>4
<1>6. PICK t \in Types : t = f.type
  BY <1>5, FrameFields DEF FrameOK
<1>7. Alike(f, g) /\ (t = T => c \subseteq g.changes)
  <2>1. CASE t = T
    <3>1. g = Changed(f, c)
      BY <1>4, <1>5, <1>6, <2>1
    <3> HIDE DEF c
    <3> QED
      BY <1>1, <1>5, <3>1, ChangedFrame
  <2>2. CASE t # T
    BY <1>4, <1>5, <1>6, <2>2 DEF Alike
  <2> QED
    BY <2>1, <2>2
<1>8. g.type = t
  BY <1>6, <1>7 DEF Alike
<1> SUFFICES ASSUME t \notin exposed' PROVE InOrder(g, arrays'[t], since') /\ Twice(g, arrays'[t])
  BY <1>5, <1>8 DEF Good
<1>20. t \notin exposed
  BY <1>1
<1>9. PICK h \in HookArray : h = arrays[t] /\ h.count <= Len(h.array)
  BY DEF HookTypes
<1>10. h.count \in Nat /\ Len(h.array) \in Nat
  BY DEF HookArray
<1>11. InOrder(f, h, since) /\ Twice(f, h)
  BY <1>5, <1>6, <1>9, <1>20 DEF FramesOK
<1>12. PICK R : R = H!Runs(t)
  OBVIOUS
<1>13. RunsOK(R) /\ ArrayOK(h, R, since)
  BY <1>9, <1>12, <1>20, RunsNowOK DEF ArraysOK
<1>14. \A r \in R : r[1] # m
  <2>1. \A r \in RunsIn(H!Registered, t) : r[1] = Default \/ (r[1] \in H!Registered /\ HookType[r[1]] = t)
    BY RunsInNow, RunsInAre
  <2>2. m # Default
    BY DEF H!ConstantsOK
  <2> QED
    BY <1>1, <1>12, <2>1, <2>2, RunsInNow
<1>15. PICK n \in Nat : n = Len(f.ctxs)
  BY <1>5, <1>11, FrameSizes
<1>16. /\ f.changes = {} => n <= h.count
       /\ f.changes \subseteq {"unload"} =>
            n <= Len(h.array) /\ \A p \in 1..n : SelfAt(h, p) => p <= h.count
  BY <1>5, <1>11, <1>15, FrameSizes
<1>17. CASE t # T
  <2>1. arrays'[t] = h
    BY <1>3, <1>9, <1>17
  <2>2. ASSUME g.changes = {} PROVE Stays(n, h, h, since, since')
    <3>1. n <= h.count
      BY <1>7, <1>16, <2>2 DEF Alike
    <3>2. h.count <= h.count /\ \A p \in 1..h.count : h.array[p] = h.array[p]
      BY <1>10
    <3> QED
      BY <1>2, <1>10, <1>13, <1>14, <3>1, <3>2, UntouchedStays, Zenon
  <2>3. ASSUME g.changes \subseteq {"unload"} PROVE SelfStaysIn(n, h, h)
    <3>1. f.changes \subseteq {"unload"}
      BY <1>7, <2>3 DEF Alike
    <3> QED
      BY <1>16, <3>1 DEF SelfStaysIn
  <2>4. InOrder(g, h, since')
    BY <1>5, <1>7, <1>11, <1>15, <2>2, InOrderStays
  <2>5. Twice(g, h)
    BY <1>5, <1>7, <1>11, <1>15, <2>3, TwiceStays
  <2> QED
    BY <2>1, <2>4, <2>5
<1>18. CASE t = T /\ m \notin Wrapping /\ ~(Len(h.array) > h.count + 1)
  <2>1. PICK k : k = H!RegisterPlain(h, m)
    OBVIOUS
  <2>2. arrays'[t] = k
    BY <1>3, <1>9, <1>18, <2>1 DEF H!RegisterHook
  <2>3. /\ k \in HookArray /\ k.count = h.count + 1 /\ Len(k.array) = h.count + 1
        /\ \A p \in 1..h.count : k.array[p] = h.array[p]
        /\ k.array[h.count + 1].handle = m /\ k.array[h.count + 1].state_index = h.count + 1
    BY <1>9, <2>1, PlainArray
  <2>4. k.count \in Nat /\ h.count <= k.count
    BY <1>10, <2>3
  <2>5. ASSUME g.changes = {} PROVE Stays(n, h, k, since, since')
    <3>1. n <= h.count
      BY <1>7, <1>16, <2>5 DEF Alike
    <3>2. \A p \in 1..h.count : k.array[p] = h.array[p]
      BY <2>3
    <3> QED
      BY <1>2, <1>10, <1>13, <1>14, <2>4, <3>1, <3>2, UntouchedStays
  <2>6. ASSUME g.changes \subseteq {"unload"} PROVE SelfStaysIn(n, h, k)
    <3>1. n <= Len(h.array) /\ \A p \in 1..n : SelfAt(h, p) => p <= h.count
      <4>1. f.changes \subseteq {"unload"}
        BY <1>7, <2>6 DEF Alike
      <4> QED
        BY <1>16, <4>1
    <3>2. n <= h.count + 1
      BY <1>10, <1>18, <3>1
    <3>3. ~SelfAt(k, h.count + 1)
      BY <1>18, <2>3 DEF SelfAt, H!ConstantsOK
    <3>4. ASSUME NEW p \in 1..n PROVE /\ SelfAt(k, p) <=> SelfAt(h, p)
                                      /\ SelfAt(h, p) => p <= k.count /\ k.array[p] = h.array[p]
      <4>1. CASE p \in 1..h.count
        <5>1. k.array[p] = h.array[p] /\ p <= k.count
          BY <1>10, <2>3, <4>1
        <5> QED
          BY <5>1 DEF SelfAt
      <4>2. CASE p = h.count + 1
        BY <1>10, <3>1, <3>3, <4>2
      <4> QED
        BY <1>10, <3>2, <4>1, <4>2
    <3>5. n <= Len(k.array)
      BY <2>3, <3>2
    <3> QED
      BY <3>4, <3>5 DEF SelfStaysIn
  <2>7. InOrder(g, k, since')
    BY <1>5, <1>7, <1>11, <1>15, <2>5, InOrderStays
  <2>8. Twice(g, k)
    BY <1>5, <1>7, <1>11, <1>15, <2>6, TwiceStays
  <2> QED
    BY <2>2, <2>7, <2>8
<1>19. CASE t = T /\ (m \in Wrapping \/ Len(h.array) > h.count + 1)
  <2>1. \E x \in c : x # "unload"
    BY <1>9, <1>19
  <2>2. ~(g.changes \subseteq {"unload"}) /\ g.changes # {}
    BY <1>7, <1>19, <2>1
  <2> QED
    BY <2>2 DEF InOrder, Twice
<1> QED
  BY <1>17, <1>18, <1>19

\* The dispatches in progress after an unload
LEMMA FramesUnloaded ==
  ASSUME H!ConstantsOK, HookTypes, SinceOK, ArraysOK, FramesOK, NEW m \in HookModules, H!UnloadModule(m)
  PROVE  \A d \in 1..Len(stack') : Good(stack'[d], hook_entry_points', since', exposed')
<1> DEFINE T == HookType[m]
           arrays == hook_entry_points
           c == IF m \in Wrapping THEN {"unload", "shift"} ELSE {"unload"}
<1>1. /\ stack' = H!Changing(m, c) /\ c \subseteq {"shift", "cut", "unload"} /\ exposed \subseteq exposed'
      /\ "unload" \in c /\ (m \in Wrapping => "shift" \in c)
  BY DEF H!UnloadModule
<1>2. since \in [HookModules -> Nat]
  BY DEF SinceOK
<1>3. \A t \in Types \ exposed' : /\ t # T => arrays'[t] = arrays[t]
                                  /\ m \notin Wrapping => SelfStays(arrays[t], arrays'[t])
  BY ArraysUnloaded
<1>4. /\ Len(stack') = Len(stack)
      /\ \A d \in 1..Len(stack) :
           /\ FrameOK(stack[d]) /\ FrameOK(stack'[d])
           /\ stack[d].type = T => stack'[d] = Changed(stack[d], c)
           /\ stack[d].type # T => stack'[d] = stack[d]
  <2> HIDE DEF c
  <2> QED
    BY <1>1, StackChanged
<1> SUFFICES ASSUME NEW d \in 1..Len(stack) PROVE Good(stack'[d], arrays', since', exposed')
  BY <1>4
<1>5. PICK f, g : f = stack[d] /\ g = stack'[d] /\ FrameOK(f)
  BY <1>4
<1>6. PICK t \in Types : t = f.type
  BY <1>5, FrameFields DEF FrameOK
<1>7. Alike(f, g) /\ (t = T => c \subseteq g.changes)
  <2>1. CASE t = T
    <3>1. g = Changed(f, c)
      BY <1>4, <1>5, <1>6, <2>1
    <3> HIDE DEF c
    <3> QED
      BY <1>1, <1>5, <3>1, ChangedFrame
  <2>2. CASE t # T
    BY <1>4, <1>5, <1>6, <2>2 DEF Alike
  <2> QED
    BY <2>1, <2>2
<1>8. g.type = t
  BY <1>6, <1>7 DEF Alike
<1> SUFFICES ASSUME t \notin exposed' PROVE InOrder(g, arrays'[t], since') /\ Twice(g, arrays'[t])
  BY <1>5, <1>8 DEF Good
<1>9. PICK h \in HookArray : h = arrays[t] /\ h.count <= Len(h.array)
  BY DEF HookTypes
<1>10. h.count \in Nat /\ Len(h.array) \in Nat
  BY DEF HookArray
<1>11. InOrder(f, h, since) /\ Twice(f, h)
  BY <1>1, <1>5, <1>6, <1>9 DEF FramesOK
<1>12. PICK R : R = H!Runs(t)
  OBVIOUS
<1>13. RunsOK(R) /\ ArrayOK(h, R, since)
  BY <1>1, <1>9, <1>12, RunsNowOK DEF ArraysOK
<1>15. PICK n \in Nat : n = Len(f.ctxs)
  BY <1>5, <1>11, FrameSizes
<1>16. /\ f.changes = {} => n <= h.count
       /\ f.changes \subseteq {"unload"} =>
            n <= Len(h.array) /\ \A p \in 1..n : SelfAt(h, p) => p <= h.count
  BY <1>5, <1>11, <1>15, FrameSizes
<1>17. CASE t # T
  <2>1. arrays'[t] = h
    BY <1>3, <1>9, <1>17
  <2>a. \A r \in R : TurnIn(since', r) = TurnIn(since, r)
    <3>1. \A r \in RunsIn(H!Registered, t) :
            r[1] = Default \/ (r[1] \in H!Registered /\ HookType[r[1]] = t /\ r[1] \in HookModules)
      BY RunsInNow, RunsInAre
    <3>2. \A x \in H!Registered : HookType[x] = t => x \in hook_modules'
      BY <1>17 DEF H!UnloadModule
    <3>3. since' = [x \in HookModules |-> IF x \in hook_modules' THEN since[x] ELSE 0]
      BY DEF H!UnloadModule
    <3>4. R = RunsIn(H!Registered, t)
      BY <1>12, RunsInNow
    <3> SUFFICES ASSUME NEW r \in R PROVE TurnIn(since', r) = TurnIn(since, r)
      OBVIOUS
    <3>5. r[1] # Default => since'[r[1]] = since[r[1]]
      BY <3>1, <3>2, <3>3, <3>4
    <3> QED
      BY <3>5 DEF TurnIn
  <2>2. ASSUME g.changes = {} PROVE Stays(n, h, h, since, since')
    <3>1. n <= h.count
      BY <1>7, <1>16, <2>2 DEF Alike
    <3>2. h.count <= h.count /\ \A p \in 1..h.count : h.array[p] = h.array[p]
      BY <1>10
    <3> QED
      <4>1. \A p \in 1..n : p \in 1..h.count
        BY <1>10, <3>1
      <4>2. \A p \in 1..n : RunAt(h, p) \in R
        BY <1>13, <4>1 DEF ArrayOK
      <4> QED
        BY <2>a, <3>1, <4>2 DEF Stays
  <2>3. ASSUME g.changes \subseteq {"unload"} PROVE SelfStaysIn(n, h, h)
    <3>1. f.changes \subseteq {"unload"}
      BY <1>7, <2>3 DEF Alike
    <3> QED
      BY <1>16, <3>1 DEF SelfStaysIn
  <2>4. InOrder(g, h, since')
    BY <1>5, <1>7, <1>11, <1>15, <2>2, InOrderStays
  <2>5. Twice(g, h)
    BY <1>5, <1>7, <1>11, <1>15, <2>3, TwiceStays
  <2> QED
    BY <2>1, <2>4, <2>5
<1>18. CASE t = T
  <2>1. InOrder(g, arrays'[t], since')
    <3>1. g.changes # {}
      BY <1>1, <1>7, <1>18
    <3> QED
      BY <3>1 DEF InOrder
  <2>2. ASSUME g.changes \subseteq {"unload"} PROVE m \notin Wrapping
    <3>1. "shift" # "unload"
      OBVIOUS
    <3> QED
      BY <1>1, <1>7, <1>18, <2>2, <3>1
  <2>3. PICK k : k = arrays'[t]
    OBVIOUS
  <2>4. ASSUME g.changes \subseteq {"unload"} PROVE SelfStaysIn(n, h, k)
    <3>1. SelfStays(h, k)
      BY <1>3, <1>9, <2>2, <2>3, <2>4
    <3>2. n <= Len(h.array) /\ \A p \in 1..n : SelfAt(h, p) => p <= h.count
      <4>1. f.changes \subseteq {"unload"}
        BY <1>7, <2>4 DEF Alike
      <4> QED
        BY <1>16, <4>1
    <3>3. \A p \in 1..n : p \in 1..Len(h.array) /\ (SelfAt(h, p) => p \in 1..h.count)
      BY <1>10, <3>2
    <3> QED
      BY <3>1, <3>2, <3>3 DEF SelfStays, SelfStaysIn
  <2>5. Twice(g, k)
    BY <1>5, <1>7, <1>11, <1>15, <2>4, TwiceStays
  <2> QED
    BY <2>1, <2>3, <2>5
<1> QED
  BY <1>17, <1>18

\* The dispatches in progress after the other steps
LEMMA FramesRun ==
  ASSUME H!ConstantsOK, HookTypes, SinceOK, ArraysOK, FramesOK, [H!Next]_H!vars,
         UNCHANGED <<hook_entry_points, since, exposed>>
  PROVE  \/ \A d \in 1..Len(stack') : Good(stack'[d], hook_entry_points, since, exposed)
         \/ \E m \in HookModules : H!LoadModule(m) \/ H!UnloadModule(m)
         \/ H!FreshBackend
<1> DEFINE arrays == hook_entry_points
           G == \A d \in 1..Len(stack') : Good(stack'[d], arrays, since, exposed)
<1>0. /\ stack \in Seq(Frame) /\ Len(stack) \in Nat
      /\ \A d \in 1..Len(stack) : FrameOK(stack[d]) /\ Good(stack[d], arrays, since, exposed)
  BY DEF HookTypes, FramesOK, Good
<1>1. ASSUME NEW f, H!ReplaceTop(f), FrameOK(f), stack # <<>>, Good(f, arrays, since, exposed) PROVE G
  <2>1. f \in Frame
    BY <1>1 DEF FrameOK
  <2>2. /\ Len(stack') = Len(stack) /\ stack'[Len(stack)] = f
        /\ \A d \in 1..Len(stack) : d # Len(stack) => stack'[d] = stack[d]
    BY <1>0, <1>1, <2>1, TopReplaced
  <2> QED
    BY <1>0, <1>1, <2>2
<1>2. ASSUME NEW t \in Types, H!Dispatch(t) PROVE G
  <2>1. PICK f : /\ stack' = Append(stack, f) /\ FrameOK(f)
                 /\ f.type = t /\ f.i = arrays[t].count /\ Len(f.ctxs) = f.i
                 /\ f.running = FALSE /\ f.changes = {} /\ f.log = <<>>
                 /\ DOMAIN f.intended = H!Runs(t)
                 /\ \A r \in H!Runs(t) : f.intended[r] = TurnIn(since, r)
    BY <1>2, DispatchStep
  <2>2. Good(f, arrays, since, exposed)
    <3> SUFFICES ASSUME t \notin exposed PROVE InOrder(f, arrays[t], since) /\ Twice(f, arrays[t])
      BY <2>1 DEF Good
    <3>1. PICK h \in HookArray : h = arrays[t] /\ h.count <= Len(h.array)
      BY DEF HookTypes
    <3>2. h.count \in Nat
      BY DEF HookArray
    <3>3. PICK R : R = H!Runs(t)
      OBVIOUS
    <3>4. ArrayOK(h, R, since) /\ DOMAIN f.intended = R /\ \A r \in R : f.intended[r] = TurnIn(since, r)
      BY <2>1, <3>1, <3>3 DEF ArraysOK
    <3>5. f.i = h.count /\ Len(f.ctxs) = f.i /\ f.running = FALSE /\ f.log = <<>>
      BY <2>1, <3>1
    <3> QED
      BY <3>1, <3>2, <3>4, <3>5, NewInOrder
  <2>3. f \in Frame
    BY <2>1 DEF FrameOK
  <2>4. /\ Len(stack') = Len(stack) + 1 /\ stack'[Len(stack) + 1] = f
        /\ \A d \in 1..Len(stack) : stack'[d] = stack[d]
    <3>1. stack' = Append(stack, f)
      BY <2>1
    <3> QED
      BY <1>0, <2>3, <3>1
  <2>5. \A d \in 1..Len(stack) + 1 : d \in 1..Len(stack) \/ d = Len(stack) + 1
    BY <1>0
  <2> QED
    BY <1>0, <2>2, <2>4, <2>5
<1>3. CASE H!CallHook
  <2>1. PICK f, h, ctx :
           /\ f = stack[Len(stack)] /\ FrameOK(f) /\ stack # <<>> /\ ~f.running /\ ~f.finished
           /\ h = hook_entry_points[f.type] /\ h \in HookArray /\ h.count <= Len(h.array)
           /\ f.i \in 1..Len(f.ctxs) /\ f.i \in 1..Len(h.array)
           /\ h.array[f.i].handle \in Handles /\ h.array[f.i].state_index \in Int
           /\ ctx = H!ContextAt(f, h.array[f.i].state_index) /\ ctx \in Contexts
           /\ H!ReplaceTop(Called(f, h.array[f.i].handle, ctx))
           /\ FrameOK(Called(f, h.array[f.i].handle, ctx))
    BY <1>3, CallStep
  <2>2. PICK w, g : w = h.array[f.i].handle /\ g = Called(f, w, ctx)
    OBVIOUS
  <2>3. f.type \in Types /\ Len(stack) \in 1..Len(stack)
    <3>1. f \in Frame
      BY <2>1, Zenon DEF FrameOK
    <3>2. f.type \in Types
      BY <3>1, FrameFields
    <3>3. stack \in Seq(Frame) /\ stack # <<>>
      BY <1>0, <2>1, Zenon
    <3>4. Len(stack) \in Nat /\ Len(stack) # 0
      BY <3>3
    <3> QED
      BY <3>2, <3>4
  <2>4. Good(f, arrays, since, exposed)
    BY <1>0, <2>1, <2>3, Zenon
  <2>5. g.type = f.type
    <3>1. Null \in Contexts
      BY DEF Contexts
    <3>2. IsCalled(f, g, w, ctx)
      BY <2>1, <2>2, <3>1, CalledFrame, Zenon
    <3> QED
      BY <3>2 DEF IsCalled
  <2>6. Good(g, arrays, since, exposed)
    <3> SUFFICES ASSUME f.type \notin exposed PROVE InOrder(g, h, since) /\ Twice(g, h)
      BY <2>1, <2>5, Zenon DEF Good
    <3>1. InOrder(f, h, since) /\ Twice(f, h)
      BY <2>1, <2>4, Zenon DEF Good
    <3>2. PICK R : R = H!Runs(f.type)
      OBVIOUS
    <3>3. RunsOK(R) /\ ArrayOK(h, R, since)
      BY <2>1, <2>3, <3>2, RunsNowOK, Zenon DEF ArraysOK
    <3>4. since \in [HookModules -> Nat]
      BY DEF SinceOK
    <3>5. g = Called(f, h.array[f.i].handle, ctx)
      BY <2>2
    <3>6. InOrder(g, h, since)
      BY <2>1, <3>1, <3>3, <3>4, <3>5, CalledInOrder, Zenon
    <3>7. Twice(g, h)
      BY <2>1, <3>1, <3>3, <3>4, <3>5, CalledTwice, Zenon
    <3> QED
      BY <3>6, <3>7
  <2> QED
    BY <1>1, <2>1, <2>2, <2>6, Zenon
<1>4. CASE H!CallBehindArray /\ ~H!FreshBackend
  <2>1. PICK f, m :
           /\ f = stack[Len(stack)] /\ FrameOK(f) /\ stack # <<>> /\ m \in HookModules
           /\ f.i > Len(hook_entry_points[f.type].array)
           /\ f.i \in 1..Len(f.ctxs)
           /\ H!ReplaceTop(Called(f, m, Garbage))
           /\ FrameOK(Called(f, m, Garbage))
    BY <1>4, BehindStep
  <2>2. PICK g : g = Called(f, m, Garbage)
    OBVIOUS
  <2>3. f.type \in Types /\ Len(stack) \in 1..Len(stack) /\ Len(f.ctxs) \in Nat /\ f.i \in Nat
    BY <1>0, <2>1, FrameFields DEF FrameOK
  <2>4. Good(f, arrays, since, exposed)
    BY <1>0, <2>1, <2>3
  <2>5. g.type = f.type /\ g.changes = f.changes
    <3>1. Null \in Contexts /\ Garbage \in Contexts /\ m \in Handles
      BY <2>1 DEF Contexts, Handles
    <3>2. IsCalled(f, g, m, Garbage)
      BY <2>1, <2>2, <3>1, CalledFrame
    <3> QED
      BY <3>2 DEF IsCalled
  <2>6. Good(g, arrays, since, exposed)
    <3>1. PICK h \in HookArray : h = arrays[f.type] /\ h.count <= Len(h.array)
      BY <2>3 DEF HookTypes
    <3>2. h.count \in Nat /\ Len(h.array) \in Nat
      BY DEF HookArray
    <3> SUFFICES ASSUME f.type \notin exposed PROVE InOrder(g, h, since) /\ Twice(g, h)
      BY <2>5, <3>1 DEF Good
    <3>3. InOrder(f, h, since) /\ Twice(f, h)
      BY <2>4, <3>1 DEF Good
    <3>4. /\ f.changes = {} => Len(f.ctxs) <= h.count
          /\ f.changes \subseteq {"unload"} => Len(f.ctxs) <= Len(h.array)
      BY <2>1, <3>3, FrameSizes
    <3>5. f.i > Len(h.array) /\ f.i <= Len(f.ctxs)
      BY <2>1, <2>3, <3>1
    <3>6. f.changes # {} /\ ~(f.changes \subseteq {"unload"})
      BY <2>3, <3>1, <3>2, <3>4, <3>5
    <3> QED
      BY <2>5, <3>6 DEF InOrder, Twice
  <2> QED
    BY <1>1, <2>1, <2>2, <2>6
<1>5. ASSUME NEW finish \in BOOLEAN, H!ReturnHook(finish) PROVE G
  <2>1. PICK f, m, ctx :
           /\ f = stack[Len(stack)] /\ FrameOK(f) /\ stack # <<>> /\ f.running
           /\ m = f.log[Len(f.log)][1]
           /\ ctx = (IF m \notin Wrapping THEN f.ctx ELSE IF f.ctx = Null THEN m ELSE Null)
           /\ ctx \in Contexts
           /\ H!ReplaceTop(Returned(f, ctx, finish))
           /\ FrameOK(Returned(f, ctx, finish))
    BY <1>5, ReturnStep
  <2>2. PICK g : g = Returned(f, ctx, finish)
    OBVIOUS
  <2>3. f.type \in Types /\ Len(stack) \in 1..Len(stack)
    <3>1. f \in Frame
      BY <2>1 DEF FrameOK
    <3>2. f.type \in Types
      BY <3>1, FrameFields
    <3>3. stack \in Seq(Frame) /\ stack # <<>>
      BY <1>0, <2>1
    <3>4. Len(stack) \in Nat /\ Len(stack) # 0
      BY <3>3
    <3> QED
      BY <3>2, <3>4
  <2>4. Good(f, arrays, since, exposed)
    BY <1>0, <2>1, <2>3
  <2>5. g.type = f.type
    <3>1. IsReturned(f, g, ctx, finish)
      BY <2>1, <2>2, ReturnedFrame
    <3> QED
      BY <3>1 DEF IsReturned
  <2>6. Good(g, arrays, since, exposed)
    <3>0. PICK h : h = arrays[f.type]
      OBVIOUS
    <3> SUFFICES ASSUME f.type \notin exposed PROVE InOrder(g, h, since) /\ Twice(g, h)
      BY <2>5, <3>0 DEF Good
    <3>1. InOrder(f, h, since) /\ Twice(f, h)
      BY <2>4, <3>0 DEF Good
    <3>2. InOrder(g, h, since)
      BY <2>1, <2>2, <3>1, ReturnedInOrder
    <3>3. Twice(g, h)
      BY <2>1, <2>2, <3>1, ReturnedTwice
    <3> QED
      BY <3>2, <3>3
  <2> QED
    BY <1>1, <2>1, <2>2, <2>6
<1>6. ASSUME NEW n \in Nat, n <= Len(stack), stack' = SubSeq(stack, 1, n) PROVE G
  <2>1. Len(stack') = n /\ \A d \in 1..n : d \in 1..Len(stack) /\ stack'[d] = stack[d]
    BY <1>6, StackPrefix
  <2> QED
    BY <1>0, <2>1
<1>7. CASE H!EndDispatch
  BY <1>6, <1>7, EndStep
<1>8. ASSUME NEW j, NEW k \in 0..Len(stack), H!RaiseError(j, k) PROVE G
  <2>1. k \in Nat /\ k <= Len(stack) /\ stack' = SubSeq(stack, 1, k)
    BY <1>0, <1>8 DEF H!RaiseError
  <2> QED
    BY <1>6, <2>1
<1>9. CASE UNCHANGED stack
  BY <1>0, <1>9
<1>10. H!ListModule \/ (\E t \in Types : H!PurgeRound(t)) \/ UNCHANGED H!vars => UNCHANGED stack
  BY Zenon DEF H!ListModule, H!PurgeRound, H!vars, H!control
<1> QED
  BY <1>2, <1>3, <1>4, <1>5, <1>7, <1>8, <1>9, <1>10 DEF H!Next

\* What a step does to the arrays: a load, an unload, a round of reorganize_hooks, a
\* new backend, or nothing
LEMMA StepKinds ==
  ASSUME [H!Next]_H!vars
  PROVE  \/ \E m \in HookModules : H!LoadModule(m) \/ H!UnloadModule(m)
         \/ \E t \in Types : H!PurgeRound(t)
         \/ H!FreshBackend
         \/ UNCHANGED <<hook_entry_points, since, exposed>>
  BY Zenon DEF H!Next, H!vars, H!registry, H!ListModule, H!RaiseError, H!Dispatch, H!CallHook, H!CallBehindArray,
     H!ReturnHook, H!EndDispatch

\* A further round of reorganize_hooks changes an array of an exposed type.
LEMMA PurgeStep ==
  ASSUME HookTypes, PurgeOK, NEW t \in Types, H!PurgeRound(t)
  PROVE  /\ \A u \in Types \ exposed : hook_entry_points'[u] = hook_entry_points[u]
         /\ UNCHANGED <<since, exposed, stack, hook_modules>>
<1>1. t \in exposed
  BY DEF PurgeOK, H!PurgeRound
<1>2. hook_entry_points' = [hook_entry_points EXCEPT ![t] = H!RemoveLowest(@, hook_modules)]
  BY DEF H!PurgeRound
<1> QED
  BY <1>1, <1>2 DEF HookTypes, H!PurgeRound

\* Every step leaves the arrays in order.
LEMMA ArraysKept ==
  ASSUME H!ConstantsOK, HookTypes, SinceOK, ArraysOK, PurgeOK, [H!Next]_H!vars
  PROVE  ArraysOK'
<1>1. ASSUME NEW m \in HookModules, H!LoadModule(m) \/ H!UnloadModule(m) PROVE ArraysOK'
  BY <1>1, ArraysLoaded, ArraysUnloaded
<1>2. CASE H!FreshBackend
  <2> SUFFICES ASSUME NEW t \in Types PROVE ArrayOK(hook_entry_points'[t], H!Runs(t)', since')
    BY DEF ArraysOK
  <2>1. hook_entry_points' = H!NoHooks /\ since' = [m \in HookModules |-> 0]
    BY <1>2 DEF H!FreshBackend
  <2>2. H!Registered' = {}
    BY <2>1 DEF H!Registered
  <2>3. H!Runs(t)' = RunsIn({}, t)
    BY <2>2, RunsInNext
  <2> QED
    BY <2>1, <2>3, ArraysFresh
<1>3. ASSUME UNCHANGED <<since, exposed>>, \A t \in Types \ exposed : hook_entry_points'[t] = hook_entry_points[t]
      PROVE  ArraysOK'
  <2> SUFFICES ASSUME NEW t \in Types \ exposed PROVE ArrayOK(hook_entry_points[t], H!Runs(t)', since)
    BY <1>3 DEF ArraysOK
  <2>1. H!Runs(t)' = H!Runs(t)
    BY <1>3 DEF H!Runs, H!Registered
  <2> QED
    BY <2>1 DEF ArraysOK
<1>4. ASSUME NEW t \in Types, H!PurgeRound(t) PROVE ArraysOK'
  BY <1>3, <1>4, PurgeStep
<1>5. CASE UNCHANGED <<hook_entry_points, since, exposed>>
  BY <1>3, <1>5
<1> QED
  BY <1>1, <1>2, <1>4, <1>5, StepKinds

\* Every step leaves the dispatches in order.
LEMMA FramesKept ==
  ASSUME H!ConstantsOK, HookTypes, SinceOK, ArraysOK, FramesOK, PurgeOK, [H!Next]_H!vars
  PROVE  FramesOK'
<1> SUFFICES \A d \in 1..Len(stack') : Good(stack'[d], hook_entry_points', since', exposed')
  BY DEF FramesOK, Good
<1>1. ASSUME NEW m \in HookModules, H!LoadModule(m) \/ H!UnloadModule(m)
      PROVE  \A d \in 1..Len(stack') : Good(stack'[d], hook_entry_points', since', exposed')
  BY <1>1, FramesLoaded, FramesUnloaded
<1>2. CASE H!FreshBackend
  BY <1>2 DEF H!FreshBackend
<1>3. CASE UNCHANGED <<hook_entry_points, since, exposed>>
  <2>1. /\ hook_entry_points' = hook_entry_points /\ since' = since /\ exposed' = exposed
    BY <1>3
  <2>2. \/ \A d \in 1..Len(stack') : Good(stack'[d], hook_entry_points, since, exposed)
        \/ \E m \in HookModules : H!LoadModule(m) \/ H!UnloadModule(m)
        \/ H!FreshBackend
    BY <1>3, FramesRun
  <2> QED
    BY <1>1, <1>2, <2>1, <2>2
<1>4. ASSUME NEW t \in Types, H!PurgeRound(t)
      PROVE  \A d \in 1..Len(stack') : Good(stack'[d], hook_entry_points', since', exposed')
  <2>1. /\ \A u \in Types \ exposed : hook_entry_points'[u] = hook_entry_points[u]
        /\ since' = since /\ exposed' = exposed /\ stack' = stack
    BY <1>4, PurgeStep
  <2>2. ASSUME NEW d \in 1..Len(stack) PROVE Good(stack[d], hook_entry_points', since, exposed)
    <3>1. FrameOK(stack[d]) /\ Good(stack[d], hook_entry_points, since, exposed)
      BY DEF HookTypes, FramesOK, Good
    <3>2. stack[d].type \in Types
      BY <3>1, FrameFields DEF FrameOK
    <3>3. stack[d].type \notin exposed => hook_entry_points'[stack[d].type] = hook_entry_points[stack[d].type]
      BY <2>1, <3>2
    <3> QED
      BY <3>1, <3>3 DEF Good
  <2> QED
    BY <2>1, <2>2
<1> QED
  BY <1>1, <1>2, <1>3, <1>4, StepKinds

\* Two rounds are enough for the types that are not exposed.
LEMMA PurgeKept ==
  ASSUME H!ConstantsOK, HookTypes, SinceOK, ArraysOK, PurgeOK, [H!Next]_H!vars
  PROVE  PurgeOK'
<1>1. ASSUME NEW m \in HookModules, H!UnloadModule(m) PROVE PurgeOK'
  <2>1. ArraysOK'
    BY <1>1, ArraysUnloaded
  <2>2. H!Registered' \subseteq hook_modules' /\ H!Registered' \subseteq HookModules
    <3>1. since' = [x \in HookModules |-> IF x \in hook_modules' THEN since[x] ELSE 0]
      BY <1>1 DEF H!UnloadModule
    <3> QED
      BY <3>1 DEF H!Registered
  <2> SUFFICES ASSUME NEW t \in Types \ exposed' PROVE H!Victims(hook_entry_points'[t], hook_modules') = {}
    BY DEF PurgeOK, H!Victims
  <2>3. ArrayOK(hook_entry_points'[t], RunsIn(H!Registered', t), since')
    BY <2>1, RunsInNext DEF ArraysOK
  <2> QED
    BY <2>2, <2>3, NoVictims
<1>2. ASSUME NEW t \in Types, H!PurgeRound(t) PROVE PurgeOK'
  <2>1. /\ \A u \in Types \ exposed : hook_entry_points'[u] = hook_entry_points[u]
        /\ exposed' = exposed /\ hook_modules' = hook_modules
    BY <1>2, PurgeStep
  <2>2. purging
    BY <1>2 DEF H!PurgeRound
  <2> QED
    BY <2>1, <2>2 DEF PurgeOK, H!Victims
<1>3. CASE H!FreshBackend
  <2> SUFFICES ASSUME NEW t \in Types PROVE H!Victims(hook_entry_points'[t], hook_modules') = {}
    BY DEF PurgeOK, H!Victims
  <2>1. hook_entry_points' = H!NoHooks
    BY <1>3 DEF H!FreshBackend
  <2>2. ArrayOK(hook_entry_points'[t], RunsIn({}, t), since)
    BY <2>1, ArraysFresh
  <2> QED
    BY <2>2, NoVictims
<1>4. CASE ~purging'
  BY <1>4 DEF PurgeOK
<1>5. CASE UNCHANGED <<hook_entry_points, hook_modules, exposed, purging>>
  BY <1>5 DEF PurgeOK, H!Victims
<1>6. \/ \E m \in HookModules : H!UnloadModule(m)
      \/ \E t \in Types : H!PurgeRound(t)
      \/ H!FreshBackend \/ ~purging'
      \/ UNCHANGED <<hook_entry_points, hook_modules, exposed, purging>>
  <2>1. ASSUME NEW m \in HookModules, H!LoadModule(m) PROVE ~purging'
    BY <2>1, Zenon DEF H!LoadModule, H!Quiescent, H!Nested
  <2>2. H!ListModule => ~purging'
    BY Zenon DEF H!ListModule, H!Quiescent, H!Nested
  <2> QED
    BY <2>1, <2>2, Zenon DEF H!Next, H!vars, H!registry, H!control, H!RaiseError, H!Dispatch, H!CallHook,
       H!CallBehindArray, H!ReturnHook, H!EndDispatch
<1> QED
  BY <1>1, <1>2, <1>3, <1>4, <1>5, <1>6

\* The invariant holds in a new backend.
LEMMA HooksInvInit == ASSUME H!ConstantsOK, H!Init PROVE HooksInv
<1>1. hook_entry_points = H!NoHooks /\ ~purging /\ stack = <<>> /\ loads = 0
      /\ since = [m \in HookModules |-> 0]
  BY DEF H!Init
<1>2. \A t \in Types : /\ H!NoHooks[t] \in HookArray /\ H!NoHooks[t].count <= Len(H!NoHooks[t].array)
                       /\ ArrayOK(H!NoHooks[t], RunsIn({}, t), since)
  BY ArraysFresh
<1>3. HookTypes
  <2>1. H!NoHooks \in [Types -> HookArray]
    <3>1. \A t \in Types : H!NoHooks[t] \in HookArray
      BY <1>2
    <3> QED
      BY <3>1 DEF H!NoHooks
  <2> QED
    BY <1>1, <1>2, <2>1 DEF HookTypes
<1>4. SinceOK
  BY <1>1 DEF SinceOK
<1>5. ArraysOK
  <2>1. H!Registered = {}
    BY <1>1 DEF H!Registered
  <2> QED
    BY <1>1, <1>2, <2>1, RunsInNow DEF ArraysOK
<1>6. FramesOK /\ PurgeOK
  BY <1>1 DEF FramesOK, PurgeOK
<1> QED
  BY <1>3, <1>4, <1>5, <1>6 DEF HooksInv

\* Every step preserves the invariant.
LEMMA HooksInvNext == ASSUME H!ConstantsOK, HooksInv, [H!Next]_H!vars PROVE HooksInv'
BY HookTypesKept, SinceKept, ArraysKept, FramesKept, PurgeKept DEF HooksInv

----------------------------------------------------------------------------
(* Hooks: the properties                                                   *)

\* A dispatch that is left alone runs the hooks in order.
LEMMA RunsInOrder ==
  ASSUME H!ConstantsOK, NEW s \in [HookModules -> Nat], NEW h \in HookArray, NEW R, RunsOK(R), ArrayOK(h, R, s),
         NEW f, FrameOK(f), InOrder(f, h, s), f.changes = {}
  PROVE  /\ \A k \in 1..Len(f.log) : f.log[k] \in DOMAIN f.intended
         /\ \A j, k \in 1..Len(f.log) : j < k => f.intended[f.log[j]] < f.intended[f.log[k]]
         /\ \A r \in DOMAIN f.intended :
              \/ \E k \in 1..Len(f.log) : f.log[k] = r
              \/ ~H!Completed(f) /\ \A k \in 1..Len(f.log) : f.intended[f.log[k]] < f.intended[r]
<1>1. PICK n \in Nat, l \in Nat, i \in Nat : n = Len(f.ctxs) /\ l = Len(f.log) /\ i = f.i /\ i <= n
  <2>1. f \in Frame /\ f.i <= Len(f.ctxs)
    BY DEF FrameOK
  <2> QED
    BY <2>1, FrameFields
<1>2. h.count \in Nat
  BY DEF HookArray
<1>3. /\ n <= h.count
      /\ l = n - i + (IF f.running THEN 1 ELSE 0)
      /\ \A p \in 1..n : RunAt(h, p) \in DOMAIN f.intended /\ f.intended[RunAt(h, p)] = TurnIn(s, RunAt(h, p))
      /\ \A r \in DOMAIN f.intended : \E p \in 1..n : RunAt(h, p) = r
      /\ \A k \in 1..l : f.log[k] = RunAt(h, n + 1 - k)
  BY <1>1 DEF InOrder
<1>4. l <= n
  <2>1. f.running => i >= 1
    BY <1>1 DEF FrameOK
  <2> QED
    BY <1>1, <1>3, <2>1
<1>5. \A p, q \in 1..n : p < q => TurnIn(s, RunAt(h, q)) < TurnIn(s, RunAt(h, p))
  <2> SUFFICES ASSUME NEW p \in 1..n, NEW q \in 1..n, p < q PROVE TurnIn(s, RunAt(h, q)) < TurnIn(s, RunAt(h, p))
    OBVIOUS
  <2>1. p \in 1..h.count /\ q \in 1..h.count
    BY <1>2, <1>3
  <2>2. /\ TurnIn(s, RunAt(h, p)) > TurnIn(s, RunAt(h, q))
        /\ TurnIn(s, RunAt(h, p)) \in Int /\ TurnIn(s, RunAt(h, q)) \in Int
    BY <1>2, <2>1, RunsOnce
  <2> QED
    BY <2>2
<1>6. \A k \in 1..l : n + 1 - k \in 1..n
  BY <1>4
<1>7. \A k \in 1..l : f.log[k] \in DOMAIN f.intended /\ f.intended[f.log[k]] = TurnIn(s, RunAt(h, n + 1 - k))
  BY <1>3, <1>6
<1>8. \A j, k \in 1..l : j < k => f.intended[f.log[j]] < f.intended[f.log[k]]
  <2> SUFFICES ASSUME NEW j \in 1..l, NEW k \in 1..l, j < k
               PROVE  TurnIn(s, RunAt(h, n + 1 - j)) < TurnIn(s, RunAt(h, n + 1 - k))
    BY <1>7
  <2>1. n + 1 - j \in 1..n /\ n + 1 - k \in 1..n /\ n + 1 - k < n + 1 - j
    BY <1>4
  <2> QED
    BY <1>5, <2>1
<1>9. ASSUME NEW r \in DOMAIN f.intended
      PROVE  \/ \E k \in 1..l : f.log[k] = r
             \/ ~H!Completed(f) /\ \A k \in 1..l : f.intended[f.log[k]] < f.intended[r]
  <2>1. PICK p \in 1..n : RunAt(h, p) = r
    BY <1>3
  <2>2. CASE n + 1 - p \in 1..l
    <3>1. PICK k \in 1..l : k = n + 1 - p /\ p = n + 1 - k
      BY <2>2
    <3>2. f.log[k] = RunAt(h, p)
      BY <1>3, <3>1
    <3> QED
      BY <2>1, <3>2
  <2>3. CASE n + 1 - p > l
    <3>1. ~H!Completed(f)
      <4> SUFFICES ASSUME f.i = 0, ~f.running PROVE FALSE
        BY DEF H!Completed
      <4>1. l = n
        BY <1>1, <1>3
      <4> QED
        BY <2>3, <4>1
    <3>2. ASSUME NEW k \in 1..l PROVE f.intended[f.log[k]] < f.intended[r]
      <4>1. n + 1 - k \in 1..n /\ p < n + 1 - k
        BY <1>4, <2>3
      <4>2. TurnIn(s, RunAt(h, n + 1 - k)) < TurnIn(s, RunAt(h, p))
        BY <1>5, <4>1
      <4>3. f.intended[RunAt(h, p)] = TurnIn(s, RunAt(h, p))
        BY <1>3
      <4> QED
        BY <1>7, <2>1, <4>2, <4>3
    <3> QED
      BY <3>1, <3>2
  <2>4. n + 1 - p \in 1..l \/ n + 1 - p > l
    OBVIOUS
  <2> QED
    BY <2>2, <2>3, <2>4
<1> QED
  BY <1>1, <1>7, <1>8, <1>9

\* A dispatch under which only plain modules are unloaded runs the upgrade hook
\* twice.
LEMMA RunsTwice ==
  ASSUME H!ConstantsOK, NEW s \in [HookModules -> Nat], NEW h \in HookArray, NEW R, RunsOK(R), ArrayOK(h, R, s),
         <<Self, Null>> \in R => <<Self, Self>> \in R,
         NEW f, FrameOK(f), Twice(f, h), f.changes \subseteq {"unload"},
         NEW runs, \A k : k \in runs <=> k \in 1..Len(f.log) /\ f.log[k][1] = Self
  PROVE  /\ \A k \in runs : f.log[k] = <<Self, IF \E j \in runs : j < k THEN Self ELSE Null>>
         /\ \A j, k \in runs : (\E x \in runs : x < j) /\ (\E x \in runs : x < k) => j = k
         /\ H!Completed(f) /\ runs # {} => \E k \in runs : \E j \in runs : j < k
<1>0. Self # Null
  BY DEF H!ConstantsOK
<1>1. PICK n \in Nat, l \in Nat, i \in Nat : n = Len(f.ctxs) /\ l = Len(f.log) /\ i = f.i /\ i <= n
  <2>1. f \in Frame /\ f.i <= Len(f.ctxs)
    BY DEF FrameOK
  <2> QED
    BY <2>1, FrameFields
<1>2. h.count \in Nat
  BY DEF HookArray
<1>3. /\ \A p \in 1..n : SelfAt(h, p) => p <= h.count /\ h.array[p].state_index <= n
      /\ \A k \in 1..l : f.log[k][1] = Self => \E p \in 1..n : SelfAt(h, p) /\ Ran(f, p) /\ f.log[k] = RunAt(h, p)
      /\ \A p \in 1..n : SelfAt(h, p) /\ Ran(f, p) => \E k \in 1..l : f.log[k] = RunAt(h, p)
      /\ \A j, k \in 1..l : f.log[j][1] = Self /\ f.log[j] = f.log[k] => j = k
      /\ \A j, k \in 1..l : f.log[j] = <<Self, Null>> /\ f.log[k] = <<Self, Self>> => j < k
  BY <1>1 DEF Twice
<1>4. \A k : k \in runs <=> k \in 1..l /\ f.log[k][1] = Self
  BY <1>1
<1>5. ASSUME NEW k \in runs
      PROVE  \E p \in 1..n : /\ SelfAt(h, p) /\ Ran(f, p) /\ f.log[k] = RunAt(h, p) /\ p \in 1..h.count
                             /\ h.array[p].state_index = p => f.log[k] = <<Self, Null>>
                             /\ h.array[p].state_index # p => f.log[k] = <<Self, Self>>
  <2>1. PICK p \in 1..n : SelfAt(h, p) /\ Ran(f, p) /\ f.log[k] = RunAt(h, p)
    BY <1>3, <1>4, <1>5
  <2>2. p \in 1..h.count
    BY <1>2, <1>3, <2>1
  <2> QED
    BY <2>1, <2>2 DEF RunAt, SelfAt
<1>6. \A k \in runs : f.log[k] = <<Self, Null>> \/ f.log[k] = <<Self, Self>>
  BY <1>5
<1>7. <<Self, Null>> # <<Self, Self>>
  BY <1>0
<1>8. ASSUME NEW k \in runs, f.log[k] = <<Self, Self>> PROVE \E j \in runs : j < k
  <2>1. PICK p \in 1..n : /\ SelfAt(h, p) /\ Ran(f, p) /\ p \in 1..h.count
                          /\ h.array[p].state_index = p => f.log[k] = <<Self, Null>>
    BY <1>5, <1>8
  <2>2. h.array[p].state_index # p
    BY <1>7, <1>8, <2>1
  <2>3. PICK y \in 1..h.count : /\ y = h.array[p].state_index /\ p < y
                                /\ h.array[y].handle = h.array[p].handle /\ h.array[y].state_index = y
    BY <1>2, <2>1, <2>2, LowerEntry
  <2>4. y \in 1..n
    BY <1>3, <2>1, <2>3
  <2>5. SelfAt(h, y)
    BY <2>1, <2>3 DEF SelfAt
  <2>6. RunAt(h, y) = <<Self, Null>>
    BY <2>3, <2>5 DEF RunAt, SelfAt
  <2>7. Ran(f, y)
    <3>1. i <= p
      BY <1>1, <2>1 DEF Ran
    <3> QED
      BY <1>1, <2>3, <3>1 DEF Ran
  <2>8. PICK j \in 1..l : f.log[j] = <<Self, Null>>
    BY <1>3, <2>4, <2>5, <2>6, <2>7
  <2>9. j \in runs
    <3>1. f.log[j][1] = Self
      BY <2>8
    <3> QED
      BY <1>4, <3>1
  <2> QED
    BY <1>3, <1>4, <1>8, <2>8, <2>9
<1>9. ASSUME NEW k \in runs, NEW j \in runs, j < k PROVE f.log[k] = <<Self, Self>>
  <2> SUFFICES ASSUME f.log[k] = <<Self, Null>> PROVE FALSE
    BY <1>6
  <2>1. j \in 1..l /\ k \in 1..l /\ f.log[k][1] = Self
    BY <1>4
  <2>2. CASE f.log[j] = <<Self, Null>>
    <3>1. j = k
      BY <1>3, <2>1, <2>2
    <3> QED
      BY <1>9, <2>1, <3>1
  <2>3. CASE f.log[j] = <<Self, Self>>
    <3>1. k < j
      BY <1>3, <2>1, <2>3
    <3> QED
      BY <1>9, <2>1, <3>1
  <2> QED
    BY <1>6, <2>2, <2>3
<1>10. ASSUME NEW k \in runs PROVE f.log[k] = <<Self, IF \E j \in runs : j < k THEN Self ELSE Null>>
  <2>1. CASE \E j \in runs : j < k
    BY <1>9, <2>1
  <2>2. CASE ~\E j \in runs : j < k
    <3>1. f.log[k] = <<Self, Null>>
      BY <1>6, <1>8, <2>2
    <3> QED
      BY <2>2, <3>1
  <2> QED
    BY <2>1, <2>2
<1>11. ASSUME NEW j \in runs, NEW k \in runs, \E x \in runs : x < j, \E x \in runs : x < k PROVE j = k
  <2>1. f.log[j] = <<Self, Self>> /\ f.log[k] = <<Self, Self>>
    BY <1>9, <1>11
  <2> QED
    BY <1>3, <1>4, <2>1
<1>12. ASSUME H!Completed(f), NEW x \in runs PROVE \E k \in runs : \E j \in runs : j < k
  <2>1. CASE f.log[x] = <<Self, Self>>
    BY <1>8, <2>1
  <2>2. CASE f.log[x] = <<Self, Null>>
    <3>1. PICK p \in 1..n : SelfAt(h, p) /\ f.log[x] = RunAt(h, p) /\ p \in 1..h.count
      BY <1>5
    <3>2. RunAt(h, p) = <<Self, Null>> /\ RunAt(h, p) \in R
      BY <2>2, <3>1 DEF ArrayOK
    <3>3. <<Self, Self>> \in R
      BY <3>2
    <3>4. PICK q \in 1..h.count : RunAt(h, q) = <<Self, Self>>
      BY <3>3 DEF ArrayOK
    <3>5. q < p
      BY <1>2, <3>1, <3>2, <3>4, SelfOnce
    <3>6. q \in 1..n /\ q > 0
      BY <1>2, <3>5
    <3>7. SelfAt(h, q)
      BY <3>4 DEF RunAt, SelfAt
    <3>8. Ran(f, q)
      BY <1>12, <3>6 DEF Ran, H!Completed
    <3>9. PICK k \in 1..l : f.log[k] = <<Self, Self>>
      BY <1>3, <3>4, <3>6, <3>7, <3>8
    <3>10. k \in runs
      <4>1. f.log[k][1] = Self
        BY <3>9
      <4> QED
        BY <1>4, <4>1
    <3> QED
      BY <1>8, <3>9, <3>10
  <2> QED
    BY <1>6, <2>1, <2>2
<1> QED
  BY <1>10, <1>11, <1>12

\* What the invariant says of a dispatch of a type that is not exposed
LEMMA TypeSettled ==
  ASSUME H!ConstantsOK, HooksInv, NEW d \in 1..Len(stack), stack[d].type \notin exposed
  PROVE  \E h, R :
           /\ h \in HookArray /\ RunsOK(R) /\ ArrayOK(h, R, since)
           /\ <<Self, Null>> \in R => <<Self, Self>> \in R
           /\ FrameOK(stack[d]) /\ InOrder(stack[d], h, since) /\ Twice(stack[d], h)
<1>1. PICK f, t : f = stack[d] /\ t = f.type
  OBVIOUS
<1>2. FrameOK(f)
  BY <1>1 DEF HooksInv, HookTypes
<1>3. t \in Types
  <2>1. f \in Frame
    BY <1>2 DEF FrameOK
  <2> QED
    BY <1>1, <2>1, FrameFields
<1>4. PICK h \in HookArray : h = hook_entry_points[t]
  BY <1>3 DEF HooksInv, HookTypes
<1>5. InOrder(f, h, since) /\ Twice(f, h)
  BY <1>1, <1>4 DEF HooksInv, FramesOK
<1>6. PICK R : R = H!Runs(t)
  OBVIOUS
<1>7. RunsOK(R) /\ ArrayOK(h, R, since)
  BY <1>1, <1>3, <1>4, <1>6, RunsNowOK DEF HooksInv, ArraysOK
<1>8. <<Self, Null>> \in R => <<Self, Self>> \in R
  <2>1. R = RunsIn(H!Registered, t) /\ H!Registered \subseteq HookModules
    BY <1>6, RunsInNow
  <2>2. Self \in Wrapping /\ Self # Default
    BY DEF H!ConstantsOK
  <2> QED
    BY <2>1, <2>2, RunsInAre
<1> QED
  BY <1>1, <1>2, <1>5, <1>7, <1>8

\* The invariant says of every dispatch in progress what RunsInOrder needs.
LEMMA InvInOrder == ASSUME H!ConstantsOK, HooksInv PROVE H!HooksRunInOrder
<1> SUFFICES ASSUME NEW d \in DOMAIN stack, stack[d].type \notin exposed, stack[d].changes = {}, NEW f, f = stack[d]
             PROVE  /\ \A k \in DOMAIN f.log : f.log[k] \in DOMAIN f.intended
                    /\ \A j, k \in DOMAIN f.log : j < k => f.intended[f.log[j]] < f.intended[f.log[k]]
                    /\ \A r \in DOMAIN f.intended :
                         \/ \E k \in DOMAIN f.log : f.log[k] = r
                         \/ ~H!Completed(f) /\ \A k \in DOMAIN f.log : f.intended[f.log[k]] < f.intended[r]
  BY DEF H!HooksRunInOrder
<1>1. d \in 1..Len(stack) /\ since \in [HookModules -> Nat]
  BY DEF HooksInv, HookTypes, SinceOK
<1>2. PICK h, R : /\ h \in HookArray /\ RunsOK(R) /\ ArrayOK(h, R, since)
                  /\ FrameOK(f) /\ InOrder(f, h, since)
  BY <1>1, TypeSettled
<1>3. DOMAIN f.log = 1..Len(f.log)
  <2>1. f \in Frame
    BY <1>2 DEF FrameOK
  <2>2. f.log \in Seq(Handles \X Contexts)
    BY <2>1, FrameFields
  <2> QED
    BY <2>2
<1> QED
  BY <1>1, <1>2, <1>3, RunsInOrder

\* The invariant says of every dispatch in progress what RunsTwice needs.
LEMMA InvTwice == ASSUME H!ConstantsOK, HooksInv PROVE H!UpgradeHookRunsTwice
<1> DEFINE runs(f) == {k \in DOMAIN f.log : f.log[k][1] = Self}
           second(f, k) == \E j \in runs(f) : j < k
<1>1. ASSUME NEW d \in DOMAIN stack, stack[d].type \notin exposed, stack[d].changes \subseteq {"unload"},
             NEW f, f = stack[d]
      PROVE  /\ \A k \in runs(f) : f.log[k] = <<Self, IF second(f, k) THEN Self ELSE Null>>
             /\ \A j, k \in runs(f) : second(f, j) /\ second(f, k) => j = k
             /\ H!Completed(f) /\ runs(f) # {} => \E k \in runs(f) : second(f, k)
  <2>1. d \in 1..Len(stack) /\ since \in [HookModules -> Nat]
    BY <1>1 DEF HooksInv, HookTypes, SinceOK
  <2>2. PICK h, R : /\ h \in HookArray /\ RunsOK(R) /\ ArrayOK(h, R, since)
                    /\ <<Self, Null>> \in R => <<Self, Self>> \in R
                    /\ FrameOK(f) /\ Twice(f, h)
    BY <1>1, <2>1, TypeSettled
  <2>3. DOMAIN f.log = 1..Len(f.log)
    <3>0. FrameOK(f)
      BY <2>2
    <3>1. f \in Frame
      BY <3>0 DEF FrameOK
    <3>2. f.log \in Seq(Handles \X Contexts)
      BY <3>1, FrameFields
    <3> QED
      BY <3>2
  <2>4. PICK r : r = runs(f)
    OBVIOUS
  <2>5. \A k : k \in r <=> k \in 1..Len(f.log) /\ f.log[k][1] = Self
    BY <2>3, <2>4
  <2>6. f.changes \subseteq {"unload"}
    BY <1>1
  <2>7. /\ \A k \in r : f.log[k] = <<Self, IF \E j \in r : j < k THEN Self ELSE Null>>
        /\ \A j, k \in r : (\E x \in r : x < j) /\ (\E x \in r : x < k) => j = k
        /\ H!Completed(f) /\ r # {} => \E k \in r : \E j \in r : j < k
    <3>1. /\ since \in [HookModules -> Nat] /\ h \in HookArray /\ RunsOK(R) /\ ArrayOK(h, R, since)
          /\ (<<Self, Null>> \in R => <<Self, Self>> \in R) /\ FrameOK(f) /\ Twice(f, h)
      BY <2>1, <2>2
    <3> HIDE DEF H!Completed, runs, second
    <3> QED
      BY <2>5, <2>6, <3>1, RunsTwice, Zenon
  <2> QED
    BY <2>4, <2>7, Zenon
<1> QED
  BY <1>1, Zenon DEF H!UpgradeHookRunsTwice

\* register_hook and reorganize_hooks keep the arrays in the order of registration,
\* and the dispatches in progress know their place in them.
THEOREM HooksIndInv == H!Spec => []HooksInv
<1>1. H!Init => HooksInv
  BY HooksInvInit, HooksAssumption
<1>2. HooksInv /\ [H!Next]_H!vars => HooksInv'
  BY HooksInvNext, HooksAssumption
<1> QED
  BY <1>1, <1>2, PTL DEF H!Spec

\* A dispatch under which the array was left alone, or only grew by plain hooks, runs
\* every hook in its turn and hands a wrapping hook the context it left, also the hooks
\* of modules that are inside _Omni_init or have failed in it.  Not so for types that
\* have lost a hook registered before a wrapping one or one of an unlisted module, or
\* have a hook of a module that registered it again.
THEOREM DispatchesRunInOrder == H!Spec => []HooksRunInOrder
<1>1. HooksInv => HooksRunInOrder
  BY InvInOrder, HooksAssumption DEF HooksRunInOrder
<1> QED
  BY <1>1, HooksIndInv, PTL

\* extension_upgrade_hook is run first without and then with the context it left, and
\* a dispatch that runs to its end has both, also when plain modules are unloaded
\* under it.
THEOREM UpgradeHookInPairs == H!Spec => []UpgradeHookRunsTwice
<1>1. HooksInv => UpgradeHookRunsTwice
  BY InvTwice, HooksAssumption DEF UpgradeHookRunsTwice
<1> QED
  BY <1>1, HooksIndInv, PTL
============================================================================
