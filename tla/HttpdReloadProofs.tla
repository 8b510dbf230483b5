------------------------- MODULE HttpdReloadProofs -------------------------
(***************************************************************************)
(* Proofs about HttpdReload, for any number of workers, listeners, changes  *)
(* and irregular events.                                                    *)
(***************************************************************************)
EXTENDS HttpdReload, FiniteSetTheorems, FunctionTheorems, SequenceTheorems, TLAPS

----------------------------------------------------------------------------
(* Lists sorted by id                                                      *)

Ascending(s) == \A i, j \in DOMAIN s : i < j => s[i] < s[j]

\* A finite set of ids can be sorted: the position of an id is the number of ids
\* that are not larger.
LEMMA SortedExists ==
  ASSUME NEW S, S \subseteq Nat, IsFiniteSet(S)
  PROVE  \E s \in [1..Cardinality(S) -> S] : Ascending(s)
<1> DEFINE UpTo(x) == {y \in S : y <= x}
           n == Cardinality(S)
           rank == [x \in S |-> Cardinality(UpTo(x))]
           s == [i \in 1..n |-> CHOOSE x \in S : rank[x] = i]
<1>1. n \in Nat /\ IsFiniteSet(1..n) /\ Cardinality(1..n) = n
  BY FS_CardinalityType, FS_Interval
<1>2. ASSUME NEW x \in S PROVE IsFiniteSet(UpTo(x)) /\ Cardinality(UpTo(x)) \in 1..n
  <2>1. UpTo(x) \in SUBSET S /\ x \in UpTo(x)
    OBVIOUS
  <2>2. IsFiniteSet(UpTo(x)) /\ Cardinality(UpTo(x)) <= n
    BY <2>1, FS_Subset
  <2>3. Cardinality(UpTo(x)) \in Nat /\ Cardinality(UpTo(x)) # 0
    BY <2>1, <2>2, FS_CardinalityType, FS_EmptySet
  <2> QED
    BY <1>1, <2>2, <2>3
<1>3. rank \in [S -> 1..n]
  BY <1>2
<1>4. ASSUME NEW x \in S, NEW y \in S, x < y PROVE rank[x] < rank[y]
  <2>1. UpTo(x) \in SUBSET UpTo(y) /\ y \in UpTo(y) /\ y \notin UpTo(x)
    <3>1. x \in Nat /\ y \in Nat
      OBVIOUS
    <3>2. \A z \in S : z \in Nat /\ (z <= x => z <= y)
      BY <1>4, <3>1
    <3>3. y <= y /\ ~(y <= x)
      BY <1>4, <3>1
    <3> QED
      BY <3>2, <3>3
  <2>2. Cardinality(UpTo(x)) <= Cardinality(UpTo(y)) /\ Cardinality(UpTo(x)) # Cardinality(UpTo(y))
    BY <2>1, <1>2, FS_Subset
  <2>3. Cardinality(UpTo(x)) \in 1..n /\ Cardinality(UpTo(y)) \in 1..n
    BY <1>2
  <2> HIDE DEF n, UpTo
  <2> QED
    BY <1>1, <2>2, <2>3
<1> HIDE DEF rank
<1>5. rank \in Injection(S, 1..n)
  <2>1. \A x, y \in S : rank[x] = rank[y] => x = y
    <3> SUFFICES ASSUME NEW x \in S, NEW y \in S, rank[x] = rank[y] PROVE x = y
      OBVIOUS
    <3>1. x \in Nat /\ y \in Nat /\ rank[x] \in 1..n
      BY <1>3
    <3> QED
      BY <1>4, <3>1
  <2> QED
    BY <1>3, <2>1, Fun_IsInj
<1>6. \A i \in 1..n : \E x \in S : rank[x] = i
  <2>1. rank \in Surjection(S, 1..n)
    BY <1>1, <1>5, FS_Injection
  <2> QED
    BY <2>1, Fun_SurjectionProperties
<1>7. s \in [1..n -> S] /\ \A i \in 1..n : rank[s[i]] = i
  BY <1>6
<1>8. Ascending(s)
  <2> SUFFICES ASSUME NEW i \in 1..n, NEW j \in 1..n, i < j PROVE s[i] < s[j]
    BY DEF Ascending
  <2>1. s[i] \in S /\ s[j] \in S /\ rank[s[i]] = i /\ rank[s[j]] = j
    BY <1>7
  <2> HIDE DEF s
  <2>2. s[i] \in Nat /\ s[j] \in Nat
    BY <2>1
  <2>3. s[i] # s[j]
    BY <2>1
  <2>4. s[j] < s[i] => rank[s[j]] < rank[s[i]]
    BY <2>1, <1>4
  <2> QED
    BY <2>1, <2>2, <2>3, <2>4
<1> QED
  BY <1>7, <1>8

\* ById lists every id of a finite set, and nothing else.
LEMMA ByIdLists ==
  ASSUME NEW S, S \subseteq Nat, IsFiniteSet(S)
  PROVE  /\ ById(S) \in Seq(S)
         /\ Range(ById(S)) = S
         /\ Len(ById(S)) = Cardinality(S)
         /\ S = {} => ById(S) = <<>>
<1> DEFINE n == Cardinality(S)
           s == ById(S)
<1>1. s \in [1..n -> S] /\ Ascending(s)
  BY SortedExists DEF ById, Ascending
<1>2. n \in Nat /\ IsFiniteSet(1..n) /\ Cardinality(1..n) = n
  BY FS_CardinalityType, FS_Interval
<1> HIDE DEF s, n
<1>3. s \in Injection(1..n, S)
  <2>1. \A i, j \in 1..n : s[i] = s[j] => i = j
    <3> SUFFICES ASSUME NEW i \in 1..n, NEW j \in 1..n, s[i] = s[j] PROVE i = j
      OBVIOUS
    <3>1. s[i] \in Nat /\ s[j] \in Nat
      BY <1>1
    <3>2. i < j => s[i] < s[j]
      BY <1>1 DEF Ascending
    <3>3. j < i => s[j] < s[i]
      BY <1>1 DEF Ascending
    <3> QED
      BY <1>2, <3>1, <3>2, <3>3
  <2> QED
    BY <1>1, <2>1, Fun_IsInj
<1>4. s \in Surjection(1..n, S)
  BY <1>2, <1>3, FS_Injection DEF n
<1>5. s \in Seq(S)
  BY <1>1, <1>2
<1>6. Range(s) = S
  BY <1>4, Fun_SurjectionProperties
<1>7. S = {} => s = <<>>
  BY <1>5, <1>6, EmptySeq, LenProperties
<1>8. Len(s) = n
  BY <1>1, <1>2, <1>5, LenProperties
<1> QED
  BY <1>5, <1>6, <1>7, <1>8 DEF s, n

----------------------------------------------------------------------------
(* The inductive invariant                                                 *)

Reading == {"notify", "wait", "commit"}        \* after the listeners were read
Listing == Reading \union {"startwait", "serve"}  \* the list stands
Waiting == {"wait", "startwait"}                \* for the semaphore

Types ==
  /\ listeners \subseteq Ids /\ DOMAIN portsocks \subseteq Ids /\ sockets \in Seq(Ids)
  /\ locked \in BOOLEAN /\ port_ready \in BOOLEAN
  /\ master \in Listing \union {"begin", "load", "pause", "stopped"}
  /\ semaphore \in Nat
  /\ worker \in [Workers -> {"off", "top", "count", "accept", "run"}]
  /\ reload \in [Workers -> BOOLEAN]
  /\ DOMAIN handlers = Workers /\ DOMAIN listener_contexts = Workers
  /\ \A w \in Workers : \A c \in listener_contexts[w] : DOMAIN c = {"master_fd", "sock", "id"}

\* The list and the open sockets, at each place of the master
Serving ==
  /\ DOMAIN portsocks # {} => port_ready
  /\ locked => master \in Reading
  /\ master = "begin" => worker_reload \/ "interrupt" \in events
  /\ master \in {"load", "pause"} => sockets = <<>>
  /\ master = "pause" => DOMAIN portsocks = {}
  /\ master \in Listing =>
       /\ Range(sockets) \subseteq DOMAIN portsocks
       /\ "interrupt" \notin events => DOMAIN portsocks \subseteq Range(sockets)

\* Open sockets have different numbers.
Numbers == \A s, t \in DOMAIN portsocks : portsocks[s] = portsocks[t] => s = t

Few == "limit" \notin events => Cardinality(listeners) <= MaxFds

Clean == events \cap {"start", "open", "reuse", "limit", "restart"} = {}

\* A worker has read the listeners that the master has listed.
UpToDate(w) == sockets # <<>> => handlers[w] = sockets

\* The workers that have counted themselves are among these.
Current == {w \in Workers : ~reload[w] /\ worker[w] # "count" /\ UpToDate(w)}

\* The list is the table, locked while the workers of a reload read it.
Listed ==
  /\ sockets # <<>> /\ master \in Reading => locked
  /\ sockets # <<>> /\ master \in Reading \union {"startwait"} => sockets = ById(listeners)

\* Each worker counts itself once in a round, after it has read.
Rounds ==
  /\ master \in {"wait", "startwait", "serve"} => http_workers_started
  /\ ~http_workers_started =>
       semaphore = 0 /\ \A w \in Workers : worker[w] = "off" /\ ~reload[w]
  /\ master \in Waiting =>
       /\ semaphore <= Cardinality(Current)
       /\ \A w \in Workers : worker[w] = "count" => ~reload[w] /\ UpToDate(w)
  /\ master \notin Waiting \union {"stopped"} =>
       \A w \in Workers : ~reload[w] /\ worker[w] # "count"
  /\ master \in {"commit", "serve"} =>
       \A w \in Workers : worker[w] = "accept" => UpToDate(w)

\* A number that is in use is that of the socket that a worker has under it.
Matching ==
  \A w \in Workers : \A c \in listener_contexts[w] : \A s \in DOMAIN portsocks :
    portsocks[s] = c.master_fd => c.sock = s

Paired == \A w \in Workers : \A c \in listener_contexts[w] : c.id = c.sock

IndInv ==
  /\ Types /\ Serving /\ Numbers /\ Few
  /\ Clean => Listed /\ Rounds /\ Matching /\ Paired

\* The master starts with a reload to do, no list and no workers.
LEMMA InitIndInv == Init => IndInv
<1> SUFFICES ASSUME Init PROVE IndInv
  OBVIOUS
<1>1. Types
  <2>1. sockets \in Seq(Ids) /\ DOMAIN portsocks = {}
    BY EmptySeq DEF Init
  <2> QED
    BY <2>1, ConstantsAssumption DEF Init, Types, Listing, Reading
<1>2. Serving
  BY DEF Init, Serving, Listing, Reading
<1>3. Listed /\ Rounds
  BY DEF Init, Listed, Rounds, Reading, Waiting
<1>4. Matching /\ Paired /\ Numbers /\ Few
  BY ConstantsAssumption DEF Init, Matching, Paired, Numbers, Few
<1> QED
  BY <1>1, <1>2, <1>3, <1>4 DEF IndInv

\* The master lists some of the listeners, all of them if they are not too many.
LEMMA ListableLists ==
  ASSUME Types, NEW failing
  PROVE  /\ Listable(failing) \in Seq(listeners \ failing)
         /\ Cardinality(listeners \ failing) <= MaxFds => Listable(failing) = ById(listeners \ failing)
         /\ listeners = {} => Listable(failing) = <<>>
<1> DEFINE S == listeners \ failing
           n == IF Len(ById(S)) > MaxFds THEN MaxFds ELSE Len(ById(S))
<1>1. S \subseteq Nat /\ IsFiniteSet(S)
  <2>1. S \in SUBSET Ids
    BY DEF Types
  <2> QED
    BY <2>1, FS_Subset, ConstantsAssumption
<1>2. ById(S) \in Seq(S) /\ Len(ById(S)) = Cardinality(S) /\ (S = {} => ById(S) = <<>>)
  BY <1>1, ByIdLists
<1>3. Listable(failing) = SubSeq(ById(S), 1, n)
  BY DEF Listable
<1>4. n \in Nat /\ n <= Len(ById(S)) /\ Len(ById(S)) \in Nat
  BY <1>2, ConstantsAssumption
<1> HIDE DEF S
<1>5. Listable(failing) \in Seq(S)
  BY <1>2, <1>3, <1>4, SubSeqProperties
<1>6. ASSUME Len(ById(S)) <= MaxFds PROVE Listable(failing) = ById(S)
  <2>1. n = Len(ById(S))
    BY <1>4, <1>6, ConstantsAssumption
  <2> QED
    BY <1>2, <1>3, <2>1, SubSeqFull
<1>7. S = {} => Listable(failing) = <<>>
  <2>1. S = {} => Len(ById(S)) <= MaxFds
    BY <1>2, ConstantsAssumption
  <2> QED
    BY <1>2, <1>6, <2>1
<1>8. listeners = {} => S = {}
  BY DEF S
<1> QED
  BY <1>2, <1>5, <1>6, <1>7, <1>8 DEF S

\* What MasterLoad makes of the list: the sockets that could be opened
LEMMA LoadLists ==
  ASSUME Types, Serving, NEW failing, MasterLoad(failing)
  PROVE  /\ sockets' = Listable(failing)
         /\ sockets' \in Seq(Ids)
         /\ Range(sockets') = DOMAIN portsocks'
         /\ DOMAIN portsocks' \subseteq Ids
         /\ DOMAIN portsocks' # {} => port_ready'
         /\ ~port_ready' => listeners = {} /\ sockets' = <<>>
<1>1. Listable(failing) \in Seq(listeners \ failing)
  BY ListableLists
<1>2. sockets' = <<>> \o Listable(failing)
  BY DEF MasterLoad, Serving
<1>3. sockets' = Listable(failing)
  BY <1>1, <1>2, ConcatEmptySeq
<1>4. DOMAIN portsocks' = Range(Listable(failing))
  BY DEF MasterLoad
<1>5. Range(Listable(failing)) \subseteq Ids /\ Listable(failing) \in Seq(Ids)
  <2>1. listeners \ failing \subseteq Ids
    BY DEF Types
  <2>2. \A i \in DOMAIN Listable(failing) : Listable(failing)[i] \in Ids
    BY <1>1, <2>1, ElementOfSeq, LenProperties
  <2> QED
    BY <1>1, <2>2, SeqDef, LenProperties DEF Range
<1>6. ~port_ready' => listeners = {}
  BY DEF MasterLoad, Serving
<1>7. ~port_ready' => sockets' = <<>>
  BY <1>3, <1>6, ListableLists
<1>8. DOMAIN portsocks' # {} => port_ready'
  BY <1>3, <1>4, <1>7 DEF Range
<1> QED
  BY <1>3, <1>4, <1>5, <1>6, <1>7, <1>8

\* What MasterLoad makes of the numbers: sockets that stay open keep theirs, the
\* others get ones that were not in use.
LEMMA LoadNumbers ==
  ASSUME Numbers, NEW failing, MasterLoad(failing)
  PROVE  /\ \A s \in DOMAIN portsocks' \cap DOMAIN portsocks : portsocks'[s] = portsocks[s]
         /\ \A s \in DOMAIN portsocks' \ DOMAIN portsocks : "reuse" \notin events' => ~Known(portsocks'[s])
         /\ Numbers'
<1>1. PICK fd \in [Range(Listable(failing)) \ DOMAIN portsocks -> Fds \ Range(portsocks)] :
        /\ IsInjective(fd)
        /\ portsocks' = [s \in Range(Listable(failing)) |->
                           IF s \in DOMAIN portsocks THEN portsocks[s] ELSE fd[s]]
        /\ Happen(When(failing # {}, "open")
                  \union When(\E s \in DOMAIN fd : Known(fd[s]), "reuse"))
  BY DEF MasterLoad
<1>2. \A s \in DOMAIN portsocks' \cap DOMAIN portsocks : portsocks'[s] = portsocks[s]
  BY <1>1
<1>3. \A s \in DOMAIN portsocks' \ DOMAIN portsocks : s \in DOMAIN fd /\ portsocks'[s] = fd[s]
  BY <1>1
<1>4. (\E s \in DOMAIN fd : Known(fd[s])) => "reuse" \in events'
  BY <1>1 DEF Happen, When
<1>5. \A s \in DOMAIN fd : \A r \in DOMAIN portsocks : fd[s] # portsocks[r]
  BY <1>1 DEF Range
<1>6. \A s, r \in DOMAIN fd : fd[s] = fd[r] => s = r
  BY <1>1 DEF IsInjective
<1>7. Numbers'
  BY <1>2, <1>3, <1>5, <1>6 DEF Numbers
<1> QED
  BY <1>2, <1>3, <1>4, <1>7

\* Only changes of the table, which lists ids, and the master's and the workers'
\* own assignments have an effect on the types.
LEMMA TypesStep == IndInv /\ [Next]_vars => Types'
<1> SUFFICES ASSUME IndInv, [Next]_vars PROVE Types'
  OBVIOUS
<1> USE DEF IndInv, Types, Listing, Reading, masterVars, workerVars, counters
<1>1. ASSUME NEW S \in Tables, ChangeListeners(S) PROVE Types'
  <2>1. S \subseteq Ids
    BY ConstantsAssumption
  <2> QED
    BY <1>1, <2>1 DEF ChangeListeners
<1>2. CASE DropRequest \/ DropDone
  BY <1>2 DEF DropRequest, DropDone
<1>3. ASSUME NEW failing, MasterLoad(failing) PROVE Types'
  BY <1>3, LoadLists DEF MasterLoad
<1>4. CASE MasterBegin \/ MasterPause \/ MasterNotify \/ MasterCounted
  <2>1. CASE MasterBegin \/ MasterPause
    <3>1. sockets' \in Seq(Ids)
      BY <2>1, EmptySeq DEF MasterBegin, MasterPause
    <3> QED
      BY <2>1, <3>1 DEF MasterBegin, MasterPause
  <2>2. CASE MasterNotify
    <3>1. CASE http_workers_started
      <4>1. semaphore' = 0 /\ reload' = [w \in Workers |-> TRUE] /\ master' = "wait"
        BY <2>2, <3>1 DEF MasterNotify
      <4>2. reload' \in [Workers -> BOOLEAN]
        BY <4>1, Zenon
      <4> QED
        BY <2>2, <4>1, <4>2 DEF MasterNotify
    <3>2. CASE ~http_workers_started
      BY <2>2, <3>2 DEF MasterNotify
    <3> QED
      BY <3>1, <3>2
  <2>3. CASE MasterCounted
    BY <2>3 DEF MasterCounted
  <2> QED
    BY <1>4, <2>1, <2>2, <2>3
<1>5. CASE MasterCommit \/ MasterReload \/ MasterInterrupted
  BY <1>5 DEF MasterCommit, MasterReload, MasterInterrupted
<1>6. ASSUME NEW w \in Workers, WorkerRead(w) \/ WorkerCount(w) PROVE Types'
  <2>1. CASE WorkerRead(w)
    BY <2>1 DEF WorkerRead, Goto
  <2>2. CASE WorkerCount(w)
    BY <2>2 DEF WorkerCount, Goto
  <2> QED
    BY <1>6, <2>1, <2>2
<1>7. ASSUME NEW w \in Workers, AcceptGivesUp(w) \/ AcceptNothing(w) \/ AcceptCrash(w) \/ WorkerRun(w)
      PROVE Types'
  BY <1>7 DEF AcceptGivesUp, AcceptNothing, AcceptCrash, WorkerRun, Goto
<1>10. ASSUME NEW w \in Workers, Accept(w) \/ AcceptOverrun(w) PROVE Types'
  <2>1. \A c \in Matched(w) : DOMAIN c = {"master_fd", "sock", "id"}
    BY DEF Matched
  <2>2. \A c \in Matched(w) : DOMAIN Numbered(w, c) = {"master_fd", "sock", "id"}
    BY <2>1 DEF Numbered
  <2>3. \A c \in listener_contexts'[w] : DOMAIN c = {"master_fd", "sock", "id"}
    BY <1>10, <2>1, <2>2 DEF Accept, AcceptOverrun
  <2>4. \A v \in Workers \ {w} : listener_contexts'[v] = listener_contexts[v]
    BY <1>10 DEF Accept, AcceptOverrun
  <2> QED
    BY <1>10, <2>3, <2>4 DEF Accept, AcceptOverrun, Goto
<1>8. ASSUME NEW w \in Workers, WorkerRestart(w) PROVE Types'
  BY <1>8 DEF WorkerRestart, Goto
<1>9. CASE UNCHANGED vars
  BY <1>9 DEF vars
<1> QED
  BY <1>1, <1>2, <1>3, <1>4, <1>5, <1>6, <1>7, <1>8, <1>9, <1>10
     DEF Next, MasterStep, WorkerStep, MasterSpin, Idle

\* The list is rebuilt from the sockets that are open whenever it is not empty.
LEMMA ServingStep == IndInv /\ [Next]_vars => Serving'
<1> SUFFICES ASSUME IndInv, [Next]_vars PROVE Serving'
  OBVIOUS
<1> USE DEF IndInv, Serving, Listing, Reading, masterVars, workerVars, counters
<1>1. ASSUME NEW S, ChangeListeners(S) PROVE Serving'
  BY <1>1 DEF ChangeListeners, Happen, When
<1>2. CASE DropRequest \/ DropDone
  BY <1>2 DEF DropRequest, DropDone, Happen, When
<1>3. ASSUME NEW failing, MasterLoad(failing) PROVE Serving'
  BY <1>3, LoadLists DEF MasterLoad, Happen, When, Types
<1>4. CASE MasterBegin
  <2>1. Range(sockets') = {}
    BY <1>4 DEF MasterBegin, Range
  <2> QED
    BY <1>4, <2>1 DEF MasterBegin
<1>5. CASE MasterPause \/ MasterNotify \/ MasterCounted
  BY <1>5 DEF MasterPause, MasterNotify, MasterCounted, Range
<1>6. CASE MasterCommit \/ MasterReload \/ MasterInterrupted
  BY <1>6 DEF MasterCommit, MasterReload, MasterInterrupted, Happen, When
<1>7. ASSUME NEW w \in Workers, WorkerStep(w) PROVE Serving'
  BY <1>7 DEF WorkerStep, WorkerRead, WorkerCount, AcceptGivesUp, Accept, AcceptNothing,
              AcceptOverrun, AcceptCrash, WorkerRun
<1>8. ASSUME NEW w \in Workers, WorkerRestart(w) PROVE Serving'
  BY <1>8 DEF WorkerRestart, Happen, When
<1>9. CASE UNCHANGED vars
  BY <1>9 DEF vars
<1> QED
  BY <1>1, <1>2, <1>3, <1>4, <1>5, <1>6, <1>7, <1>8, <1>9
     DEF Next, MasterStep, MasterSpin, Idle

\* Irregular events are not forgotten.
LEMMA CleanBefore == [Next]_vars /\ Clean' => Clean
  BY DEF Clean, Next, MasterStep, WorkerStep, MasterSpin, Idle, ChangeListeners, DropRequest,
         DropDone, MasterBegin, MasterLoad, MasterPause, MasterNotify, MasterCounted,
         MasterCommit, MasterReload, MasterInterrupted, WorkerRead, WorkerCount, AcceptGivesUp,
         Accept, AcceptNothing, AcceptOverrun, AcceptCrash, WorkerRun, WorkerRestart, Happen,
         When, vars, counters

\* Sets of workers are finite and their sizes ordered like the sets.
LEMMA WorkersFinite ==
  /\ \A C \in SUBSET Workers : IsFiniteSet(C) /\ Cardinality(C) \in Nat
  /\ \A C, D \in SUBSET Workers : C \subseteq D => Cardinality(C) <= Cardinality(D)
  BY ConstantsAssumption, FS_Subset, FS_CardinalityType

\* When the semaphore has counted N workers, none is left that has not read.
LEMMA AllCounted ==
  ASSUME Types, Rounds, master \in Waiting, semaphore = N
  PROVE  \A w \in Workers : w \in Current
<1>1. Current \in SUBSET Workers
  BY DEF Current
<1>2. Cardinality(Current) <= N /\ Cardinality(Current) \in Nat /\ N \in Nat
  BY <1>1, ConstantsAssumption, FS_Subset, FS_CardinalityType, WorkersFinite DEF N
<1>3. N <= Cardinality(Current)
  BY DEF Rounds
<1>4. Current = Workers
  BY <1>1, <1>2, <1>3, ConstantsAssumption, FS_Subset DEF N
<1> QED
  BY <1>4

\* The list changes only in MasterBegin and MasterLoad, the table only while it is
\* not locked.
LEMMA ListedStep == IndInv /\ [Next]_vars /\ Clean' => Listed'
<1> SUFFICES ASSUME IndInv, [Next]_vars, Clean' PROVE Listed'
  OBVIOUS
<1>0. Clean
  BY CleanBefore
<1> USE <1>0 DEF IndInv, Listed, Reading, masterVars, workerVars, counters
<1>1. ASSUME NEW S, ChangeListeners(S) PROVE Listed'
  <2>1. ~locked
    BY <1>1 DEF ChangeListeners
  <2>2. master # "startwait"
    BY <1>1 DEF ChangeListeners, Happen, When, Clean
  <2> QED
    BY <1>1, <2>1, <2>2 DEF ChangeListeners
<1>2. CASE DropRequest \/ DropDone
  BY <1>2 DEF DropRequest, DropDone
<1>3. ASSUME NEW failing \in SUBSET (listeners \ DOMAIN portsocks), MasterLoad(failing) PROVE Listed'
  <2>1. failing = {}
    BY <1>3 DEF MasterLoad, Happen, When, Clean
  <2>2. sockets' = ById(listeners) /\ listeners' = listeners
    <3>1. listeners \ failing = listeners
      BY <2>1
    <3>2. Cardinality(listeners) <= MaxFds
      BY DEF Few, Clean
    <3> QED
      BY <1>3, <3>1, <3>2, LoadLists, ListableLists DEF MasterLoad
  <2>3. port_ready' => locked'
    BY <1>3 DEF MasterLoad
  <2>4. ~port_ready' => sockets' = <<>>
    BY <1>3, LoadLists
  <2> QED
    BY <2>2, <2>3, <2>4
<1>4. CASE MasterBegin
  BY <1>4 DEF MasterBegin
<1>5. CASE MasterPause
  BY <1>5 DEF MasterPause, Serving
<1>6. CASE MasterNotify \/ MasterCounted
  BY <1>6 DEF MasterNotify, MasterCounted
<1>7. CASE MasterCommit \/ MasterReload \/ MasterInterrupted
  BY <1>7 DEF MasterCommit, MasterReload, MasterInterrupted
<1>8. ASSUME NEW w \in Workers, WorkerStep(w) \/ WorkerRestart(w) PROVE Listed'
  BY <1>8 DEF WorkerStep, WorkerRead, WorkerCount, AcceptGivesUp, Accept, AcceptNothing,
              AcceptOverrun, AcceptCrash, WorkerRun, WorkerRestart
<1>9. CASE UNCHANGED vars
  BY <1>9 DEF vars
<1> QED
  BY <1>1, <1>2, <1>3, <1>4, <1>5, <1>6, <1>7, <1>8, <1>9
     DEF Next, MasterStep, MasterSpin, Idle

\* Numbers are given when a socket is opened, and the table outgrows the limit only
\* in an irregular change.
LEMMA NumbersStep == IndInv /\ [Next]_vars => Numbers' /\ Few'
<1> SUFFICES ASSUME IndInv, [Next]_vars PROVE Numbers' /\ Few'
  OBVIOUS
<1> USE DEF IndInv
<1>1. ASSUME NEW S \in Tables, ChangeListeners(S) PROVE Numbers' /\ Few'
  <2>0. S \subseteq Ids
    BY ConstantsAssumption
  <2>1. Cardinality(S) \in Nat
    BY <2>0, ConstantsAssumption, FS_Subset, FS_CardinalityType
  <2>2. Few'
    BY <1>1, <2>1, ConstantsAssumption DEF ChangeListeners, Few, Happen, When
  <2> QED
    BY <1>1, <2>2 DEF ChangeListeners, Numbers
<1>2. ASSUME NEW failing, MasterLoad(failing) PROVE Numbers' /\ Few'
  <2>1. Few'
    BY <1>2 DEF MasterLoad, Few, Happen, When
  <2> QED
    BY <1>2, <2>1, LoadNumbers
<1>3. ASSUME UNCHANGED <<portsocks, listeners>>, events \subseteq events' PROVE Numbers' /\ Few'
  BY <1>3 DEF Numbers, Few
<1> QED
  BY <1>1, <1>2, <1>3
     DEF Next, MasterStep, WorkerStep, MasterSpin, Idle, DropRequest, DropDone, MasterBegin,
         MasterPause, MasterNotify, MasterCounted, MasterCommit, MasterReload, MasterInterrupted,
         WorkerRead, WorkerCount, AcceptGivesUp, Accept, AcceptNothing, AcceptOverrun, AcceptCrash,
         WorkerRun, WorkerRestart, Happen, vars, masterVars, counters

\* When the list comes, a context has the socket of the list whose number it has.
LEMMA MatchedSockets ==
  ASSUME IndInv, Matching, NEW w \in Workers, master = "serve", NEW c \in Matched(w)
  PROVE  /\ DOMAIN c = {"master_fd", "sock", "id"}
         /\ \E i \in DOMAIN sockets : portsocks[sockets[i]] = c.master_fd
         /\ \A s \in DOMAIN portsocks : portsocks[s] = c.master_fd => c.sock = s
<1>1. Range(sockets) \subseteq DOMAIN portsocks
  BY DEF IndInv, Serving, Listing
<1>2. CASE c \in listener_contexts[w] /\ c.master_fd \in {portsocks[s] : s \in Range(sockets)}
  BY <1>2 DEF Matching, IndInv, Types, Range
<1>3. ASSUME NEW s \in Range(sockets), c = [master_fd |-> portsocks[s], sock |-> s, id |-> 0]
      PROVE  /\ DOMAIN c = {"master_fd", "sock", "id"}
             /\ \E i \in DOMAIN sockets : portsocks[sockets[i]] = c.master_fd
             /\ \A r \in DOMAIN portsocks : portsocks[r] = c.master_fd => c.sock = r
  <2>1. c.master_fd = portsocks[s] /\ c.sock = s /\ DOMAIN c = {"master_fd", "sock", "id"}
    BY <1>3
  <2>2. \E i \in DOMAIN sockets : sockets[i] = s
    BY DEF Range
  <2> QED
    BY <1>1, <2>1, <2>2 DEF IndInv, Numbers
<1> QED
  BY <1>2, <1>3 DEF Matched

\* A worker gives each socket the id of its listener, because it has read what
\* the master has listed and numbers are not used twice.
LEMMA PairedStep == IndInv /\ [Next]_vars /\ Clean' => Matching' /\ Paired'
<1> SUFFICES ASSUME IndInv, [Next]_vars, Clean' PROVE Matching' /\ Paired'
  OBVIOUS
<1>0. Clean /\ Rounds /\ Matching /\ Paired
  BY CleanBefore DEF IndInv
<1>1. ASSUME NEW w \in Workers, Accept(w) PROVE Matching' /\ Paired'
  <2>1. handlers[w] = sockets /\ master = "serve" /\ UNCHANGED portsocks
    BY <1>0, <1>1 DEF Accept, Rounds, UpToDate, masterVars
  <2>2. ASSUME NEW c \in Matched(w)
        PROVE  /\ Numbered(w, c).id = Numbered(w, c).sock
               /\ \A s \in DOMAIN portsocks :
                    portsocks[s] = Numbered(w, c).master_fd => Numbered(w, c).sock = s
    <3> DEFINE index == CHOOSE i \in DOMAIN sockets : portsocks[sockets[i]] = c.master_fd
    <3>1. index \in DOMAIN sockets /\ portsocks[sockets[index]] = c.master_fd
      BY <1>0, <2>1, MatchedSockets
    <3>2. Numbered(w, c) = [c EXCEPT !.id = sockets[index]]
      BY <2>1, <3>1 DEF Numbered
    <3> HIDE DEF index
    <3>3. sockets[index] \in DOMAIN portsocks
      BY <2>1, <3>1 DEF IndInv, Serving, Listing, Range
    <3>4. c.sock = sockets[index]
      BY <1>0, <2>1, <3>1, <3>3, MatchedSockets
    <3>5. DOMAIN c = {"master_fd", "sock", "id"}
      BY <1>0, <2>1, MatchedSockets
    <3>6. /\ Numbered(w, c).id = sockets[index] /\ Numbered(w, c).sock = c.sock
          /\ Numbered(w, c).master_fd = c.master_fd
      BY <3>2, <3>5
    <3> QED
      BY <1>0, <2>1, <3>4, <3>6, MatchedSockets
  <2>3. listener_contexts'[w] = {Numbered(w, c) : c \in Matched(w)}
    BY <1>1 DEF Accept, IndInv, Types
  <2>4. \A v \in Workers \ {w} : listener_contexts'[v] = listener_contexts[v]
    BY <1>1 DEF Accept, IndInv, Types
  <2>5. \A c \in listener_contexts'[w] :
          c.id = c.sock /\ \A s \in DOMAIN portsocks : portsocks[s] = c.master_fd => c.sock = s
    BY <2>2, <2>3
  <2> QED
    BY <1>0, <2>1, <2>4, <2>5 DEF Matching, Paired
<1>2. ASSUME NEW w \in Workers, AcceptOverrun(w) PROVE FALSE
  <2>1. handlers[w] = sockets /\ Len(handlers[w]) > Len(sockets)
    BY <1>0, <1>2 DEF AcceptOverrun, Rounds, UpToDate
  <2>2. Len(sockets) \in Nat
    BY LenProperties DEF IndInv, Types
  <2> QED
    BY <2>1, <2>2
<1>3. ASSUME NEW w \in Workers, WorkerRestart(w) PROVE FALSE
  BY <1>3 DEF WorkerRestart, Happen, Clean
<1>4. ASSUME NEW failing, MasterLoad(failing) PROVE Matching' /\ Paired'
  <2>1. UNCHANGED listener_contexts /\ "reuse" \notin events'
    BY <1>4 DEF MasterLoad, workerVars, Clean
  <2>2. ASSUME NEW w \in Workers, NEW c \in listener_contexts[w], NEW s \in DOMAIN portsocks',
               portsocks'[s] = c.master_fd
        PROVE  c.sock = s
    <3>1. CASE s \in DOMAIN portsocks
      BY <1>0, <1>4, <2>2, <3>1, LoadNumbers DEF Matching, IndInv
    <3>2. CASE s \notin DOMAIN portsocks
      <4>1. ~Known(portsocks'[s])
        BY <1>4, <2>1, <3>2, LoadNumbers DEF IndInv
      <4> QED
        BY <2>2, <4>1 DEF Known
    <3> QED
      BY <3>1, <3>2
  <2> QED
    BY <1>0, <2>1, <2>2 DEF Matching, Paired
<1>5. ASSUME UNCHANGED <<portsocks, listener_contexts>> PROVE Matching' /\ Paired'
  BY <1>0, <1>5 DEF Matching, Paired
<1> QED
  BY <1>1, <1>2, <1>3, <1>4, <1>5
     DEF Next, MasterStep, WorkerStep, MasterSpin, Idle, ChangeListeners, DropRequest, DropDone,
         MasterBegin, MasterPause, MasterNotify, MasterCounted, MasterCommit, MasterReload,
         MasterInterrupted, WorkerRead, WorkerCount, AcceptGivesUp, AcceptNothing, AcceptCrash,
         WorkerRun, vars, masterVars, workerVars

\* No worker is lost from Current, and the semaphore is as it was.
LEMMA CurrentGrows ==
  ASSUME IndInv, Rounds, master' = master, semaphore' = semaphore,
         http_workers_started' = http_workers_started, master \in Waiting,
         Current \subseteq Current'
  PROVE  semaphore' <= Cardinality(Current')
<1>1. Current \in SUBSET Workers /\ Current' \in SUBSET Workers
  BY DEF Current
<1>2. /\ Cardinality(Current) \in Nat /\ Cardinality(Current') \in Nat
      /\ Cardinality(Current) <= Cardinality(Current')
  BY <1>1, WorkersFinite
<1>3. semaphore <= Cardinality(Current) /\ semaphore \in Nat
  BY DEF Rounds, IndInv, Types
<1> QED
  BY <1>2, <1>3

\* The steps of the master keep Rounds.
LEMMA RoundsMaster ==
  ASSUME IndInv, Rounds, Listed, MasterStep \/ MasterInterrupted
  PROVE  Rounds'
<1> USE DEF IndInv, Types, Rounds, Waiting, Listing, Reading, UpToDate, masterVars, workerVars,
            counters
<1>1. CASE MasterBegin
  BY <1>1 DEF MasterBegin
<1>2. ASSUME NEW failing, MasterLoad(failing) PROVE Rounds'
  BY <1>2 DEF MasterLoad
<1>3. CASE MasterPause
  BY <1>3 DEF MasterPause
<1>4. CASE MasterNotify
  <2>1. CASE http_workers_started
    <3>1. Current' \in SUBSET Workers
      BY DEF Current
    <3>2. semaphore' = 0 /\ semaphore' <= Cardinality(Current')
      BY <1>4, <2>1, <3>1, WorkersFinite DEF MasterNotify
    <3> QED
      BY <1>4, <2>1, <3>2 DEF MasterNotify
  <2>2. CASE ~http_workers_started
    BY <1>4, <2>2 DEF MasterNotify
  <2> QED
    BY <2>1, <2>2
<1>5. CASE MasterCounted
  <2>1. \A w \in Workers : ~reload[w] /\ worker[w] # "count" /\ UpToDate(w)
    BY <1>5, AllCounted DEF MasterCounted, Current
  <2> QED
    BY <1>5, <2>1 DEF MasterCounted
<1>6. CASE MasterCommit
  <2>1. CASE http_workers_started
    BY <1>6, <2>1 DEF MasterCommit
  <2>2. CASE ~http_workers_started
    <3>1. Current' \in SUBSET Workers
      BY DEF Current
    <3>2. semaphore' = 0 /\ semaphore' <= Cardinality(Current')
      BY <1>6, <2>2, <3>1, WorkersFinite DEF MasterCommit
    <3> QED
      BY <1>6, <2>2, <3>2 DEF MasterCommit
  <2> QED
    BY <2>1, <2>2
<1>7. CASE MasterReload \/ MasterInterrupted
  BY <1>7 DEF MasterReload, MasterInterrupted
<1> QED
  BY <1>1, <1>2, <1>3, <1>4, <1>5, <1>6, <1>7 DEF MasterStep

\* The steps of a worker keep Rounds: it reads what is listed, then counts itself.
LEMMA RoundsWorker ==
  ASSUME IndInv, Rounds, Listed, NEW w \in Workers, WorkerStep(w)
  PROVE  Rounds'
<1> USE DEF IndInv, Types, Rounds, Waiting, Listing, Reading, UpToDate, masterVars, workerVars,
            counters, Goto
<1>1. CASE WorkerRead(w)
  <2>1. http_workers_started /\ master \in {"wait", "startwait", "stopped"}
    BY <1>1 DEF WorkerRead
  <2>2. sockets # <<>> /\ master \in Waiting => sockets = ById(listeners)
    BY DEF Listed
  <2>3. \A v \in Workers \ {w} : UNCHANGED <<worker[v], reload[v], handlers[v]>>
    BY <1>1 DEF WorkerRead
  <2>4. /\ UNCHANGED <<master, semaphore, http_workers_started, sockets>>
        /\ reload[w] /\ ~reload'[w]
        /\ worker'[w] = "count" => handlers'[w] = ById(listeners)
        /\ worker'[w] \in {"top", "count"}
    BY <1>1 DEF WorkerRead
  <2>5. master \in Waiting => semaphore' <= Cardinality(Current')
    <3>1. Current \subseteq Current'
      BY <2>3, <2>4 DEF Current
    <3> QED
      BY <2>4, <3>1, CurrentGrows
  <2> QED
    BY <2>1, <2>2, <2>3, <2>4, <2>5
<1>2. CASE WorkerCount(w)
  <2>1. http_workers_started /\ master \in {"wait", "startwait", "stopped"}
    BY <1>2 DEF WorkerCount
  <2>2. /\ UNCHANGED <<master, http_workers_started, sockets, reload, handlers>>
        /\ semaphore' = semaphore + 1 /\ worker[w] = "count"
        /\ worker' = [worker EXCEPT ![w] = "accept"]
    BY <1>2 DEF WorkerCount
  <2>3. ASSUME master \in Waiting PROVE semaphore' <= Cardinality(Current')
    <3>1. w \notin Current /\ Current \union {w} \subseteq Current'
      BY <2>2, <2>3 DEF Current
    <3>2. Current \in SUBSET Workers /\ Current' \in SUBSET Workers
          /\ Current \union {w} \in SUBSET Workers
      BY DEF Current
    <3>3. IsFiniteSet(Current) /\ Cardinality(Current) \in Nat /\ Cardinality(Current') \in Nat
      BY <3>2, WorkersFinite
    <3>4. Cardinality(Current \union {w}) = Cardinality(Current) + 1
      BY <3>1, <3>3, FS_AddElement
    <3>5. Cardinality(Current \union {w}) <= Cardinality(Current')
      BY <3>1, <3>2, WorkersFinite
    <3>6. semaphore <= Cardinality(Current)
      BY <2>3
    <3> QED
      BY <2>2, <3>3, <3>4, <3>5, <3>6
  <2> QED
    BY <2>1, <2>2, <2>3
<1>3. CASE AcceptGivesUp(w)
  <2>1. /\ http_workers_started /\ master \in {"wait", "startwait", "stopped"}
        /\ UNCHANGED <<master, semaphore, http_workers_started, sockets, reload, handlers>>
        /\ reload[w] /\ worker' = [worker EXCEPT ![w] = "top"]
    BY <1>3 DEF AcceptGivesUp
  <2>2. master \in Waiting => semaphore' <= Cardinality(Current')
    <3>1. Current \subseteq Current'
      BY <2>1 DEF Current
    <3> QED
      BY <2>1, <3>1, CurrentGrows
  <2> QED
    BY <2>1, <2>2
<1>4. CASE Accept(w) \/ AcceptNothing(w) \/ AcceptOverrun(w)
  BY <1>4 DEF Accept, AcceptNothing, AcceptOverrun
<1>6. CASE AcceptCrash(w)
  BY <1>6 DEF AcceptCrash
<1>5. CASE WorkerRun(w)
  <2>1. /\ UNCHANGED <<master, semaphore, http_workers_started, sockets, reload, handlers>>
        /\ worker[w] \in {"top", "run"}
        /\ \E x \in {"top", "run"} : worker' = [worker EXCEPT ![w] = x]
    BY <1>5 DEF WorkerRun
  <2>2. http_workers_started
    BY <2>1
  <2>3. master \in Waiting => semaphore' <= Cardinality(Current')
    <3>1. Current \subseteq Current'
      BY <2>1 DEF Current
    <3> QED
      BY <2>1, <3>1, CurrentGrows
  <2> QED
    BY <2>1, <2>2, <2>3
<1> QED
  BY <1>1, <1>2, <1>3, <1>4, <1>5, <1>6 DEF WorkerStep

\* Rounds is kept by every step that leaves the events regular.
LEMMA RoundsStep == IndInv /\ [Next]_vars /\ Clean' => Rounds'
<1> SUFFICES ASSUME IndInv, [Next]_vars, Clean' PROVE Rounds'
  OBVIOUS
<1>0. Clean /\ Rounds /\ Listed
  BY CleanBefore DEF IndInv
<1>1. ASSUME NEW S, ChangeListeners(S) PROVE Rounds'
  BY <1>0, <1>1 DEF ChangeListeners, Rounds, Current, UpToDate, workerVars
<1>2. CASE DropRequest
  BY <1>0, <1>2 DEF DropRequest, Rounds, Current, UpToDate, masterVars, workerVars
<1>3. CASE DropDone
  BY <1>0, <1>3 DEF DropDone, Rounds, Waiting
<1>4. ASSUME NEW w \in Workers, WorkerRestart(w) PROVE Rounds'
  BY <1>4 DEF WorkerRestart, Happen, When, Clean
<1>5. CASE UNCHANGED vars
  BY <1>0, <1>5 DEF vars, Rounds, Current, UpToDate, masterVars, workerVars
<1> QED
  BY <1>0, <1>1, <1>2, <1>3, <1>4, <1>5, RoundsMaster, RoundsWorker DEF Next, MasterSpin, Idle

\* IndInv holds in every state of the master and its workers.
THEOREM ReloadIndInv == Spec => []IndInv
<1>1. IndInv /\ [Next]_vars => IndInv'
  <2> SUFFICES ASSUME IndInv, [Next]_vars PROVE IndInv'
    OBVIOUS
  <2>1. Types' /\ Serving' /\ Numbers' /\ Few'
    BY TypesStep, ServingStep, NumbersStep
  <2>2. Clean' => Listed' /\ Rounds' /\ Matching' /\ Paired'
    BY ListedStep, RoundsStep, PairedStep
  <2> QED
    BY <2>1, <2>2 DEF IndInv
<1> QED
  BY InitIndInv, <1>1, PTL DEF Spec

\* Every socket of every worker has the id of its listener, for any number of
\* workers, listeners, reloads and interrupted waits, with DROP EXTENSION at any
\* time.
THEOREM ReloadPairedByIndex == Spec => []PairedByIndex
<1>1. IndInv => PairedByIndex
  BY DEF IndInv, Clean, Paired, PairedByIndex
<1> QED
  BY ReloadIndInv, <1>1, PTL

\* The master serves only sockets that are open, all of them unless a signal has
\* interrupted it, and never while it holds its lock.
THEOREM ReloadServesOpenSockets == Spec => []ServesOpenSockets
<1>1. IndInv => ServesOpenSockets
  BY DEF IndInv, Serving, Listing, Reading, ServesOpenSockets
<1> QED
  BY ReloadIndInv, <1>1, PTL
=============================================================================
