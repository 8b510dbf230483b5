---------------------------- MODULE HttpdReload ----------------------------
(***************************************************************************)
(* Configuration reloads of omni_httpd: the master worker and its HTTP      *)
(* workers (extensions/omni_httpd/master_worker.c, http_worker.c, fd.c).    *)
(*                                                                         *)
(* The master reads the listeners, opens their sockets, tells the workers   *)
(* to reload, waits until a semaphore in shared memory has counted all of  *)
(* them, commits, and then serves the sockets over a UNIX socket.  A worker *)
(* reads the listeners itself, counts itself, asks for the sockets, and     *)
(* pairs the two lists by position.                                        *)
(*                                                                         *)
(* A listener is its id, and so is its socket.  The master knows a socket by *)
(* the number of its file, which the system may give to another one once    *)
(* the file is closed; a worker has a copy of the socket and compares the   *)
(* master's numbers.  Threads inside a worker are the subject of            *)
(* HttpdThreads.                                                           *)
(***************************************************************************)
EXTENDS Naturals, SequencesExt

CONSTANTS
  Workers,           \* HTTP workers
  Ids,               \* listener ids
  Tables,            \* sets of listeners that the table may be changed to
  InitialListeners,  \* listeners when the master starts
  Fds,               \* numbers of files in the master
  MaxFds,            \* MAX_N_FDS
  MaxChanges,        \* bound on changes of the listeners table
  Events,            \* kinds of irregular events
  MaxEvents          \* bound on how many of them happen, each once

\* The kinds: the listeners change while the workers start; a socket cannot be
\* opened; a socket gets the number that a closed one had when a worker got it;
\* there are more listeners than MaxFds; a worker ends with an error; a signal
\* interrupts the master's wait; DROP EXTENSION omni_httpd is issued.
ASSUME ConstantsAssumption ==
  /\ Ids \subseteq Nat \ {0} /\ IsFiniteSet(Ids)
  /\ Tables \subseteq SUBSET Ids
  /\ MaxFds \in Nat \ {0}
  /\ InitialListeners \subseteq Ids /\ Cardinality(InitialListeners) <= MaxFds
  /\ IsFiniteSet(Workers)
  /\ MaxChanges \in Nat /\ MaxEvents \in Nat
  /\ Events \subseteq {"start", "open", "reuse", "limit", "restart", "interrupt", "drop"}

VARIABLES
  listeners,             \* the table omni_httpd.listeners
  locked,                \* the master holds its ExclusiveLock on it
  dropping,              \* DROP EXTENSION: no, waiting (for its lock), done
  master,                \* where the master is
  worker_reload,         \* its flag
  sockets,               \* the list it serves
  portsocks,             \* sockets it has open, each with its number
  port_ready,
  http_workers_started,
  semaphore,
  worker,                \* where each worker is
  reload,                \* its flag worker_reload
  handlers,              \* ids it has read
  listener_contexts,     \* its sockets, each with the master's number and an id
  changes,               \* counter for the bound
  events                 \* history: irregular events

masterVars == <<master, worker_reload, sockets, portsocks, port_ready, http_workers_started>>
workerVars == <<worker, reload, handlers, listener_contexts>>
counters == <<changes, events>>
vars == <<listeners, locked, dropping, masterVars, semaphore, workerVars, counters>>

\* Lists are sorted by the id.
ById(S) ==
  CHOOSE s \in [1..Cardinality(S) -> S] : \A i, j \in DOMAIN s : i < j => s[i] < s[j]

N == Cardinality(Workers)

Init ==
  /\ listeners = InitialListeners
  /\ locked = FALSE /\ dropping = "no"
  /\ master = "begin" /\ worker_reload = TRUE
  /\ sockets = <<>> /\ portsocks = <<>> /\ port_ready = FALSE
  /\ http_workers_started = FALSE /\ semaphore = 0
  /\ worker = [w \in Workers |-> "off"]
  /\ reload = [w \in Workers |-> FALSE]
  /\ handlers = [w \in Workers |-> <<>>]
  /\ listener_contexts = [w \in Workers |-> {}]
  /\ changes = 0 /\ events = {}

----------------------------------------------------------------------------
(* The rest of the database                                                *)

Happen(kinds) ==
  /\ kinds \subseteq Events \ events /\ Cardinality(events \union kinds) <= MaxEvents
  /\ events' = events \union kinds

When(condition, kind) == IF condition THEN {kind} ELSE {}

\* Mutant: the trigger notifies nobody
ChangeListenersSilently(S) ==
  /\ ~locked /\ dropping = "no" /\ S # listeners
  /\ changes < MaxChanges
  /\ listeners' = S
  /\ changes' = changes + 1
  /\ Happen(When(master = "startwait", "start")
            \union When(Cardinality(S) > MaxFds, "limit"))
  /\ UNCHANGED <<locked, dropping, masterVars, semaphore, workerVars>>

\* A transaction changes the listeners and commits; a trigger notifies the
\* master.
ChangeListeners(S) ==
  /\ ~locked /\ dropping = "no" /\ S # listeners
  /\ changes < MaxChanges
  /\ listeners' = S
  /\ worker_reload' = TRUE
  /\ changes' = changes + 1
  /\ Happen(When(master = "startwait", "start")
            \union When(Cardinality(S) > MaxFds, "limit"))
  /\ UNCHANGED <<locked, dropping, master, sockets, portsocks, port_ready,
                 http_workers_started, semaphore, workerVars>>

\* DROP EXTENSION asks for its lock, behind the master's if that is held, ...
DropRequest ==
  /\ dropping = "no" /\ Happen({"drop"})
  /\ dropping' = "waiting"
  /\ UNCHANGED <<listeners, locked, masterVars, semaphore, workerVars, changes>>

\* ... and terminates the master when it commits, which ends the workers.
DropDone ==
  /\ dropping = "waiting" /\ ~locked
  /\ dropping' = "done"
  /\ master' = "stopped"
  /\ worker' = [w \in Workers |-> "off"]
  /\ UNCHANGED <<listeners, locked, worker_reload, sockets, portsocks, port_ready,
                 http_workers_started, semaphore, reload, handlers, listener_contexts, counters>>

----------------------------------------------------------------------------
(* master_worker                                                           *)

\* Mutant: the list is not cleared
MasterBeginKeepsList ==
  /\ master = "begin"
  /\ master' = IF worker_reload THEN "load" ELSE "notify"
  /\ UNCHANGED <<listeners, locked, dropping, worker_reload, sockets, portsocks, port_ready,
                 http_workers_started, semaphore, workerVars, counters>>

\* An iteration begins; without a reload the listeners are not read.
MasterBegin ==
  /\ master = "begin"
  /\ sockets' = <<>>
  /\ master' = IF worker_reload THEN "load" ELSE "notify"
  /\ UNCHANGED <<listeners, locked, dropping, worker_reload, portsocks, port_ready,
                 http_workers_started, semaphore, workerVars, counters>>

\* What the master can list: the first MaxFds sockets that are or can be opened
Listable(failing) ==
  LET all == ById(listeners \ failing)
  IN  SubSeq(all, 1, IF Len(all) > MaxFds THEN MaxFds ELSE Len(all))

\* Some worker has a socket that had this number in the master.
Known(number) == \E w \in Workers : \E c \in listener_contexts[w] : c.master_fd = number

\* The listeners are locked and read; new sockets are opened, under any numbers
\* that are not in use, then the others are closed; some cannot be opened.
\* Without any listener the lock is given back.
MasterLoad(failing) ==
  /\ master = "load" /\ dropping = "no"
  /\ worker_reload' = FALSE
  /\ sockets' = sockets \o Listable(failing)
  /\ \E fd \in [Range(Listable(failing)) \ DOMAIN portsocks -> Fds \ Range(portsocks)] :
       /\ IsInjective(fd)
       /\ portsocks' = [s \in Range(Listable(failing)) |->
                          IF s \in DOMAIN portsocks THEN portsocks[s] ELSE fd[s]]
       /\ Happen(When(failing # {}, "open")
                 \union When(\E s \in DOMAIN fd : Known(fd[s]), "reuse"))
  /\ port_ready' = \/ listeners \ DOMAIN portsocks # {}
                   \/ listeners # {} /\ port_ready
  /\ locked' = port_ready'
  /\ master' = IF port_ready' THEN "notify" ELSE "pause"
  /\ UNCHANGED <<listeners, dropping, http_workers_started, semaphore, workerVars, changes>>

MasterPause ==
  /\ master = "pause"
  /\ master' = IF worker_reload THEN "load" ELSE "notify"
  /\ UNCHANGED <<listeners, locked, dropping, worker_reload, sockets, portsocks,
                 port_ready, http_workers_started, semaphore, workerVars, counters>>

\* Workers that run are told to reload (SIGUSR2).
MasterNotify ==
  /\ master = "notify"
  /\ IF http_workers_started
     THEN /\ semaphore' = 0
          /\ reload' = [w \in Workers |-> TRUE]
          /\ master' = "wait"
     ELSE /\ master' = "commit"
          /\ UNCHANGED <<semaphore, reload>>
  /\ UNCHANGED <<listeners, locked, dropping, worker_reload, sockets, portsocks,
                 port_ready, http_workers_started, worker, handlers, listener_contexts, counters>>

\* The compare and exchange succeeds, in a reload or after the start.
MasterCounted ==
  /\ master \in {"wait", "startwait"}
  /\ semaphore = N
  /\ semaphore' = 0
  /\ master' = IF master = "wait" THEN "commit" ELSE "serve"
  /\ UNCHANGED <<listeners, locked, dropping, worker_reload, sockets, portsocks,
                 port_ready, http_workers_started, workerVars, counters>>

\* The reload is recorded, the table unlocked, the transaction committed; the
\* first time the workers are started.
MasterCommit ==
  /\ master = "commit"
  /\ locked' = FALSE
  /\ IF http_workers_started
     THEN /\ master' = "serve"
          /\ UNCHANGED <<worker, reload, http_workers_started>>
     ELSE /\ master' = "startwait"
          /\ http_workers_started' = TRUE
          /\ worker' = [w \in Workers |-> "top"]
          /\ reload' = [w \in Workers |-> TRUE]
  /\ UNCHANGED <<listeners, dropping, worker_reload, sockets, portsocks, port_ready,
                 semaphore, handlers, listener_contexts, counters>>

\* The loop that serves the sockets is left for a reload ...
MasterReload ==
  /\ master = "serve" /\ worker_reload
  /\ master' = "begin"
  /\ UNCHANGED <<listeners, locked, dropping, worker_reload, sockets, portsocks, port_ready,
                 http_workers_started, semaphore, workerVars, counters>>

\* ... and when a signal interrupts the wait for events.
MasterInterrupted ==
  /\ master = "serve" /\ Happen({"interrupt"})
  /\ master' = "begin"
  /\ UNCHANGED <<listeners, locked, dropping, worker_reload, sockets, portsocks, port_ready,
                 http_workers_started, semaphore, workerVars, changes>>

----------------------------------------------------------------------------
(* http_worker                                                             *)

Goto(w, pc) == worker' = [worker EXCEPT ![w] = pc]

\* The flag is taken and the listeners are read, unless the conditional lock
\* fails because somebody waits for an exclusive one: then the worker goes on
\* as if there had been no reload.
WorkerRead(w) ==
  /\ worker[w] = "top" /\ reload[w]
  /\ reload' = [reload EXCEPT ![w] = FALSE]
  /\ IF dropping = "waiting"
     THEN UNCHANGED <<worker, handlers>>
     ELSE /\ handlers' = [handlers EXCEPT ![w] = ById(listeners)]
          /\ Goto(w, "count")
  /\ UNCHANGED <<listeners, locked, dropping, masterVars, semaphore, listener_contexts, counters>>

WorkerCount(w) ==
  /\ worker[w] = "count"
  /\ semaphore' = semaphore + 1
  /\ Goto(w, "accept")
  /\ UNCHANGED <<listeners, locked, dropping, masterVars, reload, handlers, listener_contexts, counters>>

\* Mutant: accept_fds insists on an answer
AcceptInsists(w) ==
  /\ worker[w] = "accept" /\ reload[w] /\ master = "serve"
  /\ Goto(w, "top")
  /\ UNCHANGED <<listeners, locked, dropping, masterVars, semaphore, reload, handlers,
                 listener_contexts, counters>>

\* accept_fds gives up because of another reload.
AcceptGivesUp(w) ==
  /\ worker[w] = "accept" /\ reload[w]
  /\ Goto(w, "top")
  /\ UNCHANGED <<listeners, locked, dropping, masterVars, semaphore, reload, handlers,
                 listener_contexts, counters>>

\* The contexts of a worker once the list has come: those whose number is in it
\* are kept, with the socket they have, the others are disposed of, and new ones
\* are made for the numbers that are left.
Matched(w) ==
  LET listed == {portsocks[s] : s \in Range(sockets)}
      known == {c.master_fd : c \in listener_contexts[w]}
  IN  {c \in listener_contexts[w] : c.master_fd \in listed}
      \union {[master_fd |-> portsocks[s], sock |-> s, id |-> 0] :
               s \in {s \in Range(sockets) : portsocks[s] \notin known}}

\* Ids are given by the position of a context's number in the list.
Numbered(w, c) ==
  LET index == CHOOSE i \in DOMAIN sockets : portsocks[sockets[i]] = c.master_fd
  IN  IF index \in DOMAIN handlers[w] THEN [c EXCEPT !.id = handlers[w][index]] ELSE c

\* Mutant: a list that cannot be used is taken all the same
AcceptAnyTime(w) ==
  /\ worker[w] = "accept" /\ Len(handlers[w]) <= Len(sockets)
  /\ listener_contexts' = [listener_contexts EXCEPT ![w] = {Numbered(w, c) : c \in Matched(w)}]
  /\ Goto(w, "run")
  /\ UNCHANGED <<listeners, locked, dropping, masterVars, semaphore, reload, handlers,
                 counters>>

\* accept_fds gets the list from the master (on_accept, send_fds); contexts are
\* set up and given the ids that were read.
Accept(w) ==
  /\ worker[w] = "accept" /\ master = "serve" /\ sockets # <<>>
  /\ Len(handlers[w]) <= Len(sockets)
  /\ listener_contexts' = [listener_contexts EXCEPT ![w] = {Numbered(w, c) : c \in Matched(w)}]
  /\ Goto(w, "run")
  /\ UNCHANGED <<listeners, locked, dropping, masterVars, semaphore, reload, handlers,
                 counters>>

\* Nothing changes when the list is empty.
AcceptNothing(w) ==
  /\ worker[w] = "accept" /\ master = "serve" /\ sockets = <<>>
  /\ Goto(w, "top")
  /\ UNCHANGED <<listeners, locked, dropping, masterVars, semaphore, reload, handlers,
                 listener_contexts, counters>>

\* More ids were read than sockets have come: what is behind the list is taken
\* for a number, and the context with this number, if there is one, gets the id ...
AcceptOverrun(w) ==
  /\ worker[w] = "accept" /\ master = "serve" /\ sockets # <<>>
  /\ Len(handlers[w]) > Len(sockets)
  /\ \E id \in [Matched(w) -> Range(handlers[w])] :
       listener_contexts' = [listener_contexts EXCEPT ![w] =
                               {[c EXCEPT !.id = id[c]] : c \in Matched(w)}]
  /\ Goto(w, "run")
  /\ UNCHANGED <<listeners, locked, dropping, masterVars, semaphore, reload, handlers,
                 counters>>

\* ... and if there is none the worker crashes, and the server with it.
AcceptCrash(w) ==
  /\ worker[w] = "accept" /\ master = "serve" /\ sockets # <<>>
  /\ Len(handlers[w]) > Len(sockets)
  /\ master' = "stopped"
  /\ worker' = [v \in Workers |-> "off"]
  /\ UNCHANGED <<listeners, locked, dropping, worker_reload, sockets, portsocks, port_ready,
                 http_workers_started, semaphore, reload, handlers, listener_contexts, counters>>

\* Requests are handled until the next reload.
WorkerRun(w) ==
  /\ \/ worker[w] = "top" /\ ~reload[w] /\ Goto(w, "run")
     \/ worker[w] = "run" /\ reload[w] /\ Goto(w, "top")
  /\ UNCHANGED <<listeners, locked, dropping, masterVars, semaphore, reload, handlers,
                 listener_contexts, counters>>

\* A worker ends with an error; the postmaster starts it again.
WorkerRestart(w) ==
  /\ worker[w] # "off" /\ Happen({"restart"})
  /\ Goto(w, "top")
  /\ reload' = [reload EXCEPT ![w] = TRUE]
  /\ listener_contexts' = [listener_contexts EXCEPT ![w] = {}]
  /\ UNCHANGED <<listeners, locked, dropping, masterVars, semaphore, handlers, changes>>

----------------------------------------------------------------------------
MasterStep ==
  \/ MasterBegin
  \/ \E failing \in SUBSET (listeners \ DOMAIN portsocks) : MasterLoad(failing)
  \/ MasterPause \/ MasterNotify \/ MasterCounted
  \/ MasterCommit \/ MasterReload

WorkerStep(w) ==
  \/ WorkerRead(w) \/ WorkerCount(w) \/ WorkerRun(w)
  \/ AcceptGivesUp(w) \/ Accept(w) \/ AcceptNothing(w) \/ AcceptOverrun(w) \/ AcceptCrash(w)

\* The compare and exchange fails and is tried again.
MasterSpin ==
  /\ master \in {"wait", "startwait"} /\ semaphore # N
  /\ UNCHANGED vars

\* Nothing is left to do: everyone waits for requests or has ended.
Idle ==
  /\ \/ master = "serve" /\ ~worker_reload /\ \A w \in Workers : worker[w] = "run"
     \/ master = "stopped"
  /\ UNCHANGED vars

Next ==
  \/ MasterStep \/ MasterSpin \/ MasterInterrupted \/ DropRequest \/ DropDone \/ Idle
  \/ \E S \in Tables : ChangeListeners(S)
  \/ \E w \in Workers : WorkerStep(w) \/ WorkerRestart(w)

Spec == Init /\ [][Next]_vars

\* The master and the workers are processes that keep running; DROP EXTENSION
\* goes on when it gets its lock.
FairSpec ==
  /\ Spec
  /\ WF_vars(MasterStep) /\ WF_vars(DropDone)
  /\ \A w \in Workers : WF_vars(WorkerStep(w))

----------------------------------------------------------------------------
(* Properties                                                              *)

\* "we can simply get them by the index" (http_worker.c): every socket that a
\* worker has is known under the id of the listener it was opened for, although
\* ids are given by position and sockets matched by the master's numbers.  This
\* holds over reloads, interrupted waits and DROP EXTENSION, as long as no
\* worker reads the listeners while the master does not lock them (at its start,
\* after a restart), every socket could be opened, there are not too many, and
\* none has the number that another one had before.
PairedByIndex ==
  events \cap {"start", "open", "reuse", "limit", "restart"} = {} =>
    \A w \in Workers : \A c \in listener_contexts[w] : c.id = c.sock

\* The master never serves a socket that it has closed, and it never serves
\* while it keeps others from changing the listeners; until a signal of another
\* kind interrupts it, it serves every socket it has open ("List of currently
\* active sockets", master_worker.c).
ServesOpenSockets ==
  master = "serve" =>
    /\ Range(sockets) \subseteq DOMAIN portsocks /\ ~locked
    /\ "interrupt" \notin events => DOMAIN portsocks \subseteq Range(sockets)

\* Every reload comes to an end, whatever else is changed or interrupted
\* meanwhile, if no worker is restarted and nobody waits for the table.
ReloadEnds ==
  [](master = "wait" => <>(master # "wait" \/ events \cap {"restart", "drop"} # {}))

\* When the listeners no longer change, all workers come to have their sockets
\* and no others, unless something went wrong on the way or there are none left.
WorkersConverge ==
  <>[](\/ \A w \in Workers : {c.sock : c \in listener_contexts[w]} = listeners
       \/ listeners = {} \/ events # {})
============================================================================
