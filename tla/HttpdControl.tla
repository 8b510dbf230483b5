--------------------------- MODULE HttpdControl ---------------------------
(***************************************************************************)
(* Start and stop of the omni_httpd server (extensions/omni_httpd/         *)
(* omni_httpd.c) over the background worker requests of omni               *)
(* (extensions/omni/omni.c, hook_harness.c).                               *)
(*                                                                         *)
(* The flags in shared memory change when omni_httpd.start() and stop() are *)
(* called; unless they are called with immediate, what they ask for is done *)
(* after the commit.  Every process that loads the module, the master      *)
(* worker included, may start the master.                                  *)
(*                                                                         *)
(* A short section under the control lock is one step; lock is the process  *)
(* that waits for another one while it holds the lock.                     *)
(***************************************************************************)
EXTENDS Naturals, Sequences, FiniteSets

CONSTANTS
  Backends,
  Connecting,     \* backends that load the module later
  Masters,        \* numbers of the master workers, 1..n
  MaxCalls,       \* bound on calls of start and stop
  MaxFailures     \* bound on registrations that fail and masters that end with an error

ASSUME ConstantsAssumption ==
  /\ Connecting \subseteq Backends /\ Backends \cap Masters = {} /\ 0 \notin Backends
  /\ Masters \subseteq Nat \ {0} /\ 1 \in Masters
  /\ MaxCalls \in Nat /\ MaxFailures \in Nat

VARIABLES
  should_start, started,  \* struct control_t
  lock,                   \* its lock, or Free
  handle,                 \* master_worker_bgw->bgw_handle, NoMaster when zeroed
  pc,                     \* where each process is
  requests,               \* after_xact_oneshot_callbacks
  events,                 \* reset callbacks of TopTransactionContext, last one first
  target,                 \* the master that a process starts or stops
  terminate,              \* masters that were told to terminate
  calls, failures,        \* counters for the bounds
  mishaps                 \* history: what makes flags and masters disagree

control == <<should_start, started>>
counters == <<calls, failures, mishaps>>
vars == <<control, lock, handle, pc, requests, events, target, terminate, counters>>

Processes == Backends \union Masters
NoMaster == 0
Free == 0
Start == [op |-> "start", handle |-> NoMaster]
Stop(h) == [op |-> "stop", handle |-> h]

\* The server runs, unless a backend has yet to load the module first.
Init ==
  LET up == Connecting # Backends IN
  /\ should_start = TRUE /\ started = up /\ lock = Free
  /\ handle = IF up THEN 1 ELSE NoMaster
  /\ pc = [p \in Processes |-> IF p \in Connecting THEN "new"
                               ELSE IF p \in Backends \/ (up /\ p = 1) THEN "idle" ELSE "none"]
  /\ requests = [p \in Processes |-> <<>>] /\ events = [p \in Processes |-> <<>>]
  /\ target = [p \in Processes |-> NoMaster] /\ terminate = {}
  /\ calls = 0 /\ failures = 0 /\ mishaps = {}

Goto(p, step) == pc' = [pc EXCEPT ![p] = step]

\* Something asked for in another call still waits for its commit.
Pending(op) == \E p \in Processes : \E i \in DOMAIN requests[p] : requests[p][i].op = op

Note(mishap, happened) == mishaps' = IF happened THEN mishaps \union {mishap} ELSE mishaps

----------------------------------------------------------------------------
\* start_master_worker

MayStart == should_start /\ ~started

\* The start is requested for after the commit.
RequestStart(p) ==
  /\ started' = (started \/ MayStart)
  /\ requests' = IF MayStart THEN [requests EXCEPT ![p] = Append(@, Start)] ELSE requests

\* RegisterDynamicBackgroundWorker, whose result is ignored: without a free slot
\* the handle is left uninitialised, and names a worker that is not there.
Register(p, step) ==
  \E m \in Masters, registered \in BOOLEAN :
    /\ pc[m] = "none" /\ \A k \in Masters : pc[k] = "none" => m <= k
    /\ target' = [target EXCEPT ![p] = m]
    /\ pc' = [pc EXCEPT ![m] = IF registered THEN "registered" ELSE "gone", ![p] = step]
    /\ ~registered => failures < MaxFailures
    /\ failures' = IF registered THEN failures ELSE failures + 1
    /\ Note("failure", ~registered)

\* The end of WaitForBackgroundWorkerStartup, and the handle
StartupSeen(p) ==
  /\ pc[target[p]] # "registered"
  /\ handle' = target[p]

\* A process loads the module in its first transaction.
_Omni_init(p) ==
  /\ pc[p] = "new" /\ lock = Free
  /\ RequestStart(p)
  /\ Goto(p, "open")
  /\ UNCHANGED <<should_start, lock, handle, events, target, terminate, counters>>

CanCall(p) ==
  /\ pc[p] \in {"idle", "open"}
  /\ lock = Free /\ calls < MaxCalls

\* start() sets should_start and gives the lock back ...
start(p, t) ==
  /\ CanCall(p)
  /\ should_start' = TRUE
  /\ calls' = calls + 1
  /\ Note("overlap", Pending("stop"))
  /\ Goto(p, IF t = "immediately" THEN "start now" ELSE "start later")
  /\ UNCHANGED <<started, lock, handle, requests, events, target, terminate, failures>>

\* ... before it takes it again.
StartLater(p) ==
  /\ pc[p] = "start later" /\ lock = Free
  /\ RequestStart(p)
  /\ Goto(p, "open")
  /\ UNCHANGED <<should_start, lock, handle, events, target, terminate, counters>>

StartNothing(p) ==
  /\ pc[p] = "start now" /\ lock = Free /\ ~MayStart
  /\ Goto(p, "open")
  /\ UNCHANGED <<control, lock, handle, requests, events, target, terminate, counters>>

\* Mutant: the flags are not read again
StartNowAgain(p) ==
  /\ pc[p] = "start now" /\ lock = Free
  /\ Register(p, "start locked")
  /\ lock' = p
  /\ UNCHANGED <<control, handle, requests, events, terminate, calls>>

StartNow(p) ==
  /\ pc[p] = "start now" /\ lock = Free /\ MayStart
  /\ Register(p, "start locked")
  /\ lock' = p
  /\ UNCHANGED <<control, handle, requests, events, terminate, calls>>

StartedNow(p) ==
  /\ pc[p] = "start locked"
  /\ StartupSeen(p)
  /\ started' = TRUE /\ lock' = Free
  /\ Goto(p, "open")
  /\ UNCHANGED <<should_start, requests, events, target, terminate, counters>>

----------------------------------------------------------------------------
\* stop_master_worker

\* The handle of a worker that is gone, or was never set, counts as stopped.
Stopped(h) == h # NoMaster => pc[h] = "gone"

\* Mutant: started is left set
StopLaterKeepsStarted(p) ==
  /\ CanCall(p)
  /\ requests' = IF started THEN [requests EXCEPT ![p] = Append(@, Stop(handle))] ELSE requests
  /\ should_start' = FALSE /\ UNCHANGED started
  /\ calls' = calls + 1
  /\ Note("overlap", Pending("start"))
  /\ Goto(p, "open")
  /\ UNCHANGED <<lock, handle, events, target, terminate, failures>>

\* The handle is copied now and used after the commit.
StopLater(p) ==
  /\ CanCall(p)
  /\ requests' = IF started THEN [requests EXCEPT ![p] = Append(@, Stop(handle))] ELSE requests
  /\ should_start' = FALSE /\ started' = FALSE
  /\ calls' = calls + 1
  /\ Note("overlap", Pending("start"))
  /\ Goto(p, "open")
  /\ UNCHANGED <<lock, handle, events, target, terminate, failures>>

StopNothing(p) ==
  /\ CanCall(p) /\ ~started
  /\ should_start' = FALSE
  /\ calls' = calls + 1
  /\ Note("overlap", Pending("start"))
  /\ Goto(p, "open")
  /\ UNCHANGED <<started, lock, handle, requests, events, target, terminate, failures>>

\* The lock is held until the master is gone.
StopNow(p) ==
  /\ CanCall(p) /\ started
  /\ lock' = p
  /\ target' = [target EXCEPT ![p] = handle]
  /\ terminate' = terminate \union ({handle} \ {NoMaster})
  /\ calls' = calls + 1
  /\ mishaps' = mishaps \union (IF Pending("start") THEN {"overlap"} ELSE {})
                        \union (IF handle # NoMaster /\ pc[handle] \in {"registered", "new"}
                                THEN {"early stop"} ELSE {})
  /\ Goto(p, "stop locked")
  /\ UNCHANGED <<control, handle, requests, events, failures>>

StoppedNow(p) ==
  /\ pc[p] = "stop locked" /\ Stopped(target[p])
  /\ should_start' = FALSE /\ started' = FALSE /\ lock' = Free
  /\ Goto(p, "open")
  /\ UNCHANGED <<handle, requests, events, target, terminate, counters>>

\* The loop over WaitLatch with a timeout
PollStop(p) ==
  /\ pc[p] \in {"stop locked", "stop waits"} /\ ~Stopped(target[p])
  /\ UNCHANGED vars

----------------------------------------------------------------------------
\* The end of a transaction: omni_xact_callback_hook and on_xact_dealloc

\* A transaction event with callbacks waiting: they are to be run, with the
\* event, when the memory of the transaction goes.
OnEvent(p, event) ==
  events' = [events EXCEPT ![p] = IF requests[p] = <<>> THEN <<>> ELSE <<event>> \o @]

PreCommit(p) ==
  /\ pc[p] = "open"
  /\ OnEvent(p, "pre-commit")
  /\ Goto(p, "pre-commit")
  /\ UNCHANGED <<control, lock, handle, requests, target, terminate, counters>>

Commit(p) ==
  /\ pc[p] = "pre-commit"
  /\ OnEvent(p, "commit")
  /\ Goto(p, "dealloc")
  /\ UNCHANGED <<control, lock, handle, requests, target, terminate, counters>>

\* A rollback, or an error before or during the commit
Abort(p) ==
  /\ p \in Backends
  /\ pc[p] \in {"open", "pre-commit"}
  /\ OnEvent(p, "abort")
  /\ Note("abort", requests[p] # <<>>)
  /\ Goto(p, "dealloc")
  /\ UNCHANGED <<control, lock, handle, requests, target, terminate, calls, failures>>

do_start_bgworker(p) ==
  /\ pc[p] = "dealloc" /\ requests[p] # <<>> /\ Head(events[p]) = "commit"
  /\ Head(requests[p]).op = "start"
  /\ Register(p, "start waits")
  /\ UNCHANGED <<control, lock, handle, requests, events, terminate, calls>>

\* The uninitialised handle is a pointer too: where it leads nowhere, reading it ends
\* the process, and the postmaster starts the server anew.
RegisterCrashes(p) ==
  /\ \/ pc[p] = "start now" /\ lock = Free /\ MayStart
     \/ /\ pc[p] = "dealloc" /\ requests[p] # <<>> /\ Head(events[p]) = "commit"
        /\ Head(requests[p]).op = "start"
  /\ failures < MaxFailures /\ failures' = failures + 1
  /\ should_start' = TRUE /\ started' = FALSE /\ lock' = Free /\ handle' = NoMaster
  /\ pc' = [q \in Processes |-> IF q \in Backends THEN "new"
                                ELSE IF pc[q] = "none" THEN "none" ELSE "gone"]
  /\ requests' = [q \in Processes |-> <<>>] /\ events' = [q \in Processes |-> <<>>]
  /\ target' = [q \in Processes |-> NoMaster]
  /\ UNCHANGED <<terminate, calls, mishaps>>

Pop(p) == requests' = [requests EXCEPT ![p] = Tail(@)]

StartDone(p) ==
  /\ pc[p] = "start waits"
  /\ StartupSeen(p)
  /\ Pop(p) /\ Goto(p, "dealloc")
  /\ UNCHANGED <<control, lock, events, target, terminate, counters>>

do_stop_bgworker(p) ==
  /\ pc[p] = "dealloc" /\ requests[p] # <<>> /\ Head(events[p]) = "commit"
  /\ Head(requests[p]).op = "stop"
  /\ target' = [target EXCEPT ![p] = Head(requests[p]).handle]
  /\ terminate' = terminate \union ({Head(requests[p]).handle} \ {NoMaster})
  /\ Goto(p, "stop waits")
  /\ UNCHANGED <<control, lock, handle, requests, events, counters>>

StopDone(p) ==
  /\ pc[p] = "stop waits" /\ Stopped(target[p])
  /\ Pop(p) /\ Goto(p, "dealloc")
  /\ UNCHANGED <<control, lock, handle, events, target, terminate, counters>>

\* Nothing is left to do, or the transaction was aborted.
on_xact_dealloc(p) ==
  /\ pc[p] = "dealloc"
  /\ requests[p] # <<>> => Head(events[p]) # "commit"
  /\ requests' = [requests EXCEPT ![p] = <<>>]
  /\ events' = [events EXCEPT ![p] = <<>>]
  /\ Goto(p, "idle")
  /\ UNCHANGED <<control, lock, handle, target, terminate, counters>>

----------------------------------------------------------------------------
\* The postmaster starts a registered worker, or forgets it.
Launch(m) ==
  /\ pc[m] = "registered"
  /\ Goto(m, IF m \in terminate THEN "gone" ELSE "new")
  /\ UNCHANGED <<control, lock, handle, requests, events, target, terminate, counters>>

\* Mutant: SIGTERM is not looked at
MasterStays(m) ==
  /\ m \in terminate /\ pc[m] = "idle"
  /\ UNCHANGED vars

\* SIGTERM sets a flag; master_worker looks at it once it is initialised.
MasterExit(m) ==
  /\ m \in terminate /\ pc[m] = "idle"
  /\ Goto(m, "gone")
  /\ UNCHANGED <<control, lock, handle, requests, events, target, terminate, counters>>

\* An error ends the master with exit code 1; BGW_NEVER_RESTART.
MasterFails(m) ==
  /\ pc[m] = "idle" /\ failures < MaxFailures
  /\ failures' = failures + 1
  /\ Note("failure", TRUE)
  /\ Goto(m, "gone")
  /\ UNCHANGED <<control, lock, handle, requests, events, target, terminate, calls>>

----------------------------------------------------------------------------
Call(p) ==
  \/ \E t \in {"immediately", "after commit"} : start(p, t)
  \/ StopLater(p) \/ StopNothing(p) \/ StopNow(p)

\* What goes on by itself
Proceed(p) ==
  \/ _Omni_init(p) \/ StartLater(p) \/ StartNothing(p) \/ StartNow(p) \/ StartedNow(p)
  \/ StoppedNow(p) \/ Commit(p) \/ do_start_bgworker(p) \/ StartDone(p)
  \/ do_stop_bgworker(p) \/ StopDone(p) \/ on_xact_dealloc(p)

MasterStep(m) == Launch(m) \/ MasterExit(m)

\* Nobody is between two steps of a start or a stop.
Quiet ==
  /\ \A p \in Processes : pc[p] \in {"none", "idle", "gone"}
  /\ \A m \in terminate : pc[m] = "gone"

Idle == Quiet /\ calls = MaxCalls /\ UNCHANGED vars

Next ==
  \/ \E p \in Backends : Call(p) \/ Abort(p)
  \/ \E p \in Processes : Proceed(p) \/ PreCommit(p) \/ PollStop(p) \/ RegisterCrashes(p)
  \/ \E m \in Masters : MasterStep(m) \/ MasterFails(m)
  \/ Idle

Spec == Init /\ [][Next]_vars

\* Processes go on, and the postmaster does; a master commits its first
\* transaction.  Nobody has to call, and a user need not end a transaction.
FairSpec ==
  /\ Spec
  /\ \A p \in Processes : WF_vars(Proceed(p))
  /\ \A m \in Masters : WF_vars(MasterStep(m)) /\ WF_vars(PreCommit(m))

----------------------------------------------------------------------------
(* Properties                                                              *)

Alive == {m \in Masters : pc[m] \notin {"none", "gone"} /\ m \notin terminate}

\* There is "a master worker" (omni_httpd/docs/architecture.md): two processes
\* that start it, or a start that follows a stop, never leave two behind, as long
\* as no call is rolled back or made while another one waits for its commit.
AtMostOneMaster == mishaps \cap {"abort", "overlap"} = {} => Cardinality(Alive) <= 1

\* Once everything that was asked for is done, stop() has stopped the server
\* (omni_httpd/docs/intro.md): no master is left that should not be there; and
\* the flag started and the handle tell the truth about the master, if moreover
\* no master has failed to start or ended with an error.
FlagsTruthful ==
  Quiet /\ mishaps \cap {"abort", "overlap"} = {} =>
    /\ ~should_start => Alive = {}
    /\ "failure" \notin mishaps => (started <=> Alive # {}) /\ Alive \subseteq {handle}

\* A call that starts or stops the server returns, unless it stops a master that
\* has not yet loaded the module.
CallsReturn ==
  \A p \in Backends :
    (pc[p] \in {"start now", "start later", "start locked", "stop locked", "start waits",
                "stop waits"}) ~> (pc[p] \in {"open", "idle"} \/ "early stop" \in mishaps)
============================================================================
