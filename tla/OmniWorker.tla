----------------------------- MODULE OmniWorker -----------------------------
(***************************************************************************)
(* The worker pool of omni_worker: a message queue in shared memory         *)
(* (oink.hpp), the processes that take messages from it (worker in          *)
(* omni_worker.cpp) and the two handlers it comes with, for statements and  *)
(* for timers (handlers.cpp).                                              *)
(*                                                                         *)
(* A worker has three threads.  The receiver takes a message, posts it to   *)
(* the main thread and waits for it; one that is not accepted goes back to  *)
(* the end of the queue.  The main thread runs tasks in order.  The timer   *)
(* thread (timer_runner) waits for timers and sends a message when one has  *)
(* expired, to be executed by any worker.                                  *)
(*                                                                         *)
(* The queue outlives the server: a restart loses the processes, the timers *)
(* and the counter of their numbers, not the messages.                      *)
(***************************************************************************)
EXTENDS Integers, Sequences, FiniteSets

CONSTANTS
  Workers, leader,     \* processes, and the one that runs autostart statements
  Calls, Functions,    \* calls, and which of "sql", "after", "cancel" each can be
  Role,                \* the role each call runs as
  Cancellable,         \* numbers of timers that are asked to be cancelled
  None,                \* no message, call or timer
  Capacity,            \* messages the queue holds
  MaxEvents            \* bound on changes of the table of handlers, interrupts,
                       \* errors of autostart, deaths of workers and restarts

Handlers == {"sql", "timer"}

VARIABLES
  mq,                  \* the queue
  kind, reply, ready,  \* what a call's message is, what it answers, its semaphore
  pc, result,          \* where the call is, what it returned
  interrupted,         \* SIGINT came while it waited
  table, pending, session, reload_upon_commit,   \* omni_worker.handlers
  handlers,            \* the handlers each worker has loaded
  received,            \* the message its receiver has taken
  receiver,            \* where its receiver is
  tasks, main,         \* tasks of its main thread, and where that is in the first
  timers, armed,       \* its timers, and those that have not expired
  firing,              \* the timer whose expiry its timer thread has to report
  timer_id, done,      \* shared memory of the server
  runs, outcome,       \* history: how often a call's work ran, how a statement ended
  removed,             \* history: what a timer was when it was cancelled
  lost,                \* history: calls whose work was dropped or died
  autostarts,          \* history: how often autostart statements were committed
  events

calls == <<kind, reply, ready, pc, result, interrupted>>
catalog == <<table, pending, session, reload_upon_commit>>
threads == <<received, receiver, tasks, main>>
clocks == <<timers, armed, firing>>
shmem == <<timer_id, done>>
history == <<runs, outcome, removed, lost, autostarts>>
vars == <<mq, calls, catalog, handlers, threads, clocks, shmem, history, events>>

Sql(c) == [kind |-> "sql", call |-> c]
After(c) == [kind |-> "after", call |-> c]
Execute(t) == [kind |-> "execute", call |-> t.call, id |-> t.id]
Cancel(c, i, r) == [kind |-> "cancel", call |-> c, id |-> i, role |-> r]
Reload == [kind |-> "reload"]

HandlerOf(m) == IF m.kind = "sql" THEN "sql" ELSE "timer"

Init ==
  /\ mq = <<>>
  /\ kind = [c \in Calls |-> "none"]
  /\ reply = [c \in Calls |-> 0]
  /\ ready = [c \in Calls |-> 0]
  /\ pc = [c \in Calls |-> "start"]
  /\ result = [c \in Calls |-> None]
  /\ interrupted = [c \in Calls |-> FALSE]
  /\ table = Handlers /\ pending = Handlers /\ session = "idle"
  /\ reload_upon_commit = FALSE
  /\ handlers = [w \in Workers |-> {}]
  /\ received = [w \in Workers |-> None]
  /\ receiver = [w \in Workers |-> "off"]
  /\ tasks = [w \in Workers |-> <<Reload>>]
  /\ main = [w \in Workers |-> "next"]
  /\ timers = [w \in Workers |-> {}]
  /\ armed = [w \in Workers |-> {}]
  /\ firing = [w \in Workers |-> None]
  /\ timer_id = 0 /\ done = FALSE
  /\ runs = [c \in Calls |-> 0]
  /\ outcome = [c \in Calls |-> "none"]
  /\ removed = [c \in Calls |-> "no"]
  /\ lost = {}
  /\ autostarts = 0
  /\ events = 0

Event == events < MaxEvents /\ events' = events + 1

----------------------------------------------------------------------------
(* oink::sender                                                            *)

\* A sender waits while the queue is full.  Memory for the message is taken to be
\* there.
Send(m) ==
  /\ Len(mq) < Capacity
  /\ mq' = Append(mq, m)

----------------------------------------------------------------------------
(* Sessions: the functions sql, timer_after and timer_cancel                *)

\* The message is sent; k says what it is, r what it answers as yet.
Call(c, k, m, r) ==
  /\ pc[c] = "start" /\ k \in Functions[c]
  /\ Send(m)
  /\ kind' = [kind EXCEPT ![c] = k]
  /\ reply' = [reply EXCEPT ![c] = r]
  /\ UNCHANGED <<ready, interrupted, catalog, handlers, threads, clocks, shmem, history, events>>

\* rc is 0 to begin with; only a call with wait_ms waits.
sql(c) ==
  /\ Call(c, "sql", Sql(c), 0)
  /\ pc' \in {[pc EXCEPT ![c] = "wait"], [pc EXCEPT ![c] = "end"]}
  /\ UNCHANGED result

timer_after(c) ==
  /\ Call(c, "after", After(c), 0)
  /\ pc' = [pc EXCEPT ![c] = "wait"]
  /\ UNCHANGED result

\* Any number can be given.  The answer is 0, false, or 1, true.
timer_cancel(c) ==
  /\ \E i \in Cancellable : Call(c, "cancel", Cancel(c, i, Role[c]), 0)
  /\ pc' = [pc EXCEPT ![c] = "wait"]
  /\ UNCHANGED result

\* timed_wait is over: the semaphore was posted, or the time is up and the
\* result is null.
Return(c) ==
  /\ pc[c] = "wait"
  /\ pc' = [pc EXCEPT ![c] = "end"]
  /\ IF ready[c] > 0
     THEN /\ ready' = [ready EXCEPT ![c] = @ - 1]
          /\ result' = [result EXCEPT ![c] = reply[c]]
     ELSE UNCHANGED <<ready, result>>
  /\ UNCHANGED <<mq, kind, reply, interrupted, catalog, handlers, threads, clocks, shmem,
                 history, events>>

\* SIGINT posts the semaphore.
Interrupt(c) ==
  /\ pc[c] = "wait" /\ Event
  /\ ready' = [ready EXCEPT ![c] = @ + 1]
  /\ interrupted' = [interrupted EXCEPT ![c] = TRUE]
  /\ UNCHANGED <<mq, kind, reply, pc, result, catalog, handlers, threads, clocks, shmem, history>>

----------------------------------------------------------------------------
(* Sessions: the table of handlers                                         *)

\* A statement changes the table; its trigger is reload_handlers.
reload_handlers ==
  /\ session = "idle" /\ Event
  /\ pending' \in {{"timer"}, Handlers} \ {table}
  /\ session' = "changed"
  /\ reload_upon_commit' = TRUE
  /\ UNCHANGED <<mq, calls, table, handlers, threads, clocks, shmem, history>>

\* The flag is left to the next transaction.
Abort ==
  /\ session = "changed"
  /\ pending' = table
  /\ session' = "idle"
  /\ UNCHANGED <<mq, calls, table, reload_upon_commit, handlers, threads, clocks, shmem,
                 history, events>>

Commit ==
  /\ session = "changed" \/ (session = "idle" /\ reload_upon_commit)
  /\ table' = pending
  /\ session' = "committed"
  /\ UNCHANGED <<mq, calls, pending, reload_upon_commit, handlers, threads, clocks,
                 shmem, history, events>>

\* The transaction hook, when others see what was committed
XactCallback ==
  /\ session = "committed"
  /\ Send(Reload)
  /\ reload_upon_commit' = FALSE
  /\ session' = "idle"
  /\ UNCHANGED <<calls, table, pending, handlers, threads, clocks, shmem, history,
                 events>>

----------------------------------------------------------------------------
(* The receiver thread                                                     *)

Lose(m) == lost' = IF m.kind \in {"sql", "after", "execute"} THEN lost \union {m.call} ELSE lost

\* A message is posted to the main thread, or dropped when nobody handles it.
Receive(w) ==
  /\ receiver[w] = "on" /\ mq # <<>>
  /\ mq' = Tail(mq)
  /\ LET m == Head(mq) IN
     IF m.kind = "reload" \/ HandlerOf(m) \in handlers[w]
     THEN /\ received' = [received EXCEPT ![w] = m]
          /\ receiver' = [receiver EXCEPT ![w] = "get"]
          /\ tasks' = [tasks EXCEPT ![w] = Append(@, m)]
          /\ UNCHANGED lost
     ELSE /\ Lose(m)
          /\ UNCHANGED <<received, receiver, tasks>>
  /\ UNCHANGED <<calls, catalog, handlers, main, clocks, shmem, runs, outcome, removed, autostarts,
                 events>>

\* Mutant: the worker tries the message again by itself
ResendKeeps(w) ==
  /\ receiver[w] = "resend"
  /\ receiver' = [receiver EXCEPT ![w] = "get"]
  /\ tasks' = [tasks EXCEPT ![w] = Append(@, received[w])]
  /\ UNCHANGED <<mq, calls, catalog, handlers, received, main, clocks, shmem, history, events>>

\* A message that was not accepted is sent again.
Resend(w) ==
  /\ receiver[w] = "resend"
  /\ Send(received[w])
  /\ received' = [received EXCEPT ![w] = None]
  /\ receiver' = [receiver EXCEPT ![w] = "on"]
  /\ UNCHANGED <<calls, catalog, handlers, tasks, main, clocks, shmem, history, events>>

----------------------------------------------------------------------------
(* The main thread                                                         *)

Task(w, k) ==
  /\ main[w] = "next" /\ tasks[w] # <<>>
  /\ Head(tasks[w]).kind = k

\* The task is over; the receiver, if it waits for it, goes on.
Finish(w, accepted) ==
  /\ tasks' = [tasks EXCEPT ![w] = Tail(@)]
  /\ main' = [main EXCEPT ![w] = "next"]
  /\ receiver' = [receiver EXCEPT ![w] = IF accepted THEN "on" ELSE "resend"]
  /\ received' = [received EXCEPT ![w] = IF accepted THEN None ELSE @]

\* Mutant: nobody looks whether they are done
AutostartsAgain(w) == w = leader /\ "sql" \in table \ handlers[w]

\* init_sql has the leader run autostart statements when it loads the handler,
\* unless they are done.
Autostarts(w) == w = leader /\ "sql" \in table \ handlers[w] /\ ~done

\* do_reload, without autostart statements or when they cannot be read.  The first
\* one is followed by the start of the receiver.
DoReload(w) ==
  /\ Task(w, "reload")
  /\ IF Autostarts(w) THEN Event ELSE UNCHANGED events
  /\ handlers' = [handlers EXCEPT ![w] = table]
  /\ Finish(w, TRUE)
  /\ UNCHANGED <<mq, calls, catalog, clocks, shmem, history>>

\* The table is read before the statements run.  What was read takes effect at the
\* end of do_reload, and nobody looks before that: the receiver is off or waits.
InitSql(w) ==
  /\ Task(w, "reload") /\ Autostarts(w)
  /\ done' = TRUE
  /\ handlers' = [handlers EXCEPT ![w] = table]
  /\ main' = [main EXCEPT ![w] = "started"]
  /\ UNCHANGED <<mq, calls, catalog, received, receiver, tasks, clocks, timer_id, history, events>>

\* They are committed with the transaction of do_reload.
AutostartCommit(w) ==
  /\ main[w] = "started"
  /\ autostarts' = autostarts + 1
  /\ Finish(w, TRUE)
  /\ UNCHANGED <<mq, calls, catalog, handlers, clocks, shmem, runs, outcome, removed, lost, events>>

\* Nobody looks at the semaphore of a call that has returned.
Post(c) == ready' = [ready EXCEPT ![c] = IF pc[c] = "wait" THEN @ + 1 ELSE @]

\* Mutant: rc stays 0
SqlRunNoRc(w) ==
  /\ Task(w, "sql")
  /\ LET c == Head(tasks[w]).call IN
     \E o \in {"committed", "failed"} :
       /\ runs' = [runs EXCEPT ![c] = @ + 1]
       /\ outcome' = [outcome EXCEPT ![c] = o]
  /\ main' = [main EXCEPT ![w] = "ran"]
  /\ UNCHANGED <<mq, calls, catalog, handlers, received, receiver, tasks, clocks, shmem, removed,
                 lost, autostarts, events>>

\* sql_handler, up to the end of the transaction
SqlRun(w) ==
  /\ Task(w, "sql")
  /\ LET c == Head(tasks[w]).call IN
     \E o \in {"committed", "failed"} :
       /\ runs' = [runs EXCEPT ![c] = @ + 1]
       /\ outcome' = [outcome EXCEPT ![c] = o]
       /\ reply' = [reply EXCEPT ![c] = IF o = "failed" THEN -1 ELSE @]
  /\ main' = [main EXCEPT ![w] = "ran"]
  /\ UNCHANGED <<mq, kind, ready, pc, result, interrupted, catalog, handlers, received, receiver,
                 tasks, clocks, shmem, removed, lost, autostarts, events>>

\* Mutant: a message whose statement failed is not accepted
SqlPostRetries(w) ==
  /\ main[w] = "ran"
  /\ Post(Head(tasks[w]).call)
  /\ Finish(w, outcome[Head(tasks[w]).call] = "committed")
  /\ UNCHANGED <<mq, kind, reply, pc, result, interrupted, catalog, handlers, clocks, shmem,
                 history, events>>

\* "Ensure we post _after_ we commit"
SqlPost(w) ==
  /\ main[w] = "ran"
  /\ Post(Head(tasks[w]).call)
  /\ Finish(w, TRUE)
  /\ UNCHANGED <<mq, kind, reply, pc, result, interrupted, catalog, handlers, clocks, shmem,
                 history, events>>

\* The timer thread, unless it is busy, numbers and registers a timer.
TimerAfter(w) ==
  /\ Task(w, "after") /\ firing[w] = None
  /\ LET c == Head(tasks[w]).call
         t == [id |-> timer_id, call |-> c]
     IN /\ reply' = [reply EXCEPT ![c] = timer_id]
        /\ timers' = [timers EXCEPT ![w] = {u \in @ : u.id # t.id} \union {t}]
        /\ armed' = [armed EXCEPT ![w] = @ \union {t}]
        /\ Post(c)
  /\ timer_id' = timer_id + 1
  /\ Finish(w, TRUE)
  /\ UNCHANGED <<mq, kind, pc, result, interrupted, catalog, handlers, firing, done, history,
                 events>>

\* cancel_timer: only this worker's timers, and only their owners'
Cancelled(w, m) == {t \in timers[w] : t.id = m.id /\ Role[t.call] = m.role}

\* Mutant: the timer is forgotten but goes on
TimerCancelForgets(w) ==
  /\ Task(w, "cancel") /\ firing[w] = None
  /\ LET m == Head(tasks[w])
         ts == Cancelled(w, m)
     IN /\ timers' = [timers EXCEPT ![w] = @ \ ts]
        /\ removed' = [c \in Calls |->
             IF \E t \in ts : t \in armed[w] /\ t.call = c THEN "armed" ELSE removed[c]]
        /\ Finish(w, ts # {})
  /\ UNCHANGED <<mq, calls, catalog, handlers, armed, firing, shmem, runs, outcome, lost,
                 autostarts, events>>

TimerCancel(w) ==
  /\ Task(w, "cancel") /\ firing[w] = None
  /\ LET m == Head(tasks[w])
         ts == Cancelled(w, m)
     IN /\ timers' = [timers EXCEPT ![w] = @ \ ts]
        /\ armed' = [armed EXCEPT ![w] = @ \ ts]
        /\ IF ts # {} /\ m.call # None
           THEN reply' = [reply EXCEPT ![m.call] = 1] /\ Post(m.call)
           ELSE UNCHANGED <<reply, ready>>
        /\ removed' = [c \in Calls |->
             IF \E t \in ts : t.call = c
             THEN IF \E t \in ts : t \in armed[w] /\ t.call = c THEN "armed" ELSE "expired"
             ELSE removed[c]]
        /\ Finish(w, ts # {})
  /\ UNCHANGED <<mq, kind, pc, result, interrupted, catalog, handlers, firing, shmem, runs,
                 outcome, lost, autostarts, events>>

\* The message is accepted at once; a task is posted that executes it.
TimerExecute(w) ==
  /\ Task(w, "execute")
  /\ tasks' = [tasks EXCEPT ![w] = Append(Tail(@), [Head(@) EXCEPT !.kind = "run"])]
  /\ received' = [received EXCEPT ![w] = None]
  /\ receiver' = [receiver EXCEPT ![w] = "on"]
  /\ UNCHANGED <<mq, calls, catalog, handlers, main, clocks, shmem, history, events>>

\* That task first asks whoever has the timer to forget it.
ExecuteCancel(w) ==
  /\ Task(w, "run")
  /\ LET m == Head(tasks[w]) IN Send(Cancel(None, m.id, Role[m.call]))
  /\ main' = [main EXCEPT ![w] = "call"]
  /\ UNCHANGED <<calls, catalog, handlers, received, receiver, tasks, clocks, shmem, history,
                 events>>

\* Then it calls the function, whose outcome nobody waits for.
ExecuteRun(w) ==
  /\ main[w] = "call"
  /\ runs' = [runs EXCEPT ![Head(tasks[w]).call] = @ + 1]
  /\ tasks' = [tasks EXCEPT ![w] = Tail(@)]
  /\ main' = [main EXCEPT ![w] = "next"]
  /\ UNCHANGED <<mq, calls, catalog, handlers, received, receiver, clocks, shmem, outcome, removed,
                 lost, autostarts, events>>

----------------------------------------------------------------------------
(* The timer thread                                                        *)

Expire(w) ==
  /\ firing[w] = None
  /\ \E t \in armed[w] :
       /\ armed' = [armed EXCEPT ![w] = @ \ {t}]
       /\ firing' = [firing EXCEPT ![w] = t]
  /\ UNCHANGED <<mq, calls, catalog, handlers, threads, timers, shmem, history, events>>

\* The timer stays registered.
Fire(w) ==
  /\ firing[w] # None
  /\ Send(Execute(firing[w]))
  /\ firing' = [firing EXCEPT ![w] = None]
  /\ UNCHANGED <<calls, catalog, handlers, threads, timers, armed, shmem, history, events>>

----------------------------------------------------------------------------
(* Faults                                                                  *)

\* The work a worker has taken or is to begin when it ends
Working(w) ==
  {tasks[w][i].call : i \in {j \in DOMAIN tasks[w] :
                               tasks[w][j].kind \in {"sql", "after", "execute", "run"}}}
  \union {t.call : t \in armed[w]}
  \union (IF firing[w] = None THEN {} ELSE {firing[w].call})

\* Processes end and are started again; receivers start when handlers are loaded.
Processes(W) ==
  /\ handlers' = [w \in Workers |-> IF w \in W THEN {} ELSE handlers[w]]
  /\ received' = [w \in Workers |-> IF w \in W THEN None ELSE received[w]]
  /\ receiver' = [w \in Workers |-> IF w \in W THEN "off" ELSE receiver[w]]
  /\ tasks' = [w \in Workers |-> IF w \in W THEN <<Reload>> ELSE tasks[w]]
  /\ main' = [w \in Workers |-> IF w \in W THEN "next" ELSE main[w]]
  /\ timers' = [w \in Workers |-> IF w \in W THEN {} ELSE timers[w]]
  /\ armed' = [w \in Workers |-> IF w \in W THEN {} ELSE armed[w]]
  /\ firing' = [w \in Workers |-> IF w \in W THEN None ELSE firing[w]]
  /\ lost' = lost \union UNION {Working(w) : w \in W}

\* One worker is terminated; the postmaster starts it again.
Terminate(w) ==
  /\ Event
  /\ Processes({w})
  /\ UNCHANGED <<mq, calls, catalog, shmem, runs, outcome, removed, autostarts>>

\* The server restarts, on request or because a worker ended in an error, for
\* example when a transaction fails to commit.  Sessions end; shared memory is
\* new, the queue is not.
Restart ==
  /\ Event
  /\ Processes(Workers)
  /\ pc' = [c \in Calls |-> IF pc[c] = "wait" THEN "end" ELSE pc[c]]
  /\ pending' = table /\ session' = "idle" /\ reload_upon_commit' = FALSE
  /\ timer_id' = 0 /\ done' = FALSE
  /\ autostarts' = 0
  /\ UNCHANGED <<mq, kind, reply, ready, result, interrupted, table, runs, outcome,
                 removed>>

----------------------------------------------------------------------------
Receiver(w) == Receive(w) \/ Resend(w)

Main(w) ==
  \/ DoReload(w) \/ InitSql(w) \/ AutostartCommit(w) \/ SqlRun(w) \/ SqlPost(w)
  \/ TimerAfter(w) \/ TimerCancel(w) \/ TimerExecute(w) \/ ExecuteCancel(w) \/ ExecuteRun(w)

Timer(w) == Expire(w) \/ Fire(w)

\* A worker whose receiver cannot take a message before there is room in the
\* queue: it sends one again, or it waits for a main thread that sends one or that
\* waits for a timer thread that does.
Blocked(w) ==
  \/ receiver[w] = "resend"
  \/ /\ receiver[w] = "get" /\ main[w] = "next"
     /\ \/ Head(tasks[w]).kind = "run"
        \/ Head(tasks[w]).kind \in {"after", "cancel"} /\ firing[w] # None

\* All workers wait for room in the queue, which nobody can make any more.
Jammed == Len(mq) = Capacity /\ \A w \in Workers : Blocked(w)

\* Workers wait for messages or for room.
Idle ==
  /\ Jammed \/ (mq = <<>> /\ \A w \in Workers : receiver[w] = "on" /\ tasks[w] = <<>>)
  /\ UNCHANGED vars

Next ==
  \/ \E c \in Calls :
       sql(c) \/ timer_after(c) \/ timer_cancel(c) \/ Return(c) \/ Interrupt(c)
  \/ reload_handlers \/ Abort \/ Commit \/ XactCallback
  \/ \E w \in Workers : Receiver(w) \/ Main(w) \/ Timer(w) \/ Terminate(w)
  \/ Restart
  \/ Idle

Spec == Init /\ [][Next]_vars

\* The threads of workers keep running and time passes.  Receivers compete for
\* messages and need only be fair together; a thread that sends one gets its turn
\* if there is room again and again.  Nobody has to call, and nothing has to fail.
FairSpec ==
  /\ Spec
  /\ WF_vars(\E w \in Workers : Receiver(w))
  /\ \A w \in Workers : SF_vars(Main(w)) /\ SF_vars(Timer(w))

----------------------------------------------------------------------------
(* Properties                                                              *)

\* What sql returns is true only when its statement has been committed and false
\* only when it has failed, unless the caller was interrupted: sql_handler posts
\* the semaphore when the transaction is over.
AnswerHonest ==
  \A c \in Calls :
    kind[c] = "sql" /\ result[c] # None /\ ~interrupted[c] =>
      outcome[c] = (IF result[c] = 0 THEN "committed" ELSE "failed")

\* A statement, and the function of a timer, is run once at most, whichever
\* workers its messages go through, die with or are sent again by.
RunsOnce == \A c \in Calls : runs[c] <= 1

\* A timer that cancel_timer has removed before it expired never runs.  (One that
\* has expired is still registered for a while: timer_cancel then returns true and
\* the function runs all the same.)
CancelStops == \A c \in Calls : removed[c] = "armed" => runs[c] = 0

\* The autostart statements take effect once, however often the leader is
\* terminated and its handlers are reloaded.
AutostartOnce == autostarts <= 1

\* What a call has asked for is done: its statement is run, its timer expires and
\* its function is run, by whichever worker, though messages that nobody accepts
\* go round in the queue.  Otherwise the timer was cancelled, a worker died with
\* it or had no handler for it, or the queue is full of such messages.
WorkDone ==
  \A c \in {d \in Calls : Functions[d] # {"cancel"}} :
    [](kind[c] \in {"sql", "after"} =>
         <>(runs[c] > 0 \/ removed[c] # "no" \/ c \in lost \/ Jammed))
============================================================================
