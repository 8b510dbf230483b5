---------------------------- MODULE HttpdThreads ----------------------------
(***************************************************************************)
(* The two threads of one HTTP worker of omni_httpd: the main thread, which *)
(* reloads the configuration and calls handlers (http_worker.c), and the    *)
(* event loop thread, which talks to clients (event_loop.c).                *)
(*                                                                         *)
(* The main thread resumes the event loop with event_loop_suspended and a   *)
(* condition variable, and before a reload it waits until the event loop    *)
(* says that it has stopped, with event_loop_resumed and another one.       *)
(* Signals run in the main thread.  What a critical section of             *)
(* event_loop_mutex does is one step; accesses outside of it are steps of   *)
(* their own.  The mutexes of the two queues of messages are held over a    *)
(* step by the main thread only, because signals can come while it does.    *)
(***************************************************************************)
EXTENDS Integers

CONSTANTS
  MaxSignals,    \* bound on SIGUSR2 and SIGTERM
  MaxRequests    \* bound on requests

ASSUME ConstantsAssumption == MaxSignals \in Nat /\ MaxRequests \in Nat

VARIABLES
  worker_running, worker_reload,
  event_loop_suspended, event_loop_resumed,
  main,                              \* where the main thread is
  loop,                              \* where the event loop thread is
  handler_queue,                     \* number of requests for the main thread
  handler_awake, event_loop_awake,   \* an empty or another message wakes the thread
  signals, requests                  \* counters for the bounds

flags == <<worker_running, worker_reload>>
suspension == <<event_loop_suspended, event_loop_resumed>>
queues == <<handler_queue, handler_awake, event_loop_awake>>
counters == <<signals, requests>>
vars == <<flags, suspension, main, loop, queues, counters>>

\* The event loop may use listeners and connections.
Looping == {"check", "poll", "stop", "end"}

Init ==
  /\ worker_running = TRUE /\ worker_reload = TRUE
  /\ event_loop_suspended = TRUE /\ event_loop_resumed = FALSE
  /\ main = "top" /\ loop = "top"
  /\ handler_queue = 0 /\ handler_awake = FALSE /\ event_loop_awake = FALSE
  /\ signals = 0 /\ requests = 0

----------------------------------------------------------------------------
(* Signals                                                                 *)

\* The main thread has the mutex of a queue.
HoldsHandlerQueue == main \in {"taking", "stuck taking"}
HoldsEventLoopQueue == main \in {"sending", "stuck sending"}

\* A signal ends the wait for events with EINTR, if that has begun.
Interrupt == main' \in IF main = "poll" THEN {"poll", "check"} ELSE {main}

\* An empty message is sent to the event loop, then one to the main thread: the
\* thread that is interrupted while it has the mutex of a queue waits for itself.
WakeBoth ==
  \/ /\ ~HoldsEventLoopQueue /\ ~HoldsHandlerQueue
     /\ event_loop_awake' = TRUE /\ handler_awake' = TRUE
     /\ Interrupt
  \/ /\ HoldsHandlerQueue
     /\ event_loop_awake' = TRUE /\ main' = "stuck taking"
     /\ UNCHANGED handler_awake
  \/ /\ HoldsEventLoopQueue
     /\ main' = "stuck sending"
     /\ UNCHANGED <<event_loop_awake, handler_awake>>

sigusr2 ==
  /\ main # "exit" /\ signals < MaxSignals
  /\ worker_reload' = TRUE
  /\ signals' = signals + 1
  /\ WakeBoth
  /\ UNCHANGED <<worker_running, suspension, loop, handler_queue, requests>>

\* Mutant: only the event loop is woken
SigtermLoopOnly ==
  /\ main # "exit" /\ worker_running /\ signals < MaxSignals
  /\ worker_running' = FALSE
  /\ signals' = signals + 1
  /\ event_loop_awake' = TRUE
  /\ Interrupt
  /\ UNCHANGED <<worker_reload, suspension, loop, handler_queue, handler_awake, requests>>

sigterm ==
  /\ main # "exit" /\ worker_running /\ signals < MaxSignals
  /\ worker_running' = FALSE
  /\ signals' = signals + 1
  /\ WakeBoth
  /\ UNCHANGED <<worker_reload, suspension, loop, handler_queue, requests>>

----------------------------------------------------------------------------
(* http_worker, its main loop                                              *)

\* The flag is taken, or there is no reload.
MainTop ==
  /\ main = "top"
  /\ main' = IF ~worker_running THEN "exit"
             ELSE IF worker_reload THEN "reload" ELSE "resume"
  /\ worker_reload' = (worker_reload /\ ~worker_running)
  /\ UNCHANGED <<worker_running, suspension, loop, queues, counters>>

\* Listeners are disposed of and set up; when the table cannot be locked or
\* no sockets come, the loop is continued instead.
MainReload ==
  /\ main = "reload"
  /\ main' \in {"resume", "top"}
  /\ UNCHANGED <<flags, suspension, loop, queues, counters>>

\* Outside of the critical section
MainResume ==
  /\ main = "resume"
  /\ event_loop_suspended' = FALSE
  /\ main' = "signal"
  /\ UNCHANGED <<flags, event_loop_resumed, loop, queues, counters>>

MainSignal ==
  /\ main = "signal"
  /\ loop' = IF loop = "waiting" THEN "suspend" ELSE loop
  /\ main' = "check"
  /\ UNCHANGED <<flags, suspension, queues, counters>>

MainCheck ==
  /\ main = "check"
  /\ main' = IF worker_running /\ ~worker_reload THEN "poll" ELSE "ack"
  /\ UNCHANGED <<flags, suspension, loop, queues, counters>>

\* Mutant: requests do not wake the thread
MainPollAwake ==
  /\ main = "poll" /\ handler_awake
  /\ main' = "taking"
  /\ handler_awake' = FALSE
  /\ UNCHANGED <<flags, suspension, loop, handler_queue, event_loop_awake, counters>>

\* h2o_evloop_run finds that something has come (queue_cb): it locks the queue, ...
MainPoll ==
  /\ main = "poll" /\ (handler_awake \/ handler_queue > 0)
  /\ main' = "taking"
  /\ handler_awake' = FALSE
  /\ UNCHANGED <<flags, suspension, loop, handler_queue, event_loop_awake, counters>>

\* ... and handles it until nothing is left.  Then it returns 0: that leaves the
\* loop, with the flags as they were read before.
MainTake ==
  /\ main = "taking"
  /\ main' = IF handler_queue > 0 THEN "handle" ELSE "top"
  /\ UNCHANGED <<flags, suspension, loop, queues, counters>>

\* A handler has an outcome, and locks the queue of the event loop, ...
MainSend ==
  /\ main = "handle"
  /\ main' = "sending"
  /\ UNCHANGED <<flags, suspension, loop, queues, counters>>

\* ... which is woken.  Nothing is sent when there is nobody left to answer.
MainHandle ==
  /\ main \in {"handle", "sending"}
  /\ handler_queue' = handler_queue - 1
  /\ event_loop_awake' = (event_loop_awake \/ main = "sending")
  /\ main' = IF handler_queue' > 0 THEN "handle" ELSE "taking"
  /\ UNCHANGED <<flags, suspension, loop, handler_awake, counters>>

\* A reload or the end was seen: the acknowledgement is waited for.
MainAck ==
  /\ main = "ack"
  /\ main' = IF event_loop_resumed THEN "acking" ELSE "top"
  /\ UNCHANGED <<flags, suspension, loop, queues, counters>>

\* An error that neither the handler nor the reload catches ends the worker.
MainFails ==
  /\ main \in {"reload", "handle"}
  /\ main' = "exit"
  /\ UNCHANGED <<flags, suspension, loop, queues, counters>>

----------------------------------------------------------------------------
(* event_loop                                                              *)

\* Whoever waits for the acknowledgement is woken.
Acknowledge == main' = IF main = "acking" THEN "ack" ELSE main

\* Outside of the critical section
LoopTop ==
  /\ loop = "top"
  /\ loop' = IF event_loop_suspended THEN "suspend" ELSE "check"
  /\ UNCHANGED <<flags, suspension, main, queues, counters>>

LoopSuspend ==
  /\ loop = "suspend"
  /\ IF event_loop_suspended
     THEN /\ loop' = "waiting"
          /\ UNCHANGED <<event_loop_resumed, main>>
     ELSE /\ event_loop_resumed' = TRUE
          /\ Acknowledge
          /\ loop' = "check"
  /\ UNCHANGED <<flags, event_loop_suspended, queues, counters>>

LoopCheck ==
  /\ loop = "check"
  /\ loop' = IF ~worker_running THEN "end" ELSE IF worker_reload THEN "stop" ELSE "poll"
  /\ UNCHANGED <<flags, suspension, main, queues, counters>>

\* on_message: outcomes are sent to clients.
LoopPoll ==
  /\ loop = "poll" /\ event_loop_awake /\ ~HoldsEventLoopQueue
  /\ event_loop_awake' = FALSE
  /\ loop' = "check"
  /\ UNCHANGED <<flags, suspension, main, handler_queue, handler_awake, counters>>

\* Other events of sockets
LoopEvent ==
  /\ loop = "poll"
  /\ loop' = "check"
  /\ UNCHANGED <<flags, suspension, main, queues, counters>>

\* A WebSocket is opened, by on_message, receives or is closed: what its handler is
\* told wakes the main thread.
LoopWebsocket ==
  /\ loop = "poll" /\ ~HoldsHandlerQueue
  /\ handler_awake' = TRUE
  /\ loop' \in {"poll", "check"}
  /\ UNCHANGED <<flags, suspension, main, handler_queue, event_loop_awake, counters>>

\* event_loop_req_handler: a client's request is passed on.
LoopRequest ==
  /\ loop = "poll" /\ requests < MaxRequests /\ ~HoldsHandlerQueue
  /\ requests' = requests + 1
  /\ handler_queue' = handler_queue + 1
  /\ loop' = "check"
  /\ UNCHANGED <<flags, suspension, main, handler_awake, event_loop_awake, signals>>

\* Mutant: event_loop_resumed is reset only at the end
LoopLeaveResumed ==
  /\ loop \in {"stop", "end"}
  /\ event_loop_resumed' = (event_loop_resumed /\ loop = "stop")
  /\ event_loop_suspended' = TRUE
  /\ Acknowledge
  /\ loop' = IF loop = "stop" THEN "top" ELSE "exit"
  /\ UNCHANGED <<flags, queues, counters>>

\* Listeners are resumed; the main thread need not wait any longer.
LoopLeave ==
  /\ loop \in {"stop", "end"}
  /\ event_loop_resumed' = FALSE
  /\ event_loop_suspended' = TRUE
  /\ Acknowledge
  /\ loop' = IF loop = "stop" THEN "top" ELSE "exit"
  /\ UNCHANGED <<flags, queues, counters>>

\* The event loop uses memory that was released, which may end the process.
LoopFails ==
  /\ loop \in Looping
  /\ main' = "exit"
  /\ UNCHANGED <<flags, suspension, loop, queues, counters>>

----------------------------------------------------------------------------
MainStep ==
  \/ MainTop \/ MainReload \/ MainResume \/ MainSignal \/ MainCheck \/ MainPoll
  \/ MainTake \/ MainSend \/ MainHandle \/ MainAck

\* The process takes the thread with it when it ends.
LoopStep == main # "exit" /\ (LoopTop \/ LoopSuspend \/ LoopCheck \/ LoopPoll \/ LoopLeave)

\* The main thread waits, for events or for itself, or the process has ended.
Stuck == main \in {"stuck taking", "stuck sending"}

Idle ==
  /\ main \in {"poll", "exit"} \/ Stuck
  /\ UNCHANGED vars

Next ==
  \/ sigusr2 \/ sigterm \/ MainStep \/ MainFails \/ LoopStep
  \/ main # "exit" /\ (LoopEvent \/ LoopWebsocket \/ LoopRequest \/ LoopFails)
  \/ Idle

Spec == Init /\ [][Next]_vars

----------------------------------------------------------------------------
(* Properties                                                              *)

\* The flags, places and the number of queued requests keep their ranges.
TypeOK ==
  /\ worker_running \in BOOLEAN /\ worker_reload \in BOOLEAN
  /\ event_loop_suspended \in BOOLEAN /\ event_loop_resumed \in BOOLEAN
  /\ main \in {"top", "reload", "resume", "signal", "check", "poll", "taking", "handle",
               "sending", "stuck taking", "stuck sending", "ack", "acking", "exit"}
  /\ loop \in {"top", "suspend", "waiting", "exit"} \union Looping
  /\ handler_queue \in 0..MaxRequests

\* The two condition variables never have the threads wait for each other: while
\* http_worker waits for the event loop to stop, event_loop does not wait to be
\* resumed.
NotBothWaiting == ~(main = "acking" /\ loop = "waiting")

\* However late a signal comes, no wake-up is lost: a reload that sigusr2 asks for is
\* begun unless the worker ends, and a worker that sigterm tells to end leaves its
\* main loop, unless the signal has come while the main thread had the mutex of a
\* queue.
SignalsTaken == []<>((worker_running /\ ~worker_reload) \/ main = "exit" \/ Stuck)
============================================================================
