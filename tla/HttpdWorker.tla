----------------------------- MODULE HttpdWorker -----------------------------
(***************************************************************************)
(* An HTTP worker of omni_httpd: the threads of HttpdThreads carry the      *)
(* requests of HttpdRequests.  Handlers run in the main thread while it     *)
(* takes messages, and everything the event loop does for clients happens   *)
(* while it polls, so that a reload, a suspended event loop or the end of   *)
(* the worker comes between any two steps of a request.  A reload may take  *)
(* the context of a request away with the listener it came by.             *)
(***************************************************************************)
EXTENDS HttpdThreads, Sequences, FiniteSets

CONSTANTS Requests

ASSUME RequestsAssumption == IsFiniteSet(Requests)

VARIABLES
  state, req, released, answer, requests_in_flight, paused, gone,
  handler_messages,    \* what handler_queue of HttpdThreads counts
  event_loop_queue,
  orphans              \* requests whose context was disposed of

R == INSTANCE HttpdRequests WITH handler_queue <- handler_messages

requestVars ==
  <<state, req, released, answer, requests_in_flight, paused, gone, handler_messages,
    event_loop_queue>>
workerVars == <<vars, requestVars, orphans>>

WorkerInit == Init /\ R!Init /\ orphans = {}

----------------------------------------------------------------------------
(* Joint steps                                                             *)

Signals == (sigusr2 \/ sigterm) /\ UNCHANGED <<requestVars, orphans>>

\* The main thread between requests
MainOnly ==
  /\ MainTop \/ MainResume \/ MainSignal \/ MainCheck \/ MainPoll \/ MainTake \/ MainAck
  /\ UNCHANGED <<requestVars, orphans>>

\* A listener that was removed is disposed of with its context, which its requests,
\* if there are any, still refer to.
Reload ==
  /\ MainReload
  /\ \E lost \in SUBSET {r \in Requests : state[r] \notin {"none", "disposed"}} :
       orphans' = orphans \union lost
  /\ UNCHANGED requestVars

\* A handler is called; its outcome, if there is one, wakes the event loop.
Handle ==
  /\ \/ MainSend /\ req[Head(handler_messages)] /\ UNCHANGED requestVars
     \/ MainHandle /\ main = "sending" /\ \E k \in R!Kinds : R!Handler(k)
     \/ MainHandle /\ main = "handle" /\ R!HandleGone
  /\ UNCHANGED orphans

Fails == MainFails /\ UNCHANGED <<requestVars, orphans>>

Running == main # "exit"

\* What the event loop does next is undefined: on_message has an answer for a message
\* that was released, or a request has lost its context.
Undefined ==
  \/ loop = "poll" /\ event_loop_queue # <<>> /\ ~req[Head(event_loop_queue)]
  \/ orphans # {}

Crash == Running /\ Undefined /\ LoopFails /\ UNCHANGED <<requestVars, orphans>>

LoopOnly ==
  /\ Running
  /\ LoopTop \/ LoopSuspend \/ LoopCheck
  /\ UNCHANGED <<requestVars, orphans>>

\* The answer that comes next makes the request a WebSocket.
Upgrades ==
  LET r == Head(event_loop_queue)
  IN  req[r] /\ answer[r] = "upgrade" /\ state'[r] = "complete"

\* on_message takes what has come, one message after another.
Take ==
  /\ Running /\ loop = "poll" /\ event_loop_awake /\ ~HoldsEventLoopQueue
  /\ R!OnMessage
  /\ IF Upgrades THEN LoopWebsocket /\ loop' = "poll" ELSE UNCHANGED vars
  /\ UNCHANGED orphans

Taken ==
  /\ Running /\ LoopPoll
  /\ event_loop_queue = <<>>
  /\ UNCHANGED <<requestVars, orphans>>

\* A request is passed to the main thread.
Request(r) ==
  /\ Running /\ LoopRequest
  /\ R!EventLoopReqHandler(r) /\ state'[r] = "queued"
  /\ UNCHANGED orphans

\* A client connects, or its request is passed to other workers.
Connect(r) ==
  /\ Running /\ LoopEvent
  /\ R!OnAccept(r) \/ (R!EventLoopReqHandler(r) /\ state'[r] = "elsewhere")
  /\ UNCHANGED orphans

Proxied(r) == Running /\ LoopEvent /\ R!Proxied(r) /\ UNCHANGED orphans

\* The mutex of a message whose handler runs is waited for.
ReqDispose(r) ==
  /\ Running /\ LoopEvent /\ R!ReqDispose(r)
  /\ HoldsEventLoopQueue => r # Head(handler_messages)
  /\ orphans' = orphans \ {r}

\* on_ws_message, for this or an earlier request that became a WebSocket
Websocket ==
  /\ Running /\ LoopWebsocket /\ loop' = "check"
  /\ UNCHANGED <<requestVars, orphans>>

\* Paused listeners are resumed when the event loop is left.
Leave ==
  /\ Running /\ LoopLeave
  /\ IF paused THEN R!LeaveEventLoop ELSE UNCHANGED requestVars
  /\ UNCHANGED orphans

MainThread == MainOnly \/ Reload \/ Handle
LoopThread == LoopOnly \/ Take \/ Taken \/ Leave

WorkerNext ==
  \/ Signals \/ MainThread \/ Fails \/ LoopThread \/ Crash \/ Websocket
  \/ \E r \in Requests : Request(r) \/ Connect(r) \/ Proxied(r) \/ ReqDispose(r)
  \/ Idle /\ UNCHANGED <<requestVars, orphans>>

WorkerSpec == WorkerInit /\ [][WorkerNext]_workerVars

\* The threads keep running.  An event that waits for the event loop is reported
\* whenever that polls; servers that requests are proxied to answer, and the
\* connection of a complete request is disposed of.
WorkerFairSpec ==
  /\ WorkerSpec
  /\ WF_workerVars(MainThread) /\ WF_workerVars(LoopThread) /\ SF_workerVars(Take \/ Taken)
  /\ \A r \in Requests :
       SF_workerVars(Proxied(r) \/ (state[r] = "complete" /\ ReqDispose(r)))

----------------------------------------------------------------------------
(* Properties                                                              *)

\* The count of requests in flight is exact over reloads, and never negative:
\* see HttpdRequests.
InFlightExact == R!InFlightExact

\* Messages are not released while they wait, unless their client has left: see
\* HttpdRequests.
ReleasedUnused == R!ReleasedUnused

\* The main thread waits for messages and the event loop to be resumed.  That is
\* possible because the two write event_loop_suspended in any order, and nothing
\* but a signal or a request ends it.
Stalled == main = "poll" /\ loop = "waiting"

Ending == ~worker_running \/ ~Running

\* Requests that event_loop_req_handler passes on, each of which comes once, are
\* answered and disposed of, whatever reloads come in between, unless the worker ends,
\* stalls for good or waits for itself, the socket of a WebSocket cannot be created,
\* or a reload has removed their listener.
RequestsAnswered ==
  \/ <>[]Stalled \/ <>[]Stuck
  \/ <>[](Ending \/ \A r \in Requests \ orphans :
             state[r] \notin {"queued", "answered", "proxying", "complete"})

\* Listeners that on_accept pauses are resumed without another reload: a worker
\* does not stop to accept connections for ever, unless it ends, it stalls for good,
\* waits for itself, or a client left before a handler took its request.
PausedResumes ==
  \/ <>[]Stalled \/ <>[]Stuck
  \/ []<>(~paused \/ Ending \/ \E r \in Requests : gone[r] = "queued")
============================================================================
