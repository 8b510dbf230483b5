--------------------------- MODULE HttpdRequests ---------------------------
(***************************************************************************)
(* The life of a request inside an HTTP worker of omni_httpd: the messages  *)
(* that carry it from the event loop thread to the main thread and back,    *)
(* who releases them, the count of requests in flight and the listeners     *)
(* that are paused while it is not zero (event_loop.c, on_message and       *)
(* handler in http_worker.c).                                              *)
(*                                                                         *)
(* The mutex of a message is held while its handler runs, so that its       *)
(* connection can be disposed of before or after, never meanwhile.  Using a *)
(* message that was released is undefined: here it is read as it was left,  *)
(* and HttpdWorker has the process end as well.                             *)
(***************************************************************************)
EXTENDS Integers, Sequences, FiniteSets

CONSTANTS Requests

\* Outcomes of handlers, and where requests may be when their client goes away
Kinds == {"send", "abort", "proxy", "upgrade"}
DropAt == {"queued", "answered", "proxying", "stranded"}

VARIABLES
  state,                \* where each request is
  req,                  \* its message still refers to it
  released,             \* requests whose message was released
  answer,               \* kind of its answer
  handler_queue, event_loop_queue,
  requests_in_flight,
  paused,               \* paused_listeners is not empty
  gone                  \* history: where a request was when its client left early

messages == <<released, answer>>
queues == <<handler_queue, event_loop_queue>>
vars == <<state, req, messages, queues, requests_in_flight, paused, gone>>

Init ==
  /\ state = [r \in Requests |-> "none"]
  /\ req = [r \in Requests |-> FALSE]
  /\ released = {}
  /\ answer = [r \in Requests |-> "none"]
  /\ handler_queue = <<>> /\ event_loop_queue = <<>>
  /\ requests_in_flight = 0 /\ paused = FALSE
  /\ gone = [r \in Requests |-> "no"]

Goto(r, s) == state' = [state EXCEPT ![r] = s]

----------------------------------------------------------------------------
(* The event loop thread                                                   *)

\* A connection is accepted, or the listener is paused.
OnAccept(r) ==
  /\ state[r] = "none" /\ ~paused
  /\ IF requests_in_flight > 0
     THEN paused' = TRUE /\ UNCHANGED state
     ELSE Goto(r, "connected") /\ UNCHANGED paused
  /\ UNCHANGED <<req, messages, queues, requests_in_flight, gone>>

\* A request goes to a handler; a busy worker passes one that came over HTTP/2
\* on to other workers instead.
EventLoopReqHandler(r) ==
  /\ state[r] = "connected"
  /\ \/ /\ Goto(r, "queued")
        /\ req' = [req EXCEPT ![r] = TRUE]
        /\ handler_queue' = Append(handler_queue, r)
        /\ requests_in_flight' = requests_in_flight + 1
     \/ /\ requests_in_flight > 0
        /\ Goto(r, "elsewhere")
        /\ UNCHANGED <<req, handler_queue, requests_in_flight>>
  /\ UNCHANGED <<messages, event_loop_queue, paused, gone>>

\* An upgrade whose socket cannot be created is given up without an answer.
Outcomes(k) ==
  CASE k = "proxy" -> {"proxying"}
    [] k = "upgrade" -> {"complete", "stranded"}
    [] OTHER -> {"complete"}

\* Nothing is done for a request that is gone (what free is given then is not the
\* address of a message); the others are answered or passed on to where they are
\* proxied.
Deliver(r) ==
  IF req[r] THEN \E s \in Outcomes(answer[r]) : Goto(r, s) ELSE UNCHANGED state

\* Mutant: a request that is proxied stays in flight
OnMessageProxyCounts ==
  /\ event_loop_queue # <<>>
  /\ event_loop_queue' = Tail(event_loop_queue)
  /\ requests_in_flight' = requests_in_flight - (IF answer[Head(event_loop_queue)] = "proxy" THEN 0 ELSE 1)
  /\ paused' = (paused /\ requests_in_flight' # 0)
  /\ Deliver(Head(event_loop_queue))
  /\ answer' = [answer EXCEPT ![Head(event_loop_queue)] = "taken"]
  /\ UNCHANGED <<req, released, handler_queue, gone>>

\* Mutant: listeners stay paused
OnMessageKeepsPaused ==
  /\ event_loop_queue # <<>>
  /\ event_loop_queue' = Tail(event_loop_queue)
  /\ requests_in_flight' = requests_in_flight - 1
  /\ Deliver(Head(event_loop_queue))
  /\ answer' = [answer EXCEPT ![Head(event_loop_queue)] = "taken"]
  /\ UNCHANGED <<req, released, handler_queue, gone, paused>>

\* An answer arrives; paused listeners are resumed with the last one.
OnMessage ==
  /\ event_loop_queue # <<>>
  /\ event_loop_queue' = Tail(event_loop_queue)
  /\ requests_in_flight' = requests_in_flight - 1
  /\ paused' = (paused /\ requests_in_flight' # 0)
  /\ Deliver(Head(event_loop_queue))
  /\ answer' = [answer EXCEPT ![Head(event_loop_queue)] = "taken"]
  /\ UNCHANGED <<req, released, handler_queue, gone>>

\* The other server has answered.
Proxied(r) ==
  /\ state[r] = "proxying"
  /\ Goto(r, "complete")
  /\ UNCHANGED <<req, messages, queues, requests_in_flight, paused, gone>>

\* The request is disposed of.  h2o has ended its response by then ("NULL generator
\* signals completion"), so that its message is released; it no longer refers to
\* the request.
ReqDispose(r) ==
  /\ req[r] /\ state[r] \in {"complete"} \union DropAt
  /\ req' = [req EXCEPT ![r] = FALSE]
  /\ released' = released \union {r}
  /\ Goto(r, "disposed")
  /\ gone' = [gone EXCEPT ![r] = IF state[r] \in {"complete", "stranded"} THEN "no" ELSE state[r]]
  /\ UNCHANGED <<answer, queues, requests_in_flight, paused>>

\* The event loop is left for a reload, which resumes the listeners.
LeaveEventLoop ==
  /\ paused
  /\ paused' = FALSE
  /\ UNCHANGED <<state, req, messages, queues, requests_in_flight, gone>>

----------------------------------------------------------------------------
(* The main thread                                                         *)

\* The handler returns at once when the connection is gone, and releases the
\* message, again.
HandleGone ==
  /\ handler_queue # <<>>
  /\ LET r == Head(handler_queue) IN
     /\ ~req[r]
     /\ released' = released \union {r}
  /\ handler_queue' = Tail(handler_queue)
  /\ UNCHANGED <<state, req, answer, event_loop_queue, requests_in_flight, paused, gone>>

\* Mutant: the handler releases the message of the request it has answered
HandlerReleases(k) ==
  /\ handler_queue # <<>>
  /\ LET r == Head(handler_queue) IN
     /\ req[r]
     /\ Goto(r, "answered")
     /\ answer' = [answer EXCEPT ![r] = k]
     /\ event_loop_queue' = Append(event_loop_queue, r)
     /\ released' = released \union {r}
  /\ handler_queue' = Tail(handler_queue)
  /\ UNCHANGED <<req, requests_in_flight, paused, gone>>

\* The handler runs and sends one answer, also that of an error.
Handler(k) ==
  /\ handler_queue # <<>>
  /\ LET r == Head(handler_queue) IN
     /\ req[r]
     /\ Goto(r, "answered")
     /\ answer' = [answer EXCEPT ![r] = k]
     /\ event_loop_queue' = Append(event_loop_queue, r)
  /\ handler_queue' = Tail(handler_queue)
  /\ UNCHANGED <<req, released, requests_in_flight, paused, gone>>

----------------------------------------------------------------------------
MainStep == HandleGone \/ \E k \in Kinds : Handler(k)

\* Both threads wait for events.
Idle ==
  /\ handler_queue = <<>> /\ event_loop_queue = <<>>
  /\ UNCHANGED vars

Next ==
  \/ OnMessage \/ MainStep \/ LeaveEventLoop \/ Idle
  \/ \E r \in Requests :
       OnAccept(r) \/ EventLoopReqHandler(r) \/ Proxied(r) \/ ReqDispose(r)

Spec == Init /\ [][Next]_vars

----------------------------------------------------------------------------
(* Properties                                                              *)

Queued(q, r) == \E i \in DOMAIN q : q[i] = r
InFlight(r) == Queued(handler_queue, r) \/ Queued(event_loop_queue, r)

\* requests_in_flight, which is unsigned, is the number of requests that wait for
\* a handler or for their answer to be sent, and of those that no handler ever
\* answered because their client had left; whatever the order of messages,
\* outcomes and disposals, it never counts less.
InFlightExact ==
  requests_in_flight =
    Cardinality({r \in Requests : InFlight(r)})
    + Cardinality({r \in Requests : gone[r] # "no" /\ answer[r] = "none" /\ ~InFlight(r)})

\* "ensure we signal that by nulling `req` safely" (req_dispose): a message is not
\* released while it or its answer waits in a queue, unless its client has left
\* before the answer was sent.
ReleasedUnused == \A r \in released : InFlight(r) => gone[r] \in {"queued", "answered"}
============================================================================
