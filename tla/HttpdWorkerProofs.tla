------------------------- MODULE HttpdWorkerProofs -------------------------
(***************************************************************************)
(* Proofs about HttpdThreads and HttpdRequests, and of what they say about  *)
(* HttpdWorker, for any bounds and requests.                               *)
(***************************************************************************)
EXTENDS HttpdWorker, FiniteSetTheorems, TLAPS

\* The requests that wait are among those that came, and a handler is called
\* only when one waits.
Counted ==
  /\ requests \in 0..MaxRequests
  /\ handler_queue <= requests
  /\ main \in {"handle", "sending"} => handler_queue > 0

\* What the two condition variables stand for: the main thread waits for a loop
\* that was resumed, and the event loop waits only after it has said that it
\* stopped.
Handshake ==
  /\ main = "acking" => event_loop_resumed
  /\ loop \in {"top", "suspend", "waiting"} => ~event_loop_resumed

IndInv == TypeOK /\ Counted /\ Handshake

\* The worker starts with the event loop suspended and nothing queued.
LEMMA InitIndInv == Init => IndInv
<1> SUFFICES ASSUME Init PROVE IndInv
  OBVIOUS
<1>1. TypeOK
  <2>1. handler_queue \in 0..MaxRequests
    BY ConstantsAssumption DEF Init
  <2> QED
    BY <2>1, Zenon DEF Init, TypeOK, Looping
<1>2. Counted
  BY ConstantsAssumption DEF Init, Counted
<1>3. Handshake
  BY DEF Init, Handshake
<1> QED
  BY <1>1, <1>2, <1>3 DEF IndInv

\* The ranges of TypeOK need the count of requests: on_message must find a
\* message whenever it is about to handle one.
LEMMA TypeStep == IndInv /\ [Next]_vars => TypeOK' /\ Counted'
<1> SUFFICES ASSUME IndInv, [Next]_vars PROVE TypeOK' /\ Counted'
  OBVIOUS
<1>0. /\ MaxRequests \in Nat /\ handler_queue \in 0..MaxRequests
      /\ requests \in 0..MaxRequests /\ handler_queue <= requests
  BY ConstantsAssumption, Zenon DEF IndInv, TypeOK, Counted
<1> USE ConstantsAssumption DEF IndInv, TypeOK, Counted, Looping
<1>1. CASE sigusr2 \/ sigterm
  <2>1. /\ UNCHANGED <<suspension, loop, handler_queue>>
        /\ worker_running' \in BOOLEAN /\ worker_reload' \in BOOLEAN
    BY <1>1 DEF sigusr2, sigterm
  <2>2. \/ main' = main \/ (main = "poll" /\ main' = "check")
        \/ main' \in {"stuck taking", "stuck sending"}
    BY <1>1 DEF sigusr2, sigterm, WakeBoth, Interrupt
  <2>3. UNCHANGED requests
    BY <1>1 DEF sigusr2, sigterm, counters
  <2> QED
    BY <2>1, <2>2, <2>3 DEF suspension
<1>2. CASE MainTop
  BY <1>2 DEF MainTop, suspension, queues, counters
<1>3. CASE MainReload \/ MainResume \/ MainSignal \/ MainCheck \/ MainAck \/ MainFails
  BY <1>3 DEF MainReload, MainResume, MainSignal, MainCheck, MainAck, MainFails, flags,
              suspension, queues, counters
<1>4. CASE MainPoll \/ MainTake \/ MainSend \/ LoopFails
  BY <1>4 DEF MainPoll, MainTake, MainSend, LoopFails, flags, suspension, queues, counters
<1>5. CASE MainHandle
  <2>1. /\ main \in {"handle", "sending"} /\ handler_queue' = handler_queue - 1
        /\ main' = IF handler_queue' > 0 THEN "handle" ELSE "taking"
        /\ UNCHANGED <<flags, suspension, loop, counters>>
    BY <1>5, Zenon DEF MainHandle
  <2>2. handler_queue' \in 0..MaxRequests /\ handler_queue' <= requests
    <3>1. handler_queue > 0 /\ handler_queue' = handler_queue - 1
      BY <2>1, Zenon
    <3> HIDE ConstantsAssumption DEF IndInv
    <3> QED
      BY <1>0, <3>1
  <2>3. requests' = requests /\ main' \in {"handle", "taking"}
    BY <2>1 DEF counters
  <2>4. Counted'
    BY <2>1, <2>2, <2>3
  <2>5. TypeOK'
    BY <2>1, <2>2, <2>3 DEF flags, suspension
  <2> QED
    BY <2>4, <2>5
<1>6. CASE LoopTop \/ LoopSuspend \/ LoopCheck \/ LoopPoll
  BY <1>6 DEF LoopTop, LoopSuspend, LoopCheck, LoopPoll, Acknowledge, flags, suspension, queues,
              counters
<1>9. CASE LoopEvent \/ LoopWebsocket \/ LoopLeave
  BY <1>9 DEF LoopEvent, LoopWebsocket, LoopLeave, Acknowledge, flags, suspension, queues,
              counters
<1>7. CASE LoopRequest
  <2>1. /\ requests < MaxRequests /\ requests' = requests + 1
        /\ handler_queue' = handler_queue + 1 /\ loop' = "check"
        /\ UNCHANGED <<flags, suspension, main>>
    BY <1>7, Zenon DEF LoopRequest
  <2>2. /\ handler_queue' \in 0..MaxRequests /\ requests' \in 0..MaxRequests
        /\ handler_queue' <= requests' /\ handler_queue' > 0
    <3> HIDE ConstantsAssumption DEF IndInv
    <3> QED
      BY <1>0, <2>1
  <2>3. Counted'
    BY <2>2, Zenon
  <2>4. TypeOK'
    BY <2>1, <2>2 DEF flags, suspension
  <2> QED
    BY <2>3, <2>4
<1>8. CASE Idle \/ UNCHANGED vars
  <2>1. UNCHANGED <<worker_running, worker_reload, event_loop_suspended, event_loop_resumed>>
    BY <1>8, Zenon DEF Idle, vars, flags, suspension
  <2>2. UNCHANGED <<main, loop, handler_queue, requests>>
    BY <1>8, Zenon DEF Idle, vars, queues, counters
  <2> QED
    BY <2>1, <2>2, Zenon
<1> QED
  BY <1>1, <1>2, <1>3, <1>4, <1>5, <1>6, <1>7, <1>8, <1>9 DEF Next, MainStep, LoopStep

\* The handshake is kept by what each thread may do under the mutex and by the
\* unlocked accesses of the other.
LEMMA HandshakeStep == IndInv /\ [Next]_vars => Handshake'
<1> SUFFICES ASSUME IndInv, [Next]_vars PROVE Handshake'
  OBVIOUS
<1> USE DEF IndInv, Handshake
<1>1. CASE sigusr2 \/ sigterm
  <2>1. main' = "acking" => main = "acking"
    BY <1>1 DEF sigusr2, sigterm, WakeBoth, Interrupt
  <2> QED
    BY <1>1, <2>1 DEF sigusr2, sigterm, suspension
<1>2. CASE MainTop \/ MainReload \/ MainResume \/ MainCheck \/ MainPoll \/ MainFails
  BY <1>2 DEF MainTop, MainReload, MainResume, MainCheck, MainPoll, MainFails, suspension
<1>3. CASE MainSignal
  BY <1>3 DEF MainSignal, suspension
<1>4. CASE MainAck
  BY <1>4 DEF MainAck, suspension
<1>5. CASE LoopTop \/ LoopCheck \/ LoopPoll \/ LoopEvent \/ LoopWebsocket \/ LoopRequest
  BY <1>5 DEF LoopTop, LoopCheck, LoopPoll, LoopEvent, LoopWebsocket, LoopRequest, suspension
<1>6. CASE LoopSuspend
  BY <1>6 DEF LoopSuspend, Acknowledge
<1>7. CASE LoopLeave
  BY <1>7 DEF LoopLeave, Acknowledge
<1>8. CASE Idle \/ UNCHANGED vars
  BY <1>8 DEF Idle, vars, suspension
<1>9. CASE MainHandle
  BY <1>9 DEF MainHandle, suspension
<1>10. CASE MainTake \/ MainSend \/ LoopFails
  BY <1>10 DEF MainTake, MainSend, LoopFails, suspension
<1> QED
  BY <1>1, <1>2, <1>3, <1>4, <1>5, <1>6, <1>7, <1>8, <1>9, <1>10 DEF Next, MainStep, LoopStep

\* IndInv holds in every state of a worker.
THEOREM ThreadsIndInv == Spec => []IndInv
<1>1. IndInv /\ [Next]_vars => IndInv'
  BY TypeStep, HandshakeStep DEF IndInv
<1> QED
  BY InitIndInv, <1>1, PTL DEF Spec

\* The flags, places and the number of queued requests keep their ranges, for
\* any bounds: the main thread never looks for a request that is not there.
THEOREM ThreadsTypeCorrect == Spec => []TypeOK
<1>1. IndInv => TypeOK
  BY DEF IndInv
<1> QED
  BY ThreadsIndInv, <1>1, PTL

\* The main thread in pthread_cond_wait for event_loop_resume_cond_ack and the
\* event loop in the one for event_loop_resume_cond never wait for each other.
THEOREM ThreadsNotBothWaiting == Spec => []NotBothWaiting
<1>1. IndInv => NotBothWaiting
  BY DEF IndInv, Handshake, NotBothWaiting
<1> QED
  BY ThreadsIndInv, <1>1, PTL

----------------------------------------------------------------------------
(* The protocol of requests, for any finite number of them                 *)

NoDuplicates(q) == \A i, j \in DOMAIN q : q[i] = q[j] => i = j

\* A message that is put at the end of a queue is the only new one.
LEMMA QueuedAppend ==
  ASSUME NEW S, NEW q \in Seq(S), NEW a \in S, NoDuplicates(q), ~R!Queued(q, a)
  PROVE  /\ Append(q, a) \in Seq(S)
         /\ NoDuplicates(Append(q, a))
         /\ \A r : R!Queued(Append(q, a), r) <=> R!Queued(q, r) \/ r = a
<1>1. /\ Append(q, a) \in Seq(S) /\ Len(Append(q, a)) = Len(q) + 1
      /\ \A i \in 1..Len(q) : Append(q, a)[i] = q[i]
      /\ Append(q, a)[Len(q) + 1] = a
  OBVIOUS
<1>2. /\ DOMAIN q = 1..Len(q) /\ DOMAIN Append(q, a) = 1..(Len(q) + 1) /\ Len(q) \in Nat
  BY <1>1
<1>3. NoDuplicates(Append(q, a))
  BY <1>1, <1>2 DEF NoDuplicates, R!Queued
<1>4. ASSUME NEW r PROVE R!Queued(Append(q, a), r) <=> R!Queued(q, r) \/ r = a
  BY <1>1, <1>2 DEF R!Queued
<1> QED
  BY <1>1, <1>3, <1>4

\* The message that is taken from a queue is no longer in it, the others are.
LEMMA QueuedTail ==
  ASSUME NEW S, NEW q \in Seq(S), q # <<>>, NoDuplicates(q)
  PROVE  /\ Head(q) \in S /\ Tail(q) \in Seq(S)
         /\ NoDuplicates(Tail(q))
         /\ R!Queued(q, Head(q))
         /\ \A r : R!Queued(Tail(q), r) <=> R!Queued(q, r) /\ r # Head(q)
<1>1. /\ Tail(q) \in Seq(S) /\ Head(q) = q[1] /\ Head(q) \in S
      /\ Len(q) \in Nat /\ Len(q) > 0 /\ Len(Tail(q)) = Len(q) - 1
      /\ \A i \in 1..(Len(q) - 1) : Tail(q)[i] = q[i + 1]
  OBVIOUS
<1>2. DOMAIN q = 1..Len(q) /\ DOMAIN Tail(q) = 1..(Len(q) - 1)
  BY <1>1
<1>3. NoDuplicates(Tail(q))
  BY <1>1, <1>2 DEF NoDuplicates
<1>4. R!Queued(q, Head(q))
  BY <1>1, <1>2 DEF R!Queued
<1>5. ASSUME NEW r PROVE R!Queued(Tail(q), r) <=> R!Queued(q, r) /\ r # Head(q)
  <2>1. ASSUME R!Queued(Tail(q), r) PROVE R!Queued(q, r) /\ r # Head(q)
    <3>1. PICK i \in 1..(Len(q) - 1) : Tail(q)[i] = r
      BY <2>1, <1>2 DEF R!Queued
    <3>2. i + 1 \in DOMAIN q /\ q[i + 1] = r /\ i + 1 # 1 /\ 1 \in DOMAIN q
      BY <3>1, <1>1, <1>2
    <3> QED
      BY <3>2, <1>1 DEF R!Queued, NoDuplicates
  <2>2. ASSUME R!Queued(q, r), r # Head(q) PROVE R!Queued(Tail(q), r)
    <3>1. PICK i \in 1..Len(q) : q[i] = r
      BY <2>2, <1>2 DEF R!Queued
    <3>2. i # 1 /\ i - 1 \in 1..(Len(q) - 1) /\ (i - 1) + 1 = i
      BY <3>1, <2>2, <1>1
    <3>3. Tail(q)[i - 1] = r
      BY <3>1, <3>2, <1>1
    <3> QED
      BY <3>2, <3>3, <1>2 DEF R!Queued
  <2> QED
    BY <2>1, <2>2
<1> QED
  BY <1>1, <1>3, <1>4, <1>5

----------------------------------------------------------------------------
(* The inductive invariant                                                 *)

Outside == {"none", "connected", "elsewhere"}
RequestPlaces ==
  {"queued", "answered", "proxying", "complete", "stranded", "disposed"} \union Outside

RequestTypes ==
  /\ state \in [Requests -> RequestPlaces]
  /\ req \in [Requests -> BOOLEAN]
  /\ answer \in [Requests -> R!Kinds \union {"none", "taken"}]
  /\ gone \in [Requests -> {"no", "queued", "answered", "proxying"}]
  /\ requests_in_flight \in Int

Queues ==
  /\ handler_messages \in Seq(Requests) /\ NoDuplicates(handler_messages)
  /\ event_loop_queue \in Seq(Requests) /\ NoDuplicates(event_loop_queue)

\* What the place of a request says about its message
Life(r) ==
  /\ state[r] \in Outside => ~req[r] /\ answer[r] = "none"
  /\ state[r] = "queued" => req[r] /\ answer[r] = "none"
  /\ state[r] = "answered" => req[r] /\ answer[r] \in R!Kinds
  /\ state[r] \in {"proxying", "complete", "stranded"} => req[r] /\ answer[r] = "taken"
  /\ state[r] = "disposed" => ~req[r]

\* Which requests have a message in a queue: an unanswered one that is in none was
\* given up by its client.
Waiting(r) ==
  /\ R!Queued(handler_messages, r) => state[r] \in {"queued", "disposed"} /\ answer[r] = "none"
  /\ state[r] = "queued" => R!Queued(handler_messages, r)
  /\ R!Queued(event_loop_queue, r) <=> answer[r] \in R!Kinds
  /\ gone[r] # "no" => state[r] = "disposed"
  /\ state[r] = "disposed" /\ gone[r] = "no" => answer[r] = "taken"

\* The requests that requests_in_flight stands for
CountedRequests == {r \in Requests : state[r] \notin Outside /\ answer[r] # "taken"}

RequestsInv ==
  /\ RequestTypes /\ Queues
  /\ \A r \in Requests : Life(r) /\ Waiting(r)
  /\ requests_in_flight = Cardinality(CountedRequests)

----------------------------------------------------------------------------
(* It holds initially and is kept by every action                          *)

LEMMA RequestsInit == R!Init => RequestsInv
<1> SUFFICES ASSUME R!Init PROVE RequestsInv
  OBVIOUS
<1> USE DEF R!Init
<1>1. RequestTypes
  BY DEF RequestTypes, RequestPlaces, Outside
<1>2. Queues
  BY DEF Queues, NoDuplicates
<1>3. ASSUME NEW r \in Requests PROVE Life(r) /\ Waiting(r)
  BY DEF Life, Waiting, Outside, R!Kinds, R!Queued
<1>4. CountedRequests = {}
  BY DEF CountedRequests, Outside
<1> QED
  BY <1>1, <1>2, <1>3, <1>4, FS_EmptySet DEF RequestsInv

\* on_accept counts nothing.
LEMMA OnAcceptInv ==
  ASSUME RequestsInv, NEW q \in Requests, R!OnAccept(q)
  PROVE  RequestsInv'
<1> USE DEF RequestsInv, R!OnAccept, R!Goto, R!messages, R!queues
<1>1. RequestTypes'
  BY DEF RequestTypes, RequestPlaces, Outside
<1>2. Queues'
  BY DEF Queues
<1>3. ASSUME NEW r \in Requests PROVE (Life(r) /\ Waiting(r))'
  <2>1. Life(r)'
    BY DEF Life, Outside, RequestTypes
  <2>2. Waiting(r)'
    BY DEF Life, Waiting, Outside, RequestTypes
  <2> QED
    BY <2>1, <2>2
<1>4. CountedRequests' = CountedRequests
  BY DEF CountedRequests, Outside, RequestTypes
<1> QED
  BY <1>1, <1>2, <1>3, <1>4

\* event_loop_req_handler counts the request it queues.
LEMMA EventLoopReqHandlerInv ==
  ASSUME IsFiniteSet(Requests), RequestsInv, NEW q \in Requests, R!EventLoopReqHandler(q)
  PROVE  RequestsInv'
<1>0. /\ RequestTypes /\ Queues
      /\ \A r \in Requests : Life(r) /\ Waiting(r)
  BY DEF RequestsInv
<1>1. /\ state[q] = "connected" /\ Life(q) /\ Waiting(q) /\ ~R!InFlight(q)
      /\ UNCHANGED <<answer, event_loop_queue, gone>>
  BY <1>0 DEF R!EventLoopReqHandler, R!messages, Life, Waiting, R!InFlight, Outside, R!Kinds
<1>2. CASE /\ state' = [state EXCEPT ![q] = "queued"]
           /\ req' = [req EXCEPT ![q] = TRUE]
           /\ handler_messages' = Append(handler_messages, q)
           /\ requests_in_flight' = requests_in_flight + 1
  <2>1. /\ Queues'
        /\ \A r : R!Queued(handler_messages', r) <=> R!Queued(handler_messages, r) \/ r = q
    BY <1>0, <1>1, <1>2, QueuedAppend DEF Queues, R!InFlight
  <2>2. RequestTypes'
    <3>1. req' \in [Requests -> BOOLEAN]
      BY <1>0, <1>2, Zenon DEF RequestTypes
    <3>2. state' \in [Requests -> RequestPlaces]
      BY <1>0, <1>2 DEF RequestTypes, RequestPlaces
    <3>3. requests_in_flight \in Int /\ requests_in_flight' = requests_in_flight + 1
      BY <1>0, <1>2, Zenon DEF RequestTypes
    <3>4. requests_in_flight' \in Int
      BY <3>3
    <3> QED
      BY <1>0, <1>1, <3>1, <3>2, <3>4, Zenon DEF RequestTypes
  <2>3. ASSUME NEW r \in Requests PROVE (Life(r) /\ Waiting(r))'
    <3>1. CASE r = q
      <4>1. state'[q] = "queued" /\ req'[q]
        BY <1>0, <1>2 DEF RequestTypes
      <4>2. answer[q] = "none" /\ gone[q] = "no"
        BY <1>0, <1>1 DEF Life, Waiting, Outside
      <4> QED
        BY <1>0, <1>1, <2>1, <3>1, <4>1, <4>2
           DEF Life, Waiting, R!InFlight, Outside, R!Kinds
    <3>2. CASE r # q
      BY <1>0, <1>1, <1>2, <2>1, <3>2 DEF Life, Waiting, RequestTypes
    <3> QED
      BY <1>0, <3>1, <3>2
  <2>4. CountedRequests' = CountedRequests \union {q} /\ q \notin CountedRequests
    BY <1>0, <1>1, <1>2 DEF CountedRequests, Outside, RequestTypes, Life
  <2>5. IsFiniteSet(CountedRequests)
    BY <1>0, FS_Subset DEF CountedRequests
  <2> QED
    BY <1>2, <2>1, <2>2, <2>3, <2>4, <2>5, FS_AddElement DEF RequestsInv
<1>3. CASE /\ state' = [state EXCEPT ![q] = "elsewhere"]
           /\ UNCHANGED <<req, handler_messages, requests_in_flight>>
  <2>1. RequestTypes' /\ Queues'
    BY <1>0, <1>1, <1>3 DEF RequestTypes, RequestPlaces, Outside, Queues
  <2>2. ASSUME NEW r \in Requests PROVE (Life(r) /\ Waiting(r))'
    BY <1>0, <1>1, <1>3 DEF Life, Waiting, Outside, RequestTypes
  <2>3. CountedRequests' = CountedRequests
    BY <1>0, <1>1, <1>3 DEF CountedRequests, Outside, RequestTypes
  <2> QED
    BY <1>3, <2>1, <2>2, <2>3 DEF RequestsInv
<1> QED
  BY <1>0, <1>2, <1>3 DEF R!EventLoopReqHandler, R!Goto

\* on_message of the event loop takes the request whose answer it takes from the
\* count, whether or not its client is still there.
LEMMA OnMessageInv ==
  ASSUME IsFiniteSet(Requests), RequestsInv, R!OnMessage
  PROVE  RequestsInv'
<1>0. /\ RequestTypes /\ Queues
      /\ \A r \in Requests : Life(r) /\ Waiting(r)
  BY DEF RequestsInv
<1>1. PICK q \in Requests :
        /\ q = Head(event_loop_queue) /\ Queues'
        /\ R!Queued(event_loop_queue, q)
        /\ \A r : R!Queued(event_loop_queue', r) <=> R!Queued(event_loop_queue, r) /\ r # q
  BY <1>0, QueuedTail DEF Queues, R!OnMessage
<1>2. /\ answer' = [answer EXCEPT ![q] = "taken"]
      /\ requests_in_flight' = requests_in_flight - 1
      /\ UNCHANGED <<req, gone, handler_messages>>
      /\ R!Deliver(q)
  BY <1>1 DEF R!OnMessage
<1>3. requests_in_flight' \in Int /\ answer' \in [Requests -> R!Kinds \union {"none", "taken"}]
  <2>1. requests_in_flight \in Int /\ requests_in_flight' = requests_in_flight - 1
    BY <1>0, <1>2, Zenon DEF RequestTypes
  <2>2. requests_in_flight' \in Int
    BY <2>1
  <2> QED
    BY <1>0, <1>1, <1>2, <2>2, Zenon DEF RequestTypes
<1>4. /\ Life(q) /\ Waiting(q) /\ answer[q] \in R!Kinds
      /\ state[q] \in {"answered", "disposed"}
  BY <1>0, <1>1 DEF Life, Waiting, RequestTypes, RequestPlaces, Outside, R!Kinds
<1>5. CountedRequests \ {q} = {r \in Requests : state[r] \notin Outside /\ answer'[r] # "taken"}
  BY <1>0, <1>1, <1>2 DEF CountedRequests, RequestTypes
<1>6. ASSUME RequestTypes', CountedRequests' = CountedRequests \ {q},
             \A r \in Requests : (Life(r) /\ Waiting(r))'
      PROVE  RequestsInv'
  <2>1. IsFiniteSet(CountedRequests) /\ q \in CountedRequests
    BY <1>0, <1>1, <1>4, FS_Subset DEF CountedRequests, Outside, R!Kinds
  <2> QED
    BY <1>1, <1>2, <1>6, <2>1, FS_RemoveElement DEF RequestsInv
<1>7. CASE ~req[q]
  <2>1. UNCHANGED state
    BY <1>2, <1>7 DEF R!Deliver
  <2>2. state[q] = "disposed"
    BY <1>0, <1>4, <1>7 DEF Life
  <2>3. RequestTypes'
    BY <1>0, <1>2, <1>3, <2>1, Zenon DEF RequestTypes
  <2>4. ASSUME NEW r \in Requests PROVE (Life(r) /\ Waiting(r))'
    <3>1. CASE r = q
      <4>1. answer'[q] = "taken" /\ answer[q] # "taken"
        BY <1>0, <1>1, <1>2, <1>4 DEF RequestTypes, R!Kinds
      <4>2. state'[q] = "disposed" /\ ~req'[q] /\ gone'[q] = gone[q] /\ gone[q] # "no"
        BY <1>2, <1>4, <1>7, <2>1, <2>2, <4>1, Zenon DEF Waiting
      <4>3. /\ ~R!Queued(handler_messages', q) /\ ~R!Queued(event_loop_queue', q)
            /\ "taken" \notin R!Kinds
        BY <1>1, <1>2, <1>4 DEF Waiting, R!Kinds
      <4>4. Life(q)'
        BY <4>2 DEF Life, Outside
      <4>5. Waiting(q)'
        BY <4>1, <4>2, <4>3 DEF Waiting
      <4> QED
        BY <3>1, <4>4, <4>5
    <3>2. CASE r # q
      <4>1. /\ state'[r] = state[r] /\ answer'[r] = answer[r]
            /\ req'[r] = req[r] /\ gone'[r] = gone[r]
        BY <1>0, <1>1, <1>2, <2>1, <3>2 DEF RequestTypes
      <4>2. /\ R!Queued(handler_messages', r) <=> R!Queued(handler_messages, r)
            /\ R!Queued(event_loop_queue', r) <=> R!Queued(event_loop_queue, r)
        BY <1>1, <1>2, <3>2
      <4> QED
        BY <1>0, <4>1, <4>2, Zenon DEF Life, Waiting
    <3> QED
      BY <1>0, <3>1, <3>2
  <2> QED
    BY <1>0, <1>5, <1>6, <2>1, <2>3, <2>4 DEF CountedRequests
<1>8. CASE req[q]
  <2>1. PICK s \in {"proxying", "complete", "stranded"} : state' = [state EXCEPT ![q] = s]
    <3>1. PICK s \in R!Outcomes(answer[q]) : state' = [state EXCEPT ![q] = s]
      BY <1>2, <1>8 DEF R!Deliver, R!Goto
    <3>2. s \in {"proxying", "complete", "stranded"}
      BY <1>4, <3>1 DEF R!Outcomes
    <3> QED
      BY <3>1, <3>2
  <2>2. state[q] = "answered" /\ gone[q] = "no"
    BY <1>0, <1>4, <1>8 DEF Life, Waiting
  <2>4. RequestTypes'
    <3>1. state' \in [Requests -> RequestPlaces]
      BY <1>0, <1>1, <2>1 DEF RequestTypes, RequestPlaces
    <3> QED
      BY <1>0, <1>2, <1>3, <3>1, Zenon DEF RequestTypes
  <2>5. ASSUME NEW r \in Requests PROVE (Life(r) /\ Waiting(r))'
    <3>1. CASE r = q
      <4>1. /\ state'[q] \in {"proxying", "complete", "stranded"} /\ answer'[q] = "taken"
            /\ gone'[q] = "no"
        BY <1>0, <1>1, <1>2, <2>1, <2>2 DEF RequestTypes
      <4> QED
        BY <1>0, <1>1, <1>2, <1>4, <1>8, <2>2, <3>1, <4>1
           DEF Life, Waiting, Outside, R!Kinds
    <3>2. CASE r # q
      <4>1. /\ state'[r] = state[r] /\ answer'[r] = answer[r]
            /\ req'[r] = req[r] /\ gone'[r] = gone[r]
        BY <1>0, <1>1, <1>2, <2>1, <3>2 DEF RequestTypes
      <4>2. /\ R!Queued(handler_messages', r) <=> R!Queued(handler_messages, r)
            /\ R!Queued(event_loop_queue', r) <=> R!Queued(event_loop_queue, r)
        BY <1>1, <1>2, <3>2
      <4> QED
        BY <1>0, <4>1, <4>2, Zenon DEF Life, Waiting
    <3> QED
      BY <1>0, <3>1, <3>2
  <2>6. CountedRequests' = CountedRequests \ {q}
    BY <1>0, <1>1, <1>2, <1>4, <1>5, <2>1, <2>2 DEF CountedRequests, RequestTypes, Outside
  <2> QED
    BY <1>0, <1>6, <2>4, <2>5, <2>6
<1> QED
  BY <1>0, <1>7, <1>8

\* The answer of another server changes nothing that is counted.
LEMMA ProxiedInv ==
  ASSUME RequestsInv, NEW q \in Requests, R!Proxied(q)
  PROVE  RequestsInv'
<1>0. /\ RequestTypes /\ Queues
      /\ \A r \in Requests : Life(r) /\ Waiting(r)
  BY DEF RequestsInv
<1>1. /\ state[q] = "proxying" /\ state' = [state EXCEPT ![q] = "complete"]
      /\ UNCHANGED <<req, answer, handler_messages, event_loop_queue, requests_in_flight, gone>>
  BY DEF R!Proxied, R!Goto, R!messages, R!queues
<1>2. RequestTypes' /\ Queues'
  <2>1. state' \in [Requests -> RequestPlaces]
    BY <1>0, <1>1 DEF RequestTypes, RequestPlaces
  <2> QED
    BY <1>0, <1>1, <2>1, Zenon DEF RequestTypes, Queues
<1>3. ASSUME NEW r \in Requests PROVE (Life(r) /\ Waiting(r))'
  BY <1>0, <1>1 DEF Life, Waiting, RequestTypes, Outside
<1>4. CountedRequests' = CountedRequests
  BY <1>0, <1>1 DEF CountedRequests, RequestTypes, Outside
<1> QED
  BY <1>1, <1>2, <1>3, <1>4 DEF RequestsInv

\* req_dispose leaves the count alone.
LEMMA ReqDisposeInv ==
  ASSUME RequestsInv, NEW q \in Requests, R!ReqDispose(q)
  PROVE  RequestsInv'
<1>0. /\ RequestTypes /\ Queues
      /\ \A r \in Requests : Life(r) /\ Waiting(r)
  BY DEF RequestsInv
<1> DEFINE g == IF state[q] \in {"complete", "stranded"} THEN "no" ELSE state[q]
<1>1. /\ req[q] /\ state[q] \in {"queued", "answered", "proxying", "complete", "stranded"}
      /\ req' = [req EXCEPT ![q] = FALSE]
      /\ state' = [state EXCEPT ![q] = "disposed"]
      /\ gone' = [gone EXCEPT ![q] = g]
      /\ UNCHANGED <<answer, handler_messages, event_loop_queue, requests_in_flight>>
  BY DEF R!ReqDispose, R!DropAt, R!Goto, R!queues
<1>2. /\ Life(q) /\ Waiting(q)
      /\ g \in {"no", "queued", "answered", "proxying"}
      /\ g = "no" => answer[q] = "taken"
  BY <1>0, <1>1 DEF Life
<1> HIDE DEF g
<1>3. RequestTypes' /\ Queues'
  <2>1. state' \in [Requests -> RequestPlaces]
    BY <1>0, <1>1 DEF RequestTypes, RequestPlaces
  <2>2. req' \in [Requests -> BOOLEAN] /\ gone' \in [Requests -> {"no", "queued", "answered", "proxying"}]
    BY <1>0, <1>1, <1>2, Zenon DEF RequestTypes
  <2> QED
    BY <1>0, <1>1, <2>1, <2>2, Zenon DEF RequestTypes, Queues
<1>4. Life(q)' /\ Waiting(q)'
  <2>1. state'[q] = "disposed" /\ ~req'[q] /\ gone'[q] = g /\ answer'[q] = answer[q]
    BY <1>0, <1>1, Zenon DEF RequestTypes
  <2>2. R!Queued(handler_messages, q) => answer[q] = "none"
    BY <1>2 DEF Waiting
  <2> QED
    BY <1>1, <1>2, <2>1, <2>2 DEF Life, Waiting, Outside
<1>5. ASSUME NEW r \in Requests, r # q PROVE (Life(r) /\ Waiting(r))'
  <2>1. /\ state'[r] = state[r] /\ req'[r] = req[r] /\ gone'[r] = gone[r]
    BY <1>0, <1>1, <1>5, Zenon DEF RequestTypes
  <2> QED
    BY <1>0, <1>1, <2>1 DEF Life, Waiting
<1>6. CountedRequests' = CountedRequests
  BY <1>0, <1>1 DEF CountedRequests, RequestTypes, Outside
<1> QED
  BY <1>1, <1>3, <1>4, <1>5, <1>6 DEF RequestsInv

\* The handler that finds nobody to answer takes the message from its queue; its
\* request stays counted.
LEMMA HandleGoneInv ==
  ASSUME RequestsInv, R!HandleGone
  PROVE  RequestsInv'
<1>0. /\ RequestTypes /\ Queues
      /\ \A r \in Requests : Life(r) /\ Waiting(r)
  BY DEF RequestsInv
<1>1. PICK q \in Requests :
        /\ q = Head(handler_messages) /\ Queues'
        /\ R!Queued(handler_messages, q)
        /\ \A r : R!Queued(handler_messages', r) <=> R!Queued(handler_messages, r) /\ r # q
  BY <1>0, QueuedTail DEF Queues, R!HandleGone
<1>2. UNCHANGED <<state, req, answer, event_loop_queue, requests_in_flight, gone>> /\ ~req[q]
  BY <1>1 DEF R!HandleGone
<1>3. state[q] = "disposed" /\ answer[q] = "none"
  BY <1>0, <1>1, <1>2 DEF Life, Waiting
<1>4. RequestTypes'
  BY <1>0, <1>2, Zenon DEF RequestTypes
<1>5. ASSUME NEW r \in Requests PROVE (Life(r) /\ Waiting(r))'
  BY <1>0, <1>1, <1>2, <1>3 DEF Life, Waiting, Outside
<1>6. CountedRequests' = CountedRequests
  BY <1>2 DEF CountedRequests
<1> QED
  BY <1>1, <1>2, <1>4, <1>5, <1>6 DEF RequestsInv

\* A handler moves its message to the other queue.
LEMMA HandlerInv ==
  ASSUME RequestsInv, NEW k \in R!Kinds, R!Handler(k)
  PROVE  RequestsInv'
<1>0. /\ RequestTypes /\ Queues
      /\ \A r \in Requests : Life(r) /\ Waiting(r)
  BY DEF RequestsInv
<1>1. PICK q \in Requests :
        /\ q = Head(handler_messages)
        /\ handler_messages' \in Seq(Requests) /\ NoDuplicates(handler_messages')
        /\ R!Queued(handler_messages, q)
        /\ \A r : R!Queued(handler_messages', r) <=> R!Queued(handler_messages, r) /\ r # q
  BY <1>0, QueuedTail DEF Queues, R!Handler
<1>2. /\ req[q] /\ state' = [state EXCEPT ![q] = "answered"]
      /\ answer' = [answer EXCEPT ![q] = k]
      /\ event_loop_queue' = Append(event_loop_queue, q)
      /\ UNCHANGED <<req, requests_in_flight, gone>>
  BY <1>1 DEF R!Handler, R!Goto
<1>3. /\ state[q] = "queued" /\ answer[q] = "none" /\ gone[q] = "no"
      /\ ~R!Queued(event_loop_queue, q)
  BY <1>0, <1>1, <1>2 DEF Life, Waiting, R!Kinds
<1>4. /\ Queues'
      /\ \A r : R!Queued(event_loop_queue', r) <=> R!Queued(event_loop_queue, r) \/ r = q
  BY <1>0, <1>1, <1>2, <1>3, QueuedAppend DEF Queues
<1>5. RequestTypes'
  <2>1. state' \in [Requests -> RequestPlaces]
    BY <1>0, <1>2 DEF RequestTypes, RequestPlaces
  <2>2. answer' \in [Requests -> R!Kinds \union {"none", "taken"}]
    BY <1>0, <1>2, Zenon DEF RequestTypes
  <2> QED
    BY <1>0, <1>2, <2>1, <2>2, Zenon DEF RequestTypes
<1>6. ASSUME NEW r \in Requests PROVE (Life(r) /\ Waiting(r))'
  <2>1. CASE r = q
    <3>1. state'[q] = "answered" /\ answer'[q] = k
      BY <1>0, <1>2, Zenon DEF RequestTypes
    <3> QED
      BY <1>1, <1>2, <1>3, <1>4, <2>1, <3>1, Zenon DEF Life, Waiting, Outside
  <2>2. CASE r # q
    <3>1. state'[r] = state[r] /\ answer'[r] = answer[r]
      BY <1>0, <1>2, <2>2, Zenon DEF RequestTypes
    <3> QED
      BY <1>0, <1>1, <1>2, <1>4, <2>2, <3>1 DEF Life, Waiting
  <2> QED
    BY <2>1, <2>2
<1>7. CountedRequests' = CountedRequests
  <2>1. /\ state'[q] \notin Outside /\ answer'[q] # "taken"
        /\ state[q] \notin Outside /\ answer[q] # "taken"
    BY <1>0, <1>2, <1>3 DEF RequestTypes, Outside, R!Kinds
  <2>2. ASSUME NEW r \in Requests, r # q PROVE state'[r] = state[r] /\ answer'[r] = answer[r]
    BY <1>0, <1>2, <2>2, Zenon DEF RequestTypes
  <2> QED
    BY <2>1, <2>2 DEF CountedRequests
<1> QED
  BY <1>2, <1>4, <1>5, <1>6, <1>7 DEF RequestsInv

\* Pausing and resuming of listeners, and idling, change nothing it is about.
LEMMA OtherInv ==
  ASSUME RequestsInv, R!LeaveEventLoop \/ R!Idle \/ UNCHANGED R!vars
  PROVE  RequestsInv'
<1>1. /\ UNCHANGED <<state, req, answer, handler_messages, event_loop_queue>>
      /\ UNCHANGED <<requests_in_flight, gone>>
  BY DEF R!LeaveEventLoop, R!Idle, R!vars, R!messages, R!queues
<1>2. RequestTypes' /\ Queues'
  BY <1>1, Zenon DEF RequestsInv, RequestTypes, Queues
<1>3. ASSUME NEW r \in Requests PROVE (Life(r) /\ Waiting(r))'
  BY <1>1, Zenon DEF RequestsInv, Life, Waiting
<1>4. CountedRequests' = CountedRequests
  BY <1>1 DEF CountedRequests
<1> QED
  BY <1>1, <1>2, <1>3, <1>4 DEF RequestsInv

----------------------------------------------------------------------------
(* What follows                                                            *)

\* IndInv holds in every state of a worker.
THEOREM RequestsIndInv == ASSUME IsFiniteSet(Requests) PROVE R!Spec => []RequestsInv
<1>1. RequestsInv /\ [R!Next]_R!vars => RequestsInv'
  <2> SUFFICES ASSUME RequestsInv, [R!Next]_R!vars PROVE RequestsInv'
    OBVIOUS
  <2>1. CASE R!OnMessage
    BY <2>1, OnMessageInv
  <2>2. CASE R!MainStep
    BY <2>2, HandleGoneInv, HandlerInv DEF R!MainStep
  <2>3. ASSUME NEW r \in Requests, R!OnAccept(r) \/ R!EventLoopReqHandler(r) PROVE RequestsInv'
    BY <2>3, OnAcceptInv, EventLoopReqHandlerInv
  <2>4. ASSUME NEW r \in Requests, R!Proxied(r) \/ R!ReqDispose(r) PROVE RequestsInv'
    BY <2>4, ProxiedInv, ReqDisposeInv
  <2>5. CASE R!LeaveEventLoop \/ R!Idle \/ UNCHANGED R!vars
    BY <2>5, OtherInv
  <2> QED
    BY <2>1, <2>2, <2>3, <2>4, <2>5 DEF R!Next
<1> QED
  BY RequestsInit, <1>1, PTL DEF R!Spec

\* requests_in_flight is the number of requests that wait for a handler or for their
\* answer, and of those given up before a handler ran, for any finite number of
\* requests: it is never decreased below zero, where it would wrap around.
THEOREM RequestsInFlightExact == ASSUME IsFiniteSet(Requests) PROVE R!Spec => []R!InFlightExact
<1>1. RequestsInv => R!InFlightExact
  <2> SUFFICES ASSUME RequestsInv PROVE R!InFlightExact
    OBVIOUS
  <2> DEFINE Q == {r \in Requests : R!InFlight(r)}
             L == {r \in Requests : gone[r] # "no" /\ answer[r] = "none" /\ ~R!InFlight(r)}
  <2>1. ASSUME NEW r \in Requests PROVE r \in CountedRequests <=> r \in Q \/ r \in L
    <3>1. /\ Life(r) /\ Waiting(r) /\ state[r] \in RequestPlaces
          /\ answer[r] \in R!Kinds \union {"none", "taken"}
      BY DEF RequestsInv, RequestTypes
    <3>2. CASE state[r] \in Outside
      BY <3>1, <3>2 DEF Life, Waiting, CountedRequests, R!InFlight, Outside, R!Kinds
    <3>3. CASE state[r] \notin Outside
      BY <3>1, <3>3 DEF Life, Waiting, CountedRequests, R!InFlight, RequestPlaces, R!Kinds
    <3> QED
      BY <3>2, <3>3
  <2>2. CountedRequests = Q \union L /\ Q \intersect L = {}
    BY <2>1 DEF CountedRequests
  <2>3. IsFiniteSet(Q) /\ IsFiniteSet(L)
    BY FS_Subset
  <2>4. Cardinality(Q \union L) = Cardinality(Q) + Cardinality(L)
    <3>1. Cardinality(Q) \in Nat /\ Cardinality(L) \in Nat
      BY <2>3, FS_CardinalityType
    <3>2. Cardinality(Q \intersect L) = 0
      BY <2>2, FS_EmptySet
    <3> HIDE DEF Q, L
    <3>3. Cardinality(Q \union L) = Cardinality(Q) + Cardinality(L) - Cardinality(Q \intersect L)
      BY <2>3, FS_Union
    <3> QED
      BY <3>1, <3>2, <3>3
  <2>5. requests_in_flight = Cardinality(CountedRequests)
    BY DEF RequestsInv
  <2>6. \A T : R!Cardinality(T) = Cardinality(T)
    BY DEF R!Cardinality, Cardinality
  <2>7. requests_in_flight = R!Cardinality(Q) + R!Cardinality(L)
    BY <2>2, <2>4, <2>5, <2>6
  <2> QED
    BY <2>7 DEF R!InFlightExact
<1> QED
  BY RequestsIndInv, <1>1, PTL

\* A message is released when its request is disposed of, and not before.
Released ==
  /\ \A r \in released : r \in Requests /\ state[r] = "disposed"
  /\ \A r \in Requests : gone[r] = "proxying" => answer[r] = "taken"

\* req_dispose releases the message of a request that no queue has, unless its client
\* has left; the handler releases one again that was disposed of in the queue.
LEMMA ReleasedStep == RequestsInv /\ Released /\ [R!Next]_R!vars => Released'
<1> SUFFICES ASSUME RequestsInv, Released, [R!Next]_R!vars PROVE Released'
  OBVIOUS
<1>0. RequestTypes /\ Queues /\ \A r \in Requests : Life(r) /\ Waiting(r)
  BY DEF RequestsInv
<1>1. ASSUME NEW q \in Requests, R!OnAccept(q) \/ R!EventLoopReqHandler(q) \/ R!Proxied(q)
      PROVE  Released'
  <2>1. /\ UNCHANGED <<released, answer, gone>> /\ state[q] # "disposed"
        /\ \A r \in Requests : r # q => state'[r] = state[r]
    BY <1>0, <1>1 DEF R!OnAccept, R!EventLoopReqHandler, R!Proxied, R!Goto, R!messages,
                      RequestTypes
  <2> QED
    BY <2>1 DEF Released
<1>2. ASSUME NEW q \in Requests, R!ReqDispose(q) PROVE Released'
  <2>1. /\ released' = released \union {q} /\ UNCHANGED answer /\ state'[q] = "disposed"
        /\ gone'[q] = "proxying" => state[q] = "proxying"
        /\ \A r \in Requests : r # q => state'[r] = state[r] /\ gone'[r] = gone[r]
    BY <1>0, <1>2 DEF R!ReqDispose, R!Goto, R!DropAt, RequestTypes
  <2>2. state[q] = "proxying" => answer[q] = "taken"
    BY <1>0 DEF Life
  <2> QED
    BY <2>1, <2>2 DEF Released
<1>3. CASE R!OnMessage
  <2>1. PICK q : /\ q = Head(event_loop_queue) /\ q \in Requests
                 /\ answer' = [answer EXCEPT ![q] = "taken"]
                 /\ IF req[q] THEN \E s \in R!Outcomes(answer[q]) : R!Goto(q, s)
                              ELSE UNCHANGED state
                 /\ UNCHANGED <<released, gone>>
    BY <1>0, <1>3, QueuedTail DEF R!OnMessage, R!Deliver, Queues
  <2>2. req[q] => state[q] # "disposed"
    BY <1>0, <2>1 DEF Life
  <2>3. \A r \in Requests : state[r] = "disposed" => state'[r] = state[r]
    BY <1>0, <2>1, <2>2 DEF R!Goto, RequestTypes
  <2>4. \A r \in Requests : answer[r] = "taken" => answer'[r] = "taken"
    BY <1>0, <2>1 DEF RequestTypes
  <2> QED
    BY <2>1, <2>3, <2>4 DEF Released
<1>4. CASE R!HandleGone
  <2>1. PICK q : /\ q = Head(handler_messages) /\ q \in Requests /\ ~req[q]
                 /\ R!Queued(handler_messages, q)
                 /\ released' = released \union {q}
                 /\ UNCHANGED <<state, answer, gone>>
    BY <1>0, <1>4, QueuedTail DEF R!HandleGone, Queues
  <2>2. state[q] = "disposed" /\ answer[q] = "none"
    BY <1>0, <2>1 DEF Life, Waiting
  <2> QED
    BY <2>1, <2>2 DEF Released
<1>5. ASSUME NEW k \in R!Kinds, R!Handler(k) PROVE Released'
  <2>1. PICK q : /\ q \in Requests /\ req[q]
                 /\ state' = [state EXCEPT ![q] = "answered"]
                 /\ answer' = [answer EXCEPT ![q] = k]
                 /\ UNCHANGED <<released, gone>>
    BY <1>0, <1>5, QueuedTail DEF R!Handler, R!Goto, Queues
  <2>2. state[q] # "disposed" /\ gone[q] = "no"
    BY <1>0, <2>1 DEF Life, Waiting
  <2>3. \A r \in Requests : r # q => state'[r] = state[r] /\ answer'[r] = answer[r]
    BY <1>0, <2>1 DEF RequestTypes
  <2> QED
    BY <2>1, <2>2, <2>3 DEF Released
<1>6. CASE R!LeaveEventLoop \/ R!Idle \/ UNCHANGED R!vars
  <2>1. UNCHANGED <<state, released, answer, gone>>
    BY <1>6 DEF R!LeaveEventLoop, R!Idle, R!vars, R!messages, R!queues
  <2> QED
    BY <2>1 DEF Released
<1> QED
  BY <1>1, <1>2, <1>3, <1>4, <1>5, <1>6 DEF R!Next, R!MainStep

\* A message is not released while it or its answer waits in a queue, unless its client
\* has left before the answer was sent, for any finite number of requests.
THEOREM RequestsReleasedUnused ==
  ASSUME IsFiniteSet(Requests) PROVE R!Spec => []R!ReleasedUnused
<1>1. R!Init => Released
  BY DEF R!Init, Released
<1>2. RequestsInv /\ Released => R!ReleasedUnused
  <2> SUFFICES ASSUME RequestsInv, Released, NEW r \in released, R!InFlight(r)
               PROVE  gone[r] \in {"queued", "answered"}
    BY DEF R!ReleasedUnused
  <2>1. /\ r \in Requests /\ state[r] = "disposed" /\ Waiting(r)
        /\ gone[r] \in {"no", "queued", "answered", "proxying"}
        /\ gone[r] = "proxying" => answer[r] = "taken"
    BY DEF Released, RequestsInv, RequestTypes
  <2>2. answer[r] # "taken"
    BY <2>1 DEF Waiting, R!InFlight, R!Kinds
  <2> QED
    BY <2>1, <2>2 DEF Waiting
<1> QED
  BY RequestsIndInv, ReleasedStep, <1>1, <1>2, PTL DEF R!Spec

----------------------------------------------------------------------------
(* The composed worker                                                     *)

\* Everything the worker does is a step of the threads or leaves them alone.
LEMMA StepOfThreads == [WorkerNext]_workerVars => [Next]_vars
<1> SUFFICES ASSUME [WorkerNext]_workerVars PROVE [Next]_vars
  OBVIOUS
<1>1. CASE Signals
  BY <1>1 DEF Signals, Next
<1>2. CASE MainThread
  BY <1>2 DEF MainThread, MainOnly, Reload, Handle, Next, MainStep
<1>3. CASE LoopThread
  BY <1>3 DEF LoopThread, LoopOnly, Take, Taken, Leave, Running, Next, LoopStep
<1>7. CASE Websocket \/ Fails \/ Crash
  BY <1>7 DEF Websocket, Fails, Crash, Running, Next
<1>4. ASSUME NEW r \in Requests, Request(r) \/ Connect(r) \/ Proxied(r) \/ ReqDispose(r)
      PROVE  Next
  BY <1>4 DEF Request, Connect, Proxied, ReqDispose, Running, Next
<1>5. CASE Idle
  BY <1>5 DEF Next
<1>6. CASE UNCHANGED workerVars
  BY <1>6 DEF workerVars
<1> QED
  BY <1>1, <1>2, <1>3, <1>4, <1>5, <1>6, <1>7 DEF WorkerNext

\* The worker behaves as HttpdThreads says.
LEMMA WorkerImplementsThreads == WorkerSpec => Spec
<1>1. WorkerInit => Init
  BY DEF WorkerInit
<1> QED
  BY <1>1, StepOfThreads, PTL DEF WorkerSpec, Spec

\* The condition variables of a worker with requests never have both threads wait.
THEOREM WorkerNotBothWaiting == WorkerSpec => []NotBothWaiting
  BY WorkerImplementsThreads, ThreadsNotBothWaiting, PTL

\* Everything the worker does is a step of the protocol of requests or leaves it
\* alone.
LEMMA StepOfRequests == [WorkerNext]_workerVars => [R!Next]_R!vars
<1> SUFFICES ASSUME [WorkerNext]_workerVars PROVE [R!Next]_R!vars
  OBVIOUS
<1>1. UNCHANGED requestVars => UNCHANGED R!vars
  BY DEF requestVars, R!vars, R!messages, R!queues
<1>2. CASE Signals \/ MainOnly \/ Reload \/ Fails \/ LoopOnly \/ Taken \/ Websocket \/ Crash
  BY <1>1, <1>2 DEF Signals, MainOnly, Reload, Fails, LoopOnly, Taken, Websocket, Crash
<1>3. CASE Handle
  BY <1>1, <1>3 DEF Handle, R!Next, R!MainStep
<1>4. CASE Take
  BY <1>4 DEF Take, R!Next
<1>5. CASE Leave
  BY <1>1, <1>5 DEF Leave, R!Next
<1>6. ASSUME NEW r \in Requests, Request(r) \/ Connect(r) \/ Proxied(r) \/ ReqDispose(r)
      PROVE  R!Next
  BY <1>6 DEF Request, Connect, Proxied, ReqDispose, R!Next
<1>7. CASE UNCHANGED requestVars \/ UNCHANGED workerVars
  BY <1>1, <1>7 DEF workerVars
<1> QED
  BY <1>2, <1>3, <1>4, <1>5, <1>6, <1>7 DEF WorkerNext, MainThread, LoopThread

\* The worker behaves as HttpdRequests says.
LEMMA WorkerImplementsRequests == WorkerSpec => R!Spec
<1>1. WorkerInit => R!Init
  BY DEF WorkerInit
<1> QED
  BY <1>1, StepOfRequests, PTL DEF WorkerSpec, R!Spec

\* requests_in_flight is exact in a worker that reloads and ends at any time, for any
\* finite number of requests and any number of reloads.
THEOREM WorkerInFlightExact == WorkerSpec => []InFlightExact
<1>1. R!Spec => []R!InFlightExact
  BY RequestsAssumption, RequestsInFlightExact
<1> QED
  BY <1>1, WorkerImplementsRequests, PTL DEF InFlightExact

\* In a worker that reloads, crashes and ends at any time, a message is not released
\* while it or its answer waits in a queue, unless its client has left before the answer
\* was sent.
THEOREM WorkerReleasedUnused == WorkerSpec => []ReleasedUnused
<1>1. R!Spec => []R!ReleasedUnused
  BY RequestsAssumption, RequestsReleasedUnused
<1> QED
  BY <1>1, WorkerImplementsRequests, PTL DEF ReleasedUnused
=============================================================================
