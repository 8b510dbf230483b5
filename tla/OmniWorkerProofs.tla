-------------------------- MODULE OmniWorkerProofs --------------------------
(***************************************************************************)
(* Proofs about OmniWorker, for any number of workers, calls and faults and *)
(* any capacity of the queue.                                              *)
(*                                                                         *)
(* What a call asks for is in one place at a time: in the queue, among the  *)
(* tasks of one worker, among its timers or with its timer thread.  It      *)
(* leaves when it is run, and nothing puts it back.                         *)
(***************************************************************************)
EXTENDS OmniWorker, SequenceTheorems, TLAPS

Timers == [id : Nat, call : Calls]

Messages ==
  [kind : {"sql", "after"}, call : Calls]
    \union [kind : {"execute", "run"}, call : Calls, id : Nat]
    \union [kind : {"cancel"}, call : Calls \union {None}, id : Nat \union Cancellable,
            role : {Role[c] : c \in Calls}]
    \union {Reload}

WorkerTypeOK ==
  /\ mq \in Seq(Messages)
  /\ kind \in [Calls -> {"none", "sql", "after", "cancel"}]
  /\ reply \in [Calls -> Int] /\ ready \in [Calls -> Nat]
  /\ pc \in [Calls -> {"start", "wait", "end"}]
  /\ result \in [Calls -> Int \union {None}] /\ interrupted \in [Calls -> BOOLEAN]
  /\ received \in [Workers -> Messages \union {None}]
  /\ receiver \in [Workers -> {"off", "on", "get", "resend"}]
  /\ tasks \in [Workers -> Seq(Messages)]
  /\ main \in [Workers -> {"next", "started", "ran", "call"}]
  /\ timers \in [Workers -> SUBSET Timers] /\ armed \in [Workers -> SUBSET Timers]
  /\ firing \in [Workers -> Timers \union {None}]
  /\ timer_id \in Nat /\ done \in BOOLEAN
  /\ runs \in [Calls -> Nat] /\ outcome \in [Calls -> {"none", "committed", "failed"}]
  /\ removed \in [Calls -> {"no", "armed", "expired"}]
  /\ autostarts \in Nat

Elems(s) == {s[i] : i \in DOMAIN s}

\* A message is of the kind of the call it names.
Asked(m) ==
  \/ m.kind = "reload"
  \/ m.kind = "sql" /\ m.call \in Calls /\ kind[m.call] = "sql"
  \/ m.kind \in {"after", "execute", "run"} /\ m.call \in Calls /\ kind[m.call] = "after"
  \/ m.kind = "cancel" /\ (m.call = None \/ (m.call \in Calls /\ kind[m.call] = "cancel"))

\* Nothing a worker has names a call that was not made.
KindsIn(w) ==
  /\ \A m \in Elems(tasks[w]) : Asked(m)
  /\ \A t \in timers[w] \union armed[w] : kind[t.call] = "after"
  /\ firing[w] # None => kind[firing[w].call] = "after"
  /\ receiver[w] = "resend" =>
       received[w] \in Messages /\ received[w].kind = "cancel" /\ Asked(received[w])

KindsAgree ==
  /\ \A m \in Elems(mq) : Asked(m)
  /\ \A w \in Workers : KindsIn(w)

\* Where the main thread of a worker is in the first task
MainIn(w) ==
  /\ main[w] # "next" => tasks[w] # <<>>
  /\ main[w] = "started" => w = leader /\ Head(tasks[w]).kind = "reload"
  /\ main[w] = "ran" => Head(tasks[w]).kind = "sql" /\ outcome[Head(tasks[w]).call] # "none"
  /\ main[w] = "call" => Head(tasks[w]).kind = "run"

MainOK == \A w \in Workers : MainIn(w)

\* Besides timers to run, the tasks s hold one message at most: the one, m, that the
\* receiver waits for, or the first reload.
OneMessage(s, r, m) ==
  \A i \in DOMAIN s : s[i].kind # "run" =>
    /\ \A j \in DOMAIN s : s[j].kind # "run" => j = i
    /\ (r = "get" /\ m = s[i]) \/ (r = "off" /\ s[i].kind = "reload")

ReceiverOK == \A w \in Workers : OneMessage(tasks[w], receiver[w], received[w])

----------------------------------------------------------------------------
(* Work in one place                                                       *)

\* A message whose processing runs, or leads to the run of, what c asks for
Carries(m, c) == m.kind \in {"sql", "after", "execute", "run"} /\ m.call = c
Has(s, c) == \E i \in DOMAIN s : Carries(s[i], c)
Once(s, c) == \A i, j \in DOMAIN s : Carries(s[i], c) /\ Carries(s[j], c) => i = j

\* Tasks without the one that was run
Left(s, at) == IF at = "ran" THEN Tail(s) ELSE s

ArmedFor(a, c) == \E t \in a : t.call = c
FiringFor(f, c) == f # None /\ f.call = c

\* A worker with tasks s, timers a and an expired timer f has the work of c.
Holds(c, s, a, f) == Has(s, c) \/ ArmedFor(a, c) \/ FiringFor(f, c)

\* ... in one place
HoldsOnce(c, s, a, f) ==
  /\ Once(s, c)
  /\ \A t, u \in a : t.call = c /\ u.call = c => t = u
  /\ ~(Has(s, c) /\ ArmedFor(a, c))
  /\ ~(Has(s, c) /\ FiringFor(f, c))
  /\ ~(ArmedFor(a, c) /\ FiringFor(f, c))

InWorker(c, w) == Holds(c, Left(tasks[w], main[w]), armed[w], firing[w])
Somewhere(c) == Has(mq, c) \/ \E w \in Workers : InWorker(c, w)

InOnePlace ==
  \A c \in Calls :
    /\ Once(mq, c)
    /\ \A w \in Workers :
         /\ HoldsOnce(c, Left(tasks[w], main[w]), armed[w], firing[w])
         /\ InWorker(c, w) => ~Has(mq, c) /\ \A v \in Workers : InWorker(c, v) => v = w

\* Work that is somewhere was neither run nor cancelled.
NotYetRun ==
  \A c \in Calls :
    /\ Somewhere(c) => kind[c] # "none" /\ runs[c] = 0 /\ removed[c] # "armed"
    /\ kind[c] = "none" => runs[c] = 0 /\ removed[c] # "armed"
    /\ runs[c] <= 1
    /\ removed[c] = "armed" => runs[c] = 0

\* The reply to a statement tells its outcome once there is one, and the semaphore
\* is posted after that.
ReplyOK(c) ==
  /\ pc[c] = "start" <=> kind[c] = "none"
  /\ kind[c] = "none" => ready[c] = 0 /\ result[c] = None /\ outcome[c] = "none"
  /\ outcome[c] # "none" => runs[c] > 0
  /\ kind[c] = "sql" =>
       /\ reply[c] = IF outcome[c] = "failed" THEN -1 ELSE 0
       /\ ~interrupted[c] /\ ready[c] > 0 => outcome[c] # "none"
       /\ ~interrupted[c] /\ result[c] # None => outcome[c] # "none" /\ result[c] = reply[c]

RepliesOK == \A c \in Calls : ReplyOK(c)

\* Autostart statements are run only by who has set done.
AutostartsOK ==
  /\ autostarts <= 1 /\ (autostarts = 1 => done)
  /\ leader \in Workers /\ main[leader] = "started" => done /\ autostarts = 0

WorkerInv ==
  /\ WorkerTypeOK /\ KindsAgree /\ MainOK /\ ReceiverOK
  /\ InOnePlace /\ NotYetRun /\ RepliesOK /\ AutostartsOK

----------------------------------------------------------------------------
(* Lemmas about messages and sequences of them                              *)

\* What is appended to a queue or to tasks is the only thing they gain.
LEMMA AppendFacts ==
  ASSUME NEW S, NEW s \in Seq(S), NEW m \in S
  PROVE  /\ Append(s, m) \in Seq(S)
         /\ Elems(Append(s, m)) = Elems(s) \union {m}
         /\ \A c : /\ Has(Append(s, m), c) <=> Has(s, c) \/ Carries(m, c)
                   /\ Once(s, c) /\ ~(Has(s, c) /\ Carries(m, c)) => Once(Append(s, m), c)
<1>1. /\ Append(s, m) \in Seq(S)
      /\ DOMAIN s = 1 .. Len(s) /\ Len(s) \in Nat
      /\ DOMAIN Append(s, m) = 1 .. Len(s) + 1
      /\ \A i \in 1 .. Len(s) : Append(s, m)[i] = s[i]
      /\ Append(s, m)[Len(s) + 1] = m
  BY AppendProperties, LenProperties
<1>2. Elems(Append(s, m)) = Elems(s) \union {m}
  <2>1. \A i \in 1 .. Len(s) + 1 : i \in 1 .. Len(s) \/ i = Len(s) + 1
    BY <1>1
  <2>2. Len(s) + 1 \in 1 .. Len(s) + 1 /\ \A i \in 1 .. Len(s) : i \in 1 .. Len(s) + 1
    BY <1>1
  <2> QED BY <1>1, <2>1, <2>2 DEF Elems
<1>3. ASSUME NEW c
      PROVE  /\ Has(Append(s, m), c) <=> Has(s, c) \/ Carries(m, c)
             /\ Once(s, c) /\ ~(Has(s, c) /\ Carries(m, c)) => Once(Append(s, m), c)
  <2>1. \A i \in 1 .. Len(s) + 1 : i \in 1 .. Len(s) \/ i = Len(s) + 1
    BY <1>1
  <2>2. Len(s) + 1 \in 1 .. Len(s) + 1 /\ \A i \in 1 .. Len(s) : i \in 1 .. Len(s) + 1
    BY <1>1
  <2> QED BY <1>1, <2>1, <2>2 DEF Has, Once
<1> QED BY <1>1, <1>2, <1>3

\* Taking the first message of a queue or the first task takes just that.
LEMMA TailFacts ==
  ASSUME NEW S, NEW s \in Seq(S), s # <<>>
  PROVE  /\ Tail(s) \in Seq(S) /\ Head(s) \in S /\ Head(s) \in Elems(s)
         /\ Elems(Tail(s)) \subseteq Elems(s)
         /\ \A c : /\ Has(s, c) <=> Carries(Head(s), c) \/ Has(Tail(s), c)
                   /\ Once(s, c) => Once(Tail(s), c) /\ ~(Carries(Head(s), c) /\ Has(Tail(s), c))
<1>1. /\ Tail(s) \in Seq(S) /\ Head(s) \in S /\ Head(s) = s[1]
      /\ DOMAIN s = 1 .. Len(s) /\ Len(s) \in Nat \ {0}
      /\ DOMAIN Tail(s) = 1 .. Len(s) - 1
      /\ \A i \in 1 .. Len(s) - 1 : Tail(s)[i] = s[i + 1]
  BY HeadTailProperties, EmptySeq, LenProperties
<1>2. /\ 1 \in 1 .. Len(s)
      /\ \A i \in 1 .. Len(s) - 1 : i + 1 \in 1 .. Len(s) /\ i + 1 # 1
      /\ \A i \in 1 .. Len(s) : i = 1 \/ (i - 1 \in 1 .. Len(s) - 1 /\ (i - 1) + 1 = i)
      /\ \A i, j \in 1 .. Len(s) - 1 : i + 1 = j + 1 => i = j
  BY <1>1
<1>3. Head(s) \in Elems(s) /\ Elems(Tail(s)) \subseteq Elems(s)
  BY <1>1, <1>2 DEF Elems
<1>4. ASSUME NEW c
      PROVE  /\ Has(s, c) <=> Carries(Head(s), c) \/ Has(Tail(s), c)
             /\ Once(s, c) => Once(Tail(s), c) /\ ~(Carries(Head(s), c) /\ Has(Tail(s), c))
  <2>1. Has(s, c) <=> Carries(Head(s), c) \/ Has(Tail(s), c)
    <3>1. ASSUME NEW i \in 1 .. Len(s), Carries(s[i], c), i # 1
          PROVE  Carries(Tail(s)[i - 1], c) /\ i - 1 \in 1 .. Len(s) - 1
      BY <3>1, <1>1, <1>2
    <3>2. Has(s, c) => Carries(Head(s), c) \/ Has(Tail(s), c)
      BY <3>1, <1>1 DEF Has
    <3>3. Has(Tail(s), c) => Has(s, c)
      BY <1>1, <1>2 DEF Has
    <3> QED BY <1>1, <1>2, <3>2, <3>3 DEF Has
  <2>2. Once(s, c) => Once(Tail(s), c)
    BY <1>1, <1>2 DEF Once
  <2>3. Once(s, c) => ~(Carries(Head(s), c) /\ Has(Tail(s), c))
    BY <1>1, <1>2 DEF Once, Has
  <2> QED BY <2>1, <2>2, <2>3
<1> QED BY <1>1, <1>3, <1>4

\* A task is appended behind the one that was run.
LEMMA TailAppend ==
  ASSUME NEW S, NEW s \in Seq(S), NEW m \in S, s # <<>>
  PROVE  /\ Tail(Append(s, m)) = Append(Tail(s), m) /\ Head(Append(s, m)) = Head(s)
         /\ Append(s, m) # <<>>
<1>1. /\ Tail(s) \in Seq(S) /\ Head(s) = s[1] /\ Len(s) \in Nat \ {0} /\ Len(Tail(s)) = Len(s) - 1
      /\ \A i \in 1 .. Len(s) - 1 : Tail(s)[i] = s[i + 1]
  BY HeadTailProperties, EmptySeq, LenProperties
<1>2. /\ Append(s, m) \in Seq(S) /\ Append(s, m) # <<>> /\ Len(Append(s, m)) = Len(s) + 1
      /\ \A i \in 1 .. Len(s) : Append(s, m)[i] = s[i]
      /\ Append(s, m)[Len(s) + 1] = m
  BY AppendProperties
<1>3. /\ Tail(Append(s, m)) \in Seq(S) /\ Head(Append(s, m)) = Append(s, m)[1]
      /\ Len(Tail(Append(s, m))) = Len(s)
      /\ \A i \in 1 .. Len(s) : Tail(Append(s, m))[i] = Append(s, m)[i + 1]
  BY <1>1, <1>2, HeadTailProperties
<1>4. /\ Append(Tail(s), m) \in Seq(S) /\ Len(Append(Tail(s), m)) = Len(s)
      /\ \A i \in 1 .. Len(s) - 1 : Append(Tail(s), m)[i] = Tail(s)[i]
      /\ Append(Tail(s), m)[Len(s)] = m
  BY <1>1, AppendProperties
<1>5. ASSUME NEW i \in 1 .. Len(s) PROVE Tail(Append(s, m))[i] = Append(Tail(s), m)[i]
  <2>1. CASE i = Len(s)
    BY <2>1, <1>1, <1>2, <1>3, <1>4
  <2>2. CASE i # Len(s)
    <3>1. i \in 1 .. Len(s) - 1 /\ i + 1 \in 1 .. Len(s)
      <4>1. Len(s) \in Nat
        BY <1>1
      <4> QED BY <4>1, <2>2
    <3> QED BY <3>1, <1>1, <1>2, <1>3, <1>4
  <2> QED BY <2>1, <2>2
<1>6. Tail(Append(s, m)) = Append(Tail(s), m)
  BY <1>3, <1>4, <1>5, SeqEqual
<1>7. Head(Append(s, m)) = Head(s)
  BY <1>1, <1>2, <1>3
<1> QED BY <1>2, <1>6, <1>7

\* Messages are of one of six kinds.
LEMMA MessageKinds ==
  ASSUME NEW m \in Messages
  PROVE  /\ m.kind \in {"sql", "after", "execute", "run", "cancel", "reload"}
         /\ m.kind \in {"sql", "after", "execute", "run"} => m.call \in Calls
         /\ m.kind \in {"execute", "run"} => m.id \in Nat
         /\ m.kind \in {"execute", "run"} =>
              /\ [m EXCEPT !.kind = "run"] \in Messages
              /\ [m EXCEPT !.kind = "run"].kind = "run"
              /\ [m EXCEPT !.kind = "run"].call = m.call
         /\ m.kind = "cancel" => m.call \in Calls \union {None}
BY DEF Messages, Reload

\* The messages that the functions, the threads and the hooks send
LEMMA MessageForms ==
  /\ \A c \in Calls : /\ Sql(c) \in Messages /\ Sql(c).kind = "sql" /\ Sql(c).call = c
                      /\ After(c) \in Messages /\ After(c).kind = "after" /\ After(c).call = c
  /\ \A c \in Calls \union {None}, d \in Calls, i \in Nat \union Cancellable :
       /\ Cancel(c, i, Role[d]) \in Messages /\ Cancel(c, i, Role[d]).kind = "cancel"
       /\ Cancel(c, i, Role[d]).call = c
  /\ \A t \in Timers : /\ Execute(t) \in Messages /\ Execute(t).kind = "execute"
                       /\ Execute(t).call = t.call
  /\ Reload \in Messages /\ Reload.kind = "reload"
BY DEF Messages, Sql, After, Cancel, Execute, Reload, Timers

----------------------------------------------------------------------------
(* Types                                                                   *)

\* What the functions of sessions and the transaction hook do keeps types.
LEMMA SessionType ==
  ASSUME WorkerTypeOK,
         \/ \E c \in Calls :
              sql(c) \/ timer_after(c) \/ timer_cancel(c) \/ Return(c) \/ Interrupt(c)
         \/ reload_handlers \/ Abort \/ Commit \/ XactCallback
  PROVE  WorkerTypeOK'
<1>0. \A m \in Messages : Append(mq, m) \in Seq(Messages)
  BY AppendFacts DEF WorkerTypeOK
<1>1. ASSUME NEW c \in Calls, NEW k \in {"sql", "after", "cancel"}, NEW m \in Messages,
             Call(c, k, m, 0), UNCHANGED result,
             pc' \in {[pc EXCEPT ![c] = "wait"], [pc EXCEPT ![c] = "end"]}
      PROVE  WorkerTypeOK'
  <2>1. mq' \in Seq(Messages)
    BY <1>0, <1>1 DEF Call, Send
  <2>2. pc' \in [Calls -> {"start", "wait", "end"}]
    BY <1>1 DEF WorkerTypeOK
  <2> QED BY <1>1, <2>1, <2>2 DEF WorkerTypeOK, Call, threads, clocks, shmem, history
<1>2. ASSUME NEW c \in Calls, sql(c) \/ timer_after(c) PROVE WorkerTypeOK'
  BY <1>1, <1>2, MessageForms DEF sql, timer_after
<1>3. ASSUME NEW c \in Calls, timer_cancel(c) PROVE WorkerTypeOK'
  <2>1. PICK i \in Cancellable : Call(c, "cancel", Cancel(c, i, Role[c]), 0)
    BY <1>3 DEF timer_cancel
  <2>2. Cancel(c, i, Role[c]) \in Messages
    BY MessageForms
  <2> QED BY <1>1, <1>3, <2>1, <2>2 DEF timer_cancel
<1>4. ASSUME NEW c \in Calls, Return(c) PROVE WorkerTypeOK'
  <2>1. ready' \in [Calls -> Nat]
    <3>1. CASE ready[c] > 0
      <4>1. ready[c] \in Nat
        BY DEF WorkerTypeOK
      <4>2. ready[c] - 1 \in Nat
        BY <3>1, <4>1
      <4> QED BY <3>1, <4>2, <1>4 DEF WorkerTypeOK, Return
    <3>2. CASE ~(ready[c] > 0)
      BY <3>2, <1>4 DEF WorkerTypeOK, Return
    <3> QED BY <3>1, <3>2
  <2>2. pc' \in [Calls -> {"start", "wait", "end"}]
    BY <1>4 DEF WorkerTypeOK, Return
  <2>3. result' \in [Calls -> Int \union {None}]
    <3>1. reply[c] \in Int \union {None} /\ result \in [Calls -> Int \union {None}]
      BY DEF WorkerTypeOK
    <3>2. result' = [result EXCEPT ![c] = reply[c]] \/ result' = result
      BY <1>4 DEF Return
    <3> QED BY <3>1, <3>2
  <2> QED BY <1>4, <2>1, <2>2, <2>3 DEF WorkerTypeOK, Return, threads, clocks, shmem, history
<1>5. ASSUME NEW c \in Calls, Interrupt(c) PROVE WorkerTypeOK'
  BY <1>5 DEF WorkerTypeOK, Interrupt, Event, catalog, threads, clocks, shmem, history
<1>6. ASSUME reload_handlers \/ Abort \/ Commit PROVE WorkerTypeOK'
  BY <1>6 DEF WorkerTypeOK, reload_handlers, Abort, Commit, calls, threads, clocks, shmem, history
<1>7. ASSUME XactCallback PROVE WorkerTypeOK'
  BY <1>7, AppendFacts, MessageForms
     DEF WorkerTypeOK, XactCallback, Send, calls, threads, clocks, shmem, history
<1> QED BY <1>2, <1>3, <1>4, <1>5, <1>6, <1>7

\* A receiver takes a message for the main thread or drops it.
LEMMA ReceiveForms ==
  ASSUME NEW w \in Workers, Receive(w)
  PROVE  /\ receiver[w] = "on" /\ mq # <<>> /\ mq' = Tail(mq)
         /\ \/ /\ received' = [received EXCEPT ![w] = Head(mq)]
               /\ receiver' = [receiver EXCEPT ![w] = "get"]
               /\ tasks' = [tasks EXCEPT ![w] = Append(@, Head(mq))]
            \/ UNCHANGED <<received, receiver, tasks>>
         /\ UNCHANGED <<calls, main, clocks, shmem, runs, outcome, removed, autostarts>>
BY DEF Receive

\* The threads of a worker keep types.  A message that is sent again is one that was
\* received.
LEMMA ThreadType ==
  ASSUME WorkerTypeOK, KindsAgree, MainOK, NEW w \in Workers, Receiver(w) \/ Main(w) \/ Timer(w)
  PROVE  WorkerTypeOK'
<1>1. ASSUME Receive(w) PROVE WorkerTypeOK'
  <2>1. mq \in Seq(Messages) /\ mq # <<>> /\ tasks[w] \in Seq(Messages)
    BY <1>1 DEF Receive, WorkerTypeOK
  <2>2. Head(mq) \in Messages /\ Tail(mq) \in Seq(Messages)
    BY <2>1, TailFacts
  <2>3. Append(tasks[w], Head(mq)) \in Seq(Messages)
    BY <2>1, <2>2, AppendFacts
  <2>4. /\ received \in [Workers -> Messages \union {None}]
        /\ receiver \in [Workers -> {"off", "on", "get", "resend"}]
        /\ tasks \in [Workers -> Seq(Messages)]
    BY DEF WorkerTypeOK
  <2>5. /\ received' = [received EXCEPT ![w] = Head(mq)] \/ received' = received
        /\ receiver' = [receiver EXCEPT ![w] = "get"] \/ receiver' = receiver
        /\ tasks' = [tasks EXCEPT ![w] = Append(@, Head(mq))] \/ tasks' = tasks
    BY <1>1, ReceiveForms
  <2>6. tasks' \in [Workers -> Seq(Messages)]
    BY <2>3, <2>4, <2>5
  <2>7. /\ received' \in [Workers -> Messages \union {None}]
        /\ receiver' \in [Workers -> {"off", "on", "get", "resend"}]
    BY <2>2, <2>4, <2>5
  <2>8. mq' = Tail(mq) /\ UNCHANGED <<calls, main, clocks, shmem, runs, outcome, removed, autostarts>>
    BY <1>1, ReceiveForms
  <2> QED BY <2>2, <2>6, <2>7, <2>8 DEF WorkerTypeOK, calls, clocks, shmem
<1>2. ASSUME Resend(w) PROVE WorkerTypeOK'
  <2>1. received[w] \in Messages
    BY <1>2 DEF Resend, KindsAgree, KindsIn
  <2> QED BY <1>2, <2>1, AppendFacts DEF WorkerTypeOK, Resend, Send, calls, clocks, shmem, history
<1>3. ASSUME tasks[w] # <<>>
      PROVE  /\ Head(tasks[w]) \in Messages /\ Tail(tasks[w]) \in Seq(Messages)
             /\ \A m \in Messages : Append(Tail(tasks[w]), m) \in Seq(Messages)
  BY <1>3, TailFacts, AppendFacts DEF WorkerTypeOK
<1>4. ASSUME DoReload(w) PROVE WorkerTypeOK'
  BY <1>3, <1>4 DEF WorkerTypeOK, DoReload, Task, Finish, calls, clocks, shmem, history
<1>5. ASSUME InitSql(w) PROVE WorkerTypeOK'
  BY <1>5 DEF WorkerTypeOK, InitSql, calls, clocks, history
<1>6. ASSUME AutostartCommit(w) PROVE WorkerTypeOK'
  <2>1. tasks[w] # <<>>
    BY <1>6 DEF AutostartCommit, MainOK, MainIn
  <2> QED BY <1>3, <1>6, <2>1 DEF WorkerTypeOK, AutostartCommit, Finish, calls, clocks, shmem
<1>7. ASSUME SqlRun(w) PROVE WorkerTypeOK'
  <2>1. Head(tasks[w]).call \in Calls
    BY <1>3, <1>7, MessageKinds DEF SqlRun, Task
  <2>2. runs' \in [Calls -> Nat] /\ outcome' \in [Calls -> {"none", "committed", "failed"}]
    BY <1>7, <2>1 DEF WorkerTypeOK, SqlRun
  <2>3. reply' \in [Calls -> Int]
    BY <1>7, <2>1 DEF WorkerTypeOK, SqlRun
  <2> QED BY <1>7, <2>2, <2>3 DEF WorkerTypeOK, SqlRun, clocks, shmem
<1>8. ASSUME SqlPost(w) PROVE WorkerTypeOK'
  <2>1. tasks[w] # <<>> /\ Head(tasks[w]).kind = "sql"
    BY <1>8 DEF SqlPost, MainOK, MainIn
  <2>2. Head(tasks[w]).call \in Calls
    BY <1>3, <2>1, MessageKinds
  <2> QED BY <1>3, <1>8, <2>1, <2>2 DEF WorkerTypeOK, SqlPost, Post, Finish, clocks, shmem, history
<1>9. ASSUME TimerAfter(w) PROVE WorkerTypeOK'
  <2>1. Head(tasks[w]).call \in Calls
    BY <1>3, <1>9, MessageKinds DEF TimerAfter, Task
  <2>2. [id |-> timer_id, call |-> Head(tasks[w]).call] \in Timers
    BY <2>1 DEF Timers, WorkerTypeOK
  <2>3. timers' \in [Workers -> SUBSET Timers] /\ armed' \in [Workers -> SUBSET Timers]
    BY <1>9, <2>2 DEF WorkerTypeOK, TimerAfter
  <2>4. reply' \in [Calls -> Int] /\ ready' \in [Calls -> Nat] /\ timer_id' \in Nat
    BY <1>9, <2>1 DEF WorkerTypeOK, TimerAfter, Post
  <2>5. Tail(tasks[w]) \in Seq(Messages)
    BY <1>3, <1>9 DEF TimerAfter, Task
  <2>6. /\ tasks' \in [Workers -> Seq(Messages)]
        /\ main' \in [Workers -> {"next", "started", "ran", "call"}]
        /\ receiver' \in [Workers -> {"off", "on", "get", "resend"}]
        /\ received' \in [Workers -> Messages \union {None}]
    BY <1>9, <2>5 DEF WorkerTypeOK, TimerAfter, Finish
  <2> QED BY <1>9, <2>3, <2>4, <2>6 DEF WorkerTypeOK, TimerAfter, history
<1>10. ASSUME TimerCancel(w) PROVE WorkerTypeOK'
  <2>1. Head(tasks[w]).call \in Calls \union {None}
    BY <1>3, <1>10, MessageKinds DEF TimerCancel, Task
  <2> DEFINE m == Head(tasks[w])
             ts == Cancelled(w, m)
  <2>2. reply' \in [Calls -> Int] /\ ready' \in [Calls -> Nat]
    <3>1. CASE ts # {} /\ m.call # None
      <4>1. m.call \in Calls
        BY <2>1, <3>1
      <4> QED BY <1>10, <3>1, <4>1 DEF WorkerTypeOK, TimerCancel, Post
    <3>2. CASE ~(ts # {} /\ m.call # None)
      BY <1>10, <3>2 DEF WorkerTypeOK, TimerCancel
    <3> QED BY <3>1, <3>2
  <2>3. timers' \in [Workers -> SUBSET Timers] /\ armed' \in [Workers -> SUBSET Timers]
    BY <1>10 DEF WorkerTypeOK, TimerCancel
  <2>4. removed' \in [Calls -> {"no", "armed", "expired"}]
    BY <1>10 DEF WorkerTypeOK, TimerCancel
  <2>5. tasks[w] # <<>>
    BY <1>10 DEF TimerCancel, Task
  <2>6. Tail(tasks[w]) \in Seq(Messages)
    BY <1>3, <2>5
  <2>7. /\ tasks' \in [Workers -> Seq(Messages)]
        /\ main' \in [Workers -> {"next", "started", "ran", "call"}]
        /\ receiver' \in [Workers -> {"off", "on", "get", "resend"}]
        /\ received' \in [Workers -> Messages \union {None}]
    BY <1>10, <2>6 DEF WorkerTypeOK, TimerCancel, Finish
  <2> QED BY <1>10, <2>2, <2>3, <2>4, <2>7 DEF WorkerTypeOK, TimerCancel, shmem
<1>11. ASSUME TimerExecute(w) PROVE WorkerTypeOK'
  <2>1. [Head(tasks[w]) EXCEPT !.kind = "run"] \in Messages
    BY <1>3, <1>11, MessageKinds DEF TimerExecute, Task
  <2> QED BY <1>3, <1>11, <2>1
          DEF WorkerTypeOK, TimerExecute, Task, calls, clocks, shmem, history
<1>12. ASSUME ExecuteCancel(w) PROVE WorkerTypeOK'
  <2> DEFINE m == Head(tasks[w])
  <2>1. m.call \in Calls /\ m.id \in Nat
    BY <1>3, <1>12, MessageKinds DEF ExecuteCancel, Task
  <2>2. Cancel(None, m.id, Role[m.call]) \in Messages
    BY <2>1, MessageForms
  <2> QED BY <1>12, <2>2, AppendFacts
          DEF WorkerTypeOK, ExecuteCancel, Send, calls, clocks, shmem, history
<1>13. ASSUME ExecuteRun(w) PROVE WorkerTypeOK'
  <2>1. tasks[w] # <<>> /\ Head(tasks[w]).kind = "run"
    BY <1>13 DEF ExecuteRun, MainOK, MainIn
  <2>2. Head(tasks[w]).call \in Calls
    BY <1>3, <2>1, MessageKinds
  <2>3. Tail(tasks[w]) \in Seq(Messages)
    BY <1>3, <2>1
  <2>4. runs' \in [Calls -> Nat]
    BY <1>13, <2>2 DEF WorkerTypeOK, ExecuteRun
  <2>5. /\ tasks' \in [Workers -> Seq(Messages)]
        /\ main' \in [Workers -> {"next", "started", "ran", "call"}]
    BY <1>13, <2>3 DEF WorkerTypeOK, ExecuteRun
  <2> QED BY <1>13, <2>4, <2>5 DEF WorkerTypeOK, ExecuteRun, calls, clocks, shmem
<1>14. ASSUME Expire(w) PROVE WorkerTypeOK'
  BY <1>14 DEF WorkerTypeOK, Expire, calls, threads, shmem, history
<1>15. ASSUME Fire(w) PROVE WorkerTypeOK'
  <2>1. firing[w] \in Timers
    BY <1>15 DEF Fire, WorkerTypeOK
  <2>2. Execute(firing[w]) \in Messages
    BY <2>1, MessageForms
  <2> QED BY <1>15, <2>2, AppendFacts DEF WorkerTypeOK, Fire, Send, calls, threads, shmem, history
<1> QED BY <1>1, <1>2, <1>4, <1>5, <1>6, <1>7, <1>8, <1>9, <1>10, <1>11, <1>12, <1>13, <1>14, <1>15
        DEF Receiver, Main, Timer

\* Processes start with the first reload as their only task.
LEMMA FaultType ==
  ASSUME WorkerTypeOK, (\E w \in Workers : Terminate(w)) \/ Restart
  PROVE  WorkerTypeOK'
<1>1. <<Reload>> \in Seq(Messages)
  BY MessageForms
<1>2. ASSUME NEW W, Processes(W)
      PROVE  /\ received' \in [Workers -> Messages \union {None}]
             /\ receiver' \in [Workers -> {"off", "on", "get", "resend"}]
             /\ tasks' \in [Workers -> Seq(Messages)]
             /\ main' \in [Workers -> {"next", "started", "ran", "call"}]
             /\ timers' \in [Workers -> SUBSET Timers] /\ armed' \in [Workers -> SUBSET Timers]
             /\ firing' \in [Workers -> Timers \union {None}]
  BY <1>1, <1>2 DEF WorkerTypeOK, Processes
<1>3. ASSUME NEW w \in Workers, Terminate(w) PROVE WorkerTypeOK'
  BY <1>2, <1>3 DEF WorkerTypeOK, Terminate, calls, shmem
<1>4. ASSUME Restart PROVE WorkerTypeOK'
  BY <1>2, <1>4 DEF WorkerTypeOK, Restart
<1> QED BY <1>3, <1>4

----------------------------------------------------------------------------
(* Frames: a thread changes its own worker only                             *)

Alone(w) ==
  \A v \in Workers \ {w} :
    /\ tasks'[v] = tasks[v] /\ main'[v] = main[v]
    /\ receiver'[v] = receiver[v] /\ received'[v] = received[v]
    /\ timers'[v] = timers[v] /\ armed'[v] = armed[v] /\ firing'[v] = firing[v]

\* Calls that were made stay of their kind, and outcomes stay.
Kept ==
  \A c \in Calls : /\ kind[c] # "none" => kind'[c] = kind[c]
                   /\ outcome[c] # "none" => outcome'[c] # "none"

LEMMA ReceiverFrame ==
  ASSUME WorkerTypeOK, NEW w \in Workers, Receiver(w) \/ Timer(w)
  PROVE  Alone(w) /\ Kept /\ kind' = kind
<1>1. ASSUME Receive(w) PROVE Alone(w) /\ Kept /\ kind' = kind
  BY <1>1, ReceiveForms DEF WorkerTypeOK, Alone, Kept, calls, clocks
<1>2. ASSUME Resend(w) PROVE Alone(w) /\ Kept /\ kind' = kind
  BY <1>2 DEF WorkerTypeOK, Resend, Alone, Kept, calls, clocks, history
<1>3. ASSUME Expire(w) PROVE Alone(w) /\ Kept /\ kind' = kind
  BY <1>3 DEF WorkerTypeOK, Expire, Alone, Kept, calls, threads, history
<1>4. ASSUME Fire(w) PROVE Alone(w) /\ Kept /\ kind' = kind
  BY <1>4 DEF WorkerTypeOK, Fire, Alone, Kept, calls, threads, history
<1> QED BY <1>1, <1>2, <1>3, <1>4 DEF Receiver, Timer

LEMMA MainFrame ==
  ASSUME WorkerTypeOK, NEW w \in Workers, Main(w)
  PROVE  Alone(w) /\ Kept /\ kind' = kind
<1>1. ASSUME DoReload(w) \/ InitSql(w) \/ AutostartCommit(w) PROVE Alone(w) /\ Kept /\ kind' = kind
  BY <1>1 DEF WorkerTypeOK, DoReload, InitSql, AutostartCommit, Finish, Alone, Kept, calls, clocks,
              history
<1>2. ASSUME SqlRun(w) PROVE Alone(w) /\ Kept /\ kind' = kind
  <2>1. Alone(w) /\ kind' = kind
    BY <1>2 DEF WorkerTypeOK, SqlRun, Alone, clocks
  <2>2. \A c \in Calls : outcome[c] # "none" => outcome'[c] # "none"
    <3>1. PICK o \in {"committed", "failed"} :
            outcome' = [outcome EXCEPT ![Head(tasks[w]).call] = o]
      BY <1>2 DEF SqlRun
    <3> QED BY <3>1 DEF WorkerTypeOK
  <2> QED BY <2>1, <2>2 DEF Kept
<1>3. ASSUME SqlPost(w) PROVE Alone(w) /\ Kept /\ kind' = kind
  BY <1>3 DEF WorkerTypeOK, SqlPost, Finish, Alone, Kept, clocks, history
<1>4. ASSUME TimerAfter(w) PROVE Alone(w) /\ Kept /\ kind' = kind
  BY <1>4 DEF WorkerTypeOK, TimerAfter, Finish, Alone, Kept, history
<1>5. ASSUME TimerCancel(w) PROVE Alone(w) /\ Kept /\ kind' = kind
  BY <1>5 DEF WorkerTypeOK, TimerCancel, Finish, Alone, Kept
<1>6. ASSUME TimerExecute(w) \/ ExecuteCancel(w) \/ ExecuteRun(w)
      PROVE  Alone(w) /\ Kept /\ kind' = kind
  BY <1>6 DEF WorkerTypeOK, TimerExecute, ExecuteCancel, ExecuteRun, Alone, Kept, calls, clocks,
              history
<1> QED BY <1>1, <1>2, <1>3, <1>4, <1>5, <1>6 DEF Main

\* A message stays asked for.
LEMMA AskedKept ==
  ASSUME Kept, NEW m, Asked(m)
  PROVE  Asked(m)'
BY DEF Kept, Asked

\* What holds of the other workers still holds.
LEMMA ControlKept ==
  ASSUME WorkerTypeOK, KindsAgree, MainOK, ReceiverOK, Kept, NEW v \in Workers,
         tasks'[v] = tasks[v], main'[v] = main[v],
         receiver'[v] = receiver[v], received'[v] = received[v],
         timers'[v] = timers[v], armed'[v] = armed[v], firing'[v] = firing[v]
  PROVE  KindsIn(v)' /\ MainIn(v)' /\ OneMessage(tasks[v], receiver[v], received[v])'
<1>1. KindsIn(v) /\ MainIn(v) /\ OneMessage(tasks[v], receiver[v], received[v])
  BY DEF KindsAgree, MainOK, ReceiverOK
<1>2. KindsIn(v)'
  <2>1. \A m \in Elems(tasks'[v]) : Asked(m)'
    BY <1>1, AskedKept DEF KindsIn
  <2>2. \A t \in timers'[v] \union armed'[v] : kind'[t.call] = "after"
    <3>1. \A t \in timers[v] \union armed[v] : t.call \in Calls /\ kind[t.call] = "after"
      BY <1>1 DEF KindsIn, WorkerTypeOK, Timers
    <3> QED BY <3>1 DEF Kept
  <2>3. firing'[v] # None => kind'[firing'[v].call] = "after"
    <3>1. firing[v] # None => firing[v].call \in Calls /\ kind[firing[v].call] = "after"
      BY <1>1 DEF KindsIn, WorkerTypeOK, Timers
    <3> QED BY <3>1 DEF Kept
  <2>4. receiver'[v] = "resend" =>
          received'[v] \in Messages /\ received'[v].kind = "cancel" /\ Asked(received[v])'
    <3>1. receiver[v] = "resend" => Asked(received[v])'
      <4>1. \A m : Asked(m) => Asked(m)'
        BY AskedKept
      <4>2. receiver[v] = "resend" => Asked(received[v])
        BY <1>1 DEF KindsIn
      <4> QED BY <4>1, <4>2 DEF Asked, Kept
    <3> QED BY <1>1, <3>1 DEF KindsIn
  <2> QED BY <2>1, <2>2, <2>3, <2>4 DEF KindsIn
<1>3. MainIn(v)'
  <2>1. main[v] = "ran" => Head(tasks[v]).call \in Calls
    <3>1. main[v] = "ran" => tasks[v] # <<>> /\ Head(tasks[v]).kind = "sql"
      BY <1>1 DEF MainIn
    <3>2. tasks[v] # <<>> => Head(tasks[v]) \in Messages
      BY TailFacts DEF WorkerTypeOK
    <3> QED BY <3>1, <3>2, MessageKinds
  <2> QED BY <1>1, <2>1 DEF MainIn, Kept
<1>4. OneMessage(tasks[v], receiver[v], received[v])'
  BY <1>1
<1> QED BY <1>2, <1>3, <1>4

----------------------------------------------------------------------------
(* Control: what a worker's threads have at hand                           *)

AllRun(s) == \A i \in DOMAIN s : s[i].kind = "run"

\* Tasks hold one message besides timers to run, through what threads do to them.
LEMMA OneMessageFacts ==
  ASSUME NEW s \in Seq(Messages), NEW r, NEW m
  PROVE  /\ AllRun(s) => OneMessage(s, r, m)
         /\ OneMessage(s, r, m) /\ r \notin {"get", "off"} => AllRun(s)
         /\ AllRun(s) => \A x \in Messages : /\ OneMessage(Append(s, x), "get", x)
                                             /\ x.kind = "run" => AllRun(Append(s, x))
         /\ s # <<>> /\ OneMessage(s, r, m) =>
              /\ OneMessage(Tail(s), r, m)
              /\ Head(s).kind # "run" =>
                   AllRun(Tail(s)) /\ (m = Head(s) \/ Head(s).kind = "reload")
<1>1. AllRun(s) => OneMessage(s, r, m)
  BY DEF AllRun, OneMessage
<1>2. OneMessage(s, r, m) /\ r \notin {"get", "off"} => AllRun(s)
  BY DEF AllRun, OneMessage
<1>3. ASSUME AllRun(s), NEW x \in Messages
      PROVE  /\ OneMessage(Append(s, x), "get", x)
             /\ x.kind = "run" => AllRun(Append(s, x))
  <2>1. /\ DOMAIN s = 1 .. Len(s) /\ Len(s) \in Nat /\ DOMAIN Append(s, x) = 1 .. Len(s) + 1
        /\ \A i \in 1 .. Len(s) : Append(s, x)[i] = s[i]
        /\ Append(s, x)[Len(s) + 1] = x
    BY AppendProperties, LenProperties
  <2>2. \A i \in 1 .. Len(s) + 1 : i \in 1 .. Len(s) \/ i = Len(s) + 1
    BY <2>1
  <2>3. \A i \in 1 .. Len(s) + 1 : Append(s, x)[i].kind # "run" => i = Len(s) + 1
    BY <1>3, <2>1, <2>2 DEF AllRun
  <2>4. OneMessage(Append(s, x), "get", x)
    BY <2>1, <2>3 DEF OneMessage
  <2> QED BY <1>3, <2>1, <2>2, <2>4 DEF AllRun
<1>4. ASSUME s # <<>>, OneMessage(s, r, m)
      PROVE  /\ OneMessage(Tail(s), r, m)
             /\ Head(s).kind # "run" =>
                  AllRun(Tail(s)) /\ (m = Head(s) \/ Head(s).kind = "reload")
  <2>1. /\ Head(s) = s[1] /\ DOMAIN s = 1 .. Len(s) /\ Len(s) \in Nat \ {0}
        /\ DOMAIN Tail(s) = 1 .. Len(s) - 1
        /\ \A i \in 1 .. Len(s) - 1 : Tail(s)[i] = s[i + 1]
    BY <1>4, HeadTailProperties, EmptySeq, LenProperties
  <2>2. /\ 1 \in 1 .. Len(s)
        /\ \A i \in 1 .. Len(s) - 1 : i + 1 \in 1 .. Len(s) /\ i + 1 # 1
        /\ \A i, j \in 1 .. Len(s) - 1 : i + 1 = j + 1 => i = j
    BY <2>1
  <2>3. OneMessage(Tail(s), r, m)
    BY <1>4, <2>1, <2>2 DEF OneMessage
  <2>4. Head(s).kind # "run" => AllRun(Tail(s))
    BY <1>4, <2>1, <2>2 DEF OneMessage, AllRun
  <2>5. Head(s).kind # "run" => m = Head(s) \/ Head(s).kind = "reload"
    BY <1>4, <2>1, <2>2 DEF OneMessage
  <2> QED BY <2>3, <2>4, <2>5
<1> QED BY <1>1, <1>2, <1>3, <1>4

\* The first task of a worker that has one
LEMMA FirstTask ==
  ASSUME WorkerTypeOK, KindsAgree, ReceiverOK, NEW w \in Workers, tasks[w] # <<>>
  PROVE  /\ Head(tasks[w]) \in Messages /\ Asked(Head(tasks[w]))
         /\ Tail(tasks[w]) \in Seq(Messages) /\ \A m \in Elems(Tail(tasks[w])) : Asked(m)
         /\ OneMessage(Tail(tasks[w]), receiver[w], received[w])
         /\ Head(tasks[w]).kind # "run" =>
              /\ AllRun(Tail(tasks[w]))
              /\ received[w] = Head(tasks[w]) \/ Head(tasks[w]).kind = "reload"
<1>1. tasks[w] \in Seq(Messages)
  BY DEF WorkerTypeOK
<1>2. \A m \in Elems(tasks[w]) : Asked(m)
  BY DEF KindsAgree, KindsIn
<1>3. OneMessage(tasks[w], receiver[w], received[w])
  BY DEF ReceiverOK
<1>4. /\ Head(tasks[w]) \in Messages /\ Head(tasks[w]) \in Elems(tasks[w])
      /\ Tail(tasks[w]) \in Seq(Messages) /\ Elems(Tail(tasks[w])) \subseteq Elems(tasks[w])
  BY <1>1, TailFacts
<1>5. /\ OneMessage(Tail(tasks[w]), receiver[w], received[w])
      /\ Head(tasks[w]).kind # "run" =>
           /\ AllRun(Tail(tasks[w]))
           /\ received[w] = Head(tasks[w]) \/ Head(tasks[w]).kind = "reload"
  BY <1>1, <1>3, OneMessageFacts
<1> QED BY <1>2, <1>4, <1>5

\* A task that ends leaves the worker in order.
LEMMA FinishControl ==
  ASSUME WorkerTypeOK, KindsAgree, ReceiverOK, NEW w \in Workers, kind' = kind,
         tasks[w] # <<>>, Head(tasks[w]).kind # "run", NEW accepted \in BOOLEAN, Finish(w, accepted),
         ~accepted => Head(tasks[w]).kind = "cancel",
         \A t \in timers'[w] \union armed'[w] : kind[t.call] = "after",
         firing' = firing
  PROVE  KindsIn(w)' /\ MainIn(w)' /\ OneMessage(tasks[w], receiver[w], received[w])'
<1>1. /\ tasks'[w] = Tail(tasks[w]) /\ main'[w] = "next"
      /\ receiver'[w] = (IF accepted THEN "on" ELSE "resend")
      /\ ~accepted => received'[w] = received[w]
  BY DEF Finish, WorkerTypeOK
<1>2. /\ Head(tasks[w]) \in Messages /\ Asked(Head(tasks[w]))
      /\ Tail(tasks[w]) \in Seq(Messages) /\ \A m \in Elems(Tail(tasks[w])) : Asked(m)
      /\ AllRun(Tail(tasks[w]))
      /\ received[w] = Head(tasks[w]) \/ Head(tasks[w]).kind = "reload"
  BY FirstTask
<1>3. KindsIn(w)'
  <2>1. \A m \in Elems(tasks'[w]) : Asked(m)'
    BY <1>1, <1>2 DEF Asked
  <2>2. firing[w] # None => kind[firing[w].call] = "after"
    BY DEF KindsAgree, KindsIn
  <2>3. ~accepted => /\ received'[w] \in Messages /\ received'[w].kind = "cancel"
                     /\ Asked(received[w])'
    <3>1. ~accepted => /\ received[w] \in Messages /\ received[w].kind = "cancel"
                       /\ Asked(received[w])
      BY <1>2
    <3> QED BY <1>1, <3>1 DEF Asked
  <2> QED BY <1>1, <2>1, <2>2, <2>3 DEF KindsIn
<1>4. MainIn(w)'
  BY <1>1 DEF MainIn
<1>5. OneMessage(tasks[w], receiver[w], received[w])'
  BY <1>1, <1>2, OneMessageFacts
<1> QED BY <1>3, <1>4, <1>5

\* The receiver and the timer thread of a worker leave it in order.
LEMMA ReceiverControl ==
  ASSUME WorkerTypeOK, KindsAgree, MainOK, ReceiverOK, NEW w \in Workers, Receiver(w) \/ Timer(w)
  PROVE  /\ \A m \in Elems(mq') : Asked(m)'
         /\ KindsIn(w)' /\ MainIn(w)' /\ OneMessage(tasks[w], receiver[w], received[w])'
<1>1. KindsIn(w) /\ MainIn(w) /\ OneMessage(tasks[w], receiver[w], received[w])
  BY DEF KindsAgree, MainOK, ReceiverOK
<1>2. tasks[w] \in Seq(Messages) /\ mq \in Seq(Messages) /\ \A m \in Elems(mq) : Asked(m)
  BY DEF WorkerTypeOK, KindsAgree
<1>3. kind' = kind
  BY ReceiverFrame
<1>4. ASSUME NEW m PROVE Asked(m)' <=> Asked(m)
  BY <1>3 DEF Asked
<1>5. CASE Receive(w)
  <2>1. /\ receiver[w] = "on" /\ mq # <<>> /\ mq' = Tail(mq)
        /\ \/ /\ received' = [received EXCEPT ![w] = Head(mq)]
              /\ receiver' = [receiver EXCEPT ![w] = "get"]
              /\ tasks' = [tasks EXCEPT ![w] = Append(@, Head(mq))]
           \/ UNCHANGED <<received, receiver, tasks>>
        /\ UNCHANGED <<main, timers, armed, firing, outcome>>
    BY <1>5, ReceiveForms DEF clocks
  <2>2. Head(mq) \in Messages /\ Head(mq) \in Elems(mq) /\ Elems(Tail(mq)) \subseteq Elems(mq)
    BY <1>2, <2>1, TailFacts
  <2>3. \A m \in Elems(mq') : Asked(m)'
    BY <1>2, <1>4, <2>1, <2>2
  <2>4. CASE UNCHANGED <<received, receiver, tasks>>
    <3>1. KindsIn(w)'
      BY <1>1, <1>3, <2>1, <2>4 DEF KindsIn, Asked
    <3>2. MainIn(w)' /\ OneMessage(tasks[w], receiver[w], received[w])'
      BY <1>1, <2>1, <2>4 DEF MainIn
    <3> QED BY <2>3, <3>1, <3>2
  <2>5. CASE /\ received' = [received EXCEPT ![w] = Head(mq)]
             /\ receiver' = [receiver EXCEPT ![w] = "get"]
             /\ tasks' = [tasks EXCEPT ![w] = Append(@, Head(mq))]
    <3>1. /\ received'[w] = Head(mq) /\ receiver'[w] = "get"
          /\ tasks'[w] = Append(tasks[w], Head(mq))
      BY <2>5 DEF WorkerTypeOK
    <3>2. Elems(tasks'[w]) = Elems(tasks[w]) \union {Head(mq)}
      BY <1>2, <2>2, <3>1, AppendFacts
    <3>3. KindsIn(w)'
      <4>1. \A m \in Elems(tasks'[w]) : Asked(m)'
        BY <1>1, <1>2, <1>4, <2>2, <3>2 DEF KindsIn
      <4> QED BY <1>1, <1>3, <2>1, <3>1, <4>1 DEF KindsIn
    <3>4. MainIn(w)'
      <4>1. CASE tasks[w] = <<>>
        BY <1>1, <2>1, <4>1 DEF MainIn
      <4>2. CASE tasks[w] # <<>>
        <5>1. Head(tasks'[w]) = Head(tasks[w]) /\ tasks'[w] # <<>>
          BY <1>2, <2>2, <3>1, <4>2, TailAppend
        <5> QED BY <1>1, <2>1, <5>1 DEF MainIn
      <4> QED BY <4>1, <4>2
    <3>5. AllRun(tasks[w])
      BY <1>1, <1>2, <2>1, OneMessageFacts
    <3>6. OneMessage(tasks[w], receiver[w], received[w])'
      BY <1>2, <2>2, <3>1, <3>5, OneMessageFacts
    <3> QED BY <2>3, <3>3, <3>4, <3>6
  <2> QED BY <2>1, <2>4, <2>5
<1>6. CASE Resend(w)
  <2>1. /\ receiver[w] = "resend" /\ mq' = Append(mq, received[w])
        /\ receiver'[w] = "on" /\ UNCHANGED <<tasks, main, timers, armed, firing, outcome>>
    BY <1>6 DEF Resend, Send, WorkerTypeOK, clocks, history
  <2>2. received[w] \in Messages /\ Asked(received[w])
    BY <1>1, <2>1 DEF KindsIn
  <2>3. \A m \in Elems(mq') : Asked(m)'
    <3>1. Elems(mq') = Elems(mq) \union {received[w]}
      BY <1>2, <2>1, <2>2, AppendFacts
    <3>2. \A m \in Elems(mq') : Asked(m)
      BY <1>2, <2>2, <3>1
    <3> QED BY <1>4, <3>2
  <2>4. KindsIn(w)'
    BY <1>1, <1>3, <2>1 DEF KindsIn, Asked
  <2>5. MainIn(w)'
    BY <1>1, <2>1 DEF MainIn
  <2>6. AllRun(tasks[w])
    BY <1>1, <1>2, <2>1, OneMessageFacts
  <2>7. OneMessage(tasks[w], receiver[w], received[w])'
    BY <1>2, <2>1, <2>6, OneMessageFacts
  <2> QED BY <2>3, <2>4, <2>5, <2>7
<1>7. CASE Expire(w)
  <2>1. PICK t \in armed[w] : /\ armed' = [armed EXCEPT ![w] = @ \ {t}]
                              /\ firing' = [firing EXCEPT ![w] = t]
    BY <1>7 DEF Expire
  <2>2. armed'[w] = armed[w] \ {t} /\ firing'[w] = t
    BY <2>1 DEF WorkerTypeOK
  <2>3. UNCHANGED <<mq, tasks, main, received, receiver, timers, outcome>>
    BY <1>7 DEF Expire, threads, history
  <2>4. KindsIn(w)'
    BY <1>1, <1>3, <2>2, <2>3 DEF KindsIn, Asked
  <2>5. MainIn(w)' /\ OneMessage(tasks[w], receiver[w], received[w])'
    BY <1>1, <2>3 DEF MainIn
  <2>6. \A m \in Elems(mq') : Asked(m)'
    BY <1>2, <1>4, <2>3
  <2> QED BY <2>4, <2>5, <2>6
<1>8. CASE Fire(w)
  <2>1. /\ mq' = Append(mq, Execute(firing[w])) /\ firing'[w] = None /\ firing[w] # None
        /\ UNCHANGED <<tasks, main, received, receiver, timers, armed, outcome>>
    BY <1>8 DEF Fire, Send, WorkerTypeOK, threads, history
  <2>2. firing[w] \in Timers
    BY <2>1 DEF WorkerTypeOK
  <2>3. Execute(firing[w]) \in Messages /\ Asked(Execute(firing[w]))
    <3>1. firing[w].call \in Calls /\ kind[firing[w].call] = "after"
      BY <1>1, <2>1, <2>2 DEF KindsIn, Timers
    <3> QED BY <2>2, <3>1, MessageForms DEF Asked
  <2>4. \A m \in Elems(mq') : Asked(m)'
    <3>1. Elems(mq') = Elems(mq) \union {Execute(firing[w])}
      BY <1>2, <2>1, <2>3, AppendFacts
    <3>2. \A m \in Elems(mq') : Asked(m)
      BY <1>2, <2>3, <3>1
    <3> QED BY <1>4, <3>2
  <2>5. KindsIn(w)'
    BY <1>1, <1>3, <2>1 DEF KindsIn, Asked
  <2>6. MainIn(w)' /\ OneMessage(tasks[w], receiver[w], received[w])'
    BY <1>1, <2>1 DEF MainIn
  <2> QED BY <2>4, <2>5, <2>6
<1> QED BY <1>5, <1>6, <1>7, <1>8 DEF Receiver, Timer

\* The main thread of a worker leaves it in order.  Only a request to cancel is not
\* accepted, and it is the message that the receiver waits for.
LEMMA MainControl ==
  ASSUME WorkerTypeOK, KindsAgree, MainOK, ReceiverOK, NEW w \in Workers, Main(w)
  PROVE  /\ \A m \in Elems(mq') : Asked(m)'
         /\ KindsIn(w)' /\ MainIn(w)' /\ OneMessage(tasks[w], receiver[w], received[w])'
<1>1. KindsIn(w) /\ MainIn(w) /\ OneMessage(tasks[w], receiver[w], received[w])
  BY DEF KindsAgree, MainOK, ReceiverOK
<1>2. tasks[w] \in Seq(Messages) /\ mq \in Seq(Messages) /\ \A m \in Elems(mq) : Asked(m)
  BY DEF WorkerTypeOK, KindsAgree
<1>3. kind' = kind
  BY MainFrame
<1>4. ASSUME NEW m PROVE Asked(m)' <=> Asked(m)
  BY <1>3 DEF Asked
<1>5. mq' = mq => \A m \in Elems(mq') : Asked(m)'
  BY <1>2, <1>4
<1>6. \A t \in timers[w] \union armed[w] : kind[t.call] = "after"
  BY <1>1 DEF KindsIn
<1>7. CASE DoReload(w)
  <2>1. /\ tasks[w] # <<>> /\ Head(tasks[w]).kind = "reload" /\ Finish(w, TRUE)
        /\ UNCHANGED <<mq, timers, armed, firing>>
    BY <1>7 DEF DoReload, Task, clocks
  <2> QED BY <1>3, <1>5, <1>6, <2>1, FinishControl
<1>8. CASE InitSql(w)
  <2>1. /\ tasks[w] # <<>> /\ Head(tasks[w]).kind = "reload" /\ w = leader
        /\ main'[w] = "started"
        /\ UNCHANGED <<mq, tasks, received, receiver, timers, armed, firing, outcome>>
    BY <1>8 DEF InitSql, Task, Autostarts, WorkerTypeOK, clocks, history
  <2>2. KindsIn(w)'
    BY <1>1, <1>3, <2>1 DEF KindsIn, Asked
  <2>3. MainIn(w)' /\ OneMessage(tasks[w], receiver[w], received[w])'
    BY <1>1, <2>1 DEF MainIn
  <2> QED BY <1>5, <2>1, <2>2, <2>3
<1>9. CASE AutostartCommit(w)
  <2>1. /\ tasks[w] # <<>> /\ Head(tasks[w]).kind = "reload" /\ Finish(w, TRUE)
        /\ UNCHANGED <<mq, timers, armed, firing>>
    BY <1>1, <1>9 DEF AutostartCommit, MainIn, clocks
  <2> QED BY <1>3, <1>5, <1>6, <2>1, FinishControl
<1>10. CASE SqlRun(w)
  <2>1. /\ tasks[w] # <<>> /\ Head(tasks[w]).kind = "sql" /\ main'[w] = "ran"
        /\ UNCHANGED <<mq, tasks, received, receiver, timers, armed, firing>>
    BY <1>10 DEF SqlRun, Task, WorkerTypeOK, clocks
  <2>2. KindsIn(w)'
    BY <1>1, <1>3, <2>1 DEF KindsIn, Asked
  <2>3. Head(tasks[w]).call \in Calls
    BY <1>2, <2>1, TailFacts, MessageKinds
  <2>4. outcome'[Head(tasks[w]).call] # "none"
    <3>1. PICK o \in {"committed", "failed"} :
            outcome' = [outcome EXCEPT ![Head(tasks[w]).call] = o]
      BY <1>10 DEF SqlRun
    <3> QED BY <2>3, <3>1 DEF WorkerTypeOK
  <2>5. MainIn(w)'
    BY <2>1, <2>4 DEF MainIn
  <2>6. OneMessage(tasks[w], receiver[w], received[w])'
    BY <1>1, <2>1
  <2> QED BY <1>5, <2>1, <2>2, <2>5, <2>6
<1>11. CASE SqlPost(w)
  <2>1. /\ tasks[w] # <<>> /\ Head(tasks[w]).kind = "sql" /\ Finish(w, TRUE)
        /\ UNCHANGED <<mq, timers, armed, firing>>
    BY <1>1, <1>11 DEF SqlPost, MainIn, clocks
  <2> QED BY <1>3, <1>5, <1>6, <2>1, FinishControl
<1>12. CASE TimerAfter(w)
  <2> DEFINE t == [id |-> timer_id, call |-> Head(tasks[w]).call]
  <2>1. /\ tasks[w] # <<>> /\ Head(tasks[w]).kind = "after" /\ Finish(w, TRUE)
        /\ UNCHANGED <<mq, firing>>
    BY <1>12 DEF TimerAfter, Task
  <2>2. kind[t.call] = "after"
    BY <2>1, FirstTask DEF Asked
  <2>3. timers'[w] \subseteq timers[w] \union {t} /\ armed'[w] = armed[w] \union {t}
    BY <1>12 DEF TimerAfter, WorkerTypeOK
  <2>4. \A u \in timers'[w] \union armed'[w] : kind[u.call] = "after"
    BY <1>6, <2>2, <2>3
  <2> QED BY <1>3, <1>5, <2>1, <2>4, FinishControl
<1>13. CASE TimerCancel(w)
  <2> DEFINE ts == Cancelled(w, Head(tasks[w]))
  <2>1. /\ tasks[w] # <<>> /\ Head(tasks[w]).kind = "cancel" /\ Finish(w, ts # {})
        /\ UNCHANGED <<mq, firing>>
    BY <1>13 DEF TimerCancel, Task
  <2>2. timers'[w] \subseteq timers[w] /\ armed'[w] \subseteq armed[w]
    BY <1>13 DEF TimerCancel, WorkerTypeOK
  <2>3. \A u \in timers'[w] \union armed'[w] : kind[u.call] = "after"
    BY <1>6, <2>2
  <2>4. (ts # {}) \in BOOLEAN
    OBVIOUS
  <2> HIDE DEF ts
  <2> QED BY <1>3, <1>5, <2>1, <2>3, <2>4, FinishControl
<1>14. CASE TimerExecute(w)
  <2> DEFINE m == [Head(tasks[w]) EXCEPT !.kind = "run"]
  <2>1. /\ tasks[w] # <<>> /\ Head(tasks[w]).kind = "execute" /\ main[w] = "next"
        /\ tasks'[w] = Append(Tail(tasks[w]), m) /\ receiver'[w] = "on"
        /\ UNCHANGED <<mq, main, timers, armed, firing>>
    BY <1>14 DEF TimerExecute, Task, WorkerTypeOK, clocks
  <2>2. /\ Head(tasks[w]) \in Messages /\ Asked(Head(tasks[w]))
        /\ Tail(tasks[w]) \in Seq(Messages) /\ \A x \in Elems(Tail(tasks[w])) : Asked(x)
        /\ AllRun(Tail(tasks[w]))
    BY <2>1, FirstTask
  <2>3. m \in Messages /\ m.kind = "run" /\ m.call = Head(tasks[w]).call
    BY <2>1, <2>2, MessageKinds
  <2>4. Asked(m)
    BY <2>1, <2>2, <2>3 DEF Asked
  <2> HIDE DEF m
  <2>5. /\ Elems(tasks'[w]) = Elems(Tail(tasks[w])) \union {m}
        /\ AllRun(tasks'[w]) /\ tasks'[w] \in Seq(Messages)
    <3>1. \A q \in Seq(Messages), x \in Messages :
            /\ Append(q, x) \in Seq(Messages) /\ Elems(Append(q, x)) = Elems(q) \union {x}
            /\ AllRun(q) /\ x.kind = "run" => AllRun(Append(q, x))
      BY AppendFacts, OneMessageFacts
    <3> QED BY <2>1, <2>2, <2>3, <3>1
  <2>6. KindsIn(w)'
    <3>1. \A x \in Elems(tasks'[w]) : Asked(x)
      BY <2>2, <2>4, <2>5
    <3> QED BY <1>1, <1>3, <2>1, <3>1 DEF KindsIn, Asked
  <2>7. MainIn(w)'
    BY <2>1 DEF MainIn
  <2>8. OneMessage(tasks[w], receiver[w], received[w])'
    BY <2>5, OneMessageFacts
  <2> QED BY <1>5, <2>1, <2>6, <2>7, <2>8
<1>15. CASE ExecuteCancel(w)
  <2> DEFINE x == Head(tasks[w])
             m == Cancel(None, x.id, Role[x.call])
  <2>1. /\ tasks[w] # <<>> /\ x.kind = "run" /\ mq' = Append(mq, m) /\ main'[w] = "call"
        /\ UNCHANGED <<tasks, receiver, received, timers, armed, firing, outcome>>
    BY <1>15 DEF ExecuteCancel, Task, Send, WorkerTypeOK, clocks, history
  <2>2. x.call \in Calls /\ x.id \in Nat
    BY <1>2, <2>1, TailFacts, MessageKinds
  <2>3. m \in Messages /\ Asked(m)
    BY <2>2, MessageForms DEF Asked
  <2> HIDE DEF m
  <2>4. \A y \in Elems(mq') : Asked(y)'
    <3>1. Elems(mq') = Elems(mq) \union {m}
      BY <1>2, <2>1, <2>3, AppendFacts
    <3>2. \A y \in Elems(mq') : Asked(y)
      BY <1>2, <2>3, <3>1
    <3> QED BY <1>4, <3>2
  <2>5. KindsIn(w)'
    BY <1>1, <1>3, <2>1 DEF KindsIn, Asked
  <2>6. MainIn(w)' /\ OneMessage(tasks[w], receiver[w], received[w])'
    BY <1>1, <2>1 DEF MainIn
  <2> QED BY <2>4, <2>5, <2>6
<1>16. CASE ExecuteRun(w)
  <2>1. /\ tasks[w] # <<>> /\ Head(tasks[w]).kind = "run" /\ tasks'[w] = Tail(tasks[w])
        /\ main'[w] = "next"
        /\ UNCHANGED <<mq, receiver, received, timers, armed, firing>>
    BY <1>1, <1>16 DEF ExecuteRun, MainIn, WorkerTypeOK, clocks
  <2>2. /\ \A x \in Elems(Tail(tasks[w])) : Asked(x)
        /\ OneMessage(Tail(tasks[w]), receiver[w], received[w])
    BY <2>1, FirstTask
  <2>3. KindsIn(w)'
    BY <1>1, <1>3, <2>1, <2>2 DEF KindsIn, Asked
  <2>4. MainIn(w)' /\ OneMessage(tasks[w], receiver[w], received[w])'
    BY <2>1, <2>2 DEF MainIn
  <2> QED BY <1>5, <2>1, <2>3, <2>4
<1> QED BY <1>7, <1>8, <1>9, <1>10, <1>11, <1>12, <1>13, <1>14, <1>15, <1>16 DEF Main

\* A call was not made before, so that nothing names it, and its message does then.
LEMMA CallControl ==
  ASSUME WorkerTypeOK, KindsAgree, MainOK, ReceiverOK, RepliesOK,
         NEW c \in Calls, NEW k \in {"sql", "after", "cancel"}, NEW m \in Messages,
         m.kind = k, m.call = c, Call(c, k, m, 0)
  PROVE  KindsAgree' /\ MainOK' /\ ReceiverOK'
<1>1. kind[c] = "none"
  BY DEF Call, RepliesOK, ReplyOK
<1>2. /\ mq' = Append(mq, m) /\ kind' = [kind EXCEPT ![c] = k]
      /\ UNCHANGED <<received, receiver, tasks, main, timers, armed, firing, outcome>>
  BY DEF Call, Send, threads, clocks, history
<1>3. Kept
  BY <1>1, <1>2 DEF Kept, WorkerTypeOK
<1>4. Asked(m)'
  BY <1>2 DEF Asked, WorkerTypeOK
<1>5. \A x \in Elems(mq') : Asked(x)'
  <2>1. Elems(mq') = Elems(mq) \union {m}
    BY <1>2, AppendFacts DEF WorkerTypeOK
  <2>2. \A x \in Elems(mq) : Asked(x)'
    BY <1>3, AskedKept DEF KindsAgree
  <2> QED BY <1>4, <2>1, <2>2
<1>6. \A v \in Workers : KindsIn(v)' /\ MainIn(v)' /\ OneMessage(tasks[v], receiver[v], received[v])'
  BY <1>2, <1>3, ControlKept
<1> QED BY <1>5, <1>6 DEF KindsAgree, MainOK, ReceiverOK

\* A process that starts is in order.
LEMMA FaultControl ==
  ASSUME WorkerTypeOK, KindsAgree, MainOK, ReceiverOK, NEW W, Processes(W),
         mq' = mq, kind' = kind, outcome' = outcome
  PROVE  KindsAgree' /\ MainOK' /\ ReceiverOK'
<1>1. Kept
  BY DEF Kept
<1>2. \A x \in Elems(mq') : Asked(x)'
  BY DEF KindsAgree, Asked
<1>3. ASSUME NEW v \in Workers
      PROVE  KindsIn(v)' /\ MainIn(v)' /\ OneMessage(tasks[v], receiver[v], received[v])'
  <2>1. CASE v \in W
    <3>1. /\ tasks'[v] = <<Reload>> /\ main'[v] = "next" /\ receiver'[v] = "off"
          /\ timers'[v] = {} /\ armed'[v] = {} /\ firing'[v] = None
      BY <2>1 DEF Processes
    <3>2. DOMAIN <<Reload>> = {1} /\ <<Reload>>[1] = Reload
      OBVIOUS
    <3>3. \A x \in Elems(tasks'[v]) : Asked(x)'
      BY <3>1, <3>2, MessageForms DEF Elems, Asked
    <3>4. OneMessage(tasks[v], receiver[v], received[v])'
      BY <3>1, <3>2, MessageForms DEF OneMessage
    <3> QED BY <3>1, <3>3, <3>4 DEF KindsIn, MainIn
  <2>2. CASE v \notin W
    <3>1. /\ tasks'[v] = tasks[v] /\ main'[v] = main[v]
          /\ receiver'[v] = receiver[v] /\ received'[v] = received[v]
          /\ timers'[v] = timers[v] /\ armed'[v] = armed[v] /\ firing'[v] = firing[v]
      BY <2>2 DEF Processes
    <3> QED BY <1>1, <3>1, ControlKept
  <2> QED BY <2>1, <2>2
<1> QED BY <1>2, <1>3 DEF KindsAgree, MainOK, ReceiverOK

\* Workers that a step leaves alone stay in order.
LEMMA ControlSame ==
  ASSUME WorkerTypeOK, KindsAgree, MainOK, ReceiverOK, mq' = mq \/ mq' = Append(mq, Reload),
         UNCHANGED <<kind, outcome, threads, clocks>>
  PROVE  KindsAgree' /\ MainOK' /\ ReceiverOK'
<1>1. Kept /\ UNCHANGED <<received, receiver, tasks, main, timers, armed, firing>>
  BY DEF Kept, threads, clocks
<1>2. \A x \in Elems(mq') : Asked(x)'
  <2>1. Elems(mq') \subseteq Elems(mq) \union {Reload}
    <3>1. Elems(Append(mq, Reload)) = Elems(mq) \union {Reload}
      BY AppendFacts, MessageForms DEF WorkerTypeOK
    <3> QED BY <3>1
  <2>2. \A x \in Elems(mq) \union {Reload} : Asked(x)
    BY MessageForms DEF KindsAgree, Asked
  <2> QED BY <2>1, <2>2 DEF Asked
<1>3. \A v \in Workers : KindsIn(v)' /\ MainIn(v)' /\ OneMessage(tasks[v], receiver[v], received[v])'
  BY <1>1, ControlKept
<1> QED BY <1>2, <1>3 DEF KindsAgree, MainOK, ReceiverOK

\* ... and so do the others when a thread works.
LEMMA ThreadControl ==
  ASSUME WorkerTypeOK, KindsAgree, MainOK, ReceiverOK, NEW w \in Workers,
         Receiver(w) \/ Main(w) \/ Timer(w)
  PROVE  KindsAgree' /\ MainOK' /\ ReceiverOK'
<1>1. Alone(w) /\ Kept
  BY ReceiverFrame, MainFrame
<1>2. /\ \A m \in Elems(mq') : Asked(m)'
      /\ KindsIn(w)' /\ MainIn(w)' /\ OneMessage(tasks[w], receiver[w], received[w])'
  BY ReceiverControl, MainControl
<1>3. ASSUME NEW v \in Workers \ {w}
      PROVE  KindsIn(v)' /\ MainIn(v)' /\ OneMessage(tasks[v], receiver[v], received[v])'
  BY <1>1, ControlKept DEF Alone
<1> QED BY <1>2, <1>3 DEF KindsAgree, MainOK, ReceiverOK

----------------------------------------------------------------------------
(* Work in one place                                                       *)

\* What is left of tasks when one is appended or the first is taken
LEMMA LeftFacts ==
  ASSUME WorkerTypeOK, MainOK, NEW w \in Workers
  PROVE  /\ Left(tasks[w], main[w]) \in Seq(Messages)
         /\ \A m \in Messages :
              Left(Append(tasks[w], m), main[w]) = Append(Left(tasks[w], main[w]), m)
         /\ \A s : Left(s, "next") = s /\ Left(s, "started") = s /\ Left(s, "call") = s
         /\ \A s : Left(s, "ran") = Tail(s)
<1>1. tasks[w] \in Seq(Messages) /\ (main[w] = "ran" => tasks[w] # <<>>)
  BY DEF WorkerTypeOK, MainOK, MainIn
<1>2. tasks[w] # <<>> => /\ Tail(tasks[w]) \in Seq(Messages)
                         /\ \A m \in Messages : Tail(Append(tasks[w], m)) = Append(Tail(tasks[w]), m)
  BY <1>1, TailFacts, TailAppend
<1> QED BY <1>1, <1>2 DEF Left

\* A step of w's threads keeps work in one place, not run and not cancelled, when it
\* leaves each call's work in one place, takes it only from where it was, and counts
\* a run or a timer cancelled in time only of work that w had and then has no more.
LEMMA TokenStep ==
  ASSUME WorkerTypeOK, InOnePlace, NotYetRun, NEW w \in Workers, Alone(w), kind' = kind,
         \A c \in Calls :
           /\ Once(mq', c)
           /\ HoldsOnce(c, Left(tasks'[w], main'[w]), armed'[w], firing'[w])
           /\ ~(InWorker(c, w)' /\ Has(mq', c))
           /\ InWorker(c, w)' \/ Has(mq', c) =>
                (InWorker(c, w) \/ Has(mq, c)) /\ runs'[c] = runs[c] /\ removed'[c] # "armed"
           /\ \/ runs'[c] = runs[c] /\ removed'[c] = removed[c]
              \/ runs'[c] = runs[c] /\ removed'[c] # "armed"
              \/ runs'[c] = runs[c] /\ InWorker(c, w)
              \/ runs'[c] = runs[c] + 1 /\ removed'[c] = removed[c] /\ InWorker(c, w)
  PROVE  InOnePlace' /\ NotYetRun'
<1>1. ASSUME NEW c \in Calls, NEW v \in Workers \ {w}
      PROVE  /\ InWorker(c, v)' <=> InWorker(c, v)
             /\ HoldsOnce(c, Left(tasks'[v], main'[v]), armed'[v], firing'[v])
  BY DEF Alone, InWorker, InOnePlace
<1>2. ASSUME NEW c \in Calls, NEW v \in Workers, NEW u \in Workers, InWorker(c, v)'
      PROVE  ~Has(mq', c) /\ (InWorker(c, u)' => u = v)
  <2>1. CASE v = w
    BY <1>1, <1>2, <2>1 DEF InOnePlace
  <2>2. CASE v # w
    BY <1>1, <1>2, <2>2 DEF InOnePlace
  <2> QED BY <2>1, <2>2
<1>3. InOnePlace'
  <2>1. ASSUME NEW c \in Calls, NEW v \in Workers
        PROVE  HoldsOnce(c, Left(tasks'[v], main'[v]), armed'[v], firing'[v])
    BY <1>1
  <2> QED BY <1>2, <2>1 DEF InOnePlace
<1>4. NotYetRun'
  <2> SUFFICES ASSUME NEW c \in Calls
               PROVE  /\ Somewhere(c)' => kind'[c] # "none" /\ runs'[c] = 0 /\ removed'[c] # "armed"
                      /\ kind'[c] = "none" => runs'[c] = 0 /\ removed'[c] # "armed"
                      /\ runs'[c] <= 1
                      /\ removed'[c] = "armed" => runs'[c] = 0
    BY DEF NotYetRun
  <2>1. /\ Somewhere(c) => kind[c] # "none" /\ runs[c] = 0 /\ removed[c] # "armed"
        /\ kind[c] = "none" => runs[c] = 0 /\ removed[c] # "armed"
        /\ runs[c] <= 1
        /\ removed[c] = "armed" => runs[c] = 0
    BY DEF NotYetRun
  <2>2. InWorker(c, w) => Somewhere(c)
    BY DEF Somewhere
  <2>3. ASSUME NEW v \in Workers \ {w}, InWorker(c, v)'
        PROVE  Somewhere(c) /\ runs'[c] = runs[c] /\ removed'[c] # "armed"
    <3>1. InWorker(c, v) /\ ~InWorker(c, w)
      BY <1>1, <2>3 DEF InOnePlace
    <3> QED BY <2>1, <3>1 DEF Somewhere
  <2>4. Somewhere(c)' => Somewhere(c) /\ runs'[c] = runs[c] /\ removed'[c] # "armed"
    BY <2>3 DEF Somewhere
  <2>5. runs[c] \in Nat
    BY DEF WorkerTypeOK
  <2> QED BY <2>1, <2>2, <2>4, <2>5
<1> QED BY <1>3, <1>4

\* A call that is made gets its work, and no other does.
LEMMA CallToken ==
  ASSUME WorkerTypeOK, InOnePlace, NotYetRun,
         NEW c \in Calls, kind[c] = "none", NEW k, k # "none", kind' = [kind EXCEPT ![c] = k],
         NEW m \in Messages, m.kind # "reload" => m.call = c, mq' = Append(mq, m),
         UNCHANGED <<threads, clocks, runs, removed>>
  PROVE  InOnePlace' /\ NotYetRun'
<1>1. \A d \in Calls, w \in Workers :
        /\ InWorker(d, w)' <=> InWorker(d, w)
        /\ HoldsOnce(d, Left(tasks'[w], main'[w]), armed'[w], firing'[w])
  BY DEF InWorker, InOnePlace, threads, clocks
<1>2. ~Somewhere(c)
  BY DEF NotYetRun
<1>3. \A d : Carries(m, d) => d = c
  BY DEF Carries
<1>4. \A d \in Calls : Has(mq', d) <=> Has(mq, d) \/ Carries(m, d)
  BY AppendFacts DEF WorkerTypeOK
<1>5. \A d \in Calls : Once(mq', d)
  <2>1. \A d \in Calls : Once(mq, d) /\ ~(Has(mq, d) /\ Carries(m, d))
    BY <1>2, <1>3 DEF InOnePlace, Somewhere
  <2> QED BY <2>1, AppendFacts DEF WorkerTypeOK
<1>6. InOnePlace'
  <2>1. \A d \in Calls, w \in Workers :
          InWorker(d, w)' => ~Has(mq', d) /\ \A v \in Workers : InWorker(d, v)' => v = w
    BY <1>1, <1>2, <1>3, <1>4 DEF InOnePlace, Somewhere
  <2> QED BY <1>1, <1>5, <2>1 DEF InOnePlace
<1>7. \A d \in Calls : Somewhere(d)' => Somewhere(d) \/ d = c
  BY <1>1, <1>3, <1>4 DEF Somewhere
<1>8. NotYetRun'
  <2> SUFFICES ASSUME NEW d \in Calls
               PROVE  /\ Somewhere(d)' => kind'[d] # "none" /\ runs'[d] = 0 /\ removed'[d] # "armed"
                      /\ kind'[d] = "none" => runs'[d] = 0 /\ removed'[d] # "armed"
                      /\ runs'[d] <= 1
                      /\ removed'[d] = "armed" => runs'[d] = 0
    BY DEF NotYetRun
  <2>1. kind'[d] = IF d = c THEN k ELSE kind[d]
    BY DEF WorkerTypeOK
  <2> QED BY <1>7, <2>1 DEF NotYetRun
<1> QED BY <1>6, <1>8

\* The work of processes that end is nowhere any more.
LEMMA FaultToken ==
  ASSUME WorkerTypeOK, InOnePlace, NotYetRun, NEW W, Processes(W),
         UNCHANGED <<mq, kind, runs, removed>>
  PROVE  InOnePlace' /\ NotYetRun'
<1>1. ASSUME NEW c \in Calls, NEW v \in Workers
      PROVE  /\ InWorker(c, v)' => InWorker(c, v)
             /\ HoldsOnce(c, Left(tasks'[v], main'[v]), armed'[v], firing'[v])
  <2>1. CASE v \in W
    <3>1. Left(tasks'[v], main'[v]) = <<Reload>> /\ armed'[v] = {} /\ firing'[v] = None
      BY <2>1 DEF Processes, Left
    <3>2. DOMAIN <<Reload>> = {1} /\ <<Reload>>[1] = Reload
      OBVIOUS
    <3>3. ~Has(<<Reload>>, c) /\ Once(<<Reload>>, c)
      BY <3>2, MessageForms DEF Has, Once, Carries
    <3> QED BY <3>1, <3>3 DEF InWorker, Holds, HoldsOnce, ArmedFor, FiringFor
  <2>2. CASE v \notin W
    <3>1. tasks'[v] = tasks[v] /\ main'[v] = main[v] /\ armed'[v] = armed[v] /\ firing'[v] = firing[v]
      BY <2>2 DEF Processes
    <3> QED BY <3>1 DEF InWorker, InOnePlace
  <2> QED BY <2>1, <2>2
<1>2. InOnePlace'
  <2>1. \A c \in Calls, w \in Workers :
          InWorker(c, w)' => ~Has(mq', c) /\ \A v \in Workers : InWorker(c, v)' => v = w
    BY <1>1 DEF InOnePlace
  <2> QED BY <1>1, <2>1 DEF InOnePlace
<1>3. \A c \in Calls : Somewhere(c)' => Somewhere(c)
  BY <1>1 DEF Somewhere
<1>4. NotYetRun'
  BY <1>3 DEF NotYetRun
<1> QED BY <1>2, <1>4

\* A step that leaves the work where it is
LEMMA TokenSame ==
  ASSUME WorkerTypeOK, InOnePlace, NotYetRun, mq' = mq \/ mq' = Append(mq, Reload),
         UNCHANGED <<kind, threads, clocks, runs, removed>>
  PROVE  InOnePlace' /\ NotYetRun'
<1>1. \A d \in Calls, w \in Workers :
        /\ InWorker(d, w)' <=> InWorker(d, w)
        /\ HoldsOnce(d, Left(tasks'[w], main'[w]), armed'[w], firing'[w])
  BY DEF InWorker, InOnePlace, threads, clocks
<1>2. \A c \in Calls : (Has(mq', c) <=> Has(mq, c)) /\ Once(mq', c)
  <2>1. ~\E c : Carries(Reload, c)
    BY MessageForms DEF Carries
  <2>2. \A c \in Calls : /\ Has(Append(mq, Reload), c) <=> Has(mq, c)
                         /\ Once(mq, c) => Once(Append(mq, Reload), c)
    BY <2>1, AppendFacts, MessageForms DEF WorkerTypeOK
  <2> QED BY <2>2 DEF InOnePlace
<1>3. InOnePlace'
  BY <1>1, <1>2 DEF InOnePlace
<1>4. \A c \in Calls : Somewhere(c)' => Somewhere(c)
  BY <1>1, <1>2 DEF Somewhere
<1>5. NotYetRun'
  BY <1>4 DEF NotYetRun
<1> QED BY <1>3, <1>5

\* The receiver and the timer thread hand work over.
LEMMA ReceiverToken ==
  ASSUME WorkerTypeOK, KindsAgree, MainOK, ReceiverOK, InOnePlace, NotYetRun,
         NEW w \in Workers, Receiver(w) \/ Timer(w)
  PROVE  InOnePlace' /\ NotYetRun'
<1> DEFINE s == Left(tasks[w], main[w])
<1>1. Alone(w) /\ kind' = kind
  BY ReceiverFrame
<1>2. /\ s \in Seq(Messages)
      /\ \A m \in Messages : Left(Append(tasks[w], m), main[w]) = Append(s, m)
  BY LeftFacts
<1>3. ASSUME NEW c \in Calls
      PROVE  /\ Once(mq, c) /\ HoldsOnce(c, s, armed[w], firing[w])
             /\ InWorker(c, w) <=> Holds(c, s, armed[w], firing[w])
             /\ Holds(c, s, armed[w], firing[w]) => ~Has(mq, c)
             /\ Holds(c, s, armed[w], firing[w]) \/ Has(mq, c) => removed[c] # "armed"
  BY DEF InOnePlace, InWorker, NotYetRun, Somewhere
<1>4. mq \in Seq(Messages)
  BY DEF WorkerTypeOK
<1> HIDE DEF s
<1>5. CASE Receive(w)
  <2>1. /\ mq # <<>> /\ mq' = Tail(mq)
        /\ \/ tasks' = [tasks EXCEPT ![w] = Append(@, Head(mq))]
           \/ UNCHANGED tasks
        /\ UNCHANGED <<main, armed, firing, runs, removed>>
    BY <1>5, ReceiveForms DEF clocks
  <2>2. /\ Head(mq) \in Messages
        /\ \A c : /\ Has(mq, c) <=> Carries(Head(mq), c) \/ Has(Tail(mq), c)
                  /\ Once(mq, c) => /\ Once(Tail(mq), c)
                                    /\ ~(Carries(Head(mq), c) /\ Has(Tail(mq), c))
    BY <1>4, <2>1, TailFacts
  <2>3. Left(tasks'[w], main'[w]) = Append(s, Head(mq)) \/ Left(tasks'[w], main'[w]) = s
    BY <1>2, <2>1, <2>2 DEF WorkerTypeOK, s
  <2>4. ASSUME NEW c \in Calls
        PROVE  /\ Has(Append(s, Head(mq)), c) <=> Has(s, c) \/ Carries(Head(mq), c)
               /\ Once(s, c) /\ ~(Has(s, c) /\ Carries(Head(mq), c)) => Once(Append(s, Head(mq)), c)
    BY <1>2, <2>2, AppendFacts
  <2>5. ASSUME NEW c \in Calls
        PROVE  /\ Once(mq', c)
               /\ HoldsOnce(c, Left(tasks'[w], main'[w]), armed'[w], firing'[w])
               /\ ~(InWorker(c, w)' /\ Has(mq', c))
               /\ InWorker(c, w)' \/ Has(mq', c) => InWorker(c, w) \/ Has(mq, c)
    <3>1. Once(mq', c)
      BY <1>3, <2>1, <2>2
    <3>2. CASE Left(tasks'[w], main'[w]) = s
      BY <1>3, <2>1, <2>2, <3>1, <3>2 DEF InWorker
    <3>3. CASE Left(tasks'[w], main'[w]) = Append(s, Head(mq))
      <4>1. InWorker(c, w)' <=> InWorker(c, w) \/ Carries(Head(mq), c)
        BY <1>3, <2>1, <2>4, <3>3 DEF InWorker, Holds
      <4>2. HoldsOnce(c, Left(tasks'[w], main'[w]), armed'[w], firing'[w])
        BY <1>3, <2>1, <2>2, <2>4, <3>3 DEF Holds, HoldsOnce
      <4> QED BY <1>3, <2>1, <2>2, <3>1, <4>1, <4>2
    <3> QED BY <2>3, <3>2, <3>3
  <2>6. \A c \in Calls : runs'[c] = runs[c] /\ removed'[c] = removed[c]
    BY <2>1
  <2>7. \A c \in Calls : InWorker(c, w) \/ Has(mq, c) => removed[c] # "armed"
    BY <1>3
  <2> QED BY <1>1, <2>5, <2>6, <2>7, TokenStep
<1>6. CASE Resend(w)
  <2>1. /\ receiver[w] = "resend" /\ mq' = Append(mq, received[w])
        /\ UNCHANGED <<tasks, main, armed, firing, runs, removed>>
    BY <1>6 DEF Resend, Send, clocks, history
  <2>2. received[w] \in Messages /\ received[w].kind = "cancel"
    BY <2>1 DEF KindsAgree, KindsIn
  <2>3. \A c : ~Carries(received[w], c)
    BY <2>2 DEF Carries
  <2>4. \A c \in Calls : (Has(mq', c) <=> Has(mq, c)) /\ Once(mq', c)
    BY <1>3, <1>4, <2>1, <2>2, <2>3, AppendFacts
  <2>5. Left(tasks'[w], main'[w]) = s
    BY <2>1 DEF s
  <2>6. \A c \in Calls : InWorker(c, w)' <=> InWorker(c, w)
    BY <2>1 DEF InWorker
  <2> QED BY <1>1, <1>3, <2>1, <2>4, <2>5, <2>6, TokenStep
<1>7. CASE Expire(w)
  <2>1. PICK t \in armed[w] : /\ armed' = [armed EXCEPT ![w] = @ \ {t}]
                              /\ firing' = [firing EXCEPT ![w] = t]
    BY <1>7 DEF Expire
  <2>2. armed'[w] = armed[w] \ {t} /\ firing'[w] = t /\ firing[w] = None
    BY <1>7, <2>1 DEF Expire, WorkerTypeOK
  <2>3. UNCHANGED <<mq, tasks, main, runs, removed>> /\ Left(tasks'[w], main'[w]) = s
    BY <1>7 DEF Expire, threads, history, s
  <2>4. ASSUME NEW c \in Calls
        PROVE  /\ HoldsOnce(c, Left(tasks'[w], main'[w]), armed'[w], firing'[w])
               /\ InWorker(c, w)' => InWorker(c, w)
    <3>1. ArmedFor(armed'[w], c) => ArmedFor(armed[w], c)
      BY <2>2 DEF ArmedFor
    <3>2. FiringFor(firing'[w], c) => ArmedFor(armed[w], c)
      BY <2>2 DEF FiringFor, ArmedFor
    <3>3. ~(ArmedFor(armed'[w], c) /\ FiringFor(firing'[w], c))
      BY <1>3, <2>2 DEF FiringFor, ArmedFor, HoldsOnce
    <3>4. \A u, v \in armed'[w] : u.call = c /\ v.call = c => u = v
      BY <1>3, <2>2 DEF HoldsOnce
    <3>5. HoldsOnce(c, Left(tasks'[w], main'[w]), armed'[w], firing'[w])
      BY <1>3, <2>3, <3>1, <3>2, <3>3, <3>4 DEF HoldsOnce
    <3>6. InWorker(c, w)' => Holds(c, s, armed[w], firing[w])
      BY <2>3, <3>1, <3>2 DEF InWorker, Holds
    <3> QED BY <1>3, <3>5, <3>6
  <2> QED BY <1>1, <1>3, <2>3, <2>4, TokenStep
<1>8. CASE Fire(w)
  <2>1. /\ mq' = Append(mq, Execute(firing[w])) /\ firing'[w] = None /\ firing[w] # None
        /\ UNCHANGED <<tasks, main, armed, runs, removed>>
    BY <1>8 DEF Fire, Send, WorkerTypeOK, threads, history
  <2>2. firing[w] \in Timers
    BY <2>1 DEF WorkerTypeOK
  <2>3. /\ Execute(firing[w]) \in Messages
        /\ \A c : Carries(Execute(firing[w]), c) <=> FiringFor(firing[w], c)
    BY <2>1, <2>2, MessageForms DEF Carries, FiringFor
  <2>4. Left(tasks'[w], main'[w]) = s
    BY <2>1 DEF s
  <2>5. ASSUME NEW c \in Calls
        PROVE  /\ Once(mq', c)
               /\ HoldsOnce(c, Left(tasks'[w], main'[w]), armed'[w], firing'[w])
               /\ ~(InWorker(c, w)' /\ Has(mq', c))
               /\ InWorker(c, w)' \/ Has(mq', c) => InWorker(c, w) \/ Has(mq, c)
    <3>1. /\ Has(mq', c) <=> Has(mq, c) \/ FiringFor(firing[w], c)
          /\ Once(mq, c) /\ ~(Has(mq, c) /\ FiringFor(firing[w], c)) => Once(mq', c)
      BY <1>4, <2>1, <2>3, AppendFacts
    <3>2. ~FiringFor(firing'[w], c) /\ armed'[w] = armed[w]
      BY <2>1 DEF FiringFor
    <3>3. InWorker(c, w)' <=> Has(s, c) \/ ArmedFor(armed[w], c)
      BY <2>4, <3>2 DEF InWorker, Holds
    <3>4. HoldsOnce(c, Left(tasks'[w], main'[w]), armed'[w], firing'[w])
      BY <1>3, <2>4, <3>2 DEF HoldsOnce
    <3> QED BY <1>3, <3>1, <3>3, <3>4 DEF Holds, HoldsOnce
  <2> QED BY <1>1, <1>3, <2>1, <2>5, TokenStep
<1> QED BY <1>5, <1>6, <1>7, <1>8 DEF Receiver, Timer

\* A task that is not part of any work ends.
LEMMA TailToken ==
  ASSUME NEW q \in Seq(Messages), q # <<>>, NEW c, NEW a, NEW f, HoldsOnce(c, q, a, f)
  PROVE  /\ HoldsOnce(c, Tail(q), a, f)
         /\ Holds(c, Tail(q), a, f) => Holds(c, q, a, f)
         /\ Carries(Head(q), c) => ~Holds(c, Tail(q), a, f) /\ Holds(c, q, a, f)
<1>1. /\ Has(q, c) <=> Carries(Head(q), c) \/ Has(Tail(q), c)
      /\ Once(q, c) => Once(Tail(q), c) /\ ~(Carries(Head(q), c) /\ Has(Tail(q), c))
  BY TailFacts
<1> QED BY <1>1 DEF Holds, HoldsOnce

\* The main thread hands work over, runs it or cancels it.
LEMMA MainToken ==
  ASSUME WorkerTypeOK, KindsAgree, MainOK, ReceiverOK, InOnePlace, NotYetRun,
         NEW w \in Workers, Main(w)
  PROVE  InOnePlace' /\ NotYetRun'
<1> DEFINE q == tasks[w]
           s == Left(q, main[w])
           a == armed[w]
           f == firing[w]
<1>1. Alone(w) /\ kind' = kind
  BY MainFrame
<1>2. ASSUME NEW c \in Calls
      PROVE  /\ Once(mq, c) /\ HoldsOnce(c, s, a, f)
             /\ InWorker(c, w) <=> Holds(c, s, a, f)
             /\ Holds(c, s, a, f) => ~Has(mq, c)
             /\ Holds(c, s, a, f) \/ Has(mq, c) => removed[c] # "armed"
  BY DEF InOnePlace, InWorker, NotYetRun, Somewhere
<1>3. mq \in Seq(Messages) /\ q \in Seq(Messages)
  BY DEF WorkerTypeOK
<1>4. main[w] \in {"next", "started", "call"} => s = q
  BY DEF Left
<1>5. q # <<>> => Head(q) \in Messages /\ Tail(q) \in Seq(Messages)
  BY <1>3, TailFacts
<1>6. ASSUME UNCHANGED <<mq, runs, removed>>,
             \A c \in Calls : /\ HoldsOnce(c, Left(tasks'[w], main'[w]), armed'[w], firing'[w])
                              /\ Holds(c, Left(tasks'[w], main'[w]), armed'[w], firing'[w]) =>
                                   Holds(c, s, a, f)
      PROVE  InOnePlace' /\ NotYetRun'
  <2>1. \A c \in Calls : InWorker(c, w)' => InWorker(c, w)
    BY <1>2, <1>6 DEF InWorker
  <2> QED BY <1>1, <1>2, <1>6, <2>1, TokenStep
<1>7. ASSUME q # <<>>, main[w] # "ran", UNCHANGED <<mq, runs, removed>>,
             Left(tasks'[w], main'[w]) = Tail(q), armed'[w] = a, firing'[w] = f
      PROVE  InOnePlace' /\ NotYetRun'
  <2>1. s = q
    BY <1>7 DEF Left
  <2>2. \A c \in Calls : HoldsOnce(c, q, a, f)
    BY <1>2, <2>1
  <2>3. \A c \in Calls : /\ HoldsOnce(c, Tail(q), a, f)
                         /\ Holds(c, Tail(q), a, f) => Holds(c, q, a, f)
    BY <1>3, <1>7, <2>2, TailToken
  <2> HIDE DEF q, s, a, f
  <2> QED BY <1>6, <1>7, <2>1, <2>3
\* A run
<1>8. ASSUME q # <<>>, main[w] # "ran", Head(q).kind \in {"sql", "run"},
             Left(tasks'[w], main'[w]) = Tail(q),
             runs' = [runs EXCEPT ![Head(q).call] = @ + 1],
             UNCHANGED <<mq, removed, armed, firing>>
      PROVE  InOnePlace' /\ NotYetRun'
  <2>1. s = q /\ Head(q).call \in Calls
    BY <1>5, <1>8, MessageKinds DEF Left
  <2>2. ASSUME NEW c \in Calls
        PROVE  /\ HoldsOnce(c, Tail(q), a, f)
               /\ Holds(c, Tail(q), a, f) => Holds(c, q, a, f)
               /\ Carries(Head(q), c) => ~Holds(c, Tail(q), a, f) /\ Holds(c, q, a, f)
    <3>1. HoldsOnce(c, q, a, f)
      BY <1>2, <2>1
    <3> QED BY <1>3, <1>8, <3>1, TailToken
  <2>3. \A c \in Calls : InWorker(c, w)' <=> Holds(c, Tail(q), a, f)
    BY <1>8 DEF InWorker
  <2>4. \A c \in Calls : IF c = Head(q).call THEN Carries(Head(q), c) /\ runs'[c] = runs[c] + 1
                                             ELSE runs'[c] = runs[c]
    BY <1>8, <2>1 DEF WorkerTypeOK, Carries
  <2>5. \A c \in Calls : InWorker(c, w) <=> Holds(c, q, a, f)
    BY <1>2, <2>1
  <2>6. \A c \in Calls : c = Head(q).call => InWorker(c, w) /\ ~InWorker(c, w)' /\ ~Has(mq, c)
    BY <1>2, <2>1, <2>2, <2>3, <2>4, <2>5
  <2>7. ASSUME NEW c \in Calls
        PROVE  /\ Once(mq', c)
               /\ HoldsOnce(c, Left(tasks'[w], main'[w]), armed'[w], firing'[w])
               /\ InWorker(c, w)' => InWorker(c, w)
               /\ InWorker(c, w) => ~Has(mq, c)
               /\ InWorker(c, w) \/ Has(mq, c) => removed[c] # "armed"
    BY <1>2, <1>8, <2>1, <2>2, <2>3, <2>5
  <2> HIDE DEF q, s, a, f
  <2>8. mq' = mq /\ removed' = removed
    BY <1>8
  <2> QED BY <1>1, <2>4, <2>6, <2>7, <2>8, TokenStep
<1>9. CASE DoReload(w)
  <2>1. /\ q # <<>> /\ main[w] = "next" /\ tasks'[w] = Tail(q) /\ main'[w] = "next"
        /\ UNCHANGED <<mq, runs, removed, armed, firing>>
    BY <1>9 DEF DoReload, Task, Finish, WorkerTypeOK, clocks, history
  <2> QED BY <1>7, <2>1 DEF Left
<1>10. CASE InitSql(w)
  <2>1. /\ main[w] = "next" /\ main'[w] = "started"
        /\ UNCHANGED <<mq, tasks, runs, removed, armed, firing>>
    BY <1>10 DEF InitSql, Task, WorkerTypeOK, clocks, history
  <2>2. Left(tasks'[w], main'[w]) = s
    BY <2>1 DEF Left
  <2> QED BY <1>2, <1>6, <2>1, <2>2
<1>11. CASE AutostartCommit(w)
  <2>1. /\ q # <<>> /\ main[w] = "started" /\ tasks'[w] = Tail(q) /\ main'[w] = "next"
        /\ UNCHANGED <<mq, runs, removed, armed, firing>>
    BY <1>11 DEF AutostartCommit, MainOK, MainIn, Finish, WorkerTypeOK, clocks
  <2> QED BY <1>7, <2>1 DEF Left
<1>12. CASE SqlRun(w)
  <2>1. /\ q # <<>> /\ main[w] = "next" /\ Head(q).kind = "sql" /\ tasks' = tasks
        /\ main'[w] = "ran" /\ runs' = [runs EXCEPT ![Head(q).call] = @ + 1]
        /\ UNCHANGED <<mq, removed, armed, firing>>
    BY <1>12 DEF SqlRun, Task, WorkerTypeOK, clocks
  <2> QED BY <1>8, <2>1 DEF Left
<1>13. CASE SqlPost(w)
  <2>1. /\ main[w] = "ran" /\ tasks'[w] = Tail(q) /\ main'[w] = "next"
        /\ UNCHANGED <<mq, runs, removed, armed, firing>>
    BY <1>13 DEF SqlPost, Finish, WorkerTypeOK, clocks, history
  <2>2. Left(tasks'[w], main'[w]) = s
    BY <2>1 DEF Left
  <2> QED BY <1>2, <1>6, <2>1, <2>2
<1>14. CASE TimerAfter(w)
  <2> DEFINE t == [id |-> timer_id, call |-> Head(q).call]
  <2>1. /\ q # <<>> /\ main[w] = "next" /\ Head(q).kind = "after" /\ tasks'[w] = Tail(q)
        /\ main'[w] = "next" /\ armed'[w] = a \union {t}
        /\ UNCHANGED <<mq, runs, removed, firing>>
    BY <1>14 DEF TimerAfter, Task, Finish, WorkerTypeOK, history
  <2>2. s = q /\ Left(tasks'[w], main'[w]) = Tail(q)
    BY <2>1 DEF Left
  <2>3. ASSUME NEW c \in Calls
        PROVE  /\ HoldsOnce(c, Tail(q), a \union {t}, f)
               /\ Holds(c, Tail(q), a \union {t}, f) => Holds(c, q, a, f)
    <3>1. HoldsOnce(c, q, a, f)
      BY <1>2, <2>2
    <3>2. /\ HoldsOnce(c, Tail(q), a, f)
          /\ Holds(c, Tail(q), a, f) => Holds(c, q, a, f)
          /\ Carries(Head(q), c) => ~Holds(c, Tail(q), a, f) /\ Holds(c, q, a, f)
      BY <1>3, <2>1, <3>1, TailToken
    <3>3. Carries(Head(q), c) <=> t.call = c
      BY <2>1 DEF Carries
    <3>4. ArmedFor(a \union {t}, c) <=> ArmedFor(a, c) \/ t.call = c
      BY DEF ArmedFor
    <3>5. CASE t.call = c
      <4>1. ~Holds(c, Tail(q), a, f)
        BY <3>2, <3>3, <3>5
      <4>2. \A u \in a : u.call # c
        BY <4>1 DEF Holds, ArmedFor
      <4>3. \A u, v \in a \union {t} : u.call = c /\ v.call = c => u = v
        BY <4>2
      <4>4. Once(Tail(q), c) /\ ~Has(Tail(q), c) /\ ~FiringFor(f, c)
        BY <3>2, <4>1 DEF Holds, HoldsOnce
      <4>5. HoldsOnce(c, Tail(q), a \union {t}, f)
        BY <4>3, <4>4 DEF HoldsOnce
      <4> QED BY <3>2, <3>3, <3>5, <4>5
    <3>6. CASE t.call # c
      <4>1. \A u, v \in a \union {t} : u.call = c /\ v.call = c => u = v
        BY <3>1, <3>6 DEF HoldsOnce
      <4>2. ArmedFor(a \union {t}, c) <=> ArmedFor(a, c)
        BY <3>4, <3>6
      <4> QED BY <3>2, <4>1, <4>2 DEF Holds, HoldsOnce
    <3> QED BY <3>5, <3>6
  <2> HIDE DEF t
  <2> QED BY <1>6, <2>1, <2>2, <2>3
<1>15. CASE TimerCancel(w)
  <2> DEFINE ts == Cancelled(w, Head(q))
  <2>1. /\ q # <<>> /\ main[w] = "next" /\ tasks'[w] = Tail(q)
        /\ main'[w] = "next" /\ armed'[w] = a \ ts
        /\ UNCHANGED <<mq, runs, firing>>
    BY <1>15 DEF TimerCancel, Task, Finish, WorkerTypeOK
  <2>2. s = q /\ Left(tasks'[w], main'[w]) = Tail(q)
    BY <2>1 DEF Left
  <2>3. ASSUME NEW c \in Calls
        PROVE  \/ removed'[c] = removed[c]
               \/ removed'[c] = "expired"
               \/ \E t \in ts : t \in a /\ t.call = c
    BY <1>15 DEF TimerCancel
  <2> HIDE DEF ts
  <2>4. ASSUME NEW c \in Calls
        PROVE  /\ HoldsOnce(c, Tail(q), a \ ts, f)
               /\ Holds(c, Tail(q), a \ ts, f) => Holds(c, q, a, f)
               /\ (\E t \in ts : t \in a /\ t.call = c) =>
                    Holds(c, q, a, f) /\ ~Holds(c, Tail(q), a \ ts, f)
    <3>1. HoldsOnce(c, q, a, f)
      BY <1>2, <2>2
    <3>2. HoldsOnce(c, Tail(q), a, f) /\ (Holds(c, Tail(q), a, f) => Holds(c, q, a, f))
      BY <1>3, <2>1, <3>1, TailToken
    <3>3. ArmedFor(a \ ts, c) => ArmedFor(a, c)
      BY DEF ArmedFor
    <3>4. (\E t \in ts : t \in a /\ t.call = c) => ArmedFor(a, c) /\ ~ArmedFor(a \ ts, c)
      BY <3>1 DEF ArmedFor, HoldsOnce
    <3>5. HoldsOnce(c, Tail(q), a \ ts, f)
      BY <3>2, <3>3 DEF HoldsOnce
    <3>6. Holds(c, Tail(q), a \ ts, f) => Holds(c, Tail(q), a, f)
      BY <3>3 DEF Holds
    <3>7. ArmedFor(a, c) => ~Has(Tail(q), c) /\ ~FiringFor(f, c) /\ Holds(c, q, a, f)
      BY <3>2 DEF Holds, HoldsOnce
    <3> QED BY <3>2, <3>4, <3>5, <3>6, <3>7 DEF Holds
  <2>5. \A c \in Calls : /\ InWorker(c, w)' <=> Holds(c, Tail(q), a \ ts, f)
                         /\ InWorker(c, w) <=> Holds(c, q, a, f)
    BY <1>2, <2>1, <2>2 DEF InWorker
  <2>6. ASSUME NEW c \in Calls
        PROVE  /\ Once(mq', c)
               /\ HoldsOnce(c, Left(tasks'[w], main'[w]), armed'[w], firing'[w])
               /\ InWorker(c, w)' => InWorker(c, w)
               /\ InWorker(c, w) => ~Has(mq, c)
               /\ InWorker(c, w) \/ Has(mq, c) => removed[c] # "armed"
               /\ \/ removed'[c] = removed[c]
                  \/ removed'[c] # "armed"
                  \/ InWorker(c, w) /\ ~InWorker(c, w)'
    <3>1. HoldsOnce(c, Left(tasks'[w], main'[w]), armed'[w], firing'[w])
      BY <2>1, <2>2, <2>4
    <3>2. InWorker(c, w)' => InWorker(c, w)
      BY <2>4, <2>5
    <3>3. (\E t \in ts : t \in a /\ t.call = c) => InWorker(c, w) /\ ~InWorker(c, w)'
      BY <2>4, <2>5
    <3>4. /\ Once(mq', c)
          /\ InWorker(c, w) => ~Has(mq, c)
          /\ InWorker(c, w) \/ Has(mq, c) => removed[c] # "armed"
      BY <1>2, <2>1
    <3>5. \/ removed'[c] = removed[c] \/ removed'[c] # "armed"
          \/ \E t \in ts : t \in a /\ t.call = c
      BY <2>3
    <3> QED BY <3>1, <3>2, <3>3, <3>4, <3>5
  <2>7. mq' = mq /\ runs' = runs
    BY <2>1
  <2> HIDE DEF q, s, a, f
  <2> QED BY <1>1, <2>6, <2>7, TokenStep
<1>16. CASE TimerExecute(w)
  <2> DEFINE m == [Head(q) EXCEPT !.kind = "run"]
  <2>1. /\ q # <<>> /\ main[w] = "next" /\ main' = main /\ Head(q).kind = "execute"
        /\ tasks'[w] = Append(Tail(q), m) /\ UNCHANGED <<mq, runs, removed, armed, firing>>
    BY <1>16 DEF TimerExecute, Task, WorkerTypeOK, clocks, history
  <2>2. s = q /\ Left(tasks'[w], main'[w]) = Append(Tail(q), m)
    BY <2>1 DEF Left
  <2>3. m \in Messages /\ \A c : Carries(m, c) <=> Carries(Head(q), c)
    BY <1>5, <2>1, MessageKinds DEF Carries
  <2> HIDE DEF m
  <2>4. ASSUME NEW c \in Calls
        PROVE  /\ HoldsOnce(c, Append(Tail(q), m), a, f)
               /\ Holds(c, Append(Tail(q), m), a, f) => Holds(c, q, a, f)
    <3>1. HoldsOnce(c, q, a, f)
      BY <1>2, <2>2
    <3>2. /\ Has(q, c) <=> Carries(Head(q), c) \/ Has(Tail(q), c)
          /\ Once(q, c) => Once(Tail(q), c) /\ ~(Carries(Head(q), c) /\ Has(Tail(q), c))
      BY <1>3, <2>1, TailFacts
    <3>3. \A r \in Seq(Messages), x \in Messages :
            /\ Has(Append(r, x), c) <=> Has(r, c) \/ Carries(x, c)
            /\ Once(r, c) /\ ~(Has(r, c) /\ Carries(x, c)) => Once(Append(r, x), c)
      BY AppendFacts
    <3>4. /\ Has(Append(Tail(q), m), c) <=> Has(q, c)
          /\ Once(q, c) => Once(Append(Tail(q), m), c)
      BY <1>5, <2>1, <2>3, <3>2, <3>3
    <3> QED BY <3>1, <3>4 DEF Holds, HoldsOnce
  <2> QED BY <1>6, <2>1, <2>2, <2>4
<1>17. CASE ExecuteCancel(w)
  <2> DEFINE m == Cancel(None, Head(q).id, Role[Head(q).call])
  <2>1. /\ q # <<>> /\ main[w] = "next" /\ main'[w] = "call" /\ Head(q).kind = "run"
        /\ mq' = Append(mq, m) /\ UNCHANGED <<tasks, runs, removed, armed, firing>>
    BY <1>17 DEF ExecuteCancel, Task, Send, WorkerTypeOK, clocks, history
  <2>2. Left(tasks'[w], main'[w]) = s
    BY <2>1 DEF Left
  <2>3. m \in Messages /\ \A c : ~Carries(m, c)
    BY <1>5, <2>1, MessageKinds, MessageForms DEF Carries
  <2> HIDE DEF m
  <2>4. ASSUME NEW c \in Calls
        PROVE  (Has(mq', c) <=> Has(mq, c)) /\ Once(mq', c)
    <3>1. \A r \in Seq(Messages), x \in Messages :
            /\ Has(Append(r, x), c) <=> Has(r, c) \/ Carries(x, c)
            /\ Once(r, c) /\ ~(Has(r, c) /\ Carries(x, c)) => Once(Append(r, x), c)
      BY AppendFacts
    <3> QED BY <1>2, <1>3, <2>1, <2>3, <3>1
  <2>5. \A c \in Calls : InWorker(c, w)' <=> InWorker(c, w)
    BY <2>1, <2>2 DEF InWorker
  <2>6. ASSUME NEW c \in Calls
        PROVE  /\ HoldsOnce(c, Left(tasks'[w], main'[w]), armed'[w], firing'[w])
               /\ InWorker(c, w) => ~Has(mq, c)
               /\ InWorker(c, w) \/ Has(mq, c) => removed[c] # "armed"
    BY <1>2, <2>1, <2>2
  <2>7. runs' = runs /\ removed' = removed
    BY <2>1
  <2> HIDE DEF q, s, a, f
  <2> QED BY <1>1, <2>4, <2>5, <2>6, <2>7, TokenStep
<1>18. CASE ExecuteRun(w)
  <2>1. /\ q # <<>> /\ main[w] = "call" /\ Head(q).kind = "run" /\ tasks'[w] = Tail(q)
        /\ main'[w] = "next" /\ runs' = [runs EXCEPT ![Head(q).call] = @ + 1]
        /\ UNCHANGED <<mq, removed, armed, firing>>
    BY <1>18 DEF ExecuteRun, MainOK, MainIn, WorkerTypeOK, clocks
  <2> QED BY <1>8, <2>1 DEF Left
<1> QED BY <1>9, <1>10, <1>11, <1>12, <1>13, <1>14, <1>15, <1>16, <1>17, <1>18 DEF Main

----------------------------------------------------------------------------
(* Replies                                                                 *)

\* A call whose answer and outcome a step does not touch
LEMMA ReplySame ==
  ASSUME WorkerTypeOK, NEW c \in Calls, ReplyOK(c),
         pc'[c] = pc[c] \/ (pc[c] = "wait" /\ pc'[c] = "end"), kind'[c] = kind[c],
         reply'[c] = reply[c], ready'[c] = ready[c], result'[c] = result[c],
         interrupted'[c] = interrupted[c], outcome'[c] = outcome[c],
         runs'[c] = runs[c] \/ runs'[c] = runs[c] + 1
  PROVE  ReplyOK(c)'
<1>1. runs[c] \in Nat
  BY DEF WorkerTypeOK
<1>2. runs[c] > 0 => runs'[c] > 0
  BY <1>1
<1> QED BY <1>2 DEF ReplyOK

\* The semaphore is posted and the reply given: to a call for a timer, or to a
\* statement, whose outcome there is.
LEMMA ReplyPosted ==
  ASSUME WorkerTypeOK, NEW c \in Calls, ReplyOK(c), kind[c] # "none", Post(c),
         kind[c] = "sql" => outcome[c] # "none" /\ reply'[c] = reply[c],
         UNCHANGED <<kind, pc, result, interrupted, outcome, runs>>
  PROVE  ReplyOK(c)'
<1>1. pc'[c] # "start"
  BY DEF ReplyOK
<1> QED BY <1>1 DEF ReplyOK

LEMMA SessionReplies ==
  ASSUME WorkerTypeOK, RepliesOK,
         \/ \E c \in Calls :
              sql(c) \/ timer_after(c) \/ timer_cancel(c) \/ Return(c) \/ Interrupt(c)
         \/ reload_handlers \/ Abort \/ Commit \/ XactCallback
  PROVE  RepliesOK'
<1>1. ASSUME NEW c \in Calls, NEW k \in {"sql", "after", "cancel"}, NEW m,
             Call(c, k, m, 0), UNCHANGED result,
             pc' \in {[pc EXCEPT ![c] = "wait"], [pc EXCEPT ![c] = "end"]}
      PROVE  RepliesOK'
  <2>1. /\ pc[c] = "start" /\ kind' = [kind EXCEPT ![c] = k] /\ reply' = [reply EXCEPT ![c] = 0]
        /\ UNCHANGED <<ready, result, interrupted, outcome, runs>>
    BY <1>1 DEF Call, history
  <2>2. ReplyOK(c)'
    <3>1. kind'[c] = k /\ reply'[c] = 0 /\ pc'[c] \in {"wait", "end"}
      BY <1>1, <2>1 DEF WorkerTypeOK
    <3>2. ready[c] = 0 /\ result[c] = None /\ outcome[c] = "none"
      BY <2>1 DEF RepliesOK, ReplyOK
    <3> QED BY <2>1, <3>1, <3>2 DEF ReplyOK
  <2>3. ASSUME NEW d \in Calls, d # c PROVE ReplyOK(d)'
    <3>1. kind'[d] = kind[d] /\ reply'[d] = reply[d] /\ pc'[d] = pc[d]
      BY <1>1, <2>1, <2>3 DEF WorkerTypeOK
    <3>2. ReplyOK(d)
      BY DEF RepliesOK
    <3> QED BY <2>1, <3>1, <3>2 DEF ReplyOK
  <2> QED BY <2>2, <2>3 DEF RepliesOK
<1>2. ASSUME NEW c \in Calls, sql(c) \/ timer_after(c) \/ timer_cancel(c) PROVE RepliesOK'
  BY <1>1, <1>2 DEF sql, timer_after, timer_cancel
<1>3. ASSUME NEW c \in Calls, Return(c) PROVE RepliesOK'
  <2>1. /\ pc[c] = "wait" /\ pc' = [pc EXCEPT ![c] = "end"]
        /\ \/ /\ ready[c] > 0
              /\ ready' = [ready EXCEPT ![c] = @ - 1] /\ result' = [result EXCEPT ![c] = reply[c]]
           \/ UNCHANGED <<ready, result>>
        /\ UNCHANGED <<kind, reply, interrupted, outcome, runs>>
    BY <1>3 DEF Return, history
  <2>2. ASSUME NEW d \in Calls PROVE ReplyOK(d)'
    <3>1. ReplyOK(d)
      BY DEF RepliesOK
    <3>2. CASE d # c
      <4>1. pc'[d] = pc[d] /\ ready'[d] = ready[d] /\ result'[d] = result[d]
        BY <2>1, <3>2 DEF WorkerTypeOK
      <4> QED BY <2>1, <3>1, <4>1 DEF ReplyOK
    <3>3. CASE d = c /\ UNCHANGED <<ready, result>>
      <4>1. pc'[c] = "end"
        BY <2>1 DEF WorkerTypeOK
      <4> QED BY <2>1, <3>1, <3>3, <4>1 DEF ReplyOK
    <3>4. CASE /\ d = c /\ ready[c] > 0
               /\ ready' = [ready EXCEPT ![c] = @ - 1] /\ result' = [result EXCEPT ![c] = reply[c]]
      <4>1. pc'[c] = "end" /\ result'[c] = reply[c] /\ kind[c] # "none"
        BY <2>1, <3>1, <3>4 DEF WorkerTypeOK, ReplyOK
      <4>2. kind[c] = "sql" /\ ~interrupted[c] => outcome[c] # "none"
        BY <3>1, <3>4 DEF ReplyOK
      <4> QED BY <2>1, <3>1, <3>4, <4>1, <4>2 DEF ReplyOK
    <3> QED BY <2>1, <3>2, <3>3, <3>4
  <2> QED BY <2>2 DEF RepliesOK
<1>4. ASSUME NEW c \in Calls, Interrupt(c) PROVE RepliesOK'
  <2>1. /\ pc[c] = "wait" /\ ready' = [ready EXCEPT ![c] = @ + 1]
        /\ interrupted' = [interrupted EXCEPT ![c] = TRUE]
        /\ UNCHANGED <<kind, reply, pc, result, outcome, runs>>
    BY <1>4 DEF Interrupt, history
  <2>2. ASSUME NEW d \in Calls PROVE ReplyOK(d)'
    <3>1. ReplyOK(d)
      BY DEF RepliesOK
    <3>2. CASE d # c
      <4>1. ready'[d] = ready[d] /\ interrupted'[d] = interrupted[d]
        BY <2>1, <3>2 DEF WorkerTypeOK
      <4> QED BY <2>1, <3>1, <4>1 DEF ReplyOK
    <3>3. CASE d = c
      <4>1. interrupted'[c] /\ kind[c] # "none"
        BY <2>1, <3>1, <3>3 DEF WorkerTypeOK, ReplyOK
      <4> QED BY <2>1, <3>1, <3>3, <4>1 DEF ReplyOK
    <3> QED BY <3>2, <3>3
  <2> QED BY <2>2 DEF RepliesOK
<1>5. ASSUME reload_handlers \/ Abort \/ Commit \/ XactCallback PROVE RepliesOK'
  <2>1. UNCHANGED <<calls, history>>
    BY <1>5 DEF reload_handlers, Abort, Commit, XactCallback
  <2> QED BY <2>1 DEF RepliesOK, ReplyOK, calls, history
<1> QED BY <1>2, <1>3, <1>4, <1>5

\* A statement is run before there is an outcome; threads of workers post when there
\* is one.
LEMMA ThreadReplies ==
  ASSUME WorkerTypeOK, KindsAgree, MainOK, ReceiverOK, InOnePlace, NotYetRun, RepliesOK,
         NEW w \in Workers, Receiver(w) \/ Main(w) \/ Timer(w)
  PROVE  RepliesOK'
<1> DEFINE q == tasks[w]
<1>1. q # <<>> => /\ Head(q) \in Messages /\ Asked(Head(q))
                  /\ Head(q).kind \in {"sql", "after", "execute", "run"} => Head(q).call \in Calls
  BY FirstTask, MessageKinds
<1>2. \A c \in Calls : ReplyOK(c)
  BY DEF RepliesOK
<1>3. ASSUME UNCHANGED <<kind, reply, ready, pc, result, interrupted, outcome, runs>>
      PROVE  RepliesOK'
  BY <1>2, <1>3 DEF RepliesOK, ReplyOK
<1>4. CASE Receiver(w) \/ Timer(w)
  <2>1. CASE Receive(w)
    BY <1>3, <2>1, ReceiveForms DEF calls
  <2>2. CASE Resend(w) \/ Expire(w) \/ Fire(w)
    BY <1>3, <2>2 DEF Resend, Expire, Fire, calls, history
  <2> QED BY <1>4, <2>1, <2>2 DEF Receiver, Timer
<1>5. CASE DoReload(w) \/ InitSql(w) \/ AutostartCommit(w) \/ TimerExecute(w) \/ ExecuteCancel(w)
  BY <1>3, <1>5 DEF DoReload, InitSql, AutostartCommit, TimerExecute, ExecuteCancel, calls, history
<1>6. CASE SqlRun(w)
  <2> DEFINE c == Head(q).call
  <2>1. /\ q # <<>> /\ Head(q).kind = "sql" /\ main[w] = "next"
        /\ runs' = [runs EXCEPT ![c] = @ + 1]
        /\ \E o \in {"committed", "failed"} :
             /\ outcome' = [outcome EXCEPT ![c] = o]
             /\ reply' = [reply EXCEPT ![c] = IF o = "failed" THEN -1 ELSE @]
        /\ UNCHANGED <<kind, ready, pc, result, interrupted>>
    BY <1>6 DEF SqlRun, Task
  <2>2. c \in Calls /\ kind[c] = "sql"
    BY <1>1, <2>1 DEF Asked
  <2>3. PICK o \in {"committed", "failed"} :
          /\ outcome' = [outcome EXCEPT ![c] = o]
          /\ reply' = [reply EXCEPT ![c] = IF o = "failed" THEN -1 ELSE @]
    BY <2>1
  <2>4. runs[c] = 0
    <3>1. Has(q, c)
      BY <2>1, TailFacts DEF Carries, WorkerTypeOK
    <3>2. InWorker(c, w)
      BY <2>1, <3>1 DEF InWorker, Left, Holds
    <3> QED BY <2>2, <3>2 DEF NotYetRun, Somewhere
  <2>5. /\ outcome'[c] = o /\ reply'[c] = (IF o = "failed" THEN -1 ELSE reply[c])
        /\ runs'[c] = 1
    BY <2>1, <2>2, <2>3, <2>4 DEF WorkerTypeOK
  <2>6. \A d \in Calls : d # c => /\ outcome'[d] = outcome[d] /\ reply'[d] = reply[d]
                                  /\ runs'[d] = runs[d]
    BY <2>1, <2>2, <2>3 DEF WorkerTypeOK
  <2>7. ReplyOK(c) /\ outcome[c] = "none" /\ reply[c] = 0
    BY <1>2, <2>2, <2>4 DEF ReplyOK
  <2> HIDE DEF q, c
  <2>8. ASSUME NEW d \in Calls, d = c PROVE ReplyOK(d)'
    <3>1. ~interrupted[d] => ~(ready[d] > 0) /\ result[d] = None
      BY <2>2, <2>7, <2>8 DEF ReplyOK
    <3>2. kind'[d] = "sql" /\ pc'[d] # "start"
      BY <2>1, <2>2, <2>7, <2>8 DEF ReplyOK
    <3> QED BY <2>1, <2>5, <2>7, <2>8, <3>1, <3>2 DEF ReplyOK
  <2>9. ASSUME NEW d \in Calls, d # c PROVE ReplyOK(d)'
    BY <1>2, <2>1, <2>6, <2>9, ReplySame
  <2> QED BY <2>8, <2>9 DEF RepliesOK
<1>7. CASE SqlPost(w)
  <2> DEFINE c == Head(q).call
  <2>1. /\ q # <<>> /\ Head(q).kind = "sql" /\ outcome[c] # "none" /\ Post(c)
        /\ UNCHANGED <<kind, reply, pc, result, interrupted, outcome, runs>>
    BY <1>7 DEF SqlPost, MainOK, MainIn, history
  <2>2. c \in Calls /\ kind[c] = "sql"
    BY <1>1, <2>1 DEF Asked
  <2>3. \A d \in Calls : d # c => ready'[d] = ready[d]
    BY <2>1, <2>2 DEF Post, WorkerTypeOK
  <2> HIDE DEF q, c
  <2>4. ASSUME NEW d \in Calls, d = c PROVE ReplyOK(d)'
    BY <1>2, <2>1, <2>2, <2>4, ReplyPosted
  <2>5. ASSUME NEW d \in Calls, d # c PROVE ReplyOK(d)'
    BY <1>2, <2>1, <2>3, <2>5, ReplySame
  <2> QED BY <2>4, <2>5 DEF RepliesOK
<1>8. CASE TimerAfter(w)
  <2> DEFINE c == Head(q).call
  <2>1. /\ q # <<>> /\ Head(q).kind = "after" /\ Post(c)
        /\ reply' = [reply EXCEPT ![c] = timer_id]
        /\ UNCHANGED <<kind, pc, result, interrupted, outcome, runs>>
    BY <1>8 DEF TimerAfter, Task, history
  <2>2. c \in Calls /\ kind[c] = "after"
    BY <1>1, <2>1 DEF Asked
  <2>3. \A d \in Calls : d # c => ready'[d] = ready[d] /\ reply'[d] = reply[d]
    BY <2>1, <2>2 DEF Post, WorkerTypeOK
  <2> HIDE DEF q, c
  <2>4. ASSUME NEW d \in Calls, d = c PROVE ReplyOK(d)'
    BY <1>2, <2>1, <2>2, <2>4, ReplyPosted
  <2>5. ASSUME NEW d \in Calls, d # c PROVE ReplyOK(d)'
    BY <1>2, <2>1, <2>3, <2>5, ReplySame
  <2> QED BY <2>4, <2>5 DEF RepliesOK
<1>9. CASE TimerCancel(w)
  <2> DEFINE c == Head(q).call
  <2>1. /\ q # <<>> /\ Head(q).kind = "cancel"
        /\ \/ c # None /\ Post(c) /\ reply' = [reply EXCEPT ![c] = 1]
           \/ UNCHANGED <<reply, ready>>
        /\ UNCHANGED <<kind, pc, result, interrupted, outcome, runs>>
    BY <1>9 DEF TimerCancel, Task
  <2>2. c # None => c \in Calls /\ kind[c] = "cancel"
    BY <1>1, <2>1 DEF Asked
  <2>3. CASE UNCHANGED <<reply, ready>>
    BY <1>3, <2>1, <2>3
  <2>4. CASE c # None /\ Post(c) /\ reply' = [reply EXCEPT ![c] = 1]
    <3>1. \A d \in Calls : d # c => ready'[d] = ready[d] /\ reply'[d] = reply[d]
      BY <2>2, <2>4 DEF Post, WorkerTypeOK
    <3> HIDE DEF q, c
    <3>2. ASSUME NEW d \in Calls, d = c PROVE ReplyOK(d)'
      BY <1>2, <2>1, <2>2, <2>4, <3>2, ReplyPosted
    <3>3. ASSUME NEW d \in Calls, d # c PROVE ReplyOK(d)'
      BY <1>2, <2>1, <3>1, <3>3, ReplySame
    <3> QED BY <3>2, <3>3 DEF RepliesOK
  <2> QED BY <2>1, <2>3, <2>4
<1>10. CASE ExecuteRun(w)
  <2>1. /\ runs' = [runs EXCEPT ![Head(q).call] = @ + 1]
        /\ UNCHANGED <<kind, reply, ready, pc, result, interrupted, outcome>>
    BY <1>10 DEF ExecuteRun, calls
  <2>2. \A d \in Calls : runs'[d] = runs[d] \/ runs'[d] = runs[d] + 1
    BY <2>1 DEF WorkerTypeOK
  <2>3. ASSUME NEW d \in Calls PROVE ReplyOK(d)'
    BY <1>2, <2>1, <2>2, ReplySame
  <2> QED BY <2>3 DEF RepliesOK
<1> QED BY <1>4, <1>5, <1>6, <1>7, <1>8, <1>9, <1>10 DEF Main

\* Sessions end when the server restarts; replies stay.
LEMMA FaultReplies ==
  ASSUME WorkerTypeOK, RepliesOK, (\E w \in Workers : Terminate(w)) \/ Restart
  PROVE  RepliesOK'
<1>1. /\ UNCHANGED <<kind, reply, ready, result, interrupted, outcome, runs>>
      /\ \A c \in Calls : pc'[c] = pc[c] \/ (pc[c] = "wait" /\ pc'[c] = "end")
  BY DEF Terminate, Restart, calls
<1>2. ASSUME NEW c \in Calls PROVE ReplyOK(c)'
  <2>1. ReplyOK(c)
    BY DEF RepliesOK
  <2> QED BY <1>1, <2>1, ReplySame
<1> QED BY <1>2 DEF RepliesOK

----------------------------------------------------------------------------
(* Autostart statements                                                    *)

\* A step that starts none and counts none
LEMMA AutostartSame ==
  ASSUME AutostartsOK, UNCHANGED <<done, autostarts>>,
         leader \in Workers /\ main'[leader] = "started" => main[leader] = "started"
  PROVE  AutostartsOK'
BY DEF AutostartsOK

\* The leader sets done before it runs them; no other worker runs them.
LEMMA MainAutostart ==
  ASSUME WorkerTypeOK, MainOK, AutostartsOK, NEW w \in Workers, Main(w)
  PROVE  AutostartsOK'
<1>1. autostarts \in Nat /\ autostarts <= 1 /\ (autostarts = 1 => done)
  BY DEF WorkerTypeOK, AutostartsOK
<1>2. CASE InitSql(w)
  <2>1. ~done /\ done' = TRUE /\ autostarts' = autostarts
    BY <1>2 DEF InitSql, Autostarts, history
  <2> QED BY <1>1, <2>1 DEF AutostartsOK
<1>3. CASE AutostartCommit(w)
  <2>1. w = leader /\ main[w] = "started" /\ main'[w] = "next"
    BY <1>3 DEF AutostartCommit, MainOK, MainIn, Finish, WorkerTypeOK
  <2>2. autostarts = 0 /\ done /\ done' = done /\ autostarts' = autostarts + 1
    BY <1>3, <2>1 DEF AutostartCommit, AutostartsOK, shmem
  <2> QED BY <2>1, <2>2 DEF AutostartsOK
<1>4. CASE DoReload(w) \/ SqlPost(w)
  BY <1>4, AutostartSame DEF DoReload, SqlPost, Finish, WorkerTypeOK, shmem, history
<1>5. CASE SqlRun(w) \/ TimerExecute(w) \/ ExecuteCancel(w) \/ ExecuteRun(w)
  BY <1>5, AutostartSame
     DEF SqlRun, TimerExecute, ExecuteCancel, ExecuteRun, WorkerTypeOK, shmem, history
<1>6. CASE TimerAfter(w)
  BY <1>6, AutostartSame DEF TimerAfter, Finish, WorkerTypeOK, history
<1>7. CASE TimerCancel(w)
  BY <1>7, AutostartSame DEF TimerCancel, Finish, WorkerTypeOK, shmem
<1> QED BY <1>2, <1>3, <1>4, <1>5, <1>6, <1>7 DEF Main

----------------------------------------------------------------------------
(* The inductive invariant and what follows from it                         *)

\* Nothing has been asked for to begin with.
LEMMA WorkerInit == Init => WorkerInv
<1> SUFFICES ASSUME Init PROVE WorkerInv
  OBVIOUS
<1>1. <<Reload>> \in Seq(Messages) /\ DOMAIN <<Reload>> = {1} /\ <<Reload>>[1] = Reload
  BY MessageForms
<1>2. mq = <<>> /\ DOMAIN <<>> = {} /\ <<>> \in Seq(Messages)
  BY DEF Init
<1>3. WorkerTypeOK
  <2>1. /\ mq \in Seq(Messages) /\ tasks \in [Workers -> Seq(Messages)]
        /\ received \in [Workers -> Messages \union {None}]
    BY <1>1, <1>2 DEF Init
  <2>2. /\ kind \in [Calls -> {"none", "sql", "after", "cancel"}]
        /\ reply \in [Calls -> Int] /\ ready \in [Calls -> Nat]
        /\ pc \in [Calls -> {"start", "wait", "end"}]
        /\ result \in [Calls -> Int \union {None}] /\ interrupted \in [Calls -> BOOLEAN]
    BY DEF Init
  <2>3. /\ receiver \in [Workers -> {"off", "on", "get", "resend"}]
        /\ main \in [Workers -> {"next", "started", "ran", "call"}]
        /\ timers \in [Workers -> SUBSET Timers] /\ armed \in [Workers -> SUBSET Timers]
        /\ firing \in [Workers -> Timers \union {None}]
    BY DEF Init
  <2>4. /\ timer_id \in Nat /\ done \in BOOLEAN /\ autostarts \in Nat
        /\ runs \in [Calls -> Nat] /\ outcome \in [Calls -> {"none", "committed", "failed"}]
        /\ removed \in [Calls -> {"no", "armed", "expired"}]
    BY DEF Init
  <2> QED BY <2>1, <2>2, <2>3, <2>4 DEF WorkerTypeOK
<1>4. \A w \in Workers : /\ tasks[w] = <<Reload>> /\ main[w] = "next" /\ receiver[w] = "off"
                         /\ timers[w] = {} /\ armed[w] = {} /\ firing[w] = None
  BY DEF Init
<1>5. KindsAgree
  BY <1>1, <1>2, <1>4, MessageForms DEF KindsAgree, KindsIn, Elems, Asked
<1>6. MainOK
  BY <1>4 DEF MainOK, MainIn
<1>7. ReceiverOK
  BY <1>1, <1>4, MessageForms DEF ReceiverOK, OneMessage
<1>8. \A c : ~Has(<<Reload>>, c) /\ Once(<<Reload>>, c)
  BY <1>1, MessageForms DEF Has, Once, Carries
<1>9. \A c : ~Has(mq, c) /\ Once(mq, c)
  BY <1>2 DEF Has, Once
<1>10. \A c \in Calls, w \in Workers :
         ~InWorker(c, w) /\ HoldsOnce(c, Left(tasks[w], main[w]), armed[w], firing[w])
  BY <1>4, <1>8 DEF InWorker, Holds, HoldsOnce, Left, ArmedFor, FiringFor
<1>11. InOnePlace
  BY <1>9, <1>10 DEF InOnePlace
<1>12. NotYetRun
  BY <1>9, <1>10 DEF NotYetRun, Somewhere, Init
<1>13. RepliesOK
  BY DEF Init, RepliesOK, ReplyOK
<1>14. AutostartsOK
  BY DEF Init, AutostartsOK
<1> QED BY <1>3, <1>5, <1>6, <1>7, <1>11, <1>12, <1>13, <1>14 DEF WorkerInv

\* A session's function sends its call's message.
LEMMA CallStep ==
  ASSUME WorkerInv, NEW c \in Calls, sql(c) \/ timer_after(c) \/ timer_cancel(c)
  PROVE  WorkerInv'
<1>1. PICK k \in {"sql", "after", "cancel"}, m \in Messages :
        m.kind = k /\ m.call = c /\ Call(c, k, m, 0)
  <2>1. CASE sql(c)
    BY <2>1, MessageForms DEF sql
  <2>2. CASE timer_after(c)
    BY <2>2, MessageForms DEF timer_after
  <2>3. CASE timer_cancel(c)
    <3>1. PICK i \in Cancellable : Call(c, "cancel", Cancel(c, i, Role[c]), 0)
      BY <2>3 DEF timer_cancel
    <3>2. /\ Cancel(c, i, Role[c]) \in Messages /\ Cancel(c, i, Role[c]).kind = "cancel"
          /\ Cancel(c, i, Role[c]).call = c
      BY MessageForms
    <3> QED BY <3>1, <3>2
  <2> QED BY <2>1, <2>2, <2>3
<1>2. /\ mq' = Append(mq, m) /\ kind' = [kind EXCEPT ![c] = k] /\ pc[c] = "start"
      /\ UNCHANGED <<threads, clocks, shmem, history>>
  BY <1>1 DEF Call, Send
<1>3. kind[c] = "none"
  BY <1>2 DEF WorkerInv, RepliesOK, ReplyOK
<1>4. WorkerTypeOK'
  BY SessionType DEF WorkerInv
<1>5. KindsAgree' /\ MainOK' /\ ReceiverOK'
  BY <1>1, CallControl DEF WorkerInv
<1>6. InOnePlace' /\ NotYetRun'
  <2>1. UNCHANGED <<threads, clocks, runs, removed>>
    BY <1>2 DEF history
  <2> QED BY <1>1, <1>2, <1>3, <2>1, CallToken DEF WorkerInv
<1>7. RepliesOK'
  BY SessionReplies DEF WorkerInv
<1>8. AutostartsOK'
  BY <1>2, AutostartSame DEF WorkerInv, threads, shmem, history
<1> QED BY <1>4, <1>5, <1>6, <1>7, <1>8 DEF WorkerInv

LEMMA SessionStep ==
  ASSUME WorkerInv,
         \/ \E c \in Calls : Return(c) \/ Interrupt(c)
         \/ reload_handlers \/ Abort \/ Commit \/ XactCallback
  PROVE  WorkerInv'
<1>1. /\ mq' = mq \/ mq' = Append(mq, Reload)
      /\ UNCHANGED <<kind, threads, clocks, shmem, history>>
  BY DEF Return, Interrupt, reload_handlers, Abort, Commit, XactCallback, Send, calls
<1>2. UNCHANGED <<kind, outcome, threads, clocks>> /\ UNCHANGED <<kind, threads, clocks, runs, removed>>
  BY <1>1 DEF history
<1>3. WorkerTypeOK' /\ RepliesOK'
  BY SessionType, SessionReplies DEF WorkerInv
<1>4. KindsAgree' /\ MainOK' /\ ReceiverOK'
  BY <1>1, <1>2, ControlSame DEF WorkerInv
<1>5. InOnePlace' /\ NotYetRun'
  BY <1>1, <1>2, TokenSame DEF WorkerInv
<1>6. AutostartsOK'
  BY <1>1, AutostartSame DEF WorkerInv, threads, shmem, history
<1> QED BY <1>3, <1>4, <1>5, <1>6 DEF WorkerInv

LEMMA ThreadStep ==
  ASSUME WorkerInv, NEW w \in Workers, Receiver(w) \/ Main(w) \/ Timer(w)
  PROVE  WorkerInv'
<1>1. WorkerTypeOK'
  BY ThreadType DEF WorkerInv
<1>2. KindsAgree' /\ MainOK' /\ ReceiverOK'
  BY ThreadControl DEF WorkerInv
<1>3. InOnePlace' /\ NotYetRun'
  BY ReceiverToken, MainToken DEF WorkerInv
<1>4. RepliesOK'
  BY ThreadReplies DEF WorkerInv
<1>5. AutostartsOK'
  <2>1. CASE Main(w)
    BY <2>1, MainAutostart DEF WorkerInv
  <2>2. CASE Receiver(w) \/ Timer(w)
    <3>1. UNCHANGED <<done, autostarts, main>>
      BY <2>2, ReceiveForms DEF Receiver, Resend, Timer, Expire, Fire, threads, shmem, history
    <3> QED BY <3>1, AutostartSame DEF WorkerInv
  <2> QED BY <2>1, <2>2
<1> QED BY <1>1, <1>2, <1>3, <1>4, <1>5 DEF WorkerInv

LEMMA FaultStep ==
  ASSUME WorkerInv, (\E w \in Workers : Terminate(w)) \/ Restart
  PROVE  WorkerInv'
<1>1. WorkerTypeOK' /\ RepliesOK'
  BY FaultType, FaultReplies DEF WorkerInv
<1>2. PICK W : Processes(W) /\ UNCHANGED <<mq, kind, outcome, runs, removed>>
  BY DEF Terminate, Restart, calls
<1>3. KindsAgree' /\ MainOK' /\ ReceiverOK'
  BY <1>2, FaultControl DEF WorkerInv
<1>4. InOnePlace' /\ NotYetRun'
  BY <1>2, FaultToken DEF WorkerInv
<1>5. AutostartsOK'
  <2>1. CASE \E w \in Workers : Terminate(w)
    <3>1. UNCHANGED <<done, autostarts>>
      BY <2>1 DEF Terminate, shmem
    <3>2. \A v \in Workers : main'[v] \in {"next", main[v]}
      BY <1>2 DEF Processes
    <3> QED BY <3>1, <3>2, AutostartSame DEF WorkerInv
  <2>2. CASE Restart
    <3>1. \A v \in Workers : main'[v] = "next"
      BY <2>2 DEF Restart, Processes
    <3> QED BY <2>2, <3>1 DEF Restart, AutostartsOK
  <2> QED BY <2>1, <2>2
<1> QED BY <1>1, <1>3, <1>4, <1>5 DEF WorkerInv

\* The inductive invariant: what was asked for is in one place and has not been run.
THEOREM WorkerIndInv == Spec => []WorkerInv
<1>1. Init => WorkerInv
  BY WorkerInit
<1>2. WorkerInv /\ [Next]_vars => WorkerInv'
  <2> SUFFICES ASSUME WorkerInv, [Next]_vars PROVE WorkerInv'
    OBVIOUS
  <2>1. CASE Idle \/ UNCHANGED vars
    <3>1. UNCHANGED vars
      BY <2>1 DEF Idle
    <3> QED BY <3>1 DEF WorkerInv, WorkerTypeOK, KindsAgree, KindsIn, Asked, MainOK, MainIn, ReceiverOK,
                        InOnePlace, InWorker, NotYetRun, Somewhere, RepliesOK, ReplyOK, AutostartsOK,
                        vars, calls, threads, clocks, shmem, history
  <2> QED BY <2>1, CallStep, SessionStep, ThreadStep, FaultStep DEF Next
<1> QED BY <1>1, <1>2, PTL DEF Spec

\* A statement, and the function of a timer, is run once at most: SqlRun and ExecuteRun
\* take away the only message or task that leads to them.
THEOREM WorkerRunsOnce == Spec => []RunsOnce
<1>1. WorkerInv => RunsOnce
  BY DEF WorkerInv, NotYetRun, RunsOnce
<1> QED BY <1>1, WorkerIndInv, PTL

\* A timer that cancel_timer has removed before it expired never runs.
THEOREM WorkerCancelStops == Spec => []CancelStops
<1>1. WorkerInv => CancelStops
  BY DEF WorkerInv, NotYetRun, CancelStops
<1> QED BY <1>1, WorkerIndInv, PTL

\* What sql returns tells how its transaction ended, unless it was interrupted.
THEOREM WorkerAnswerHonest == Spec => []AnswerHonest
<1>1. ASSUME WorkerInv PROVE AnswerHonest
  <2> SUFFICES ASSUME NEW c \in Calls, kind[c] = "sql", result[c] # None, ~interrupted[c]
               PROVE  outcome[c] = (IF result[c] = 0 THEN "committed" ELSE "failed")
    BY DEF AnswerHonest
  <2>1. ReplyOK(c) /\ outcome[c] \in {"none", "committed", "failed"}
    BY <1>1 DEF WorkerInv, RepliesOK, WorkerTypeOK
  <2> QED BY <2>1 DEF ReplyOK
<1> QED BY <1>1, WorkerIndInv, PTL

\* The autostart statements are committed once at most in the life of a server.
THEOREM WorkerAutostartOnce == Spec => []AutostartOnce
<1>1. WorkerInv => AutostartOnce
  BY DEF WorkerInv, AutostartsOK, AutostartOnce
<1> QED BY <1>1, WorkerIndInv, PTL
=============================================================================
