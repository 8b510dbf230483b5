------------------------ MODULE HttpdControlProofs ------------------------
(***************************************************************************)
(* Proofs about HttpdControl, for any number of processes, masters, calls   *)
(* and failures.                                                           *)
(*                                                                         *)
(* As long as no call is rolled back and none is made while another one     *)
(* waits for its commit, one request waits at most, and it says, with the   *)
(* flags and the lock, which master there may be.                           *)
(***************************************************************************)
EXTENDS HttpdControl, FiniteSetTheorems, SequenceTheorems, TLAPS

Places ==
  {"new", "none", "registered", "idle", "open", "start now", "start later", "start locked",
   "stop locked", "pre-commit", "dealloc", "start waits", "stop waits", "gone"}

Requests == [op : {"start", "stop"}, handle : Masters \union {NoMaster}]

ControlTypeOK ==
  /\ should_start \in BOOLEAN /\ started \in BOOLEAN
  /\ lock \in Processes \union {Free}
  /\ handle \in Masters \union {NoMaster}
  /\ pc \in [Processes -> Places]
  /\ requests \in [Processes -> Seq(Requests)]
  /\ events \in [Processes -> Seq({"pre-commit", "commit", "abort"})]
  /\ target \in [Processes -> Masters \union {NoMaster}]
  /\ terminate \subseteq Masters

\* A number that was given to a master stays in use.
Known(h) == h # NoMaster => pc[h] # "none"

Numbers ==
  /\ Known(handle) /\ \A m \in terminate : Known(m)
  /\ \A p \in Processes : /\ Known(target[p])
                          /\ \A i \in DOMAIN requests[p] : Known(requests[p][i].handle)
                          /\ pc[p] \in {"start locked", "start waits"} => target[p] # NoMaster

\* Who has the lock, and what the flags are meanwhile
LockOK ==
  /\ started => should_start
  /\ \A p \in Processes :
       /\ pc[p] \in {"start locked", "stop locked"} <=> lock = p
       /\ pc[p] = "start locked" => should_start /\ ~started
       /\ pc[p] = "stop locked" => started

\* Requests are made in a transaction and dealt with at its end.
TransactionOK ==
  \A p \in Processes :
    /\ pc[p] \in {"none", "registered", "new", "idle", "gone"} => requests[p] = <<>>
    /\ pc[p] = "start waits" => requests[p] # <<>> /\ Head(requests[p]).op = "start"
    /\ pc[p] = "stop waits" => /\ requests[p] # <<>> /\ Head(requests[p]).op = "stop"
                               /\ Head(requests[p]).handle \in terminate \union {NoMaster}

BasicInv == ControlTypeOK /\ Numbers /\ LockOK /\ TransactionOK

Undisturbed == mishaps \cap {"abort", "overlap"} = {}

NoRequest == \A p \in Processes : requests[p] = <<>>

\* The one request that waits, and the master there may be while it does
Start1(p) ==
  /\ requests[p] = <<Start>> /\ started
  /\ Alive \subseteq IF pc[p] = "start waits" THEN {target[p]} ELSE {}

Stop1(p) ==
  \E h \in Masters \union {NoMaster} :
    requests[p] = <<Stop(h)>> /\ ~started /\ ~should_start /\ Alive \subseteq {h}

OneRequest ==
  \A p \in Processes : requests[p] # <<>> =>
    /\ \A q \in Processes : requests[q] # <<>> => q = p
    /\ Start1(p) \/ Stop1(p)
    /\ pc[p] = "dealloc" => events[p] # <<>> /\ Head(events[p]) = "commit"

\* The master there may be when none waits
Settled ==
  /\ NoRequest /\ started => Alive \subseteq {handle}
  /\ NoRequest /\ ~started =>
       \A m \in Alive : \E p \in Processes : pc[p] = "start locked" /\ target[p] = m
  /\ \A p \in Processes : pc[p] = "stop locked" => NoRequest /\ Alive = {}

\* ... and there is, if none has failed
Present ==
  /\ \A p \in Processes : pc[p] \in {"start locked", "start waits"} => target[p] \in Alive
  /\ NoRequest /\ started /\ (\A p \in Processes : pc[p] # "stop locked") => handle \in Alive

ControlInv ==
  /\ BasicInv
  /\ Undisturbed => OneRequest /\ Settled
  /\ Undisturbed /\ "failure" \notin mishaps => Present

----------------------------------------------------------------------------
(* Types, numbers, the lock and the end of transactions                    *)

Quiets == {"none", "registered", "new", "idle", "gone"}

\* The processes are distinct from Free, and numbers of masters from NoMaster.
LEMMA ProcessFacts ==
  /\ Free \notin Processes /\ NoMaster \notin Masters /\ Masters \subseteq Processes
BY ConstantsAssumption DEF Processes, Free, NoMaster

\* What a sequence of requests is made of
LEMMA OfRequests ==
  ASSUME NEW s \in Seq(Requests), NEW i \in DOMAIN s
  PROVE  s[i] \in Requests /\ s[i].handle \in Masters \union {NoMaster}
<1>1. s[i] \in Requests
  <2>1. i \in 1 .. Len(s)
    BY LenProperties
  <2> QED BY <2>1, ElementOfSeq
<1> QED BY <1>1 DEF Requests

\* A process goes from one place to another without taking or giving back the lock,
\* and leaves the requests of others alone.
LEMMA GotoStep ==
  ASSUME BasicInv, NEW p \in Processes, NEW x \in Places, Goto(p, x),
         pc[p] \notin {"none", "start locked", "stop locked"},
         x \notin {"none", "start locked", "stop locked", "start waits", "stop waits"},
         UNCHANGED <<lock, target, terminate>>,
         should_start' \in BOOLEAN, started' \in BOOLEAN, started' => should_start',
         lock = Free \/ UNCHANGED control,
         handle' \in Masters \union {NoMaster}, handle' # NoMaster => pc[handle'] # "none",
         events' \in [Processes -> Seq({"pre-commit", "commit", "abort"})],
         requests' \in [Processes -> Seq(Requests)],
         \A q \in Processes \ {p} : requests'[q] = requests[q],
         \A i \in DOMAIN requests'[p] : Known(requests'[p][i].handle),
         x \in Quiets => requests'[p] = <<>>
  PROVE  BasicInv'
<1>1. pc' \in [Processes -> Places] /\ pc'[p] = x /\ \A q \in Processes \ {p} : pc'[q] = pc[q]
  BY DEF Goto, BasicInv, ControlTypeOK
<1>2. ControlTypeOK'
  BY <1>1 DEF BasicInv, ControlTypeOK
<1>3. \A q \in Processes : pc[q] # "none" => pc'[q] # "none"
  BY <1>1
<1>4. Numbers'
  <2>1. Known(handle)'
    BY <1>3, ProcessFacts DEF Known
  <2>2. \A m \in terminate' : Known(m)'
    BY <1>3, ProcessFacts DEF Known, BasicInv, Numbers, ControlTypeOK
  <2>3. ASSUME NEW q \in Processes
        PROVE  /\ Known(target[q])'
               /\ pc'[q] \in {"start locked", "start waits"} => target'[q] # NoMaster
    <3>1. /\ Known(target[q]) /\ target[q] \in Masters \union {NoMaster}
          /\ pc[q] \in {"start locked", "start waits"} => target[q] # NoMaster
      BY DEF BasicInv, Numbers, ControlTypeOK
    <3>2. pc'[q] \in {"start locked", "start waits"} => pc'[q] = pc[q]
      BY <1>1
    <3> QED BY <1>3, <3>1, <3>2, ProcessFacts DEF Known
  <2>4. ASSUME NEW q \in Processes, NEW i \in DOMAIN requests'[q]
        PROVE  Known(requests[q][i].handle)'
    <3>1. requests'[q] \in Seq(Requests)
      OBVIOUS
    <3>2. requests'[q][i].handle \in Masters \union {NoMaster}
      BY <3>1, OfRequests
    <3>3. Known(requests'[q][i].handle)
      BY DEF BasicInv, Numbers
    <3> QED BY <1>3, <3>2, <3>3, ProcessFacts DEF Known
  <2> QED BY <2>1, <2>2, <2>3, <2>4 DEF Numbers
<1>5. LockOK'
  <2>1. ASSUME NEW q \in Processes
        PROVE  /\ pc'[q] \in {"start locked", "stop locked"} <=> lock' = q
               /\ pc'[q] \in {"start locked", "stop locked"} => pc'[q] = pc[q] /\ lock = q
    BY <1>1 DEF BasicInv, LockOK
  <2>2. ASSUME NEW q \in Processes
        PROVE  /\ pc'[q] = "start locked" => should_start' /\ ~started'
               /\ pc'[q] = "stop locked" => started'
    <3>1. CASE lock = Free
      BY <2>1, <3>1, ProcessFacts
    <3>2. CASE UNCHANGED control
      BY <2>1, <3>2 DEF BasicInv, LockOK, control
    <3> QED BY <3>1, <3>2
  <2> QED BY <2>1, <2>2 DEF LockOK
<1>6. TransactionOK'
  <2>1. ASSUME NEW q \in Processes
        PROVE  /\ pc'[q] \in {"none", "registered", "new", "idle", "gone"} => requests'[q] = <<>>
               /\ pc'[q] = "start waits" => requests'[q] # <<>> /\ Head(requests'[q]).op = "start"
               /\ pc'[q] = "stop waits" =>
                    /\ requests'[q] # <<>> /\ Head(requests'[q]).op = "stop"
                    /\ Head(requests'[q]).handle \in terminate' \union {NoMaster}
    <3>1. CASE q = p
      BY <1>1, <3>1 DEF Quiets
    <3>2. CASE q # p
      BY <1>1, <3>2 DEF BasicInv, TransactionOK
    <3> QED BY <3>1, <3>2
  <2> QED BY <2>1 DEF TransactionOK
<1> QED BY <1>2, <1>4, <1>5, <1>6 DEF BasicInv

\* The places between which a process that does not have the lock goes
LEMMA CallBasic ==
  ASSUME BasicInv, NEW p \in Processes, Call(p)
  PROVE  BasicInv'
<1>1. CASE \E t \in {"immediately", "after commit"} : start(p, t)
  <2>1. PICK x \in {"start now", "start later"} : Goto(p, x)
    BY <1>1 DEF start
  <2>2. /\ pc[p] \in {"idle", "open"} /\ lock = Free /\ should_start' = TRUE
        /\ UNCHANGED <<started, lock, handle, requests, events, target, terminate>>
    BY <1>1 DEF start, CanCall
  <2> QED BY <2>1, <2>2, GotoStep
          DEF Places, Quiets, BasicInv, ControlTypeOK, Numbers, Known
<1>2. CASE StopLater(p) \/ StopNothing(p)
  <2>1. /\ pc[p] \in {"idle", "open"} /\ lock = Free /\ should_start' = FALSE /\ started' = FALSE
        /\ Goto(p, "open") /\ UNCHANGED <<lock, handle, events, target, terminate>>
        /\ requests' = requests \/ requests' = [requests EXCEPT ![p] = Append(@, Stop(handle))]
    BY <1>2 DEF StopLater, StopNothing, CanCall, BasicInv, ControlTypeOK
  <2>2. Stop(handle) \in Requests /\ Stop(handle).handle = handle
    BY DEF Stop, Requests, BasicInv, ControlTypeOK
  <2>3. /\ requests[p] \in Seq(Requests) /\ Append(requests[p], Stop(handle)) \in Seq(Requests)
        /\ \A i \in DOMAIN Append(requests[p], Stop(handle)) :
             \/ i \in DOMAIN requests[p] /\ Append(requests[p], Stop(handle))[i] = requests[p][i]
             \/ Append(requests[p], Stop(handle))[i] = Stop(handle)
    <3>1. requests[p] \in Seq(Requests)
      BY DEF BasicInv, ControlTypeOK
    <3> QED BY <2>2, <3>1, AppendProperties, LenProperties
  <2>4. /\ requests' \in [Processes -> Seq(Requests)]
        /\ \A q \in Processes \ {p} : requests'[q] = requests[q]
        /\ requests'[p] = requests[p] \/ requests'[p] = Append(requests[p], Stop(handle))
    BY <2>1, <2>3 DEF BasicInv, ControlTypeOK
  <2>5. \A i \in DOMAIN requests'[p] : Known(requests'[p][i].handle)
    BY <2>2, <2>3, <2>4 DEF BasicInv, Numbers
  <2> QED BY <2>1, <2>4, <2>5, GotoStep
          DEF Places, Quiets, BasicInv, ControlTypeOK, Numbers, Known
<1>3. CASE StopNow(p)
  <2>1. /\ pc[p] \in {"idle", "open"} /\ lock = Free /\ lock' = p /\ started
        /\ target' = [target EXCEPT ![p] = handle]
        /\ terminate' = terminate \union ({handle} \ {NoMaster})
        /\ pc' = [pc EXCEPT ![p] = "stop locked"]
        /\ UNCHANGED <<should_start, started, handle, requests, events>>
    BY <1>3 DEF StopNow, CanCall, Goto, control
  <2>2. /\ pc' \in [Processes -> Places] /\ pc'[p] = "stop locked"
        /\ \A q \in Processes \ {p} : pc'[q] = pc[q]
        /\ target' \in [Processes -> Masters \union {NoMaster}] /\ target'[p] = handle
        /\ \A q \in Processes \ {p} : target'[q] = target[q]
    BY <2>1 DEF BasicInv, ControlTypeOK, Places
  <2>3. ControlTypeOK'
    BY <2>1, <2>2 DEF BasicInv, ControlTypeOK
  <2>4. \A h : h \in Masters \union {NoMaster} /\ Known(h) => Known(h)'
    BY <2>2, ProcessFacts DEF Known
  <2>5. Numbers'
    <3>1. Known(handle)' /\ \A m \in terminate' : Known(m)'
      BY <2>1, <2>2, ProcessFacts DEF BasicInv, Numbers, ControlTypeOK, Known
    <3>2. ASSUME NEW q \in Processes
          PROVE  /\ Known(target[q])'
                 /\ pc'[q] \in {"start locked", "start waits"} => target'[q] # NoMaster
      BY <2>1, <2>2, ProcessFacts DEF BasicInv, Numbers, ControlTypeOK, Known
    <3>3. ASSUME NEW q \in Processes, NEW i \in DOMAIN requests'[q]
          PROVE  Known(requests[q][i].handle)'
      <4>1. requests[q] \in Seq(Requests) /\ i \in DOMAIN requests[q]
        BY <2>1 DEF BasicInv, ControlTypeOK
      <4>2. requests[q][i].handle \in Masters \union {NoMaster} /\ Known(requests[q][i].handle)
        BY <4>1, OfRequests DEF BasicInv, Numbers
      <4> QED BY <2>1, <2>2, <4>2, ProcessFacts DEF Known
    <3> QED BY <3>1, <3>2, <3>3 DEF Numbers
  <2>6. LockOK'
    BY <2>1, <2>2, ProcessFacts DEF BasicInv, LockOK
  <2>7. TransactionOK'
    BY <2>1, <2>2 DEF BasicInv, TransactionOK
  <2> QED BY <2>3, <2>5, <2>6, <2>7 DEF BasicInv
<1> QED BY <1>1, <1>2, <1>3 DEF Call

\* Requests that come and go
LEMMA AppendRequest ==
  ASSUME NEW s \in Seq(Requests), NEW r \in Requests
  PROVE  /\ Append(s, r) \in Seq(Requests)
         /\ \A i \in DOMAIN Append(s, r) :
              \/ i \in DOMAIN s /\ Append(s, r)[i] = s[i]
              \/ Append(s, r)[i] = r
BY AppendProperties, LenProperties

LEMMA FirstRequest ==
  ASSUME NEW s \in Seq(Requests), s # <<>>
  PROVE  /\ 1 \in DOMAIN s /\ Head(s) = s[1] /\ Head(s) \in Requests
         /\ Head(s).handle \in Masters \union {NoMaster}
         /\ Tail(s) \in Seq(Requests)
         /\ \A i \in DOMAIN Tail(s) : \E j \in DOMAIN s : Tail(s)[i] = s[j]
<1>1. 1 \in DOMAIN s /\ Head(s) = s[1]
  BY HeadTailProperties, LenProperties, EmptySeq
<1>2. Head(s) \in Requests
  BY <1>1, OfRequests
<1>3. Tail(s) \in Seq(Requests) /\ \A i \in DOMAIN Tail(s) : i + 1 \in DOMAIN s /\ Tail(s)[i] = s[i + 1]
  BY HeadTailProperties, LenProperties, EmptySeq
<1> QED BY <1>1, <1>2, <1>3 DEF Requests

\* start_master_worker asks for the start, or does nothing.
LEMMA RequestStartFacts ==
  ASSUME BasicInv, NEW p \in Processes, RequestStart(p)
  PROVE  /\ requests' \in [Processes -> Seq(Requests)]
         /\ \A q \in Processes \ {p} : requests'[q] = requests[q]
         /\ \A i \in DOMAIN requests'[p] : Known(requests'[p][i].handle)
         /\ started' \in BOOLEAN /\ (started' => should_start)
<1>1. Start \in Requests /\ Start.handle = NoMaster
  BY DEF Start, Requests
<1>2. requests[p] \in Seq(Requests) /\ requests \in [Processes -> Seq(Requests)]
  BY DEF BasicInv, ControlTypeOK
<1>3. started' \in BOOLEAN /\ (started' => should_start)
  BY DEF RequestStart, MayStart, BasicInv, ControlTypeOK, LockOK
<1>4. CASE requests' = requests
  BY <1>2, <1>3, <1>4 DEF BasicInv, Numbers
<1>5. CASE requests' = [requests EXCEPT ![p] = Append(@, Start)]
  <2>1. requests'[p] = Append(requests[p], Start)
    BY <1>2, <1>5
  <2>2. /\ Append(requests[p], Start) \in Seq(Requests)
        /\ \A i \in DOMAIN Append(requests[p], Start) :
             \/ i \in DOMAIN requests[p] /\ Append(requests[p], Start)[i] = requests[p][i]
             \/ Append(requests[p], Start)[i] = Start
    BY <1>1, <1>2, AppendRequest
  <2>3. ASSUME NEW i \in DOMAIN requests'[p]
        PROVE  Known(requests'[p][i].handle)
    BY <1>1, <2>1, <2>2 DEF Known, BasicInv, Numbers
  <2> QED BY <1>2, <1>3, <1>5, <2>2, <2>3
<1> QED BY <1>4, <1>5 DEF RequestStart

\* A request is dealt with.
LEMMA PopFacts ==
  ASSUME BasicInv, NEW p \in Processes, Pop(p), requests[p] # <<>>
  PROVE  /\ requests' \in [Processes -> Seq(Requests)] /\ requests'[p] = Tail(requests[p])
         /\ \A q \in Processes \ {p} : requests'[q] = requests[q]
         /\ \A i \in DOMAIN requests'[p] : Known(requests'[p][i].handle)
<1>1. requests[p] \in Seq(Requests) /\ requests \in [Processes -> Seq(Requests)]
  BY DEF BasicInv, ControlTypeOK
<1>2. /\ Tail(requests[p]) \in Seq(Requests)
      /\ \A i \in DOMAIN Tail(requests[p]) :
           \E j \in DOMAIN requests[p] : Tail(requests[p])[i] = requests[p][j]
  BY <1>1, FirstRequest
<1>3. /\ requests'[p] = Tail(requests[p])
      /\ requests' \in [Processes -> Seq(Requests)]
      /\ \A q \in Processes \ {p} : requests'[q] = requests[q]
  BY <1>1, <1>2 DEF Pop
<1> QED BY <1>2, <1>3 DEF BasicInv, Numbers

\* The steps of a process that neither takes the lock nor begins to wait
LEMMA ProceedBasic ==
  ASSUME BasicInv, NEW p \in Processes,
         \/ _Omni_init(p) \/ StartLater(p) \/ StartNothing(p) \/ PreCommit(p) \/ Commit(p)
         \/ Abort(p) \/ StartDone(p) \/ StopDone(p) \/ on_xact_dealloc(p)
  PROVE  BasicInv'
<1> USE DEF Places, Quiets
<1>t. /\ requests \in [Processes -> Seq(Requests)] /\ handle \in Masters \union {NoMaster}
      /\ events \in [Processes -> Seq({"pre-commit", "commit", "abort"})]
      /\ should_start \in BOOLEAN /\ started \in BOOLEAN /\ (started => should_start)
      /\ handle # NoMaster => pc[handle] # "none"
      /\ target[p] \in Masters \union {NoMaster} /\ Known(target[p])
      /\ \A i \in DOMAIN requests[p] : Known(requests[p][i].handle)
  BY DEF BasicInv, ControlTypeOK, LockOK, Numbers, Known
<1>1. CASE _Omni_init(p) \/ StartLater(p)
  <2>1. /\ pc[p] \in {"new", "start later"} /\ lock = Free /\ RequestStart(p) /\ Goto(p, "open")
        /\ UNCHANGED <<should_start, lock, handle, events, target, terminate>>
    BY <1>1 DEF _Omni_init, StartLater
  <2>2. /\ requests' \in [Processes -> Seq(Requests)]
        /\ \A q \in Processes \ {p} : requests'[q] = requests[q]
        /\ \A i \in DOMAIN requests'[p] : Known(requests'[p][i].handle)
        /\ started' \in BOOLEAN /\ (started' => should_start)
    BY <2>1, RequestStartFacts
  <2> QED BY <1>t, <2>1, <2>2, GotoStep
<1>2. CASE StartNothing(p)
  <2>1. /\ pc[p] = "start now" /\ Goto(p, "open")
        /\ UNCHANGED <<control, lock, handle, requests, events, target, terminate>>
    BY <1>2 DEF StartNothing
  <2> QED BY <1>t, <2>1, GotoStep DEF control
<1>3. CASE PreCommit(p) \/ Commit(p) \/ Abort(p)
  <2>1. PICK e \in {"pre-commit", "commit", "abort"}, x \in {"pre-commit", "dealloc"} :
          /\ pc[p] \in {"open", "pre-commit"} /\ OnEvent(p, e) /\ Goto(p, x)
          /\ UNCHANGED <<control, lock, handle, requests, target, terminate>>
    BY <1>3 DEF PreCommit, Commit, Abort
  <2>2. events' \in [Processes -> Seq({"pre-commit", "commit", "abort"})]
    <3>1. <<e>> \o events[p] \in Seq({"pre-commit", "commit", "abort"})
      BY <1>t
    <3>2. PICK es \in Seq({"pre-commit", "commit", "abort"}) : events' = [events EXCEPT ![p] = es]
      <4>1. CASE requests[p] = <<>>
        <5>1. events' = [events EXCEPT ![p] = <<>>]
          BY <2>1, <4>1 DEF OnEvent
        <5>2. <<>> \in Seq({"pre-commit", "commit", "abort"})
          BY EmptySeq
        <5> QED BY <5>1, <5>2, Zenon
      <4>2. CASE requests[p] # <<>>
        BY <1>t, <2>1, <3>1, <4>2 DEF OnEvent
      <4> QED BY <4>1, <4>2
    <3> QED BY <1>t, <3>2
  <2> QED BY <1>t, <2>1, <2>2, GotoStep DEF control
<1>4. CASE StartDone(p)
  <2>1. /\ pc[p] = "start waits" /\ handle' = target[p] /\ Pop(p) /\ Goto(p, "dealloc")
        /\ UNCHANGED <<control, lock, events, target, terminate>>
    BY <1>4 DEF StartDone, StartupSeen
  <2>2. /\ requests' \in [Processes -> Seq(Requests)]
        /\ \A q \in Processes \ {p} : requests'[q] = requests[q]
        /\ \A i \in DOMAIN requests'[p] : Known(requests'[p][i].handle)
    BY <2>1, PopFacts DEF BasicInv, TransactionOK
  <2>3. handle' \in Masters \union {NoMaster} /\ (handle' # NoMaster => pc[handle'] # "none")
    BY <1>t, <2>1 DEF Known
  <2> QED BY <1>t, <2>1, <2>2, <2>3, GotoStep DEF control
<1>5. CASE StopDone(p)
  <2>1. /\ pc[p] = "stop waits" /\ Pop(p) /\ Goto(p, "dealloc")
        /\ UNCHANGED <<control, lock, handle, events, target, terminate>>
    BY <1>5 DEF StopDone
  <2>2. /\ requests' \in [Processes -> Seq(Requests)]
        /\ \A q \in Processes \ {p} : requests'[q] = requests[q]
        /\ \A i \in DOMAIN requests'[p] : Known(requests'[p][i].handle)
    BY <2>1, PopFacts DEF BasicInv, TransactionOK
  <2> QED BY <1>t, <2>1, <2>2, GotoStep DEF control
<1>6. CASE on_xact_dealloc(p)
  <2>1. /\ pc[p] = "dealloc" /\ requests' = [requests EXCEPT ![p] = <<>>]
        /\ events' = [events EXCEPT ![p] = <<>>] /\ Goto(p, "idle")
        /\ UNCHANGED <<control, lock, handle, target, terminate>>
    BY <1>6 DEF on_xact_dealloc
  <2>2. /\ requests' \in [Processes -> Seq(Requests)] /\ requests'[p] = <<>>
        /\ \A q \in Processes \ {p} : requests'[q] = requests[q]
        /\ events' \in [Processes -> Seq({"pre-commit", "commit", "abort"})]
        /\ \A i \in DOMAIN requests'[p] : Known(requests'[p][i].handle)
    BY <1>t, <2>1
  <2> QED BY <1>t, <2>1, <2>2, GotoStep DEF control
<1> QED BY <1>1, <1>2, <1>3, <1>4, <1>5, <1>6

\* A master begins and ends.
LEMMA MasterBasic ==
  ASSUME BasicInv, NEW m \in Masters, MasterStep(m) \/ MasterFails(m)
  PROVE  BasicInv'
<1>1. PICK x \in {"gone", "new"} :
        /\ pc[m] \in {"registered", "idle"} /\ Goto(m, x)
        /\ UNCHANGED <<control, lock, handle, requests, events, target, terminate>>
  BY DEF MasterStep, Launch, MasterExit, MasterFails
<1>2. /\ requests \in [Processes -> Seq(Requests)] /\ handle \in Masters \union {NoMaster}
      /\ events \in [Processes -> Seq({"pre-commit", "commit", "abort"})]
      /\ should_start \in BOOLEAN /\ started \in BOOLEAN /\ (started => should_start)
      /\ handle # NoMaster => pc[handle] # "none"
      /\ m \in Processes /\ requests[m] = <<>>
      /\ \A i \in DOMAIN requests[m] : Known(requests[m][i].handle)
  BY <1>1, ProcessFacts DEF BasicInv, ControlTypeOK, LockOK, Numbers, Known, TransactionOK
<1> QED BY <1>1, <1>2, GotoStep DEF Places, Quiets, control

\* The numbers of masters, when one process changes its place and target
LEMMA NumbersStep ==
  ASSUME BasicInv, ControlTypeOK', NEW p \in Processes,
         \A q \in Processes : pc[q] # "none" => pc'[q] # "none",
         handle' # NoMaster => pc'[handle'] # "none",
         \A m \in terminate' : m \in terminate \/ pc'[m] # "none",
         target'[p] # NoMaster => pc'[target'[p]] # "none",
         pc'[p] \in {"start locked", "start waits"} => target'[p] # NoMaster,
         \A q \in Processes \ {p} :
           /\ target'[q] = target[q]
           /\ pc'[q] \in {"start locked", "start waits"} => pc'[q] = pc[q],
         UNCHANGED requests
  PROVE  Numbers'
<1>1. Known(handle)'
  BY DEF Known
<1>2. \A h \in Masters \union {NoMaster} : Known(h) => Known(h)'
  BY ProcessFacts DEF Known
<1>3. \A m \in terminate' : Known(m)'
  BY <1>2 DEF Known, BasicInv, Numbers, ControlTypeOK
<1>4. ASSUME NEW q \in Processes
      PROVE  /\ Known(target[q])'
             /\ pc'[q] \in {"start locked", "start waits"} => target'[q] # NoMaster
  <2>1. /\ Known(target[q]) /\ target[q] \in Masters \union {NoMaster}
        /\ pc[q] \in {"start locked", "start waits"} => target[q] # NoMaster
    BY DEF BasicInv, Numbers, ControlTypeOK
  <2>2. CASE q = p
    BY <2>2 DEF Known
  <2>3. CASE q # p
    BY <1>2, <2>1, <2>3 DEF Known
  <2> QED BY <2>2, <2>3
<1>5. ASSUME NEW q \in Processes, NEW i \in DOMAIN requests'[q]
      PROVE  Known(requests[q][i].handle)'
  <2>1. requests[q] \in Seq(Requests) /\ i \in DOMAIN requests[q] /\ requests' = requests
    BY DEF BasicInv, ControlTypeOK
  <2>2. requests[q][i].handle \in Masters \union {NoMaster} /\ Known(requests[q][i].handle)
    BY <2>1, OfRequests DEF BasicInv, Numbers
  <2> QED BY <1>2, <2>1, <2>2 DEF Known
<1> QED BY <1>1, <1>3, <1>4, <1>5 DEF Numbers

\* A new master is registered by p, which goes on to wait, or fails to be.
LEMMA RegisterFacts ==
  ASSUME BasicInv, NEW p \in Processes, pc[p] # "none", NEW x \in Places, Register(p, x)
  PROVE  \E m \in Masters :
           /\ m # p /\ pc[m] = "none" /\ pc'[p] = x
           /\ pc'[m] = "registered" \/ (pc'[m] = "gone" /\ "failure" \in mishaps')
           /\ \A q \in Processes \ {m, p} : pc'[q] = pc[q]
           /\ pc' \in [Processes -> Places]
           /\ target' \in [Processes -> Masters \union {NoMaster}] /\ target'[p] = m
           /\ \A q \in Processes \ {p} : target'[q] = target[q]
<1>1. PICK m \in Masters, y \in {"registered", "gone"} :
        /\ pc[m] = "none" /\ target' = [target EXCEPT ![p] = m]
        /\ pc' = [pc EXCEPT ![m] = y, ![p] = x]
        /\ y = "registered" \/ "failure" \in mishaps'
  BY DEF Register, Note
<1>2. m \in Processes /\ m # p
  BY <1>1, ProcessFacts
<1>3. /\ pc'[m] = y /\ pc'[p] = x
      /\ \A q \in Processes \ {m, p} : pc'[q] = pc[q]
      /\ pc' \in [Processes -> Places]
  BY <1>1, <1>2 DEF BasicInv, ControlTypeOK, Places
<1>4. /\ target' \in [Processes -> Masters \union {NoMaster}] /\ target'[p] = m
      /\ \A q \in Processes \ {p} : target'[q] = target[q]
  BY <1>1 DEF BasicInv, ControlTypeOK
<1>5. pc'[m] = "registered" \/ (pc'[m] = "gone" /\ "failure" \in mishaps')
  BY <1>1, <1>3
<1>6. pc[m] = "none"
  BY <1>1
<1> WITNESS m \in Masters
<1> QED BY <1>2, <1>3, <1>4, <1>5, <1>6

\* A master is started, by a call or after the commit.
LEMMA StartBasic ==
  ASSUME BasicInv, NEW p \in Processes, StartNow(p) \/ do_start_bgworker(p)
  PROVE  BasicInv'
<1>1. /\ pc[p] \in {"start now", "dealloc"}
      /\ UNCHANGED <<should_start, started, handle, requests, events, terminate>>
  BY DEF StartNow, do_start_bgworker, control
<1>2. PICK x \in {"start locked", "start waits"} :
        /\ Register(p, x)
        /\ x = "start locked" => lock = Free /\ lock' = p /\ should_start /\ ~started
        /\ x = "start waits" => /\ lock' = lock /\ requests[p] # <<>>
                                /\ Head(requests[p]).op = "start"
  BY DEF StartNow, do_start_bgworker, MayStart
<1>3. PICK m \in Masters :
        /\ m # p /\ pc[m] = "none" /\ pc'[m] \in {"registered", "gone"} /\ pc'[p] = x
        /\ \A q \in Processes \ {m, p} : pc'[q] = pc[q]
        /\ pc' \in [Processes -> Places]
        /\ target' \in [Processes -> Masters \union {NoMaster}] /\ target'[p] = m
        /\ \A q \in Processes \ {p} : target'[q] = target[q]
  <2>1. x \in Places /\ pc[p] # "none"
    BY <1>1, <1>2 DEF Places
  <2> QED BY <1>2, <2>1, RegisterFacts
<1>4. m \in Processes /\ m # NoMaster
  BY ProcessFacts
<1>5. ControlTypeOK'
  BY <1>1, <1>2, <1>3 DEF BasicInv, ControlTypeOK
<1>6. Numbers'
  <2>1. \A q \in Processes : pc[q] # "none" => pc'[q] # "none"
    BY <1>3
  <2>2. handle' # NoMaster => pc'[handle'] # "none"
    BY <1>1, <2>1, ProcessFacts DEF BasicInv, ControlTypeOK, Numbers, Known
  <2> QED BY <1>1, <1>3, <1>4, <1>5, <2>1, <2>2, NumbersStep
<1>7. LockOK'
  BY <1>1, <1>2, <1>3, <1>4, ProcessFacts DEF BasicInv, LockOK
<1>8. TransactionOK'
  BY <1>1, <1>2, <1>3, <1>4 DEF BasicInv, TransactionOK
<1> QED BY <1>5, <1>6, <1>7, <1>8 DEF BasicInv

\* The lock is given back once the master runs, or is gone.
LEMMA UnlockBasic ==
  ASSUME BasicInv, NEW p \in Processes, StartedNow(p) \/ StoppedNow(p)
  PROVE  BasicInv'
<1>1. /\ pc[p] \in {"start locked", "stop locked"} /\ lock' = Free
      /\ should_start' \in BOOLEAN /\ started' \in BOOLEAN /\ (started' => should_start')
      /\ handle' \in {handle, target[p]} /\ pc' = [pc EXCEPT ![p] = "open"]
      /\ UNCHANGED <<requests, events, target, terminate>>
  BY DEF StartedNow, StoppedNow, StartupSeen, Goto, BasicInv, LockOK, ControlTypeOK
<1>2. /\ pc' \in [Processes -> Places] /\ pc'[p] = "open"
      /\ \A q \in Processes \ {p} : pc'[q] = pc[q]
  BY <1>1 DEF BasicInv, ControlTypeOK, Places
<1>3. ControlTypeOK'
  BY <1>1, <1>2 DEF BasicInv, ControlTypeOK
<1>4. Numbers'
  <2>1. \A q \in Processes : pc[q] # "none" => pc'[q] # "none"
    BY <1>2
  <2>2. /\ handle' # NoMaster => pc'[handle'] # "none"
        /\ target[p] # NoMaster => pc'[target[p]] # "none"
    BY <1>1, <2>1, ProcessFacts DEF BasicInv, ControlTypeOK, Numbers, Known
  <2> QED BY <1>1, <1>2, <1>3, <2>1, <2>2, NumbersStep
<1>5. lock = p
  BY <1>1 DEF BasicInv, LockOK
<1>6. LockOK'
  BY <1>1, <1>2, <1>5, ProcessFacts DEF BasicInv, LockOK
<1>7. TransactionOK'
  BY <1>1, <1>2 DEF BasicInv, TransactionOK
<1> QED BY <1>3, <1>4, <1>6, <1>7 DEF BasicInv

\* A process begins to stop the master of its request.
LEMMA StopBasic ==
  ASSUME BasicInv, NEW p \in Processes, do_stop_bgworker(p)
  PROVE  BasicInv'
<1> DEFINE h == Head(requests[p]).handle
<1>1. /\ pc[p] = "dealloc" /\ requests[p] # <<>> /\ Head(requests[p]).op = "stop"
      /\ target' = [target EXCEPT ![p] = h] /\ pc' = [pc EXCEPT ![p] = "stop waits"]
      /\ terminate' = terminate \union ({h} \ {NoMaster})
      /\ UNCHANGED <<should_start, started, lock, handle, requests, events>>
  BY DEF do_stop_bgworker, Goto, control
<1>2. h \in Masters \union {NoMaster} /\ Known(h)
  BY <1>1, FirstRequest DEF BasicInv, ControlTypeOK, Numbers
<1> HIDE DEF h
<1>3. /\ pc' \in [Processes -> Places] /\ pc'[p] = "stop waits"
      /\ \A q \in Processes \ {p} : pc'[q] = pc[q]
      /\ target' \in [Processes -> Masters \union {NoMaster}] /\ target'[p] = h
      /\ \A q \in Processes \ {p} : target'[q] = target[q]
  BY <1>1, <1>2 DEF BasicInv, ControlTypeOK, Places
<1>4. ControlTypeOK'
  BY <1>1, <1>2, <1>3 DEF BasicInv, ControlTypeOK
<1>5. Numbers'
  <2>1. \A q \in Processes : pc[q] # "none" => pc'[q] # "none"
    BY <1>3
  <2>2. /\ handle' # NoMaster => pc'[handle'] # "none"
        /\ h # NoMaster => pc'[h] # "none"
    BY <1>1, <1>2, <2>1, ProcessFacts DEF BasicInv, ControlTypeOK, Numbers, Known
  <2> QED BY <1>1, <1>3, <1>4, <2>1, <2>2, NumbersStep
<1>6. LockOK'
  BY <1>1, <1>3, ProcessFacts DEF BasicInv, LockOK
<1>7. TransactionOK'
  BY <1>1, <1>3 DEF BasicInv, TransactionOK, h
<1> QED BY <1>4, <1>5, <1>6, <1>7 DEF BasicInv

\* A handle that was never set ends the process, and the server starts anew.
LEMMA CrashStep ==
  ASSUME BasicInv, NEW p \in Processes, RegisterCrashes(p)
  PROVE  BasicInv' /\ OneRequest' /\ Settled' /\ Present'
<1>1. /\ should_start' = TRUE /\ started' = FALSE /\ lock' = Free /\ handle' = NoMaster
      /\ pc' = [q \in Processes |-> IF q \in Backends THEN "new"
                                    ELSE IF pc[q] = "none" THEN "none" ELSE "gone"]
      /\ requests' = [q \in Processes |-> <<>>] /\ events' = [q \in Processes |-> <<>>]
      /\ target' = [q \in Processes |-> NoMaster] /\ terminate' = terminate
  BY DEF RegisterCrashes
<1>2. /\ pc' \in [Processes -> {"new", "none", "gone"}]
      /\ \A m \in Masters : pc'[m] = IF pc[m] = "none" THEN "none" ELSE "gone"
  BY <1>1, ProcessFacts, ConstantsAssumption
<1>3. \A q \in Processes : requests'[q] = <<>> /\ target'[q] = NoMaster /\ q # Free
  BY <1>1, ProcessFacts
<1>4. ControlTypeOK'
  <2>1. /\ requests' \in [Processes -> Seq(Requests)]
        /\ events' \in [Processes -> Seq({"pre-commit", "commit", "abort"})]
    BY <1>1
  <2>2. pc' \in [Processes -> Places]
    BY <1>2 DEF Places
  <2> QED BY <1>1, <2>1, <2>2 DEF ControlTypeOK, BasicInv
<1>5. Numbers'
  <2>1. \A m \in terminate : m # NoMaster => pc'[m] # "none"
    BY <1>2 DEF BasicInv, ControlTypeOK, Numbers, Known
  <2>2. \A q \in Processes : DOMAIN requests'[q] = {} /\ pc'[q] \in {"new", "none", "gone"}
    BY <1>2, <1>3
  <2> QED BY <1>1, <1>3, <2>1, <2>2 DEF Numbers, Known
<1>6. LockOK' /\ TransactionOK'
  BY <1>1, <1>2, <1>3 DEF LockOK, TransactionOK
<1>7. Alive' = {}
  BY <1>2 DEF Alive
<1>8. OneRequest' /\ Settled' /\ Present'
  BY <1>1, <1>2, <1>3, <1>7 DEF OneRequest, Settled, Present, NoRequest
<1> QED BY <1>4, <1>5, <1>6, <1>8 DEF BasicInv

\* Every step keeps types, numbers, the lock and the requests in order.
LEMMA BasicNext ==
  ASSUME BasicInv, [Next]_vars
  PROVE  BasicInv'
<1>1. CASE UNCHANGED vars
  BY <1>1 DEF vars, control, counters, BasicInv, ControlTypeOK, Numbers, Known, LockOK,
              TransactionOK
<1>2. ASSUME NEW p \in Backends, Call(p) \/ Abort(p)
      PROVE  BasicInv'
  BY <1>2, CallBasic, ProceedBasic DEF Processes
<1>3. ASSUME NEW p \in Processes,
             Proceed(p) \/ PreCommit(p) \/ PollStop(p) \/ RegisterCrashes(p)
      PROVE  BasicInv'
  BY <1>1, <1>3, ProceedBasic, StartBasic, UnlockBasic, StopBasic, CrashStep DEF Proceed, PollStop
<1>4. ASSUME NEW m \in Masters, MasterStep(m) \/ MasterFails(m)
      PROVE  BasicInv'
  BY <1>4, MasterBasic
<1> QED BY <1>1, <1>2, <1>3, <1>4 DEF Next, Idle

----------------------------------------------------------------------------
(* The request that waits, and the master there may be                     *)

\* A mishap is never forgotten.
LEMMA MishapsStay ==
  ASSUME [Next]_vars
  PROVE  mishaps \subseteq mishaps'
<1>1. ASSUME NEW p, Call(p) \/ Abort(p)
      PROVE  mishaps \subseteq mishaps'
  BY <1>1 DEF Call, start, StopLater, StopNothing, StopNow, Abort, Note
<1>2. ASSUME NEW p, Proceed(p) \/ PreCommit(p) \/ PollStop(p) \/ RegisterCrashes(p)
      PROVE  mishaps \subseteq mishaps'
  BY <1>2 DEF Proceed, _Omni_init, StartLater, StartNothing, StartNow, StartedNow, StoppedNow,
       Commit, do_start_bgworker, StartDone, do_stop_bgworker, StopDone, on_xact_dealloc,
       PreCommit, PollStop, RegisterCrashes, Register, Note, vars, counters
<1>3. ASSUME NEW m, MasterStep(m) \/ MasterFails(m)
      PROVE  mishaps \subseteq mishaps'
  BY <1>3 DEF MasterStep, Launch, MasterExit, MasterFails, Note, counters
<1> QED BY <1>1, <1>2, <1>3 DEF Next, Idle, vars, counters

\* A process that goes from place to place stays alive.
LEMMA AliveStays ==
  ASSUME BasicInv, NEW p \in Processes, NEW x, Goto(p, x), UNCHANGED terminate,
         pc[p] \notin {"none", "gone"}, x \notin {"none", "gone"}
  PROVE  Alive' = Alive
<1>1. \A m \in Masters : pc'[m] \in {"none", "gone"} <=> pc[m] \in {"none", "gone"}
  BY ProcessFacts DEF Goto, BasicInv, ControlTypeOK
<1> QED BY <1>1 DEF Alive

\* When a start has something to do, no request waits ...
LEMMA NoneWaitsForStart ==
  ASSUME OneRequest, should_start, ~started
  PROVE  NoRequest
BY DEF OneRequest, Start1, Stop1, NoRequest

\* ... and when a stop does, unless a start waits.
LEMMA NoneWaitsForStop ==
  ASSUME OneRequest, started, ~Pending("start")
  PROVE  NoRequest
<1>1. ASSUME NEW p \in Processes, requests[p] = <<Start>>
      PROVE  FALSE
  <2>1. 1 \in DOMAIN requests[p] /\ requests[p][1].op = "start"
    BY <1>1 DEF Start
  <2> QED BY <2>1 DEF Pending
<1> QED BY <1>1 DEF OneRequest, Start1, Stop1, NoRequest

LEMMA NoStopWaits ==
  ASSUME ~Pending("stop"), NEW p \in Processes
  PROVE  ~Stop1(p)
<1>1. ASSUME NEW h, requests[p] = <<Stop(h)>>
      PROVE  FALSE
  <2>1. 1 \in DOMAIN requests[p] /\ requests[p][1].op = "stop"
    BY <1>1 DEF Stop
  <2> QED BY <2>1 DEF Pending
<1> QED BY <1>1 DEF Stop1

\* The places at which a process waits for a master
Waiting == {"start locked", "start waits", "stop locked"}

\* What a step may do while the request that waits stays the same
SameRequest ==
  /\ Alive' \subseteq Alive /\ UNCHANGED <<started, handle, requests>>
  /\ \A q \in Processes :
       /\ pc[q] \in Waiting \/ pc'[q] \in Waiting => pc'[q] = pc[q] /\ target'[q] = target[q]
       /\ pc'[q] = "dealloc" /\ requests[q] # <<>> => events'[q] # <<>> /\ Head(events'[q]) = "commit"
  /\ should_start' => should_start \/ \A p \in Processes : ~Stop1(p)

LEMMA SameRequestStep ==
  ASSUME BasicInv, OneRequest, Settled, SameRequest
  PROVE  /\ OneRequest' /\ Settled'
         /\ Present /\ Alive' = Alive => Present'
<1>1. /\ UNCHANGED <<started, handle, requests>> /\ Alive' \subseteq Alive
      /\ NoRequest' <=> NoRequest
  BY DEF SameRequest, NoRequest
<1>2. ASSUME NEW q \in Processes
      PROVE  /\ pc'[q] \in Waiting => pc'[q] = pc[q] /\ target'[q] = target[q]
             /\ pc[q] \in Waiting => pc'[q] = pc[q] /\ target'[q] = target[q]
  BY DEF SameRequest
<1>3. OneRequest'
  <2> SUFFICES ASSUME NEW p \in Processes, requests[p] # <<>>
               PROVE  /\ \A q \in Processes : requests[q] # <<>> => q = p
                      /\ Start1(p)' \/ Stop1(p)'
                      /\ pc'[p] = "dealloc" => events'[p] # <<>> /\ Head(events'[p]) = "commit"
    BY <1>1 DEF OneRequest
  <2>1. Start1(p) => Start1(p)'
    <3>1. pc'[p] = "start waits" <=> pc[p] = "start waits"
      BY <1>2 DEF Waiting
    <3>2. pc[p] = "start waits" => target'[p] = target[p]
      BY <1>2 DEF Waiting
    <3> QED BY <1>1, <3>1, <3>2 DEF Start1
  <2>2. Stop1(p) => Stop1(p)'
    <3>1. Stop1(p) => (should_start' => should_start)
      BY DEF SameRequest
    <3> QED BY <1>1, <3>1 DEF Stop1
  <2> QED BY <2>1, <2>2 DEF OneRequest, SameRequest
<1>4. Settled'
  <2>1. NoRequest /\ started => Alive' \subseteq {handle}
    BY <1>1 DEF Settled
  <2>2. ASSUME NoRequest, ~started, NEW m \in Alive'
        PROVE  \E p \in Processes : pc'[p] = "start locked" /\ target'[p] = m
    <3>1. PICK p \in Processes : pc[p] = "start locked" /\ target[p] = m
      BY <1>1, <2>2 DEF Settled
    <3> QED BY <1>2, <3>1 DEF Waiting
  <2>3. ASSUME NEW p \in Processes, pc'[p] = "stop locked"
        PROVE  NoRequest' /\ Alive' = {}
    <3>1. pc[p] = "stop locked"
      BY <1>2, <2>3 DEF Waiting
    <3> QED BY <1>1, <3>1 DEF Settled
  <2> QED BY <1>1, <2>1, <2>2, <2>3 DEF Settled
<1>5. ASSUME Present, Alive' = Alive
      PROVE  Present'
  <2>1. ASSUME NEW p \in Processes, pc'[p] \in {"start locked", "start waits"}
        PROVE  target'[p] \in Alive'
    BY <1>2, <1>5, <2>1 DEF Present, Waiting
  <2>2. (\A p \in Processes : pc'[p] # "stop locked") => \A p \in Processes : pc[p] # "stop locked"
    BY <1>2 DEF Waiting
  <2> QED BY <1>1, <1>5, <2>1, <2>2 DEF Present
<1> QED BY <1>3, <1>4, <1>5

\* A process that goes on without waiting for a master: what its step leaves alone
LEMMA GotoSame ==
  ASSUME BasicInv, NEW p \in Processes, NEW x, Goto(p, x), UNCHANGED <<terminate, target>>,
         pc[p] \notin Waiting \union {"none", "gone"}, x \notin Waiting \union {"none", "gone"},
         UNCHANGED <<started, handle, requests>>,
         OneRequest, \A q \in Processes \ {p} : events'[q] = events[q],
         x = "dealloc" /\ requests[p] # <<>> => events'[p] # <<>> /\ Head(events'[p]) = "commit",
         should_start' => should_start \/ \A q \in Processes : ~Stop1(q)
  PROVE  SameRequest /\ Alive' = Alive
<1>1. Alive' = Alive
  BY AliveStays
<1>2. pc'[p] = x /\ \A q \in Processes \ {p} : pc'[q] = pc[q]
  BY DEF Goto, BasicInv, ControlTypeOK
<1>3. ASSUME NEW q \in Processes
      PROVE  /\ pc[q] \in Waiting \/ pc'[q] \in Waiting => pc'[q] = pc[q] /\ target'[q] = target[q]
             /\ pc'[q] = "dealloc" /\ requests[q] # <<>> =>
                  events'[q] # <<>> /\ Head(events'[q]) = "commit"
  <2>1. CASE q = p
    BY <1>2, <2>1
  <2>2. CASE q # p
    BY <1>2, <2>2 DEF OneRequest
  <2> QED BY <2>1, <2>2
<1> QED BY <1>1, <1>3 DEF SameRequest

\* The latest event comes first.
LEMMA LatestFirst ==
  ASSUME NEW S, NEW s \in Seq(S), NEW e \in S
  PROVE  <<e>> \o s # <<>> /\ Head(<<e>> \o s) = e
<1>1. <<e>> \in Seq(S) /\ Len(<<e>>) = 1 /\ <<e>>[1] = e
  OBVIOUS
<1>2. /\ <<e>> \o s \in Seq(S) /\ Len(<<e>> \o s) = 1 + Len(s) /\ Len(s) \in Nat
      /\ (<<e>> \o s)[1] = e
  BY <1>1, ConcatProperties, LenProperties
<1> QED BY <1>2, HeadTailProperties, EmptySeq

\* The steps of a process that change neither the request that waits nor a master
LEMMA NeutralSteps ==
  ASSUME BasicInv, OneRequest, Settled, Undisturbed', NEW p \in Processes,
         \/ \E t \in {"immediately", "after commit"} : start(p, t)
         \/ (StopLater(p) \/ StopNothing(p)) /\ ~started
         \/ (_Omni_init(p) \/ StartLater(p)) /\ ~MayStart
         \/ StartNothing(p) \/ PreCommit(p) \/ Commit(p) \/ Abort(p) \/ on_xact_dealloc(p)
  PROVE  OneRequest' /\ Settled' /\ (Present => Present')
<1> SUFFICES SameRequest /\ Alive' = Alive
  BY SameRequestStep
<1> USE DEF Waiting
<1>1. CASE \E t \in {"immediately", "after commit"} : start(p, t)
  <2>1. PICK x \in {"start now", "start later"} : Goto(p, x)
    BY <1>1 DEF start
  <2>2. /\ pc[p] \in {"idle", "open"} /\ ~Pending("stop")
        /\ UNCHANGED <<started, handle, requests, events, target, terminate>>
    BY <1>1 DEF start, CanCall, Note, Undisturbed
  <2>3. \A q \in Processes : ~Stop1(q)
    BY <2>2, NoStopWaits
  <2> QED BY <2>1, <2>2, <2>3, GotoSame
<1>2. CASE (StopLater(p) \/ StopNothing(p)) /\ ~started
  <2>1. /\ pc[p] \in {"idle", "open"} /\ should_start' = FALSE /\ Goto(p, "open")
        /\ UNCHANGED <<handle, requests, events, target, terminate>> /\ started' = started
    BY <1>2 DEF StopLater, StopNothing, CanCall, BasicInv, ControlTypeOK
  <2> QED BY <2>1, GotoSame
<1>3. CASE (_Omni_init(p) \/ StartLater(p)) /\ ~MayStart
  <2>1. /\ pc[p] \in {"new", "start later"} /\ Goto(p, "open")
        /\ UNCHANGED <<should_start, handle, requests, events, target, terminate>>
        /\ started' = started
    BY <1>3 DEF _Omni_init, StartLater, RequestStart, BasicInv, ControlTypeOK
  <2> QED BY <2>1, GotoSame
<1>4. CASE StartNothing(p)
  <2>1. /\ pc[p] = "start now" /\ Goto(p, "open")
        /\ UNCHANGED <<should_start, started, handle, requests, events, target, terminate>>
    BY <1>4 DEF StartNothing, control
  <2> QED BY <2>1, GotoSame
<1>5. ASSUME NEW e \in {"pre-commit", "commit", "abort"}, OnEvent(p, e)
      PROVE  /\ \A q \in Processes \ {p} : events'[q] = events[q]
             /\ requests[p] # <<>> => events'[p] # <<>> /\ Head(events'[p]) = e
  <2>1. events \in [Processes -> Seq({"pre-commit", "commit", "abort"})]
    BY DEF BasicInv, ControlTypeOK
  <2>2. \A q \in Processes \ {p} : events'[q] = events[q]
    BY <1>5, <2>1 DEF OnEvent
  <2>3. ASSUME requests[p] # <<>>
        PROVE  events'[p] # <<>> /\ Head(events'[p]) = e
    <3>1. events'[p] = <<e>> \o events[p]
      BY <1>5, <2>1, <2>3 DEF OnEvent
    <3>2. <<e>> \o events[p] # <<>> /\ Head(<<e>> \o events[p]) = e
      BY <2>1, LatestFirst
    <3> QED BY <3>1, <3>2
  <2> QED BY <2>2, <2>3
<1>6. CASE PreCommit(p)
  <2>1. /\ pc[p] = "open" /\ Goto(p, "pre-commit")
        /\ UNCHANGED <<should_start, started, handle, requests, target, terminate>>
        /\ \A q \in Processes \ {p} : events'[q] = events[q]
    BY <1>5, <1>6 DEF PreCommit, control
  <2> QED BY <2>1, GotoSame
<1>7. CASE Commit(p)
  <2>1. /\ pc[p] = "pre-commit" /\ Goto(p, "dealloc")
        /\ UNCHANGED <<should_start, started, handle, requests, target, terminate>>
        /\ \A q \in Processes \ {p} : events'[q] = events[q]
        /\ requests[p] # <<>> => events'[p] # <<>> /\ Head(events'[p]) = "commit"
    BY <1>5, <1>7 DEF Commit, control
  <2> QED BY <2>1, GotoSame
<1>8. CASE Abort(p)
  <2>1. /\ pc[p] \in {"open", "pre-commit"} /\ Goto(p, "dealloc")
        /\ UNCHANGED <<should_start, started, handle, requests, target, terminate>>
        /\ \A q \in Processes \ {p} : events'[q] = events[q]
        /\ requests[p] = <<>>
    BY <1>5, <1>8 DEF Abort, control, Note, Undisturbed
  <2> QED BY <2>1, GotoSame
<1>9. CASE on_xact_dealloc(p)
  <2>1. /\ pc[p] = "dealloc" /\ Goto(p, "idle") /\ (requests[p] # <<>> => Head(events[p]) # "commit")
        /\ UNCHANGED <<should_start, started, handle, target, terminate>>
        /\ requests' = [requests EXCEPT ![p] = <<>>] /\ events' = [events EXCEPT ![p] = <<>>]
    BY <1>9 DEF on_xact_dealloc, control
  <2>2. requests[p] = <<>>
    BY <2>1 DEF OneRequest
  <2>3. requests' = requests /\ \A q \in Processes \ {p} : events'[q] = events[q]
    BY <2>1, <2>2 DEF BasicInv, ControlTypeOK
  <2> QED BY <2>1, <2>3, GotoSame
<1> QED BY <1>1, <1>2, <1>3, <1>4, <1>6, <1>7, <1>8, <1>9

\* A master that begins or ends: only one that fails was alive until now.
LEMMA MasterSteps ==
  ASSUME BasicInv, OneRequest, Settled, NEW m \in Masters, MasterStep(m) \/ MasterFails(m)
  PROVE  OneRequest' /\ Settled' /\ (Present /\ "failure" \notin mishaps' => Present')
<1>1. PICK x \in {"gone", "new"} :
        /\ pc[m] \in {"registered", "idle"} /\ Goto(m, x)
        /\ UNCHANGED <<should_start, started, handle, requests, events, target, terminate>>
        /\ x = "new" \/ m \in terminate \/ "failure" \in mishaps'
  BY DEF MasterStep, Launch, MasterExit, MasterFails, control, Note
<1>2. m \in Processes /\ pc'[m] = x /\ \A q \in Processes \ {m} : pc'[q] = pc[q]
  BY <1>1, ProcessFacts DEF Goto, BasicInv, ControlTypeOK
<1>3. Alive' \subseteq Alive /\ (x = "new" \/ m \in terminate => Alive' = Alive)
  <2>1. \A k \in Masters : pc'[k] \notin {"none", "gone"} => pc[k] \notin {"none", "gone"}
    BY <1>1, <1>2, ProcessFacts
  <2>2. \A k \in Masters \ {m} : pc'[k] = pc[k]
    BY <1>2, ProcessFacts
  <2> QED BY <1>1, <1>2, <2>1, <2>2 DEF Alive
<1>4. SameRequest
  BY <1>1, <1>2, <1>3 DEF SameRequest, Waiting, OneRequest
<1> QED BY <1>1, <1>3, <1>4, SameRequestStep

\* The only request there is
LEMMA OnlyRequest ==
  ASSUME NEW r
  PROVE  Head(<<r>>) = r /\ Tail(<<r>>) = <<>>
<1>1. <<r>> \in Seq({r}) /\ <<r>> # <<>> /\ Len(<<r>>) = 1 /\ <<r>>[1] = r
  OBVIOUS
<1>2. Tail(<<r>>) \in Seq({r}) /\ Len(Tail(<<r>>)) = 0
  BY <1>1, HeadTailProperties
<1> QED BY <1>1, <1>2, HeadTailProperties, EmptySeq

LEMMA OnlyStartOrStop ==
  /\ Head(<<Start>>).op = "start"
  /\ \A h : Head(<<Stop(h)>>).op = "stop" /\ Head(<<Stop(h)>>).handle = h
<1>1. Head(<<Start>>) = Start /\ \A h : Head(<<Stop(h)>>) = Stop(h)
  BY OnlyRequest
<1>2. Start.op = "start" /\ \A h : Stop(h).op = "stop" /\ Stop(h).handle = h
  BY DEF Start, Stop
<1> QED BY <1>1, <1>2

\* When a start has something to do and nobody has the lock, there is no master and
\* nobody waits for one.
LEMMA NothingWaits ==
  ASSUME BasicInv, Settled, NoRequest, lock = Free
  PROVE  /\ \A q \in Processes : pc[q] \notin Waiting
         /\ ~started => Alive = {}
<1>1. \A q \in Processes : pc[q] \notin Waiting
  BY ProcessFacts DEF BasicInv, LockOK, TransactionOK, NoRequest, Waiting
<1> QED BY <1>1 DEF Settled, Waiting

\* A start or a stop is asked for after the commit.
LEMMA RequestSteps ==
  ASSUME BasicInv, OneRequest, Settled, Undisturbed', NEW p \in Processes,
         \/ (_Omni_init(p) \/ StartLater(p)) /\ MayStart
         \/ StopLater(p) /\ started
  PROVE  OneRequest' /\ Settled' /\ Present'
<1>1. PICK r \in {Start, Stop(handle)} :
        /\ requests' = [requests EXCEPT ![p] = Append(@, r)]
        /\ r = Start => should_start /\ ~started /\ started'
        /\ r = Stop(handle) => started /\ ~Pending("start") /\ ~started' /\ ~should_start'
        /\ pc[p] \in {"new", "start later", "idle", "open"} /\ lock = Free /\ Goto(p, "open")
        /\ UNCHANGED <<lock, handle, target, terminate>>
  <2>1. CASE (_Omni_init(p) \/ StartLater(p)) /\ MayStart
    <3>1. Start # Stop(handle)
      BY DEF Start, Stop
    <3> QED BY <2>1, <3>1 DEF _Omni_init, StartLater, RequestStart, MayStart
  <2>2. CASE StopLater(p) /\ started
    <3>1. Start # Stop(handle)
      BY DEF Start, Stop
    <3> QED BY <2>2, <3>1 DEF StopLater, CanCall, Note, Undisturbed
  <2> QED BY <2>1, <2>2
<1>2. NoRequest
  BY <1>1, NoneWaitsForStart, NoneWaitsForStop
<1>3. /\ \A q \in Processes : pc[q] \notin Waiting
      /\ ~started => Alive = {}
  BY <1>1, <1>2, NothingWaits
<1>4. Alive' = Alive
  BY <1>1, AliveStays
<1>5. pc'[p] = "open" /\ \A q \in Processes : pc'[q] \notin Waiting
  BY <1>1, <1>3 DEF Goto, BasicInv, ControlTypeOK, Waiting
<1>6. requests'[p] = <<r>> /\ \A q \in Processes \ {p} : requests'[q] = <<>>
  <2>1. Append(<<>>, r) = <<r>>
    OBVIOUS
  <2> QED BY <1>1, <1>2, <2>1 DEF NoRequest, BasicInv, ControlTypeOK
<1>7. <<r>> # <<>>
  OBVIOUS
<1>8. Start1(p)' \/ Stop1(p)'
  <2>1. CASE r = Start
    BY <1>1, <1>3, <1>4, <1>6, <2>1 DEF Start1
  <2>2. CASE r = Stop(handle)
    BY <1>1, <1>2, <1>4, <1>6, <2>2 DEF Stop1, Settled, BasicInv, ControlTypeOK
  <2> QED BY <1>1, <2>1, <2>2
<1>9. OneRequest'
  BY <1>5, <1>6, <1>8 DEF OneRequest
<1>10. ~NoRequest'
  BY <1>6, <1>7 DEF NoRequest
<1> QED BY <1>5, <1>9, <1>10 DEF Settled, Present, Waiting

\* A master is registered: it is the only one alive, if it can be registered.
LEMMA RegisterAlive ==
  ASSUME BasicInv, NEW p \in Processes, pc[p] \notin {"none", "gone"},
         NEW x \in Places \ {"none", "gone"}, Register(p, x), UNCHANGED terminate, Alive = {}
  PROVE  /\ Alive' \subseteq {target'[p]} /\ target'[p] \in Masters /\ pc'[p] = x
         /\ "failure" \notin mishaps' => target'[p] \in Alive'
         /\ \A q \in Processes \ {p} : pc'[q] = pc[q] \/ pc'[q] \in {"registered", "gone"}
<1>1. PICK m \in Masters :
        /\ m # p /\ pc[m] = "none" /\ pc'[p] = x
        /\ pc'[m] = "registered" \/ (pc'[m] = "gone" /\ "failure" \in mishaps')
        /\ \A q \in Processes \ {m, p} : pc'[q] = pc[q]
        /\ target'[p] = m
  BY RegisterFacts
<1>2. m \notin terminate
  BY <1>1, ProcessFacts DEF BasicInv, Numbers, Known
<1>3. \A k \in Masters \ {m} : pc'[k] \notin {"none", "gone"} => pc[k] \notin {"none", "gone"}
  BY <1>1, ProcessFacts
<1>4. Alive' \subseteq {m} /\ ("failure" \notin mishaps' => m \in Alive')
  BY <1>1, <1>2, <1>3 DEF Alive
<1> QED BY <1>1, <1>4

\* start(immediate) registers a master under the lock ...
LEMMA StartNowStep ==
  ASSUME BasicInv, OneRequest, Settled, NEW p \in Processes, StartNow(p)
  PROVE  OneRequest' /\ Settled' /\ ("failure" \notin mishaps' => Present')
<1>1. /\ pc[p] = "start now" /\ lock = Free /\ should_start /\ ~started
      /\ Register(p, "start locked") /\ UNCHANGED <<requests, started, terminate>>
  BY DEF StartNow, MayStart, control
<1>2. NoRequest /\ NoRequest'
  BY <1>1, NoneWaitsForStart DEF NoRequest
<1>3. (\A q \in Processes : pc[q] \notin Waiting) /\ Alive = {}
  BY <1>1, <1>2, NothingWaits
<1>4. /\ Alive' \subseteq {target'[p]} /\ pc'[p] = "start locked"
      /\ "failure" \notin mishaps' => target'[p] \in Alive'
      /\ \A q \in Processes \ {p} : pc'[q] = pc[q] \/ pc'[q] \in {"registered", "gone"}
  BY <1>1, <1>3, RegisterAlive DEF Places
<1>5. \A q \in Processes \ {p} : pc'[q] \notin Waiting
  BY <1>3, <1>4 DEF Waiting
<1> QED BY <1>1, <1>2, <1>4, <1>5 DEF OneRequest, Settled, Present, NoRequest, Waiting

\* ... and sees it run.
LEMMA StartedNowStep ==
  ASSUME BasicInv, OneRequest, Settled, NEW p \in Processes, StartedNow(p)
  PROVE  OneRequest' /\ Settled' /\ (Present => Present')
<1>1. /\ pc[p] = "start locked" /\ lock = p /\ should_start /\ ~started /\ started'
      /\ handle' = target[p] /\ Goto(p, "open") /\ UNCHANGED <<requests, target, terminate>>
  BY DEF StartedNow, StartupSeen, BasicInv, LockOK
<1>2. NoRequest /\ NoRequest'
  BY <1>1, NoneWaitsForStart DEF NoRequest
<1>3. \A q \in Processes \ {p} : pc[q] \notin Waiting
  BY <1>1, <1>2 DEF BasicInv, LockOK, TransactionOK, NoRequest, Waiting
<1>4. Alive \subseteq {target[p]}
  BY <1>1, <1>2, <1>3 DEF Settled, Waiting
<1>5. Alive' = Alive
  BY <1>1, AliveStays
<1>6. \A q \in Processes : pc'[q] \notin Waiting
  BY <1>1, <1>3 DEF Goto, BasicInv, ControlTypeOK, Waiting
<1> QED BY <1>1, <1>2, <1>4, <1>5, <1>6 DEF OneRequest, Settled, Present, NoRequest, Waiting

\* stop(immediate) terminates the master under the lock ...
LEMMA StopNowStep ==
  ASSUME BasicInv, OneRequest, Settled, Undisturbed', NEW p \in Processes, StopNow(p)
  PROVE  OneRequest' /\ Settled' /\ Present'
<1>1. /\ pc[p] \in {"idle", "open"} /\ lock = Free /\ started /\ started' = started
      /\ ~Pending("start") /\ UNCHANGED requests
      /\ terminate' = terminate \union ({handle} \ {NoMaster}) /\ Goto(p, "stop locked")
  BY DEF StopNow, CanCall, Undisturbed, control
<1>2. NoRequest /\ NoRequest'
  BY <1>1, NoneWaitsForStop DEF NoRequest
<1>3. \A q \in Processes : pc[q] \notin Waiting
  BY <1>1, <1>2, NothingWaits
<1>4. pc'[p] = "stop locked" /\ \A q \in Processes \ {p} : pc'[q] = pc[q]
  BY <1>1 DEF Goto, BasicInv, ControlTypeOK
<1>5. Alive' = {}
  <2>1. Alive \subseteq {handle} /\ NoMaster \notin Alive
    BY <1>1, <1>2, ProcessFacts DEF Settled, Alive
  <2>2. \A k \in Masters : pc'[k] \notin {"none", "gone"} => pc[k] \notin {"none", "gone"}
    BY <1>1, <1>4, ProcessFacts
  <2> QED BY <1>1, <2>1, <2>2 DEF Alive
<1> QED BY <1>1, <1>2, <1>3, <1>4, <1>5 DEF OneRequest, Settled, Present, NoRequest, Waiting

\* ... and sees it gone.
LEMMA StoppedNowStep ==
  ASSUME BasicInv, OneRequest, Settled, NEW p \in Processes, StoppedNow(p)
  PROVE  OneRequest' /\ Settled' /\ Present'
<1>1. /\ pc[p] = "stop locked" /\ lock = p /\ ~started'
      /\ Goto(p, "open") /\ UNCHANGED <<requests, terminate>>
  BY DEF StoppedNow, BasicInv, LockOK
<1>2. NoRequest /\ NoRequest' /\ Alive = {}
  BY <1>1 DEF Settled, NoRequest
<1>3. Alive' = {}
  BY <1>1, <1>2, AliveStays
<1>4. \A q \in Processes : pc'[q] \notin Waiting
  BY <1>1, <1>2 DEF Goto, BasicInv, ControlTypeOK, LockOK, TransactionOK, NoRequest, Waiting
<1> QED BY <1>1, <1>2, <1>3, <1>4 DEF OneRequest, Settled, Present, NoRequest, Waiting

\* After the commit, the start that waited registers a master ...
LEMMA DoStartStep ==
  ASSUME BasicInv, OneRequest, Settled, NEW p \in Processes, do_start_bgworker(p)
  PROVE  OneRequest' /\ Settled' /\ ("failure" \notin mishaps' => Present')
<1>1. /\ pc[p] = "dealloc" /\ requests[p] # <<>> /\ Head(requests[p]).op = "start"
      /\ Register(p, "start waits") /\ UNCHANGED <<requests, started, lock, terminate>>
  BY DEF do_start_bgworker, control
<1>2. Start1(p) /\ \A q \in Processes : requests[q] # <<>> => q = p
  <2>1. ASSUME NEW h, requests[p] = <<Stop(h)>>
        PROVE  FALSE
    BY <1>1, <2>1, OnlyStartOrStop
  <2> QED BY <1>1, <2>1 DEF OneRequest, Stop1
<1>3. Alive = {} /\ started /\ requests[p] = <<Start>>
  BY <1>1, <1>2 DEF Start1
<1>4. /\ Alive' \subseteq {target'[p]} /\ pc'[p] = "start waits"
      /\ "failure" \notin mishaps' => target'[p] \in Alive'
      /\ \A q \in Processes \ {p} : pc'[q] = pc[q] \/ pc'[q] \in {"registered", "gone"}
  BY <1>1, <1>3, RegisterAlive DEF Places
<1>5. \A q \in Processes : pc[q] \notin Waiting
  BY <1>1, <1>2, <1>3 DEF BasicInv, LockOK, TransactionOK, Settled, NoRequest, Waiting
<1>6. \A q \in Processes \ {p} : pc'[q] \notin Waiting
  BY <1>4, <1>5 DEF Waiting
<1>7. OneRequest'
  BY <1>1, <1>2, <1>3, <1>4 DEF OneRequest, Start1
<1>8. ~NoRequest'
  BY <1>1 DEF NoRequest
<1> QED BY <1>4, <1>6, <1>7, <1>8 DEF Settled, Present, Waiting

\* ... and sees it run.
LEMMA StartDoneStep ==
  ASSUME BasicInv, OneRequest, Settled, NEW p \in Processes, StartDone(p)
  PROVE  OneRequest' /\ Settled' /\ (Present => Present')
<1>1. /\ pc[p] = "start waits" /\ requests[p] # <<>> /\ Head(requests[p]).op = "start"
      /\ handle' = target[p] /\ Pop(p) /\ Goto(p, "dealloc")
      /\ UNCHANGED <<started, target, terminate>>
  BY DEF StartDone, StartupSeen, control, BasicInv, TransactionOK
<1>2. Start1(p) /\ \A q \in Processes : requests[q] # <<>> => q = p
  <2>1. ASSUME NEW h, requests[p] = <<Stop(h)>>
        PROVE  FALSE
    BY <1>1, <2>1, OnlyStartOrStop
  <2> QED BY <1>1, <2>1 DEF OneRequest, Stop1
<1>3. Alive \subseteq {target[p]} /\ started /\ requests[p] = <<Start>>
  BY <1>1, <1>2 DEF Start1
<1>4. NoRequest'
  <2>1. requests'[p] = <<>>
    BY <1>1, <1>3, PopFacts, OnlyRequest
  <2> QED BY <1>1, <1>2, <2>1, PopFacts DEF NoRequest
<1>5. Alive' = Alive
  BY <1>1, AliveStays
<1>6. \A q \in Processes : pc'[q] \notin Waiting
  BY <1>1, <1>2, <1>3 DEF Goto, BasicInv, ControlTypeOK, LockOK, TransactionOK, Settled,
                          NoRequest, Waiting
<1> QED BY <1>1, <1>3, <1>4, <1>5, <1>6 DEF OneRequest, Settled, Present, NoRequest, Waiting

\* After the commit, the stop that waited terminates the master of its handle ...
LEMMA DoStopStep ==
  ASSUME BasicInv, OneRequest, Settled, NEW p \in Processes, do_stop_bgworker(p)
  PROVE  OneRequest' /\ Settled' /\ Present'
<1>1. /\ pc[p] = "dealloc" /\ requests[p] # <<>> /\ Head(requests[p]).op = "stop"
      /\ Goto(p, "stop waits") /\ terminate \subseteq terminate'
      /\ \A q \in Processes \ {p} : target'[q] = target[q]
      /\ UNCHANGED <<should_start, started, handle, requests, events>>
  BY DEF do_stop_bgworker, control, BasicInv, ControlTypeOK
<1>2. Stop1(p) /\ \A q \in Processes : requests[q] # <<>> => q = p
  <2>1. requests[p] # <<Start>>
    BY <1>1, OnlyStartOrStop
  <2> QED BY <1>1, <2>1 DEF OneRequest, Start1
<1>3. pc'[p] = "stop waits" /\ \A q \in Processes \ {p} : pc'[q] = pc[q]
  BY <1>1 DEF Goto, BasicInv, ControlTypeOK
<1>4. Alive' \subseteq Alive
  <2>1. \A k \in Masters : pc'[k] \notin {"none", "gone"} => pc[k] \notin {"none", "gone"}
    BY <1>1, <1>3, ProcessFacts
  <2> QED BY <1>1, <2>1 DEF Alive
<1>5. SameRequest
  BY <1>1, <1>3, <1>4 DEF SameRequest, Waiting, OneRequest
<1>6. \A q \in Processes : pc'[q] \notin {"start locked", "start waits"}
  BY <1>1, <1>2, <1>3 DEF BasicInv, LockOK, TransactionOK, Stop1
<1>7. ~NoRequest'
  BY <1>1 DEF NoRequest
<1> QED BY <1>5, <1>6, <1>7, SameRequestStep DEF Present

\* ... and sees it gone.
LEMMA StopDoneStep ==
  ASSUME BasicInv, OneRequest, Settled, NEW p \in Processes, StopDone(p)
  PROVE  OneRequest' /\ Settled' /\ Present'
<1>1. /\ pc[p] = "stop waits" /\ requests[p] # <<>> /\ Head(requests[p]).op = "stop"
      /\ Head(requests[p]).handle \in terminate \union {NoMaster}
      /\ Pop(p) /\ Goto(p, "dealloc") /\ UNCHANGED <<started, terminate>>
  BY DEF StopDone, control, BasicInv, TransactionOK
<1>2. Stop1(p) /\ \A q \in Processes : requests[q] # <<>> => q = p
  <2>1. requests[p] # <<Start>>
    BY <1>1, OnlyStartOrStop
  <2> QED BY <1>1, <2>1 DEF OneRequest, Start1
<1>3. PICK h : requests[p] = <<Stop(h)>> /\ ~started /\ ~should_start /\ Alive \subseteq {h}
  BY <1>2 DEF Stop1
<1>4. Alive' = {}
  <2>1. h \in terminate \union {NoMaster}
    BY <1>1, <1>3, OnlyStartOrStop
  <2>2. Alive = {}
    BY <1>3, <2>1, ProcessFacts DEF Alive
  <2> QED BY <1>1, <2>2, AliveStays
<1>5. NoRequest'
  <2>1. requests'[p] = <<>>
    BY <1>1, <1>3, PopFacts, OnlyRequest
  <2> QED BY <1>1, <1>2, <2>1, PopFacts DEF NoRequest
<1>6. \A q \in Processes : pc'[q] \notin Waiting
  BY <1>1, <1>2, <1>3 DEF Goto, BasicInv, ControlTypeOK, LockOK, TransactionOK, Settled,
                          NoRequest, Waiting
<1> QED BY <1>1, <1>3, <1>4, <1>5, <1>6 DEF OneRequest, Settled, Present, NoRequest, Waiting

----------------------------------------------------------------------------
(* The invariant and what follows from it                                  *)

\* As long as nothing disturbs it, the request that waits and the master agree.
LEMMA UndisturbedNext ==
  ASSUME BasicInv, OneRequest, Settled, [Next]_vars, Undisturbed'
  PROVE  OneRequest' /\ Settled' /\ (Present /\ "failure" \notin mishaps' => Present')
<1>1. CASE UNCHANGED vars
  BY <1>1 DEF vars, control, counters, OneRequest, Start1, Stop1, Settled, NoRequest, Present,
              Alive
<1>2. ASSUME NEW p \in Processes, Call(p) \/ Abort(p)
      PROVE  OneRequest' /\ Settled' /\ (Present => Present')
  <2>1. CASE StopLater(p) /\ started
    BY <2>1, RequestSteps
  <2>2. CASE StopNow(p)
    BY <2>2, StopNowStep
  <2> QED BY <1>2, <2>1, <2>2, NeutralSteps DEF Call, StopNothing
<1>3. ASSUME NEW p \in Processes, Proceed(p) \/ PreCommit(p) \/ RegisterCrashes(p)
      PROVE  OneRequest' /\ Settled' /\ (Present /\ "failure" \notin mishaps' => Present')
  <2>1. CASE _Omni_init(p) \/ StartLater(p)
    BY <2>1, RequestSteps, NeutralSteps
  <2>2. CASE StartNothing(p) \/ PreCommit(p) \/ Commit(p) \/ on_xact_dealloc(p)
    BY <2>2, NeutralSteps
  <2>3. CASE StartNow(p) \/ StartedNow(p) \/ StoppedNow(p)
    BY <2>3, StartNowStep, StartedNowStep, StoppedNowStep
  <2>4. CASE do_start_bgworker(p) \/ StartDone(p) \/ do_stop_bgworker(p) \/ StopDone(p)
    BY <2>4, DoStartStep, StartDoneStep, DoStopStep, StopDoneStep
  <2> QED BY <1>3, <2>1, <2>2, <2>3, <2>4, CrashStep DEF Proceed
<1>4. ASSUME NEW m \in Masters, MasterStep(m) \/ MasterFails(m)
      PROVE  OneRequest' /\ Settled' /\ (Present /\ "failure" \notin mishaps' => Present')
  BY <1>4, MasterSteps
<1>5. Backends \subseteq Processes
  BY DEF Processes
<1> QED BY <1>1, <1>2, <1>3, <1>4, <1>5 DEF Next, Idle, PollStop

\* The server runs from the start, or the first backend to load the module starts it.
LEMMA ControlInit ==
  ASSUME Init
  PROVE  ControlInv
<1> DEFINE up == Connecting # Backends
<1>1. /\ should_start = TRUE /\ started = up /\ lock = Free
      /\ handle = IF up THEN 1 ELSE NoMaster
      /\ pc = [p \in Processes |->
                IF p \in Connecting THEN "new"
                ELSE IF p \in Backends \/ (up /\ p = 1) THEN "idle" ELSE "none"]
      /\ requests = [p \in Processes |-> <<>>] /\ events = [p \in Processes |-> <<>>]
      /\ target = [p \in Processes |-> NoMaster] /\ terminate = {}
  BY DEF Init
<1>2. /\ 1 \in Masters /\ 1 \in Processes /\ 1 \notin Backends /\ 1 \notin Connecting
      /\ Connecting \subseteq Backends /\ \A m \in Masters : m \notin Backends
  BY ConstantsAssumption DEF Processes
<1>3. /\ pc \in [Processes -> {"new", "idle", "none"}]
      /\ \A m \in Masters : pc[m] = IF up /\ m = 1 THEN "idle" ELSE "none"
  BY <1>1, <1>2, ProcessFacts
<1> HIDE DEF up
<1>4. ControlTypeOK
  <2>1. requests \in [Processes -> Seq(Requests)]
    BY <1>1
  <2>2. events \in [Processes -> Seq({"pre-commit", "commit", "abort"})]
    BY <1>1
  <2>3. pc \in [Processes -> Places]
    BY <1>3 DEF Places
  <2>4. started \in BOOLEAN /\ should_start \in BOOLEAN
    BY <1>1 DEF up
  <2> QED BY <1>1, <1>2, <2>1, <2>2, <2>3, <2>4 DEF ControlTypeOK
<1>5. Numbers
  <2>1. Known(handle)
    BY <1>1, <1>2, <1>3 DEF Known, NoMaster
  <2>2. ASSUME NEW p \in Processes
        PROVE  Known(target[p]) /\ DOMAIN requests[p] = {} /\ pc[p] \in {"new", "idle", "none"}
    BY <1>1, <1>3 DEF Known
  <2> QED BY <1>1, <2>1, <2>2 DEF Numbers
<1>6. LockOK
  <2>1. \A p \in Processes : pc[p] \in {"new", "idle", "none"} /\ p # Free
    BY <1>3, ProcessFacts
  <2> QED BY <1>1, <2>1 DEF LockOK
<1>7. TransactionOK
  BY <1>1, <1>3 DEF TransactionOK
<1>8. NoRequest /\ Alive = IF up THEN {1} ELSE {}
  BY <1>1, <1>2, <1>3 DEF NoRequest, Alive
<1>9. OneRequest /\ Settled /\ Present
  BY <1>1, <1>3, <1>8 DEF OneRequest, Settled, Present, NoRequest
<1> QED BY <1>4, <1>5, <1>6, <1>7, <1>9 DEF ControlInv, BasicInv

\* What the flags, the lock and the request that waits say of the master, whatever
\* processes load the module, start and stop the server, commit and roll back.
THEOREM ControlIndInv == Spec => []ControlInv
<1>1. Init => ControlInv
  BY ControlInit
<1>2. ControlInv /\ [Next]_vars => ControlInv'
  <2> SUFFICES ASSUME ControlInv, [Next]_vars
               PROVE  ControlInv'
    OBVIOUS
  <2>1. BasicInv'
    BY BasicNext DEF ControlInv
  <2>2. /\ Undisturbed' => Undisturbed
        /\ "failure" \notin mishaps' => "failure" \notin mishaps
    BY MishapsStay DEF Undisturbed
  <2>3. ASSUME Undisturbed'
        PROVE  OneRequest' /\ Settled' /\ ("failure" \notin mishaps' => Present')
    BY <2>2, <2>3, UndisturbedNext DEF ControlInv
  <2> QED BY <2>1, <2>3 DEF ControlInv
<1> QED BY <1>1, <1>2, PTL DEF Spec

\* Starting and stopping the server never leaves two masters behind, as long as no call
\* is rolled back or made while another one waits for its commit.
THEOREM ControlAtMostOneMaster == Spec => []AtMostOneMaster
<1>1. ControlInv => AtMostOneMaster
  <2> SUFFICES ASSUME ControlInv, Undisturbed
               PROVE  Cardinality(Alive) <= 1
    BY DEF AtMostOneMaster, Undisturbed
  <2>1. PICK x : Alive \subseteq {x}
    <3>1. CASE NoRequest /\ started
      BY <3>1 DEF ControlInv, Settled
    <3>2. CASE NoRequest /\ ~started
      <4>1. \A m \in Alive : \E p \in Processes : lock = p /\ target[p] = m
        BY <3>2 DEF ControlInv, BasicInv, LockOK, Settled
      <4> QED BY <4>1
    <3>3. CASE ~NoRequest
      <4>1. PICK p \in Processes : Start1(p) \/ Stop1(p)
        BY <3>3 DEF ControlInv, OneRequest, NoRequest
      <4> QED BY <4>1 DEF Start1, Stop1
    <3> QED BY <3>1, <3>2, <3>3
  <2>2. IsFiniteSet({x}) /\ Cardinality({x}) = 1
    BY FS_Singleton
  <2> QED BY <2>1, <2>2, FS_Subset
<1> QED BY <1>1, ControlIndInv, PTL

\* Once everything that was asked for is done, a stopped server has no master left, and
\* the flag started and the handle tell the truth, unless a master has failed, to start
\* or later.
THEOREM ControlFlagsTruthful == Spec => []FlagsTruthful
<1>1. ControlInv => FlagsTruthful
  <2> SUFFICES ASSUME ControlInv, Quiet, Undisturbed
               PROVE  /\ ~should_start => Alive = {}
                      /\ "failure" \notin mishaps =>
                           (started <=> Alive # {}) /\ Alive \subseteq {handle}
    BY DEF FlagsTruthful, Undisturbed
  <2>1. NoRequest /\ \A p \in Processes : pc[p] \notin Waiting
    BY DEF ControlInv, BasicInv, TransactionOK, Quiet, NoRequest, Waiting
  <2>2. ~started => Alive = {}
    BY <2>1 DEF ControlInv, Settled, Waiting
  <2>3. started => should_start /\ Alive \subseteq {handle}
    BY <2>1 DEF ControlInv, BasicInv, LockOK, Settled
  <2>4. "failure" \notin mishaps /\ started => handle \in Alive
    BY <2>1 DEF ControlInv, Present, Waiting
  <2> QED BY <2>2, <2>3, <2>4
<1> QED BY <1>1, ControlIndInv, PTL
=============================================================================
