------------------------- MODULE HttpdHandlerProofs -------------------------
(***************************************************************************)
(* Proofs about HttpdHandler, for any routes, roles and messages.           *)
(***************************************************************************)
EXTENDS HttpdHandler, FiniteSetTheorems, FunctionTheorems, SequenceTheorems, TLAPS

\* The message is looked at and nothing was answered.
Working == {"prepare", "route", "call", "commit", "catch"}
Asked == kind \in {"http", "upgrade"}

\* What is known at each place of handler() about the transaction and the answers
Stages ==
  /\ pc \in Working \union {"send", "cleanup", "idle", "dead"}
  /\ kind \in Kinds \union {"none"}
  /\ outcome \in Outcomes \union {Null}
  /\ pc \in Working \union {"send", "cleanup"} => kind \in Kinds /\ saved = Session
  /\ pc \in Working => answers = <<>> /\ ~succeeded
  /\ pc = "send" => answers = <<>> /\ succeeded /\ Asked
  /\ pc \in {"send", "cleanup"} /\ succeeded => xact = NoXact /\ fate = "committed"
  /\ pc \in {"cleanup", "idle"} => answers = <<>> \/ \E a : answers = <<a>>
  /\ pc = "cleanup" =>
       /\ Asked <=> answers # <<>>
       /\ answers # <<>> => (answers[1] = "error" <=> ~succeeded)
  /\ pc = "idle" =>
       /\ xact = NoXact /\ identity = Session
       /\ Asked <=> answers # <<>>
       /\ answers # <<>> => fate = IF answers[1] = "error" THEN "aborted" ELSE "committed"
  /\ pc = "dead" => answers = <<>>

\* The security context keeps a function from changing the role it was given.
Guarded ==
  pc = "call" /\ route.role # NoRole /\ ~route.procedure =>
    identity.user = route.role /\ identity.restricted

\* A worker starts between two messages.
LEMMA InitStages == Init => Stages /\ Guarded
  BY DEF Init, Stages, Guarded, Working, Kinds, Asked, Session, NoXact

\* A message is begun.
LEMMA BeginStages ==
  ASSUME Stages, NEW k \in Kinds, Begin(k)
  PROVE  Stages' /\ Guarded'
<1>1. xact = NoXact /\ identity = Session /\ pc = "idle"
  BY DEF Stages, Begin
<1>2. /\ pc' \in {"prepare", "call"} /\ kind' = k /\ saved' = Session /\ answers' = <<>>
      /\ succeeded' = FALSE /\ outcome' = Null /\ route' = WebsocketHandler
  BY <1>1 DEF Begin
<1>3. Stages'
  BY <1>2 DEF Stages, Working
<1>4. Guarded'
  BY <1>2 DEF Guarded, WebsocketHandler
<1> QED
  BY <1>3, <1>4

\* Routes are looked at and called; nothing is answered meanwhile.
LEMMA RoutesStages ==
  ASSUME Stages, PrepareRouters \/ SkipRoute \/ CallRoute \/ RoutesEnd
  PROVE  Stages' /\ Guarded'
<1>1. /\ pc \in {"prepare", "route"} /\ pc' \in {"route", "call", "commit"}
      /\ UNCHANGED <<kind, outcome, succeeded, saved, answers>>
  BY DEF PrepareRouters, SkipRoute, CallRoute, RoutesEnd, loopVars, history
<1>2. Stages'
  BY <1>1 DEF Stages, Working
<1>3. ASSUME pc' = "call", route'.role # NoRole, ~route'.procedure
      PROVE  identity'.user = route'.role /\ identity'.restricted
  <2>1. route' = Head(routes) /\ identity' = IdentityFor(Head(routes))
    BY <1>1, <1>3 DEF PrepareRouters, SkipRoute, CallRoute, RoutesEnd
  <2>2. identity' = [user |-> route'.role, restricted |-> ~route'.procedure]
    BY <1>3, <2>1 DEF IdentityFor
  <2>3. identity'.user = route'.role
    BY <2>2
  <2>4. identity'.restricted = ~route'.procedure
    BY <2>2, Zenon
  <2> QED
    BY <1>3, <2>3, <2>4, Zenon
<1> QED
  BY <1>2, <1>3, Zenon DEF Guarded

\* A called function may do anything but answer.
LEMMA CallStages ==
  ASSUME Stages, Guarded,
         \/ \E u \in Roles \union {SessionUser} : SetRole(u)
         \/ InnerCommit \/ InnerRollback \/ StopHandling \/ Raise
         \/ \E o \in Outcomes \union {Null} : Return(o)
  PROVE  Stages' /\ Guarded'
<1>1. /\ pc \in {"prepare", "route", "call"} /\ pc' \in {"call", "route", "commit", "catch"}
      /\ UNCHANGED <<kind, succeeded, saved, answers>>
      /\ outcome' \in Outcomes \union {Null}
  BY DEF Stages, SetRole, InnerCommit, InnerRollback, StopHandling, Raise, Return, loopVars,
         history
<1>2. Stages'
  BY <1>1 DEF Stages, Working
<1>3. ASSUME \E u \in Roles \union {SessionUser} : SetRole(u) PROVE Guarded'
  <2>1. pc = "call" /\ ~identity.restricted /\ route' = route
    BY <1>3, Zenon DEF SetRole, loopVars
  <2> QED
    BY <2>1, Zenon DEF Guarded
<1>4. ASSUME InnerCommit \/ InnerRollback \/ StopHandling PROVE Guarded'
  <2>1. pc = "call" /\ route' = route
    BY <1>4, Zenon DEF InnerCommit, InnerRollback, StopHandling, loopVars
  <2>2. route.procedure \/ identity' = identity
    BY <1>4, Zenon DEF InnerCommit, InnerRollback, StopHandling
  <2> QED
    BY <2>1, <2>2, Zenon DEF Guarded
<1>5. ASSUME Raise \/ \E o \in Outcomes \union {Null} : Return(o) PROVE Guarded'
  <2>1. pc' # "call"
    BY <1>5 DEF Raise, Return
  <2> QED
    BY <2>1, Zenon DEF Guarded
<1> QED
  BY <1>2, <1>3, <1>4, <1>5

\* The transaction ends before the answer, or after that of an error.
LEMMA EndStages ==
  ASSUME Stages, Catch \/ Commit \/ CommitFails \/ Send \/ Cleanup \/ Restart
  PROVE  Stages' /\ Guarded'
<1>1. pc' # "call"
  BY DEF Catch, Commit, CommitFails, Send, Cleanup, Restart
<1>2. ASSUME Catch PROVE Stages'
  <2>1. /\ pc' = "cleanup" /\ UNCHANGED <<kind, outcome, saved, succeeded>>
        /\ kind \in Kinds /\ saved = Session /\ succeeded = FALSE
        /\ answers' = IF kind = "websocket" THEN <<>> ELSE <<"error">>
    BY <1>2 DEF Stages, Catch, Working, loopVars
  <2> QED
    BY <2>1 DEF Stages, Working, Asked, Kinds
<1>3. ASSUME Commit \/ CommitFails PROVE Stages'
  BY <1>3 DEF Stages, Commit, CommitFails, Working, Asked, Kinds, loopVars, history
<1>4. ASSUME Send PROVE Stages'
  <2>1. Answer # "error"
    BY DEF Stages, Answer, Outcomes
  <2> QED
    BY <1>4, <2>1 DEF Stages, Send, Working, Asked, Kinds, loopVars
<1>5. ASSUME Cleanup PROVE Stages'
  BY <1>5 DEF Stages, Cleanup, Working, Asked, Kinds, loopVars
<1>6. ASSUME Restart PROVE Stages'
  BY <1>6 DEF Stages, Restart, Working, Asked, Kinds
<1> QED
  BY <1>1, <1>2, <1>3, <1>4, <1>5, <1>6 DEF Guarded

\* Stages and Guarded hold in every state of a worker.
THEOREM HandlerIndInv == Spec => [](Stages /\ Guarded)
<1>1. Stages /\ Guarded /\ [Next]_vars => Stages' /\ Guarded'
  <2> SUFFICES ASSUME Stages, Guarded, [Next]_vars PROVE Stages' /\ Guarded'
    OBVIOUS
  <2>1. CASE UNCHANGED vars
    BY <2>1 DEF Stages, Guarded, Asked, vars, loopVars, history
  <2>2. CASE Next
    BY <2>2, BeginStages, RoutesStages, CallStages, EndStages DEF Next
  <2> QED
    BY <2>1, <2>2
<1> QED
  BY InitStages, <1>1, PTL DEF Spec

\* An answer other than an error follows the commit, an error is followed by the
\* abort, for any routes, roles and sequence of messages.
THEOREM HandlerAnswerTruthful == Spec => []AnswerTruthful
<1>1. Stages => AnswerTruthful
  <2> SUFFICES ASSUME Stages, NEW i \in DOMAIN answers
               PROVE  IF answers[i] = "error" THEN pc = "idle" => fate = "aborted"
                      ELSE xact = NoXact /\ fate = "committed"
    BY DEF AnswerTruthful
  <2>1. pc \in {"cleanup", "idle"} /\ answers # <<>>
    BY DEF Stages, Working
  <2>2. i = 1
    BY <2>1 DEF Stages
  <2> QED
    BY <2>1, <2>2 DEF Stages
<1> QED
  BY HandlerIndInv, <1>1, PTL

\* Every message leaves the session as it found it and has had one answer, if it
\* wants one.
THEOREM HandlerClean == Spec => []CleanBetweenMessages
<1>1. Stages => CleanBetweenMessages
  BY DEF Stages, CleanBetweenMessages, Asked
<1> QED
  BY HandlerIndInv, <1>1, PTL

\* A function with a role runs under it, for any roles and routes.
THEOREM HandlerEnforcedRole == Spec => []EnforcedRole
<1>1. Guarded => EnforcedRole
  BY DEF Guarded, EnforcedRole
<1> QED
  BY HandlerIndInv, <1>1, PTL

----------------------------------------------------------------------------
(* Routing                                                                 *)

AllRoutes == UNION Tables

\* A handler was called whose priority is no lower than that of r.
Preferred(r) ==
  \E i \in DOMAIN called : called[i].handler /\ called[i].priority >= r.priority

In(r, s) == \E i \in DOMAIN s : s[i] = r

\* What was called, in the order of priorities, and at most one handler
Called ==
  /\ called \in Seq(AllRoutes) /\ table \subseteq AllRoutes
  /\ \A i, j \in DOMAIN called : i < j => called[i].priority >= called[j].priority
  /\ \A i, j \in DOMAIN called : called[i].handler /\ called[j].handler => called[i] = called[j]
  /\ pc = "prepare" \/ kind # "http" => called = <<>> /\ table = {}
  /\ pc = "prepare" => kind = "http" /\ ~handler_invoked /\ ~worker_should_stop_handling
  /\ pc = "route" => kind = "http"

\* What is still to be looked at comes after what was called.
Ahead ==
  kind = "http" /\ pc \in {"route", "call"} =>
    /\ routes \in Seq(AllRoutes)
    /\ \A i, j \in DOMAIN routes : i < j => routes[i].priority >= routes[j].priority
    /\ \A i \in DOMAIN called, j \in DOMAIN routes : called[i].priority >= routes[j].priority

\* handler_invoked tells whether a handler was called before.
Invoked ==
  LET some == \E i \in DOMAIN called : called[i].handler
  IN  /\ pc = "route" => ~worker_should_stop_handling /\ (handler_invoked <=> some)
      /\ pc = "call" /\ kind = "http" =>
           (handler_invoked \/ route.handler) <=> some

\* Nothing that matches is passed over but handlers after the first.
Complete ==
  kind = "http" /\ (pc \in {"route", "call"}
                    \/ (pc \in {"commit", "send"} /\ ~worker_should_stop_handling)) =>
    /\ pc \in {"commit", "send"} => routes = <<>>
    /\ \A r \in table : r.match =>
         In(r, called) \/ In(r, routes) \/ (r.handler /\ Preferred(r))

Routing == Called /\ Ahead /\ Invoked /\ Complete

\* Only routes of the table that match are called.
Matched ==
  /\ \A i \in DOMAIN called : called[i] \in table /\ called[i].match
  /\ kind = "http" /\ pc \in {"route", "call"} => \A j \in DOMAIN routes : routes[j] \in table

\* Nothing was called when a worker starts or a message begins.
LEMMA RoutingFresh ==
  ASSUME called' = <<>>, table' = {}, pc' \in {"idle", "prepare", "call", "dead"},
         pc' = "prepare" => /\ kind' = "http" /\ handler_invoked' = FALSE
                            /\ worker_should_stop_handling' = FALSE,
         pc' = "call" => kind' # "http"
  PROVE  Routing'
  BY DEF Routing, Called, Ahead, Invoked, Complete

\* qsort leaves every row of the table in the list, higher priorities first.
LEMMA SortedLists ==
  ASSUME NEW S, IsFiniteSet(S), NEW s \in Sorted(S)
  PROVE  /\ s \in Seq(S)
         /\ \A i, j \in DOMAIN s : i < j => s[i].priority >= s[j].priority
         /\ \A r \in S : In(r, s)
<1> DEFINE n == Cardinality(S)
<1>1. s \in [1..n -> S] /\ IsInjective(s) /\ n \in Nat
  BY FS_CardinalityType DEF Sorted
<1>2. IsFiniteSet(1..n) /\ Cardinality(1..n) = n
  BY <1>1, FS_Interval
<1>3. s \in Injection(1..n, S)
  BY <1>1 DEF Injection
<1>4. \A r \in S : \E i \in 1..n : s[i] = r
  <2>1. s \in Surjection(1..n, S)
    BY <1>2, <1>3, FS_Injection
  <2> QED
    BY <2>1 DEF Surjection
<1>5. s \in Seq(S) /\ DOMAIN s = 1..n
  BY <1>1
<1> QED
  BY <1>4, <1>5 DEF In, Sorted, RouteCompare

\* The routes of a message are ahead once the table was read.
LEMMA RoutingPrepare ==
  ASSUME Routing, PrepareRouters
  PROVE  Routing'
<1> PICK t \in Tables : table' = {r \in t : r.valid} /\ routes' \in Sorted(table')
  BY DEF PrepareRouters
<1>1. /\ called = <<>> /\ called' = <<>> /\ kind = "http" /\ kind' = "http" /\ pc' = "route"
      /\ ~handler_invoked' /\ ~worker_should_stop_handling'
  BY DEF Routing, Called, PrepareRouters
<1>2. IsFiniteSet(table') /\ table' \subseteq AllRoutes
  <2>1. table' \in SUBSET t /\ IsFiniteSet(t) /\ t \subseteq AllRoutes
    BY TablesAssumption DEF AllRoutes
  <2> QED
    BY <2>1, FS_Subset
<1>3. /\ routes' \in Seq(table') /\ \A r \in table' : In(r, routes')
      /\ \A i, j \in DOMAIN routes' : i < j => routes'[i].priority >= routes'[j].priority
  BY <1>2, SortedLists
<1>4. routes' \in Seq(AllRoutes)
  BY <1>2, <1>3, SeqMonotonic
<1>5. Called'
  BY <1>1, <1>2 DEF Called
<1>6. Ahead'
  BY <1>1, <1>3, <1>4 DEF Ahead
<1>7. Invoked'
  BY <1>1 DEF Invoked
<1>8. Complete'
  BY <1>1, <1>3 DEF Complete, In
<1> QED
  BY <1>5, <1>6, <1>7, <1>8 DEF Routing

\* The first of the routes that are left comes before the others.
LEMMA HeadOfRoutes ==
  ASSUME Routing, pc = "route", routes # <<>>
  PROVE  /\ Head(routes) \in AllRoutes /\ Head(routes).priority \in Int
         /\ 1 \in DOMAIN routes /\ Head(routes) = routes[1]
         /\ Tail(routes) \in Seq(AllRoutes)
         /\ \A i \in DOMAIN Tail(routes) : i + 1 \in DOMAIN routes /\ Tail(routes)[i] = routes[i + 1]
         /\ \A i \in DOMAIN Tail(routes) : Head(routes).priority >= Tail(routes)[i].priority
         /\ \A i, j \in DOMAIN Tail(routes) :
              i < j => Tail(routes)[i].priority >= Tail(routes)[j].priority
         /\ \A r : In(r, routes) => r = Head(routes) \/ In(r, Tail(routes))
<1>1. /\ routes \in Seq(AllRoutes)
      /\ \A i, j \in DOMAIN routes : i < j => routes[i].priority >= routes[j].priority
  BY DEF Routing, Ahead, Called
<1>2. /\ Len(routes) \in Nat /\ Len(routes) > 0 /\ DOMAIN routes = 1..Len(routes)
      /\ Tail(routes) \in Seq(AllRoutes) /\ DOMAIN Tail(routes) = 1..Len(routes) - 1
      /\ Head(routes) = routes[1] /\ Head(routes) \in AllRoutes
  BY <1>1
<1>3. \A i \in 1..Len(routes) - 1 : Tail(routes)[i] = routes[i + 1]
  BY <1>1, <1>2
<1>4. Head(routes).priority \in Int
  BY <1>2, TablesAssumption DEF AllRoutes
<1>5. \A i \in 1..Len(routes) - 1 : i + 1 \in 1..Len(routes) /\ 1 < i + 1
  BY <1>2
<1>6. \A i \in 1..Len(routes) - 1 : Head(routes).priority >= Tail(routes)[i].priority
  BY <1>1, <1>2, <1>3, <1>5
<1>7. \A i, j \in 1..Len(routes) - 1 :
        i < j => Tail(routes)[i].priority >= Tail(routes)[j].priority
  BY <1>1, <1>2, <1>3, <1>5
<1>8. ASSUME NEW r, In(r, routes) PROVE r = Head(routes) \/ In(r, Tail(routes))
  <2> PICK i \in 1..Len(routes) : routes[i] = r
    BY <1>2, <1>8 DEF In
  <2>1. i = 1 \/ (i - 1 \in 1..Len(routes) - 1 /\ (i - 1) + 1 = i)
    BY <1>2
  <2> QED
    BY <1>2, <1>3, <2>1 DEF In
<1> QED
  BY <1>2, <1>3, <1>4, <1>5, <1>6, <1>7, <1>8

\* What is passed over does not match, or is a handler after the first one.
LEMMA RoutingSkip ==
  ASSUME Routing, SkipRoute
  PROVE  Routing'
<1>1. /\ pc = "route" /\ routes # <<>> /\ Skipped(Head(routes)) /\ routes' = Tail(routes)
      /\ UNCHANGED <<pc, kind, route, handler_invoked, worker_should_stop_handling, table, called>>
  BY DEF SkipRoute, history
<1>2. Called' /\ Invoked'
  BY <1>1 DEF Routing, Called, Invoked
<1>3. Ahead'
  BY <1>1, HeadOfRoutes DEF Routing, Ahead, Called
<1>4. ASSUME NEW r \in table, r.match
      PROVE  In(r, called) \/ In(r, Tail(routes)) \/ (r.handler /\ Preferred(r))
  <2>1. CASE r = Head(routes)
    <3>1. r.handler /\ handler_invoked
      BY <1>1, <1>4, <2>1 DEF Skipped
    <3>2. PICK i \in DOMAIN called : called[i].handler
      BY <1>1, <3>1 DEF Routing, Invoked
    <3>3. called[i].priority >= r.priority
      BY <1>1, <2>1, <3>2, HeadOfRoutes DEF Routing, Ahead, Called
    <3> QED
      BY <3>1, <3>2, <3>3 DEF Preferred
  <2>2. CASE r # Head(routes)
    BY <1>1, <1>4, <2>2, HeadOfRoutes DEF Routing, Complete, Called
  <2> QED
    BY <2>1, <2>2
<1>5. Complete'
  BY <1>1, <1>4 DEF Complete, In, Preferred
<1> QED
  BY <1>2, <1>3, <1>5 DEF Routing

\* A route is called after all that have a higher priority, and a handler only
\* when no other was.
LEMMA RoutingCall ==
  ASSUME Routing, CallRoute
  PROVE  Routing'
<1> DEFINE h == Head(routes)
<1>1. /\ pc = "route" /\ pc' = "call" /\ routes # <<>> /\ routes' = Tail(routes) /\ ~Skipped(h)
      /\ called' = Append(called, h) /\ route' = h /\ kind = "http"
      /\ UNCHANGED <<kind, handler_invoked, worker_should_stop_handling, table>>
  BY DEF CallRoute, Routing, Called
<1>2. called \in Seq(AllRoutes) /\ h \in AllRoutes /\ h.priority \in Int
  BY <1>1, HeadOfRoutes DEF Routing, Called
<1>3. /\ Len(called) \in Nat /\ DOMAIN called = 1..Len(called)
      /\ called' \in Seq(AllRoutes) /\ DOMAIN called' = 1..Len(called) + 1
      /\ \A i \in 1..Len(called) : called'[i] = called[i]
      /\ called'[Len(called) + 1] = h
  BY <1>1, <1>2
<1>4. \A i \in 1..Len(called) : called[i].priority >= h.priority
  BY <1>1, <1>3, HeadOfRoutes DEF Routing, Ahead
<1>5. h.handler => \A i \in 1..Len(called) : ~called[i].handler
  BY <1>1, <1>3 DEF Routing, Invoked, Skipped
<1>6. Called'
  <2>1. \A i, j \in DOMAIN called' : i < j => called'[i].priority >= called'[j].priority
    <3> SUFFICES ASSUME NEW i \in 1..Len(called) + 1, NEW j \in 1..Len(called) + 1, i < j
                 PROVE  called'[i].priority >= called'[j].priority
      BY <1>3
    <3>1. i \in 1..Len(called) /\ (j \in 1..Len(called) \/ j = Len(called) + 1)
      BY <1>3
    <3> QED
      BY <1>3, <1>4, <3>1 DEF Routing, Called
  <2>2. \A i, j \in DOMAIN called' : called'[i].handler /\ called'[j].handler => called'[i] = called'[j]
    <3> SUFFICES ASSUME NEW i \in 1..Len(called) + 1, NEW j \in 1..Len(called) + 1,
                        called'[i].handler, called'[j].handler
                 PROVE  called'[i] = called'[j]
      BY <1>3
    <3>1. /\ i \in 1..Len(called) \/ i = Len(called) + 1
          /\ j \in 1..Len(called) \/ j = Len(called) + 1
      BY <1>3
    <3> QED
      BY <1>3, <1>5, <3>1 DEF Routing, Called
  <2> QED
    BY <1>1, <1>3, <2>1, <2>2 DEF Routing, Called
<1>7. Ahead'
  <2>1. ASSUME NEW i \in DOMAIN called', NEW j \in DOMAIN Tail(routes)
        PROVE  called'[i].priority >= Tail(routes)[j].priority
    <3>1. i \in 1..Len(called) \/ i = Len(called) + 1
      BY <1>3
    <3> QED
      BY <1>1, <1>3, <3>1, HeadOfRoutes DEF Routing, Ahead
  <2> QED
    BY <1>1, <2>1, HeadOfRoutes DEF Routing, Ahead
<1>8. Invoked'
  <2>1. (\E i \in DOMAIN called' : called'[i].handler)
          <=> h.handler \/ \E i \in 1..Len(called) : called[i].handler
    <3>1. Len(called) + 1 \in 1..Len(called) + 1 /\ 1..Len(called) \subseteq 1..Len(called) + 1
          /\ \A i \in 1..Len(called) + 1 : i \in 1..Len(called) \/ i = Len(called) + 1
      BY <1>3
    <3> QED
      BY <1>3, <3>1
  <2>2. handler_invoked <=> \E i \in 1..Len(called) : called[i].handler
    BY <1>1, <1>3 DEF Routing, Invoked
  <2> QED
    BY <1>1, <2>1, <2>2 DEF Invoked
<1>9. Complete'
  <2>1. \A r : In(r, called) => In(r, called')
    BY <1>3 DEF In
  <2>2. In(h, called')
    BY <1>3 DEF In
  <2>3. \A r : Preferred(r) => Preferred(r)'
    BY <1>3 DEF Preferred
  <2>4. \A r \in table : r.match =>
          In(r, called) \/ In(r, routes) \/ (r.handler /\ Preferred(r))
    BY <1>1 DEF Routing, Complete
  <2>5. \A r : In(r, routes) => r = h \/ In(r, routes')
    BY <1>1, HeadOfRoutes
  <2> QED
    BY <1>1, <2>1, <2>2, <2>3, <2>4, <2>5 DEF Complete
<1> QED
  BY <1>6, <1>7, <1>8, <1>9 DEF Routing

\* The other steps of a message leave what was called alone.
LEMMA RoutingOther ==
  ASSUME Routing, UNCHANGED <<kind, routes, route, table, called>>,
         \/ /\ pc = "route" /\ routes = <<>> /\ pc' = "commit"
            /\ UNCHANGED <<handler_invoked, worker_should_stop_handling>>
         \/ /\ pc = "call" /\ pc' = "call" /\ UNCHANGED handler_invoked
         \/ \E o : Return(o)
         \/ /\ pc = "commit" /\ pc' = "send" /\ UNCHANGED worker_should_stop_handling
         \/ pc' \in {"catch", "cleanup", "idle", "dead"}
         \/ UNCHANGED <<pc, handler_invoked, worker_should_stop_handling>>
  PROVE  Routing'
<1>1. Called'
  BY DEF Routing, Called, Return
<1>2. Ahead'
  BY DEF Routing, Ahead, Return
<1>3. Invoked'
  <2>1. ASSUME NEW o, Return(o) PROVE Invoked'
    <3>1. CASE pc' = "route"
      <4>1. /\ pc = "call" /\ kind = "http" /\ ~worker_should_stop_handling
            /\ UNCHANGED worker_should_stop_handling
        BY <2>1, <3>1 DEF Return
      <4>2. handler_invoked' <=> handler_invoked \/ route.handler
        BY <2>1, <4>1, Zenon DEF Return
      <4>3. handler_invoked \/ route.handler <=> \E i \in DOMAIN called : called[i].handler
        BY <4>1 DEF Routing, Invoked
      <4> QED
        BY <3>1, <4>1, <4>2, <4>3 DEF Invoked
    <3>2. CASE pc' # "route"
      BY <2>1, <3>2 DEF Return, Invoked
    <3> QED
      BY <3>1, <3>2
  <2>2. CASE ~\E o : Return(o)
    BY <2>2 DEF Routing, Invoked, Called
  <2> QED
    BY <2>1, <2>2
<1>4. Complete'
  BY DEF Routing, Complete, In, Preferred, Called, Return
<1> QED
  BY <1>1, <1>2, <1>3, <1>4 DEF Routing

\* Routing is kept by every step.
LEMMA RoutingStep == Routing /\ Stages /\ [Next]_vars => Routing'
<1> SUFFICES ASSUME Routing, Stages, [Next]_vars PROVE Routing'
  OBVIOUS
<1> USE DEF loopVars, history
<1>1. ASSUME NEW k \in Kinds, Begin(k) PROVE Routing'
  <2>1. pc' \in {"prepare", "call"} /\ (pc' = "prepare" <=> k = "http")
    BY <1>1 DEF Begin, Stages
  <2> QED
    BY <1>1, <2>1, RoutingFresh DEF Begin
<1>2. CASE Restart
  BY <1>2, RoutingFresh DEF Restart
<1>3. CASE RoutesEnd \/ InnerCommit \/ InnerRollback \/ StopHandling
  BY <1>3, RoutingOther DEF RoutesEnd, InnerCommit, InnerRollback, StopHandling
<1>4. ASSUME NEW u, SetRole(u) PROVE Routing'
  BY <1>4, RoutingOther DEF SetRole
<1>5. ASSUME NEW o, Return(o) PROVE Routing'
  BY <1>5, RoutingOther DEF Return
<1>6. CASE Raise \/ Catch
  BY <1>6, RoutingOther DEF Raise, Catch
<1>7. CASE Commit \/ CommitFails
  BY <1>7, RoutingOther DEF Commit, CommitFails
<1>8. CASE Send \/ Cleanup
  BY <1>8, RoutingOther DEF Send, Cleanup
<1>9. CASE UNCHANGED vars
  BY <1>9, RoutingOther DEF vars
<1> QED
  BY <1>1, <1>2, <1>3, <1>4, <1>5, <1>6, <1>7, <1>8, <1>9, RoutingPrepare, RoutingSkip, RoutingCall
     DEF Next

\* Matched is kept by every step.
LEMMA MatchedStep == Matched /\ Routing /\ [Next]_vars => Matched'
<1> SUFFICES ASSUME Matched, Routing, [Next]_vars PROVE Matched'
  OBVIOUS
<1> USE DEF loopVars, history
<1>1. CASE (\E k \in Kinds : Begin(k)) \/ Restart
  <2>1. called' = <<>> /\ table' = {} /\ routes' = <<>>
    BY <1>1 DEF Begin, Restart
  <2> QED
    BY <2>1 DEF Matched
<1>2. CASE PrepareRouters
  <2>1. PICK t \in Tables : table' = {r \in t : r.valid} /\ routes' \in Sorted(table')
    BY <1>2 DEF PrepareRouters
  <2>2. called' = <<>>
    BY <1>2 DEF PrepareRouters, Routing, Called
  <2>3. \A j \in DOMAIN routes' : routes'[j] \in table'
    BY <2>1 DEF Sorted
  <2> QED
    BY <2>2, <2>3 DEF Matched
<1>3. CASE SkipRoute
  <2>1. \A j \in DOMAIN Tail(routes) : Tail(routes)[j] \in table
    BY <1>3, HeadOfRoutes DEF SkipRoute, Matched, Routing, Called
  <2> QED
    BY <1>3, <2>1 DEF SkipRoute, Matched
<1>4. CASE CallRoute
  <2> DEFINE h == Head(routes)
  <2>1. /\ pc = "route" /\ routes # <<>> /\ routes' = Tail(routes) /\ ~Skipped(h)
        /\ called' = Append(called, h) /\ table' = table /\ kind = "http"
    BY <1>4 DEF CallRoute, Routing, Called
  <2>2. h \in table /\ h.match /\ \A j \in DOMAIN Tail(routes) : Tail(routes)[j] \in table
    BY <2>1, HeadOfRoutes DEF Matched, Skipped
  <2>3. \A i \in DOMAIN called' : called'[i] \in table /\ called'[i].match
    <3>1. called \in Seq(AllRoutes) /\ h \in AllRoutes
      BY <2>1, HeadOfRoutes DEF Routing, Called
    <3>2. \A i \in DOMAIN called' : called'[i] = h \/ (i \in DOMAIN called /\ called'[i] = called[i])
      BY <2>1, <3>1
    <3> QED
      BY <2>2, <3>2 DEF Matched
  <2> QED
    BY <2>1, <2>2, <2>3 DEF Matched
<1>5. ASSUME UNCHANGED <<routes, table, called, kind>>,
             pc' \in {"route", "call"} => pc \in {"route", "call"}
      PROVE  Matched'
  BY <1>5 DEF Matched
<1>6. CASE RoutesEnd \/ InnerCommit \/ InnerRollback \/ StopHandling \/ Raise \/ Catch
  BY <1>5, <1>6 DEF RoutesEnd, InnerCommit, InnerRollback, StopHandling, Raise, Catch
<1>7. CASE Commit \/ CommitFails \/ Send \/ Cleanup
  BY <1>5, <1>7 DEF Commit, CommitFails, Send, Cleanup
<1>8. CASE \/ \E u \in Roles \union {SessionUser} : SetRole(u)
           \/ \E o \in Outcomes \union {Null} : Return(o)
  BY <1>5, <1>8 DEF SetRole, Return
<1>9. CASE UNCHANGED vars
  BY <1>5, <1>9 DEF vars
<1> QED
  BY <1>1, <1>2, <1>3, <1>4, <1>6, <1>7, <1>8, <1>9 DEF Next

\* Routes are called in the order of their priorities, at most one handler; all
\* middleware that matches and the first handler, unless stop_handling was called;
\* for tables of any size.
THEOREM HandlerRoutesByPriority == Spec => []RoutesByPriority
<1>1. Init => Routing /\ Matched
  BY DEF Init, Routing, Called, Ahead, Invoked, Complete, Matched
<1>2. Routing /\ Matched => RoutesByPriority
  <2> SUFFICES ASSUME Routing, Matched PROVE RoutesByPriority
    OBVIOUS
  <2> DEFINE matching == {r \in table : r.match}
             handlers == {r \in matching : r.handler}
             calls == ToSet(called)
  <2>1. \A i, j \in DOMAIN called : i < j => called[i].priority >= called[j].priority
    BY DEF Routing, Called
  <2>2. \A r : r \in calls <=> In(r, called)
    BY DEF ToSet, In
  <2>3. Cardinality(calls \cap handlers) <= 1
    <3>1. \A c, d \in calls \cap handlers : c = d
      BY <2>2 DEF Routing, Called, In
    <3>2. calls \cap handlers = {} \/ \E c : calls \cap handlers = {c}
      BY <3>1
    <3> HIDE DEF calls, handlers
    <3>3. Cardinality(calls \cap handlers) \in {0, 1}
      BY <3>2, FS_EmptySet, FS_Singleton
    <3> QED
      BY <3>3
  <2>4. ASSUME pc \in {"commit", "send"}, kind = "http", ~worker_should_stop_handling
        PROVE  /\ matching \ handlers \subseteq calls
               /\ \A h \in handlers : \E c \in calls \cap handlers : c.priority >= h.priority
    <3>1. \A r \in matching : In(r, called) \/ (r.handler /\ Preferred(r))
      BY <2>4 DEF Routing, Complete, In
    <3>2. matching \ handlers \subseteq calls
      BY <2>2, <3>1
    <3>3. ASSUME NEW h \in handlers PROVE \E c \in calls \cap handlers : c.priority >= h.priority
      <4>1. CASE In(h, called)
        <5>1. h.priority \in Int
          BY TablesAssumption DEF Routing, Called, AllRoutes
        <5> QED
          BY <2>2, <4>1, <5>1
      <4>2. CASE Preferred(h)
        BY <2>2, <4>2 DEF Preferred, In, Matched
      <4> QED
        BY <3>1, <4>1, <4>2
    <3> QED
      BY <3>2, <3>3
  <2> QED
    BY <2>1, <2>3, <2>4 DEF RoutesByPriority
<1> QED
  BY <1>1, <1>2, RoutingStep, MatchedStep, HandlerIndInv, PTL DEF Spec
=============================================================================
