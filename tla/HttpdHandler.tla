---------------------------- MODULE HttpdHandler ----------------------------
(***************************************************************************)
(* What the main thread of an HTTP worker of omni_httpd does with one       *)
(* message after another (handler and prepare_routers in http_worker.c):    *)
(* the transaction it runs in, the routes it calls, under which user, and   *)
(* the answer it sends.                                                     *)
(*                                                                         *)
(* What a called function does is any sequence of the things that matter    *)
(* here: it ends the transaction, changes the role, stops the handling of   *)
(* routes, returns an outcome or raises an error.                           *)
(***************************************************************************)
EXTENDS Integers, Sequences, SequencesExt, FiniteSetsExt

CONSTANTS
  Tables,        \* sets of routes that the routers may hold
  SessionUser,   \* the user a worker connects as
  Roles, NoRole,
  Null           \* no outcome

\* Tables are finite and priorities are integers.
ASSUME TablesAssumption ==
  \A t \in Tables : IsFiniteSet(t) /\ \A r \in t : r.priority \in Int

Kinds == {"http", "upgrade", "websocket"}
Outcomes == {"send", "abort", "proxy"}

VARIABLES
  pc, kind,            \* where the handler is, with which kind of message
  routes,              \* the routes still to be looked at
  route,               \* the one that is called
  handler_invoked, worker_should_stop_handling, outcome, succeeded,
  identity,            \* user id and whether the security context forbids SET ROLE
  saved,               \* the identity that handler() restores
  xact,                \* the identity its abort restores, NoXact if there is none
  answers,             \* history: what was sent for this message
  fate,                \* history: how the last transaction of the message ended
  table, called        \* history: valid routes of this message, those called

loopVars == <<routes, route, handler_invoked, worker_should_stop_handling, outcome>>
history == <<answers, fate, table, called>>
vars == <<pc, kind, loopVars, succeeded, identity, saved, xact, history>>

Session == [user |-> SessionUser, restricted |-> FALSE]
NoXact == [user |-> NoRole, restricted |-> FALSE]

\* The functions that WebSockets call are called like procedures without a role.
WebsocketHandler ==
  [priority |-> 0, handler |-> TRUE, procedure |-> TRUE, role |-> NoRole, match |-> TRUE,
   valid |-> TRUE]

Init ==
  /\ pc = "idle" /\ kind = "none"
  /\ routes = <<>> /\ route = WebsocketHandler
  /\ handler_invoked = FALSE /\ worker_should_stop_handling = FALSE
  /\ outcome = Null /\ succeeded = FALSE
  /\ identity = Session /\ saved = Session /\ xact = NoXact
  /\ answers = <<>> /\ fate = "none" /\ table = {} /\ called = <<>>

----------------------------------------------------------------------------
(* The beginning                                                           *)

\* StartTransactionCommand fails if a transaction was left open.
Begin(k) ==
  /\ pc = "idle"
  /\ pc' = IF xact # NoXact THEN "dead" ELSE IF k = "http" THEN "prepare" ELSE "call"
  /\ kind' = k
  /\ xact' = identity /\ saved' = identity
  /\ succeeded' = FALSE
  /\ routes' = <<>> /\ route' = WebsocketHandler
  /\ handler_invoked' = FALSE /\ worker_should_stop_handling' = FALSE /\ outcome' = Null
  /\ answers' = <<>> /\ fate' = "none" /\ table' = {} /\ called' = <<>>
  /\ UNCHANGED identity

\* Mutant: lower priorities first
RouteCompareAscending(r1, r2) == r1.priority <= r2.priority

RouteCompare(r1, r2) == r1.priority >= r2.priority

\* qsort leaves the order of equals open.
Sorted(S) ==
  {s \in [1..Cardinality(S) -> S] :
     IsInjective(s) /\ \A i, j \in DOMAIN s : i < j => RouteCompare(s[i], s[j])}

\* Rows without a match or a handler that exists are left out.
PrepareRouters ==
  /\ pc = "prepare"
  /\ \E t \in Tables :
       /\ table' = {r \in t : r.valid}
       /\ routes' \in Sorted(table')
  /\ pc' = "route"
  /\ UNCHANGED <<kind, route, handler_invoked, worker_should_stop_handling, outcome, succeeded,
                 identity, saved, xact, answers, fate, called>>

----------------------------------------------------------------------------
(* The routes                                                              *)

Skipped(r) == (r.handler /\ handler_invoked) \/ ~r.match

SkipRoute ==
  /\ pc = "route" /\ routes # <<>> /\ Skipped(Head(routes))
  /\ routes' = Tail(routes)
  /\ UNCHANGED <<pc, kind, route, handler_invoked, worker_should_stop_handling, outcome,
                 succeeded, identity, saved, xact, history>>

\* Mutant: the security context is left as it is
IdentityUnrestricted(r) ==
  IF r.role = NoRole THEN identity ELSE [user |-> r.role, restricted |-> saved.restricted]

\* A route without a role is called as whoever the one before it left.
IdentityFor(r) ==
  IF r.role = NoRole THEN identity ELSE [user |-> r.role, restricted |-> ~r.procedure]

CallRoute ==
  /\ pc = "route" /\ routes # <<>> /\ ~Skipped(Head(routes))
  /\ route' = Head(routes) /\ routes' = Tail(routes)
  /\ identity' = IdentityFor(Head(routes))
  /\ called' = Append(called, Head(routes))
  /\ pc' = "call"
  /\ UNCHANGED <<kind, handler_invoked, worker_should_stop_handling, outcome, succeeded, saved,
                 xact, answers, fate, table>>

RoutesEnd ==
  /\ pc = "route" /\ routes = <<>>
  /\ pc' = "commit"
  /\ UNCHANGED <<kind, loopVars, succeeded, identity, saved, xact, history>>

----------------------------------------------------------------------------
(* Inside of a called function                                             *)

\* SET ROLE, which "security definer" contexts do not allow
SetRole(u) ==
  /\ pc = "call" /\ ~identity.restricted
  /\ identity' = [identity EXCEPT !.user = u]
  /\ UNCHANGED <<pc, kind, loopVars, succeeded, saved, xact, history>>

\* COMMIT begins another transaction, as the user of this moment.
InnerCommit ==
  /\ pc = "call" /\ route.procedure
  /\ xact' = identity
  /\ UNCHANGED <<pc, kind, loopVars, succeeded, identity, saved, history>>

\* ROLLBACK also restores the user the transaction was begun as.
InnerRollback ==
  /\ pc = "call" /\ route.procedure
  /\ identity' = xact
  /\ UNCHANGED <<pc, kind, loopVars, succeeded, saved, xact, history>>

\* stop_handling
StopHandling ==
  /\ pc = "call"
  /\ worker_should_stop_handling' = TRUE
  /\ UNCHANGED <<pc, kind, routes, route, handler_invoked, outcome, succeeded, identity, saved,
                 xact, history>>

\* Whatever has been returned before is replaced, also by nothing.
Return(o) ==
  /\ pc = "call"
  /\ outcome' = o
  /\ handler_invoked' = (handler_invoked \/ (route.handler /\ ~worker_should_stop_handling))
  /\ pc' = IF kind = "http" /\ ~worker_should_stop_handling THEN "route" ELSE "commit"
  /\ UNCHANGED <<kind, routes, route, worker_should_stop_handling, succeeded, identity, saved,
                 xact, history>>

\* An error in a query of prepare_routers, in the lookup of a function that was dropped
\* meanwhile or in a called function
Raise ==
  /\ pc = "call" \/ (pc = "route" /\ routes # <<>>) \/ pc = "prepare"
  /\ pc' = "catch"
  /\ UNCHANGED <<kind, loopVars, succeeded, identity, saved, xact, history>>

----------------------------------------------------------------------------
(* The end                                                                 *)

\* PG_CATCH: the error is answered, if there is somebody to answer.
Catch ==
  /\ pc = "catch"
  /\ answers' = IF kind = "websocket" THEN answers ELSE Append(answers, "error")
  /\ pc' = "cleanup"
  /\ UNCHANGED <<kind, loopVars, succeeded, identity, saved, xact, fate, table, called>>

Answer ==
  IF kind = "upgrade" THEN IF outcome = Null THEN "abort" ELSE "upgrade"
  ELSE IF outcome = Null THEN "send" ELSE outcome

\* Mutant: the answer is sent before the commit
CommitLate ==
  /\ pc = "commit"
  /\ succeeded' = TRUE
  /\ answers' = IF kind = "websocket" \/ answers # <<>> THEN answers ELSE Append(answers, Answer)
  /\ IF answers' # answers THEN UNCHANGED <<xact, fate, pc>>
     ELSE xact' = NoXact /\ fate' = "committed" /\ pc' = "cleanup"
  /\ UNCHANGED <<kind, loopVars, identity, saved, table, called>>

\* "Commit before sending a response"
Commit ==
  /\ pc = "commit"
  /\ succeeded' = TRUE
  /\ xact' = NoXact /\ fate' = "committed"
  /\ pc' = IF kind = "websocket" THEN "cleanup" ELSE "send"
  /\ UNCHANGED <<kind, loopVars, identity, saved, answers, table, called>>

\* An error outside of PG_TRY, such as a deferred constraint at the commit, ends the
\* worker, as does a proxy without a URL, which is looked at before it is compared
\* with null.
CommitFails ==
  /\ pc = "commit"
  /\ pc' = "dead"
  /\ UNCHANGED <<kind, loopVars, succeeded, identity, saved, xact, history>>

Send ==
  /\ pc = "send"
  /\ answers' = Append(answers, Answer)
  /\ pc' = "cleanup"
  /\ UNCHANGED <<kind, loopVars, succeeded, identity, saved, xact, fate, table, called>>

\* Mutant: only an abort restores the user
CleanupLeavesUser ==
  /\ pc = "cleanup"
  /\ IF succeeded THEN UNCHANGED <<xact, fate, identity>>
     ELSE xact' = NoXact /\ fate' = "aborted" /\ identity' = xact
  /\ pc' = "idle"
  /\ UNCHANGED <<kind, loopVars, succeeded, saved, answers, table, called>>

Cleanup ==
  /\ pc = "cleanup"
  /\ IF succeeded THEN UNCHANGED <<xact, fate>> ELSE xact' = NoXact /\ fate' = "aborted"
  /\ identity' = saved
  /\ pc' = "idle"
  /\ UNCHANGED <<kind, loopVars, succeeded, saved, answers, table, called>>

\* The postmaster restarts a worker that has ended.
Restart ==
  /\ pc = "dead"
  /\ pc' = "idle" /\ kind' = "none"
  /\ routes' = <<>> /\ route' = WebsocketHandler
  /\ handler_invoked' = FALSE /\ worker_should_stop_handling' = FALSE
  /\ outcome' = Null /\ succeeded' = FALSE
  /\ identity' = Session /\ saved' = Session /\ xact' = NoXact
  /\ answers' = <<>> /\ fate' = "none" /\ table' = {} /\ called' = <<>>

Next ==
  \/ \E k \in Kinds : Begin(k)
  \/ PrepareRouters \/ SkipRoute \/ CallRoute \/ RoutesEnd
  \/ \E u \in Roles \union {SessionUser} : SetRole(u)
  \/ InnerCommit \/ InnerRollback \/ StopHandling
  \/ \E o \in Outcomes \union {Null} : Return(o)
  \/ Raise \/ Catch \/ Commit \/ CommitFails \/ Send \/ Cleanup \/ Restart

Spec == Init /\ [][Next]_vars

----------------------------------------------------------------------------
(* Properties                                                              *)

\* handler() keeps the word it gives to clients: when an answer other than an error
\* is sent, what the last transaction did is already committed; after an error it is
\* undone before the next message is looked at.
AnswerTruthful ==
  \A i \in DOMAIN answers :
    IF answers[i] = "error" THEN pc = "idle" => fate = "aborted"
    ELSE xact = NoXact /\ fate = "committed"

\* Whichever way a message was handled, the next one finds no transaction and the
\* user of the worker ("but then role resets", tests/role_change.yml), and there was
\* one answer if there is a client that waits for one.
CleanBetweenMessages ==
  pc = "idle" =>
    /\ xact = NoXact /\ identity = Session
    /\ Len(answers) = IF kind \in {"http", "upgrade"} THEN 1 ELSE 0

\* A function that handler_role gives a role runs under it to its end ("Functions are
\* **not** subject to this limitation", docs/security.md), whatever functions and
\* procedures ran before it.
EnforcedRole ==
  pc = "call" /\ route.role # NoRole /\ ~route.procedure => identity.user = route.role

\* prepare_routers and the loop over its routes call what routing is about: routes are
\* called in the order of their priorities, at most one of them a handler; unless
\* stop_handling was called, all middleware that matches and the first handler.
RoutesByPriority ==
  LET matching == {r \in table : r.match}
      handlers == {r \in matching : r.handler}
      calls == ToSet(called)
  IN  /\ \A i, j \in DOMAIN called : i < j => called[i].priority >= called[j].priority
      /\ Cardinality(calls \cap handlers) <= 1
      /\ pc \in {"commit", "send"} /\ kind = "http" /\ ~worker_should_stop_handling =>
           /\ matching \ handlers \subseteq calls
           /\ \A h \in handlers : \E c \in calls \cap handlers : c.priority >= h.priority
============================================================================
