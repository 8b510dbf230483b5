-------------------------- MODULE OmniSessionProofs --------------------------
(***************************************************************************)
(* Proofs about what a session keeps for itself: the retries of             *)
(* OmniTxnRetry, the statement variables of OmniVarStatement and the        *)
(* transaction variables of OmniVarTxn (T and S are their instances in      *)
(* MCOmniVar).                                                             *)
(***************************************************************************)
EXTENDS MCOmniVar, OmniTxnRetry, SequenceTheorems, WellFoundedInduction, TLAPS

----------------------------------------------------------------------------
(* Retries                                                                 *)

RetryTypeOK ==
  /\ pc \in {"idle", "prepare", "attempt", "commit", "backoff"}
  /\ pc # "idle" => call.stmt \in Statements
  /\ call.max_attempts \in Nat /\ call.collect \in BOOLEAN
  /\ retry_attempts \in Nat /\ runs \in Nat
  /\ stmthash \in [Statements -> {"none", "entered", "planned"}]

\* Nothing is committed before the call returns, and what is to be committed was run,
\* unless there is no plan.
Effect ==
  /\ TakesEffectOnce
  /\ pc # "idle" => outcome = "none"
  /\ pc = "commit" /\ ~executed =>
       call.stmt \in Broken \/ (call.stmt \in Resetting /\ runs > 1)

\* A pause of this call
Pause(b) == b \in Nat /\ b >= 1 /\ (b < Cap \/ Cap = 1)

\* One pause was collected for each retry so far.
Collected ==
  call.collect =>
    /\ backoff_values \in Seq(Nat)
    /\ \A i \in DOMAIN backoff_values : Pause(backoff_values[i])
    /\ pc # "idle" =>
         Len(backoff_values) = retry_attempts /\ retry_attempts <= call.max_attempts
    /\ pc = "idle" /\ outcome \in {"done", "gave up"} =>
         Len(backoff_values) = MinOf(retry_attempts, call.max_attempts)

\* An entry without a plan is that of the statement that is being prepared, or of
\* one whose preparation may fail.
Plans ==
  /\ \A s \in Statements \ Broken : stmthash[s] = "entered" => pc = "prepare" /\ call.stmt = s
  /\ pc \in {"attempt", "commit", "backoff"} /\ call.stmt \notin Broken
       /\ (call.stmt \in Resetting => runs = 0)
     => stmthash[call.stmt] = "planned"

RetryInv == RetryTypeOK /\ Effect /\ Collected /\ Plans

\* The fields of a new call
LEMMA CallFields ==
  ASSUME NEW s, NEW m, NEW l, NEW c, call' = [stmt |-> s, max_attempts |-> m, linearize |-> l, collect |-> c]
  PROVE  call'.stmt = s /\ call'.max_attempts = m /\ call'.collect = c
  OBVIOUS

\* backoff_jitter: what is waited for is shorter than the cap.
LEMMA JitterBelowCap ==
  ASSUME NEW a \in Nat, NEW b \in backoff_jitter(a)
  PROVE  Pause(b)
<1>1. Cap \in Nat /\ Cap >= 1 /\ Base \in Nat
  BY ConstantsAssumption
<1>2. MinOf(a, 30) \in Nat
  BY DEF MinOf
<1>3. Base * 2^MinOf(a, 30) \in Int
  BY <1>1, <1>2
<1>4. get_backoff(a) \in Int /\ get_backoff(a) <= Cap
  BY <1>1, <1>3 DEF get_backoff, MinOf
<1> QED
  BY <1>1, <1>4 DEF backoff_jitter, Pause

\* The types are kept.
LEMMA RetryTypes == RetryTypeOK /\ [Next]_vars => RetryTypeOK'
<1> SUFFICES ASSUME RetryTypeOK, [Next]_vars PROVE RetryTypeOK'
  OBVIOUS
<1>1. NoPlans \in [Statements -> {"none", "entered", "planned"}]
  BY DEF NoPlans
<1>2. ASSUME NEW s \in Statements, NEW m \in MaxAttempts, NEW l, NEW c \in BOOLEAN, retry(s, m, l, c)
      PROVE  RetryTypeOK'
  <2>1. m \in Nat
    BY ConstantsAssumption
  <2>2. call'.stmt = s /\ call'.max_attempts = m /\ call'.collect = c
    BY <1>2, CallFields DEF retry
  <2> QED
    BY <1>2, <2>1, <2>2 DEF RetryTypeOK, retry
<1>3. CASE Step
  <2>1. CASE Prepare \/ PrepareFails
    BY <2>1 DEF RetryTypeOK, Prepare, PrepareFails, Fails
  <2>2. CASE Attempt \/ Commit
    BY <1>1, <2>2 DEF RetryTypeOK, Attempt, Commit
  <2>3. CASE SerializationFailure \/ Backoff \/ BackoffInterrupted
    BY <2>3 DEF RetryTypeOK, SerializationFailure, Backoff, BackoffInterrupted, Fails, Running, RunsNow
  <2>4. CASE GiveUp
    <3>1. /\ retry_attempts' = retry_attempts + 1 /\ runs' \in {runs, runs + 1} /\ pc' = "idle"
          /\ executed' = FALSE /\ UNCHANGED <<call, stmthash>>
      BY <2>4 DEF GiveUp, RunsNow, Fails
    <3> QED
      BY <3>1 DEF RetryTypeOK
  <2>5. CASE OtherError
    BY <2>5 DEF RetryTypeOK, OtherError, RunsNow, Fails
  <2> QED
    BY <1>3, <2>1, <2>2, <2>3, <2>4, <2>5 DEF Step
<1>4. CASE reset_retry_prepared_statements
  BY <1>1, <1>4 DEF RetryTypeOK, reset_retry_prepared_statements
<1>5. CASE UNCHANGED vars
  BY <1>5 DEF RetryTypeOK, vars
<1> QED
  BY <1>2, <1>3, <1>4, <1>5 DEF Next, Idle

\* Only the return of a call commits.
LEMMA RetryEffect == RetryTypeOK /\ Effect /\ Plans /\ [Next]_vars => Effect'
<1> SUFFICES ASSUME RetryTypeOK, Effect, Plans, [Next]_vars PROVE Effect'
  OBVIOUS
<1> USE DEF RetryTypeOK, Effect, TakesEffectOnce
<1>1. CASE Prepare \/ Backoff \/ SerializationFailure
  BY <1>1 DEF Prepare, Backoff, SerializationFailure, Running
<1>2. CASE Attempt
  <2>1. \/ executed' = TRUE
        \/ call.stmt \in Broken \/ (call.stmt \in Resetting /\ runs # 0)
    BY <1>2 DEF Attempt, Outcomes, Plans
  <2> QED
    BY <1>2, <2>1 DEF Attempt
<1>3. CASE Commit
  BY <1>3 DEF Commit, Effects
<1>4. ASSUME pc # "idle", NEW o, o # "done", Fails(o) PROVE Effect'
  BY <1>4 DEF Fails
<1>5. CASE PrepareFails \/ BackoffInterrupted \/ GiveUp \/ OtherError
  BY <1>4, <1>5 DEF PrepareFails, BackoffInterrupted, GiveUp, OtherError, Running
<1>6. CASE reset_retry_prepared_statements \/ UNCHANGED vars
  BY <1>6 DEF reset_retry_prepared_statements, vars
<1>7. ASSUME NEW s \in Statements, NEW m, NEW l, NEW c, retry(s, m, l, c)
      PROVE  Effect'
  BY <1>7 DEF retry
<1> QED
  BY <1>1, <1>2, <1>3, <1>5, <1>6, <1>7 DEF Next, Step, Idle

\* A pause is collected with every retry.
LEMMA RetryCollected == RetryTypeOK /\ Effect /\ Collected /\ [Next]_vars => Collected'
<1> SUFFICES ASSUME RetryTypeOK, Effect, Collected, [Next]_vars PROVE Collected'
  OBVIOUS
<1>1. ASSUME NEW s \in Statements, NEW m \in MaxAttempts, NEW l, NEW c \in BOOLEAN, retry(s, m, l, c)
      PROVE  Collected'
  <2>1. m \in Nat
    BY ConstantsAssumption
  <2>2. /\ call'.max_attempts = m /\ call'.collect = c /\ retry_attempts' = 0 /\ pc' # "idle"
        /\ backoff_values' = IF c THEN <<>> ELSE backoff_values
    BY <1>1, CallFields DEF retry
  <2>3. CASE c
    <3>1. backoff_values' = <<>> /\ retry_attempts' <= call'.max_attempts
      BY <2>1, <2>2, <2>3
    <3>2. backoff_values' \in Seq(Nat) /\ Len(backoff_values') = 0 /\ DOMAIN backoff_values' = {}
      BY <3>1, EmptySeq
    <3> QED
      BY <2>2, <3>1, <3>2 DEF Collected
  <2>4. CASE ~c
    BY <2>2, <2>4 DEF Collected
  <2> QED
    BY <2>3, <2>4
<1>2. CASE SerializationFailure
  <2>1. /\ pc # "idle" /\ pc' = "backoff" /\ call' = call
        /\ retry_attempts < call.max_attempts /\ retry_attempts' = retry_attempts + 1
    BY <1>2 DEF SerializationFailure, Running
  <2> SUFFICES ASSUME call.collect PROVE Collected'
    BY <2>1 DEF Collected
  <2>2. PICK b \in backoff_jitter(retry_attempts') : backoff_values' = Append(backoff_values, b)
    BY <1>2 DEF SerializationFailure
  <2>3. Pause(b)
    BY <2>1, JitterBelowCap DEF RetryTypeOK
  <2>4. /\ backoff_values \in Seq(Nat) /\ Len(backoff_values) = retry_attempts
        /\ \A i \in DOMAIN backoff_values : Pause(backoff_values[i])
    BY <2>1 DEF Collected
  <2>5. /\ backoff_values' \in Seq(Nat) /\ Len(backoff_values') = retry_attempts'
        /\ \A i \in DOMAIN backoff_values' :
             backoff_values'[i] = b \/ (i \in DOMAIN backoff_values /\ backoff_values'[i] = backoff_values[i])
    BY <2>1, <2>2, <2>3, <2>4 DEF Pause
  <2>6. \A i \in DOMAIN backoff_values' : Pause(backoff_values'[i])
    BY <2>3, <2>4, <2>5
  <2> QED
    <3>1. retry_attempts' <= call.max_attempts
      BY <2>1 DEF RetryTypeOK
    <3> QED
      BY <2>1, <2>5, <2>6, <3>1 DEF Collected
<1>3. CASE Prepare \/ PrepareFails \/ Attempt \/ Backoff \/ BackoffInterrupted \/ OtherError
  BY <1>3 DEF Collected, Effect, Prepare, PrepareFails, Attempt, Backoff, BackoffInterrupted,
              OtherError, Fails, Running
<1>4. CASE Commit \/ GiveUp
  <2>1. /\ pc # "idle" /\ pc' = "idle" /\ UNCHANGED <<call, backoff_values>>
        /\ \/ retry_attempts' = retry_attempts
           \/ retry_attempts' = retry_attempts + 1 /\ retry_attempts >= call.max_attempts
    BY <1>4 DEF Commit, GiveUp, Fails, Running
  <2>2. ASSUME call.collect
        PROVE  Len(backoff_values) = MinOf(retry_attempts', call.max_attempts)
    <3>1. Len(backoff_values) = retry_attempts /\ retry_attempts <= call.max_attempts
      BY <2>1, <2>2 DEF Collected
    <3>2. retry_attempts \in Nat /\ call.max_attempts \in Nat
      BY DEF RetryTypeOK
    <3> QED
      BY <2>1, <3>1, <3>2 DEF MinOf
  <2> QED
    BY <2>1, <2>2 DEF Collected
<1>5. CASE reset_retry_prepared_statements \/ UNCHANGED vars
  BY <1>5 DEF Collected, reset_retry_prepared_statements, vars
<1> QED
  BY <1>1, <1>2, <1>3, <1>4, <1>5 DEF Next, Step, Idle

\* No step leaves an entry without a plan behind but the failure to prepare.
LEMMA RetryPlans == RetryTypeOK /\ Plans /\ [Next]_vars => Plans'
<1> SUFFICES ASSUME RetryTypeOK, Plans, [Next]_vars PROVE Plans'
  OBVIOUS
<1>1. \A s \in Statements : NoPlans[s] = "none"
  BY DEF NoPlans
<1>2. ASSUME NEW s \in Statements, NEW m, NEW l, NEW c, retry(s, m, l, c)
      PROVE  Plans'
  <2>1. call'.stmt = s
    BY <1>2, CallFields DEF retry
  <2> QED
    BY <1>2, <2>1 DEF Plans, RetryTypeOK, retry
<1>3. CASE Prepare \/ PrepareFails
  BY <1>3 DEF Plans, RetryTypeOK, Prepare, PrepareFails, Fails
<1>4. CASE Attempt
  BY <1>1, <1>4 DEF Plans, RetryTypeOK, Attempt
<1>5. CASE Commit \/ Backoff \/ SerializationFailure
  BY <1>5 DEF Plans, RetryTypeOK, Commit, Backoff, SerializationFailure, Running, RunsNow
<1>6. CASE GiveUp \/ OtherError \/ BackoffInterrupted
  BY <1>6 DEF Plans, RetryTypeOK, GiveUp, OtherError, BackoffInterrupted, Fails, Running
<1>7. CASE reset_retry_prepared_statements
  BY <1>1, <1>7 DEF Plans, RetryTypeOK, reset_retry_prepared_statements
<1>8. CASE UNCHANGED vars
  BY <1>8 DEF Plans, vars
<1> QED
  BY <1>2, <1>3, <1>4, <1>5, <1>6, <1>7, <1>8 DEF Next, Step, Idle

\* RetryInv holds in every state of every sequence of calls.
THEOREM RetryIndInv == Spec => []RetryInv
<1>1. Init => RetryInv
  BY DEF Init, RetryInv, RetryTypeOK, Effect, TakesEffectOnce, Collected, Plans, NoPlans
<1>2. RetryInv /\ [Next]_vars => RetryInv'
  BY RetryTypes, RetryEffect, RetryCollected, RetryPlans DEF RetryInv
<1> QED
  BY <1>1, <1>2, PTL DEF Spec

\* A call of omni_txn.retry takes effect once if it succeeds with a plan and otherwise
\* not at all, whatever the number of attempts.
THEOREM RetryTakesEffectOnce == Spec => []TakesEffectOnce
<1>1. RetryInv => TakesEffectOnce
  BY DEF RetryInv, Effect
<1> QED
  BY <1>1, RetryIndInv, PTL

\* One pause below the cap is collected for each retry, for every number of
\* attempts, cap and base.
THEOREM RetryBackoffsOfCall == Spec => []BackoffsOfCall
<1>1. RetryInv => BackoffsOfCall
  BY DEF RetryInv, Effect, Collected, BackoffsOfCall, Pause
<1> QED
  BY <1>1, RetryIndInv, PTL

\* Statements that can be prepared have a plan when they run.
THEOREM RetryPlannedWhenRun == Spec => []PlannedWhenRun
<1>1. RetryInv => PlannedWhenRun
  BY DEF RetryInv, Plans, PlannedWhenRun
<1> QED
  BY <1>1, RetryIndInv, PTL

----------------------------------------------------------------------------
(* Statement variables                                                     *)

StatementTypeOK ==
  /\ now \in Nat \ {0}
  /\ creation_time \in [Portals -> Nat]
  /\ live \in SUBSET Portals
  /\ active \in Seq(Portals)
  /\ tabOwner \in Portals \union {S!NoPortal}
  /\ statement_tab \in [Names -> Values \union {NoValue}]
  /\ valueOwner \in [Names -> Portals \union {S!NoPortal}]
  /\ intended \in [Portals -> [Names -> Values \union {NoValue}]]

\* Portals that exist or are executed were created, those that are executed exist.
PortalsCreated ==
  /\ \A p \in live : creation_time[p] # 0
  /\ \A d \in DOMAIN active : active[d] \in live

\* The table carries the creation time of a portal that was created, and what is in
\* it was set by portals with that creation time, and is in their memory.
TableOfMessage ==
  tabOwner # S!NoPortal =>
    /\ last_portal = creation_time[tabOwner] /\ last_portal # 0
    /\ \A n \in Names : statement_tab[n] # NoValue =>
         /\ valueOwner[n] \in Portals /\ creation_time[valueOwner[n]] = last_portal
         /\ \E q \in Portals : creation_time[q] = last_portal /\ statement_tab[n] = intended[q][n]

StatementInv == StatementTypeOK /\ PortalsCreated /\ TableOfMessage

\* The portal that is executed exists and was created.
LEMMA ActivePortalCreated ==
  ASSUME StatementInv, active # <<>>
  PROVE  S!ActivePortal \in live /\ S!ActivePortal \in Portals /\ creation_time[S!ActivePortal] # 0
<1>1. active \in Seq(Portals)
  BY DEF StatementInv, StatementTypeOK
<1>2. Len(active) \in DOMAIN active
  BY <1>1
<1> QED
  BY <1>2 DEF StatementInv, StatementTypeOK, PortalsCreated, S!ActivePortal

\* What the server does with messages and portals keeps StatementInv.
LEMMA StatementServer ==
  ASSUME StatementInv,
         S!Message \/ S!Return
           \/ \E p \in Portals : S!CreatePortal(p) \/ S!Execute(p) \/ S!Drop(p)
  PROVE  StatementInv'
<1> USE DEF S!tab
<1>1. CASE S!Message
  BY <1>1 DEF S!Message, StatementInv, StatementTypeOK, PortalsCreated, TableOfMessage
<1>2. CASE S!Return
  <2>1. active \in Seq(Portals) /\ active # <<>> /\ active' = SubSeq(active, 1, Len(active) - 1)
    BY <1>2 DEF S!Return, StatementInv, StatementTypeOK
  <2>2. /\ active' \in Seq(Portals)
        /\ \A d \in DOMAIN active' : d \in DOMAIN active /\ active'[d] = active[d]
    BY <2>1
  <2> QED
    BY <1>2, <2>2 DEF S!Return, StatementInv, StatementTypeOK, PortalsCreated, TableOfMessage
<1>3. ASSUME NEW p \in Portals, S!CreatePortal(p) PROVE StatementInv'
  BY <1>3 DEF S!CreatePortal, StatementInv, StatementTypeOK, PortalsCreated, TableOfMessage
<1>4. ASSUME NEW p \in Portals, S!Execute(p) PROVE StatementInv'
  <2>1. active \in Seq(Portals) /\ active' = Append(active, p) /\ p \in live
    BY <1>4 DEF S!Execute, StatementInv, StatementTypeOK
  <2>2. /\ active' \in Seq(Portals)
        /\ \A d \in DOMAIN active' : active'[d] = p \/ (d \in DOMAIN active /\ active'[d] = active[d])
    BY <2>1
  <2> QED
    BY <1>4, <2>1, <2>2
       DEF S!Execute, StatementInv, StatementTypeOK, PortalsCreated, TableOfMessage
<1>5. ASSUME NEW p \in Portals, S!Drop(p) PROVE StatementInv'
  BY <1>5 DEF S!Drop, StatementInv, StatementTypeOK, PortalsCreated, TableOfMessage
<1> QED
  BY <1>1, <1>2, <1>3, <1>4, <1>5

\* set_statement() keeps StatementInv.
LEMMA StatementSet ==
  ASSUME StatementInv, NEW m \in Names, NEW v \in Values, NEW byval \in BOOLEAN,
         S!SetStatement(m, v, byval)
  PROVE  StatementInv'
<1> DEFINE a == S!ActivePortal
<1>1. a \in live /\ a \in Portals /\ creation_time[a] # 0
  BY ActivePortalCreated DEF S!SetStatement
<1>2. /\ UNCHANGED <<now, creation_time, live, active>>
      /\ intended' = [intended EXCEPT ![a][m] = v]
  BY DEF S!SetStatement, S!StoreValue
<1>3. S!NoPortal \notin Portals
  BY VarAssumption DEF S!NoPortal
<1>4. \A q \in Portals, n \in Names :
        intended'[q][n] = IF q = a /\ n = m THEN v ELSE intended[q][n]
  BY <1>1, <1>2 DEF StatementInv, StatementTypeOK
<1>5. intended' \in [Portals -> [Names -> Values \union {NoValue}]]
  BY <1>1, <1>2 DEF StatementInv, StatementTypeOK
<1>6. CASE S!Consulted
  <2>1. /\ statement_tab' = [statement_tab EXCEPT ![m] = v] /\ UNCHANGED <<tabOwner, last_portal>>
        /\ last_portal = creation_time[a] /\ tabOwner # S!NoPortal
    BY <1>6 DEF S!SetStatement, S!Consulted
  <2>2. /\ statement_tab' \in [Names -> Values \union {NoValue}]
        /\ \A n \in Names : statement_tab'[n] = IF n = m THEN v ELSE statement_tab[n]
    BY <2>1 DEF StatementInv, StatementTypeOK
  <2>3. PICK o \in {tabOwner, a} : valueOwner' = [valueOwner EXCEPT ![m] = o]
    BY <1>6, <2>1 DEF S!SetStatement, S!StoreValue
  <2>4. o \in Portals /\ creation_time[o] = last_portal
    BY <1>1, <2>1 DEF StatementInv, StatementTypeOK, TableOfMessage
  <2>5. /\ valueOwner' \in [Names -> Portals \union {S!NoPortal}]
        /\ \A n \in Names : valueOwner'[n] = IF n = m THEN o ELSE valueOwner[n]
    BY <2>3, <2>4 DEF StatementInv, StatementTypeOK
  <2>6. ASSUME NEW n \in Names, statement_tab'[n] # NoValue
        PROVE  /\ valueOwner'[n] \in Portals /\ creation_time[valueOwner'[n]] = last_portal
               /\ \E q \in Portals : creation_time[q] = last_portal /\ statement_tab'[n] = intended'[q][n]
    <3>1. CASE n = m
      BY <1>1, <1>4, <2>1, <2>2, <2>4, <2>5, <3>1
    <3>2. CASE n # m
      BY <1>4, <2>1, <2>2, <2>5, <2>6, <3>2 DEF StatementInv, TableOfMessage
    <3> QED
      BY <3>1, <3>2
  <2> QED
    BY <1>2, <1>5, <2>1, <2>2, <2>5, <2>6 DEF StatementInv, StatementTypeOK, PortalsCreated, TableOfMessage
<1>7. CASE ~S!Consulted
  <2>1. /\ statement_tab' = [S!EmptyTab EXCEPT ![m] = v]
        /\ tabOwner' = a /\ last_portal' = creation_time[a]
        /\ valueOwner' = [S!NoOwners EXCEPT ![m] = a]
    BY <1>7 DEF S!SetStatement, S!StoreValue
  <2>2. /\ statement_tab' \in [Names -> Values \union {NoValue}]
        /\ \A n \in Names : statement_tab'[n] = IF n = m THEN v ELSE NoValue
    BY <2>1 DEF S!EmptyTab
  <2>3. /\ valueOwner' \in [Names -> Portals \union {S!NoPortal}]
        /\ valueOwner'[m] = a
    BY <1>1, <2>1 DEF S!NoOwners
  <2> QED
    BY <1>1, <1>2, <1>4, <1>5, <2>1, <2>2, <2>3
       DEF StatementInv, StatementTypeOK, PortalsCreated, TableOfMessage
<1> QED
  BY <1>6, <1>7

\* StatementInv holds in every state of a session.
THEOREM StatementIndInv == S!Spec => []StatementInv
<1>1. S!Init => StatementInv
  BY DEF S!Init, StatementInv, StatementTypeOK, PortalsCreated, TableOfMessage, S!EmptyTab, S!NoOwners, S!NoPortal
<1>2. StatementInv /\ [S!Next]_S!vars => StatementInv'
  <2> SUFFICES ASSUME StatementInv, [S!Next]_S!vars PROVE StatementInv'
    OBVIOUS
  <2>1. CASE S!SetStatementDangling
    <3>1. UNCHANGED <<now, creation_time, intended>>
      BY <2>1 DEF S!SetStatementDangling
    <3>2. CASE /\ live' = {} /\ active' = <<>> /\ tabOwner' = S!NoPortal
               /\ statement_tab' = S!EmptyTab /\ valueOwner' = S!NoOwners
      BY <3>1, <3>2, EmptySeq
         DEF StatementInv, StatementTypeOK, PortalsCreated, TableOfMessage, S!EmptyTab, S!NoOwners
    <3>3. CASE UNCHANGED <<live, active, S!tab>>
      BY <3>1, <3>3 DEF StatementInv, StatementTypeOK, PortalsCreated, TableOfMessage, S!tab
    <3> QED
      BY <2>1, <3>2, <3>3 DEF S!SetStatementDangling
  <2>2. CASE UNCHANGED S!vars
    BY <2>2 DEF S!vars, S!tab, StatementInv, StatementTypeOK, PortalsCreated, TableOfMessage
  <2> QED
    BY <2>1, <2>2, StatementServer, StatementSet DEF S!Next, S!Done
<1> QED
  BY <1>1, <1>2, PTL DEF S!Spec

\* get_statement() finds only what was set for the same message, for any number of
\* portals and messages.
THEOREM StatementCarriedOnlyWithinMessage == S!Spec => []CarriedOnlyWithinMessage
<1>1. StatementInv => CarriedOnlyWithinMessage
  BY DEF StatementInv, TableOfMessage, CarriedOnlyWithinMessage, S!CarriedOnlyWithinMessage,
         S!GetStatement, S!Consulted
<1> QED
  BY <1>1, StatementIndInv, PTL

\* The only statement of a message uses a table of its own.
THEOREM StatementTableOfOwn == S!Spec => []TableOfOwnStatement
<1>1. StatementInv => TableOfOwnStatement
  BY DEF StatementInv, StatementTypeOK, TableOfMessage, TableOfOwnStatement, S!TableOfOwnStatement,
         S!Consulted
<1> QED
  BY <1>1, StatementIndInv, PTL

----------------------------------------------------------------------------
(* Transaction variables                                                   *)

Entry == [value : Values, subxactid : Nat]

\* Newer values have larger subtransaction ids.
Increasing(c) == \A j, k \in DOMAIN c : j < k => c[j].subxactid < c[k].subxactid

\* Max is the largest of a set of numbers that has an upper bound.
LEMMA MaxOfBounded ==
  ASSUME NEW K, 0 \in K, NEW b \in Nat, K \subseteq 0..b
  PROVE  T!Max(K) \in K /\ \A k \in K : T!Max(K) >= k
<1> DEFINE D == {b - k : k \in K}
<1>1. D \subseteq Nat /\ D # {}
  OBVIOUS
<1>2. PICK d \in D : \A e \in D : <<e, d>> \notin OpToRel(<, Nat)
  BY <1>1, NatLessThanWellFounded, WFMin
<1>3. \A e \in D : ~(e < d)
  BY <1>1, <1>2 DEF OpToRel
<1>4. PICK m \in K : d = b - m
  BY <1>2
<1>5. \A k \in K : m >= k
  BY <1>3, <1>4
<1> QED
  BY <1>4, <1>5 DEF T!Max

\* The walk of subtransaction_callback keeps the values that were set before the
\* subtransaction began, and no others.
LEMMA UnwoundKeeps ==
  ASSUME NEW c \in Seq(Entry), Increasing(c), NEW sub \in Nat
  PROVE  LET u == T!Unwound(c, sub)
         IN  /\ u \in Seq(Entry) /\ Increasing(u)
             /\ DOMAIN u \subseteq DOMAIN c
             /\ \A k \in DOMAIN u : u[k] = c[k]
             /\ \A k \in DOMAIN c : k \in DOMAIN u <=> c[k].subxactid < sub
<1> DEFINE K == {0} \union {k \in DOMAIN c : c[k].subxactid < sub}
           m == T!Max(K)
           u == SubSeq(c, 1, m)
<1>1. DOMAIN c = 1..Len(c) /\ Len(c) \in Nat /\ \A k \in DOMAIN c : c[k].subxactid \in Nat
  <2>1. \A e \in Entry : e.subxactid \in Nat
    BY DEF Entry
  <2>2. DOMAIN c = 1..Len(c) /\ Len(c) \in Nat /\ \A k \in DOMAIN c : c[k] \in Entry
    OBVIOUS
  <2> QED
    BY <2>1, <2>2
<1>2. m \in K /\ \A k \in K : m >= k
  <2>1. 0 \in K /\ K \subseteq 0..Len(c)
    BY <1>1
  <2> HIDE DEF K
  <2> QED
    BY <1>1, <2>1, MaxOfBounded
<1> HIDE DEF m
<1>3. m \in 0..Len(c)
  BY <1>1, <1>2
<1>4. /\ u \in Seq(Entry) /\ DOMAIN u = 1..m
      /\ \A k \in 1..m : u[k] = c[k]
  BY <1>1, <1>3
<1>5. \A k \in 1..Len(c) : k <= m <=> c[k].subxactid < sub
  <2> SUFFICES ASSUME NEW k \in 1..Len(c) PROVE k <= m <=> c[k].subxactid < sub
    OBVIOUS
  <2>1. c[k].subxactid < sub => k <= m
    BY <1>1, <1>2, <1>3
  <2>2. ASSUME k < m PROVE c[k].subxactid < sub
    <3>1. m \in DOMAIN c /\ c[m].subxactid < sub
      BY <1>1, <1>2, <1>3, <2>2
    <3>2. c[k].subxactid < c[m].subxactid
      BY <1>1, <2>2, <3>1 DEF Increasing
    <3> QED
      BY <1>1, <3>1, <3>2
  <2>3. k = m => c[k].subxactid < sub
    BY <1>2
  <2> QED
    BY <1>3, <2>1, <2>2, <2>3
<1>6. T!Unwound(c, sub) = u
  BY DEF T!Unwound, m
<1>7. Increasing(u)
  BY <1>1, <1>3, <1>4 DEF Increasing
<1> HIDE DEF u
<1>8. \A k \in DOMAIN c : k \in DOMAIN u <=> c[k].subxactid < sub
  BY <1>1, <1>3, <1>4, <1>5
<1> QED
  BY <1>1, <1>3, <1>4, <1>6, <1>7, <1>8

\* Subtransaction ids that were given out before the level above level i began
Below(s, i, id) == i = Len(s) \/ id < s[i + 1]

\* What a level finds in the chain c, the newest value set below the next one, is v;
\* it finds nothing only if v is no value or got lost.
Shows(s, i, c, v, lost) ==
  /\ \A k \in DOMAIN c :
       /\ Below(s, i, c[k].subxactid)
       /\ \A j \in DOMAIN c : j > k => ~Below(s, i, c[j].subxactid)
       => c[k].value = v
  /\ (\A k \in DOMAIN c : ~Below(s, i, c[k].subxactid)) => v = NoValue \/ lost

\* The chain c of a name n when the subtransactions s are active: every level, to which
\* an abort of the levels above goes back, finds the value it should see (sc), which
\* only names set repeatedly (r) lose; what was set at a level is known to be touched
\* (t).
ChainOK(s, ns, sc, t, r, c, n) ==
  /\ c \in Seq(Entry) /\ Increasing(c)
  /\ \A k \in DOMAIN c : c[k].subxactid <= ns
  /\ \A i \in DOMAIN s : Shows(s, i, c, sc[i][n], n \in r)
  /\ \A i \in DOMAIN s, k \in DOMAIN c :
       c[k].subxactid >= s[i] /\ Below(s, i, c[k].subxactid) => n \in t[i]

\* Levels of subtransactions have increasing ids.
Levels(s, ns, sc, t) ==
  /\ ns \in Nat /\ s \in Seq(Nat)
  /\ sc \in Seq([Names -> Values \union {NoValue}]) /\ Len(sc) = Len(s)
  /\ t \in Seq(SUBSET Names) /\ Len(t) = Len(s)
  /\ \A i, j \in DOMAIN s : i < j => s[i] < s[j]
  /\ \A i \in DOMAIN s : s[i] <= ns

\* The table is that of the running transaction, if this has an id; otherwise nothing
\* was set in it.
TxnOK ==
  /\ txnid \in Nat /\ lastTxn \in Nat /\ last_used_txnid \in Nat
  /\ last_used_txnid <= lastTxn
  /\ IF txnid = 0
     THEN \A i \in DOMAIN subs, n \in Names : scopes[i][n] = NoValue
     ELSE /\ last_used_txnid = txnid /\ subs # <<>>
          /\ subtransaction_callback_registered /\ ~tabFreed
          /\ DOMAIN current_tab = Names

ChainsOK ==
  txnid # 0 =>
    \A n \in Names : ChainOK(subs, nextSub, scopes, touched, repeated, current_tab[n], n)

TxnInv == Levels(subs, nextSub, scopes, touched) /\ TxnOK /\ ChainsOK

\* The fields of a value in a chain
LEMMA EntryOf ==
  ASSUME NEW c \in Seq(Entry)
  PROVE  /\ DOMAIN c = 1..Len(c) /\ Len(c) \in Nat
         /\ \A k \in DOMAIN c : c[k].subxactid \in Nat
<1>1. \A e \in Entry : e.subxactid \in Nat
  BY DEF Entry
<1>2. DOMAIN c = 1..Len(c) /\ Len(c) \in Nat /\ \A k \in DOMAIN c : c[k] \in Entry
  OBVIOUS
<1> QED
  BY <1>1, <1>2

\* Levels and their lengths
LEMMA LevelsOf ==
  ASSUME NEW s, NEW ns, NEW sc, NEW t, Levels(s, ns, sc, t)
  PROVE  /\ ns \in Nat /\ Len(s) \in Nat
         /\ DOMAIN s = 1..Len(s) /\ DOMAIN sc = 1..Len(s) /\ DOMAIN t = 1..Len(s)
         /\ \A i \in 1..Len(s) : /\ s[i] \in Nat /\ s[i] <= ns /\ t[i] \subseteq Names
                                 /\ sc[i] \in [Names -> Values \union {NoValue}]
         /\ \A i, j \in 1..Len(s) : i < j => s[i] < s[j]
<1>1. s \in Seq(Nat) /\ DOMAIN s = 1..Len(s) /\ Len(s) \in Nat /\ ns \in Nat
  BY DEF Levels
<1>2. \A i \in 1..Len(s) : s[i] \in Nat /\ s[i] <= ns
  BY <1>1 DEF Levels
<1>3. DOMAIN sc = 1..Len(s) /\ \A i \in 1..Len(s) : sc[i] \in [Names -> Values \union {NoValue}]
  <2>1. sc \in Seq([Names -> Values \union {NoValue}]) /\ Len(sc) = Len(s)
    BY DEF Levels
  <2> QED
    BY <2>1
<1>4. DOMAIN t = 1..Len(s) /\ \A i \in 1..Len(s) : t[i] \subseteq Names
  <2>1. t \in Seq(SUBSET Names) /\ Len(t) = Len(s)
    BY DEF Levels
  <2> QED
    BY <2>1
<1>5. \A i, j \in 1..Len(s) : i < j => s[i] < s[j]
  BY <1>1 DEF Levels
<1> QED
  BY <1>1, <1>2, <1>3, <1>4, <1>5

\* A level that looks at the same part of a chain as one did before, and should see
\* the same values, does so.
LEMMA SameView ==
  ASSUME NEW s, NEW h, NEW c, NEW v, NEW l, Shows(s, h, c, v, l),
         NEW s2, NEW i, NEW c2, DOMAIN c2 \subseteq DOMAIN c, \A k \in DOMAIN c2 : c2[k] = c[k],
         \A k \in DOMAIN c :
           Below(s, h, c[k].subxactid) <=> k \in DOMAIN c2 /\ Below(s2, i, c[k].subxactid)
  PROVE  Shows(s2, i, c2, v, l)
<1>1. ASSUME NEW k \in DOMAIN c2, Below(s2, i, c2[k].subxactid),
             \A j \in DOMAIN c2 : j > k => ~Below(s2, i, c2[j].subxactid)
      PROVE  c2[k].value = v
  <2>1. k \in DOMAIN c /\ Below(s, h, c[k].subxactid) /\ c2[k] = c[k]
    BY <1>1
  <2>2. \A j \in DOMAIN c : j > k => ~Below(s, h, c[j].subxactid)
    BY <1>1
  <2> QED
    BY <2>1, <2>2 DEF Shows
<1>2. ASSUME \A k \in DOMAIN c2 : ~Below(s2, i, c2[k].subxactid)
      PROVE  v = NoValue \/ l
  <2>1. \A k \in DOMAIN c : ~Below(s, h, c[k].subxactid)
    BY <1>2
  <2> QED
    BY <2>1, Zenon DEF Shows
<1> QED
  BY <1>1, <1>2, Zenon DEF Shows

\* A savepoint: the new level sees what the level below it sees.
LEMMA SavepointChain ==
  ASSUME NEW s, NEW ns, NEW sc, NEW t, Levels(s, ns, sc, t), s # <<>>,
         NEW r, NEW c, NEW n \in Names, ChainOK(s, ns, sc, t, r, c, n)
  PROVE  ChainOK(Append(s, ns + 1), ns + 1, Append(sc, T!Innermost(sc)), Append(t, {}), r, c, n)
<1> DEFINE s2 == Append(s, ns + 1)
           sc2 == Append(sc, T!Innermost(sc))
           t2 == Append(t, {})
           L == Len(s)
<1>1. /\ L \in Nat \ {0} /\ ns \in Nat /\ \A i \in 1..L : s[i] \in Nat
      /\ DOMAIN s = 1..L
  BY LevelsOf DEF Levels
<1>2. /\ Len(s2) = L + 1 /\ DOMAIN s2 = 1..L + 1 /\ s2[L + 1] = ns + 1
      /\ \A i \in 1..L : s2[i] = s[i] /\ sc2[i] = sc[i] /\ t2[i] = t[i]
      /\ sc2[L + 1] = sc[L]
  BY <1>1 DEF Levels, T!Innermost
<1> HIDE DEF s2, sc2, t2, L
<1>3. /\ c \in Seq(Entry) /\ Increasing(c)
      /\ \A k \in DOMAIN c : c[k].subxactid \in Nat /\ c[k].subxactid <= ns
  BY EntryOf DEF ChainOK
<1>4. ASSUME NEW i \in 1..L, NEW k \in DOMAIN c
      PROVE  Below(s2, i, c[k].subxactid) <=> Below(s, i, c[k].subxactid)
  <2>1. CASE i = L
    <3>1. L # L + 1 /\ c[k].subxactid < ns + 1
      BY <1>1, <1>3
    <3> QED
      BY <1>2, <2>1, <3>1 DEF Below, L
  <2>2. CASE i # L
    <3>1. i + 1 \in 1..L /\ i # L + 1
      BY <1>1, <2>2
    <3> QED
      BY <1>2, <2>2, <3>1 DEF Below, L
  <2> QED
    BY <2>1, <2>2
<1>5. \A k \in DOMAIN c : Below(s2, L + 1, c[k].subxactid) /\ Below(s, L, c[k].subxactid)
  BY <1>1, <1>2 DEF Below, L
<1>6. \A i \in 1..L + 1 : i \in 1..L \/ i = L + 1
  BY <1>1
<1>7. ASSUME NEW i \in 1..L + 1
      PROVE  Shows(s2, i, c, sc2[i][n], n \in r)
  <2> DEFINE h == IF i = L + 1 THEN L ELSE i
  <2>1. h \in DOMAIN s /\ sc2[i] = sc[h]
    BY <1>1, <1>2, <1>6
  <2>2. \A k \in DOMAIN c :
          Below(s, h, c[k].subxactid) <=> k \in DOMAIN c /\ Below(s2, i, c[k].subxactid)
    BY <1>4, <1>5, <1>6
  <2> HIDE DEF h
  <2>3. Shows(s, h, c, sc[h][n], n \in r)
    BY <2>1 DEF ChainOK
  <2>4. Shows(s2, i, c, sc[h][n], n \in r)
    BY <2>2, <2>3, SameView
  <2> QED
    BY <2>1, <2>4
<1>8. ASSUME NEW i \in 1..L + 1, NEW k \in DOMAIN c, c[k].subxactid >= s2[i],
             Below(s2, i, c[k].subxactid)
      PROVE  n \in t2[i]
  <2>1. i \in 1..L
    BY <1>1, <1>2, <1>3, <1>6, <1>8
  <2> QED
    BY <1>1, <1>2, <1>4, <1>8, <2>1 DEF ChainOK
<1>9. \A k \in DOMAIN c : c[k].subxactid <= ns + 1
  BY <1>1, <1>3
<1>10. ChainOK(s2, ns + 1, sc2, t2, r, c, n)
  BY <1>2, <1>3, <1>7, <1>8, <1>9 DEF ChainOK
<1> QED
  BY <1>10 DEF s2, sc2, t2

\* The release of a savepoint: the level below sees what was seen in it.
LEMMA ReleaseChain ==
  ASSUME NEW s, NEW ns, NEW sc, NEW t, Levels(s, ns, sc, t), Len(s) > 1,
         NEW r, NEW c, NEW n \in Names, ChainOK(s, ns, sc, t, r, c, n),
         NEW s2, s2 = T!Outer(s),
         NEW sc2, sc2 = [T!Outer(sc) EXCEPT ![Len(sc) - 1] = T!Innermost(sc)],
         NEW t2, t2 = [T!Outer(t) EXCEPT ![Len(t) - 1] = @ \cup T!Innermost(t)]
  PROVE  ChainOK(s2, ns, sc2, t2, r, c, n)
<1> DEFINE L == Len(s)
<1>1. /\ L \in Nat /\ L > 1 /\ DOMAIN s = 1..L /\ ns \in Nat
      /\ \A i \in 1..L : s[i] \in Nat
  BY LevelsOf
<1> HIDE DEF L
<1>2. /\ Len(s2) = L - 1 /\ DOMAIN s2 = 1..L - 1
      /\ \A i \in 1..L - 1 : s2[i] = s[i]
  BY <1>1 DEF Levels, T!Outer, L
<1>3. /\ \A i \in 1..L - 2 : sc2[i] = sc[i]
      /\ sc2[L - 1] = sc[L]
  <2>1. sc \in Seq([Names -> Values \union {NoValue}]) /\ Len(sc) = L
    BY DEF Levels, L
  <2>2. DOMAIN T!Outer(sc) = 1..L - 1 /\ \A i \in 1..L - 1 : T!Outer(sc)[i] = sc[i]
    BY <1>1, <2>1 DEF T!Outer
  <2>3. L - 1 \in 1..L - 1 /\ \A i \in 1..L - 2 : i \in 1..L - 1 /\ i # L - 1
    BY <1>1
  <2> QED
    BY <2>1, <2>2, <2>3 DEF T!Innermost
<1>4. /\ \A i \in 1..L - 2 : t2[i] = t[i]
      /\ t2[L - 1] = t[L - 1] \union t[L]
  <2>1. t \in Seq(SUBSET Names) /\ Len(t) = L
    BY DEF Levels, L
  <2>2. DOMAIN T!Outer(t) = 1..L - 1 /\ \A i \in 1..L - 1 : T!Outer(t)[i] = t[i]
    BY <1>1, <2>1 DEF T!Outer
  <2>3. L - 1 \in 1..L - 1 /\ \A i \in 1..L - 2 : i \in 1..L - 1 /\ i # L - 1
    BY <1>1
  <2> QED
    BY <2>1, <2>2, <2>3 DEF T!Innermost
<1>5. /\ c \in Seq(Entry) /\ Increasing(c)
      /\ \A k \in DOMAIN c : c[k].subxactid \in Nat /\ c[k].subxactid <= ns
  BY EntryOf DEF ChainOK
<1>6. \A id : Below(s2, L - 1, id) /\ Below(s, L, id)
  BY <1>2 DEF Below, L
<1>7. ASSUME NEW i \in 1..L - 2, NEW id PROVE Below(s2, i, id) <=> Below(s, i, id)
  <2>1. i + 1 \in 1..L - 1 /\ i # L - 1 /\ i # L
    BY <1>1
  <2> QED
    BY <1>2, <2>1 DEF Below, L
<1>8. \A i \in 1..L - 1 : i \in 1..L - 2 \/ i = L - 1
  BY <1>1
<1>9. ASSUME NEW i \in 1..L - 1
      PROVE  Shows(s2, i, c, sc2[i][n], n \in r)
  <2> DEFINE h == IF i = L - 1 THEN L ELSE i
  <2>1. h \in DOMAIN s /\ sc2[i] = sc[h]
    BY <1>1, <1>3, <1>8
  <2>2. \A k \in DOMAIN c :
          Below(s, h, c[k].subxactid) <=> k \in DOMAIN c /\ Below(s2, i, c[k].subxactid)
    BY <1>6, <1>7, <1>8
  <2> HIDE DEF h
  <2>3. Shows(s, h, c, sc[h][n], n \in r)
    BY <2>1 DEF ChainOK
  <2>4. Shows(s2, i, c, sc[h][n], n \in r)
    BY <2>2, <2>3, SameView
  <2> QED
    BY <2>1, <2>4
<1>10. ASSUME NEW i \in 1..L - 1, NEW k \in DOMAIN c, c[k].subxactid >= s2[i],
              Below(s2, i, c[k].subxactid)
       PROVE  n \in t2[i]
  <2>1. \A h \in 1..L : c[k].subxactid >= s[h] /\ Below(s, h, c[k].subxactid) => n \in t[h]
    BY <1>1 DEF ChainOK
  <2>2. CASE i = L - 1
    <3>1. c[k].subxactid >= s[L] \/ c[k].subxactid < s[L]
      BY <1>1, <1>5
    <3>2. L - 1 \in 1..L /\ L \in 1..L /\ (L - 1) + 1 = L
      BY <1>1
    <3>3. CASE c[k].subxactid >= s[L]
      BY <1>4, <1>6, <2>1, <2>2, <3>2, <3>3
    <3>4. CASE c[k].subxactid < s[L]
      <4>1. Below(s, L - 1, c[k].subxactid)
        BY <3>2, <3>4 DEF Below
      <4> QED
        BY <1>2, <1>4, <1>10, <2>1, <2>2, <3>2, <4>1
    <3> QED
      BY <3>1, <3>3, <3>4
  <2>3. CASE i \in 1..L - 2
    <3>1. i \in 1..L
      BY <1>1
    <3> QED
      BY <1>2, <1>4, <1>7, <1>10, <2>1, <2>3, <3>1
  <2> QED
    BY <1>8, <2>2, <2>3
<1> QED
  BY <1>2, <1>5, <1>9, <1>10 DEF ChainOK

\* The abort of a savepoint: the callback brings back what the level below sees.
LEMMA AbortChain ==
  ASSUME NEW s, NEW ns, NEW sc, NEW t, Levels(s, ns, sc, t), Len(s) > 1,
         NEW r, NEW c, NEW n \in Names, ChainOK(s, ns, sc, t, r, c, n)
  PROVE  ChainOK(T!Outer(s), ns, T!Outer(sc), T!Outer(t), r, T!Unwound(c, T!Innermost(s)), n)
<1> DEFINE L == Len(s)
           s2 == T!Outer(s)
           sc2 == T!Outer(sc)
           t2 == T!Outer(t)
           c2 == T!Unwound(c, T!Innermost(s))
<1>1. /\ L \in Nat /\ L > 1 /\ DOMAIN s = 1..L /\ ns \in Nat
      /\ \A i \in 1..L : s[i] \in Nat
      /\ \A i, j \in 1..L : i < j => s[i] < s[j]
  BY LevelsOf
<1> HIDE DEF L
<1>2. /\ Len(s2) = L - 1 /\ DOMAIN s2 = 1..L - 1
      /\ \A i \in 1..L - 1 : s2[i] = s[i] /\ sc2[i] = sc[i] /\ t2[i] = t[i]
  BY <1>1 DEF Levels, T!Outer, L
<1>3. /\ c \in Seq(Entry) /\ Increasing(c)
      /\ \A k \in DOMAIN c : c[k].subxactid \in Nat /\ c[k].subxactid <= ns
  BY EntryOf DEF ChainOK
<1>4. T!Innermost(s) = s[L] /\ s[L] \in Nat
  BY <1>1 DEF T!Innermost, L
<1>5. /\ c2 \in Seq(Entry) /\ Increasing(c2) /\ DOMAIN c2 \subseteq DOMAIN c
      /\ \A k \in DOMAIN c2 : c2[k] = c[k]
      /\ \A k \in DOMAIN c : k \in DOMAIN c2 <=> c[k].subxactid < s[L]
  BY <1>3, <1>4, UnwoundKeeps
<1> HIDE DEF s2, sc2, t2, c2
<1>6. ASSUME NEW i \in 1..L - 1, NEW k \in DOMAIN c
      PROVE  Below(s, i, c[k].subxactid) <=> k \in DOMAIN c2 /\ Below(s2, i, c[k].subxactid)
  <2>1. i + 1 \in 1..L /\ i # L /\ s[i + 1] \in Nat
    BY <1>1
  <2>2. Below(s, i, c[k].subxactid) <=> c[k].subxactid < s[i + 1]
    BY <2>1 DEF Below, L
  <2>3. CASE i = L - 1
    <3>1. i + 1 = L
      BY <1>1, <2>3
    <3> QED
      BY <1>2, <1>5, <2>2, <2>3, <3>1 DEF Below
  <2>4. CASE i # L - 1
    <3>1. i + 1 \in 1..L - 1 /\ i + 1 < L
      BY <1>1, <2>4
    <3>2. s[i + 1] < s[L] /\ s2[i + 1] = s[i + 1]
      BY <1>1, <1>2, <3>1
    <3>3. c[k].subxactid < s[i + 1] => c[k].subxactid < s[L]
      BY <1>3, <1>4, <2>1, <3>2
    <3> QED
      BY <1>2, <1>5, <2>2, <2>4, <3>2, <3>3 DEF Below
  <2> QED
    BY <2>3, <2>4
<1>7. ASSUME NEW i \in 1..L - 1 PROVE Shows(s2, i, c2, sc2[i][n], n \in r)
  <2>1. i \in DOMAIN s
    BY <1>1
  <2>2. Shows(s, i, c, sc[i][n], n \in r)
    BY <2>1 DEF ChainOK
  <2>3. Shows(s2, i, c2, sc[i][n], n \in r)
    BY <1>5, <1>6, <2>2, SameView
  <2> QED
    BY <1>2, <2>3
<1>8. ASSUME NEW i \in 1..L - 1, NEW k \in DOMAIN c2, c2[k].subxactid >= s2[i],
             Below(s2, i, c2[k].subxactid)
      PROVE  n \in t2[i]
  <2>1. k \in DOMAIN c /\ c2[k] = c[k] /\ i \in DOMAIN s
    BY <1>1, <1>5
  <2>2. c[k].subxactid >= s[i] /\ Below(s, i, c[k].subxactid)
    BY <1>2, <1>6, <1>8, <2>1
  <2> QED
    BY <1>2, <2>1, <2>2 DEF ChainOK
<1>9. \A k \in DOMAIN c2 : c2[k].subxactid <= ns
  BY <1>3, <1>5
<1>10. ChainOK(s2, ns, sc2, t2, r, c2, n)
  BY <1>2, <1>5, <1>7, <1>8, <1>9 DEF ChainOK
<1> QED
  BY <1>10 DEF s2, sc2, t2, c2

\* A value is set at the innermost level: the levels below it see what they saw,
\* unless the name was set before at this level.
LEMMA PushChain ==
  ASSUME NEW s, NEW ns, NEW sc, NEW t, Levels(s, ns, sc, t), s # <<>>,
         NEW r, NEW c, NEW n \in Names, ChainOK(s, ns, sc, t, r, c, n), NEW v \in Values,
         NEW sc2, sc2 = [sc EXCEPT ![Len(sc)][n] = v],
         NEW t2, t2 = [t EXCEPT ![Len(t)] = @ \cup {n}],
         NEW r2, r2 = IF n \in T!Innermost(t) THEN r \cup {n} ELSE r
  PROVE  ChainOK(s, ns, sc2, t2, r2, T!Pushed(c, v, T!Innermost(s)), n)
<1> DEFINE L == Len(s)
           K == Len(c)
           e == [value |-> v, subxactid |-> s[L]]
           c2 == T!Pushed(c, v, T!Innermost(s))
<1>1. /\ L \in Nat \ {0} /\ DOMAIN s = 1..L /\ ns \in Nat
      /\ \A i \in 1..L : s[i] \in Nat /\ s[i] <= ns
      /\ \A i, j \in 1..L : i < j => s[i] < s[j]
      /\ DOMAIN sc = 1..L /\ DOMAIN t = 1..L
      /\ \A i \in 1..L : sc[i] \in [Names -> Values \union {NoValue}]
  <2>1. L # 0
    BY DEF Levels
  <2> QED
    BY <2>1, LevelsOf
<1>2. Len(sc) = L /\ Len(t) = L
  BY DEF Levels
<1> HIDE DEF L
<1>3. L \in 1..L /\ s[L] \in Nat /\ s[L] <= ns
  BY <1>1
<1>4. /\ sc2[L][n] = v /\ \A i \in 1..L : i # L => sc2[i] = sc[i]
      /\ n \in t2[L] /\ \A i \in 1..L : t[i] \subseteq t2[i]
  BY <1>1, <1>2, <1>3
<1>5. /\ c \in Seq(Entry) /\ Increasing(c) /\ DOMAIN c = 1..K /\ K \in Nat
      /\ \A k \in DOMAIN c : c[k].subxactid \in Nat /\ c[k].subxactid <= ns
  BY EntryOf DEF ChainOK
<1>6. e \in Entry /\ e.value = v /\ e.subxactid = s[L]
  BY <1>3 DEF Entry
<1>7. /\ T!Innermost(s) = s[L] /\ (c # <<>> => T!Innermost(c) = c[K])
      /\ r \subseteq r2 /\ (n \in t[L] => n \in r2)
  BY <1>2 DEF T!Innermost, L
<1>8. ASSUME NEW i \in 1..L, i # L PROVE ~Below(s, i, s[L])
  <2>1. i + 1 \in 1..L /\ s[i + 1] \in Nat /\ ~(s[L] < s[i + 1])
    <3>1. i + 1 \in 1..L /\ (i + 1 = L \/ i + 1 < L)
      BY <1>1, <1>8
    <3>2. s[i + 1] \in Nat /\ (i + 1 < L => s[i + 1] < s[L])
      BY <1>1, <1>3, <3>1
    <3> QED
      BY <1>3, <3>1, <3>2
  <2> QED
    BY <1>8, <2>1 DEF Below, L
<1>9. \A id : Below(s, L, id)
  BY DEF Below, L
<1> HIDE DEF K, e
<1>10. CASE c # <<>> /\ c[K].subxactid < s[L]
  <2>1. c2 = Append(c, e)
    BY <1>7, <1>10 DEF T!Pushed, e, L
  <2>2. /\ c2 \in Seq(Entry) /\ DOMAIN c2 = 1..K + 1 /\ c2[K + 1] = e
        /\ \A k \in 1..K : c2[k] = c[k]
    BY <1>5, <1>6, <2>1 DEF K
  <2> HIDE DEF c2
  <2>3. /\ \A k \in 1..K + 1 : k \in 1..K \/ k = K + 1
        /\ K + 1 \in 1..K + 1 /\ \A k \in 1..K : k \in 1..K + 1 /\ K + 1 > k
    BY <1>5
  <2>4. \A k \in 1..K : c[k].subxactid < s[L]
    <3> SUFFICES ASSUME NEW k \in 1..K PROVE c[k].subxactid < s[L]
      OBVIOUS
    <3>1. k = K \/ k < K
      BY <1>5
    <3>2. K \in 1..K /\ c[K].subxactid \in Nat /\ c[k].subxactid \in Nat
      BY <1>5
    <3>3. k < K => c[k].subxactid < c[K].subxactid
      BY <1>5, <3>2 DEF Increasing
    <3> QED
      BY <1>3, <1>10, <3>1, <3>2, <3>3
  <2>5. Increasing(c2) /\ \A k \in 1..K + 1 : c2[k].subxactid <= ns
    <3>1. \A k \in 1..K + 1 : c2[k].subxactid <= ns
      BY <1>3, <1>5, <1>6, <2>2, <2>3
    <3>2. ASSUME NEW j \in 1..K + 1, NEW k \in 1..K + 1, j < k
          PROVE  c2[j].subxactid < c2[k].subxactid
      <4>1. j \in 1..K /\ (k \in 1..K \/ k = K + 1)
        <5>1. K \in Nat
          BY <1>5
        <5> QED
          BY <3>2, <5>1
      <4> QED
        BY <1>5, <1>6, <2>2, <2>4, <3>2, <4>1 DEF Increasing
    <3> QED
      BY <2>2, <3>1, <3>2 DEF Increasing
  <2>6. ASSUME NEW i \in 1..L PROVE Shows(s, i, c2, sc2[i][n], n \in r2)
    <3>1. CASE i = L
      BY <1>4, <1>6, <1>9, <2>2, <2>3, <3>1 DEF Shows
    <3>2. CASE i # L
      <4>1. Shows(s, i, c, sc[i][n], n \in r) /\ sc2[i] = sc[i]
        BY <1>1, <1>4, <3>2 DEF ChainOK
      <4>2. ~Below(s, i, c2[K + 1].subxactid)
        BY <1>6, <1>8, <2>2, <3>2
      <4>3. ASSUME NEW k \in 1..K + 1, Below(s, i, c2[k].subxactid),
                   \A j \in 1..K + 1 : j > k => ~Below(s, i, c2[j].subxactid)
            PROVE  c2[k].value = sc[i][n]
        <5>1. k \in 1..K /\ c2[k] = c[k]
          BY <2>2, <2>3, <4>2, <4>3
        <5>2. \A j \in 1..K : j > k => ~Below(s, i, c[j].subxactid)
          BY <2>2, <2>3, <4>3
        <5> QED
          BY <1>5, <4>1, <4>3, <5>1, <5>2 DEF Shows
      <4>4. ASSUME \A k \in 1..K + 1 : ~Below(s, i, c2[k].subxactid)
            PROVE  sc[i][n] = NoValue \/ n \in r2
        <5>1. \A k \in DOMAIN c : ~Below(s, i, c[k].subxactid)
          BY <1>5, <2>2, <2>3, <4>4
        <5>2. sc[i][n] = NoValue \/ n \in r
          BY <4>1, <5>1, Zenon DEF Shows
        <5> QED
          BY <1>7, <5>2
      <4> QED
        BY <2>2, <4>1, <4>3, <4>4 DEF Shows
    <3> QED
      BY <3>1, <3>2
  <2>7. ASSUME NEW i \in 1..L, NEW k \in 1..K + 1, c2[k].subxactid >= s[i],
               Below(s, i, c2[k].subxactid)
        PROVE  n \in t2[i]
    <3>1. CASE k = K + 1
      BY <1>4, <1>6, <1>8, <2>2, <2>7, <3>1
    <3>2. CASE k \in 1..K
      BY <1>1, <1>4, <1>5, <2>2, <2>7, <3>2 DEF ChainOK
    <3> QED
      BY <2>3, <3>1, <3>2
  <2>8. ChainOK(s, ns, sc2, t2, r2, c2, n)
    BY <1>1, <2>2, <2>5, <2>6, <2>7 DEF ChainOK
  <2> QED
    BY <2>8 DEF c2
<1>11. CASE ~(c # <<>> /\ c[K].subxactid < s[L])
  <2>1. c2 = <<e>>
    BY <1>7, <1>11 DEF T!Pushed, e, L
  <2>2. /\ c2 \in Seq(Entry) /\ DOMAIN c2 = {1} /\ c2[1] = e
    BY <1>6, <2>1
  <2> HIDE DEF c2
  <2>3. c = <<>> \/ n \in r2
    <3> SUFFICES ASSUME c # <<>> PROVE n \in r2
      OBVIOUS
    <3>1. K \in DOMAIN c /\ c[K].subxactid \in Nat
      BY <1>5 DEF K
    <3>2. c[K].subxactid >= s[L]
      BY <1>3, <1>11, <3>1
    <3>3. n \in t[L]
      BY <1>1, <1>3, <1>9, <3>1, <3>2 DEF ChainOK
    <3> QED
      BY <1>7, <3>3
  <2>4. ASSUME NEW i \in 1..L PROVE Shows(s, i, c2, sc2[i][n], n \in r2)
    <3>1. CASE i = L
      BY <1>4, <1>6, <1>9, <2>2, <3>1 DEF Shows
    <3>2. CASE i # L
      <4>1. Shows(s, i, c, sc[i][n], n \in r) /\ sc2[i] = sc[i]
        BY <1>1, <1>4, <3>2 DEF ChainOK
      <4>2. ~Below(s, i, c2[1].subxactid)
        BY <1>6, <1>8, <2>2, <3>2
      <4>3. sc[i][n] = NoValue \/ n \in r2
        <5>1. CASE c = <<>>
          <6>1. DOMAIN c = {}
            BY <5>1
          <6>2. sc[i][n] = NoValue \/ n \in r
            BY <4>1, <6>1, Zenon DEF Shows
          <6> QED
            BY <1>7, <6>2
        <5> QED
          BY <2>3, <5>1
      <4> QED
        BY <2>2, <4>1, <4>2, <4>3 DEF Shows
    <3> QED
      BY <3>1, <3>2
  <2>5. ASSUME NEW i \in 1..L, Below(s, i, c2[1].subxactid) PROVE n \in t2[i]
    BY <1>4, <1>6, <1>8, <2>2, <2>5
  <2>6. Increasing(c2) /\ c2[1].subxactid <= ns
    BY <1>3, <1>6, <2>2 DEF Increasing
  <2>7. ChainOK(s, ns, sc2, t2, r2, c2, n)
    BY <1>1, <2>2, <2>4, <2>5, <2>6 DEF ChainOK
  <2> QED
    BY <2>7 DEF c2
<1> QED
  BY <1>10, <1>11

\* Another name is set: the chain of n shows what it did.
LEMMA OtherChain ==
  ASSUME NEW s, NEW ns, NEW sc, NEW t, Levels(s, ns, sc, t), s # <<>>,
         NEW r, NEW c, NEW n \in Names, ChainOK(s, ns, sc, t, r, c, n),
         NEW m \in Names, m # n, NEW v \in Values,
         NEW sc2, sc2 = [sc EXCEPT ![Len(sc)][m] = v],
         NEW t2, t2 = [t EXCEPT ![Len(t)] = @ \cup {m}],
         NEW r2, r2 = IF m \in T!Innermost(t) THEN r \cup {m} ELSE r
  PROVE  ChainOK(s, ns, sc2, t2, r2, c, n)
<1>1. /\ DOMAIN s = 1..Len(s) /\ DOMAIN sc = 1..Len(s) /\ DOMAIN t = 1..Len(s)
      /\ \A i \in 1..Len(s) : sc[i] \in [Names -> Values \union {NoValue}]
  BY LevelsOf
<1>2. \A i \in DOMAIN s : sc2[i][n] = sc[i][n] /\ t[i] \subseteq t2[i]
  BY <1>1
<1>3. n \in r2 <=> n \in r
  OBVIOUS
<1>4. ASSUME NEW i \in DOMAIN s PROVE Shows(s, i, c, sc2[i][n], n \in r2)
  <2>1. Shows(s, i, c, sc[i][n], n \in r)
    BY DEF ChainOK
  <2> QED
    BY <1>2, <1>3, <2>1 DEF Shows
<1> QED
  BY <1>2, <1>4 DEF ChainOK

\* A new table shows nothing, which is right as long as nothing should be seen.
LEMMA FreshChain ==
  ASSUME NEW s, NEW ns, NEW sc, NEW t, NEW r, NEW n,
         \A i \in DOMAIN s : sc[i][n] = NoValue
  PROVE  ChainOK(s, ns, sc, t, r, <<>>, n)
<1>1. <<>> \in Seq(Entry) /\ DOMAIN <<>> = {}
  OBVIOUS
<1> QED
  BY <1>1 DEF ChainOK, Shows, Increasing

\* Levels are kept when one is added,
LEMMA SavepointLevels ==
  ASSUME NEW s, NEW ns, NEW sc, NEW t, Levels(s, ns, sc, t), s # <<>>
  PROVE  Levels(Append(s, ns + 1), ns + 1, Append(sc, T!Innermost(sc)), Append(t, {}))
<1> DEFINE L == Len(s)
           s2 == Append(s, ns + 1)
<1>1. /\ ns \in Nat /\ L \in Nat /\ DOMAIN s = 1..L /\ s \in Seq(Nat)
      /\ \A i \in 1..L : s[i] \in Nat /\ s[i] <= ns
      /\ \A i, j \in 1..L : i < j => s[i] < s[j]
  BY LevelsOf DEF Levels
<1>2. /\ s2 \in Seq(Nat) /\ Len(s2) = L + 1 /\ DOMAIN s2 = 1..L + 1 /\ s2[L + 1] = ns + 1
      /\ \A i \in 1..L : s2[i] = s[i]
  BY <1>1
<1>3. /\ Append(sc, T!Innermost(sc)) \in Seq([Names -> Values \union {NoValue}])
      /\ Len(Append(sc, T!Innermost(sc))) = L + 1
  <2>1. sc \in Seq([Names -> Values \union {NoValue}]) /\ Len(sc) = L /\ L > 0
    BY DEF Levels
  <2> QED
    BY <2>1 DEF T!Innermost
<1>4. Append(t, {}) \in Seq(SUBSET Names) /\ Len(Append(t, {})) = L + 1
  <2>1. t \in Seq(SUBSET Names) /\ Len(t) = L
    BY DEF Levels
  <2> QED
    BY <2>1
<1> HIDE DEF s2, L
<1>5. \A i \in 1..L + 1 : i \in 1..L \/ i = L + 1
  BY <1>1
<1>6. \A i \in 1..L + 1 : s2[i] <= ns + 1
  BY <1>1, <1>2, <1>5
<1>7. ASSUME NEW i \in 1..L + 1, NEW j \in 1..L + 1, i < j PROVE s2[i] < s2[j]
  <2>1. i \in 1..L
    BY <1>1, <1>7
  <2>2. CASE j \in 1..L
    BY <1>1, <1>2, <1>7, <2>1, <2>2
  <2>3. CASE j = L + 1
    <3>1. s2[i] = s[i] /\ s2[j] = ns + 1 /\ s[i] \in Nat /\ s[i] <= ns
      BY <1>1, <1>2, <2>1, <2>3
    <3> QED
      BY <1>1, <3>1
  <2> QED
    BY <1>5, <2>2, <2>3
<1>8. Levels(s2, ns + 1, Append(sc, T!Innermost(sc)), Append(t, {}))
  BY <1>1, <1>2, <1>3, <1>4, <1>6, <1>7 DEF Levels
<1> QED
  BY <1>8 DEF s2

\* removed,
LEMMA OuterLevels ==
  ASSUME NEW s, NEW ns, NEW sc, NEW t, Levels(s, ns, sc, t), Len(s) > 1
  PROVE  Levels(T!Outer(s), ns, T!Outer(sc), T!Outer(t))
<1> DEFINE L == Len(s)
           s2 == T!Outer(s)
<1>1. /\ ns \in Nat /\ L \in Nat /\ DOMAIN s = 1..L /\ s \in Seq(Nat) /\ L > 1
      /\ \A i \in 1..L : s[i] <= ns
      /\ \A i, j \in 1..L : i < j => s[i] < s[j]
  BY LevelsOf DEF Levels
<1>2. /\ s2 \in Seq(Nat) /\ Len(s2) = L - 1 /\ DOMAIN s2 = 1..L - 1
      /\ \A i \in 1..L - 1 : s2[i] = s[i] /\ i \in 1..L
  BY <1>1 DEF T!Outer
<1>3. /\ T!Outer(sc) \in Seq([Names -> Values \union {NoValue}])
      /\ Len(T!Outer(sc)) = L - 1
  <2>1. sc \in Seq([Names -> Values \union {NoValue}]) /\ Len(sc) = L
    BY DEF Levels
  <2> QED
    BY <1>1, <2>1 DEF T!Outer
<1>4. T!Outer(t) \in Seq(SUBSET Names) /\ Len(T!Outer(t)) = L - 1
  <2>1. t \in Seq(SUBSET Names) /\ Len(t) = L
    BY DEF Levels
  <2> QED
    BY <1>1, <2>1 DEF T!Outer
<1> HIDE DEF s2, L
<1>5. (\A i, j \in DOMAIN s2 : i < j => s2[i] < s2[j]) /\ \A i \in DOMAIN s2 : s2[i] <= ns
  BY <1>1, <1>2
<1>6. Levels(s2, ns, T!Outer(sc), T!Outer(t))
  BY <1>1, <1>2, <1>3, <1>4, <1>5 DEF Levels
<1> QED
  BY <1>6 DEF s2

\* or when what one of them sees is changed.
LEMMA ChangedLevels ==
  ASSUME NEW s, NEW ns, NEW sc, NEW t, Levels(s, ns, sc, t), s # <<>>,
         NEW f \in [Names -> Values \union {NoValue}], NEW names \in SUBSET Names
  PROVE  Levels(s, ns, [sc EXCEPT ![Len(sc)] = f], [t EXCEPT ![Len(t)] = names])
<1>1. sc \in Seq([Names -> Values \union {NoValue}]) /\ Len(sc) = Len(s) /\ Len(s) > 0
  BY DEF Levels
<1>2. t \in Seq(SUBSET Names) /\ Len(t) = Len(s)
  BY DEF Levels
<1>3. /\ [sc EXCEPT ![Len(sc)] = f] \in Seq([Names -> Values \union {NoValue}])
      /\ Len([sc EXCEPT ![Len(sc)] = f]) = Len(s)
  BY <1>1
<1>4. /\ [t EXCEPT ![Len(t)] = names] \in Seq(SUBSET Names)
      /\ Len([t EXCEPT ![Len(t)] = names]) = Len(s)
  BY <1>2
<1> QED
  BY <1>3, <1>4 DEF Levels

\* Without a transaction
LEMMA NoLevels == Levels(<<>>, 0, <<>>, <<>>)
  BY DEF Levels

\* A step after which no transaction has an id
LEMMA TxnEnds ==
  ASSUME TxnInv, txnid' = 0, last_used_txnid' \in {0, last_used_txnid}, UNCHANGED lastTxn,
         subs' = <<>>, nextSub' = 0, scopes' = <<>>, touched' = <<>>
  PROVE  TxnInv'
<1>1. Levels(subs, nextSub, scopes, touched)'
  BY NoLevels DEF Levels
<1> QED
  BY <1>1 DEF TxnInv, TxnOK, ChainsOK

\* A transaction begins without values, whatever the table still holds.
LEMMA TxnBegin ==
  ASSUME TxnInv, T!Begin
  PROVE  TxnInv'
<1>1. Levels(<<1>>, 1, <<T!EmptyScope>>, <<{}>>)
  BY DEF Levels, T!EmptyScope
<1>2. Levels(subs, nextSub, scopes, touched)'
  BY <1>1 DEF T!Begin, T!TopSubTransactionId, Levels
<1>3. txnid = 0
  BY DEF T!Begin, T!InTransaction, TxnInv, TxnOK
<1>4. TxnOK'
  BY <1>3 DEF T!Begin, T!EmptyScope, T!session, TxnInv, TxnOK
<1> QED
  BY <1>2, <1>3, <1>4 DEF TxnInv, ChainsOK, T!Begin

\* A savepoint keeps TxnInv.
LEMMA TxnSavepoint ==
  ASSUME TxnInv, T!Savepoint
  PROVE  TxnInv'
<1> DEFINE L == Len(subs)
<1>1. /\ subs # <<>> /\ nextSub' = nextSub + 1 /\ subs' = Append(subs, nextSub + 1)
      /\ scopes' = Append(scopes, T!Innermost(scopes)) /\ touched' = Append(touched, {})
      /\ UNCHANGED <<txnid, lastTxn, tabFreed, last_used_txnid, current_tab,
                     subtransaction_callback_registered, repeated>>
  BY DEF T!Savepoint, T!InTransaction, T!session
<1>2. Levels(subs', nextSub', scopes', touched')
  BY <1>1, SavepointLevels DEF TxnInv
<1>3. ASSUME txnid # 0, NEW n \in Names
      PROVE  ChainOK(subs', nextSub', scopes', touched', repeated', current_tab'[n], n)
  BY <1>1, <1>3, SavepointChain DEF TxnInv, ChainsOK
<1>4. txnid = 0 => \A i \in DOMAIN subs', n \in Names : scopes'[i][n] = NoValue
  <2>1. Levels(subs, nextSub, scopes, touched)
    BY DEF TxnInv
  <2>2. /\ DOMAIN subs' = 1..L + 1 /\ L \in 1..L /\ DOMAIN subs = 1..L
        /\ \A i \in 1..L + 1 : i \in 1..L \/ i = L + 1
        /\ scopes'[L + 1] = scopes[L] /\ \A i \in 1..L : scopes'[i] = scopes[i]
    BY <1>1, <2>1 DEF Levels, T!Innermost
  <2> QED
    BY <2>2 DEF TxnInv, TxnOK
<1>5. subs' # <<>>
  <2>1. subs \in Seq(Nat) /\ nextSub + 1 \in Nat
    BY DEF TxnInv, Levels
  <2>2. Len(subs') = Len(subs) + 1 /\ Len(subs) \in Nat
    BY <1>1, <2>1
  <2> QED
    BY <2>2
<1>6. TxnOK'
  BY <1>1, <1>4, <1>5 DEF TxnInv, TxnOK
<1> QED
  BY <1>1, <1>2, <1>3, <1>6 DEF TxnInv, ChainsOK

\* The release of a savepoint keeps TxnInv.
LEMMA TxnRelease ==
  ASSUME TxnInv, T!ReleaseSub
  PROVE  TxnInv'
<1> DEFINE L == Len(subs)
<1>1. /\ L > 1 /\ subs' = T!Outer(subs)
      /\ scopes' = [T!Outer(scopes) EXCEPT ![Len(scopes) - 1] = T!Innermost(scopes)]
      /\ touched' = [T!Outer(touched) EXCEPT ![Len(touched) - 1] = @ \cup T!Innermost(touched)]
      /\ UNCHANGED <<txnid, nextSub, lastTxn, tabFreed, last_used_txnid, current_tab,
                     subtransaction_callback_registered, repeated>>
  BY DEF T!ReleaseSub, T!session
<1>2. Levels(subs, nextSub, scopes, touched)
  BY DEF TxnInv
<1>3. /\ L \in Nat /\ Len(scopes) = L /\ Len(touched) = L /\ DOMAIN subs = 1..L
      /\ scopes[L] \in [Names -> Values \union {NoValue}]
      /\ touched[L] \subseteq Names /\ touched[L - 1] \subseteq Names
  <2>1. L \in 1..L /\ L - 1 \in 1..L
    BY <1>1, <1>2, LevelsOf
  <2> QED
    BY <1>2, <2>1, LevelsOf DEF Levels
<1>4. Levels(subs', nextSub, T!Outer(scopes), T!Outer(touched))
  BY <1>1, <1>2, OuterLevels
<1>5. /\ Len(subs') = L - 1 /\ Len(T!Outer(scopes)) = L - 1 /\ Len(T!Outer(touched)) = L - 1
      /\ subs' # <<>> /\ DOMAIN subs' = 1..L - 1
  <2>1. subs \in Seq(Nat)
    BY <1>2 DEF Levels
  <2>2. Len(subs') = L - 1
    BY <1>1, <1>3, <2>1 DEF T!Outer
  <2> QED
    BY <1>1, <1>3, <1>4, <2>2 DEF Levels
<1>6. Levels(subs', nextSub', scopes', touched')
  <2>1. T!Innermost(scopes) \in [Names -> Values \union {NoValue}]
    BY <1>3 DEF T!Innermost
  <2>2. T!Outer(touched)[L - 1] \cup T!Innermost(touched) \in SUBSET Names
    <3>1. L - 1 \in 1..L - 1
      BY <1>1, <1>3
    <3>2. T!Outer(touched)[L - 1] \subseteq Names
      BY <1>4, <1>5, <3>1, LevelsOf
    <3> QED
      BY <1>3, <3>2 DEF T!Innermost
  <2> DEFINE f == T!Innermost(scopes)
             names == T!Outer(touched)[L - 1] \cup T!Innermost(touched)
  <2>3. scopes' = [T!Outer(scopes) EXCEPT ![Len(T!Outer(scopes))] = f]
    BY <1>1, <1>3, <1>5
  <2>4. touched' = [T!Outer(touched) EXCEPT ![Len(T!Outer(touched))] = names]
    BY <1>1, <1>3, <1>5
  <2> HIDE DEF f, names
  <2>5. Levels(subs', nextSub, scopes', touched')
    BY <1>4, <1>5, <2>1, <2>2, <2>3, <2>4, ChangedLevels DEF f, names
  <2> QED
    BY <1>1, <2>5
<1>7. ASSUME txnid # 0, NEW n \in Names
      PROVE  ChainOK(subs', nextSub', scopes', touched', repeated', current_tab'[n], n)
  <2>1. ChainOK(subs, nextSub, scopes, touched, repeated, current_tab[n], n)
    BY <1>7 DEF TxnInv, ChainsOK
  <2>2. ChainOK(subs', nextSub, scopes', touched', repeated, current_tab[n], n)
    BY <1>1, <1>2, <2>1, ReleaseChain
  <2> QED
    BY <1>1, <2>2
<1>8. txnid = 0 => \A i \in DOMAIN subs', n \in Names : scopes'[i][n] = NoValue
  <2>1. \A i \in 1..L - 1 : scopes'[i] = scopes[i] \/ scopes'[i] = scopes[L]
    <3>1. scopes \in Seq([Names -> Values \union {NoValue}])
      BY <1>2 DEF Levels
    <3>2. DOMAIN T!Outer(scopes) = 1..L - 1 /\ \A i \in 1..L - 1 : T!Outer(scopes)[i] = scopes[i]
      BY <1>1, <1>3, <3>1 DEF T!Outer
    <3> QED
      BY <1>1, <1>3, <3>2 DEF T!Innermost
  <2>2. L \in 1..L /\ \A i \in 1..L - 1 : i \in 1..L
    BY <1>1, <1>3
  <2>3. ASSUME txnid = 0, NEW i \in 1..L - 1, NEW n \in Names PROVE scopes'[i][n] = NoValue
    <3>1. scopes[i][n] = NoValue /\ scopes[L][n] = NoValue
      BY <1>3, <2>2, <2>3 DEF TxnInv, TxnOK
    <3> QED
      BY <2>1, <3>1
  <2> QED
    BY <1>5, <2>3
<1>9. TxnOK'
  BY <1>1, <1>5, <1>8 DEF TxnInv, TxnOK
<1> QED
  BY <1>1, <1>6, <1>7, <1>9 DEF TxnInv, ChainsOK

\* The abort of a savepoint keeps TxnInv.
LEMMA TxnAbortSub ==
  ASSUME TxnInv, T!AbortSub
  PROVE  TxnInv'
<1> DEFINE L == Len(subs)
<1>1. /\ L > 1 /\ subs' = T!Outer(subs) /\ scopes' = T!Outer(scopes) /\ touched' = T!Outer(touched)
      /\ UNCHANGED <<txnid, nextSub, lastTxn, tabFreed, last_used_txnid,
                     subtransaction_callback_registered, repeated>>
  BY DEF T!AbortSub
<1>2. Levels(subs, nextSub, scopes, touched)
  BY DEF TxnInv
<1>3. Levels(subs', nextSub', scopes', touched')
  BY <1>1, <1>2, OuterLevels
<1>4. /\ L \in Nat /\ subs' # <<>> /\ DOMAIN subs' = 1..L - 1 /\ DOMAIN subs = 1..L
      /\ \A i \in 1..L - 1 : i \in 1..L /\ scopes'[i] = scopes[i]
  <2>1. subs \in Seq(Nat) /\ scopes \in Seq([Names -> Values \union {NoValue}]) /\ Len(scopes) = L
    BY <1>2 DEF Levels
  <2>2. L \in Nat /\ Len(subs') = L - 1 /\ DOMAIN subs' = 1..L - 1 /\ DOMAIN subs = 1..L
    BY <1>1, <2>1 DEF T!Outer
  <2>3. \A i \in 1..L - 1 : i \in 1..L /\ scopes'[i] = scopes[i]
    BY <1>1, <2>1, <2>2 DEF T!Outer
  <2> QED
    BY <1>1, <2>2, <2>3
<1>5. ASSUME txnid # 0
      PROVE  current_tab' = [n \in Names |-> T!Unwound(current_tab[n], T!Innermost(subs))]
  BY <1>5 DEF T!AbortSub, TxnInv, TxnOK
<1>6. ASSUME txnid # 0, NEW n \in Names
      PROVE  ChainOK(subs', nextSub', scopes', touched', repeated', current_tab'[n], n)
  <2>1. ChainOK(subs, nextSub, scopes, touched, repeated, current_tab[n], n)
    BY <1>6 DEF TxnInv, ChainsOK
  <2>2. current_tab'[n] = T!Unwound(current_tab[n], T!Innermost(subs))
    BY <1>5, <1>6
  <2> QED
    BY <1>1, <1>2, <2>1, <2>2, AbortChain
<1>7. TxnOK'
  BY <1>1, <1>4, <1>5 DEF TxnInv, TxnOK
<1> QED
  BY <1>1, <1>3, <1>6, <1>7 DEF TxnInv, ChainsOK

\* set() keeps TxnInv.
LEMMA TxnSet ==
  ASSUME TxnInv, NEW m \in Names, NEW v \in Values, T!Set(m, v)
  PROVE  TxnInv'
<1> DEFINE tab == IF last_used_txnid # txnid' THEN T!EmptyTab ELSE current_tab
<1>1. /\ subs # <<>> /\ txnid' # 0 /\ txnid' \in Nat /\ lastTxn' \in Nat /\ txnid' <= lastTxn'
      /\ (txnid = 0 => last_used_txnid # txnid') /\ (txnid # 0 => txnid' = txnid)
  BY DEF T!Set, T!InTransaction, T!InvalidTransactionId, TxnInv, TxnOK
<1>2. /\ current_tab' = [tab EXCEPT ![m] = T!Pushed(@, v, T!Innermost(subs))]
      /\ subtransaction_callback_registered' = TRUE
      /\ last_used_txnid' = txnid' /\ tabFreed' = FALSE
      /\ scopes' = [scopes EXCEPT ![Len(scopes)][m] = v]
      /\ touched' = [touched EXCEPT ![Len(touched)] = @ \cup {m}]
      /\ repeated' = IF m \in T!Innermost(touched) THEN repeated \cup {m} ELSE repeated
      /\ UNCHANGED <<subs, nextSub>>
  BY DEF T!Set
<1>3. Levels(subs, nextSub, scopes, touched)
  BY DEF TxnInv
<1>4. Levels(subs', nextSub', scopes', touched')
  <2> DEFINE f == [scopes[Len(scopes)] EXCEPT ![m] = v]
             names == touched[Len(touched)] \cup {m}
  <2>1. Len(subs) \in 1..Len(subs) /\ Len(scopes) = Len(subs) /\ Len(touched) = Len(subs)
    BY <1>1, <1>3 DEF Levels
  <2>2. f \in [Names -> Values \union {NoValue}] /\ names \in SUBSET Names
    BY <1>3, <2>1, LevelsOf
  <2>3. scopes' = [scopes EXCEPT ![Len(scopes)] = f] /\ touched' = [touched EXCEPT ![Len(touched)] = names]
    BY <1>2
  <2> HIDE DEF f, names
  <2>4. Levels(subs, nextSub, [scopes EXCEPT ![Len(scopes)] = f], [touched EXCEPT ![Len(touched)] = names])
    BY <1>1, <1>3, <2>2, ChangedLevels
  <2> QED
    BY <1>2, <2>3, <2>4
<1>5. DOMAIN tab = Names
  BY <1>1 DEF TxnInv, TxnOK, T!EmptyTab
<1>6. ASSUME NEW n \in Names PROVE ChainOK(subs, nextSub, scopes, touched, repeated, tab[n], n)
  <2>1. CASE txnid # 0
    BY <1>1, <2>1 DEF TxnInv, TxnOK, ChainsOK
  <2>2. CASE txnid = 0
    <3>1. tab[n] = <<>>
      BY <1>1, <2>2 DEF T!EmptyTab
    <3>2. \A i \in DOMAIN subs : scopes[i][n] = NoValue
      BY <2>2 DEF TxnInv, TxnOK
    <3> QED
      BY <3>1, <3>2, FreshChain
  <2> QED
    BY <2>1, <2>2
<1> HIDE DEF tab
<1>7. ASSUME NEW n \in Names
      PROVE  ChainOK(subs', nextSub', scopes', touched', repeated', current_tab'[n], n)
  <2>1. CASE n = m
    <3>1. current_tab'[n] = T!Pushed(tab[n], v, T!Innermost(subs))
      BY <1>2, <1>5, <2>1
    <3>2. ChainOK(subs, nextSub, scopes', touched', repeated', T!Pushed(tab[n], v, T!Innermost(subs)), n)
      BY <1>1, <1>2, <1>3, <1>6, <2>1, PushChain
    <3> QED
      BY <1>2, <3>1, <3>2
  <2>2. CASE n # m
    <3>1. current_tab'[n] = tab[n]
      BY <1>2, <1>5, <2>2
    <3>2. ChainOK(subs, nextSub, scopes', touched', repeated', tab[n], n)
      BY <1>1, <1>2, <1>3, <1>6, <2>2, OtherChain
    <3> QED
      BY <1>2, <3>1, <3>2
  <2> QED
    BY <2>1, <2>2
<1>8. TxnOK'
  BY <1>1, <1>2, <1>5 DEF TxnOK
<1> QED
  BY <1>4, <1>7, <1>8 DEF TxnInv, ChainsOK

\* TxnInv holds in every state of a session.
THEOREM TxnIndInv == T!Spec => []TxnInv
<1>1. T!Init => TxnInv
  BY NoLevels DEF T!Init, T!InvalidTransactionId, TxnInv, TxnOK, ChainsOK
<1>2. TxnInv /\ [T!Next]_T!vars => TxnInv'
  <2> SUFFICES ASSUME TxnInv, [T!Next]_T!vars PROVE TxnInv'
    OBVIOUS
  <2>1. CASE T!AbortSubCrash \/ T!End \/ T!Prepare
    BY <2>1, TxnEnds DEF T!AbortSubCrash, T!End, T!Prepare, T!TransactionGone, T!InvalidTransactionId
  <2>2. CASE UNCHANGED T!vars
    BY <2>2 DEF T!vars, T!session, T!history, TxnInv, TxnOK, ChainsOK, Levels, ChainOK, Shows, Below
  <2> QED
    BY <2>1, <2>2, TxnBegin, TxnSavepoint, TxnRelease, TxnAbortSub, TxnSet DEF T!Next
<1> QED
  BY <1>1, <1>2, PTL DEF T!Spec

\* What get() finds
LEMMA GetShows ==
  ASSUME TxnInv, subs # <<>>, txnid # 0, NEW n \in Names
  PROVE  /\ T!Get(n) \in {T!Innermost(scopes)[n], NoValue}
         /\ n \notin repeated => T!Get(n) = T!Innermost(scopes)[n]
<1> DEFINE L == Len(subs)
           c == current_tab[n]
<1>1. Shows(subs, L, c, scopes[L][n], n \in repeated) /\ c \in Seq(Entry)
  <2>1. L \in DOMAIN subs
    BY DEF TxnInv, Levels
  <2> QED
    BY <2>1 DEF TxnInv, ChainsOK, ChainOK
<1>2. \A id : Below(subs, L, id)
  BY DEF Below
<1>3. T!Innermost(scopes) = scopes[L]
  BY DEF T!Innermost, TxnInv, Levels
<1>4. T!Get(n) = IF c = <<>> THEN NoValue ELSE c[Len(c)].value
  BY DEF T!Get, T!InvalidTransactionId, T!Innermost, TxnInv, TxnOK
<1> HIDE DEF L, c
<1>5. CASE c = <<>>
  <2>1. DOMAIN c = {}
    BY <1>5
  <2>2. scopes[L][n] = NoValue \/ n \in repeated
    BY <1>1, <2>1, Zenon DEF Shows
  <2> QED
    BY <1>3, <1>4, <1>5, <2>2
<1>6. CASE c # <<>>
  <2>1. Len(c) \in DOMAIN c /\ \A j \in DOMAIN c : ~(j > Len(c))
    BY <1>1, <1>6
  <2>2. c[Len(c)].value = scopes[L][n]
    BY <1>1, <1>2, <2>1 DEF Shows
  <2> QED
    BY <1>3, <1>4, <1>6, <2>2
<1> QED
  BY <1>5, <1>6

\* get() finds no value that was rolled back or belongs to an earlier transaction,
\* for any names, transactions and nesting of savepoints.
THEOREM TxnNoRolledBackValue == T!Spec => []NoRolledBackValue
<1>1. TxnInv => NoRolledBackValue
  <2> SUFFICES ASSUME TxnInv, NEW n \in Names
               PROVE  T!Get(n) \in {IF T!InTransaction THEN T!Innermost(scopes)[n] ELSE NoValue, NoValue}
    BY DEF NoRolledBackValue, T!NoRolledBackValue
  <2>1. CASE txnid = 0
    BY <2>1 DEF T!Get, T!InvalidTransactionId
  <2>2. CASE txnid # 0
    <3>1. subs # <<>>
      BY <2>2 DEF TxnInv, TxnOK
    <3> QED
      BY <2>2, <3>1, GetShows DEF T!InTransaction
  <2> QED
    BY <2>1, <2>2
<1> QED
  BY <1>1, TxnIndInv, PTL

\* Rolling back a savepoint restores every variable that was not set twice in one
\* subtransaction.
THEOREM TxnRestoredUnlessRepeated == T!Spec => []RestoredUnlessRepeated
<1>1. TxnInv => RestoredUnlessRepeated
  <2> SUFFICES ASSUME TxnInv, T!InTransaction, NEW n \in Names \ repeated
               PROVE  T!Get(n) = T!Innermost(scopes)[n]
    BY DEF RestoredUnlessRepeated, T!RestoredUnlessRepeated
  <2>1. CASE txnid = 0
    <3>1. T!Get(n) = NoValue
      BY <2>1 DEF T!Get, T!InvalidTransactionId
    <3>2. Len(subs) \in DOMAIN subs /\ Len(scopes) = Len(subs)
      BY DEF T!InTransaction, TxnInv, Levels
    <3> QED
      BY <2>1, <3>1, <3>2 DEF TxnInv, TxnOK, T!Innermost
  <2>2. CASE txnid # 0
    BY <2>2, GetShows DEF T!InTransaction
  <2> QED
    BY <2>1, <2>2
<1> QED
  BY <1>1, TxnIndInv, PTL
=============================================================================
