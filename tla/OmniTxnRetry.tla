---------------------------- MODULE OmniTxnRetry ----------------------------
(***************************************************************************)
(* omni_txn.retry (extensions/omni_txn/retry.c): statements are run and     *)
(* committed; after a serialization failure the transaction is rolled back, *)
(* a new one is chained, and after a pause they are run again.  Plans are   *)
(* kept in a table of the session.                                         *)
(*                                                                         *)
(* linearize_enabled is the flag of linearization.c: its hook clears it     *)
(* whenever a transaction ends.                                            *)
(***************************************************************************)
EXTENDS Integers, Sequences

CONSTANTS
  Statements,
  Broken,          \* statements whose preparation may fail
  Resetting,       \* statements that reset the table of plans
  MaxAttempts,     \* values of max_attempts
  Linearize,       \* values of linearize
  MaxCalls,        \* bound on calls
  Cap, Base        \* cap_sleep_microsecs, base_sleep_microsecs

ASSUME ConstantsAssumption ==
  /\ Broken \subseteq Statements /\ Resetting \subseteq Statements
  /\ MaxAttempts \subseteq Nat /\ Linearize \subseteq BOOLEAN
  /\ MaxCalls \in Nat /\ Cap \in Nat \ {0} /\ Base \in Nat \ {0}

VARIABLES
  pc,                     \* idle, prepare, attempt, commit, backoff
  call,                   \* arguments of the call
  retry_attempts,
  stmthash,               \* for each statement: none, entered, planned
  linearize_enabled,
  backoff_values,
  runs,                   \* attempts of the current call
  executed,               \* the transaction has run its statements
  effects,                \* transactions of the current call that have run them and committed
  outcome,                \* of the last call: none, done, failed, gave up
  calls                   \* counter for the bound

vars == <<pc, call, retry_attempts, stmthash, linearize_enabled, backoff_values, runs, executed,
          effects, outcome, calls>>

MinOf(a, b) == IF a < b THEN a ELSE b

get_backoff(attempt) == MinOf(Cap, Base * 2^MinOf(attempt, 30))

\* A random part of the backoff, at least one microsecond
backoff_jitter(attempt) == {1} \union 1..(get_backoff(attempt) - 1)

NoPlans == [s \in Statements |-> "none"]

Init ==
  /\ pc = "idle"
  /\ call = [stmt |-> CHOOSE s \in Statements : TRUE, max_attempts |-> 0,
             linearize |-> FALSE, collect |-> FALSE]
  /\ retry_attempts = 0 /\ stmthash = NoPlans
  /\ linearize_enabled = FALSE /\ backoff_values = <<>>
  /\ runs = 0 /\ executed = FALSE /\ effects = 0 /\ outcome = "none" /\ calls = 0

----------------------------------------------------------------------------
\* Mutant: a statement that is found is taken to be planned, one that is not is
\* only entered
RetryUnprepared(s, m, l, c) ==
  /\ pc = "idle" /\ calls < MaxCalls
  /\ calls' = calls + 1
  /\ call' = [stmt |-> s, max_attempts |-> m, linearize |-> l, collect |-> c]
  /\ linearize_enabled' = l
  /\ retry_attempts' = 0
  /\ backoff_values' = IF c THEN <<>> ELSE backoff_values
  /\ runs' = 0 /\ executed' = FALSE /\ effects' = 0 /\ outcome' = "none"
  /\ stmthash' = [stmthash EXCEPT ![s] = IF @ = "none" THEN "entered" ELSE @]
  /\ pc' = "attempt"

\* A call up to the first attempt: a statement that is not in the table is
\* entered and then prepared.
retry(s, m, l, c) ==
  /\ pc = "idle" /\ calls < MaxCalls
  /\ calls' = calls + 1
  /\ call' = [stmt |-> s, max_attempts |-> m, linearize |-> l, collect |-> c]
  /\ linearize_enabled' = l
  /\ retry_attempts' = 0
  /\ backoff_values' = IF c THEN <<>> ELSE backoff_values
  /\ runs' = 0 /\ executed' = FALSE /\ effects' = 0 /\ outcome' = "none"
  /\ stmthash' = [stmthash EXCEPT ![s] = IF @ = "none" THEN "entered" ELSE @]
  /\ pc' = IF stmthash[s] = "none" THEN "prepare" ELSE "attempt"

Prepare ==
  /\ pc = "prepare"
  /\ stmthash' = [stmthash EXCEPT ![call.stmt] = "planned"]
  /\ pc' = "attempt"
  /\ UNCHANGED <<call, retry_attempts, linearize_enabled, backoff_values, runs, executed,
                 effects, outcome, calls>>

\* The call ends with an error, which aborts the transaction.
Fails(o) ==
  /\ pc' = "idle" /\ outcome' = o
  /\ linearize_enabled' = FALSE /\ executed' = FALSE
  /\ UNCHANGED <<call, stmthash, backoff_values, effects, calls>>

\* SPI_prepare raises an error; the entry stays.
PrepareFails ==
  /\ pc = "prepare" /\ call.stmt \in Broken
  /\ Fails("failed")
  /\ UNCHANGED <<retry_attempts, runs>>

\* SPI_execute_plan runs the plan.  Without one it returns an error code, which
\* nobody looks at; once the statements of an earlier attempt have reset the table,
\* the entry is memory that was freed, and either may happen.
Outcomes == CASE stmthash[call.stmt] = "planned" -> {TRUE}
              [] stmthash[call.stmt] = "entered" -> {FALSE}
              [] stmthash[call.stmt] = "none"    -> BOOLEAN

\* The statements run, in a subtransaction that is then released.
Attempt ==
  /\ pc = "attempt"
  /\ runs' = runs + 1
  /\ executed' \in Outcomes
  /\ stmthash' = IF executed' /\ call.stmt \in Resetting THEN NoPlans ELSE stmthash
  /\ pc' = "commit"
  /\ UNCHANGED <<call, retry_attempts, linearize_enabled, backoff_values, effects, outcome, calls>>

Effects == effects + (IF executed THEN 1 ELSE 0)

Commit ==
  /\ pc = "commit"
  /\ effects' = Effects /\ executed' = FALSE
  /\ linearize_enabled' = FALSE
  /\ pc' = "idle" /\ outcome' = "done"
  /\ UNCHANGED <<call, retry_attempts, stmthash, backoff_values, runs, calls>>

\* Errors come from the statements or from the commit.
Running == pc \in {"attempt", "commit"}
RunsNow == IF pc = "attempt" THEN runs + 1 ELSE runs

\* Mutant: the transaction is committed and chained
RetryCommits ==
  /\ Running /\ retry_attempts < call.max_attempts
  /\ retry_attempts' = retry_attempts + 1
  /\ runs' = RunsNow
  /\ effects' = Effects /\ executed' = FALSE
  /\ \E b \in backoff_jitter(retry_attempts') :
       backoff_values' = IF call.collect THEN Append(backoff_values, b) ELSE backoff_values
  /\ linearize_enabled' = FALSE
  /\ pc' = "backoff"
  /\ UNCHANGED <<call, stmthash, outcome, calls>>

\* Mutant: the whole backoff is waited for
RetryWithoutJitter ==
  /\ Running /\ retry_attempts < call.max_attempts
  /\ retry_attempts' = retry_attempts + 1
  /\ runs' = RunsNow
  /\ backoff_values' =
       IF call.collect THEN Append(backoff_values, get_backoff(retry_attempts')) ELSE backoff_values
  /\ linearize_enabled' = FALSE /\ executed' = FALSE
  /\ pc' = "backoff"
  /\ UNCHANGED <<call, stmthash, effects, outcome, calls>>

\* A serialization failure: the transaction is rolled back and chained.
SerializationFailure ==
  /\ Running /\ retry_attempts < call.max_attempts
  /\ retry_attempts' = retry_attempts + 1
  /\ runs' = RunsNow
  /\ \E b \in backoff_jitter(retry_attempts') :
       backoff_values' = IF call.collect THEN Append(backoff_values, b) ELSE backoff_values
  /\ linearize_enabled' = FALSE /\ executed' = FALSE
  /\ pc' = "backoff"
  /\ UNCHANGED <<call, stmthash, effects, outcome, calls>>

\* pg_sleep
Backoff ==
  /\ pc = "backoff"
  /\ pc' = "attempt"
  /\ UNCHANGED <<call, retry_attempts, stmthash, linearize_enabled, backoff_values, runs,
                 executed, effects, outcome, calls>>

\* The sleep is interrupted: the error ends the call.
BackoffInterrupted ==
  /\ pc = "backoff"
  /\ Fails("failed")
  /\ UNCHANGED <<retry_attempts, runs>>

\* One serialization failure more than max_attempts
GiveUp ==
  /\ Running /\ retry_attempts >= call.max_attempts
  /\ retry_attempts' = retry_attempts + 1
  /\ runs' = RunsNow
  /\ Fails("gave up")

\* Any other error is passed on.
OtherError ==
  /\ Running
  /\ retry_attempts' = 0
  /\ runs' = RunsNow
  /\ Fails("failed")

\* The user resets the table, between calls.
reset_retry_prepared_statements ==
  /\ pc = "idle" /\ stmthash # NoPlans
  /\ stmthash' = NoPlans
  /\ UNCHANGED <<pc, call, retry_attempts, linearize_enabled, backoff_values, runs, executed,
                 effects, outcome, calls>>

----------------------------------------------------------------------------
Step ==
  \/ Prepare \/ PrepareFails \/ Attempt \/ Commit \/ SerializationFailure \/ Backoff
  \/ BackoffInterrupted \/ GiveUp \/ OtherError

\* No more calls
Idle == pc = "idle" /\ calls = MaxCalls /\ UNCHANGED vars

Next ==
  \/ Step \/ reset_retry_prepared_statements \/ Idle
  \/ \E s \in Statements, m \in MaxAttempts, l \in Linearize, c \in BOOLEAN : retry(s, m, l, c)

Spec == Init /\ [][Next]_vars

----------------------------------------------------------------------------
(* Properties                                                              *)

\* A call has no effect while it runs or when it fails, and one that succeeds has
\* taken effect exactly once, however many attempts fail in the statements, in
\* SPI_commit or in the pauses.  A call that succeeds without any effect is one of
\* a statement whose preparation failed in an earlier call, or whose earlier attempt
\* has reset the table.
TakesEffectOnce ==
  /\ outcome # "done" => effects = 0
  /\ outcome = "done" =>
       \/ effects = 1
       \/ effects = 0 /\ (call.stmt \in Broken \/ (call.stmt \in Resetting /\ runs > 1))

\* Once the call has returned, having committed or given up, every collected
\* value is a pause of this call: one for each retry, at least a microsecond
\* and less than the cap.
BackoffsOfCall ==
  call.collect /\ outcome \in {"done", "gave up"}
    => /\ Len(backoff_values) = MinOf(retry_attempts, call.max_attempts)
       /\ \A i \in DOMAIN backoff_values :
            backoff_values[i] >= 1 /\ (backoff_values[i] < Cap \/ Cap = 1)

\* What is run has a plan ("will cache prepared statement plans for every new
\* statement provided", docs/retry.md), whatever calls of other statements have
\* failed or reset the table, unless its own preparation failed in an earlier
\* call or its own first run has reset the table.
PlannedWhenRun ==
  pc = "attempt" /\ call.stmt \notin Broken /\ (call.stmt \in Resetting => runs = 0)
    => stmthash[call.stmt] = "planned"
============================================================================
