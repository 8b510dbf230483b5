----------------------------- MODULE OmniVarTxn -----------------------------
(***************************************************************************)
(* Transaction variables of omni_var (extensions/omni_var/txn.c), in one    *)
(* session.                                                                *)
(*                                                                         *)
(* set() keeps, for every name, a chain of values, each tagged with the     *)
(* subtransaction that set it, in a hash table that lives in the memory of *)
(* the transaction.  When a subtransaction aborts a callback walks every   *)
(* chain back to the last value set outside of it.  The table is not       *)
(* cleared at the end of a transaction: get() compares transaction ids.    *)
(*                                                                         *)
(* scopes and touched are history variables: what the variables should be  *)
(* at each level of subtransactions, and which were set since it began.    *)
(***************************************************************************)
EXTENDS Naturals, Sequences, FiniteSetsExt

CONSTANTS
  Names,         \* variable names
  Values,        \* values that are set, null among them
  NoValue,       \* what get() answers with its default for
  MaxTxn,        \* bound on transaction ids
  MaxSub         \* bound on subtransaction ids within a transaction

VARIABLES
  txnid,            \* id of the running transaction, InvalidTransactionId if none
  subs,             \* ids of the active subtransactions, innermost last
  nextSub,          \* the last subtransaction id given out
  lastTxn,          \* the last transaction id given out
  last_used_txnid,  \* the transaction current_tab was made in
  current_tab,      \* the chain of every name, oldest value first
  tabFreed,         \* the memory of current_tab went with its transaction
  subtransaction_callback_registered,
  scopes,           \* history: what each level should see
  touched,          \* history: names set since each level began
  repeated          \* history: names set again within one subtransaction

session == <<last_used_txnid, current_tab, subtransaction_callback_registered>>
history == <<scopes, touched, repeated>>
vars == <<txnid, subs, nextSub, lastTxn, tabFreed, session, history>>

InvalidTransactionId == 0
TopSubTransactionId == 1

InTransaction == subs # <<>>
Innermost(s) == s[Len(s)]
Outer(s) == SubSeq(s, 1, Len(s) - 1)

\* The hash table as it is after hash_create
EmptyTab == [n \in Names |-> <<>>]
EmptyScope == [n \in Names |-> NoValue]

Init ==
  /\ txnid = InvalidTransactionId
  /\ subs = <<>> /\ nextSub = 0 /\ lastTxn = 0
  /\ last_used_txnid = InvalidTransactionId
  /\ current_tab = EmptyTab /\ tabFreed = FALSE
  /\ subtransaction_callback_registered = FALSE
  /\ scopes = <<>> /\ touched = <<>> /\ repeated = {}

----------------------------------------------------------------------------
(* The server                                                              *)

Begin ==
  /\ ~InTransaction
  /\ subs' = <<TopSubTransactionId>> /\ nextSub' = TopSubTransactionId
  /\ scopes' = <<EmptyScope>> /\ touched' = <<{}>> /\ repeated' = {}
  /\ UNCHANGED <<txnid, lastTxn, tabFreed, session>>

Savepoint ==
  /\ InTransaction /\ nextSub < MaxSub
  /\ nextSub' = nextSub + 1
  /\ subs' = Append(subs, nextSub')
  /\ scopes' = Append(scopes, Innermost(scopes))
  /\ touched' = Append(touched, {})
  /\ UNCHANGED <<txnid, lastTxn, tabFreed, session, repeated>>

\* The callback ignores SUBXACT_EVENT_COMMIT_SUB: values keep the id of the
\* subtransaction that set them.
ReleaseSub ==
  /\ Len(subs) > 1
  /\ subs' = Outer(subs)
  /\ scopes' = [Outer(scopes) EXCEPT ![Len(scopes) - 1] = Innermost(scopes)]
  /\ touched' = [Outer(touched) EXCEPT ![Len(touched) - 1] = @ \cup Innermost(touched)]
  /\ UNCHANGED <<txnid, nextSub, lastTxn, tabFreed, session, repeated>>

----------------------------------------------------------------------------
(* omni_var                                                                *)

\* Mutant: values set in subtransactions of the aborted one survive
UnwoundEqual(chain, sub) ==
  SubSeq(chain, 1, Max({0} \cup {k \in DOMAIN chain : chain[k].subxactid # sub}))

\* The walk of subtransaction_callback: back to the last value set before the
\* subtransaction began; without one the name is removed.
Unwound(chain, sub) ==
  SubSeq(chain, 1, Max({0} \cup {k \in DOMAIN chain : chain[k].subxactid < sub}))

\* SUBXACT_EVENT_ABORT_SUB of the innermost subtransaction.  A walk over a table
\* whose memory is gone has, if the backend survives it, no effect get() sees.
AbortSub ==
  /\ Len(subs) > 1
  /\ current_tab' = IF subtransaction_callback_registered /\ ~tabFreed
                    THEN [n \in Names |-> Unwound(current_tab[n], Innermost(subs))]
                    ELSE current_tab
  /\ subs' = Outer(subs)
  /\ scopes' = Outer(scopes) /\ touched' = Outer(touched)
  /\ UNCHANGED <<txnid, nextSub, lastTxn, tabFreed, last_used_txnid,
                 subtransaction_callback_registered, repeated>>

\* ... and if it does not, the client gets a new session.
AbortSubCrash ==
  /\ Len(subs) > 1
  /\ subtransaction_callback_registered /\ tabFreed
  /\ txnid' = InvalidTransactionId
  /\ subs' = <<>> /\ nextSub' = 0
  /\ last_used_txnid' = InvalidTransactionId
  /\ current_tab' = EmptyTab /\ tabFreed' = FALSE
  /\ subtransaction_callback_registered' = FALSE
  /\ scopes' = <<>> /\ touched' = <<>> /\ repeated' = {}
  /\ UNCHANGED lastTxn

\* Mutant: earlier values are never kept
PushedReplaces(chain, v, sub) == <<[value |-> v, subxactid |-> sub]>>

\* The chain after a value is set in subtransaction sub: a value of an outer
\* subtransaction is kept behind the new one; otherwise the new one is all
\* there is.
Pushed(chain, v, sub) ==
  LET new == [value |-> v, subxactid |-> sub]
  IN  IF chain # <<>> /\ Innermost(chain).subxactid < sub
      THEN Append(chain, new)
      ELSE <<new>>

\* set(): GetTopTransactionId assigns an id on first use.
Set(n, v) ==
  /\ InTransaction
  /\ txnid = InvalidTransactionId => lastTxn < MaxTxn
  /\ txnid' = IF txnid = InvalidTransactionId THEN lastTxn + 1 ELSE txnid
  /\ lastTxn' = IF txnid = InvalidTransactionId THEN lastTxn + 1 ELSE lastTxn
  /\ subtransaction_callback_registered' = TRUE
  /\ LET tab == IF last_used_txnid # txnid' THEN EmptyTab ELSE current_tab
     IN  current_tab' = [tab EXCEPT ![n] = Pushed(@, v, Innermost(subs))]
  /\ last_used_txnid' = txnid' /\ tabFreed' = FALSE
  /\ scopes' = [scopes EXCEPT ![Len(scopes)][n] = v]
  /\ touched' = [touched EXCEPT ![Len(touched)] = @ \cup {n}]
  /\ repeated' = IF n \in Innermost(touched) THEN repeated \cup {n} ELSE repeated
  /\ UNCHANGED <<subs, nextSub>>

\* get(), the value found for a name
Get(n) ==
  IF txnid = InvalidTransactionId \/ last_used_txnid # txnid THEN NoValue
  ELSE IF current_tab[n] = <<>> THEN NoValue
  ELSE Innermost(current_tab[n]).value

----------------------------------------------------------------------------
(* The end of a transaction                                                *)

TransactionGone ==
  /\ txnid' = InvalidTransactionId
  /\ subs' = <<>> /\ nextSub' = 0
  /\ tabFreed' = (tabFreed \/ last_used_txnid # InvalidTransactionId)
  /\ scopes' = <<>> /\ touched' = <<>> /\ repeated' = {}
  /\ UNCHANGED <<lastTxn, last_used_txnid, current_tab>>

\* COMMIT and ROLLBACK; the table's memory is freed, the pointer stays.
End ==
  /\ InTransaction
  /\ TransactionGone
  /\ subtransaction_callback_registered' = FALSE

\* PREPARE TRANSACTION: transaction_callback ignores XACT_EVENT_PREPARE.
Prepare ==
  /\ InTransaction
  /\ TransactionGone
  /\ UNCHANGED subtransaction_callback_registered

Next ==
  \/ Begin \/ Savepoint \/ ReleaseSub \/ AbortSub \/ AbortSubCrash
  \/ \E n \in Names, v \in Values : Set(n, v)
  \/ End \/ Prepare

Spec == Init /\ [][Next]_vars

----------------------------------------------------------------------------
(* Properties                                                              *)

\* A value that was rolled back, or belongs to an earlier transaction, is never
\* seen again: get() answers with the value last set and not rolled back, or
\* with its default.
NoRolledBackValue ==
  \A n \in Names : Get(n) \in {IF InTransaction THEN Innermost(scopes)[n] ELSE NoValue,
                               NoValue}

\* Rolling back a savepoint restores a variable, as long as it was never set
\* again after it had been set in one and the same subtransaction.
RestoredUnlessRepeated ==
  InTransaction => \A n \in Names \ repeated : Get(n) = Innermost(scopes)[n]
============================================================================
