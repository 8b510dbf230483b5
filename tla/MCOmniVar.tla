------------------------------ MODULE MCOmniVar ------------------------------
(***************************************************************************)
(* The two kinds of variables of a session, OmniVarTxn and                  *)
(* OmniVarStatement.  They share no state, so that each is explored with    *)
(* the other at rest.  MCOmniSession has the run.                           *)
(***************************************************************************)
EXTENDS Naturals

CONSTANTS Names, Values, NoValue, MaxTxn, MaxSub, Portals, MaxMessages

ASSUME VarAssumption ==
  /\ NoValue \notin Values
  /\ MaxTxn \in Nat /\ MaxSub \in Nat \ {0}
  /\ Portals \subseteq Nat \ {0} /\ MaxMessages \in Nat

VARIABLES
  txnid, subs, nextSub, lastTxn, last_used_txnid, current_tab, tabFreed,
  subtransaction_callback_registered, scopes, touched, repeated,
  now, creation_time, live, active, tabOwner, statement_tab, valueOwner, last_portal,
  intended

txnVars ==
  <<txnid, subs, nextSub, lastTxn, last_used_txnid, current_tab, tabFreed,
    subtransaction_callback_registered, scopes, touched, repeated>>
statementVars ==
  <<now, creation_time, live, active, tabOwner, statement_tab, valueOwner, last_portal,
    intended>>

T == INSTANCE OmniVarTxn
S == INSTANCE OmniVarStatement

VarInit == T!Init /\ S!Init

VarNext ==
  \/ S!Init /\ T!Next /\ UNCHANGED statementVars
  \/ T!Init /\ S!Next /\ UNCHANGED txnVars

varVars == <<txnVars, statementVars>>

\* Transaction variables: get() finds no value that was rolled back.
NoRolledBackValue == T!NoRolledBackValue

\* Transaction variables: rolling back a savepoint restores what was set once in
\* each subtransaction.
RestoredUnlessRepeated == T!RestoredUnlessRepeated

\* Statement variables: get_statement() finds only values of the same message.
CarriedOnlyWithinMessage == S!CarriedOnlyWithinMessage

\* Statement variables: the only statement of a message uses a table of its own.
TableOfOwnStatement == S!TableOfOwnStatement
==============================================================================
