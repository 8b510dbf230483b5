---------------------------- MODULE MCOmniSession ----------------------------
(***************************************************************************)
(* Small instances of OmniTxnRetry, OmniVarTxn, OmniVarStatement and         *)
(* OmniHooks for TLC: what a session keeps for itself.  They share no state, *)
(* so that one run explores each of them with the others at rest.           *)
(***************************************************************************)
EXTENDS OmniTxnRetry, MCOmniVar, MCOmniHooks

CONSTANTS s1, s2, s3

SessionInit == Init /\ VarInit /\ H!Init

SessionNext ==
  \/ VarInit /\ H!Init /\ Next /\ UNCHANGED <<varVars, hookVars>>
  \/ Init /\ H!Init /\ VarNext /\ UNCHANGED <<vars, hookVars>>
  \/ Init /\ VarInit /\ H!Next /\ UNCHANGED <<vars, varVars>>

SessionSpec == SessionInit /\ [][SessionNext]_<<vars, varVars, hookVars>>
==============================================================================
