---------------------------- MODULE MCOmniWorker ----------------------------
(* Small instances of OmniWorker for TLC.                                   *)
EXTENDS OmniWorker

CONSTANTS w1, w2, c1, c2, c3

\* c1 asks for work, c2 may cancel it and c3 may not.
MCRole == [c \in Calls |-> IF c = c3 THEN "other" ELSE "owner"]
MCFunctions == [c \in Calls |-> IF c = c1 THEN {"sql", "after"} ELSE {"cancel"}]
=============================================================================
