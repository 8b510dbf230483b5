-------------------------- MODULE MCOmniLinearize --------------------------
(* Small instances of OmniLinearize for TLC.                                *)
EXTENDS OmniLinearize, TLC

CONSTANTS b1, b2, b3

\* One transaction of each backend, or two of one of them
Once == [b \in Backends |-> 1]
TwiceOnce == [b \in Backends |-> IF b = b1 THEN 2 ELSE 1]

Symmetry == Permutations(Backends)
============================================================================
