-------------------------- MODULE MCHttpdControl --------------------------
(* Instances of HttpdControl for TLC.                                      *)
EXTENDS HttpdControl

CONSTANTS b1, b2

Sessions == {b1, b2}
Numbers == 1..5
============================================================================
