--------------------------- MODULE MCHttpdReload ---------------------------
(* Small instances of HttpdReload for TLC.                                  *)
EXTENDS HttpdReload

CONSTANTS w1, w2, f1, f2, f3, f4
============================================================================
