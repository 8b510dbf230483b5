---------------------------- MODULE MCHttpdWorker ----------------------------
(* Small instances of HttpdWorker for TLC.                                  *)
EXTENDS HttpdWorker

CONSTANTS r1, r2
=============================================================================
