--------------------------- MODULE MCHttpdHandler ---------------------------
(* Small instances of HttpdHandler for TLC.                                 *)
EXTENDS HttpdHandler

CONSTANTS MaxRoutes

\* Handlers and middleware, functions and procedures, with and without a role; rows
\* that match and rows that do not or have no handler
Row(p, h, proc, r) ==
  [priority |-> p, handler |-> h, procedure |-> proc, role |-> r, match |-> TRUE, valid |-> TRUE]

Rows ==
  {Row(p, h, proc, r) : p \in {1, 2}, h \in BOOLEAN, proc \in BOOLEAN, r \in Roles \union {NoRole}}
  \union {[Row(2, TRUE, FALSE, NoRole) EXCEPT !.match = FALSE],
          [Row(2, TRUE, FALSE, NoRole) EXCEPT !.valid = FALSE]}

MCTables == UNION {kSubset(n, Rows) : n \in 0..MaxRoutes}
============================================================================
