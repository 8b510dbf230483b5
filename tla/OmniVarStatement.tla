-------------------------- MODULE OmniVarStatement --------------------------
(***************************************************************************)
(* Statement variables of omni_var (extensions/omni_var/statement.c), in    *)
(* one session.                                                            *)
(*                                                                         *)
(* set_statement() keeps one hash table, in the memory of the portal that   *)
(* is active when it is made, and recognises the portal it belongs to by   *)
(* creation_time alone.  The server gives a portal the start time of the    *)
(* client message it is created for, so portals of one message share it.   *)
(* Nothing tells omni_var that a portal is dropped.  Values are kept in the *)
(* memory of the portal that sets them, but for the first value of a name   *)
(* when it is passed by value, which is part of the table.                  *)
(*                                                                         *)
(* intended is a history variable: what each portal has set itself.        *)
(***************************************************************************)
EXTENDS Naturals, Sequences

CONSTANTS
  Names, Values, NoValue,
  Portals,         \* portals a session creates, numbered from 1
  MaxMessages      \* bound on client messages

NoPortal == 0

VARIABLES
  now,            \* start time of the current message
  creation_time,  \* of every portal, 0 before it is created
  live,           \* portals that exist
  active,         \* portals being executed, innermost last
  tabOwner,       \* portal whose memory holds statement_tab, NoPortal if NULL
  statement_tab,  \* value of every name
  valueOwner,     \* portal whose memory holds the value of a name
  last_portal,    \* creation time of the portal statement_tab was made for
  intended        \* history: what each portal has set

tab == <<tabOwner, statement_tab, valueOwner, last_portal>>
vars == <<now, creation_time, live, active, tab, intended>>

ActivePortal == active[Len(active)]
EmptyTab == [n \in Names |-> NoValue]
NoOwners == [n \in Names |-> NoPortal]

Init ==
  /\ now = 1
  /\ creation_time = [p \in Portals |-> 0]
  /\ live = {} /\ active = <<>>
  /\ tabOwner = NoPortal /\ statement_tab = EmptyTab /\ valueOwner = NoOwners /\ last_portal = 0
  /\ intended = [p \in Portals |-> EmptyTab]

----------------------------------------------------------------------------
(* The server                                                              *)

\* The next client message; portals that are not dropped stay suspended.
Message ==
  /\ active = <<>> /\ now < MaxMessages
  /\ now' = now + 1
  /\ UNCHANGED <<creation_time, live, active, tab, intended>>

\* CreatePortal, for the next statement of the message or for a cursor that a
\* running statement opens
CreatePortal(p) ==
  /\ creation_time[p] = 0
  /\ creation_time' = [creation_time EXCEPT ![p] = now]
  /\ live' = live \cup {p}
  /\ UNCHANGED <<now, active, tab, intended>>

\* PortalRun and PortalRunFetch, from the start or after a suspension
Execute(p) ==
  /\ p \in live /\ \A d \in DOMAIN active : active[d] # p
  /\ active' = Append(active, p)
  /\ UNCHANGED <<now, creation_time, live, tab, intended>>

Return ==
  /\ active # <<>>
  /\ active' = SubSeq(active, 1, Len(active) - 1)
  /\ UNCHANGED <<now, creation_time, live, tab, intended>>

\* PortalDrop frees the memory of the portal.
Drop(p) ==
  /\ p \in live /\ \A d \in DOMAIN active : active[d] # p
  /\ live' = live \ {p}
  /\ UNCHANGED <<now, creation_time, active, tab, intended>>

----------------------------------------------------------------------------
(* omni_var                                                                *)

\* Mutant: a table is used for whichever portal comes next
ConsultedIfAny == tabOwner # NoPortal

\* The test both functions make before they use statement_tab
Consulted == tabOwner # NoPortal /\ last_portal = creation_time[ActivePortal]

\* The value goes where set_statement() puts it, given the table it is in now.
StoreValue(n, v, byval, found) ==
  /\ valueOwner' = [IF Consulted THEN valueOwner ELSE NoOwners EXCEPT
                      ![n] = IF byval /\ ~found THEN tabOwner' ELSE ActivePortal]
  /\ intended' = [intended EXCEPT ![ActivePortal][n] = v]

\* Mutant: a new table is made in the memory of the first one
SetStatementOldContext(n, v, byval) ==
  /\ active # <<>>
  /\ Consulted => tabOwner \in live
  /\ IF Consulted
     THEN /\ statement_tab' = [statement_tab EXCEPT ![n] = v]
          /\ UNCHANGED <<tabOwner, last_portal>>
     ELSE /\ statement_tab' = [EmptyTab EXCEPT ![n] = v]
          /\ tabOwner' = IF tabOwner = NoPortal THEN ActivePortal ELSE tabOwner
          /\ last_portal' = creation_time[ActivePortal]
  /\ StoreValue(n, v, byval, Consulted /\ statement_tab[n] # NoValue)
  /\ UNCHANGED <<now, creation_time, live, active>>

\* set_statement(): a new table unless the portal has one
SetStatement(n, v, byval) ==
  /\ active # <<>>
  /\ Consulted => tabOwner \in live
  /\ IF Consulted
     THEN /\ statement_tab' = [statement_tab EXCEPT ![n] = v]
          /\ UNCHANGED <<tabOwner, last_portal>>
     ELSE /\ statement_tab' = [EmptyTab EXCEPT ![n] = v]
          /\ tabOwner' = ActivePortal
          /\ last_portal' = creation_time[ActivePortal]
  /\ StoreValue(n, v, byval, Consulted /\ statement_tab[n] # NoValue)
  /\ UNCHANGED <<now, creation_time, live, active>>

\* set_statement() writes to a table whose memory is gone: the session dies or
\* something else is overwritten.
SetStatementDangling ==
  /\ active # <<>> /\ Consulted /\ tabOwner \notin live
  /\ \/ /\ live' = {} /\ active' = <<>>
        /\ tabOwner' = NoPortal /\ statement_tab' = EmptyTab /\ valueOwner' = NoOwners
        /\ last_portal' = 0
     \/ UNCHANGED <<live, active, tab>>
  /\ UNCHANGED <<now, creation_time, intended>>

\* get_statement(), what it may return for a name: anything, when the memory of the
\* value is gone
GetStatement(n) ==
  IF ~Consulted \/ statement_tab[n] = NoValue THEN {NoValue}
  ELSE IF valueOwner[n] \in live THEN {statement_tab[n]} ELSE Values

\* Everything sent was executed.
Done == active = <<>> /\ now = MaxMessages /\ UNCHANGED vars

Next ==
  \/ Message \/ Return \/ SetStatementDangling \/ Done
  \/ \E p \in Portals : CreatePortal(p) \/ Execute(p) \/ Drop(p)
  \/ \E n \in Names, v \in Values, byval \in BOOLEAN : SetStatement(n, v, byval)

Spec == Init /\ [][Next]_vars

----------------------------------------------------------------------------
(* Properties                                                              *)

\* When a message holds several statements or cursors they share a table: what
\* get_statement() finds in a table and a value that still exist was set for the
\* same message, never for an earlier or a later one, also when portals of other
\* messages ran in between.
CarriedOnlyWithinMessage ==
  active # <<>> /\ tabOwner \in live =>
    \A n \in Names :
      valueOwner[n] \in live =>
        GetStatement(n) \subseteq {NoValue} \cup
          {intended[q][n] : q \in {r \in Portals : creation_time[r] = creation_time[ActivePortal]}}

\* "does not carry variable across statements" (tests/statement_variables.yml):
\* the table that is used and the values in it belong to the statement that uses
\* them, and so still exist, when this statement is the only one of its message.
TableOfOwnStatement ==
  active # <<>> /\ Consulted
    /\ (\A q \in Portals \ {ActivePortal} : creation_time[q] # creation_time[ActivePortal])
  => /\ tabOwner = ActivePortal
     /\ \A n \in Names : statement_tab[n] # NoValue => valueOwner[n] = ActivePortal
============================================================================
