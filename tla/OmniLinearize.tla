--------------------------- MODULE OmniLinearize ---------------------------
(***************************************************************************)
(* Linearized transactions of omni_txn                                     *)
(* (extensions/omni_txn/linearization.c).                                  *)
(*                                                                         *)
(* Every backend has a slot in shared memory: a status and the conflicts    *)
(* other backends have recorded for it.  A statement that writes looks for *)
(* predicate locks of others on its relations; a statement that reads      *)
(* looks for conflicts.  Before a commit both are looked for again, one     *)
(* relation after the other, and the written relations are recorded with   *)
(* all backends in progress.  No lock is held over these steps.            *)
(*                                                                         *)
(* The predicate locks are those of the server: taken while a statement    *)
(* runs, released by an abort, and kept after a commit as long as a         *)
(* transaction that overlaps is running.                                   *)
(*                                                                         *)
(* An error of a statement ends the transaction or is caught in a           *)
(* savepoint; one of the commit hook ends it.                              *)
(*                                                                         *)
(* cur, reads, wrote, forgotten, overlap, linearized, committed, obliged    *)
(* and lost describe the transactions themselves, not the code.            *)
(***************************************************************************)
EXTENDS Naturals, FiniteSets

CONSTANTS
  Backends, Rels,
  NoRel,           \* no relation; what a conflict slot holds at first
  MaxConflicts,    \* MAX_CONFLICTS, 1024 in the code
  LockTargets,     \* what a read leaves a predicate lock on: relation, index
  Writers,         \* what writes: modify (INSERT...), with (a SELECT with a
                   \* data-modifying WITH)
  MaxTxn           \* bound on the transactions of each backend

ASSUME ConstantsAssumption ==
  /\ NoRel \notin Rels
  /\ MaxConflicts \in Nat \ {0} /\ MaxTxn \in [Backends -> Nat]
  /\ LockTargets \subseteq {"relation", "index"}
  /\ Writers \subseteq {"modify", "with"}

Txns == UNION {{b} \X (1..MaxTxn[b]) : b \in Backends}

VARIABLES
  phase,              \* where each backend is
  linearize_enabled,
  linearized_writes,
  status,             \* in the slot: Inactive, In_Progress or Committing
  xact,               \* in the slot: whether it is set
  numconflicts,       \* in the slot
  conflicts,          \* in the slot
  reading,            \* relation of a read that was checked and not yet run
  todo,               \* written relations not yet dealt with before commit
  rel,                \* the one being dealt with
  left,               \* backends it is still to be recorded with
  tested,             \* one that was found in progress and has no slot reserved yet
  slot,               \* the conflict slot reserved for it, or <<>>
  locks,              \* predicate locks: <<transaction, relation>>
  cur,                \* number of the current transaction of a backend
  reads,              \* <<transaction, relation>> it has read under a lock on it
  wrote,              \* relations written, by INSERT and the like, since linearize()
  forgotten,          \* ... between the first and the last call of linearize()
  overlap,            \* pairs of transactions that ran at the same time
  linearized,         \* transactions that called linearize()
  committed,          \* transactions that have committed
  obliged,            \* what the rules demand
  lost                \* transactions that may have lost conflicts: a slot was reserved
                      \* twice, or a failure that resets the slots was caught

local == <<linearize_enabled, linearized_writes>>
shared == <<status, xact, numconflicts, conflicts>>
commit == <<todo, rel, left, tested, slot>>
events == <<cur, reads, wrote, forgotten, overlap, linearized, committed, obliged>>
truth == <<events, lost>>
vars == <<phase, local, shared, commit, reading, locks, truth>>

Txn(b) == <<b, cur[b]>>
Running == {Txn(b) : b \in {x \in Backends : phase[x] # "idle"}}

Init ==
  /\ phase = [b \in Backends |-> "idle"]
  /\ linearize_enabled = [b \in Backends |-> FALSE]
  /\ linearized_writes = [b \in Backends |-> {}]
  /\ status = [b \in Backends |-> "Inactive"] /\ xact = [b \in Backends |-> FALSE]
  /\ numconflicts = [b \in Backends |-> 0]
  /\ conflicts = [b \in Backends |-> [i \in 0..MaxConflicts - 1 |-> NoRel]]
  /\ reading = [b \in Backends |-> NoRel]
  /\ todo = [b \in Backends |-> {}]
  /\ rel = [b \in Backends |-> NoRel]
  /\ left = [b \in Backends |-> {}]
  /\ tested = [b \in Backends |-> {}]
  /\ slot = [b \in Backends |-> <<>>]
  /\ locks = {} /\ cur = [b \in Backends |-> 0]
  /\ reads = {} /\ wrote = [b \in Backends |-> {}]
  /\ forgotten = [b \in Backends |-> {}]
  /\ overlap = {} /\ linearized = {} /\ committed = {} /\ obliged = {}
  /\ lost = {}

----------------------------------------------------------------------------
(* The end of a transaction                                                *)

\* __reset_control
Reset(b) ==
  /\ status' = [status EXCEPT ![b] = "Inactive"] /\ xact' = [xact EXCEPT ![b] = FALSE]
  /\ numconflicts' = [numconflicts EXCEPT ![b] = 0]
  /\ UNCHANGED conflicts

\* The server aborts the transaction; the hook for the event only clears
\* linearize_enabled.
Aborted(b) ==
  /\ phase' = [phase EXCEPT ![b] = "idle"]
  /\ linearize_enabled' = [linearize_enabled EXCEPT ![b] = FALSE]
  /\ reading' = [reading EXCEPT ![b] = NoRel]
  /\ todo' = [todo EXCEPT ![b] = {}]
  /\ rel' = [rel EXCEPT ![b] = NoRel]
  /\ locks' = {l \in locks : l[1] # Txn(b)}
  /\ reads' = {l \in reads : l[1] # Txn(b)}
  /\ overlap' = {p \in overlap : Txn(b) \notin {p[1], p[2]}}
  /\ obliged' = {o \in obliged : Txn(b) \notin {o.reader, o.writer}}
  /\ linearized' = linearized \ {Txn(b)}
  /\ wrote' = [wrote EXCEPT ![b] = {}]
  /\ forgotten' = [forgotten EXCEPT ![b] = {}]
  /\ UNCHANGED <<linearized_writes, left, tested, slot, cur, committed, lost>>

\* ROLLBACK, or an error in the transaction that is not about linearization
Abort(b) ==
  /\ phase[b] = "open"
  /\ Aborted(b)
  /\ UNCHANGED shared

\* Predicate locks of a committed transaction go when nothing overlaps.
ForgetLocks(t) ==
  /\ t \in committed /\ \E l \in locks : l[1] = t
  /\ \A u \in Running : <<t, u>> \notin overlap
  /\ locks' = {l \in locks : l[1] # t}
  /\ UNCHANGED <<phase, local, shared, commit, reading, truth>>

----------------------------------------------------------------------------
(* Statements                                                              *)

\* The first thing linearize_executor_start does; the xact of an aborted transaction
\* is still there.
Rejoin(b) ==
  IF linearize_enabled[b] /\ ~xact[b]
  THEN /\ xact' = [xact EXCEPT ![b] = TRUE]
       /\ status' = [status EXCEPT ![b] = "In_Progress"]
  ELSE UNCHANGED <<xact, status>>

\* A statement fails and its slots are reset; a transaction that catches the error
\* goes on, linearized, with what was recorded for it lost.
FailReset(b) ==
  /\ Reset(b)
  /\ \/ Aborted(b)
     \/ /\ lost' = lost \cup {Txn(b)}
        /\ UNCHANGED <<phase, local, commit, reading, locks, events>>

Begin(b) ==
  /\ phase[b] = "idle" /\ cur[b] < MaxTxn[b]
  /\ phase' = [phase EXCEPT ![b] = "open"]
  /\ cur' = [cur EXCEPT ![b] = @ + 1]
  /\ LET t == <<b, cur[b] + 1>>
     IN  overlap' = overlap \cup ({t} \X Running) \cup (Running \X {t})
  /\ UNCHANGED <<local, shared, commit, reading, locks, reads, wrote, forgotten,
                 linearized, committed, obliged, lost>>

\* linearize() in a serializable transaction, for the first time or again
Linearize(b) ==
  /\ phase[b] = "open" /\ reading[b] = NoRel
  /\ status' = [status EXCEPT ![b] = "In_Progress"]
  /\ linearize_enabled' = [linearize_enabled EXCEPT ![b] = TRUE]
  /\ linearized_writes' = [linearized_writes EXCEPT ![b] = {}]
  /\ linearized' = linearized \cup {Txn(b)}
  /\ wrote' = [wrote EXCEPT ![b] = {}]
  /\ forgotten' = [forgotten EXCEPT ![b] = @ \cup wrote[b]]
  /\ UNCHANGED <<phase, xact, numconflicts, conflicts, commit, reading, locks, cur, reads,
                 overlap, committed, obliged, lost>>

\* check_if_rel_in_conflict finds the relation.
InConflict(b, r) == \E i \in 0..numconflicts[b] - 1 : i < MaxConflicts /\ conflicts[b][i] = r

\* linearize_executor_start, for a statement that reads
ReadStart(b, r) ==
  /\ phase[b] = "open" /\ reading[b] = NoRel
  /\ IF linearize_enabled[b] /\ InConflict(b, r)
     THEN FailReset(b)
     ELSE /\ reading' = [reading EXCEPT ![b] = r]
          /\ Rejoin(b)
          /\ UNCHANGED <<phase, local, commit, locks, truth, numconflicts, conflicts>>

\* The statement runs: the server takes the predicate lock, on the relation or a
\* part of it, or, when an index scan finds no row, on the index alone.
ReadRun(b, target) ==
  /\ reading[b] # NoRel
  /\ reading' = [reading EXCEPT ![b] = NoRel]
  /\ LET lock == IF target = "relation" THEN {<<Txn(b), reading[b]>>} ELSE {}
     IN  locks' = locks \cup lock /\ reads' = reads \cup lock
  /\ UNCHANGED <<phase, local, shared, commit, cur, wrote, forgotten, overlap,
                 linearized, committed, obliged, lost>>

LockedByOther(b, r) == \E l \in locks : l[2] = r /\ l[1][1] # b

\* linearize_executor_start looks at INSERT, UPDATE, DELETE and MERGE for locks
\* of others, and fails without resetting its slot; it takes a SELECT for a
\* read, whatever its WITH clause does.
Refused(b, r, writer) ==
  /\ linearize_enabled[b]
  /\ IF writer = "modify" THEN LockedByOther(b, r) ELSE InConflict(b, r)

\* The relation is in linearized_writes by then; when the transaction ends, that is
\* of no use any longer.
FailWrite(b, r) ==
  /\ Rejoin(b)
  /\ UNCHANGED <<numconflicts, conflicts>>
  /\ \/ Aborted(b)
     \/ /\ linearized_writes' = [linearized_writes EXCEPT ![b] = @ \cup {r}]
        /\ UNCHANGED <<phase, linearize_enabled, commit, reading, locks, truth>>

RefuseWrite(b, r, writer) ==
  /\ phase[b] = "open" /\ reading[b] = NoRel
  /\ Refused(b, r, writer)
  /\ IF writer = "modify" THEN FailWrite(b, r) ELSE FailReset(b)

Write(b, r, writer) ==
  /\ phase[b] = "open" /\ reading[b] = NoRel
  /\ ~Refused(b, r, writer)
  /\ linearized_writes' = IF linearize_enabled[b] /\ writer = "modify"
                          THEN [linearized_writes EXCEPT ![b] = @ \cup {r}]
                          ELSE linearized_writes
  /\ wrote' = IF linearize_enabled[b] /\ writer = "modify"
              THEN [wrote EXCEPT ![b] = @ \cup {r}] ELSE wrote
  /\ Rejoin(b)
  /\ UNCHANGED <<phase, linearize_enabled, numconflicts, conflicts, commit, reading, locks,
                 cur, reads, forgotten, overlap, linearized, committed, obliged, lost>>

----------------------------------------------------------------------------
(* linearize_xact_callback                                                 *)

\* Transactions that have to fail if b's one commits, because of relations it wrote
Oblige(rule, readers, b, rels) ==
  [rule : {rule}, reader : readers, writer : {Txn(b)}, rel : rels]

Overlapping(b) == {t \in linearized : t[1] # b /\ <<t, Txn(b)>> \in overlap}
ObligeReaders(rule, b, rels) ==
  {o \in Oblige(rule, Overlapping(b), b, rels) : <<o.reader, o.rel>> \in reads}
StillOpen(b) == {t \in Overlapping(b) : phase[t[1]] = "open" /\ cur[t[1]] = t[2]}
ObligeOpen(b) ==
  {[o EXCEPT !.rule = "open"] :
     o \in {q \in obliged : /\ q.rule = "maybe open" /\ q.writer = Txn(b)
                            /\ q.reader \in StillOpen(b)}}

\* XACT_EVENT_PRE_COMMIT; the status changes before anything is looked at.
PreCommit(b) ==
  /\ phase[b] = "open" /\ reading[b] = NoRel
  /\ IF linearize_enabled[b]
     THEN /\ phase' = [phase EXCEPT ![b] = "own"]
          /\ status' = [status EXCEPT ![b] = "Committing"]
          /\ obliged' = obliged \cup ObligeReaders("read before", b, wrote[b])
                                \cup ObligeReaders("forgotten", b, forgotten[b])
                                \cup Oblige("maybe open", StillOpen(b), b, wrote[b])
     ELSE /\ phase' = [phase EXCEPT ![b] = "commit"]
          /\ UNCHANGED <<status, obliged>>
  /\ UNCHANGED <<local, xact, numconflicts, conflicts, commit, reading, locks, cur, reads,
                 wrote, forgotten, overlap, linearized, committed, lost>>

\* Mutant: the relations read are not compared with the conflicts
CheckOwnUnchecked(b) ==
  /\ phase[b] = "own"
  /\ phase' = [phase EXCEPT ![b] = "rels"]
  /\ todo' = [todo EXCEPT ![b] = linearized_writes[b]]
  /\ UNCHANGED <<local, shared, rel, left, tested, slot, reading, locks, truth>>

\* The first loop: the relations this transaction has predicate locks on
CheckOwn(b) ==
  /\ phase[b] = "own"
  /\ IF \E l \in locks : l[1][1] = b /\ InConflict(b, l[2])
     THEN Aborted(b) /\ Reset(b)
     ELSE /\ phase' = [phase EXCEPT ![b] = "rels"]
          /\ todo' = [todo EXCEPT ![b] = linearized_writes[b]]
          /\ UNCHANGED <<local, shared, rel, left, tested, slot, reading, locks, truth>>

\* Mutant: locks of others are not looked for again before the commit
CheckLocksUnchecked(b, r) ==
  /\ phase[b] = "rels" /\ r \in todo[b]
  /\ phase' = [phase EXCEPT ![b] = "push"]
  /\ todo' = [todo EXCEPT ![b] = @ \ {r}]
  /\ rel' = [rel EXCEPT ![b] = r]
  /\ left' = [left EXCEPT ![b] = Backends \ {b}]
  /\ UNCHANGED <<local, shared, tested, slot, reading, locks, truth>>

\* The loop over the written relations: predicate locks of others
CheckLocks(b, r) ==
  /\ phase[b] = "rels" /\ r \in todo[b]
  /\ IF LockedByOther(b, r)
     THEN Aborted(b) /\ Reset(b)
     ELSE /\ phase' = [phase EXCEPT ![b] = "push"]
          /\ todo' = [todo EXCEPT ![b] = @ \ {r}]
          /\ rel' = [rel EXCEPT ![b] = r]
          /\ left' = [left EXCEPT ![b] = Backends \ {b}]
          /\ UNCHANGED <<local, shared, tested, slot, reading, locks, truth>>

\* ... then the backends, one after the other: its status is looked at, ...
PushTest(b, i) ==
  /\ phase[b] = "push" /\ slot[b] = <<>> /\ tested[b] = {} /\ i \in left[b]
  /\ left' = [left EXCEPT ![b] = @ \ {i}]
  /\ tested' = IF status[i] = "In_Progress" THEN [tested EXCEPT ![b] = {i}] ELSE tested
  /\ UNCHANGED <<phase, local, shared, todo, rel, slot, reading, locks, truth>>

\* ... a slot is reserved, whatever the status is now, ...  It may be one that was
\* reserved, and is not yet filled, for a transaction that has reset its slots since.
PushReserve(b, i) ==
  /\ phase[b] = "push" /\ slot[b] = <<>> /\ i \in tested[b]
  /\ numconflicts[i] < MaxConflicts /\ xact[b]
  /\ numconflicts' = [numconflicts EXCEPT ![i] = @ + 1]
  /\ slot' = [slot EXCEPT ![b] = <<i, numconflicts[i]>>]
  /\ tested' = [tested EXCEPT ![b] = @ \ {i}]
  /\ lost' = IF \E c \in Backends : slot[c] = <<i, numconflicts[i]>>
             THEN lost \cup {Txn(i)} ELSE lost
  /\ UNCHANGED <<phase, local, status, xact, conflicts, todo, rel, left, reading, locks, events>>

\* ... and filled
PushFill(b) ==
  /\ slot[b] # <<>>
  /\ conflicts' = [conflicts EXCEPT ![slot[b][1]][slot[b][2]] = rel[b]]
  /\ slot' = [slot EXCEPT ![b] = <<>>]
  /\ UNCHANGED <<phase, local, status, xact, numconflicts, todo, rel, left, tested, reading,
                 locks, truth>>

\* ... or there is none: the slot of the backend itself is reset and its xact
\* read after that through a null pointer; the server restarts.  It does so as well
\* when an error that resets the slot was caught and no statement came after it.
PushCrash(b, i) ==
  /\ phase[b] = "push" /\ slot[b] = <<>> /\ i \in tested[b]
  /\ numconflicts[i] >= MaxConflicts \/ ~xact[b]
  /\ phase' = [x \in Backends |-> "idle"]
  /\ linearize_enabled' = [x \in Backends |-> FALSE]
  /\ linearized_writes' = [x \in Backends |-> {}]
  /\ status' = [x \in Backends |-> "Inactive"] /\ xact' = [x \in Backends |-> FALSE]
  /\ numconflicts' = [x \in Backends |-> 0]
  /\ conflicts' = [x \in Backends |-> [n \in 0..MaxConflicts - 1 |-> NoRel]]
  /\ reading' = [x \in Backends |-> NoRel]
  /\ todo' = [x \in Backends |-> {}] /\ rel' = [x \in Backends |-> NoRel]
  /\ left' = [x \in Backends |-> {}] /\ tested' = [x \in Backends |-> {}]
  /\ slot' = [x \in Backends |-> <<>>]
  /\ locks' = {}
  /\ wrote' = [x \in Backends |-> {}] /\ forgotten' = [x \in Backends |-> {}]
  /\ UNCHANGED <<cur, reads, overlap, linearized, committed, obliged, lost>>

PushDone(b) ==
  /\ phase[b] = "push" /\ slot[b] = <<>> /\ tested[b] = {} /\ left[b] = {}
  /\ phase' = [phase EXCEPT ![b] = "rels"]
  /\ rel' = [rel EXCEPT ![b] = NoRel]
  /\ UNCHANGED <<local, shared, todo, left, tested, slot, reading, locks, truth>>

\* The hook is done: the slot is reset and the transaction no longer linearized.
PreCommitDone(b) ==
  /\ phase[b] = "rels" /\ todo[b] = {}
  /\ Reset(b)
  /\ linearize_enabled' = [linearize_enabled EXCEPT ![b] = FALSE]
  /\ phase' = [phase EXCEPT ![b] = "commit"]
  /\ UNCHANGED <<linearized_writes, commit, reading, locks, truth>>

\* The server commits.
Commit(b) ==
  /\ phase[b] = "commit"
  /\ phase' = [phase EXCEPT ![b] = "idle"]
  /\ committed' = committed \cup {Txn(b)}
  /\ wrote' = [wrote EXCEPT ![b] = {}]
  /\ forgotten' = [forgotten EXCEPT ![b] = {}]
  /\ obliged' = IF Txn(b) \notin linearized THEN obliged
                ELSE obliged \cup ObligeReaders("2", b, wrote[b]) \cup ObligeOpen(b)
  /\ UNCHANGED <<local, shared, commit, reading, locks, cur, reads, overlap,
                 linearized, lost>>

\* Every backend has run its transactions.
Done ==
  /\ \A b \in Backends : phase[b] = "idle" /\ cur[b] = MaxTxn[b]
  /\ UNCHANGED vars

Next ==
  \/ \E b \in Backends :
       \/ Begin(b) \/ Linearize(b) \/ Abort(b)
       \/ PreCommit(b) \/ CheckOwn(b) \/ PushFill(b) \/ PushDone(b)
       \/ PreCommitDone(b) \/ Commit(b)
       \/ \E target \in LockTargets : ReadRun(b, target)
       \/ \E r \in Rels : ReadStart(b, r) \/ CheckLocks(b, r)
       \/ \E r \in Rels, writer \in Writers : Write(b, r, writer) \/ RefuseWrite(b, r, writer)
       \/ \E i \in Backends : PushTest(b, i) \/ PushReserve(b, i) \/ PushCrash(b, i)
  \/ \E t \in Txns : ForgetLocks(t)
  \/ Done

Spec == Init /\ [][Next]_vars

----------------------------------------------------------------------------
(* Properties                                                              *)

Broken(rule) ==
  {o \in obliged : /\ o.rule = rule
                   /\ {o.reader, o.writer} \subseteq committed
                   /\ <<o.reader, o.rel>> \in reads}

\* A linearized transaction has read a relation, with a predicate lock on it or a
\* part of it, before an overlapping one that has written it with an INSERT,
\* UPDATE, DELETE or MERGE, since it last called linearize(), comes to its commit:
\* one of the two fails, whatever errors were caught in savepoints.
ReadBeforeCommitDetected == Broken("read before") = {}

\* A transaction is linearized before another comes to its commit and still
\* open when that commit is done: it fails if it ever reads, with a lock on it, a
\* relation that the other one has written since it last called linearize().
\* (Unless it has lost conflicts: one of its slots was reserved twice, so that the
\* later of two writers overwrites what the other has recorded, or it has caught the
\* error of an earlier conflict, which resets the slots.)
OpenReaderDetected == \A o \in Broken("open") : o.reader \in lost

\* Rule 2 (docs/linearize.md): any commit in SLT1 that wrote into a relation that
\* happens after another SLT0 read from the same relation must result in a
\* failure in either transaction.
Rule2 == Broken("2") = {}

\* The same rule for a transaction that calls linearize() more than once, and only for
\* reads that come before the commit hook is begun: what it has written between two
\* calls counts as well.
Rule2CallAgain == Broken("forgotten") = {}
============================================================================
