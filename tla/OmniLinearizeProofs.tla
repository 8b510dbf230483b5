------------------------ MODULE OmniLinearizeProofs ------------------------
(***************************************************************************)
(* Proofs about OmniLinearize, for any number of backends, relations,       *)
(* transactions and conflict slots.                                        *)
(*                                                                         *)
(* A lock that the server keeps makes a writer find those who have read     *)
(* before; a conflict in a slot nobody else is about to fill makes a        *)
(* reader find those who have written.                                     *)
(***************************************************************************)
EXTENDS OmniLinearize, TLAPS

AllTxns == Backends \X Nat
Runs(t) == phase[t[1]] # "idle" /\ cur[t[1]] = t[2]

Obligations ==
  [rule : {"read before", "forgotten", "maybe open", "open", "2"},
   reader : AllTxns, writer : AllTxns, rel : Rels]

\* What the backends and their slots hold
StateTypes ==
  /\ phase \in [Backends -> {"idle", "open", "own", "rels", "push", "commit"}]
  /\ linearize_enabled \in [Backends -> BOOLEAN]
  /\ linearized_writes \in [Backends -> SUBSET Rels]
  /\ status \in [Backends -> {"Inactive", "In_Progress", "Committing"}]
  /\ numconflicts \in [Backends -> 0..MaxConflicts]
  /\ conflicts \in [Backends -> [0..MaxConflicts - 1 -> Rels \cup {NoRel}]]
  /\ reading \in [Backends -> Rels \cup {NoRel}]
  /\ todo \in [Backends -> SUBSET Rels]
  /\ rel \in [Backends -> Rels \cup {NoRel}]
  /\ left \in [Backends -> SUBSET Backends] /\ tested \in [Backends -> SUBSET Backends]
  /\ slot \in [Backends -> {<<>>} \cup Backends \X (0..MaxConflicts - 1)]

\* What there is to tell of transactions: none of them is to come.
HistoryTypes ==
  /\ cur \in [Backends -> Nat]
  /\ wrote \in [Backends -> SUBSET Rels] /\ forgotten \in [Backends -> SUBSET Rels]
  /\ reads \subseteq AllTxns \X Rels /\ locks \subseteq AllTxns \X Rels
  /\ overlap \subseteq AllTxns \X AllTxns
  /\ linearized \subseteq AllTxns /\ committed \subseteq AllTxns
  /\ obliged \subseteq Obligations

Come(t) == t[2] <= cur[t[1]]

Numbered ==
  /\ \A l \in reads : Come(l[1])
  /\ \A t \in linearized : Come(t)
  /\ \A t \in committed : Come(t) /\ ~Runs(t)
  /\ \A p \in overlap : Come(p[1]) /\ Come(p[2])
  /\ \A o \in obliged : Come(o.reader) /\ Come(o.writer) /\ o.reader[1] # o.writer[1]

\* What a backend knows of its own transaction
LocalOf(b) ==
  /\ phase[b] \in {"idle", "commit"} => ~linearize_enabled[b]
  /\ linearize_enabled[b] => Txn(b) \in linearized
  /\ phase[b] = "open" /\ Txn(b) \in linearized => linearize_enabled[b]
  /\ phase[b] = "open" /\ linearize_enabled[b] /\ Txn(b) \notin lost =>
       status[b] = "In_Progress"
  /\ wrote[b] # {} => phase[b] # "idle" /\ Txn(b) \in linearized
  /\ wrote[b] \subseteq linearized_writes[b]
  /\ reading[b] # NoRel => phase[b] = "open"
  /\ slot[b] # <<>> => phase[b] = "push"

Local == \A b \in Backends : LocalOf(b)

\* The server keeps the lock of a read while its transaction or one that overlaps runs.
LocksKept ==
  \A l \in reads :
    Runs(l[1]) \/ (\E u \in AllTxns : Runs(u) /\ <<l[1], u>> \in overlap) => l \in locks

\* The loop over the written relations has yet to come to this one.
ToCheck(b, r) ==
  \/ phase[b] = "own" /\ r \in linearized_writes[b]
  \/ phase[b] \in {"rels", "push"} /\ r \in todo[b]

ReadBeforeOK ==
  \A o \in obliged : o.rule = "read before" =>
    /\ <<o.reader, o.rel>> \in reads /\ <<o.reader, o.writer>> \in overlap
    /\ o.writer \notin committed
    /\ Runs(o.writer) => ToCheck(o.writer[1], o.rel)

\* A slot that is reserved or filled, and that nobody else is about to fill
Own(b, i, k) == k < numconflicts[i] /\ \A c \in Backends \ {b} : slot[c] # <<i, k>>

Filling(b, i, r) == rel[b] = r /\ \E k \in 0..MaxConflicts - 1 : slot[b] = <<i, k>> /\ Own(b, i, k)

Recorded(i, r) ==
  \E k \in 0..MaxConflicts - 1 :
    conflicts[i][k] = r /\ k < numconflicts[i] /\ \A c \in Backends : slot[c] # <<i, k>>

\* What a writer does, or has done, for a reader that is open
Provided(o) ==
  LET b == o.writer[1]
      i == o.reader[1]
  IN  \/ ToCheck(b, o.rel)
      \/ phase[b] = "push" /\ rel[b] = o.rel /\ i \in left[b] \cup tested[b]
      \/ phase[b] = "push" /\ Filling(b, i, o.rel)
      \/ phase[b] \in {"rels", "push", "commit"} /\ Recorded(i, o.rel)

BothOpen(o) == Runs(o.writer) /\ Runs(o.reader) /\ phase[o.reader[1]] = "open"

MaybeOpenOK ==
  \A o \in obliged : o.rule = "maybe open" =>
    /\ o.reader \in linearized
    /\ BothOpen(o) /\ o.reader \notin lost => Provided(o)

\* What that means for the reader: it finds the conflict, or has looked for it and not
\* read the relation.
Finds(o) ==
  /\ phase[o.reader[1]] \in {"open", "own"} => Recorded(o.reader[1], o.rel)
  /\ phase[o.reader[1]] \in {"rels", "push", "commit"} => <<o.reader, o.rel>> \notin reads

OpenOK ==
  \A o \in obliged : o.rule = "open" =>
    /\ o.reader \in linearized
    /\ Runs(o.reader) /\ o.reader \notin lost => Finds(o)
    /\ o.reader \in committed /\ o.reader \notin lost => <<o.reader, o.rel>> \notin reads

LinearizeInv ==
  /\ StateTypes /\ HistoryTypes /\ Numbered /\ Local /\ LocksKept
  /\ ReadBeforeOK /\ MaybeOpenOK /\ OpenOK

----------------------------------------------------------------------------
(* What most steps leave alone                                             *)

\* The running transactions are the current ones of backends that are not idle.
LEMMA RunningTxn ==
  ASSUME NEW t \in AllTxns, Runs(t)
  PROVE  t = Txn(t[1]) /\ t \in Running
<1>1. t = <<t[1], t[2]>> /\ t[1] \in Backends
  BY DEF AllTxns
<1>2. t = Txn(t[1])
  BY <1>1 DEF Runs, Txn
<1> QED BY <1>1, <1>2 DEF Running, Runs

\* The reads, the locks and what overlaps are left alone; a running transaction may
\* become linearized.
LEMMA SameHistory ==
  ASSUME LinearizeInv, UNCHANGED <<cur, reads, overlap, committed, obliged>>,
         wrote' = wrote \/ wrote' \in [Backends -> SUBSET Rels],
         forgotten' = forgotten \/ forgotten' \in [Backends -> SUBSET Rels],
         linearized' \subseteq linearized \cup Running,
         locks' = locks, \A c \in Backends : phase'[c] = "idle" <=> phase[c] = "idle"
  PROVE  HistoryTypes' /\ Numbered' /\ LocksKept' /\ \A t \in AllTxns : Runs(t)' <=> Runs(t)
<1>1. \A t \in AllTxns : Runs(t)' <=> Runs(t)
  BY DEF Runs, AllTxns
<1>2. \A t \in Running : t \in AllTxns /\ Come(t)
  BY DEF Running, Txn, LinearizeInv, HistoryTypes, AllTxns, Come
<1>3. HistoryTypes'
  BY <1>2 DEF LinearizeInv, HistoryTypes, AllTxns, Obligations
<1>4. Numbered'
  BY <1>1, <1>2 DEF LinearizeInv, Numbered, HistoryTypes, Come
<1>5. LocksKept'
  <2> SUFFICES ASSUME NEW l \in reads,
                      Runs(l[1])' \/ \E u \in AllTxns : Runs(u)' /\ <<l[1], u>> \in overlap
               PROVE  l \in locks
    BY DEF LocksKept
  <2>1. l[1] \in AllTxns
    BY DEF LinearizeInv, HistoryTypes
  <2> QED BY <1>1, <2>1 DEF LinearizeInv, LocksKept
<1> QED BY <1>1, <1>3, <1>4, <1>5

\* A conflict that is recorded is found.
LEMMA RecordedIsFound ==
  ASSUME LinearizeInv, NEW i \in Backends, NEW r, Recorded(i, r)
  PROVE  InConflict(i, r)
<1>1. PICK k \in 0..MaxConflicts - 1 : conflicts[i][k] = r /\ k < numconflicts[i]
  BY DEF Recorded
<1>2. MaxConflicts \in Nat
  BY ConstantsAssumption
<1>3. numconflicts[i] \in 0..MaxConflicts
  BY DEF LinearizeInv, StateTypes
<1>4. k \in 0..numconflicts[i] - 1 /\ k < MaxConflicts
  BY <1>1, <1>2, <1>3
<1> QED BY <1>1, <1>4 DEF InConflict

\* A conflict that is recorded stays so, whatever slots others reserve and fill ...
LEMMA RecordedStays ==
  ASSUME NEW i \in Backends, NEW r, Recorded(i, r),
         \A k \in 0..MaxConflicts - 1 :
           k < numconflicts[i] =>
             /\ k < numconflicts'[i]
             /\ (\A c \in Backends : slot[c] # <<i, k>>) =>
                  conflicts'[i][k] = conflicts[i][k] /\ \A c \in Backends : slot'[c] # <<i, k>>
  PROVE  Recorded(i, r)'
BY DEF Recorded

\* ... and so does a slot that is about to be filled.
LEMMA FillingStays ==
  ASSUME NEW b \in Backends, NEW i \in Backends, NEW r, Filling(b, i, r),
         rel'[b] = rel[b], slot'[b] = slot[b],
         \A k \in 0..MaxConflicts - 1 :
           k < numconflicts[i] =>
             /\ k < numconflicts'[i]
             /\ \A c \in Backends \ {b} : slot[c] # <<i, k>> => slot'[c] # <<i, k>>
  PROVE  Filling(b, i, r)'
BY DEF Filling, Own

\* The parts of obligations
LEMMA ObligationFacts ==
  ASSUME LinearizeInv, NEW o \in obliged
  PROVE  /\ o.reader \in AllTxns /\ o.writer \in AllTxns /\ o.rel \in Rels
         /\ o.reader[1] \in Backends /\ o.writer[1] \in Backends
         /\ o.reader[1] # o.writer[1] /\ Come(o.reader) /\ Come(o.writer)
<1>1. o \in Obligations
  BY DEF LinearizeInv, HistoryTypes
<1>2. o.reader \in AllTxns /\ o.writer \in AllTxns /\ o.rel \in Rels
  BY <1>1 DEF Obligations
<1> QED BY <1>2 DEF LinearizeInv, Numbered, AllTxns

\* One backend goes on by itself: what the obligations need of its step
LEMMA SameObligations ==
  ASSUME LinearizeInv, UNCHANGED <<cur, reads, overlap, committed, obliged>>,
         \A c \in Backends : phase'[c] = "idle" <=> phase[c] = "idle",
         linearized \subseteq linearized', lost \subseteq lost',
         \A o \in obliged :
           o.rule = "read before" /\ Runs(o.writer) => ToCheck(o.writer[1], o.rel)',
         \A o \in obliged :
           o.rule = "maybe open" /\ BothOpen(o)' /\ o.reader \notin lost' => Provided(o)',
         \A o \in obliged :
           o.rule = "open" /\ Runs(o.reader) /\ o.reader \notin lost' => Finds(o)'
  PROVE  ReadBeforeOK' /\ MaybeOpenOK' /\ OpenOK'
<1>1. \A o \in obliged : (Runs(o.writer)' <=> Runs(o.writer)) /\ (Runs(o.reader)' <=> Runs(o.reader))
  BY ObligationFacts DEF Runs, AllTxns
<1>2. ReadBeforeOK'
  BY <1>1 DEF ReadBeforeOK, LinearizeInv
<1>3. MaybeOpenOK'
  BY DEF MaybeOpenOK, LinearizeInv
<1>4. OpenOK'
  BY <1>1 DEF OpenOK, LinearizeInv
<1> QED BY <1>2, <1>3, <1>4


----------------------------------------------------------------------------
(* Steps of a backend that leave the history alone                         *)

\* What the start of a statement does to the status of its backend
LEMMA RejoinStatus ==
  ASSUME LinearizeInv, NEW b \in Backends, Rejoin(b)
  PROVE  /\ status' \in [Backends -> {"Inactive", "In_Progress", "Committing"}]
         /\ \A c \in Backends \ {b} : status'[c] = status[c]
         /\ status[b] = "In_Progress" => status'[b] = "In_Progress"
<1>1. status \in [Backends -> {"Inactive", "In_Progress", "Committing"}]
  BY DEF LinearizeInv, StateTypes
<1>2. status' = status \/ status' = [status EXCEPT ![b] = "In_Progress"]
  BY DEF Rejoin
<1> QED BY <1>1, <1>2

\* A read was checked and may begin.
LEMMA ReadStartStep ==
  ASSUME LinearizeInv, NEW b \in Backends, NEW r \in Rels, phase[b] = "open",
         reading' = [reading EXCEPT ![b] = r],
         Rejoin(b),
         UNCHANGED <<phase, local, todo, rel, left, tested, slot, locks, truth, numconflicts,
                     conflicts>>
  PROVE  LinearizeInv'
<1>1. UNCHANGED <<phase, linearize_enabled, linearized_writes, numconflicts, conflicts,
                  todo, rel, left, tested, slot, locks, cur, reads, wrote, forgotten, overlap,
                  linearized, committed, obliged, lost>>
  BY DEF local, truth, events
<1>2. StateTypes'
  BY <1>1, RejoinStatus DEF LinearizeInv, StateTypes
<1>3. HistoryTypes' /\ Numbered' /\ LocksKept'
  BY <1>1, SameHistory
<1>4. Local'
  <2> SUFFICES ASSUME NEW c \in Backends
               PROVE  LocalOf(c)'
    BY DEF Local
  <2>1. LocalOf(c)
    BY DEF LinearizeInv, Local
  <2>2. status[c] = "In_Progress" => status'[c] = "In_Progress"
    BY RejoinStatus
  <2>3. c = b \/ reading'[c] = reading[c]
    BY DEF LinearizeInv, StateTypes
  <2> QED BY <1>1, <2>1, <2>2, <2>3 DEF LocalOf, Txn
<1>5. ASSUME NEW o \in obliged
      PROVE  /\ ToCheck(o.writer[1], o.rel)' <=> ToCheck(o.writer[1], o.rel)
             /\ BothOpen(o)' <=> BothOpen(o)
             /\ Provided(o)' <=> Provided(o)
             /\ Finds(o)' <=> Finds(o)
  BY <1>1 DEF BothOpen, Provided, Finds, ToCheck, Filling, Own, Recorded, Runs
<1>6. ReadBeforeOK' /\ MaybeOpenOK' /\ OpenOK'
  BY <1>1, <1>5, SameObligations DEF LinearizeInv, ReadBeforeOK, MaybeOpenOK, OpenOK
<1> QED BY <1>2, <1>3, <1>4, <1>6 DEF LinearizeInv

\* What a writer has to do yet after a step of its loops
StillToCheck(b) ==
  \A o \in obliged : o.rule = "read before" /\ o.writer = Txn(b) => o.rel \in todo'[b]

StillToProvide(b, x) ==
  \A o \in obliged :
    o.writer = Txn(b) /\ Provided(o) /\ ~Recorded(o.reader[1], o.rel) =>
      \/ o.rel \in todo'[b]
      \/ x = "push" /\ rel'[b] = o.rel /\ o.reader[1] \in left'[b]

\* A backend before its commit goes from one place to another: nothing but its own
\* place and loops is changed.
LEMMA CommitLoopStep ==
  ASSUME LinearizeInv, NEW b \in Backends, phase[b] \in {"own", "rels", "push"},
         NEW x \in {"rels", "push"}, phase' = [phase EXCEPT ![b] = x],
         UNCHANGED <<local, shared, reading, locks, truth>>,
         todo' \in [Backends -> SUBSET Rels], rel' \in [Backends -> Rels \cup {NoRel}],
         left' \in [Backends -> SUBSET Backends], tested' = tested, slot' = slot, slot[b] = <<>>,
         \A c \in Backends \ {b} : todo'[c] = todo[c] /\ rel'[c] = rel[c] /\ left'[c] = left[c],
         StillToCheck(b), StillToProvide(b, x),
         phase[b] = "own" => \A l \in locks : l[1][1] = b => ~InConflict(b, l[2])
  PROVE  LinearizeInv'
<1>1. UNCHANGED <<linearize_enabled, linearized_writes, status, numconflicts, conflicts, reading, tested,
                  slot, locks, cur, reads, wrote, forgotten, overlap, linearized, committed,
                  obliged, lost>>
  BY DEF local, truth, events, shared
<1>2. /\ phase'[b] = x /\ \A c \in Backends \ {b} : phase'[c] = phase[c]
      /\ phase' \in [Backends -> {"idle", "open", "own", "rels", "push", "commit"}]
  BY DEF LinearizeInv, StateTypes
<1>3. StateTypes'
  BY <1>1, <1>2 DEF LinearizeInv, StateTypes
<1>4. HistoryTypes' /\ Numbered' /\ LocksKept'
  BY <1>1, <1>2, SameHistory
<1>5. Local'
  <2> SUFFICES ASSUME NEW c \in Backends
               PROVE  LocalOf(c)'
    BY DEF Local
  <2>1. LocalOf(c)
    BY DEF LinearizeInv, Local
  <2> QED BY <1>1, <1>2, <2>1 DEF LocalOf, Txn
<1>6. ASSUME NEW t \in AllTxns, t[1] = b, Runs(t)
      PROVE  t = Txn(b)
  BY <1>6, RunningTxn
<1>7. ASSUME NEW i \in Backends, NEW r, Recorded(i, r)
      PROVE  Recorded(i, r)'
  BY <1>1, <1>7 DEF Recorded
<1>8. ASSUME NEW o \in obliged, o.rule = "read before", Runs(o.writer)
      PROVE  ToCheck(o.writer[1], o.rel)'
  <2>1. CASE o.writer[1] = b
    BY <1>2, <1>6, <1>8, <2>1, ObligationFacts DEF ToCheck, StillToCheck
  <2>2. CASE o.writer[1] # b
    <3>1. ToCheck(o.writer[1], o.rel)
      BY <1>8 DEF LinearizeInv, ReadBeforeOK
    <3> QED BY <1>1, <1>2, <2>2, <3>1, ObligationFacts DEF ToCheck
  <2> QED BY <2>1, <2>2
<1>9. ASSUME NEW o \in obliged, o.rule = "maybe open", BothOpen(o)', o.reader \notin lost'
      PROVE  Provided(o)'
  <2>1. o.reader[1] # b /\ BothOpen(o)
    BY <1>1, <1>2, <1>9, ObligationFacts DEF BothOpen, Runs
  <2>2. Provided(o) /\ Runs(o.writer)
    BY <1>1, <1>9, <2>1 DEF LinearizeInv, MaybeOpenOK, BothOpen
  <2>3. CASE o.writer[1] = b
    <3>1. o.writer = Txn(b)
      BY <1>6, <2>2, <2>3, ObligationFacts
    <3>2. CASE Recorded(o.reader[1], o.rel)
      BY <1>2, <1>7, <2>3, <3>2, ObligationFacts DEF Provided
    <3>3. CASE ~Recorded(o.reader[1], o.rel)
      <4>1. \/ o.rel \in todo'[b]
            \/ x = "push" /\ rel'[b] = o.rel /\ o.reader[1] \in left'[b]
        BY <2>2, <3>1, <3>3 DEF StillToProvide
      <4> QED BY <1>2, <2>3, <4>1 DEF Provided, ToCheck
    <3> QED BY <3>2, <3>3
  <2>4. CASE o.writer[1] # b
    <3>1. ToCheck(o.writer[1], o.rel) => ToCheck(o.writer[1], o.rel)'
      BY <1>1, <1>2, <2>4, ObligationFacts DEF ToCheck
    <3>2. Filling(o.writer[1], o.reader[1], o.rel) => Filling(o.writer[1], o.reader[1], o.rel)'
      BY <1>1, <2>4, ObligationFacts DEF Filling, Own
    <3> QED BY <1>2, <1>7, <2>2, <2>4, <3>1, <3>2, ObligationFacts DEF Provided
  <2> QED BY <2>3, <2>4
<1>10. ASSUME NEW o \in obliged, o.rule = "open", Runs(o.reader), o.reader \notin lost'
       PROVE  Finds(o)'
  <2>1. Finds(o)
    BY <1>1, <1>10 DEF LinearizeInv, OpenOK
  <2>2. CASE o.reader[1] = b /\ phase[b] = "own"
    <3>1. <<o.reader, o.rel>> \notin reads
      <4> SUFFICES ASSUME <<o.reader, o.rel>> \in reads
                   PROVE  FALSE
        OBVIOUS
      <4>1. <<o.reader, o.rel>> \in locks
        BY <1>10 DEF LinearizeInv, LocksKept
      <4>2. Recorded(b, o.rel)
        BY <2>1, <2>2 DEF Finds
      <4>3. InConflict(b, o.rel)
        BY <4>2, RecordedIsFound
      <4> QED BY <2>2, <4>1, <4>3
    <3> QED BY <1>1, <1>2, <2>2, <3>1 DEF Finds
  <2>3. CASE o.reader[1] = b /\ phase[b] # "own"
    BY <1>1, <1>2, <2>1, <2>3 DEF Finds
  <2>4. CASE o.reader[1] # b
    BY <1>1, <1>2, <1>7, <2>1, <2>4, ObligationFacts DEF Finds
  <2> QED BY <2>2, <2>3, <2>4
<1>11. ReadBeforeOK' /\ MaybeOpenOK' /\ OpenOK'
  BY <1>1, <1>2, <1>8, <1>9, <1>10, SameObligations
<1> QED BY <1>3, <1>4, <1>5, <1>11 DEF LinearizeInv

\* An obligation of a running transaction: what is left to check
LEMMA OwnObligations ==
  ASSUME LinearizeInv, NEW b \in Backends, phase[b] # "idle", NEW o \in obliged,
         o.writer = Txn(b)
  PROVE  /\ o.writer[1] = b /\ o.reader[1] \in Backends \ {b} /\ Runs(o.writer)
         /\ o.rule = "read before" => /\ ToCheck(b, o.rel) /\ <<o.reader, o.rel>> \in locks
                                      /\ LockedByOther(b, o.rel)
<1>1. o.writer[1] = b /\ Runs(o.writer)
  BY DEF Txn, Runs
<1>2. o.reader[1] \in Backends \ {b}
  BY <1>1, ObligationFacts
<1>3. ASSUME o.rule = "read before"
      PROVE  ToCheck(b, o.rel) /\ <<o.reader, o.rel>> \in locks
  <2>1. /\ <<o.reader, o.rel>> \in reads /\ <<o.reader, o.writer>> \in overlap
        /\ ToCheck(b, o.rel)
    BY <1>1, <1>3 DEF LinearizeInv, ReadBeforeOK
  <2>2. o.writer \in AllTxns
    BY ObligationFacts
  <2> QED BY <1>1, <2>1, <2>2 DEF LinearizeInv, LocksKept
<1>4. <<o.reader, o.rel>> \in locks => LockedByOther(b, o.rel)
  BY <1>2 DEF LockedByOther
<1> QED BY <1>1, <1>2, <1>3, <1>4

\* The loops of linearize_xact_callback
LEMMA CommitLoops ==
  ASSUME LinearizeInv, NEW b \in Backends,
         \/ CheckOwn(b) /\ phase'[b] # "idle"
         \/ \E r \in Rels : CheckLocks(b, r) /\ phase'[b] # "idle"
         \/ PushDone(b)
  PROVE  LinearizeInv'
<1>0. /\ phase \in [Backends -> {"idle", "open", "own", "rels", "push", "commit"}]
      /\ todo \in [Backends -> SUBSET Rels] /\ rel \in [Backends -> Rels \cup {NoRel}]
      /\ left \in [Backends -> SUBSET Backends]
      /\ linearized_writes \in [Backends -> SUBSET Rels]
      /\ slot[b] # <<>> => phase[b] = "push"
  BY DEF LinearizeInv, StateTypes, Local, LocalOf
<1>1. CASE CheckOwn(b) /\ phase'[b] # "idle"
  <2>1. /\ phase[b] = "own" /\ phase' = [phase EXCEPT ![b] = "rels"]
        /\ todo' = [todo EXCEPT ![b] = linearized_writes[b]]
        /\ UNCHANGED <<local, shared, rel, left, tested, slot, reading, locks, truth>>
        /\ \A l \in locks : l[1][1] = b => ~InConflict(b, l[2])
    BY <1>0, <1>1 DEF CheckOwn, Aborted
  <2>2. /\ todo' \in [Backends -> SUBSET Rels] /\ todo'[b] = linearized_writes[b]
        /\ \A c \in Backends \ {b} : todo'[c] = todo[c]
    BY <1>0, <2>1
  <2>3. ASSUME NEW o \in obliged, o.writer = Txn(b), o.rule = "read before"
        PROVE  o.rel \in todo'[b]
    BY <2>1, <2>2, <2>3, OwnObligations DEF ToCheck
  <2>4. ASSUME NEW o \in obliged, o.writer = Txn(b), Provided(o), ~Recorded(o.reader[1], o.rel)
        PROVE  o.rel \in todo'[b]
    BY <2>1, <2>2, <2>4, OwnObligations DEF Provided, ToCheck
  <2>5. /\ tested' = tested /\ slot' = slot /\ slot[b] = <<>> /\ "rels" \in {"rels", "push"}
        /\ todo' \in [Backends -> SUBSET Rels] /\ rel' \in [Backends -> Rels \cup {NoRel}]
        /\ left' \in [Backends -> SUBSET Backends]
        /\ UNCHANGED <<local, shared, reading, locks, truth>>
        /\ \A c \in Backends \ {b} : todo'[c] = todo[c] /\ rel'[c] = rel[c] /\ left'[c] = left[c]
    BY <1>0, <2>1, <2>2
  <2>6. StillToCheck(b)
    BY <2>3 DEF StillToCheck
  <2>7. StillToProvide(b, "rels")
    BY <2>4 DEF StillToProvide
  <2> QED BY <2>1, <2>5, <2>6, <2>7, CommitLoopStep
<1>2. ASSUME NEW r \in Rels, CheckLocks(b, r), phase'[b] # "idle"
      PROVE  LinearizeInv'
  <2>1. /\ phase[b] = "rels" /\ r \in todo[b] /\ phase' = [phase EXCEPT ![b] = "push"]
        /\ todo' = [todo EXCEPT ![b] = @ \ {r}] /\ rel' = [rel EXCEPT ![b] = r]
        /\ left' = [left EXCEPT ![b] = Backends \ {b}]
        /\ UNCHANGED <<local, shared, tested, slot, reading, locks, truth>>
        /\ ~LockedByOther(b, r)
    BY <1>0, <1>2 DEF CheckLocks, Aborted
  <2>2. /\ todo' \in [Backends -> SUBSET Rels] /\ todo'[b] = todo[b] \ {r}
        /\ \A c \in Backends \ {b} : todo'[c] = todo[c]
        /\ rel' \in [Backends -> Rels \cup {NoRel}] /\ rel'[b] = r
        /\ \A c \in Backends \ {b} : rel'[c] = rel[c]
        /\ left' \in [Backends -> SUBSET Backends] /\ left'[b] = Backends \ {b}
        /\ \A c \in Backends \ {b} : left'[c] = left[c]
    BY <1>0, <2>1
  <2>3. ASSUME NEW o \in obliged, o.writer = Txn(b), o.rule = "read before"
        PROVE  o.rel \in todo'[b]
    <3>1. ToCheck(b, o.rel) /\ LockedByOther(b, o.rel)
      BY <2>1, <2>3, OwnObligations
    <3> QED BY <2>1, <2>2, <3>1 DEF ToCheck
  <2>4. ASSUME NEW o \in obliged, o.writer = Txn(b), Provided(o), ~Recorded(o.reader[1], o.rel)
        PROVE  \/ o.rel \in todo'[b]
               \/ rel'[b] = o.rel /\ o.reader[1] \in left'[b]
    BY <2>1, <2>2, <2>4, OwnObligations DEF Provided, ToCheck
  <2>5. /\ tested' = tested /\ slot' = slot /\ slot[b] = <<>> /\ "push" \in {"rels", "push"}
        /\ todo' \in [Backends -> SUBSET Rels] /\ rel' \in [Backends -> Rels \cup {NoRel}]
        /\ left' \in [Backends -> SUBSET Backends]
        /\ UNCHANGED <<local, shared, reading, locks, truth>>
        /\ \A c \in Backends \ {b} : todo'[c] = todo[c] /\ rel'[c] = rel[c] /\ left'[c] = left[c]
    BY <1>0, <2>1, <2>2
  <2>6. StillToCheck(b)
    BY <2>3 DEF StillToCheck
  <2>7. StillToProvide(b, "push")
    BY <2>4 DEF StillToProvide
  <2> QED BY <2>1, <2>5, <2>6, <2>7, CommitLoopStep
<1>3. CASE PushDone(b)
  <2>1. /\ phase[b] = "push" /\ slot[b] = <<>> /\ left[b] = {} /\ tested[b] = {}
        /\ phase' = [phase EXCEPT ![b] = "rels"] /\ rel' = [rel EXCEPT ![b] = NoRel]
        /\ UNCHANGED <<local, shared, todo, left, tested, slot, reading, locks, truth>>
    BY <1>3 DEF PushDone
  <2>2. /\ rel' \in [Backends -> Rels \cup {NoRel}]
        /\ \A c \in Backends \ {b} : rel'[c] = rel[c]
    BY <1>0, <2>1
  <2>3. ASSUME NEW o \in obliged, o.writer = Txn(b), o.rule = "read before"
        PROVE  o.rel \in todo'[b]
    BY <2>1, <2>3, OwnObligations DEF ToCheck
  <2>4. ASSUME NEW o \in obliged, o.writer = Txn(b), Provided(o), ~Recorded(o.reader[1], o.rel)
        PROVE  o.rel \in todo'[b]
    <3>1. ~Filling(b, o.reader[1], o.rel)
      BY <2>1 DEF Filling
    <3> QED BY <2>1, <2>4, <3>1, OwnObligations DEF Provided, ToCheck
  <2>5. /\ tested' = tested /\ slot' = slot /\ slot[b] = <<>> /\ "rels" \in {"rels", "push"}
        /\ todo' \in [Backends -> SUBSET Rels] /\ rel' \in [Backends -> Rels \cup {NoRel}]
        /\ left' \in [Backends -> SUBSET Backends]
        /\ UNCHANGED <<local, shared, reading, locks, truth>>
        /\ \A c \in Backends \ {b} : todo'[c] = todo[c] /\ rel'[c] = rel[c] /\ left'[c] = left[c]
    BY <1>0, <2>1, <2>2
  <2>6. StillToCheck(b)
    BY <2>3 DEF StillToCheck
  <2>7. StillToProvide(b, "rels")
    BY <2>4 DEF StillToProvide
  <2> QED BY <2>1, <2>5, <2>6, <2>7, CommitLoopStep
<1> QED BY <1>1, <1>2, <1>3

\* Another backend is looked at: an open, linearized one that has lost no conflicts is in
\* progress.
LEMMA PushTestStep ==
  ASSUME LinearizeInv, NEW b \in Backends, NEW i \in Backends, PushTest(b, i)
  PROVE  LinearizeInv'
<1>1. /\ UNCHANGED <<phase, linearize_enabled, linearized_writes, status, numconflicts,
                     conflicts, todo, rel, slot, reading, locks, cur, reads, wrote, forgotten,
                     overlap, linearized, committed, obliged, lost>>
      /\ phase[b] = "push" /\ slot[b] = <<>> /\ tested[b] = {} /\ i \in left[b]
      /\ left' = [left EXCEPT ![b] = @ \ {i}]
      /\ \/ tested' = tested /\ status[i] # "In_Progress"
         \/ tested' = [tested EXCEPT ![b] = {i}]
  BY DEF PushTest, local, shared, truth, events
<1>2. /\ left' \in [Backends -> SUBSET Backends] /\ left'[b] = left[b] \ {i}
      /\ tested' \in [Backends -> SUBSET Backends]
      /\ status[i] = "In_Progress" => i \in tested'[b]
      /\ \A c \in Backends \ {b} : left'[c] = left[c] /\ tested'[c] = tested[c]
  <2>1. left \in [Backends -> SUBSET Backends] /\ tested \in [Backends -> SUBSET Backends]
    BY DEF LinearizeInv, StateTypes
  <2>2. /\ left' \in [Backends -> SUBSET Backends] /\ left'[b] = left[b] \ {i}
        /\ \A c \in Backends \ {b} : left'[c] = left[c]
    BY <1>1, <2>1
  <2>3. CASE tested' = tested /\ status[i] # "In_Progress"
    BY <2>1, <2>2, <2>3
  <2>4. CASE tested' = [tested EXCEPT ![b] = {i}]
    BY <2>1, <2>2, <2>4
  <2> QED BY <1>1, <2>3, <2>4
<1>3. StateTypes'
  BY <1>1, <1>2 DEF LinearizeInv, StateTypes
<1>4. HistoryTypes' /\ Numbered' /\ LocksKept'
  BY <1>1, SameHistory
<1>5. Local'
  BY <1>1 DEF LinearizeInv, Local, LocalOf, Txn
<1>6. ASSUME NEW o \in obliged
      PROVE  /\ ToCheck(o.writer[1], o.rel)' <=> ToCheck(o.writer[1], o.rel)
             /\ BothOpen(o)' <=> BothOpen(o)
             /\ Filling(o.writer[1], o.reader[1], o.rel)' <=> Filling(o.writer[1], o.reader[1], o.rel)
             /\ Recorded(o.reader[1], o.rel)' <=> Recorded(o.reader[1], o.rel)
             /\ Finds(o)' <=> Finds(o)
  BY <1>1 DEF BothOpen, Finds, ToCheck, Filling, Own, Recorded, Runs
<1>7. ASSUME NEW o \in obliged, o.rule = "maybe open", BothOpen(o)', o.reader \notin lost'
      PROVE  Provided(o)'
  <2>1. /\ Provided(o) /\ o.reader \in linearized /\ Runs(o.reader)
        /\ phase[o.reader[1]] = "open"
    BY <1>1, <1>6, <1>7 DEF LinearizeInv, MaybeOpenOK, BothOpen
  <2>2. CASE o.writer[1] = b /\ o.reader[1] = i
    <3>1. o.reader = Txn(i)
      BY <2>1, <2>2, RunningTxn, ObligationFacts
    <3>2. status[i] = "In_Progress"
      BY <1>1, <1>7, <2>1, <2>2, <3>1 DEF LinearizeInv, Local, LocalOf
    <3> QED BY <1>1, <1>2, <1>6, <2>1, <2>2, <3>2 DEF Provided
  <2>3. CASE ~(o.writer[1] = b /\ o.reader[1] = i)
    BY <1>1, <1>2, <1>6, <2>1, <2>3, ObligationFacts DEF Provided
  <2> QED BY <2>2, <2>3
<1>8. ASSUME NEW o \in obliged, o.rule = "open", Runs(o.reader), o.reader \notin lost'
      PROVE  Finds(o)'
  BY <1>1, <1>6, <1>8 DEF LinearizeInv, OpenOK
<1>9. ReadBeforeOK' /\ MaybeOpenOK' /\ OpenOK'
  BY <1>1, <1>6, <1>7, <1>8, SameObligations DEF LinearizeInv, ReadBeforeOK
<1> QED BY <1>3, <1>4, <1>5, <1>9 DEF LinearizeInv

\* A slot of another backend is reserved.
LEMMA PushReserveStep ==
  ASSUME LinearizeInv, NEW b \in Backends, NEW i \in Backends, PushReserve(b, i)
  PROVE  LinearizeInv'
<1>1. /\ UNCHANGED <<phase, linearize_enabled, linearized_writes, status, conflicts, todo, rel,
                     left, reading, locks, cur, reads, wrote, forgotten, overlap, linearized,
                     committed, obliged>>
      /\ phase[b] = "push" /\ slot[b] = <<>> /\ i \in tested[b] /\ lost \subseteq lost'
      /\ tested' = [tested EXCEPT ![b] = @ \ {i}]
  BY DEF PushReserve, local, events
<1>2. /\ tested' \in [Backends -> SUBSET Backends] /\ tested'[b] = tested[b] \ {i}
      /\ \A c \in Backends \ {b} : tested'[c] = tested[c]
  BY <1>1 DEF LinearizeInv, StateTypes
<1>3. /\ MaxConflicts \in Nat \ {0} /\ numconflicts \in [Backends -> 0..MaxConflicts]
      /\ slot \in [Backends -> {<<>>} \cup Backends \X (0..MaxConflicts - 1)]
  BY ConstantsAssumption DEF LinearizeInv, StateTypes
<1>4. /\ numconflicts[i] \in 0..MaxConflicts - 1 /\ numconflicts'[i] = numconflicts[i] + 1
      /\ \A j \in Backends \ {i} : numconflicts'[j] = numconflicts[j]
      /\ numconflicts' \in [Backends -> 0..MaxConflicts]
      /\ slot'[b] = <<i, numconflicts[i]>>
      /\ \A c \in Backends \ {b} : slot'[c] = slot[c]
      /\ slot' \in [Backends -> {<<>>} \cup Backends \X (0..MaxConflicts - 1)]
      /\ (\E c \in Backends : slot[c] = <<i, numconflicts[i]>>) => Txn(i) \in lost'
  <2>1. /\ numconflicts[i] < MaxConflicts
        /\ numconflicts' = [numconflicts EXCEPT ![i] = numconflicts[i] + 1]
        /\ slot' = [slot EXCEPT ![b] = <<i, numconflicts[i]>>]
        /\ lost' = IF \E c \in Backends : slot[c] = <<i, numconflicts[i]>>
                   THEN lost \cup {Txn(i)} ELSE lost
    BY DEF PushReserve
  <2>2. numconflicts[i] \in 0..MaxConflicts - 1 /\ numconflicts[i] + 1 \in 0..MaxConflicts
    BY <1>3, <2>1
  <2>3. <<i, numconflicts[i]>> \in {<<>>} \cup Backends \X (0..MaxConflicts - 1)
    BY <2>2
  <2>4. /\ numconflicts'[i] = numconflicts[i] + 1
        /\ \A j \in Backends \ {i} : numconflicts'[j] = numconflicts[j]
        /\ numconflicts' \in [Backends -> 0..MaxConflicts]
    BY <1>3, <2>1, <2>2
  <2>5. /\ slot'[b] = <<i, numconflicts[i]>>
        /\ \A c \in Backends \ {b} : slot'[c] = slot[c]
        /\ slot' \in [Backends -> {<<>>} \cup Backends \X (0..MaxConflicts - 1)]
    BY <1>3, <2>1, <2>3
  <2>6. (\E c \in Backends : slot[c] = <<i, numconflicts[i]>>) => Txn(i) \in lost'
    BY <2>1
  <2> QED BY <2>2, <2>4, <2>5, <2>6
<1>6. StateTypes'
  BY <1>1, <1>2, <1>4 DEF LinearizeInv, StateTypes
<1>7. HistoryTypes' /\ Numbered' /\ LocksKept'
  BY <1>1, SameHistory
<1>8. Local'
  <2> SUFFICES ASSUME NEW c \in Backends
               PROVE  LocalOf(c)'
    BY DEF Local
  <2>1. LocalOf(c)
    BY DEF LinearizeInv, Local
  <2> QED BY <1>1, <1>4, <2>1 DEF LocalOf, Txn
<1>9. ASSUME NEW j \in Backends, NEW k \in 0..MaxConflicts - 1, k < numconflicts[j]
      PROVE  /\ k < numconflicts'[j]
             /\ \A c \in Backends : slot[c] # <<j, k>> => slot'[c] # <<j, k>>
  <2>1. numconflicts[j] \in Nat
    BY <1>3
  <2>2. k < numconflicts'[j]
    BY <1>4, <1>9, <2>1
  <2>3. <<i, numconflicts[i]>> # <<j, k>>
    BY <1>9, <2>1
  <2>4. \A c \in Backends : slot'[c] = slot[c] \/ slot'[c] = <<i, numconflicts[i]>>
    BY <1>4
  <2> QED BY <2>2, <2>3, <2>4
<1>10. ASSUME NEW j \in Backends, NEW r, Recorded(j, r)
       PROVE  Recorded(j, r)'
  BY <1>1, <1>9, <1>10, RecordedStays
<1>11. ASSUME NEW c \in Backends \ {b}, NEW j \in Backends, NEW r, Filling(c, j, r)
       PROVE  Filling(c, j, r)'
  <2>1. rel'[c] = rel[c] /\ slot'[c] = slot[c]
    BY <1>1, <1>4
  <2> QED BY <1>9, <1>11, <2>1, FillingStays
<1>12. ASSUME NEW o \in obliged
       PROVE  (ToCheck(o.writer[1], o.rel)' <=> ToCheck(o.writer[1], o.rel))
  BY <1>1 DEF ToCheck
<1>13. ASSUME NEW o \in obliged, o.rule = "maybe open", BothOpen(o)', o.reader \notin lost'
       PROVE  Provided(o)'
  <2>1. /\ Provided(o) /\ o.reader \in linearized /\ Runs(o.reader)
        /\ phase[o.reader[1]] = "open"
    BY <1>1, <1>13 DEF LinearizeInv, MaybeOpenOK, BothOpen, Runs
  <2>2. CASE o.writer[1] # b
    BY <1>1, <1>2, <1>10, <1>11, <1>12, <2>1, <2>2, ObligationFacts DEF Provided
  <2>3. CASE o.writer[1] = b /\ rel[b] = o.rel /\ o.reader[1] = i
    <3>1. o.reader = Txn(i)
      BY <2>1, <2>3, RunningTxn, ObligationFacts
    <3>2. \A c \in Backends : slot[c] # <<i, numconflicts[i]>>
      BY <1>4, <1>13, <3>1
    <3>3. numconflicts[i] < numconflicts'[i]
      BY <1>3, <1>4
    <3>4. /\ rel'[b] = o.rel /\ slot'[b] = <<i, numconflicts[i]>>
          /\ numconflicts[i] \in 0..MaxConflicts - 1
          /\ \A c \in Backends \ {b} : slot'[c] # <<i, numconflicts[i]>>
      BY <1>1, <1>4, <2>3, <3>2
    <3>5. Filling(b, i, o.rel)'
      BY <3>3, <3>4 DEF Filling, Own
    <3> QED BY <1>1, <2>3, <3>5 DEF Provided
  <2>4. CASE o.writer[1] = b /\ ~(rel[b] = o.rel /\ o.reader[1] = i)
    <3>1. ~Filling(b, o.reader[1], o.rel)
      BY <1>1 DEF Filling
    <3> QED BY <1>1, <1>2, <1>10, <1>12, <2>1, <2>4, <3>1, ObligationFacts DEF Provided
  <2> QED BY <2>2, <2>3, <2>4
<1>14. ASSUME NEW o \in obliged, o.rule = "open", Runs(o.reader), o.reader \notin lost'
       PROVE  Finds(o)'
  BY <1>1, <1>10, <1>14, ObligationFacts DEF LinearizeInv, OpenOK, Finds
<1>15. ReadBeforeOK' /\ MaybeOpenOK' /\ OpenOK'
  BY <1>1, <1>12, <1>13, <1>14, SameObligations DEF LinearizeInv, ReadBeforeOK
<1> QED BY <1>6, <1>7, <1>8, <1>15 DEF LinearizeInv

\* A reserved slot is filled.
LEMMA PushFillStep ==
  ASSUME LinearizeInv, NEW b \in Backends, PushFill(b)
  PROVE  LinearizeInv'
<1>1. /\ UNCHANGED <<phase, linearize_enabled, linearized_writes, status, numconflicts, todo, rel,
                     left, tested, reading, locks, cur, reads, wrote, forgotten, overlap, linearized,
                     committed, obliged, lost>>
      /\ slot[b] # <<>> /\ slot' = [slot EXCEPT ![b] = <<>>]
  BY DEF PushFill, local, truth, events
<1>2. PICK i \in Backends, k \in 0..MaxConflicts - 1 : slot[b] = <<i, k>>
  <2>1. slot[b] \in {<<>>} \cup Backends \X (0..MaxConflicts - 1)
    BY DEF LinearizeInv, StateTypes
  <2> QED BY <1>1, <2>1
<1>3. /\ slot \in [Backends -> {<<>>} \cup Backends \X (0..MaxConflicts - 1)]
      /\ conflicts \in [Backends -> [0..MaxConflicts - 1 -> Rels \cup {NoRel}]]
      /\ rel[b] \in Rels \cup {NoRel} /\ phase[b] = "push"
  BY <1>1 DEF LinearizeInv, StateTypes, Local, LocalOf
<1>4. /\ slot' \in [Backends -> {<<>>} \cup Backends \X (0..MaxConflicts - 1)]
      /\ slot'[b] = <<>> /\ \A c \in Backends \ {b} : slot'[c] = slot[c]
  BY <1>1, <1>3
<1>5. conflicts' = [conflicts EXCEPT ![i] = [conflicts[i] EXCEPT ![k] = rel[b]]]
  BY <1>2 DEF PushFill
<1>6. /\ conflicts' \in [Backends -> [0..MaxConflicts - 1 -> Rels \cup {NoRel}]]
      /\ conflicts'[i][k] = rel[b]
      /\ \A j \in Backends, n \in 0..MaxConflicts - 1 :
           <<j, n>> # <<i, k>> => conflicts'[j][n] = conflicts[j][n]
  BY <1>2, <1>3, <1>5
<1>7. StateTypes'
  BY <1>1, <1>4, <1>6 DEF LinearizeInv, StateTypes
<1>8. HistoryTypes' /\ Numbered' /\ LocksKept'
  BY <1>1, SameHistory
<1>9. Local'
  <2> SUFFICES ASSUME NEW c \in Backends
               PROVE  LocalOf(c)'
    BY DEF Local
  <2>1. LocalOf(c)
    BY DEF LinearizeInv, Local
  <2> QED BY <1>1, <1>4, <2>1 DEF LocalOf, Txn
<1>10. ASSUME NEW j \in Backends, NEW r, Recorded(j, r)
       PROVE  Recorded(j, r)'
  <2>1. ASSUME NEW n \in 0..MaxConflicts - 1, \A c \in Backends : slot[c] # <<j, n>>
        PROVE  conflicts'[j][n] = conflicts[j][n] /\ \A c \in Backends : slot'[c] # <<j, n>>
    <3>1. <<j, n>> # <<i, k>>
      BY <1>2, <2>1
    <3>2. conflicts'[j][n] = conflicts[j][n]
      BY <1>6, <3>1
    <3>3. \A c \in Backends : slot'[c] # <<j, n>>
      BY <1>4, <2>1
    <3> QED BY <3>2, <3>3
  <2> QED BY <1>1, <1>10, <2>1, RecordedStays
<1>11. ASSUME NEW c \in Backends \ {b}, NEW j \in Backends, NEW r, Filling(c, j, r)
       PROVE  Filling(c, j, r)'
  <2>1. ASSUME NEW x \in Backends, NEW n \in 0..MaxConflicts - 1, slot[x] # <<j, n>>
        PROVE  slot'[x] # <<j, n>>
    <3>1. CASE x = b
      BY <1>4, <3>1
    <3>2. CASE x # b
      BY <1>4, <2>1, <3>2
    <3> QED BY <3>1, <3>2
  <2> QED BY <1>1, <1>4, <1>11, <2>1, FillingStays
<1>12. ASSUME NEW j \in Backends, NEW r, Filling(b, j, r)
       PROVE  Recorded(j, r)'
  <2>1. rel[b] = r /\ j = i /\ k < numconflicts[i] /\ \A c \in Backends \ {b} : slot[c] # <<i, k>>
    BY <1>2, <1>12 DEF Filling, Own
  <2> QED BY <1>1, <1>4, <1>6, <2>1 DEF Recorded
<1>13. ASSUME NEW o \in obliged
       PROVE  /\ ToCheck(o.writer[1], o.rel)' <=> ToCheck(o.writer[1], o.rel)
              /\ BothOpen(o)' <=> BothOpen(o)
              /\ Provided(o) => Provided(o)'
              /\ Finds(o) => Finds(o)'
  <2>1. /\ ToCheck(o.writer[1], o.rel)' <=> ToCheck(o.writer[1], o.rel)
        /\ BothOpen(o)' <=> BothOpen(o)
    BY <1>1 DEF BothOpen, ToCheck, Runs
  <2>2. Provided(o) => Provided(o)'
    BY <1>1, <1>10, <1>11, <1>12, <2>1, ObligationFacts DEF Provided
  <2>3. Finds(o) => Finds(o)'
    BY <1>1, <1>10, ObligationFacts DEF Finds
  <2> QED BY <2>1, <2>2, <2>3
<1>14. ReadBeforeOK' /\ MaybeOpenOK' /\ OpenOK'
  BY <1>1, <1>13, SameObligations DEF LinearizeInv, ReadBeforeOK, MaybeOpenOK, OpenOK
<1> QED BY <1>7, <1>8, <1>9, <1>14 DEF LinearizeInv

\* The hook is done, and the slots of the backend are reset.
LEMMA PreCommitDoneStep ==
  ASSUME LinearizeInv, NEW b \in Backends, PreCommitDone(b)
  PROVE  LinearizeInv'
<1>1. /\ UNCHANGED <<linearized_writes, conflicts, todo, rel, left, tested, slot, reading, locks,
                     cur, reads, wrote, forgotten, overlap, linearized, committed, obliged, lost>>
      /\ phase[b] = "rels" /\ todo[b] = {}
      /\ phase' = [phase EXCEPT ![b] = "commit"]
      /\ linearize_enabled' = [linearize_enabled EXCEPT ![b] = FALSE]
      /\ status' = [status EXCEPT ![b] = "Inactive"]
      /\ numconflicts' = [numconflicts EXCEPT ![b] = 0]
  BY DEF PreCommitDone, Reset, commit, truth, events
<1>2. /\ phase'[b] = "commit" /\ ~linearize_enabled'[b]
      /\ \A c \in Backends \ {b} : /\ phase'[c] = phase[c] /\ status'[c] = status[c]
                                   /\ linearize_enabled'[c] = linearize_enabled[c]
                                   /\ numconflicts'[c] = numconflicts[c]
  BY <1>1 DEF LinearizeInv, StateTypes
<1>3. StateTypes'
  BY <1>1, ConstantsAssumption DEF LinearizeInv, StateTypes
<1>4. HistoryTypes' /\ Numbered' /\ LocksKept'
  BY <1>1, <1>2, SameHistory
<1>5. Local'
  <2> SUFFICES ASSUME NEW c \in Backends
               PROVE  LocalOf(c)'
    BY DEF Local
  <2>1. LocalOf(c)
    BY DEF LinearizeInv, Local
  <2> QED BY <1>1, <1>2, <2>1 DEF LocalOf, Txn
<1>6. ASSUME NEW i \in Backends \ {b}, NEW r
      PROVE  /\ Recorded(i, r)' <=> Recorded(i, r)
             /\ \A c \in Backends : Filling(c, i, r)' <=> Filling(c, i, r)
  BY <1>1, <1>2 DEF Recorded, Filling, Own
<1>7. ASSUME NEW r
      PROVE  ~ToCheck(b, r) /\ \A c \in Backends \ {b} : ToCheck(c, r)' <=> ToCheck(c, r)
  BY <1>1, <1>2 DEF ToCheck
<1>8. ASSUME NEW o \in obliged, o.rule = "read before", Runs(o.writer)
      PROVE  ToCheck(o.writer[1], o.rel)'
  BY <1>7, <1>8, ObligationFacts DEF LinearizeInv, ReadBeforeOK
<1>9. ASSUME NEW o \in obliged, o.rule = "maybe open", BothOpen(o)', o.reader \notin lost'
      PROVE  Provided(o)'
  <2>1. o.reader[1] \in Backends \ {b} /\ o.writer[1] \in Backends /\ BothOpen(o)
    BY <1>1, <1>2, <1>9, ObligationFacts DEF BothOpen, Runs
  <2>2. Provided(o)
    BY <1>1, <1>9, <2>1 DEF LinearizeInv, MaybeOpenOK
  <2> QED BY <1>1, <1>2, <1>6, <1>7, <2>1, <2>2 DEF Provided
<1>10. ASSUME NEW o \in obliged, o.rule = "open", Runs(o.reader), o.reader \notin lost'
       PROVE  Finds(o)'
  <2>1. Finds(o) /\ o.reader[1] \in Backends
    BY <1>1, <1>10, ObligationFacts DEF LinearizeInv, OpenOK
  <2> QED BY <1>1, <1>2, <1>6, <2>1 DEF Finds
<1>11. ReadBeforeOK' /\ MaybeOpenOK' /\ OpenOK'
  BY <1>1, <1>2, <1>8, <1>9, <1>10, SameObligations
<1> QED BY <1>3, <1>4, <1>5, <1>11 DEF LinearizeInv

\* No slot is left, and the server restarts.
LEMMA PushCrashStep ==
  ASSUME LinearizeInv, NEW b \in Backends, NEW i \in Backends, PushCrash(b, i)
  PROVE  LinearizeInv'
<1>1. /\ UNCHANGED <<cur, reads, overlap, linearized, committed, obliged, lost>>
      /\ \A c \in Backends : /\ phase'[c] = "idle" /\ ~linearize_enabled'[c]
                             /\ wrote'[c] = {} /\ reading'[c] = NoRel /\ slot'[c] = <<>>
      /\ locks' = {}
      /\ wrote' \in [Backends -> SUBSET Rels] /\ forgotten' \in [Backends -> SUBSET Rels]
  BY DEF PushCrash
<1>2. \A t \in AllTxns : ~Runs(t)'
  BY <1>1 DEF Runs, AllTxns
<1>3. StateTypes'
  BY ConstantsAssumption DEF PushCrash, StateTypes
<1>4. HistoryTypes'
  BY <1>1 DEF LinearizeInv, HistoryTypes, AllTxns, Obligations
<1>5. Numbered'
  BY <1>1, <1>2 DEF LinearizeInv, HistoryTypes, Numbered, Come
<1>6. Local'
  BY <1>1 DEF Local, LocalOf
<1>7. LocksKept'
  <2>1. \A l \in reads : l[1] \in AllTxns
    BY DEF LinearizeInv, HistoryTypes
  <2> QED BY <1>1, <1>2, <2>1 DEF LocksKept
<1>8. \A o \in obliged : ~Runs(o.reader)' /\ ~Runs(o.writer)'
  BY <1>2, ObligationFacts
<1>9. ReadBeforeOK' /\ MaybeOpenOK' /\ OpenOK'
  BY <1>1, <1>8 DEF LinearizeInv, ReadBeforeOK, MaybeOpenOK, OpenOK, BothOpen
<1> QED BY <1>3, <1>4, <1>5, <1>6, <1>7, <1>9 DEF LinearizeInv

\* A transaction fails, with or without its slots being reset.
LEMMA AbortedStep ==
  ASSUME LinearizeInv, NEW b \in Backends, phase[b] \in {"open", "own", "rels"},
         Aborted(b), Reset(b) \/ UNCHANGED shared \/ (Rejoin(b) /\ UNCHANGED <<numconflicts, conflicts>>)
  PROVE  LinearizeInv'
<1>1. /\ UNCHANGED <<linearized_writes, conflicts, left, tested, slot, cur, committed, lost>>
      /\ phase' = [phase EXCEPT ![b] = "idle"]
      /\ linearize_enabled' = [linearize_enabled EXCEPT ![b] = FALSE]
      /\ reading' = [reading EXCEPT ![b] = NoRel]
      /\ todo' = [todo EXCEPT ![b] = {}]
      /\ rel' = [rel EXCEPT ![b] = NoRel]
      /\ wrote' = [wrote EXCEPT ![b] = {}] /\ forgotten' = [forgotten EXCEPT ![b] = {}]
      /\ locks' = {l \in locks : l[1] # Txn(b)}
      /\ reads' = {l \in reads : l[1] # Txn(b)}
      /\ overlap' = {p \in overlap : Txn(b) \notin {p[1], p[2]}}
      /\ obliged' = {o \in obliged : Txn(b) \notin {o.reader, o.writer}}
      /\ linearized' = linearized \ {Txn(b)}
  BY DEF Aborted, Reset, shared
<1>2. /\ \/ status' = status
         \/ status' = [status EXCEPT ![b] = "Inactive"]
         \/ status' = [status EXCEPT ![b] = "In_Progress"]
      /\ numconflicts' = numconflicts \/ numconflicts' = [numconflicts EXCEPT ![b] = 0]
  BY DEF Reset, shared, Rejoin
<1>3. /\ phase'[b] = "idle" /\ ~linearize_enabled'[b] /\ reading'[b] = NoRel /\ wrote'[b] = {}
      /\ \A c \in Backends \ {b} : /\ phase'[c] = phase[c] /\ status'[c] = status[c]
                                   /\ linearize_enabled'[c] = linearize_enabled[c]
                                   /\ numconflicts'[c] = numconflicts[c]
                                   /\ reading'[c] = reading[c] /\ todo'[c] = todo[c]
                                   /\ rel'[c] = rel[c] /\ wrote'[c] = wrote[c]
  BY <1>1, <1>2 DEF LinearizeInv, StateTypes, HistoryTypes
<1>4. StateTypes'
  <2>1. status' \in [Backends -> {"Inactive", "In_Progress", "Committing"}]
    BY <1>2 DEF LinearizeInv, StateTypes
  <2>2. 0 \in 0..MaxConflicts
    BY ConstantsAssumption
  <2>3. numconflicts' \in [Backends -> 0..MaxConflicts]
    BY <1>2, <2>2 DEF LinearizeInv, StateTypes
  <2> QED BY <1>1, <2>1, <2>3 DEF LinearizeInv, StateTypes
<1>5. HistoryTypes'
  BY <1>1 DEF LinearizeInv, HistoryTypes, AllTxns, Obligations
<1>6. \A t \in AllTxns : Runs(t)' => Runs(t) /\ t[1] # b /\ t # Txn(b)
  BY <1>1, <1>3 DEF Runs, AllTxns, Txn
<1>7. Numbered'
  BY <1>1, <1>6 DEF LinearizeInv, HistoryTypes, Numbered, Come
<1>8. Local'
  <2> SUFFICES ASSUME NEW c \in Backends
               PROVE  LocalOf(c)'
    BY DEF Local
  <2>1. LocalOf(c)
    BY DEF LinearizeInv, Local
  <2>2. CASE c = b
    BY <1>1, <1>3, <2>1, <2>2 DEF LocalOf
  <2>3. CASE c # b
    <3>1. Txn(c)' = Txn(c) /\ Txn(c) # Txn(b)
      BY <1>1, <2>3 DEF Txn
    <3> QED BY <1>1, <1>3, <2>1, <2>3, <3>1 DEF LocalOf
  <2> QED BY <2>2, <2>3
<1>9. LocksKept'
  <2> SUFFICES ASSUME NEW l \in reads',
                      Runs(l[1])' \/ \E u \in AllTxns : Runs(u)' /\ <<l[1], u>> \in overlap'
               PROVE  l \in locks'
    BY DEF LocksKept
  <2>1. l \in reads /\ l[1] \in AllTxns /\ l[1] # Txn(b)
    BY <1>1 DEF LinearizeInv, HistoryTypes
  <2>2. l \in locks
    BY <1>1, <1>6, <2>1 DEF LinearizeInv, LocksKept
  <2> QED BY <1>1, <2>1, <2>2
<1>10. ASSUME NEW i \in Backends \ {b}, NEW r
       PROVE  /\ Recorded(i, r)' <=> Recorded(i, r)
              /\ \A c \in Backends \ {b} : Filling(c, i, r)' <=> Filling(c, i, r)
  BY <1>1, <1>3 DEF Recorded, Filling, Own
<1>11. ASSUME NEW c \in Backends \ {b}, NEW r
       PROVE  ToCheck(c, r)' <=> ToCheck(c, r)
  BY <1>1, <1>3 DEF ToCheck
<1>12. ASSUME NEW o \in obliged'
       PROVE  /\ o \in obliged /\ o.reader # Txn(b) /\ o.writer # Txn(b)
              /\ o.reader \in AllTxns /\ o.writer \in AllTxns
              /\ o.reader[1] \in Backends /\ o.writer[1] \in Backends
  BY <1>1, ObligationFacts
<1>13. ReadBeforeOK'
  <2> SUFFICES ASSUME NEW o \in obliged', o.rule = "read before"
               PROVE  /\ <<o.reader, o.rel>> \in reads' /\ <<o.reader, o.writer>> \in overlap'
                      /\ o.writer \notin committed'
                      /\ Runs(o.writer)' => ToCheck(o.writer[1], o.rel)'
    BY DEF ReadBeforeOK
  <2>1. /\ <<o.reader, o.rel>> \in reads /\ <<o.reader, o.writer>> \in overlap
        /\ o.writer \notin committed
        /\ Runs(o.writer) => ToCheck(o.writer[1], o.rel)
    BY <1>12 DEF LinearizeInv, ReadBeforeOK
  <2>2. Runs(o.writer)' => ToCheck(o.writer[1], o.rel)'
    BY <1>6, <1>11, <1>12, <2>1
  <2> QED BY <1>1, <1>12, <2>1, <2>2
<1>14. MaybeOpenOK'
  <2> SUFFICES ASSUME NEW o \in obliged', o.rule = "maybe open"
               PROVE  /\ o.reader \in linearized'
                      /\ BothOpen(o)' /\ o.reader \notin lost' => Provided(o)'
    BY DEF MaybeOpenOK
  <2>1. o.reader \in linearized /\ (BothOpen(o) /\ o.reader \notin lost => Provided(o))
    BY <1>12 DEF LinearizeInv, MaybeOpenOK
  <2>2. ASSUME BothOpen(o)', o.reader \notin lost'
        PROVE  Provided(o)'
    <3>1. o.reader[1] \in Backends \ {b} /\ o.writer[1] \in Backends \ {b} /\ BothOpen(o)
      BY <1>3, <1>6, <1>12, <2>2 DEF BothOpen
    <3>2. Provided(o)
      BY <1>1, <2>1, <2>2, <3>1
    <3> QED BY <1>1, <1>3, <1>10, <1>11, <3>1, <3>2 DEF Provided
  <2> QED BY <1>1, <1>12, <2>1, <2>2
<1>15. OpenOK'
  <2> SUFFICES ASSUME NEW o \in obliged', o.rule = "open"
               PROVE  /\ o.reader \in linearized'
                      /\ Runs(o.reader)' /\ o.reader \notin lost' => Finds(o)'
                      /\ o.reader \in committed' /\ o.reader \notin lost' =>
                           <<o.reader, o.rel>> \notin reads'
    BY DEF OpenOK
  <2>1. /\ o.reader \in linearized
        /\ Runs(o.reader) /\ o.reader \notin lost => Finds(o)
        /\ o.reader \in committed /\ o.reader \notin lost => <<o.reader, o.rel>> \notin reads
    BY <1>12 DEF LinearizeInv, OpenOK
  <2>2. ASSUME Runs(o.reader)', o.reader \notin lost'
        PROVE  Finds(o)'
    BY <1>1, <1>3, <1>6, <1>10, <1>12, <2>1, <2>2 DEF Finds
  <2> QED BY <1>1, <1>12, <2>1, <2>2
<1> QED BY <1>4, <1>5, <1>7, <1>8, <1>9, <1>13, <1>14, <1>15 DEF LinearizeInv

\* A failure that resets the slots: its transaction ends, or has lost conflicts.
LEMMA FailResetStep ==
  ASSUME LinearizeInv, NEW b \in Backends, phase[b] = "open", FailReset(b)
  PROVE  LinearizeInv'
<1>1. CASE Aborted(b)
  BY <1>1, AbortedStep DEF FailReset
<1>2. CASE ~Aborted(b)
  <2>1. /\ UNCHANGED <<phase, linearize_enabled, linearized_writes, conflicts, todo, rel, left,
                       tested, slot, reading, locks, cur, reads, wrote, forgotten, overlap,
                       linearized, committed, obliged>>
        /\ status' = [status EXCEPT ![b] = "Inactive"]
        /\ numconflicts' = [numconflicts EXCEPT ![b] = 0]
        /\ lost' = lost \cup {Txn(b)}
    BY <1>2 DEF FailReset, Reset, local, commit, events
  <2>2. /\ 0 \in 0..MaxConflicts
        /\ \A c \in Backends \ {b} : status'[c] = status[c] /\ numconflicts'[c] = numconflicts[c]
    BY <2>1, ConstantsAssumption DEF LinearizeInv, StateTypes
  <2>3. StateTypes'
    BY <2>1, <2>2 DEF LinearizeInv, StateTypes
  <2>4. HistoryTypes' /\ Numbered' /\ LocksKept'
    BY <2>1, SameHistory
  <2>5. Local'
    <3> SUFFICES ASSUME NEW c \in Backends
                 PROVE  LocalOf(c)'
      BY DEF Local
    <3>1. LocalOf(c)
      BY DEF LinearizeInv, Local
    <3> QED BY <2>1, <2>2, <3>1 DEF LocalOf, Txn
  <2>6. ASSUME NEW i \in Backends \ {b}, NEW r
        PROVE  /\ Recorded(i, r)' <=> Recorded(i, r)
               /\ \A c \in Backends : Filling(c, i, r)' <=> Filling(c, i, r)
    BY <2>1, <2>2 DEF Recorded, Filling, Own
  <2>7. ASSUME NEW o \in obliged
        PROVE  /\ ToCheck(o.writer[1], o.rel)' <=> ToCheck(o.writer[1], o.rel)
               /\ BothOpen(o)' <=> BothOpen(o)
               /\ Runs(o.reader) /\ o.reader \notin lost' => o.reader[1] \in Backends \ {b}
    <3>1. Runs(o.reader) /\ o.reader[1] = b => o.reader = Txn(b)
      BY RunningTxn, ObligationFacts
    <3> QED BY <2>1, <3>1, ObligationFacts DEF BothOpen, ToCheck, Runs
  <2>8. ASSUME NEW o \in obliged, o.rule = "maybe open", BothOpen(o)', o.reader \notin lost'
        PROVE  Provided(o)'
    <3>1. BothOpen(o) /\ Runs(o.reader)
      BY <2>7, <2>8 DEF BothOpen
    <3>2. Provided(o) /\ o.reader[1] \in Backends \ {b} /\ o.writer[1] \in Backends
      BY <2>1, <2>7, <2>8, <3>1, ObligationFacts DEF LinearizeInv, MaybeOpenOK
    <3> QED BY <2>1, <2>6, <2>7, <3>2 DEF Provided
  <2>9. ASSUME NEW o \in obliged, o.rule = "open", Runs(o.reader), o.reader \notin lost'
        PROVE  Finds(o)'
    <3>1. Finds(o) /\ o.reader[1] \in Backends \ {b}
      BY <2>1, <2>7, <2>9 DEF LinearizeInv, OpenOK
    <3> QED BY <2>1, <2>6, <3>1 DEF Finds
  <2>10. ReadBeforeOK' /\ MaybeOpenOK' /\ OpenOK'
    BY <2>1, <2>7, <2>8, <2>9, SameObligations DEF LinearizeInv, ReadBeforeOK
  <2> QED BY <2>3, <2>4, <2>5, <2>10 DEF LinearizeInv
<1> QED BY <1>1, <1>2

\* A statement that fails to write, in a transaction that catches the error
CaughtWrite(b, r) ==
  /\ phase[b] = "open" /\ Rejoin(b)
  /\ linearized_writes' = [linearized_writes EXCEPT ![b] = @ \cup {r}]
  /\ UNCHANGED <<numconflicts, conflicts, phase, linearize_enabled, commit, reading, locks, truth>>

----------------------------------------------------------------------------
(* Steps that change the history                                           *)

\* A new transaction: none of what there is to tell is about it.
LEMMA BeginStep ==
  ASSUME LinearizeInv, NEW b \in Backends, Begin(b)
  PROVE  LinearizeInv'
<1> DEFINE t == <<b, cur[b] + 1>>
<1>1. /\ UNCHANGED <<linearize_enabled, linearized_writes, status, numconflicts, conflicts, todo,
                     rel, left, tested, slot, reading, locks, reads, wrote, forgotten, linearized,
                     committed, obliged, lost>>
      /\ phase[b] = "idle" /\ phase' = [phase EXCEPT ![b] = "open"]
      /\ cur' = [cur EXCEPT ![b] = @ + 1]
      /\ overlap' = overlap \cup ({t} \X Running) \cup (Running \X {t})
  BY DEF Begin, local, shared, commit
<1>2. /\ cur \in [Backends -> Nat] /\ cur' \in [Backends -> Nat]
      /\ cur'[b] = cur[b] + 1 /\ phase'[b] = "open"
      /\ \A c \in Backends \ {b} : phase'[c] = phase[c] /\ cur'[c] = cur[c]
      /\ t \in AllTxns
  BY <1>1 DEF LinearizeInv, StateTypes, HistoryTypes, AllTxns
<1>3. \A u \in AllTxns : Come(u) => Come(u)' /\ u # t
  BY <1>2 DEF AllTxns, Come
<1>4. \A u \in AllTxns : Runs(u)' => Runs(u) \/ u = t
  BY <1>1, <1>2 DEF AllTxns, Runs
<1>5. \A u \in AllTxns : Runs(u) => u[1] \in Backends \ {b}
  BY <1>1 DEF AllTxns, Runs
<1>6. \A u \in Running : u \in AllTxns /\ Runs(u) /\ Come(u)
  BY <1>2 DEF Running, Txn, AllTxns, Runs, Come
<1>7. StateTypes'
  BY <1>1 DEF LinearizeInv, StateTypes
<1>8. HistoryTypes'
  <2>1. overlap' \subseteq AllTxns \X AllTxns
    BY <1>1, <1>2, <1>6 DEF LinearizeInv, HistoryTypes
  <2> QED BY <1>1, <1>2, <2>1 DEF LinearizeInv, HistoryTypes, AllTxns, Obligations
<1>9. Numbered'
  <2>1. \A u \in {t} \cup Running : Come(u)'
    BY <1>2, <1>3, <1>6 DEF Come
  <2>2. \A l \in reads : Come(l[1])'
    BY <1>3 DEF LinearizeInv, HistoryTypes, Numbered
  <2>3. \A u \in linearized : Come(u)'
    BY <1>3 DEF LinearizeInv, HistoryTypes, Numbered
  <2>4. \A u \in committed : Come(u)' /\ ~Runs(u)'
    BY <1>3, <1>4 DEF LinearizeInv, HistoryTypes, Numbered
  <2>5. \A p \in overlap' : Come(p[1])' /\ Come(p[2])'
    <3>1. \A p \in overlap : p[1] \in AllTxns /\ p[2] \in AllTxns /\ Come(p[1]) /\ Come(p[2])
      BY DEF LinearizeInv, HistoryTypes, Numbered
    <3>2. ASSUME NEW p \in overlap', p \notin overlap
          PROVE  p[1] \in {t} \cup Running /\ p[2] \in {t} \cup Running
      <4>1. p \in {t} \X Running \/ p \in Running \X {t}
        BY <1>1, <3>2
      <4> QED BY <4>1
    <3> QED BY <1>3, <2>1, <3>1, <3>2
  <2>6. \A o \in obliged : Come(o.reader)' /\ Come(o.writer)' /\ o.reader[1] # o.writer[1]
    BY <1>3, ObligationFacts
  <2> QED BY <1>1, <2>2, <2>3, <2>4, <2>5, <2>6 DEF Numbered
<1>10. Local'
  <2> SUFFICES ASSUME NEW c \in Backends
               PROVE  LocalOf(c)'
    BY DEF Local
  <2>1. LocalOf(c)
    BY DEF LinearizeInv, Local
  <2>2. CASE c = b
    <3>1. Txn(b)' = t /\ t \notin linearized
      BY <1>2, <1>3 DEF Txn, LinearizeInv, Numbered, HistoryTypes
    <3> QED BY <1>1, <1>2, <2>1, <2>2, <3>1 DEF LocalOf
  <2>3. CASE c # b
    BY <1>1, <1>2, <2>1, <2>3 DEF LocalOf, Txn
  <2> QED BY <2>2, <2>3
<1>11. LocksKept'
  <2> SUFFICES ASSUME NEW l \in reads,
                      Runs(l[1])' \/ \E u \in AllTxns : Runs(u)' /\ <<l[1], u>> \in overlap'
               PROVE  l \in locks
    BY <1>1 DEF LocksKept
  <2>1. l[1] \in AllTxns /\ l[1] # t
    BY <1>3 DEF LinearizeInv, HistoryTypes, Numbered
  <2>2. CASE Runs(l[1])
    BY <2>2 DEF LinearizeInv, LocksKept
  <2>3. CASE ~Runs(l[1])
    <3>1. PICK u \in AllTxns : Runs(u)' /\ <<l[1], u>> \in overlap'
      BY <1>4, <2>1, <2>3
    <3>2. <<l[1], u>> \in overlap
      BY <1>1, <1>6, <2>1, <2>3, <3>1
    <3>3. Runs(u)
      BY <1>3, <1>4, <3>1, <3>2 DEF LinearizeInv, Numbered
    <3> QED BY <3>2, <3>3 DEF LinearizeInv, LocksKept
  <2> QED BY <2>2, <2>3
<1>12. ASSUME NEW c \in Backends \ {b}, NEW i \in Backends \ {b}, NEW r
       PROVE  /\ Recorded(i, r)' <=> Recorded(i, r)
              /\ Filling(c, i, r)' <=> Filling(c, i, r)
              /\ ToCheck(c, r)' <=> ToCheck(c, r)
  BY <1>1, <1>2 DEF Recorded, Filling, Own, ToCheck
<1>13. ASSUME NEW o \in obliged
       PROVE  /\ Runs(o.writer)' => Runs(o.writer) /\ o.writer[1] \in Backends \ {b}
              /\ Runs(o.reader)' => Runs(o.reader) /\ o.reader[1] \in Backends \ {b}
  BY <1>3, <1>4, <1>5, ObligationFacts
<1>14. ReadBeforeOK'
  <2> SUFFICES ASSUME NEW o \in obliged, o.rule = "read before"
               PROVE  /\ <<o.reader, o.rel>> \in reads' /\ <<o.reader, o.writer>> \in overlap'
                      /\ o.writer \notin committed'
                      /\ Runs(o.writer)' => ToCheck(o.writer[1], o.rel)'
    BY <1>1 DEF ReadBeforeOK
  <2>1. /\ <<o.reader, o.rel>> \in reads /\ <<o.reader, o.writer>> \in overlap
        /\ o.writer \notin committed
        /\ Runs(o.writer) => ToCheck(o.writer[1], o.rel)
    BY DEF LinearizeInv, ReadBeforeOK
  <2> QED BY <1>1, <1>12, <1>13, <2>1
<1>15. MaybeOpenOK'
  <2> SUFFICES ASSUME NEW o \in obliged, o.rule = "maybe open",
                      BothOpen(o)', o.reader \notin lost'
               PROVE  Provided(o)'
    BY <1>1 DEF MaybeOpenOK, LinearizeInv
  <2>1. o.reader[1] \in Backends \ {b} /\ o.writer[1] \in Backends \ {b} /\ BothOpen(o)
    BY <1>2, <1>13 DEF BothOpen
  <2>2. Provided(o)
    BY <1>1, <2>1 DEF LinearizeInv, MaybeOpenOK
  <2> QED BY <1>1, <1>2, <1>12, <2>1, <2>2 DEF Provided
<1>16. OpenOK'
  <2> SUFFICES ASSUME NEW o \in obliged, o.rule = "open", Runs(o.reader)', o.reader \notin lost'
               PROVE  Finds(o)'
    BY <1>1 DEF OpenOK, LinearizeInv
  <2>1. Finds(o) /\ o.reader[1] \in Backends \ {b}
    BY <1>1, <1>13 DEF OpenOK, LinearizeInv
  <2> QED BY <1>1, <1>2, <1>12, <2>1 DEF Finds
<1> QED BY <1>7, <1>8, <1>9, <1>10, <1>11, <1>14, <1>15, <1>16 DEF LinearizeInv

\* linearize() is called, or a statement writes or fails to: the places, the slots and the loops of
\* all backends are as before.
LEMMA StatementStep ==
  ASSUME LinearizeInv, NEW b \in Backends,
         \/ Linearize(b)
         \/ \E r \in Rels, writer \in Writers : Write(b, r, writer)
         \/ \E r \in Rels : CaughtWrite(b, r)
  PROVE  LinearizeInv'
<1>1. /\ UNCHANGED <<phase, numconflicts, conflicts, todo, rel, left, tested, slot, reading, locks,
                     cur, reads, overlap, committed, obliged, lost>>
      /\ phase[b] = "open"
      /\ \A c \in Backends \ {b} : /\ status'[c] = status[c] /\ wrote'[c] = wrote[c]
                                   /\ linearize_enabled'[c] = linearize_enabled[c]
                                   /\ linearized_writes'[c] = linearized_writes[c]
      /\ linearized' = linearized \/ linearized' = linearized \cup {Txn(b)}
      /\ wrote' \in [Backends -> SUBSET Rels] /\ forgotten' \in [Backends -> SUBSET Rels]
      /\ StateTypes'
  <2>1. CASE Linearize(b)
    BY <2>1 DEF Linearize, commit, LinearizeInv, StateTypes, HistoryTypes
  <2>2. ASSUME NEW r \in Rels, NEW writer \in Writers, Write(b, r, writer)
        PROVE  <1>1!:
    BY <2>2, RejoinStatus DEF Write, commit, LinearizeInv, StateTypes, HistoryTypes
  <2>3. ASSUME NEW r \in Rels, CaughtWrite(b, r)
        PROVE  <1>1!:
    BY <2>3, RejoinStatus DEF CaughtWrite, commit, truth, events, LinearizeInv, StateTypes, HistoryTypes
  <2> QED BY <2>1, <2>2, <2>3
<1>2. linearized' \subseteq linearized \cup Running /\ linearized \subseteq linearized'
  BY <1>1 DEF Running
<1>3. HistoryTypes' /\ Numbered' /\ LocksKept'
  BY <1>1, <1>2, SameHistory
<1>4. Local'
  <2> SUFFICES ASSUME NEW c \in Backends
               PROVE  LocalOf(c)'
    BY DEF Local
  <2>1. LocalOf(c)
    BY DEF LinearizeInv, Local
  <2>2. CASE c = b /\ Linearize(b)
    BY <1>1, <2>1, <2>2 DEF LocalOf, Linearize, Txn, LinearizeInv, StateTypes
  <2>3. ASSUME c = b, NEW r \in Rels, NEW writer \in Writers, Write(b, r, writer)
        PROVE  LocalOf(c)'
    BY <1>1, <2>1, <2>3, RejoinStatus DEF LocalOf, Write, Txn, LinearizeInv, StateTypes, HistoryTypes
  <2>5. ASSUME c = b, NEW r \in Rels, CaughtWrite(b, r)
        PROVE  LocalOf(c)'
    BY <1>1, <2>1, <2>5, RejoinStatus DEF LocalOf, CaughtWrite, Txn, LinearizeInv, StateTypes, truth, events
  <2>4. CASE c # b
    <3>1. Txn(c)' = Txn(c) /\ Txn(c) # Txn(b)
      BY <1>1, <2>4 DEF Txn
    <3> QED BY <1>1, <2>1, <2>4, <3>1 DEF LocalOf
  <2> QED BY <2>2, <2>3, <2>4, <2>5
<1>5. ASSUME NEW o \in obliged
      PROVE  /\ ToCheck(o.writer[1], o.rel)' <=> ToCheck(o.writer[1], o.rel)
             /\ BothOpen(o)' <=> BothOpen(o)
             /\ Finds(o)' <=> Finds(o)
  BY <1>1, ObligationFacts DEF BothOpen, Finds, ToCheck, Recorded, Runs
<1>6. ASSUME NEW o \in obliged
      PROVE  Provided(o)' <=> Provided(o)
  BY <1>1, <1>5 DEF Provided, Filling, Own, Recorded
<1>7. ReadBeforeOK' /\ MaybeOpenOK' /\ OpenOK'
  BY <1>1, <1>2, <1>5, <1>6, SameObligations DEF LinearizeInv, ReadBeforeOK, MaybeOpenOK, OpenOK
<1> QED BY <1>1, <1>3, <1>4, <1>7 DEF LinearizeInv

\* A read that has begun takes its lock.
LEMMA ReadRunStep ==
  ASSUME LinearizeInv, NEW b \in Backends, NEW target \in LockTargets, ReadRun(b, target)
  PROVE  LinearizeInv'
<1>1. /\ UNCHANGED <<phase, linearize_enabled, linearized_writes, status, numconflicts, conflicts,
                     todo, rel, left, tested, slot, cur, wrote, forgotten, overlap, linearized,
                     committed, obliged, lost>>
      /\ reading[b] # NoRel /\ reading' = [reading EXCEPT ![b] = NoRel]
      /\ \/ locks' = locks /\ reads' = reads
         \/ locks' = locks \cup {<<Txn(b), reading[b]>>} /\ reads' = reads \cup {<<Txn(b), reading[b]>>}
  BY DEF ReadRun, local, shared, commit
<1>2. phase[b] = "open" /\ reading[b] \in Rels /\ Txn(b) \in AllTxns /\ Runs(Txn(b)) /\ Come(Txn(b))
  BY <1>1 DEF LinearizeInv, Local, LocalOf, StateTypes, HistoryTypes, Txn, AllTxns, Runs, Come
<1>3. StateTypes'
  BY <1>1 DEF LinearizeInv, StateTypes
<1>4. HistoryTypes'
  <2>1. reads' \subseteq AllTxns \X Rels /\ locks' \subseteq AllTxns \X Rels
    BY <1>1, <1>2 DEF LinearizeInv, HistoryTypes
  <2> QED BY <1>1, <2>1 DEF LinearizeInv, HistoryTypes, AllTxns, Obligations
<1>5. \A t : (Runs(t)' <=> Runs(t)) /\ (Come(t)' <=> Come(t))
  BY <1>1 DEF Runs, Come
<1>6. Numbered'
  BY <1>1, <1>2, <1>5 DEF LinearizeInv, Numbered
<1>7. Local'
  BY <1>1 DEF LinearizeInv, Local, LocalOf, StateTypes, Txn
<1>8. LocksKept'
  BY <1>1, <1>5 DEF LinearizeInv, LocksKept
<1>9. ASSUME NEW o \in obliged
      PROVE  /\ ToCheck(o.writer[1], o.rel)' <=> ToCheck(o.writer[1], o.rel)
             /\ BothOpen(o)' <=> BothOpen(o)
             /\ Provided(o)' <=> Provided(o)
             /\ Recorded(o.reader[1], o.rel)' <=> Recorded(o.reader[1], o.rel)
  BY <1>1 DEF BothOpen, Provided, ToCheck, Filling, Own, Recorded, Runs
<1>10. ReadBeforeOK'
  BY <1>1, <1>5, <1>9 DEF LinearizeInv, ReadBeforeOK
<1>11. MaybeOpenOK'
  BY <1>1, <1>9 DEF LinearizeInv, MaybeOpenOK
<1>12. OpenOK'
  <2> SUFFICES ASSUME NEW o \in obliged, o.rule = "open"
               PROVE  /\ Runs(o.reader) /\ o.reader \notin lost => Finds(o)'
                      /\ o.reader \in committed /\ o.reader \notin lost =>
                           <<o.reader, o.rel>> \notin reads'
    BY <1>1, <1>5 DEF OpenOK, LinearizeInv
  <2>1. /\ Runs(o.reader) /\ o.reader \notin lost => Finds(o)
        /\ o.reader \in committed /\ o.reader \notin lost => <<o.reader, o.rel>> \notin reads
    BY DEF OpenOK, LinearizeInv
  <2>2. o.reader \in committed => o.reader # Txn(b)
    BY <1>2 DEF LinearizeInv, Numbered
  <2>3. phase[o.reader[1]] # "open" => o.reader # Txn(b)
    BY <1>2 DEF Txn
  <2>4. o.reader # Txn(b) => (<<o.reader, o.rel>> \in reads' => <<o.reader, o.rel>> \in reads)
    BY <1>1
  <2> QED BY <1>1, <1>9, <2>1, <2>2, <2>3, <2>4 DEF Finds
<1> QED BY <1>3, <1>4, <1>6, <1>7, <1>8, <1>10, <1>11, <1>12 DEF LinearizeInv

\* The server forgets locks that nothing overlaps.
LEMMA ForgetLocksStep ==
  ASSUME LinearizeInv, NEW t \in Txns, ForgetLocks(t)
  PROVE  LinearizeInv'
<1>1. /\ UNCHANGED <<phase, linearize_enabled, linearized_writes, status, numconflicts, conflicts,
                     todo, rel, left, tested, slot, reading, cur, reads, wrote, forgotten, overlap,
                     linearized, committed, obliged, lost>>
      /\ t \in committed /\ \A u \in Running : <<t, u>> \notin overlap
      /\ locks' = {l \in locks : l[1] # t}
  BY DEF ForgetLocks, local, shared, commit, truth, events
<1>2. StateTypes' /\ HistoryTypes'
  BY <1>1 DEF LinearizeInv, StateTypes, HistoryTypes, AllTxns, Obligations
<1>3. \A u : Runs(u)' <=> Runs(u)
  BY <1>1 DEF Runs
<1>4. Numbered' /\ Local'
  BY <1>1, <1>3 DEF LinearizeInv, Numbered, Come, Local, LocalOf, Txn
<1>5. LocksKept'
  <2> SUFFICES ASSUME NEW l \in reads,
                      Runs(l[1]) \/ \E u \in AllTxns : Runs(u) /\ <<l[1], u>> \in overlap
               PROVE  l \in locks'
    BY <1>1, <1>3 DEF LocksKept
  <2>1. l \in locks
    BY DEF LinearizeInv, LocksKept
  <2>2. l[1] # t
    BY <1>1, RunningTxn DEF LinearizeInv, Numbered
  <2> QED BY <1>1, <2>1, <2>2
<1>6. ASSUME NEW o \in obliged
      PROVE  /\ ToCheck(o.writer[1], o.rel)' <=> ToCheck(o.writer[1], o.rel)
             /\ BothOpen(o)' <=> BothOpen(o)
             /\ Provided(o)' <=> Provided(o)
             /\ Finds(o)' <=> Finds(o)
  BY <1>1 DEF BothOpen, Provided, Finds, ToCheck, Filling, Own, Recorded, Runs
<1>7. ReadBeforeOK' /\ MaybeOpenOK' /\ OpenOK'
  BY <1>1, <1>6, SameObligations DEF LinearizeInv, ReadBeforeOK, MaybeOpenOK, OpenOK
<1> QED BY <1>2, <1>4, <1>5, <1>7 DEF LinearizeInv

\* XACT_EVENT_PRE_COMMIT: from here on the rules oblige the writer, which has all its
\* relations still to check.
LEMMA PreCommitStep ==
  ASSUME LinearizeInv, NEW b \in Backends, PreCommit(b)
  PROVE  LinearizeInv'
<1>1. /\ UNCHANGED <<linearize_enabled, linearized_writes, numconflicts, conflicts, todo, rel,
                     left, tested, slot, reading, locks, cur, reads, wrote, forgotten, overlap,
                     linearized, committed, lost>>
      /\ phase[b] = "open" /\ reading[b] = NoRel
  BY DEF PreCommit, local, commit
<1>2. ASSUME linearize_enabled[b]
      PROVE  /\ phase' = [phase EXCEPT ![b] = "own"]
             /\ status' = [status EXCEPT ![b] = "Committing"]
             /\ obliged' = obliged \cup ObligeReaders("read before", b, wrote[b])
                                   \cup ObligeReaders("forgotten", b, forgotten[b])
                                   \cup Oblige("maybe open", StillOpen(b), b, wrote[b])
  BY <1>2 DEF PreCommit
<1>3. ASSUME ~linearize_enabled[b]
      PROVE  phase' = [phase EXCEPT ![b] = "commit"] /\ status' = status /\ obliged' = obliged
  BY <1>3 DEF PreCommit
<1>4. /\ \A c \in Backends \ {b} : phase'[c] = phase[c] /\ status'[c] = status[c]
      /\ phase'[b] = IF linearize_enabled[b] THEN "own" ELSE "commit"
      /\ StateTypes'
  <2>1. CASE linearize_enabled[b]
    <3>1. phase' = [phase EXCEPT ![b] = "own"] /\ status' = [status EXCEPT ![b] = "Committing"]
      BY <1>2, <2>1
    <3> QED BY <1>1, <2>1, <3>1 DEF LinearizeInv, StateTypes
  <2>2. CASE ~linearize_enabled[b]
    BY <1>1, <1>3, <2>2 DEF LinearizeInv, StateTypes
  <2> QED BY <2>1, <2>2
<1>5. Txn(b) \in AllTxns /\ Runs(Txn(b)) /\ Come(Txn(b)) /\ Txn(b) \notin committed /\ Txn(b)[1] = b
  BY <1>1 DEF LinearizeInv, HistoryTypes, Numbered, Txn, AllTxns, Runs, Come
<1>6. \A t : (Runs(t)' <=> Runs(t)) \/ t[1] \notin Backends
  BY <1>1, <1>4 DEF Runs
<1>7. ASSUME NEW o \in obliged' \ obliged
      PROVE  /\ linearize_enabled[b] /\ o.rule \in {"read before", "forgotten", "maybe open"}
             /\ o.writer = Txn(b) /\ o.reader \in Overlapping(b)
             /\ o.rule # "forgotten" => o.rel \in wrote[b]
             /\ o.rule = "read before" => <<o.reader, o.rel>> \in reads
             /\ o \in Obligations
  <2>1. linearize_enabled[b]
    BY <1>3
  <2>2. wrote[b] \subseteq Rels /\ forgotten[b] \subseteq Rels /\ Overlapping(b) \subseteq AllTxns
    BY DEF LinearizeInv, HistoryTypes, Overlapping
  <2>5. CASE o \in ObligeReaders("forgotten", b, forgotten[b])
    <3>1. o \in Oblige("forgotten", Overlapping(b), b, forgotten[b])
      BY <2>5 DEF ObligeReaders
    <3> QED BY <1>5, <2>1, <2>2, <3>1 DEF Oblige, Obligations
  <2>3. CASE o \in ObligeReaders("read before", b, wrote[b])
    <3>1. o \in Oblige("read before", Overlapping(b), b, wrote[b]) /\ <<o.reader, o.rel>> \in reads
      BY <2>3 DEF ObligeReaders
    <3> QED BY <1>5, <2>1, <2>2, <3>1 DEF Oblige, Obligations
  <2>4. CASE o \in Oblige("maybe open", StillOpen(b), b, wrote[b])
    <3>1. StillOpen(b) \subseteq Overlapping(b)
      BY DEF StillOpen
    <3>2. StillOpen(b) \subseteq AllTxns
      BY <2>2, <3>1
    <3> QED BY <1>5, <2>1, <2>2, <2>4, <3>1, <3>2 DEF Oblige, Obligations
  <2> QED BY <1>2, <2>1, <2>3, <2>4, <2>5
<1>8. ASSUME NEW o \in obliged' \ obliged
      PROVE  /\ o.reader \in linearized /\ o.reader[1] # b /\ <<o.reader, Txn(b)>> \in overlap
             /\ Come(o.reader) /\ (o.rule # "forgotten" => ToCheck(b, o.rel)')
  <2>1. o.reader \in linearized /\ o.reader[1] # b /\ <<o.reader, Txn(b)>> \in overlap
    BY <1>7 DEF Overlapping
  <2>2. Come(o.reader)
    BY <2>1 DEF LinearizeInv, Numbered
  <2>3. o.rule # "forgotten" => o.rel \in linearized_writes[b]
    BY <1>7 DEF LinearizeInv, Local, LocalOf
  <2> QED BY <1>1, <1>4, <1>7, <2>1, <2>2, <2>3 DEF ToCheck
<1>9. HistoryTypes'
  <2>1. obliged' \subseteq Obligations
    BY <1>7 DEF LinearizeInv, HistoryTypes
  <2> QED BY <1>1, <2>1 DEF LinearizeInv, HistoryTypes, AllTxns, Obligations
<1>10. Numbered'
  <2>1. \A o \in obliged' : Come(o.reader) /\ Come(o.writer) /\ o.reader[1] # o.writer[1]
    BY <1>5, <1>7, <1>8 DEF LinearizeInv, Numbered
  <2>2. \A t \in committed : ~Runs(t)'
    BY <1>6 DEF LinearizeInv, Numbered, HistoryTypes, AllTxns
  <2> QED BY <1>1, <2>1, <2>2 DEF LinearizeInv, Numbered, Come
<1>11. Local'
  <2> SUFFICES ASSUME NEW c \in Backends
               PROVE  LocalOf(c)'
    BY DEF Local
  <2>1. LocalOf(c)
    BY DEF LinearizeInv, Local
  <2> QED BY <1>1, <1>4, <2>1 DEF LocalOf, Txn
<1>12. LocksKept'
  <2> SUFFICES ASSUME NEW l \in reads,
                      Runs(l[1])' \/ \E u \in AllTxns : Runs(u)' /\ <<l[1], u>> \in overlap
               PROVE  l \in locks
    BY <1>1 DEF LocksKept
  <2>1. l[1] \in AllTxns
    BY DEF LinearizeInv, HistoryTypes
  <2> QED BY <1>6, <2>1 DEF LinearizeInv, LocksKept, AllTxns
<1>13. ASSUME NEW i \in Backends, NEW r
       PROVE  /\ Recorded(i, r)' <=> Recorded(i, r)
              /\ \A c \in Backends : Filling(c, i, r)' <=> Filling(c, i, r)
              /\ ~ToCheck(b, r) /\ \A c \in Backends \ {b} : ToCheck(c, r)' <=> ToCheck(c, r)
  BY <1>1, <1>4 DEF Recorded, Filling, Own, ToCheck
<1>14. ReadBeforeOK'
  <2> SUFFICES ASSUME NEW o \in obliged', o.rule = "read before"
               PROVE  /\ <<o.reader, o.rel>> \in reads /\ <<o.reader, o.writer>> \in overlap
                      /\ o.writer \notin committed
                      /\ Runs(o.writer)' => ToCheck(o.writer[1], o.rel)'
    BY <1>1 DEF ReadBeforeOK
  <2>1. CASE o \in obliged
    <3>1. /\ <<o.reader, o.rel>> \in reads /\ <<o.reader, o.writer>> \in overlap
          /\ o.writer \notin committed
          /\ Runs(o.writer) => ToCheck(o.writer[1], o.rel)
      BY <2>1 DEF LinearizeInv, ReadBeforeOK
    <3>2. o.writer[1] \in Backends
      BY <2>1, ObligationFacts
    <3> QED BY <1>6, <1>13, <3>1, <3>2
  <2>2. CASE o \notin obliged
    BY <1>5, <1>7, <1>8, <2>2
  <2> QED BY <2>1, <2>2
<1>15. MaybeOpenOK'
  <2> SUFFICES ASSUME NEW o \in obliged', o.rule = "maybe open"
               PROVE  /\ o.reader \in linearized
                      /\ BothOpen(o)' /\ o.reader \notin lost => Provided(o)'
    BY <1>1 DEF MaybeOpenOK
  <2>1. CASE o \in obliged
    <3>1. o.reader \in linearized /\ (BothOpen(o) /\ o.reader \notin lost => Provided(o))
      BY <2>1 DEF LinearizeInv, MaybeOpenOK
    <3>2. o.reader[1] \in Backends /\ o.writer[1] \in Backends
      BY <2>1, ObligationFacts
    <3>3. ASSUME BothOpen(o)', o.reader \notin lost
          PROVE  Provided(o)'
      <4>1. BothOpen(o) /\ o.reader[1] # b
        BY <1>4, <1>6, <3>2, <3>3 DEF BothOpen
      <4>2. Provided(o)
        BY <3>1, <3>3, <4>1
      <4>3. o.writer[1] # b
        BY <1>1, <1>13, <3>2, <4>2 DEF Provided
      <4> QED BY <1>1, <1>4, <1>13, <3>2, <4>2, <4>3 DEF Provided
    <3> QED BY <3>1, <3>3
  <2>2. CASE o \notin obliged
    <3>1. ToCheck(o.writer[1], o.rel)'
      BY <1>5, <1>7, <1>8, <2>2
    <3> QED BY <1>8, <2>2, <3>1 DEF Provided
  <2> QED BY <2>1, <2>2
<1>16. OpenOK'
  <2> SUFFICES ASSUME NEW o \in obliged', o.rule = "open"
               PROVE  /\ o.reader \in linearized
                      /\ Runs(o.reader)' /\ o.reader \notin lost => Finds(o)'
                      /\ o.reader \in committed /\ o.reader \notin lost =>
                           <<o.reader, o.rel>> \notin reads
    BY <1>1 DEF OpenOK
  <2>1. o \in obliged
    BY <1>7
  <2>2. /\ o.reader \in linearized
        /\ Runs(o.reader) /\ o.reader \notin lost => Finds(o)
        /\ o.reader \in committed /\ o.reader \notin lost => <<o.reader, o.rel>> \notin reads
    BY <2>1 DEF LinearizeInv, OpenOK
  <2>3. o.reader \in AllTxns /\ o.reader[1] \in Backends
    BY <2>1, ObligationFacts
  <2>4. ASSUME Runs(o.reader)', o.reader \notin lost
        PROVE  Finds(o)'
    <3>1. Runs(o.reader) /\ Finds(o)
      BY <1>6, <2>2, <2>3, <2>4
    <3>2. CASE o.reader[1] = b
      <4>1. o.reader = Txn(b)
        BY <2>3, <3>1, <3>2, RunningTxn
      <4>2. linearize_enabled[b]
        BY <1>1, <2>2, <4>1 DEF LinearizeInv, Local, LocalOf
      <4> QED BY <1>1, <1>4, <1>13, <3>1, <3>2, <4>2 DEF Finds
    <3>3. CASE o.reader[1] # b
      BY <1>1, <1>4, <1>13, <2>3, <3>1, <3>3 DEF Finds
    <3> QED BY <3>2, <3>3
  <2> QED BY <2>2, <2>4
<1> QED BY <1>4, <1>9, <1>10, <1>11, <1>12, <1>14, <1>15, <1>16 DEF LinearizeInv

\* The server commits: all that its transaction is obliged to is done, and the readers that
\* are still open have the conflict recorded.
LEMMA CommitStep ==
  ASSUME LinearizeInv, NEW b \in Backends, Commit(b)
  PROVE  LinearizeInv'
<1>1. /\ UNCHANGED <<linearize_enabled, linearized_writes, status, numconflicts, conflicts, todo,
                     rel, left, tested, slot, reading, locks, cur, reads, overlap, linearized, lost>>
      /\ phase[b] = "commit" /\ phase' = [phase EXCEPT ![b] = "idle"]
      /\ committed' = committed \cup {Txn(b)} /\ wrote' = [wrote EXCEPT ![b] = {}]
      /\ forgotten' = [forgotten EXCEPT ![b] = {}]
      /\ \/ obliged' = obliged
         \/ obliged' = obliged \cup ObligeReaders("2", b, wrote[b]) \cup ObligeOpen(b)
  BY DEF Commit, local, shared, commit
<1>2. /\ phase'[b] = "idle" /\ wrote'[b] = {}
      /\ \A c \in Backends \ {b} : phase'[c] = phase[c] /\ wrote'[c] = wrote[c]
  BY <1>1 DEF LinearizeInv, StateTypes, HistoryTypes
<1>3. Txn(b) \in AllTxns /\ Runs(Txn(b)) /\ Come(Txn(b)) /\ Txn(b)[1] = b
  BY <1>1 DEF LinearizeInv, HistoryTypes, Txn, AllTxns, Runs, Come
<1>4. \A t \in AllTxns : Runs(t)' <=> Runs(t) /\ t[1] # b
  BY <1>1, <1>2 DEF Runs, AllTxns
<1>5. ASSUME NEW o \in obliged' \ obliged
      PROVE  /\ o \in Obligations /\ Come(o.reader) /\ Come(o.writer) /\ o.reader[1] # o.writer[1]
             /\ \/ o.rule = "2"
                \/ o.rule = "open" /\ \E q \in obliged :
                     /\ q.rule = "maybe open" /\ q.writer = Txn(b) /\ q.reader \in StillOpen(b)
                     /\ q.reader = o.reader /\ q.rel = o.rel
  <2>1. CASE o \in ObligeReaders("2", b, wrote[b])
    <3>1. o \in Oblige("2", Overlapping(b), b, wrote[b])
      BY <2>1 DEF ObligeReaders
    <3>2. Overlapping(b) \subseteq AllTxns /\ wrote[b] \subseteq Rels
      BY DEF LinearizeInv, HistoryTypes, Overlapping
    <3>3. o.rule = "2" /\ o.reader \in Overlapping(b) /\ o.writer = Txn(b) /\ o \in Obligations
      BY <1>3, <3>1, <3>2 DEF Oblige, Obligations
    <3>4. o.reader[1] # b /\ Come(o.reader)
      BY <3>3 DEF Overlapping, LinearizeInv, Numbered
    <3> QED BY <1>3, <3>3, <3>4
  <2>2. CASE o \in ObligeOpen(b)
    <3>0. PICK q \in obliged : /\ o = [q EXCEPT !.rule = "open"]
                               /\ q.rule = "maybe open" /\ q.writer = Txn(b)
                               /\ q.reader \in StillOpen(b)
      BY <2>2 DEF ObligeOpen
    <3>1. q \in Obligations /\ q \in obliged
      BY DEF LinearizeInv, HistoryTypes
    <3>2. /\ o \in Obligations /\ o.rule = "open" /\ o.reader = q.reader /\ o.writer = q.writer
          /\ o.rel = q.rel
      BY <3>0, <3>1 DEF Obligations
    <3> QED BY <3>0, <3>1, <3>2, ObligationFacts
  <2> QED BY <1>1, <2>1, <2>2
<1>6. StateTypes'
  BY <1>1 DEF LinearizeInv, StateTypes
<1>7. HistoryTypes'
  <2>1. obliged' \subseteq Obligations /\ committed' \subseteq AllTxns
    BY <1>1, <1>3, <1>5 DEF LinearizeInv, HistoryTypes
  <2> QED BY <1>1, <2>1 DEF LinearizeInv, HistoryTypes, AllTxns, Obligations
<1>8. Numbered'
  <2>1. \A o \in obliged' : Come(o.reader) /\ Come(o.writer) /\ o.reader[1] # o.writer[1]
    BY <1>5 DEF LinearizeInv, Numbered
  <2>2. \A t \in committed' : Come(t) /\ ~Runs(t)'
    BY <1>1, <1>3, <1>4 DEF LinearizeInv, Numbered, HistoryTypes
  <2> QED BY <1>1, <2>1, <2>2 DEF LinearizeInv, Numbered, Come
<1>9. Local'
  <2> SUFFICES ASSUME NEW c \in Backends
               PROVE  LocalOf(c)'
    BY DEF Local
  <2>1. LocalOf(c)
    BY DEF LinearizeInv, Local
  <2> QED BY <1>1, <1>2, <2>1 DEF LocalOf, Txn
<1>10. LocksKept'
  <2> SUFFICES ASSUME NEW l \in reads,
                      Runs(l[1])' \/ \E u \in AllTxns : Runs(u)' /\ <<l[1], u>> \in overlap
               PROVE  l \in locks
    BY <1>1 DEF LocksKept
  <2>1. l[1] \in AllTxns
    BY DEF LinearizeInv, HistoryTypes
  <2> QED BY <1>4, <2>1 DEF LinearizeInv, LocksKept
<1>11. ASSUME NEW i \in Backends, NEW r
       PROVE  /\ Recorded(i, r)' <=> Recorded(i, r)
              /\ \A c \in Backends : Filling(c, i, r)' <=> Filling(c, i, r)
              /\ ~ToCheck(b, r) /\ \A c \in Backends \ {b} : ToCheck(c, r)' <=> ToCheck(c, r)
  BY <1>1, <1>2 DEF Recorded, Filling, Own, ToCheck
<1>12. ReadBeforeOK'
  <2> SUFFICES ASSUME NEW o \in obliged', o.rule = "read before"
               PROVE  /\ <<o.reader, o.rel>> \in reads /\ <<o.reader, o.writer>> \in overlap
                      /\ o.writer \notin committed'
                      /\ Runs(o.writer)' => ToCheck(o.writer[1], o.rel)'
    BY <1>1 DEF ReadBeforeOK
  <2>1. o \in obliged
    BY <1>5
  <2>2. /\ <<o.reader, o.rel>> \in reads /\ <<o.reader, o.writer>> \in overlap
        /\ o.writer \notin committed
        /\ Runs(o.writer) => ToCheck(o.writer[1], o.rel)
    BY <2>1 DEF LinearizeInv, ReadBeforeOK
  <2>3. o.writer[1] \in Backends /\ o.writer \in AllTxns
    BY <2>1, ObligationFacts
  <2>4. o.writer # Txn(b)
    BY <1>3, <1>11, <2>2
  <2> QED BY <1>1, <1>4, <1>11, <2>2, <2>3, <2>4
<1>13. MaybeOpenOK'
  <2> SUFFICES ASSUME NEW o \in obliged', o.rule = "maybe open"
               PROVE  /\ o.reader \in linearized
                      /\ BothOpen(o)' /\ o.reader \notin lost => Provided(o)'
    BY <1>1 DEF MaybeOpenOK
  <2>1. o \in obliged
    BY <1>5
  <2>2. o.reader \in linearized /\ (BothOpen(o) /\ o.reader \notin lost => Provided(o))
    BY <2>1 DEF LinearizeInv, MaybeOpenOK
  <2>3. /\ o.reader[1] \in Backends /\ o.writer[1] \in Backends
        /\ o.reader \in AllTxns /\ o.writer \in AllTxns
    BY <2>1, ObligationFacts
  <2>4. ASSUME BothOpen(o)', o.reader \notin lost
        PROVE  Provided(o)'
    <3>1. BothOpen(o) /\ o.reader[1] # b /\ o.writer[1] # b
      BY <1>2, <1>4, <2>3, <2>4 DEF BothOpen
    <3>2. Provided(o)
      BY <2>2, <2>4, <3>1
    <3> QED BY <1>1, <1>2, <1>11, <2>3, <3>1, <3>2 DEF Provided
  <2> QED BY <2>2, <2>4
<1>14. OpenOK'
  <2> SUFFICES ASSUME NEW o \in obliged', o.rule = "open"
               PROVE  /\ o.reader \in linearized
                      /\ Runs(o.reader)' /\ o.reader \notin lost => Finds(o)'
                      /\ o.reader \in committed' /\ o.reader \notin lost =>
                           <<o.reader, o.rel>> \notin reads
    BY <1>1 DEF OpenOK
  <2>1. CASE o \in obliged
    <3>1. /\ o.reader \in linearized
          /\ Runs(o.reader) /\ o.reader \notin lost => Finds(o)
          /\ o.reader \in committed /\ o.reader \notin lost => <<o.reader, o.rel>> \notin reads
      BY <2>1 DEF LinearizeInv, OpenOK
    <3>2. o.reader \in AllTxns /\ o.reader[1] \in Backends
      BY <2>1, ObligationFacts
    <3>3. ASSUME Runs(o.reader)', o.reader \notin lost
          PROVE  Finds(o)'
      <4>1. Finds(o) /\ o.reader[1] # b
        BY <1>4, <3>1, <3>2, <3>3
      <4> QED BY <1>1, <1>2, <1>11, <3>2, <4>1 DEF Finds
    <3>4. ASSUME o.reader = Txn(b), o.reader \notin lost
          PROVE  <<o.reader, o.rel>> \notin reads
      BY <1>1, <1>3, <3>1, <3>4 DEF Finds
    <3> QED BY <1>1, <3>1, <3>3, <3>4
  <2>2. CASE o \notin obliged
    <3>1. PICK q \in obliged :
            /\ q.rule = "maybe open" /\ q.writer = Txn(b) /\ q.reader \in StillOpen(b)
            /\ q.reader = o.reader /\ q.rel = o.rel
      BY <1>5, <2>2
    <3>2. /\ q \in obliged /\ q.rule = "maybe open" /\ q.writer = Txn(b)
          /\ q.reader \in StillOpen(b)
      BY <3>1
    <3>3. /\ q.reader \in linearized /\ q.reader[1] # b /\ phase[q.reader[1]] = "open"
          /\ Runs(q.reader)
      BY <3>2 DEF StillOpen, Overlapping, Runs
    <3>4. q.reader \notin lost => Provided(q)
      BY <1>3, <3>2, <3>3 DEF LinearizeInv, MaybeOpenOK, BothOpen
    <3>5. q.reader[1] \in Backends /\ q.reader \in AllTxns
      BY <3>2, ObligationFacts
    <3>6. q.reader \notin lost => Recorded(q.reader[1], q.rel)
      BY <1>1, <1>3, <1>11, <3>2, <3>4, <3>5 DEF Provided
    <3>7. q.reader \notin committed'
      BY <1>1, <1>3, <3>3 DEF LinearizeInv, Numbered
    <3>8. q.reader \notin lost => Finds(o)'
      BY <1>2, <1>11, <3>1, <3>3, <3>5, <3>6 DEF Finds
    <3> QED BY <3>1, <3>3, <3>7, <3>8
  <2> QED BY <2>1, <2>2
<1> QED BY <1>6, <1>7, <1>8, <1>9, <1>10, <1>12, <1>13, <1>14 DEF LinearizeInv

----------------------------------------------------------------------------
(* The theorems                                                            *)

LEMMA InitInv ==
  ASSUME Init
  PROVE  LinearizeInv
<1>1. StateTypes
  BY ConstantsAssumption DEF Init, StateTypes
<1>2. HistoryTypes /\ Numbered /\ LocksKept /\ ReadBeforeOK /\ MaybeOpenOK /\ OpenOK
  BY DEF Init, HistoryTypes, Numbered, LocksKept, ReadBeforeOK, MaybeOpenOK, OpenOK
<1>3. Local
  BY DEF Init, Local, LocalOf
<1> QED BY <1>1, <1>2, <1>3 DEF LinearizeInv

LEMMA UnchangedStep ==
  ASSUME LinearizeInv, UNCHANGED vars
  PROVE  LinearizeInv'
<1>1. UNCHANGED <<phase, linearize_enabled, linearized_writes, status, numconflicts, conflicts,
                  reading, todo, rel, left, tested, slot, locks, cur, reads, wrote, forgotten,
                  overlap, linearized, committed, obliged, lost>>
  BY DEF vars, local, shared, commit, truth, events
<1>2. StateTypes' /\ HistoryTypes'
  BY <1>1 DEF LinearizeInv, StateTypes, HistoryTypes, AllTxns, Obligations
<1>3. Numbered' /\ Local' /\ LocksKept'
  BY <1>1 DEF LinearizeInv, Numbered, Come, Runs, Local, LocalOf, Txn, LocksKept
<1>4. ASSUME NEW o \in obliged
      PROVE  /\ ToCheck(o.writer[1], o.rel)' <=> ToCheck(o.writer[1], o.rel)
             /\ BothOpen(o)' <=> BothOpen(o)
             /\ Provided(o)' <=> Provided(o)
             /\ Finds(o)' <=> Finds(o)
  BY <1>1 DEF BothOpen, Provided, Finds, ToCheck, Filling, Own, Recorded, Runs
<1>5. ReadBeforeOK' /\ MaybeOpenOK' /\ OpenOK'
  BY <1>1, <1>4, SameObligations DEF LinearizeInv, ReadBeforeOK, MaybeOpenOK, OpenOK
<1> QED BY <1>2, <1>3, <1>5 DEF LinearizeInv

LEMMA NextInv ==
  ASSUME LinearizeInv, [Next]_vars
  PROVE  LinearizeInv'
<1>1. ASSUME NEW b \in Backends, Begin(b) \/ Linearize(b) \/ Abort(b)
      PROVE  LinearizeInv'
  <2>1. Abort(b) => LinearizeInv'
    BY AbortedStep DEF Abort
  <2> QED BY <1>1, <2>1, BeginStep, StatementStep
<1>2. ASSUME NEW b \in Backends, PreCommit(b) \/ PushFill(b) \/ PushDone(b) \/ PreCommitDone(b) \/ Commit(b)
      PROVE  LinearizeInv'
  BY <1>2, PreCommitStep, PushFillStep, CommitLoops, PreCommitDoneStep, CommitStep
<1>3. ASSUME NEW b \in Backends, CheckOwn(b)
      PROVE  LinearizeInv'
  <2>1. CASE Aborted(b) /\ Reset(b)
    BY <1>3, <2>1, AbortedStep DEF CheckOwn
  <2>2. CASE ~(Aborted(b) /\ Reset(b))
    <3>1. phase'[b] # "idle"
      BY <1>3, <2>2 DEF CheckOwn, LinearizeInv, StateTypes
    <3> QED BY <1>3, <3>1, CommitLoops
  <2> QED BY <2>1, <2>2
<1>4. ASSUME NEW b \in Backends, NEW r \in Rels, CheckLocks(b, r)
      PROVE  LinearizeInv'
  <2>1. CASE Aborted(b) /\ Reset(b)
    BY <1>4, <2>1, AbortedStep DEF CheckLocks
  <2>2. CASE ~(Aborted(b) /\ Reset(b))
    <3>1. phase'[b] # "idle"
      BY <1>4, <2>2 DEF CheckLocks, LinearizeInv, StateTypes
    <3> QED BY <1>4, <3>1, CommitLoops
  <2> QED BY <2>1, <2>2
<1>5. ASSUME NEW b \in Backends, NEW r \in Rels, ReadStart(b, r)
      PROVE  LinearizeInv'
  <2>1. CASE FailReset(b)
    BY <1>5, <2>1, FailResetStep DEF ReadStart
  <2>2. CASE ~FailReset(b)
    BY <1>5, <2>2, ReadStartStep DEF ReadStart, commit
  <2> QED BY <2>1, <2>2
<1>6. ASSUME NEW b \in Backends, NEW r \in Rels, NEW writer \in Writers,
             Write(b, r, writer) \/ RefuseWrite(b, r, writer)
      PROVE  LinearizeInv'
  <2>1. RefuseWrite(b, r, writer) => LinearizeInv'
    <3>1. CASE phase[b] = "open" /\ FailReset(b)
      BY <3>1, FailResetStep
    <3>2. CASE phase[b] = "open" /\ FailWrite(b, r) /\ Aborted(b)
      BY <3>2, AbortedStep DEF FailWrite
    <3>3. CASE phase[b] = "open" /\ FailWrite(b, r) /\ ~Aborted(b)
      <4>1. CaughtWrite(b, r)
        BY <3>3 DEF FailWrite, CaughtWrite
      <4> QED BY <4>1, StatementStep
    <3> QED BY <3>1, <3>2, <3>3 DEF RefuseWrite
  <2> QED BY <1>6, <2>1, StatementStep
<1>7. ASSUME NEW b \in Backends, NEW target \in LockTargets, ReadRun(b, target)
      PROVE  LinearizeInv'
  BY <1>7, ReadRunStep
<1>8. ASSUME NEW b \in Backends, NEW i \in Backends,
             PushTest(b, i) \/ PushReserve(b, i) \/ PushCrash(b, i)
      PROVE  LinearizeInv'
  BY <1>8, PushTestStep, PushReserveStep, PushCrashStep
<1>9. ASSUME NEW t \in Txns, ForgetLocks(t)
      PROVE  LinearizeInv'
  BY <1>9, ForgetLocksStep
<1>10. CASE Done \/ UNCHANGED vars
  BY <1>10, UnchangedStep DEF Done
<1> QED BY <1>1, <1>2, <1>3, <1>4, <1>5, <1>6, <1>7, <1>8, <1>9, <1>10 DEF Next

\* The invariant of the linearization protocol: locks are kept as long as they matter, a
\* writer has its relations yet to check, and a reader that is open has the conflicts
\* recorded that it has to find.
THEOREM LinearizeIndInv == Spec => []LinearizeInv
<1>1. Init => LinearizeInv
  BY InitInv
<1>2. LinearizeInv /\ [Next]_vars => LinearizeInv'
  BY NextInv
<1> QED BY <1>1, <1>2, PTL DEF Spec

\* For any number of backends, relations, transactions and conflict slots: when a linearized
\* transaction has read a relation under a predicate lock before an overlapping transaction that
\* has written it since its last linearize() comes to XACT_EVENT_PRE_COMMIT, the two do not
\* both commit (linearize_xact_callback), whatever errors are caught in savepoints.
THEOREM LinearizeReadBeforeCommitDetected == Spec => []ReadBeforeCommitDetected
<1>1. LinearizeInv => ReadBeforeCommitDetected
  BY DEF LinearizeInv, ReadBeforeOK, ReadBeforeCommitDetected, Broken
<1> QED BY <1>1, LinearizeIndInv, PTL

\* For any number of them as well: a transaction that is open all through the writer's
\* XACT_EVENT_PRE_COMMIT does not commit with a read of what the writer has written, unless
\* one of its conflict slots was reserved twice or an error that resets them was caught.
THEOREM LinearizeOpenReaderDetected == Spec => []OpenReaderDetected
<1>1. LinearizeInv => OpenReaderDetected
  BY DEF LinearizeInv, OpenOK, OpenReaderDetected, Broken
<1> QED BY <1>1, LinearizeIndInv, PTL
=============================================================================
