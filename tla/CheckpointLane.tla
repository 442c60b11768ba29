--------------------------- MODULE CheckpointLane ---------------------------
(***************************************************************************)
(* The checkpoint lane of the state journal (crates/tex-state, journal.rs, *)
(* env.rs and the fork arena under them).  A checkpoint copies nothing: it *)
(* seals the sequence of deltas and advances an epoch, the save serial.    *)
(* Every cell carries the serial of its last write, so the first write of  *)
(* an epoch is recognised and keeps the word it displaces in a new delta.  *)
(* Going back swaps words between cells and deltas, newest first.  An      *)
(* editor candidate starts at a checkpoint while the accepted deltas stay  *)
(* detached, holding the words that bring the accepted state back.         *)
(*                                                                         *)
(* The module fixes the lane's contract.  Mutate says what any writer of   *)
(* cells owes the lane; DenseState is checked to obey it.                  *)
(***************************************************************************)
EXTENDS Integers, Sequences

CONSTANTS Cells,       \* the eqtb-equivalent cells
          Values,      \* the words a cell holds
          FirstCells,  \* the cells of a fresh state, all of serial 0
          MaxSerial    \* bound: the epochs explored (a u64 in the code)

ASSUME LaneAssumption ==
    /\ MaxSerial \in Nat
    /\ FirstCells \in [Cells -> [value : Values, level : Nat, serial : {0}]]

VARIABLES cells,      \* every cell's value, assignment level and last serial
          deltas,     \* the live deltas after the released prefix, oldest first
          base,       \* how many deltas the released prefix held
          serial,     \* save_serial
          forked,     \* checkpoint_fork
          detached,   \* the accepted deltas after the candidate's root
          root,       \* the cursor the candidate started from
          cursors,    \* the cursors the owner of the history holds
          accepted    \* for the properties: cells and deltas left by the fork

lane == <<cells, deltas, base, serial, forked, detached, root, cursors, accepted>>

BankCell == [value : Values, level : Nat, serial : Nat]
NoKey == 0
NoCursor == [chunks |-> 0, tail |-> NoKey, cells |-> FirstCells]

Least(S) == CHOOSE i \in S : \A j \in S : i <= j
Greatest(S) == CHOOSE i \in S : \A j \in S : j <= i

-----------------------------------------------------------------------------
(* The walks over the deltas: each swaps a cell with the word of a delta.   *)

\* The deltas of c in positions lo..hi of d.
Touches(d, c, lo, hi) == {i \in lo..hi : d[i].cell = c}

\* The word c has after the walk from cells w back over d to position n: its first
\* delta's.
RewoundCell(d, w, n, c) ==
    LET hits == Touches(d, c, n + 1, Len(d))
    IN  IF hits = {} THEN w[c] ELSE d[Least(hits)].alternate

Rewound(d, w, n) == [c \in Cells |-> RewoundCell(d, w, n, c)]

\* Delta i after that walk: the word the next delta of its cell had, or the cell's.
Rotated(d, w, n) ==
    [i \in 1..(Len(d) - n) |->
       LET later == Touches(d, d[n + i].cell, n + i + 1, Len(d))
       IN  [d[n + i] EXCEPT !.alternate =
              IF later = {} THEN w[d[n + i].cell] ELSE d[Least(later)].alternate]]

\* The walk forward over detached deltas d, from the cells w.
Redone(d, w) ==
    [c \in Cells |->
       LET hits == Touches(d, c, 1, Len(d))
       IN  IF hits = {} THEN w[c] ELSE d[Greatest(hits)].alternate]

Unrotated(d, w) ==
    [i \in 1..Len(d) |->
       LET earlier == Touches(d, d[i].cell, 1, i - 1)
       IN  [d[i] EXCEPT !.alternate =
              IF earlier = {} THEN w[d[i].cell] ELSE d[Greatest(earlier)].alternate]]

-----------------------------------------------------------------------------
(* Marks.  A delta stands for the sealed chunk that ends with it, and its   *)
(* key for the identity of that chunk, which the pool never gives twice.    *)

Keys(d) == {d[i].key : i \in DOMAIN d}

\* The keys some live chunk or some held cursor names.
KeysInUse(d) == Keys(d) \cup Keys(detached) \cup {k.tail : k \in cursors}

SealBoundary ==
    [chunks |-> base + Len(deltas),
     tail   |-> IF deltas = <<>> THEN NoKey ELSE deltas[Len(deltas)].key,
     cells  |-> cells]

\* The lane d reaches k's boundary, over the chunk k saw there.
Validates(d, k) ==
    /\ base <= k.chunks
    /\ k.chunks <= base + Len(d)
    /\ k.chunks # base => k.tail = d[k.chunks - base].key

ValidatesCheckpoint(k) == Validates(deltas, k)

-----------------------------------------------------------------------------
NothingAccepted == [cells |-> FirstCells, deltas |-> <<>>]

\* The candidate is settled either way.
SettleFork == /\ forked' = FALSE
              /\ detached' = <<>>
              /\ root' = NoCursor
              /\ accepted' = NothingAccepted
              /\ serial' = serial + 1

LInit == /\ cells = FirstCells
         /\ deltas = <<>> /\ base = 0 /\ serial = 0
         /\ forked = FALSE /\ detached = <<>> /\ root = NoCursor
         /\ cursors = {}
         /\ accepted = NothingAccepted

\* The deltas d extend the live ones by one delta for every cell first written.
Records(d) ==
    /\ Len(deltas) <= Len(d)
    /\ \A i \in 1..Len(deltas) : d[i] = deltas[i]
    /\ \A i \in Len(deltas) + 1..Len(d) :
         /\ d[i].cell \in Cells
         /\ d[i].alternate = cells[d[i].cell]
         /\ cells[d[i].cell].serial # serial
         /\ d[i].key \notin KeysInUse(SubSeq(d, 1, i - 1)) \cup {NoKey}
         /\ d[i].key \in Nat
         /\ cells'[d[i].cell].serial = serial

\* A step that writes cells, by assignment, group end or operation rollback.
Mutate ==
    /\ cells' \in [Cells -> BankCell]
    /\ deltas' \in Seq([cell : Cells, key : Nat, alternate : BankCell])
    /\ Records(deltas')
    /\ \A c \in Cells : cells'[c] # cells[c] =>
         /\ cells'[c].serial = serial
         /\ \/ cells[c].serial = serial
            \/ \E i \in Len(deltas) + 1..Len(deltas') : deltas'[i].cell = c
    /\ UNCHANGED <<base, serial, forked, detached, root, cursors, accepted>>

\* Mutant: the epoch does not advance.
CheckpointInEpoch ==
    /\ serial < MaxSerial
    /\ cursors' = cursors \cup {SealBoundary}
    /\ UNCHANGED <<cells, deltas, base, serial, forked, detached, root, accepted>>

Checkpoint ==
    /\ serial < MaxSerial
    /\ cursors' = cursors \cup {SealBoundary}
    /\ serial' = serial + 1
    /\ UNCHANGED <<cells, deltas, base, forked, detached, root, accepted>>

\* Destructive return to k on the live lineage; the later deltas are dropped.
Restore(k) ==
    /\ ValidatesCheckpoint(k)
    /\ forked => root.chunks <= k.chunks
    /\ serial < MaxSerial
    /\ cells' = Rewound(deltas, cells, k.chunks - base)
    /\ deltas' = SubSeq(deltas, 1, k.chunks - base)
    /\ serial' = serial + 1
    /\ UNCHANGED <<base, forked, detached, root, cursors, accepted>>

\* The accepted suffix is rewound and detached; a candidate starts at k.
BeginCandidate(k) ==
    /\ ValidatesCheckpoint(k)
    /\ ~forked
    /\ serial + 2 <= MaxSerial
    /\ cells' = Rewound(deltas, cells, k.chunks - base)
    /\ detached' = Rotated(deltas, cells, k.chunks - base)
    /\ deltas' = SubSeq(deltas, 1, k.chunks - base)
    /\ forked' = TRUE
    /\ root' = k
    /\ accepted' = [cells |-> cells, deltas |-> deltas]
    /\ serial' = serial + 1
    /\ UNCHANGED <<base, cursors>>

\* The candidate's deltas are undone, then the accepted ones redone.
RejectCandidate ==
    /\ forked
    /\ serial < MaxSerial
    /\ LET n == root.chunks - base
           w == Rewound(deltas, cells, n)
       IN  /\ cells' = Redone(detached, w)
           /\ deltas' = SubSeq(deltas, 1, n) \o Unrotated(detached, w)
    /\ SettleFork
    /\ UNCHANGED <<base, cursors>>

AcceptCandidate ==
    /\ forked
    /\ serial < MaxSerial
    /\ SettleFork
    /\ UNCHANGED <<cells, deltas, base, cursors>>

\* The oldest retained checkpoint becomes the floor; older cursors are given up.
ReleasePrefix(k) ==
    /\ ValidatesCheckpoint(k)
    /\ ~forked
    /\ base' = k.chunks
    /\ deltas' = SubSeq(deltas, k.chunks - base + 1, Len(deltas))
    /\ cursors' = {k} \cup {j \in cursors : k.chunks < j.chunks}
    /\ UNCHANGED <<cells, serial, forked, detached, root, accepted>>

LNext == \/ Mutate
         \/ Checkpoint
         \/ \E k \in cursors : Restore(k) \/ BeginCandidate(k) \/ ReleasePrefix(k)
         \/ RejectCandidate
         \/ AcceptCandidate

LSpec == LInit /\ [][LNext]_lane

-----------------------------------------------------------------------------
(* Properties *)

\* Every held cursor the lane still validates leads back to exactly the cells of
\* its checkpoint, with their levels and serials, whatever was written, restored,
\* forked or released since (Env::restore over checkpoint_suffix).
CheckpointsAreExact ==
    \A k \in cursors : ValidatesCheckpoint(k) => Rewound(deltas, cells, k.chunks - base) = k.cells

\* A candidate ends as one history or the other and never as a mixture: either its
\* own cells and deltas stand, or those the fork set aside are back, levels and
\* serials included, so the accepted checkpoints work again
\* (Env::reject_checkpoint_candidate, accept_checkpoint_candidate).
SettlesOnOneHistory ==
    [][(forked /\ ~forked') =>
         \/ UNCHANGED <<cells, deltas>>
         \/ cells' = accepted.cells /\ deltas' = accepted.deltas]_lane
=============================================================================
