----------------------------- MODULE DenseState -----------------------------
(***************************************************************************)
(* The dense engine state (crates/tex-state, env.rs, env/restoration.rs    *)
(* and journal.rs): the cells, the save journal that groups unwind, the    *)
(* undo entries of open state operations, and, from CheckpointLane, the    *)
(* deltas of checkpoints.  One assignment may feed all three, each under   *)
(* its own condition, and each is unwound by a different walk.             *)
(*                                                                         *)
(* Left out: the group lineage identities, the font and box rows, and the  *)
(* null token parameter, which also restores as one word.                  *)
(***************************************************************************)
EXTENDS CheckpointLane, FiniteSets, Folds

CONSTANTS Extended,    \* the cells of registers above 255 (sparse at a group end)
          MaxGroups,   \* bound: open groups
          MaxOps,      \* bound: nested state operations
          MaxSaves,    \* bound: journal entries
          MaxUndo,     \* bound: undo entries
          MaxCursors   \* bound: cursors held

\* A group marker is no record of a cell, and no cell is assigned in a group at first.
ASSUME DenseAssumption ==
    /\ "group" \notin Cells
    /\ \A c \in Cells : FirstCells[c].level \in {0, 1}

VARIABLES sequence,    \* the save journal: group markers and save records
          groups,      \* the open groups, with their marks in the journal
          saveStack,   \* SaveStackProjection: words used, and the latest push
          undo,        \* transaction_entries
          ops          \* the open state operations, outermost first

vars == <<lane, sequence, groups, saveStack, undo, ops>>

LevelOne == 1
None == -1
EmptySaveStack == [words |-> 0, latest |-> None, size |-> 0]
Marker == [cell |-> "group"]

Last(s) == s[Len(s)]
Front(s) == SubSeq(s, 1, Len(s) - 1)

\* What op makes of w with the elements of s, the first one first.
FoldLeft(op(_, _), w, s) ==
    MapThenFoldSet(LAMBDA x, y : op(y, x), w, LAMBDA i : s[i], Greatest, DOMAIN s)

-----------------------------------------------------------------------------
(* Writing a cell: w holds the cells, deltas and undo entries being built.  *)

Working == [cells |-> cells, deltas |-> deltas, undo |-> undo]

FreshKey(d) ==
    Least(1..(Greatest(KeysInUse(d) \cup {NoKey}) + 1) \ KeysInUse(d))

WriteCell(w, c, word) ==
    LET before == w.cells[c]
    IN  [cells  |-> [w.cells EXCEPT ![c] =
                       [value |-> word.value, level |-> word.level, serial |-> serial]],
         deltas |-> IF before.serial = serial THEN w.deltas
                    ELSE Append(w.deltas, [cell |-> c, key |-> FreshKey(w.deltas),
                                           alternate |-> before]),
         undo   |-> IF ops = <<>> THEN w.undo
                    ELSE Append(w.undo, [cell |-> c, before |-> before])]

CurrentLevel == Len(groups) + 1

\* canonical_restore_words: an undefined cell saves one word, any other two.
RestoreWords(before) == IF before.level = 0 THEN 1 ELSE 2

Push(stk, position, size) ==
    [words |-> stk.words + size, latest |-> position, size |-> size]

\* A save record joins the innermost group, which notes its first sparse one.
Saved(g, c) ==
    [g EXCEPT !.entries = @ + 1,
              !.sparse = IF c \in Extended /\ @ = None THEN Len(sequence) + 1 ELSE @]

RecordSave(c, before) ==
    /\ Len(sequence) < MaxSaves
    /\ sequence' = Append(sequence, [cell |-> c, before |-> before, at |-> CurrentLevel])
    /\ groups' = [groups EXCEPT ![Len(groups)] = Saved(@, c)]
    /\ saveStack' = Push(saveStack, Len(sequence) + 1, RestoreWords(before))

NeedsSave(c, level) ==
    level # LevelOne /\ cells[c].level # level

SetWorking(w) ==
    /\ Len(w.undo) <= MaxUndo
    /\ cells' = w.cells /\ deltas' = w.deltas /\ undo' = w.undo
    /\ UNCHANGED <<base, serial, forked, detached, root, cursors, accepted>>

AssignLocal(c, v) ==
    /\ SetWorking(WriteCell(Working, c, [value |-> v, level |-> CurrentLevel]))
    /\ \/ NeedsSave(c, CurrentLevel) /\ RecordSave(c, cells[c])
       \/ ~NeedsSave(c, CurrentLevel) /\ UNCHANGED <<sequence, groups, saveStack>>
    /\ UNCHANGED ops

AssignGlobal(c, v) ==
    /\ SetWorking(WriteCell(Working, c, [value |-> v, level |-> LevelOne]))
    /\ UNCHANGED <<sequence, groups, saveStack, ops>>

-----------------------------------------------------------------------------
(* Groups *)

BeginGroup ==
    /\ Len(groups) < MaxGroups
    /\ Len(sequence) < MaxSaves
    /\ groups' = Append(groups, [start |-> Len(sequence), entries |-> 0,
                                 sparse |-> None, outer |-> saveStack])
    /\ sequence' = Append(sequence, Marker)
    /\ saveStack' = Push(saveStack, Len(sequence) + 1, 1)
    /\ UNCHANGED <<lane, undo, ops>>

\* Mutants: no value is retained, or the level stays that of the group.
RestoreSavedAlways(w, r) == WriteCell(w, r.cell, r.before)

\* restore_group_mutation: a value last assigned globally is retained.
RestoreSaved(w, r) ==
    IF w.cells[r.cell].level = LevelOne THEN w
    ELSE WriteCell(w, r.cell, r.before)

\* The sparse records in positions lo..hi of the journal are restored, or the others,
\* the newest first.
RestorePass(w, lo, hi, sparse) ==
    FoldLeft(LAMBDA x, r : IF (r.cell \in Extended) = sparse THEN RestoreSaved(x, r) ELSE x,
             w, [i \in 1..(hi - lo + 1) |-> sequence[hi - i + 1]])

\* Sparse records wait for the position of the group's first one.
Unsave(g) ==
    LET first == IF g.sparse = None THEN g.start + 2 ELSE g.sparse
        later == RestorePass(Working, first, Len(sequence), FALSE)
        sparse == RestorePass(later, first, Len(sequence), TRUE)
        earlier == RestorePass(sparse, g.start + 2, first - 1, FALSE)
    IN  RestorePass(earlier, g.start + 2, first - 1, TRUE)

EndGroup ==
    /\ groups # <<>>
    /\ SetWorking(Unsave(Last(groups)))
    /\ sequence' = SubSeq(sequence, 1, Last(groups).start)
    /\ saveStack' = Last(groups).outer
    /\ groups' = Front(groups)
    /\ ops' = [i \in DOMAIN ops |->
                 [ops[i] EXCEPT !.closed = @ \/ ops[i].depth = Len(groups)]]

-----------------------------------------------------------------------------
(* State operations: one for each command, and one nested inside \shipout.  *)

Operation(position) ==
    [position |-> position, depth |-> Len(groups), size |-> Len(sequence),
     saveStack |-> saveStack,
     entries |-> IF groups = <<>> THEN 0 ELSE Last(groups).entries,
     sparse |-> IF groups = <<>> THEN None ELSE Last(groups).sparse,
     closed |-> FALSE]

BeginOperation ==
    /\ Len(ops) < MaxOps
    /\ ops' = Append(ops, Operation(Len(undo)))
    /\ UNCHANGED <<lane, sequence, groups, saveStack, undo>>

\* The operation of the finished command becomes that of the next one.
RollOperation ==
    /\ ops # <<>>
    /\ undo' = IF Len(ops) = 1 THEN <<>> ELSE undo
    /\ ops' = [ops EXCEPT ![Len(ops)] = Operation(Len(undo'))]
    /\ UNCHANGED <<lane, sequence, groups, saveStack>>

CommitOperation ==
    /\ ops # <<>>
    /\ undo' = IF Len(ops) = 1 THEN <<>> ELSE undo
    /\ ops' = Front(ops)
    /\ UNCHANGED <<lane, sequence, groups, saveStack>>

\* Mutant: the old serial comes back with the word.
UndoneSerial(c, position) ==
    LET hits == Touches(undo, c, position + 1, Len(undo))
    IN  IF hits = {} THEN cells[c] ELSE undo[Least(hits)].before

\* The walk back over the entries after position leaves a written cell with the
\* word of its oldest entry, under the serial of this epoch.
Undone(c, position) ==
    LET hits == Touches(undo, c, position + 1, Len(undo))
    IN  IF hits = {} THEN cells[c]
        ELSE [undo[Least(hits)].before EXCEPT !.serial = serial]

\* Mutant: the marks of the last group are kept.
GroupsAtDepth(op) == SubSeq(groups, 1, op.depth)

\* Groups opened by the operation go, and the one it began in gets its marks back.
GroupsAt(op) ==
    [i \in 1..op.depth |->
       IF i = op.depth THEN [groups[i] EXCEPT !.entries = op.entries, !.sparse = op.sparse]
       ELSE groups[i]]

\* Called only for a command that closed no group it had not opened.
RollbackOperation ==
    /\ ops # <<>>
    /\ LET op == Last(ops)
       IN  /\ ~op.closed
           /\ cells' = [c \in Cells |-> Undone(c, op.position)]
           /\ undo' = SubSeq(undo, 1, op.position)
           /\ sequence' = SubSeq(sequence, 1, op.size)
           /\ groups' = GroupsAt(op)
           /\ saveStack' = op.saveStack
    /\ ops' = Front(ops)
    /\ UNCHANGED <<deltas, base, serial, forked, detached, root, cursors, accepted>>

-----------------------------------------------------------------------------
(* Checkpoints and candidates, over the walks the code really makes.        *)

NoGroups == groups = <<>> /\ sequence = <<>>
Eligible == NoGroups /\ ops = <<>>

\* swap_checkpoint_delta: delta i and its cell exchange their words.
SwapDelta(w, i) ==
    LET e == w.deltas[i]
    IN  [cells  |-> [w.cells EXCEPT ![e.cell] = e.alternate],
         deltas |-> [w.deltas EXCEPT ![i] = [e EXCEPT !.alternate = w.cells[e.cell]]]]

WalkBack(cs, d, n) ==
    FoldLeft(SwapDelta, [cells |-> cs, deltas |-> d],
             [i \in 1..(Len(d) - n) |-> Len(d) - i + 1])

WalkForward(cs, d) ==
    FoldLeft(SwapDelta, [cells |-> cs, deltas |-> d], [i \in 1..Len(d) |-> i])

ClearGroups == groups' = <<>> /\ sequence' = <<>> /\ saveStack' = EmptySaveStack

TakeCheckpoint ==
    /\ Eligible
    /\ Cardinality(cursors) < MaxCursors
    /\ Checkpoint
    /\ UNCHANGED <<sequence, groups, saveStack, undo, ops>>

\* The open groups of a discarded attempt may still be there (restore_after_replay).
RestoreCheckpoint(k) ==
    /\ ops = <<>>
    /\ ValidatesCheckpoint(k)
    /\ forked => root.chunks <= k.chunks
    /\ serial < MaxSerial
    /\ cells' = WalkBack(cells, deltas, k.chunks - base).cells
    /\ deltas' = SubSeq(deltas, 1, k.chunks - base)
    /\ serial' = serial + 1
    /\ ClearGroups
    /\ UNCHANGED <<base, forked, detached, root, cursors, accepted, undo, ops>>

ForkAt(k) ==
    /\ Eligible
    /\ ~forked
    /\ ValidatesCheckpoint(k)
    /\ serial + 2 <= MaxSerial
    /\ LET n == k.chunks - base
           walked == WalkBack(cells, deltas, n)
       IN  /\ cells' = walked.cells
           /\ detached' = SubSeq(walked.deltas, n + 1, Len(deltas))
           /\ deltas' = SubSeq(deltas, 1, n)
    /\ forked' = TRUE
    /\ root' = k
    /\ accepted' = [cells |-> cells, deltas |-> deltas]
    /\ serial' = serial + 1
    /\ ClearGroups
    /\ UNCHANGED <<base, cursors, undo, ops>>

\* Mutant: the detached deltas are dropped with the candidate.
RejectForkToRoot ==
    /\ forked
    /\ ops = <<>>
    /\ serial < MaxSerial
    /\ cells' = WalkBack(cells, deltas, root.chunks - base).cells
    /\ deltas' = SubSeq(deltas, 1, root.chunks - base)
    /\ SettleFork
    /\ ClearGroups
    /\ UNCHANGED <<base, cursors, undo, ops>>

RejectFork ==
    /\ forked
    /\ ops = <<>>
    /\ serial < MaxSerial
    /\ LET n == root.chunks - base
           redone == WalkForward(WalkBack(cells, deltas, n).cells, detached)
       IN  /\ cells' = redone.cells
           /\ deltas' = SubSeq(deltas, 1, n) \o redone.deltas
    /\ SettleFork
    /\ ClearGroups
    /\ UNCHANGED <<base, cursors, undo, ops>>

AcceptFork ==
    /\ Eligible
    /\ AcceptCandidate
    /\ UNCHANGED <<sequence, groups, saveStack, undo, ops>>

\* Release moves only the floor, so groups may be open.
Release(k) ==
    /\ ops = <<>>
    /\ base < k.chunks
    /\ ReleasePrefix(k)
    /\ UNCHANGED <<sequence, groups, saveStack, undo, ops>>

-----------------------------------------------------------------------------
Init == /\ LInit
        /\ sequence = <<>> /\ groups = <<>> /\ saveStack = EmptySaveStack
        /\ undo = <<>> /\ ops = <<>>

Next == \/ \E c \in Cells, v \in Values : AssignLocal(c, v) \/ AssignGlobal(c, v)
        \/ BeginGroup \/ EndGroup
        \/ BeginOperation \/ RollOperation \/ CommitOperation \/ RollbackOperation
        \/ TakeCheckpoint
        \/ \E k \in cursors : RestoreCheckpoint(k) \/ ForkAt(k) \/ Release(k)
        \/ RejectFork \/ AcceptFork

Spec == Init /\ [][Next]_vars

-----------------------------------------------------------------------------
(* Properties *)

\* Every write, group end and rollback obeys the first-touch contract, and the
\* in-place walks over the deltas are the rotations it describes.
LaneContract == LSpec

\* The save-stack words and the marks of every open group are those its journal
\* entries add up to, also after rollbacks and restores.
GroupEnd(i) == IF i = Len(groups) THEN Len(sequence) ELSE groups[i + 1].start
EntryWords(e) == IF e = Marker THEN 1 ELSE RestoreWords(e.before)
MarksAreExact ==
    /\ saveStack.words = FoldLeft(LAMBDA n, e : n + EntryWords(e), 0, sequence)
    /\ saveStack.latest = IF sequence = <<>> THEN None ELSE Len(sequence)
    /\ \A i \in DOMAIN groups :
         LET g == groups[i]
             records == g.start + 2..GroupEnd(i)
             sparse == {j \in records : sequence[j].cell \in Extended}
         IN  /\ sequence[g.start + 1] = Marker
             /\ g.entries = GroupEnd(i) - (g.start + 1)
             /\ g.sparse = IF sparse = {} THEN None ELSE Least(sparse)
             /\ \A j \in records : sequence[j].at = i + 1
=============================================================================
