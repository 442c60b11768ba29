------------------------- MODULE DenseEnvironments -------------------------
(***************************************************************************)
(* The environments that DenseState's journal and undo entries stand for,  *)
(* and with them the refinement of Environments.                           *)
(***************************************************************************)
EXTENDS DenseState

\* The value c returns to from word when journal positions lo..hi are unwound: a
\* global assignment (level one), made since or saved since, outlives older saves.
ReturnsTo(word, c, lo, hi) ==
    LET hits == Touches(sequence, c, lo, hi)
        global == {i \in hits : sequence[i].before.level = LevelOne}
    IN  IF hits = {} \/ word.level = LevelOne THEN word.value
        ELSE sequence[IF global = {} THEN Least(hits)
                      ELSE Greatest(global)].before.value

\* Where the open group g leads back to.
Outside(g) ==
    [c \in Cells |-> ReturnsTo(cells[c], c, g.start + 1, Len(sequence))]

\* Where the open operation op leads back to: its cells and its open groups'.
Before(op) ==
    [env   |-> [c \in Cells |-> Undone(c, op.position).value],
     stack |-> [i \in 1..op.depth |->
                  [c \in Cells |-> ReturnsTo(Undone(c, op.position), c,
                                             groups[i].start + 1, op.size)]]]

Env == INSTANCE Environments WITH
         env   <- [c \in Cells |-> cells[c].value],
         stack <- [i \in DOMAIN groups |-> Outside(groups[i])],
         ops   <- [i \in DOMAIN ops |->
                     IF ops[i].closed THEN [lost |-> TRUE] ELSE Before(ops[i])]

\* The three lanes together give TeX's grouping and whole-command rollback: at any
\* moment the groups still open, and the operations still open, lead back to the
\* environments they were opened in, changed only by global assignments.
EnvironmentsHold == Env!ASpec
=============================================================================
