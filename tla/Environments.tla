---------------------------- MODULE Environments ----------------------------
(***************************************************************************)
(* What TeX's grouping and the executor's rollback units promise, with no  *)
(* journal: an environment gives every cell a value, opening a group       *)
(* remembers the environment to come back to, a global assignment reaches  *)
(* every remembered environment, and abandoning an operation brings back   *)
(* all of it as it was when the operation was opened.  DenseState is shown *)
(* to implement this module.                                               *)
(***************************************************************************)
EXTENDS Integers, Sequences

CONSTANTS Cells,    \* the eqtb-equivalent cells
          Values    \* the words a cell holds

VARIABLES env,      \* the value every cell has now
          stack,    \* the environments open groups return to, innermost last
          ops       \* the environment and stack each open operation returns to

avars == <<env, stack, ops>>

\* An operation that closed a group it had not opened: nothing to return to.
Lost == [lost |-> TRUE]

AInit == /\ env \in [Cells -> Values]
         /\ stack = <<>>
         /\ ops = <<>>

Local(c, v) == /\ env' = [env EXCEPT ![c] = v]
               /\ UNCHANGED <<stack, ops>>

Global(c, v) == /\ env' = [env EXCEPT ![c] = v]
                /\ stack' = [i \in DOMAIN stack |-> [stack[i] EXCEPT ![c] = v]]
                /\ UNCHANGED ops

Open == /\ stack' = Append(stack, env)
        /\ UNCHANGED <<env, ops>>

Close == /\ stack # <<>>
         /\ env' = stack[Len(stack)]
         /\ stack' = SubSeq(stack, 1, Len(stack) - 1)
         /\ ops' = [i \in DOMAIN ops |->
                      IF ops[i] # Lost /\ Len(ops[i].stack) = Len(stack)
                      THEN Lost ELSE ops[i]]

Start == /\ ops' = Append(ops, [env |-> env, stack |-> stack])
         /\ UNCHANGED <<env, stack>>

Settle == /\ ops # <<>>
          /\ ops' = SubSeq(ops, 1, Len(ops) - 1)
          /\ UNCHANGED <<env, stack>>

\* The settled operation's successor starts here.
Successor == /\ ops # <<>>
             /\ ops' = [ops EXCEPT ![Len(ops)] = [env |-> env, stack |-> stack]]
             /\ UNCHANGED <<env, stack>>

Abandon == /\ ops # <<>>
           /\ ops[Len(ops)] # Lost
           /\ env' = ops[Len(ops)].env
           /\ stack' = ops[Len(ops)].stack
           /\ ops' = SubSeq(ops, 1, Len(ops) - 1)

\* A checkpoint or the other branch of a candidate takes over, with no group open.
Reset == /\ ops = <<>>
         /\ env' \in [Cells -> Values]
         /\ stack' = <<>>
         /\ UNCHANGED ops

ANext == \/ \E c \in Cells, v \in Values : Local(c, v) \/ Global(c, v)
         \/ Open \/ Close
         \/ Start \/ Settle \/ Successor \/ Abandon
         \/ Reset

ASpec == AInit /\ [][ANext]_avars
=============================================================================
