---------------------------- MODULE BindingLedger ----------------------------
(***************************************************************************)
(* What the resource ledger of a workspace promises, without intents,      *)
(* paths, limits or accounting: each live workspace maps every request key *)
(* to nothing yet, to one content, or to "authoritatively absent", and an  *)
(* answered key keeps its answer until the whole ledger is forgotten       *)
(* ("Positive and authoritative-negative bindings are immutable session    *)
(* history", umber-vfs/src/lifecycle.rs).                                  *)
(***************************************************************************)
CONSTANTS Handle, Key, Content, Unbound, Absent, Dropped

VARIABLE bindings

Answer == Content \cup {Unbound, Absent}
Ledger == [Key -> Answer]

Init == \E first \in Handle :
            bindings = [h \in Handle |->
                           IF h = first THEN [k \in Key |-> Unbound] ELSE Dropped]

Live(h) == bindings[h] # Dropped

(* Answers are only ever added. *)
Extends(new, old) == \A k \in Key : old[k] # Unbound => new[k] = old[k]

Learn(h) ==
    /\ Live(h)
    /\ bindings'[h] \in Ledger
    /\ Extends(bindings'[h], bindings[h])
    /\ bindings' = [bindings EXCEPT ![h] = bindings'[h]]

Forget(h) ==
    /\ Live(h)
    /\ bindings' = [bindings EXCEPT ![h] = [k \in Key |-> Unbound]]

Clone(h, g) ==
    /\ Live(h)
    /\ ~Live(g)
    /\ bindings' = [bindings EXCEPT ![g] = bindings[h]]

Drop(h) ==
    /\ Live(h)
    /\ bindings' = [bindings EXCEPT ![h] = Dropped]

Next ==
    \/ \E h \in Handle : Learn(h) \/ Forget(h) \/ Drop(h)
    \/ \E h, g \in Handle : Clone(h, g)

Spec == Init /\ [][Next]_bindings
=============================================================================
