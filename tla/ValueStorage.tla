---------------------------- MODULE ValueStorage ----------------------------
(***************************************************************************)
(* What layered storage, snapshots and generated-output transactions       *)
(* promise, with plain values and no sharing: a workspace owns its three   *)
(* layers, a snapshot owns a frozen copy of them, a transaction owns a     *)
(* private set of generated files that only its own snapshots show and     *)
(* that replaces the accepted set as a whole.                              *)
(***************************************************************************)
CONSTANTS Handle, Snap, JobLayer, DistributionLayer, EmptyJob, EmptyDistribution,
          Dropped, NoSnap, NoTx, NoPending

VARIABLES
    layers,   \* what each workspace holds
    views,    \* what each snapshot shows
    build     \* the open transaction

avars == <<layers, views, build>>

Layers == [user : JobLayer, resolved : DistributionLayer, generated : JobLayer]
View == [layers : Layers, pending : JobLayer \cup {NoPending}, valid : BOOLEAN]
Build == [target : Handle, base : Layers, pending : JobLayer, issued : SUBSET Snap]

Empty == [user |-> EmptyJob, resolved |-> EmptyDistribution, generated |-> EmptyJob]

Init ==
    /\ \E first \in Handle :
          layers = [h \in Handle |-> IF h = first THEN Empty ELSE Dropped]
    /\ views = [s \in Snap |-> NoSnap]
    /\ build = NoTx

Free(h) == layers[h] # Dropped /\ (build # NoTx => build.target # h)

(* One layer of one workspace changes; nothing else does. *)
ChangeLayer(h) ==
    /\ Free(h)
    /\ \/ \E user \in JobLayer : layers' = [layers EXCEPT ![h].user = user]
       \/ \E files \in DistributionLayer : layers' = [layers EXCEPT ![h].resolved = files]
       \/ layers' = [layers EXCEPT ![h].generated = EmptyJob]
    /\ UNCHANGED <<views, build>>

Clone(h, g) ==
    /\ Free(h)
    /\ layers[g] = Dropped
    /\ layers' = [layers EXCEPT ![g] = layers[h]]
    /\ UNCHANGED <<views, build>>

Drop(h) ==
    /\ Free(h)
    /\ layers' = [layers EXCEPT ![h] = Dropped]
    /\ UNCHANGED <<views, build>>

Capture(s, frozen, pending) ==
    /\ views[s] = NoSnap
    /\ views' = [views EXCEPT ![s] = [layers |-> frozen, pending |-> pending, valid |-> TRUE]]
    /\ UNCHANGED layers

CaptureWorkspace(h, s) ==
    Free(h) /\ Capture(s, layers[h], NoPending) /\ UNCHANGED build

Invalidate(s) ==
    /\ views[s] # NoSnap
    /\ views' = [views EXCEPT ![s].valid = FALSE]
    /\ UNCHANGED <<layers, build>>

Release(s) ==
    /\ views[s] # NoSnap
    /\ views' = [views EXCEPT ![s] = NoSnap]
    /\ build' = IF build = NoTx THEN NoTx ELSE [build EXCEPT !.issued = @ \ {s}]
    /\ UNCHANGED layers

Begin(h) ==
    /\ Free(h)
    /\ build = NoTx
    /\ build' = [target |-> h, base |-> layers[h], pending |-> EmptyJob, issued |-> {}]
    /\ UNCHANGED <<layers, views>>

Write ==
    /\ build # NoTx
    /\ \E pending \in JobLayer : build' = [build EXCEPT !.pending = pending]
    /\ UNCHANGED <<layers, views>>

CaptureCandidate(s) ==
    /\ build # NoTx
    /\ Capture(s, build.base, build.pending)
    /\ build' = [build EXCEPT !.issued = @ \cup {s}]

(* The transaction ends: its snapshots can no longer be read, and the      *)
(* accepted set is the whole private set or what it was.                   *)
End ==
    /\ build # NoTx
    /\ views' = [s \in Snap |-> IF s \in build.issued
                                THEN [views[s] EXCEPT !.valid = FALSE] ELSE views[s]]
    /\ build' = NoTx
    /\ \/ layers' = [layers EXCEPT ![build.target].generated = build.pending]
       \/ UNCHANGED layers

Next ==
    \/ \E h \in Handle : ChangeLayer(h) \/ Drop(h) \/ Begin(h)
    \/ \E h, g \in Handle : Clone(h, g)
    \/ \E h \in Handle, s \in Snap : CaptureWorkspace(h, s)
    \/ \E s \in Snap : Invalidate(s) \/ Release(s) \/ CaptureCandidate(s)
    \/ Write
    \/ End

Spec == Init /\ [][Next]_avars
=============================================================================
