----------------------------- MODULE CowStorage -----------------------------
(***************************************************************************)
(* Copy-on-write storage, snapshots and generated-output transactions of   *)
(* umber-vfs (storage.rs, snapshot.rs, transaction.rs), with the sharing   *)
(* the code has: workspaces, snapshots and transactions hold               *)
(* Arc<StorageGeneration>, a generation holds one Arc per layer, and       *)
(* Arc::make_mut copies a node exactly when it has another owner.          *)
(*                                                                         *)
(* Nothing can be told about an Arc but who shares it, so nodes have no    *)
(* names: gen[o] is the set of owners that share the generation of o, and  *)
(* share[f][o] the set of owners whose generations share layer f of o.     *)
(* What is written to a layer is seen by all that share it.  File origins, *)
(* which only enter the identity hash, are left out.                       *)
(*                                                                         *)
(* An operator named ..._Bug... is a deliberately wrong variant of the one *)
(* after it; nothing uses it but the mutation checks.                      *)
(***************************************************************************)
EXTENDS Integers, FiniteSets

CONSTANTS
    Handle,             \* workspaces a session can own at once
    Snap,               \* snapshots that can be alive at once
    JobPath, DistributionPath, Content,
    Size,               \* length in bytes of a content
    MaxOneFile,         \* VfsLimits.one_file_bytes
    MaxGeneratedFiles,  \* the smaller of generated_files and stage_files
    MaxGeneratedBytes,  \* the smaller of generated_bytes and stage_bytes
    Base,               \* the owner GeneratedTransaction.base
    NoFile, Dropped, NoSnap, NoTx, NoPending

VARIABLES
    heap,     \* what the owners share and what the layers hold
    snaps,    \* VfsSnapshot: pending_generated and valid
    tx        \* the open GeneratedTransaction

vars == <<heap, snaps, tx>>

Owner == Handle \cup Snap \cup {Base}
Field == {"user", "resolved", "generated"}

JobLayer == [JobPath -> Content \cup {NoFile}]
DistributionLayer == [DistributionPath -> Content \cup {NoFile}]
LayerOf(f) == IF f = "resolved" THEN DistributionLayer ELSE JobLayer
EmptyJob == [p \in JobPath |-> NoFile]
EmptyDistribution == [p \in DistributionPath |-> NoFile]
Empty(f) == IF f = "resolved" THEN EmptyDistribution ELSE EmptyJob

(* A marker is no value of what it stands in for. *)
Contents == JobLayer \cup DistributionLayer
Pending == JobLayer \cup {NoPending}

ASSUME StorageAssumption ==
    /\ Handle \cap Snap = {} /\ Base \notin Handle \cup Snap
    /\ \A c \in Content : Size[c] \in Nat
    /\ Dropped \notin [Field -> Contents]
    /\ NoSnap \notin [pending : Pending, valid : BOOLEAN]
    /\ NoSnap \notin [layers : [Field -> Contents], pending : Pending, valid : BOOLEAN]
    /\ NoTx \notin [target : Handle, pending : JobLayer, logical_bytes : Int, issued : SUBSET Snap]
    /\ NoTx \notin [target : Handle, base : [Field -> Contents], pending : JobLayer,
                    issued : SUBSET Snap]

Stored(layer) == {p \in DOMAIN layer : layer[p] # NoFile}
SizeOf(file) == IF file = NoFile THEN 0 ELSE Size[file]

(***************************************************************************)
(* Owners come and go: Arc::clone of a generation, and its drop.           *)
(***************************************************************************)
Live(o) == heap.gen[o] # {}

(* The members of one class become a class of their own. *)
Apart(class, members) ==
    [o \in Owner |-> IF o \in members THEN members ELSE class[o] \ members]

(* The members leave their class and enter that of owner o. *)
Together(class, members, o) ==
    LET joined == class[o] \cup members
    IN  [p \in Owner |-> IF p \in joined THEN joined ELSE class[p] \ members]

CloneArc(hp, o, from) ==
    [gen   |-> Together(hp.gen, {o}, from),
     share |-> [f \in Field |-> Together(hp.share[f], {o}, from)],
     files |-> [f \in Field |-> [hp.files[f] EXCEPT ![o] = hp.files[f][from]]]]

DropArc(hp, o) ==
    [gen   |-> [p \in Owner |-> IF p = o THEN {} ELSE hp.gen[p] \ {o}],
     share |-> [f \in Field |-> [p \in Owner |-> IF p = o THEN {} ELSE hp.share[f][p] \ {o}]],
     files |-> [f \in Field |-> [hp.files[f] EXCEPT ![o] = Dropped]]]

(***************************************************************************)
(* Arc::make_mut copies a node that has another owner: a generation is     *)
(* owned by workspaces, snapshots and a transaction, a layer by            *)
(* generations.                                                            *)
(***************************************************************************)
MakeMutGeneration(hp, h) ==
    IF hp.gen[h] = {h} THEN hp ELSE [hp EXCEPT !.gen = Apart(@, {h})]

LayerOwners(hp, f, h) == {hp.gen[o] : o \in hp.share[f][h]}

MakeMutLayer_BugInPlace(hp, h, f) == hp

MakeMutLayer(hp, h, f) ==
    IF LayerOwners(hp, f, h) = {hp.gen[h]} THEN hp
    ELSE [hp EXCEPT !.share[f] = Apart(@, hp.gen[h])]

Store(hp, h, f, files) ==
    [hp EXCEPT !.files[f] = [o \in Owner |-> IF o \in hp.share[f][h] THEN files ELSE @[o]]]

(* Writes one file through both make_mut calls. *)
WriteLayer(hp, h, f, path, content) ==
    LET mut == MakeMutLayer(MakeMutGeneration(hp, h), h, f)
    IN  Store(mut, h, f, [mut.files[f][h] EXCEPT ![path] = content])

(* Replaces the layer of h by a new node. *)
NewLayer(hp, h, f, files) ==
    LET made == MakeMutGeneration(hp, h)
    IN  Store([made EXCEPT !.share[f] = Apart(@, made.gen[h])], h, f, files)

(* Replaces the layer of h by the one of source. *)
ShareLayer(hp, h, f, source) ==
    LET made == MakeMutGeneration(hp, h)
    IN  [made EXCEPT !.share[f] = Together(@, made.gen[h], source),
                     !.files[f] = [o \in Owner |-> IF o \in made.gen[h]
                                                   THEN @[source] ELSE @[o]]]

(***************************************************************************)
(* Workspace operations.  An open transaction borrows its workspace.       *)
(***************************************************************************)
Usable(h) == Live(h) /\ (tx # NoTx => tx.target # h)

ReplaceUser(h, path, content) ==
    /\ Usable(h)
    /\ heap' = WriteLayer(heap, h, "user", path, content)
    /\ UNCHANGED <<snaps, tx>>

(* provision_inner inserts only at a path that holds nothing. *)
InsertResolved(h, path, content) ==
    /\ Usable(h)
    /\ heap.files["resolved"][h][path] = NoFile
    /\ heap' = WriteLayer(heap, h, "resolved", path, content)
    /\ UNCHANGED <<snaps, tx>>

ClearResolved(h) ==
    /\ Usable(h)
    /\ heap' = NewLayer(heap, h, "resolved", EmptyDistribution)
    /\ UNCHANGED <<snaps, tx>>

ClearGenerated(h) ==
    /\ Usable(h)
    /\ heap' = NewLayer(heap, h, "generated", EmptyJob)
    /\ UNCHANGED <<snaps, tx>>

CopyResolvedFrom(h, source) ==
    /\ Usable(h)
    /\ Usable(source)
    /\ heap' = ShareLayer(heap, h, "resolved", source)
    /\ UNCHANGED <<snaps, tx>>

Clone(h, g) ==
    /\ Usable(h)
    /\ ~Live(g)
    /\ heap' = CloneArc(heap, g, h)
    /\ UNCHANGED <<snaps, tx>>

Drop(h) ==
    /\ Usable(h)
    /\ \E g \in Handle \ {h} : Live(g)
    /\ heap' = DropArc(heap, h)
    /\ UNCHANGED <<snaps, tx>>

(***************************************************************************)
(* Snapshots.                                                              *)
(***************************************************************************)
NewSnapshot(pending) == [pending |-> pending, valid |-> TRUE]

Snapshot(h, s) ==
    /\ Usable(h)
    /\ snaps[s] = NoSnap
    /\ heap' = CloneArc(heap, s, h)
    /\ snaps' = [snaps EXCEPT ![s] = NewSnapshot(NoPending)]
    /\ UNCHANGED tx

Invalidate(s) ==
    /\ snaps[s] # NoSnap
    /\ snaps' = [snaps EXCEPT ![s].valid = FALSE]
    /\ UNCHANGED <<heap, tx>>

(* The last clone held outside the transaction goes away; the transaction's *)
(* own clone keeps nothing alive that its base does not.                     *)
ReleaseSnapshot(s) ==
    /\ snaps[s] # NoSnap
    /\ heap' = DropArc(heap, s)
    /\ snaps' = [snaps EXCEPT ![s] = NoSnap]
    /\ tx' = IF tx = NoTx THEN NoTx ELSE [tx EXCEPT !.issued = @ \ {s}]

(***************************************************************************)
(* Generated-output transactions.                                          *)
(***************************************************************************)
BeginGenerated(h) ==
    /\ Usable(h)
    /\ tx = NoTx
    /\ heap' = CloneArc(heap, Base, h)
    /\ tx' = [target |-> h, pending |-> EmptyJob, logical_bytes |-> 0, issued |-> {}]
    /\ UNCHANGED snaps

(* checked_replacement_total, with its checked_sub. *)
Replacement(total, replaced, added) == total - replaced + added

Write(path, content) ==
    /\ tx # NoTx
    /\ Size[content] <= MaxOneFile
    /\ LET replaced   == SizeOf(tx.pending[path])
           next_bytes == Replacement(tx.logical_bytes, replaced, Size[content])
           next_files == Cardinality(Stored(tx.pending) \cup {path})
       IN  /\ replaced <= tx.logical_bytes
           /\ next_bytes <= MaxGeneratedBytes
           /\ next_files <= MaxGeneratedFiles
           /\ tx' = [tx EXCEPT !.pending[path] = content, !.logical_bytes = next_bytes]
    /\ UNCHANGED <<heap, snaps>>

TxSnapshot(s) ==
    /\ tx # NoTx
    /\ snaps[s] = NoSnap
    /\ heap' = CloneArc(heap, s, Base)
    /\ snaps' = [snaps EXCEPT ![s] = NewSnapshot(tx.pending)]
    /\ tx' = [tx EXCEPT !.issued = @ \cup {s}]

(* Drop for GeneratedTransaction, which accept runs as well. *)
Invalidated_BugForgotten(ss, issued) == ss

Invalidated(ss, issued) ==
    [s \in Snap |-> IF s \in issued THEN [ss[s] EXCEPT !.valid = FALSE] ELSE ss[s]]

(* publish_generated runs while the base still shares the generation. *)
Accept ==
    /\ tx # NoTx
    /\ heap' = DropArc(NewLayer(heap, tx.target, "generated", tx.pending), Base)
    /\ snaps' = Invalidated(snaps, tx.issued)
    /\ tx' = NoTx

Discard ==
    /\ tx # NoTx
    /\ heap' = DropArc(heap, Base)
    /\ snaps' = Invalidated(snaps, tx.issued)
    /\ tx' = NoTx

Init ==
    /\ \E first \in Handle :
          heap = LET only == [o \in Owner |-> IF o = first THEN {o} ELSE {}]
                 IN  [gen   |-> only,
                      share |-> [f \in Field |-> only],
                      files |-> [f \in Field |-> [o \in Owner |->
                                    IF o = first THEN Empty(f) ELSE Dropped]]]
    /\ snaps = [s \in Snap |-> NoSnap]
    /\ tx = NoTx

Next ==
    \/ \E h \in Handle, path \in JobPath, content \in Content : ReplaceUser(h, path, content)
    \/ \E h \in Handle, path \in DistributionPath, content \in Content :
          InsertResolved(h, path, content)
    \/ \E h \in Handle : \/ ClearResolved(h) \/ ClearGenerated(h) \/ Drop(h)
                         \/ BeginGenerated(h)
    \/ \E h \in Handle, g \in Handle : h # g /\ (Clone(h, g) \/ CopyResolvedFrom(h, g))
    \/ \E h \in Handle, s \in Snap : Snapshot(h, s)
    \/ \E s \in Snap : Invalidate(s) \/ ReleaseSnapshot(s) \/ TxSnapshot(s)
    \/ \E path \in JobPath, content \in Content : Write(path, content)
    \/ Accept
    \/ Discard

Spec == Init /\ [][Next]_vars

-----------------------------------------------------------------------------
(***************************************************************************)
(* Properties.                                                             *)
(***************************************************************************)
Deref(o) == [f \in Field |-> heap.files[f][o]]

(* Copy-on-write storage behaves as if every workspace and every snapshot  *)
(* owned private copies: no write, clear, copy or publication through one  *)
(* workspace is ever seen through another one or through a snapshot taken  *)
(* before, and a transaction publishes its whole set or nothing.           *)
Values == INSTANCE ValueStorage WITH
    layers <- [h \in Handle |-> IF Live(h) THEN Deref(h) ELSE Dropped],
    views <- [s \in Snap |-> IF snaps[s] = NoSnap THEN NoSnap
                             ELSE [layers |-> Deref(s),
                                   pending |-> snaps[s].pending, valid |-> snaps[s].valid]],
    build <- IF tx = NoTx THEN NoTx
             ELSE [target |-> tx.target, base |-> Deref(Base),
                   pending |-> tx.pending, issued |-> tx.issued]

SharingIsInvisible == Values!Spec

(* A view of uncommitted generated files can be read only while the        *)
(* transaction that issued it is open, whether it ends by accept, discard  *)
(* or an early return that drops it.                                       *)
CandidateViewsEndWithTransaction ==
    \A s \in Snap :
        (snaps[s] # NoSnap /\ snaps[s].valid /\ snaps[s].pending # NoPending)
            => tx # NoTx /\ s \in tx.issued
=============================================================================
