---------------------------- MODULE RenderSession ----------------------------
(***************************************************************************)
(* The sending end of the live preview: what an editor session in a worker *)
(* keeps of its rendered documents (EditorCompileSession over              *)
(* VirtualCompileSession, publication.rs).  Publishing a revision leaves   *)
(* one update pending until the host acknowledges its revision and digest: *)
(* a patch when the base was acknowledged and is the revision before, else *)
(* a snapshot.  A stabilizer that completes brings a session of its own.   *)
(* A session is a record; an operation yields the session it ends in.      *)
(***************************************************************************)
EXTENDS Integers

CONSTANTS None

NewSession(id) ==
    [id |-> id,               \* the output identity of the hot session
     accepted |-> None,       \* accepted_render_document
     pending |-> None,        \* pending_render_update
     patched |-> 0,           \* the revision a pending source patch asks for
     required |-> FALSE,      \* stabilization_required
     stabilizing |-> 0]       \* the revision the stabilizer works on

Snapshot(doc) == [kind |-> "snapshot", base |-> None, target |-> doc]
Patch(base, doc) == [kind |-> "patch", base |-> base, target |-> doc]

\* The update prepare_publication plans for doc.
Update(s, doc) ==
    IF s.pending = None /\ s.accepted # None /\ doc.revision = s.accepted.revision + 1
    THEN Patch(s.accepted, doc) ELSE Snapshot(doc)

\* The accepted revision stays pending until its document has been acknowledged.
Published(s, content, required) ==
    LET doc == [session |-> s.id, content |-> content,
                revision |-> IF s.patched = 0 THEN 1 ELSE s.patched]
    IN  [s EXCEPT !.accepted = doc, !.pending = Update(s, doc),
                  !.patched = 0, !.required = required]

\* A pass with nothing to compile answers with what is accepted.
Idle(s) == s.accepted # None /\ s.patched = 0

\* A pass that fails drops the source patch, if one can be dropped.
PassFailed(s) == [s EXCEPT !.patched = 0]

\* take_accepted_tex: the stabilizer's session replaces the hot one.
Stabilized(s, id, content) ==
    LET doc == [session |-> id, content |-> content, revision |-> s.stabilizing]
    IN  [NewSession(id) EXCEPT !.accepted = doc, !.pending = Snapshot(doc)]

Stabilizing(s) ==
    IF s.stabilizing = 0 THEN [s EXCEPT !.stabilizing = s.accepted.revision] ELSE s

\* The stabilizer goes even when the source patch is refused.
SourcePatch(s, revision) ==
    IF s.accepted = None \/ s.patched # 0 THEN [s EXCEPT !.stabilizing = 0]
    ELSE [s EXCEPT !.stabilizing = 0, !.patched = revision]

Acknowledges(s, ack) ==
    /\ s.pending # None
    /\ s.pending.target.revision = ack.revision
    /\ s.pending.target.content = ack.content

AcknowledgeRenderUpdate(s, ack) ==
    IF Acknowledges(s, ack) THEN [s EXCEPT !.pending = None] ELSE s

\* Mutant: the update that waits for its acknowledgement is sent again.
RenderResyncPending(s) == s.pending

RenderResync(s) == IF s.accepted = None THEN None ELSE Snapshot(s.accepted)
=============================================================================
