----------------------------- MODULE LivePreview -----------------------------
(***************************************************************************)
(* The live preview as a whole: a host, the editor session in its worker   *)
(* (EditorWorkerFacade, WorkerRpcClient and worker-entry.js around a       *)
(* RenderSession) and an HtmlPatchMount in the page.  The host keeps the   *)
(* latest update it was sent, gives it to the mount when it gets to it,    *)
(* acknowledges what the mount acknowledges, and asks for a snapshot when  *)
(* the mount refuses or fails.  A worker that was terminated is replaced;  *)
(* the mount stays.                                                        *)
(***************************************************************************)
EXTENDS HtmlPatchMount, WorkerRpc

CONSTANTS Unstable,       \* the contents a stabilizer would not leave as they are
          MaxRevision,    \* bound: revisions
          MaxSessions     \* bound: sessions, hot or stabilized

ASSUME PreviewAssumption ==
    /\ Unstable \subseteq Contents /\ MaxRevision \in Nat /\ MaxSessions \in Nat
    /\ None \notin [id : 1..MaxPending, phase : {"create", "advance", "stabilize"}, cancelled : BOOLEAN]

VARIABLES hot,        \* the session in the worker
          editor,     \* does the worker have an editor?
          drive,      \* the drive in flight in the worker, or None
          sessions,   \* sessions made so far
          inbox,      \* the latest update the host got and has not mounted
          ackDue,     \* an acknowledgement the host has to send
          resyncDue   \* does the host have to ask for a snapshot?

workerVars == <<hot, editor, drive, sessions>>
hostVars == <<inbox, ackDue, resyncDue>>
vars == <<mountVars, rpcVars, workerVars, hostVars>>

INSTANCE RenderSession

Init ==
    /\ MountInit
    /\ up = FALSE /\ pending = {} /\ toWorker = <<>> /\ toHost = <<>>
    /\ hot = NewSession(0) /\ editor = FALSE /\ drive = None /\ sessions = 0
    /\ inbox = None /\ ackDue = None /\ resyncDue = FALSE

NoWorker == hot' = NewSession(0) /\ editor' = FALSE /\ drive' = None

-----------------------------------------------------------------------------
(* The host's calls.  The facade is not there before the worker is ready.   *)

\* Settled promises run their continuations before the next event is taken, and a
\* host with an update calls a mount that is free.
Drained ==
    /\ \A call \in calls : call.at = "stage"
    /\ inbox # None => ~MayCall

Ready == Drained /\ up /\ \A p \in pending : p.op # "create"

\* What the mount said is passed on before the next operation; without a mount there
\* is none.
Told == ackDue = None /\ ~resyncDue /\ ~mount.disposed

\* createEditorSessionInWorker
Create ==
    /\ Drained /\ ~up /\ ~mount.disposed /\ sessions < MaxSessions
    /\ up' = TRUE
    /\ pending' = {[id |-> 1, op |-> "create"]}
    /\ toWorker' = <<[id |-> 1, op |-> "create", body |-> None]>>
    /\ sessions' = sessions + 1
    /\ hot' = NewSession(sessions + 1)
    /\ ackDue' = None /\ resyncDue' = FALSE
    /\ UNCHANGED <<mountVars, toHost, editor, drive, inbox>>

HostDrives ==
    /\ Ready /\ Told
    /\ \E op \in {"advance", "stabilize"} : Request(op, None)
    /\ UNCHANGED <<mountVars, workerVars, hostVars>>

HostPatches ==
    /\ Ready /\ Told /\ hot.accepted # None
    /\ \E revision \in hot.accepted.revision + 1..MaxRevision : Request("apply-patch", revision)
    /\ UNCHANGED <<mountVars, workerVars, hostVars>>

HostCancels ==
    /\ Ready
    /\ \E p \in pending :
         \/ p.op = "advance" /\ Request("cancel-pending-patch", None)
         \/ p.op = "stabilize" /\ Request("cancel-stabilization", None)
    /\ UNCHANGED <<mountVars, workerVars, hostVars>>

HostAcknowledges ==
    /\ Ready /\ ackDue # None
    /\ Request("render-ack", ackDue)
    /\ ackDue' = None
    /\ UNCHANGED <<mountVars, workerVars, inbox, resyncDue>>

HostResyncs ==
    /\ Ready /\ resyncDue
    /\ Request("render-resync", None)
    /\ resyncDue' = FALSE
    /\ UNCHANGED <<mountVars, workerVars, inbox, ackDue>>

\* EditorWorkerFacade.dispose: over a pending operation it only terminates.
HostDisposes ==
    /\ Ready
    /\ \/ pending = {} /\ Request("dispose", None) /\ UNCHANGED workerVars
       \/ pending # {} /\ Terminate /\ NoWorker /\ UNCHANGED sessions
    /\ UNCHANGED <<mountVars, hostVars>>

HostMounts ==
    /\ inbox # None
    /\ \/ inbox.kind = "snapshot" /\ MountSnapshot(inbox.target)
       \/ inbox.kind = "patch" /\ ApplyPatch(inbox.base, inbox.target)
    /\ inbox' = None
    /\ UNCHANGED <<rpcVars, workerVars, ackDue, resyncDue>>

\* The promise of a mount call settles.
HostLearns ==
    /\ \E call \in calls :
         /\ call.at \in {"ack", "error", "cleared"}
         /\ calls' = calls \ {call}
         /\ ackDue' = IF call.at = "ack"
                      THEN [revision |-> call.target.revision, content |-> call.target.content]
                      ELSE ackDue
         /\ resyncDue' = (resyncDue \/ call.at = "error")
    /\ UNCHANGED <<mount, faults, rpcVars, workerVars, inbox>>

HostDisposesMount ==
    /\ Drained
    /\ Dispose
    /\ UNCHANGED <<rpcVars, workerVars, hostVars>>

\* The host keeps the latest update, but not a patch for a snapshot of the same
\* document: the session sends a patch again until it is acknowledged, resync or not.
Replaces(update) ==
    /\ update # None
    /\ inbox # None /\ inbox.kind = "snapshot" /\ update.kind = "patch"
         => inbox.target # update.target

\* #receive: a settled dispose, or an editor that was not created, ends the worker.
HostReceives ==
    /\ Drained /\ up /\ toHost # <<>>
    /\ LET message == Head(toHost)
           request == CHOOSE p \in pending : p.id = message.id
       IN  IF message.id \notin Ids
           THEN toHost' = Tail(toHost) /\ UNCHANGED <<up, pending, toWorker, workerVars, hostVars>>
           ELSE /\ IF \/ request.op = "dispose"
                      \/ request.op = "create" /\ message.kind = "error"
                   THEN Terminate /\ NoWorker /\ UNCHANGED sessions
                   ELSE Finish(message) /\ UNCHANGED workerVars
                /\ inbox' = IF Replaces(message.update) THEN message.update ELSE inbox
                /\ UNCHANGED <<ackDue, resyncDue>>
    /\ UNCHANGED mountVars

EndOfWorker ==
    /\ Drained
    /\ (\E id \in 1..MaxPending : Timeout(id)) \/ WorkerFails \/ OwnerAborts
    /\ NoWorker
    /\ UNCHANGED <<mountVars, hostVars, sessions>>

-----------------------------------------------------------------------------
(* The worker: worker-entry.js over the session.                            *)

Respond(id, kind, update) ==
    /\ toHost' = Append(toHost, Reply(id, kind, update))
    /\ UNCHANGED <<up, pending>>

Handled == toWorker' = Tail(toWorker)

CancelDrive(phase, cancelled) ==
    drive' = IF cancelled /\ drive # None /\ drive.phase = phase
             THEN [drive EXCEPT !.cancelled = TRUE] ELSE drive

\* Messages that start a drive, which ends later.
WorkerDrives(message) ==
    /\ message.op \in {"create", "advance", "stabilize"}
    /\ Handled
    /\ drive' = [id |-> message.id, phase |-> message.op, cancelled |-> FALSE]
    /\ hot' = IF message.op = "stabilize" /\ hot.accepted # None /\ hot.required
              THEN Stabilizing(hot) ELSE hot
    /\ UNCHANGED <<up, pending, toHost, editor, sessions>>

\* Messages that are answered at once.
WorkerAnswers(message) ==
    /\ message.op \notin {"create", "advance", "stabilize"}
    /\ Handled
    /\ \/ ~editor /\ Respond(message.id, "error", None) /\ UNCHANGED <<hot, editor, drive>>
       \/ /\ editor /\ message.op = "apply-patch"
          /\ hot' = SourcePatch(hot, message.body)
          /\ Respond(message.id, IF hot'.patched = hot.patched THEN "error" ELSE "result", None)
          /\ UNCHANGED <<editor, drive>>
       \/ /\ editor /\ message.op = "render-ack"
          /\ hot' = AcknowledgeRenderUpdate(hot, message.body)
          /\ Respond(message.id, IF Acknowledges(hot, message.body) THEN "result" ELSE "error", None)
          /\ UNCHANGED <<editor, drive>>
       \/ /\ editor /\ message.op = "render-resync"
          /\ Respond(message.id, "result", RenderResync(hot))
          /\ UNCHANGED <<hot, editor, drive>>
       \/ /\ editor /\ message.op = "cancel-pending-patch"
          /\ hot' = [hot EXCEPT !.patched = 0]
          /\ CancelDrive("advance", hot.patched # 0)
          /\ Respond(message.id, "result", None)
          /\ UNCHANGED editor
       \/ /\ editor /\ message.op = "cancel-stabilization"
          /\ hot' = [hot EXCEPT !.stabilizing = 0]
          /\ CancelDrive("stabilize", hot.stabilizing # 0)
          /\ Respond(message.id, "result", None)
          /\ UNCHANGED editor
       \/ /\ editor /\ message.op = "dispose"
          /\ editor' = FALSE
          /\ Respond(message.id, "result", None)
          /\ UNCHANGED <<hot, drive>>
    /\ UNCHANGED sessions

WorkerReceives ==
    /\ up /\ toWorker # <<>>
    /\ WorkerDrives(Head(toWorker)) \/ WorkerAnswers(Head(toWorker))
    /\ UNCHANGED <<mountVars, hostVars>>

\* A drive ends; a result carries the session's pending update.
Ends(kind) ==
    /\ drive' = None
    /\ Respond(drive.id, kind, IF kind = "error" THEN None ELSE hot'.pending)
    /\ UNCHANGED toWorker

Created ==
    /\ drive.phase = "create"
    /\ UNCHANGED <<hot, sessions>>
    /\ \E ok \in BOOLEAN : editor' = ok /\ Ends(IF ok THEN "result" ELSE "error")

Cancelled ==
    /\ drive.cancelled
    /\ UNCHANGED <<hot, editor, sessions>>
    /\ Ends("result")

Advances ==
    /\ drive.phase = "advance" /\ ~drive.cancelled
    /\ \/ Idle(hot) /\ UNCHANGED hot /\ Ends("result")
       \/ ~Idle(hot) /\ hot' = PassFailed(hot) /\ Ends("error")
       \/ \* A resource could not be provided; the patch stays.
          ~Idle(hot) /\ UNCHANGED hot /\ Ends("error")
       \/ /\ ~Idle(hot)
          /\ \E content \in Contents : hot' = Published(hot, content, content \in Unstable)
          /\ Ends("result")
    /\ UNCHANGED <<editor, sessions>>

Stabilizes ==
    /\ drive.phase = "stabilize" /\ ~drive.cancelled
    /\ \/ hot.accepted = None /\ UNCHANGED <<hot, sessions>> /\ Ends("error")
       \/ /\ hot.accepted # None /\ ~hot.required
          /\ UNCHANGED <<hot, sessions>> /\ Ends("result")
       \/ /\ hot.required
          /\ \E kept \in {0, hot.stabilizing} : hot' = [hot EXCEPT !.stabilizing = kept]
          /\ Ends("error") /\ UNCHANGED sessions
       \/ /\ hot.required /\ sessions < MaxSessions
          /\ sessions' = sessions + 1
          /\ \E content \in Contents : hot' = Stabilized(hot, sessions + 1, content)
          /\ Ends("result")
    /\ UNCHANGED editor

WorkerEnds ==
    /\ up /\ drive # None
    /\ Created \/ Cancelled \/ Advances \/ Stabilizes
    /\ UNCHANGED <<mountVars, hostVars>>

MountContinues == Continue /\ UNCHANGED <<rpcVars, workerVars, hostVars>>

Next ==
    \/ Create \/ HostDrives \/ HostPatches \/ HostCancels \/ HostAcknowledges
    \/ HostResyncs \/ HostDisposes \/ HostMounts \/ HostLearns \/ HostDisposesMount
    \/ HostReceives \/ EndOfWorker
    \/ WorkerReceives \/ WorkerEnds
    \/ MountContinues

\* Timers fire, events and continuations are run, and a host that needs a snapshot
\* asks for it between two of its operations.  Nothing is assumed of the worker.  Only
\* a cancellation overlaps another request, and only the operation it cancels: when
\* some request is pending at all times, one request is pending for ever.
Expires ==
    /\ Drained
    /\ \E id \in Ids : Timeout(id)
    /\ NoWorker
    /\ UNCHANGED <<mountVars, hostVars, sessions>>

Fairness ==
    /\ WF_vars(Expires) /\ WF_vars(HostReceives)
    /\ WF_vars(MountContinues \/ HostLearns \/ HostMounts)
    /\ SF_vars(HostResyncs)

Spec == Init /\ [][Next]_vars /\ Fairness

-----------------------------------------------------------------------------
Quiet == \A call \in calls : call.at \in {"ack", "error", "cleared"}

\* "Mixed-revision DOM is not presented as current": whenever no call is at work the
\* page shows the validated document, whole, and its fonts are registered, after loads
\* and DOM operations that failed, refused patches, documents of an earlier session and
\* disposal.  Fonts can be missing only while needsResync says that a patch failed, and
\* registered for no document only once a commit has thrown.  The code promises none of
\* this after a snapshot whose commit threw: the page shows it over the #state of the
\* document before, and needsResync is not set (HtmlPatchMount and its registry).
ShownDocumentIsWhole ==
    Quiet =>
        /\ "snapshot" \notin mount.broken => mount.dom = mount.state
        /\ mount.broken \subseteq {"patch"} /\ ~mount.needsResync
              => Uses(mount.state) \subseteq mount.entries
        /\ mount.broken = {} => mount.entries = Uses(mount.state)

\* What a worker has to handle, is working on or has answered is exactly what its
\* client waits for, each once: no reply is left over to settle a later request,
\* whichever of timeouts, failures, cancellations and dispose came first
\* (WorkerRpcClient.terminate and #receive, the drive slot of worker-entry.js).
WorkerServesItsRequests ==
    LET busy == {toWorker[i].id : i \in DOMAIN toWorker}
                \union {toHost[i].id : i \in DOMAIN toHost}
                \union {d.id : d \in {drive} \ {None}}
    IN  /\ busy = Ids
        /\ Cardinality(Ids) = Len(toWorker) + Len(toHost) + (IF drive = None THEN 0 ELSE 1)
        /\ Cardinality(Exclusive) <= 1

CaughtUp ==
    /\ None \notin {mount.state, hot.accepted}
    /\ mount.state.revision = hot.accepted.revision
    /\ mount.state.content = hot.accepted.content

\* The registry no longer has a font of the validated document: it refuses every update
\* that would release it.
FontLost == ~(Uses(mount.state) \subseteq mount.entries)

\* The preview catches up with the session: a lost, late or wrongly credited
\* acknowledgement, a patch for another base, a failed load and a replaced worker end
\* in a resynchronisation and not in a page that stays behind, unless the worker or
\* the mount goes first, or a commit threw between two of its releases (Update,
\* AcknowledgeRenderUpdate, RenderResync, needsResync, lease.commit).
PreviewCatchesUp ==
    (up /\ hot.accepted # None) ~> (~up \/ mount.disposed \/ FontLost \/ CaughtUp)
=============================================================================
