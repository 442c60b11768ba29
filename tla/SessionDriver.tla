---------------------------- MODULE SessionDriver ----------------------------
(***************************************************************************)
(* session-driver.js and the EditorCompileFacade of compile.js over one    *)
(* EditorCompileSession.  JavaScript runs a task to its next await without *)
(* interruption, so a step is what runs between two awaits; the host may   *)
(* call the facade at every await of a drive, and from its onProgress      *)
(* callback.  The resolver answers or fails whenever it likes.             *)
(***************************************************************************)
EXTENDS EditorCompileSession

CONSTANTS
    Orderly,       \* does the host patch only between drives, and advance a patch
                   \* before it stabilizes?
    MaxRevision,   \* bound: the last revision a patch asks for
    MaxWaits       \* bound: resource batches of the session

ASSUME DriverAssumption == Orderly \in BOOLEAN /\ MaxRevision \in Nat /\ MaxWaits \in Nat

Phase == {"advance", "stabilization"}

VARIABLES
    session,   \* the WASM session
    waits,     \* batches named so far
    op,        \* the driver's #operation and its drive call, or None
    tails,     \* drive calls that settled and whose facade call has not resumed
    run,       \* the resolver run: started (#runStarted), committed, discarded
    stale      \* history: the calls that drives made on the session once disposed

vars == <<session, waits, op, tails, run, stale>>

Init ==
    /\ session = NewSession
    /\ waits = 0 /\ op = None /\ tails = {} /\ run = "started" /\ stale = {}

(* AbortController.abort: the first reason stays. *)
Abort(o, reason) == IF o = None \/ o.reason # None THEN o ELSE [o EXCEPT !.reason = reason]

Settle(outcome) ==
    /\ op' = None
    /\ tails' = tails \union {outcome}

(* A disposed session fails every call. *)
Called(names) == stale' = IF session.alive THEN stale ELSE stale \union names
Results(results, failure) ==
    IF session.alive THEN results ELSE {[session |-> session, result |-> failure]}

-----------------------------------------------------------------------------
(* The catch and finally blocks, after the session calls that threw.  A    *)
(* cancelled drive asks for the status, disposed in the meantime or not.   *)
StatusRead == IF op.reason = "cancelled" THEN {"status"} ELSE {}

Catch_BugSlotKept(thrown) ==
    /\ tails' = tails \union {IF op.reason = "cancelled" /\ session.alive THEN "result" ELSE "error"}
    /\ session' = IF op.reason # "cancelled" /\ op.aborted THEN Dispose(session) ELSE session
    /\ Called(thrown \union StatusRead)
    /\ UNCHANGED <<waits, op, run>>

Catch(thrown) ==
    /\ Settle(IF op.reason = "cancelled" /\ session.alive THEN "result" ELSE "error")
    /\ session' = IF op.reason # "cancelled" /\ op.aborted THEN Dispose(session) ELSE session
    /\ Called(thrown \union StatusRead)
    /\ UNCHANGED <<waits, run>>

(* One attempt of drive call o, and what its result leads to. *)
AttemptBy(o) ==
    \E next \in Results(IF o.phase = "advance" THEN Advance(session, waits)
                        ELSE StabilizeAttempt(session, waits), "error") :
        /\ session' = next.session
        /\ Called({"attempt"})
        /\ \/ /\ next.result = "wait" /\ waits < MaxWaits
              /\ waits' = waits + 1
              /\ op' = [o EXCEPT !.at = "progress", !.wait = waits, !.blocking = TRUE]
              /\ UNCHANGED tails
           \/ /\ next.result = "complete"
              /\ Settle("result")
              /\ UNCHANGED waits
           \/ /\ next.result = "error"
              /\ Settle("error")
              /\ UNCHANGED waits
        /\ UNCHANGED run

(* drive runs to the end of its first attempt at once.  It is refused      *)
(* while another drive has the slot, and an owner that has aborted already *)
(* disposes the session.                                                   *)
Drive(phase) ==
    /\ session.alive
    /\ Orderly /\ phase = "stabilization" => session.pending = None
    /\ \/ /\ op # None
          /\ tails' = tails \union {"error"}
          /\ UNCHANGED <<session, waits, op, run, stale>>
       \/ /\ op = None
          /\ session' = Dispose(session)
          /\ Settle("error")
          /\ UNCHANGED <<waits, run, stale>>
       \/ /\ op = None
          /\ \E signal \in BOOLEAN :
                AttemptBy([phase |-> phase, at |-> "attempt", wait |-> None, blocking |-> TRUE, reason |-> None,
                           signal |-> signal, aborted |-> FALSE])

(* The head of the loop: throwIfAborted, then the next attempt. *)
Attempt ==
    /\ op # None /\ op.at = "attempt"
    /\ \/ op.reason # None /\ Catch({})
       \/ op.reason = None /\ AttemptBy(op)

(* onProgress, in which the host may call the facade, returns or throws;   *)
(* then the session is asked for its replay context, without another look  *)
(* at the signal, if the resolver notes replays at all.                    *)
InCallback == op # None /\ op.at = "progress"

Progress ==
    /\ InCallback
    /\ \/ Catch({})
       \/ ~session.alive /\ Catch({"resourceReplayContext"})
       \/ /\ op' = [op EXCEPT !.at = "resolve"]
          /\ UNCHANGED <<session, waits, tails, run, stale>>

(* The resolver settles: an abort is noticed first; else the answers go to *)
(* the session, and the prefetch closure is drained before the next        *)
(* attempt.                                                                *)
ResolverAnswers ==
    /\ op # None /\ op.at = "resolve"
    /\ \/ op.reason # None /\ Catch({})
       \/ /\ op.reason = None
          /\ \E provided \in Results(ProvideResources(session, op.wait), "refused") :
                /\ session' = provided.session
                /\ Called({"provideResources"})
                /\ \/ /\ provided.result = "admitted"
                      /\ op' = [op EXCEPT !.at = "drain"]
                      /\ UNCHANGED tails
                   \/ /\ provided.result = "refused"
                      /\ Settle("error")
          /\ UNCHANGED <<waits, run>>

ResolverFails ==
    /\ op # None /\ op.at = "resolve"
    /\ Catch({})

(* drainPrefetchClosure: abort check, then done, or one more batch. *)
Drain ==
    /\ op # None /\ op.at = "drain"
    /\ \/ op.reason # None /\ Catch({})
       \/ /\ op.reason = None
          /\ \/ /\ op' = [op EXCEPT !.at = "attempt"]
                /\ UNCHANGED waits
             \/ /\ waits < MaxWaits
                /\ waits' = waits + 1
                /\ op' = [op EXCEPT !.at = "resolve", !.wait = waits, !.blocking = FALSE]
          /\ UNCHANGED <<session, tails, run, stale>>

(* The facade's own continuation: commit after a result, discard after an  *)
(* error, once.                                                            *)
Resume ==
    /\ ~InCallback
    /\ \E tail \in tails :
        /\ tails' = tails \ {tail}
        /\ run' = IF run # "started" THEN run ELSE IF tail = "result" THEN "committed" ELSE "discarded"
        /\ UNCHANGED <<session, waits, op, stale>>

-----------------------------------------------------------------------------
(* The other calls of the facade, and the owner's AbortSignal. *)
FacadeApplyPatch ==
    /\ session.alive /\ session.accepted < MaxRevision
    /\ Orderly => op = None
    /\ session' = ApplyPatch(session, session.accepted + 1)
    /\ UNCHANGED <<waits, op, tails, run, stale>>

Cancel(phase) == IF op # None /\ op.phase = phase THEN Abort(op, "cancelled") ELSE op

FacadeCancelPendingPatch ==
    /\ session.alive
    /\ session' = CancelPendingPatch(session)
    /\ op' = IF session.pending # None THEN Cancel("advance") ELSE op
    /\ UNCHANGED <<waits, tails, run, stale>>

FacadeCancelStabilization_BugNoAbort ==
    /\ session.alive
    /\ session' = CancelStabilization(session)
    /\ UNCHANGED <<waits, op, tails, run, stale>>

FacadeCancelStabilization ==
    /\ session.alive
    /\ session' = CancelStabilization(session)
    /\ op' = IF session.stabilizing # None THEN Cancel("stabilization") ELSE op
    /\ UNCHANGED <<waits, tails, run, stale>>

FacadeDispose_BugNoAbort ==
    /\ session.alive
    /\ session' = Dispose(session)
    /\ run' = IF run = "started" THEN "discarded" ELSE run
    /\ UNCHANGED <<waits, op, tails, stale>>

FacadeDispose ==
    /\ session.alive
    /\ session' = Dispose(session)
    /\ op' = Abort(op, "disposed")
    /\ run' = IF run = "started" THEN "discarded" ELSE run
    /\ UNCHANGED <<waits, tails, stale>>

OwnerAborts ==
    /\ op # None /\ op.signal /\ ~op.aborted
    /\ op' = [Abort(op, "owner") EXCEPT !.aborted = TRUE]
    /\ UNCHANGED <<session, waits, tails, run, stale>>

Resolver == ResolverAnswers \/ ResolverFails
Script == Attempt \/ Progress \/ Drain \/ Resume

Next ==
    \/ \E phase \in Phase : Drive(phase)
    \/ Script \/ Resolver
    \/ FacadeApplyPatch \/ FacadeCancelPendingPatch \/ FacadeCancelStabilization
    \/ FacadeDispose \/ OwnerAborts

(* Queued continuations run, and the resolver settles every batch: the     *)
(* providers bound their transfers.                                        *)
Spec ==
    /\ Init /\ [][Next]_vars
    /\ WF_vars(Attempt) /\ WF_vars(Progress) /\ WF_vars(Drain) /\ WF_vars(Resume) /\ WF_vars(Resolver)

-----------------------------------------------------------------------------
(* Whenever the session is disposed, from a callback or during an await,   *)
(* before or after a cancellation, the drive in flight makes no attempt on *)
(* it and provides it nothing: the only calls a drive makes on a disposed  *)
(* session are the reads of the replay context after onProgress and of the *)
(* status after a cancellation (SessionDriver.dispose, throwIfAborted).    *)
DisposedSessionIsQuiet ==
    stale \subseteq {"resourceReplayContext", "status"}

(* The batch a live drive is resolving is the one the session waits for:   *)
(* whatever ends a suspension, in the hot session or in the stabilizer,    *)
(* aborts the drive that resolves it, so no answer meant for one wait is   *)
(* provided to another (cancelPendingPatch, cancelStabilization, dispose,  *)
(* and the routing of provide_resources).                                  *)
WaitIsCurrent ==
    op # None /\ op.at = "resolve" /\ op.blocking /\ op.reason = None =>
        op.wait = CurrentWait(session)

(* A session whose status is stable holds the displayed output as its      *)
(* stable output (status, advance and stabilize_attempt keep four fields   *)
(* of two sessions in step).                                               *)
StableStatusIsHonest ==
    session.display # 0 /\ session.stabilizing = None /\ ~session.required =>
        session.stable = session.display

(* "A successful fixed point atomically replaces the hot session, output,  *)
(* and generated generation at the same root revision": the displayed      *)
(* revision never goes back, so no stabilizer started for an earlier       *)
(* revision survives to replace a later one (apply_patch drops it; one     *)
(* started while a patch is pending outlives the acceptance of the patch). *)
DisplayNeverRegresses ==
    [][session'.display >= session.display]_vars

(* Every drive settles, cancelled, aborted or not, and frees the slot. *)
DriveSettles == (op # None) ~> (op = None)
=============================================================================
