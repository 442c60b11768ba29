------------------------- MODULE EditorCompileSession -------------------------
(***************************************************************************)
(* EditorCompileSession: a hot VirtualCompileSession that advances one     *)
(* pass at a time, and a TexFixedPointSession that stabilizes what the hot *)
(* one displays.  A session is a record, an operation yields the set of    *)
(* [session, result] pairs it may end in.  A wait is named by a number, so *)
(* that an answer can be told to belong to it.                             *)
(***************************************************************************)
EXTENDS Naturals

CONSTANTS
    None

ASSUME NoneAssumption == None \notin Nat /\ None \notin {"cancelled", "disposed", "owner"}

NewSession ==
    [alive |-> TRUE,
     accepted |-> 0,         \* the hot session's accepted revision, 0 before the first
     pending |-> None,       \* the revision its pending patch asks for
     hotWait |-> None,       \* the wait its suspended candidate is in
     required |-> FALSE,     \* stabilization_required of the accepted output
     stabilizing |-> None,   \* the revision being stabilized
     stabilizerWait |-> None,
     display |-> 0, stable |-> 0]

(* A dropped session answers no call. *)
Dispose(s) == [s EXCEPT !.alive = FALSE]

(* The stabilizer goes even when the hot session refuses the patch. *)
ApplyPatch(s, revision) ==
    LET dropped == [s EXCEPT !.stabilizing = None, !.stabilizerWait = None]
    IN  IF s.accepted = 0 \/ s.pending # None THEN dropped
        ELSE [dropped EXCEPT !.pending = revision, !.hotWait = None]

CancelPendingPatch(s) ==
    IF s.pending = None THEN s ELSE [s EXCEPT !.pending = None, !.hotWait = None]

CancelStabilization(s) == [s EXCEPT !.stabilizing = None, !.stabilizerWait = None]

(* Where provide_resources sends an answer. *)
CurrentWait(s) == IF s.stabilizing # None THEN s.stabilizerWait ELSE s.hotWait

Answered(s) ==
    IF s.stabilizing # None THEN [s EXCEPT !.stabilizerWait = None] ELSE [s EXCEPT !.hotWait = None]

(* An answer to the current wait is admitted, or refused for its bytes;    *)
(* an answer to another wait may name only what nobody asked for, or       *)
(* nothing at all.                                                         *)
ProvideResources(s, wait) ==
    {[session |-> s, result |-> "refused"],
     [session |-> IF wait = CurrentWait(s) THEN Answered(s) ELSE s, result |-> "admitted"]}

-----------------------------------------------------------------------------
Displayed_BugStableKept(s, required) ==
    [s EXCEPT !.required = required, !.display = s.accepted]

(* output_from_hot, and the choice between provisional and stable. *)
Displayed(s, required) ==
    [s EXCEPT !.required = required, !.display = s.accepted,
              !.stable = IF required THEN s.stable ELSE s.accepted]

(* VirtualCompileSession::compile_attempt over the hot session.  With      *)
(* nothing pending it returns the accepted output again; called before its *)
(* wait is answered it fails, and the patch with it.                       *)
Advance(s, wait) ==
    IF s.pending = None /\ s.accepted # 0
    THEN {[session |-> Displayed(s, s.required), result |-> "complete"]}
    ELSE IF s.hotWait # None
    THEN {[session |-> [s EXCEPT !.pending = None], result |-> "error"]}
    ELSE LET revision == IF s.pending = None THEN 1 ELSE s.pending
             done == [s EXCEPT !.accepted = revision, !.pending = None, !.hotWait = None]
         IN  {[session |-> Displayed(done, required), result |-> "complete"] : required \in BOOLEAN}
             \union {[session |-> [s EXCEPT !.pending = None, !.hotWait = None], result |-> "error"],
                     [session |-> [s EXCEPT !.hotWait = wait], result |-> "wait"]}

StabilizeAttempt_BugSeedsStable(s, wait) ==
    IF s.display = 0 THEN {[session |-> s, result |-> "error"]}
    ELSE IF ~s.required THEN {[session |-> s, result |-> "complete"]}
    ELSE IF s.stabilizerWait # None
    THEN {[session |-> CancelStabilization(s), result |-> "error"]}
    ELSE LET revision == IF s.stabilizing = None THEN s.stable ELSE s.stabilizing
             dropped == CancelStabilization(s)
         IN  {[session |-> [s EXCEPT !.stabilizing = revision, !.stabilizerWait = wait], result |-> "wait"],
              [session |-> dropped, result |-> "error"],
              [session |-> [dropped EXCEPT !.accepted = revision, !.pending = None, !.hotWait = None,
                                           !.required = FALSE, !.display = revision, !.stable = revision],
               result |-> "complete"]}

(* stabilize_attempt: a completed stabilizer replaces the hot session,     *)
(* and with it whatever the hot session still had pending.                 *)
StabilizeAttempt(s, wait) ==
    IF s.display = 0 THEN {[session |-> s, result |-> "error"]}
    ELSE IF ~s.required THEN {[session |-> s, result |-> "complete"]}
    ELSE IF s.stabilizerWait # None
    THEN {[session |-> CancelStabilization(s), result |-> "error"]}
    ELSE LET revision == IF s.stabilizing = None THEN s.accepted ELSE s.stabilizing
             dropped == CancelStabilization(s)
         IN  {[session |-> [s EXCEPT !.stabilizing = revision, !.stabilizerWait = wait], result |-> "wait"],
              [session |-> dropped, result |-> "error"],
              [session |-> [dropped EXCEPT !.accepted = revision, !.pending = None, !.hotWait = None,
                                           !.required = FALSE, !.display = revision, !.stable = revision],
               result |-> "complete"]}
=============================================================================
