----------------------------- MODULE DriverProofs -----------------------------
(***************************************************************************)
(* Proofs about the two drivers of a compile session: SessionDriver of the *)
(* JavaScript host, for any number of revisions and batches, and Watch of  *)
(* the command line, for any number of edits, batches and signals.         *)
(***************************************************************************)
EXTENDS SessionDriver, Watch, TLAPS

(***************************************************************************)
(* SessionDriver.                                                          *)
(***************************************************************************)
Option == Nat \union {None}

Session ==
    [alive : BOOLEAN, accepted : Nat, pending : Option, hotWait : Option, required : BOOLEAN,
     stabilizing : Option, stabilizerWait : Option, display : Nat, stable : Nat]

Operation ==
    [phase : Phase, at : {"attempt", "progress", "resolve", "drain"}, wait : Option, blocking : BOOLEAN,
     reason : {None, "cancelled", "disposed", "owner"}, signal : BOOLEAN, aborted : BOOLEAN]

\* What is displayed is what the hot session accepted, a pending patch asks for a later
\* revision, and an output that needs no stabilization is the stable one.
Sound(s) ==
    /\ s \in Session
    /\ s.display = s.accepted
    /\ s.pending # None => s.pending > s.accepted
    /\ ~s.required /\ s.accepted # 0 => s.stable = s.accepted

\* A stabilizer works on the accepted revision, and no patch is pending beside it.
Calm(s) ==
    s.stabilizing # None =>
        s.pending = None /\ s.stabilizing = s.accepted /\ s.accepted # 0

\* A drive that waits for blocking resources and was not aborted.
Resolving == op # None /\ op.at \in {"progress", "resolve"} /\ op.blocking /\ op.reason = None

\* A drive in flight over a disposed session is aborted.
DisposeAborts == ~session.alive /\ op # None => op.reason # None

IInv ==
    /\ Sound(session)
    /\ waits \in Nat
    /\ op \in Operation \union {None}
    /\ DisposeAborts
    /\ Orderly =>
         /\ Calm(session)
         /\ op # None /\ op.phase = "stabilization" => session.pending = None
         /\ Resolving =>
              /\ op.wait = CurrentWait(session)
              /\ op.phase = "stabilization" <=> session.stabilizing # None

\* One pass of the hot session.
LEMMA AdvanceFacts ==
    ASSUME NEW s, Sound(s), NEW w \in Nat, NEW n \in Advance(s, w)
    PROVE  /\ Sound(n.session)
           /\ n.session.alive = s.alive
           /\ n.session.display >= s.display
           /\ Calm(s) => Calm(n.session)
           /\ Calm(s) /\ n.result = "wait" => n.session.stabilizing = None /\ CurrentWait(n.session) = w
<1> USE NoneAssumption
<1> DEFINE t == n.session
<1>0. s \in Session
  BY DEF Sound
<1>1. CASE s.pending = None /\ s.accepted # 0
  <2>1. n = [session |-> Displayed(s, s.required), result |-> "complete"]
    BY <1>1 DEF Advance
  <2>2. /\ t \in Session
        /\ t.alive = s.alive /\ t.accepted = s.accepted /\ t.pending = s.pending
        /\ t.required = s.required /\ t.stabilizing = s.stabilizing /\ t.display = s.accepted
        /\ t.stable = IF s.required THEN s.stable ELSE s.accepted
    BY <1>0, <2>1 DEF Displayed, Session
  <2> QED
    BY <1>0, <1>1, <2>1, <2>2 DEF Sound, Calm, Session
<1>2. CASE ~(s.pending = None /\ s.accepted # 0) /\ s.hotWait # None
  <2>1. n = [session |-> [s EXCEPT !.pending = None], result |-> "error"]
    BY <1>2 DEF Advance
  <2>2. /\ t \in Session
        /\ t.alive = s.alive /\ t.accepted = s.accepted /\ t.pending = None
        /\ t.required = s.required /\ t.stabilizing = s.stabilizing /\ t.display = s.display
        /\ t.stable = s.stable
    BY <1>0, <2>1 DEF Session, Option
  <2> QED
    BY <1>0, <1>2, <2>1, <2>2 DEF Sound, Calm, Session
<1>3. CASE ~(s.pending = None /\ s.accepted # 0) /\ s.hotWait = None
  <2> DEFINE revision == IF s.pending = None THEN 1 ELSE s.pending
             done == [s EXCEPT !.accepted = revision, !.pending = None, !.hotWait = None]
  <2>1. revision \in Nat /\ revision > s.accepted /\ revision # 0
    BY <1>0, <1>3 DEF Sound, Session, Option
  <2>2. Calm(s) => s.stabilizing = None
    BY <1>3 DEF Calm
  <2>3. \/ \E required \in BOOLEAN : n = [session |-> Displayed(done, required), result |-> "complete"]
        \/ n = [session |-> [s EXCEPT !.pending = None, !.hotWait = None], result |-> "error"]
        \/ n = [session |-> [s EXCEPT !.hotWait = w], result |-> "wait"]
    BY <1>3 DEF Advance
  <2> HIDE DEF revision
  <2>4. CASE n = [session |-> [s EXCEPT !.hotWait = w], result |-> "wait"]
    <3>1. /\ t \in Session
          /\ t.alive = s.alive /\ t.accepted = s.accepted /\ t.pending = s.pending
          /\ t.required = s.required /\ t.stabilizing = s.stabilizing /\ t.display = s.display
          /\ t.stable = s.stable /\ t.hotWait = w
      BY <1>0, <2>4 DEF Session, Option
    <3> QED
      BY <1>0, <2>2, <3>1 DEF Sound, Calm, Session, CurrentWait
  <2>5. CASE n = [session |-> [s EXCEPT !.pending = None, !.hotWait = None], result |-> "error"]
    <3>1. /\ t \in Session
          /\ t.alive = s.alive /\ t.accepted = s.accepted /\ t.pending = None
          /\ t.required = s.required /\ t.stabilizing = s.stabilizing /\ t.display = s.display
          /\ t.stable = s.stable
      BY <1>0, <2>5 DEF Session, Option
    <3> QED
      BY <1>0, <2>2, <2>5, <3>1 DEF Sound, Calm, Session
  <2>6. ASSUME NEW required \in BOOLEAN,
               n = [session |-> Displayed(done, required), result |-> "complete"]
        PROVE  /\ Sound(t) /\ t.alive = s.alive /\ t.display >= s.display
               /\ t.stabilizing = s.stabilizing /\ n.result # "wait"
    <3>1. /\ done \in Session /\ done.alive = s.alive /\ done.accepted = revision
          /\ done.pending = None /\ done.stabilizing = s.stabilizing /\ done.stable = s.stable
      BY <1>0, <2>1 DEF Session, Option
    <3> HIDE DEF done
    <3>2. /\ t \in Session
          /\ t.alive = s.alive /\ t.accepted = revision /\ t.pending = None
          /\ t.required = required /\ t.stabilizing = s.stabilizing /\ t.display = revision
          /\ t.stable = IF required THEN s.stable ELSE revision
      BY <1>0, <2>1, <2>6, <3>1 DEF Displayed, Session
    <3> QED
      BY <1>0, <2>1, <2>6, <3>2 DEF Sound, Session
  <2> QED
    BY <2>2, <2>3, <2>4, <2>5, <2>6 DEF Calm
<1> QED
  BY <1>1, <1>2, <1>3

\* One attempt of the stabilizer; with no patch pending it cannot bring an earlier
\* revision back.
LEMMA StabilizeFacts ==
    ASSUME NEW s, Sound(s), NEW w \in Nat, NEW n \in StabilizeAttempt(s, w)
    PROVE  /\ Sound(n.session)
           /\ n.session.alive = s.alive
           /\ Calm(s) => n.session.display >= s.display
           /\ Calm(s) /\ s.pending = None => Calm(n.session) /\ n.session.pending = None
           /\ n.result = "wait" => n.session.stabilizing # None /\ CurrentWait(n.session) = w
<1> USE NoneAssumption
<1> DEFINE t == n.session
<1>0. s \in Session
  BY DEF Sound
<1>1. CASE s.display = 0 \/ ~s.required
  <2>1. t = s /\ n.result # "wait"
    BY <1>1 DEF StabilizeAttempt
  <2> QED
    BY <1>0, <2>1 DEF Sound, Session
<1> DEFINE dropped == CancelStabilization(s)
<1>2. /\ dropped \in Session
      /\ dropped.alive = s.alive /\ dropped.accepted = s.accepted /\ dropped.pending = s.pending
      /\ dropped.required = s.required /\ dropped.stabilizing = None /\ dropped.display = s.display
      /\ dropped.stable = s.stable
  BY <1>0 DEF CancelStabilization, Session, Option
<1>3. Sound(dropped) /\ Calm(dropped) /\ dropped.display >= s.display
  BY <1>0, <1>2 DEF Sound, Calm, Session
<1>4. CASE s.display # 0 /\ s.required /\ s.stabilizerWait # None
  <2>1. t = dropped /\ n.result # "wait"
    BY <1>4 DEF StabilizeAttempt
  <2> QED
    BY <1>2, <1>3, <2>1
<1>5. CASE s.display # 0 /\ s.required /\ s.stabilizerWait = None
  <2> DEFINE revision == IF s.stabilizing = None THEN s.accepted ELSE s.stabilizing
  <2>1. revision \in Nat /\ (Calm(s) => revision = s.accepted /\ s.accepted # 0)
    BY <1>0, <1>5 DEF Sound, Session, Option, Calm
  <2>2. \/ n = [session |-> [s EXCEPT !.stabilizing = revision, !.stabilizerWait = w], result |-> "wait"]
        \/ n = [session |-> dropped, result |-> "error"]
        \/ n = [session |-> [dropped EXCEPT !.accepted = revision, !.pending = None,
                                            !.hotWait = None, !.required = FALSE,
                                            !.display = revision, !.stable = revision],
                result |-> "complete"]
    BY <1>5 DEF StabilizeAttempt
  <2> HIDE DEF revision, dropped
  <2>3. CASE n = [session |-> [s EXCEPT !.stabilizing = revision, !.stabilizerWait = w], result |-> "wait"]
    <3>1. /\ t \in Session
          /\ t.alive = s.alive /\ t.accepted = s.accepted /\ t.pending = s.pending
          /\ t.required = s.required /\ t.stabilizing = revision /\ t.display = s.display
          /\ t.stable = s.stable /\ t.stabilizerWait = w
      BY <1>0, <2>1, <2>3 DEF Session, Option
    <3> QED
      BY <1>0, <2>1, <2>3, <3>1 DEF Sound, Calm, Session, CurrentWait
  <2>4. CASE n = [session |-> dropped, result |-> "error"]
    BY <1>2, <1>3, <2>4
  <2>5. CASE n = [session |-> [dropped EXCEPT !.accepted = revision, !.pending = None,
                                            !.hotWait = None, !.required = FALSE,
                                            !.display = revision, !.stable = revision],
                result |-> "complete"]
    <3>1. /\ t \in Session
          /\ t.alive = s.alive /\ t.accepted = revision /\ t.pending = None
          /\ t.required = FALSE /\ t.stabilizing = None /\ t.display = revision
          /\ t.stable = revision
      BY <1>2, <2>1, <2>5 DEF Session, Option
    <3> QED
      BY <1>0, <2>1, <2>5, <3>1 DEF Sound, Calm, Session
  <2> QED
    BY <2>2, <2>3, <2>4, <2>5
<1> QED
  BY <1>0, <1>1, <1>4, <1>5 DEF Session

\* The session starts with nothing accepted, and no drive in flight.
LEMMA InitIInv == Init => IInv
  BY NoneAssumption DEF Init, NewSession, IInv, Sound, Session, Option, Calm, Resolving,
                        DisposeAborts

\* What no step of an orderly host does.
Onward == Orderly => session'.display >= session.display

\* An attempt of a drive that was not aborted.
LEMMA AttemptByFacts ==
    ASSUME IInv, NEW o \in Operation, o.reason = None, session.alive,
           Orderly /\ o.phase = "stabilization" => session.pending = None,
           AttemptBy(o)
    PROVE  IInv' /\ Onward
<1> USE NoneAssumption
<1>1. PICK n \in IF o.phase = "advance" THEN Advance(session, waits) ELSE StabilizeAttempt(session, waits) :
        /\ session' = n.session
        /\ \/ /\ n.result = "wait" /\ waits < MaxWaits
              /\ waits' = waits + 1
              /\ op' = [o EXCEPT !.at = "progress", !.wait = waits, !.blocking = TRUE]
           \/ n.result # "wait" /\ op' = None /\ UNCHANGED waits
  BY DEF AttemptBy, Settle, Results
<1>2. waits \in Nat /\ Sound(session) /\ o.phase \in {"advance", "stabilization"}
  BY DEF IInv, Operation, Phase
<1>3. /\ Sound(session') /\ session'.alive
      /\ Orderly => Calm(session') /\ session'.display >= session.display
      /\ Orderly /\ o.phase = "stabilization" => session'.pending = None
      /\ Orderly /\ n.result = "wait" =>
           /\ CurrentWait(session') = waits
           /\ o.phase = "stabilization" <=> session'.stabilizing # None
  <2>1. CASE o.phase = "advance"
    <3>1. n \in Advance(session, waits)
      BY <1>1, <2>1
    <3> QED
      BY <1>1, <1>2, <2>1, <3>1, AdvanceFacts DEF IInv
  <2>2. CASE o.phase = "stabilization"
    <3>1. n \in StabilizeAttempt(session, waits)
      BY <1>1, <2>2
    <3> QED
      BY <1>1, <1>2, <2>2, <3>1, StabilizeFacts DEF IInv
  <2> QED
    BY <1>2, <2>1, <2>2
<1>4. CASE n.result # "wait"
  <2>1. op' = None /\ UNCHANGED waits
    BY <1>1, <1>4
  <2> QED
    BY <1>2, <1>3, <2>1 DEF IInv, Onward, Resolving, DisposeAborts
<1>5. CASE n.result = "wait"
  <2>1. waits' \in Nat
    BY <1>1, <1>2, <1>5
  <2>2. op' \in Operation /\ op'.phase = o.phase /\ op'.wait = waits
    <3>1. op' = [o EXCEPT !.at = "progress", !.wait = waits, !.blocking = TRUE]
      BY <1>1, <1>5
    <3> QED
      BY <1>2, <3>1 DEF Operation, Option
  <2> QED
    BY <1>3, <1>5, <2>1, <2>2 DEF IInv, Onward, Resolving, DisposeAborts, CurrentWait
<1> QED
  BY <1>4, <1>5

\* The operations a host may call between two steps of a drive.
LEMMA SessionFacts ==
    ASSUME NEW s, Sound(s)
    PROVE  /\ Sound(Dispose(s)) /\ Dispose(s).display = s.display
           /\ Sound(CancelStabilization(s)) /\ Calm(CancelStabilization(s))
           /\ CancelStabilization(s).stabilizing = None
           /\ CancelStabilization(s).hotWait = s.hotWait
           /\ CancelStabilization(s).alive = s.alive
           /\ CancelStabilization(s).pending = s.pending
           /\ CancelStabilization(s).display = s.display
<1> USE NoneAssumption
<1>0. s \in Session
  BY DEF Sound
<1>1. /\ Dispose(s) \in Session /\ Dispose(s).accepted = s.accepted
      /\ Dispose(s).pending = s.pending /\ Dispose(s).required = s.required
      /\ Dispose(s).display = s.display /\ Dispose(s).stable = s.stable
  BY <1>0 DEF Dispose, Session
<1> DEFINE t == CancelStabilization(s)
<1>2. /\ t \in Session
      /\ t.alive = s.alive /\ t.accepted = s.accepted /\ t.pending = s.pending
      /\ t.required = s.required /\ t.stabilizing = None /\ t.display = s.display
      /\ t.stable = s.stable /\ t.hotWait = s.hotWait
  BY <1>0 DEF CancelStabilization, Session, Option
<1> QED
  BY <1>0, <1>1, <1>2 DEF Sound, Calm, Session

\* The catch block frees the slot, and may dispose.
LEMMA CatchFacts ==
    ASSUME IInv, NEW thrown, Catch(thrown)
    PROVE  IInv' /\ Onward
<1>1. op' = None /\ UNCHANGED waits /\ session' \in {session, Dispose(session)}
  BY DEF Catch, Settle
<1>2. session \in Session /\ Sound(session)
  BY DEF IInv, Sound
<1>3. Sound(session') /\ session'.display = session.display
  BY <1>1, <1>2, SessionFacts
<1>4. session'.stabilizing = session.stabilizing /\ session'.pending = session.pending
      /\ session'.accepted = session.accepted
  BY <1>1, <1>2 DEF Dispose, Session
<1>5. session.display \in Nat
  BY <1>2 DEF Session
<1> QED
  BY <1>1, <1>3, <1>4, <1>5 DEF IInv, Calm, Resolving, DisposeAborts, Onward

\* Aborting a drive keeps everything but the reason, and leaves one.
LEMMA AbortFacts ==
    ASSUME NEW o \in Operation, NEW reason \in {"cancelled", "disposed", "owner"}
    PROVE  /\ Abort(o, reason) \in Operation \union {None}
           /\ Abort(o, reason) # None => Abort(o, reason).reason # None
           /\ o # None => Abort(o, reason) \in Operation /\ Abort(o, reason).phase = o.phase
  BY NoneAssumption DEF Abort, Operation

\* The steps of a drive, from its start to the end of its last await.
LEMMA DriveFacts ==
    ASSUME IInv, (\E phase \in Phase : Drive(phase)) \/ Script \/ Resolver
    PROVE  IInv' /\ Onward
<1> USE NoneAssumption
<1>0. Sound(session) /\ session \in Session /\ session.display \in Nat /\ waits \in Nat
  BY DEF IInv, Sound, Session
<1>1. ASSUME UNCHANGED <<session, waits, op>> PROVE IInv' /\ Onward
  BY <1>0, <1>1 DEF IInv, Onward, Resolving, DisposeAborts, CurrentWait
<1>2. ASSUME NEW phase \in Phase, Drive(phase) PROVE IInv' /\ Onward
  <2>1. CASE UNCHANGED <<session, waits, op>>
    BY <1>1, <2>1
  <2>2. CASE session' = Dispose(session) /\ op' = None /\ UNCHANGED waits
    <3>1. Sound(session') /\ session'.display = session.display
      BY <1>0, <2>2, SessionFacts
    <3>2. session'.stabilizing = session.stabilizing /\ session'.pending = session.pending
          /\ session'.accepted = session.accepted
      BY <1>0, <2>2 DEF Dispose, Session
    <3> QED
      BY <1>0, <2>2, <3>1, <3>2 DEF IInv, Calm, Resolving, DisposeAborts, Onward
  <2>3. ASSUME NEW signal \in BOOLEAN,
               AttemptBy([phase |-> phase, at |-> "attempt", wait |-> None, blocking |-> TRUE,
                          reason |-> None, signal |-> signal, aborted |-> FALSE])
        PROVE  IInv' /\ Onward
    <3> DEFINE o == [phase |-> phase, at |-> "attempt", wait |-> None, blocking |-> TRUE,
                     reason |-> None, signal |-> signal, aborted |-> FALSE]
    <3>1. o \in Operation /\ o.reason = None /\ o.phase = phase
      BY DEF Operation, Option
    <3>2. session.alive /\ (Orderly /\ phase = "stabilization" => session.pending = None)
      BY <1>2 DEF Drive
    <3> HIDE DEF o
    <3>3. AttemptBy(o)
      BY <2>3 DEF o
    <3> QED
      BY <3>1, <3>2, <3>3, AttemptByFacts
  <2> QED
    BY <1>2, <2>1, <2>2, <2>3 DEF Drive, Settle
<1>3. CASE Attempt
  <2>1. CASE op.reason # None /\ Catch({})
    BY <2>1, CatchFacts
  <2>2. CASE op.reason = None /\ AttemptBy(op)
    <3>1. op \in Operation /\ session.alive
          /\ (Orderly /\ op.phase = "stabilization" => session.pending = None)
      BY <1>3, <2>2 DEF Attempt, IInv, DisposeAborts
    <3> QED
      BY <2>2, <3>1, AttemptByFacts
  <2> QED
    BY <1>3, <2>1, <2>2 DEF Attempt
<1>4. CASE ResolverAnswers
  <2>1. CASE op.reason # None /\ Catch({})
    BY <2>1, CatchFacts
  <2>2. CASE op.reason = None
    <3>1. PICK p \in Results(ProvideResources(session, op.wait), "refused") :
            /\ session' = p.session
            /\ op' \in {[op EXCEPT !.at = "drain"], None} /\ UNCHANGED waits
      BY <1>4, <2>2 DEF ResolverAnswers, Settle
    <3>2. session' \in {session, Answered(session)}
      BY <3>1 DEF ProvideResources, Results
    <3>3. /\ session' \in Session /\ session'.alive = session.alive
          /\ session'.accepted = session.accepted /\ session'.pending = session.pending
          /\ session'.required = session.required /\ session'.stabilizing = session.stabilizing
          /\ session'.display = session.display /\ session'.stable = session.stable
      BY <1>0, <3>2 DEF Answered, Session, Option
    <3>4. op \in Operation /\ op # None
      BY <1>4 DEF ResolverAnswers, IInv
    <3>5. op' # None => op' \in Operation /\ op'.at = "drain" /\ op'.phase = op.phase
                        /\ op'.reason = op.reason
      BY <3>1, <3>4 DEF Operation
    <3>6. Sound(session') /\ (Calm(session) => Calm(session'))
      BY <1>0, <3>3 DEF Sound, Calm
    <3>7. op' \in Operation \union {None}
      BY <3>1, <3>5
    <3> QED
      BY <1>0, <3>1, <3>3, <3>4, <3>5, <3>6, <3>7 DEF IInv, Resolving, DisposeAborts, Onward
  <2> QED
    BY <1>4, <2>1, <2>2 DEF ResolverAnswers
<1>5. CASE ResolverFails
  BY <1>5, CatchFacts DEF ResolverFails
<1>6. CASE Drain
  <2>1. CASE op.reason # None /\ Catch({})
    BY <2>1, CatchFacts
  <2>2. CASE op.reason = None
    <3>1. op \in Operation /\ op # None /\ UNCHANGED session
      BY <1>6, <2>2 DEF Drain, IInv
    <3>2. \/ op' = [op EXCEPT !.at = "attempt"] /\ UNCHANGED waits
          \/ /\ op' = [op EXCEPT !.at = "resolve", !.wait = waits, !.blocking = FALSE]
             /\ waits' = waits + 1
      BY <1>6, <2>2 DEF Drain
    <3>3. /\ op' \in Operation /\ op'.phase = op.phase /\ op'.reason = op.reason
          /\ op'.at = "attempt" \/ op'.blocking = FALSE
      BY <1>0, <3>1, <3>2 DEF Operation, Option
    <3>4. waits' \in Nat
      BY <1>0, <3>2
    <3> QED
      BY <1>0, <2>2, <3>1, <3>3, <3>4 DEF IInv, Resolving, DisposeAborts, Onward
  <2> QED
    BY <1>6, <2>1, <2>2 DEF Drain
<1>7. CASE Resume
  BY <1>1, <1>7 DEF Resume
<1>8. CASE Progress
  <2>1. CASE \E thrown : Catch(thrown)
    BY <2>1, CatchFacts
  <2>2. CASE op' = [op EXCEPT !.at = "resolve"] /\ UNCHANGED <<session, waits>>
    <3>1. op \in Operation /\ op # None /\ op.at = "progress"
      BY <1>8 DEF Progress, InCallback, IInv
    <3>2. /\ op' \in Operation /\ op'.phase = op.phase /\ op'.reason = op.reason
          /\ op'.wait = op.wait /\ op'.blocking = op.blocking
      BY <2>2, <3>1 DEF Operation
    <3> QED
      BY <1>0, <2>2, <3>1, <3>2 DEF IInv, Resolving, DisposeAborts, Onward, CurrentWait
  <2> QED
    BY <1>8, <2>1, <2>2 DEF Progress
<1> QED
  BY <1>2, <1>3, <1>4, <1>5, <1>6, <1>7, <1>8 DEF Script, Resolver

\* What a host may call at any await of a drive, and the owner's signal.
LEMMA HostFacts ==
    ASSUME IInv,
           \/ FacadeApplyPatch \/ FacadeCancelPendingPatch \/ FacadeCancelStabilization
           \/ FacadeDispose \/ OwnerAborts
    PROVE  IInv' /\ Onward
<1> USE NoneAssumption
<1>0. Sound(session) /\ session \in Session /\ session.display \in Nat /\ waits \in Nat
  BY DEF IInv, Sound, Session
<1>1. CASE FacadeApplyPatch
  <2> DEFINE dropped == [session EXCEPT !.stabilizing = None, !.stabilizerWait = None]
  <2>1. /\ dropped \in Session /\ dropped.alive = session.alive
        /\ dropped.accepted = session.accepted /\ dropped.pending = session.pending
        /\ dropped.required = session.required /\ dropped.stabilizing = None
        /\ dropped.display = session.display /\ dropped.stable = session.stable
    BY <1>0 DEF Session, Option
  <2>2. session' = dropped \/ session' = [dropped EXCEPT !.pending = session.accepted + 1, !.hotWait = None]
    BY <1>1 DEF FacadeApplyPatch, ApplyPatch
  <2> HIDE DEF dropped
  <2>3. /\ session' \in Session /\ session'.alive = session.alive
        /\ session'.accepted = session.accepted
        /\ session'.pending \in {session.pending, session.accepted + 1}
        /\ session'.required = session.required /\ session'.stabilizing = None
        /\ session'.display = session.display /\ session'.stable = session.stable
    <3>1. session.accepted + 1 \in Nat
      BY <1>0 DEF Session
    <3>2. CASE session' = dropped
      BY <2>1, <3>2
    <3>3. CASE session' = [dropped EXCEPT !.pending = session.accepted + 1, !.hotWait = None]
      BY <2>1, <3>1, <3>3 DEF Session, Option
    <3> QED
      BY <2>2, <3>2, <3>3
  <2>4. Sound(session') /\ Calm(session')
    BY <1>0, <2>3 DEF Sound, Calm, Session
  <2>5. UNCHANGED <<waits, op>> /\ (Orderly => op = None)
    BY <1>1 DEF FacadeApplyPatch
  <2> QED
    BY <1>0, <2>3, <2>4, <2>5 DEF IInv, Resolving, DisposeAborts, Onward
<1>2. CASE FacadeCancelPendingPatch
  <2>1. CASE session.pending = None
    BY <1>0, <1>2, <2>1 DEF FacadeCancelPendingPatch, CancelPendingPatch, IInv, Onward, Resolving,
                            DisposeAborts, CurrentWait
  <2>2. CASE session.pending # None
    <3>1. session' = [session EXCEPT !.pending = None, !.hotWait = None] /\ UNCHANGED waits
          /\ op' = Cancel("advance")
      BY <1>2, <2>2 DEF FacadeCancelPendingPatch, CancelPendingPatch
    <3>2. /\ session' \in Session /\ session'.alive = session.alive
          /\ session'.accepted = session.accepted /\ session'.pending = None
          /\ session'.required = session.required /\ session'.stabilizing = session.stabilizing
          /\ session'.display = session.display /\ session'.stable = session.stable
      BY <1>0, <3>1 DEF Session, Option
    <3>3. Sound(session') /\ (Calm(session) => Calm(session'))
      BY <1>0, <3>2 DEF Sound, Calm
    <3>4. /\ op' \in Operation \union {None}
          /\ op' # None => op # None
          /\ op' # None /\ op'.reason = None => op' = op /\ op.phase # "advance"
      BY <3>1, AbortFacts DEF Cancel, IInv
    <3>5. Orderly /\ op' # None /\ op'.reason = None => FALSE
      BY <2>2, <3>4 DEF IInv, Operation, Phase
    <3>6. DisposeAborts'
      BY <3>2, <3>4 DEF IInv, DisposeAborts
    <3> QED
      BY <1>0, <3>1, <3>2, <3>3, <3>4, <3>5, <3>6 DEF IInv, Resolving, Onward
  <2> QED
    BY <2>1, <2>2
<1>3. CASE FacadeCancelStabilization
  <2>1. /\ Sound(session') /\ Calm(session') /\ session'.stabilizing = None
        /\ session'.hotWait = session.hotWait /\ session'.alive = session.alive
        /\ session'.pending = session.pending /\ session'.display = session.display
        /\ UNCHANGED waits
    BY <1>0, <1>3, SessionFacts DEF FacadeCancelStabilization
  <2>2. /\ op' \in Operation \union {None}
        /\ op' # None => op # None /\ op'.phase = op.phase
        /\ op' # None /\ op'.reason = None => op' = op
        /\ op' # None /\ op'.reason = None /\ session.stabilizing # None => op.phase # "stabilization"
    BY <1>3, AbortFacts DEF FacadeCancelStabilization, Cancel, IInv
  <2>3. DisposeAborts'
    BY <2>1, <2>2 DEF IInv, DisposeAborts
  <2>4. ASSUME Orderly, Resolving'
        PROVE  /\ op'.wait = CurrentWait(session')
               /\ op'.phase = "stabilization" <=> session'.stabilizing # None
    BY <2>1, <2>2, <2>4 DEF IInv, Resolving, CurrentWait
  <2> QED
    BY <1>0, <2>1, <2>2, <2>3, <2>4 DEF IInv, Onward, CurrentWait
<1>4. CASE FacadeDispose
  <2>1. session' = Dispose(session) /\ op' = Abort(op, "disposed") /\ UNCHANGED waits
    BY <1>4 DEF FacadeDispose
  <2>2. Sound(session') /\ session'.display = session.display
    BY <1>0, <2>1, SessionFacts
  <2>3. session'.stabilizing = session.stabilizing /\ session'.pending = session.pending
        /\ session'.accepted = session.accepted
    BY <1>0, <2>1 DEF Dispose, Session
  <2>4. /\ op' \in Operation \union {None}
        /\ op' # None => op'.reason # None /\ op # None /\ op'.phase = op.phase
    <3>1. CASE op = None
      BY <2>1, <3>1 DEF Abort
    <3>2. CASE op \in Operation /\ op # None
      BY <2>1, <3>2, AbortFacts
    <3> QED
      BY <3>1, <3>2 DEF IInv
  <2> QED
    BY <1>0, <2>1, <2>2, <2>3, <2>4 DEF IInv, Calm, Resolving, DisposeAborts, Onward
<1>5. CASE OwnerAborts
  <2>1. op \in Operation /\ op # None /\ UNCHANGED <<session, waits>>
    BY <1>5 DEF OwnerAborts, IInv
  <2>2. op' \in Operation /\ op'.reason # None /\ op'.phase = op.phase
    <3>1. Abort(op, "owner") \in Operation /\ Abort(op, "owner").phase = op.phase
          /\ Abort(op, "owner").reason # None
      BY <2>1 DEF Abort, Operation
    <3> QED
      BY <1>5, <3>1 DEF OwnerAborts, Operation
  <2> QED
    BY <1>0, <2>1, <2>2 DEF IInv, Resolving, DisposeAborts, Onward
<1> QED
  BY <1>1, <1>2, <1>3, <1>4, <1>5

\* The invariant is inductive.
LEMMA StepIInv == IInv /\ [Next]_vars => IInv' /\ Onward
<1> SUFFICES ASSUME IInv, [Next]_vars PROVE IInv' /\ Onward
  OBVIOUS
<1>1. CASE UNCHANGED vars
  <2>1. session.display \in Nat
    BY DEF IInv, Sound, Session
  <2> QED
    BY <1>1, <2>1 DEF vars, IInv, Onward, Resolving, DisposeAborts, CurrentWait
<1> QED
  BY <1>1, DriveFacts, HostFacts DEF Next

\* The history names no other call: an attempt and a provide find the session alive.
LEMMA StepQuiet == IInv /\ DisposedSessionIsQuiet /\ [Next]_vars => DisposedSessionIsQuiet'
<1> SUFFICES ASSUME IInv, DisposedSessionIsQuiet, [Next]_vars PROVE DisposedSessionIsQuiet'
  OBVIOUS
<1>1. ASSUME UNCHANGED stale PROVE DisposedSessionIsQuiet'
  BY <1>1 DEF DisposedSessionIsQuiet
<1>2. ASSUME NEW thrown \in {{}, {"resourceReplayContext"}}, Catch(thrown) PROVE DisposedSessionIsQuiet'
  BY <1>2 DEF Catch, Called, StatusRead, DisposedSessionIsQuiet
<1>3. ASSUME NEW o, session.alive, AttemptBy(o) PROVE DisposedSessionIsQuiet'
  BY <1>1, <1>3 DEF AttemptBy, Called
<1>4. op # None /\ op.reason = None => session.alive
  BY DEF IInv, DisposeAborts
<1>5. ASSUME NEW phase \in Phase, Drive(phase) PROVE DisposedSessionIsQuiet'
  BY <1>1, <1>3, <1>5 DEF Drive
<1>6. CASE Attempt
  BY <1>2, <1>3, <1>4, <1>6 DEF Attempt
<1>7. CASE Progress
  BY <1>1, <1>2, <1>7 DEF Progress
<1>8. CASE ResolverAnswers
  <2>1. CASE op.reason = None
    BY <1>1, <1>4, <1>8, <2>1 DEF ResolverAnswers, Called
  <2>2. CASE op.reason # None
    BY <1>2, <1>8, <2>2 DEF ResolverAnswers
  <2> QED
    BY <2>1, <2>2
<1>9. CASE ResolverFails
  BY <1>2, <1>9 DEF ResolverFails
<1>10. CASE Drain
  BY <1>1, <1>2, <1>10 DEF Drain
<1>11. CASE Resume
  BY <1>1, <1>11 DEF Resume
<1>12. CASE \/ FacadeApplyPatch \/ FacadeCancelPendingPatch \/ FacadeCancelStabilization
            \/ FacadeDispose \/ OwnerAborts
  BY <1>1, <1>12 DEF FacadeApplyPatch, FacadeCancelPendingPatch, FacadeCancelStabilization,
                     FacadeDispose, OwnerAborts
<1>13. CASE UNCHANGED vars
  BY <1>1, <1>13 DEF vars
<1> QED
  BY <1>5, <1>6, <1>7, <1>8, <1>9, <1>10, <1>11, <1>12, <1>13 DEF Next, Script, Resolver

\* Of a disposed session a drive reads at most the replay context and the status,
\* whatever the host does and wherever it does it: no attempt is made on it and no
\* answer is provided to it (DisposedSessionIsQuiet).
THEOREM NoCallAfterDispose == Spec => []DisposedSessionIsQuiet
<1>1. Init => DisposedSessionIsQuiet
  BY DEF Init, DisposedSessionIsQuiet
<1> QED
  BY <1>1, InitIInv, StepIInv, StepQuiet, PTL DEF Spec

\* The status never calls an output stable that is not the stable one, for orderly and
\* disorderly hosts (StableStatusIsHonest).
THEOREM StatusIsHonest == Spec => []StableStatusIsHonest
<1>1. IInv => StableStatusIsHonest
  BY DEF IInv, Sound, StableStatusIsHonest
<1> QED
  BY <1>1, InitIInv, StepIInv, PTL DEF Spec

\* Answers reach the wait they belong to, if the host patches between drives and
\* advances a patch before it stabilizes (WaitIsCurrent).
THEOREM AnswersAreCurrent == ASSUME Orderly PROVE Spec => []WaitIsCurrent
<1>1. IInv => WaitIsCurrent
  BY DEF IInv, Resolving, WaitIsCurrent
<1> QED
  BY <1>1, InitIInv, StepIInv, PTL DEF Spec

\* Under the same host no stabilizer replaces a later revision by an earlier one
\* (DisplayNeverRegresses).
THEOREM DisplayGoesOn == ASSUME Orderly PROVE Spec => DisplayNeverRegresses
<1>1. IInv /\ [Next]_vars => [session'.display >= session.display]_vars
  BY StepIInv DEF Onward
<1> QED
  BY <1>1, InitIInv, StepIInv, PTL DEF Spec, DisplayNeverRegresses

(***************************************************************************)
(* Watch.                                                                  *)
(***************************************************************************)
SomeText == Nat \union {NoText}

MainState ==
    [at : {"claim", "register", "activate", "read", "create", "format", "round", "loop", "attempt",
           "resolve", "drain", "join", "write", "wait", "superseded"},
     exit : {"running", "Handler", "Io", "Error", "Cancelled", "Ok", "none", "Complete"},
     candidateSource : SomeText, nextRevision : Nat \ {0}, next : SomeText,
     result : {"none", "Complete", "Error", "Cancelled"}, waits : Nat]

SessionState ==
    [source : SomeText, pendingSource : SomeText, accepted : SomeText, revision : Nat, pending : SomeText,
     candidate : BOOLEAN]

\* The session's copy of the source is what the engine accepted, and so are the copies
\* of a pending patch.
Agrees(s) ==
    /\ s.source \in Nat
    /\ s.pending = s.pendingSource
    /\ s.accepted # NoText => s.source = s.accepted
    /\ s.pending # NoText => s.accepted # NoText

Patchable(s) == Agrees(s) /\ s.pending = NoText /\ s.accepted # NoText

\* What the main thread may rely on where it is.  A failed attempt and an unpublished
\* one leave the copies apart, but with no patch pending, so that the session is dropped.
Place(m, s) ==
    /\ m.at \in {"format", "round", "loop", "attempt", "resolve", "drain"} => Agrees(s)
    /\ m.at \in {"write", "wait"} => Patchable(s)
    /\ m.at = "join" /\ m.result = "Complete" => Patchable(s)
    /\ m.at \in {"join", "superseded"} /\ s.pending # NoText => Agrees(s)
    /\ m.at = "superseded" => m.next \in Nat
    /\ m.at \in {"format", "round"} => ~s.candidate
    /\ m.at = "loop" /\ m.waits = 0 => ~s.candidate
    /\ m.at \in {"resolve", "drain"} => m.waits # 0

WatchInv ==
    /\ file \in Nat \union {Missing} /\ edits \in Nat
    /\ main \in MainState /\ native \in SessionState
    /\ native.revision <= main.nextRevision
    /\ Place(main, native)

\* The loop starts at the handler's installation, without a session.
LEMMA InitWatchInv == WatchInit => WatchInv
  BY WatchAssumption DEF WatchInit, NoSession, WatchInv, MainState, SessionState, SomeText, Place

\* The other threads, the signal handler and the editor leave the loop's state alone.
LEMMA OtherFacts ==
    ASSUME WatchInv, Monitor \/ Dispatcher \/ Signal \/ Edit \/ UNCHANGED watchVars
    PROVE  WatchInv'
<1>1. UNCHANGED <<main, native>>
  BY DEF Monitor, Poll, PollRead, Dispatcher, Dispatch, Handler, Signal, Edit, watchVars
<1>2. file' \in Nat \union {Missing} /\ edits' \in Nat
  <2>1. CASE Edit
    BY <2>1 DEF Edit, WatchInv
  <2>2. CASE ~Edit
    BY <2>2 DEF Monitor, Poll, PollRead, Dispatcher, Dispatch, Handler, Signal, watchVars, env, WatchInv
  <2> QED
    BY <2>1, <2>2
<1> QED
  BY <1>1, <1>2 DEF WatchInv

\* A step of the main thread that keeps its session.
LEMMA GoFacts ==
    ASSUME WatchInv, UNCHANGED <<file, edits, native>>, main' \in MainState,
           main'.nextRevision = main.nextRevision,
           \/ /\ main'.at = main.at /\ main'.result = main.result
              /\ main'.next = main.next /\ main'.waits = main.waits
           \/ Place(main', native)
    PROVE  WatchInv'
  BY DEF WatchInv, Place

\* Exits, and other places, as records.
LEMMA MainFacts ==
    ASSUME WatchInv
    PROVE  /\ \A how \in {"Handler", "Io", "Error", "Cancelled", "Ok", "none", "Complete"} :
                 LET m == [main EXCEPT !.exit = how]
                 IN  /\ m \in MainState /\ m.nextRevision = main.nextRevision
                     /\ m.at = main.at /\ m.result = main.result /\ m.next = main.next
                     /\ m.waits = main.waits
           /\ \A where \in {"register", "activate", "read", "create", "format", "round", "attempt", "loop",
                            "drain", "write", "wait"} :
                 LET m == [main EXCEPT !.at = where]
                 IN  /\ m \in MainState /\ m.nextRevision = main.nextRevision
                     /\ m.at = where /\ m.waits = main.waits /\ m.next = main.next
<1>1. main \in MainState
  BY DEF WatchInv
<1>2. ASSUME NEW how \in {"Handler", "Io", "Error", "Cancelled", "Ok", "none", "Complete"}
      PROVE  LET m == [main EXCEPT !.exit = how]
             IN  /\ m \in MainState /\ m.nextRevision = main.nextRevision
                 /\ m.at = main.at /\ m.result = main.result /\ m.next = main.next
                 /\ m.waits = main.waits
  BY <1>1 DEF MainState
<1>3. ASSUME NEW where \in {"register", "activate", "read", "create", "format", "round", "attempt",
                            "loop", "drain", "write", "wait"}
      PROVE  LET m == [main EXCEPT !.at = where]
             IN  /\ m \in MainState /\ m.nextRevision = main.nextRevision
                 /\ m.at = where /\ m.waits = main.waits /\ m.next = main.next
  BY <1>1 DEF MainState
<1> QED
  BY <1>2, <1>3, Zenon

\* The installation of the handler, and the session.
LEMMA LoopStartFacts ==
    ASSUME WatchInv, Claim \/ Register \/ Activate \/ ReadInput \/ CreateSession \/ SessionReady
    PROVE  WatchInv'
<1> USE WatchAssumption
<1>0. UNCHANGED <<file, edits>> /\ main \in MainState /\ file \in Nat \union {Missing}
  BY DEF Claim, Register, Activate, ReadInput, CreateSession, SessionReady, env, WatchInv
<1>1. ASSUME NEW how \in {"Handler", "Io", "Error", "Cancelled", "Ok"}, Exit(how), UNCHANGED native
      PROVE  WatchInv'
  BY <1>0, <1>1, MainFacts, GoFacts DEF Exit
<1>2. ASSUME NEW where \in {"register", "activate", "read"}, GoTo(where), UNCHANGED native
      PROVE  WatchInv'
  <2>1. /\ main' \in MainState /\ main'.nextRevision = main.nextRevision /\ main'.at = where
    BY <1>2, MainFacts DEF GoTo
  <2> QED
    BY <1>0, <1>2, <2>1, GoFacts DEF Place
<1>3. CASE Claim \/ Register \/ Activate
  BY <1>1, <1>2, <1>3 DEF Claim, Register, Activate
<1>4. CASE ReadInput
  <2>1. CASE file = Missing
    BY <1>1, <1>4, <2>1 DEF ReadInput
  <2>2. CASE file # Missing
    <3>1. main' = [main EXCEPT !.candidateSource = file, !.at = "create"] /\ UNCHANGED native
      BY <1>4, <2>2 DEF ReadInput
    <3>2. main' \in MainState /\ main'.nextRevision = main.nextRevision /\ main'.at = "create"
      BY <1>0, <2>2, <3>1 DEF MainState, SomeText
    <3> QED
      BY <1>0, <3>1, <3>2, GoFacts DEF Place
  <2> QED
    BY <2>1, <2>2
<1>5. CASE CreateSession
  <2>1. CASE file = Missing
    BY <1>1, <1>5, <2>1 DEF CreateSession
  <2>2. CASE file # Missing
    <3>1. native' = [NoSession EXCEPT !.source = file] /\ GoTo("format")
      BY <1>5, <2>2 DEF CreateSession
    <3>2. /\ native' \in SessionState /\ native'.revision = 0 /\ native'.source = file
          /\ native'.pending = NoText /\ native'.pendingSource = NoText /\ native'.accepted = NoText
          /\ native'.candidate = FALSE
      BY <1>0, <2>2, <3>1 DEF NoSession, SessionState, SomeText
    <3>3. main' \in MainState /\ main'.nextRevision = main.nextRevision /\ main'.at = "format"
      BY <3>1, MainFacts DEF GoTo
    <3>4. main.nextRevision \in Nat
      BY <1>0 DEF MainState
    <3>5. Place(main', native')
      BY <1>0, <2>2, <3>2, <3>3 DEF Place, Agrees
    <3> QED
      BY <1>0, <3>2, <3>3, <3>4, <3>5 DEF WatchInv
  <2> QED
    BY <2>1, <2>2
<1>6. CASE SessionReady
  <2>0. UNCHANGED native /\ main.at = "format"
    BY <1>6 DEF SessionReady, At
  <2>1. ASSUME main'.at = "round", main' \in MainState, main'.nextRevision = main.nextRevision PROVE WatchInv'
    <3>1. Place(main', native)
      BY <2>0, <2>1 DEF WatchInv, Place
    <3> QED
      BY <1>0, <2>0, <2>1, <3>1, GoFacts
  <2>2. CASE GoTo("round")
    BY <2>1, <2>2, MainFacts DEF GoTo
  <2>3. CASE main' = [main EXCEPT !.candidateSource = main.next, !.at = "round"]
    <3>1. main'.at = "round" /\ main' \in MainState /\ main'.nextRevision = main.nextRevision
      BY <1>0, <2>3 DEF MainState
    <3> QED
      BY <2>1, <3>1
  <2> QED
    BY <1>1, <1>6, <2>0, <2>2, <2>3 DEF SessionReady
<1> QED
  BY <1>3, <1>4, <1>5, <1>6

\* The end of a compilation.
LEMMA ReturnFacts ==
    ASSUME WatchInv, UNCHANGED <<file, edits>>, NEW result \in {"Complete", "Error", "Cancelled"}, Return(result),
           native' \in SessionState, native'.revision <= main.nextRevision,
           result = "Complete" => Patchable(native'),
           native'.pending # NoText => Agrees(native')
    PROVE  WatchInv'
<1>1. main \in MainState /\ main' = [main EXCEPT !.result = result, !.at = "join"]
  BY DEF WatchInv, Return
<1>2. main' \in MainState /\ main'.nextRevision = main.nextRevision /\ main'.at = "join" /\ main'.result = result
  BY <1>1 DEF MainState
<1>3. Place(main', native')
  BY <1>2 DEF Place
<1> QED
  BY <1>2, <1>3 DEF WatchInv

\* The sessions an attempt leaves behind.
LEMMA AttemptSessions ==
    ASSUME WatchInv, Agrees(native)
    PROVE  /\ Accepted \in SessionState /\ Accepted.revision <= main.nextRevision /\ Patchable(Accepted)
           /\ AcceptedUnpublished \in SessionState /\ AcceptedUnpublished.revision <= main.nextRevision
           /\ AcceptedUnpublished.pending = NoText
           /\ FailedAttempt \in SessionState /\ FailedAttempt.revision <= main.nextRevision
           /\ FailedAttempt.pending = NoText
           /\ Discarded \in SessionState /\ Discarded.revision <= main.nextRevision /\ Agrees(Discarded)
<1> USE WatchAssumption
<1>0. native \in SessionState /\ main.nextRevision \in Nat \ {0} /\ native.revision <= main.nextRevision
  BY DEF WatchInv, MainState
<1>1. CompiledText \in Nat /\ CompiledText = IF native.pendingSource # NoText THEN native.pendingSource ELSE native.source
  BY <1>0 DEF CompiledText, Agrees, SessionState, SomeText
<1> DEFINE revision == IF native.pending # NoText THEN main.nextRevision ELSE 1
<1>2. revision \in Nat /\ revision <= main.nextRevision
  BY <1>0
<1>3. /\ Accepted \in SessionState /\ Accepted.revision = revision /\ Accepted.accepted = CompiledText
      /\ Accepted.source = CompiledText /\ Accepted.pending = NoText /\ Accepted.pendingSource = NoText
  <2>1. Accepted = [native EXCEPT !.accepted = CompiledText, !.source = CompiledText, !.revision = revision,
                                   !.pending = NoText, !.pendingSource = NoText, !.candidate = FALSE]
    BY <1>0, <1>1 DEF Accepted, SessionState
  <2> HIDE DEF revision
  <2> QED
    BY <1>0, <1>1, <1>2, <2>1 DEF SessionState, SomeText
<1>4. /\ AcceptedUnpublished \in SessionState /\ AcceptedUnpublished.revision = revision
      /\ AcceptedUnpublished.pending = NoText
  <2> HIDE DEF revision
  <2> QED
    BY <1>0, <1>3 DEF AcceptedUnpublished, SessionState, SomeText
<1>5. FailedAttempt \in SessionState /\ FailedAttempt.revision = native.revision /\ FailedAttempt.pending = NoText
  BY <1>0 DEF FailedAttempt, SessionState, SomeText, Agrees
<1>6. /\ Discarded \in SessionState /\ Discarded.revision = native.revision /\ Discarded.source = native.source
      /\ Discarded.pending = native.pending /\ Discarded.pendingSource = native.pendingSource
      /\ Discarded.accepted = native.accepted
  BY <1>0 DEF Discarded, SessionState
<1>7. Patchable(Accepted) /\ Agrees(Discarded)
  BY <1>1, <1>3, <1>6 DEF Patchable, Agrees
<1> HIDE DEF revision
<1> QED
  BY <1>0, <1>2, <1>3, <1>4, <1>5, <1>6, <1>7

\* The compilation of one round.
LEMMA CompileFacts ==
    ASSUME WatchInv, StartRound \/ LoopTop \/ CompileAttempt \/ Resolve \/ DrainPrefetch
    PROVE  WatchInv'
<1> USE WatchAssumption
<1>0. /\ UNCHANGED <<file, edits>> /\ main \in MainState /\ native \in SessionState
      /\ Agrees(native) /\ native.revision <= main.nextRevision
  BY DEF StartRound, LoopTop, CompileAttempt, Resolve, DrainPrefetch, env, At, WatchInv, Place
<1>1. CASE StartRound
  <2>1. /\ main' = [main EXCEPT !.at = "loop", !.waits = 0, !.result = "none"] /\ UNCHANGED native
        /\ ~native.candidate
    BY <1>1 DEF StartRound, At, WatchInv, Place
  <2>2. main' \in MainState /\ main'.nextRevision = main.nextRevision /\ main'.at = "loop"
    BY <1>0, <2>1 DEF MainState
  <2>3. Place(main', native)
    BY <1>0, <2>1, <2>2 DEF Place
  <2> QED
    BY <1>0, <2>1, <2>2, <2>3, GoFacts
<1>2. ASSUME NEW result \in {"Error", "Cancelled"}, Return(result),
             native' \in {Discarded, native, FailedAttempt, AcceptedUnpublished}
      PROVE  WatchInv'
  <2>1. native' \in SessionState /\ native'.revision <= main.nextRevision
        /\ (native'.pending # NoText => Agrees(native'))
    BY <1>0, <1>2, AttemptSessions
  <2> QED
    BY <1>0, <1>2, <2>1, ReturnFacts
<1>3. ASSUME NEW where \in {"attempt", "drain", "loop"}, GoTo(where), UNCHANGED native,
             where # "attempt" => main.waits # 0
      PROVE  WatchInv'
  <2>1. main' \in MainState /\ main'.nextRevision = main.nextRevision /\ main'.at = where
        /\ main'.waits = main.waits
    BY <1>3, MainFacts DEF GoTo
  <2>2. Place(main', native)
    BY <1>0, <1>3, <2>1 DEF Place
  <2> QED
    BY <1>0, <1>3, <2>1, <2>2, GoFacts
<1>4. CASE LoopTop
  BY <1>2, <1>3, <1>4 DEF LoopTop
<1>5. CASE CompileAttempt
  <2>1. CASE native' = Accepted /\ Return("Complete")
    <3>1. native' \in SessionState /\ native'.revision <= main.nextRevision /\ Patchable(native')
      BY <1>0, <2>1, AttemptSessions
    <3> QED
      BY <1>0, <2>1, <3>1, ReturnFacts DEF Patchable
  <2>2. CASE /\ native' = [native EXCEPT !.candidate = TRUE]
             /\ main' = [main EXCEPT !.at = "resolve", !.waits = main.waits + 1]
    <3>1. /\ native' \in SessionState /\ native'.revision = native.revision
          /\ native'.source = native.source /\ native'.pending = native.pending
          /\ native'.pendingSource = native.pendingSource /\ native'.accepted = native.accepted
      BY <1>0, <2>2 DEF SessionState
    <3>2. main.waits + 1 \in Nat \ {0}
      BY <1>0 DEF MainState
    <3>3. main' \in MainState /\ main'.nextRevision = main.nextRevision /\ main'.at = "resolve"
          /\ main'.waits # 0
      BY <1>0, <2>2, <3>2 DEF MainState
    <3>4. Place(main', native')
      BY <1>0, <3>1, <3>3 DEF Place, Agrees
    <3> QED
      BY <1>0, <3>1, <3>3, <3>4 DEF WatchInv
  <2> QED
    BY <1>2, <1>5, <2>1, <2>2 DEF CompileAttempt
<1>6. CASE Resolve
  <2>1. main.waits # 0
    BY <1>6 DEF Resolve, At, WatchInv, Place
  <2> QED
    BY <1>2, <1>3, <1>6, <2>1 DEF Resolve
<1>7. CASE DrainPrefetch
  <2>1. main.waits # 0
    BY <1>7 DEF DrainPrefetch, At, WatchInv, Place
  <2> QED
    BY <1>2, <1>3, <1>7, <2>1 DEF DrainPrefetch
<1> QED
  BY <1>1, <1>4, <1>5, <1>6, <1>7

\* apply_source on a session whose copies agree and that has no patch pending.
LEMMA ApplyFacts ==
    ASSUME WatchInv, UNCHANGED <<file, edits>>, NEW s \in SessionState, Patchable(s),
           s.revision <= main.nextRevision, NEW text \in Nat, ApplySource(s, text)
    PROVE  WatchInv'
<1> USE WatchAssumption
<1>0. main \in MainState /\ main.nextRevision \in Nat \ {0} /\ s.revision \in Nat
  BY DEF WatchInv, MainState, SessionState
<1> DEFINE revision == main.nextRevision + 1
<1>1. ~Refused(s, revision) /\ revision \in Nat \ {0} /\ s.revision <= revision
  BY <1>0 DEF Refused, Patchable
<1>2. /\ native' = [s EXCEPT !.pending = text, !.pendingSource = text, !.candidate = FALSE]
      /\ main' = [main EXCEPT !.nextRevision = revision, !.candidateSource = text, !.at = "round"]
  BY <1>1 DEF ApplySource
<1> HIDE DEF revision
<1>3. /\ native' \in SessionState /\ native'.revision = s.revision /\ native'.source = s.source
      /\ native'.pending = text /\ native'.pendingSource = text /\ native'.accepted = s.accepted
      /\ native'.candidate = FALSE
  BY <1>2 DEF SessionState, SomeText
<1>4. main' \in MainState /\ main'.nextRevision = revision /\ main'.at = "round"
  BY <1>0, <1>1, <1>2 DEF MainState, SomeText
<1>5. Place(main', native')
  BY <1>3, <1>4 DEF Place, Agrees, Patchable
<1> QED
  BY <1>1, <1>3, <1>4, <1>5 DEF WatchInv

\* Between two rounds.
LEMMA RoundFacts ==
    ASSUME WatchInv, Join \/ WriteDvi \/ WaitForEdit \/ Supersede
    PROVE  WatchInv'
<1> USE WatchAssumption
<1>0. /\ UNCHANGED <<file, edits>> /\ main \in MainState /\ native \in SessionState
      /\ native.revision <= main.nextRevision /\ main.nextRevision \in Nat
  BY DEF Join, WriteDvi, WaitForEdit, Supersede, env, WatchInv, MainState
<1>1. ASSUME NEW how \in {"Io", "Error", "Cancelled", "Ok", "none", "Complete"}, Exit(how), UNCHANGED native
      PROVE  WatchInv'
  <2>1. main' = [main EXCEPT !.exit = how]
    BY <1>1 DEF Exit
  <2>2. main' \in MainState
    BY <1>0, <2>1 DEF MainState
  <2>3. /\ main'.at = main.at /\ main'.result = main.result /\ main'.next = main.next
        /\ main'.waits = main.waits /\ main'.nextRevision = main.nextRevision
    BY <1>0, <2>1 DEF MainState
  <2> QED
    BY <1>0, <1>1, <2>2, <2>3, GoFacts
<1>2. ASSUME NEW where \in {"write", "wait"}, GoTo(where), UNCHANGED native, Patchable(native)
      PROVE  WatchInv'
  <2>1. main' \in MainState /\ main'.nextRevision = main.nextRevision /\ main'.at = where
    BY <1>2, MainFacts DEF GoTo
  <2>2. Place(main', native)
    BY <1>2, <2>1 DEF Place
  <2> QED
    BY <1>0, <1>2, <2>1, <2>2, GoFacts
<1>3. CASE Join
  <2>0. main.at = "join" /\ UNCHANGED native
    BY <1>3 DEF Join, At
  <2>1. CASE monitor.found \in Text /\ main' = [main EXCEPT !.next = monitor.found, !.at = "superseded"]
    <3>1. monitor.found \in Nat
      BY <2>1 DEF Text
    <3>2. /\ main' \in MainState /\ main'.nextRevision = main.nextRevision /\ main'.at = "superseded"
          /\ main'.next \in Nat
      BY <1>0, <2>1, <3>1 DEF MainState, SomeText
    <3>3. Place(main', native)
      BY <2>0, <3>2 DEF WatchInv, Place
    <3> QED
      BY <1>0, <2>0, <3>2, <3>3, GoFacts
  <2>2. CASE main.result = "Complete" /\ GoTo("write")
    <3>1. Patchable(native)
      BY <2>0, <2>2 DEF WatchInv, Place
    <3> QED
      BY <1>2, <2>0, <2>2, <3>1
  <2>3. main.result \in {"none", "Complete", "Error", "Cancelled"}
    BY <1>0 DEF MainState
  <2> QED
    BY <1>1, <1>3, <2>0, <2>1, <2>2, <2>3 DEF Join
<1>4. CASE WriteDvi
  <2>1. Patchable(native) /\ UNCHANGED native
    BY <1>4 DEF WriteDvi, At, WatchInv, Place
  <2> QED
    BY <1>1, <1>2, <1>4, <2>1 DEF WriteDvi
<1>5. CASE WaitForEdit
  <2>1. Patchable(native)
    BY <1>5 DEF WaitForEdit, At, WatchInv, Place
  <2>2. CASE file \in Text /\ ApplySource(native, file)
    <3>1. file \in Nat
      BY <2>2 DEF Text
    <3> QED
      BY <1>0, <2>1, <2>2, <3>1, ApplyFacts
  <2> QED
    BY <1>1, <1>5, <2>2 DEF WaitForEdit
<1>6. CASE Supersede
  <2>0. main.at = "superseded" /\ main.next \in Nat
    BY <1>6 DEF Supersede, At, WatchInv, Place
  <2>1. CASE native.pending # NoText /\ ApplySource(Withdrawn, main.next)
    <3>1. Agrees(native)
      BY <2>0, <2>1 DEF WatchInv, Place
    <3>2. /\ Withdrawn \in SessionState /\ Withdrawn.revision = native.revision
          /\ Withdrawn.source = native.source /\ Withdrawn.pending = NoText
          /\ Withdrawn.pendingSource = NoText /\ Withdrawn.accepted = native.accepted
      BY <1>0 DEF Withdrawn, SessionState, SomeText
    <3>3. Patchable(Withdrawn)
      BY <2>1, <3>1, <3>2 DEF Patchable, Agrees
    <3> QED
      BY <1>0, <2>0, <2>1, <3>2, <3>3, ApplyFacts
  <2>2. CASE native' = NoSession /\ GoTo("create")
    <3>1. native' \in SessionState /\ native'.revision = 0
      BY <2>2 DEF NoSession, SessionState, SomeText
    <3>2. main' \in MainState /\ main'.nextRevision = main.nextRevision /\ main'.at = "create"
      BY <2>2, MainFacts DEF GoTo
    <3>3. Place(main', native')
      BY <3>2 DEF Place
    <3> QED
      BY <1>0, <3>1, <3>2, <3>3 DEF WatchInv
  <2> QED
    BY <1>6, <2>1, <2>2 DEF Supersede
<1> QED
  BY <1>3, <1>4, <1>5, <1>6

\* The invariant is inductive.
LEMMA StepWatchInv == WatchInv /\ [WatchNext]_watchVars => WatchInv'
  BY OtherFacts, LoopStartFacts, CompileFacts, RoundFacts DEF WatchNext, Main

\* Every patch of the loop is one the engine takes (PatchesApply).
THEOREM EveryPatchApplies == WatchSpec => []PatchesApply
<1>1. WatchInv => PatchesApply
  BY DEF WatchInv, MainState, Place, Patchable, Agrees, PatchesApply, At
<1> QED
  BY <1>1, InitWatchInv, StepWatchInv, PTL DEF WatchSpec

\* No round continues the engine run of another (RoundStartsFresh).
THEOREM RoundsAreFresh == WatchSpec => []RoundStartsFresh
<1>1. WatchInv => RoundStartsFresh
  BY DEF WatchInv, Place, RoundStartsFresh, At
<1> QED
  BY <1>1, InitWatchInv, StepWatchInv, PTL DEF WatchSpec
-----------------------------------------------------------------------------
MonitorState ==
    [at : {"none", "sleep", "read", "done"}, finished : BOOLEAN,
     found : Nat \union {Missing, NoText}]

\* A text that was read: it is not newer than the last edit e, and when it is the text
\* of the last edit the file f still holds it, because an edit saves its own text or an
\* earlier one.
Seen(x, f, e) == x \in Nat => x <= e /\ (x = e => f = e)

\* The text the loop compares the file with once the session is ready.
Coming(m) == IF m.next # NoText THEN m.next ELSE m.candidateSource

TextOf(s) == IF s.pending # NoText THEN s.pending ELSE s.source

\* What is compiled is at least as new as what the file is compared with: the session
\* reads the file after the loop did.
AtLeastAsNew(m, s, d, e) ==
    /\ m.at = "format" => s.pending = NoText /\ (Coming(m) = e => s.source = e)
    /\ m.at \in {"round", "loop", "attempt", "resolve", "drain"} =>
          (m.candidateSource = e => TextOf(s) = e)
    /\ m.at = "join" /\ m.result = "Complete" => (m.candidateSource = e => s.accepted = e)
    /\ m.at = "write" => (m.candidateSource = e => s.accepted = e)
    /\ m.at = "wait" => (m.candidateSource = e => d = e)

Newest ==
    /\ monitor \in MonitorState
    /\ edits <= MaxEdits
    /\ Seen(file, file, edits)
    /\ Seen(main.candidateSource, file, edits)
    /\ Seen(main.next, file, edits)
    /\ Seen(monitor.found, file, edits)
    /\ AtLeastAsNew(main, native, dvi, edits)

\* A step that leaves the file alone and reads no text but the file's.
LEMMA ReadsAreSeen ==
    ASSUME Newest, UNCHANGED <<file, edits>>, monitor' \in MonitorState,
           main'.candidateSource \in {main.candidateSource, main.next, file, NoText},
           main'.next \in {main.next, monitor.found},
           monitor'.found \in {monitor.found, file, NoText},
           AtLeastAsNew(main', native', dvi', edits)
    PROVE  Newest'
<1>1. Seen(NoText, file, edits)
  BY WatchAssumption DEF Seen
<1>2. /\ Seen(file, file, edits) /\ Seen(main.candidateSource, file, edits)
      /\ Seen(main.next, file, edits) /\ Seen(monitor.found, file, edits)
  BY DEF Newest
<1>3. /\ Seen(main'.candidateSource, file, edits) /\ Seen(main'.next, file, edits)
      /\ Seen(monitor'.found, file, edits)
  BY <1>1, <1>2
<1> QED
  BY <1>2, <1>3 DEF Newest

\* The same when the monitor is left alone.
LEMMA LoopReadsAreSeen ==
    ASSUME Newest, UNCHANGED <<file, edits, monitor>>,
           main'.candidateSource \in {main.candidateSource, main.next, file, NoText},
           main'.next \in {main.next, monitor.found},
           AtLeastAsNew(main', native', dvi', edits)
    PROVE  Newest'
<1>1. monitor' \in MonitorState
  BY DEF Newest
<1> QED
  BY <1>1, ReadsAreSeen

\* A step of the main thread that ends the process or changes nothing the relation
\* looks at.
LEMMA ExitsKeepNewest ==
    ASSUME WatchInv, Newest, NEW how, Exit(how), UNCHANGED <<file, edits, native, monitor, dvi>>
    PROVE  Newest'
<1>1. main \in MainState
  BY DEF WatchInv
<1>2. /\ main'.at = main.at /\ main'.candidateSource = main.candidateSource
      /\ main'.next = main.next /\ main'.result = main.result
  BY <1>1 DEF Exit, MainState
<1>3. AtLeastAsNew(main', native', dvi', edits)
  BY <1>2 DEF Newest, AtLeastAsNew, Coming
<1> QED
  BY <1>2, <1>3, LoopReadsAreSeen

\* The main thread moves with its texts.
LEMMA MovesKeepNewest ==
    ASSUME WatchInv, Newest, NEW where, GoTo(where), UNCHANGED <<file, edits, monitor>>,
           AtLeastAsNew(main', native', dvi', edits)
    PROVE  Newest'
<1>1. main \in MainState
  BY DEF WatchInv
<1>2. main'.candidateSource = main.candidateSource /\ main'.next = main.next
  BY <1>1 DEF GoTo, MainState
<1> QED
  BY <1>2, LoopReadsAreSeen

\* The installation, and the session, which reads the file after the loop did.
LEMMA StartKeepsNewest ==
    ASSUME WatchInv, Newest, Claim \/ Register \/ Activate \/ ReadInput \/ CreateSession \/ SessionReady
    PROVE  Newest'
<1> USE WatchAssumption
<1>0. /\ UNCHANGED <<file, edits, monitor, dvi>> /\ main \in MainState
      /\ file \in Nat \union {Missing} /\ edits \in Nat
  BY DEF Claim, Register, Activate, ReadInput, CreateSession, SessionReady, env, WatchInv
<1>1. CASE Claim \/ Register \/ Activate
  <2>1. \/ \E how : Exit(how)
        \/ \E where \in {"register", "activate", "read"} : GoTo(where)
    BY <1>1 DEF Claim, Register, Activate
  <2>2. UNCHANGED native
    BY <1>1 DEF Claim, Register, Activate
  <2>3. ASSUME NEW where \in {"register", "activate", "read"}, GoTo(where) PROVE Newest'
    <3>1. main'.at = where
      BY <1>0, <2>3 DEF GoTo, MainState
    <3>2. AtLeastAsNew(main', native', dvi', edits)
      BY <3>1 DEF AtLeastAsNew
    <3> QED
      BY <1>0, <2>3, <3>2, MovesKeepNewest
  <2> QED
    BY <1>0, <2>1, <2>2, <2>3, ExitsKeepNewest
<1>2. CASE ReadInput
  <2>1. CASE Exit("Io")
    BY <1>0, <1>2, <2>1, ExitsKeepNewest DEF ReadInput
  <2>2. CASE main' = [main EXCEPT !.candidateSource = file, !.at = "create"]
    <3>1. main'.at = "create" /\ main'.candidateSource = file /\ main'.next = main.next
      BY <1>0, <2>2 DEF MainState
    <3>2. AtLeastAsNew(main', native', dvi', edits)
      BY <3>1 DEF AtLeastAsNew
    <3> QED
      BY <1>0, <3>1, <3>2, LoopReadsAreSeen
  <2> QED
    BY <1>2, <2>1, <2>2 DEF ReadInput
<1>3. CASE CreateSession
  <2>1. CASE Exit("Error") /\ UNCHANGED native
    BY <1>0, <2>1, ExitsKeepNewest
  <2>2. CASE native' = [NoSession EXCEPT !.source = file] /\ GoTo("format")
    <3>1. native'.pending = NoText /\ native'.source = file
      BY <2>2 DEF NoSession
    <3>2. /\ main'.at = "format" /\ main'.next = main.next
          /\ main'.candidateSource = main.candidateSource
      BY <1>0, <2>2 DEF GoTo, MainState
    <3>3. Seen(Coming(main'), file, edits)
      BY <3>2 DEF Coming, Newest
    <3>4. Coming(main') = edits => native'.source = edits
      BY <1>0, <3>1, <3>3 DEF Seen
    <3>5. AtLeastAsNew(main', native', dvi', edits)
      BY <3>1, <3>2, <3>4 DEF AtLeastAsNew
    <3> QED
      BY <1>0, <2>2, <3>5, MovesKeepNewest
  <2> QED
    BY <1>3, <2>1, <2>2 DEF CreateSession
<1>4. CASE SessionReady
  <2>0. UNCHANGED native /\ main.at = "format"
    BY <1>4 DEF SessionReady, At
  <2>1. CASE \E how : Exit(how)
    BY <1>0, <2>0, <2>1, ExitsKeepNewest
  <2>2. CASE /\ main'.at = "round" /\ main'.next = main.next
             /\ main'.candidateSource = Coming(main)
    <3>1. TextOf(native) = native.source /\ (Coming(main) = edits => native.source = edits)
      BY <2>0 DEF Newest, AtLeastAsNew, TextOf
    <3>2. AtLeastAsNew(main', native', dvi', edits)
      BY <2>0, <2>2, <3>1 DEF AtLeastAsNew
    <3>3. main'.candidateSource \in {main.candidateSource, main.next, file, NoText}
      BY <2>2 DEF Coming
    <3> QED
      BY <1>0, <2>2, <3>2, <3>3, LoopReadsAreSeen
  <2>3. \/ \E how : Exit(how)
        \/ main.next = NoText /\ GoTo("round")
        \/ main.next # NoText /\ main' = [main EXCEPT !.candidateSource = main.next, !.at = "round"]
    BY <1>4 DEF SessionReady
  <2>4. ASSUME main.next = NoText, GoTo("round")
        PROVE  /\ main'.at = "round" /\ main'.next = main.next
               /\ main'.candidateSource = Coming(main)
    BY <1>0, <2>4 DEF GoTo, MainState, Coming
  <2>5. ASSUME main.next # NoText, main' = [main EXCEPT !.candidateSource = main.next, !.at = "round"]
        PROVE  /\ main'.at = "round" /\ main'.next = main.next
               /\ main'.candidateSource = Coming(main)
    BY <1>0, <2>5 DEF MainState, Coming
  <2> QED
    BY <2>1, <2>2, <2>3, <2>4, <2>5
<1> QED
  BY <1>1, <1>2, <1>3, <1>4

\* compile returns; only a completed round says something of its text.
LEMMA ReturnKeepsNewest ==
    ASSUME WatchInv, Newest, NEW result, Return(result), UNCHANGED <<file, edits, dvi>>,
           result = "Complete" => (main.candidateSource = edits => native'.accepted = edits)
    PROVE  Newest'
<1>1. main \in MainState
  BY DEF WatchInv
<1>2. /\ main'.at = "join" /\ main'.result = result /\ main'.next = main.next
      /\ main'.candidateSource = main.candidateSource
  BY <1>1 DEF Return, MainState
<1>3. monitor' \in MonitorState /\ monitor'.found = monitor.found
  BY Zenon DEF Return, Newest, MonitorState
<1>4. AtLeastAsNew(main', native', dvi', edits)
  BY <1>2 DEF AtLeastAsNew
<1> QED
  BY <1>2, <1>3, <1>4, ReadsAreSeen

\* A round compiles the pending patch or the source it started with.
LEMMA RoundKeepsNewest ==
    ASSUME WatchInv, Newest, StartRound \/ LoopTop \/ CompileAttempt \/ Resolve \/ DrainPrefetch
    PROVE  Newest'
<1>0. /\ UNCHANGED <<file, edits, dvi>> /\ main \in MainState /\ native \in SessionState
      /\ main.at \in {"round", "loop", "attempt", "resolve", "drain"}
  BY DEF StartRound, LoopTop, CompileAttempt, Resolve, DrainPrefetch, At, env, WatchInv
<1>1. main.candidateSource = edits => TextOf(native) = edits
  BY <1>0 DEF Newest, AtLeastAsNew
<1>2. ASSUME NEW result \in {"Cancelled", "Error"}, Return(result) PROVE Newest'
  BY <1>0, <1>2, ReturnKeepsNewest
<1>3. ASSUME NEW where \in {"loop", "attempt", "resolve", "drain"},
             main'.at = where, main'.next = main.next,
             main'.candidateSource = main.candidateSource,
             native'.pending = native.pending, native'.source = native.source,
             monitor' \in MonitorState, monitor'.found \in {monitor.found, NoText}
      PROVE  Newest'
  <2>1. TextOf(native') = TextOf(native)
    BY <1>3 DEF TextOf
  <2>2. AtLeastAsNew(main', native', dvi', edits)
    BY <1>1, <1>3, <2>1 DEF AtLeastAsNew
  <2> QED
    BY <1>0, <1>3, <2>2, ReadsAreSeen
<1>4. ASSUME NEW where \in {"loop", "attempt", "resolve", "drain"}, GoTo(where),
             UNCHANGED <<native, monitor>>
      PROVE  Newest'
  <2>1. /\ main'.at = where /\ main'.next = main.next
        /\ main'.candidateSource = main.candidateSource
    BY <1>0, <1>4 DEF GoTo, MainState
  <2>2. monitor' \in MonitorState
    BY <1>4 DEF Newest
  <2> QED
    BY <1>3, <1>4, <2>1, <2>2
<1>5. CASE StartRound
  <2>1. /\ main'.at = "loop" /\ main'.next = main.next
        /\ main'.candidateSource = main.candidateSource
    BY <1>0, <1>5 DEF StartRound, MainState
  <2>2. monitor' \in MonitorState /\ monitor'.found = NoText /\ UNCHANGED native
    BY <1>5 DEF StartRound, MonitorState
  <2> QED
    BY <1>3, <2>1, <2>2
<1>6. CASE LoopTop
  BY <1>2, <1>4, <1>6 DEF LoopTop
<1>7. CASE CompileAttempt
  <2>1. CASE native' = Accepted /\ Return("Complete")
    <3>1. native'.accepted = TextOf(native)
      BY <1>0, <2>1 DEF Accepted, CompiledText, TextOf, SessionState
    <3> QED
      BY <1>0, <1>1, <2>1, <3>1, ReturnKeepsNewest
  <2>2. CASE /\ native' = [native EXCEPT !.candidate = TRUE]
             /\ main' = [main EXCEPT !.at = "resolve", !.waits = @ + 1]
             /\ UNCHANGED monitor
    <3>1. /\ main'.at = "resolve" /\ main'.next = main.next
          /\ main'.candidateSource = main.candidateSource
      BY <1>0, <2>2 DEF MainState
    <3>2. native'.pending = native.pending /\ native'.source = native.source
      BY <1>0, <2>2 DEF SessionState
    <3>3. monitor' \in MonitorState
      BY <2>2 DEF Newest
    <3> QED
      BY <1>3, <2>2, <3>1, <3>2, <3>3
  <2> QED
    BY <1>2, <1>7, <2>1, <2>2 DEF CompileAttempt
<1>8. CASE Resolve
  BY <1>2, <1>4, <1>8 DEF Resolve
<1>9. CASE DrainPrefetch
  BY <1>2, <1>4, <1>9 DEF DrainPrefetch
<1> QED
  BY <1>5, <1>6, <1>7, <1>8, <1>9

\* The end of a round: the output is the accepted text.
LEMMA EndKeepsNewest ==
    ASSUME WatchInv, WatchInv', Newest, Join \/ WriteDvi \/ WaitForEdit \/ Supersede
    PROVE  Newest'
<1> USE WatchAssumption
<1>0. /\ UNCHANGED <<file, edits, monitor>> /\ main \in MainState /\ native \in SessionState
      /\ main' \in MainState
  BY DEF Join, WriteDvi, WaitForEdit, Supersede, env, WatchInv
<1>1. CASE Join
  <2>0. UNCHANGED <<native, dvi>> /\ main.at = "join"
    BY <1>1 DEF Join, At
  <2>1. ASSUME main' = [main EXCEPT !.next = monitor.found, !.at = "superseded"]
        PROVE  Newest'
    <3>1. /\ main'.at = "superseded" /\ main'.next = monitor.found
          /\ main'.candidateSource = main.candidateSource
      BY <1>0, <2>1 DEF MainState
    <3>2. AtLeastAsNew(main', native', dvi', edits)
      BY <3>1 DEF AtLeastAsNew
    <3> QED
      BY <1>0, <3>1, <3>2, LoopReadsAreSeen
  <2>2. ASSUME main.result = "Complete", GoTo("write") PROVE Newest'
    <3>1. main'.at = "write" /\ main'.candidateSource = main.candidateSource
      BY <1>0, <2>2 DEF GoTo, MainState
    <3>2. main.candidateSource = edits => native.accepted = edits
      BY <2>0, <2>2 DEF Newest, AtLeastAsNew
    <3>3. AtLeastAsNew(main', native', dvi', edits)
      BY <2>0, <3>1, <3>2 DEF AtLeastAsNew
    <3> QED
      BY <1>0, <2>2, <3>3, MovesKeepNewest
  <2>3. \/ \E how : Exit(how)
        \/ main' = [main EXCEPT !.next = monitor.found, !.at = "superseded"]
        \/ main.result = "Complete" /\ GoTo("write")
    BY <1>1 DEF Join
  <2> QED
    BY <1>0, <2>0, <2>1, <2>2, <2>3, ExitsKeepNewest
<1>2. CASE WriteDvi
  <2>0. UNCHANGED native /\ main.at = "write"
    BY <1>2 DEF WriteDvi, At
  <2>1. CASE Exit("Io") /\ UNCHANGED dvi
    BY <1>0, <2>0, <2>1, ExitsKeepNewest
  <2>2. CASE dvi' = native.accepted /\ GoTo("wait")
    <3>1. main'.at = "wait" /\ main'.candidateSource = main.candidateSource
      BY <1>0, <2>2 DEF GoTo, MainState
    <3>2. main.candidateSource = edits => native.accepted = edits
      BY <2>0 DEF Newest, AtLeastAsNew
    <3>3. AtLeastAsNew(main', native', dvi', edits)
      BY <2>2, <3>1, <3>2 DEF AtLeastAsNew
    <3> QED
      BY <1>0, <2>2, <3>3, MovesKeepNewest
  <2> QED
    BY <1>2, <2>1, <2>2 DEF WriteDvi
<1>3. main'.exit # "Refused"
  BY <1>0 DEF MainState
<1>4. ASSUME NEW s \in SessionState, NEW text \in {main.next, file}, text # NoText,
             ApplySource(s, text), UNCHANGED dvi
      PROVE  Newest'
  <2>1. ~Refused(s, main.nextRevision + 1)
    <3> SUFFICES ASSUME Refused(s, main.nextRevision + 1) PROVE FALSE
      OBVIOUS
    <3>1. main' = [main EXCEPT !.nextRevision = main.nextRevision + 1, !.exit = "Refused"]
      BY <1>4 DEF ApplySource
    <3> QED
      BY <1>0, <1>3, <3>1 DEF MainState
  <2>2. native'.pending = text
    BY <1>4, <2>1, Zenon DEF ApplySource, SessionState
  <2>3. main'.at = "round" /\ main'.candidateSource = text /\ main'.next = main.next
    BY <1>0, <1>4, <2>1, Zenon DEF ApplySource, MainState
  <2>4. AtLeastAsNew(main', native', dvi', edits)
    BY <1>4, <2>2, <2>3 DEF AtLeastAsNew, TextOf
  <2> QED
    BY <1>0, <2>3, <2>4, LoopReadsAreSeen
<1>5. CASE WaitForEdit
  <2>1. \/ (\E how : Exit(how)) /\ UNCHANGED native
        \/ file \in Text /\ ApplySource(native, file)
    BY <1>5 DEF WaitForEdit
  <2>2. UNCHANGED dvi
    BY <1>5 DEF WaitForEdit
  <2>3. file \in Text => file # NoText
    BY DEF Text
  <2> QED
    BY <1>0, <1>4, <2>1, <2>2, <2>3, ExitsKeepNewest
<1>6. CASE Supersede
  <2>1. CASE ApplySource(Withdrawn, main.next)
    <3>1. Withdrawn \in SessionState
      BY <1>0, Zenon DEF Withdrawn, SessionState, SomeText
    <3>2. main.next # NoText
      BY <1>6 DEF Supersede, At, WatchInv, Place
    <3> QED
      BY <1>4, <1>6, <2>1, <3>1, <3>2 DEF Supersede
  <2>2. CASE GoTo("create")
    <3>1. main'.at = "create"
      BY <1>0, <2>2 DEF GoTo, MainState
    <3>2. AtLeastAsNew(main', native', dvi', edits)
      BY <3>1 DEF AtLeastAsNew
    <3> QED
      BY <1>0, <2>2, <3>2, MovesKeepNewest
  <2> QED
    BY <1>6, <2>1, <2>2 DEF Supersede
<1> QED
  BY <1>1, <1>2, <1>5, <1>6

\* The other threads read only the file; an edit outdates every text read before.
LEMMA OthersKeepNewest ==
    ASSUME WatchInv, Newest, Monitor \/ Dispatcher \/ Signal \/ Edit \/ UNCHANGED watchVars
    PROVE  Newest'
<1> USE WatchAssumption
<1>0. UNCHANGED <<main, native, dvi>> /\ main \in MainState
  BY DEF Monitor, Poll, PollRead, Dispatcher, Dispatch, Handler, Signal, Edit, watchVars, WatchInv
<1>1. AtLeastAsNew(main', native', dvi', edits)
  BY <1>0 DEF Newest
<1>2. CASE Edit
  <2>1. /\ edits \in Nat /\ edits' = edits + 1 /\ edits' <= MaxEdits /\ UNCHANGED monitor
        /\ file' \in 0..edits' \union {Missing}
    BY <1>2 DEF Edit, WatchInv
  <2>2. ASSUME NEW x, Seen(x, file, edits)
        PROVE  Seen(x, file', edits') /\ x # edits'
    BY <2>1, <2>2 DEF Seen
  <2>3. Seen(file', file', edits')
    BY <2>1 DEF Seen
  <2>4. /\ Seen(main.candidateSource, file, edits) /\ Seen(main.next, file, edits)
        /\ Seen(monitor.found, file, edits)
    BY DEF Newest
  <2>5. /\ Seen(main.candidateSource, file', edits') /\ Seen(main.next, file', edits')
        /\ Seen(monitor.found, file', edits')
        /\ main.candidateSource # edits' /\ main.next # edits'
    BY <2>2, <2>4
  <2>6. AtLeastAsNew(main, native, dvi, edits')
    BY <2>5 DEF Newest, AtLeastAsNew, Coming
  <2> QED
    BY <1>0, <2>1, <2>3, <2>5, <2>6 DEF Newest
<1>3. CASE PollRead
  <2>0. monitor \in MonitorState /\ file \in Nat \union {Missing}
    BY DEF Newest, WatchInv
  <2>1. UNCHANGED <<file, edits>>
    BY <1>3 DEF PollRead, env
  <2>2. \/ monitor' = [monitor EXCEPT !.found = file, !.at = "done"]
        \/ monitor' = [monitor EXCEPT !.at = "sleep"]
    BY <1>3 DEF PollRead
  <2>3. monitor' \in MonitorState /\ monitor'.found \in {monitor.found, file, NoText}
    BY <2>0, <2>2, Zenon DEF MonitorState
  <2> QED
    BY <1>0, <1>1, <2>1, <2>3, ReadsAreSeen
<1>4. CASE Poll
  <2>0. monitor \in MonitorState
    BY DEF Newest
  <2>1. UNCHANGED <<file, edits>>
    BY <1>4 DEF Poll, env
  <2>2. UNCHANGED monitor \/ \E where \in {"done", "read"} : monitor' = [monitor EXCEPT !.at = where]
    BY <1>4 DEF Poll
  <2>3. monitor' \in MonitorState /\ monitor'.found = monitor.found
    BY <2>0, <2>2 DEF MonitorState
  <2> QED
    BY <1>0, <1>1, <2>1, <2>3, ReadsAreSeen
<1>5. CASE Dispatcher \/ Signal \/ UNCHANGED watchVars
  <2>1. UNCHANGED <<monitor, file, edits>>
    BY <1>5 DEF Dispatcher, Dispatch, Handler, Signal, watchVars, env
  <2> QED
    BY <1>0, <1>1, <2>1, LoopReadsAreSeen
<1> QED
  BY <1>2, <1>3, <1>4, <1>5 DEF Monitor

\* The relation holds throughout.
LEMMA AlwaysNewest == WatchSpec => []Newest
<1>1. ASSUME WatchInit PROVE Newest
  <2>1. /\ main.at = "claim" /\ main.candidateSource = NoText /\ main.next = NoText
        /\ monitor.found = NoText /\ monitor \in MonitorState /\ file = 0 /\ edits = 0
    BY <1>1 DEF WatchInit, MonitorState
  <2>2. Seen(NoText, file, edits) /\ Seen(file, file, edits) /\ edits <= MaxEdits
    BY <2>1, WatchAssumption DEF Seen
  <2>3. AtLeastAsNew(main, native, dvi, edits)
    BY <2>1 DEF AtLeastAsNew
  <2> QED
    BY <2>1, <2>2, <2>3 DEF Newest
<1>2. WatchInv /\ WatchInv' /\ Newest /\ [WatchNext]_watchVars => Newest'
  BY StartKeepsNewest, RoundKeepsNewest, EndKeepsNewest, OthersKeepNewest DEF WatchNext, Main
<1> QED
  BY <1>1, <1>2, InitWatchInv, StepWatchInv, PTL DEF WatchSpec

\* No edit is lost: while the loop waits, an output that is not the compilation of the
\* file, unless the file went back to an earlier text, differs from the text the file
\* is compared with, so that the next poll starts a round.
THEOREM EditsAreNoticed == WatchSpec => []StaleOutputIsNoticed
<1>1. WatchInv /\ Newest => StaleOutputIsNoticed
  <2> SUFFICES ASSUME WatchInv, Newest, main.at = "wait", dvi # file, ~WentBack,
                      main.candidateSource = file
               PROVE  FALSE
    BY DEF StaleOutputIsNoticed, At
  <2>1. main.candidateSource # Missing /\ file \in Nat \union {Missing} /\ edits \in Nat
    BY WatchAssumption DEF WatchInv, MainState, SomeText
  <2>2. file \in Nat /\ file <= edits /\ edits <= MaxEdits
    BY <2>1 DEF Newest, Seen
  <2>3. file = edits
    BY <2>1, <2>2, WatchAssumption DEF WentBack, Text
  <2> QED
    BY <2>3 DEF Newest, AtLeastAsNew
<1> QED
  BY <1>1, AlwaysNewest, InitWatchInv, StepWatchInv, PTL DEF WatchSpec
=============================================================================
