-------------------------- MODULE LatexProjectProofs --------------------------
(***************************************************************************)
(* Proofs about LatexProject, for every limit, backend set and content.    *)
(***************************************************************************)
EXTENDS LatexProject, TLAPS

Observations == Seq((Backend \union {"tex", "detection"}) \X Nat)
Key == (Backend \union {None}) \X Generation

CandidateState ==
    [revision : Nat, generated : Generation, start : Generation, pass : Nat \ {0}, seen : SUBSET Key,
     tex : {"none", "waiting", "done"}, texAwaiting : BOOLEAN, suspended : BOOLEAN,
     texObserved : BOOLEAN, detectionObserved : BOOLEAN, observations : Observations]

AcceptedState ==
    [revision : Nat, generated : Generation, backend : Backend \union {None}, passes : Nat \ {0},
     observations : Observations, start : Generation, suspended : BOOLEAN]

TypeOK ==
    /\ at \in {"idle", "tex", "bibliography", "compare"}
    /\ accepted \in AcceptedState \union {None}
    /\ pending \in Nat \union {None}
    /\ candidate \in CandidateState \union {None}
    /\ backend \in Backend \union {None}
    /\ published \in SUBSET Path
    /\ at # "idle" => candidate \in CandidateState

\* The candidate is for what the next attempt compiles, and one that runs is there.
Current ==
    /\ at # "idle" \/ candidate # None =>
         /\ pending = None => accepted = None
         /\ candidate.revision = IF pending = None THEN 1 ELSE pending

\* Until a bibliography wait interrupts it, a pass is compared with the generation it
\* was started on: between attempts and before TeX has run, what the candidate holds,
\* and after that, the key the pass is compared with.
Compared ==
    /\ (candidate # None /\ at = "idle") \/ at = "tex" =>
         candidate.suspended \/ candidate.generated = candidate.start
    /\ at # "idle" /\ ~candidate.suspended => before[2] = candidate.start

IInv == TypeOK /\ Current /\ Compared /\ FixedPointUnlessSuspended

\* Nothing is accepted or being compiled.
LEMMA InitIInv == Init => IInv
  BY DEF Init, IInv, TypeOK, Current, Compared, FixedPointUnlessSuspended

\* The generation a new candidate starts on.
LEMMA StartFacts ==
    ASSUME TypeOK
    PROVE  Without(AcceptedGenerated, published) \in Generation
<1>1. AcceptedGenerated \in Generation
  BY DEF TypeOK, AcceptedState, AcceptedGenerated, EmptyGeneration, Generation
<1> QED
  BY <1>1 DEF Without, Generation

\* The new candidate.
LEMMA NewCandidateFacts ==
    ASSUME TypeOK
    PROVE  /\ NewCandidate \in CandidateState
           /\ NewCandidate.revision = IF pending = None THEN 1 ELSE pending
           /\ NewCandidate.generated = Without(AcceptedGenerated, published)
           /\ NewCandidate.start = Without(AcceptedGenerated, published)
<1> DEFINE g == Without(AcceptedGenerated, published)
<1>1. g \in Generation
  BY StartFacts
<1> HIDE DEF g
<1>2. {<<backend, g>>} \in SUBSET Key
  BY <1>1 DEF TypeOK, Key
<1>3. <<>> \in Observations
  BY DEF Observations
<1>4. NewCandidate = [revision |-> IF pending # None THEN pending ELSE 1,
         generated |-> g, start |-> g,
         pass |-> 1, seen |-> {<<backend, g>>},
         tex |-> "none", texAwaiting |-> FALSE, suspended |-> FALSE,
         texObserved |-> FALSE, detectionObserved |-> FALSE, observations |-> <<>>]
  BY DEF NewCandidate, g
<1>5. (IF pending # None THEN pending ELSE 1) \in Nat
  BY DEF TypeOK
<1> QED
  BY <1>1, <1>2, <1>3, <1>4, <1>5 DEF CandidateState, g

\* Candidate d is for the same revision and pass as c, and started on the same generation.
Along(c, d) == d \in CandidateState /\ d.revision = c.revision /\ d.start = c.start /\ d.pass = c.pass

\* Recording observations changes nothing else that counts here.
LEMMA ObservedFacts ==
    ASSUME NEW c \in CandidateState, NEW owner \in Backend \union {"tex", "detection"}
    PROVE  /\ Along(c, Observed(c, owner))
           /\ Observed(c, owner).generated = c.generated /\ Observed(c, owner).suspended = c.suspended
           /\ Along(c, TexObservations(c))
           /\ TexObservations(c).generated = c.generated /\ TexObservations(c).suspended = c.suspended
           /\ Along(c, DetectionObservations(c))
           /\ DetectionObservations(c).generated = c.generated
           /\ DetectionObservations(c).suspended = c.suspended
<1>1. ASSUME NEW o \in Backend \union {"tex", "detection"}
      PROVE  /\ Along(c, Observed(c, o))
             /\ Observed(c, o).generated = c.generated /\ Observed(c, o).suspended = c.suspended
  <2>1. c.observations \in Observations /\ c.pass \in Nat
    BY DEF CandidateState
  <2>2. Append(c.observations, <<o, c.pass>>) \in Observations
    BY <2>1 DEF Observations
  <2>3. Observed(c, o) = [c EXCEPT !.observations = Append(c.observations, <<o, c.pass>>)]
    BY DEF Observed
  <2> QED
    BY <2>2, <2>3 DEF CandidateState, Along
<1>2. /\ Along(c, TexObservations(c))
      /\ TexObservations(c).generated = c.generated /\ TexObservations(c).suspended = c.suspended
  <2> DEFINE d == Observed(c, "tex")
  <2>1. Along(c, d) /\ d.generated = c.generated /\ d.suspended = c.suspended
    BY <1>1
  <2>2. TexObservations(c) \in {c, [d EXCEPT !.texObserved = TRUE]}
    BY DEF TexObservations
  <2> HIDE DEF d
  <2> QED
    BY <2>1, <2>2 DEF Along, CandidateState
<1>3. /\ Along(c, DetectionObservations(c))
      /\ DetectionObservations(c).generated = c.generated
      /\ DetectionObservations(c).suspended = c.suspended
  <2> DEFINE d == Observed(c, "detection")
  <2>1. Along(c, d) /\ d.generated = c.generated /\ d.suspended = c.suspended
    BY <1>1
  <2>2. DetectionObservations(c) \in {c, [d EXCEPT !.detectionObserved = TRUE]}
    BY DEF DetectionObservations
  <2> HIDE DEF d
  <2> QED
    BY <2>1, <2>2 DEF Along, CandidateState
<1> QED
  BY <1>1, <1>2, <1>3

\* Whatever drops the candidate between two attempts, a rejection included.
LEMMA DropFacts ==
    ASSUME IInv, candidate' = None, at' = "idle", UNCHANGED <<accepted, published>>,
           pending' \in Nat \union {None}, backend' \in Backend \union {None}
    PROVE  IInv'
  BY DEF IInv, TypeOK, Current, Compared, FixedPointUnlessSuspended

\* A running attempt goes on, or suspends, with a candidate for the same revision.
LEMMA AlongFacts ==
    ASSUME IInv, at # "idle", at' \in {"idle", "bibliography", "compare"},
           Along(candidate, candidate'),
           UNCHANGED <<accepted, pending>>, at' # "idle" => before' = before,
           backend' \in Backend \union {None},
           published' \in SUBSET Path,
           ~candidate'.suspended => ~candidate.suspended,
           at' = "idle" /\ ~candidate'.suspended => candidate'.generated = candidate'.start
    PROVE  IInv'
<1>1. candidate \in CandidateState
  BY DEF IInv, TypeOK
<1>2. TypeOK'
  BY DEF IInv, TypeOK, Along
<1>3. Current'
  BY DEF IInv, Current, Along
<1>4. Compared'
  BY DEF IInv, Compared, Along
<1>5. FixedPointUnlessSuspended'
  BY DEF IInv, FixedPointUnlessSuspended
<1> QED
  BY <1>2, <1>3, <1>4, <1>5 DEF IInv

\* A step that leaves everything the invariant speaks of alone.
LEMMA QuietFacts ==
    ASSUME IInv, UNCHANGED <<at, accepted, pending, candidate, before, backend, published>>
    PROVE  IInv'
  BY DEF IInv, TypeOK, Current, Compared, FixedPointUnlessSuspended

\* The operations of the host between two attempts.
LEMMA HostFacts ==
    ASSUME IInv, Host
    PROVE  IInv'
<1>1. CASE SetBibliography \/ CancelPendingPatch
  <2>1. /\ candidate' = None /\ at' = "idle" /\ UNCHANGED <<accepted, published>>
        /\ pending' \in Nat \union {None} /\ backend' \in Backend \union {None}
    BY <1>1 DEF SetBibliography, CancelPendingPatch, Idle, IInv, TypeOK
  <2> QED
    BY <2>1, DropFacts
<1>2. CASE ApplyPatch
  <2>1. accepted.revision \in Nat
    BY <1>2 DEF ApplyPatch, IInv, TypeOK, AcceptedState
  <2>2. /\ candidate' = None /\ at' = "idle" /\ UNCHANGED <<accepted, published>>
        /\ pending' \in Nat \union {None} /\ backend' \in Backend \union {None}
    BY <1>2, <2>1 DEF ApplyPatch, Idle, IInv, TypeOK
  <2> QED
    BY <2>2, DropFacts
<1>3. ASSUME NEW answer \in BOOLEAN, ProvideResources(answer) PROVE IInv'
  <2>1. at = "idle" /\ UNCHANGED <<at, accepted, pending, before, backend, published>>
    BY <1>3 DEF ProvideResources, Idle
  <2>2. CASE candidate = None
    BY <1>3, <2>1, <2>2, QuietFacts DEF ProvideResources
  <2>3. CASE candidate # None
    <3>1. candidate \in CandidateState /\ candidate' = [candidate EXCEPT !.texAwaiting = FALSE]
      BY <1>3, <2>3 DEF ProvideResources, IInv, TypeOK
    <3>2. /\ Along(candidate, candidate') /\ candidate'.generated = candidate.generated
          /\ candidate'.suspended = candidate.suspended
      BY <3>1 DEF Along, CandidateState
    <3>3. IInv'
      BY <2>1, <2>3, <3>2 DEF IInv, TypeOK, Current, Compared, FixedPointUnlessSuspended, Along
    <3> QED
      BY <3>3
  <2> QED
    BY <2>2, <2>3
<1>4. CASE AuthorizePrefetchFiles
  BY <1>4, QuietFacts DEF AuthorizePrefetchFiles
<1> QED
  BY <1>1, <1>2, <1>3, <1>4 DEF Host

\* The start of an attempt, on a new or a retained candidate.
LEMMA AttemptFacts ==
    ASSUME IInv, CompileAttempt
    PROVE  IInv'
<1>1. CASE ReturnAccepted
  BY <1>1, QuietFacts DEF ReturnAccepted
<1>2. CASE RefuseAttempt
  <2>1. backend' \in Backend \union {None} /\ pending' \in Nat \union {None}
    BY <1>2 DEF RefuseAttempt, Reject, IInv, TypeOK
  <2> QED
    BY <1>2, <2>1, DropFacts DEF RefuseAttempt, Reject
<1>3. CASE StartAttempt
  <2>1. /\ at = "idle" /\ at' = "tex" /\ (pending = None => accepted = None)
        /\ candidate' = IF candidate = None THEN NewCandidate ELSE candidate
        /\ before' = <<backend, candidate'.generated>>
        /\ UNCHANGED <<accepted, pending, backend, published>>
    BY <1>3 DEF StartAttempt, Idle
  <2>2. /\ candidate' \in CandidateState
        /\ candidate'.revision = IF pending = None THEN 1 ELSE pending
        /\ ~candidate'.suspended => candidate'.generated = candidate'.start
    <3>1. CASE candidate = None
      BY <2>1, <3>1, NewCandidateFacts DEF IInv
    <3>2. CASE candidate # None
      BY <2>1, <3>2 DEF IInv, TypeOK, Current, Compared
    <3> QED
      BY <3>1, <3>2
  <2>3. before'[2] = candidate'.generated
    BY <2>1
  <2>4. IInv'
    BY <2>1, <2>2, <2>3 DEF IInv, TypeOK, Current, Compared, FixedPointUnlessSuspended
  <2> QED
    BY <2>4
<1> QED
  BY <1>1, <1>2, <1>3 DEF CompileAttempt

\* A TeX pass.
LEMMA TexFacts ==
    ASSUME IInv, TexPass
    PROVE  IInv'
<1>0. /\ at = "tex" /\ candidate \in CandidateState /\ UNCHANGED backend
      /\ backend \in Backend \union {None} /\ published \in SUBSET Path
      /\ candidate.generated \in Generation
  BY DEF TexPass, IInv, TypeOK, CandidateState
<1>1. CASE Suspend([candidate EXCEPT !.tex = "waiting", !.texAwaiting = TRUE])
  <2>1. candidate' = [candidate EXCEPT !.tex = "waiting", !.texAwaiting = TRUE]
        /\ at' = "idle" /\ UNCHANGED <<accepted, pending, published>>
    BY <1>1 DEF Suspend
  <2>2. /\ Along(candidate, candidate') /\ candidate'.generated = candidate.generated
        /\ candidate'.suspended = candidate.suspended
    BY <1>0, <2>1 DEF Along, CandidateState
  <2>3. ~candidate.suspended => candidate.generated = candidate.start
    BY <1>0 DEF IInv, TypeOK, Compared
  <2> QED
    BY <1>0, <2>1, <2>2, <2>3, AlongFacts DEF Along
<1>2. CASE Reject("Compile")
  BY <1>0, <1>2, DropFacts DEF Reject
<1>3. ASSUME NEW files \in Content,
             candidate' = TexObservations([candidate EXCEPT !.tex = "done", !.generated.tex = files]),
             at' = IF enabled THEN "bibliography" ELSE "compare",
             UNCHANGED <<accepted, pending, before, published>>
      PROVE  IInv'
  <2> DEFINE c == [candidate EXCEPT !.tex = "done", !.generated.tex = files]
             g == [candidate.generated EXCEPT !.tex = files]
  <2>1. g \in Generation /\ g.bib = candidate.generated.bib
    BY <1>0 DEF Generation
  <2>2. /\ Along(candidate, c) /\ c.generated = g /\ c.suspended = candidate.suspended
    BY <1>0, <2>1 DEF Along, CandidateState
  <2> HIDE DEF c, g
  <2>3. c \in CandidateState /\ candidate' = TexObservations(c)
    BY <1>3, <2>2 DEF Along, c
  <2>4. /\ Along(c, candidate') /\ candidate'.generated = g /\ candidate'.suspended = candidate.suspended
    BY <2>2, <2>3, ObservedFacts
  <2>5. Along(candidate, candidate')
    BY <2>2, <2>4 DEF Along
  <2> QED
    BY <1>0, <1>3, <2>1, <2>4, <2>5, AlongFacts
<1> QED
  BY <1>1, <1>2, <1>3 DEF TexPass

\* The bibliography phase.
LEMMA BibliographyFacts ==
    ASSUME IInv, NoBibliography \/ BibliographyWaits \/ BibliographyFails \/ BibliographyFinishes
    PROVE  IInv'
<1>0. /\ at = "bibliography" /\ candidate \in CandidateState
      /\ backend \in Backend \union {None} /\ published \in SUBSET Path
      /\ candidate.generated \in Generation
  BY DEF NoBibliography, BibliographyWaits, BibliographyFails, BibliographyFinishes, IInv, TypeOK, CandidateState
<1> DEFINE d == DetectionObservations(candidate)
<1>1. /\ Along(candidate, d) /\ d.generated = candidate.generated /\ d.suspended = candidate.suspended
      /\ d \in CandidateState
  BY <1>0, ObservedFacts DEF Along
<1>2. CASE NoBibliography
  <2>1. candidate' = d /\ backend' = None /\ at' = "compare" /\ UNCHANGED <<accepted, pending, before, published>>
    BY <1>2 DEF NoBibliography
  <2> HIDE DEF d
  <2> QED
    BY <1>0, <1>1, <2>1, AlongFacts
<1>3. CASE BibliographyWaits
  <2>1. /\ candidate' = [d EXCEPT !.texAwaiting = FALSE, !.suspended = TRUE] /\ at' = "idle"
        /\ backend' \in Backend \union {None} /\ UNCHANGED <<accepted, pending, published>>
    BY <1>0, <1>3 DEF BibliographyWaits, Suspend
  <2> HIDE DEF d
  <2>2. Along(candidate, candidate') /\ candidate'.generated = candidate.generated /\ candidate'.suspended
    BY <1>1, <2>1 DEF Along, CandidateState
  <2> QED
    BY <1>0, <2>1, <2>2, AlongFacts
<1>4. CASE BibliographyFails
  <2>1. backend' \in Backend \union {None} /\ Reject("Bibliography")
    BY <1>0, <1>4 DEF BibliographyFails
  <2> QED
    BY <2>1, DropFacts DEF Reject
<1>5. CASE BibliographyFinishes
  <2>1. PICK b \in Backend, content \in Content :
          /\ backend' = b /\ published' = Outputs[b]
          /\ candidate' =
                [Observed(d, b) EXCEPT
                    !.generated.bib = [p \in Path |-> IF p \in Outputs[b]
                                                        THEN [by |-> b, content |-> content]
                                                        ELSE candidate.generated.bib[p]]]
    BY <1>5 DEF BibliographyFinishes
  <2>2. at' = "compare" /\ UNCHANGED <<accepted, pending, before>>
    BY <1>5 DEF BibliographyFinishes
  <2> DEFINE o == Observed(d, b)
             bib == [p \in Path |-> IF p \in Outputs[b] THEN [by |-> b, content |-> content]
                                                        ELSE candidate.generated.bib[p]]
             g == [candidate.generated EXCEPT !.bib = bib]
  <2>3. /\ Along(d, o) /\ o.generated = candidate.generated /\ o.suspended = candidate.suspended
        /\ o \in CandidateState
    BY <1>1, ObservedFacts DEF Along
  <2>4. bib \in [Path -> Artifact \union {None}]
    BY <1>0 DEF Generation, Artifact
  <2>6. candidate' = [o EXCEPT !.generated.bib = bib]
    BY <2>1
  <2> HIDE DEF o, bib, d
  <2>7. g \in Generation /\ g.bib = bib
    BY <1>0, <2>4 DEF Generation
  <2>8. candidate' = [o EXCEPT !.generated = g]
    BY <2>3, <2>6 DEF CandidateState
  <2> HIDE DEF g
  <2>9. Along(candidate, candidate') /\ candidate'.generated = g /\ candidate'.suspended = candidate.suspended
    BY <1>1, <2>3, <2>7, <2>8 DEF Along, CandidateState
  <2>10. Outputs[b] \in SUBSET Path
    BY DEF Path
  <2> QED
    BY <1>0, <2>1, <2>2, <2>9, <2>10, AlongFacts
<1> QED
  BY <1>2, <1>3, <1>4, <1>5

\* The comparison: what it accepts in an uninterrupted pass is a fixed point.
LEMMA CompareFacts ==
    ASSUME IInv, Compare
    PROVE  IInv'
<1>0. /\ at = "compare" /\ candidate \in CandidateState
      /\ backend \in Backend \union {None} /\ published \in SUBSET Path
      /\ candidate.generated \in Generation
  BY DEF Compare, IInv, TypeOK, CandidateState
<1>1. ASSUME NEW error, Reject(error), UNCHANGED backend PROVE IInv'
  BY <1>0, <1>1, DropFacts DEF Reject
<1>2. CASE After = before /\ AcceptCandidate
  <2>1. /\ accepted' = [revision |-> candidate.revision, generated |-> candidate.generated,
                        backend |-> backend, passes |-> candidate.pass,
                        observations |-> candidate.observations,
                        start |-> candidate.start, suspended |-> candidate.suspended]
        /\ pending' = None /\ candidate' = None /\ at' = "idle" /\ UNCHANGED <<backend, published>>
    BY <1>2 DEF AcceptCandidate
  <2>2. accepted' \in AcceptedState
    BY <1>0, <2>1 DEF CandidateState, AcceptedState
  <2>3. ~candidate.suspended => candidate.start = candidate.generated
    <3>1. before[2] = candidate.generated
      BY <1>2 DEF After
    <3> QED
      BY <1>0, <3>1 DEF IInv, Compared
  <2>4. IInv'
    BY <2>1, <2>2, <2>3 DEF IInv, TypeOK, Current, Compared, FixedPointUnlessSuspended
  <2> QED
    BY <2>4
<1>3. CASE NextPass
  <2> DEFINE seen == candidate.seen \union {After}
  <2>1. seen \in SUBSET Key /\ candidate.pass + 1 \in Nat \ {0, 1}
    BY <1>0 DEF CandidateState, After, Key
  <2>2. candidate' = [candidate EXCEPT !.seen = seen, !.pass = candidate.pass + 1,
                                      !.start = candidate.generated, !.tex = "none",
                                      !.suspended = FALSE,
                                      !.texObserved = FALSE, !.detectionObserved = FALSE]
    BY <1>3 DEF NextPass
  <2>3. before' = After /\ at' = "tex" /\ UNCHANGED <<accepted, pending, backend, published>>
    BY <1>3 DEF NextPass
  <2> HIDE DEF seen
  <2>4. /\ candidate' \in CandidateState /\ candidate'.revision = candidate.revision
        /\ candidate'.generated = candidate.generated /\ candidate'.start = candidate.generated
        /\ candidate'.pass = candidate.pass + 1
    BY <1>0, <2>1, <2>2 DEF CandidateState
  <2>5. before'[2] = candidate.generated
    BY <2>3 DEF After
  <2>6. IInv'
    BY <1>0, <2>3, <2>4, <2>5 DEF IInv, TypeOK, Current, Compared, FixedPointUnlessSuspended
  <2> QED
    BY <2>6
<1> QED
  BY <1>1, <1>2, <1>3 DEF Compare, ObserveChanged

\* The invariant is inductive.
LEMMA StepIInv == IInv /\ [Next]_vars => IInv'
<1> SUFFICES ASSUME IInv, [Next]_vars PROVE IInv'
  OBVIOUS
<1>1. CASE UNCHANGED vars
  BY <1>1, QuietFacts DEF vars
<1> QED
  BY <1>1, HostFacts, AttemptFacts, TexFacts, BibliographyFacts, CompareFacts DEF Next, Run

\* No operation leaves a candidate of another revision behind (CandidateIsCurrent).
THEOREM CandidateFollowsRevision == Spec => []CandidateIsCurrent
<1>1. IInv => CandidateIsCurrent
  BY DEF IInv, Current, CandidateIsCurrent
<1> QED
  BY <1>1, InitIInv, StepIInv, PTL DEF Spec

\* What is accepted without a bibliography wait is a fixed point of the pass
\* (FixedPointUnlessSuspended).
THEOREM AcceptedIsFixedPoint == Spec => []FixedPointUnlessSuspended
<1>1. IInv => FixedPointUnlessSuspended
  BY DEF IInv
<1> QED
  BY <1>1, InitIInv, StepIInv, PTL DEF Spec

-----------------------------------------------------------------------------
\* Observations s record each of the first n passes of an owner once, and no other.
Kept(s, owner, n) ==
    /\ \A pass \in 1..n : \E i \in DOMAIN s :
          s[i] = <<owner, pass>> /\ \A j \in DOMAIN s : s[j] = <<owner, pass>> => j = i
    /\ \A pass \in Nat : pass > n => \A j \in DOMAIN s : s[j] # <<owner, pass>>

\* The passes of candidate c an owner has observed.
Count(c, observed) == IF observed THEN c.pass ELSE c.pass - 1

Ledger(c) ==
    /\ Kept(c.observations, "tex", Count(c, c.texObserved))
    /\ enabled => Kept(c.observations, "detection", Count(c, c.detectionObserved))

\* The flags say what the ledger holds, and a pass that is compared is observed.
Ledgers ==
    /\ candidate # None \/ at # "idle" => Ledger(candidate)
    /\ accepted # None =>
         /\ Kept(accepted.observations, "tex", accepted.passes)
         /\ enabled => Kept(accepted.observations, "detection", accepted.passes)
    /\ at \in {"bibliography", "compare"} => candidate.texObserved
    /\ at = "compare" /\ enabled => candidate.detectionObserved

\* An empty ledger.
LEMMA EmptyKept == ASSUME NEW owner PROVE Kept(<<>>, owner, 0)
  BY DEF Kept

\* The record of another owner.
LEMMA OtherKept ==
    ASSUME NEW s \in Observations, NEW owner, NEW other \in Backend \union {"tex", "detection"},
           other # owner, NEW n \in Nat, NEW q \in Nat, Kept(s, owner, n)
    PROVE  Kept(Append(s, <<other, q>>), owner, n)
<1> DEFINE t == Append(s, <<other, q>>)
<1>1. /\ Len(s) \in Nat /\ DOMAIN s = 1..Len(s) /\ DOMAIN t = 1..(Len(s) + 1)
      /\ \A i \in DOMAIN s : t[i] = s[i]
      /\ t[Len(s) + 1] = <<other, q>>
  BY DEF Observations
<1> HIDE DEF t
<1>2. ASSUME NEW pass, NEW j \in DOMAIN t, t[j] = <<owner, pass>>
      PROVE  j \in DOMAIN s /\ s[j] = <<owner, pass>>
  <2>1. j # Len(s) + 1
    BY <1>1, <1>2
  <2> QED
    BY <1>1, <1>2, <2>1
<1>3. ASSUME NEW pass \in 1..n
      PROVE  \E i \in DOMAIN t : /\ t[i] = <<owner, pass>>
                                 /\ \A j \in DOMAIN t : t[j] = <<owner, pass>> => j = i
  <2>1. PICK i \in DOMAIN s : s[i] = <<owner, pass>> /\ \A j \in DOMAIN s : s[j] = <<owner, pass>> => j = i
    BY DEF Kept
  <2>2. i \in DOMAIN t /\ t[i] = <<owner, pass>>
    BY <1>1, <2>1
  <2> QED
    BY <1>2, <2>1, <2>2
<1>4. ASSUME NEW pass \in Nat, pass > n, NEW j \in DOMAIN t PROVE t[j] # <<owner, pass>>
  BY <1>2, <1>4 DEF Kept
<1> QED
  BY <1>3, <1>4, Zenon DEF Kept, t

\* The record of the next pass.
LEMMA NextKept ==
    ASSUME NEW s \in Observations, NEW owner \in Backend \union {"tex", "detection"}, NEW n \in Nat,
           Kept(s, owner, n)
    PROVE  Kept(Append(s, <<owner, n + 1>>), owner, n + 1)
<1> DEFINE t == Append(s, <<owner, n + 1>>)
<1>1. /\ Len(s) \in Nat /\ DOMAIN s = 1..Len(s) /\ DOMAIN t = 1..(Len(s) + 1)
      /\ \A i \in DOMAIN s : t[i] = s[i]
      /\ t[Len(s) + 1] = <<owner, n + 1>>
  BY DEF Observations
<1> HIDE DEF t
<1>2. \A j \in DOMAIN s : s[j] # <<owner, n + 1>>
  BY DEF Kept
<1>3. ASSUME NEW pass \in Nat, pass # n + 1, NEW j \in DOMAIN t, t[j] = <<owner, pass>>
      PROVE  j \in DOMAIN s /\ s[j] = <<owner, pass>>
  <2>1. j # Len(s) + 1
    BY <1>1, <1>3
  <2> QED
    BY <1>1, <1>3, <2>1
<1>4. ASSUME NEW pass \in 1..(n + 1)
      PROVE  \E i \in DOMAIN t : /\ t[i] = <<owner, pass>>
                                 /\ \A j \in DOMAIN t : t[j] = <<owner, pass>> => j = i
  <2>1. CASE pass = n + 1
    <3>1. ASSUME NEW j \in DOMAIN t, t[j] = <<owner, pass>> PROVE j = Len(s) + 1
      BY <1>1, <1>2, <2>1, <3>1
    <3>2. Len(s) + 1 \in DOMAIN t /\ t[Len(s) + 1] = <<owner, pass>>
      BY <1>1, <2>1
    <3> QED
      BY <3>1, <3>2
  <2>2. CASE pass # n + 1
    <3>0. pass \in 1..n /\ pass \in Nat
      BY <2>2
    <3>1. PICK i \in DOMAIN s : s[i] = <<owner, pass>> /\ \A j \in DOMAIN s : s[j] = <<owner, pass>> => j = i
      BY <3>0 DEF Kept
    <3>2. i \in DOMAIN t /\ t[i] = <<owner, pass>>
      BY <1>1, <3>1
    <3> QED
      BY <1>3, <2>2, <3>0, <3>1, <3>2
  <2> QED
    BY <2>1, <2>2
<1>5. ASSUME NEW pass \in Nat, pass > n + 1, NEW j \in DOMAIN t PROVE t[j] # <<owner, pass>>
  <2>1. pass # n + 1 /\ pass > n
    BY <1>5
  <2> QED
    BY <1>3, <2>1 DEF Kept
<1> QED
  BY <1>4, <1>5, Zenon DEF Kept, t

\* The ledger of a candidate, by owner.
LEMMA LedgerFacts ==
    ASSUME NEW c \in CandidateState, Ledger(c)
    PROVE  LET tex == Count(c, c.texObserved)
               detection == Count(c, c.detectionObserved)
           IN  /\ tex \in Nat /\ detection \in Nat
               /\ Kept(c.observations, "tex", tex)
               /\ enabled => Kept(c.observations, "detection", detection)
               /\ ~c.texObserved => c.pass = tex + 1
               /\ ~c.detectionObserved => c.pass = detection + 1
               /\ c.observations \in Observations /\ c.pass \in Nat
<1>1. /\ c.observations \in Observations /\ c.pass \in Nat \ {0}
      /\ c.texObserved \in BOOLEAN /\ c.detectionObserved \in BOOLEAN
  BY DEF CandidateState
<1> QED
  BY <1>1 DEF Count, Ledger

\* A TeX pass is recorded unless it is.
LEMMA TexLedger ==
    ASSUME NEW c \in CandidateState, Ledger(c)
    PROVE  Ledger(TexObservations(c)) /\ TexObservations(c).texObserved
<1>1. CASE c.texObserved
  BY <1>1 DEF TexObservations
<1>2. CASE ~c.texObserved
  <2> DEFINE o == Append(c.observations, <<"tex", c.pass>>)
             detection == Count(c, c.detectionObserved)
  <2>1. Kept(o, "tex", c.pass)
    BY <1>2, LedgerFacts, NextKept
  <2>2. enabled => Kept(o, "detection", detection)
    BY LedgerFacts, OtherKept
  <2>3. TexObservations(c) = [[c EXCEPT !.observations = o] EXCEPT !.texObserved = TRUE]
    BY <1>2 DEF TexObservations, Observed
  <2> HIDE DEF o
  <2>4. /\ TexObservations(c).observations = o /\ TexObservations(c).pass = c.pass
        /\ TexObservations(c).texObserved = TRUE
        /\ TexObservations(c).detectionObserved = c.detectionObserved
    BY <2>3 DEF CandidateState
  <2> QED
    BY <2>1, <2>2, <2>4 DEF Ledger, Count
<1> QED
  BY <1>1, <1>2 DEF CandidateState

\* A detection is recorded unless it is.
LEMMA DetectionLedger ==
    ASSUME NEW c \in CandidateState, Ledger(c)
    PROVE  /\ Ledger(DetectionObservations(c)) /\ DetectionObservations(c).detectionObserved
           /\ DetectionObservations(c).texObserved = c.texObserved
<1>1. CASE c.detectionObserved
  BY <1>1 DEF DetectionObservations
<1>2. CASE ~c.detectionObserved
  <2> DEFINE o == Append(c.observations, <<"detection", c.pass>>)
             tex == Count(c, c.texObserved)
  <2>1. enabled => Kept(o, "detection", c.pass)
    BY <1>2, LedgerFacts, NextKept
  <2>2. Kept(o, "tex", tex)
    BY LedgerFacts, OtherKept
  <2>3. DetectionObservations(c) = [[c EXCEPT !.observations = o] EXCEPT !.detectionObserved = TRUE]
    BY <1>2 DEF DetectionObservations, Observed
  <2> HIDE DEF o
  <2>4. /\ DetectionObservations(c).observations = o /\ DetectionObservations(c).pass = c.pass
        /\ DetectionObservations(c).detectionObserved = TRUE
        /\ DetectionObservations(c).texObserved = c.texObserved
    BY <2>3 DEF CandidateState
  <2> QED
    BY <2>1, <2>2, <2>4 DEF Ledger, Count
<1> QED
  BY <1>1, <1>2 DEF CandidateState

\* The record of a backend's run is nobody else's.
LEMMA BackendLedger ==
    ASSUME NEW c \in CandidateState, Ledger(c), NEW b \in Backend
    PROVE  /\ Ledger(Observed(c, b)) /\ Observed(c, b).texObserved = c.texObserved
           /\ Observed(c, b).detectionObserved = c.detectionObserved
<1> DEFINE o == Append(c.observations, <<b, c.pass>>)
           tex == Count(c, c.texObserved)
           detection == Count(c, c.detectionObserved)
<1>0. b # "tex" /\ b # "detection"
  BY ProjectAssumption DEF Backend
<1>1. Kept(o, "tex", tex) /\ (enabled => Kept(o, "detection", detection))
  BY <1>0, LedgerFacts, OtherKept
<1>2. Observed(c, b) = [c EXCEPT !.observations = o]
  BY DEF Observed
<1> HIDE DEF o
<1>3. /\ Observed(c, b).observations = o /\ Observed(c, b).pass = c.pass
      /\ Observed(c, b).texObserved = c.texObserved
      /\ Observed(c, b).detectionObserved = c.detectionObserved
  BY <1>2 DEF CandidateState
<1> QED
  BY <1>1, <1>3 DEF Ledger, Count

\* Candidate d has the ledger of candidate c.
SameLedger(c, d) ==
    /\ d.observations = c.observations /\ d.pass = c.pass
    /\ d.texObserved = c.texObserved /\ d.detectionObserved = c.detectionObserved

\* Nothing runs, and the ledgers are as they were or the candidate is dropped.
LEMMA IdleLedgers ==
    ASSUME Ledgers, at' = "idle", UNCHANGED <<enabled, accepted>>,
           candidate' # None => (candidate # None \/ at # "idle") /\ SameLedger(candidate, candidate')
    PROVE  Ledgers'
  BY DEF Ledgers, Ledger, SameLedger, Count

\* The host's operations and the start of an attempt.
LEMMA HostLedgers ==
    ASSUME IInv, Ledgers, Host \/ CompileAttempt
    PROVE  Ledgers'
<1>0. UNCHANGED enabled
  BY DEF Host, CompileAttempt
<1>1. CASE Host
  <2>1. at' = "idle" /\ at = "idle" /\ UNCHANGED accepted
    BY <1>1 DEF Host, SetBibliography, ApplyPatch, ProvideResources, AuthorizePrefetchFiles,
                CancelPendingPatch, Idle
  <2>2. candidate' \in {None, candidate, [candidate EXCEPT !.texAwaiting = FALSE]}
    BY <1>1 DEF Host, SetBibliography, ApplyPatch, ProvideResources, AuthorizePrefetchFiles,
                CancelPendingPatch
  <2>3. candidate = None => candidate' = None
    BY <1>1 DEF Host, SetBibliography, ApplyPatch, ProvideResources, AuthorizePrefetchFiles,
                CancelPendingPatch
  <2>4. candidate' # None => candidate # None /\ SameLedger(candidate, candidate')
    <3> SUFFICES ASSUME candidate' # None PROVE candidate # None /\ SameLedger(candidate, candidate')
      OBVIOUS
    <3>1. candidate # None /\ candidate \in CandidateState
      BY <2>3 DEF IInv, TypeOK
    <3> QED
      BY <2>2, <3>1 DEF CandidateState, SameLedger
  <2> QED
    BY <1>0, <2>1, <2>4, IdleLedgers
<1>2. CASE ReturnAccepted \/ RefuseAttempt
  <2>1. at' = "idle" /\ UNCHANGED accepted /\ candidate' \in {None, candidate} /\ at = "idle"
    BY <1>2 DEF ReturnAccepted, RefuseAttempt, Reject, Idle
  <2> QED
    BY <1>0, <2>1, IdleLedgers DEF SameLedger
<1>3. CASE StartAttempt
  <2>1. /\ at' = "tex" /\ UNCHANGED accepted
        /\ candidate' = IF candidate = None THEN NewCandidate ELSE candidate
    BY <1>3 DEF StartAttempt
  <2>2. Ledger(NewCandidate)
    <3>1. /\ NewCandidate.observations = <<>> /\ NewCandidate.pass = 1
          /\ NewCandidate.texObserved = FALSE /\ NewCandidate.detectionObserved = FALSE
      BY DEF NewCandidate
    <3>2. Count(NewCandidate, FALSE) = 0
      BY <3>1 DEF Count
    <3> QED
      BY <3>1, <3>2, EmptyKept, Zenon DEF Ledger
  <2>3. Ledger(candidate')
    BY <2>1, <2>2 DEF Ledgers
  <2>4. (candidate # None \/ at # "idle" => Ledger(candidate))'
    BY <1>0, <2>3 DEF Ledger
  <2> QED
    BY <1>0, <2>1, <2>4 DEF Ledgers
<1> QED
  BY <1>1, <1>2, <1>3 DEF CompileAttempt

\* A pass runs on with a ledger that holds.
LEMMA RunningLedgers ==
    ASSUME Ledgers, UNCHANGED <<enabled, accepted>>, Ledger(candidate'),
           at' # "idle", candidate'.texObserved,
           at' = "compare" /\ enabled => candidate'.detectionObserved
    PROVE  Ledgers'
<1>1. Ledger(candidate)'
  BY Zenon DEF Ledger
<1> QED
  BY <1>1 DEF Ledgers

\* The steps of a pass.
LEMMA PassLedgers ==
    ASSUME IInv, Ledgers, UNCHANGED enabled,
           at = "bibliography" => enabled,
           TexPass \/ NoBibliography \/ BibliographyWaits \/ BibliographyFails \/ BibliographyFinishes
    PROVE  Ledgers'
<1>0. /\ candidate \in CandidateState /\ UNCHANGED accepted /\ at # "idle" /\ Ledger(candidate)
  BY Zenon DEF IInv, TypeOK, Ledgers, TexPass, NoBibliography, BibliographyWaits, BibliographyFails,
         BibliographyFinishes, Suspend, Reject
<1>1. ASSUME NEW error, Reject(error) PROVE Ledgers'
  BY <1>0, <1>1, IdleLedgers DEF Reject
<1>2. CASE TexPass
  <2>1. CASE Suspend([candidate EXCEPT !.tex = "waiting", !.texAwaiting = TRUE])
    <3>1. SameLedger(candidate, candidate') /\ at' = "idle"
      BY <1>0, <2>1 DEF Suspend, CandidateState, SameLedger
    <3> QED
      BY <1>0, <3>1, IdleLedgers
  <2>2. ASSUME NEW files \in Content,
               candidate' = TexObservations([candidate EXCEPT !.tex = "done", !.generated.tex = files]),
               at' = IF enabled THEN "bibliography" ELSE "compare"
        PROVE  Ledgers'
    <3> DEFINE c == [candidate EXCEPT !.tex = "done", !.generated.tex = files]
               g == [candidate.generated EXCEPT !.tex = files]
    <3>1. g \in Generation
      BY <1>0 DEF CandidateState, Generation
    <3>2. c = [candidate EXCEPT !.tex = "done", !.generated = g]
      BY <1>0 DEF CandidateState
    <3> HIDE DEF c, g
    <3>3. c \in CandidateState /\ SameLedger(candidate, c)
      BY <1>0, <3>1, <3>2, Zenon DEF CandidateState, SameLedger
    <3>4. Ledger(c)
      BY <1>0, <3>3 DEF Ledger, SameLedger, Count
    <3>5. candidate' = TexObservations(c)
      BY <2>2 DEF c
    <3>6. Ledger(candidate') /\ candidate'.texObserved
      BY <3>3, <3>4, <3>5, TexLedger
    <3> QED
      BY <1>0, <2>2, <3>6, RunningLedgers
  <2> QED
    BY <1>1, <1>2, <2>1, <2>2, Zenon DEF TexPass
<1>3. CASE NoBibliography
  <2>1. candidate' = DetectionObservations(candidate) /\ at' = "compare" /\ enabled
        /\ candidate.texObserved
    BY <1>3 DEF NoBibliography, Ledgers
  <2>2. Ledger(candidate') /\ candidate'.texObserved /\ candidate'.detectionObserved
    BY <1>0, <2>1, DetectionLedger
  <2> QED
    BY <1>0, <2>1, <2>2, RunningLedgers
<1>4. CASE BibliographyWaits
  <2> DEFINE d == DetectionObservations(candidate)
  <2>1. candidate' = [d EXCEPT !.texAwaiting = FALSE, !.suspended = TRUE] /\ at' = "idle" /\ enabled
    BY <1>4 DEF BibliographyWaits, Suspend
  <2>2. Ledger(d) /\ d \in CandidateState
    BY <1>0, <2>1, DetectionLedger, ObservedFacts DEF Along
  <2> HIDE DEF d
  <2>3. SameLedger(d, candidate')
    BY <2>1, <2>2 DEF CandidateState, SameLedger
  <2>4. Ledger(candidate)'
    BY <2>2, <2>3 DEF Ledger, SameLedger, Count
  <2> QED
    BY <1>0, <2>1, <2>4 DEF Ledgers
<1>5. CASE BibliographyFails
  BY <1>1, <1>5 DEF BibliographyFails
<1>6. CASE BibliographyFinishes
  <2> DEFINE d == DetectionObservations(candidate)
  <2>1. enabled /\ at' = "compare" /\ candidate.texObserved
    BY <1>6 DEF BibliographyFinishes, Ledgers
  <2>2. PICK b \in Backend : \E bib : candidate' = [Observed(d, b) EXCEPT !.generated.bib = bib]
    BY <1>6, Zenon DEF BibliographyFinishes
  <2>3. Ledger(d) /\ d \in CandidateState /\ d.texObserved /\ d.detectionObserved
    BY <1>0, <2>1, DetectionLedger, ObservedFacts DEF Along
  <2> HIDE DEF d
  <2>4. /\ Ledger(Observed(d, b)) /\ Observed(d, b) \in CandidateState
        /\ Observed(d, b).texObserved /\ Observed(d, b).detectionObserved
    BY <2>3, BackendLedger, ObservedFacts DEF Along
  <2>5. SameLedger(Observed(d, b), candidate')
    BY <2>2, <2>4, Zenon DEF CandidateState, SameLedger
  <2>6. Ledger(candidate') /\ candidate'.texObserved /\ candidate'.detectionObserved
    BY <2>4, <2>5 DEF Ledger, SameLedger, Count
  <2> QED
    BY <1>0, <2>1, <2>6, RunningLedgers
<1> QED
  BY <1>2, <1>3, <1>4, <1>5, <1>6

\* The comparison: the ledger of a compared pass is complete.
LEMMA CompareLedgers ==
    ASSUME IInv, Ledgers, UNCHANGED enabled, Compare
    PROVE  Ledgers'
<1>0. /\ candidate \in CandidateState /\ at = "compare" /\ Ledger(candidate)
      /\ candidate.texObserved /\ (enabled => candidate.detectionObserved)
  BY DEF Compare, IInv, TypeOK, Ledgers
<1>1. ASSUME NEW error, Reject(error) PROVE Ledgers'
  BY <1>1, IdleLedgers DEF Reject
<1>2. /\ Kept(candidate.observations, "tex", candidate.pass)
      /\ enabled => Kept(candidate.observations, "detection", candidate.pass)
  BY <1>0 DEF Ledger, Count
<1>3. CASE AcceptCandidate
  <2>1. /\ accepted'.observations = candidate.observations /\ accepted'.passes = candidate.pass
        /\ candidate' = None /\ at' = "idle"
    BY <1>3 DEF AcceptCandidate
  <2> QED
    BY <1>2, <2>1 DEF Ledgers
<1>4. CASE NextPass
  <2>1. /\ candidate'.observations = candidate.observations /\ candidate'.pass = candidate.pass + 1
        /\ candidate'.texObserved = FALSE /\ candidate'.detectionObserved = FALSE
        /\ at' = "tex" /\ UNCHANGED accepted
    BY <1>0, <1>4 DEF NextPass, CandidateState
  <2>2. Count(candidate', FALSE) = candidate.pass
    BY <1>0, <2>1 DEF Count, CandidateState
  <2>3. Ledger(candidate)'
    BY <1>2, <2>1, <2>2, Zenon DEF Ledger
  <2> QED
    BY <2>1, <2>3 DEF Ledgers
<1> QED
  BY <1>1, <1>3, <1>4 DEF Compare, ObserveChanged

\* The bibliography phase runs only where it is enabled.
Phase == at = "bibliography" => enabled

\* The ledgers hold throughout.
LEMMA AlwaysLedgers == Spec => []Ledgers
<1>1. Init => Ledgers /\ Phase
  BY DEF Init, Ledgers, Phase
<1>2. Phase /\ [Next]_vars => Phase'
  BY Zenon DEF Phase, Next, Host, SetBibliography, ApplyPatch, ProvideResources, AuthorizePrefetchFiles,
         CancelPendingPatch, CompileAttempt, ReturnAccepted, RefuseAttempt, StartAttempt, Run, TexPass,
         NoBibliography, BibliographyWaits, BibliographyFails, BibliographyFinishes, Compare, AcceptCandidate,
         ObserveChanged, NextPass, Suspend, Reject, Idle, vars
<1>3. IInv /\ Ledgers /\ Phase /\ [Next]_vars => Ledgers'
  <2> SUFFICES ASSUME IInv, Ledgers, Phase, [Next]_vars PROVE Ledgers'
    OBVIOUS
  <2>1. CASE UNCHANGED vars
    BY <2>1 DEF vars, Ledgers, Ledger
  <2>2. CASE Run
    BY <2>2, PassLedgers, CompareLedgers DEF Run, Phase
  <2> QED
    BY <2>1, <2>2, HostLedgers DEF Next
<1> QED
  BY <1>1, <1>2, <1>3, InitIInv, StepIInv, PTL DEF Spec

\* A suspended and resumed pass is observed once (LedgerObservesEachPassOnce).
THEOREM LedgerIsExact == Spec => []LedgerObservesEachPassOnce
<1>1. Ledgers => LedgerObservesEachPassOnce
  <2> SUFFICES ASSUME Ledgers, accepted # None,
                      NEW owner \in {"tex"} \union (IF enabled THEN {"detection"} ELSE {}),
                      NEW pass \in 1..accepted.passes
               PROVE  \E i \in DOMAIN accepted.observations :
                          {j \in DOMAIN accepted.observations :
                              accepted.observations[j] = <<owner, pass>>} = {i}
    BY DEF LedgerObservesEachPassOnce
  <2> DEFINE s == accepted.observations
  <2>1. Kept(s, owner, accepted.passes)
    BY DEF Ledgers
  <2>2. PICK i \in DOMAIN s : s[i] = <<owner, pass>> /\ \A j \in DOMAIN s : s[j] = <<owner, pass>> => j = i
    BY <2>1, Zenon DEF Kept
  <2>3. {j \in DOMAIN s : s[j] = <<owner, pass>>} = {i}
    BY <2>2
  <2> QED
    BY <2>3
<1> QED
  BY <1>1, AlwaysLedgers, PTL
=============================================================================
