----------------------------- MODULE LatexProject -----------------------------
(***************************************************************************)
(* LatexProjectSession (and, with enabled FALSE, the TexFixedPointSession  *)
(* over it): TeX passes over a private generated generation, a bibliography *)
(* phase after each, until the generation stops changing, within the       *)
(* limits of fixed_point.rs.  What a TeX pass or a bibliography run writes *)
(* is any value: the comparison is all the coordinator knows of it.  A     *)
(* call holds `&mut self`, so calls do not overlap; compile_attempt is a   *)
(* sequence of steps only because it loops over passes.                    *)
(***************************************************************************)
EXTENDS Naturals, Sequences

CONSTANTS
    AttemptLimit,  \* FixedPointLimits::attempts
    PassLimit,     \* FixedPointLimits::passes
    Outputs,       \* the files each backend publishes
    Content,       \* what a generated file can contain
    MaxRevision,   \* bound: the last revision a patch asks for
    None

ASSUME ProjectAssumption ==
    /\ AttemptLimit \in 1..128 /\ PassLimit \in 1..64
    /\ MaxRevision \in Nat
    /\ None \notin DOMAIN Outputs /\ None \notin Content
    /\ {"tex", "detection"} \intersect DOMAIN Outputs = {}

Backend == DOMAIN Outputs
Path == UNION {Outputs[b] : b \in Backend}

(* A generated generation: the files TeX wrote, and the bibliography files *)
(* by path, each with the backend that made it.                            *)
Artifact == [by : Backend, content : Content]
Generation == [tex : Content \union {None}, bib : [Path -> Artifact \union {None}]]
EmptyGeneration == [tex |-> None, bib |-> [p \in Path |-> None]]

VARIABLES
    enabled,     \* bibliography_enabled, set when the session is made
    at,          \* where compile_attempt is; "idle" between calls
    accepted,    \* everything accept_candidate installs, or None
    pending,     \* pending_root: the revision of the patch, or None
    candidate,   \* the ProjectCandidate, or None
    before,      \* run_candidate's local: the key the pass is compared with, or None
    awaiting,    \* none; blocked: no awaited key is bound; ready: some key is
    backend,     \* bibliography_backend
    published,   \* published_bibliography_paths
    attempts,    \* the coordinator's attempt count
    last         \* what the last compile_attempt returned

vars == <<enabled, at, accepted, pending, candidate, before, awaiting, backend, published,
          attempts, last>>

Init ==
    /\ enabled \in BOOLEAN
    /\ at = "idle"
    /\ accepted = None /\ pending = None /\ candidate = None /\ before = None
    /\ awaiting = "none"
    /\ backend = None /\ published = {}
    /\ attempts = 0 /\ last = "none"

Idle == at = "idle"

-----------------------------------------------------------------------------
(* The operations of the host between two attempts. *)

SetBibliography ==
    /\ Idle /\ enabled /\ pending = None
    /\ backend' = None /\ candidate' = None /\ awaiting' = "none"
    /\ UNCHANGED <<at, accepted, pending, before, published, attempts, last>>

(* A patch the checks refuse changes nothing and is not an action. *)
ApplyPatch ==
    /\ Idle /\ pending = None /\ accepted # None
    /\ accepted.revision < MaxRevision
    /\ pending' = accepted.revision + 1
    /\ candidate' = None /\ awaiting' = "none"
    /\ UNCHANGED <<at, accepted, before, backend, published, attempts, last>>

(* A batch that answers an awaited key, or an empty one.  A batch that the *)
(* project stage or the TeX child refuses is dropped whole.                *)
ProvideResources(answer) ==
    /\ Idle /\ awaiting # "none"
    /\ awaiting' = IF answer THEN "ready" ELSE awaiting
    /\ candidate' = IF candidate = None THEN None ELSE [candidate EXCEPT !.texAwaiting = FALSE]
    /\ UNCHANGED <<at, accepted, pending, before, backend, published, attempts, last>>

AuthorizePrefetchFiles ==
    /\ Idle /\ awaiting = "none"
    /\ awaiting' = "blocked"
    /\ UNCHANGED <<at, accepted, pending, candidate, before, backend, published, attempts, last>>

CancelPendingPatch_BugKeepsCandidate ==
    /\ Idle /\ pending # None
    /\ pending' = None /\ awaiting' = "none" /\ attempts' = 0
    /\ UNCHANGED <<at, accepted, candidate, before, backend, published, last>>

CancelPendingPatch ==
    /\ Idle /\ pending # None
    /\ pending' = None /\ candidate' = None /\ awaiting' = "none" /\ attempts' = 0
    /\ UNCHANGED <<at, accepted, before, backend, published, last>>

-----------------------------------------------------------------------------
(* compile_attempt. *)

Suspend(needed) ==
    /\ candidate' = needed
    /\ awaiting' = "blocked" /\ at' = "idle" /\ before' = None /\ last' = "NeedResources"
    /\ UNCHANGED <<accepted, pending, published, attempts>>

(* reject_pending: nothing it leaves alone is rolled back. *)
Reject(error) ==
    /\ pending' = None /\ candidate' = None /\ awaiting' = "none"
    /\ at' = "idle" /\ before' = None /\ last' = error
    /\ UNCHANGED <<accepted, published, attempts>>

AcceptedGenerated == IF accepted = None THEN EmptyGeneration ELSE accepted.generated

Without(generated, paths) ==
    [generated EXCEPT !.bib = [p \in Path |-> IF p \in paths THEN None ELSE generated.bib[p]]]

NewCandidate ==
    LET generated == Without(AcceptedGenerated, published)
    IN  [revision |-> IF pending # None THEN pending ELSE 1,
         generated |-> generated, start |-> generated,
         pass |-> 1, seen |-> {<<backend, generated>>},
         tex |-> "none", texAwaiting |-> FALSE, suspended |-> FALSE,
         texObserved |-> FALSE, detectionObserved |-> FALSE, observations |-> <<>>]

(* An attempt with nothing to do, and the two refusals of start_attempt. *)
ReturnAccepted ==
    /\ Idle /\ pending = None /\ accepted # None
    /\ last' = "Complete"
    /\ UNCHANGED <<at, accepted, pending, candidate, before, awaiting, backend, published, attempts>>

RefuseAttempt ==
    /\ Idle /\ (pending # None \/ accepted = None)
    /\ attempts >= AttemptLimit \/ awaiting = "blocked"
    /\ Reject(IF attempts >= AttemptLimit THEN "AttemptLimit" ELSE "NoProgress")
    /\ UNCHANGED backend

StartAttempt_BugUncounted ==
    /\ Idle /\ (pending # None \/ accepted = None)
    /\ awaiting # "blocked"
    /\ candidate' = IF candidate = None THEN NewCandidate ELSE candidate
    /\ before' = <<backend, candidate'.generated>>
    /\ at' = "tex"
    /\ UNCHANGED <<accepted, pending, awaiting, backend, published, attempts, last>>

StartAttempt ==
    /\ Idle /\ (pending # None \/ accepted = None)
    /\ attempts < AttemptLimit /\ awaiting # "blocked"
    /\ attempts' = attempts + 1
    /\ candidate' = IF candidate = None THEN NewCandidate ELSE candidate
    /\ before' = <<backend, candidate'.generated>>
    /\ at' = "tex"
    /\ UNCHANGED <<accepted, pending, awaiting, backend, published, last>>

Observed(c, owner) == [c EXCEPT !.observations = Append(@, <<owner, c.pass>>)]

TexObservations_BugAgain(c) == [Observed(c, "tex") EXCEPT !.texObserved = TRUE]

TexObservations(c) ==
    IF c.texObserved THEN c ELSE [Observed(c, "tex") EXCEPT !.texObserved = TRUE]

DetectionObservations(c) ==
    IF c.detectionObserved THEN c
    ELSE [Observed(c, "detection") EXCEPT !.detectionObserved = TRUE]

(* One TeX pass: it waits for resources, fails, or completes and its files *)
(* are merged.  A pass retained by a bibliography wait answers at once,    *)
(* with the output it completed with.                                      *)
TexPass ==
    /\ at = "tex"
    /\ UNCHANGED backend
    /\ \/ /\ candidate.tex # "done"
          /\ Suspend([candidate EXCEPT !.tex = "waiting", !.texAwaiting = TRUE])
       \/ /\ candidate.tex # "done"
          /\ Reject("Compile")
       \/ \E files \in Content :
             /\ candidate.tex = "done" => files = candidate.generated.tex
             /\ candidate' = TexObservations([candidate EXCEPT !.tex = "done", !.generated.tex = files])
             /\ at' = IF enabled THEN "bibliography" ELSE "compare"
             /\ UNCHANGED <<accepted, pending, before, awaiting, published, attempts, last>>

(* Detection and, when a backend is selected, its run. *)
NoBibliography ==
    /\ at = "bibliography"
    /\ backend' = None
    /\ candidate' = DetectionObservations(candidate)
    /\ at' = "compare"
    /\ UNCHANGED <<accepted, pending, before, awaiting, published, attempts, last>>

BibliographyWaits ==
    /\ at = "bibliography"
    /\ backend' \in Backend \union {backend}
    /\ Suspend([DetectionObservations(candidate) EXCEPT !.texAwaiting = FALSE, !.suspended = TRUE])

BibliographyFails ==
    /\ at = "bibliography"
    /\ backend' \in Backend \union {backend}
    /\ Reject("Bibliography")

BibliographyFinishes ==
    /\ at = "bibliography"
    /\ \E b \in Backend, content \in Content :
          /\ backend' = b
          /\ published' = Outputs[b]
          /\ candidate' =
                [Observed(DetectionObservations(candidate), b) EXCEPT
                    !.generated.bib = [p \in Path |-> IF p \in Outputs[b]
                                                        THEN [by |-> b, content |-> content]
                                                        ELSE candidate.generated.bib[p]]]
    /\ at' = "compare"
    /\ UNCHANGED <<accepted, pending, before, awaiting, attempts, last>>

After == <<backend, candidate.generated>>

(* accept_candidate installs everything at once. *)
AcceptCandidate ==
    /\ accepted' = [revision |-> candidate.revision, generated |-> candidate.generated,
                    backend |-> backend, passes |-> candidate.pass,
                    observations |-> candidate.observations,
                    start |-> candidate.start, suspended |-> candidate.suspended]
    /\ pending' = None /\ candidate' = None /\ awaiting' = "none"
    /\ at' = "idle" /\ before' = None /\ last' = "Complete"
    /\ UNCHANGED <<backend, published, attempts>>

NextPass ==
    /\ candidate' = [candidate EXCEPT !.seen = @ \union {After}, !.pass = @ + 1,
                                      !.start = candidate.generated, !.tex = "none",
                                      !.suspended = FALSE,
                                      !.texObserved = FALSE, !.detectionObserved = FALSE]
    /\ before' = After
    /\ at' = "tex"
    /\ UNCHANGED <<accepted, pending, awaiting, backend, published, attempts, last>>

(* observe_changed. *)
ObserveChanged ==
    \/ After \in candidate.seen /\ Reject("Oscillation") /\ UNCHANGED backend
    \/ /\ After \notin candidate.seen
       /\ \/ candidate.pass + 1 > PassLimit /\ Reject("PassLimit") /\ UNCHANGED backend
          \/ candidate.pass + 1 <= PassLimit /\ NextPass

Compare_BugBibliographyOnly ==
    /\ at = "compare"
    /\ \/ /\ After[2].bib = before[2].bib /\ After[1] = before[1]
          /\ AcceptCandidate
       \/ After # before /\ ObserveChanged

Compare ==
    /\ at = "compare"
    /\ \/ After = before /\ AcceptCandidate
       \/ After = before /\ Reject("Transaction") /\ UNCHANGED backend
       \/ After # before /\ ObserveChanged

CompileAttempt == (ReturnAccepted \/ RefuseAttempt \/ StartAttempt) /\ UNCHANGED enabled

Run ==
    /\ \/ TexPass
       \/ NoBibliography \/ BibliographyWaits \/ BibliographyFails \/ BibliographyFinishes
       \/ Compare
    /\ UNCHANGED enabled

Host ==
    /\ \/ SetBibliography \/ ApplyPatch
       \/ \E answer \in BOOLEAN : ProvideResources(answer)
       \/ AuthorizePrefetchFiles \/ CancelPendingPatch
    /\ UNCHANGED enabled

Next == Host \/ CompileAttempt \/ Run

(* A running attempt runs on; the host keeps calling compile_attempt. *)
Spec == Init /\ [][Next]_vars /\ WF_vars(Run) /\ WF_vars(CompileAttempt)

-----------------------------------------------------------------------------
(* A candidate is retained between attempts only for the revision the next *)
(* attempt will compile: run_candidate takes it without looking at its     *)
(* revision, so every operation that changes what is pending must drop it. *)
CandidateIsCurrent ==
    candidate # None =>
        /\ pending = None => accepted = None
        /\ candidate.revision = IF pending = None THEN 1 ELSE pending

(* The accepted ledger observes every pass once, however often the pass    *)
(* was suspended and resumed (texObserved and detectionObserved).          *)
LedgerObservesEachPassOnce ==
    accepted # None =>
        \A owner \in {"tex"} \union (IF enabled THEN {"detection"} ELSE {}) :
            \A pass \in 1..accepted.passes :
                \E i \in DOMAIN accepted.observations :
                    {j \in DOMAIN accepted.observations :
                        accepted.observations[j] = <<owner, pass>>} = {i}

(* An accepted pass that no bibliography wait interrupted was compiled     *)
(* from the very generation it produced (the comparison of run_candidate). *)
FixedPointUnlessSuspended ==
    accepted # None /\ ~accepted.suspended => accepted.start = accepted.generated

(* A pending patch is eventually accepted, rejected or cancelled: waits    *)
(* are bounded by the attempt limit and passes by the pass limit.          *)
RevisionSettles == \A r \in 2..MaxRevision : (pending = r) ~> (pending # r)

=============================================================================
