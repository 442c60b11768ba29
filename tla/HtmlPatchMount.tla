--------------------------- MODULE HtmlPatchMount ---------------------------
(***************************************************************************)
(* The receiving end of the live preview: HtmlPatchMount of html-patch.js  *)
(* and the HtmlResourceRegistry it owns.  A call checks its update against *)
(* the mounted document, loads the added fonts one after the other, writes *)
(* the DOM and settles the registry, and only then takes the new document  *)
(* for its own.  It awaits before each of these, and nothing in the class  *)
(* keeps a second call, or dispose, from running meanwhile.                *)
(*                                                                         *)
(* A document is named by its session, its revision and its content, whose *)
(* digest the code compares; what a page looks like is left out.           *)
(***************************************************************************)
EXTENDS Integers, FiniteSets

CONSTANTS None,
          Contents,    \* the contents of documents
          Fonts,       \* [Contents -> the resources a document needs]
          Serial,      \* does the host wait for one call before it makes the next?
          MaxFaults    \* bound: font loads, DOM writes and FontFaceSet calls that fail

ASSUME MountAssumption ==
    /\ \A c \in Contents : Fonts[c] \subseteq Nat
    /\ Serial \in BOOLEAN /\ MaxFaults \in Nat

VARIABLES mount,    \* the fields of the class, the DOM below its root, the registry
          calls,    \* the calls that have not been answered
          faults    \* failures so far

mountVars == <<mount, calls, faults>>

\* Parts of two documents: no document has this name.
Mixed == [session |-> 0, revision |-> 0, content |-> 0]

NewMount ==
    [state |-> None,           \* the validated document
     dom |-> None,             \* what the root shows: a document, nothing, or a mixture
     entries |-> {},           \* the fonts the registry holds
     needsResync |-> FALSE,
     disposed |-> FALSE,
     broken |-> {}]            \* history: the kinds of calls whose commit has thrown

MountInit == mount = NewMount /\ calls = {} /\ faults = 0

Uses(doc) == IF doc = None THEN {} ELSE Fonts[doc.content]

Call(kind, base, target, releases, todo, at) ==
    [kind |-> kind, base |-> base, target |-> target, releases |-> releases,
     todo |-> todo, staged |-> {}, at |-> at]

Answer(call, at) == calls' = (calls \ {call}) \union {[call EXCEPT !.at = at]}
Rejected(kind) == Call(kind, None, None, {}, {}, "error")

\* The additions stage still goes through: those before the first missing font are
\* skipped.
Unmet(additions, entries) ==
    {f \in additions : f \notin entries \/ \E g \in additions \ entries : g < f}

MayCall == ~mount.disposed /\ (Serial => calls = {})

\* mountSnapshot up to its first await; a release the registry does not know fails.
MountSnapshot(doc) ==
    LET releases == Uses(mount.state) \ Uses(doc)
    IN  /\ MayCall
        /\ calls' = calls \union
              {IF releases \subseteq mount.entries
               THEN Call("snapshot", None, doc, releases, Unmet(Uses(doc), mount.entries), "stage")
               ELSE Rejected("snapshot")}
        /\ UNCHANGED <<mount, faults>>

\* applyPatch up to its first await.
ApplyPatch(base, target) ==
    LET releases == Uses(base) \ Uses(target)
    IN  /\ MayCall
        /\ \/ /\ mount.state = None \/ mount.needsResync
              /\ calls' = calls \union {Rejected("patch")}
              /\ UNCHANGED mount
           \/ /\ mount.state = target /\ ~mount.needsResync
              /\ calls' = calls \union {Call("patch", None, target, {}, {}, "ack")}
              /\ UNCHANGED mount
           \/ /\ mount.state \notin {None, target} /\ ~mount.needsResync
              /\ mount.state # base \/ ~(releases \subseteq mount.entries)
              /\ calls' = calls \union {Rejected("patch")}
              /\ mount' = [mount EXCEPT !.needsResync = TRUE]
           \/ /\ mount.state \notin {None, target} /\ ~mount.needsResync
              /\ mount.state = base /\ releases \subseteq mount.entries
              /\ calls' = calls \union
                    {Call("patch", base, target, releases,
                          Unmet(Uses(target) \ Uses(base), mount.entries), "stage")}
              /\ UNCHANGED mount
        /\ UNCHANGED faults

\* stage: the next missing font is verified and loaded, or is not.
Stage(call) ==
    /\ call.at = "stage" /\ call.todo # {}
    /\ \/ /\ \E f \in call.todo :
               /\ \A g \in call.todo : f <= g
               /\ calls' = (calls \ {call}) \union
                     {[call EXCEPT !.todo = Unmet(@ \ {f}, mount.entries),
                                   !.staged = @ \union {f}]}
          /\ UNCHANGED <<mount, faults>>
       \/ /\ faults < MaxFaults /\ faults' = faults + 1
          /\ Answer(call, "error")
          /\ mount' = [mount EXCEPT !.needsResync = @ \/ call.kind = "patch"]

\* lease.commit checks the releases again, then installs and then releases, one font
\* after the other.
Commits(call) == call.releases \subseteq mount.entries
Committed(call) == (mount.entries \union call.staged) \ call.releases

\* The registry after a commit in which document.fonts threw.  A font it would not add
\* stays registered, while those installed before are removed again; a font it would
\* not delete stays, while those released before are gone.
HalfCommitted(call) ==
    {(mount.entries \ {g \in call.staged : g < f}) \union {f} : f \in call.staged}
    \union {mount.entries \ (call.staged \union {g \in call.releases : g < f}) : f \in call.releases}

\* The page when all is written: operations that meet another page than they were
\* planned for leave parts of both.
Written(call) ==
    IF call.kind = "snapshot" \/ mount.dom = call.base THEN call.target ELSE Mixed

\* The page is written and the commit throws.
Interrupted(call, entries) ==
    [mount EXCEPT !.dom = Written(call), !.entries = entries, !.broken = @ \union {call.kind}]

\* Everything from the last load to the await of the commit.
Publish(call) ==
    /\ call.at = "stage" /\ call.todo = {}
    /\ \/ /\ Commits(call)
          /\ mount' = [mount EXCEPT !.dom = Written(call), !.entries = Committed(call)]
          /\ Answer(call, "settle")
          /\ UNCHANGED faults
       \/ /\ ~Commits(call)
          /\ mount' = Interrupted(call, mount.entries)
          /\ Answer(call, "failed")
          /\ UNCHANGED faults
       \/ /\ Commits(call)
          /\ faults < MaxFaults /\ faults' = faults + 1
          /\ \E entries \in HalfCommitted(call) : mount' = Interrupted(call, entries)
          /\ Answer(call, "failed")
       \/ \* An operation does not find its node.
          /\ call.kind = "patch" /\ mount.dom # call.base
          /\ mount' = [mount EXCEPT !.dom = Mixed]
          /\ Answer(call, "failed")
          /\ UNCHANGED faults
       \/ \* The DOM refuses an operation; replaceChildren is taken to succeed.
          /\ call.kind = "patch" /\ faults < MaxFaults /\ faults' = faults + 1
          /\ mount' = [mount EXCEPT !.dom = Mixed]
          /\ Answer(call, "failed")

\* The call takes its document, and acknowledges it unless the mount is disposed.
Settle(call) ==
    /\ call.at = "settle"
    /\ mount' = [mount EXCEPT !.state = call.target,
                              !.needsResync = @ /\ call.kind = "patch"]
    /\ Answer(call, IF mount.disposed THEN "error" ELSE "ack")
    /\ UNCHANGED faults

\* Mutant: the page is left as the failed patch made it.
FailNoRestore(call) ==
    /\ call.at = "failed"
    /\ mount' = IF call.kind = "patch" /\ mount.state # None
                THEN [mount EXCEPT !.needsResync = TRUE] ELSE mount
    /\ Answer(call, "error")
    /\ UNCHANGED faults

\* A failed patch rebuilds the page from the validated document; after a snapshot that
\* failed the page, and needsResync, stay as they are.
Fail(call) ==
    /\ call.at = "failed"
    /\ mount' = IF call.kind = "patch" /\ mount.state # None
                THEN [mount EXCEPT !.dom = mount.state, !.needsResync = TRUE] ELSE mount
    /\ Answer(call, "error")
    /\ UNCHANGED faults

\* dispose: the registry is emptied at once, the page after an await; a font that
\* document.fonts would not delete ends it.
Dispose ==
    /\ MayCall
    /\ \/ /\ mount' = [mount EXCEPT !.disposed = TRUE, !.entries = {}]
          /\ calls' = calls \union {Call("dispose", None, None, {}, {}, "clear")}
          /\ UNCHANGED faults
       \/ /\ faults < MaxFaults /\ faults' = faults + 1
          /\ \E f \in mount.entries :
               mount' = [mount EXCEPT !.disposed = TRUE, !.entries = {g \in @ : g >= f},
                                      !.broken = @ \union {"dispose"}]
          /\ calls' = calls \union {Rejected("dispose")}

Clear(call) ==
    /\ call.at = "clear"
    /\ mount' = [mount EXCEPT !.dom = None, !.state = None]
    /\ Answer(call, "cleared")
    /\ UNCHANGED faults

Continue == \E call \in calls :
    Stage(call) \/ Publish(call) \/ Settle(call) \/ Fail(call) \/ Clear(call)
=============================================================================
