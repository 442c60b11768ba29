-------------------------- MODULE LivePreviewProofs --------------------------
(***************************************************************************)
(* What the page shows, for every set of contents and fonts, any number of *)
(* failures, revisions and sessions, and any worker, with a host that      *)
(* waits for one call of the mount before it makes the next: until the     *)
(* commit of a snapshot throws, the validated document and not parts of    *)
(* two.  And what a worker has at hand, for any number of requests in      *)
(* flight: exactly what its client waits for.                              *)
(***************************************************************************)
EXTENDS LivePreview, FiniteSetTheorems, TLAPS

\* A value is a record of the mount, or of a call: what EXCEPT needs to know.
IsMount(m) ==
    m = [state |-> m.state, dom |-> m.dom, entries |-> m.entries,
         needsResync |-> m.needsResync, disposed |-> m.disposed, broken |-> m.broken]
IsCall(c) ==
    c = [kind |-> c.kind, base |-> c.base, target |-> c.target, releases |-> c.releases,
         todo |-> c.todo, staged |-> c.staged, at |-> c.at]

Whole ==
    /\ "snapshot" \notin mount.broken => mount.dom = mount.state
    /\ mount.broken \subseteq {"patch"} /\ ~mount.needsResync
          => Uses(mount.state) \subseteq mount.entries
    /\ mount.broken = {} => mount.entries = Uses(mount.state)

\* A snapshot brings all its fonts, a patch those its base does not have.
Complete(c) == c.kind = "snapshot" \/ mount.broken \subseteq {"patch"}

\* A call that loads fonts: what it will release is what the target does not use, and
\* what the target uses is registered, staged or still to be loaded.
Staging(c) ==
    /\ Whole
    /\ c.releases = Uses(mount.state) \ Uses(c.target) /\ c.releases \subseteq mount.entries
    /\ c.staged \subseteq Uses(c.target) /\ c.todo \subseteq Uses(c.target)
    /\ Complete(c) => Uses(c.target) \subseteq mount.entries \union c.staged \union c.todo
    /\ c.kind = "patch" => c.base = mount.state /\ mount.state # None

\* The page and the registry are those of the target.
Settling(c) ==
    /\ "snapshot" \notin mount.broken => mount.dom = c.target
    /\ Complete(c) => Uses(c.target) \subseteq mount.entries
    /\ mount.broken = {} => mount.entries = Uses(c.target)

\* A failed patch has a document to go back to; a snapshot fails only in its commit.
Failing(c) ==
    /\ c.kind = "patch" => mount.state # None
    /\ c.kind = "patch" /\ mount.broken = {} => mount.entries = Uses(mount.state)
    /\ c.kind # "patch" => "snapshot" \in mount.broken

\* Where a call is tells how far the page is from the validated document.
CallInv(c) ==
    /\ IsCall(c)
    /\ c.at \in {"stage", "settle", "failed", "clear", "ack", "error", "cleared"}
    /\ c.kind \in {"snapshot", "patch", "dispose"}
    /\ c.at = "stage" => Staging(c) /\ c.kind # "dispose"
    /\ c.at = "settle" => Settling(c)
    /\ c.at = "failed" => Failing(c)
    /\ c.at = "clear" => mount.entries = {}
    /\ c.at \in {"ack", "error", "cleared"} => Whole

\* There is one call at most, and without a call the page is whole.
MountInv ==
    /\ IsMount(mount)
    /\ \A c, d \in calls : c = d
    /\ calls = {} => Whole
    /\ \A c \in calls : CallInv(c)

\* The invariant says of the page what the property says.
LEMMA InvIsWhole == MountInv => ShownDocumentIsWhole
  BY DEF MountInv, CallInv, Whole, ShownDocumentIsWhole, Quiet

\* A new mount is empty.
LEMMA InitInv == Init => MountInv
  BY DEF Init, MountInit, NewMount, MountInv, IsMount, Whole, Uses

\* The mount has not changed but for needsResync, which may have been set.
SameDocument ==
    /\ mount'.dom = mount.dom /\ mount'.state = mount.state /\ mount'.entries = mount.entries
    /\ mount'.broken = mount.broken /\ (mount.needsResync => mount'.needsResync)

\* It is still whole.
LEMMA StaysWhole == ASSUME Whole, SameDocument PROVE Whole'
  BY Zenon DEF Whole, SameDocument, Uses

\* mountSnapshot refuses, or plans its loads and releases from the validated document.
LEMMA SnapshotInv == ASSUME Serial, MountInv, NEW doc, MountSnapshot(doc) PROVE MountInv'
  <1> DEFINE r == Rejected("snapshot")
  <1>0. PICK c : c = Call("snapshot", None, doc, Uses(mount.state) \ Uses(doc),
                          Unmet(Uses(doc), mount.entries), "stage")
    OBVIOUS
  <1>1. mount' = mount /\ calls = {} /\ Whole /\ IsMount(mount)
    BY DEF MountSnapshot, MayCall, MountInv
  <1>2. Whole' /\ IsMount(mount)'
    BY <1>1, StaysWhole DEF SameDocument, IsMount
  <1>3. CASE calls' = {c} /\ Uses(mount.state) \ Uses(doc) \subseteq mount.entries
    <2>1. /\ IsCall(c) /\ c.at = "stage" /\ c.kind = "snapshot" /\ c.target = doc /\ c.staged = {}
          /\ c.releases = Uses(mount.state) \ Uses(doc) /\ c.todo = Unmet(Uses(doc), mount.entries)
      BY <1>0, Zenon DEF IsCall, Call
    <2>2. c.todo \subseteq Uses(doc) /\ Uses(doc) \subseteq mount.entries \union c.todo
      BY <2>1 DEF Unmet
    <2>3. CallInv(c)'
      BY <1>1, <1>2, <1>3, <2>1, <2>2, Zenon DEF CallInv, Staging, Uses
    <2> QED BY <1>2, <1>3, <2>3 DEF MountInv
  <1>4. CASE calls' = {r}
    <2>1. IsCall(r) /\ r.at = "error" /\ r.kind = "snapshot"
      BY Zenon DEF IsCall, Rejected, Call
    <2> HIDE DEF r
    <2>2. CallInv(r)'
      BY <1>2, <2>1 DEF CallInv
    <2> QED BY <1>2, <1>4, <2>2 DEF MountInv
  <1> QED BY <1>0, <1>1, <1>3, <1>4 DEF MountSnapshot

\* applyPatch refuses, acknowledges a repeated patch, or plans from its base.
LEMMA PatchInv ==
    ASSUME Serial, MountInv, NEW base, NEW target, ApplyPatch(base, target) PROVE MountInv'
  <1>0. PICK c : c = Call("patch", base, target, Uses(base) \ Uses(target),
                          Unmet(Uses(target) \ Uses(base), mount.entries), "stage")
    OBVIOUS
  <1> DEFINE a == Call("patch", None, target, {}, {}, "ack")
             r == Rejected("patch")
  <1>1. calls = {} /\ Whole /\ IsMount(mount)
    BY DEF ApplyPatch, MayCall, MountInv
  <1>2. CASE calls' \in {{r}, {a}} /\ (mount' = mount \/ mount' = [mount EXCEPT !.needsResync = TRUE])
    <2>1. IsCall(r) /\ r.at = "error" /\ r.kind = "patch" /\ IsCall(a) /\ a.at = "ack" /\ a.kind = "patch"
      BY Zenon DEF IsCall, Rejected, Call
    <2> HIDE DEF r, a
    <2>2. SameDocument /\ IsMount(mount)'
      <3>1. CASE mount' = mount
        BY <1>1, <3>1 DEF SameDocument, IsMount
      <3>2. CASE mount' = [mount EXCEPT !.needsResync = TRUE]
        BY <1>1, <3>2, Zenon DEF SameDocument, IsMount
      <3> QED BY <1>2, <3>1, <3>2
    <2>3. Whole'
      BY <1>1, <2>2, StaysWhole
    <2>4. CallInv(r)' /\ CallInv(a)'
      BY <2>1, <2>3 DEF CallInv
    <2> QED BY <1>2, <2>2, <2>3, <2>4 DEF MountInv
  <1>3. CASE /\ mount.state = base /\ mount.state # None /\ ~mount.needsResync
             /\ Uses(base) \ Uses(target) \subseteq mount.entries
             /\ mount' = mount /\ calls' = {c}
    <2>1. /\ IsCall(c) /\ c.at = "stage" /\ c.kind = "patch" /\ c.target = target /\ c.staged = {}
          /\ c.base = base /\ c.releases = Uses(base) \ Uses(target)
          /\ c.todo = Unmet(Uses(target) \ Uses(base), mount.entries)
      BY <1>0, Zenon DEF IsCall, Call
    <2>2. /\ c.todo \subseteq Uses(target)
          /\ Uses(target) \subseteq mount.entries \union c.todo \union Uses(base)
      BY <2>1 DEF Unmet
    <2>3. Complete(c) => Uses(base) \subseteq mount.entries
      BY <1>1, <1>3, <2>1, Zenon DEF Complete, Whole
    <2>4. Staging(c)
      BY <1>1, <1>3, <2>1, <2>2, <2>3 DEF Staging
    <2>5. CallInv(c)'
      BY <1>3, <2>1, <2>4, Zenon DEF CallInv, Staging, Complete, Whole, Uses
    <2> QED BY <1>1, <1>3, <2>5 DEF MountInv, IsMount
  <1> QED BY <1>0, <1>1, <1>2, <1>3 DEF ApplyPatch

\* There is no other call.
LEMMA OneCall == ASSUME MountInv, NEW c \in calls PROVE calls = {c}
  BY DEF MountInv

\* Answering the one call leaves it, answered.
LEMMA Answered ==
    ASSUME MountInv, NEW c \in calls, NEW at, Answer(c, at)
    PROVE  calls' = {[c EXCEPT !.at = at]}
  BY OneCall DEF Answer

\* stage loads the first font that is missing, or gives up.
LEMMA StageInv == ASSUME MountInv, NEW c \in calls, Stage(c) PROVE MountInv'
  <1>1. calls = {c} /\ CallInv(c) /\ Staging(c) /\ c.at = "stage" /\ c.kind # "dispose" /\ IsMount(mount)
    BY OneCall, Zenon DEF MountInv, Stage, CallInv
  <1>2. ASSUME NEW f \in c.todo, mount' = mount,
               calls' = (calls \ {c}) \union
                   {[c EXCEPT !.todo = Unmet(@ \ {f}, mount.entries), !.staged = @ \union {f}]}
        PROVE  MountInv'
    <2>0. PICK d : d = [c EXCEPT !.todo = Unmet(@ \ {f}, mount.entries), !.staged = @ \union {f}]
      OBVIOUS
    <2>1. /\ IsCall(d) /\ d.at = "stage" /\ d.kind = c.kind /\ d.base = c.base
          /\ d.target = c.target /\ d.releases = c.releases
          /\ d.todo = Unmet(c.todo \ {f}, mount.entries) /\ d.staged = c.staged \union {f}
      BY <1>1, <2>0, Zenon DEF IsCall, CallInv
    <2>2. d.todo \subseteq c.todo /\ (c.todo \ {f}) \subseteq d.todo \union mount.entries
      BY <2>1 DEF Unmet
    <2>3. Staging(d)
      BY <1>1, <2>1, <2>2 DEF Staging, Complete
    <2>4. CallInv(d)'
      BY <1>1, <1>2, <2>1, <2>3, Zenon DEF CallInv, Staging, Complete, Whole, Uses
    <2>5. calls' = {d}
      BY <1>1, <1>2, <2>0
    <2> QED BY <1>1, <1>2, <2>4, <2>5 DEF MountInv, IsMount
  <1>3. CASE /\ mount' = [mount EXCEPT !.needsResync = @ \/ c.kind = "patch"]
             /\ Answer(c, "error")
    <2> DEFINE d == [c EXCEPT !.at = "error"]
    <2>1. calls' = {d}
      BY <1>3, Answered
    <2>2. IsCall(d) /\ d.at = "error" /\ d.kind = c.kind
      BY <1>1 DEF IsCall, CallInv
    <2>3. SameDocument /\ IsMount(mount)'
      BY <1>1, <1>3, Zenon DEF IsMount, SameDocument
    <2> HIDE DEF d
    <2>4. Whole'
      BY <1>1, <2>3, StaysWhole DEF Staging
    <2>5. CallInv(d)'
      BY <1>1, <2>2, <2>4 DEF CallInv
    <2> QED BY <2>1, <2>3, <2>5 DEF MountInv
  <1> QED BY <1>2, <1>3, Zenon DEF Stage

\* The DOM is written and the registry settled at once, or the call has failed.
LEMMA PublishInv == ASSUME MountInv, NEW c \in calls, Publish(c) PROVE MountInv'
  <1>1. /\ calls = {c} /\ CallInv(c) /\ Staging(c) /\ c.at = "stage" /\ c.todo = {}
        /\ c.kind \in {"snapshot", "patch"} /\ IsMount(mount)
    BY OneCall DEF MountInv, Publish, CallInv
  <1>2. Commits(c)
    BY <1>1 DEF Commits, Staging
  <1>3. "snapshot" \notin mount.broken => Written(c) = c.target
    BY <1>1 DEF Written, Staging, Whole
  <1>4. CASE /\ mount' = [mount EXCEPT !.dom = Written(c), !.entries = Committed(c)]
             /\ Answer(c, "settle")
    <2> DEFINE d == [c EXCEPT !.at = "settle"]
    <2>1. calls' = {d}
      BY <1>4, Answered
    <2>2. IsCall(d) /\ d.at = "settle" /\ d.kind = c.kind /\ d.target = c.target
      BY <1>1 DEF IsCall, CallInv
    <2>3. /\ mount'.dom = Written(c) /\ mount'.entries = Committed(c)
          /\ mount'.broken = mount.broken /\ IsMount(mount)'
      BY <1>1, <1>4, Zenon DEF IsMount
    <2> HIDE DEF d
    <2>4. Complete(c) => Uses(c.target) \subseteq Committed(c)
      BY <1>1 DEF Committed, Staging
    <2>5. mount.broken = {} => Committed(c) = Uses(c.target)
      <3>1. mount.broken = {} => Complete(c) /\ mount.entries = Uses(mount.state)
        BY <1>1 DEF Complete, Staging, Whole
      <3> QED BY <1>1, <2>4, <3>1 DEF Committed, Staging
    <2>6. Settling(d)'
      BY <1>3, <2>2, <2>3, <2>4, <2>5, Zenon DEF Settling, Complete, Uses
    <2>7. CallInv(d)'
      BY <1>1, <2>2, <2>6 DEF CallInv
    <2> QED BY <2>1, <2>3, <2>7 DEF MountInv
  <1> DEFINE d == [c EXCEPT !.at = "failed"]
  <1>5. IsCall(d) /\ d.at = "failed" /\ d.kind = c.kind
    BY <1>1 DEF IsCall, CallInv
  <1>6. ASSUME NEW entries, mount' = Interrupted(c, entries), Answer(c, "failed")
        PROVE  MountInv'
    <2>1. calls' = {d}
      BY <1>6, Answered
    <2>2. mount'.state = mount.state /\ mount'.broken = mount.broken \union {c.kind} /\ IsMount(mount)'
      BY <1>1, <1>6, Zenon DEF IsMount, Interrupted
    <2> HIDE DEF d
    <2>3. Failing(d)'
      BY <1>1, <1>5, <2>2 DEF Failing, Staging
    <2>4. CallInv(d)'
      BY <1>1, <1>5, <2>3 DEF CallInv
    <2> QED BY <2>1, <2>2, <2>4 DEF MountInv
  <1>7. CASE c.kind = "patch" /\ mount' = [mount EXCEPT !.dom = Mixed] /\ Answer(c, "failed")
    <2>1. calls' = {d}
      BY <1>7, Answered
    <2>2. /\ mount'.state = mount.state /\ mount'.entries = mount.entries
          /\ mount'.broken = mount.broken /\ IsMount(mount)'
      BY <1>1, <1>7, Zenon DEF IsMount
    <2> HIDE DEF d
    <2>3. Failing(d)'
      BY <1>1, <1>5, <1>7, <2>2, Zenon DEF Failing, Staging, Whole, Uses
    <2>4. CallInv(d)'
      BY <1>1, <1>5, <2>3 DEF CallInv
    <2> QED BY <2>1, <2>2, <2>4 DEF MountInv
  <1> QED BY <1>2, <1>4, <1>6, <1>7, Zenon DEF Publish

\* The document of the page becomes the validated one.
LEMMA SettleInv == ASSUME MountInv, NEW c \in calls, Settle(c) PROVE MountInv'
  <1>1. calls = {c} /\ CallInv(c) /\ c.at = "settle" /\ Settling(c) /\ IsMount(mount)
    BY OneCall DEF MountInv, Settle, CallInv
  <1>2. PICK at \in {"ack", "error"} : Answer(c, at)
    BY DEF Settle
  <1> DEFINE d == [c EXCEPT !.at = at]
  <1>3. calls' = {d}
    BY <1>2, Answered
  <1>4. IsCall(d) /\ d.at = at /\ d.kind = c.kind
    BY <1>1 DEF IsCall, CallInv
  <1>5. /\ mount'.state = c.target /\ mount'.dom = mount.dom /\ mount'.broken = mount.broken
        /\ mount'.entries = mount.entries /\ IsMount(mount)'
    BY <1>1, Zenon DEF IsMount, Settle
  <1> HIDE DEF d
  <1>6. Whole'
    BY <1>1, <1>5, Zenon DEF Whole, Settling, Complete, Uses
  <1>7. CallInv(d)'
    BY <1>1, <1>2, <1>4, <1>6 DEF CallInv
  <1> QED BY <1>3, <1>5, <1>7 DEF MountInv

\* A failed patch puts the validated document back and asks for a snapshot.
LEMMA FailInv == ASSUME MountInv, NEW c \in calls, Fail(c) PROVE MountInv'
  <1>1. calls = {c} /\ CallInv(c) /\ c.at = "failed" /\ Failing(c) /\ IsMount(mount)
    BY OneCall DEF MountInv, Fail, CallInv
  <1> DEFINE d == [c EXCEPT !.at = "error"]
  <1>2. calls' = {d}
    BY Answered DEF Fail
  <1>3. IsCall(d) /\ d.at = "error" /\ d.kind = c.kind
    BY <1>1 DEF IsCall, CallInv
  <1>4. Whole' /\ IsMount(mount)'
    <2>1. CASE c.kind = "patch"
      <3>1. mount' = [mount EXCEPT !.dom = mount.state, !.needsResync = TRUE]
        BY <1>1, <2>1 DEF Fail, Failing
      <3>2. /\ mount'.state = mount.state /\ mount'.dom = mount.state /\ mount'.needsResync
            /\ mount'.entries = mount.entries /\ mount'.broken = mount.broken /\ IsMount(mount)'
        BY <1>1, <3>1, Zenon DEF IsMount
      <3> QED BY <1>1, <2>1, <3>2, Zenon DEF Whole, Failing, Uses
    <2>2. CASE c.kind # "patch"
      <3>1. mount' = mount /\ "snapshot" \in mount.broken
        BY <1>1, <2>2 DEF Fail, Failing
      <3> QED BY <1>1, <3>1 DEF Whole, IsMount
    <2> QED BY <2>1, <2>2
  <1> HIDE DEF d
  <1>5. CallInv(d)'
    BY <1>1, <1>3, <1>4 DEF CallInv
  <1> QED BY <1>2, <1>4, <1>5 DEF MountInv

\* dispose empties the registry, and then the page, or stops at a font.
LEMMA DisposeInv == ASSUME Serial, MountInv, Dispose PROVE MountInv'
  <1> DEFINE d == Call("dispose", None, None, {}, {}, "clear")
             r == Rejected("dispose")
  <1>1. calls = {} /\ Whole /\ IsMount(mount)
    BY Zenon DEF Dispose, MayCall, MountInv
  <1>2. CASE calls' = {d} /\ mount' = [mount EXCEPT !.disposed = TRUE, !.entries = {}]
    <2>1. mount'.entries = {} /\ IsMount(mount)'
      BY <1>1, <1>2, Zenon DEF IsMount
    <2>2. CallInv(d)'
      BY <2>1, Zenon DEF CallInv, IsCall, Call
    <2> QED BY <1>2, <2>1, <2>2 DEF MountInv
  <1>3. ASSUME calls' = {r}, NEW f,
               mount' = [mount EXCEPT !.disposed = TRUE, !.entries = {g \in @ : g >= f},
                                      !.broken = @ \union {"dispose"}]
        PROVE  MountInv'
    <2>1. /\ mount'.dom = mount.dom /\ mount'.state = mount.state
          /\ mount'.broken = mount.broken \union {"dispose"} /\ IsMount(mount)'
      BY <1>1, <1>3, Zenon DEF IsMount
    <2>2. Whole'
      BY <1>1, <2>1 DEF Whole
    <2>3. IsCall(r) /\ r.at = "error" /\ r.kind = "dispose"
      BY Zenon DEF IsCall, Rejected, Call
    <2> HIDE DEF r
    <2>4. CallInv(r)'
      BY <2>2, <2>3 DEF CallInv
    <2> QED BY <1>3, <2>1, <2>4 DEF MountInv
  <1> QED BY <1>1, <1>2, <1>3, Zenon DEF Dispose

\* The page and the validated document go together.
LEMMA ClearInv == ASSUME MountInv, NEW c \in calls, Clear(c) PROVE MountInv'
  <1>1. calls = {c} /\ CallInv(c) /\ c.at = "clear" /\ mount.entries = {} /\ IsMount(mount)
    BY OneCall DEF MountInv, Clear, CallInv
  <1> DEFINE d == [c EXCEPT !.at = "cleared"]
  <1>2. calls' = {d}
    BY Answered DEF Clear
  <1>3. IsCall(d) /\ d.at = "cleared" /\ d.kind = c.kind
    BY <1>1 DEF IsCall, CallInv
  <1>4. /\ mount'.state = None /\ mount'.dom = None
        /\ mount'.entries = {} /\ IsMount(mount)'
    BY <1>1, Zenon DEF IsMount, Clear
  <1> HIDE DEF d
  <1>5. CallInv(d)'
    BY <1>1, <1>3, <1>4 DEF CallInv, Whole, Uses
  <1> QED BY <1>2, <1>4, <1>5 DEF MountInv

\* The host takes note of a call that is answered.
LEMMA LearnsInv == ASSUME MountInv, HostLearns PROVE MountInv'
  <1>1. PICK c \in calls : c.at \in {"ack", "error", "cleared"} /\ calls' = calls \ {c}
    BY DEF HostLearns
  <1>2. calls' = {} /\ Whole /\ mount' = mount
    BY <1>1, OneCall DEF MountInv, CallInv, HostLearns
  <1> QED BY <1>2 DEF MountInv, IsMount, Whole, Uses

\* The invariant is about the mount alone.
LEMMA SameMount == ASSUME MountInv, UNCHANGED mountVars PROVE MountInv'
  <1>1. mount' = mount /\ calls' = calls
    BY DEF mountVars
  <1> QED BY <1>1 DEF MountInv, IsMount, CallInv, IsCall, Staging, Settling, Failing, Complete, Whole, Uses

\* Every step of the host, the worker and the mount keeps the invariant.
LEMMA StepInv == ASSUME Serial, MountInv, [Next]_vars PROVE MountInv'
  <1>1. CASE HostMounts
    BY <1>1, SnapshotInv, PatchInv DEF HostMounts
  <1>2. CASE HostLearns
    BY <1>2, LearnsInv
  <1>3. CASE HostDisposesMount
    BY <1>3, DisposeInv DEF HostDisposesMount
  <1>4. CASE MountContinues
    BY <1>4, StageInv, PublishInv, SettleInv, FailInv, ClearInv DEF MountContinues, Continue
  <1>5. CASE \/ Create \/ HostDrives \/ HostPatches \/ HostCancels \/ HostAcknowledges
             \/ HostResyncs \/ HostDisposes
    <2>1. UNCHANGED mountVars
      BY <1>5 DEF Create, HostDrives, HostPatches, HostCancels, HostAcknowledges,
                  HostResyncs, HostDisposes
    <2> QED BY <2>1, SameMount
  <1>6. CASE HostReceives \/ EndOfWorker \/ WorkerReceives \/ WorkerEnds
    <2>1. UNCHANGED mountVars
      BY <1>6 DEF HostReceives, EndOfWorker, WorkerReceives, WorkerEnds
    <2> QED BY <2>1, SameMount
  <1>7. CASE UNCHANGED vars
    <2>1. UNCHANGED mountVars
      BY <1>7 DEF vars
    <2> QED BY <2>1, SameMount
  <1> QED BY <1>1, <1>2, <1>3, <1>4, <1>5, <1>6, <1>7 DEF Next

\* With a host that waits for one call of the mount before it makes the next, the page
\* is one validated document whenever no call is at work, with its fonts unless a resync
\* is required, whatever fails to load, to apply or, in a patch, to commit, whatever
\* session the updates come from and whenever the mount is disposed; nothing is said
\* after a snapshot whose commit threw (HtmlPatchMount, HtmlResourceRegistry).
THEOREM PageIsWhole == ASSUME Serial PROVE Spec => []ShownDocumentIsWhole
  <1>1. Init => MountInv
    BY InitInv
  <1>2. MountInv /\ [Next]_vars => MountInv'
    BY StepInv
  <1>3. MountInv => ShownDocumentIsWhole
    BY InvIsWhole
  <1> QED BY <1>1, <1>2, <1>3, PTL DEF Spec
-----------------------------------------------------------------------------
\* A queue of messages, the ids in it, and that no two have the same.
IsSeq(s) == \E S : s \in Seq(S)
IdsIn(s) == {s[i].id : i \in DOMAIN s}
Distinct(s) == \A i, j \in DOMAIN s : s[i].id = s[j].id => i = j

Driven == {"create", "advance", "stabilize"}
Drive == [id : 1..MaxPending, phase : Driven, cancelled : BOOLEAN]

\* Request q is of operation op.
Asks(q, id, op) == q.id = id /\ q.op = op

\* Requests P, queues w and h and drive d of a worker: every id is in one place, the
\* queues and the drive have the operations that were asked for, and no two requests
\* exclude each other.
Served(P, w, h, d) ==
    /\ IsFiniteSet(P) /\ IsSeq(w) /\ IsSeq(h) /\ d \in Drive \union {None}
    /\ Distinct(w) /\ Distinct(h) /\ IdsIn(w) \intersect IdsIn(h) = {}
    /\ d # None => d.id \notin IdsIn(w) \union IdsIn(h)
    /\ {q.id : q \in P} = IdsIn(w) \union IdsIn(h) \union (IF d = None THEN {} ELSE {d.id})
    /\ {q.id : q \in P} \subseteq 1..MaxPending
    /\ \A i \in DOMAIN w : \E q \in P : Asks(q, w[i].id, w[i].op)
    /\ d # None => \E q \in P : Asks(q, d.id, d.phase)
    /\ \A q, r \in P : q.op \notin Concurrent /\ r.op \notin Concurrent => q = r

\* Without a worker there is nothing.
Serving ==
    /\ Served(pending, toWorker, toHost, drive)
    /\ ~up => pending = {} /\ toWorker = <<>> /\ toHost = <<>> /\ drive = None

\* A message is posted.
LEMMA AppendIds ==
    ASSUME NEW s, IsSeq(s), NEW m
    PROVE  /\ IsSeq(Append(s, m)) /\ IdsIn(Append(s, m)) = IdsIn(s) \union {m.id}
           /\ Distinct(s) /\ m.id \notin IdsIn(s) => Distinct(Append(s, m))
           /\ \A i \in DOMAIN Append(s, m) : Append(s, m)[i] = m \/ \E j \in DOMAIN s : Append(s, m)[i] = s[j]
<1>1. PICK S : s \in Seq(S)
  BY DEF IsSeq
<1> DEFINE t == Append(s, m)
<1>2. t \in Seq(S \union {m})
  <2>1. s \in Seq(S \union {m})
    BY <1>1
  <2> QED
    BY <2>1
<1>3. /\ Len(s) \in Nat /\ DOMAIN s = 1..Len(s) /\ DOMAIN t = 1..(Len(s) + 1)
      /\ \A i \in DOMAIN s : t[i] = s[i]
      /\ t[Len(s) + 1] = m
  BY <1>1
<1> HIDE DEF t
<1>4. \A i \in DOMAIN t : (i \in DOMAIN s /\ t[i] = s[i]) \/ (i = Len(s) + 1 /\ t[i] = m)
  BY <1>3
<1>5. IdsIn(t) = IdsIn(s) \union {m.id}
  <2>1. ASSUME NEW i \in DOMAIN t PROVE t[i].id \in IdsIn(s) \union {m.id}
    BY <1>4 DEF IdsIn
  <2>2. \A i \in DOMAIN s : s[i].id \in IdsIn(t)
    BY <1>3 DEF IdsIn
  <2>3. m.id \in IdsIn(t)
    BY <1>3 DEF IdsIn
  <2> QED
    BY <2>1, <2>2, <2>3 DEF IdsIn
<1>6. ASSUME Distinct(s), m.id \notin IdsIn(s), NEW i \in DOMAIN t, NEW j \in DOMAIN t, t[i].id = t[j].id
      PROVE  i = j
  BY <1>4, <1>6 DEF Distinct, IdsIn
<1> QED
  BY <1>2, <1>4, <1>5, <1>6 DEF IsSeq, Distinct, t

\* A message is taken.
LEMMA TailIds ==
    ASSUME NEW s, IsSeq(s), Distinct(s), s # <<>>
    PROVE  /\ IsSeq(Tail(s)) /\ Distinct(Tail(s))
           /\ 1 \in DOMAIN s /\ Head(s) = s[1] /\ Head(s).id \in IdsIn(s)
           /\ IdsIn(Tail(s)) = IdsIn(s) \ {Head(s).id}
           /\ \A i \in DOMAIN Tail(s) : \E j \in DOMAIN s : Tail(s)[i] = s[j]
<1>1. PICK S : s \in Seq(S)
  BY DEF IsSeq
<1> DEFINE t == Tail(s)
<1>2. t \in Seq(S) /\ Head(s) = s[1]
  BY <1>1
<1>3. /\ Len(s) \in Nat /\ DOMAIN s = 1..Len(s) /\ Len(s) # 0 /\ DOMAIN t = 1..(Len(s) - 1)
      /\ \A i \in DOMAIN t : t[i] = s[i + 1]
  BY <1>1
<1> HIDE DEF t
<1>4. 1 \in DOMAIN s /\ \A i \in DOMAIN t : i + 1 \in DOMAIN s /\ i + 1 # 1
  BY <1>3
<1>5. \A j \in DOMAIN s : j = 1 \/ (j - 1 \in DOMAIN t /\ t[j - 1] = s[j])
  <2> SUFFICES ASSUME NEW j \in DOMAIN s, j # 1 PROVE j - 1 \in DOMAIN t /\ t[j - 1] = s[j]
    OBVIOUS
  <2>1. j - 1 \in DOMAIN t /\ (j - 1) + 1 = j
    BY <1>3
  <2> QED
    BY <1>3, <2>1
<1>6. ASSUME NEW i \in DOMAIN t, NEW j \in DOMAIN t, t[i].id = t[j].id PROVE i = j
  <2>1. i + 1 = j + 1
    BY <1>3, <1>4, <1>6 DEF Distinct
  <2> QED
    BY <1>3, <2>1
<1>7. \A i \in DOMAIN t : t[i].id \in IdsIn(s) /\ t[i].id # s[1].id
  BY <1>3, <1>4 DEF IdsIn, Distinct
<1>8. \A j \in DOMAIN s : s[j].id = s[1].id \/ s[j].id \in IdsIn(t)
  BY <1>5 DEF IdsIn
<1>9. IdsIn(t) = IdsIn(s) \ {s[1].id}
  BY <1>7, <1>8 DEF IdsIn
<1>10. s[1].id \in IdsIn(s)
  BY <1>4 DEF IdsIn
<1>11. \A i \in DOMAIN t : \E j \in DOMAIN s : t[i] = s[j]
  BY <1>3, <1>4
<1> QED
  BY <1>2, <1>4, <1>6, <1>9, <1>10, <1>11 DEF IsSeq, Distinct, t

\* Fewer requests than ids leave an id.
LEMMA FreshIdFacts ==
    ASSUME IsFiniteSet(pending), Cardinality(pending) < MaxPending
    PROVE  FreshId \in 1..MaxPending /\ FreshId \notin Ids
<1> DEFINE f == [p \in pending |-> p.id]
<1>1. f \in Surjection(pending, Ids)
  BY DEF Ids, Surjection
<1>2. IsFiniteSet(Ids) /\ Cardinality(Ids) <= Cardinality(pending)
  BY <1>1, FS_Surjection
<1>3. Cardinality(Ids) \in Nat /\ Cardinality(pending) \in Nat
  BY <1>2, FS_CardinalityType
<1>4. ASSUME 1..MaxPending \subseteq Ids PROVE FALSE
  <2>1. 1 \in Int /\ MaxPending \in Int /\ MaxPending >= 1 /\ MaxPending - 1 + 1 = MaxPending
    BY RpcAssumption
  <2>2. Cardinality(1..MaxPending) = MaxPending
    BY <2>1, FS_Interval
  <2>3. Cardinality(1..MaxPending) <= Cardinality(Ids)
    BY <1>2, <1>4, FS_Subset, Zenon
  <2> QED
    BY <1>2, <1>3, <2>1, <2>2, <2>3
<1>5. \E i \in 1..MaxPending : i \notin Ids
  BY <1>4
<1> QED
  BY <1>5 DEF FreshId

\* The ids of a set of requests.
LEMMA AddedIds ==
    ASSUME NEW P, NEW q
    PROVE  {r.id : r \in P \union {q}} = {r.id : r \in P} \union {q.id}
  OBVIOUS

\* A request goes to the worker; only a cancellation overlaps another one.
LEMMA RequestServed ==
    ASSUME Serving, NEW op, NEW body, Request(op, body), UNCHANGED drive
    PROVE  Serving'
<1> DEFINE q == [id |-> FreshId, op |-> op]
           m == [id |-> FreshId, op |-> op, body |-> body]
           w == Append(toWorker, m)
           P == pending \union {q}
<1>0. /\ up /\ up' /\ pending' = P /\ toWorker' = w /\ toHost' = toHost
      /\ (pending = {} \/ op \in Concurrent) /\ Cardinality(pending) < MaxPending
  BY DEF Request
<1>1. Served(pending, toWorker, toHost, drive)
  BY DEF Serving
<1>2. IsFiniteSet(pending) /\ IsSeq(toWorker) /\ Distinct(toWorker)
  BY <1>1 DEF Served
<1>3. FreshId \in 1..MaxPending /\ FreshId \notin {r.id : r \in pending}
  BY <1>0, <1>2, FreshIdFacts DEF Ids
<1>4. q.id = FreshId /\ q.op = op /\ m.id = FreshId /\ m.op = op /\ q \in P
  OBVIOUS
<1> HIDE DEF q, m
<1>5. /\ FreshId \notin IdsIn(toWorker) /\ FreshId \notin IdsIn(toHost)
      /\ drive # None => drive.id # FreshId
  BY <1>1, <1>3 DEF Served
<1>6. /\ IsSeq(w) /\ IdsIn(w) = IdsIn(toWorker) \union {FreshId} /\ Distinct(w)
      /\ \A i \in DOMAIN w : w[i] = m \/ \E j \in DOMAIN toWorker : w[i] = toWorker[j]
  BY <1>2, <1>4, <1>5, AppendIds
<1>7. {r.id : r \in P} = {r.id : r \in pending} \union {FreshId}
  BY <1>4, AddedIds
<1>8. IsFiniteSet(P)
  BY <1>2, FS_AddElement
<1>9. \A r, s \in P : r.op \notin Concurrent /\ s.op \notin Concurrent => r = s
  <2>1. CASE pending = {}
    BY <2>1
  <2>2. CASE op \in Concurrent
    BY <1>1, <1>4, <2>2 DEF Served
  <2> QED
    BY <1>0, <2>1, <2>2
<1>10. \A i \in DOMAIN w : \E r \in P : Asks(r, w[i].id, w[i].op)
  <2>1. Asks(q, m.id, m.op)
    BY <1>4 DEF Asks
  <2>2. \A j \in DOMAIN toWorker : \E r \in P : Asks(r, toWorker[j].id, toWorker[j].op)
    BY <1>1 DEF Served
  <2> QED
    BY <1>4, <1>6, <2>1, <2>2
<1>11. drive # None => \E r \in P : Asks(r, drive.id, drive.phase)
  BY <1>1 DEF Served
<1> HIDE DEF w, P
<1>12. IdsIn(w) \intersect IdsIn(toHost) = {} /\ (drive # None => drive.id \notin IdsIn(w) \union IdsIn(toHost))
  BY <1>1, <1>5, <1>6 DEF Served
<1>13. {r.id : r \in P} = IdsIn(w) \union IdsIn(toHost) \union (IF drive = None THEN {} ELSE {drive.id})
  BY <1>1, <1>6, <1>7, Zenon DEF Served
<1>14. {r.id : r \in P} \subseteq 1..MaxPending
  BY <1>1, <1>3, <1>7 DEF Served
<1>15. IsSeq(toHost) /\ Distinct(toHost) /\ drive \in Drive \union {None}
  BY <1>1 DEF Served
<1>16. Served(P, w, toHost, drive)
  BY <1>6, <1>8, <1>9, <1>10, <1>11, <1>12, <1>13, <1>14, <1>15 DEF Served
<1> QED
  BY <1>0, <1>16 DEF Serving

\* The worker takes a message and answers it.
LEMMA AnswerServed ==
    ASSUME NEW P, NEW w, NEW h, NEW d, Served(P, w, h, d), w # <<>>, NEW m, m.id = Head(w).id,
           NEW e \in Drive \union {None}, (e = None) = (d = None),
           e # None => e.id = d.id /\ e.phase = d.phase
    PROVE  Served(P, Tail(w), Append(h, m), e)
<1> DEFINE x == Tail(w)
           y == Append(h, m)
<1>1. IsSeq(w) /\ Distinct(w) /\ IsSeq(h) /\ Distinct(h)
  BY DEF Served
<1>2. /\ IsSeq(x) /\ Distinct(x) /\ m.id \in IdsIn(w) /\ IdsIn(x) = IdsIn(w) \ {m.id}
      /\ \A i \in DOMAIN x : \E j \in DOMAIN w : x[i] = w[j]
  BY <1>1, TailIds
<1>3. m.id \notin IdsIn(h) /\ (d # None => d.id # m.id)
  BY <1>2 DEF Served
<1>4. IsSeq(y) /\ Distinct(y) /\ IdsIn(y) = IdsIn(h) \union {m.id}
  BY <1>1, <1>3, AppendIds
<1> HIDE DEF x, y
<1>5. \A i \in DOMAIN x : \E q \in P : Asks(q, x[i].id, x[i].op)
  BY <1>2 DEF Served
<1>6. e # None => \E q \in P : Asks(q, e.id, e.phase)
  BY DEF Served
<1>7. IdsIn(x) \intersect IdsIn(y) = {} /\ (e # None => e.id \notin IdsIn(x) \union IdsIn(y))
  BY <1>2, <1>3, <1>4 DEF Served
<1>8. {q.id : q \in P} = IdsIn(x) \union IdsIn(y) \union (IF e = None THEN {} ELSE {e.id})
  <2>1. {q.id : q \in P} = IdsIn(w) \union IdsIn(h) \union (IF d = None THEN {} ELSE {d.id})
    BY DEF Served
  <2>2. (IF d = None THEN {} ELSE {d.id}) = IF e = None THEN {} ELSE {e.id}
    OBVIOUS
  <2> QED
    BY <1>2, <1>4, <2>1, <2>2
<1>9. Served(P, x, y, e)
  BY <1>2, <1>4, <1>5, <1>6, <1>7, <1>8 DEF Served
<1> QED
  BY <1>9 DEF x, y

\* The worker takes a message and starts a drive: the slot is free, because the request
\* of another drive would exclude this one.
LEMMA DriveServed ==
    ASSUME NEW P, NEW w, NEW h, NEW d, Served(P, w, h, d), w # <<>>, Head(w).op \in Driven
    PROVE  Served(P, Tail(w), h, [id |-> Head(w).id, phase |-> Head(w).op, cancelled |-> FALSE])
<1> DEFINE x == Tail(w)
           e == [id |-> Head(w).id, phase |-> Head(w).op, cancelled |-> FALSE]
<1>1. IsSeq(w) /\ Distinct(w) /\ IsSeq(h) /\ Distinct(h)
  BY DEF Served
<1>2. /\ IsSeq(x) /\ Distinct(x) /\ 1 \in DOMAIN w /\ Head(w) = w[1] /\ Head(w).id \in IdsIn(w)
      /\ IdsIn(x) = IdsIn(w) \ {Head(w).id}
      /\ \A i \in DOMAIN x : \E j \in DOMAIN w : x[i] = w[j]
  BY <1>1, TailIds
<1>3. PICK q \in P : Asks(q, Head(w).id, Head(w).op)
  BY <1>2 DEF Served
<1>4. \A op \in Driven : op \notin Concurrent
  BY DEF Driven, Concurrent
<1>5. d = None
  <2> SUFFICES ASSUME d # None PROVE FALSE
    OBVIOUS
  <2>1. PICK r \in P : Asks(r, d.id, d.phase)
    BY DEF Served
  <2>2. d.phase \in Driven
    BY DEF Served, Drive
  <2>3. q = r
    BY <1>3, <1>4, <2>1, <2>2 DEF Served, Asks
  <2> QED
    BY <1>2, <1>3, <2>1, <2>3 DEF Served, Asks
<1>6. Head(w).id \in 1..MaxPending
  BY <1>2 DEF Served
<1>7. e \in Drive /\ e.id = Head(w).id /\ e.phase = Head(w).op
  BY <1>6 DEF Drive
<1>8. e # None
  BY <1>7, PreviewAssumption, Zenon DEF Drive, Driven
<1> HIDE DEF x, e
<1>9. \A i \in DOMAIN x : \E r \in P : Asks(r, x[i].id, x[i].op)
  BY <1>2 DEF Served
<1>10. IdsIn(x) \intersect IdsIn(h) = {} /\ e.id \notin IdsIn(x) \union IdsIn(h)
  BY <1>2, <1>7 DEF Served
<1>11. {r.id : r \in P} = IdsIn(x) \union IdsIn(h) \union {e.id}
  BY <1>2, <1>5, <1>7 DEF Served
<1>12. Served(P, x, h, e)
  BY <1>1, <1>2, <1>3, <1>7, <1>8, <1>9, <1>10, <1>11 DEF Served
<1> QED
  BY <1>12 DEF x, e

\* A drive ends with its reply.
LEMMA EndServed ==
    ASSUME NEW P, NEW w, NEW h, NEW d, Served(P, w, h, d), d # None, NEW m, m.id = d.id
    PROVE  Served(P, w, Append(h, m), None)
<1> DEFINE y == Append(h, m)
<1>1. IsSeq(h) /\ Distinct(h) /\ m.id \notin IdsIn(h) /\ m.id \notin IdsIn(w)
  BY DEF Served
<1>2. IsSeq(y) /\ Distinct(y) /\ IdsIn(y) = IdsIn(h) \union {m.id}
  BY <1>1, AppendIds
<1> HIDE DEF y
<1>3. IdsIn(w) \intersect IdsIn(y) = {} /\ {q.id : q \in P} = IdsIn(w) \union IdsIn(y)
  BY <1>1, <1>2 DEF Served
<1>4. Served(P, w, y, None)
  BY <1>2, <1>3 DEF Served
<1> QED
  BY <1>4 DEF y

\* A reply settles its request.
LEMMA FinishServed ==
    ASSUME NEW P, NEW w, NEW h, NEW d, Served(P, w, h, d), h # <<>>
    PROVE  Served({q \in P : q.id # Head(h).id}, w, Tail(h), d)
<1> DEFINE y == Tail(h)
           Q == {q \in P : q.id # Head(h).id}
<1>1. IsSeq(h) /\ Distinct(h)
  BY DEF Served
<1>2. IsSeq(y) /\ Distinct(y) /\ Head(h).id \in IdsIn(h) /\ IdsIn(y) = IdsIn(h) \ {Head(h).id}
  BY <1>1, TailIds
<1>3. {q.id : q \in Q} = {q.id : q \in P} \ {Head(h).id}
  OBVIOUS
<1>4. IsFiniteSet(Q)
  BY FS_Subset DEF Served
<1>5. Head(h).id \notin IdsIn(w) /\ (d # None => d.id # Head(h).id)
  BY <1>2 DEF Served
<1>6. \A i \in DOMAIN w : \E q \in Q : Asks(q, w[i].id, w[i].op)
  <2> TAKE i \in DOMAIN w
  <2>1. PICK q \in P : Asks(q, w[i].id, w[i].op)
    BY DEF Served
  <2>2. w[i].id # Head(h).id
    BY <1>5 DEF IdsIn
  <2>3. q \in Q
    BY <2>1, <2>2 DEF Asks
  <2> QED
    BY <2>1, <2>3
<1>7. d # None => \E q \in Q : Asks(q, d.id, d.phase)
  <2> SUFFICES ASSUME d # None PROVE \E q \in Q : Asks(q, d.id, d.phase)
    OBVIOUS
  <2>1. PICK q \in P : Asks(q, d.id, d.phase)
    BY DEF Served
  <2>2. q \in Q
    BY <1>5, <2>1 DEF Asks
  <2> QED
    BY <2>1, <2>2
<1>8. \A q, r \in Q : q.op \notin Concurrent /\ r.op \notin Concurrent => q = r
  BY DEF Served
<1> HIDE DEF y, Q
<1>9. IdsIn(w) \intersect IdsIn(y) = {} /\ (d # None => d.id \notin IdsIn(w) \union IdsIn(y))
  BY <1>2 DEF Served
<1>10. {q.id : q \in Q} = IdsIn(w) \union IdsIn(y) \union (IF d = None THEN {} ELSE {d.id})
  <2>1. {q.id : q \in P} = IdsIn(w) \union IdsIn(h) \union (IF d = None THEN {} ELSE {d.id})
    BY DEF Served
  <2> QED
    BY <1>2, <1>3, <1>5, <2>1
<1>11. {q.id : q \in Q} \subseteq 1..MaxPending
  BY <1>3 DEF Served
<1>12. Served(Q, w, y, d)
  BY <1>2, <1>4, <1>6, <1>7, <1>8, <1>9, <1>10, <1>11 DEF Served
<1> QED
  BY <1>12 DEF y, Q

\* Without a worker.
LEMMA NothingServed == Served({}, <<>>, <<>>, None)
<1>1. IsSeq(<<>>) /\ DOMAIN <<>> = {}
  BY DEF IsSeq
<1> QED
  BY <1>1, FS_EmptySet DEF Served, Distinct, IdsIn

\* terminate leaves nothing.
LEMMA TerminateServed == ASSUME Terminate, NoWorker PROVE Serving'
  BY NothingServed DEF Terminate, NoWorker, Serving

\* A new worker has one request.
LEMMA CreateServed == ASSUME Serving, Create PROVE Serving'
<1> DEFINE q == [id |-> 1, op |-> "create"]
           m == [id |-> 1, op |-> "create", body |-> None]
<1>1. /\ up' /\ pending' = {q} /\ toWorker' = <<m>> /\ toHost' = <<>> /\ drive' = None
  BY DEF Create, Serving
<1>2. /\ IsSeq(<<m>>) /\ DOMAIN <<m>> = {1} /\ <<m>>[1] = m
  <2>1. <<m>> \in Seq({m}) /\ DOMAIN <<m>> = {1} /\ <<m>>[1] = m
    OBVIOUS
  <2> QED
    BY <2>1, Zenon DEF IsSeq
<1>3. IsSeq(<<>>) /\ DOMAIN <<>> = {}
  BY DEF IsSeq
<1>4. m.id = 1 /\ m.op = "create" /\ q.id = 1 /\ q.op = "create" /\ 1 \in 1..MaxPending
  BY RpcAssumption
<1> HIDE DEF q, m
<1>5. IdsIn(<<m>>) = {1} /\ Distinct(<<m>>)
  BY <1>2, <1>4 DEF IdsIn, Distinct
<1>6. IdsIn(<<>>) = {} /\ Distinct(<<>>)
  BY <1>3 DEF IdsIn, Distinct
<1>7. IsFiniteSet({q}) /\ {r.id : r \in {q}} = {1}
  <2>1. IsFiniteSet({q})
    BY FS_Singleton, Zenon
  <2>2. {r.id : r \in {q}} = {1}
    BY <1>4
  <2> QED
    BY <2>1, <2>2
<1>8. \A i \in DOMAIN <<m>> : \E r \in {q} : Asks(r, <<m>>[i].id, <<m>>[i].op)
  BY <1>2, <1>4 DEF Asks
<1>9. Served({q}, <<m>>, <<>>, None)
  BY <1>2, <1>3, <1>4, <1>5, <1>6, <1>7, <1>8 DEF Served
<1> QED
  BY <1>1, <1>9 DEF Serving

\* The host's requests, the replies it takes and the end of a worker.
LEMMA HostServed ==
    ASSUME Serving,
           \/ HostDrives \/ HostPatches \/ HostCancels \/ HostAcknowledges \/ HostResyncs
           \/ HostDisposes \/ HostReceives \/ EndOfWorker
    PROVE  Serving'
<1>1. CASE HostDrives \/ HostPatches \/ HostCancels \/ HostAcknowledges \/ HostResyncs
  <2>1. UNCHANGED drive /\ \E op, body : Request(op, body)
    BY <1>1 DEF HostDrives, HostPatches, HostCancels, HostAcknowledges, HostResyncs, workerVars
  <2> QED
    BY <2>1, RequestServed
<1>2. CASE HostDisposes
  <2>1. (Request("dispose", None) /\ UNCHANGED drive) \/ (Terminate /\ NoWorker)
    BY <1>2 DEF HostDisposes, workerVars
  <2> QED
    BY <2>1, RequestServed, TerminateServed
<1>3. CASE HostReceives
  <2> DEFINE message == Head(toHost)
  <2>0. up /\ toHost # <<>> /\ Served(pending, toWorker, toHost, drive)
    BY <1>3, Zenon DEF HostReceives, Serving
  <2>1. message.id \in Ids
    <3>1. IsSeq(toHost) /\ Distinct(toHost)
      BY <2>0 DEF Served
    <3>2. message.id \in IdsIn(toHost)
      BY <2>0, <3>1, TailIds
    <3> QED
      BY <2>0, <3>2 DEF Served, Ids
  <2>2. (Terminate /\ NoWorker) \/ (Finish(message) /\ UNCHANGED drive)
    BY <1>3, <2>1, Zenon DEF HostReceives, workerVars
  <2>3. ASSUME Finish(message), UNCHANGED drive PROVE Serving'
    <3>1. Served({p \in pending : p.id # message.id}, toWorker, Tail(toHost), drive)
      BY <2>0, FinishServed
    <3>2. /\ pending' = {p \in pending : p.id # message.id} /\ toHost' = Tail(toHost)
          /\ UNCHANGED <<up, toWorker, drive>>
      BY <2>3 DEF Finish
    <3> QED
      BY <2>0, <3>1, <3>2 DEF Serving
  <2> QED
    BY <2>2, <2>3, TerminateServed
<1>4. CASE EndOfWorker
  <2>1. Terminate /\ NoWorker
    BY <1>4 DEF EndOfWorker, Timeout, WorkerFails, OwnerAborts
  <2> QED
    BY <2>1, TerminateServed
<1> QED
  BY <1>1, <1>2, <1>3, <1>4

\* The worker's two kinds of steps.
LEMMA WorkerServed == ASSUME Serving, WorkerReceives \/ WorkerEnds PROVE Serving'
<1>0. up /\ Served(pending, toWorker, toHost, drive)
  BY DEF WorkerReceives, WorkerEnds, Serving
<1>1. CASE WorkerReceives
  <2> DEFINE message == Head(toWorker)
  <2>0. toWorker # <<>> /\ (WorkerDrives(message) \/ WorkerAnswers(message))
    BY <1>1 DEF WorkerReceives
  <2>1. CASE WorkerDrives(message)
    <3>1. /\ toWorker' = Tail(toWorker) /\ message.op \in Driven /\ UNCHANGED <<up, pending, toHost>>
          /\ drive' = [id |-> message.id, phase |-> message.op, cancelled |-> FALSE]
      BY <2>1 DEF WorkerDrives, Handled, Driven
    <3>2. Served(pending', toWorker', toHost', drive')
      BY <1>0, <2>0, <3>1, DriveServed
    <3> QED
      BY <1>0, <3>1, <3>2 DEF Serving
  <2>2. CASE WorkerAnswers(message)
    <3>1. toWorker' = Tail(toWorker)
      BY <2>2 DEF WorkerAnswers, Handled
    <3>2. \E kind, update : Respond(message.id, kind, update)
      BY <2>2 DEF WorkerAnswers
    <3>3. UNCHANGED drive \/ \E phase, cancelled : CancelDrive(phase, cancelled)
      BY <2>2 DEF WorkerAnswers
    <3>4. PICK m : m.id = message.id /\ toHost' = Append(toHost, m) /\ UNCHANGED <<up, pending>>
      BY <3>2 DEF Respond, Reply
    <3>5. /\ drive' \in Drive \union {None} /\ (drive' = None) = (drive = None)
          /\ drive' # None => drive'.id = drive.id /\ drive'.phase = drive.phase
      <4>1. drive \in Drive \union {None}
        BY <1>0 DEF Served
      <4>2. UNCHANGED drive \/ (drive \in Drive /\ drive' = [drive EXCEPT !.cancelled = TRUE])
        BY <3>3, <4>1 DEF CancelDrive
      <4>3. CASE UNCHANGED drive
        BY <4>1, <4>3
      <4>4. CASE drive \in Drive /\ drive' = [drive EXCEPT !.cancelled = TRUE]
        <5>1. drive' \in Drive /\ drive'.id = drive.id /\ drive'.phase = drive.phase
          BY <4>4, Zenon DEF Drive
        <5>2. None \notin Drive
          BY PreviewAssumption DEF Drive, Driven
        <5> QED
          BY <4>4, <5>1, <5>2, Zenon
      <4> QED
        BY <4>2, <4>3, <4>4
    <3>6. Served(pending, Tail(toWorker), Append(toHost, m), drive')
      BY <1>0, <2>0, <3>4, <3>5, AnswerServed
    <3> QED
      BY <1>0, <3>1, <3>4, <3>6 DEF Serving
  <2> QED
    BY <2>0, <2>1, <2>2
<1>2. CASE WorkerEnds
  <2>1. drive # None /\ drive' = None /\ UNCHANGED toWorker
    BY <1>2 DEF WorkerEnds, Created, Cancelled, Advances, Stabilizes, Ends
  <2>2. \E kind, update : Respond(drive.id, kind, update)
    BY <1>2 DEF WorkerEnds, Created, Cancelled, Advances, Stabilizes, Ends
  <2>3. PICK m : m.id = drive.id /\ toHost' = Append(toHost, m) /\ UNCHANGED <<up, pending>>
    BY <2>2 DEF Respond, Reply
  <2>4. Served(pending, toWorker, Append(toHost, m), None)
    BY <1>0, <2>1, <2>3, EndServed
  <2> QED
    BY <1>0, <2>1, <2>3, <2>4 DEF Serving
<1> QED
  BY <1>1, <1>2

\* A queue has as many ids as messages.
LEMMA CountIds ==
    ASSUME NEW s, IsSeq(s), Distinct(s)
    PROVE  IsFiniteSet(IdsIn(s)) /\ Cardinality(IdsIn(s)) = Len(s) /\ Len(s) \in Nat
<1>1. Len(s) \in Nat /\ DOMAIN s = 1..Len(s)
  BY DEF IsSeq
<1> DEFINE f == [i \in 1..Len(s) |-> s[i].id]
<1>2. f \in Bijection(1..Len(s), IdsIn(s))
  <2>1. f \in [1..Len(s) -> IdsIn(s)]
    BY <1>1 DEF IdsIn
  <2>2. ASSUME NEW i \in 1..Len(s), NEW j \in 1..Len(s), f[i] = f[j] PROVE i = j
    BY <1>1, <2>2 DEF Distinct
  <2>3. ASSUME NEW x \in IdsIn(s) PROVE \E i \in 1..Len(s) : f[i] = x
    BY <1>1 DEF IdsIn
  <2> HIDE DEF f
  <2>4. f \in Injection(1..Len(s), IdsIn(s))
    BY <2>1, <2>2, Zenon DEF Injection, IsInjective
  <2>5. f \in Surjection(1..Len(s), IdsIn(s))
    BY <2>1, <2>3, Zenon DEF Surjection
  <2> QED
    BY <2>4, <2>5 DEF Bijection
<1>3. ExistsBijection(1..Len(s), IdsIn(s))
  BY <1>2 DEF ExistsBijection
<1>4. IsFiniteSet(1..Len(s)) /\ Cardinality(1..Len(s)) = Len(s)
  <2>1. 1 \in Int /\ Len(s) \in Int
    BY <1>1
  <2>2. /\ IsFiniteSet(1..Len(s))
        /\ Cardinality(1..Len(s)) = IF 1 > Len(s) THEN 0 ELSE Len(s) - 1 + 1
    BY <2>1, FS_Interval
  <2> QED
    BY <1>1, <2>2
<1> QED
  BY <1>1, <1>3, <1>4, FS_Bijection

\* The invariant, counted.
LEMMA ServedIsCounted == Serving => WorkerServesItsRequests
<1> SUFFICES ASSUME Serving PROVE WorkerServesItsRequests
  OBVIOUS
<1> DEFINE slot == IF drive = None THEN {} ELSE {drive.id}
           a == IdsIn(toWorker)
           b == IdsIn(toHost)
<1>0. Served(pending, toWorker, toHost, drive)
  BY DEF Serving
<1>1. /\ IsFiniteSet(a) /\ Cardinality(a) = Len(toWorker) /\ Len(toWorker) \in Nat
      /\ IsFiniteSet(b) /\ Cardinality(b) = Len(toHost) /\ Len(toHost) \in Nat
  BY <1>0, CountIds DEF Served
<1>2. IsFiniteSet(slot) /\ Cardinality(slot) = IF drive = None THEN 0 ELSE 1
  BY FS_EmptySet, FS_Singleton, Zenon
<1>3. Ids = (a \union b) \union slot /\ a \intersect b = {} /\ (a \union b) \intersect slot = {}
  BY <1>0 DEF Served, Ids
<1>4. {d.id : d \in {drive} \ {None}} = slot
  OBVIOUS
<1>5. Cardinality({}) = 0
  BY FS_EmptySet
<1> HIDE DEF a, b, slot
<1>6. IsFiniteSet(a \union b) /\ Cardinality(a \union b) = Cardinality(a) + Cardinality(b) - 0
  <2>1. /\ IsFiniteSet(a \union b)
        /\ Cardinality(a \union b) = Cardinality(a) + Cardinality(b) - Cardinality(a \intersect b)
    BY <1>1, FS_Union, Zenon
  <2> QED
    BY <1>3, <1>5, <2>1
<1>7. Cardinality(Ids) = Cardinality(a \union b) + Cardinality(slot) - 0
  <2>1. Cardinality((a \union b) \union slot)
           = Cardinality(a \union b) + Cardinality(slot) - Cardinality((a \union b) \intersect slot)
    BY <1>2, <1>6, FS_Union, Zenon
  <2> QED
    BY <1>3, <1>5, <2>1
<1>8. Cardinality(Ids) = Len(toWorker) + Len(toHost) + (IF drive = None THEN 0 ELSE 1)
  BY <1>1, <1>2, <1>6, <1>7
<1>9. Cardinality(Exclusive) <= 1
  <2>1. \A q, r \in Exclusive : q = r
    BY <1>0 DEF Served, Exclusive
  <2>2. Exclusive = {} \/ \E q : Exclusive = {q}
    BY <2>1
  <2>3. CASE Exclusive = {}
    BY <1>5, <2>3
  <2>4. ASSUME NEW q, Exclusive = {q} PROVE Cardinality(Exclusive) <= 1
    <3>1. Cardinality({q}) = 1
      BY FS_Singleton, Zenon
    <3> QED
      BY <2>4, <3>1
  <2> QED
    BY <2>2, <2>3, <2>4
<1> QED
  BY <1>3, <1>4, <1>8, <1>9 DEF WorkerServesItsRequests, a, b, IdsIn

\* With any number of requests in flight, the messages to a worker, its drive and its
\* replies are its client's requests, each once (WorkerServesItsRequests).
THEOREM RequestsAreServed == Spec => []WorkerServesItsRequests
<1>1. Init => Serving
  BY NothingServed DEF Init, Serving
<1>2. Serving /\ [Next]_vars => Serving'
  <2> SUFFICES ASSUME Serving, [Next]_vars PROVE Serving'
    OBVIOUS
  <2>1. CASE HostMounts \/ HostLearns \/ HostDisposesMount \/ MountContinues \/ UNCHANGED vars
    <3>1. UNCHANGED <<up, pending, toWorker, toHost, drive>>
      BY <2>1 DEF HostMounts, HostLearns, HostDisposesMount, MountContinues, vars, rpcVars, workerVars
    <3> QED
      BY <3>1 DEF Serving
  <2> QED
    BY <2>1, CreateServed, HostServed, WorkerServed DEF Next
<1> QED
  BY <1>1, <1>2, ServedIsCounted, PTL DEF Spec
=============================================================================
