--------------------------- MODULE WorkspaceLedger ---------------------------
(***************************************************************************)
(* The state machine of the umber-vfs workspace API: a session holds an    *)
(* accepted workspace and clones of it (candidates, admission stages), and *)
(* calls the public operations on any of them in any order.  A clone is    *)
(* later dropped, or its resolved bindings are copied back.                *)
(***************************************************************************)
EXTENDS ProjectWorkspace, FiniteSetsExt

CONSTANTS
    Handle,     \* the workspace values a session can own at once
    Dropped,    \* a handle that owns nothing
    RequestSet, \* the sets of keys a request batch or a hint list may hold
    BatchResponse, \* the responses a response batch may hold
    Unbound,    \* abstract answers, see BindingLedger
    Absent

VARIABLE workspaces

vars == workspaces

ASSUME HandleAssumption ==
    /\ Dropped \notin Workspace
    /\ Dropped \notin [Key -> Content \cup {Unbound, Absent}]
    /\ Unbound \notin Content
    /\ Absent \notin Content
    /\ Unbound # Absent
    /\ RequestSet \subseteq SUBSET Key
    /\ BatchResponse \subseteq [key : Key, path : DistributionPath, content : Content]

Live(h) == workspaces[h] # Dropped

Init == \E first \in Handle :
            workspaces = [h \in Handle |-> IF h = first THEN NewWorkspace ELSE Dropped]

Become(h, ws) == workspaces' = [workspaces EXCEPT ![h] = ws]

(***************************************************************************)
(* The public calls.                                                       *)
(***************************************************************************)
DoRegisterUser(h) ==
    \E path \in JobPath, content \in Content :
        Become(h, RegisterUser(workspaces[h], path, content).ws)

DoNoteExists(h) ==
    \E key \in Key : Become(h, NoteExists(workspaces[h], key))

DoAuthorizePrefetchHints(h) ==
    \E keys \in RequestSet : Become(h, AuthorizePrefetchHints(workspaces[h], keys))

DoAuthorizeBlockingFile(h) ==
    \E key \in Key, intent \in {Probe, Required} :
        Become(h, AuthorizeBlockingFile(workspaces[h], key, intent))

DoExpect(h) ==
    \E required, probes, hints \in RequestSet :
        Become(h, Expect(workspaces[h], required, probes, hints))

DoProvision(h) ==
    \E key \in Key, path \in DistributionPath, content \in Content :
        Become(h, Provision(workspaces[h], key, path, content).ws)

DoPreload(h) ==
    \E key \in Key, path \in DistributionPath, content \in Content :
        Become(h, Preload(workspaces[h], key, path, content).ws)

DoProvisionUnavailable(h) ==
    \E key \in Key : Become(h, ProvisionUnavailable(workspaces[h], key).ws)

DoProvisionBatch(h) ==
    \E first, second \in BatchResponse :
        Become(h, ProvisionBatch(workspaces[h], first, second).ws)

DoRetry(h) == Become(h, Retry(workspaces[h]).ws)

DoCancelOutstanding(h) == Become(h, CancelOutstandingResources(workspaces[h]))

DoClear(h) == Become(h, Clear(workspaces[h]))

DoCopyResolvedBindings(h, g) ==
    /\ Live(g)
    /\ Become(h, CopyResolvedBindingsFrom(workspaces[h], workspaces[g]).ws)

DoClone(h, g) == ~Live(g) /\ Become(g, workspaces[h])

DoDrop(h) == (\E g \in Handle \ {h} : Live(g)) /\ Become(h, Dropped)

Next ==
    \E h \in Handle :
        /\ Live(h)
        /\ \/ DoRegisterUser(h)
           \/ DoNoteExists(h)
           \/ DoAuthorizePrefetchHints(h)
           \/ DoAuthorizeBlockingFile(h)
           \/ DoExpect(h)
           \/ DoProvision(h)
           \/ DoPreload(h)
           \/ DoProvisionUnavailable(h)
           \/ DoProvisionBatch(h)
           \/ DoRetry(h)
           \/ DoCancelOutstanding(h)
           \/ DoClear(h)
           \/ \E g \in Handle \ {h} : DoCopyResolvedBindings(h, g) \/ DoClone(h, g)
           \/ DoDrop(h)

Spec == Init /\ [][Next]_vars
-----------------------------------------------------------------------------
(***************************************************************************)
(* Properties.                                                             *)
(***************************************************************************)

(* Every handle owns a well-formed workspace or nothing. *)
TypeOK == workspaces \in [Handle -> Workspace \cup {Dropped}]

(* Every admitted key names a path that still has bytes: the lookups that  *)
(* the code ends in expect("provisioned request paths remain registered")  *)
(* and expect("prior resolved binding has bytes") never fail, although     *)
(* bytes are shared by several keys and replaced as a whole by Clear and   *)
(* by copying a candidate's layer.                                         *)
AdmittedKeysHaveBytes ==
    \A h \in Handle : Live(h) =>
        \A key \in Key :
            IsAdmitted(workspaces[h].states, key) =>
                workspaces[h].resolved[workspaces[h].states[key].of] # NoFile

(* Readiness evidence never contradicts a binding: a key that is already   *)
(* ready or authoritatively absent is not also "known to exist, bytes not  *)
(* here yet", in whichever order metadata, answers and copies arrived.     *)
KnownExistsIsUnbound ==
    \A h \in Handle : Live(h) =>
        \A key \in workspaces[h].known_exists : ~IsBound(workspaces[h].states, key)

(* No sequence of calls, failed ones and copies between workspaces         *)
(* included, takes a workspace over one of its limits.                     *)
WithinLimits ==
    \A h \in Handle : Live(h) =>
        /\ BindingCount(workspaces[h].states) <= MaxResolvedFiles
        /\ workspaces[h].resolved_bytes <= MaxResolvedBytes
        /\ Cardinality(Stored(workspaces[h].user)) <= MaxUserFiles
        /\ workspaces[h].user_bytes <= MaxUserBytes

(* The bytes of the files a layer holds, each path counted once. *)
TotalSize(layer) ==
    MapThenSumSet(LAMBDA path : SizeOf(layer[path]), DOMAIN layer)

(* The byte totals the limits are checked against, which the operations    *)
(* keep by adding and subtracting, are the sizes of the files actually     *)
(* stored, although a path is shared by several keys and a layer is        *)
(* replaced as a whole by Clear and by copying.                            *)
BytesAccounted ==
    \A h \in Handle : Live(h) =>
        /\ workspaces[h].resolved_bytes = TotalSize(workspaces[h].resolved)
        /\ workspaces[h].user_bytes = TotalSize(workspaces[h].user)

(* provision_inner assigns the byte total and the resolved layer before it *)
(* asks the lifecycle to bind the key; still, an operation that reports an *)
(* error leaves the workspace as it was, so a caller may go on using it.   *)
FailedAdmissionChangesNothing ==
    \A h \in Handle : Live(h) =>
        \A key \in Key, path \in DistributionPath, content \in Content :
            \A result \in {Provision(workspaces[h], key, path, content),
                           Preload(workspaces[h], key, path, content),
                           ProvisionUnavailable(workspaces[h], key)} :
                result.res \notin Success => result.ws = workspaces[h]

(***************************************************************************)
(* Every live workspace, seen as the map from keys to the content they     *)
(* deliver, is a write-once ledger: neither the path bound to a key nor    *)
(* the bytes stored under that path change under the key.                  *)
(***************************************************************************)
AnswerIn(ws, key) ==
    CASE IsAdmitted(ws.states, key) -> ws.resolved[ws.states[key].of]
      [] IsUnavailable(ws.states, key) -> Absent
      [] ~IsBound(ws.states, key) -> Unbound

AnswersOf(h) ==
    IF Live(h) THEN [key \in Key |-> AnswerIn(workspaces[h], key)] ELSE Dropped

Ledger == INSTANCE BindingLedger
              WITH bindings <- [h \in Handle |-> AnswersOf(h)]

(* The workspace API implements BindingLedger: an answered key keeps its   *)
(* answer until clear() forgets all of them.                               *)
BindingsAreWriteOnce == Ledger!Spec
=============================================================================
