-------------------------- MODULE ProjectWorkspace --------------------------
(***************************************************************************)
(* The project workspace of umber-vfs (resource.rs, limits.rs): the user   *)
(* and resolved storage layers and the resource ledger, as operators on a  *)
(* workspace record.  Every fallible operation returns [ws, res]: the      *)
(* workspace it leaves behind, which the code mutates in place, and the    *)
(* code's outcome or error.                                                *)
(*                                                                         *)
(* File bytes are members of Content; Size is their length and equality of *)
(* contents stands for equality of FileContentId digests.  A value bound   *)
(* to a key is a distribution path.  The accepted generated layer is the   *)
(* subject of CowStorage.                                                  *)
(*                                                                         *)
(* An operator named ..._Bug... is a deliberately wrong variant of the one *)
(* after it; nothing uses it but the mutation checks.                      *)
(***************************************************************************)
EXTENDS ResourceLifecycle

CONSTANTS
    JobPath,          \* canonical paths under /job
    Content,          \* file contents
    Size,             \* length in bytes of a content
    NoFile,           \* a path that holds nothing
    MaxOneFile,       \* VfsLimits.one_file_bytes
    MaxUserFiles,     \* VfsLimits.user_files
    MaxUserBytes,     \* VfsLimits.user_bytes
    MaxResolvedFiles, \* VfsLimits.resolved_files
    MaxResolvedBytes  \* VfsLimits.resolved_bytes

DistributionPath == Value

ASSUME ContentAssumption ==
    /\ Size \in [Content -> Nat]
    /\ NoFile \notin Content
    /\ IsFiniteSet(JobPath)
    /\ IsFiniteSet(DistributionPath)

ASSUME LimitAssumption ==
    /\ MaxOneFile \in Nat
    /\ MaxUserFiles \in Nat
    /\ MaxUserBytes \in Nat
    /\ MaxResolvedFiles \in Nat
    /\ MaxResolvedBytes \in Nat

UserLayer == [JobPath -> Content \cup {NoFile}]
ResolvedLayer == [DistributionPath -> Content \cup {NoFile}]

Workspace ==
    [user : UserLayer,
     resolved : ResolvedLayer,
     states : States,
     known_exists : SUBSET Key,
     user_bytes : Nat,
     resolved_bytes : Nat,
     required_at_batch_start : Nat]

NewWorkspace ==
    [user |-> [path \in JobPath |-> NoFile],
     resolved |-> [path \in DistributionPath |-> NoFile],
     states |-> ClearStates,
     known_exists |-> {},
     user_bytes |-> 0,
     resolved_bytes |-> 0,
     required_at_batch_start |-> 0]

Stored(layer) == {path \in DOMAIN layer : layer[path] # NoFile}
SizeOf(file) == IF file = NoFile THEN 0 ELSE Size[file]

Success == {"Inserted", "AlreadyPresent"}

(***************************************************************************)
(* User files and metadata.                                                *)
(***************************************************************************)
RegisterUser_BugOperands(ws, path, content) ==
    [ws |-> [ws EXCEPT !.user[path] = content,
                       !.user_bytes = @ + SizeOf(ws.user[path]) - Size[content]],
     res |-> "Inserted"]

RegisterUser(ws, path, content) ==
    LET existing   == ws.user[path]
        next_files == Cardinality(Stored(ws.user))
                          + (IF existing = NoFile THEN 1 ELSE 0)
        next_bytes == ws.user_bytes - SizeOf(existing) + Size[content]
    IN  IF \/ Size[content] > MaxOneFile
           \/ next_files > MaxUserFiles
           \/ ws.user_bytes < SizeOf(existing)
           \/ next_bytes > MaxUserBytes
        THEN [ws |-> ws, res |-> "LimitExceeded"]
        ELSE [ws |-> [ws EXCEPT !.user[path] = content,
                                !.user_bytes = next_bytes],
              res |-> IF existing = content THEN "AlreadyPresent" ELSE "Inserted"]

NoteExists(ws, key) ==
    IF IsBound(ws.states, key)
    THEN ws
    ELSE [ws EXCEPT !.known_exists = @ \cup {key}]

MarkReady(ws, key) == [ws EXCEPT !.known_exists = @ \ {key}]

(***************************************************************************)
(* Authorizing responses.                                                  *)
(***************************************************************************)
AuthorizePrefetchHints(ws, keys) ==
    [ws EXCEPT !.states = AuthorizeHints(@, keys)]

AuthorizeBlockingFile(ws, key, intent) ==
    [ws EXCEPT !.states = AuthorizeBlocking(@, key, intent)]

Expect(ws, required, probes, hints) ==
    LET states == BeginBatch(ws.states, required, probes, hints)
    IN  [ws EXCEPT !.states = states,
                   !.required_at_batch_start =
                        Cardinality(OutstandingBlocking(states))]

(***************************************************************************)
(* Admitting responses.  The byte total and the resolved layer are written *)
(* before the lifecycle decides, as in provision_inner.  A response with a *)
(* path outside /texlive, or with bytes that do not have the digest it     *)
(* promises, is refused before anything is read; it is not an input here.  *)
(***************************************************************************)
InsertBytes_BugCountsTwice(ws, path, content) ==
    [ws EXCEPT !.resolved[path] = content, !.resolved_bytes = @ + Size[content]]

InsertBytes(ws, path, content) ==
    IF ws.resolved[path] # NoFile
    THEN ws
    ELSE [ws EXCEPT !.resolved[path] = content,
                    !.resolved_bytes = @ + Size[content]]

BindPath(ws, key, path, require_expected) ==
    LET binding == IF require_expected
                   THEN Admit(ws.states, key, path)
                   ELSE Restore(ws.states, key, path)
        bound   == [ws EXCEPT !.states = binding.map]
    IN  IF binding.res \in Success
        THEN [ws |-> MarkReady(bound, key), res |-> "Inserted"]
        ELSE [ws |-> bound, res |-> binding.res]

ProvisionInner_BugLateCheck(ws, key, path, content, require_expected) ==
    BindPath(InsertBytes(ws, path, content), key, path, require_expected)

ProvisionInner(ws, key, path, content, require_expected) ==
    CASE Size[content] > MaxOneFile ->
            [ws |-> ws, res |-> "LimitExceeded"]
      [] Size[content] <= MaxOneFile /\ IsAdmitted(ws.states, key) ->
            IF ws.states[key].of = path /\ ws.resolved[path] = content
            THEN [ws |-> MarkReady(ws, key), res |-> "AlreadyPresent"]
            ELSE [ws |-> ws, res |-> "Conflict"]
      [] Size[content] <= MaxOneFile /\ IsUnavailable(ws.states, key) ->
            [ws |-> ws, res |-> "AvailabilityConflict"]
      [] Size[content] <= MaxOneFile /\ ~IsBound(ws.states, key) ->
            IF require_expected /\ ~IsOutstanding(ws.states, key)
            THEN [ws |-> ws, res |-> "Unexpected"]
            ELSE IF BindingCount(ws.states) + 1 > MaxResolvedFiles
            THEN [ws |-> ws, res |-> "LimitExceeded"]
            ELSE IF ws.resolved[path] \notin {NoFile, content}
            THEN [ws |-> ws, res |-> "PathConflict"]
            ELSE IF /\ ws.resolved[path] = NoFile
                    /\ ws.resolved_bytes + Size[content] > MaxResolvedBytes
            THEN [ws |-> ws, res |-> "LimitExceeded"]
            ELSE BindPath(InsertBytes(ws, path, content), key, path, require_expected)

Provision(ws, key, path, content) == ProvisionInner(ws, key, path, content, TRUE)

Preload(ws, key, path, content) == ProvisionInner(ws, key, path, content, FALSE)

ProvisionUnavailable_BugLimit(ws, key) ==
    IF IsBound(ws.states, key) \/ BindingCount(ws.states) > MaxResolvedFiles
    THEN [ws |-> ws, res |-> "LimitExceeded"]
    ELSE [ws  |-> MarkReady([ws EXCEPT !.states = AdmitUnavailable(@, key).map], key),
          res |-> "Inserted"]

ProvisionUnavailable_BugEvidence(ws, key) ==
    IF IsBound(ws.states, key) THEN [ws |-> ws, res |-> "AlreadyPresent"]
    ELSE [ws  |-> [ws EXCEPT !.states = AdmitUnavailable(@, key).map],
          res |-> AdmitUnavailable(ws.states, key).res]

ProvisionUnavailable(ws, key) ==
    CASE IsUnavailable(ws.states, key) -> [ws |-> ws, res |-> "AlreadyPresent"]
      [] IsAdmitted(ws.states, key) -> [ws |-> ws, res |-> "AvailabilityConflict"]
      [] ~IsBound(ws.states, key) ->
            IF BindingCount(ws.states) + 1 > MaxResolvedFiles
            THEN [ws |-> ws, res |-> "LimitExceeded"]
            ELSE LET binding == AdmitUnavailable(ws.states, key)
                     bound   == [ws EXCEPT !.states = binding.map]
                 IN  [ws  |-> IF binding.res = "Inserted"
                              THEN MarkReady(bound, key) ELSE bound,
                      res |-> binding.res]

(***************************************************************************)
(* provision_batch with two responses: the second works on the staged      *)
(* result of the first, and the stage replaces the workspace only when     *)
(* both succeed.                                                           *)
(***************************************************************************)
ProvisionBatch(ws, first, second) ==
    LET one == Provision(ws, first.key, first.path, first.content)
        two == Provision(one.ws, second.key, second.path, second.content)
    IN  IF one.res \notin Success THEN [ws |-> ws, res |-> one.res]
        ELSE IF two.res \notin Success THEN [ws |-> ws, res |-> two.res]
        ELSE [ws |-> two.ws, res |-> "Inserted"]

(***************************************************************************)
(* Ending a batch, and dropping bindings.                                  *)
(***************************************************************************)
Retry(ws) ==
    LET remaining == Cardinality(OutstandingBlocking(ws.states))
    IN  IF remaining = ws.required_at_batch_start /\ remaining # 0
        THEN [ws |-> ws, res |-> "NoProgress"]
        ELSE [ws |-> [ws EXCEPT !.required_at_batch_start = remaining], res |-> "Ok"]

CancelOutstandingResources(ws) ==
    LET states == CancelOutstanding(ws.states)
    IN  [ws EXCEPT !.states = states,
                   !.known_exists = {key \in @ : IsBound(states, key)},
                   !.required_at_batch_start = 0]

Clear(ws) ==
    [ws EXCEPT !.states = ClearStates,
               !.known_exists = {},
               !.resolved = [path \in DistributionPath |-> NoFile],
               !.resolved_bytes = 0,
               !.required_at_batch_start = 0]

(***************************************************************************)
(* Copying a candidate's resolved bindings into the accepted workspace.    *)
(* Both workspaces are clones of one another, so their limits are equal.   *)
(***************************************************************************)
PriorBindingKept_BugPathOnly(ws, source, key) ==
    IsBound(ws.states, key) => source.states[key] = ws.states[key]

PriorBindingKept(ws, source, key) ==
    CASE IsAdmitted(ws.states, key) ->
            /\ source.states[key] = ws.states[key]
            /\ source.resolved[ws.states[key].of] = ws.resolved[ws.states[key].of]
      [] IsUnavailable(ws.states, key) -> IsUnavailable(source.states, key)
      [] ~IsBound(ws.states, key) -> TRUE

CopyResolvedBindingsFrom_BugNoBytes(ws, source) ==
    IF \E key \in Key : ~PriorBindingKept(ws, source, key)
    THEN [ws |-> ws, res |-> "BindingCopyError"]
    ELSE [ws |-> [ws EXCEPT !.states = source.states, !.known_exists = source.known_exists],
          res |-> "Ok"]

CopyResolvedBindingsFrom(ws, source) ==
    IF \E key \in Key : ~PriorBindingKept(ws, source, key)
    THEN [ws |-> ws, res |-> "BindingCopyError"]
    ELSE [ws |-> [ws EXCEPT !.resolved = source.resolved,
                            !.states = source.states,
                            !.known_exists = source.known_exists,
                            !.resolved_bytes = source.resolved_bytes,
                            !.required_at_batch_start =
                                 source.required_at_batch_start],
          res |-> "Ok"]
=============================================================================
