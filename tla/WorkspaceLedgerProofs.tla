------------------------ MODULE WorkspaceLedgerProofs ------------------------
(***************************************************************************)
(* Proofs about WorkspaceLedger for every finite set of keys and paths,    *)
(* every set of contents and every limit.                                  *)
(*                                                                         *)
(* Sound(ws) is the inductive invariant of one workspace.  The operations  *)
(* are treated one lemma each; the step theorem combines them.             *)
(***************************************************************************)
EXTENDS WorkspaceLedger, FiniteSetTheorems, NaturalsInduction, WellFoundedInduction, TLAPS

HasBytes(ws) ==
    \A key \in Key :
        IsAdmitted(ws.states, key) => ws.resolved[ws.states[key].of] # NoFile

KnownUnbound(ws) == \A key \in ws.known_exists : ~IsBound(ws.states, key)

Sound(ws) == ws \in Workspace /\ HasBytes(ws) /\ KnownUnbound(ws)

(* Every key bound in "old" has in "new" the same binding and, if it is    *)
(* admitted, the same content.                                             *)
Kept(new, old) ==
    \A key \in Key : IsBound(old.states, key) =>
        /\ new.states[key] = old.states[key]
        /\ IsAdmitted(old.states, key) =>
              new.resolved[old.states[key].of] = old.resolved[old.states[key].of]

Preserves(new, old) == Sound(new) /\ Kept(new, old)

IInv == TypeOK /\ \A h \in Handle : Live(h) => Sound(workspaces[h])

-----------------------------------------------------------------------------
(* Authorizing keys keeps the map well formed and leaves bound keys alone. *)
LEMMA AuthorizeKeepsBindings ==
    ASSUME NEW states \in States, NEW keys, NEW intent \in RequestIntent
    PROVE  /\ Authorize(states, keys, intent) \in States
           /\ \A key \in Key :
                /\ IsBound(states, key)
                      => Authorize(states, keys, intent)[key] = states[key]
                /\ IsBound(Authorize(states, keys, intent), key)
                      => IsBound(states, key)
BY DEF Authorize, States, AdmissionState, IsBound, IsOutstanding, Outstanding,
       Vacant, Unavailable, RequestIntent

(* Cancelling outstanding requests keeps exactly the bound keys. *)
LEMMA CancelKeepsBindings ==
    ASSUME NEW states \in States
    PROVE  /\ CancelOutstanding(states) \in States
           /\ \A key \in Key :
                /\ IsBound(states, key)
                      => CancelOutstanding(states)[key] = states[key]
                /\ IsBound(CancelOutstanding(states), key)
                      => IsBound(states, key)
BY DEF CancelOutstanding, States, AdmissionState, IsBound, IsOutstanding,
       Vacant, Unavailable

(* A new batch never touches a binding of an earlier one. *)
LEMMA BeginBatchKeepsBindings ==
    ASSUME NEW states \in States, NEW required, NEW probes, NEW hints
    PROVE  /\ BeginBatch(states, required, probes, hints) \in States
           /\ \A key \in Key :
                /\ IsBound(states, key)
                      => BeginBatch(states, required, probes, hints)[key] = states[key]
                /\ IsBound(BeginBatch(states, required, probes, hints), key)
                      => IsBound(states, key)
<1> DEFINE s0 == CancelOutstanding(states)
           s1 == Authorize(s0, hints, PrefetchHint)
           s2 == Authorize(s1, probes, Probe)
           s3 == Authorize(s2, required, Required)
<1>1. s0 \in States /\ \A key \in Key :
         (IsBound(states, key) => s0[key] = states[key]) /\ (IsBound(s0, key) => IsBound(states, key))
  BY CancelKeepsBindings
<1>2. s1 \in States /\ \A key \in Key :
         (IsBound(s0, key) => s1[key] = s0[key]) /\ (IsBound(s1, key) => IsBound(s0, key))
  <2> HIDE DEF s0
  <2> QED BY <1>1, AuthorizeKeepsBindings DEF RequestIntent
<1>3. s2 \in States /\ \A key \in Key :
         (IsBound(s1, key) => s2[key] = s1[key]) /\ (IsBound(s2, key) => IsBound(s1, key))
  <2> HIDE DEF s1
  <2> QED BY <1>2, AuthorizeKeepsBindings DEF RequestIntent
<1>4. s3 \in States /\ \A key \in Key :
         (IsBound(s2, key) => s3[key] = s2[key]) /\ (IsBound(s3, key) => IsBound(s2, key))
  <2> HIDE DEF s2
  <2> QED BY <1>3, AuthorizeKeepsBindings DEF RequestIntent
<1>5. BeginBatch(states, required, probes, hints) = s3
  BY DEF BeginBatch
<1> HIDE DEF s0, s1, s2, s3
<1> QED BY <1>1, <1>2, <1>3, <1>4, <1>5 DEF IsBound

(* The counts kept by the ledger are natural numbers. *)
LEMMA CountsAreNat ==
    ASSUME NEW states
    PROVE  /\ Cardinality(OutstandingBlocking(states)) \in Nat
           /\ BindingCount(states) \in Nat
BY KeyAssumption, FS_Subset, FS_CardinalityType DEF OutstandingBlocking, BindingCount, Bound

-----------------------------------------------------------------------------
(***************************************************************************)
(* One lemma per operation: it takes a sound workspace to a sound one,    *)
(* and, unless it is clear(), keeps every binding.                         *)
(***************************************************************************)

(* Dropping a readiness mark keeps a workspace sound. *)
LEMMA MarkReadyPreserves ==
    ASSUME NEW ws, Sound(ws), NEW key \in Key
    PROVE  Preserves(MarkReady(ws, key), ws)
BY DEF Preserves, Kept, Sound, Workspace, MarkReady, HasBytes, KnownUnbound

(* register_user writes only the user layer and its total. *)
LEMMA RegisterUserPreserves ==
    ASSUME NEW ws, Sound(ws), NEW path \in JobPath, NEW content \in Content
    PROVE  Preserves(RegisterUser(ws, path, content).ws, ws)
<1>1. Size[content] \in Nat /\ SizeOf(ws.user[path]) \in Nat
  BY ContentAssumption DEF Sound, Workspace, UserLayer, SizeOf
<1>2. ws.user_bytes \in Nat
  BY DEF Sound, Workspace
<1>3. CASE RegisterUser(ws, path, content).ws = ws
  BY <1>3 DEF Preserves, Kept
<1>4. CASE /\ ws.user_bytes >= SizeOf(ws.user[path])
           /\ RegisterUser(ws, path, content).ws =
                [ws EXCEPT !.user[path] = content,
                           !.user_bytes = ws.user_bytes - SizeOf(ws.user[path]) + Size[content]]
  <2>1. ws.user_bytes - SizeOf(ws.user[path]) + Size[content] \in Nat
    BY <1>1, <1>2, <1>4
  <2> DEFINE new == RegisterUser(ws, path, content).ws
  <2>2. new \in Workspace
    <3> DEFINE user == [ws.user EXCEPT ![path] = content]
               bytes == ws.user_bytes - SizeOf(ws.user[path]) + Size[content]
    <3>1. user \in UserLayer
      BY DEF Sound, Workspace, UserLayer
    <3>2. new = [ws EXCEPT !.user = user, !.user_bytes = bytes]
      BY <1>4
    <3> HIDE DEF user, bytes, new
    <3> QED BY <3>1, <3>2, <2>1, Zenon DEF Sound, Workspace, bytes
  <2>3. /\ new.states = ws.states
        /\ new.resolved = ws.resolved
        /\ new.known_exists = ws.known_exists
    BY <1>4 DEF Sound, Workspace
  <2> QED BY <2>2, <2>3 DEF Preserves, Kept, Sound, HasBytes, KnownUnbound
<1>5. \/ RegisterUser(ws, path, content).ws = ws
      \/ /\ ~(ws.user_bytes < SizeOf(ws.user[path]))
         /\ RegisterUser(ws, path, content).ws =
                [ws EXCEPT !.user[path] = content,
                           !.user_bytes = ws.user_bytes - SizeOf(ws.user[path]) + Size[content]]
  BY DEF RegisterUser
<1> QED BY <1>1, <1>2, <1>3, <1>4, <1>5

(* note_exists only marks keys that are not bound. *)
LEMMA NoteExistsPreserves ==
    ASSUME NEW ws, Sound(ws), NEW key \in Key
    PROVE  Preserves(NoteExists(ws, key), ws)
BY DEF NoteExists, Preserves, Kept, Sound, Workspace, HasBytes, KnownUnbound

(* Replacing the lifecycle map by one with the same bindings keeps a       *)
(* workspace sound, whatever the new batch counter is.                     *)
LEMMA SameBindingsPreserves ==
    ASSUME NEW ws, Sound(ws), NEW states \in States, NEW known \in SUBSET ws.known_exists,
           NEW count \in Nat,
           \A key \in Key :
                /\ IsBound(ws.states, key) => states[key] = ws.states[key]
                /\ IsBound(states, key) => IsBound(ws.states, key)
    PROVE  Preserves([ws EXCEPT !.states = states, !.known_exists = known,
                                !.required_at_batch_start = count], ws)
BY Zenon DEF Preserves, Kept, Sound, Workspace, HasBytes, KnownUnbound, IsBound, IsAdmitted

(* The four operations that only move keys between vacant and outstanding. *)
LEMMA AuthorizePreserves ==
    ASSUME NEW ws, Sound(ws), NEW keys, NEW intent \in RequestIntent
    PROVE  Preserves([ws EXCEPT !.states = Authorize(ws.states, keys, intent)], ws)
<1>1. ws \in Workspace /\ ws.states \in States
  BY DEF Sound, Workspace
<1> DEFINE s == Authorize(ws.states, keys, intent)
<1>2. /\ s \in States
      /\ \A key \in Key : /\ IsBound(ws.states, key) => s[key] = ws.states[key]
                          /\ IsBound(s, key) => IsBound(ws.states, key)
  BY <1>1, AuthorizeKeepsBindings
<1> HIDE DEF s
<1>3. ws.required_at_batch_start \in Nat
  BY <1>1 DEF Workspace
<1>4. [ws EXCEPT !.states = s] =
      [ws EXCEPT !.states = s, !.known_exists = ws.known_exists,
                 !.required_at_batch_start = ws.required_at_batch_start]
  BY <1>1, Zenon DEF Workspace
<1>5. ws.known_exists \in SUBSET ws.known_exists
  OBVIOUS
<1>6. Preserves([ws EXCEPT !.states = s, !.known_exists = ws.known_exists,
                           !.required_at_batch_start = ws.required_at_batch_start], ws)
  BY <1>2, <1>3, <1>5, SameBindingsPreserves, Zenon
<1> QED BY <1>4, <1>6 DEF s

(* A new batch keeps a workspace sound and its bindings. *)
LEMMA ExpectPreserves ==
    ASSUME NEW ws, Sound(ws), NEW required, NEW probes, NEW hints
    PROVE  Preserves(Expect(ws, required, probes, hints), ws)
<1>1. ws \in Workspace /\ ws.states \in States
  BY DEF Sound, Workspace
<1> DEFINE s == BeginBatch(ws.states, required, probes, hints)
           n == Cardinality(OutstandingBlocking(s))
<1>2. /\ s \in States
      /\ \A key \in Key : /\ IsBound(ws.states, key) => s[key] = ws.states[key]
                          /\ IsBound(s, key) => IsBound(ws.states, key)
  BY <1>1, BeginBatchKeepsBindings
<1>3. n \in Nat
  BY CountsAreNat
<1>4. Expect(ws, required, probes, hints) =
      [ws EXCEPT !.states = s, !.known_exists = ws.known_exists,
                 !.required_at_batch_start = n]
  BY <1>1, Zenon DEF Workspace, Expect
<1>5. ws.known_exists \in SUBSET ws.known_exists
  OBVIOUS
<1> HIDE DEF s, n
<1>6. Preserves([ws EXCEPT !.states = s, !.known_exists = ws.known_exists,
                           !.required_at_batch_start = n], ws)
  BY <1>2, <1>3, <1>5, SameBindingsPreserves, Zenon
<1> QED BY <1>4, <1>6

(* Cancelling a batch forgets unanswered keys and their evidence only. *)
LEMMA CancelPreserves ==
    ASSUME NEW ws, Sound(ws)
    PROVE  Preserves(CancelOutstandingResources(ws), ws)
<1>1. ws \in Workspace /\ ws.states \in States
  BY DEF Sound, Workspace
<1> DEFINE s == CancelOutstanding(ws.states)
           k == {key \in ws.known_exists : IsBound(s, key)}
<1>2. /\ s \in States
      /\ \A key \in Key : /\ IsBound(ws.states, key) => s[key] = ws.states[key]
                          /\ IsBound(s, key) => IsBound(ws.states, key)
  BY <1>1, CancelKeepsBindings
<1>3. k \in SUBSET ws.known_exists
  OBVIOUS
<1>4. CancelOutstandingResources(ws) =
      [ws EXCEPT !.states = s, !.known_exists = k, !.required_at_batch_start = 0]
  BY <1>1 DEF Workspace, CancelOutstandingResources
<1> HIDE DEF s, k
<1>5. Preserves([ws EXCEPT !.states = s, !.known_exists = k, !.required_at_batch_start = 0], ws)
  BY <1>2, <1>3, SameBindingsPreserves, Zenon
<1> QED BY <1>4, <1>5

(* retry() changes nothing but the batch counter. *)
LEMMA RetryPreserves ==
    ASSUME NEW ws, Sound(ws)
    PROVE  Preserves(Retry(ws).ws, ws)
BY CountsAreNat DEF Retry, Preserves, Kept, Sound, Workspace, HasBytes, KnownUnbound

(* clear() leaves a sound workspace, without any binding. *)
LEMMA ClearSound ==
    ASSUME NEW ws, Sound(ws)
    PROVE  Sound(Clear(ws))
BY Zenon DEF Clear, ClearStates, Sound, Workspace, States, AdmissionState, Vacant, Unavailable,
       ResolvedLayer, HasBytes, KnownUnbound, IsBound, IsAdmitted

(* InsertBytes stores the content under a free path, or finds it there.    *)
LEMMA InsertBytesPreserves ==
    ASSUME NEW ws, Sound(ws), NEW path \in DistributionPath, NEW content \in Content
    PROVE  /\ Preserves(InsertBytes(ws, path, content), ws)
           /\ InsertBytes(ws, path, content).states = ws.states
           /\ InsertBytes(ws, path, content).resolved[path] # NoFile
<1> DEFINE new == InsertBytes(ws, path, content)
<1>1. CASE ws.resolved[path] # NoFile
  BY <1>1 DEF InsertBytes, Preserves, Kept
<1>2. CASE ws.resolved[path] = NoFile
  <2> DEFINE layer == [ws.resolved EXCEPT ![path] = content]
             total == ws.resolved_bytes + Size[content]
  <2>1. layer \in ResolvedLayer /\ layer[path] = content
    BY DEF Sound, Workspace, ResolvedLayer
  <2>2. total \in Nat
    BY ContentAssumption DEF Sound, Workspace
  <2>3. \A other \in DistributionPath :
            ws.resolved[other] # NoFile => layer[other] = ws.resolved[other]
    BY <1>2 DEF Sound, Workspace, ResolvedLayer
  <2>4. new = [ws EXCEPT !.resolved = layer, !.resolved_bytes = total]
    BY <1>2 DEF InsertBytes
  <2>5. \A key \in Key : IsAdmitted(ws.states, key) => ws.states[key].of \in DistributionPath
    BY DEF Sound, Workspace, States, AdmissionState, IsAdmitted, Vacant, Unavailable,
           DistributionPath
  <2> HIDE DEF layer, total, new
  <2>6. new \in Workspace /\ new.states = ws.states /\ new.resolved = layer
           /\ new.known_exists = ws.known_exists
    BY <2>1, <2>2, <2>4, Zenon DEF Sound, Workspace
  <2>7. Kept(new, ws)
    BY <2>3, <2>5, <2>6 DEF Sound, HasBytes, Kept
  <2>8. Sound(new)
    BY <2>3, <2>5, <2>6 DEF Sound, HasBytes, KnownUnbound
  <2>9. new.resolved[path] # NoFile
    BY <2>1, <2>6, ContentAssumption
  <2> QED BY <2>6, <2>7, <2>8, <2>9 DEF Preserves, new
<1> QED BY <1>1, <1>2

(* Binding an unbound key to a path with bytes, or to "absent".            *)
LEMMA BindPreserves ==
    ASSUME NEW ws, Sound(ws), NEW key \in Key, ~IsBound(ws.states, key),
           NEW state \in AdmissionState,
           state.tag = "Admitted" => ws.resolved[state.of] # NoFile
    PROVE  Preserves(MarkReady([ws EXCEPT !.states = [ws.states EXCEPT ![key] = state]], key), ws)
<1> DEFINE states == [ws.states EXCEPT ![key] = state]
           new == MarkReady([ws EXCEPT !.states = states], key)
<1>1. states \in States /\ states[key] = state
           /\ \A other \in Key \ {key} : states[other] = ws.states[other]
  BY DEF Sound, Workspace, States
<1> HIDE DEF states
<1>2. new \in Workspace /\ new.states = states /\ new.resolved = ws.resolved
           /\ new.known_exists = ws.known_exists \ {key}
  BY <1>1, Zenon DEF Sound, Workspace, MarkReady
<1> HIDE DEF new
<1>3. Kept(new, ws)
  BY <1>1, <1>2 DEF Kept, IsBound
<1>4. HasBytes(new)
  BY <1>1, <1>2 DEF Sound, HasBytes, IsAdmitted
<1>5. KnownUnbound(new)
  BY <1>1, <1>2 DEF Sound, Workspace, KnownUnbound, IsBound
<1> QED BY <1>2, <1>3, <1>4, <1>5 DEF Preserves, Sound, states, new

(* Keeping bindings is transitive. *)
LEMMA PreservesTransitive ==
    ASSUME NEW a, NEW b, NEW c, Preserves(b, a), Preserves(c, b)
    PROVE  Preserves(c, a)
BY DEF Preserves, Kept, IsBound, IsAdmitted

(* What provision_inner leaves behind when it binds the key. *)
Provided(ws, key, path, content) ==
    LET stored == InsertBytes(ws, path, content)
    IN  MarkReady([stored EXCEPT !.states = [stored.states EXCEPT ![key] = Admitted(path)]], key)

(* provision_inner, with or without a required authorization, changes      *)
(* nothing, forgets a readiness mark, or stores and binds within the       *)
(* limits: the late lifecycle error after the bytes were stored cannot     *)
(* happen.                                                                 *)
LEMMA ProvisionInnerShape ==
    ASSUME NEW ws, Sound(ws), NEW key \in Key, NEW path \in DistributionPath,
           NEW content \in Content, NEW req \in BOOLEAN
    PROVE  LET result == ProvisionInner(ws, key, path, content, req)
           IN  \/ result.ws = ws
               \/ result = [ws |-> MarkReady(ws, key), res |-> "AlreadyPresent"]
               \/ /\ ~IsBound(ws.states, key)
                  /\ ~(BindingCount(ws.states) + 1 > MaxResolvedFiles)
                  /\ \/ ws.resolved[path] # NoFile
                     \/ ~(ws.resolved_bytes + Size[content] > MaxResolvedBytes)
                  /\ result = [ws |-> Provided(ws, key, path, content), res |-> "Inserted"]
<1> DEFINE result == ProvisionInner(ws, key, path, content, req)
           stored == InsertBytes(ws, path, content)
           fits   == /\ ~(BindingCount(ws.states) + 1 > MaxResolvedFiles)
                     /\ \/ ws.resolved[path] # NoFile
                        \/ ~(ws.resolved_bytes + Size[content] > MaxResolvedBytes)
<1>1. stored.states = ws.states
  BY InsertBytesPreserves
<1>2. ASSUME ~IsBound(ws.states, key), req => IsOutstanding(ws.states, key)
      PROVE  BindPath(stored, key, path, req) =
                [ws |-> Provided(ws, key, path, content), res |-> "Inserted"]
  <2>1. stored.states[key].tag \in {"Outstanding", "Vacant"}
            /\ (req => stored.states[key].tag = "Outstanding")
    BY <1>1, <1>2 DEF Sound, Workspace, States, AdmissionState, IsBound, IsOutstanding,
                      Vacant, Unavailable
  <2> HIDE DEF stored
  <2> DEFINE binding == [map |-> [stored.states EXCEPT ![key] = Admitted(path)],
                         res |-> "Inserted"]
  <2>2. req => Admit(stored.states, key, path) = binding
    BY <2>1 DEF Admit, Admitted
  <2>3. Restore(stored.states, key, path) = binding
    BY <2>1 DEF Restore, Admitted
  <2>4. (IF req THEN Admit(stored.states, key, path)
                ELSE Restore(stored.states, key, path)) = binding
    BY <2>2, <2>3
  <2>5. BindPath(stored, key, path, req) =
            [ws |-> MarkReady([stored EXCEPT !.states = binding.map], key),
             res |-> "Inserted"]
    <3>1. binding.res \in Success
      BY DEF Success
    <3> HIDE DEF binding
    <3> QED BY <2>4, <3>1 DEF BindPath
  <2> QED BY <2>5 DEF Provided, stored
<1>3. \/ result.ws = ws
      \/ result = [ws |-> MarkReady(ws, key), res |-> "AlreadyPresent"]
      \/ /\ ~IsBound(ws.states, key)
         /\ req => IsOutstanding(ws.states, key)
         /\ fits
         /\ result = BindPath(stored, key, path, req)
  <2>1. CASE Size[content] > MaxOneFile
    BY <2>1 DEF ProvisionInner
  <2>2. CASE Size[content] <= MaxOneFile /\ IsAdmitted(ws.states, key)
    <3>1. ~(Size[content] > MaxOneFile)
      BY <2>2, ContentAssumption, LimitAssumption
    <3>2. ~IsUnavailable(ws.states, key) /\ IsBound(ws.states, key)
      BY <2>2 DEF IsAdmitted, IsUnavailable, IsBound
    <3> QED BY <2>2, <3>1, <3>2 DEF ProvisionInner
  <2>3. CASE Size[content] <= MaxOneFile /\ IsUnavailable(ws.states, key)
    <3>1. ~(Size[content] > MaxOneFile)
      BY <2>3, ContentAssumption, LimitAssumption
    <3>2. ~IsAdmitted(ws.states, key) /\ IsBound(ws.states, key)
      BY <2>3 DEF IsAdmitted, IsUnavailable, IsBound
    <3> QED BY <2>3, <3>1, <3>2 DEF ProvisionInner
  <2>4. CASE Size[content] <= MaxOneFile /\ ~IsBound(ws.states, key)
    <3>1. ~(Size[content] > MaxOneFile)
      BY <2>4, ContentAssumption, LimitAssumption
    <3>2. ~IsAdmitted(ws.states, key) /\ ~IsUnavailable(ws.states, key)
      BY <2>4 DEF IsAdmitted, IsUnavailable, IsBound
    <3> DEFINE full  == BindingCount(ws.states) + 1 > MaxResolvedFiles
               large == ws.resolved_bytes + Size[content] > MaxResolvedBytes
    <3>3. result = IF req /\ ~IsOutstanding(ws.states, key)
                   THEN [ws |-> ws, res |-> "Unexpected"]
                   ELSE IF full
                   THEN [ws |-> ws, res |-> "LimitExceeded"]
                   ELSE IF ws.resolved[path] \notin {NoFile, content}
                   THEN [ws |-> ws, res |-> "PathConflict"]
                   ELSE IF ws.resolved[path] = NoFile /\ large
                   THEN [ws |-> ws, res |-> "LimitExceeded"]
                   ELSE BindPath(stored, key, path, req)
      BY <2>4, <3>1, <3>2 DEF ProvisionInner
    <3> HIDE DEF full, large, stored, result
    <3>4. \/ result.ws = ws
          \/ /\ req => IsOutstanding(ws.states, key)
             /\ ~full
             /\ ws.resolved[path] # NoFile \/ ~large
             /\ result = BindPath(stored, key, path, req)
      BY <3>3
    <3> QED BY <2>4, <3>4 DEF full, large
  <2>5. Size[content] > MaxOneFile \/ Size[content] <= MaxOneFile
    BY ContentAssumption, LimitAssumption
  <2> QED BY <2>1, <2>2, <2>3, <2>4, <2>5, Zenon DEF IsAdmitted, IsUnavailable, IsBound
<1> HIDE DEF result, stored, fits
<1>4. \/ result.ws = ws
      \/ result = [ws |-> MarkReady(ws, key), res |-> "AlreadyPresent"]
      \/ /\ ~IsBound(ws.states, key)
         /\ fits
         /\ result = [ws |-> Provided(ws, key, path, content), res |-> "Inserted"]
  BY <1>2, <1>3
<1> QED BY <1>4 DEF result, fits

(* provision_inner keeps every binding and reports an error only when it   *)
(* changed nothing.                                                        *)
LEMMA ProvisionInnerPreserves ==
    ASSUME NEW ws, Sound(ws), NEW key \in Key, NEW path \in DistributionPath,
           NEW content \in Content, NEW req \in BOOLEAN
    PROVE  LET result == ProvisionInner(ws, key, path, content, req)
           IN  /\ Preserves(result.ws, ws)
               /\ result.res \notin Success => result.ws = ws
<1> DEFINE result == ProvisionInner(ws, key, path, content, req)
           stored == InsertBytes(ws, path, content)
           bound  == Provided(ws, key, path, content)
<1>0. Preserves(ws, ws)
  BY DEF Preserves, Kept
<1>1. Preserves(stored, ws) /\ stored.states = ws.states /\ stored.resolved[path] # NoFile
  BY InsertBytesPreserves
<1>2. ASSUME ~IsBound(ws.states, key) PROVE Preserves(bound, ws)
  <2>1. Admitted(path) \in AdmissionState /\ Admitted(path).tag = "Admitted"
            /\ Admitted(path).of = path
    BY DEF AdmissionState, Admitted, DistributionPath
  <2>2. Sound(stored) /\ ~IsBound(stored.states, key)
    BY <1>1, <1>2 DEF Preserves
  <2>3. bound = MarkReady([stored EXCEPT !.states =
                              [stored.states EXCEPT ![key] = Admitted(path)]], key)
    BY DEF Provided
  <2> HIDE DEF stored, bound
  <2>4. Preserves(bound, stored)
    BY <1>1, <2>1, <2>2, <2>3, BindPreserves
  <2> QED BY <1>1, <2>4, PreservesTransitive
<1>3. Preserves(MarkReady(ws, key), ws)
  BY MarkReadyPreserves
<1>4. \/ result.ws = ws
      \/ result = [ws |-> MarkReady(ws, key), res |-> "AlreadyPresent"]
      \/ /\ ~IsBound(ws.states, key)
         /\ result = [ws |-> bound, res |-> "Inserted"]
  BY ProvisionInnerShape
<1> HIDE DEF result, bound
<1>5. Preserves(result.ws, ws)
  BY <1>0, <1>2, <1>3, <1>4
<1>6. result.res \notin Success => result.ws = ws
  BY <1>4 DEF Success
<1> QED BY <1>5, <1>6 DEF result

(* What provision_unavailable leaves behind when it binds the key. *)
Denied(ws, key) ==
    MarkReady([ws EXCEPT !.states = [ws.states EXCEPT ![key] = Unavailable]], key)

(* provision_unavailable binds an unbound key to "absent", within the      *)
(* limit, or changes nothing.                                              *)
LEMMA ProvisionUnavailableShape ==
    ASSUME NEW ws, Sound(ws), NEW key \in Key
    PROVE  LET result == ProvisionUnavailable(ws, key)
           IN  \/ result.ws = ws
               \/ /\ ~IsBound(ws.states, key)
                  /\ ~(BindingCount(ws.states) + 1 > MaxResolvedFiles)
                  /\ result = [ws |-> Denied(ws, key), res |-> "Inserted"]
<1> DEFINE result == ProvisionUnavailable(ws, key)
           bound  == Denied(ws, key)
           full   == BindingCount(ws.states) + 1 > MaxResolvedFiles
<1>0. ws \in Workspace
  BY DEF Sound
<1>1. ws.states[key] \in AdmissionState
  BY DEF Sound, Workspace, States
<1>3. ASSUME ~IsBound(ws.states, key)
      PROVE  \/ AdmitUnavailable(ws.states, key) =
                  [map |-> [ws.states EXCEPT ![key] = Unavailable], res |-> "Inserted"]
             \/ /\ AdmitUnavailable(ws.states, key).map = ws.states
                /\ AdmitUnavailable(ws.states, key).res \in {"NegativeHint", "Unexpected"}
  <2>1. ws.states[key].tag \in {"Outstanding", "Vacant"}
    BY <1>1, <1>3 DEF AdmissionState, IsBound, Vacant, Unavailable
  <2> QED BY <2>1 DEF AdmitUnavailable
<1>4. \/ result.ws = ws
      \/ /\ ~IsBound(ws.states, key)
         /\ ~full
         /\ result = [ws |-> bound, res |-> "Inserted"]
  <2>1. CASE IsBound(ws.states, key)
    BY <2>1 DEF ProvisionUnavailable, IsBound, IsAdmitted, IsUnavailable
  <2>2. CASE ~IsBound(ws.states, key)
    <3> DEFINE binding == AdmitUnavailable(ws.states, key)
    <3>1. ~IsUnavailable(ws.states, key) /\ ~IsAdmitted(ws.states, key)
      BY <2>2 DEF IsBound, IsAdmitted, IsUnavailable
    <3>2. result = IF full
                   THEN [ws |-> ws, res |-> "LimitExceeded"]
                   ELSE [ws |-> IF binding.res = "Inserted"
                                THEN MarkReady([ws EXCEPT !.states = binding.map], key)
                                ELSE [ws EXCEPT !.states = binding.map],
                         res |-> binding.res]
      BY <2>2, <3>1 DEF ProvisionUnavailable
    <3>3. [ws EXCEPT !.states = ws.states] = ws
      BY <1>0 DEF Workspace
    <3>4. CASE binding = [map |-> [ws.states EXCEPT ![key] = Unavailable], res |-> "Inserted"]
      <4> HIDE DEF full
      <4> QED BY <2>2, <3>2, <3>4 DEF Denied
    <3>5. CASE binding.map = ws.states /\ binding.res \in {"NegativeHint", "Unexpected"}
      <4> HIDE DEF full, binding, result
      <4>1. [ws EXCEPT !.states = binding.map] = ws
        BY <3>3, <3>5
      <4>2. binding.res # "Inserted"
        BY <3>5
      <4> QED BY <3>2, <4>1, <4>2
    <3> QED BY <1>3, <2>2, <3>4, <3>5
  <2> QED BY <2>1, <2>2
<1> HIDE DEF result, bound, full
<1> QED BY <1>4 DEF result, bound, full

(* provision_unavailable keeps every binding and reports an error only     *)
(* when it changed nothing.                                                *)
LEMMA ProvisionUnavailablePreserves ==
    ASSUME NEW ws, Sound(ws), NEW key \in Key
    PROVE  LET result == ProvisionUnavailable(ws, key)
           IN  /\ Preserves(result.ws, ws)
               /\ result.res \notin Success => result.ws = ws
<1> DEFINE result == ProvisionUnavailable(ws, key)
           bound  == Denied(ws, key)
<1>0. Preserves(ws, ws)
  BY DEF Preserves, Kept
<1>1. ASSUME ~IsBound(ws.states, key) PROVE Preserves(bound, ws)
  <2>1. Unavailable \in AdmissionState /\ Unavailable.tag # "Admitted"
    BY DEF AdmissionState, Unavailable
  <2> QED BY <1>1, <2>1, BindPreserves DEF Denied
<1>2. \/ result.ws = ws
      \/ /\ ~IsBound(ws.states, key)
         /\ result = [ws |-> bound, res |-> "Inserted"]
  BY ProvisionUnavailableShape
<1> HIDE DEF result, bound
<1> QED BY <1>0, <1>1, <1>2 DEF Success, result

(* provision_batch is two provisions on a stage, or nothing. *)
LEMMA ProvisionBatchPreserves ==
    ASSUME NEW ws, Sound(ws), NEW first \in BatchResponse, NEW second \in BatchResponse
    PROVE  Preserves(ProvisionBatch(ws, first, second).ws, ws)
<1> DEFINE one == Provision(ws, first.key, first.path, first.content)
           two == Provision(one.ws, second.key, second.path, second.content)
<1>0. Preserves(ws, ws)
  BY DEF Preserves, Kept
<1>1. /\ first.key \in Key /\ first.path \in DistributionPath /\ first.content \in Content
      /\ second.key \in Key /\ second.path \in DistributionPath /\ second.content \in Content
  BY HandleAssumption
<1>2. Preserves(one.ws, ws)
  BY <1>1, ProvisionInnerPreserves, Zenon DEF Provision
<1>3. Preserves(two.ws, one.ws)
  <2>1. Sound(one.ws)
    BY <1>2 DEF Preserves
  <2> HIDE DEF one
  <2> QED BY <1>1, <2>1, ProvisionInnerPreserves, Zenon DEF Provision
<1>4. \/ ProvisionBatch(ws, first, second).ws = ws
      \/ ProvisionBatch(ws, first, second).ws = two.ws
  BY Zenon DEF ProvisionBatch
<1> HIDE DEF one, two
<1> QED BY <1>0, <1>2, <1>3, <1>4, PreservesTransitive

(* copy_resolved_bindings_from takes the source's layer and ledger only    *)
(* after every prior binding was found unchanged in it.                    *)
LEMMA CopyPreserves ==
    ASSUME NEW ws, Sound(ws), NEW source, Sound(source)
    PROVE  Preserves(CopyResolvedBindingsFrom(ws, source).ws, ws)
<1> DEFINE new == CopyResolvedBindingsFrom(ws, source).ws
<1>1. CASE \E key \in Key : ~PriorBindingKept(ws, source, key)
  BY <1>1 DEF CopyResolvedBindingsFrom, Preserves, Kept
<1>2. CASE \A key \in Key : PriorBindingKept(ws, source, key)
  <2>1. /\ new \in Workspace
        /\ new.states = source.states
        /\ new.resolved = source.resolved
        /\ new.known_exists = source.known_exists
    BY <1>2, Zenon DEF CopyResolvedBindingsFrom, Sound, Workspace
  <2> HIDE DEF new
  <2>2. Sound(new)
    BY <2>1 DEF Sound, HasBytes, KnownUnbound
  <2>3. ASSUME NEW key \in Key, IsBound(ws.states, key)
        PROVE  /\ new.states[key] = ws.states[key]
               /\ IsAdmitted(ws.states, key) =>
                     new.resolved[ws.states[key].of] = ws.resolved[ws.states[key].of]
    <3>1. PriorBindingKept(ws, source, key)
      BY <1>2
    <3>2. CASE IsAdmitted(ws.states, key)
      <4>1. ~IsUnavailable(ws.states, key) /\ IsBound(ws.states, key)
        BY <3>2 DEF IsAdmitted, IsUnavailable, IsBound
      <4> QED BY <2>1, <3>1, <3>2, <4>1 DEF PriorBindingKept
    <3>3. CASE IsUnavailable(ws.states, key)
      <4>1. ~IsAdmitted(ws.states, key) /\ IsBound(ws.states, key)
        BY <3>3 DEF IsAdmitted, IsUnavailable, IsBound
      <4>2. IsUnavailable(source.states, key)
        BY <3>1, <3>3, <4>1 DEF PriorBindingKept
      <4>3. source.states[key] = Unavailable /\ ws.states[key] = Unavailable
        BY <3>3, <4>2 DEF Sound, Workspace, States, AdmissionState, IsUnavailable,
                          Unavailable, Vacant
      <4> QED BY <2>1, <4>1, <4>3
    <3> QED BY <2>3, <3>2, <3>3, Zenon DEF IsBound, IsAdmitted, IsUnavailable
  <2> QED BY <2>2, <2>3, Zenon DEF Preserves, Kept, new
<1> QED BY <1>1, <1>2

-----------------------------------------------------------------------------
(***************************************************************************)
(* Steps of the session.  Every step either takes one live workspace to    *)
(* one that keeps its bindings, clears it, clones it into a free handle,   *)
(* or drops it.                                                            *)
(***************************************************************************)
LearnStep(h) == \E new : Preserves(new, workspaces[h]) /\ Become(h, new)

(* Every step of Next has one of the four shapes. *)
LEMMA StepShapes ==
    ASSUME IInv, Next
    PROVE  \E h \in Handle :
              /\ Live(h)
              /\ Sound(workspaces[h])
              /\ \/ LearnStep(h)
                 \/ DoClear(h)
                 \/ \E g \in Handle \ {h} : DoClone(h, g)
                 \/ DoDrop(h)
<1>1. PICK h \in Handle :
        /\ Live(h)
        /\ \/ DoRegisterUser(h) \/ DoNoteExists(h) \/ DoAuthorizePrefetchHints(h)
           \/ DoAuthorizeBlockingFile(h) \/ DoExpect(h) \/ DoProvision(h) \/ DoPreload(h)
           \/ DoProvisionUnavailable(h) \/ DoProvisionBatch(h) \/ DoRetry(h)
           \/ DoCancelOutstanding(h) \/ DoClear(h)
           \/ \E g \in Handle \ {h} : DoCopyResolvedBindings(h, g) \/ DoClone(h, g)
           \/ DoDrop(h)
  BY DEF Next
<1>2. Sound(workspaces[h])
  BY <1>1 DEF IInv
<1>3. ASSUME DoRegisterUser(h) PROVE LearnStep(h)
  BY <1>2, <1>3, RegisterUserPreserves DEF DoRegisterUser, LearnStep
<1>4. ASSUME DoNoteExists(h) PROVE LearnStep(h)
  BY <1>2, <1>4, NoteExistsPreserves DEF DoNoteExists, LearnStep
<1>5. ASSUME DoAuthorizePrefetchHints(h) PROVE LearnStep(h)
  <2>1. PrefetchHint \in RequestIntent
    BY DEF RequestIntent
  <2> QED BY <1>2, <1>5, <2>1, AuthorizePreserves
          DEF DoAuthorizePrefetchHints, AuthorizePrefetchHints, AuthorizeHints, LearnStep
<1>6. ASSUME DoAuthorizeBlockingFile(h) PROVE LearnStep(h)
  <2>1. {Probe, Required} \subseteq RequestIntent
    BY DEF RequestIntent
  <2> QED BY <1>2, <1>6, <2>1, AuthorizePreserves
          DEF DoAuthorizeBlockingFile, AuthorizeBlockingFile, AuthorizeBlocking, LearnStep
<1>7. ASSUME DoExpect(h) PROVE LearnStep(h)
  BY <1>2, <1>7, ExpectPreserves DEF DoExpect, LearnStep
<1>8. ASSUME DoProvision(h) PROVE LearnStep(h)
  BY <1>2, <1>8, ProvisionInnerPreserves, Zenon DEF DoProvision, Provision, LearnStep
<1>9. ASSUME DoPreload(h) PROVE LearnStep(h)
  BY <1>2, <1>9, ProvisionInnerPreserves, Zenon DEF DoPreload, Preload, LearnStep
<1>10. ASSUME DoProvisionUnavailable(h) PROVE LearnStep(h)
  BY <1>2, <1>10, ProvisionUnavailablePreserves DEF DoProvisionUnavailable, LearnStep
<1>11. ASSUME DoProvisionBatch(h) PROVE LearnStep(h)
  BY <1>2, <1>11, ProvisionBatchPreserves DEF DoProvisionBatch, LearnStep
<1>12. ASSUME DoRetry(h) PROVE LearnStep(h)
  BY <1>2, <1>12, RetryPreserves DEF DoRetry, LearnStep
<1>13. ASSUME DoCancelOutstanding(h) PROVE LearnStep(h)
  BY <1>2, <1>13, CancelPreserves DEF DoCancelOutstanding, LearnStep
<1>14. ASSUME \E g \in Handle \ {h} : DoCopyResolvedBindings(h, g) PROVE LearnStep(h)
  <2>1. PICK g \in Handle \ {h} : DoCopyResolvedBindings(h, g)
    BY <1>14
  <2>2. Sound(workspaces[g])
    BY <2>1 DEF DoCopyResolvedBindings, IInv
  <2> QED BY <1>2, <2>1, <2>2, CopyPreserves DEF DoCopyResolvedBindings, LearnStep
<1> QED BY <1>1, <1>2, <1>3, <1>4, <1>5, <1>6, <1>7, <1>8, <1>9, <1>10, <1>11, <1>12,
           <1>13, <1>14

(* The initial workspace is empty and sound. *)
LEMMA InitSound == Sound(NewWorkspace)
BY DEF Sound, NewWorkspace, Workspace, UserLayer, ResolvedLayer, States, AdmissionState,
       ClearStates, Vacant, Unavailable, HasBytes, KnownUnbound, IsAdmitted, IsBound

(* Each shape of step preserves the invariant. *)
LEMMA StepInvariant ==
    ASSUME IInv, Next
    PROVE  IInv'
<1>1. PICK h \in Handle :
        /\ Live(h)
        /\ Sound(workspaces[h])
        /\ LearnStep(h) \/ DoClear(h) \/ (\E g \in Handle \ {h} : DoClone(h, g)) \/ DoDrop(h)
  BY StepShapes
<1>2. ASSUME NEW g \in Handle, NEW new, Sound(new), Become(g, new)
      PROVE  IInv'
  <2>1. new \in Workspace
    BY <1>2 DEF Sound
  <2> QED BY <1>2, <2>1 DEF IInv, TypeOK, Become, Live
<1>3. CASE LearnStep(h)
  BY <1>2, <1>3 DEF LearnStep, Preserves
<1>4. CASE DoClear(h)
  BY <1>1, <1>2, <1>4, ClearSound DEF DoClear
<1>5. CASE \E g \in Handle \ {h} : DoClone(h, g)
  BY <1>1, <1>2, <1>5 DEF DoClone
<1>6. CASE DoDrop(h)
  BY <1>6 DEF DoDrop, Become, IInv, TypeOK, Live
<1> QED BY <1>1, <1>3, <1>4, <1>5, <1>6

(* The inductive invariant holds throughout: every live workspace is well  *)
(* formed, every admitted key has bytes, and known_exists holds no bound   *)
(* key.                                                                    *)
THEOREM Invariance == Spec => []IInv
<1>1. Init => IInv
  <2>1. NewWorkspace \in Workspace /\ NewWorkspace # Dropped
    BY InitSound, HandleAssumption DEF Sound
  <2> QED BY <2>1, InitSound DEF Init, IInv, TypeOK, Live
<1>2. IInv /\ [Next]_vars => IInv'
  <2>1. ASSUME IInv, Next PROVE IInv'
    BY <2>1, StepInvariant
  <2>2. ASSUME IInv, UNCHANGED vars PROVE IInv'
    BY <2>2 DEF vars, IInv, TypeOK, Live
  <2> QED BY <2>1, <2>2
<1> QED BY <1>1, <1>2, PTL DEF Spec

(* Workspaces stay well formed under every sequence of API calls. *)
THEOREM TypeCorrect == Spec => []TypeOK
<1>1. IInv => TypeOK
  BY DEF IInv
<1> QED BY <1>1, Invariance, PTL

(* The expect() lookups of the resolved layer never fail, for any number   *)
(* of keys, paths, contents and clones.                                    *)
THEOREM BytesRemain == Spec => []AdmittedKeysHaveBytes
<1>1. IInv => AdmittedKeysHaveBytes
  BY DEF IInv, Sound, HasBytes, AdmittedKeysHaveBytes
<1> QED BY <1>1, Invariance, PTL

(* Readiness evidence never contradicts a binding. *)
THEOREM EvidenceConsistent == Spec => []KnownExistsIsUnbound
<1>1. IInv => KnownExistsIsUnbound
  BY DEF IInv, Sound, KnownUnbound, KnownExistsIsUnbound
<1> QED BY <1>1, Invariance, PTL

(* A failed provision, preload or negative answer leaves the workspace     *)
(* unchanged, although provision_inner writes bytes before it binds.       *)
THEOREM FailuresAreAtomic == Spec => []FailedAdmissionChangesNothing
<1>1. IInv => FailedAdmissionChangesNothing
  <2> SUFFICES ASSUME IInv, NEW h \in Handle, Live(h), NEW key \in Key,
                      NEW path \in DistributionPath, NEW content \in Content,
                      NEW result \in {Provision(workspaces[h], key, path, content),
                                     Preload(workspaces[h], key, path, content),
                                     ProvisionUnavailable(workspaces[h], key)},
                      result.res \notin Success
               PROVE  result.ws = workspaces[h]
    BY DEF FailedAdmissionChangesNothing
  <2>1. Sound(workspaces[h])
    BY DEF IInv
  <2>2. CASE result = Provision(workspaces[h], key, path, content)
    BY <2>1, <2>2, ProvisionInnerPreserves, Zenon DEF Provision
  <2>3. CASE result = Preload(workspaces[h], key, path, content)
    BY <2>1, <2>3, ProvisionInnerPreserves, Zenon DEF Preload
  <2>4. CASE result = ProvisionUnavailable(workspaces[h], key)
    BY <2>1, <2>4, ProvisionUnavailablePreserves
  <2> QED BY <2>2, <2>3, <2>4
<1> QED BY <1>1, Invariance, PTL

-----------------------------------------------------------------------------
(* A workspace that keeps its bindings keeps its answers. *)
LEMMA KeptAnswers ==
    ASSUME NEW new, NEW old, Sound(old), Sound(new), Kept(new, old)
    PROVE  /\ [key \in Key |-> AnswerIn(new, key)] \in Ledger!Ledger
           /\ \A key \in Key : AnswerIn(old, key) # Unbound => AnswerIn(new, key) = AnswerIn(old, key)
<1>1. ASSUME NEW ws, Sound(ws), NEW key \in Key
      PROVE  /\ AnswerIn(ws, key) \in Content \cup {Unbound, Absent}
             /\ IsAdmitted(ws.states, key) => AnswerIn(ws, key) = ws.resolved[ws.states[key].of]
             /\ IsUnavailable(ws.states, key) => AnswerIn(ws, key) = Absent
             /\ ~IsBound(ws.states, key) => AnswerIn(ws, key) = Unbound
  <2>1. IsAdmitted(ws.states, key) => ws.states[key].of \in DistributionPath
    BY <1>1 DEF Sound, Workspace, States, AdmissionState, IsAdmitted, Vacant, Unavailable,
                DistributionPath
  <2>2. IsAdmitted(ws.states, key) => ws.resolved[ws.states[key].of] \in Content
    BY <1>1, <2>1 DEF Sound, Workspace, ResolvedLayer, HasBytes
  <2>3. CASE IsAdmitted(ws.states, key)
    BY <2>2, <2>3 DEF AnswerIn, IsAdmitted, IsUnavailable, IsBound
  <2>4. CASE IsUnavailable(ws.states, key)
    BY <2>4 DEF AnswerIn, IsAdmitted, IsUnavailable, IsBound
  <2>5. CASE ~IsBound(ws.states, key)
    BY <2>5 DEF AnswerIn, IsAdmitted, IsUnavailable, IsBound
  <2> QED BY <2>3, <2>4, <2>5, Zenon DEF IsAdmitted, IsUnavailable, IsBound
<1>2. [key \in Key |-> AnswerIn(new, key)] \in Ledger!Ledger
  BY <1>1 DEF Ledger!Ledger, Ledger!Answer
<1>3. ASSUME NEW key \in Key, AnswerIn(old, key) # Unbound
      PROVE  AnswerIn(new, key) = AnswerIn(old, key)
  <2>1. IsBound(old.states, key)
    BY <1>1, <1>3
  <2>2. new.states[key] = old.states[key]
    BY <2>1 DEF Kept
  <2>3. CASE IsAdmitted(old.states, key)
    <3>1. IsAdmitted(new.states, key)
      BY <2>2, <2>3 DEF IsAdmitted
    <3>2. new.resolved[old.states[key].of] = old.resolved[old.states[key].of]
      BY <2>1, <2>3 DEF Kept
    <3>3. /\ AnswerIn(new, key) = new.resolved[new.states[key].of]
          /\ AnswerIn(old, key) = old.resolved[old.states[key].of]
      BY <1>1, <2>3, <3>1
    <3> QED BY <2>2, <3>2, <3>3
  <2>4. CASE IsUnavailable(old.states, key)
    <3>1. IsUnavailable(new.states, key)
      BY <2>2, <2>4 DEF IsUnavailable
    <3> QED BY <1>1, <2>4, <3>1
  <2> QED BY <2>1, <2>3, <2>4 DEF IsAdmitted, IsUnavailable, IsBound
<1> QED BY <1>2, <1>3

(* Every step of the workspace API is a step of the write-once ledger. *)
LEMMA StepRefines ==
    ASSUME IInv, IInv', Next
    PROVE  Ledger!Next
<1> DEFINE b == [h \in Handle |-> AnswersOf(h)]
<1>1. PICK h \in Handle :
        /\ Live(h)
        /\ Sound(workspaces[h])
        /\ LearnStep(h) \/ DoClear(h) \/ (\E g \in Handle \ {h} : DoClone(h, g)) \/ DoDrop(h)
  BY StepShapes
<1>2. ASSUME NEW g \in Handle
      PROVE  b[g] = IF Live(g) THEN [key \in Key |-> AnswerIn(workspaces[g], key)] ELSE Dropped
  BY DEF AnswersOf
<1>3. ASSUME NEW g \in Handle
      PROVE  b'[g] = IF workspaces'[g] # Dropped
                     THEN [key \in Key |-> AnswerIn(workspaces'[g], key)] ELSE Dropped
  BY DEF AnswersOf, Live
<1>4. ASSUME NEW g \in Handle, NEW new, Become(g, new)
      PROVE  /\ workspaces'[g] = new
             /\ b' = [b EXCEPT ![g] = b'[g]]
  <2>1. workspaces'[g] = new /\ \A f \in Handle \ {g} : workspaces'[f] = workspaces[f]
    BY <1>4 DEF Become, IInv, TypeOK
  <2>2. \A f \in Handle \ {g} : b'[f] = b[f]
    BY <1>2, <1>3, <2>1 DEF Live
  <2>3. b' = [f \in Handle |-> b'[f]] /\ b = [f \in Handle |-> b[f]]
    OBVIOUS
  <2> HIDE DEF b
  <2> QED BY <2>1, <2>2, <2>3
<1>5. ASSUME NEW ws, Sound(ws)
      PROVE  /\ ws # Dropped
             /\ [key \in Key |-> AnswerIn(ws, key)] \in Ledger!Ledger
             /\ [key \in Key |-> AnswerIn(ws, key)] # Dropped
  <2>1. [key \in Key |-> AnswerIn(ws, key)] \in Ledger!Ledger
    BY <1>5, KeptAnswers DEF Kept
  <2>2. ws # Dropped /\ Dropped \notin Ledger!Ledger
    BY <1>5, HandleAssumption DEF Sound, Ledger!Ledger, Ledger!Answer
  <2> QED BY <2>1, <2>2
<1>6. b[h] = [key \in Key |-> AnswerIn(workspaces[h], key)] /\ b[h] # Dropped
  BY <1>1, <1>2, <1>5
<1>7. Ledger!Live(h)
  BY <1>6 DEF Ledger!Live
<1>8. CASE LearnStep(h)
  <2>1. PICK new : Preserves(new, workspaces[h]) /\ Become(h, new)
    BY <1>8 DEF LearnStep
  <2>2. Sound(new)
    BY <2>1 DEF Preserves
  <2>3. b'[h] = [key \in Key |-> AnswerIn(new, key)] /\ b' = [b EXCEPT ![h] = b'[h]]
    <3> HIDE DEF b
    <3> QED BY <1>3, <1>4, <1>5, <2>1, <2>2
  <2>4. b'[h] \in Ledger!Ledger
    BY <1>5, <2>2, <2>3
  <2>5. \A key \in Key : b[h][key] # Unbound => b'[h][key] = b[h][key]
    <3>1. \A key \in Key : AnswerIn(workspaces[h], key) # Unbound
                            => AnswerIn(new, key) = AnswerIn(workspaces[h], key)
      BY <1>1, <2>1, <2>2, KeptAnswers, Zenon DEF Preserves
    <3> HIDE DEF b
    <3> QED BY <1>6, <2>3, <3>1
  <2>6. Ledger!Learn(h)
    BY <1>7, <2>3, <2>4, <2>5 DEF Ledger!Learn, Ledger!Extends
  <2> QED BY <2>6 DEF Ledger!Next
<1>9. CASE DoClear(h)
  <2>1. Become(h, Clear(workspaces[h])) /\ Sound(Clear(workspaces[h]))
    BY <1>1, <1>9, ClearSound DEF DoClear
  <2>2. \A key \in Key : AnswerIn(Clear(workspaces[h]), key) = Unbound
    <3>1. \A key \in Key : Clear(workspaces[h]).states[key].tag = "Vacant"
      BY <1>1 DEF Clear, ClearStates, Vacant, Sound, Workspace
    <3> QED BY <3>1 DEF AnswerIn, IsAdmitted, IsUnavailable, IsBound
  <2>3. b'[h] = [key \in Key |-> Unbound] /\ b' = [b EXCEPT ![h] = b'[h]]
    <3>1. b'[h] = [key \in Key |-> AnswerIn(Clear(workspaces[h]), key)]
             /\ b' = [b EXCEPT ![h] = b'[h]]
      <4> HIDE DEF b
      <4> QED BY <1>3, <1>4, <1>5, <2>1
    <3> HIDE DEF b
    <3> QED BY <2>2, <3>1
  <2>4. Ledger!Forget(h)
    BY <1>7, <2>3, Zenon DEF Ledger!Forget
  <2> QED BY <2>4 DEF Ledger!Next
<1>10. CASE \E g \in Handle \ {h} : DoClone(h, g)
  <2>1. PICK g \in Handle \ {h} : ~Live(g) /\ Become(g, workspaces[h])
    BY <1>10 DEF DoClone
  <2>2. b[g] = Dropped
    BY <1>2, <2>1
  <2>3. b'[g] = b[h] /\ b' = [b EXCEPT ![g] = b'[g]]
    <3> HIDE DEF b
    <3>1. workspaces'[g] = workspaces[h] /\ b' = [b EXCEPT ![g] = b'[g]]
      BY <1>4, <2>1
    <3>2. workspaces[h] # Dropped
      BY <1>1, <1>5, Zenon
    <3>3. b'[g] = [key \in Key |-> AnswerIn(workspaces[h], key)]
      BY <1>3, <3>1, <3>2
    <3> QED BY <1>6, <3>1, <3>3
  <2>4. Ledger!Clone(h, g)
    BY <1>7, <2>2, <2>3 DEF Ledger!Clone, Ledger!Live
  <2> QED BY <2>4 DEF Ledger!Next
<1>11. CASE DoDrop(h)
  <2>1. Become(h, Dropped)
    BY <1>11 DEF DoDrop
  <2>2. b'[h] = Dropped /\ b' = [b EXCEPT ![h] = b'[h]]
    <3> HIDE DEF b
    <3> QED BY <1>3, <1>4, <2>1, Zenon
  <2>3. Ledger!Drop(h)
    BY <1>7, <2>2 DEF Ledger!Drop
  <2> QED BY <2>3 DEF Ledger!Next
<1> QED BY <1>1, <1>8, <1>9, <1>10, <1>11

(* The workspace API implements the write-once ledger: no interleaving of  *)
(* batches, hints, answers, failed calls, clones and copies changes the    *)
(* content a bound key delivers, until clear() forgets every binding.      *)
THEOREM WriteOnce == Spec => BindingsAreWriteOnce
<1>1. Init => Ledger!Init
  <2> SUFFICES ASSUME Init PROVE Ledger!Init
    OBVIOUS
  <2>1. PICK first \in Handle :
           workspaces = [h \in Handle |-> IF h = first THEN NewWorkspace ELSE Dropped]
    BY DEF Init
  <2>2. NewWorkspace # Dropped
    BY InitSound, HandleAssumption DEF Sound
  <2>3. \A key \in Key : AnswerIn(NewWorkspace, key) = Unbound
    BY DEF AnswerIn, NewWorkspace, ClearStates, Vacant, IsAdmitted, IsUnavailable, IsBound
  <2>4. AnswersOf(first) = [key \in Key |-> Unbound]
    BY <2>1, <2>2, <2>3 DEF AnswersOf, Live
  <2>5. \A h \in Handle \ {first} : AnswersOf(h) = Dropped
    BY <2>1 DEF AnswersOf, Live
  <2>6. [h \in Handle |-> AnswersOf(h)] =
        [h \in Handle |-> IF h = first THEN [key \in Key |-> Unbound] ELSE Dropped]
    BY <2>4, <2>5
  <2> QED BY <2>6 DEF Ledger!Init
<1>2. IInv /\ IInv' /\ [Next]_vars => [Ledger!Next]_[h \in Handle |-> AnswersOf(h)]
  <2>1. ASSUME IInv, IInv', Next PROVE Ledger!Next
    BY <2>1, StepRefines
  <2>2. ASSUME UNCHANGED vars PROVE UNCHANGED [h \in Handle |-> AnswersOf(h)]
    BY <2>2 DEF vars, AnswersOf, Live
  <2> QED BY <2>1, <2>2
<1> QED BY <1>1, <1>2, Invariance, PTL DEF Spec, BindingsAreWriteOnce, Ledger!Spec
-----------------------------------------------------------------------------
(***************************************************************************)
(* Sums over the paths of a layer.  The fold behind MapThenSumSet chooses  *)
(* the order of the paths; the lemmas show that it does not matter.  Facts *)
(* about sets of every size are proved from a smallest counterexample.     *)
(***************************************************************************)
Pick(s) == CHOOSE x \in s : TRUE

(* "sum" gives every set of cardinality at most n the sum of its weights,  *)
(* adding the chosen element first.                                        *)
SumsUpTo(sum, w, S, n) ==
    \A s \in SUBSET S : Cardinality(s) <= n =>
        sum[s] = IF s = {} THEN 0 ELSE w[Pick(s)] + sum[s \ {Pick(s)}]

(* The size of every file of a layer. *)
Sizes(layer) == [path \in DOMAIN layer |-> SizeOf(layer[path])]

(* A set of naturals that is not empty has a least element. *)
LEMMA LeastNatural ==
    ASSUME NEW N \in SUBSET Nat, N # {}
    PROVE  \E n \in N : \A m \in N : n <= m
<1> DEFINE R == {ss \in Nat \X Nat : ss[1] < ss[2]}
<1>1. IsWellFoundedOn(R, Nat)
  BY NatLessThanWellFounded DEF OpToRel
<1> HIDE DEF R
<1>2. PICK n \in N : \A m \in N : ~(<<m, n>> \in R)
  BY <1>1, WFMin, Zenon
<1>3. ASSUME NEW m \in N PROVE n <= m
  <2>1. n \in Nat /\ m \in Nat
    OBVIOUS
  <2>2. m < n => <<m, n>> \in R
    BY <2>1 DEF R
  <2> QED BY <1>2, <2>1, <2>2
<1> QED BY <1>3

(* The chosen element belongs to the set and its removal makes the set     *)
(* smaller by one.                                                         *)
LEMMA Picked ==
    ASSUME NEW S, IsFiniteSet(S), NEW s \in SUBSET S
    PROVE  /\ IsFiniteSet(s)
           /\ Cardinality(s) \in Nat
           /\ s # {} => Pick(s) \in s
           /\ \A x \in s : Cardinality(s \ {x}) = Cardinality(s) - 1 /\ s \ {x} \in SUBSET S
           /\ Cardinality(s) = 0 <=> s = {}
<1>1. IsFiniteSet(s) /\ Cardinality(s) \in Nat
  BY FS_Subset, FS_CardinalityType
<1>2. s # {} => Pick(s) \in s
  BY DEF Pick
<1>3. \A x \in s : Cardinality(s \ {x}) = Cardinality(s) - 1 /\ s \ {x} \in SUBSET S
  BY <1>1, FS_RemoveElement, Zenon
<1>4. Cardinality(s) = 0 <=> s = {}
  BY <1>1, FS_EmptySet
<1> QED BY <1>1, <1>2, <1>3, <1>4

(* Such a function exists for every n: one for n is extended to the sets    *)
(* of cardinality n + 1.                                                   *)
LEMMA SumsExist ==
    ASSUME NEW S, IsFiniteSet(S), NEW w \in [S -> Nat], NEW n \in Nat
    PROVE  \E sum \in [SUBSET S -> Nat] : SumsUpTo(sum, w, S, n)
<1> DEFINE Has(m) == \E sum \in [SUBSET S -> Nat] : SumsUpTo(sum, w, S, m)
           N == {m \in Nat : ~Has(m)}
<1>1. Has(0)
  <2> DEFINE zero == [s \in SUBSET S |-> 0]
  <2>1. zero \in [SUBSET S -> Nat]
    OBVIOUS
  <2>2. SumsUpTo(zero, w, S, 0)
    <3> SUFFICES ASSUME NEW s \in SUBSET S, Cardinality(s) <= 0
                 PROVE  zero[s] = IF s = {} THEN 0 ELSE w[Pick(s)] + zero[s \ {Pick(s)}]
      BY Zenon DEF SumsUpTo
    <3>1. s = {}
      BY Picked
    <3> QED BY <3>1
  <2> HIDE DEF zero
  <2> QED BY <2>1, <2>2
<1>2. ASSUME NEW m \in Nat, Has(m) PROVE Has(m + 1)
  <2>1. PICK sum \in [SUBSET S -> Nat] : SumsUpTo(sum, w, S, m)
    BY <1>2
  <2> DEFINE nxt == [s \in SUBSET S |-> IF Cardinality(s) <= m THEN sum[s]
                                         ELSE w[Pick(s)] + sum[s \ {Pick(s)}]]
  <2>2. ASSUME NEW s \in SUBSET S
        PROVE  nxt[s] \in Nat
    <3>1. CASE Cardinality(s) <= m
      BY <3>1
    <3>2. CASE ~(Cardinality(s) <= m)
      <4>1. s # {} /\ Pick(s) \in S /\ s \ {Pick(s)} \in SUBSET S
        BY <3>2, Picked
      <4>2. w[Pick(s)] \in Nat /\ sum[s \ {Pick(s)}] \in Nat
        BY <4>1
      <4> QED BY <3>2, <4>2
    <3> QED BY <3>1, <3>2
  <2>3. nxt \in [SUBSET S -> Nat]
    BY <2>2, Zenon
  <2>4. SumsUpTo(nxt, w, S, m + 1)
    <3> SUFFICES ASSUME NEW s \in SUBSET S, Cardinality(s) <= m + 1
                 PROVE  nxt[s] = IF s = {} THEN 0 ELSE w[Pick(s)] + nxt[s \ {Pick(s)}]
      BY Zenon DEF SumsUpTo
    <3>1. CASE s = {}
      <4>1. Cardinality(s) <= m
        BY <3>1, Picked
      <4>2. sum[s] = 0
        BY <2>1, <3>1, <4>1 DEF SumsUpTo
      <4> QED BY <3>1, <4>1, <4>2
    <3>2. CASE s # {}
      <4> DEFINE r == s \ {Pick(s)}
      <4>1. /\ Pick(s) \in s /\ r \in SUBSET S
            /\ Cardinality(s) \in Nat /\ Cardinality(r) = Cardinality(s) - 1
        BY <3>2, Picked
      <4>2. nxt[r] = sum[r]
        BY <4>1
      <4>3. nxt[s] = w[Pick(s)] + sum[r]
        <5>1. CASE Cardinality(s) <= m
          BY <2>1, <3>2, <5>1 DEF SumsUpTo
        <5>2. CASE ~(Cardinality(s) <= m)
          BY <5>2
        <5> QED BY <5>1, <5>2
      <4> HIDE DEF nxt
      <4> QED BY <3>2, <4>2, <4>3
    <3> QED BY <3>1, <3>2
  <2> HIDE DEF nxt
  <2> QED BY <2>3, <2>4
<1> HIDE DEF Has
<1>3. ASSUME N # {} PROVE FALSE
  <2>1. PICK m \in N : \A k \in N : m <= k
    BY <1>3, LeastNatural, Zenon
  <2>2. m # 0
    BY <1>1, <2>1
  <2>3. m - 1 \in Nat /\ m - 1 \notin N
    BY <2>1, <2>2
  <2> QED BY <1>2, <2>1, <2>3
<1> QED BY <1>3, Zenon DEF Has

(* The same without a bound. *)
Sums(sum, w, S) ==
    /\ sum \in [SUBSET S -> Nat]
    /\ \A s \in SUBSET S :
          sum[s] = IF s = {} THEN 0 ELSE w[Pick(s)] + sum[s \ {Pick(s)}]

(* TotalSize of a layer is the value, at the set of all its paths, of a    *)
(* function that sums the sizes of the files.                              *)
LEMMA TotalIsASum ==
    ASSUME NEW P, IsFiniteSet(P), NEW layer \in [P -> Content \cup {NoFile}]
    PROVE  /\ Sizes(layer) \in [P -> Nat]
           /\ \E sum : Sums(sum, Sizes(layer), P) /\ TotalSize(layer) = sum[P]
<1> DEFINE w == Sizes(layer)
           Rec(f) == f = [s \in SUBSET P |->
                             IF s = {} THEN 0 ELSE SizeOf(layer[Pick(s)]) + f[s \ {Pick(s)}]]
           iter == CHOOSE f : Rec(f)
<1>1. TotalSize(layer) = iter[P]
  <2>1. DOMAIN layer = P
    OBVIOUS
  <2> QED BY <2>1 DEF TotalSize, MapThenSumSet, MapThenFoldSet, Pick
<1>2. w \in [P -> Nat] /\ \A path \in P : w[path] = SizeOf(layer[path])
  BY ContentAssumption DEF Sizes, SizeOf
<1> HIDE DEF w
<1>3. PICK sum \in [SUBSET P -> Nat] : SumsUpTo(sum, w, P, Cardinality(P))
  <2>1. Cardinality(P) \in Nat
    BY FS_CardinalityType
  <2> QED BY <1>2, <2>1, SumsExist, Zenon
<1>4. \A s \in SUBSET P : sum[s] = IF s = {} THEN 0 ELSE w[Pick(s)] + sum[s \ {Pick(s)}]
  <2>1. \A s \in SUBSET P : Cardinality(s) <= Cardinality(P)
    BY FS_Subset
  <2> QED BY <1>3, <2>1, Zenon DEF SumsUpTo
<1>5. \A s \in SUBSET P : s # {} => w[Pick(s)] = SizeOf(layer[Pick(s)])
  BY <1>2, Picked
<1>6. Rec(sum)
  BY <1>3, <1>4, <1>5
<1>7. Rec(iter)
  <2> HIDE DEF Rec
  <2> QED BY <1>6
<1>8. /\ DOMAIN iter = SUBSET P
      /\ iter = [s \in SUBSET P |-> iter[s]]
      /\ \A s \in SUBSET P :
            iter[s] = IF s = {} THEN 0 ELSE w[Pick(s)] + iter[s \ {Pick(s)}]
  <2> HIDE DEF iter
  <2> QED BY <1>5, <1>7, Zenon
<1> HIDE DEF iter, Rec
<1>9. \A s \in SUBSET P : iter[s] = sum[s]
  <2> DEFINE N == {n \in Nat : \E s \in SUBSET P : Cardinality(s) = n /\ iter[s] # sum[s]}
  <2>1. ASSUME N # {} PROVE FALSE
    <3>1. PICK n \in N : \A m \in N : n <= m
      BY <2>1, LeastNatural, Zenon
    <3>2. PICK s \in SUBSET P : Cardinality(s) = n /\ iter[s] # sum[s]
      BY <3>1
    <3>3. s # {}
      BY <1>4, <1>8, <3>2, Zenon
    <3> DEFINE r == s \ {Pick(s)}
    <3>4. r \in SUBSET P /\ Cardinality(r) = n - 1 /\ n \in Nat /\ n - 1 \in Nat
      <4>1. Pick(s) \in s /\ Cardinality(s) \in Nat /\ Cardinality(s) # 0
        BY <3>3, Picked
      <4> QED BY <3>2, <4>1, Picked
    <3>5. iter[r] = sum[r]
      <4>1. n - 1 \notin N
        BY <3>1, <3>4
      <4> HIDE DEF r
      <4> QED BY <3>4, <4>1
    <3> QED BY <1>4, <1>8, <3>2, <3>3, <3>5, Zenon
  <2>2. \A s \in SUBSET P : Cardinality(s) \in Nat
    BY Picked
  <2> QED BY <2>1, <2>2
<1>10. Sums(iter, w, P)
  BY <1>3, <1>8, <1>9, Zenon DEF Sums
<1> QED BY <1>1, <1>2, <1>10 DEF w

(* Any element may be taken first. *)
LEMMA SumTakesAnyElement ==
    ASSUME NEW S, IsFiniteSet(S), NEW w \in [S -> Nat], NEW sum, Sums(sum, w, S),
           NEW s \in SUBSET S, NEW x \in s
    PROVE  sum[s] = w[x] + sum[s \ {x}]
<1> DEFINE Wrong(n) == \E t \in SUBSET S : \E y \in t :
                           Cardinality(t) = n /\ sum[t] # w[y] + sum[t \ {y}]
           N == {n \in Nat : Wrong(n)}
<1>1. ASSUME N # {} PROVE FALSE
  <2>1. PICK n \in N : \A m \in N : n <= m
    BY <1>1, LeastNatural, Zenon
  <2>2. PICK t \in SUBSET S : \E y \in t : Cardinality(t) = n /\ sum[t] # w[y] + sum[t \ {y}]
    BY <2>1
  <2>3. PICK y \in t : Cardinality(t) = n /\ sum[t] # w[y] + sum[t \ {y}]
    BY <2>2, Zenon
  <2> DEFINE z == Pick(t)
  <2>4. z \in t /\ sum[t] = w[z] + sum[t \ {z}]
    BY <2>3, Picked DEF Sums
  <2>5. z # y
    BY <2>3, <2>4, Zenon
  <2> HIDE DEF z
  <2>6. /\ t \ {z} \in SUBSET S /\ t \ {y} \in SUBSET S /\ n - 1 \in Nat
        /\ Cardinality(t \ {z}) = n - 1 /\ Cardinality(t \ {y}) = n - 1
        /\ y \in t \ {z} /\ z \in t \ {y}
    <3>1. Cardinality(t) \in Nat /\ Cardinality(t) # 0
      BY <2>3, Picked
    <3> QED BY <2>3, <2>4, <2>5, <3>1, Picked
  <2>7. ~Wrong(n - 1)
    <3> HIDE DEF Wrong
    <3>1. n \in Nat /\ N \subseteq Nat
      OBVIOUS
    <3>2. n - 1 \notin N
      <4> HIDE DEF N
      <4> QED BY <2>1, <3>1
    <3> QED BY <2>6, <3>2
  <2>8. /\ sum[t \ {z}] = w[y] + sum[(t \ {z}) \ {y}]
        /\ sum[t \ {y}] = w[z] + sum[(t \ {y}) \ {z}]
    BY <2>6, <2>7, Zenon
  <2>9. (t \ {z}) \ {y} = (t \ {y}) \ {z} /\ (t \ {z}) \ {y} \in SUBSET S
    OBVIOUS
  <2>10. w[y] \in Nat /\ w[z] \in Nat /\ sum[(t \ {z}) \ {y}] \in Nat
    BY <2>4, <2>9 DEF Sums
  <2> DEFINE wy == w[y]
             wz == w[z]
             rest == sum[(t \ {z}) \ {y}]
  <2>11. /\ sum[t] = wz + (wy + rest) /\ sum[t \ {y}] = wz + rest
         /\ sum[t] # wy + sum[t \ {y}]
    BY <2>3, <2>4, <2>8, <2>9, Zenon
  <2>12. wy \in Nat /\ wz \in Nat /\ rest \in Nat
    BY <2>10
  <2> HIDE DEF wy, wz, rest, Wrong
  <2> QED BY <2>11, <2>12
<1>2. Cardinality(s) \in Nat
  BY Picked
<1>3. ~Wrong(Cardinality(s))
  BY <1>1, <1>2
<1> QED BY <1>3, Zenon

(* Sets whose elements have equal weights have equal sums. *)
LEMMA SumOfEqualWeights ==
    ASSUME NEW S, IsFiniteSet(S), NEW w \in [S -> Nat], NEW v \in [S -> Nat],
           NEW sumW, Sums(sumW, w, S), NEW sumV, Sums(sumV, v, S),
           NEW s \in SUBSET S, \A x \in s : w[x] = v[x]
    PROVE  sumW[s] = sumV[s]
<1> DEFINE Wrong(n) == \E t \in SUBSET s : Cardinality(t) = n /\ sumW[t] # sumV[t]
           N == {n \in Nat : Wrong(n)}
<1>1. ASSUME N # {} PROVE FALSE
  <2>1. PICK n \in N : \A m \in N : n <= m
    BY <1>1, LeastNatural, Zenon
  <2>2. PICK t \in SUBSET s : Cardinality(t) = n /\ sumW[t] # sumV[t]
    BY <2>1
  <2>3. t \in SUBSET S
    OBVIOUS
  <2>4. t # {}
    BY <2>2, <2>3, Zenon DEF Sums
  <2> DEFINE x == Pick(t)
  <2>5. /\ x \in t /\ t \ {x} \in SUBSET s /\ n - 1 \in Nat /\ Cardinality(t \ {x}) = n - 1
    <3>1. Cardinality(t) \in Nat /\ Cardinality(t) # 0 /\ x \in t
      BY <2>3, <2>4, Picked
    <3> QED BY <2>2, <2>3, <3>1, Picked
  <2>6. sumW[t] = w[x] + sumW[t \ {x}] /\ sumV[t] = v[x] + sumV[t \ {x}]
    BY <2>3, <2>4 DEF Sums
  <2> HIDE DEF x
  <2>7. sumW[t \ {x}] = sumV[t \ {x}]
    <3>1. ~Wrong(n - 1)
      BY <2>1, <2>5
    <3> QED BY <2>5, <3>1
  <2> QED BY <2>2, <2>5, <2>6, <2>7
<1>2. IsFiniteSet(S) /\ Cardinality(s) \in Nat
  BY Picked
<1>3. ~Wrong(Cardinality(s))
  BY <1>1, <1>2
<1> QED BY <1>3

(* Storing a file under a path changes the total by the difference of the  *)
(* sizes of the new file and of the one it replaces.                       *)
LEMMA StoreChangesTotal ==
    ASSUME NEW P, IsFiniteSet(P), NEW layer \in [P -> Content \cup {NoFile}],
           NEW path \in P, NEW content \in Content
    PROVE  /\ TotalSize(layer) \in Nat
           /\ SizeOf(layer[path]) <= TotalSize(layer)
           /\ TotalSize([layer EXCEPT ![path] = content]) =
                 TotalSize(layer) - SizeOf(layer[path]) + Size[content]
<1> DEFINE new == [layer EXCEPT ![path] = content]
           w == Sizes(layer)
           v == Sizes(new)
           rest == P \ {path}
<1>1. new \in [P -> Content \cup {NoFile}] /\ new[path] = content
          /\ \A other \in rest : new[other] = layer[other]
  OBVIOUS
<1> HIDE DEF new
<1>2. /\ w[path] = SizeOf(layer[path]) /\ v[path] = Size[content]
      /\ \A other \in rest : w[other] = v[other]
  BY <1>1, ContentAssumption DEF Sizes, SizeOf
<1>3. w \in [P -> Nat] /\ v \in [P -> Nat]
  BY <1>1, TotalIsASum
<1>4. PICK sumW : Sums(sumW, w, P) /\ TotalSize(layer) = sumW[P]
  BY TotalIsASum
<1>5. PICK sumV : Sums(sumV, v, P) /\ TotalSize(new) = sumV[P]
  BY <1>1, TotalIsASum
<1> HIDE DEF w, v
<1>6. sumW[P] = w[path] + sumW[rest] /\ sumV[P] = v[path] + sumV[rest]
  <2>1. P \in SUBSET P
    OBVIOUS
  <2>2. ASSUME NEW weights \in [P -> Nat], NEW sum, Sums(sum, weights, P)
        PROVE  sum[P] = weights[path] + sum[P \ {path}]
    BY <2>1, <2>2, SumTakesAnyElement
  <2>3. sumW[P] = w[path] + sumW[P \ {path}] /\ sumV[P] = v[path] + sumV[P \ {path}]
    BY <1>3, <1>4, <1>5, <2>2
  <2> QED BY <2>3
<1>7. sumW[rest] = sumV[rest]
  <2>1. rest \in SUBSET P
    OBVIOUS
  <2> HIDE DEF rest
  <2> QED BY <1>2, <1>3, <1>4, <1>5, <2>1, SumOfEqualWeights
<1>8. sumW[rest] \in Nat /\ w[path] \in Nat /\ v[path] \in Nat
  BY <1>3, <1>4 DEF Sums
<1> DEFINE old == w[path]
           now == v[path]
           others == sumW[rest]
<1>9. /\ old \in Nat /\ now \in Nat /\ others \in Nat
      /\ TotalSize(layer) = old + others /\ TotalSize(new) = now + others
      /\ SizeOf(layer[path]) = old /\ Size[content] = now
  BY <1>2, <1>4, <1>5, <1>6, <1>7, <1>8, Zenon
<1> HIDE DEF old, now, others
<1> QED BY <1>9 DEF new

(* A layer without files has no bytes. *)
LEMMA EmptyTotal ==
    ASSUME NEW P, IsFiniteSet(P)
    PROVE  TotalSize([path \in P |-> NoFile]) = 0
<1> DEFINE layer == [path \in P |-> NoFile]
           w == Sizes(layer)
           zero == [s \in SUBSET P |-> 0]
<1>1. layer \in [P -> Content \cup {NoFile}] /\ zero \in [SUBSET P -> Nat]
  OBVIOUS
<1>2. \A path \in P : w[path] = 0
  BY DEF Sizes, SizeOf
<1> HIDE DEF layer
<1>3. PICK sum : Sums(sum, w, P) /\ TotalSize(layer) = sum[P]
  BY <1>1, TotalIsASum
<1>4. w \in [P -> Nat]
  BY <1>1, TotalIsASum
<1> HIDE DEF w
<1>5. Sums(zero, w, P)
  <2> SUFFICES ASSUME NEW s \in SUBSET P
               PROVE  zero[s] = IF s = {} THEN 0 ELSE w[Pick(s)] + zero[s \ {Pick(s)}]
    BY <1>1, Zenon DEF Sums
  <2>1. s # {} => w[Pick(s)] = 0
    BY <1>2, Picked
  <2> QED BY <2>1
<1>6. sum[P] = zero[P]
  <2> HIDE DEF zero
  <2>1. P \in SUBSET P
    OBVIOUS
  <2> QED BY <1>3, <1>4, <1>5, <2>1, SumOfEqualWeights
<1> QED BY <1>3, <1>6, Zenon DEF layer

-----------------------------------------------------------------------------
(***************************************************************************)
(* Limits and totals.  Measured(ws) joins the two: the guards bound the    *)
(* totals, and that the totals are those of the files stored is what makes *)
(* the bound one on the files.                                             *)
(***************************************************************************)
Measured(ws) ==
    /\ BindingCount(ws.states) <= MaxResolvedFiles
    /\ ws.resolved_bytes <= MaxResolvedBytes
    /\ Cardinality(Stored(ws.user)) <= MaxUserFiles
    /\ ws.user_bytes <= MaxUserBytes
    /\ ws.resolved_bytes = TotalSize(ws.resolved)
    /\ ws.user_bytes = TotalSize(ws.user)

(* The layers and totals are those of "old", and no key was bound. *)
SameMeasure(new, old) ==
    /\ new.user = old.user /\ new.user_bytes = old.user_bytes
    /\ new.resolved = old.resolved /\ new.resolved_bytes = old.resolved_bytes
    /\ \A key \in Key : IsBound(new.states, key) => IsBound(old.states, key)

(* Only the two layers, the two totals and the bound keys are measured. *)
LEMMA SameMeasureMeasured ==
    ASSUME NEW new, NEW old, Measured(old), SameMeasure(new, old)
    PROVE  Measured(new)
<1>1. /\ IsFiniteSet(Bound(old.states)) /\ Bound(new.states) \in SUBSET Bound(old.states)
  BY KeyAssumption, FS_Subset, Zenon DEF Bound, SameMeasure
<1>2. BindingCount(new.states) <= BindingCount(old.states)
  BY <1>1, FS_Subset DEF BindingCount
<1>3. BindingCount(new.states) <= MaxResolvedFiles
  BY <1>2, CountsAreNat, LimitAssumption DEF Measured
<1> QED BY <1>3 DEF Measured, SameMeasure

(* Binding one more key below the limit stays within it. *)
LEMMA OneMoreBinding ==
    ASSUME NEW states \in States, NEW key \in Key, NEW state,
           ~(BindingCount(states) + 1 > MaxResolvedFiles)
    PROVE  BindingCount([states EXCEPT ![key] = state]) <= MaxResolvedFiles
<1> DEFINE new == [states EXCEPT ![key] = state]
<1>1. IsFiniteSet(Bound(states))
  BY KeyAssumption, FS_Subset DEF Bound
<1>2. /\ IsFiniteSet(Bound(states) \cup {key})
      /\ Cardinality(Bound(states) \cup {key}) <= Cardinality(Bound(states)) + 1
      /\ Cardinality(Bound(states)) \in Nat
      /\ Cardinality(Bound(states) \cup {key}) \in Nat
  <2>1. /\ IsFiniteSet(Bound(states) \cup {key})
        /\ Cardinality(Bound(states) \cup {key}) =
              IF key \in Bound(states) THEN Cardinality(Bound(states))
              ELSE Cardinality(Bound(states)) + 1
    BY <1>1, FS_AddElement
  <2>2. Cardinality(Bound(states)) \in Nat
    BY <1>1, FS_CardinalityType
  <2> QED BY <2>1, <2>2
<1>3. Bound(new) \in SUBSET (Bound(states) \cup {key})
  BY DEF Bound, IsBound, States
<1> HIDE DEF new
<1>4. /\ Cardinality(Bound(new)) <= Cardinality(Bound(states) \cup {key})
      /\ IsFiniteSet(Bound(new))
  BY <1>2, <1>3, FS_Subset
<1>5. Cardinality(Bound(new)) \in Nat
  BY <1>4, FS_CardinalityType
<1> QED BY <1>2, <1>4, <1>5, LimitAssumption DEF BindingCount, new

(* An empty workspace is within every limit. *)
LEMMA NewMeasured == Measured(NewWorkspace)
<1> DEFINE user == [path \in JobPath |-> NoFile]
           resolved == [path \in DistributionPath |-> NoFile]
<1>1. Bound(ClearStates) = {} /\ Stored(user) = {}
  BY DEF Bound, ClearStates, IsBound, Vacant, Stored
<1>2. BindingCount(ClearStates) = 0 /\ Cardinality(Stored(user)) = 0
  BY <1>1, FS_EmptySet DEF BindingCount
<1>3. TotalSize(user) = 0 /\ TotalSize(resolved) = 0
  <2>1. IsFiniteSet(JobPath) /\ IsFiniteSet(DistributionPath)
    BY ContentAssumption
  <2> QED BY <2>1, EmptyTotal, Zenon
<1>4. /\ NewWorkspace.states = ClearStates
      /\ NewWorkspace.user = user /\ NewWorkspace.user_bytes = 0
      /\ NewWorkspace.resolved = resolved /\ NewWorkspace.resolved_bytes = 0
  BY DEF NewWorkspace
<1> HIDE DEF user, resolved
<1>5. 0 <= MaxResolvedFiles /\ 0 <= MaxResolvedBytes /\ 0 <= MaxUserFiles /\ 0 <= MaxUserBytes
  BY LimitAssumption
<1> QED BY <1>2, <1>3, <1>4, <1>5 DEF Measured

(* clear() empties what it measures of the resolved side. *)
LEMMA ClearMeasured ==
    ASSUME NEW ws, Sound(ws), Measured(ws)
    PROVE  Measured(Clear(ws))
<1>1. /\ Clear(ws).states = ClearStates /\ Clear(ws).resolved_bytes = 0
      /\ Clear(ws).resolved = [path \in DistributionPath |-> NoFile]
      /\ Clear(ws).user = ws.user /\ Clear(ws).user_bytes = ws.user_bytes
  BY DEF Clear, Sound, Workspace
<1>2. /\ BindingCount(ClearStates) <= MaxResolvedFiles /\ 0 <= MaxResolvedBytes
      /\ 0 = TotalSize([path \in DistributionPath |-> NoFile])
  BY NewMeasured, Zenon DEF Measured, NewWorkspace
<1> HIDE DEF Clear
<1> QED BY <1>1, <1>2, Zenon DEF Measured

(* register_user counts a new path once and replaces the old size; its     *)
(* subtraction never underflows, because the total covers every file.      *)
LEMMA RegisterUserMeasured ==
    ASSUME NEW ws, Sound(ws), Measured(ws), NEW path \in JobPath, NEW content \in Content
    PROVE  /\ Measured(RegisterUser(ws, path, content).ws)
           /\ ~(ws.user_bytes < SizeOf(ws.user[path]))
<1> DEFINE new == RegisterUser(ws, path, content).ws
           user == [ws.user EXCEPT ![path] = content]
           files == Cardinality(Stored(ws.user)) + (IF ws.user[path] = NoFile THEN 1 ELSE 0)
           bytes == ws.user_bytes - SizeOf(ws.user[path]) + Size[content]
<1>1. /\ ws.user \in [JobPath -> Content \cup {NoFile}]
      /\ ws.user_bytes \in Nat /\ ws \in Workspace
  BY DEF Sound, Workspace, UserLayer
<1>2. /\ TotalSize(user) = TotalSize(ws.user) - SizeOf(ws.user[path]) + Size[content]
      /\ SizeOf(ws.user[path]) <= TotalSize(ws.user)
      /\ TotalSize(ws.user) \in Nat
  <2>1. IsFiniteSet(JobPath)
    BY ContentAssumption
  <2> QED BY <1>1, <2>1, StoreChangesTotal, Zenon
<1>3. ws.user_bytes = TotalSize(ws.user)
  BY DEF Measured
<1>4. Size[content] \in Nat /\ SizeOf(ws.user[path]) \in Nat
  BY <1>1, ContentAssumption DEF SizeOf
<1>5. ~(ws.user_bytes < SizeOf(ws.user[path]))
  BY <1>2, <1>3, <1>4
<1>6. /\ Stored(ws.user) \in SUBSET JobPath
      /\ Stored(user) = Stored(ws.user) \cup {path}
      /\ path \in Stored(ws.user) <=> ws.user[path] # NoFile
  BY <1>1, ContentAssumption DEF Stored
<1>7. Cardinality(Stored(user)) = files /\ files \in Nat
  <2>1. IsFiniteSet(Stored(ws.user)) /\ Cardinality(Stored(ws.user)) \in Nat
    BY <1>6, FS_Subset, FS_CardinalityType, ContentAssumption, Zenon
  <2>2. Cardinality(Stored(ws.user) \cup {path}) =
           IF path \in Stored(ws.user) THEN Cardinality(Stored(ws.user))
           ELSE Cardinality(Stored(ws.user)) + 1
    BY <2>1, FS_AddElement, Zenon
  <2> HIDE DEF user
  <2>3. CASE ws.user[path] = NoFile
    BY <1>6, <2>1, <2>2, <2>3
  <2>4. CASE ws.user[path] # NoFile
    BY <1>6, <2>1, <2>2, <2>4
  <2> QED BY <2>3, <2>4
<1>8. \/ new = ws
      \/ /\ ~(files > MaxUserFiles) /\ ~(bytes > MaxUserBytes)
         /\ new = [ws EXCEPT !.user[path] = content, !.user_bytes = bytes]
  BY DEF RegisterUser
<1>9. CASE new = ws
  BY <1>5, <1>9
<1>10. CASE /\ ~(files > MaxUserFiles) /\ ~(bytes > MaxUserBytes)
            /\ new = [ws EXCEPT !.user[path] = content, !.user_bytes = bytes]
  <2>1. /\ new.user = user /\ new.user_bytes = bytes /\ new.states = ws.states
        /\ new.resolved = ws.resolved /\ new.resolved_bytes = ws.resolved_bytes
    BY <1>1, <1>10 DEF Workspace
  <2>2. Cardinality(Stored(user)) <= MaxUserFiles
    BY <1>7, <1>10, LimitAssumption
  <2>3. bytes = TotalSize(user) /\ bytes <= MaxUserBytes
    <3>1. bytes = TotalSize(user) /\ bytes \in Int
      BY <1>2, <1>3, <1>4
    <3> QED BY <1>10, <3>1, LimitAssumption
  <2> HIDE DEF new, user, bytes, files
  <2>4. Measured(new)
    BY <2>1, <2>2, <2>3 DEF Measured
  <2> QED BY <1>5, <2>4 DEF new
<1> QED BY <1>8, <1>9, <1>10

(* What provision_inner stores and binds is within the limits. *)
LEMMA ProvidedMeasured ==
    ASSUME NEW ws, Sound(ws), Measured(ws), NEW key \in Key, NEW path \in DistributionPath,
           NEW content \in Content,
           ~(BindingCount(ws.states) + 1 > MaxResolvedFiles),
           \/ ws.resolved[path] # NoFile
           \/ ~(ws.resolved_bytes + Size[content] > MaxResolvedBytes)
    PROVE  Measured(Provided(ws, key, path, content))
<1> DEFINE new == Provided(ws, key, path, content)
           stored == InsertBytes(ws, path, content)
           layer == [ws.resolved EXCEPT ![path] = content]
<1>1. /\ ws.resolved \in [DistributionPath -> Content \cup {NoFile}]
      /\ ws.resolved_bytes \in Nat /\ ws \in Workspace /\ ws.states \in States
  BY DEF Sound, Workspace, ResolvedLayer
<1>2. /\ stored.states = ws.states /\ stored \in Workspace
      /\ stored.user = ws.user /\ stored.user_bytes = ws.user_bytes
  <2>1. stored.states = ws.states /\ stored \in Workspace
    BY InsertBytesPreserves DEF Preserves, Sound
  <2> QED BY <1>1, <2>1 DEF InsertBytes, Workspace
<1>3. stored.resolved_bytes = TotalSize(stored.resolved)
          /\ stored.resolved_bytes <= MaxResolvedBytes
  <2>1. CASE ws.resolved[path] # NoFile
    BY <2>1 DEF InsertBytes, Measured
  <2>2. CASE ws.resolved[path] = NoFile
    <3>1. stored.resolved = layer /\ stored.resolved_bytes = ws.resolved_bytes + Size[content]
      BY <1>1, <2>2 DEF InsertBytes, Workspace
    <3>2. TotalSize(layer) = TotalSize(ws.resolved) - SizeOf(ws.resolved[path]) + Size[content]
              /\ TotalSize(ws.resolved) \in Nat
      <4>1. IsFiniteSet(DistributionPath)
        BY ContentAssumption
      <4> QED BY <1>1, <4>1, StoreChangesTotal, Zenon
    <3>3. SizeOf(ws.resolved[path]) = 0 /\ Size[content] \in Nat
      BY <2>2, ContentAssumption DEF SizeOf
    <3> HIDE DEF layer, stored
    <3>4. stored.resolved_bytes = TotalSize(stored.resolved)
      <4>1. ws.resolved_bytes = TotalSize(ws.resolved)
        BY DEF Measured
      <4> QED BY <3>1, <3>2, <3>3, <4>1
    <3>5. stored.resolved_bytes <= MaxResolvedBytes
      BY <1>1, <2>2, <3>1, <3>3, LimitAssumption
    <3> QED BY <3>4, <3>5
  <2> QED BY <2>1, <2>2
<1>4. BindingCount([ws.states EXCEPT ![key] = Admitted(path)]) <= MaxResolvedFiles
  BY <1>1, OneMoreBinding
<1> HIDE DEF stored
<1>5. /\ new.states = [ws.states EXCEPT ![key] = Admitted(path)]
      /\ new.resolved = stored.resolved /\ new.resolved_bytes = stored.resolved_bytes
      /\ new.user = ws.user /\ new.user_bytes = ws.user_bytes
  BY <1>2 DEF Provided, MarkReady, Workspace, stored
<1> HIDE DEF new
<1> QED BY <1>3, <1>4, <1>5, Zenon DEF Measured, new

(* provision and preload stay within the limits. *)
LEMMA ProvisionInnerMeasured ==
    ASSUME NEW ws, Sound(ws), Measured(ws), NEW key \in Key, NEW path \in DistributionPath,
           NEW content \in Content, NEW req \in BOOLEAN
    PROVE  Measured(ProvisionInner(ws, key, path, content, req).ws)
<1> DEFINE result == ProvisionInner(ws, key, path, content, req)
           ready == MarkReady(ws, key)
<1>1. SameMeasure(ready, ws)
  BY DEF SameMeasure, MarkReady, Sound, Workspace
<1>2. Measured(ready)
  <2> HIDE DEF ready
  <2> QED BY <1>1, SameMeasureMeasured
<1>3. \/ result.ws = ws
      \/ result.ws = ready
      \/ /\ ~(BindingCount(ws.states) + 1 > MaxResolvedFiles)
         /\ \/ ws.resolved[path] # NoFile
            \/ ~(ws.resolved_bytes + Size[content] > MaxResolvedBytes)
         /\ result.ws = Provided(ws, key, path, content)
  BY ProvisionInnerShape
<1> HIDE DEF result, ready
<1>4. Measured(result.ws)
  BY <1>2, <1>3, ProvidedMeasured, Zenon
<1> QED BY <1>4 DEF result

(* A negative answer counts as a binding and is within the limit. *)
LEMMA ProvisionUnavailableMeasured ==
    ASSUME NEW ws, Sound(ws), Measured(ws), NEW key \in Key
    PROVE  Measured(ProvisionUnavailable(ws, key).ws)
<1> DEFINE result == ProvisionUnavailable(ws, key)
           new == Denied(ws, key)
<1>1. ASSUME ~(BindingCount(ws.states) + 1 > MaxResolvedFiles) PROVE Measured(new)
  <2>1. /\ new.states = [ws.states EXCEPT ![key] = Unavailable]
        /\ new.resolved = ws.resolved /\ new.resolved_bytes = ws.resolved_bytes
        /\ new.user = ws.user /\ new.user_bytes = ws.user_bytes
    BY DEF Denied, MarkReady, Sound, Workspace
  <2>2. BindingCount([ws.states EXCEPT ![key] = Unavailable]) <= MaxResolvedFiles
    BY <1>1, OneMoreBinding DEF Sound, Workspace
  <2> HIDE DEF new
  <2> QED BY <2>1, <2>2 DEF Measured
<1>2. \/ result.ws = ws
      \/ ~(BindingCount(ws.states) + 1 > MaxResolvedFiles) /\ result.ws = new
  BY ProvisionUnavailableShape
<1> HIDE DEF result, new
<1> QED BY <1>1, <1>2 DEF result

(* A batch of two stays within the limits after each of its responses. *)
LEMMA ProvisionBatchMeasured ==
    ASSUME NEW ws, Sound(ws), Measured(ws), NEW first \in BatchResponse,
           NEW second \in BatchResponse
    PROVE  Measured(ProvisionBatch(ws, first, second).ws)
<1> DEFINE one == Provision(ws, first.key, first.path, first.content)
           two == Provision(one.ws, second.key, second.path, second.content)
<1>1. /\ first.key \in Key /\ first.path \in DistributionPath /\ first.content \in Content
      /\ second.key \in Key /\ second.path \in DistributionPath /\ second.content \in Content
  BY HandleAssumption
<1>2. Measured(one.ws) /\ Sound(one.ws)
  BY <1>1, ProvisionInnerMeasured, ProvisionInnerPreserves, Zenon DEF Provision, Preserves
<1>3. Measured(two.ws)
  <2> HIDE DEF one
  <2> QED BY <1>1, <1>2, ProvisionInnerMeasured, Zenon DEF Provision
<1>4. \/ ProvisionBatch(ws, first, second).ws = ws
      \/ ProvisionBatch(ws, first, second).ws = two.ws
  BY Zenon DEF ProvisionBatch
<1> HIDE DEF two
<1> QED BY <1>3, <1>4

(* A copy takes the source's layer, total and bindings together. *)
LEMMA CopyMeasured ==
    ASSUME NEW ws, Sound(ws), Measured(ws), NEW source, Sound(source), Measured(source)
    PROVE  Measured(CopyResolvedBindingsFrom(ws, source).ws)
<1> DEFINE new == CopyResolvedBindingsFrom(ws, source).ws
<1>1. \/ new = ws
      \/ /\ new.states = source.states
         /\ new.resolved = source.resolved /\ new.resolved_bytes = source.resolved_bytes
         /\ new.user = ws.user /\ new.user_bytes = ws.user_bytes
  BY DEF CopyResolvedBindingsFrom, Sound, Workspace
<1> HIDE DEF new
<1>2. Measured(new)
  BY <1>1 DEF Measured
<1> QED BY <1>2 DEF new

(* The calls that only move keys between vacant and outstanding, note      *)
(* evidence or count keep the measure.                                     *)
LEMMA QuietMeasured ==
    ASSUME NEW ws, Sound(ws), Measured(ws)
    PROVE  /\ \A key \in Key : Measured(NoteExists(ws, key))
           /\ \A keys, intent : intent \in RequestIntent =>
                 Measured([ws EXCEPT !.states = Authorize(ws.states, keys, intent)])
           /\ \A required, probes, hints : Measured(Expect(ws, required, probes, hints))
           /\ Measured(Retry(ws).ws)
           /\ Measured(CancelOutstandingResources(ws))
<1>0. ws \in Workspace /\ ws.states \in States
  BY DEF Sound, Workspace
<1>1. ASSUME NEW key \in Key PROVE Measured(NoteExists(ws, key))
  <2>1. SameMeasure(NoteExists(ws, key), ws)
    BY <1>0 DEF NoteExists, SameMeasure, Workspace
  <2> QED BY <2>1, SameMeasureMeasured
<1>2. ASSUME NEW keys, NEW intent \in RequestIntent
      PROVE  Measured([ws EXCEPT !.states = Authorize(ws.states, keys, intent)])
  <2> DEFINE states == Authorize(ws.states, keys, intent)
             new == [ws EXCEPT !.states = states]
  <2>1. \A key \in Key : IsBound(states, key) => IsBound(ws.states, key)
    BY <1>0, AuthorizeKeepsBindings
  <2> HIDE DEF states
  <2>2. SameMeasure(new, ws)
    BY <1>0, <2>1 DEF SameMeasure, Workspace
  <2> HIDE DEF new
  <2>3. Measured(new)
    BY <2>2, SameMeasureMeasured
  <2> QED BY <2>3 DEF new, states
<1>3. ASSUME NEW required, NEW probes, NEW hints
      PROVE  Measured(Expect(ws, required, probes, hints))
  <2> DEFINE states == BeginBatch(ws.states, required, probes, hints)
             new == Expect(ws, required, probes, hints)
  <2>1. \A key \in Key : IsBound(states, key) => IsBound(ws.states, key)
    BY <1>0, BeginBatchKeepsBindings
  <2>2. new = [ws EXCEPT !.states = states,
                         !.required_at_batch_start = Cardinality(OutstandingBlocking(states))]
    BY DEF Expect
  <2> HIDE DEF states, new
  <2>3. SameMeasure(new, ws)
    BY <1>0, <2>1, <2>2 DEF SameMeasure, Workspace
  <2>4. Measured(new)
    BY <2>3, SameMeasureMeasured
  <2> QED BY <2>4 DEF new
<1>4. Measured(Retry(ws).ws)
  <2> DEFINE new == Retry(ws).ws
  <2>1. SameMeasure(new, ws)
    BY <1>0 DEF Retry, SameMeasure, Workspace
  <2> HIDE DEF new
  <2>2. Measured(new)
    BY <2>1, SameMeasureMeasured
  <2> QED BY <2>2 DEF new
<1>5. Measured(CancelOutstandingResources(ws))
  <2> DEFINE states == CancelOutstanding(ws.states)
             new == CancelOutstandingResources(ws)
  <2>1. \A key \in Key : IsBound(states, key) => IsBound(ws.states, key)
    BY <1>0, CancelKeepsBindings
  <2>2. new = [ws EXCEPT !.states = states,
                         !.known_exists = {key \in ws.known_exists : IsBound(states, key)},
                         !.required_at_batch_start = 0]
    BY DEF CancelOutstandingResources
  <2> HIDE DEF states, new
  <2>3. SameMeasure(new, ws)
    BY <1>0, <2>1, <2>2 DEF SameMeasure, Workspace
  <2>4. Measured(new)
    BY <2>3, SameMeasureMeasured
  <2> QED BY <2>4 DEF new
<1> QED BY <1>1, <1>2, <1>3, <1>4, <1>5

AllMeasured == \A h \in Handle : Live(h) => Measured(workspaces[h])

(* Every step keeps every live workspace measured. *)
LEMMA StepMeasured ==
    ASSUME IInv, AllMeasured, Next
    PROVE  AllMeasured'
<1>1. PICK h \in Handle :
        /\ Live(h)
        /\ \/ DoRegisterUser(h) \/ DoNoteExists(h) \/ DoAuthorizePrefetchHints(h)
           \/ DoAuthorizeBlockingFile(h) \/ DoExpect(h) \/ DoProvision(h) \/ DoPreload(h)
           \/ DoProvisionUnavailable(h) \/ DoProvisionBatch(h) \/ DoRetry(h)
           \/ DoCancelOutstanding(h) \/ DoClear(h)
           \/ \E g \in Handle \ {h} : DoCopyResolvedBindings(h, g) \/ DoClone(h, g)
           \/ DoDrop(h)
  BY DEF Next
<1>2. Sound(workspaces[h]) /\ Measured(workspaces[h])
  BY <1>1 DEF IInv, AllMeasured
<1>3. ASSUME NEW g \in Handle, NEW new, new = Dropped \/ Measured(new), Become(g, new)
      PROVE  AllMeasured'
  <2>1. workspaces \in [Handle -> Workspace \cup {Dropped}]
    BY DEF IInv, TypeOK
  <2>2. workspaces'[g] = new /\ \A f \in Handle \ {g} : workspaces'[f] = workspaces[f]
    BY <1>3, <2>1 DEF Become
  <2> HIDE DEF Measured
  <2> QED BY <1>3, <2>2 DEF AllMeasured, Live
<1> DEFINE Goes == \E new : Measured(new) /\ Become(h, new)
<1>4. Goes => AllMeasured'
  BY <1>3
<1>5. ASSUME DoRegisterUser(h) PROVE Goes
  BY <1>2, <1>5, RegisterUserMeasured DEF DoRegisterUser
<1>6. ASSUME DoNoteExists(h) PROVE Goes
  BY <1>2, <1>6, QuietMeasured DEF DoNoteExists
<1>7. ASSUME DoAuthorizePrefetchHints(h) PROVE Goes
  <2>1. PrefetchHint \in RequestIntent
    BY DEF RequestIntent
  <2> QED BY <1>2, <1>7, <2>1, QuietMeasured
          DEF DoAuthorizePrefetchHints, AuthorizePrefetchHints, AuthorizeHints
<1>8. ASSUME DoAuthorizeBlockingFile(h) PROVE Goes
  <2>1. {Probe, Required} \subseteq RequestIntent
    BY DEF RequestIntent
  <2> QED BY <1>2, <1>8, <2>1, QuietMeasured
          DEF DoAuthorizeBlockingFile, AuthorizeBlockingFile, AuthorizeBlocking
<1>9. ASSUME DoExpect(h) PROVE Goes
  BY <1>2, <1>9, QuietMeasured DEF DoExpect
<1>10. ASSUME DoProvision(h) PROVE Goes
  BY <1>2, <1>10, ProvisionInnerMeasured, Zenon DEF DoProvision, Provision
<1>11. ASSUME DoPreload(h) PROVE Goes
  BY <1>2, <1>11, ProvisionInnerMeasured, Zenon DEF DoPreload, Preload
<1>12. ASSUME DoProvisionUnavailable(h) PROVE Goes
  BY <1>2, <1>12, ProvisionUnavailableMeasured DEF DoProvisionUnavailable
<1>13. ASSUME DoProvisionBatch(h) PROVE Goes
  BY <1>2, <1>13, ProvisionBatchMeasured DEF DoProvisionBatch
<1>14. ASSUME DoRetry(h) PROVE Goes
  BY <1>2, <1>14, QuietMeasured DEF DoRetry
<1>15. ASSUME DoCancelOutstanding(h) PROVE Goes
  BY <1>2, <1>15, QuietMeasured DEF DoCancelOutstanding
<1>16. ASSUME DoClear(h) PROVE Goes
  BY <1>2, <1>16, ClearMeasured DEF DoClear
<1>17. ASSUME NEW g \in Handle \ {h}, DoCopyResolvedBindings(h, g) PROVE Goes
  <2>1. Sound(workspaces[g]) /\ Measured(workspaces[g])
    BY <1>17 DEF DoCopyResolvedBindings, IInv, AllMeasured
  <2> QED BY <1>2, <1>17, <2>1, CopyMeasured DEF DoCopyResolvedBindings
<1>18. ASSUME NEW g \in Handle \ {h}, DoClone(h, g) PROVE AllMeasured'
  BY <1>2, <1>3, <1>18 DEF DoClone
<1>19. ASSUME DoDrop(h) PROVE AllMeasured'
  BY <1>3, <1>19 DEF DoDrop
<1> HIDE DEF Goes
<1> QED BY <1>1, <1>4, <1>5, <1>6, <1>7, <1>8, <1>9, <1>10, <1>11, <1>12, <1>13, <1>14,
           <1>15, <1>16, <1>17, <1>18, <1>19

(* The measure holds throughout. *)
LEMMA AlwaysMeasured == Spec => []AllMeasured
<1>1. Init => AllMeasured
  <2> SUFFICES ASSUME Init, NEW h \in Handle, Live(h)
               PROVE  Measured(workspaces[h])
    BY DEF AllMeasured
  <2>1. workspaces[h] = NewWorkspace
    BY DEF Init, Live
  <2> QED BY <2>1, NewMeasured
<1>2. IInv /\ AllMeasured /\ [Next]_vars => AllMeasured'
  <2>1. ASSUME IInv, AllMeasured, Next PROVE AllMeasured'
    BY <2>1, StepMeasured
  <2>2. ASSUME AllMeasured, UNCHANGED vars PROVE AllMeasured'
    BY <2>2 DEF vars, AllMeasured, Live
  <2> QED BY <2>1, <2>2
<1> QED BY <1>1, <1>2, Invariance, PTL DEF Spec

(* No sequence of calls, failed ones, clones and copies included, takes a  *)
(* workspace over one of its limits.                                       *)
THEOREM LimitsHold == Spec => []WithinLimits
<1>1. AllMeasured => WithinLimits
  BY DEF AllMeasured, Measured, WithinLimits
<1> QED BY <1>1, AlwaysMeasured, PTL

(* The totals the operations keep by adding and subtracting are the sizes  *)
(* of the files stored, for any number of paths and any sharing of them.   *)
THEOREM TotalsAreExact == Spec => []BytesAccounted
<1>1. AllMeasured => BytesAccounted
  BY DEF AllMeasured, Measured, BytesAccounted
<1> QED BY <1>1, AlwaysMeasured, PTL
=============================================================================
