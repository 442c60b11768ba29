----------------------------- MODULE FetchBatch -----------------------------
(***************************************************************************)
(* One call of FetchClient::fetch_batch_cancellable (umber-fetch/src/      *)
(* fetch.rs, downloader.rs): scoped worker threads take requests from a    *)
(* shared counter, look in the blob store, download and verify with        *)
(* retries; the calling thread joins them and publishes what was           *)
(* downloaded, or nothing, under the mutex that cancel() takes as well.    *)
(*                                                                         *)
(* The network and the file system answer in every way the code tells      *)
(* apart.  An operator named ..._Bug... is a deliberately wrong variant of *)
(* the one after it; nothing uses it but the mutation checks.              *)
(***************************************************************************)
EXTENDS Integers, FiniteSets

CONSTANTS
    N,            \* number of requests in the batch
    Concurrency,  \* FetchClientConfig.concurrency
    Retries,      \* FetchClientConfig.retries
    ObjectOf      \* the object each request names

Request == 1 .. N
Object == {ObjectOf[i] : i \in Request}
Worker == 1 .. (IF Concurrency < N THEN Concurrency ELSE N)   \* worker_count

ASSUME FetchAssumption ==
    /\ N \in Nat /\ Concurrency \in Nat \ {0} /\ Retries \in Nat
    /\ DOMAIN ObjectOf = Request

VARIABLES
    cancelled,  \* FetchCancellationState.cancelled
    next,       \* the shared request counter, from 1
    worker,     \* each worker thread: where it is, its request, its attempt
    results,    \* the result slot of each request
    cache,      \* objects in the blob store
    phase,      \* where the calling thread is
    position,   \* the request it publishes next
    outcome     \* what the call returned

batchVars == <<cancelled, next, worker, results, cache, phase, position, outcome>>

IdleWorker == [pc |-> "loop", index |-> 0, attempt |-> 0]

BatchInit ==
    /\ cancelled = FALSE
    /\ next = 1
    /\ worker = [w \in Worker |-> IdleWorker]
    /\ results = [i \in Request |-> "None"]
    /\ cache \in SUBSET Object
    /\ phase = "start"
    /\ position = 1
    /\ outcome = "None"

(***************************************************************************)
(* FetchCancellation::cancel, from any thread: it waits for the mutex that *)
(* the publishing phase holds.                                             *)
(***************************************************************************)
PublicationHeld == phase = "publishing"

Cancel_BugNoLock ==
    /\ cancelled' = TRUE
    /\ UNCHANGED <<next, worker, results, cache, phase, position, outcome>>

Cancel ==
    /\ ~PublicationHeld
    /\ cancelled' = TRUE
    /\ UNCHANGED <<next, worker, results, cache, phase, position, outcome>>

(***************************************************************************)
(* A worker thread.                                                        *)
(***************************************************************************)
WorkerAt(w, pc) == phase = "running" /\ worker[w].pc = pc

WorkerGoto(w, pc) ==
    /\ worker' = [worker EXCEPT ![w].pc = pc]
    /\ UNCHANGED <<cancelled, next, results, cache, phase, position, outcome>>

(* fetch_one returns; its result goes to the slot of the request. *)
Finish(w, result) ==
    /\ results' = [results EXCEPT ![worker[w].index] = result]
    /\ worker' = [worker EXCEPT ![w] = IdleWorker]
    /\ UNCHANGED <<cancelled, next, cache, phase, position, outcome>>

Take(w) ==
    /\ WorkerAt(w, "loop")
    /\ next' = next + 1
    /\ worker' = [worker EXCEPT ![w] = [pc      |-> IF next \in Request THEN "begin" ELSE "done",
                                        index   |-> IF next \in Request THEN next ELSE 0,
                                        attempt |-> 0]]
    /\ UNCHANGED <<cancelled, results, cache, phase, position, outcome>>

(* An oversized or misnamed object fails before anything is looked up. *)
Begin(w) ==
    /\ WorkerAt(w, "begin")
    /\ \/ cancelled /\ Finish(w, "Cancelled")
       \/ ~cancelled /\ (Finish(w, "Failed") \/ WorkerGoto(w, "load"))

(* load_object: a hit, a miss, or a cache error. *)
LoadObject(w) ==
    /\ WorkerAt(w, "load")
    /\ \/ ObjectOf[worker[w].index] \in cache /\ WorkerGoto(w, "hit")
       \/ ObjectOf[worker[w].index] \notin cache /\ WorkerGoto(w, "attempt")
       \/ Finish(w, "Failed")

Hit(w) ==
    /\ WorkerAt(w, "hit")
    /\ Finish(w, IF cancelled THEN "Cancelled" ELSE "Hit")

(* download_uri: the end of one attempt with a retryable failure. *)
RetryOrFail_BugNoCount(w) == WorkerGoto(w, "attempt")

RetryOrFail(w) ==
    IF worker[w].attempt < Retries
    THEN /\ worker' = [worker EXCEPT ![w].pc = "attempt", ![w].attempt = @ + 1]
         /\ UNCHANGED <<cancelled, next, results, cache, phase, position, outcome>>
    ELSE Finish(w, "Failed")

Attempt(w) ==
    /\ WorkerAt(w, "attempt")
    /\ \/ cancelled /\ Finish(w, "Cancelled")
       \/ ~cancelled /\ WorkerGoto(w, "call")

(* The HTTP call: a response to read, a retryable failure (transport,      *)
(* status 408, 429 or 5xx, a declared length over the expected one), or a  *)
(* permanent one (any other status).                                       *)
Download(w) ==
    /\ WorkerAt(w, "call")
    /\ WorkerGoto(w, "read") \/ RetryOrFail(w) \/ Finish(w, "Failed")

(* One pass of the read loop; earlier passes change nothing. *)
ReadBody(w) ==
    /\ WorkerAt(w, "read")
    /\ \/ cancelled /\ Finish(w, "Cancelled")
       \/ ~cancelled /\ (WorkerGoto(w, "verify") \/ RetryOrFail(w))

(* The check after the body, then its length and digest. *)
Verify(w) ==
    /\ WorkerAt(w, "verify")
    /\ \/ cancelled /\ Finish(w, "Cancelled")
       \/ ~cancelled /\ (Finish(w, "Fetched") \/ RetryOrFail(w))

WorkerStep(w) ==
    Take(w) \/ Begin(w) \/ LoadObject(w) \/ Hit(w) \/ Attempt(w) \/ Download(w) \/ ReadBody(w) \/ Verify(w)

(***************************************************************************)
(* The calling thread.                                                     *)
(***************************************************************************)
ReturnBatch(result) ==
    /\ phase' = "returned"
    /\ outcome' = result
    /\ UNCHANGED <<cancelled, next, worker, results, cache, position>>

Enter(next_phase) ==
    /\ phase' = next_phase
    /\ UNCHANGED <<cancelled, next, worker, results, cache, position, outcome>>

(* The objects URL is parsed after the first cancellation check. *)
Start ==
    /\ phase = "start"
    /\ \/ cancelled /\ ReturnBatch("Cancelled")
       \/ ~cancelled /\ (ReturnBatch("Failed") \/ Enter("running"))

Join ==
    /\ phase = "running"
    /\ \A w \in Worker : worker[w].pc = "done"
    /\ Enter("joined")

Succeeded(i) == results[i] \in {"Hit", "Fetched"}

Decide ==
    /\ phase = "joined"
    /\ \/ cancelled /\ ReturnBatch("Cancelled")
       \/ /\ ~cancelled
          /\ \/ (\A i \in Request : Succeeded(i)) /\ Enter("lock")
             \/ (\E i \in Request : ~Succeeded(i)) /\ ReturnBatch("Failed")

LockPublication ==
    /\ phase = "lock"
    /\ \/ cancelled /\ ReturnBatch("Cancelled")
       \/ ~cancelled /\ Enter("publishing")

(* Request keys are distinct in a batch, so the request found by key is    *)
(* the one the object was fetched for, and store_object accepts its bytes  *)
(* unless the file system fails.                                           *)
Publish_BugErrorIgnored ==
    /\ PublicationHeld
    /\ position \in Request
    /\ \E stored \in {cache, cache \cup {ObjectOf[position]}} : cache' = stored
    /\ position' = position + 1
    /\ UNCHANGED <<cancelled, next, worker, results, phase, outcome>>

Publish ==
    /\ PublicationHeld
    /\ position \in Request
    /\ \/ /\ \/ results[position] = "Hit" /\ cache' = cache
             \/ /\ results[position] = "Fetched"
                /\ cache' = cache \cup {ObjectOf[position]}
          /\ position' = position + 1
          /\ UNCHANGED <<cancelled, next, worker, results, phase, outcome>>
       \/ results[position] = "Fetched" /\ ReturnBatch("Failed")

PublishEnd ==
    /\ PublicationHeld
    /\ position = N + 1
    /\ ReturnBatch("Ok")

CallerStep == Start \/ Join \/ Decide \/ LockPublication \/ Publish \/ PublishEnd

BatchNext == Cancel \/ (\E w \in Worker : WorkerStep(w)) \/ CallerStep

(***************************************************************************)
(* Threads are scheduled, and every network call ends: the agent is built  *)
(* with a global timeout.  Nobody has to cancel.                           *)
(***************************************************************************)
Fairness == WF_batchVars(CallerStep) /\ \A w \in Worker : WF_batchVars(WorkerStep(w))

BatchSpec == BatchInit /\ [][BatchNext]_batchVars /\ Fairness
-----------------------------------------------------------------------------
(***************************************************************************)
(* Properties.                                                             *)
(***************************************************************************)

(* "Cancelled bytes are never published to the cache or returned to the    *)
(* caller": once cancel() has returned, no store happens and the call does *)
(* not succeed any more, at whatever point the cancellation fell.          *)
CancelledBytesStayPrivate ==
    [][cancelled => cache' = cache /\ (outcome' = "Ok" => outcome = "Ok")]_batchVars

(* A batch is complete: when the call succeeds every request has verified  *)
(* bytes and every object is in the store, so the next run finds them all. *)
SuccessIsComplete ==
    outcome = "Ok" => \A i \in Request : Succeeded(i) /\ ObjectOf[i] \in cache

(* The call returns, whatever the network and the cache answer. *)
BatchReturns == <>(outcome # "None")

=============================================================================
