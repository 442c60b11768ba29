# TLA+ verification of umber

umber is a TeX engine in Rust with an incremental compiler, a virtual file
system, a native command line and a WASM/JavaScript host. The engine proper is
a large sequential interpreter, checked by the repository against a reference
TeX. This project is about what surrounds it: sessions that suspend on missing
resources and resume, caches shared by processes, threads and callbacks that
cancel each other, a preview that is patched from another thread, the journal
that lets the engine go back, and state that must stay consistent while all of
that happens. In every module a run of the engine or of the bibliography processor
is one nondeterministic outcome: it completes, fails, or asks for resources.

## Inventory of the system

| Part | Where | Kind of difficulty | Here |
|---|---|---|---|
| Resource lifecycle, workspace ledger | `umber-vfs`: `lifecycle.rs`, `resource.rs`, `limits.rs` | long call sequences, partial failure, limits | `ResourceLifecycle`, `ProjectWorkspace`, `WorkspaceLedger` |
| Copy-on-write storage, snapshots, transactions | `umber-vfs`: `storage.rs`, `snapshot.rs`, `transaction.rs` | aliasing, stale views | `CowStorage` |
| Batch fetch | `umber-fetch`: `fetch.rs`, `downloader.rs` | threads, cancellation, retries | `FetchBatch` |
| Blob store | `umber-fetch`: `cache.rs`, `blob_store_unix.rs` | processes, crashes, power loss | `BlobStore` |
| `umber watch`, Ctrl-C dispatcher, native session | `watch.rs`, `umber-interrupt`, `cli_resource.rs` | three threads and an editor | `Watch` |
| LaTeX project session, fixed point | `latex_project.rs`, `fixed_point.rs`, `tex_fixed_point.rs` | suspension inside a loop, rejection | `LatexProject` |
| Editor compile session | `editor_session.rs` | two sessions that replace one another | `EditorCompileSession` |
| JavaScript session driver, editor facade | `session-driver.js`, `compile.js` | awaits, aborts, disposal | `SessionDriver` |
| Dense engine state: groups, rollback, checkpoints | `tex-state`: `env.rs`, `env/restoration.rs`, `env/group.rs`, `journal.rs`, `fork_arena/` | three undo mechanisms fed by one write | `DenseState`, `CheckpointLane` |
| Render delivery | `publication.rs`, `virtual_compile.rs`, `editor_session.rs` | acknowledgement, resynchronisation | `RenderSession` |
| Worker RPC and facades | `worker-rpc.js`, `worker-controller.js`, `worker-entry.js` | late and lost replies, timeouts | `WorkerRpc` |
| Live preview mount | `html-patch*.js` | awaits, failures in the middle of an update | `HtmlPatchMount`; the whole path in `LivePreview` |
| Virtual compile session | `virtual_compile.rs` | admission, publication, render updates | partly: its acceptance protocol, in `Watch`, `EditorCompileSession` and `RenderSession` |
| Incremental history, candidate leases | `tex-incr` | checkpoint reuse | not modelled: see below |
| Resolvers, browser cache | `resource-resolver.js`, `manifest-resolver.js`, `persistent-cache.js` | awaits, runs | not modelled: a batch answers or fails in `SessionDriver` |
| Format cache, prefetch planner, observations | `umber` | through the blob store and the drain step | not modelled separately |
| TeX engine, fonts, typesetting, output, bibliography | `tex-*`, `bib-*` | sequential computation | not modelled |
| Manifests, hashing, arenas, tools | `umber-distribution`, `umber-hash`, `tools/` | pure functions, tooling | not modelled |

`PROJECT.json` lists every part with its sources and the reason where it is
left out, and the hazards of the code with the line where each bites and the
properties that would notice it.

The parts meet as follows. The command line (`Watch`) or the JavaScript host
(`SessionDriver`) drives a session; the session works on clones of a workspace
(`WorkspaceLedger`), whose layers are shared by copy-on-write (`CowStorage`),
and suspends when the engine needs a file. The host then asks the fetch client
(`FetchBatch`), which looks in the blob store (`BlobStore`) before it
downloads, and provides the answers to the session. `LatexProject` repeats TeX
and bibliography passes over such a session until the generated files settle;
`EditorCompileSession` uses it in the background to stabilize what a fast
single pass has displayed. In the browser the editor session lives in a worker
(`WorkerRpc`), and every revision it accepts becomes a render update
(`RenderSession`) that the host mounts in the page (`HtmlPatchMount`) and
acknowledges; `LivePreview` composes the three. Under all of them the engine
keeps its state in cells whose changes are journalled (`DenseState`), so that a
group ends, a failed command is undone, and an edit restarts at a checkpoint
(`CheckpointLane`).

## Conventions

One module per component; `MC...` modules give constants their values for TLC;
`...Proofs` modules hold the theorems of the module they are named after;
`FetchProofs` has those of `FetchBatch` and `BlobStore`, and `DriverProofs` those
of `SessionDriver` and `Watch`. An
operator named `..._Bug...`, or commented as a mutant, stands before the
operator it spoils and is used by nothing but the mutation checks listed in
`PROJECT.json`: with the right operator replaced by the wrong one, TLC must
find the named property violated. Definitions keep the names of the
code in TLA+ spelling; the comments name the function where the correspondence
is not obvious, and the map in `PROJECT.json` gives the lines.

## Modules

**ResourceLifecycle, ProjectWorkspace, WorkspaceLedger.** A workspace is a
record of its user layer, its resolved layer, the lifecycle map (vacant,
outstanding with an intent, admitted to a path, unavailable), the existence
evidence and the counters. Each method of `ProjectWorkspace` is an operator
that yields the new workspace and its result; `WorkspaceLedger` lets a session
own several workspaces, call every method in every order, clone, drop, and copy
bindings between them. Contents are values with a size; equality of contents
stands for equality of digests. Responses that path or digest validation
refuses before anything is read are left out. `provision_batch` has two
responses.
`BindingLedger` is the abstract specification: a map from keys to answers in
which an answered key keeps its answer until everything is forgotten.

**CowStorage, ValueStorage.** Who shares a generation and who shares a layer is
the state; `Arc::make_mut` copies a node that has another owner. `ValueStorage`
is the same interface with private copies, and `CowStorage` refines it.

**FetchBatch.** One call of `fetch_batch_cancellable`: scoped workers with a
shared counter, the look-up, the attempts of a download, the join, the two
cancellation checks and the publication under the mutex that `cancel()` takes.

**BlobStore.** One key, several processes, one step per file operation; any
operation may fail. `durable` is what a power failure leaves. A process may be
killed anywhere, and an entry may be damaged or written by someone else.
`namespace` is the directory of the entries: it is made in one step and synced
into its parent in another, by the process that made it and by no other. The
file system is external: it is taken to keep synced data and synced directory
entries, and to keep or lose the rest.

**Watch.** The main thread with its locals, the monitor thread of the current
round, the dispatcher with the statics of `umber-interrupt`, and the native
session as the loop sees it (source, pending source, accepted text, pending
patch, suspended candidate). A text is the number of the save that produced it.

**LatexProject.** The fields of the project session and of its candidate.
`compile_attempt` is a sequence of steps because it loops over passes; calls do
not overlap. What a pass writes is any content, and each backend writes files of
its own: Classic a `.bbl` and a `.blg`, biblatex what the job asks for. With `enabled` false it is the
`TexFixedPointSession`. `start` and `suspended` are history for the properties.

**EditorCompileSession, SessionDriver.** The first gives the operations of the
Rust session as operators on a record, the second is the asynchronous driver
and the facade over it: a step is what JavaScript runs between two awaits, and
the host may call the facade at each of them and from inside `onProgress`, which
the driver calls between two of its own calls on the session. `stale` is history:
the calls that were made on a session already disposed. Waits are numbered so that an
answer can be told to belong to one. `Orderly` says whether the host applies
patches only between drives and advances a patch before it stabilizes.

**DenseState, CheckpointLane, Environments.** A cell holds a value, the level
of its assignment and the serial of its last write. One write may feed three
records: a save for the innermost group, an undo entry for an open state
operation, and a delta for the checkpoint before. `CheckpointLane` has the
deltas alone: checkpoints, the in-place walks that go back and forth, the
candidate that an edit starts at a checkpoint while the accepted deltas wait
detached, release of a prefix, and one action `Mutate` that says what any writer
of cells owes it (the first write of an epoch leaves the displaced word in one
new delta). `DenseState` extends it with groups and operations. `Environments`
is the abstract specification of both, and `DenseEnvironments` the mapping to it: a stack of environments, global
assignments that reach all of them, and operations that can be abandoned.

**HtmlPatchMount, RenderSession, WorkerRpc, LivePreview.** The mount's methods
are split at their awaits; a font load, an operation of a patch or a call on
`document.fonts` may fail. The commit of the fonts can so throw half way: what it
has installed by then is removed again, what it has released is gone, and the font
it was adding stays registered. `broken` is history: the kinds of calls in which
that happened. `RenderSession`
gives the operations on the pending update as operators on a record.
`WorkerRpc` is the client: requests with timers over two message queues, one
exclusive request at a time, termination. `LivePreview` composes them with the
worker's message listener and a host. The host is not part of the repository;
the model has the one its documentation describes:

- it waits for a mount call before it makes the next (`Serial`; the class does
  not enforce it) and mounts as soon as the mount is free;
- what the mount answers (an acknowledgement, a request for a snapshot) goes to
  the worker before the next operation (`Told`);
- of the updates that wait it keeps the latest, but a patch does not displace
  a waiting snapshot of the same document (`Replaces`): `render_resync` leaves
  the pending patch in place, `advance` sends it again, and a host that
  preferred it would ask for a snapshot for ever;
- it cancels only the drive it waits for, and starts no session and no drive
  after it has disposed the mount.

Promise reactions run before the next event (`Drained`), as JavaScript has it.

## Runs

| Run | Bounds | Shows |
|---|---|---|
| `workspace_api` | 1 workspace, 3 keys, 2 distribution paths, 2 job paths, contents of size 1 and 2, limits of 2 resolved files, 2 user files and 3 bytes of each | types, limits are kept, totals equal what is stored, a failed admission changes nothing |
| `workspace_candidates` | 2 workspaces, 2 keys, 2 paths, 2 contents | admitted keys have bytes, evidence never contradicts a binding, the API refines `BindingLedger` |
| `cow_sharing` | 2 workspaces, 1 snapshot, 1 transaction, 1 path per layer | sharing is invisible (refines `ValueStorage`), candidate views end with their transaction |
| `env_groups` | a meaning and an extended register, 2 values, 2 groups, 1 operation, 4 journal entries | the journal refines `Environments`; the marks and word counts of the save stack agree with its entries |
| `env_checkpoints` | 2 cells, 4 epochs, 2 cursors, 1 group, 1 operation | a cursor that validates leads back to its checkpoint exactly, a settled candidate leaves one history, every engine step obeys the lane's contract |
| `live_preview` | 2 sessions, 2 revisions, a content with two fonts and one without, 1 failure of a load, a write or a commit, 2 requests in flight | the page is the document the mount holds, no reply outlives its request, the page catches up |
| `fetch_batch` | 3 requests for 2 objects, 2 workers, 1 retry | all-or-nothing success, no publication after a cancellation, the call returns |
| `blob_store` | 2 processes, 2 payloads, 2 crashes or power failures, 1 damage | whole and durable entries, no replacement of a valid one, the lock is released, the lock-free audit is not misled |
| `watch` | 3 saves or removals with reverts, 1 Ctrl-C, 1 wait per round | patches apply to the text the engine has, no round resumes an old candidate, a stale output is noticed, the output reaches the last new text, Ctrl-C stops the process |
| `project_converges` | with and without bibliography; 2 backends, 2 passes, 2 attempts, 2 revisions, 2 contents | current candidates, ledger of observations, fixed point of uninterrupted passes, every revision settles |
| `editor_driver` | 3 revisions, 3 resource batches, orderly host | no call into a disposed session but two reads, answers reach the wait they belong to, honest stable status, no regression of the display, every drive settles |

The bounds are the smallest at which the cases meet: two keys that share a
path and a third that competes for the last binding; a worker that finishes
while another retries; a second process that publishes between load and rename;
an edit before, during and after a round; a pass that returns to an earlier
generation; a patch, its cancellation and a stabilization in one session; a
global assignment between two saves of one cell under nested groups, inside an
operation that is rolled back; a candidate whose deltas and those it set aside
both outlive a restore; a second session whose snapshot meets the page of the
first; a commit that fails between two installs or two releases; a publication
into a directory whose maker was killed before it synced it, and the power failure
after that. Each mutant listed for a run is found within them.

Symmetry is used where members of a set are interchangeable (keys, paths,
handles), never for contents, which differ in size, and never in a run with a
liveness property.

### The run that finds a disagreement

`editor_revision_doc`: a stabilizer started under a pending patch replaces the
later revision by the earlier one, where `persistent_compile_sessions.md:462`
says that replacement is at the same root revision. It needs a host that
stabilizes while a patch is pending; `editor_driver` and the theorem
`DisplayGoesOn` show that an orderly host never meets it.

### Other differences met while modelling

They have no run of their own; the models do what the code does.

- After a bibliography wait a pass is compared with its own output, and
  accepted; `persistent_compile_sessions.md:421` says that passes repeat until
  every generated file is identical. `FixedPointUnlessSuspended` says where the
  sentence does hold.
- The attempt count survives acceptance and rejection (`latex_project.rs:585`);
  `:165` of the document calls it a per-revision count. `RevisionSettles` is
  about the count as it is.
- A new candidate drops the files in `published_bibliography_paths`, which a pass
  sets to the outputs of its own backend (`latex_project.rs:837`) and a rejection
  does not restore. A biblatex pass that is rejected or cancelled after a
  Classic generation leaves only the `.bbl` in it, so that the `.blg` of Classic
  (`bib-engine/src/classic_execution.rs:136`) stays in the generation later
  candidates start on; the comment at `latex_project.rs:428` says artifacts are
  "never reused by another backend". The model takes these steps, and no property
  claims that a generation starts clean.
- `Authority::open` syncs the parent only in the process whose `mkdir` succeeded
  (`blob_store_unix.rs:33`). A call that finds the directory made and not yet
  synced publishes into it and reports success; a power failure can take the
  directory. `docs/ctan_resource_fetch.md:199` speaks of "durable" persistence.
  `PublishedIsDurable` holds for every other call.
- A snapshot whose commit throws leaves its page over the `#state` of the document
  before, and does not set `needsResync` (`html-patch.js:104`), where a failed patch
  rebuilds the page and asks for a snapshot. With two failures (`MaxFaults = 2`) a
  patch of the old document can then be acknowledged over the new page.
- A commit that throws after its first release leaves the mount with a document
  whose font the registry no longer has (`FontLost`). Later updates that release
  that font are refused, snapshots included, so the page cannot catch up.
- A drive reads `resourceReplayContext` of a session that `onProgress` has disposed,
  and `status` of one disposed after a cancellation (`session-driver.js:54`, `:77`);
  both throw.
- Nothing in `HtmlPatchMount` refuses a second call while one awaits; with
  `Serial` false TLC refutes `ShownDocumentIsWhole` at once.
  `docs/incremental_html.md:126` calls patch application atomic, and `:138`
  says that disposal rejects what comes later; the code leaves both to the host.
- A failed batch drops the objects that were verified, which the comment at
  `fetch.rs:169` says "remain safely cached"; a retry downloads them again.
- A compilation cancelled while it drains prefetches returns with its candidate
  still suspended (`cli_resource.rs:1029`), where
  `persistent_compile_sessions.md:493` says it is discarded; `RoundStartsFresh`
  shows that the watch loop never resumes it.
- An owner abort that follows a cancellation of the same drive does not dispose
  the session (`session-driver.js:72`), against `:475` of the same document.
- A stabilization that completes while a patch is pending drops the patch with
  the hot session (`editor_session.rs:202`), where `:157` says that a patch is
  applied when `advance()` accepts it.
- An acknowledgement names a revision and a digest and no session; one that
  belongs to a document of another session can be credited. `PreviewCatchesUp`
  shows that the next patch is then refused and the page resynchronised.

## Fairness

- `FetchBatch`: each worker and the caller are threads that run; every network
  call ends because the agent has a global timeout. Nobody has to cancel.
- `BlobStore`: a process that has not been killed takes its next step. Waiting
  for the lock is not assumed to succeed, only what follows it.
- `Watch`: the three threads run; an attempt is bounded by the engine's step
  limit, a fetch by its timeout. The editor and the user owe nothing.
- `LatexProject`: a running attempt runs on, and the host keeps calling
  `compile_attempt`; it need not answer any wait.
- `SessionDriver`: queued continuations run and the resolver settles each
  batch. The host owes nothing.
- `LivePreview`: a request that is not answered times out, the host takes the
  messages that arrived, a mount call goes on (loads settle, one way or the
  other) and the host mounts what waits and learns what came of it. Strong
  fairness of the host's resynchronisation: the exclusive request that keeps it
  from being sent ends again and again, and a host that has to ask eventually
  does so between two of them. Nothing is assumed of the worker, which may be
  silent until its timer expires.

`DenseState` has safety properties only. `Watch`, `SessionDriver` and
`LivePreview` are checked without deadlock detection: the process exits, a
disposed session takes no call, and a host without a mount has nothing to do.

## Proofs

Every theorem is about all values of the constants: any number of keys, cells,
processes, revisions, edits and so on, with the bounds of the runs (`Max...`)
arbitrary natural numbers. The assumptions are the `ASSUME`s of the modules:
sizes, limits and bounds are natural numbers, finite sets are finite, and the
markers for "nothing" (`None`, `NoFile`, `Missing`, ...) are none of the values
they stand beside. Three theorems have a condition on the host, stated in the
theorem.

**WorkspaceLedgerProofs**: `TypeCorrect` (`TypeOK`), `BytesRemain`
(`AdmittedKeysHaveBytes`, so the lookups the code ends in `expect` do not
panic), `EvidenceConsistent` (`KnownExistsIsUnbound`), `FailuresAreAtomic`
(`FailedAdmissionChangesNothing`), and `WriteOnce`: the workspace API implements
`BindingLedger`. A workspace is `Sound` when it is well formed, its admitted
keys have bytes, and its evidence names no bound key; `IInv` says that every
live workspace is sound. The three are needed together: copying bindings takes
the source's layer and ledger, which keeps the receiver's answers only because
the source's admitted keys have bytes. For each method a lemma shows that it
keeps a workspace sound and (except `clear`) keeps every binding and its bytes.
The delicate one is `provision_inner`, which stores bytes before the lifecycle
binds the key: the earlier checks exclude every error the lifecycle could
return, so the late error path is dead. `StepShapes` then sorts the steps of
`Next` into learning, forgetting, cloning and dropping, which are the steps of
`BindingLedger`.

`LimitsHold` (`WithinLimits`) and `TotalsAreExact` (`BytesAccounted`) rest on a
second invariant, `Measured`: each workspace is within its limits and its two
byte totals are the sums over its layers. The limits are not inductive without
the sums: a replacement subtracts the length of the old file, and what remains
is the size of the other files only if the total was exact. The sum is a fold
over a set in an order nobody chose. `SumsExist` and `SumTakesAnyElement` show
that it exists and that any element can be taken out first; both argue from a
least counterexample (`LeastNatural`), since the induction theorems of the
library cannot be instantiated. `StoreChangesTotal` then says what writing one
file does to the total, which is all the operations need.

**CowStorageProofs**: `CandidatesEnd` (`CandidateViewsEndWithTransaction`) and
`SharingIsUnseen` (`SharingIsInvisible`): `CowStorage` implements `ValueStorage`.
`Sound` says of a heap that the sharing of generations and of each layer is a
partition of the owners that are alive, and that an owner has all of its layers
or none; `Owned` that snapshots and the transaction hold what they show; and
`Candidates` that a readable view of uncommitted files was issued by the open
transaction. The partition is what `Arc::make_mut` needs: an owner that is alone
in its generation and alone in the layer can be written in place because no one
else's class contains it. One lemma for each way to change a heap (`Cloned`,
`Replaced`, `Enters` and giving up an owner) says which owners see something
new; each operation of the code is composed of these, and maps to the one step of
`ValueStorage` of the same name. Assumed is that workspaces, snapshots and the
transaction's base are different owners, that sizes are natural numbers, and
that markers are no values.

**CheckpointLaneProofs**: `CheckpointsExact` (`CheckpointsAreExact`) and
`SettlesExactly` (`SettlesOnOneHistory`), of the lane's own specification
`LSpec`. That the engine obeys `LSpec` is the property `LaneContract`, which TLC
checks in `env_checkpoints`. `LaneInv` says that walking back from the present
gives each cursor its cells (`Exact`), that no word is newer than the
current serial (`Older`), that a cell of the current serial has a delta after
every valid cursor (`Touched`), and, while a candidate exists, the same of the accepted
branch, together with what the detached deltas hold (`Aside`). Exactness alone
is not inductive: a write is safe only because an untouched cell is recognised
by its serial, and a restore only because the branch set aside holds the words
that lead forward again. The walks are described by the first delta of each cell
and not by recursion, so that no induction is needed.

**LivePreviewProofs**: `PageIsWhole` (`ShownDocumentIsWhole`) for a host that
makes one mount call at a time (`Serial`). `MountInv` says of the one call, for
each await it can be at, what it has staged, released and written (`Staging`,
`Settling`, `Failing`) and how far the page and the registry are from the document
the mount holds. That document is whole except after a snapshot whose commit threw;
its fonts are registered as long as only patches failed and no resynchronisation is
due, and no other font is if no commit threw.
`RequestsAreServed` (`WorkerServesItsRequests`) holds for any host and any
number of requests in flight. `Served` adds to the property that an id is in one
place only (the queue to the worker, the drive, or the queue back), that the
message or drive carries the operation that was asked for under that id, and
that two requests that exclude each other are one. The operations are needed
because what the worker does with a message depends on them: a message that
starts a drive is not answered at once but takes the drive slot, which is free
only because no other exclusive request is in flight.

**FetchProofs**, of `FetchBatch`: `BatchIsComplete` (`SuccessIsComplete`) and
`CancelIsFinal` (`CancelledBytesStayPrivate`). `BatchInv` adds that nobody cancels
while publication has the mutex, that a hit is in the store and stays there, that
publication starts only when every slot holds a success, and that everything
behind its position is stored.

**FetchProofs**, of `BlobStore`: `StoreIsComplete` (`EntriesAreComplete`),
`PublicationIsDurable` (`PublishedIsDurable`), `AuditIsQuiet`
(`AuditTrustsHealthyStore`) and `EntriesStay` (`ValidEntriesStay`). `IInv` ties
the flock to the program counters, gives each process what it may rely on at its
step (`Fine`: a temporary is synced before it is renamed, what is in quarantine
was not valid, what was renamed is still there), and says that an undamaged disk
has the entry or nothing (`Healthy`). `MoveIInv` is the one place where
interference is argued: a step touches the disk only under the flock, and a
process without it relies on nothing but what it published. `RInv` says the same
of the directory: a process past `open` has it synced unless it found it unsynced.

**DriverProofs**, of `Watch`: `EveryPatchApplies` (`PatchesApply`) and `RoundsAreFresh`
(`RoundStartsFresh`). `Place` says for each place of the main thread how the
copies of the source in the session stand to each other. They come apart when an
attempt fails or its manifest is not published; the invariant shows that then no
patch is pending, so that the loop drops the session and patches nothing.
`EditsAreNoticed` (`StaleOutputIsNoticed`) needs `Newest`: a text that was read,
by the loop or by the monitor thread, is the latest save only if the file still
holds it (`Seen`), and at each place of the main thread what is compiled is at
least as new as what the file will be compared with (`AtLeastAsNew`), because the
session reads the file after the loop did.

**LatexProjectProofs**: `CandidateFollowsRevision` (`CandidateIsCurrent`),
and `AcceptedIsFixedPoint` (`FixedPointUnlessSuspended`), for any number of
backends and whatever files they write. `Compared` says what the key a pass is
compared with has to do with the generation the pass started on. `LedgerIsExact`
(`LedgerObservesEachPassOnce`) follows from `Ledgers`: the flags `texObserved`
and `detectionObserved` say whether the current pass is in the candidate's
ledger, and all passes before it are there exactly once. Assumed is that no
backend is named like one of these two owners of observations.

**DriverProofs**, of `SessionDriver`: `NoCallAfterDispose` (`DisposedSessionIsQuiet`) and
`StatusIsHonest` (`StableStatusIsHonest`) for any host; `AnswersAreCurrent`
(`WaitIsCurrent`) and `DisplayGoesOn` (`DisplayNeverRegresses`) for an orderly
one (`Orderly`). `DisposeAborts`, that a drive over a disposed session has its
abort reason, is why no attempt follows: every call but the two reads is behind a
check of it. `Sound` relates what is displayed, accepted and stable; `Calm`
says that a stabilizer works on the accepted revision with no patch beside it,
which is what a disorderly host breaks.

Only model-checked:

- every liveness property: fairness is out of the prover's reach;
- the refinement of `Environments` (`EnvironmentsHold`) and `MarksAreExact`: the
  stack of groups and the word counts of the save stack are folds over sequences
  whose value after a step needs an induction for each way the sequences change;
- `LaneContract`, that every step of the engine is a step of the lane, whose
  group ends and rollbacks restore a sequence of cells one after the other.

## What is not modelled, and limits

- The engine, bibliography processing, fonts, output formats, manifests: see
  the inventory.
- `BlobStore` has one key: keys have separate locks and names. The temporary
  and quarantine names, which carry a process id and counter, are taken to be
  fresh. Platforms without a store are left out. A foreign program adds an entry
  where there is none or spoils one; it does not repair a corrupt entry, which a
  quarantine on its way would then remove.
- `Watch` has one input file, and compares texts by content as the code does:
  an edit that is undone between the loop's read and the session's own read
  leaves an output no poll notices. The two properties about stale outputs
  therefore except a file that went back to an earlier text (`WentBack`).
- `LatexProject` reduces the admission of a batch to whether it answers an
  awaited key, and a batch that is refused to no step.
- `SessionDriver` has neither the one-shot `compile()` nor render updates, which
  are in `RenderSession`; progress messages, which settle nothing, and the cached
  status of the worker facade are left out of `LivePreview`.
- `HtmlPatchMount` takes the operations of a patch for one write that succeeds
  or fails, and the DOM write of a snapshot for one that succeeds. Byte budgets,
  focus and selection, source maps and `html-preview.js` are left out.
- `DenseState` leaves out the group lineage identities, the font and box rows,
  the interned dictionaries and the null token parameter.
- `tex-incr`: which checkpoint a patch restarts from is computed from what the
  engine read and wrote, so a model without the engine would let the environment
  choose it; what a restart then does to the state is `CheckpointLane`.
- The resolvers of the JavaScript host await one lookup after the other and
  share no state between runs but the cache, whose misses and failures only mean
  a download; IndexedDB would be external.
- Integers are unbounded; the code's own checks are on `usize` totals bounded
  by the limits, and checked arithmetic that fails is a limit error.
