----------------------------- MODULE FetchProofs -----------------------------
(***************************************************************************)
(* Proofs about the two state machines of umber-fetch: BlobStore, for any  *)
(* number of processes, payloads, crashes and damages, and FetchBatch, for *)
(* any number of requests, any concurrency, any retry limit and any        *)
(* assignment of objects.                                                  *)
(***************************************************************************)
EXTENDS BlobStore, FetchBatch, TLAPS

(***************************************************************************)
(* The blob store.                                                         *)
(***************************************************************************)

\* Where a process is while it has the flock.
Publishing == {"create", "write", "sync", "rename", "syncdir"}
Holding == {"load", "quarantine", "unlink", "unlinked", "candidate", "panicked"} \union Publishing

Opening == {"idle", "open", "mkdir", "syncroot"}

ProcState ==
    [pc : Opening \union {"lock"} \union Holding, create : BOOLEAN, candidate : Payload \union {None},
     built : BOOLEAN, data : {"none", "partial", "written", "synced"}, unsynced : BOOLEAN,
     result : Payload \union {None, "Absent", "Err"}, via : {"none", "load", "publish", "unrooted"}]

\* What process state r may rely on when the entry is e and the disk has d.
Fine(r, e, d, damaged) ==
    /\ r.pc \in Publishing => r.candidate \in Payload
    /\ r.pc = "rename" => r.data = "synced"
    /\ r.pc = "quarantine" => e \in {Stale, Corrupt}
    /\ r.pc \in {"quarantine", "unlink", "unlinked"} => damaged # 0
    /\ damaged = 0 /\ r.pc = "syncdir" => e = r.candidate
    /\ damaged = 0 /\ r.via = "publish" => r.result \in Payload /\ d = r.result

\* An undamaged disk has the entry or nothing, and a listed name stays.
Healthy(e, d, a) ==
    /\ e \in Payload \union {None}
    /\ d \in {e, None}
    /\ a # "Err"
    /\ a = "names" => e # None

\* Who did not find the directory unsynced has it synced, and so has who published.
Rooted(r, n) ==
    /\ r.pc \notin Opening => n # "absent"
    /\ r.pc \notin Opening /\ ~r.unsynced => n = "synced"
    /\ r.via = "publish" => n = "synced"

IInv ==
    /\ entry \in Content \union {None} /\ durable \in Content \union {None}
    /\ lock \in Proc \union {None}
    /\ proc \in [Proc -> ProcState]
    /\ damages \in Nat /\ crashes \in Nat
    /\ \A p \in Proc : /\ proc[p].pc \in Holding <=> lock = p
                       /\ Fine(proc[p], entry, durable, damages)
    /\ damages = 0 => Healthy(entry, durable, audit)

RInv ==
    /\ namespace \in {"absent", "made", "synced"}
    /\ \A p \in Proc : Rooted(proc[p], namespace)

\* What a step may do to an entry that validates.
Kept == entry \in Payload => entry' = entry \/ damages' # damages \/ LostBeforeSync

\* Nothing is stored, and nobody is in a call.
LEMMA InitIInv == Init => IInv /\ RInv
  BY StoreAssumption DEF Init, IInv, RInv, Rooted, Idle, ProcState, Opening, Holding, Publishing, Fine, Healthy, Content

\* A step of process p alone: it touches the disk only with the flock, so that the
\* others rely on nothing that changes.
LEMMA MoveIInv ==
    ASSUME IInv, NEW p \in Proc, NEW r \in ProcState,
           proc' = [proc EXCEPT ![p] = r],
           UNCHANGED <<audit, damages>>, crashes' \in Nat,
           entry' \in Content \union {None}, durable' \in Content \union {None},
           lock' = IF r.pc \in Holding THEN p ELSE IF lock = p THEN None ELSE lock,
           r.pc \in Holding => lock \in {p, None},
           lock # p => UNCHANGED <<entry, durable>>,
           Fine(r, entry', durable', damages),
           damages = 0 => Healthy(entry', durable', audit) /\ durable \in {durable', None}
    PROVE  IInv'
<1> USE StoreAssumption
<1>1. ASSUME NEW q \in Proc
      PROVE  (proc'[q].pc \in Holding <=> lock' = q) /\ Fine(proc'[q], entry', durable', damages')
  <2>1. CASE q = p
    BY <2>1 DEF IInv
  <2>2. CASE q # p
    <3>1. proc'[q] = proc[q] /\ (proc[q].pc \in Holding <=> lock = q)
          /\ Fine(proc[q], entry, durable, damages)
      BY <2>2 DEF IInv
    <3>0. p # None /\ q # None /\ None \notin Payload
      BY StoreAssumption
    <3>2. lock' = q <=> lock = q
      <4>1. CASE r.pc \in Holding
        BY <2>2, <3>0, <4>1
      <4>2. CASE r.pc \notin Holding
        BY <2>2, <3>0, <4>2
      <4> QED
        BY <4>1, <4>2
    <3>3. CASE lock # p
      BY <3>1, <3>2, <3>3
    <3>4. CASE lock = p
      <4>1. proc[q].pc \notin Holding
        BY <2>2, <3>1, <3>4
      <4>2. proc[q].pc \notin Publishing /\ proc[q].pc \notin {"quarantine", "unlink", "unlinked", "rename", "syncdir"}
        BY <4>1 DEF Holding, Publishing
      <4>3. damages = 0 /\ proc[q].via = "publish" => proc[q].result \in Payload /\ durable' = proc[q].result
        BY <3>0, <3>1 DEF Fine
      <4> QED
        BY <3>1, <3>2, <4>2, <4>3 DEF Fine
    <3> QED
      BY <3>1, <3>2, <3>3, <3>4
  <2> QED
    BY <2>1, <2>2
<1>2. proc' \in [Proc -> ProcState] /\ lock' \in Proc \union {None}
  BY DEF IInv
<1> QED
  BY <1>1, <1>2 DEF IInv

\* The call of p ends: it publishes nothing it did not sync.
LEMMA ReturnIInv ==
    ASSUME IInv, NEW p \in Proc, NEW result \in Payload \union {None, "Absent", "Err"},
           NEW via \in {"none", "load", "publish", "unrooted"}, Return(p, result, via),
           UNCHANGED <<audit, damages, entry>>, crashes' \in Nat,
           lock # p => UNCHANGED durable, durable' \in {durable, entry},
           damages = 0 /\ via = "publish" => result \in Payload /\ durable' = result
    PROVE  IInv' /\ Kept
<1> USE StoreAssumption
<1> DEFINE r == Idle(result, via)
<1>1. /\ r \in ProcState /\ r.pc = "idle" /\ r.via = via /\ r.result = result
  BY DEF Idle, ProcState, Opening
<1>2. "idle" \notin Holding /\ "idle" \notin Publishing
  BY DEF Holding, Publishing
<1>3. proc' = [proc EXCEPT ![p] = r] /\ lock' = IF lock = p THEN None ELSE lock
  BY DEF Return
<1> HIDE DEF r
<1>4. Fine(r, entry', durable', damages)
  BY <1>1, <1>2 DEF Fine
<1>5. damages = 0 => Healthy(entry', durable', audit) /\ durable \in {durable', None}
  BY DEF IInv, Healthy
<1>6. entry' \in Content \union {None} /\ durable' \in Content \union {None}
  BY DEF IInv
<1>7. lock' = IF r.pc \in Holding THEN p ELSE IF lock = p THEN None ELSE lock
  BY <1>1, <1>2, <1>3
<1>8. lock # p => UNCHANGED <<entry, durable>>
  OBVIOUS
<1>9. r.pc \in Holding => lock \in {p, None}
  BY <1>1, <1>2
<1>10. IInv'
  BY <1>1, <1>3, <1>4, <1>5, <1>6, <1>7, <1>8, <1>9, MoveIInv, Zenon
<1> QED
  BY <1>10 DEF Kept

\* A failed file operation leaves the disk alone.
LEMMA FailIInv ==
    ASSUME IInv, NEW p \in Proc, Fail(p), UNCHANGED <<audit, damages, crashes>>
    PROVE  IInv' /\ Kept
<1>1. Return(p, "Err", "none") /\ UNCHANGED <<entry, durable>>
  BY DEF Fail, disk
<1>2. crashes' \in Nat
  BY DEF IInv
<1> QED
  BY <1>1, <1>2, ReturnIInv

\* A step of p that leaves the disk alone and stays in the call.
LEMMA GoIInv ==
    ASSUME IInv, NEW p \in Proc, NEW r \in ProcState, proc' = [proc EXCEPT ![p] = r],
           UNCHANGED <<audit, damages, crashes, entry, durable>>,
           \/ UNCHANGED lock /\ (r.pc \in Holding <=> proc[p].pc \in Holding)
           \/ r.pc \in Holding /\ lock = None /\ lock' = p,
           Fine(r, entry, durable, damages)
    PROVE  IInv' /\ Kept
<1> USE StoreAssumption
<1>1. proc[p].pc \in Holding <=> lock = p
  BY DEF IInv
<1>2. /\ lock' = IF r.pc \in Holding THEN p ELSE IF lock = p THEN None ELSE lock
      /\ r.pc \in Holding => lock \in {p, None}
  BY <1>1
<1>3. damages = 0 => Healthy(entry', durable', audit) /\ durable \in {durable', None}
  BY DEF IInv
<1>4. /\ entry' \in Content \union {None} /\ durable' \in Content \union {None}
      /\ crashes' \in Nat /\ Fine(r, entry', durable', damages)
      /\ lock # p => UNCHANGED <<entry, durable>>
  BY DEF IInv
<1>5. IInv'
  BY <1>2, <1>3, <1>4, MoveIInv, Zenon
<1> QED
  BY <1>5 DEF Kept

\* Another program counter, and nothing else of the process.
LEMMA GotoFacts ==
    ASSUME IInv, NEW p \in Proc, NEW pc \in Opening \union {"lock"} \union Holding
    PROVE  LET r == [proc[p] EXCEPT !.pc = pc]
           IN  /\ r \in ProcState /\ r.pc = pc /\ r.candidate = proc[p].candidate
               /\ r.data = proc[p].data /\ r.via = proc[p].via /\ r.result = proc[p].result
               /\ Goto(p, pc) => proc' = [proc EXCEPT ![p] = r]
<1>1. proc \in [Proc -> ProcState] /\ proc[p] \in ProcState
  BY DEF IInv
<1> QED
  BY <1>1 DEF ProcState, Goto

\* Taking the flock, and what is found under it.
LEMMA LoadFacts ==
    ASSUME IInv, NEW p \in Proc,
           \/ \E create \in BOOLEAN : Call(p, create)
           \/ Open(p) \/ MakeDirectory(p) \/ SyncRoot(p) \/ Lock(p) \/ Load(p)
    PROVE  IInv' /\ Kept
<1> USE StoreAssumption
<1>0. proc \in [Proc -> ProcState] /\ proc[p] \in ProcState /\ crashes \in Nat
      /\ Fine(proc[p], entry, durable, damages) /\ (proc[p].pc \in Holding <=> lock = p)
  BY DEF IInv
<1>1. ASSUME NEW create \in BOOLEAN, Call(p, create) PROVE IInv' /\ Kept
  <2> DEFINE r == [Idle(None, "none") EXCEPT !.pc = "open", !.create = create]
  <2>1. r \in ProcState /\ r.pc = "open" /\ r.via = "none"
    BY Zenon DEF Idle, ProcState, Opening
  <2>2. proc' = [proc EXCEPT ![p] = r] /\ UNCHANGED <<lock, audit, damages, crashes, entry, durable>>
    BY <1>1, Zenon DEF Call, disk, env
  <2>3. r.pc \notin Holding /\ r.pc \notin Publishing /\ proc[p].pc \notin Holding
    BY <1>1, <2>1, Zenon DEF Call, At, Holding, Publishing
  <2>4. Fine(r, entry, durable, damages)
    BY <2>1, <2>3 DEF Fine
  <2> HIDE DEF r
  <2> QED
    BY <2>1, <2>2, <2>3, <2>4, GoIInv, Zenon
<1>2. CASE Open(p) \/ MakeDirectory(p) \/ SyncRoot(p)
  <2>1. /\ proc[p].pc \in Opening /\ proc[p].pc \notin Holding
        /\ UNCHANGED <<audit, damages, crashes>>
    BY <1>2, Zenon DEF Open, MakeDirectory, SyncRoot, Found, At, env, Opening, Holding, Publishing
  <2>2. CASE Fail(p)
    BY <2>1, <2>2, FailIInv
  <2>3. CASE Return(p, "Absent", "load") /\ UNCHANGED <<entry, durable>>
    BY <1>0, <2>1, <2>3, ReturnIInv
  <2>4. ASSUME NEW r \in ProcState, proc' = [proc EXCEPT ![p] = r], UNCHANGED <<entry, durable, lock>>,
               r.pc \in {"lock", "mkdir", "syncroot"}, r.via = proc[p].via, r.result = proc[p].result
        PROVE  IInv' /\ Kept
    <3>1. r.pc \notin Holding /\ r.pc \notin Publishing
      BY <2>4 DEF Holding, Publishing
    <3>2. Fine(r, entry, durable, damages)
      BY <1>0, <2>4, <3>1 DEF Fine
    <3> QED
      BY <2>1, <2>4, <3>1, <3>2, GoIInv, Zenon
  <2>5. ASSUME NEW pc \in {"lock", "mkdir", "syncroot"}, Goto(p, pc), UNCHANGED <<entry, durable, lock>>
        PROVE  IInv' /\ Kept
    <3> DEFINE r == [proc[p] EXCEPT !.pc = pc]
    <3>1. /\ r \in ProcState /\ r.pc = pc /\ r.via = proc[p].via /\ r.result = proc[p].result
          /\ proc' = [proc EXCEPT ![p] = r]
      BY <2>5, GotoFacts DEF Opening
    <3> HIDE DEF r
    <3> QED
      BY <2>4, <2>5, <3>1
  <2>6. CASE Found(p)
    <3> DEFINE r == [proc[p] EXCEPT !.pc = "lock", !.unsynced = (namespace = "made")]
    <3>1. proc' = [proc EXCEPT ![p].pc = "lock", ![p].unsynced = (namespace = "made")]
          /\ UNCHANGED <<entry, durable, lock>>
      BY <2>6, Zenon DEF Found, disk
    <3>2. proc' = [proc EXCEPT ![p] = r]
      BY <1>0, <3>1, Zenon
    <3>3. r \in ProcState /\ r.pc = "lock" /\ r.via = proc[p].via /\ r.result = proc[p].result
      BY <1>0, Zenon DEF ProcState
    <3> HIDE DEF r
    <3> QED
      BY <2>4, <3>1, <3>2, <3>3
  <2>7. CASE Open(p)
    BY <2>2, <2>3, <2>5, <2>6, <2>7, Zenon DEF Open, disk
  <2>8. CASE MakeDirectory(p)
    BY <2>2, <2>5, <2>6, <2>8, Zenon DEF MakeDirectory, disk
  <2>9. CASE SyncRoot(p)
    BY <2>2, <2>5, <2>9, Zenon DEF SyncRoot, disk
  <2> QED
    BY <1>2, <2>7, <2>8, <2>9
<1>3. CASE Lock(p)
  <2>1. proc[p].pc = "lock" /\ UNCHANGED <<audit, damages, crashes>>
    BY <1>3 DEF Lock, At, env
  <2>2. CASE Fail(p)
    BY <2>1, <2>2, FailIInv
  <2>3. CASE lock = None /\ lock' = p /\ Goto(p, "load") /\ UNCHANGED <<entry, durable>>
    <3> DEFINE r == [proc[p] EXCEPT !.pc = "load"]
    <3>1. /\ r \in ProcState /\ r.pc = "load" /\ r.via = proc[p].via /\ r.result = proc[p].result
          /\ proc' = [proc EXCEPT ![p] = r]
      BY <2>3, GotoFacts DEF Holding
    <3> HIDE DEF r
    <3>2. r.pc \in Holding /\ r.pc \notin Publishing
      BY <3>1 DEF Holding, Publishing
    <3>3. Fine(r, entry, durable, damages)
      BY <1>0, <3>1, <3>2 DEF Fine
    <3> QED
      BY <2>1, <2>3, <3>1, <3>2, <3>3, GoIInv, Zenon
  <2> QED
    BY <1>3, <2>2, <2>3 DEF Lock, disk
<1>4. CASE Load(p)
  <2>1. proc[p].pc = "load" /\ UNCHANGED <<audit, damages, crashes>>
    BY <1>4 DEF Load, At, env
  <2>2. CASE Fail(p)
    BY <2>1, <2>2, FailIInv
  <2>3. CASE entry \in Payload /\ Return(p, entry, "load") /\ UNCHANGED <<entry, durable>>
    BY <1>0, <2>1, <2>3, ReturnIInv
  <2>4. ASSUME NEW pc \in {"candidate", "quarantine"}, Goto(p, pc), UNCHANGED <<entry, durable, lock>>,
               pc = "quarantine" => entry \in {Stale, Corrupt}
        PROVE  IInv' /\ Kept
    <3> DEFINE r == [proc[p] EXCEPT !.pc = pc]
    <3>0. pc \in Holding /\ pc \notin Publishing /\ proc[p].pc \in Holding
      BY <2>1 DEF Holding, Publishing
    <3>1. /\ r \in ProcState /\ r.pc = pc /\ r.via = proc[p].via /\ r.result = proc[p].result
          /\ proc' = [proc EXCEPT ![p] = r]
      BY <2>4, <3>0, GotoFacts
    <3> HIDE DEF r
    <3>2. pc = "quarantine" => damages # 0
      BY <2>4 DEF IInv, Healthy
    <3>3. Fine(r, entry, durable, damages)
      BY <1>0, <2>4, <3>0, <3>1, <3>2 DEF Fine
    <3> QED
      BY <2>1, <2>4, <3>0, <3>1, <3>3, GoIInv, Zenon
  <2> QED
    BY <1>4, <2>2, <2>3, <2>4 DEF Load, disk
<1> QED
  BY <1>1, <1>2, <1>3, <1>4

\* The quarantine, which only a damaged entry meets.
LEMMA QuarantineFacts ==
    ASSUME IInv, NEW p \in Proc, QuarantineRename(p) \/ QuarantineUnlink(p) \/ QuarantineSync(p)
    PROVE  IInv' /\ Kept
<1> USE StoreAssumption
<1>0. proc \in [Proc -> ProcState] /\ proc[p] \in ProcState /\ crashes \in Nat
      /\ Fine(proc[p], entry, durable, damages) /\ (proc[p].pc \in Holding <=> lock = p)
  BY DEF IInv
<1>1. UNCHANGED <<audit, damages, crashes>>
  BY DEF QuarantineRename, QuarantineUnlink, QuarantineSync, env
<1>2. proc[p].pc \in {"quarantine", "unlink", "unlinked"}
  BY DEF QuarantineRename, QuarantineUnlink, QuarantineSync, At
<1>3. damages # 0 /\ lock = p
  BY <1>0, <1>2 DEF Fine, Holding
<1>4. CASE Fail(p)
  BY <1>1, <1>4, FailIInv
<1>5. ASSUME NEW pc \in {"unlink", "unlinked", "candidate"}, Goto(p, pc), UNCHANGED lock,
             entry' \in Content \union {None}, durable' \in Content \union {None}
      PROVE  IInv'
  <2> DEFINE r == [proc[p] EXCEPT !.pc = pc]
  <2>1. pc \in Holding /\ pc \notin Publishing
    BY DEF Holding, Publishing
  <2>2. r \in ProcState /\ r.pc = pc /\ proc' = [proc EXCEPT ![p] = r]
    BY <1>5, <2>1, GotoFacts
  <2> HIDE DEF r
  <2>3. Fine(r, entry', durable', damages)
    BY <1>3, <2>1, <2>2 DEF Fine
  <2> QED
    BY <1>0, <1>1, <1>3, <1>5, <2>1, <2>2, <2>3, MoveIInv, Zenon
<1>6. CASE QuarantineRename(p) /\ ~Fail(p)
  <2>1. entry' = None /\ durable' \in {durable, None} /\ Goto(p, "unlink") /\ UNCHANGED lock
        /\ entry \in {Stale, Corrupt}
    BY <1>0, <1>6 DEF QuarantineRename, Fine, At
  <2>2. durable' \in Content \union {None}
    BY <2>1 DEF IInv
  <2> QED
    BY <1>5, <2>1, <2>2 DEF Kept
<1>7. CASE QuarantineUnlink(p) /\ ~Fail(p)
  <2>1. Goto(p, "unlinked") /\ UNCHANGED <<entry, durable, lock>>
    BY <1>7 DEF QuarantineUnlink, disk
  <2>2. durable' \in Content \union {None} /\ entry' \in Content \union {None}
    BY <2>1 DEF IInv
  <2> QED
    BY <1>5, <2>1, <2>2 DEF Kept
<1>8. CASE QuarantineSync(p) /\ ~Fail(p)
  <2>1. durable' = entry /\ Goto(p, "candidate") /\ UNCHANGED <<entry, lock>>
    BY <1>8 DEF QuarantineSync
  <2>2. durable' \in Content \union {None} /\ entry' \in Content \union {None}
    BY <2>1 DEF IInv
  <2> QED
    BY <1>5, <2>1, <2>2 DEF Kept
<1> QED
  BY <1>4, <1>6, <1>7, <1>8

\* From the candidate to a synced temporary: the disk is not touched.
LEMMA PrepareFacts ==
    ASSUME IInv, NEW p \in Proc, Candidate(p) \/ Create(p) \/ Write(p) \/ Sync(p)
    PROVE  IInv' /\ Kept
<1> USE StoreAssumption
<1>0. proc \in [Proc -> ProcState] /\ proc[p] \in ProcState /\ crashes \in Nat
      /\ Fine(proc[p], entry, durable, damages) /\ (proc[p].pc \in Holding <=> lock = p)
  BY DEF IInv
<1>1. UNCHANGED <<audit, damages, crashes>>
  BY Zenon DEF Candidate, Create, Write, Sync, env
<1>2. proc[p].pc \in {"candidate", "create", "write", "sync"} /\ proc[p].pc \in Holding
  BY Zenon DEF Candidate, Create, Write, Sync, At, Holding, Publishing
<1>3. CASE Fail(p)
  BY <1>1, <1>3, FailIInv
<1>4. ASSUME NEW r \in ProcState, proc' = [proc EXCEPT ![p] = r], UNCHANGED <<entry, durable, lock>>,
             r.pc \in {"create", "write", "sync", "rename", "panicked"},
             r.pc # "panicked" => r.candidate \in Payload,
             r.pc = "rename" => r.data = "synced",
             r.via = proc[p].via, r.result = proc[p].result
      PROVE  IInv' /\ Kept
  <2>1. r.pc \in Holding /\ (r.pc \in Publishing => r.pc # "panicked")
        /\ r.pc \notin {"quarantine", "unlink", "unlinked", "syncdir"}
    BY <1>4 DEF Holding, Publishing
  <2>2. Fine(r, entry, durable, damages)
    BY <1>0, <1>4, <2>1 DEF Fine
  <2> QED
    BY <1>1, <1>2, <1>4, <2>1, <2>2, GoIInv, Zenon
<1>5. CASE Candidate(p) /\ ~Fail(p)
  <2>1. CASE proc[p].candidate = None /\ ~proc[p].create
    <3>1. Return(p, "Absent", "load") /\ UNCHANGED <<entry, durable>>
      BY <1>5, <2>1, Zenon DEF Candidate, disk
    <3> QED
      BY <1>0, <1>1, <3>1, ReturnIInv
  <2>2. CASE proc[p].candidate # None
    <3> DEFINE r == [proc[p] EXCEPT !.pc = "create"]
    <3>1. Goto(p, "create") /\ UNCHANGED <<entry, durable, lock>>
      BY <1>5, <2>2, Zenon DEF Candidate, disk
    <3>2. proc[p].candidate \in Payload
      BY <1>0, <2>2 DEF ProcState
    <3>3. "create" \in Holding
      BY DEF Holding, Publishing
    <3>4. /\ r \in ProcState /\ r.pc = "create" /\ r.candidate = proc[p].candidate
          /\ r.via = proc[p].via /\ r.result = proc[p].result
          /\ proc' = [proc EXCEPT ![p] = r]
      BY <3>1, <3>3, GotoFacts
    <3> HIDE DEF r
    <3> QED
      BY <1>4, <3>1, <3>2, <3>4, Zenon
  <2>3. CASE proc[p].candidate = None /\ proc[p].create /\ proc[p].built
    <3> DEFINE r == [proc[p] EXCEPT !.pc = "panicked"]
    <3>1. Goto(p, "panicked") /\ UNCHANGED <<entry, durable, lock>>
      BY <1>5, <2>3 DEF Candidate, disk
    <3>2. "panicked" \in Holding
      BY DEF Holding
    <3>3. /\ r \in ProcState /\ r.pc = "panicked"
          /\ r.via = proc[p].via /\ r.result = proc[p].result
          /\ proc' = [proc EXCEPT ![p] = r]
      BY <3>1, <3>2, GotoFacts
    <3> HIDE DEF r
    <3> QED
      BY <1>4, <3>1, <3>3, Zenon
  <2>4. CASE proc[p].candidate = None /\ proc[p].create /\ ~proc[p].built
    <3>1. PICK c \in Payload : proc' = [proc EXCEPT ![p].candidate = c, ![p].built = TRUE, ![p].pc = "create"]
      BY <1>5, <2>4, Zenon DEF Candidate
    <3>2. UNCHANGED <<entry, durable, lock>>
      BY <1>5, <2>4, Zenon DEF Candidate, disk
    <3> DEFINE r == [proc[p] EXCEPT !.candidate = c, !.built = TRUE, !.pc = "create"]
    <3>3. proc' = [proc EXCEPT ![p] = r]
      BY <1>0, <3>1, Zenon
    <3>4. /\ r \in ProcState /\ r.pc = "create" /\ r.candidate = c
          /\ r.via = proc[p].via /\ r.result = proc[p].result
      BY <1>0, Zenon DEF ProcState, Holding, Publishing
    <3> HIDE DEF r
    <3> QED
      BY <1>4, <3>2, <3>3, <3>4, Zenon
  <2> QED
    BY <1>0, <2>1, <2>2, <2>3, <2>4 DEF ProcState
<1>6. ASSUME NEW pc \in {"write", "sync", "rename"}, NEW data \in {"partial", "written", "synced"},
             proc' = [proc EXCEPT ![p].pc = pc, ![p].data = data],
             proc[p].pc # "candidate", pc = "rename" => data = "synced",
             UNCHANGED <<entry, durable, lock>>
      PROVE  IInv' /\ Kept
  <2> DEFINE r == [proc[p] EXCEPT !.pc = pc, !.data = data]
  <2>1. proc' = [proc EXCEPT ![p] = r]
    BY <1>0, <1>6, Zenon
  <2>2. /\ r \in ProcState /\ r.pc = pc /\ r.data = data /\ r.candidate = proc[p].candidate
        /\ r.via = proc[p].via /\ r.result = proc[p].result
    <3>1. pc \in Holding /\ data \in {"none", "partial", "written", "synced"}
      BY DEF Holding, Publishing
    <3> QED
      BY <1>0, <3>1, Zenon DEF ProcState
  <2>3. proc[p].candidate \in Payload
    BY <1>0, <1>2, <1>6 DEF Fine, Publishing
  <2> HIDE DEF r
  <2> QED
    BY <1>4, <1>6, <2>1, <2>2, <2>3, Zenon
<1>7. CASE Create(p) /\ ~Fail(p)
  BY <1>6, <1>7 DEF Create, At, disk
<1>8. CASE Write(p) /\ ~Fail(p)
  BY <1>6, <1>8 DEF Write, At, disk
<1>9. CASE Sync(p) /\ ~Fail(p)
  BY <1>6, <1>9 DEF Sync, At, disk
<1> QED
  BY <1>3, <1>5, <1>7, <1>8, <1>9

\* The rename takes the name only where there is none, and the directory sync makes
\* what it named durable.
LEMMA RenameFacts ==
    ASSUME IInv, NEW p \in Proc, Rename(p) \/ SyncDirectory(p)
    PROVE  IInv' /\ Kept
<1> USE StoreAssumption
<1>0. proc \in [Proc -> ProcState] /\ proc[p] \in ProcState /\ crashes \in Nat
      /\ Fine(proc[p], entry, durable, damages) /\ (proc[p].pc \in Holding <=> lock = p)
  BY DEF IInv
<1>1. UNCHANGED <<audit, damages, crashes>>
  BY DEF Rename, SyncDirectory, env
<1>2. proc[p].pc \in {"rename", "syncdir"} /\ proc[p].pc \in Holding /\ proc[p].pc \in Publishing
  BY DEF Rename, SyncDirectory, At, Holding, Publishing
<1>3. lock = p /\ proc[p].candidate \in Payload
  BY <1>0, <1>2 DEF Fine
<1>4. CASE Fail(p)
  BY <1>1, <1>4, FailIInv
<1>5. CASE Rename(p) /\ ~Fail(p) /\ entry = None
  <2> DEFINE r == [proc[p] EXCEPT !.pc = "syncdir"]
  <2>1. /\ entry' = proc[p].candidate /\ durable' \in {durable, OnDisk(p)}
        /\ Goto(p, "syncdir") /\ UNCHANGED lock
    BY <1>5 DEF Rename
  <2>2. OnDisk(p) = proc[p].candidate
    BY <1>0, <1>5 DEF Rename, At, Fine, OnDisk
  <2>3. "syncdir" \in Holding /\ "syncdir" \in Publishing
    BY DEF Holding, Publishing
  <2>4. /\ r \in ProcState /\ r.pc = "syncdir" /\ r.candidate = proc[p].candidate
        /\ r.via = proc[p].via /\ r.result = proc[p].result
        /\ proc' = [proc EXCEPT ![p] = r]
    BY <2>1, <2>3, GotoFacts
  <2> HIDE DEF r
  <2>5. damages = 0 => durable = None
    BY <1>5 DEF IInv, Healthy
  <2>6. Fine(r, entry', durable', damages)
    BY <1>0, <1>3, <2>1, <2>2, <2>4, <2>5 DEF Fine
  <2>7. damages = 0 => Healthy(entry', durable', audit) /\ durable \in {durable', None}
    BY <1>3, <2>1, <2>2, <2>5 DEF IInv, Healthy
  <2>8. entry' \in Content \union {None} /\ durable' \in Content \union {None}
    BY <1>3, <2>1, <2>2 DEF IInv, Content
  <2>9. IInv'
    BY <1>0, <1>1, <1>3, <2>1, <2>3, <2>4, <2>6, <2>7, <2>8, MoveIInv, Zenon
  <2> QED
    BY <1>5, <2>9 DEF Kept
<1>6. CASE Rename(p) /\ ~Fail(p) /\ entry # None
  <2> DEFINE r == [proc[p] EXCEPT !.pc = "load", !.data = "none"]
  <2>1. proc' = [proc EXCEPT ![p].pc = "load", ![p].data = "none"] /\ UNCHANGED <<entry, durable, lock>>
    BY <1>6 DEF Rename, disk
  <2>2. proc' = [proc EXCEPT ![p] = r]
    BY <1>0, <2>1, Zenon
  <2>3. r \in ProcState /\ r.pc = "load" /\ r.via = proc[p].via /\ r.result = proc[p].result
    BY <1>0, Zenon DEF ProcState, Holding
  <2> HIDE DEF r
  <2>4. r.pc \in Holding /\ r.pc \notin Publishing
    BY <2>3 DEF Holding, Publishing
  <2>5. Fine(r, entry, durable, damages)
    BY <1>0, <2>3, <2>4 DEF Fine
  <2> QED
    BY <1>1, <1>2, <2>1, <2>2, <2>3, <2>4, <2>5, GoIInv, Zenon
<1>7. CASE SyncDirectory(p) /\ ~Fail(p)
  <2>1. durable' = entry /\ Return(p, proc[p].candidate, Via(p)) /\ UNCHANGED entry
        /\ Via(p) \in {"publish", "unrooted"}
    BY <1>7 DEF SyncDirectory, Via
  <2>2. damages = 0 => entry = proc[p].candidate
    BY <1>0, <1>7 DEF SyncDirectory, At, Fine
  <2> QED
    BY <1>0, <1>1, <1>3, <2>1, <2>2, ReturnIInv
<1> QED
  BY <1>4, <1>5, <1>6, <1>7

\* The auditor, crashes, power failures and damage.
LEMMA EnvironmentFacts ==
    ASSUME IInv, RInv, AuditNames \/ AuditOpen \/ PowerLoss \/ Damage \/ (\E p \in Proc : Crash(p))
    PROVE  IInv' /\ Kept
<1> USE StoreAssumption
<1>0. proc \in [Proc -> ProcState] /\ crashes \in Nat /\ damages \in Nat
  BY DEF IInv
<1>1. CASE AuditNames \/ AuditOpen
  <2>1. UNCHANGED <<entry, durable, lock, proc, damages, crashes>>
    BY <1>1 DEF AuditNames, AuditOpen, disk
  <2>2. damages = 0 => Healthy(entry, durable, audit')
    BY <1>1 DEF AuditNames, AuditOpen, IInv, Healthy
  <2> QED
    BY <2>1, <2>2 DEF IInv, Kept
<1>2. ASSUME NEW p \in Proc, Crash(p) PROVE IInv' /\ Kept
  <2>1. Return(p, None, "none") /\ UNCHANGED <<entry, durable, audit, damages>> /\ crashes' = crashes + 1
    BY <1>2 DEF Crash, disk
  <2>2. crashes' \in Nat
    BY <1>0, <2>1
  <2> QED
    BY <2>1, <2>2, ReturnIInv
<1>3. CASE PowerLoss
  <2>1. /\ lock' = None /\ audit' = "idle" /\ crashes' = crashes + 1 /\ UNCHANGED damages
        /\ \/ entry' = durable /\ UNCHANGED durable
           \/ entry' = None /\ durable' = None /\ namespace = "made"
    BY <1>3, Zenon DEF PowerLoss
  <2>2. ASSUME NEW p \in Proc
        PROVE  /\ proc'[p] \in ProcState /\ proc'[p].pc = "idle"
               /\ proc'[p].via = "publish" => proc[p].via = "publish" /\ proc'[p].result = proc[p].result
    <3>1. proc[p] \in ProcState
      BY <1>0
    <3>2. proc'[p] = [Idle(None, "none") EXCEPT
                          !.result = IF At(p, "idle") THEN proc[p].result ELSE None,
                          !.via = IF At(p, "idle") THEN proc[p].via ELSE "none"]
      BY <1>3, Zenon DEF PowerLoss
    <3> QED
      BY <3>1, <3>2, Zenon DEF Idle, ProcState, Opening
  <2>3. proc' \in [Proc -> ProcState]
    BY <1>3, <2>2, Zenon DEF PowerLoss
  <2>4. ASSUME NEW p \in Proc
        PROVE  (proc'[p].pc \in Holding <=> lock' = p) /\ Fine(proc'[p], entry', durable', damages')
    <3>1. "idle" \notin Holding /\ "idle" \notin Publishing /\ p # None
      BY DEF Holding, Publishing
    <3>2. Fine(proc[p], entry, durable, damages)
      BY DEF IInv
    <3>3. proc[p].via = "publish" => UNCHANGED durable
      BY <2>1 DEF RInv, Rooted
    <3> QED
      BY <2>1, <2>2, <3>1, <3>2, <3>3 DEF Fine
  <2>5. damages = 0 => Healthy(entry', durable', audit')
    BY <2>1 DEF IInv, Healthy
  <2>6. crashes' \in Nat /\ crashes' # crashes
    BY <1>0, <2>1
  <2>7. IInv'
    BY <2>1, <2>3, <2>4, <2>5, <2>6 DEF IInv
  <2> QED
    BY <2>1, <2>6, <2>7 DEF Kept, LostBeforeSync
<1>4. CASE Damage
  <2>1. /\ damages' = damages + 1 /\ durable' = entry' /\ UNCHANGED <<lock, proc, audit, crashes>>
        /\ entry' \in (IF entry = None THEN Content ELSE {Corrupt, Stale})
    BY <1>4 DEF Damage
  <2>2. damages' \in Nat /\ damages' # 0 /\ damages' # damages
    BY <1>0, <2>1
  <2>3. entry' \in Content \union {None}
    BY <2>1 DEF Content
  <2>4. ASSUME NEW p \in Proc PROVE Fine(proc[p], entry', durable', damages')
    <3>1. Fine(proc[p], entry, durable, damages)
      BY DEF IInv
    <3>2. entry \in {Stale, Corrupt} => entry' \in {Stale, Corrupt}
      BY <2>1
    <3> QED
      BY <2>2, <3>1, <3>2 DEF Fine
  <2> QED
    BY <2>1, <2>2, <2>3, <2>4 DEF IInv, Kept
<1> QED
  BY <1>1, <1>2, <1>3, <1>4

\* A step of p alone that takes no directory away.
LEMMA MoveRInv ==
    ASSUME IInv, RInv, NEW p \in Proc, NEW r, proc' = [proc EXCEPT ![p] = r],
           namespace' \in {"absent", "made", "synced"},
           namespace # "absent" => namespace' \in {namespace, "synced"},
           Rooted(r, namespace')
    PROVE  RInv'
<1>1. ASSUME NEW q \in Proc PROVE Rooted(proc'[q], namespace')
  <2>1. CASE q = p
    BY <2>1 DEF IInv
  <2>2. CASE q # p
    <3>1. proc'[q] = proc[q] /\ Rooted(proc[q], namespace)
      BY <2>2 DEF IInv, RInv
    <3> QED
      BY <3>1 DEF Rooted, RInv
  <2> QED
    BY <2>1, <2>2
<1> QED
  BY <1>1 DEF RInv

\* The call of p ends.
LEMMA ReturnRInv ==
    ASSUME IInv, RInv, NEW p \in Proc, NEW result, NEW via, Return(p, result, via),
           UNCHANGED namespace, via = "publish" => namespace = "synced"
    PROVE  RInv'
<1> DEFINE r == Idle(result, via)
<1>1. r.pc = "idle" /\ r.via = via /\ "idle" \in Opening
  BY Zenon DEF Idle, Opening
<1>2. proc' = [proc EXCEPT ![p] = r]
  BY Zenon DEF Return
<1> HIDE DEF r
<1>3. Rooted(r, namespace')
  BY <1>1 DEF Rooted
<1>4. namespace' \in {"absent", "made", "synced"} /\ namespace' = namespace
  BY DEF RInv
<1> QED
  BY <1>2, <1>3, <1>4, MoveRInv

\* A step of p after Authority::open that stays in the call.
LEMMA StayRInv ==
    ASSUME IInv, RInv, NEW p \in Proc, NEW r, proc' = [proc EXCEPT ![p] = r], UNCHANGED namespace,
           proc[p].pc \notin Opening, r.unsynced = proc[p].unsynced, r.via = proc[p].via
    PROVE  RInv'
<1>1. Rooted(proc[p], namespace)
  BY DEF RInv
<1>2. Rooted(r, namespace')
  BY <1>1 DEF Rooted
<1>3. namespace' \in {"absent", "made", "synced"} /\ namespace' = namespace
  BY DEF RInv
<1> QED
  BY <1>2, <1>3, MoveRInv

LEMMA GotoRInv ==
    ASSUME IInv, RInv, NEW p \in Proc, NEW pc, Goto(p, pc), UNCHANGED namespace,
           proc[p].pc \notin Opening
    PROVE  RInv'
<1> DEFINE r == [proc[p] EXCEPT !.pc = pc]
<1>1. proc \in [Proc -> ProcState] /\ proc[p] \in ProcState
  BY DEF IInv
<1>2. proc' = [proc EXCEPT ![p] = r]
  BY <1>1, Zenon DEF Goto
<1>3. r.unsynced = proc[p].unsynced /\ r.via = proc[p].via
  BY <1>1, Zenon DEF ProcState
<1> HIDE DEF r
<1> QED
  BY <1>2, <1>3, StayRInv

\* Opening and making the directory.
LEMMA OpenRInv ==
    ASSUME IInv, RInv, NEW p \in Proc, Open(p) \/ MakeDirectory(p) \/ SyncRoot(p)
    PROVE  RInv'
<1>0. proc \in [Proc -> ProcState] /\ proc[p] \in ProcState /\ Rooted(proc[p], namespace)
      /\ namespace \in {"absent", "made", "synced"}
  BY DEF IInv, RInv
<1>1. ASSUME Return(p, "Absent", "load") \/ Fail(p), UNCHANGED namespace PROVE RInv'
  BY <1>1, ReturnRInv DEF Fail
<1>2. CASE Found(p)
  <2> DEFINE r == [proc[p] EXCEPT !.pc = "lock", !.unsynced = (namespace = "made")]
  <2>1. namespace # "absent" /\ UNCHANGED namespace
        /\ proc' = [proc EXCEPT ![p].pc = "lock", ![p].unsynced = (namespace = "made")]
    BY <1>2, Zenon DEF Found, env
  <2>2. proc' = [proc EXCEPT ![p] = r]
    BY <1>0, <2>1, Zenon
  <2>3. r.pc = "lock" /\ r.unsynced = (namespace = "made") /\ r.via = proc[p].via
    BY <1>0, Zenon DEF ProcState
  <2> HIDE DEF r
  <2>4. ~r.unsynced => namespace = "synced"
    BY <1>0, <2>1, <2>3
  <2>5. Rooted(r, namespace')
    BY <1>0, <2>1, <2>3, <2>4 DEF Rooted
  <2> QED
    BY <1>0, <2>1, <2>2, <2>5, MoveRInv
<1>3. ASSUME NEW pc, Goto(p, pc), pc \in Opening \/ namespace' = "synced",
             namespace' \in {"absent", "made", "synced"},
             namespace # "absent" => namespace' \in {namespace, "synced"}
      PROVE  RInv'
  <2> DEFINE r == [proc[p] EXCEPT !.pc = pc]
  <2>1. proc' = [proc EXCEPT ![p] = r]
    BY <1>0, <1>3, Zenon DEF Goto
  <2>2. r.pc = pc /\ r.via = proc[p].via
    BY <1>0, Zenon DEF ProcState
  <2> HIDE DEF r
  <2>3. Rooted(r, namespace')
    BY <1>0, <1>3, <2>2 DEF Rooted
  <2> QED
    BY <1>3, <2>1, <2>3, MoveRInv
<1>4. "mkdir" \in Opening /\ "syncroot" \in Opening
  BY DEF Opening
<1>5. CASE Open(p)
  <2>1. ASSUME Goto(p, "mkdir"), UNCHANGED namespace PROVE RInv'
    BY <1>0, <1>3, <1>4, <2>1
  <2> QED
    BY <1>1, <1>2, <1>5, <2>1, Zenon DEF Open, env
<1>6. CASE MakeDirectory(p)
  <2>1. ASSUME Goto(p, "syncroot"), namespace = "absent", namespace' = "made" PROVE RInv'
    BY <1>3, <1>4, <2>1
  <2> QED
    BY <1>1, <1>2, <1>6, <2>1, Zenon DEF MakeDirectory, env
<1>7. CASE SyncRoot(p)
  <2>1. ASSUME Goto(p, "lock"), namespace' = "synced" PROVE RInv'
    BY <1>3, <2>1
  <2> QED
    BY <1>1, <1>7, <2>1, Zenon DEF SyncRoot
<1> QED
  BY <1>5, <1>6, <1>7

\* The directory is synced for whoever did not find it otherwise.
LEMMA StepRInv == IInv /\ RInv /\ [Next]_vars => RInv'
<1> SUFFICES ASSUME IInv, RInv, [Next]_vars PROVE RInv'
  OBVIOUS
<1>0. proc \in [Proc -> ProcState] /\ namespace \in {"absent", "made", "synced"}
  BY DEF IInv, RInv
<1>1. CASE UNCHANGED vars \/ AuditNames \/ AuditOpen
  <2>1. UNCHANGED <<proc, namespace>>
    BY <1>1, Zenon DEF vars, AuditNames, AuditOpen
  <2> QED
    BY <2>1 DEF RInv
<1>2. ASSUME NEW p \in Proc, NEW create \in BOOLEAN, Call(p, create) PROVE RInv'
  <2> DEFINE r == [Idle(None, "none") EXCEPT !.pc = "open", !.create = create]
  <2>1. r.pc = "open" /\ r.via = "none" /\ "open" \in Opening
    BY Zenon DEF Idle, Opening
  <2>2. proc' = [proc EXCEPT ![p] = r] /\ UNCHANGED namespace
    BY <1>2, Zenon DEF Call, env
  <2> HIDE DEF r
  <2>3. Rooted(r, namespace')
    BY <2>1 DEF Rooted
  <2> QED
    BY <1>0, <2>2, <2>3, MoveRInv
<1>3. ASSUME NEW p \in Proc, Crash(p) PROVE RInv'
  <2>1. Return(p, None, "none") /\ UNCHANGED namespace
    BY <1>3, Zenon DEF Crash
  <2> QED
    BY <2>1, ReturnRInv
<1>4. CASE Damage
  <2>1. UNCHANGED proc /\ namespace' = IF namespace = "absent" THEN "made" ELSE namespace
    BY <1>4, Zenon DEF Damage
  <2> QED
    BY <1>0, <2>1 DEF RInv, Rooted
<1>5. CASE PowerLoss
  <2>1. namespace' \in {"absent", "made", "synced"} /\ (namespace = "synced" => namespace' = "synced")
    BY <1>0, <1>5 DEF PowerLoss
  <2>2. ASSUME NEW p \in Proc PROVE Rooted(proc'[p], namespace')
    <3>1. proc'[p] = [Idle(None, "none") EXCEPT
                          !.result = IF At(p, "idle") THEN proc[p].result ELSE None,
                          !.via = IF At(p, "idle") THEN proc[p].via ELSE "none"]
      BY <1>5, Zenon DEF PowerLoss
    <3>2. proc'[p].pc = "idle" /\ (proc'[p].via = "publish" => proc[p].via = "publish")
          /\ "idle" \in Opening
      BY <3>1, Zenon DEF Idle, Opening
    <3> QED
      BY <2>1, <3>2 DEF RInv, Rooted
  <2> QED
    BY <2>1, <2>2 DEF RInv
<1>6. ASSUME NEW p \in Proc, Step(p) PROVE RInv'
  <2>0. proc[p] \in ProcState /\ Rooted(proc[p], namespace)
    BY <1>0 DEF RInv
  <2>1. CASE Open(p) \/ MakeDirectory(p) \/ SyncRoot(p)
    BY <2>1, OpenRInv
  <2>2. CASE ~(Open(p) \/ MakeDirectory(p) \/ SyncRoot(p))
    <3>1. UNCHANGED namespace /\ proc[p].pc \notin Opening
      BY <1>6, <2>2, Zenon DEF Step, Lock, Load, QuarantineRename, QuarantineUnlink, QuarantineSync,
        Candidate, Create, Write, Sync, Rename, SyncDirectory, env, At, Opening
    <3>2. ASSUME NEW result, NEW via, Return(p, result, via), via # "publish" PROVE RInv'
      BY <3>1, <3>2, ReturnRInv
    <3>3. CASE Fail(p)
      BY <3>2, <3>3 DEF Fail
    <3>4. ASSUME NEW pc, Goto(p, pc) PROVE RInv'
      BY <3>1, <3>4, GotoRInv
    <3>5. ASSUME NEW pc, NEW data, proc' = [proc EXCEPT ![p].pc = pc, ![p].data = data] PROVE RInv'
      <4> DEFINE r == [proc[p] EXCEPT !.pc = pc, !.data = data]
      <4>1. proc' = [proc EXCEPT ![p] = r]
        BY <1>0, <3>5, Zenon
      <4>2. r.unsynced = proc[p].unsynced /\ r.via = proc[p].via
        BY <2>0, Zenon DEF ProcState
      <4> HIDE DEF r
      <4> QED
        BY <3>1, <4>1, <4>2, StayRInv
    <3>6. ASSUME NEW c, proc' = [proc EXCEPT ![p].candidate = c, ![p].built = TRUE, ![p].pc = "create"]
          PROVE  RInv'
      <4> DEFINE r == [proc[p] EXCEPT !.candidate = c, !.built = TRUE, !.pc = "create"]
      <4>1. proc' = [proc EXCEPT ![p] = r]
        BY <1>0, <3>6, Zenon
      <4>2. r.unsynced = proc[p].unsynced /\ r.via = proc[p].via
        BY <2>0, Zenon DEF ProcState
      <4> HIDE DEF r
      <4> QED
        BY <3>1, <4>1, <4>2, StayRInv
    <3>7. CASE SyncDirectory(p)
      <4>1. ASSUME Return(p, proc[p].candidate, Via(p)) PROVE RInv'
        <5>1. Via(p) = "publish" => namespace = "synced"
          BY <1>0, <2>0, <3>1 DEF Via, Rooted
        <5> QED
          BY <3>1, <4>1, <5>1, ReturnRInv
      <4> QED
        BY <3>3, <3>7, <4>1, Zenon DEF SyncDirectory
    <3>8. CASE Candidate(p)
      <4>1. "load" # "publish"
        OBVIOUS
      <4> QED
        BY <3>2, <3>3, <3>4, <3>6, <3>8, <4>1, Zenon DEF Candidate
    <3>9. CASE Lock(p) \/ Load(p)
      <4>1. "load" # "publish"
        OBVIOUS
      <4> QED
        BY <3>2, <3>3, <3>4, <3>9, <4>1, Zenon DEF Lock, Load
    <3>10. CASE QuarantineRename(p) \/ QuarantineUnlink(p) \/ QuarantineSync(p)
      BY <3>3, <3>4, <3>10, Zenon DEF QuarantineRename, QuarantineUnlink, QuarantineSync
    <3>11. CASE Create(p) \/ Write(p) \/ Sync(p) \/ Rename(p)
      BY <3>3, <3>4, <3>5, <3>11, Zenon DEF Create, Write, Sync, Rename
    <3> QED
      BY <1>6, <2>2, <3>7, <3>8, <3>9, <3>10, <3>11 DEF Step
  <2> QED
    BY <2>1, <2>2
<1> QED
  BY <1>1, <1>2, <1>3, <1>4, <1>5, <1>6 DEF Next

\* The invariant is inductive.
LEMMA StepIInv == IInv /\ RInv /\ [Next]_vars => IInv' /\ RInv' /\ (Kept \/ UNCHANGED vars)
<1> SUFFICES ASSUME IInv, RInv, [Next]_vars PROVE IInv' /\ (Kept \/ UNCHANGED vars)
  BY StepRInv
<1>1. CASE UNCHANGED vars
  BY <1>1 DEF vars, IInv
<1>2. ASSUME NEW p \in Proc, Step(p) PROVE IInv' /\ Kept
  BY <1>2, LoadFacts, QuarantineFacts, PrepareFacts, RenameFacts DEF Step
<1>3. ASSUME NEW p \in Proc, NEW create \in BOOLEAN, Call(p, create) PROVE IInv' /\ Kept
  BY <1>3, LoadFacts
<1> QED
  BY <1>1, <1>2, <1>3, EnvironmentFacts DEF Next

\* No crash, power failure or failed operation leaves a partial entry
\* (EntriesAreComplete).
THEOREM StoreIsComplete == Spec => []EntriesAreComplete
<1>1. IInv => EntriesAreComplete
  BY StoreAssumption DEF IInv, Healthy, EntriesAreComplete
<1> QED
  BY <1>1, InitIInv, StepIInv, PTL DEF Spec

\* A publication that reported success survives every power failure, unless the
\* call found the directory unsynced and so left it (PublishedIsDurable).
THEOREM PublicationIsDurable == Spec => []PublishedIsDurable
<1>1. IInv /\ RInv => PublishedIsDurable
  BY DEF IInv, RInv, Rooted, Fine, PublishedIsDurable
<1> QED
  BY <1>1, InitIInv, StepIInv, PTL DEF Spec

\* verify_all accepts every store nothing damaged (AuditTrustsHealthyStore).
THEOREM AuditIsQuiet == Spec => []AuditTrustsHealthyStore
<1>1. IInv => AuditTrustsHealthyStore
  BY DEF IInv, Healthy, AuditTrustsHealthyStore
<1> QED
  BY <1>1, InitIInv, StepIInv, PTL DEF Spec

\* No process replaces or removes an entry that validates (ValidEntriesStay).
THEOREM EntriesStay == Spec => ValidEntriesStay
<1>1. IInv /\ RInv /\ [Next]_vars =>
        [(entry \in Payload) => (entry' = entry \/ damages' # damages \/ LostBeforeSync)]_vars
  BY StepIInv DEF Kept
<1> QED
  BY <1>1, InitIInv, StepIInv, PTL DEF Spec, ValidEntriesStay

(***************************************************************************)
(* A batch of fetches.                                                     *)
(***************************************************************************)
Phases == {"start", "running", "joined", "lock", "publishing", "returned"}

WorkerType ==
    worker \in [Worker -> [pc : {"loop", "begin", "load", "hit", "attempt", "call", "read",
                                 "verify", "done"},
                           index : Nat, attempt : Nat]]

\* A worker between two requests has none.
Working(w) == worker[w].pc \notin {"loop", "done"}

\* Nobody cancels under the mutex; a hit is in the store, and stays; behind the
\* publishing position everything is in the store; and publication starts only when
\* every slot holds a success.
BatchInv ==
    /\ WorkerType /\ next \in Nat \ {0} /\ position \in Nat \ {0}
    /\ phase \in Phases
    /\ DOMAIN results = Request
    /\ PublicationHeld => ~cancelled
    /\ \A w \in Worker : Working(w) => worker[w].index \in Request
    /\ \A w \in Worker : worker[w].pc = "hit" => ObjectOf[worker[w].index] \in cache
    /\ \A i \in Request : results[i] = "Hit" => ObjectOf[i] \in cache
    /\ phase \in {"start", "running", "joined", "lock"} => position = 1
    /\ phase # "returned" => outcome = "None"
    /\ phase \in {"lock", "publishing"} => \A i \in Request : Succeeded(i)
    /\ PublicationHeld => \A i \in Request : i < position => ObjectOf[i] \in cache
    /\ SuccessIsComplete

\* The call begins with idle workers and empty slots.
LEMMA InitBatchInv == BatchInit => BatchInv
<1> SUFFICES ASSUME BatchInit PROVE BatchInv
  OBVIOUS
<1>1. WorkerType
  BY DEF BatchInit, WorkerType, IdleWorker
<1>2. \A w \in Worker : worker[w].pc = "loop"
  BY DEF BatchInit, IdleWorker
<1>3. \A i \in Request : results[i] = "None"
  BY DEF BatchInit
<1>4. DOMAIN results = Request
  BY DEF BatchInit
<1> QED
  BY <1>1, <1>2, <1>3, <1>4 DEF BatchInit, BatchInv, Phases, Working, PublicationHeld, SuccessIsComplete

\* A worker that answers writes the slot of its request and is idle.
LEMMA FinishBatchInv ==
    ASSUME BatchInv, phase = "running", NEW w \in Worker, Working(w),
           NEW result, result = "Hit" => ObjectOf[worker[w].index] \in cache,
           Finish(w, result)
    PROVE  BatchInv'
<1>t. WorkerType
  BY DEF BatchInv
<1>1. WorkerType' /\ \A v \in Worker : v # w => worker'[v] = worker[v]
  BY <1>t DEF WorkerType, Finish, IdleWorker
<1>2. worker'[w].pc = "loop"
  BY <1>t DEF WorkerType, Finish, IdleWorker
<1>3. (\A v \in Worker : Working(v) => worker[v].index \in Request)'
  BY <1>1, <1>2 DEF BatchInv, Working, Worker, Request
<1>4. (\A v \in Worker : worker[v].pc = "hit" => ObjectOf[worker[v].index] \in cache)'
  BY <1>1, <1>2 DEF BatchInv, Finish, Worker
<1>5. DOMAIN results' = Request
      /\ (\A i \in Request : results[i] = "Hit" => ObjectOf[i] \in cache)'
  BY DEF BatchInv, Finish, Request
<1> QED
  BY <1>1, <1>3, <1>4, <1>5
     DEF BatchInv, Finish, Phases, PublicationHeld, SuccessIsComplete

\* A worker that only moves keeps the request it holds.
LEMMA MoveBatchInv ==
    ASSUME BatchInv, phase = "running", NEW w \in Worker, Working(w),
           NEW pc \in {"load", "hit", "attempt", "call", "read", "verify"},
           NEW attempt \in Nat,
           pc = "hit" => ObjectOf[worker[w].index] \in cache,
           worker' = [worker EXCEPT ![w].pc = pc, ![w].attempt = attempt],
           UNCHANGED <<cancelled, next, results, cache, phase, position, outcome>>
    PROVE  BatchInv'
<1>t. WorkerType
  BY DEF BatchInv
<1>1. WorkerType' /\ \A v \in Worker : v # w => worker'[v] = worker[v]
  BY <1>t, Zenon DEF WorkerType
<1>2. worker'[w].pc = pc /\ worker'[w].index = worker[w].index
  BY <1>t DEF WorkerType
<1>3. (\A v \in Worker : Working(v) => worker[v].index \in Request)'
  BY <1>1, <1>2, Zenon DEF BatchInv, Working, Worker, Request
<1>4. (\A v \in Worker : worker[v].pc = "hit" => ObjectOf[worker[v].index] \in cache)'
  <2> SUFFICES ASSUME NEW v \in Worker, worker'[v].pc = "hit"
               PROVE  ObjectOf[worker'[v].index] \in cache
    OBVIOUS
  <2>1. CASE v = w
    BY <1>2, <2>1
  <2>2. CASE v # w
    BY <1>1, <2>2, Zenon DEF BatchInv
  <2> QED
    BY <2>1, <2>2
<1>5. UNCHANGED <<cancelled, next, results, cache, phase, position, outcome>>
  OBVIOUS
<1> QED
  BY <1>1, <1>3, <1>4, <1>5, Zenon DEF BatchInv, Phases, PublicationHeld, SuccessIsComplete

\* The steps of a worker.
LEMMA WorkerBatchInv ==
    ASSUME BatchInv, NEW w \in Worker, WorkerStep(w)
    PROVE  BatchInv'
<1>t. WorkerType /\ next \in Nat
  BY DEF BatchInv
<1> USE FetchAssumption
<1>0. phase = "running"
  BY DEF WorkerStep, Take, Begin, LoadObject, Hit, Attempt, Download, ReadBody, Verify, WorkerAt
<1>1. CASE Take(w)
  <2>1. WorkerType' /\ (\A v \in Worker : v # w => worker'[v] = worker[v])
    BY <1>t, <1>1 DEF WorkerType, Take
  <2>2. worker'[w].pc \in {"begin", "done"} /\ (worker'[w].pc = "begin" => worker'[w].index \in Request)
    BY <1>t, <1>1 DEF WorkerType, Take
  <2>3. (\A v \in Worker : Working(v) => worker[v].index \in Request)'
    BY <2>1, <2>2 DEF BatchInv, Working, Worker, Request
  <2>4. (\A v \in Worker : worker[v].pc = "hit" => ObjectOf[worker[v].index] \in cache)'
    BY <1>1, <2>1, <2>2 DEF BatchInv, Worker, Take
  <2>5. next' = next + 1 /\ UNCHANGED <<cancelled, results, cache, phase, position, outcome>>
    BY <1>1 DEF Take
  <2>6. next' \in Nat \ {0}
    BY <1>t, <2>5
  <2>7. ~PublicationHeld /\ ~PublicationHeld' /\ phase' = "running" /\ outcome' = "None"
    BY <1>0, <2>5 DEF BatchInv, PublicationHeld
  <2>8. position' = 1 /\ DOMAIN results' = Request
        /\ (\A i \in Request : results[i] = "Hit" => ObjectOf[i] \in cache)'
    BY <1>0, <2>5 DEF BatchInv
  <2>9. /\ phase' \in Phases /\ position' \in Nat \ {0}
        /\ (phase \in {"start", "running", "joined", "lock"} => position = 1)'
        /\ (phase # "returned" => outcome = "None")'
        /\ (phase \in {"lock", "publishing"} => \A i \in Request : Succeeded(i))'
        /\ SuccessIsComplete'
    BY <2>7, <2>8 DEF Phases, SuccessIsComplete
  <2> QED
    BY <2>1, <2>3, <2>4, <2>6, <2>7, <2>8, <2>9, Zenon DEF BatchInv
<1>2. ASSUME Working(w), NEW pc \in {"load", "hit", "attempt", "call", "read", "verify"}, WorkerGoto(w, pc),
             pc = "hit" => ObjectOf[worker[w].index] \in cache
      PROVE  BatchInv'
  <2>1. worker[w].attempt \in Nat
    BY <1>t DEF WorkerType
  <2>2. worker' = [worker EXCEPT ![w].pc = pc, ![w].attempt = worker[w].attempt]
    BY <1>t, <1>2, Zenon DEF WorkerType, WorkerGoto
  <2> QED
    BY ZenonT(60), <1>0, <1>2, <2>1, <2>2, MoveBatchInv DEF WorkerGoto
<1>3. ASSUME Working(w), RetryOrFail(w)
      PROVE  BatchInv'
  <2>1. CASE worker[w].attempt < Retries
    <3>1. worker[w].attempt + 1 \in Nat
      BY <1>t DEF WorkerType
    <3>2. worker' = [worker EXCEPT ![w].pc = "attempt", ![w].attempt = worker[w].attempt + 1]
      BY <1>t, <1>3, <2>1 DEF WorkerType, RetryOrFail
    <3> QED
      BY <1>0, <1>3, <2>1, <3>1, <3>2, MoveBatchInv, Zenon DEF RetryOrFail
  <2>2. CASE ~(worker[w].attempt < Retries)
    BY <1>0, <1>3, <2>2, FinishBatchInv DEF RetryOrFail
  <2> QED
    BY <2>1, <2>2
<1>4. CASE Begin(w)
  BY <1>0, <1>2, <1>4, FinishBatchInv DEF Begin, WorkerAt, Working
<1>5. CASE LoadObject(w)
  BY <1>0, <1>2, <1>5, FinishBatchInv DEF LoadObject, WorkerAt, Working
<1>6. CASE Hit(w)
  <2>1. Working(w) /\ ObjectOf[worker[w].index] \in cache
    BY <1>6 DEF Hit, WorkerAt, Working, BatchInv
  <2> QED
    BY <1>0, <1>6, <2>1, FinishBatchInv DEF Hit
<1>7. CASE Attempt(w)
  BY <1>0, <1>2, <1>7, FinishBatchInv DEF Attempt, WorkerAt, Working
<1>8. CASE Download(w)
  BY <1>0, <1>2, <1>3, <1>8, FinishBatchInv DEF Download, WorkerAt, Working
<1>9. CASE ReadBody(w)
  BY <1>0, <1>2, <1>3, <1>9, FinishBatchInv DEF ReadBody, WorkerAt, Working
<1>10. CASE Verify(w)
  BY <1>0, <1>2, <1>3, <1>10, FinishBatchInv DEF Verify, WorkerAt, Working
<1> QED
  BY <1>1, <1>4, <1>5, <1>6, <1>7, <1>8, <1>9, <1>10 DEF WorkerStep

\* The steps of the calling thread; publication is the one that stores.
LEMMA CallerBatchInv ==
    ASSUME BatchInv, CallerStep
    PROVE  BatchInv'
<1> USE FetchAssumption
<1>1. ASSUME UNCHANGED worker
      PROVE  WorkerType' /\ (\A w \in Worker : Working(w) => worker[w].index \in Request)'
  <2>1. WorkerType /\ \A w \in Worker : Working(w) => worker[w].index \in Request
    BY DEF BatchInv
  <2> QED BY <1>1, <2>1 DEF WorkerType, Working
<1>2. ASSUME NEW result \in {"Cancelled", "Failed"}, ReturnBatch(result)
      PROVE  BatchInv'
  BY <1>1, <1>2, Zenon DEF BatchInv, ReturnBatch, Phases, PublicationHeld, SuccessIsComplete
<1>3. ASSUME NEW p \in {"running", "joined"}, Enter(p), phase \in {"start", "running"}
      PROVE  BatchInv'
  BY <1>1, <1>3, Zenon DEF BatchInv, Enter, Phases, PublicationHeld, SuccessIsComplete
<1>4. CASE Start
  BY <1>2, <1>3, <1>4 DEF Start
<1>5. CASE Join
  BY <1>3, <1>5 DEF Join
<1>6. CASE Decide
  <2>1. CASE (\A i \in Request : Succeeded(i)) /\ Enter("lock")
    BY <1>1, <1>6, <2>1 DEF Decide, BatchInv, Enter, Phases, PublicationHeld, SuccessIsComplete, Succeeded
  <2> QED
    BY <1>2, <1>6, <2>1 DEF Decide
<1>7. CASE LockPublication
  <2>1. CASE ~cancelled /\ Enter("publishing")
    <3>1. position = 1 /\ \A i \in Request : ~(i < position)
      BY <1>7 DEF LockPublication, BatchInv, Request
    <3> QED
      BY Zenon, <1>1, <1>7, <2>1, <3>1
         DEF LockPublication, BatchInv, Enter, Phases, PublicationHeld, SuccessIsComplete, Succeeded
  <2> QED
    BY <1>2, <1>7, <2>1 DEF LockPublication
<1>8. CASE Publish
  <2>1. CASE ReturnBatch("Failed")
    BY <1>2, <2>1
  <2>2. CASE ~ReturnBatch("Failed")
    <3>1. cache \subseteq cache' /\ ObjectOf[position] \in cache'
      BY <1>8, <2>2, Zenon DEF Publish, BatchInv
    <3>2. position' = position + 1 /\ UNCHANGED <<cancelled, next, worker, results, phase, outcome>>
      BY <1>8, <2>2 DEF Publish
    <3>3. (\A i \in Request : i < position => ObjectOf[i] \in cache)'
      <4>1. position \in Request /\ \A i \in Request : i < position => ObjectOf[i] \in cache
        BY <1>8 DEF BatchInv, Publish
      <4> SUFFICES ASSUME NEW i \in Request, i < position' PROVE ObjectOf[i] \in cache'
        OBVIOUS
      <4>2. i < position \/ i = position
        BY <3>2, <4>1 DEF Request
      <4> QED
        BY <3>1, <4>1, <4>2
    <3>4. PublicationHeld /\ PublicationHeld'
      BY <1>8, <3>2 DEF Publish, PublicationHeld
    <3>5. (\A w \in Worker : worker[w].pc = "hit" => ObjectOf[worker[w].index] \in cache)'
      BY <3>1, <3>2 DEF BatchInv
    <3>6. /\ phase = "publishing" /\ phase' = "publishing" /\ outcome' = "None" /\ ~cancelled'
          /\ next' \in Nat \ {0} /\ position' \in Nat \ {0} /\ DOMAIN results' = Request
      BY <3>2, <3>4 DEF BatchInv, PublicationHeld
    <3>7. /\ (\A i \in Request : Succeeded(i))'
          /\ (\A i \in Request : results[i] = "Hit" => ObjectOf[i] \in cache)'
      BY <3>1, <3>2, <3>6 DEF BatchInv, Succeeded
    <3>8. phase' \in Phases /\ SuccessIsComplete'
      BY <3>6 DEF Phases, SuccessIsComplete
    <3> QED
      BY <1>1, <3>2, <3>3, <3>5, <3>6, <3>7, <3>8 DEF BatchInv
  <2> QED
    BY <2>1, <2>2
<1>9. CASE PublishEnd
  <2>1. \A i \in Request : Succeeded(i) /\ ObjectOf[i] \in cache
    <3>1. PublicationHeld /\ position = N + 1
      BY <1>9 DEF PublishEnd
    <3>2. \A i \in Request : i < position
      BY <3>1 DEF Request
    <3>3. /\ \A i \in Request : Succeeded(i)
          /\ \A i \in Request : i < position => ObjectOf[i] \in cache
      BY <3>1 DEF BatchInv, PublicationHeld
    <3> QED
      BY <3>2, <3>3
  <2> QED
    BY <1>1, <1>9, <2>1
       DEF PublishEnd, ReturnBatch, BatchInv, Phases, PublicationHeld, SuccessIsComplete, Succeeded
<1> QED
  BY <1>4, <1>5, <1>6, <1>7, <1>8, <1>9 DEF CallerStep

LEMMA StepBatchInv == BatchInv /\ [BatchNext]_batchVars => BatchInv'
<1> SUFFICES ASSUME BatchInv, [BatchNext]_batchVars PROVE BatchInv'
  OBVIOUS
<1>1. CASE Cancel
  BY <1>1 DEF Cancel, BatchInv, WorkerType, Working, Phases, PublicationHeld, SuccessIsComplete, Succeeded
<1>2. CASE UNCHANGED batchVars
  BY <1>2, Zenon
     DEF batchVars, BatchInv, WorkerType, Working, Phases, PublicationHeld, SuccessIsComplete, Succeeded
<1> QED
  BY <1>1, <1>2, WorkerBatchInv, CallerBatchInv DEF BatchNext

\* A successful batch is complete, however many requests, workers and retries there
\* are and however they interleave (SuccessIsComplete).
THEOREM BatchIsComplete == BatchSpec => []SuccessIsComplete
<1>1. BatchInv => SuccessIsComplete
  BY DEF BatchInv
<1> QED
  BY <1>1, InitBatchInv, StepBatchInv, PTL DEF BatchSpec

\* No byte is published and no success reported once cancel() has returned: the mutex
\* and the check under it leave no window (CancelledBytesStayPrivate).
THEOREM CancelIsFinal == BatchSpec => CancelledBytesStayPrivate
<1>1. BatchInv /\ [BatchNext]_batchVars
      => [cancelled => cache' = cache /\ (outcome' = "Ok" => outcome = "Ok")]_batchVars
  <2> SUFFICES ASSUME BatchInv, BatchNext, cancelled
               PROVE  cache' = cache /\ (outcome' = "Ok" => outcome = "Ok")
    OBVIOUS
  <2>1. ~PublicationHeld
    BY DEF BatchInv
  <2>2. CASE Cancel
    BY <2>2 DEF Cancel
  <2>3. CASE \E w \in Worker : WorkerStep(w)
    BY <2>3, Zenon
       DEF WorkerStep, Take, Begin, LoadObject, Hit, Attempt, Download, ReadBody, Verify, WorkerGoto,
           Finish, RetryOrFail
  <2>4. CASE CallerStep
    BY <2>1, <2>4, Zenon DEF CallerStep, Start, Join, Decide, LockPublication, Publish, PublishEnd,
                     ReturnBatch, Enter
  <2> QED
    BY <2>2, <2>3, <2>4 DEF BatchNext
<1> QED
  BY <1>1, InitBatchInv, StepBatchInv, PTL DEF BatchSpec, CancelledBytesStayPrivate
=============================================================================
