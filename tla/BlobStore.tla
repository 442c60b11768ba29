------------------------------ MODULE BlobStore ------------------------------
(***************************************************************************)
(* One entry of the native blob store (umber-fetch/src/cache.rs,           *)
(* blob_store_unix.rs), shared by processes that run BlobStore::           *)
(* resolve_entry under a per-key flock: load, quarantine of what does not  *)
(* decode or validate, construction, and publication by temporary file,    *)
(* fsync and rename without replacement.                                   *)
(*                                                                         *)
(* A process may be killed at any step, the machine may lose power, any    *)
(* file operation may fail, and entries may be damaged or put there by a   *)
(* program that does not take the lock.  Keys have different locks and     *)
(* names, so one key is enough.  An operator named ..._Bug... is a         *)
(* deliberately wrong variant of the one after it; nothing uses it but the *)
(* mutation checks.                                                        *)
(***************************************************************************)
EXTENDS Integers, FiniteSets

CONSTANTS
    Proc,       \* processes (or threads) that use the store
    Payload,    \* payloads that validate; construction may produce any
    Stale,      \* decodes, but the caller's validation rejects it
    Corrupt,    \* does not decode: damaged or incomplete
    None,
    MaxDamage,  \* bound on foreign writes and damage
    MaxCrash    \* bound on killed processes and power failures

ASSUME StoreAssumption ==
    /\ None \notin Payload \union Proc
    /\ {Stale, Corrupt} \cap (Payload \union {None}) = {}
    /\ MaxDamage \in Nat /\ MaxCrash \in Nat

VARIABLES
    entry,     \* content of the entry file as processes see it
    durable,   \* content of the entry file after a power failure
    namespace, \* the blob directory: absent, made, or synced into its parent
    lock,      \* holder of the key's flock
    proc,      \* what each process is doing, and what its last call returned
    audit,     \* the verify_all of one more process
    damages,
    crashes

vars == <<entry, durable, namespace, lock, proc, audit, damages, crashes>>
disk == <<entry, durable>>
env == <<namespace, audit, damages, crashes>>

Content == Payload \cup {Stale, Corrupt}

Idle(result, via) ==
    [pc |-> "idle", create |-> FALSE, candidate |-> None, built |-> FALSE,
     data |-> "none", unsynced |-> FALSE, result |-> result, via |-> via]

Init ==
    /\ entry = None
    /\ durable = None
    /\ namespace = "absent"
    /\ lock = None
    /\ proc = [p \in Proc |-> Idle(None, "none")]
    /\ audit = "idle"
    /\ damages = 0
    /\ crashes = 0

At(p, pc) == proc[p].pc = pc
Goto(p, pc) == proc' = [proc EXCEPT ![p].pc = pc]

(* The call returns and drops its KeyGuard. *)
Return(p, result, via) ==
    /\ proc' = [proc EXCEPT ![p] = Idle(result, via)]
    /\ lock' = IF lock = p THEN None ELSE lock

(* Any file operation may fail; a temporary is then unlinked, and nothing  *)
(* is lost when that fails too: names that start with a dot are not read.  *)
Fail(p) == Return(p, "Err", "none") /\ UNCHANGED disk

(***************************************************************************)
(* resolve_entry.  load and load_validated do not create; store and        *)
(* ensure_validated do.                                                    *)
(***************************************************************************)
Call(p, create) ==
    /\ At(p, "idle")
    /\ proc' = [proc EXCEPT ![p] = [Idle(None, "none") EXCEPT !.pc = "open", !.create = create]]
    /\ UNCHANGED <<disk, lock, env>>

(***************************************************************************)
(* Authority::open.  A read-only miss of the directory creates nothing.    *)
(* The process that makes the directory syncs its parent; one that finds   *)
(* it goes on, synced or not.  open_root makes the directories above it by *)
(* the same three steps; namespace stands for the whole chain.             *)
(***************************************************************************)
Found(p) ==
    /\ namespace # "absent"
    /\ proc' = [proc EXCEPT ![p].pc = "lock", ![p].unsynced = (namespace = "made")]
    /\ UNCHANGED <<disk, lock, env>>

Open(p) ==
    /\ At(p, "open")
    /\ \/ Found(p)
       \/ /\ namespace = "absent" /\ proc[p].create
          /\ Goto(p, "mkdir")
          /\ UNCHANGED <<disk, lock, env>>
       \/ /\ namespace = "absent" /\ ~proc[p].create
          /\ Return(p, "Absent", "load")
          /\ UNCHANGED <<disk, env>>
       \/ Fail(p) /\ UNCHANGED env

(* Another process may have made the directory since: AlreadyExists. *)
MakeDirectory(p) ==
    /\ At(p, "mkdir")
    /\ \/ Found(p)
       \/ /\ namespace = "absent"
          /\ namespace' = "made"
          /\ Goto(p, "syncroot")
          /\ UNCHANGED <<disk, lock, audit, damages, crashes>>
       \/ Fail(p) /\ UNCHANGED env

(* A sync that fails leaves the directory to the next process. *)
SyncRoot(p) ==
    /\ At(p, "syncroot")
    /\ \/ namespace' = "synced" /\ Goto(p, "lock") /\ UNCHANGED <<disk, lock>>
       \/ Fail(p) /\ UNCHANGED namespace
    /\ UNCHANGED <<audit, damages, crashes>>

Lock(p) ==
    /\ At(p, "lock")
    /\ \/ lock = None /\ lock' = p /\ Goto(p, "load") /\ UNCHANGED <<disk>>
       \/ Fail(p)
    /\ UNCHANGED env

(* load_locked and the validation of what it found. *)
Load(p) ==
    /\ At(p, "load")
    /\ \/ entry = None /\ Goto(p, "candidate") /\ UNCHANGED <<lock, disk>>
       \/ entry \in Payload /\ Return(p, entry, "load") /\ UNCHANGED <<disk>>
       \/ entry \in {Stale, Corrupt} /\ Goto(p, "quarantine") /\ UNCHANGED <<lock, disk>>
       \/ Fail(p)
    /\ UNCHANGED env

(* Rename to a name of its own, then unlink, then sync the directory. *)
QuarantineRename(p) ==
    /\ At(p, "quarantine")
    /\ \/ /\ entry' = None
          /\ durable' \in {durable, None}
          /\ Goto(p, "unlink")
          /\ UNCHANGED lock
       \/ Fail(p)
    /\ UNCHANGED env

QuarantineUnlink(p) ==
    /\ At(p, "unlink")
    /\ \/ Goto(p, "unlinked") /\ UNCHANGED <<disk, lock>>
       \/ Fail(p)
    /\ UNCHANGED env

QuarantineSync(p) ==
    /\ At(p, "unlinked")
    /\ \/ durable' = entry /\ Goto(p, "candidate") /\ UNCHANGED <<entry, lock>>
       \/ Fail(p)
    /\ UNCHANGED env

(* pending.take(), a read-only miss, or the one call of construct. *)
Candidate(p) ==
    /\ At(p, "candidate")
    /\ \/ proc[p].candidate # None /\ Goto(p, "create") /\ UNCHANGED <<lock, disk>>
       \/ /\ proc[p].candidate = None
          /\ ~proc[p].create
          /\ Return(p, "Absent", "load")
          /\ UNCHANGED <<disk>>
       \/ /\ proc[p].candidate = None
          /\ proc[p].create
          /\ UNCHANGED <<lock, disk>>
          /\ IF proc[p].built THEN Goto(p, "panicked")
             ELSE \E c \in Payload : proc' = [proc EXCEPT ![p].candidate = c, ![p].built = TRUE,
                                                          ![p].pc = "create"]
       \/ Fail(p)   \* construction fails, or its result does not verify or validate
    /\ UNCHANGED env

(***************************************************************************)
(* Authority::publish: create the temporary, write it, sync it, rename it, *)
(* sync the directory; a failure unlinks the temporary.                    *)
(***************************************************************************)
Create(p) ==
    /\ At(p, "create")
    /\ \/ /\ proc' = [proc EXCEPT ![p].pc = "write", ![p].data = "partial"]
          /\ UNCHANGED <<disk, lock>>
       \/ Fail(p)
    /\ UNCHANGED env

Write(p) ==
    /\ At(p, "write")
    /\ \/ proc' = [proc EXCEPT ![p].pc = "sync", ![p].data = "written"]
          /\ UNCHANGED <<disk, lock>>
       \/ Fail(p)
    /\ UNCHANGED env

Sync_BugSkipped(p) ==
    /\ At(p, "sync")
    /\ Goto(p, "rename")
    /\ UNCHANGED <<disk, lock, env>>

Sync(p) ==
    /\ At(p, "sync")
    /\ \/ proc' = [proc EXCEPT ![p].pc = "rename", ![p].data = "synced"]
          /\ UNCHANGED <<disk, lock>>
       \/ Fail(p)
    /\ UNCHANGED env

(* What a power failure leaves of the temporary's bytes. *)
OnDisk(p) == IF proc[p].data = "synced" THEN proc[p].candidate ELSE Corrupt

Rename_BugReplaces(p) ==
    /\ At(p, "rename")
    /\ entry' = proc[p].candidate
    /\ Goto(p, "syncdir")
    /\ UNCHANGED <<durable, lock, env>>

Rename_BugSpins(p) ==
    /\ At(p, "rename")
    /\ \/ /\ entry = None
          /\ entry' = proc[p].candidate
          /\ durable' \in {durable, OnDisk(p)}
          /\ Goto(p, "syncdir")
       \/ entry # None /\ Goto(p, "create") /\ UNCHANGED disk
    /\ UNCHANGED <<lock, env>>

(* The new name may or may not reach the disk before the directory is      *)
(* synced.  An existing entry makes publish return false: the temporary is *)
(* unlinked and the loop starts again with the candidate pending.          *)
Rename(p) ==
    /\ At(p, "rename")
    /\ \/ /\ entry = None
          /\ entry' = proc[p].candidate
          /\ durable' \in {durable, OnDisk(p)}
          /\ Goto(p, "syncdir")
          /\ UNCHANGED lock
       \/ /\ entry # None
          /\ proc' = [proc EXCEPT ![p].pc = "load", ![p].data = "none"]
          /\ UNCHANGED <<disk, lock>>
       \/ Fail(p)
    /\ UNCHANGED env

(* What the call has published into: a directory that is still as it found *)
(* it, unsynced, is the one case in which the entry may go with it.        *)
Via(p) == IF proc[p].unsynced /\ namespace = "made" THEN "unrooted" ELSE "publish"

SyncDirectory_BugSkipped(p) ==
    /\ At(p, "syncdir")
    /\ Return(p, proc[p].candidate, Via(p))
    /\ UNCHANGED <<disk, env>>

(* A failed sync reports an error although the entry is published. *)
SyncDirectory(p) ==
    /\ At(p, "syncdir")
    /\ \/ durable' = entry /\ Return(p, proc[p].candidate, Via(p)) /\ UNCHANGED <<entry>>
       \/ Fail(p)
    /\ UNCHANGED env

Step(p) ==
    \/ Open(p) \/ MakeDirectory(p) \/ SyncRoot(p) \/ Lock(p) \/ Load(p)
    \/ QuarantineRename(p) \/ QuarantineUnlink(p) \/ QuarantineSync(p)
    \/ Candidate(p) \/ Create(p) \/ Write(p) \/ Sync(p) \/ Rename(p) \/ SyncDirectory(p)

(***************************************************************************)
(* verify_all, in a process that takes no lock.                            *)
(***************************************************************************)
(* As if the names that start with a dot were listed too. *)
AuditNames_BugListsAll ==
    /\ audit # "names"
    /\ namespace # "absent"
    /\ audit' = "names"
    /\ UNCHANGED <<disk, namespace, lock, proc, damages, crashes>>

AuditNames ==
    /\ audit # "names"
    /\ entry # None
    /\ audit' = "names"
    /\ UNCHANGED <<disk, namespace, lock, proc, damages, crashes>>

(* Names that start with a dot (locks, temporaries, quarantine) are skipped. *)
AuditOpen ==
    /\ audit = "names"
    /\ audit' = IF entry \in {None, Corrupt} THEN "Err" ELSE "Ok"
    /\ UNCHANGED <<disk, namespace, lock, proc, damages, crashes>>

(***************************************************************************)
(* The environment.                                                        *)
(***************************************************************************)
(* A killed process leaves its files and loses its flock. *)
Crash(p) ==
    /\ crashes < MaxCrash
    /\ ~At(p, "idle")
    /\ crashes' = crashes + 1
    /\ Return(p, None, "none")
    /\ UNCHANGED <<disk, namespace, audit, damages>>

(* What calls returned before it is remembered.  A directory that was not  *)
(* synced may be gone, with its entry.                                     *)
PowerLoss ==
    /\ crashes < MaxCrash
    /\ crashes' = crashes + 1
    /\ proc' = [p \in Proc |-> [Idle(None, "none") EXCEPT
                                    !.result = IF At(p, "idle") THEN proc[p].result ELSE None,
                                    !.via = IF At(p, "idle") THEN proc[p].via ELSE "none"]]
    /\ lock' = None
    /\ \/ /\ entry' = durable
          /\ namespace' = IF namespace = "absent" THEN "absent" ELSE "synced"
          /\ UNCHANGED durable
       \/ /\ namespace = "made"
          /\ entry' = None /\ durable' = None /\ namespace' = "absent"
    /\ audit' = "idle"
    /\ UNCHANGED damages

(* Bit rot, or a program that writes entries without the lock. *)
Damage ==
    /\ damages < MaxDamage
    /\ damages' = damages + 1
    /\ entry' \in (IF entry = None THEN Content ELSE {Corrupt, Stale})
    /\ durable' = entry'
    /\ namespace' = IF namespace = "absent" THEN "made" ELSE namespace
    /\ UNCHANGED <<lock, proc, audit, crashes>>

Next ==
    \/ \E p \in Proc : Step(p) \/ Crash(p) \/ (\E create \in BOOLEAN : Call(p, create))
    \/ AuditNames \/ AuditOpen \/ PowerLoss \/ Damage

(* A process that has not been killed goes on. *)
Spec == Init /\ [][Next]_vars /\ \A p \in Proc : WF_vars(Step(p))
-----------------------------------------------------------------------------
(***************************************************************************)
(* Properties.                                                             *)
(***************************************************************************)
(* "Constructing and publishing at most once per key": a valid entry is    *)
(* never replaced or removed, except by damage or by a power failure that  *)
(* strikes before it and its directory were synced, so that all processes  *)
(* get the same bytes.                                                     *)
LostBeforeSync == crashes' # crashes /\ (durable # entry \/ namespace = "made")

ValidEntriesStay ==
    [][(entry \in Payload) => (entry' = entry \/ damages' # damages \/ LostBeforeSync)]_vars

(* No crash, power failure or failed file operation leaves a partial entry *)
(* under the key's name, in memory or on the disk.                         *)
EntriesAreComplete ==
    damages = 0 => entry \notin {Stale, Corrupt} /\ durable \notin {Stale, Corrupt}

(* What a successful publication returned survives every power failure:    *)
(* its bytes, its name and the name of its directory are on the disk.  The *)
(* exception is a call that found the directory made but not yet synced by *)
(* another process and published while it still was not: Authority::open   *)
(* syncs only the directories that it makes itself.                        *)
PublishedIsDurable ==
    damages = 0 => \A p \in Proc :
        proc[p].via = "publish" => durable = proc[p].result /\ namespace = "synced"

(* verify_all, which lists the names and opens the files later without a   *)
(* lock, reports an error only for a store that was damaged: crashes and   *)
(* concurrent publications do not disturb it.                              *)
AuditTrustsHealthyStore == damages = 0 => audit # "Err"

(* A call that holds the lock releases it: the resolve loop ends, however  *)
(* often publication finds an entry in its way.                            *)
LockIsReleased == \A p \in Proc : lock = p ~> lock # p
=============================================================================
