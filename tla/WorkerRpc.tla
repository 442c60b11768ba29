------------------------------ MODULE WorkerRpc ------------------------------
(***************************************************************************)
(* WorkerRpcClient of worker-rpc.js: requests to a module worker, each     *)
(* with a timer, over the two message queues of the worker.  Only a        *)
(* cancellation may be sent while another request is pending.  A worker    *)
(* that fails, runs out of time or loses its owner is terminated, and with *)
(* it everything pending.                                                  *)
(*                                                                         *)
(* Left out: progress messages, which settle nothing, and the refusal of a *)
(* request, which changes nothing.                                         *)
(***************************************************************************)
EXTENDS Integers, Sequences, FiniteSets

CONSTANTS MaxPending    \* bound: requests in flight

ASSUME RpcAssumption == MaxPending \in Nat \ {0}

VARIABLES up,          \* is there a worker?
          pending,     \* the requests that have not settled
          toWorker,    \* posted and not yet handled
          toHost       \* replies not yet delivered

rpcVars == <<up, pending, toWorker, toHost>>

Concurrent == {"cancel-stabilization", "cancel-pending-patch"}

Ids == {p.id : p \in pending}
\* An id in no message and no request.
FreshId == CHOOSE i \in 1..MaxPending : i \notin Ids

Exclusive == {p \in pending : p.op \notin Concurrent}

Request(op, body) ==
    /\ up
    /\ pending = {} \/ op \in Concurrent
    /\ Cardinality(pending) < MaxPending
    /\ pending' = pending \union {[id |-> FreshId, op |-> op]}
    /\ toWorker' = Append(toWorker, [id |-> FreshId, op |-> op, body |-> body])
    /\ UNCHANGED <<up, toHost>>

\* terminate: the listeners go, and every pending request is rejected.
Terminate ==
    /\ up' = FALSE /\ pending' = {}
    /\ toWorker' = <<>> /\ toHost' = <<>>

\* Mutant: the request is given up and the worker kept.
TimeoutKeepsWorker(id) ==
    /\ up /\ id \in Ids
    /\ pending' = {p \in pending : p.id # id}
    /\ UNCHANGED <<up, toWorker, toHost>>

Timeout(id) == up /\ id \in Ids /\ Terminate

\* The worker's error and messageerror events, and a request that cannot be cloned.
WorkerFails == up /\ Terminate

OwnerAborts == up /\ Terminate

\* A worker's reply to message m, whatever it handled in between.
Reply(id, kind, update) == [id |-> id, kind |-> kind, update |-> update]

\* #finish without release: the request of the reply is settled.
Finish(message) ==
    /\ pending' = {p \in pending : p.id # message.id}
    /\ toHost' = Tail(toHost)
    /\ UNCHANGED <<up, toWorker>>
=============================================================================
