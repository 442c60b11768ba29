-------------------------- MODULE MCWorkspaceLedger --------------------------
(* Small instances of WorkspaceLedger for TLC. *)
EXTENDS WorkspaceLedger, TLC

CONSTANTS c1, c2

MCSize == c1 :> 1 @@ c2 :> 2

(* Request batches of no key, one key or all keys. *)
MCSingleRequests == {{}} \cup {{key} : key \in Key}
MCRequestSet == {Key} \cup MCSingleRequests

MCAllResponses == [key : Key, path : DistributionPath, content : Content]
MCNoResponses == {}

(* The contents have different sizes and are not interchangeable. *)
Symmetry == Permutations(Key) \cup Permutations(DistributionPath)
                \cup Permutations(JobPath) \cup Permutations(Handle)
=============================================================================
