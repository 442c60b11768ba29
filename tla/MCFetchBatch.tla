---------------------------- MODULE MCFetchBatch ----------------------------
(* Small instances of FetchBatch for TLC. *)
EXTENDS FetchBatch, TLC

(* Three requests, two of which share an object. *)
MCObjectOf == <<"o1", "o2", "o1">>
=============================================================================
