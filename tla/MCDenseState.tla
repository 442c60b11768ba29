---------------------------- MODULE MCDenseState ----------------------------
(* A meaning cell, undefined at first, and a register above 255. *)
EXTENDS DenseEnvironments

MCCells == {"meaning", "register"}
MCExtended == {"register"}
MCFirstCells == [c \in Cells |->
    [value |-> 0, level |-> IF c = "meaning" THEN 0 ELSE LevelOne, serial |-> 0]]
=============================================================================
