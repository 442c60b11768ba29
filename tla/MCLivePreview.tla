---------------------------- MODULE MCLivePreview ----------------------------
(* A content without fonts and one with two, so that a commit can throw between two *)
(* installs and between two releases.                                               *)
EXTENDS LivePreview

MCFonts == [c \in Contents |-> IF c = 1 THEN {} ELSE {1, 2}]
=============================================================================
