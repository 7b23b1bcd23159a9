----------------------------- MODULE MCUploader -----------------------------
(***************************************************************************)
(* Instances of Uploader for TLC.                                          *)
(***************************************************************************)
EXTENDS UploaderInvariant, TLC

CONSTANTS r1, r2, r3, b1, b2, b3, p1, p2, s1

OneProject  == [r \in Records |-> p1]
TwoProjects == [r \in Records |-> IF r = r1 THEN p1 ELSE p2]
OneSession  == [r \in Records |-> s1]
Symmetry    == Permutations(BatchIds)
=============================================================================
