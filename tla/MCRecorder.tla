----------------------------- MODULE MCRecorder -----------------------------
(***************************************************************************)
(* Instances of Recorder for TLC.                                          *)
(***************************************************************************)
EXTENDS Recorder, TLC

CONSTANTS p1, p2, t1, t2, x1, x2, x3, root, official, relay, garbled, v1

OneRoot  == [t \in Tokens |-> root]
Symmetry == Permutations(Exchanges) \cup Permutations(Proxies)
=============================================================================
