--------------------------- MODULE MCSessionReader ---------------------------
(***************************************************************************)
(* Instances of SessionReader for TLC.                                     *)
(***************************************************************************)
EXTENDS SessionReader, TLC

CONSTANTS hook, resident, poll

\* A session hook's one-shot process, and two goroutines of the resident
\* proxy.
Processes == [r \in Readers |-> IF r = hook THEN "hook" ELSE "proxy"]

\* The proxy's goroutines are alike.
Alike == Permutations({resident, poll})
=============================================================================
