------------------------------ MODULE MCSpool ------------------------------
(***************************************************************************)
(* Instances of Spool for TLC: a rawcall and a second-slot record, the     *)
(* resident proxy and a command.                                           *)
(***************************************************************************)
EXTENDS Spool

CONSTANTS proxy, command, call, line, p1, s1

OneProject == [r \in Records |-> p1]
OneSession == [r \in Records |-> s1]
Sizes == [r \in Records |-> 2]
=============================================================================
