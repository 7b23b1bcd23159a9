------------------------------ MODULE MCUpdate ------------------------------
(* Two runs at a time over three releases, one of which does not work here. *)
EXTENDS Update

\* The machine starts with a release that works.
MCInit == Init /\ path.ver \notin Broken

MCSparedSpec == MCInit /\ [][Next]_vars
MCSpec == MCInit /\ [][Next /\ DoctorIsRefused]_vars
MCFairSpec == MCSpec /\ Fairness
=============================================================================
