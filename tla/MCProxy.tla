------------------------------ MODULE MCProxy ------------------------------
(* One machine.  A behaviour varies one part of the state: what serving      *)
(* processes upload and read while they are taken over, or what breaks.     *)
EXTENDS Proxy

VARIABLE focus

MCSlots == 1..3
MCDogs  == 1..2

\* A newer build serves, or breaks on this machine.
MCBuilds == \A p \in Paths : builds[p] # IF focus = "uploads" THEN 3 ELSE 2

MCInit == Init /\ focus \in {"uploads", "breaks"} /\ MCBuilds

\* What breaks takes more events than what uploads.
MCNext ==
  /\ Next /\ UNCHANGED focus /\ MCBuilds'
  /\ IF focus = "uploads"
     THEN /\ port' # Stranger /\ \A s \in Slots : ~procs'[s].hung
          /\ events' < MaxEvents
     ELSE /\ \A c \in Cmds : cmds'[c].kind = "uninstall" => events <= 2
          /\ \A s \in Slots : procs'[s].flush # "some" /\ ~procs'[s].sweep

MCSpec == MCInit /\ [][MCNext]_<<vars, focus>>
MCFairSpec == MCSpec /\ Fairness
=============================================================================
