----------------------------- MODULE MCProject -----------------------------
(* One project.  A behaviour varies one part of the state and leaves the    *)
(* others as they begin: the base URLs, the requested setting, or the       *)
(* records and the registry a session leaves.                               *)
EXTENDS Project, TLC

VARIABLE focus

MCTokens    == {"t1", "t2"}
MCRoots     == {"p"}
MCRootOf    == [t \in MCTokens |-> "p"]
MCUpstreams == {"official", "relay", "gateway"}
MCOwn       == {"unset", "relay"}
MCShared    == {"unset", "gateway"}

Outside == {own, shared, shell}

MCInit == /\ Init /\ focus \in {"urls", "setting", "records"}
          /\ focus # "urls" => Outside = {"unset"}

MCNext ==
  /\ Next /\ UNCHANGED focus
  /\ focus # "urls"    => Outside' = {"unset"}
  /\ focus # "setting" => settings'.key = "absent" /\ decision'.answer = "none"
  /\ IF focus = "records" THEN edits' = 0 /\ cmd'.kind # "doctor" /\ (cmd' # Idle => cmd'.shape = "with")
     ELSE kept'.records = {} /\ ~kept'.registered /\ hook'.at # "register" /\ runs' < MaxRuns

MCSpec == MCInit /\ [][MCNext]_<<vars, focus>>
=============================================================================
