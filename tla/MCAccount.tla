----------------------------- MODULE MCAccount -----------------------------
(* One machine.  A behaviour varies one part of the state and leaves the    *)
(* others as they begin: what the service holds of the payloads sent, its   *)
(* answers and the gates they leave, or the token and the recording pause.  *)
EXTENDS Account, TLC

VARIABLE focus

MCTokens   == {1, 2}
MCAccounts == [t \in MCTokens |-> IF t = 1 THEN "a" ELSE "b"]
MCRootOf   == [t \in {"t"} |-> "p"]

\* A pairing takes more events than an upload.
MCEvents   == 3

MCInit == /\ Init /\ focus \in {"payloads", "answers", "pairing"}
          /\ file = "there" /\ (focus # "pairing" => Paired)

MCNext ==
  /\ Next /\ UNCHANGED focus
  /\ focus # "payloads" => ~omit' /\ svc'.states /\ svc'.refs /\ svc'.epoch = 1 /\ cmd'.kind # "purge"
  /\ focus # "answers"  => svc'.mood = "well"
  /\ svc'.mood = svc.mood \/ "well" \in {svc.mood, svc'.mood}
  /\ focus # "pairing"  => store'.lock = "open" /\ agreed' = "current"
  /\ IF focus = "pairing" THEN flush'.at = "idle"
                          ELSE events' <= MCEvents /\ cmd'.kind # "enable"

MCSpec     == MCInit /\ [][MCNext]_<<vars, focus>>
MCFairSpec == MCSpec /\ Fairness
=============================================================================
