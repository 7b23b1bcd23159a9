------------------------------ MODULE Delivery ------------------------------
(***************************************************************************)
(* What the upload path promises about each record, without batches,       *)
(* leases, files or messages: this machine owes a captured record to the   *)
(* service until the service has it, the service gets it once, and only    *)
(* the user's word ends the debt otherwise.                                *)
(***************************************************************************)
EXTENDS Naturals

CONSTANT Records

VARIABLES
  owed,    \* records this machine still holds for the service
  copies,  \* how many batches the service stored each record in
  waived   \* records the user had deleted

delivery == <<owed, copies, waived>>

Init ==
  /\ owed = {} /\ waived = {}
  /\ copies = [r \in Records |-> 0]

\* A record is captured, once.
Capture(r) ==
  /\ r \notin owed \cup waived /\ copies[r] = 0
  /\ owed' = owed \cup {r}
  /\ UNCHANGED <<copies, waived>>

\* The service stores a batch.  None of its records is stored already.
Receive(batch) ==
  /\ \A r \in batch : copies[r] = 0
  /\ copies' = [r \in Records |-> IF r \in batch THEN 1 ELSE copies[r]]
  /\ UNCHANGED <<owed, waived>>

\* What the service has is let go of, and nothing else is.
Release(r) ==
  /\ r \in owed /\ copies[r] = 1
  /\ owed' = owed \ {r}
  /\ UNCHANGED <<copies, waived>>

\* A withdrawal, a forgotten session or a discarded batch.
Waive(gone) ==
  /\ waived' = waived \cup gone
  /\ owed' = owed \ gone
  /\ UNCHANGED copies

Next ==
  \/ \E r \in Records : Capture(r) \/ Release(r)
  \/ \E some \in SUBSET Records : Receive(some) \/ Waive(some)

Spec == Init /\ [][Next]_delivery
=============================================================================
