------------------------- MODULE UploaderInvariant -------------------------
(***************************************************************************)
(* The inductive invariant behind Uploader's safety properties, in named   *)
(* parts.  TLC checks it on an instance of MCUploader; UploaderProofs      *)
(* proves it for every value of the constants.                             *)
(***************************************************************************)
EXTENDS Uploader

\* The persisted pair exists: an id is pinned, readable or not.
Pinned == pending.state # "none"

Moving == pc \in {"copy", "remove"}

-----------------------------------------------------------------------------
(* The lease in hand is the persisted pair, and the sets nest.              *)

LeaseInv ==
  /\ pc # "idle" => /\ Pinned /\ lease.id = pending.id
                    /\ lease.recs = pending.recs /\ batch \subseteq lease.recs
  /\ Pinned => /\ pending.id \in minted /\ pending.recs \subseteq captured
               /\ offered[pending.id] \subseteq pending.recs
  /\ spool \subseteq captured /\ Quarantined \subseteq captured
  /\ deciding \cap captured = {}
  /\ \A b \in BatchIds : offered[b] \subseteq captured
  /\ \A b \in BatchIds \ minted : offered[b] = {}
  /\ pending.state = "torn" => torn

\* What each place of the uploader's program says about its own sets.
PlaceInv ==
  /\ pc \in {"check", "build", "copy", "remove", "offer", "wait", "settle"} =>
       batch # {}
  /\ pc \in {"offer", "wait", "settle"} => batch \cap Bad = {}
  /\ pc = "drop" => todo \subseteq deleted
  /\ pc = "settle" => todo \subseteq batch
  /\ Moving => todo \subseteq moving
  /\ Moving => \/ why = "unreadable" /\ moving = batch \cap Bad
               \/ /\ why = "service_refused" /\ moving = batch
                  /\ batch \cap Bad = {} /\ lease.id \in refused

\* What the service knows was offered; an id is stored or refused, not both.
ServiceInv ==
  /\ \A m \in wire : m.recs # {} /\ m.recs \subseteq offered[m.id]
  /\ \A b \in BatchIds : stored[b] \subseteq offered[b] /\ offered[b] \cap Bad = {}
  /\ \A b \in refused : stored[b] = {}
  /\ pc = "wait" /\ reply = "ack" => stored[lease.id] # {}
  /\ pc = "wait" /\ reply = "refused" => lease.id \in refused
  /\ pc = "settle" => stored[lease.id] # {}

\* The command and the directory it works on.
CmdInv ==
  /\ cmd.op = "none" => cmd = NoCmd
  /\ cmd.op = "requeue" <=> cmd.dir # NoBatch /\ cmd.op # "purge_rejected"
  /\ cmd.hold # {} => cmd.op = "requeue"

\* What holds of the uploader, the service and the command by themselves.
Core == TypeOK /\ LeaseInv /\ PlaceInv /\ ServiceInv /\ CmdInv

-----------------------------------------------------------------------------
(* Nothing is lost.                                                         *)

\* What a quarantine has moved is in the directory, unless a command took it
\* out again.
MovedInv ==
  /\ pc = "copy" => moving \ todo \subseteq rejected[lease.id].recs \cup deleted \cup overlapped
  /\ pc = "remove" => moving \subseteq rejected[lease.id].recs \cup deleted \cup overlapped
  /\ Moving /\ cmd.dir = lease.id => moving \subseteq overlapped

\* What a command is about to remove from its directory is elsewhere.
RemovalInv ==
  /\ \A r \in cmd.hold :
       \/ r \in spool \cup Stored \cup deleted \cup overlapped
       \/ \E b \in BatchIds \ {cmd.dir} : r \in rejected[b].recs
  /\ cmd.op = "requeue" /\ ~cmd.stuck =>
       rejected[cmd.dir].recs \subseteq cmd.todo \cup cmd.hold \cup overlapped
  /\ cmd.op = "purge_rejected" /\ cmd.dir # NoBatch =>
       rejected[cmd.dir].recs \subseteq overlapped

Kept == MovedInv /\ RemovalInv /\ NothingLost

-----------------------------------------------------------------------------
(* An acknowledgement covers what it deletes.                               *)

\* What of the pinned batch can be sent and was not deleted.
Sendable == (pending.recs \ Bad) \ deleted

CoverInv ==
  Pinned /\ pending.id \notin refused =>
    /\ Sendable \subseteq spool \cup stored[pending.id]
    /\ stored[pending.id] # {} => Sendable \subseteq stored[pending.id]
    /\ stored[pending.id] = {} =>
         /\ \A m \in wire : m.id = pending.id => Sendable \subseteq m.recs
         /\ pc \notin {"idle", "clear"} => Sendable \subseteq batch

-----------------------------------------------------------------------------
(* A record is sent under one id.                                           *)

\* A copy of r in the directory of b that a requeue is about to remove.
Held(b, r) == cmd.dir = b /\ r \in cmd.hold

\* The entries of the batch in hand that the uploader has still to take out
\* of the spool before it may clear the lease.
Remaining ==
  CASE pc = "drop"   -> batch \cup todo
    [] pc = "remove" -> (batch \ moving) \cup todo
    [] pc = "settle" -> todo
    [] pc = "clear"  -> {}
    [] OTHER         -> batch

\* Where a record can be more than once, for records no killed requeue left
\* in two places.
PlacesInv ==
  /\ \A r \in (spool \ Bad) \ cut, b \in BatchIds :
       r \in rejected[b].recs =>
         \/ Held(b, r)
         \/ b = pending.id /\ b \in refused /\ r \in pending.recs
  /\ \A r \in (pending.recs \ Bad) \ cut, b \in BatchIds :
       Pinned /\ r \in rejected[b].recs =>
         Held(b, r) \/ (b = pending.id /\ b \in refused)
  /\ \A r \in (Quarantined \ Bad) \ cut, b, c \in BatchIds :
       b # c /\ r \in rejected[b].recs \cap rejected[c].recs => Held(b, r) \/ Held(c, r)

\* Nothing of the batch in hand is left in the spool when the lease clears.
RemainingInv ==
  pc # "idle" =>
    \A r \in ((pending.recs \cap spool) \ Bad) \ cut :
      (pending.id \in refused => r \in rejected[pending.id].recs /\ ~Held(pending.id, r))
        => r \in Remaining

\* A record sent under an id that stands is quarantined nowhere, is pinned
\* to no other id, and was sent under no other id that stands.
SentInv ==
  \A b \in BatchIds \ refused : \A r \in offered[b] \ cut :
    /\ \A c \in BatchIds : r \in rejected[c].recs => Held(c, r)
    /\ Pinned /\ r \in pending.recs => b = pending.id
    /\ \A c \in BatchIds \ refused : r \in offered[c] => b = c

Once == PlacesInv /\ RemainingInv /\ SentInv /\ SentIsPinned

\* A pending record that stopped parsing forgets what was sent.
OnceInv == torn \/ Once

-----------------------------------------------------------------------------
(* A withdrawn project's records are held back.                             *)

\* What was denied when the batch was taken up is denied still, or is consented
\* to again; past the check, no entry that names a project is of a denied one.
ConsentInv ==
  /\ deniedSince \subseteq withdrawn
  /\ pc \notin {"idle", "check"} =>
       \A r \in batch \cap Attributed : ProjectOf[r] \notin deniedSince

-----------------------------------------------------------------------------
(* What Delivery needs besides: where the entries in hand are.              *)

HandInv ==
  /\ deleted \cup overlapped \subseteq captured
  /\ pc \in {"check", "drop", "build", "copy", "offer", "wait"} =>
       batch \subseteq spool \cup deleted
  /\ pc = "remove" => batch \ moving \subseteq spool \cup deleted
  /\ \A r, q \in cmd.hold : r = q

-----------------------------------------------------------------------------
\* The inductive invariant: what must hold together for any part of it to
\* survive a step.
IInv == Core /\ CoverInv /\ Kept /\ OnceInv /\ ConsentInv /\ HandInv
=============================================================================
