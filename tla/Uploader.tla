------------------------------ MODULE Uploader ------------------------------
(***************************************************************************)
(* The upload path of trajector: the recorder that fills the spool, the    *)
(* one uploader of the host, the pending record (the lease that pins a     *)
(* batch id to the records it was offered with), the rejected store, the   *)
(* ingest service behind a network that loses and delays, and the commands *)
(* a user runs in other processes while the uploader works.                *)
(*                                                                         *)
(* Every change of a file that another process can interleave with is a    *)
(* step of its own.  What a step of the uploader keeps in memory only is lost   *)
(* by Abort, which stands for a crash, a disk error, a spent budget and    *)
(* every answer that settles nothing.                                      *)
(***************************************************************************)
EXTENDS FiniteSets

CONSTANTS
  Records,     \* every record that may be captured
  BatchIds,    \* every batch id that may be minted
  NoBatch,     \* no batch id
  Projects, Sessions,
  ProjectOf,   \* the project a record belongs to
  SessionOf,   \* the coding session a record belongs to
  Unparsable,  \* records whose bytes read back as no record kind
  Unmaskable,  \* records that parse but that redaction refuses
  Commands,    \* the user commands that run: requeue, discard, forget, disable
  MayTear      \* whether the pending record's bytes can stop parsing

ASSUME NoBatchAssumption == NoBatch \notin BatchIds
ASSUME OwnerAssumption ==
  /\ ProjectOf \in [Records -> Projects]
  /\ SessionOf \in [Records -> Sessions]
ASSUME BadAssumption == Unparsable \subseteq Records /\ Unmaskable \subseteq Records
ASSUME SwitchAssumption ==
  /\ Commands \subseteq {"requeue", "discard", "forget", "disable"}
  /\ MayTear \in BOOLEAN

VARIABLES
  \* On this machine's disk, shared by every process.
  spool,       \* records in the spool
  pending,     \* pending.json
  rejected,    \* rejected/<batch id>/
  withdrawn,   \* projects whose consent is denied
  \* In the memory of the process that records and uploads.
  deciding,    \* records a write was decided for and not made yet
  pc,          \* where the uploader is
  lease,       \* the lease in hand
  batch,       \* the entries that still ride under the lease
  todo,        \* the entries the current file loop has not reached
  moving,      \* the entries a quarantine is moving
  why,         \* the cause that quarantine records
  reply,       \* the service's answer to the attempt in flight
  \* The service and the network.
  wire,        \* attempts on their way
  stored,      \* what the service stored under each id
  refused,     \* ids the service will never accept
  \* The one user command that runs beside the uploader.
  cmd,
  \* History.
  captured,    \* every record that reached the spool
  offered,     \* every record ever sent under an id
  minted,      \* every id ever minted
  deleted,     \* records a user's decision removed from this machine
  overlapped,  \* records a quarantine moved while a command worked on its directory
  torn,        \* whether a pending record ever stopped parsing
  cut,         \* records a requeue had copied back and not yet removed when it died
  deniedSince, \* projects denied since before the batch in hand was taken up
  purged       \* records a finished forget or disable covered

machine == <<spool, pending, rejected, withdrawn>>
memory  == <<pc, lease, batch, todo, moving, why, reply>>
service == <<wire, stored, refused>>
history == <<captured, offered, minted, deleted, overlapped, torn, cut,
             deniedSince, purged>>
vars    == <<machine, deciding, memory, service, cmd, history>>

-----------------------------------------------------------------------------
(* Values. *)

Bad == Unparsable \cup Unmaskable

Causes == {"none", "service_refused", "unreadable"}

\* The persisted pair; "torn" is a file whose bytes do not parse.
Pendings == [state : {"none", "pinned", "torn"},
             id    : BatchIds \cup {NoBatch},
             recs  : SUBSET Records]
NoPending == [state |-> "none", id |-> NoBatch, recs |-> {}]

Leases  == [id : BatchIds \cup {NoBatch}, recs : SUBSET Records]
NoLease == [id |-> NoBatch, recs |-> {}]

\* One quarantined batch: whether its directory exists, the record files
\* in it, and what reason.json says ("none" while there is no such file).
Directories == [exists : BOOLEAN, recs : SUBSET Records, cause : Causes]
NoDirectory == [exists |-> FALSE, recs |-> {}, cause |-> "none"]

Attempts == [id : BatchIds, recs : SUBSET Records]

\* A command: requeue works on one directory, forget and disable sweep the
\* spool and then visit every directory of the store.
Cmds == [op    : {"none", "requeue", "forget", "disable", "purge_rejected"},
         dir   : BatchIds \cup {NoBatch},
         todo  : SUBSET Records,
         hold  : SUBSET Records,
         stuck : BOOLEAN,
         group : SUBSET Records,
         scope : SUBSET Records,
         left  : SUBSET BatchIds]
NoCmd == [op |-> "none", dir |-> NoBatch, todo |-> {}, hold |-> {},
          stuck |-> FALSE, group |-> {}, scope |-> {}, left |-> {}]

\* Bytes that do not parse name neither a project nor a session.
Attributed == Records \ Unparsable

Quarantined == UNION {rejected[b].recs : b \in BatchIds}
Stored      == UNION {stored[b] : b \in BatchIds}

\* The uploader is moving records into the directory of batch b.
MovingInto(b) == pc \in {"copy", "remove"} /\ lease.id = b

Init ==
  /\ spool = {} /\ pending = NoPending
  /\ rejected = [b \in BatchIds |-> NoDirectory]
  /\ withdrawn = {} /\ deciding = {}
  /\ pc = "idle" /\ lease = NoLease /\ batch = {} /\ todo = {}
  /\ moving = {} /\ why = "none" /\ reply = "none"
  /\ wire = {} /\ stored = [b \in BatchIds |-> {}] /\ refused = {}
  /\ cmd = NoCmd
  /\ captured = {} /\ offered = [b \in BatchIds |-> {}] /\ minted = {}
  /\ deleted = {} /\ overlapped = {} /\ torn = FALSE /\ cut = {}
  /\ deniedSince = {} /\ purged = {}

-----------------------------------------------------------------------------
(* The recorder. *)

\* A write re-reads consent and is then on its way to the spool; nothing
\* orders it against a withdrawal that follows the reading.
Decide(r) ==
  /\ r \notin captured \cup deciding
  /\ ProjectOf[r] \notin withdrawn
  /\ deciding' = deciding \cup {r}
  /\ UNCHANGED <<machine, memory, service, cmd, history>>

\* The write itself: one record file, present or absent.
Store(r) ==
  /\ r \in deciding
  /\ deciding' = deciding \ {r}
  /\ spool' = spool \cup {r}
  /\ captured' = captured \cup {r}
  /\ UNCHANGED <<pending, rejected, withdrawn, memory, service, cmd, offered,
                 minted, deleted, overlapped, torn, cut, deniedSince, purged>>

-----------------------------------------------------------------------------
(* Taking up a batch: the pending one first, otherwise a fresh lease. *)

TakeUp(id, recs, entries) ==
  /\ lease' = [id |-> id, recs |-> recs]
  /\ batch' = entries
  /\ pc' = "check"
  /\ deniedSince' = withdrawn
  /\ UNCHANGED <<todo, moving, why, reply>>

\* The persisted pair is offered again, with whatever of it is left.
Resume ==
  /\ pc = "idle" /\ pending.state = "pinned"
  /\ pending.recs \cap spool # {}
  /\ TakeUp(pending.id, pending.recs, pending.recs \cap spool)
  /\ UNCHANGED <<machine, deciding, service, cmd, captured, offered, minted,
                 deleted, overlapped, torn, cut, purged>>

\* No record of the pending batch is left: the lease is released.
ReleaseEmpty ==
  /\ pc = "idle" /\ pending.state = "pinned"
  /\ pending.recs \cap spool = {}
  /\ pending' = NoPending
  /\ UNCHANGED <<spool, rejected, withdrawn, deciding, memory, service, cmd,
                 history>>

\* An unreadable pending record is set aside and its id forgotten.
DiscardUnreadablePending ==
  /\ pc = "idle" /\ pending.state = "torn"
  /\ pending' = NoPending
  /\ UNCHANGED <<spool, rejected, withdrawn, deciding, memory, service, cmd,
                 history>>

\* A fresh id is persisted with the entries collected, before any is sent.
OpenLease(b, entries) ==
  /\ pc = "idle" /\ pending.state = "none"
  /\ entries # {} /\ entries \subseteq spool
  /\ b \notin minted
  /\ minted' = minted \cup {b}
  /\ pending' = [state |-> "pinned", id |-> b, recs |-> entries]
  /\ TakeUp(b, entries, entries)
  /\ UNCHANGED <<spool, rejected, withdrawn, deciding, service, cmd, captured,
                 offered, deleted, overlapped, torn, cut, purged>>

-----------------------------------------------------------------------------
(* Sending: the consent store is asked, the build refuses what no batch    *)
(* can carry, and what is left is offered.                                 *)

\* Mutant of DropWithdrawn: the consent store is not asked.
DropWithdrawn_NotAsked ==
  /\ pc = "check" /\ pc' = "build" /\ todo' = {}
  /\ UNCHANGED <<machine, deciding, lease, batch, moving, why, reply, service,
                 cmd, history>>

DropWithdrawn ==
  LET gone == {r \in batch \cap Attributed : ProjectOf[r] \in withdrawn} IN
  /\ pc = "check"
  /\ batch' = batch \ gone
  /\ todo' = gone
  /\ pc' = IF gone = {} THEN "build" ELSE "drop"
  /\ deleted' = deleted \cup gone
  /\ UNCHANGED <<machine, deciding, lease, moving, why, reply, service, cmd,
                 captured, offered, minted, overlapped, torn, cut,
                 deniedSince, purged>>

\* One file of a spool deletion.  A file another process removed first is
\* not an error.
DeleteFile(loop, r) ==
  /\ pc = loop /\ r \in todo
  /\ todo' = todo \ {r}
  /\ spool' = spool \ {r}
  /\ UNCHANGED <<pending, rejected, withdrawn, deciding, pc, lease, batch,
                 moving, why, reply, service, cmd, history>>

DropDone ==
  /\ pc = "drop" /\ todo = {}
  /\ pc' = IF batch = {} THEN "clear" ELSE "build"
  /\ UNCHANGED <<machine, deciding, lease, batch, todo, moving, why, reply,
                 service, cmd, history>>

\* A quarantine makes the batch's directory and starts copying.
StartMove(recs, cause) ==
  /\ pc' = "copy" /\ moving' = recs /\ todo' = recs /\ why' = cause
  /\ rejected' = [rejected EXCEPT ![lease.id].exists = TRUE]
  /\ overlapped' = IF cmd.dir = lease.id THEN overlapped \cup recs ELSE overlapped
  /\ UNCHANGED <<spool, pending, withdrawn, deciding, lease, batch, reply,
                 service, cmd, captured, offered, minted, deleted, torn, cut,
                 deniedSince, purged>>

\* Mutant of Build: a record whose last line is cut is packed.
Build_PacksUnmaskable ==
  /\ pc = "build"
  /\ \/ /\ batch \cap Unparsable # {}
        /\ StartMove(batch \cap Unparsable, "unreadable")
     \/ /\ batch \cap Unparsable = {}
        /\ pc' = "offer"
        /\ UNCHANGED <<machine, deciding, lease, batch, todo, moving, why,
                       reply, service, cmd, history>>

Build ==
  /\ pc = "build"
  /\ \/ /\ batch \cap Bad # {}
        /\ StartMove(batch \cap Bad, "unreadable")
     \/ /\ batch \cap Bad = {}
        /\ pc' = "offer"
        /\ UNCHANGED <<machine, deciding, lease, batch, todo, moving, why,
                       reply, service, cmd, history>>

\* One record's copy lands.  A directory that is gone fails the write.
CopyRecord(r) ==
  /\ pc = "copy" /\ r \in todo
  /\ rejected[lease.id].exists
  /\ todo' = todo \ {r}
  /\ rejected' = [rejected EXCEPT ![lease.id].recs = @ \cup {r}]
  /\ UNCHANGED <<spool, pending, withdrawn, deciding, pc, lease, batch, moving,
                 why, reply, service, cmd, history>>

\* The reason file lands after every copy, and only then does the spool
\* delete.
WriteReason ==
  /\ pc = "copy" /\ todo = {}
  /\ rejected[lease.id].exists
  /\ rejected' = [rejected EXCEPT ![lease.id].cause = why]
  /\ pc' = "remove" /\ todo' = moving
  /\ UNCHANGED <<spool, pending, withdrawn, deciding, lease, batch, moving, why,
                 reply, service, cmd, history>>

MoveDone ==
  /\ pc = "remove" /\ todo = {}
  /\ batch' = batch \ moving
  /\ pc' = IF batch \ moving = {} THEN "clear" ELSE "offer"
  /\ moving' = {} /\ why' = "none"
  /\ UNCHANGED <<machine, deciding, lease, todo, reply, service, cmd, history>>

Offer ==
  /\ pc = "offer"
  /\ wire' = wire \cup {[id |-> lease.id, recs |-> batch]}
  /\ offered' = [offered EXCEPT ![lease.id] = @ \cup batch]
  /\ reply' = "none"
  /\ pc' = "wait"
  /\ UNCHANGED <<machine, deciding, lease, batch, todo, moving, why, stored,
                 refused, cmd, captured, minted, deleted, overlapped, torn,
                 cut, deniedSince, purged>>

-----------------------------------------------------------------------------
(* The service and the network.                                            *)

Answer(m, a) ==
  reply' = IF pc = "wait" /\ lease.id = m.id /\ batch = m.recs THEN a ELSE reply

\* An id stored once is acknowledged again and not stored again; an id
\* refused once is refused for good.  An attempt may be handled long
\* after the client gave it up.
Deliver(m) ==
  /\ m \in wire
  /\ wire' = wire \ {m}
  /\ \/ /\ m.id \notin refused
        /\ stored' = IF stored[m.id] = {} THEN [stored EXCEPT ![m.id] = m.recs]
                                          ELSE stored
        /\ Answer(m, "ack")
        /\ UNCHANGED refused
     \/ /\ stored[m.id] = {}
        /\ refused' = refused \cup {m.id}
        /\ Answer(m, "refused")
        /\ UNCHANGED stored
  /\ UNCHANGED <<machine, deciding, pc, lease, batch, todo, moving, why, cmd,
                 history>>

\* The request never arrives, or the service fails it without storing it.
Lose(m) ==
  /\ m \in wire
  /\ wire' = wire \ {m}
  /\ UNCHANGED <<machine, deciding, memory, stored, refused, cmd, history>>

-----------------------------------------------------------------------------
(* Settling an answer. *)

Acknowledged ==
  /\ pc = "wait" /\ reply = "ack"
  /\ pc' = "settle" /\ todo' = batch
  /\ UNCHANGED <<machine, deciding, lease, batch, moving, why, reply, service,
                 cmd, history>>

SettleDone ==
  /\ pc = "settle" /\ todo = {}
  /\ pc' = "clear"
  /\ UNCHANGED <<machine, deciding, lease, batch, todo, moving, why, reply,
                 service, cmd, history>>

\* Mutant of Rejected: a refusal is retried like an outage.
Rejected_Retries ==
  /\ pc = "wait" /\ reply = "refused"
  /\ pc' = "offer" /\ reply' = "none"
  /\ UNCHANGED <<machine, deciding, lease, batch, todo, moving, why, service,
                 cmd, history>>

Rejected ==
  /\ pc = "wait" /\ reply = "refused"
  /\ StartMove(batch, "service_refused")

Forgotten == \* what a flush that ended leaves in memory
  /\ pc' = "idle" /\ lease' = NoLease /\ batch' = {} /\ todo' = {}
  /\ moving' = {} /\ why' = "none" /\ reply' = "none"

\* Every ending transition drops the persisted pair as one.
Clear ==
  /\ pc = "clear"
  /\ pending' = NoPending
  /\ Forgotten
  /\ UNCHANGED <<spool, rejected, withdrawn, deciding, service, cmd, history>>

\* Mutant of Abort: a failed attempt gives its batch id up.
Abort_ReleasesId ==
  /\ pc # "idle"
  /\ pending' = NoPending
  /\ Forgotten
  /\ UNCHANGED <<spool, rejected, withdrawn, deciding, service, cmd, history>>

\* A crash, a disk error, a spent budget, a cut off attempt, a timeout, or
\* an answer that settles nothing: disk stays as it is, the lease stands.
Abort ==
  /\ pc # "idle"
  /\ Forgotten
  /\ UNCHANGED <<machine, deciding, service, cmd, history>>

\* The bytes of pending.json stop parsing, once in a behaviour.
Tear ==
  /\ MayTear /\ ~torn /\ pending.state = "pinned"
  /\ pending' = [pending EXCEPT !.state = "torn"]
  /\ torn' = TRUE
  /\ UNCHANGED <<spool, rejected, withdrawn, deciding, memory, service, cmd,
                 captured, offered, minted, deleted, overlapped, cut,
                 deniedSince, purged>>

-----------------------------------------------------------------------------
(* The user's commands, each a process of its own. *)

\* What a command that starts to work on a directory overlaps.
Overlaps(b) == IF MovingInto(b) THEN moving ELSE {}

StartRequeue(b) ==
  /\ "requeue" \in Commands /\ cmd.op = "none"
  /\ rejected[b].exists /\ rejected[b].cause # "unreadable"
  /\ cmd' = [NoCmd EXCEPT !.op = "requeue", !.dir = b, !.todo = rejected[b].recs]
  /\ overlapped' = overlapped \cup Overlaps(b)
  /\ UNCHANGED <<machine, deciding, memory, service, captured, offered, minted,
                 deleted, torn, cut, deniedSince, purged>>

\* One record goes back to the spool.  A file that vanished, or that
\* parses as no record kind, is reported and stays.
Respool(r) ==
  /\ cmd.op = "requeue" /\ cmd.hold = {} /\ r \in cmd.todo
  /\ \/ /\ r \in rejected[cmd.dir].recs \ Unparsable
        /\ spool' = spool \cup {r}
        /\ cmd' = [cmd EXCEPT !.todo = @ \ {r}, !.hold = {r}]
     \/ /\ r \notin rejected[cmd.dir].recs \ Unparsable
        /\ cmd' = [cmd EXCEPT !.todo = @ \ {r}, !.stuck = TRUE]
        /\ UNCHANGED spool
  /\ UNCHANGED <<pending, rejected, withdrawn, deciding, memory, service,
                 history>>

\* Mutant of RemoveCopy: the directory is removed with the first record.
RemoveCopy_Whole ==
  /\ cmd.op = "requeue" /\ cmd.hold # {}
  /\ rejected' = [rejected EXCEPT ![cmd.dir] = NoDirectory]
  /\ cmd' = [cmd EXCEPT !.hold = {}]
  /\ UNCHANGED <<spool, pending, withdrawn, deciding, memory, service, history>>

RemoveCopy ==
  /\ cmd.op = "requeue" /\ cmd.hold # {}
  /\ rejected' = [rejected EXCEPT ![cmd.dir].recs = @ \ cmd.hold]
  /\ cmd' = [cmd EXCEPT !.hold = {}]
  /\ UNCHANGED <<spool, pending, withdrawn, deciding, memory, service, history>>

\* With nothing stuck the directory goes whole, whatever is in it by now.
RequeueDone ==
  /\ cmd.op = "requeue" /\ cmd.hold = {} /\ cmd.todo = {}
  /\ rejected' = IF cmd.stuck THEN rejected
                 ELSE [rejected EXCEPT ![cmd.dir] = NoDirectory]
  /\ cmd' = NoCmd
  /\ UNCHANGED <<spool, pending, withdrawn, deciding, memory, service, history>>

Discard(b) ==
  /\ "discard" \in Commands /\ cmd.op = "none"
  /\ rejected[b].exists
  /\ rejected' = [rejected EXCEPT ![b] = NoDirectory]
  /\ deleted' = deleted \cup rejected[b].recs
  /\ UNCHANGED <<spool, pending, withdrawn, deciding, memory, service, cmd,
                 captured, offered, minted, overlapped, torn, cut,
                 deniedSince, purged>>

StartPurge(op, group) ==
  /\ op \in Commands /\ cmd.op = "none"
  /\ cmd' = [NoCmd EXCEPT !.op = op, !.todo = group, !.group = group,
                          !.scope = group \cap captured]

StartForget(s) ==
  /\ StartPurge("forget", {r \in Attributed : SessionOf[r] = s})
  /\ UNCHANGED <<machine, deciding, memory, service, history>>

\* Disable records the denial before it deletes anything.
StartDisable(p) ==
  /\ StartPurge("disable", {r \in Attributed : ProjectOf[r] = p})
  /\ withdrawn' = withdrawn \cup {p}
  /\ UNCHANGED <<spool, pending, rejected, deciding, memory, service, history>>

Enable(p) ==
  /\ cmd.op = "none" /\ p \in withdrawn
  /\ withdrawn' = withdrawn \ {p}
  /\ deniedSince' = deniedSince \ {p}
  /\ UNCHANGED <<spool, pending, rejected, deciding, memory, service, cmd,
                 captured, offered, minted, deleted, overlapped, torn, cut,
                 purged>>

\* The sweep of the spool reaches one record of the group.  A record
\* written behind the sweep stays.
PurgeSpool(r) ==
  /\ cmd.op \in {"forget", "disable"} /\ r \in cmd.todo
  /\ cmd' = [cmd EXCEPT !.todo = @ \ {r}]
  /\ spool' = spool \ {r}
  /\ deleted' = deleted \cup ({r} \cap spool)
  /\ UNCHANGED <<pending, rejected, withdrawn, deciding, memory, service,
                 captured, offered, minted, overlapped, torn, cut,
                 deniedSince, purged>>

\* A disable whose sweep fails still visits the rejected store, and then
\* reports the failure; a forget ends there (CmdDies).
SweepFails ==
  /\ cmd.op = "disable"
  /\ cmd' = [cmd EXCEPT !.todo = {}, !.scope = {}]
  /\ UNCHANGED <<machine, deciding, memory, service, history>>

PurgeList ==
  /\ cmd.op \in {"forget", "disable"} /\ cmd.todo = {}
  /\ cmd' = [cmd EXCEPT !.op = "purge_rejected",
                        !.left = {b \in BatchIds : rejected[b].exists}]
  /\ UNCHANGED <<machine, deciding, memory, service, history>>

\* Mutant of PurgeDir: a directory is removed though other records stay in it.
PurgeDir_RemovesAll(b) ==
  /\ cmd.op = "purge_rejected" /\ cmd.dir = NoBatch /\ b \in cmd.left
  /\ rejected' = [rejected EXCEPT ![b].recs = @ \ cmd.group]
  /\ cmd' = [cmd EXCEPT !.left = @ \ {b}, !.dir = b]
  /\ deleted' = deleted \cup (rejected[b].recs \cap cmd.group)
  /\ overlapped' = overlapped \cup Overlaps(b)
  /\ UNCHANGED <<spool, pending, withdrawn, deciding, memory, service, captured,
                 offered, minted, torn, cut, deniedSince, purged>>

\* One directory is listed and the group's files in it are deleted.  If
\* the listing held no other record the directory is removed next.
PurgeDir(b) ==
  /\ cmd.op = "purge_rejected" /\ cmd.dir = NoBatch /\ b \in cmd.left
  /\ rejected' = [rejected EXCEPT ![b].recs = @ \ cmd.group]
  /\ cmd' = [cmd EXCEPT !.left = @ \ {b},
               !.dir = IF rejected[b].recs \subseteq cmd.group THEN b ELSE NoBatch]
  /\ deleted' = deleted \cup (rejected[b].recs \cap cmd.group)
  /\ overlapped' = overlapped \cup Overlaps(b)
  /\ UNCHANGED <<spool, pending, withdrawn, deciding, memory, service, captured,
                 offered, minted, torn, cut, deniedSince, purged>>

PurgeRemoveDir ==
  /\ cmd.op = "purge_rejected" /\ cmd.dir # NoBatch
  /\ rejected' = [rejected EXCEPT ![cmd.dir] = NoDirectory]
  /\ cmd' = [cmd EXCEPT !.dir = NoBatch]
  /\ UNCHANGED <<spool, pending, withdrawn, deciding, memory, service, history>>

PurgeDone ==
  /\ cmd.op = "purge_rejected" /\ cmd.dir = NoBatch /\ cmd.left = {}
  /\ cmd' = NoCmd
  /\ purged' = purged \cup cmd.scope
  /\ UNCHANGED <<machine, deciding, memory, service, captured, offered, minted,
                 deleted, overlapped, torn, cut, deniedSince>>

\* The command's process is killed, or one of its file operations fails.
CmdDies ==
  /\ cmd.op # "none"
  /\ cmd' = NoCmd
  /\ cut' = cut \cup cmd.hold
  /\ UNCHANGED <<machine, deciding, memory, service, captured, offered, minted,
                 deleted, overlapped, torn, deniedSince, purged>>

-----------------------------------------------------------------------------
Recorder == \E r \in Records : Decide(r) \/ Store(r)

Flush ==
  \/ Resume \/ ReleaseEmpty \/ DiscardUnreadablePending
  \/ \E b \in BatchIds, entries \in SUBSET Records : OpenLease(b, entries)
  \/ DropWithdrawn \/ DropDone \/ Build \/ WriteReason \/ MoveDone \/ Offer
  \/ \E r \in Records : CopyRecord(r)
  \/ \E loop \in {"drop", "remove", "settle"}, r \in Records : DeleteFile(loop, r)
  \/ Acknowledged \/ SettleDone \/ Rejected \/ Clear

Network == \E m \in wire : Deliver(m) \/ Lose(m)

Command ==
  \/ \E b \in BatchIds : StartRequeue(b) \/ Discard(b) \/ PurgeDir(b)
  \/ \E r \in Records : Respool(r) \/ PurgeSpool(r)
  \/ \E s \in Sessions : StartForget(s)
  \/ \E p \in Projects : StartDisable(p) \/ Enable(p)
  \/ RemoveCopy \/ RequeueDone \/ SweepFails \/ PurgeList \/ PurgeRemoveDir \/ PurgeDone
  \/ CmdDies

Next == Recorder \/ Flush \/ Network \/ Command \/ Abort \/ Tear

Spec == Init /\ [][Next]_vars
-----------------------------------------------------------------------------
(* Fairness: the flusher's ticker keeps flushing, the recorder's queue      *)
(* drains, an attempt ends by an answer or by its budget, and the service   *)
(* answers what reaches it.  A failure may come at any time and any number  *)
(* of times, but not for ever.                                              *)

\* The attempt is lost and its budget runs out, or the directory a
\* quarantine copies into is gone.
GiveUp ==
  /\ \/ /\ pc = "wait" /\ reply = "none"
        /\ [id |-> lease.id, recs |-> batch] \notin wire
     \/ pc = "copy" /\ ~rejected[lease.id].exists
  /\ Abort

Failure == (Abort /\ ~GiveUp) \/ CmdDies \/ \E m \in wire : Lose(m)

FairSpec ==
  /\ Spec
  /\ WF_vars(Flush) /\ WF_vars(GiveUp)
  /\ WF_vars(\E r \in Records : Store(r))
  /\ WF_vars(\E m \in wire : Deliver(m))
  /\ <>[][~Failure]_vars
-----------------------------------------------------------------------------
(* What the upload path promises.                                           *)

\* Every variable stays in the set the code keeps it in; a batch id is known
\* exactly while a pending record, or a lease in hand, carries it.
TypeOK ==
  /\ spool \subseteq Records /\ pending \in Pendings
  /\ pending.state = "none" <=> pending.id = NoBatch
  /\ pc = "idle" <=> lease.id = NoBatch
  /\ rejected \in [BatchIds -> Directories] /\ withdrawn \subseteq Projects
  /\ deciding \subseteq Records
  /\ pc \in {"idle", "check", "drop", "build", "copy", "remove", "offer",
             "wait", "settle", "clear"}
  /\ lease \in Leases /\ batch \subseteq Records /\ todo \subseteq Records
  /\ moving \subseteq Records /\ why \in Causes
  /\ reply \in {"none", "ack", "refused"}
  /\ wire \subseteq Attempts /\ stored \in [BatchIds -> SUBSET Records]
  /\ refused \subseteq BatchIds /\ cmd \in Cmds
  /\ captured \subseteq Records /\ offered \in [BatchIds -> SUBSET Records]
  /\ minted \subseteq BatchIds /\ deleted \subseteq Records
  /\ overlapped \subseteq Records /\ torn \in BOOLEAN /\ cut \subseteq Records
  /\ deniedSince \subseteq Projects /\ purged \subseteq Records

\* A captured record is in the spool, quarantined, or stored by the service,
\* unless the user had it deleted.  The one exception is a record whose
\* quarantine ran while a command worked on the same batch directory.
NothingLost ==
  captured \subseteq spool \cup Quarantined \cup Stored \cup deleted \cup overlapped

\* The service stores a record under one batch id at most, whatever
\* attempts and acknowledgements are lost or late.  The exceptions are the
\* two the code names or accepts: a pending record that stopped parsing, and
\* a requeue that died between copying a record back and removing it.
AtMostOnce ==
  torn \/ \A b, c \in BatchIds : b # c => stored[b] \cap stored[c] \subseteq cut

\* A record still in the spool that was ever sent under an id the service
\* has not refused is pinned to that id by the pending record, so no fresh
\* batch can take it up.
SentIsPinned ==
  torn \/ \A b \in BatchIds \ refused :
    \A r \in (offered[b] \cap spool) \ cut :
      pending.state = "pinned" /\ pending.id = b /\ r \in pending.recs

\* An acknowledgement is applied only to records the service stored under
\* that id, although the attempt it stored may be an earlier one that
\* carried other records than the attempt that was acknowledged.
AckCovers ==
  pc = "settle" => batch \subseteq stored[lease.id] \cup deleted

\* A batch that was taken up after a project's consent was denied, and that
\* reached the network with the denial still standing, carries none of the
\* project's records, also when a late recorder wrote them behind the purge.
WithdrawnHeldBack ==
  pc = "wait" => \A r \in batch : ProjectOf[r] \notin deniedSince

\* No batch carries a record that does not parse or cannot be masked.
OnlyMaskedLeaves == \A b \in BatchIds : offered[b] \cap Bad = {}

\* Every record that reaches the spool leaves it: the service has it, or it
\* waits for the user in the rejected store, or the user had it deleted.
\* One batch that cannot be sent never stalls the ones behind it.
Drains ==
  \A r \in Records :
    (r \in spool) ~>
      (r \notin spool /\ r \in Stored \cup Quarantined \cup deleted \cup overlapped)

\* The path keeps the promise Delivery states: a record is owed while it is
\* in the spool or quarantined and the user has not had it deleted.  A record
\* a command overlapped is outside the promise.
Promise == INSTANCE Delivery WITH
  owed   <- (spool \cup Quarantined) \ (deleted \cup overlapped),
  copies <- [r \in Records |-> Cardinality({b \in BatchIds : r \in stored[b]})],
  waived <- deleted \cup overlapped

KeepsPromise == Promise!Spec

-----------------------------------------------------------------------------
(* What a comment of the code states and the code does not keep.            *)

\* "a failure anywhere leaves every record present in at least one of the
\* two places", for a quarantine that a requeue of the same batch overlaps.
NeverInNeitherPlace ==
  captured \subseteq spool \cup Quarantined \cup Stored \cup deleted

\* "they can never re-enter a spool": records this machine set aside, and
\* whose quarantine no command overlapped.
SetAsideNeverReturns ==
  [][\A r \in (Bad \cap captured) \ overlapped : r \in spool' => r \in spool]_vars

\* A finished forget or disable leaves none of the records it covered on
\* this machine.
PurgedStaysGone == purged \cap (spool \cup Quarantined) = {}
=============================================================================
