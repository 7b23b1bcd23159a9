--------------------------- MODULE UploaderProofs ---------------------------
(***************************************************************************)
(* Theorems about Uploader, for every set of records, batch ids, projects  *)
(* and sessions, and every choice of user commands.                        *)
(***************************************************************************)
EXTENDS UploaderInvariant, FiniteSetTheorems, TLAPS

-----------------------------------------------------------------------------
(* Records of the model, updated one field at a time.                       *)

LEMMA Empty ==
  /\ NoPending \in Pendings /\ NoLease \in Leases
  /\ NoDirectory \in Directories /\ NoCmd \in Cmds
  BY DEF Pendings, NoPending, Leases, NoLease, Directories, NoDirectory, Causes,
         Cmds, NoCmd

\* Making or unmaking a directory leaves directories.
LEMMA SetExists ==
  ASSUME NEW store \in [BatchIds -> Directories], NEW b, NEW v \in BOOLEAN
  PROVE  [store EXCEPT ![b].exists = v] \in [BatchIds -> Directories]
  BY DEF Directories

\* So does changing its records,
LEMMA SetRecs ==
  ASSUME NEW store \in [BatchIds -> Directories], NEW b, NEW v \in SUBSET Records
  PROVE  [store EXCEPT ![b].recs = v] \in [BatchIds -> Directories]
  BY DEF Directories

\* its cause,
LEMMA SetCause ==
  ASSUME NEW store \in [BatchIds -> Directories], NEW b, NEW v \in Causes
  PROVE  [store EXCEPT ![b].cause = v] \in [BatchIds -> Directories]
  BY DEF Directories, Causes

\* and removing it.
LEMMA RemoveDirectory ==
  ASSUME NEW store \in [BatchIds -> Directories], NEW b
  PROVE  [store EXCEPT ![b] = NoDirectory] \in [BatchIds -> Directories]
  BY Empty

\* A pending record that tears is a pending record.
LEMMA SetTorn ==
  ASSUME NEW p \in Pendings
  PROVE  [p EXCEPT !.state = "torn"] \in Pendings
  BY DEF Pendings

-----------------------------------------------------------------------------
(* Type correctness.                                                        *)

LEMMA Init_TypeOK == Init => TypeOK
<1> SUFFICES ASSUME Init PROVE TypeOK
  OBVIOUS
<1>1. rejected \in [BatchIds -> Directories]
  BY Empty DEF Init
<1> QED
  BY <1>1, Empty DEF Init, TypeOK, Causes, NoPending, NoLease

\* Each step of a flush keeps the variables well typed.
LEMMA Flush_TypeOK == TypeOK /\ Flush => TypeOK'
<1> SUFFICES ASSUME TypeOK, Flush PROVE TypeOK'
  OBVIOUS
<1> USE NoBatchAssumption DEF TypeOK, machine, memory, service, history
<1>1. CASE Resume
  <2>1. pending.id \in BatchIds /\ pending.recs \subseteq Records
    BY <1>1 DEF Resume, Pendings
  <2>2. [id |-> pending.id, recs |-> pending.recs] \in Leases
    BY <2>1 DEF Leases
  <2> QED
    BY <1>1, <2>1, <2>2 DEF Resume, TakeUp
<1>2. CASE ReleaseEmpty
  BY <1>2, Empty DEF ReleaseEmpty, NoPending
<1>3. CASE DiscardUnreadablePending
  BY <1>3, Empty DEF DiscardUnreadablePending, NoPending
<1>4. ASSUME NEW b \in BatchIds, NEW entries \in SUBSET Records, OpenLease(b, entries)
      PROVE  TypeOK'
  <2>1. [id |-> b, recs |-> entries] \in Leases
    BY DEF Leases
  <2>2. [state |-> "pinned", id |-> b, recs |-> entries] \in Pendings
    BY DEF Pendings
  <2> QED
    BY <1>4, <2>1, <2>2 DEF OpenLease, TakeUp
<1>5. CASE DropWithdrawn
  BY <1>5 DEF DropWithdrawn
<1>6. CASE DropDone
  BY <1>6 DEF DropDone
<1>7. ASSUME NEW recs \in SUBSET batch, NEW cause \in Causes, StartMove(recs, cause)
      PROVE  TypeOK'
  <2>1. rejected' \in [BatchIds -> Directories]
    BY <1>7, SetExists DEF StartMove
  <2> QED
    BY <1>7, <2>1 DEF StartMove
<1>8. CASE Build
  BY <1>7, <1>8 DEF Build, Causes
<1>9. ASSUME NEW r \in Records, CopyRecord(r) PROVE TypeOK'
  <2>1. lease.id \in BatchIds \cup {NoBatch}
    BY DEF Leases
  <2>2. lease.id \in BatchIds => rejected[lease.id].recs \cup {r} \in SUBSET Records
    BY DEF Directories
  <2>3. lease.id \in BatchIds => rejected' \in [BatchIds -> Directories]
    BY <1>9, <2>2, SetRecs DEF CopyRecord
  <2>4. lease.id \notin BatchIds => rejected' = rejected
    BY <1>9 DEF CopyRecord
  <2> QED
    BY <1>9, <2>3, <2>4 DEF CopyRecord
<1>10. CASE WriteReason
  <2>1. rejected' \in [BatchIds -> Directories]
    BY <1>10, SetCause DEF WriteReason
  <2> QED
    BY <1>10, <2>1 DEF WriteReason
<1>11. CASE MoveDone
  BY <1>11 DEF MoveDone, Causes
<1>12. CASE Offer
  <2>1. lease.id \in BatchIds
    BY <1>12 DEF Offer, Leases
  <2>2. [id |-> lease.id, recs |-> batch] \in Attempts
    BY <2>1 DEF Attempts
  <2>3. offered' \in [BatchIds -> SUBSET Records]
    BY <1>12, <2>1 DEF Offer
  <2> QED
    BY <1>12, <2>2, <2>3 DEF Offer
<1>13. ASSUME NEW loop \in {"drop", "remove", "settle"}, NEW r \in Records,
              DeleteFile(loop, r)
       PROVE  TypeOK'
  BY <1>13 DEF DeleteFile
<1>14. CASE Acknowledged
  BY <1>14 DEF Acknowledged
<1>15. CASE SettleDone
  BY <1>15 DEF SettleDone
<1>16. CASE Rejected
  BY <1>7, <1>16 DEF Rejected, Causes
<1>17. CASE Clear
  BY <1>17, Empty DEF Clear, Forgotten, Causes, NoPending, NoLease
<1> HIDE DEF TypeOK, machine, memory, service, history
<1> QED
  BY <1>1, <1>2, <1>3, <1>4, <1>5, <1>6, <1>8, <1>9, <1>10, <1>11, <1>12,
     <1>13, <1>14, <1>15, <1>16, <1>17 DEF Flush

\* So does the recorder.
LEMMA Recorder_TypeOK == TypeOK /\ Recorder => TypeOK'
<1> SUFFICES ASSUME TypeOK, NEW r \in Records, Decide(r) \/ Store(r) PROVE TypeOK'
  BY DEF Recorder
<1> USE DEF TypeOK, machine, memory, service, history
<1>1. CASE Decide(r)
  BY <1>1 DEF Decide
<1>2. CASE Store(r)
  BY <1>2 DEF Store
<1> QED
  BY <1>1, <1>2

\* So do the network and the service.
LEMMA Network_TypeOK == TypeOK /\ Network => TypeOK'
<1> SUFFICES ASSUME TypeOK, NEW m \in wire, Deliver(m) \/ Lose(m) PROVE TypeOK'
  BY DEF Network
<1> USE DEF TypeOK, machine, memory, service, history
<1>1. CASE Deliver(m)
  <2>1. m.id \in BatchIds /\ m.recs \in SUBSET Records
    BY DEF Attempts
  <2>2. stored' \in [BatchIds -> SUBSET Records]
    BY <1>1, <2>1 DEF Deliver
  <2> QED
    BY <1>1, <2>1, <2>2 DEF Deliver, Answer
<1>2. CASE Lose(m)
  BY <1>2 DEF Lose
<1> QED
  BY <1>1, <1>2

\* A command in the making keeps the fields it does not set.
LEMMA NewRequeue ==
  ASSUME NEW b \in BatchIds, NEW recs \in SUBSET Records
  PROVE  [NoCmd EXCEPT !.op = "requeue", !.dir = b, !.todo = recs] \in Cmds
  BY DEF NoCmd, Cmds

\* A forget or a disable begins as a command.
LEMMA NewPurge ==
  ASSUME NEW op \in {"forget", "disable"},
         NEW group \in SUBSET Records, NEW scope \in SUBSET Records
  PROVE  [NoCmd EXCEPT !.op = op, !.todo = group, !.group = group,
                       !.scope = scope] \in Cmds
  BY DEF NoCmd, Cmds

\* The fields of a command.
LEMMA CmdFields ==
  ASSUME NEW c \in Cmds
  PROVE  /\ c.dir \in BatchIds \cup {NoBatch} /\ c.stuck \in BOOLEAN
         /\ c.todo \subseteq Records /\ c.hold \subseteq Records
         /\ c.group \subseteq Records /\ c.scope \subseteq Records
         /\ c.left \subseteq BatchIds
  BY DEF Cmds

\* A command that goes on to the next record is a command.
LEMMA CmdRespools ==
  ASSUME NEW c \in Cmds, NEW r \in Records
  PROVE  /\ [c EXCEPT !.todo = @ \ {r}, !.hold = {r}] \in Cmds
         /\ [c EXCEPT !.todo = @ \ {r}, !.stuck = TRUE] \in Cmds
  BY DEF Cmds

\* Each step of a command keeps the variables well typed.
LEMMA Command_TypeOK == TypeOK /\ Command => TypeOK'
<1> SUFFICES ASSUME TypeOK, Command PROVE TypeOK'
  OBVIOUS
<1> USE DEF TypeOK, machine, memory, service, history
<1>1. ASSUME NEW b \in BatchIds, StartRequeue(b) PROVE TypeOK'
  <2>1. rejected[b].recs \in SUBSET Records
    BY DEF Directories
  <2>2. cmd' \in Cmds
    BY <1>1, <2>1, NewRequeue DEF StartRequeue
  <2> QED
    BY <1>1, <2>2 DEF StartRequeue, Overlaps
<1>2. ASSUME NEW b \in BatchIds, Discard(b) PROVE TypeOK'
  <2>1. rejected[b].recs \in SUBSET Records
    BY DEF Directories
  <2>2. rejected' \in [BatchIds -> Directories]
    BY <1>2, RemoveDirectory DEF Discard
  <2> QED
    BY <1>2, <2>1, <2>2 DEF Discard
<1>3. ASSUME NEW b \in BatchIds, PurgeDir(b) PROVE TypeOK'
  <2>1. rejected[b].recs \in SUBSET Records
    BY DEF Directories
  <2>2. rejected' \in [BatchIds -> Directories]
    BY <1>3, <2>1, SetRecs DEF PurgeDir
  <2>3. cmd' \in Cmds
    BY <1>3 DEF PurgeDir, Cmds
  <2> QED
    BY <1>3, <2>1, <2>2, <2>3 DEF PurgeDir, Overlaps
<1>4. ASSUME NEW r \in Records, Respool(r) PROVE TypeOK'
  <2>1. cmd' \in Cmds
    BY <1>4, CmdRespools, ZenonT(30) DEF Respool
  <2> QED
    BY <1>4, <2>1 DEF Respool
<1>5. ASSUME NEW r \in Records, PurgeSpool(r) PROVE TypeOK'
  <2>1. cmd' \in Cmds
    BY <1>5 DEF PurgeSpool, Cmds
  <2> QED
    BY <1>5, <2>1 DEF PurgeSpool
<1>6. ASSUME NEW op \in {"forget", "disable"}, NEW group \in SUBSET Records,
             StartPurge(op, group)
      PROVE  cmd' \in Cmds
  <2>1. group \cap captured \in SUBSET Records
    OBVIOUS
  <2> QED
    BY <1>6, <2>1, NewPurge DEF StartPurge
<1>7. ASSUME NEW s \in Sessions, StartForget(s) PROVE TypeOK'
  <2>1. {r \in Attributed : SessionOf[r] = s} \in SUBSET Records
    BY DEF Attributed
  <2>2. cmd' \in Cmds
    BY <1>6, <1>7, <2>1 DEF StartForget
  <2> QED
    BY <1>7, <2>2 DEF StartForget
<1>8. ASSUME NEW p \in Projects, StartDisable(p) PROVE TypeOK'
  <2>1. {r \in Attributed : ProjectOf[r] = p} \in SUBSET Records
    BY DEF Attributed
  <2>2. cmd' \in Cmds
    BY <1>6, <1>8, <2>1 DEF StartDisable
  <2> QED
    BY <1>8, <2>2 DEF StartDisable
<1>9. ASSUME NEW p \in Projects, Enable(p) PROVE TypeOK'
  BY <1>9 DEF Enable
<1>10. CASE RemoveCopy
  <2>1. cmd.dir \in BatchIds \cup {NoBatch}
    BY CmdFields
  <2>2. cmd.dir \in BatchIds => rejected[cmd.dir].recs \ cmd.hold \in SUBSET Records
    BY DEF Directories
  <2>3. rejected' \in [BatchIds -> Directories]
    BY <1>10, <2>1, <2>2, SetRecs DEF RemoveCopy
  <2>4. cmd' \in Cmds
    BY <1>10 DEF RemoveCopy, Cmds
  <2> QED
    BY <1>10, <2>3, <2>4 DEF RemoveCopy
<1>11. CASE RequeueDone
  <2>1. rejected' \in [BatchIds -> Directories]
    BY <1>11, RemoveDirectory DEF RequeueDone
  <2> QED
    BY <1>11, <2>1, Empty DEF RequeueDone
<1>12. CASE SweepFails
  <2>1. cmd' \in Cmds
    BY <1>12 DEF SweepFails, Cmds
  <2> QED
    BY <1>12, <2>1 DEF SweepFails
<1>13. CASE PurgeList
  <2>1. {b \in BatchIds : rejected[b].exists} \in SUBSET BatchIds
    OBVIOUS
  <2>2. cmd' \in Cmds
    BY <1>13, <2>1 DEF PurgeList, Cmds
  <2> QED
    BY <1>13, <2>2 DEF PurgeList
<1>14. CASE PurgeRemoveDir
  <2>1. rejected' \in [BatchIds -> Directories]
    BY <1>14, RemoveDirectory DEF PurgeRemoveDir
  <2>2. cmd' \in Cmds
    BY <1>14 DEF PurgeRemoveDir, Cmds
  <2> QED
    BY <1>14, <2>1, <2>2 DEF PurgeRemoveDir
<1>15. CASE PurgeDone
  BY <1>15, Empty, CmdFields DEF PurgeDone
<1>16. CASE CmdDies
  BY <1>16, Empty, CmdFields DEF CmdDies
<1> HIDE DEF TypeOK, machine, memory, service, history
<1> QED
  BY <1>1, <1>2, <1>3, <1>4, <1>5, <1>7, <1>8, <1>9, <1>10, <1>11, <1>12,
     <1>13, <1>14, <1>15, <1>16 DEF Command

\* Every step keeps the variables well typed.
LEMMA Next_TypeOK == TypeOK /\ [Next]_vars => TypeOK'
<1> SUFFICES ASSUME TypeOK, [Next]_vars PROVE TypeOK'
  OBVIOUS
<1>1. CASE Abort
  BY <1>1, Empty DEF Abort, Forgotten, TypeOK, machine, service, history, Causes, NoLease
<1>2. CASE Tear
  <2>1. pending' \in Pendings
    BY <1>2, SetTorn DEF Tear, TypeOK
  <2>2. pending'.state = "torn" /\ pending'.id = pending.id /\ pending.state = "pinned"
    BY <1>2 DEF Tear, TypeOK, Pendings
  <2> QED
    BY <1>2, <2>1, <2>2 DEF Tear, TypeOK, memory, service
<1>3. CASE UNCHANGED vars
  BY <1>3 DEF vars, TypeOK, machine, memory, service, history
<1> QED
  BY <1>1, <1>2, <1>3, Flush_TypeOK, Recorder_TypeOK, Network_TypeOK, Command_TypeOK DEF Next

\* The variables of the recorder, the uploader, the service and the commands
\* never leave their types; the pending record names an id exactly while it
\* stands, and so does the lease in the uploader's hands.
THEOREM TypeCorrect == Spec => []TypeOK
<1>1. Init => TypeOK
  BY Init_TypeOK
<1>2. TypeOK /\ [Next]_vars => TypeOK'
  BY Next_TypeOK
<1> QED
  BY <1>1, <1>2, PTL DEF Spec

-----------------------------------------------------------------------------
(* What a step changes.                                                     *)

LEMMA InQuarantine ==
  /\ \A r : r \in Quarantined <=> \E b \in BatchIds : r \in rejected[b].recs
  /\ \A r : r \in Quarantined' <=> \E b \in BatchIds : r \in rejected'[b].recs
  BY DEF Quarantined

\* A record is stored when it is under some id.
LEMMA InStored ==
  /\ \A r : r \in Stored <=> \E b \in BatchIds : r \in stored[b]
  /\ \A r : r \in Stored' <=> \E b \in BatchIds : r \in stored'[b]
  BY DEF Stored

\* The record files of a directory after one field of it, or all, is set.
LEMMA RecsOf ==
  ASSUME NEW store \in [BatchIds -> Directories], NEW b \in BatchIds, NEW v
  PROVE  \A c \in BatchIds :
           /\ [store EXCEPT ![b].exists = v][c].recs = store[c].recs
           /\ [store EXCEPT ![b].cause = v][c].recs = store[c].recs
           /\ [store EXCEPT ![b].recs = v][c].recs = IF c = b THEN v ELSE store[c].recs
           /\ [store EXCEPT ![b] = NoDirectory][c].recs =
                IF c = b THEN {} ELSE store[c].recs
  BY DEF Directories, NoDirectory

\* A command leaves the uploader's memory, the lease, the service and most of
\* the history alone; what it takes out of the spool is deleted, and what it
\* puts there was quarantined.
LEMMA CommandFrame ==
  ASSUME TypeOK, CmdInv, Command
  PROVE  /\ UNCHANGED <<pending, deciding, memory, service, captured, offered,
                        minted, torn>>
         /\ deleted \subseteq deleted' /\ overlapped \subseteq overlapped'
         /\ cut \subseteq cut'
         /\ spool \subseteq spool' \cup deleted'
         /\ spool' \subseteq spool \cup Quarantined
         /\ \A b \in BatchIds : rejected'[b].recs \subseteq rejected[b].recs
<1> USE DEF machine, memory, service, history
<1> DEFINE Frame ==
      /\ UNCHANGED <<pending, deciding, memory, service, captured, offered,
                     minted, torn>>
      /\ deleted \subseteq deleted' /\ overlapped \subseteq overlapped'
      /\ cut \subseteq cut'
      /\ spool \subseteq spool' \cup deleted'
      /\ spool' \subseteq spool \cup Quarantined
      /\ \A b \in BatchIds : rejected'[b].recs \subseteq rejected[b].recs
<1> SUFFICES Frame
  OBVIOUS
<1>0. rejected \in [BatchIds -> Directories] /\ cmd \in Cmds
  BY DEF TypeOK
<1>1. ASSUME NEW b \in BatchIds, StartRequeue(b) PROVE Frame
  BY <1>1 DEF StartRequeue
<1>2. ASSUME NEW b \in BatchIds, Discard(b) PROVE Frame
  BY <1>0, <1>2, RecsOf DEF Discard
<1>3. ASSUME NEW b \in BatchIds, PurgeDir(b) PROVE Frame
  BY <1>0, <1>3, RecsOf DEF PurgeDir
<1>4. ASSUME NEW r \in Records, Respool(r) PROVE Frame
  <2>1. cmd.dir \in BatchIds
    BY <1>0, <1>4, CmdFields DEF Respool, CmdInv
  <2> QED
    BY <1>4, <2>1, InQuarantine DEF Respool
<1>5. ASSUME NEW r \in Records, PurgeSpool(r) PROVE Frame
  BY <1>5 DEF PurgeSpool
<1>6. ASSUME NEW s \in Sessions, StartForget(s) PROVE Frame
  BY <1>6 DEF StartForget
<1>7. ASSUME NEW p \in Projects, StartDisable(p) PROVE Frame
  BY <1>7 DEF StartDisable
<1>8. ASSUME NEW p \in Projects, Enable(p) PROVE Frame
  BY <1>8 DEF Enable
<1>9. CASE RemoveCopy
  BY <1>0, <1>9, RecsOf, CmdFields DEF RemoveCopy
<1>10. CASE RequeueDone
  BY <1>0, <1>10, RecsOf, CmdFields DEF RequeueDone
<1>11. CASE SweepFails
  BY <1>11 DEF SweepFails
<1>12. CASE PurgeList
  BY <1>12 DEF PurgeList
<1>13. CASE PurgeRemoveDir
  BY <1>0, <1>13, RecsOf, CmdFields DEF PurgeRemoveDir
<1>14. CASE PurgeDone
  BY <1>14 DEF PurgeDone
<1>15. CASE CmdDies
  BY <1>15 DEF CmdDies
<1> HIDE DEF Frame
<1> QED
  BY <1>1, <1>2, <1>3, <1>4, <1>5, <1>6, <1>7, <1>8, <1>9, <1>10, <1>11, <1>12,
     <1>13, <1>14, <1>15 DEF Command

-----------------------------------------------------------------------------
(* The uploader, the service and the command by themselves.                 *)

LEMMA Typed ==
  ASSUME TypeOK
  PROVE  /\ pending.id \in BatchIds \cup {NoBatch} /\ pending.recs \subseteq Records
         /\ pending.state \in {"none", "pinned", "torn"}
         /\ Pinned <=> pending.id \in BatchIds
         /\ lease.id \in BatchIds \cup {NoBatch} /\ lease.recs \subseteq Records
         /\ pc # "idle" <=> lease.id \in BatchIds
         /\ rejected \in [BatchIds -> Directories]
         /\ \A b \in BatchIds : rejected[b].recs \subseteq Records
         /\ stored \in [BatchIds -> SUBSET Records]
         /\ offered \in [BatchIds -> SUBSET Records]
         /\ \A m \in wire : m.id \in BatchIds /\ m.recs \subseteq Records
  BY NoBatchAssumption DEF TypeOK, Pinned, Pendings, Leases, Directories, Attempts

\* The core of the invariant holds at the start.
LEMMA Init_Core == Init => Core
  BY Init_TypeOK, NoBatchAssumption
  DEF Init, Core, LeaseInv, PlaceInv, ServiceInv, CmdInv, Pinned, Moving, NoPending,
      NoLease, NoDirectory, NoCmd, Quarantined

\* A flush keeps what its place says of the lease.
LEMMA Flush_Lease == Core /\ TypeOK' /\ Flush => LeaseInv'
<1> SUFFICES ASSUME Core, TypeOK', Flush PROVE LeaseInv'
  OBVIOUS
<1>0. TypeOK /\ LeaseInv
  BY DEF Core
<1> USE Typed, InQuarantine DEF LeaseInv, Pinned, machine, memory, service, history
<1>1. CASE Resume
  BY <1>0, <1>1 DEF Resume, TakeUp
<1>2. CASE ReleaseEmpty
  BY <1>0, <1>2 DEF ReleaseEmpty, NoPending
<1>3. CASE DiscardUnreadablePending
  BY <1>0, <1>3 DEF DiscardUnreadablePending, NoPending
<1>4. ASSUME NEW b \in BatchIds, NEW entries \in SUBSET Records, OpenLease(b, entries)
      PROVE  LeaseInv'
  BY <1>0, <1>4 DEF OpenLease, TakeUp
<1>5. CASE DropWithdrawn
  BY <1>0, <1>5 DEF DropWithdrawn
<1>6. CASE DropDone
  BY <1>0, <1>6 DEF DropDone
<1>7. ASSUME NEW recs, NEW cause, StartMove(recs, cause), pc # "idle" PROVE LeaseInv'
  BY <1>0, <1>7, RecsOf DEF StartMove
<1>8. CASE Build
  BY <1>0, <1>7, <1>8 DEF Build
<1>9. ASSUME NEW r \in Records, CopyRecord(r) PROVE LeaseInv'
  <2>1. r \in captured
    BY <1>0, <1>9 DEF CopyRecord, Core, PlaceInv, Moving
  <2> QED
    BY <1>0, <1>9, <2>1, RecsOf DEF CopyRecord
<1>10. CASE WriteReason
  BY <1>0, <1>10, RecsOf DEF WriteReason
<1>11. CASE MoveDone
  BY <1>0, <1>11 DEF MoveDone
<1>12. CASE Offer
  BY <1>0, <1>12 DEF Offer
<1>13. ASSUME NEW loop \in {"drop", "remove", "settle"}, NEW r \in Records,
              DeleteFile(loop, r)
       PROVE  LeaseInv'
  BY <1>0, <1>13 DEF DeleteFile
<1>14. CASE Acknowledged
  BY <1>0, <1>14 DEF Acknowledged
<1>15. CASE SettleDone
  BY <1>0, <1>15 DEF SettleDone
<1>16. CASE Rejected
  BY <1>0, <1>7, <1>16 DEF Rejected
<1>17. CASE Clear
  BY <1>0, <1>17 DEF Clear, Forgotten, NoPending
<1> HIDE DEF LeaseInv
<1> QED
  BY <1>1, <1>2, <1>3, <1>4, <1>5, <1>6, <1>8, <1>9, <1>10, <1>11, <1>12,
     <1>13, <1>14, <1>15, <1>16, <1>17 DEF Flush

\* A flush keeps what its place says of records and directories.
LEMMA Flush_Place == Core /\ TypeOK' /\ Flush => PlaceInv'
<1> SUFFICES ASSUME Core, TypeOK', Flush PROVE PlaceInv'
  OBVIOUS
<1>0. TypeOK /\ PlaceInv
  BY DEF Core
<1> USE Typed DEF PlaceInv, Moving, machine, memory, service, history
<1>1. CASE Resume
  BY <1>0, <1>1 DEF Resume, TakeUp
<1>2. CASE ReleaseEmpty
  BY <1>0, <1>2 DEF ReleaseEmpty, NoPending
<1>3. CASE DiscardUnreadablePending
  BY <1>0, <1>3 DEF DiscardUnreadablePending, NoPending
<1>4. ASSUME NEW b \in BatchIds, NEW entries \in SUBSET Records, OpenLease(b, entries)
      PROVE  PlaceInv'
  BY <1>0, <1>4 DEF OpenLease, TakeUp
<1>5. CASE DropWithdrawn
  BY <1>0, <1>5 DEF DropWithdrawn
<1>6. CASE DropDone
  BY <1>0, <1>6 DEF DropDone
<1>7. CASE Build
  BY <1>0, <1>7 DEF Build, StartMove
<1>8. ASSUME NEW r \in Records, CopyRecord(r) PROVE PlaceInv'
  BY <1>0, <1>8 DEF CopyRecord
<1>9. CASE WriteReason
  BY <1>0, <1>9 DEF WriteReason
<1>10. CASE MoveDone
  BY <1>0, <1>10 DEF MoveDone
<1>11. CASE Offer
  BY <1>0, <1>11 DEF Offer
<1>12. ASSUME NEW loop \in {"drop", "remove", "settle"}, NEW r \in Records,
              DeleteFile(loop, r)
       PROVE  PlaceInv'
  BY <1>0, <1>12 DEF DeleteFile
<1>13. CASE Acknowledged
  BY <1>0, <1>13 DEF Acknowledged
<1>14. CASE SettleDone
  BY <1>0, <1>14 DEF SettleDone
<1>15. CASE Rejected
  BY <1>0, <1>15 DEF Rejected, StartMove, Core, ServiceInv
<1>16. CASE Clear
  BY <1>0, <1>16 DEF Clear, Forgotten, NoPending, NoLease
<1> HIDE DEF PlaceInv
<1> QED
  BY <1>1, <1>2, <1>3, <1>4, <1>5, <1>6, <1>7, <1>8, <1>9, <1>10, <1>11, <1>12,
     <1>13, <1>14, <1>15, <1>16 DEF Flush

\* A flush keeps what the service and the wire may hold.
LEMMA Flush_Service == Core /\ TypeOK' /\ Flush => ServiceInv'
<1> SUFFICES ASSUME Core, TypeOK', Flush PROVE ServiceInv'
  OBVIOUS
<1>0. TypeOK /\ ServiceInv
  BY DEF Core
<1> USE Typed DEF ServiceInv, machine, memory, service, history
<1>1. CASE Resume
  BY <1>0, <1>1 DEF Resume, TakeUp
<1>2. CASE ReleaseEmpty
  BY <1>0, <1>2 DEF ReleaseEmpty, NoPending
<1>3. CASE DiscardUnreadablePending
  BY <1>0, <1>3 DEF DiscardUnreadablePending, NoPending
<1>4. ASSUME NEW b \in BatchIds, NEW entries \in SUBSET Records, OpenLease(b, entries)
      PROVE  ServiceInv'
  BY <1>0, <1>4 DEF OpenLease, TakeUp
<1>5. CASE DropWithdrawn
  BY <1>0, <1>5 DEF DropWithdrawn
<1>6. CASE DropDone
  BY <1>0, <1>6 DEF DropDone
<1>7. CASE Build
  BY <1>0, <1>7 DEF Build, StartMove
<1>8. ASSUME NEW r \in Records, CopyRecord(r) PROVE ServiceInv'
  BY <1>0, <1>8 DEF CopyRecord
<1>9. CASE WriteReason
  BY <1>0, <1>9 DEF WriteReason
<1>10. CASE MoveDone
  BY <1>0, <1>10 DEF MoveDone
<1>11. CASE Offer
  <2>1. batch # {} /\ batch \cap Bad = {}
    BY <1>11 DEF Offer, Core, PlaceInv
  <2> QED
    BY <1>0, <1>11, <2>1 DEF Offer
<1>12. ASSUME NEW loop \in {"drop", "remove", "settle"}, NEW r \in Records,
              DeleteFile(loop, r)
       PROVE  ServiceInv'
  BY <1>0, <1>12 DEF DeleteFile
<1>13. CASE Acknowledged
  BY <1>0, <1>13 DEF Acknowledged
<1>14. CASE SettleDone
  BY <1>0, <1>14 DEF SettleDone
<1>15. CASE Rejected
  BY <1>0, <1>15 DEF Rejected, StartMove
<1>16. CASE Clear
  BY <1>0, <1>16 DEF Clear, Forgotten, NoPending, NoLease
<1> HIDE DEF ServiceInv
<1> QED
  BY <1>1, <1>2, <1>3, <1>4, <1>5, <1>6, <1>7, <1>8, <1>9, <1>10, <1>11, <1>12,
     <1>13, <1>14, <1>15, <1>16 DEF Flush

\* The steps of the uploader leave the command alone, and what killed commands
\* and torn records leave in the history.
LEMMA Flush_Cmd == Flush => UNCHANGED <<cmd, torn, cut>>
<1> SUFFICES ASSUME Flush PROVE UNCHANGED <<cmd, torn, cut>>
  OBVIOUS
<1> USE DEF history, TakeUp, StartMove
<1>1. CASE Resume \/ ReleaseEmpty \/ DiscardUnreadablePending
  BY <1>1 DEF Resume, ReleaseEmpty, DiscardUnreadablePending
<1>2. ASSUME NEW b \in BatchIds, NEW entries \in SUBSET Records, OpenLease(b, entries)
      PROVE  UNCHANGED <<cmd, torn, cut>>
  BY <1>2 DEF OpenLease
<1>3. ASSUME DropWithdrawn \/ DropDone \/ Build \/ WriteReason \/ MoveDone \/ Offer
      PROVE  UNCHANGED <<cmd, torn, cut>>
  BY <1>3 DEF DropWithdrawn, DropDone, Build, WriteReason, MoveDone, Offer
<1>4. ASSUME NEW loop, NEW r \in Records, CopyRecord(r) \/ DeleteFile(loop, r)
      PROVE  UNCHANGED <<cmd, torn, cut>>
  BY <1>4 DEF CopyRecord, DeleteFile
<1>5. ASSUME Acknowledged \/ SettleDone \/ Rejected \/ Clear
      PROVE  UNCHANGED <<cmd, torn, cut>>
  BY <1>5 DEF Acknowledged, SettleDone, Rejected, Clear
<1> QED
  BY <1>1, <1>2, <1>3, <1>4, <1>5 DEF Flush

\* The recorder keeps the core.
LEMMA Recorder_Core == Core /\ Recorder => Core'
<1> SUFFICES ASSUME Core, NEW r \in Records, Decide(r) \/ Store(r) PROVE Core'
  BY DEF Recorder
<1>0. TypeOK /\ LeaseInv /\ PlaceInv /\ ServiceInv /\ CmdInv
  BY DEF Core
<1>1. TypeOK'
  BY <1>0, Recorder_TypeOK DEF Recorder
<1> USE DEF machine, memory, service, history
<1>2. UNCHANGED <<pending, rejected, memory, service, cmd, offered, minted, deleted, torn>>
  BY DEF Decide, Store
<1>3. LeaseInv'
  BY <1>0, <1>2, InQuarantine DEF Decide, Store, LeaseInv, Pinned
<1>4. PlaceInv'
  BY <1>0, <1>2 DEF PlaceInv, Moving
<1>5. ServiceInv' /\ CmdInv'
  BY <1>0, <1>2 DEF ServiceInv, CmdInv
<1> QED
  BY <1>1, <1>3, <1>4, <1>5 DEF Core

\* The network and the service keep the core.
LEMMA Network_Core == Core /\ Network => Core'
<1> SUFFICES ASSUME Core, NEW m \in wire, Deliver(m) \/ Lose(m) PROVE Core'
  BY DEF Network
<1>0. TypeOK /\ LeaseInv /\ PlaceInv /\ ServiceInv /\ CmdInv
  BY DEF Core
<1>1. TypeOK'
  BY <1>0, Network_TypeOK DEF Network
<1> USE DEF machine, memory, service, history
<1>2. UNCHANGED <<machine, deciding, pc, lease, batch, todo, moving, why, cmd, history>>
  BY DEF Deliver, Lose
<1>3. refused \subseteq refused'
  BY DEF Deliver, Lose
<1>4. LeaseInv' /\ CmdInv'
  BY <1>0, <1>2, InQuarantine DEF LeaseInv, CmdInv, Pinned
<1>5. PlaceInv'
  BY <1>0, <1>2, <1>3 DEF PlaceInv, Moving
<1>6. CASE Deliver(m)
  <2>1. m.id \in BatchIds /\ m.recs # {} /\ m.recs \subseteq offered[m.id]
    BY <1>0, Typed DEF ServiceInv
  <2>2. stored \in [BatchIds -> SUBSET Records] /\ refused \subseteq BatchIds
    BY <1>0 DEF TypeOK
  <2>3. /\ \A b \in BatchIds :
             stored'[b] = stored[b] \/ (b = m.id /\ stored'[b] = m.recs)
        /\ \A b \in BatchIds : stored[b] # {} => stored'[b] # {}
    <3>1. CASE UNCHANGED stored
      BY <3>1
    <3>2. CASE stored[m.id] = {} /\ stored' = [stored EXCEPT ![m.id] = m.recs]
      BY <2>2, <3>2
    <3> QED
      BY <1>6, <3>1, <3>2 DEF Deliver
  <2>4. \A b \in refused' : stored'[b] = {}
    BY <1>0, <1>6, <2>2 DEF Deliver, ServiceInv
  <2>5. pc = "wait" /\ reply' = "ack" => stored'[lease.id] # {}
    <3>1. pc = "wait" => lease.id \in BatchIds
      BY <1>0, Typed
    <3> QED
      BY <1>0, <1>6, <2>1, <2>2, <2>3, <3>1 DEF Deliver, Answer, ServiceInv
  <2>6. pc = "wait" /\ reply' = "refused" => lease.id \in refused'
    BY <1>0, <1>3, <1>6 DEF Deliver, Answer, ServiceInv
  <2>7. pc = "settle" => stored'[lease.id] # {}
    BY <1>0, <2>3, Typed DEF ServiceInv
  <2>8. wire' \subseteq wire
    BY <1>6 DEF Deliver
  <2>9. ServiceInv'
    BY <1>0, <1>2, <2>1, <2>3, <2>4, <2>5, <2>6, <2>7, <2>8 DEF ServiceInv
  <2> QED
    BY <1>1, <1>4, <1>5, <2>9 DEF Core
<1>7. CASE Lose(m)
  <2>1. ServiceInv'
    BY <1>0, <1>7 DEF Lose, ServiceInv
  <2> QED
    BY <1>1, <1>4, <1>5, <2>1 DEF Core
<1> QED
  BY <1>6, <1>7

\* A command keeps what its place says.
LEMMA Command_Cmd == Core /\ Command => CmdInv'
<1> SUFFICES ASSUME Core, Command PROVE CmdInv'
  OBVIOUS
<1>0. cmd \in Cmds /\ CmdInv
  BY DEF Core, TypeOK
<1> USE NoBatchAssumption DEF CmdInv, Cmds
<1>1. ASSUME NEW b \in BatchIds, StartRequeue(b) PROVE CmdInv'
  BY <1>1 DEF StartRequeue, NoCmd
<1>2. ASSUME NEW b \in BatchIds, Discard(b) PROVE CmdInv'
  BY <1>0, <1>2 DEF Discard
<1>3. ASSUME NEW b \in BatchIds, PurgeDir(b) PROVE CmdInv'
  BY <1>0, <1>3 DEF PurgeDir
<1>4. ASSUME NEW r \in Records, Respool(r) PROVE CmdInv'
  BY <1>0, <1>4 DEF Respool
<1>5. ASSUME NEW r \in Records, PurgeSpool(r) PROVE CmdInv'
  BY <1>0, <1>5 DEF PurgeSpool
<1>6. ASSUME NEW op \in {"forget", "disable"}, NEW group, StartPurge(op, group)
      PROVE  CmdInv'
  BY <1>6 DEF StartPurge, NoCmd
<1>7. ASSUME NEW s \in Sessions, StartForget(s) PROVE CmdInv'
  BY <1>6, <1>7 DEF StartForget
<1>8. ASSUME NEW p \in Projects, StartDisable(p) PROVE CmdInv'
  BY <1>6, <1>8 DEF StartDisable
<1>9. ASSUME NEW p \in Projects, Enable(p) PROVE CmdInv'
  BY <1>0, <1>9 DEF Enable
<1>10. CASE RemoveCopy
  BY <1>0, <1>10 DEF RemoveCopy
<1>11. CASE RequeueDone \/ PurgeDone \/ CmdDies
  BY <1>11 DEF RequeueDone, PurgeDone, CmdDies, NoCmd
<1>12. CASE SweepFails
  BY <1>0, <1>12 DEF SweepFails
<1>13. CASE PurgeList
  BY <1>0, <1>13 DEF PurgeList
<1>14. CASE PurgeRemoveDir
  BY <1>0, <1>14 DEF PurgeRemoveDir
<1> HIDE DEF CmdInv
<1> QED
  BY <1>1, <1>2, <1>3, <1>4, <1>5, <1>7, <1>8, <1>9, <1>10, <1>11, <1>12,
     <1>13, <1>14 DEF Command

\* A command keeps the core.
LEMMA Command_Core == Core /\ Command => Core'
<1> SUFFICES ASSUME Core, Command PROVE Core'
  OBVIOUS
<1>0. TypeOK /\ LeaseInv /\ PlaceInv /\ ServiceInv /\ CmdInv
  BY DEF Core
<1>1. TypeOK' /\ CmdInv'
  BY <1>0, Command_TypeOK, Command_Cmd
<1> USE CommandFrame DEF memory, service
<1>2. LeaseInv'
  <2>1. Quarantined' \subseteq Quarantined
    BY <1>0, InQuarantine
  <2> QED
    BY <1>0, <2>1 DEF LeaseInv, Pinned
<1>3. PlaceInv'
  BY <1>0 DEF PlaceInv, Moving
<1>4. ServiceInv'
  BY <1>0 DEF ServiceInv
<1> QED
  BY <1>1, <1>2, <1>3, <1>4 DEF Core

\* A failure forgets what is in memory and changes nothing else; so does
\* the pending record that stops parsing, but for its state.
LEMMA Failure_Core == Core /\ (Abort \/ Tear \/ UNCHANGED vars) => Core'
<1> SUFFICES ASSUME Core, Abort \/ Tear \/ UNCHANGED vars PROVE Core'
  OBVIOUS
<1>0. TypeOK /\ LeaseInv /\ PlaceInv /\ ServiceInv /\ CmdInv
  BY DEF Core
<1>1. TypeOK'
  BY <1>0, Next_TypeOK DEF Next
<1> USE Typed, InQuarantine
        DEF LeaseInv, PlaceInv, ServiceInv, CmdInv, Pinned, Moving,
            machine, memory, service, history
<1>2. CASE Abort
  BY <1>0, <1>1, <1>2 DEF Core, Abort, Forgotten, NoLease
<1>3. CASE Tear
  <2>1. /\ pending'.state = "torn" /\ pending'.id = pending.id
        /\ pending'.recs = pending.recs /\ pending.state = "pinned"
    BY <1>0, <1>3 DEF Tear, TypeOK, Pendings
  <2>2. UNCHANGED <<spool, rejected, withdrawn, deciding, memory, service, cmd, captured,
                    offered, minted, deleted>> /\ torn'
    BY <1>3 DEF Tear
  <2>3. LeaseInv'
    BY <1>0, <2>1, <2>2
  <2>4. PlaceInv' /\ ServiceInv' /\ CmdInv'
    BY <1>0, <2>1, <2>2
  <2> QED
    BY <1>1, <2>3, <2>4 DEF Core
<1>4. CASE UNCHANGED vars
  BY <1>0, <1>1, <1>4 DEF Core, vars
<1> QED
  BY <1>2, <1>3, <1>4

\* A flush keeps the core.
LEMMA Flush_Core == Core /\ Flush => Core'
<1> SUFFICES ASSUME Core, Flush PROVE Core'
  OBVIOUS
<1>1. TypeOK'
  BY Flush_TypeOK DEF Core
<1>2. CmdInv'
  BY Flush_Cmd DEF Core, CmdInv
<1> QED
  BY <1>1, <1>2, Flush_Lease, Flush_Place, Flush_Service DEF Core

\* Every step keeps the core.
LEMMA Next_Core == Core /\ [Next]_vars => Core'
  BY Recorder_Core, Flush_Core, Network_Core, Command_Core, Failure_Core DEF Next

-----------------------------------------------------------------------------
(* An acknowledgement covers what it deletes.                               *)

LEMMA Flush_Cover == Core /\ CoverInv /\ Flush => CoverInv'
<1> SUFFICES ASSUME Core, CoverInv, Flush PROVE CoverInv'
  OBVIOUS
<1>0. TypeOK /\ LeaseInv /\ PlaceInv /\ ServiceInv
  BY DEF Core
<1> USE Typed DEF CoverInv, Sendable, Pinned, machine, memory, service, history
<1>1. CASE Resume
  BY <1>0, <1>1 DEF Resume, TakeUp, LeaseInv
<1>2. CASE ReleaseEmpty
  BY <1>0, <1>2 DEF ReleaseEmpty, NoPending
<1>3. CASE DiscardUnreadablePending
  BY <1>0, <1>3 DEF DiscardUnreadablePending, NoPending
<1>4. ASSUME NEW b \in BatchIds, NEW entries \in SUBSET Records, OpenLease(b, entries)
      PROVE  CoverInv'
  BY <1>0, <1>4 DEF OpenLease, TakeUp, LeaseInv, PlaceInv, ServiceInv
<1>5. CASE DropWithdrawn
  BY <1>0, <1>5 DEF DropWithdrawn, LeaseInv
<1>6. CASE DropDone
  BY <1>0, <1>6 DEF DropDone
<1>7. CASE Build
  BY <1>0, <1>7 DEF Build, StartMove
<1>8. ASSUME NEW r \in Records, CopyRecord(r) PROVE CoverInv'
  BY <1>0, <1>8 DEF CopyRecord
<1>9. CASE WriteReason
  BY <1>0, <1>9 DEF WriteReason
<1>10. CASE MoveDone
  BY <1>0, <1>10 DEF MoveDone, LeaseInv, PlaceInv, Moving
<1>11. CASE Offer
  BY <1>0, <1>11 DEF Offer, LeaseInv
<1>12. ASSUME NEW loop \in {"drop", "remove", "settle"}, NEW r \in Records,
              DeleteFile(loop, r)
       PROVE  CoverInv'
  BY <1>0, <1>12 DEF DeleteFile, LeaseInv, PlaceInv, ServiceInv, Moving
<1>13. CASE Acknowledged
  BY <1>0, <1>13 DEF Acknowledged, LeaseInv, ServiceInv
<1>14. CASE SettleDone
  BY <1>0, <1>14 DEF SettleDone
<1>15. CASE Rejected
  BY <1>0, <1>15 DEF Rejected, StartMove, LeaseInv, ServiceInv
<1>16. CASE Clear
  BY <1>0, <1>16 DEF Clear, Forgotten, NoPending, NoLease
<1> HIDE DEF CoverInv
<1> QED
  BY <1>1, <1>2, <1>3, <1>4, <1>5, <1>6, <1>7, <1>8, <1>9, <1>10, <1>11, <1>12,
     <1>13, <1>14, <1>15, <1>16 DEF Flush

\* A late attempt still carries what its acknowledgement will delete.
LEMMA Network_Cover == Core /\ CoverInv /\ Network => CoverInv'
<1> SUFFICES ASSUME Core, CoverInv, NEW m \in wire, Deliver(m) \/ Lose(m) PROVE CoverInv'
  BY DEF Network
<1>0. TypeOK /\ LeaseInv /\ ServiceInv
  BY DEF Core
<1>1. UNCHANGED <<pending, spool, pc, batch, deleted>> /\ wire' \subseteq wire
  BY DEF Deliver, Lose, machine, memory, history
<1>2. m.id \in BatchIds /\ m.recs # {} /\ m.recs \subseteq offered[m.id]
  BY <1>0, Typed DEF ServiceInv
<1>3. CASE Deliver(m)
  <2>1. /\ refused \subseteq refused'
        /\ \A b \in BatchIds :
             stored'[b] = stored[b] \/ (b = m.id /\ stored[b] = {} /\ stored'[b] = m.recs)
    BY <1>0, <1>2, <1>3, Typed DEF Deliver
  <2>2. Pinned => pending.id \in BatchIds
    BY <1>0, Typed
  <2> QED
    BY <1>1, <1>2, <2>1, <2>2 DEF CoverInv, Sendable, Pinned
<1>4. CASE Lose(m)
  BY <1>1, <1>4 DEF Lose, CoverInv, Sendable, Pinned
<1> QED
  BY <1>3, <1>4

\* Every step keeps an acknowledgement covering what it deletes.
LEMMA Next_Cover == Core /\ CoverInv /\ [Next]_vars => CoverInv'
<1> SUFFICES ASSUME Core, CoverInv, [Next]_vars PROVE CoverInv'
  OBVIOUS
<1>0. TypeOK /\ LeaseInv /\ CmdInv
  BY DEF Core
<1> USE DEF CoverInv, Sendable, Pinned, machine, memory, service, history
<1>1. CASE Recorder
  <2>1. /\ UNCHANGED <<pending, memory, service, deleted>>
        /\ spool \subseteq spool'
    BY <1>1 DEF Recorder, Decide, Store
  <2> QED
    BY <2>1
<1>2. CASE Command
  BY <1>0, <1>2, CommandFrame
<1>3. CASE Abort
  BY <1>3 DEF Abort, Forgotten
<1>4. CASE Tear
  <2>1. /\ pending'.id = pending.id /\ pending'.recs = pending.recs /\ Pinned
    BY <1>0, <1>4 DEF Tear, TypeOK, Pendings
  <2>2. UNCHANGED <<spool, memory, service, deleted>>
    BY <1>4 DEF Tear
  <2> QED
    BY <2>1, <2>2
<1>5. CASE UNCHANGED vars
  BY <1>5 DEF vars
<1> HIDE DEF CoverInv
<1> QED
  BY <1>1, <1>2, <1>3, <1>4, <1>5, Flush_Cover, Network_Cover DEF Next

-----------------------------------------------------------------------------
(* Nothing is lost.                                                         *)

LEMMA Flush_Kept == Core /\ CoverInv /\ Kept /\ Flush => Kept'
<1> SUFFICES ASSUME Core, CoverInv, Kept, Flush PROVE Kept'
  OBVIOUS
<1>0. TypeOK /\ LeaseInv /\ PlaceInv /\ ServiceInv /\ CmdInv /\ MovedInv /\ RemovalInv /\ NothingLost
  BY DEF Core, Kept
<1> USE Typed, InQuarantine, InStored
        DEF Kept, MovedInv, RemovalInv, NothingLost, Moving, machine, memory, service, history
<1>1. CASE Resume
  BY <1>0, <1>1 DEF Resume, TakeUp
<1>2. CASE ReleaseEmpty
  BY <1>0, <1>2 DEF ReleaseEmpty, NoPending
<1>3. CASE DiscardUnreadablePending
  BY <1>0, <1>3 DEF DiscardUnreadablePending, NoPending
<1>4. ASSUME NEW b \in BatchIds, NEW entries \in SUBSET Records, OpenLease(b, entries)
      PROVE  Kept'
  BY <1>0, <1>4 DEF OpenLease, TakeUp
<1>5. CASE DropWithdrawn
  BY <1>0, <1>5 DEF DropWithdrawn
<1>6. CASE DropDone
  BY <1>0, <1>6 DEF DropDone
<1>7. ASSUME NEW recs, NEW cause, StartMove(recs, cause), lease.id \in BatchIds PROVE Kept'
  <2>1. \A b \in BatchIds : rejected'[b].recs = rejected[b].recs
    BY <1>0, <1>7, RecsOf DEF StartMove
  <2>2. /\ UNCHANGED <<spool, lease, stored, cmd, captured, deleted>>
        /\ pc' = "copy" /\ moving' = recs /\ todo' = recs
        /\ overlapped' = IF cmd.dir = lease.id THEN overlapped \cup recs ELSE overlapped
    BY <1>7 DEF StartMove
  <2>3. MovedInv'
    BY <1>0, <2>1, <2>2
  <2>4. RemovalInv'
    <3>1. UNCHANGED Stored
      BY <2>2
    <3>2. cmd.op = "requeue" => cmd.dir \in BatchIds
      BY <1>0, CmdFields DEF TypeOK, CmdInv
    <3>3. cmd.op = "purge_rejected" /\ cmd.dir # NoBatch => cmd.dir \in BatchIds
      BY <1>0, CmdFields DEF TypeOK
    <3> QED
      BY <1>0, <2>1, <2>2, <3>1, <3>2, <3>3
  <2>5. NothingLost'
    BY <1>0, <2>1, <2>2
  <2> QED
    BY <2>3, <2>4, <2>5
<1>8. CASE Build
  BY <1>0, <1>7, <1>8 DEF Build
<1>9. ASSUME NEW r \in Records, CopyRecord(r) PROVE Kept'
  <2> HIDE Typed, InQuarantine, InStored DEF Kept, MovedInv, RemovalInv, NothingLost, Moving
  <2>1. lease.id \in BatchIds /\ r \in moving
    BY <1>0, <1>9, Typed DEF CopyRecord, PlaceInv, Moving
  <2>2. \A b \in BatchIds : rejected'[b].recs =
          IF b = lease.id THEN rejected[b].recs \cup {r} ELSE rejected[b].recs
    <3>1. rejected' = [rejected EXCEPT ![lease.id].recs = rejected[lease.id].recs \cup {r}]
      BY <1>9 DEF CopyRecord
    <3>2. rejected \in [BatchIds -> Directories]
      BY <1>0 DEF TypeOK
    <3> QED
      BY <2>1, <3>1, <3>2 DEF Directories
  <2>3. UNCHANGED <<spool, pc, lease, moving, stored, cmd, captured, deleted, overlapped>>
        /\ pc = "copy" /\ todo' = todo \ {r}
    BY <1>9 DEF CopyRecord
  <2>4. MovedInv'
    BY <1>0, <2>1, <2>2, <2>3, ZenonT(30) DEF MovedInv, Moving
  <2>5. RemovalInv'
    <3>1. lease.id = cmd.dir => r \in overlapped
      BY <1>0, <2>1, <2>3 DEF MovedInv, Moving
    <3>2. UNCHANGED Stored
      BY <2>3 DEF Stored
    <3>3. cmd.op = "requeue" => cmd.dir \in BatchIds
      BY <1>0, CmdFields DEF TypeOK, CmdInv
    <3>4. cmd.op = "purge_rejected" /\ cmd.dir # NoBatch => cmd.dir \in BatchIds
      BY <1>0, CmdFields DEF TypeOK
    <3>5. \A x \in cmd'.hold :
            \/ x \in (spool \cup Stored \cup deleted \cup overlapped)'
            \/ \E b \in BatchIds \ {cmd'.dir} : x \in rejected'[b].recs
      BY <1>0, <2>2, <2>3, <3>2, ZenonT(30) DEF RemovalInv
    <3>6. cmd.op = "requeue" /\ ~cmd.stuck =>
            rejected'[cmd.dir].recs \subseteq cmd.todo \cup cmd.hold \cup overlapped
      BY <1>0, <2>2, <3>1, <3>3 DEF RemovalInv
    <3>7. cmd.op = "purge_rejected" /\ cmd.dir # NoBatch =>
            rejected'[cmd.dir].recs \subseteq overlapped
      BY <1>0, <2>2, <3>1, <3>4 DEF RemovalInv
    <3> QED
      BY <2>3, <3>5, <3>6, <3>7 DEF RemovalInv
  <2>6. NothingLost'
    <3>1. Quarantined \subseteq Quarantined'
      BY <2>2, InQuarantine
    <3> QED
      BY <1>0, <2>3, <3>1 DEF NothingLost, Stored
  <2> QED
    BY <2>4, <2>5, <2>6 DEF Kept
<1>10. CASE WriteReason
  BY <1>0, <1>10, RecsOf DEF WriteReason
<1>11. CASE MoveDone
  BY <1>0, <1>11 DEF MoveDone
<1>12. CASE Offer
  BY <1>0, <1>12 DEF Offer
<1>13. ASSUME NEW loop \in {"drop", "remove", "settle"}, NEW r \in Records,
              DeleteFile(loop, r)
       PROVE  Kept'
  <2>1. UNCHANGED <<rejected, pc, lease, moving, stored, cmd, captured, deleted, overlapped>>
        /\ pc = loop /\ r \in todo /\ todo' = todo \ {r} /\ spool' = spool \ {r}
    BY <1>13 DEF DeleteFile
  <2>2. r \in Stored \cup deleted \cup overlapped
          \/ (pc = "remove" /\ cmd.dir # lease.id /\ r \in rejected[lease.id].recs)
    <3>1. CASE pc = "drop"
      BY <1>0, <2>1, <3>1 DEF PlaceInv
    <3>2. CASE pc = "remove"
      BY <1>0, <2>1, <3>2 DEF PlaceInv
    <3>3. CASE pc = "settle"
      BY <1>0, <2>1, <3>3 DEF PlaceInv, LeaseInv, ServiceInv, CoverInv, Sendable
    <3> QED
      BY <2>1, <3>1, <3>2, <3>3
  <2>3. MovedInv'
    BY <1>0, <2>1
  <2>4. RemovalInv'
    BY <1>0, <2>1, <2>2
  <2>5. NothingLost'
    BY <1>0, <2>1, <2>2
  <2> QED
    BY <2>3, <2>4, <2>5
<1>14. CASE Acknowledged
  BY <1>0, <1>14 DEF Acknowledged
<1>15. CASE SettleDone
  BY <1>0, <1>15 DEF SettleDone
<1>16. CASE Rejected
  BY <1>0, <1>7, <1>16 DEF Rejected
<1>17. CASE Clear
  BY <1>0, <1>17 DEF Clear, Forgotten, NoPending, NoLease
<1> HIDE DEF Kept
<1> QED
  BY <1>1, <1>2, <1>3, <1>4, <1>5, <1>6, <1>8, <1>9, <1>10, <1>11, <1>12,
     <1>13, <1>14, <1>15, <1>16, <1>17 DEF Flush

\* What a command takes out of a directory is deleted, or the command works on
\* that directory, and overlaps the record's quarantine or copied it back.  A command
\* that takes up a directory records what it overlaps there.
LEMMA CommandTakes ==
  ASSUME TypeOK, CmdInv, RemovalInv, Command
  PROVE  /\ \A b \in BatchIds : \A r \in rejected[b].recs :
              \/ r \in rejected'[b].recs
              \/ r \in deleted'
              \/ cmd.dir = b /\ r \in overlapped
              \/ cmd.dir = b /\ r \in cmd.hold /\ RemoveCopy
         /\ cmd'.dir \in {cmd.dir, NoBatch} \/ Overlaps(cmd'.dir) \subseteq overlapped'
<1> DEFINE Takes ==
      /\ \A b \in BatchIds : \A r \in rejected[b].recs :
           \/ r \in rejected'[b].recs
           \/ r \in deleted'
           \/ cmd.dir = b /\ r \in overlapped
           \/ cmd.dir = b /\ r \in cmd.hold /\ RemoveCopy
      /\ cmd'.dir \in {cmd.dir, NoBatch} \/ Overlaps(cmd'.dir) \subseteq overlapped'
<1> SUFFICES Takes
  OBVIOUS
<1>0. rejected \in [BatchIds -> Directories] /\ cmd \in Cmds
  BY DEF TypeOK
<1> USE DEF machine, Cmds, NoCmd
<1>1. ASSUME NEW b \in BatchIds, StartRequeue(b) PROVE Takes
  BY <1>1 DEF StartRequeue
<1>2. ASSUME NEW b \in BatchIds, Discard(b) PROVE Takes
  BY <1>0, <1>2, RecsOf DEF Discard
<1>3. ASSUME NEW b \in BatchIds, PurgeDir(b) PROVE Takes
  <2>1. \A c \in BatchIds : rejected'[c].recs =
          IF c = b THEN rejected[b].recs \ cmd.group ELSE rejected[c].recs
    BY <1>0, <1>3 DEF PurgeDir, Directories
  <2>2. cmd'.dir \in {b, NoBatch}
    BY <1>0, <1>3 DEF PurgeDir
  <2> QED
    BY <1>3, <2>1, <2>2 DEF PurgeDir
<1>4. ASSUME NEW r \in Records, Respool(r) PROVE Takes
  BY <1>0, <1>4 DEF Respool
<1>5. ASSUME NEW r \in Records, PurgeSpool(r) PROVE Takes
  BY <1>0, <1>5 DEF PurgeSpool
<1>6. ASSUME NEW s \in Sessions, StartForget(s) PROVE Takes
  BY <1>6 DEF StartForget, StartPurge
<1>7. ASSUME NEW p \in Projects, StartDisable(p) PROVE Takes
  BY <1>7 DEF StartDisable, StartPurge
<1>8. ASSUME NEW p \in Projects, Enable(p) PROVE Takes
  BY <1>8 DEF Enable
<1>9. CASE RemoveCopy
  BY <1>0, <1>9, RecsOf DEF RemoveCopy
<1>10. CASE RequeueDone
  BY <1>0, <1>10, RecsOf DEF RequeueDone, RemovalInv
<1>11. CASE SweepFails
  BY <1>0, <1>11 DEF SweepFails
<1>12. CASE PurgeList
  BY <1>0, <1>12 DEF PurgeList
<1>13. CASE PurgeRemoveDir
  BY <1>0, <1>13, RecsOf DEF PurgeRemoveDir, RemovalInv
<1>14. CASE PurgeDone
  BY <1>14 DEF PurgeDone
<1>15. CASE CmdDies
  BY <1>15 DEF CmdDies
<1> HIDE DEF Takes
<1> QED
  BY <1>1, <1>2, <1>3, <1>4, <1>5, <1>6, <1>7, <1>8, <1>9, <1>10, <1>11, <1>12,
     <1>13, <1>14, <1>15 DEF Command

\* A command removes only what it has put elsewhere or may delete.
LEMMA Command_Removal == Core /\ RemovalInv /\ Command => RemovalInv'
<1> SUFFICES ASSUME Core, RemovalInv, Command PROVE RemovalInv'
  OBVIOUS
<1>0. /\ TypeOK /\ CmdInv /\ rejected \in [BatchIds -> Directories] /\ cmd \in Cmds
      /\ UNCHANGED Stored
  BY CommandFrame DEF Core, TypeOK, Stored, service
<1>a. /\ \A b \in BatchIds : rejected'[b].recs \subseteq rejected[b].recs
      /\ deleted \subseteq deleted' /\ overlapped \subseteq overlapped'
  BY <1>0, CommandFrame
<1> USE DEF RemovalInv, Cmds, machine, history
<1>1. ASSUME NEW b \in BatchIds, StartRequeue(b) PROVE RemovalInv'
  BY <1>0, <1>1 DEF StartRequeue, NoCmd
<1>2. ASSUME NEW b \in BatchIds, Discard(b) PROVE RemovalInv'
  BY <1>0, <1>2 DEF Discard, CmdInv, NoCmd
<1>3. ASSUME NEW b \in BatchIds, PurgeDir(b) PROVE RemovalInv'
  BY <1>0, <1>3 DEF PurgeDir, CmdInv, Directories
<1>4. ASSUME NEW r \in Records, Respool(r) PROVE RemovalInv'
  BY <1>0, <1>4, ZenonT(30) DEF Respool
<1>5. ASSUME NEW r \in Records, PurgeSpool(r) PROVE RemovalInv'
  BY <1>0, <1>5 DEF PurgeSpool, CmdInv
<1>6. ASSUME NEW op \in {"forget", "disable"}, NEW group, StartPurge(op, group)
      PROVE  RemovalInv'
  BY <1>6 DEF StartPurge, NoCmd
<1>7. ASSUME NEW s \in Sessions, StartForget(s) PROVE RemovalInv'
  BY <1>6, <1>7 DEF StartForget
<1>8. ASSUME NEW p \in Projects, StartDisable(p) PROVE RemovalInv'
  BY <1>6, <1>8 DEF StartDisable
<1>9. ASSUME NEW p \in Projects, Enable(p) PROVE RemovalInv'
  BY <1>0, <1>9 DEF Enable
<1>10. CASE RemoveCopy
  <2>1. cmd.dir \in BatchIds
    BY <1>0, <1>10, CmdFields DEF RemoveCopy, CmdInv
  <2> QED
    BY <1>0, <1>10, <2>1 DEF RemoveCopy, CmdInv, Directories
<1>11. CASE RequeueDone \/ PurgeDone \/ CmdDies
  BY <1>11 DEF RequeueDone, PurgeDone, CmdDies, NoCmd
<1>12. CASE SweepFails
  BY <1>0, <1>12 DEF SweepFails, CmdInv
<1>13. CASE PurgeList
  BY <1>0, <1>13 DEF PurgeList, CmdInv
<1>14. CASE PurgeRemoveDir
  BY <1>0, <1>14 DEF PurgeRemoveDir, CmdInv
<1> HIDE DEF RemovalInv
<1> QED
  BY <1>1, <1>2, <1>3, <1>4, <1>5, <1>7, <1>8, <1>9, <1>10, <1>11, <1>12,
     <1>13, <1>14 DEF Command

\* A command keeps every record somewhere.
LEMMA Command_Kept == Core /\ Kept /\ Command => Kept'
<1> SUFFICES ASSUME Core, Kept, Command PROVE Kept'
  OBVIOUS
<1>0. TypeOK /\ CmdInv /\ MovedInv /\ RemovalInv /\ NothingLost
  BY DEF Core, Kept
<1>1. RemovalInv'
  BY <1>0, Command_Removal
<1>2. MovedInv'
  <2>1. UNCHANGED memory
    BY <1>0, CommandFrame
  <2>2. Moving => lease.id \in BatchIds
    BY <1>0, Typed DEF Moving
  <2>3. Moving => \A r \in moving : r \in rejected[lease.id].recs =>
                    r \in rejected'[lease.id].recs \cup deleted' \cup overlapped'
    BY <1>0, <2>2, CommandTakes, CommandFrame DEF MovedInv
  <2>4. Moving /\ cmd'.dir = lease.id => moving \subseteq overlapped'
    <3>1. Moving => MovingInto(lease.id)
      BY DEF Moving, MovingInto
    <3>2. lease.id \in BatchIds => lease.id # NoBatch
      BY NoBatchAssumption
    <3> QED
      BY <1>0, <2>2, <3>1, <3>2, CommandTakes, CommandFrame DEF MovedInv, Overlaps
  <2>5. deleted \subseteq deleted' /\ overlapped \subseteq overlapped'
    BY <1>0, CommandFrame
  <2> QED
    BY <1>0, <2>1, <2>3, <2>4, <2>5 DEF MovedInv, Moving, memory
<1>3. NothingLost'
  <2> SUFFICES ASSUME NEW r \in captured,
                      r \notin spool' \cup Stored' \cup deleted' \cup overlapped'
               PROVE  r \in Quarantined'
    BY <1>0, CommandFrame DEF NothingLost
  <2>1. r \in Quarantined /\ r \notin overlapped \cup deleted \cup spool \cup Stored
    BY <1>0, CommandFrame DEF NothingLost, Stored, service
  <2>2. PICK b \in BatchIds : r \in rejected[b].recs
    BY <2>1, InQuarantine
  <2>3. CASE r \in rejected'[b].recs
    BY <2>3, InQuarantine
  <2>4. CASE cmd.dir = b /\ r \in cmd.hold
    <3>1. PICK c \in BatchIds \ {cmd.dir} : r \in rejected[c].recs
      BY <1>0, <2>1, <2>4 DEF RemovalInv
    <3>2. r \in rejected'[c].recs
      BY <1>0, <3>1, CommandTakes
    <3> QED
      BY <3>1, <3>2, InQuarantine
  <2> QED
    BY <1>0, <2>1, <2>2, <2>3, <2>4, CommandTakes
<1> QED
  BY <1>1, <1>2, <1>3 DEF Kept

\* Every step keeps every record somewhere.
LEMMA Next_Kept == Core /\ CoverInv /\ Kept /\ [Next]_vars => Kept'
<1> SUFFICES ASSUME Core, CoverInv, Kept, [Next]_vars PROVE Kept'
  OBVIOUS
<1>0. TypeOK /\ CmdInv
  BY DEF Core
<1> USE DEF Kept, MovedInv, RemovalInv, NothingLost, Moving, machine, memory, service, history
<1>1. CASE Recorder
  <2>1. UNCHANGED <<rejected, memory, service, cmd, deleted, overlapped>>
    BY <1>1 DEF Recorder, Decide, Store
  <2>2. spool \subseteq spool' /\ captured' \ captured \subseteq spool'
    BY <1>1 DEF Recorder, Decide, Store
  <2> QED
    BY <2>1, <2>2 DEF Quarantined, Stored
<1>2. CASE Network
  <2>1. UNCHANGED <<machine, pc, lease, todo, moving, cmd, history>>
    BY <1>2 DEF Network, Deliver, Lose
  <2>2. Stored \subseteq Stored'
    <3> SUFFICES ASSUME NEW m \in wire, Deliver(m) PROVE \A b \in BatchIds : stored[b] \subseteq stored'[b]
      BY <1>2, InStored DEF Network, Lose
    <3> QED
      BY <1>0, Typed DEF Deliver
  <2> QED
    BY <2>1, <2>2 DEF Quarantined
<1>3. CASE Abort
  BY <1>3 DEF Abort, Forgotten, Quarantined, Stored
<1>4. CASE Tear
  BY <1>4 DEF Tear, Quarantined, Stored
<1>5. CASE UNCHANGED vars
  BY <1>5 DEF vars, Quarantined, Stored
<1> HIDE DEF Kept
<1> QED
  BY <1>1, <1>2, <1>3, <1>4, <1>5, Flush_Kept, Command_Kept DEF Next

-----------------------------------------------------------------------------
(* A record is sent under one id.                                           *)

\* A step after which every record is in fewer places, or as many, keeps the
\* parts of Once: a copy that is no longer held is gone, or was cut.
LEMMA Once_Fewer ==
  ASSUME Core, Once,
         UNCHANGED <<pending, pc, batch, todo, moving, offered, torn>>,
         spool' \subseteq spool, refused \subseteq refused', cut \subseteq cut',
         \A b \in BatchIds : rejected'[b].recs \subseteq rejected[b].recs,
         \A b \in BatchIds : \A r \in rejected'[b].recs \ cut' : Held(b, r) => Held(b, r)'
  PROVE  Once'
<1>0. TypeOK /\ PlacesInv /\ RemainingInv /\ SentInv /\ SentIsPinned
  BY DEF Core, Once
<1>1. PlacesInv'
  <2>1. ASSUME NEW r \in (spool' \ Bad) \ cut', NEW b \in BatchIds, r \in rejected'[b].recs
        PROVE  Held(b, r)' \/ (b = pending'.id /\ b \in refused' /\ r \in pending'.recs)
    BY <1>0, <2>1 DEF PlacesInv
  <2>2. ASSUME NEW r \in (pending'.recs \ Bad) \ cut', NEW b \in BatchIds,
               Pinned', r \in rejected'[b].recs
        PROVE  Held(b, r)' \/ (b = pending'.id /\ b \in refused')
    BY <1>0, <2>2 DEF PlacesInv, Pinned
  <2>3. ASSUME NEW r \in (Quarantined' \ Bad) \ cut', NEW b \in BatchIds, NEW c \in BatchIds,
               b # c, r \in rejected'[b].recs, r \in rejected'[c].recs
        PROVE  Held(b, r)' \/ Held(c, r)'
    BY <1>0, <2>3, InQuarantine DEF PlacesInv
  <2> QED
    BY <2>1, <2>2, <2>3 DEF PlacesInv
<1>2. RemainingInv'
  <2> SUFFICES ASSUME pc # "idle", NEW r \in ((pending.recs \cap spool') \ Bad) \ cut',
                      pending.id \in refused' =>
                        r \in rejected'[pending.id].recs /\ ~Held(pending.id, r)'
               PROVE  r \in Remaining'
    BY DEF RemainingInv
  <2>1. pending.id \in BatchIds
    BY <1>0, Typed DEF Core, LeaseInv
  <2>2. r \in Remaining
    BY <1>0, <2>1 DEF RemainingInv
  <2> QED
    BY <2>2 DEF Remaining
<1>3. SentInv'
  <2> SUFFICES ASSUME NEW b \in BatchIds \ refused', NEW r \in offered[b] \ cut'
               PROVE  /\ \A c \in BatchIds : r \in rejected'[c].recs => Held(c, r)'
                      /\ Pinned /\ r \in pending.recs => b = pending.id
                      /\ \A c \in BatchIds \ refused' : r \in offered[c] => b = c
    BY DEF SentInv, Pinned
  <2> QED
    BY <1>0 DEF SentInv
<1>4. SentIsPinned'
  BY <1>0 DEF SentIsPinned
<1> QED
  BY <1>1, <1>2, <1>3, <1>4 DEF Once

\* A step of the uploader that moves no record between places, and after
\* which no entry is left to take out of the spool that was not before.
LEMMA Once_Stays ==
  ASSUME Core, Once,
         UNCHANGED <<spool, pending, refused, offered, cmd, torn, cut>>,
         \A b \in BatchIds : rejected'[b].recs = rejected[b].recs,
         pc' # "idle" => IF pc = "idle" THEN pending.recs \cap spool \subseteq Remaining'
                                        ELSE Remaining \subseteq Remaining'
  PROVE  Once'
<1>0. TypeOK /\ PlacesInv /\ RemainingInv /\ SentInv /\ SentIsPinned
  BY DEF Core, Once
<1>1. UNCHANGED Quarantined
  BY InQuarantine
<1>2. PlacesInv'
  BY <1>0, <1>1 DEF PlacesInv, Held, Pinned
<1>3. RemainingInv'
  <2>1. pc # "idle" => pending.id \in BatchIds
    BY <1>0, Typed DEF Core, LeaseInv
  <2> QED
    BY <1>0, <2>1 DEF RemainingInv, Held
<1>4. SentInv'
  BY <1>0 DEF SentInv, Held, Pinned
<1>5. SentIsPinned'
  BY <1>0 DEF SentIsPinned
<1> QED
  BY <1>2, <1>3, <1>4, <1>5 DEF Once

\* A flush offers no sent record under another id.
LEMMA Flush_Once == Core /\ Once /\ ~torn /\ Flush => Once'
<1> SUFFICES ASSUME Core, Once, ~torn, Flush PROVE Once'
  OBVIOUS
<1>0. /\ TypeOK /\ LeaseInv /\ PlaceInv /\ ServiceInv
      /\ PlacesInv /\ RemainingInv /\ SentInv /\ SentIsPinned
  BY DEF Core, Once
<1> USE DEF machine, memory, service, history
<1>1. CASE Resume
  BY <1>1, Once_Stays DEF Resume, TakeUp, Remaining
<1>2. CASE ReleaseEmpty
  <2>1. UNCHANGED <<spool, rejected, pc, refused, offered, cmd, torn, cut>> /\ pc = "idle"
        /\ pending.recs \cap spool = {} /\ pending' = NoPending
    BY <1>2 DEF ReleaseEmpty
  <2>2. PlacesInv'
    BY <1>0, <2>1, InQuarantine DEF PlacesInv, Held, Pinned, NoPending
  <2>3. RemainingInv' /\ SentInv' /\ SentIsPinned'
    BY <1>0, <2>1 DEF RemainingInv, SentInv, SentIsPinned, Held, Pinned, NoPending
  <2> QED
    BY <2>2, <2>3 DEF Once
<1>3. CASE DiscardUnreadablePending
  BY <1>0, <1>3 DEF DiscardUnreadablePending, LeaseInv
<1>4. ASSUME NEW b \in BatchIds, NEW entries \in SUBSET Records, OpenLease(b, entries)
      PROVE  Once'
  <2>1. /\ UNCHANGED <<spool, rejected, refused, offered, cmd, torn, cut>>
        /\ pending' = [state |-> "pinned", id |-> b, recs |-> entries]
        /\ batch' = entries /\ pc' = "check" /\ entries \subseteq spool
        /\ pending.state = "none" /\ pending.id \notin BatchIds /\ b \notin minted
    BY <1>0, <1>4, Typed DEF OpenLease, TakeUp, Pinned
  <2>2. \A r \in (spool \ Bad) \ cut, c \in BatchIds : r \in rejected[c].recs => Held(c, r)
    BY <1>0, <2>1 DEF PlacesInv
  <2>3. \A c \in BatchIds \ refused : (offered[c] \cap spool) \ cut = {}
    BY <1>0, <2>1 DEF SentIsPinned
  <2>4. PlacesInv'
    BY <1>0, <2>1, <2>2, InQuarantine DEF PlacesInv, Held
  <2>5. RemainingInv'
    BY <2>1 DEF RemainingInv, Remaining
  <2>6. SentInv' /\ SentIsPinned'
    BY <1>0, <2>1, <2>3 DEF SentInv, SentIsPinned, Held
  <2> QED
    BY <2>4, <2>5, <2>6 DEF Once
<1>5. CASE DropWithdrawn
  BY <1>5, Once_Stays DEF DropWithdrawn, Remaining
<1>6. CASE DropDone
  BY <1>6, Once_Stays DEF DropDone, Remaining
<1>7. ASSUME NEW recs, NEW cause, StartMove(recs, cause), pc \in {"build", "wait"}
      PROVE  Once'
  <2>1. \A b \in BatchIds : rejected'[b].recs = rejected[b].recs
    BY <1>0, <1>7, RecsOf, Typed DEF StartMove
  <2>2. Remaining \subseteq Remaining'
    BY <1>7 DEF StartMove, Remaining
  <2> QED
    BY <1>7, <2>1, <2>2, Once_Stays DEF StartMove
<1>8. CASE Build
  <2>1. CASE StartMove(batch \cap Bad, "unreadable")
    BY <1>7, <1>8, <2>1 DEF Build
  <2>2. CASE pc' = "offer" /\ UNCHANGED <<machine, batch, refused, cmd, history>>
    BY <1>8, <2>2, Once_Stays DEF Build, Remaining
  <2> QED
    BY <1>8, <2>1, <2>2 DEF Build
<1>9. ASSUME NEW r \in Records, CopyRecord(r) PROVE Once'
  <2>1. /\ lease.id \in BatchIds /\ lease.id = pending.id /\ Pinned /\ pc = "copy"
        /\ r \in moving /\ moving \subseteq batch /\ batch \subseteq pending.recs
        /\ r \in Bad \/ pending.id \in refused
    BY <1>0, <1>9, Typed DEF CopyRecord, LeaseInv, PlaceInv, Moving
  <2>2. \A b \in BatchIds : rejected'[b].recs =
          IF b = pending.id THEN rejected[b].recs \cup {r} ELSE rejected[b].recs
    <3>1. rejected' = [rejected EXCEPT ![lease.id].recs = rejected[lease.id].recs \cup {r}]
      BY <1>9 DEF CopyRecord
    <3> QED
      BY <1>0, <2>1, <3>1 DEF TypeOK, Directories
  <2>3. UNCHANGED <<spool, pending, pc, batch, refused, offered, cmd, torn, cut>>
    BY <1>9 DEF CopyRecord
  <2>4. r \in batch /\ r \in pending.recs
    BY <2>1
  <2>5. PlacesInv'
    <3>1. ASSUME NEW x \in (spool \ Bad) \ cut, NEW b \in BatchIds, x \in rejected'[b].recs
          PROVE  Held(b, x) \/ (b = pending.id /\ b \in refused /\ x \in pending.recs)
      <4>1. CASE x \in rejected[b].recs
        BY <1>0, <3>1, <4>1 DEF PlacesInv
      <4>2. CASE x = r /\ b = pending.id
        BY <2>1, <2>4, <3>1, <4>2
      <4> QED
        BY <2>2, <3>1, <4>1, <4>2
    <3>2. ASSUME NEW x \in (pending.recs \ Bad) \ cut, NEW b \in BatchIds,
                 x \in rejected'[b].recs
          PROVE  Held(b, x) \/ (b = pending.id /\ b \in refused)
      <4>1. CASE x \in rejected[b].recs
        BY <1>0, <2>1, <3>2, <4>1 DEF PlacesInv
      <4>2. CASE x = r /\ b = pending.id
        BY <2>1, <3>2, <4>2
      <4> QED
        BY <2>2, <3>2, <4>1, <4>2
    <3>3. ASSUME NEW x \in Records \ Bad, x \notin cut, NEW b \in BatchIds, NEW c \in BatchIds,
                 b # c, x \in rejected'[b].recs, x \in rejected'[c].recs
          PROVE  Held(b, x) \/ Held(c, x)
      <4>1. CASE x \in rejected[b].recs /\ x \in rejected[c].recs
        BY <1>0, <3>3, <4>1, InQuarantine DEF PlacesInv
      <4>2. CASE x = r /\ pending.id \in {b, c}
        BY <1>0, <2>1, <2>2, <2>4, <3>3, <4>2 DEF PlacesInv
      <4> QED
        BY <2>2, <3>3, <4>1, <4>2
    <3>4. Quarantined' \subseteq Records
      <4>1. \A b \in BatchIds : rejected[b].recs \subseteq Records
        BY <1>0, Typed
      <4>2. \A b \in BatchIds : rejected'[b].recs \subseteq Records
        BY <2>2, <4>1
      <4> QED
        BY <4>2, InQuarantine
    <3> QED
      BY <2>3, <3>1, <3>2, <3>3, <3>4 DEF PlacesInv, Held, Pinned
  <2>6. RemainingInv'
    <3>1. ASSUME NEW x \in ((pending.recs \cap spool) \ Bad) \ cut,
                 pending.id \in refused =>
                   x \in rejected'[pending.id].recs /\ ~Held(pending.id, x)
          PROVE  x \in batch
      <4>1. CASE x = r
        BY <2>4, <4>1
      <4>2. CASE x # r
        BY <1>0, <2>1, <2>2, <3>1, <4>2 DEF RemainingInv, Remaining
      <4> QED
        BY <4>1, <4>2
    <3>2. Remaining' = batch
      BY <2>1, <2>3 DEF Remaining
    <3> QED
      BY <2>3, <3>1, <3>2 DEF RemainingInv, Held
  <2>7. SentInv'
    <3>1. ASSUME NEW b \in BatchIds \ refused, NEW x \in offered[b] \ cut, NEW c \in BatchIds,
                 x \in rejected'[c].recs
          PROVE  Held(c, x)
      <4>1. x \notin Bad
        BY <1>0, <3>1 DEF ServiceInv
      <4>2. CASE x \in rejected[c].recs
        BY <1>0, <3>1, <4>2 DEF SentInv
      <4>3. CASE x = r /\ c = pending.id
        BY <1>0, <2>1, <2>4, <3>1, <4>1, <4>3 DEF SentInv
      <4> QED
        BY <2>2, <3>1, <4>2, <4>3
    <3> QED
      BY <1>0, <2>3, <3>1 DEF SentInv, Held, Pinned
  <2>8. SentIsPinned'
    BY <1>0, <2>3 DEF SentIsPinned
  <2> QED
    BY <2>5, <2>6, <2>7, <2>8 DEF Once
<1>10. CASE WriteReason
  <2>1. \A b \in BatchIds : rejected'[b].recs = rejected[b].recs
    BY <1>0, <1>10, RecsOf, Typed DEF WriteReason
  <2> QED
    BY <1>10, <2>1, Once_Stays DEF WriteReason, Remaining
<1>11. CASE MoveDone
  BY <1>11, Once_Stays DEF MoveDone, Remaining
<1>12. CASE Offer
  <2>1. /\ lease.id \in BatchIds /\ lease.id = pending.id /\ pending.state = "pinned"
        /\ batch \subseteq pending.recs /\ batch \cap Bad = {}
    BY <1>0, <1>12, Typed DEF Offer, LeaseInv, PlaceInv, Pinned
  <2>2. /\ UNCHANGED <<spool, pending, rejected, batch, refused, cmd, torn, cut>>
        /\ pc = "offer" /\ pc' = "wait"
    BY <1>12 DEF Offer
  <2>3. \A b \in BatchIds : offered'[b] =
          IF b = pending.id THEN offered[b] \cup batch ELSE offered[b]
    BY <1>0, <1>12, <2>1, Typed DEF Offer
  <2>4. PlacesInv' /\ RemainingInv'
    BY <1>0, <2>2, InQuarantine DEF PlacesInv, RemainingInv, Remaining, Held, Pinned
  <2>5. SentInv'
    <3> SUFFICES ASSUME NEW b \in BatchIds \ refused, NEW r \in offered'[b] \ cut
                 PROVE  /\ \A c \in BatchIds : r \in rejected[c].recs => Held(c, r)
                        /\ Pinned /\ r \in pending.recs => b = pending.id
                        /\ \A c \in BatchIds \ refused : r \in offered'[c] => b = c
      BY <2>2 DEF SentInv, Held, Pinned
    <3>1. CASE r \in offered[b]
      BY <1>0, <2>1, <2>3, <3>1 DEF SentInv, Pinned
    <3>2. CASE b = pending.id /\ r \in batch
      BY <1>0, <2>1, <2>3, <3>2 DEF SentInv, PlacesInv, Pinned
    <3> QED
      BY <2>3, <3>1, <3>2
  <2>6. SentIsPinned'
    BY <1>0, <2>1, <2>2, <2>3, ZenonT(30) DEF SentIsPinned
  <2> QED
    BY <2>4, <2>5, <2>6 DEF Once
<1>13. ASSUME NEW loop \in {"drop", "remove", "settle"}, NEW r \in Records,
              DeleteFile(loop, r)
       PROVE  Once'
  <2>1. /\ UNCHANGED <<pending, rejected, pc, batch, moving, refused, offered, cmd, torn, cut>>
        /\ todo' = todo \ {r} /\ spool' = spool \ {r}
    BY <1>13 DEF DeleteFile
  <2>2. PlacesInv'
    BY <1>0, <2>1, InQuarantine DEF PlacesInv, Held, Pinned
  <2>3. RemainingInv'
    BY <1>0, <2>1 DEF RemainingInv, Remaining, Held
  <2>4. SentInv' /\ SentIsPinned'
    BY <1>0, <2>1 DEF SentInv, SentIsPinned, Held, Pinned
  <2> QED
    BY <2>2, <2>3, <2>4 DEF Once
<1>14. CASE Acknowledged
  BY <1>14, Once_Stays DEF Acknowledged, Remaining
<1>15. CASE SettleDone
  BY <1>15, Once_Stays DEF SettleDone, Remaining
<1>16. CASE Rejected
  BY <1>7, <1>16 DEF Rejected
<1>17. CASE Clear
  <2>1. /\ UNCHANGED <<spool, rejected, refused, offered, cmd, torn, cut>>
        /\ pc = "clear" /\ pc' = "idle" /\ pending' = NoPending
    BY <1>17 DEF Clear, Forgotten
  <2>2. \A r \in ((pending.recs \cap spool) \ Bad) \ cut :
          pending.id \in refused
            /\ ~(r \in rejected[pending.id].recs /\ ~Held(pending.id, r))
    BY <1>0, <2>1 DEF RemainingInv, Remaining
  <2>3. PlacesInv'
    BY <1>0, <2>1, <2>2, InQuarantine DEF PlacesInv, Held, Pinned, NoPending
  <2>4. RemainingInv' /\ SentInv'
    BY <1>0, <2>1 DEF RemainingInv, SentInv, Held, Pinned, NoPending
  <2>5. SentIsPinned'
    BY <1>0, <2>1, <2>2 DEF SentIsPinned, ServiceInv
  <2> QED
    BY <2>3, <2>4, <2>5 DEF Once
<1> QED
  BY <1>1, <1>2, <1>3, <1>4, <1>5, <1>6, <1>8, <1>9, <1>10, <1>11, <1>12,
     <1>13, <1>14, <1>15, <1>16, <1>17 DEF Flush


\* A command puts no sent record back to be offered again.
LEMMA Command_Once == Core /\ Once /\ Command => Once'
<1> SUFFICES ASSUME Core, Once, Command PROVE Once'
  OBVIOUS
<1>0. /\ TypeOK /\ LeaseInv /\ CmdInv /\ ServiceInv
      /\ PlacesInv /\ RemainingInv /\ SentInv /\ SentIsPinned
      /\ rejected \in [BatchIds -> Directories] /\ cmd \in Cmds
  BY DEF Core, TypeOK, Once
<1>a. /\ UNCHANGED <<pending, pc, batch, todo, moving, offered, torn, refused>>
      /\ cut \subseteq cut'
      /\ \A b \in BatchIds : rejected'[b].recs \subseteq rejected[b].recs
  BY <1>0, CommandFrame DEF memory, service
<1> USE DEF machine, memory, service, history, Cmds, Held
<1> DEFINE Keeps == \A b \in BatchIds : \A r \in rejected'[b].recs \ cut' : Held(b, r) => Held(b, r)'
<1>b. ASSUME spool' \subseteq spool, Keeps PROVE Once'
  BY <1>a, <1>b, Once_Fewer
<1>1. ASSUME NEW b \in BatchIds, StartRequeue(b) PROVE Once'
  BY <1>0, <1>1, <1>b DEF StartRequeue, CmdInv, NoCmd
<1>2. ASSUME NEW b \in BatchIds, Discard(b) PROVE Once'
  BY <1>2, <1>b DEF Discard
<1>3. ASSUME NEW b \in BatchIds, PurgeDir(b) PROVE Once'
  BY <1>0, <1>3, <1>b DEF PurgeDir, CmdInv
<1>4. ASSUME NEW r \in Records, Respool(r) PROVE Once'
  <2>1. CASE spool' = spool
    BY <1>0, <1>4, <1>b, <2>1 DEF Respool
  <2>2. CASE /\ r \in rejected[cmd.dir].recs \ Unparsable
             /\ spool' = spool \cup {r}
    <3>1. /\ cmd.dir \in BatchIds /\ cmd.hold = {} /\ cmd'.dir = cmd.dir /\ cmd'.hold = {r}
          /\ UNCHANGED <<pending, rejected, cut>>
      BY <1>0, <1>4, <2>2, CmdFields DEF Respool, CmdInv
    <3>2. PlacesInv'
      BY <1>0, <1>a, <2>2, <3>1, InQuarantine DEF PlacesInv, Pinned
    <3>3. RemainingInv'
      BY <1>0, <1>a, <2>2, <3>1 DEF RemainingInv, Remaining, PlacesInv, LeaseInv
    <3>4. SentInv'
      BY <1>0, <1>a, <3>1 DEF SentInv, Pinned
    <3>5. SentIsPinned'
      BY <1>0, <1>a, <2>2, <3>1 DEF SentIsPinned, SentInv
    <3> QED
      BY <3>2, <3>3, <3>4, <3>5 DEF Once
  <2> QED
    BY <1>4, <2>1, <2>2 DEF Respool
<1>5. ASSUME NEW r \in Records, PurgeSpool(r) PROVE Once'
  BY <1>0, <1>5, <1>b DEF PurgeSpool, CmdInv
<1>6. ASSUME NEW s \in Sessions, StartForget(s) PROVE Once'
  BY <1>0, <1>6, <1>b DEF StartForget, StartPurge, CmdInv, NoCmd
<1>7. ASSUME NEW p \in Projects, StartDisable(p) PROVE Once'
  BY <1>0, <1>7, <1>b DEF StartDisable, StartPurge, CmdInv, NoCmd
<1>8. ASSUME NEW p \in Projects, Enable(p) PROVE Once'
  BY <1>8, <1>b DEF Enable
<1>9. CASE RemoveCopy
  <2>1. cmd.dir \in BatchIds
    BY <1>0, <1>9, CmdFields DEF RemoveCopy, CmdInv
  <2>2. rejected'[cmd.dir].recs = rejected[cmd.dir].recs \ cmd.hold
    BY <1>0, <1>9, <2>1 DEF RemoveCopy, Directories
  <2> QED
    BY <1>9, <1>b, <2>2 DEF RemoveCopy
<1>10. CASE RequeueDone
  BY <1>0, <1>10, <1>b DEF RequeueDone
<1>11. CASE SweepFails
  BY <1>0, <1>11, <1>b DEF SweepFails
<1>12. CASE PurgeList
  BY <1>0, <1>12, <1>b DEF PurgeList, CmdInv
<1>13. CASE PurgeRemoveDir
  BY <1>0, <1>13, <1>b DEF PurgeRemoveDir, CmdInv
<1>14. CASE PurgeDone
  BY <1>0, <1>14, <1>b DEF PurgeDone, CmdInv
<1>15. CASE CmdDies
  BY <1>15, <1>b DEF CmdDies
<1> QED
  BY <1>1, <1>2, <1>3, <1>4, <1>5, <1>6, <1>7, <1>8, <1>9, <1>10, <1>11, <1>12,
     <1>13, <1>14, <1>15 DEF Command

\* Once torn, torn for good.
LEMMA TornStays == Core /\ torn /\ [Next]_vars => torn'
<1> SUFFICES ASSUME Core, torn, [Next]_vars PROVE torn'
  OBVIOUS
<1> USE DEF history
<1>1. CASE Flush
  BY <1>1, Flush_Cmd
<1>2. CASE Recorder \/ Network
  BY <1>2 DEF Recorder, Decide, Store, Network, Deliver, Lose
<1>3. CASE Command
  BY <1>3, CommandFrame DEF Core
<1>4. CASE Abort \/ Tear \/ UNCHANGED vars
  BY <1>4 DEF Abort, Tear, vars
<1> QED
  BY <1>1, <1>2, <1>3, <1>4 DEF Next

\* Every step keeps the single id, until a pending record tears.
LEMMA Next_OnceInv == Core /\ OnceInv /\ [Next]_vars => OnceInv'
<1> SUFFICES ASSUME Core, Once, ~torn, ~torn', [Next]_vars PROVE Once'
  BY TornStays DEF OnceInv
<1>0. /\ TypeOK /\ LeaseInv /\ ServiceInv
      /\ PlacesInv /\ RemainingInv /\ SentInv /\ SentIsPinned
  BY DEF Core, Once
<1> USE DEF machine, memory, service, history
<1>1. ASSUME NEW r \in Records, Decide(r) PROVE Once'
  BY <1>1, Once_Fewer DEF Decide, Held
<1>2. ASSUME NEW r \in Records, Store(r) PROVE Once'
  <2>1. UNCHANGED <<pending, rejected, pc, batch, todo, moving, refused, offered, cmd, torn, cut>>
        /\ spool' = spool \cup {r} /\ r \notin captured
    BY <1>0, <1>2 DEF Store, LeaseInv
  <2>2. \A b \in BatchIds : r \notin rejected[b].recs
    BY <1>0, <2>1, InQuarantine DEF LeaseInv
  <2>3. PlacesInv' /\ SentInv'
    BY <1>0, <2>1, <2>2, InQuarantine DEF PlacesInv, SentInv, Held, Pinned
  <2>4. RemainingInv'
    BY <1>0, <2>1 DEF RemainingInv, Remaining, Held, LeaseInv
  <2>5. SentIsPinned'
    BY <1>0, <2>1 DEF SentIsPinned, LeaseInv
  <2> QED
    BY <2>3, <2>4, <2>5 DEF Once
<1>3. CASE Network
  <2>1. UNCHANGED <<machine, pc, batch, todo, moving, offered, cmd, torn, cut>>
        /\ refused \subseteq refused'
    BY <1>3 DEF Network, Deliver, Lose
  <2> QED
    BY <2>1, Once_Fewer DEF Held
<1>4. CASE Abort
  BY <1>4, Once_Stays DEF Abort, Forgotten
<1>5. CASE Tear
  BY <1>5 DEF Tear
<1>6. CASE UNCHANGED vars
  BY <1>6, Once_Fewer DEF vars, Held
<1> QED
  BY <1>1, <1>2, <1>3, <1>4, <1>5, <1>6, Flush_Once, Command_Once DEF Next, Recorder

-----------------------------------------------------------------------------
(* Withdrawn records are held back.                                         *)

LEMMA Flush_Consent == ConsentInv /\ Flush => ConsentInv'
<1> SUFFICES ASSUME ConsentInv, Flush PROVE ConsentInv'
  OBVIOUS
<1> USE DEF ConsentInv, Attributed, machine, memory, service, history
<1>1. CASE Resume
  BY <1>1 DEF Resume, TakeUp
<1>2. CASE ReleaseEmpty
  BY <1>2 DEF ReleaseEmpty, NoPending
<1>3. CASE DiscardUnreadablePending
  BY <1>3 DEF DiscardUnreadablePending, NoPending
<1>4. ASSUME NEW b \in BatchIds, NEW entries \in SUBSET Records, OpenLease(b, entries)
      PROVE  ConsentInv'
  BY <1>4 DEF OpenLease, TakeUp
<1>5. CASE DropWithdrawn
  BY <1>5 DEF DropWithdrawn
<1>6. CASE DropDone
  BY <1>6 DEF DropDone
<1>7. CASE Build
  BY <1>7 DEF Build, StartMove
<1>8. ASSUME NEW r \in Records, CopyRecord(r) PROVE ConsentInv'
  BY <1>8 DEF CopyRecord
<1>9. CASE WriteReason
  BY <1>9 DEF WriteReason
<1>10. CASE MoveDone
  BY <1>10 DEF MoveDone
<1>11. CASE Offer
  BY <1>11 DEF Offer
<1>12. ASSUME NEW loop \in {"drop", "remove", "settle"}, NEW r \in Records,
              DeleteFile(loop, r)
       PROVE  ConsentInv'
  BY <1>12 DEF DeleteFile
<1>13. CASE Acknowledged
  BY <1>13 DEF Acknowledged
<1>14. CASE SettleDone
  BY <1>14 DEF SettleDone
<1>15. CASE Rejected
  BY <1>15 DEF Rejected, StartMove
<1>16. CASE Clear
  BY <1>16 DEF Clear, Forgotten, NoPending, NoLease
<1> HIDE DEF ConsentInv
<1> QED
  BY <1>1, <1>2, <1>3, <1>4, <1>5, <1>6, <1>7, <1>8, <1>9, <1>10, <1>11, <1>12,
     <1>13, <1>14, <1>15, <1>16 DEF Flush

\* Every step keeps withdrawn records from being offered.
LEMMA Next_Consent == Core /\ ConsentInv /\ [Next]_vars => ConsentInv'
<1> SUFFICES ASSUME Core, ConsentInv, [Next]_vars PROVE ConsentInv'
  OBVIOUS
<1> USE DEF ConsentInv, machine, memory, service, history
<1>1. CASE Recorder \/ Network
  BY <1>1 DEF Recorder, Decide, Store, Network, Deliver, Lose
<1>2. CASE Command
  <2>1. UNCHANGED memory
    BY <1>2, CommandFrame DEF Core
  <2>2. /\ deniedSince' \subseteq deniedSince /\ deniedSince' \subseteq withdrawn'
    BY <1>2 DEF Command, StartRequeue, Discard, PurgeDir, Respool, PurgeSpool, StartForget,
                StartDisable, Enable, RemoveCopy, RequeueDone, SweepFails, PurgeList,
                PurgeRemoveDir, PurgeDone, CmdDies
  <2> QED
    BY <2>1, <2>2
<1>3. CASE Abort \/ Tear \/ UNCHANGED vars
  BY <1>3 DEF Abort, Forgotten, Tear, vars
<1> HIDE DEF ConsentInv
<1> QED
  BY <1>1, <1>2, <1>3, Flush_Consent DEF Next

-----------------------------------------------------------------------------
(* Where the entries in hand are.                                           *)

LEMMA Flush_Hand == Core /\ HandInv /\ Flush => HandInv'
<1> SUFFICES ASSUME Core, HandInv, Flush PROVE HandInv'
  OBVIOUS
<1>0. LeaseInv /\ PlaceInv
  BY DEF Core
<1> USE DEF HandInv, LeaseInv, PlaceInv, Moving, machine, memory, service, history
<1>1. CASE Resume
  BY <1>0, <1>1 DEF Resume, TakeUp
<1>2. CASE ReleaseEmpty
  BY <1>0, <1>2 DEF ReleaseEmpty, NoPending
<1>3. CASE DiscardUnreadablePending
  BY <1>0, <1>3 DEF DiscardUnreadablePending, NoPending
<1>4. ASSUME NEW b \in BatchIds, NEW entries \in SUBSET Records, OpenLease(b, entries)
      PROVE  HandInv'
  BY <1>0, <1>4 DEF OpenLease, TakeUp
<1>5. CASE DropWithdrawn
  BY <1>0, <1>5 DEF DropWithdrawn
<1>6. CASE DropDone
  BY <1>0, <1>6 DEF DropDone
<1>7. CASE Build
  BY <1>0, <1>7 DEF Build, StartMove
<1>8. ASSUME NEW r \in Records, CopyRecord(r) PROVE HandInv'
  BY <1>0, <1>8 DEF CopyRecord
<1>9. CASE WriteReason
  BY <1>0, <1>9 DEF WriteReason
<1>10. CASE MoveDone
  BY <1>0, <1>10 DEF MoveDone
<1>11. CASE Offer
  BY <1>0, <1>11 DEF Offer
<1>12. ASSUME NEW loop \in {"drop", "remove", "settle"}, NEW r \in Records,
              DeleteFile(loop, r)
       PROVE  HandInv'
  BY <1>0, <1>12 DEF DeleteFile
<1>13. CASE Acknowledged
  BY <1>0, <1>13 DEF Acknowledged
<1>14. CASE SettleDone
  BY <1>0, <1>14 DEF SettleDone
<1>15. CASE Rejected
  BY <1>0, <1>15 DEF Rejected, StartMove
<1>16. CASE Clear
  BY <1>0, <1>16 DEF Clear, Forgotten, NoPending, NoLease
<1> HIDE DEF HandInv
<1> QED
  BY <1>1, <1>2, <1>3, <1>4, <1>5, <1>6, <1>7, <1>8, <1>9, <1>10, <1>11, <1>12,
     <1>13, <1>14, <1>15, <1>16 DEF Flush

\* A command keeps the entries in hand where Delivery needs them.
LEMMA Command_Hand == Core /\ HandInv /\ Command => HandInv'
<1> SUFFICES ASSUME Core, HandInv, Command PROVE HandInv'
  OBVIOUS
<1>0. /\ TypeOK /\ LeaseInv /\ PlaceInv /\ CmdInv /\ cmd \in Cmds
  BY DEF Core, TypeOK
<1>1. /\ UNCHANGED <<captured, pc, batch, moving>>
      /\ spool \subseteq spool' \cup deleted' /\ deleted \subseteq deleted'
  BY <1>0, CommandFrame DEF memory
<1>2. deleted' \subseteq captured
  <2>1. \A b \in BatchIds : rejected[b].recs \subseteq captured
    BY <1>0, InQuarantine DEF LeaseInv
  <2> QED
    BY <1>0, <2>1 DEF HandInv, LeaseInv, history, machine,
        Command, StartRequeue, Discard, PurgeDir, Respool, PurgeSpool, StartForget,
        StartDisable, Enable, RemoveCopy, RequeueDone, SweepFails, PurgeList,
        PurgeRemoveDir, PurgeDone, CmdDies
<1>3. overlapped' \subseteq captured
  <2>1. \A b \in BatchIds : Overlaps(b) \subseteq captured
    BY <1>0 DEF Overlaps, MovingInto, PlaceInv, Moving, LeaseInv
  <2> QED
    BY <2>1 DEF HandInv, history,
        Command, StartRequeue, Discard, PurgeDir, Respool, PurgeSpool, StartForget,
        StartDisable, Enable, RemoveCopy, RequeueDone, SweepFails, PurgeList,
        PurgeRemoveDir, PurgeDone, CmdDies
<1>4. \A r, q \in cmd'.hold : r = q
  <2> DEFINE Single == \A r, q \in cmd'.hold : r = q
  <2>1. cmd'.hold = cmd.hold => Single
    BY DEF HandInv
  <2>2. ASSUME NEW b \in BatchIds, StartRequeue(b) \/ Discard(b) \/ PurgeDir(b) PROVE Single
    BY <1>0, <2>1, <2>2 DEF StartRequeue, Discard, PurgeDir, NoCmd, Cmds
  <2>3. ASSUME NEW r \in Records, Respool(r) \/ PurgeSpool(r) PROVE Single
    <3>1. cmd'.hold \in {{r}, cmd.hold}
      BY <1>0, <2>3 DEF Respool, PurgeSpool, Cmds
    <3> QED
      BY <2>1, <3>1
  <2>4. ASSUME NEW s \in Sessions, StartForget(s) PROVE Single
    BY <2>4 DEF StartForget, StartPurge, NoCmd
  <2>5. ASSUME NEW p \in Projects, StartDisable(p) \/ Enable(p) PROVE Single
    BY <2>1, <2>5 DEF StartDisable, StartPurge, Enable, NoCmd
  <2>6. ASSUME RemoveCopy \/ RequeueDone \/ PurgeDone \/ CmdDies PROVE Single
    BY <1>0, <2>6 DEF RemoveCopy, RequeueDone, PurgeDone, CmdDies, NoCmd, Cmds
  <2>7. ASSUME SweepFails \/ PurgeList \/ PurgeRemoveDir PROVE Single
    BY <1>0, <2>1, <2>7 DEF SweepFails, PurgeList, PurgeRemoveDir, Cmds
  <2> HIDE DEF Single
  <2>8. Single
    BY <2>2, <2>3, <2>4, <2>5, <2>6, <2>7 DEF Command
  <2> QED
    BY <2>8 DEF Single
<1> QED
  BY <1>1, <1>2, <1>3, <1>4 DEF HandInv

\* So does every step.
LEMMA Next_Hand == Core /\ HandInv /\ [Next]_vars => HandInv'
<1> SUFFICES ASSUME Core, HandInv, [Next]_vars PROVE HandInv'
  OBVIOUS
<1> USE DEF HandInv, machine, memory, service, history
<1>1. CASE Recorder
  BY <1>1 DEF Recorder, Decide, Store
<1>2. CASE Network
  BY <1>2 DEF Network, Deliver, Lose
<1>3. CASE Abort \/ Tear \/ UNCHANGED vars
  BY <1>3 DEF Abort, Forgotten, Tear, vars
<1> HIDE DEF HandInv
<1> QED
  BY <1>1, <1>2, <1>3, Flush_Hand, Command_Hand DEF Next

-----------------------------------------------------------------------------
(* The theorems. *)

LEMMA Init_IInv == Init => IInv
<1> SUFFICES ASSUME Init PROVE IInv
  OBVIOUS
<1>1. Core
  BY Init_Core
<1>2. CoverInv /\ Kept /\ Quarantined = {}
  BY DEF Init, CoverInv, Kept, MovedInv, RemovalInv, NothingLost, Moving, Pinned,
         NoPending, NoCmd, NoDirectory, Quarantined
<1>3. Once
  BY <1>2 DEF Init, Once, PlacesInv, RemainingInv, SentInv, SentIsPinned, Pinned,
              NoPending, NoDirectory
<1>4. ConsentInv /\ HandInv
  BY DEF Init, ConsentInv, HandInv, NoCmd
<1> QED
  BY <1>1, <1>2, <1>3, <1>4 DEF IInv, OnceInv

\* Every step keeps the inductive invariant.
LEMMA Next_IInv == IInv /\ [Next]_vars => IInv'
  BY Next_Core, Next_Cover, Next_Kept, Next_OnceInv, Next_Consent, Next_Hand DEF IInv

\* The inductive invariant says no record is under two ids.
LEMMA IInv_AtMostOnce == IInv => AtMostOnce
<1> SUFFICES ASSUME Core, Once, ~torn, NEW b \in BatchIds, NEW c \in BatchIds, b # c,
                    NEW r \in stored[b], r \in stored[c]
             PROVE  r \in cut
  BY DEF IInv, OnceInv, AtMostOnce
<1>1. b \notin refused /\ c \notin refused /\ r \in offered[b] /\ r \in offered[c]
  BY DEF Core, ServiceInv
<1> QED
  BY <1>1 DEF Once, SentInv

\* The inductive invariant holds in every state of the uploader.
THEOREM UploaderInvariance == Spec => []IInv
  BY Init_IInv, Next_IInv, PTL DEF Spec

\* NothingLost: whatever the uploader, the service, a failure and a command do
\* in whatever order, a captured record is in the spool, quarantined, stored by
\* the service, deleted by the user's word, or was overlapped by a command.
THEOREM NoRecordLost == Spec => []NothingLost
<1>1. IInv => NothingLost
  BY DEF IInv, Kept
<1> QED
  BY <1>1, UploaderInvariance, PTL

\* AtMostOnce: no record is stored under two batch ids, however attempts are
\* lost, repeated and delayed, while the pending record parses and no requeue
\* dies between its two steps.
THEOREM NoRecordTwice == Spec => []AtMostOnce
  BY IInv_AtMostOnce, UploaderInvariance, PTL

\* OnlyMaskedLeaves: a record that does not parse, or that redaction refuses,
\* was never offered under any id.
THEOREM OnlyMaskedOffered == Spec => []OnlyMaskedLeaves
<1>1. IInv => OnlyMaskedLeaves
  BY DEF IInv, Core, ServiceInv, OnlyMaskedLeaves
<1> QED
  BY <1>1, UploaderInvariance, PTL

\* WithdrawnHeldBack: a batch on its way to the service carries no record of a
\* project that was denied when the batch was taken up and is denied still.
THEOREM WithdrawnNotSent == Spec => []WithdrawnHeldBack
<1>1. IInv => WithdrawnHeldBack
  BY DEF IInv, Core, TypeOK, PlaceInv, ConsentInv, Bad, Attributed, WithdrawnHeldBack
<1> QED
  BY <1>1, UploaderInvariance, PTL

\* AckCovers: an acknowledgement settles only records the service stored under
\* the id in hand, or that the user had deleted.
THEOREM AckCoversAll == Spec => []AckCovers
<1>1. IInv => AckCovers
  BY DEF IInv, Core, LeaseInv, PlaceInv, ServiceInv, CoverInv, Sendable, AckCovers
<1> QED
  BY <1>1, UploaderInvariance, PTL

-----------------------------------------------------------------------------
(* Uploader implements Delivery: while the pending record parses and no    *)
(* requeue died between its two steps, each step of the uploader, the      *)
(* service and the commands is a step of Delivery or changes nothing of it.*)
\* The refinement mapping, as Uploader's Promise substitutes it.
Waived == deleted \cup overlapped
Owed   == (spool \cup Quarantined) \ Waived

\* Where the promise is made.
Whole == ~torn /\ cut = {}

-----------------------------------------------------------------------------
(* How often a record is stored.                                            *)

LEMMA CountNone ==
  ASSUME NEW S, NEW r, \A b \in BatchIds : r \notin S[b]
  PROVE  Cardinality({b \in BatchIds : r \in S[b]}) = 0
<1>1. {b \in BatchIds : r \in S[b]} = {}
  OBVIOUS
<1> QED
  BY <1>1, FS_EmptySet

\* A record under one id counts once.
LEMMA CountOne ==
  ASSUME NEW S, NEW r, NEW b \in BatchIds, r \in S[b],
         \A c \in BatchIds : r \in S[c] => c = b
  PROVE  Cardinality({c \in BatchIds : r \in S[c]}) = 1
<1>1. {c \in BatchIds : r \in S[c]} = {b}
  OBVIOUS
<1> QED
  BY <1>1, FS_Singleton

\* A stored record is stored under one id.
LEMMA StoredOnce ==
  ASSUME IInv, Whole, NEW b \in BatchIds, NEW r \in stored[b]
  PROVE  \A c \in BatchIds : r \in stored[c] => c = b
  BY IInv_AtMostOnce DEF Whole, AtMostOnce

-----------------------------------------------------------------------------
(* Steps of Delivery.                                                       *)

LEMMA Promise_Init == Init => Promise!Init
<1> SUFFICES ASSUME Init PROVE Promise!Init
  OBVIOUS
<1>1. Quarantined = {}
  BY DEF Init, Quarantined, NoDirectory
<1>2. \A r \in Records : Cardinality({b \in BatchIds : r \in stored[b]}) = 0
  BY CountNone DEF Init
<1> QED
  BY <1>1, <1>2 DEF Init, Promise!Init

\* Giving up records is a step of Delivery.
LEMMA Promise_Waive ==
  ASSUME NEW gone \in SUBSET Records, UNCHANGED stored,
         Waived' = Waived \cup gone, Owed' = Owed \ gone
  PROVE  Promise!Next
<1>1. Promise!Waive(gone)
  BY DEF Promise!Waive, Owed, Waived
<1> QED
  BY <1>1 DEF Promise!Next

\* A step Delivery does not see is a stutter.
LEMMA Promise_Same ==
  ASSUME UNCHANGED <<stored, Waived, Owed>>
  PROVE  Promise!Next
<1>1. {} \in SUBSET Records /\ Waived' = Waived \cup {} /\ Owed' = Owed \ {}
  OBVIOUS
<1> QED
  BY <1>1, Promise_Waive

\* Letting go of a stored record is a step of Delivery.
LEMMA Promise_Release ==
  ASSUME IInv, Whole, NEW r \in Records, r \in Owed, r \in Stored,
         UNCHANGED <<stored, Waived>>, Owed' = Owed \ {r}
  PROVE  Promise!Next
<1>1. Cardinality({b \in BatchIds : r \in stored[b]}) = 1
  BY InStored, StoredOnce, CountOne
<1>2. Promise!Release(r)
  BY <1>1 DEF Promise!Release, Owed, Waived
<1> QED
  BY <1>2 DEF Promise!Next

\* A file the uploader or a requeue removes from the spool or a directory.
LEMMA Promise_LetGo ==
  ASSUME IInv, Whole, NEW r \in Records, UNCHANGED <<stored, Waived>>,
         Owed' \subseteq Owed, Owed \subseteq Owed' \cup {r},
         r \in spool' \cup Quarantined' \cup Stored \cup Waived
  PROVE  Promise!Next
<1>1. CASE Owed' = Owed
  BY <1>1, Promise_Same
<1>2. CASE r \in Owed /\ r \notin Owed'
  <2>1. r \in Stored
    BY <1>2 DEF Owed
  <2>2. Owed' = Owed \ {r}
    BY <1>2
  <2> QED
    BY <1>2, <2>1, <2>2, Promise_Release
<1> QED
  BY <1>1, <1>2

-----------------------------------------------------------------------------
(* The steps of Uploader, mapped. *)

LEMMA Flush_Promise == IInv /\ Whole /\ Flush => Promise!Next
<1> SUFFICES ASSUME IInv, Whole, Flush PROVE Promise!Next
  OBVIOUS
<1>0. /\ TypeOK /\ LeaseInv /\ PlaceInv /\ ServiceInv /\ CoverInv /\ MovedInv /\ HandInv
      /\ rejected \in [BatchIds -> Directories]
  BY DEF IInv, Core, Kept, TypeOK
<1> USE DEF machine, memory, service, history
<1>a. ASSUME UNCHANGED <<spool, stored, deleted, overlapped>>,
             \A b \in BatchIds : rejected'[b].recs = rejected[b].recs
      PROVE  Promise!Next
  <2>1. UNCHANGED <<Quarantined, Waived>>
    BY <1>a, InQuarantine DEF Waived
  <2> QED
    BY <1>a, <2>1, Promise_Same DEF Owed
<1>1. CASE Resume \/ ReleaseEmpty \/ DiscardUnreadablePending
  BY <1>a, <1>1 DEF Resume, TakeUp, ReleaseEmpty, DiscardUnreadablePending
<1>2. ASSUME NEW b \in BatchIds, NEW entries \in SUBSET Records, OpenLease(b, entries)
      PROVE  Promise!Next
  BY <1>a, <1>2 DEF OpenLease, TakeUp
<1>3. CASE DropWithdrawn
  <2> DEFINE gone == {r \in batch \cap Attributed : ProjectOf[r] \in withdrawn}
  <2>1. gone \in SUBSET Records
    BY <1>0 DEF TypeOK
  <2>2. UNCHANGED <<spool, stored, overlapped, Quarantined>> /\ deleted' = deleted \cup gone
    BY <1>3 DEF DropWithdrawn, Quarantined
  <2> HIDE DEF gone
  <2> QED
    BY <2>1, <2>2, Promise_Waive DEF Owed, Waived
<1>4. CASE DropDone \/ MoveDone \/ Offer \/ Acknowledged \/ SettleDone \/ Clear
  BY <1>a, <1>4 DEF DropDone, MoveDone, Offer, Acknowledged, SettleDone, Clear, Forgotten
<1>5. ASSUME NEW recs \in SUBSET batch, NEW cause, StartMove(recs, cause) PROVE Promise!Next
  <2>1. \A b \in BatchIds : rejected'[b].recs = rejected[b].recs
    BY <1>0, <1>5, RecsOf DEF StartMove
  <2>2. UNCHANGED <<spool, stored, deleted, Quarantined>>
    BY <1>5, <2>1, InQuarantine DEF StartMove
  <2>3. recs \in SUBSET Records
    BY <1>0 DEF TypeOK
  <2>4. CASE cmd.dir = lease.id
    BY <1>5, <2>2, <2>3, <2>4, Promise_Waive DEF StartMove, Owed, Waived
  <2>5. CASE cmd.dir # lease.id
    BY <1>5, <2>2, <2>5, Promise_Same DEF StartMove, Owed, Waived
  <2> QED
    BY <2>4, <2>5
<1>6. CASE Build
  BY <1>a, <1>5, <1>6 DEF Build
<1>7. ASSUME NEW r \in Records, CopyRecord(r) PROVE Promise!Next
  <2>1. lease.id \in BatchIds /\ r \in spool \cup deleted
    BY <1>0, <1>7, Typed DEF CopyRecord, PlaceInv, Moving, HandInv
  <2>2. rejected' = [rejected EXCEPT ![lease.id].recs = rejected[lease.id].recs \cup {r}]
    BY <1>7 DEF CopyRecord
  <2>3. \A b \in BatchIds : rejected'[b].recs =
          IF b = lease.id THEN rejected[b].recs \cup {r} ELSE rejected[b].recs
    BY <1>0, <2>1, <2>2 DEF Directories
  <2>4. Quarantined' = Quarantined \cup {r}
    BY <2>1, <2>3, InQuarantine
  <2>5. UNCHANGED <<spool, stored, deleted, overlapped>>
    BY <1>7 DEF CopyRecord
  <2> QED
    BY <2>1, <2>4, <2>5, Promise_Same DEF Owed, Waived
<1>8. CASE WriteReason
  <2>1. \A b \in BatchIds : rejected'[b].recs = rejected[b].recs
    BY <1>0, <1>8, RecsOf, Typed DEF WriteReason
  <2> QED
    BY <1>a, <1>8, <2>1 DEF WriteReason
<1>9. ASSUME NEW loop \in {"drop", "remove", "settle"}, NEW r \in Records,
             DeleteFile(loop, r)
      PROVE  Promise!Next
  <2>1. UNCHANGED <<stored, Waived, Quarantined>> /\ spool' = spool \ {r}
        /\ pc = loop /\ r \in todo
    BY <1>9 DEF DeleteFile, Waived, Quarantined
  <2>2. r \in Quarantined \cup Stored \cup Waived
    <3>1. CASE pc = "drop"
      BY <1>0, <2>1, <3>1 DEF PlaceInv, Waived
    <3>2. CASE pc = "remove"
      BY <1>0, <2>1, <3>2, Typed, InQuarantine DEF PlaceInv, Moving, MovedInv, Waived
    <3>3. CASE pc = "settle"
      <4>1. r \in stored[lease.id] \cup deleted /\ lease.id \in BatchIds
        BY <1>0, <2>1, <3>3, Typed DEF PlaceInv, LeaseInv, ServiceInv, CoverInv, Sendable
      <4> QED
        BY <4>1, InStored DEF Waived
    <3> QED
      BY <2>1, <3>1, <3>2, <3>3
  <2> QED
    BY <2>1, <2>2, Promise_LetGo DEF Owed
<1>10. CASE Rejected
  BY <1>5, <1>10 DEF Rejected
<1> QED
  BY <1>1, <1>2, <1>3, <1>4, <1>6, <1>7, <1>8, <1>9, <1>10 DEF Flush

\* The recorder implements Delivery.
LEMMA Recorder_Promise == IInv /\ Recorder => Promise!Next
<1> SUFFICES ASSUME IInv, NEW r \in Records, Decide(r) \/ Store(r) PROVE Promise!Next
  BY DEF Recorder
<1> USE DEF machine, memory, service, history
<1>1. CASE Decide(r)
  BY <1>1, Promise_Same DEF Decide, Owed, Waived, Quarantined
<1>2. CASE Store(r)
  <2>1. UNCHANGED <<stored, Waived, Quarantined>> /\ spool' = spool \cup {r}
    BY <1>2 DEF Store, Waived, Quarantined
  <2>2. r \notin spool \cup Quarantined \cup Waived
    BY <1>2 DEF Store, IInv, Core, LeaseInv, HandInv, Waived
  <2>3. \A b \in BatchIds : r \notin stored[b]
    BY <1>2 DEF Store, IInv, Core, LeaseInv, ServiceInv
  <2>4. Promise!Capture(r)
    BY <2>1, <2>2, <2>3, CountNone DEF Promise!Capture, Owed, Waived
  <2> QED
    BY <2>4 DEF Promise!Next
<1> QED
  BY <1>1, <1>2

\* The network and the service implement Delivery.
LEMMA Network_Promise == IInv /\ IInv' /\ Whole /\ Whole' /\ Network => Promise!Next
<1> SUFFICES ASSUME IInv, IInv', Whole, Whole', NEW m \in wire, Deliver(m) \/ Lose(m)
             PROVE  Promise!Next
  BY DEF Network
<1> USE DEF machine, memory, service, history
<1>1. UNCHANGED <<Owed, Waived>>
  BY DEF Deliver, Lose, Owed, Waived, Quarantined
<1>2. CASE UNCHANGED stored
  BY <1>1, <1>2, Promise_Same
<1>3. CASE stored[m.id] = {} /\ m.id \notin refused /\ stored' = [stored EXCEPT ![m.id] = m.recs]
  <2>1. /\ m.id \in BatchIds /\ m.recs \subseteq Records /\ m.recs \subseteq offered[m.id]
        /\ stored \in [BatchIds -> SUBSET Records]
    BY Typed DEF IInv, Core, ServiceInv
  <2>2. \A r \in m.recs : \A b \in BatchIds : r \notin stored[b]
    BY <1>3, <2>1 DEF IInv, Core, ServiceInv, OnceInv, Once, SentInv, Whole
  <2>3. \A r \in m.recs : Cardinality({b \in BatchIds : r \in stored'[b]}) = 1
    <3> SUFFICES ASSUME NEW r \in m.recs
                 PROVE  Cardinality({b \in BatchIds : r \in stored'[b]}) = 1
      OBVIOUS
    <3>1. r \in stored'[m.id] /\ \A c \in BatchIds : r \in stored'[c] => c = m.id
      BY <1>3, <2>1, <2>2
    <3> QED
      BY <2>1, <3>1, CountOne
  <2>4. \A r \in Records \ m.recs : \A b \in BatchIds : r \in stored'[b] <=> r \in stored[b]
    BY <1>3, <2>1
  <2>5. \A r \in Records \ m.recs : {b \in BatchIds : r \in stored'[b]}
                                      = {b \in BatchIds : r \in stored[b]}
    BY <2>4
  <2>6. \A r \in m.recs : Cardinality({b \in BatchIds : r \in stored[b]}) = 0
    BY <2>2, CountNone
  <2>7. Promise!Receive(m.recs)
    BY <1>1, <2>1, <2>3, <2>5, <2>6 DEF Promise!Receive, Owed, Waived
  <2> QED
    BY <2>1, <2>7 DEF Promise!Next
<1> QED
  BY <1>2, <1>3 DEF Deliver, Lose

\* A command implements Delivery.
LEMMA Command_Promise == IInv /\ IInv' /\ Whole /\ Command => Promise!Next
<1> SUFFICES ASSUME IInv, IInv', Whole, Command PROVE Promise!Next
  OBVIOUS
<1>0. TypeOK /\ LeaseInv /\ CmdInv /\ RemovalInv /\ HandInv /\ UNCHANGED stored
  BY CommandFrame DEF IInv, Core, Kept, service
<1>1. Quarantined' \subseteq Quarantined /\ spool' \subseteq spool \cup Quarantined
  BY <1>0, CommandFrame, InQuarantine
<1>2. Waived \subseteq Waived' /\ Waived' \in SUBSET Records
  BY <1>0, CommandFrame DEF Waived, IInv, Core, TypeOK
<1>3. \A r \in spool : r \in spool' \cup Waived'
  BY <1>0, CommandFrame DEF Waived
<1>4. \A b \in BatchIds : \A r \in rejected[b].recs :
        r \in rejected'[b].recs \cup Waived' \/ (cmd.dir = b /\ r \in cmd.hold /\ RemoveCopy)
  BY <1>0, <1>2, CommandTakes DEF Waived
<1>5. CASE ~RemoveCopy
  <2>1. \A r \in Quarantined : r \in Quarantined' \cup Waived'
    BY <1>4, <1>5, InQuarantine
  <2>2. Owed' = Owed \ Waived'
    BY <1>1, <1>2, <1>3, <2>1 DEF Owed
  <2>3. Waived' = Waived \cup Waived'
    BY <1>2
  <2> QED
    BY <1>0, <1>2, <2>2, <2>3, Promise_Waive
<1>6. CASE RemoveCopy
  <2>1. /\ UNCHANGED <<spool, stored, Waived, Stored>>
        /\ cmd.hold # {}
    BY <1>6 DEF RemoveCopy, service, history, Waived, Stored
  <2>2. PICK r : cmd.hold = {r}
    BY <1>0, <2>1 DEF HandInv
  <2>3. r \in Records
    BY <1>0, <2>2, CmdFields DEF TypeOK
  <2>4. \A x \in Quarantined : x \in Quarantined' \cup Waived \cup {r}
    BY <1>4, <2>1, <2>2, InQuarantine
  <2>5. r \in spool \cup Quarantined' \cup Stored \cup Waived
    <3>1. CASE r \in spool \cup Stored \cup deleted \cup overlapped
      BY <3>1 DEF Waived
    <3>2. ASSUME NEW b \in BatchIds \ {cmd.dir}, r \in rejected[b].recs
          PROVE  r \in Quarantined' \cup Waived
      BY <1>4, <2>1, <3>2, InQuarantine
    <3> QED
      BY <1>0, <2>2, <3>1, <3>2 DEF RemovalInv
  <2>6. Owed' \subseteq Owed /\ Owed \subseteq Owed' \cup {r}
    BY <1>1, <2>1, <2>4 DEF Owed
  <2> QED
    BY <2>1, <2>3, <2>5, <2>6, Promise_LetGo
<1> QED
  BY <1>5, <1>6

\* Every step implements a step of Delivery or a stutter.
LEMMA Next_Promise ==
  IInv /\ IInv' /\ Whole /\ Whole' /\ [Next]_vars => [Promise!Next]_(Promise!delivery)
<1> SUFFICES ASSUME IInv, IInv', Whole, Whole', [Next]_vars
             PROVE  [Promise!Next]_(Promise!delivery)
  OBVIOUS
<1>1. CASE Abort \/ UNCHANGED vars
  BY <1>1, Promise_Same DEF Abort, vars, machine, service, history, Owed, Waived, Quarantined
<1>2. CASE Tear
  BY <1>2 DEF Tear, Whole
<1> QED
  BY <1>1, <1>2, Flush_Promise, Recorder_Promise, Network_Promise, Command_Promise DEF Next

-----------------------------------------------------------------------------
(* The theorems. *)

\* The upload path implements Delivery in every behaviour in which the pending
\* record never stops parsing and no requeue dies between its two steps: what
\* is owed is let go of only when the service has it or the user waived it,
\* and no record is received twice.
THEOREM KeepsPromiseWhole == Spec /\ []Whole => KeepsPromise
<1>1. Init => Promise!Init
  BY Promise_Init
<1>2. IInv /\ IInv' /\ Whole /\ Whole' /\ [Next]_vars => [Promise!Next]_(Promise!delivery)
  BY Next_Promise
<1> QED
  BY <1>1, <1>2, UploaderInvariance, PTL DEF Spec, KeepsPromise, Promise!Spec

\* KeepsPromise, where the pending record's bytes stay parsable and no requeue
\* runs: these two switches alone can end the promise.
THEOREM KeepsPromiseWithout ==
  ASSUME ~MayTear, "requeue" \notin Commands
  PROVE  Spec => KeepsPromise
<1> DEFINE Quiet == Whole /\ cmd.op # "requeue"
<1>1. Init => Quiet
  BY DEF Init, Whole, NoCmd
<1>2. IInv /\ Quiet /\ [Next]_vars => Quiet'
  <2> SUFFICES ASSUME IInv, Quiet, [Next]_vars PROVE Quiet'
    OBVIOUS
  <2>0. cmd \in Cmds /\ cmd.hold = {} /\ TypeOK /\ CmdInv
    BY DEF IInv, Core, TypeOK, CmdInv
  <2> USE DEF Whole, history
  <2>1. CASE Flush
    BY <2>0, <2>1, Flush_Cmd
  <2>2. CASE Recorder \/ Network
    BY <2>2 DEF Recorder, Decide, Store, Network, Deliver, Lose
  <2>3. CASE Command
    <3>1. ~torn'
      BY <2>0, <2>3, CommandFrame
    <3>2. ASSUME NEW b \in BatchIds, StartRequeue(b) \/ Discard(b) \/ PurgeDir(b) PROVE Quiet'
      BY <2>0, <3>1, <3>2 DEF StartRequeue, Discard, PurgeDir, Cmds
    <3>3. ASSUME NEW r \in Records, Respool(r) \/ PurgeSpool(r) PROVE Quiet'
      BY <2>0, <3>1, <3>3 DEF Respool, PurgeSpool, Cmds
    <3>4. ASSUME NEW s \in Sessions, StartForget(s) PROVE Quiet'
      BY <3>1, <3>4 DEF StartForget, StartPurge, NoCmd
    <3>5. ASSUME NEW p \in Projects, StartDisable(p) \/ Enable(p) PROVE Quiet'
      BY <3>1, <3>5 DEF StartDisable, StartPurge, Enable, NoCmd
    <3>6. ASSUME RemoveCopy \/ RequeueDone \/ PurgeDone \/ CmdDies PROVE Quiet'
      BY <2>0, <3>1, <3>6 DEF RemoveCopy, RequeueDone, PurgeDone, CmdDies, NoCmd
    <3>7. ASSUME SweepFails \/ PurgeList \/ PurgeRemoveDir PROVE Quiet'
      BY <2>0, <3>1, <3>7 DEF SweepFails, PurgeList, PurgeRemoveDir, Cmds
    <3> HIDE DEF Quiet
    <3> QED
      BY <2>3, <3>2, <3>3, <3>4, <3>5, <3>6, <3>7 DEF Command
  <2>4. CASE Abort \/ Tear \/ UNCHANGED vars
    BY <2>4 DEF Abort, Tear, vars
  <2> QED
    BY <2>1, <2>2, <2>3, <2>4 DEF Next
<1>3. Quiet => Whole
  OBVIOUS
<1> HIDE DEF Quiet
<1>4. Spec => []Whole
  BY <1>1, <1>2, <1>3, UploaderInvariance, PTL DEF Spec
<1> QED
  BY <1>4, KeepsPromiseWhole, PTL
=============================================================================
