------------------------------- MODULE Spool -------------------------------
(***************************************************************************)
(* The spool: record files in three slots, an index line beside each file  *)
(* of the two slots that are uploaded, one quota over those two, and the   *)
(* figure each handle keeps of how full they are.  Handles are in several  *)
(* processes with no lock between them: a handle's own mutex orders its    *)
(* operations, and every step another handle can see is an action here.    *)
(*                                                                         *)
(* The figure is kept current by a signature of the directories: their     *)
(* names and modification times.  fresh says the signature a handle holds  *)
(* is that of the directories as they are.  A change within one tick of    *)
(* the file system's clock leaves it so, and a line appended to an index   *)
(* that is already there always does.                                      *)
(*                                                                         *)
(* Days are left out: every slot has one day directory.  A rawcall's id is *)
(* never written twice.                                                    *)
(***************************************************************************)
EXTENDS Integers, FiniteSets, FiniteSetsExt, Sequences

CONSTANTS
  Handles,   \* handles on the spool directory, each in a process of its own
  Writers,   \* those that store records; every handle deletes
  Records,   \* rawcalls and second-slot records
  NoRecord,  \* not one of them
  Rawcalls,  \* the rawcalls among them
  Projects,  \* what a deletion addresses
  Sessions,
  ProjectOf, \* the project and the session of each record
  SessionOf,
  Size,      \* the bytes of each record
  LineSize,  \* the bytes of one index line
  Quota,     \* the limit, in bytes
  Holds,     \* may records be held back and released?
  MayCrash   \* may a handle's process die?

ASSUME SpoolConstants ==
  /\ IsFiniteSet(Records) /\ NoRecord \notin Records /\ IsFiniteSet(Handles)
  /\ Rawcalls \subseteq Records /\ Writers \subseteq Handles
  /\ ProjectOf \in [Records -> Projects] /\ SessionOf \in [Records -> Sessions]
  /\ Size \in [Records -> Nat]
  /\ LineSize \in Nat /\ Quota \in Nat
  /\ Holds \in BOOLEAN /\ MayCrash \in BOOLEAN

VARIABLES
  files,   \* <<record, slot>> of every record file
  lines,   \* records with a line in the index of their slot
  temps,   \* records whose writer died before the rename
  handle,  \* what each handle is doing, and its figure
  begun,   \* history: the files a deletion addresses that were there
  could,   \* history: while a handle looks before it refuses, the bytes
           \* there when it began and those landed since
  owed     \* history: records stored and not deleted since

disk == <<files, lines, temps>>
history == <<begun, could, owed>>
vars == <<disk, handle, history>>

Slots == {"rawcalls", "records", "held"}

\* The slot that counts a record, and keeps a line of it.  The held slot
\* does neither.
HomeOf(r) == IF r \in Rawcalls THEN "rawcalls" ELSE "records"

In(slot) == {r \in Records : <<r, slot>> \in files}

\* What a walk of one slot adds up: its files, what is stranded there, and
\* its index.
BytesIn(slot) ==
  LET filed    == In(slot)
      stranded == {r \in temps : HomeOf(r) = slot}
      listed   == {r \in lines : HomeOf(r) = slot}
  IN  SumFunctionOnSet(Size, filed) + SumFunctionOnSet(Size, stranded)
        + LineSize * Cardinality(listed)

Bytes == BytesIn("rawcalls") + BytesIn("records")

Closed == [pc |-> "closed", rec |-> NoRecord, slot |-> "none", frees |-> FALSE,
           match |-> {}, slots |-> <<>>, todo |-> {}, gone |-> {},
           walk |-> <<>>, sum |-> 0, snap |-> FALSE, then |-> "none",
           usage |-> 0, fresh |-> FALSE]

Init ==
  /\ files = {} /\ lines = {} /\ temps = {}
  /\ handle = [h \in Handles |-> Closed]
  /\ begun = [h \in Handles |-> {}] /\ could = [h \in Handles |-> 0]
  /\ owed = {}

-----------------------------------------------------------------------------
(* Signatures and the walk that derives usage from disk.  The figure of a  *)
(* handle that never writes is never looked at, and is left out.           *)

Charged(h, s, n) == IF h \in Writers THEN [s EXCEPT !.usage = @ + n] ELSE s

Goes(h, s) == handle' = [handle EXCEPT ![h] = s]

\* A change to a directory puts the signature every handle holds or has
\* taken out of date.  A change within the tick in which a handle looked
\* is missed by it.
Changes(h, s, missed) ==
  handle' = [k \in Handles |->
               LET t == IF k = h THEN s ELSE handle[k] IN
               [t EXCEPT !.fresh = @ /\ k \in missed \cap Writers,
                         !.snap = @ /\ k \in missed]]

\* The slots a walk visits, in the order their names sort.  The signature
\* is taken first, so that a change under the walk shows.
Walking(s, then) ==
  [s EXCEPT !.pc = "walk", !.walk = <<"rawcalls", "records">>, !.sum = 0,
            !.snap = TRUE, !.then = then]

StartsWalk(h, s, then) ==
  /\ Goes(h, IF h \in Writers THEN Walking(s, then) ELSE [s EXCEPT !.pc = then])
  /\ could' = [could EXCEPT ![h] = IF then = "recheck" THEN Bytes ELSE 0]

\* Bytes land, where a handle is looking.
Lands(n) ==
  could' = [k \in Handles |->
              LET s == handle[k] IN
              IF s.pc \in {"recheck", "refuse"} \/ s.then = "recheck" THEN could[k] + n ELSE 0]

WalkSlot(h) ==
  LET s == handle[h] IN
  /\ s.pc = "walk" /\ s.walk # <<>>
  /\ Goes(h, [s EXCEPT !.sum = @ + BytesIn(Head(s.walk)), !.walk = Tail(@)])
  /\ UNCHANGED <<disk, history>>

WalkEnds(h) ==
  LET s == handle[h] IN
  /\ s.pc = "walk" /\ s.walk = <<>>
  /\ Goes(h, [s EXCEPT !.usage = s.sum, !.fresh = s.snap, !.snap = FALSE,
                       !.sum = 0, !.pc = s.then, !.then = "none"])
  /\ UNCHANGED <<disk, history>>

\* An operation ends with the signature as the directories are then.
Ended(s) == [Closed EXCEPT !.pc = "idle", !.usage = s.usage, !.fresh = TRUE]

\* An operation that changed nothing, or that failed, leaves the signature.
Left(s) == [Ended(s) EXCEPT !.fresh = s.fresh]

-----------------------------------------------------------------------------
(* Opening a handle. *)

\* What writers that died left behind is swept once it is old enough.
Sweeps == \E aged \in SUBSET temps : temps' = temps \ aged

\* The first figure is taken from disk.
Open(h) ==
  /\ handle[h].pc = "closed"
  /\ Sweeps
  /\ StartsWalk(h, handle[h], "idle")
  /\ UNCHANGED <<files, lines, begun, owed>>

-----------------------------------------------------------------------------
(* Storing. *)

\* The bytes an operation asks room for.
Needed(r) == IF r = NoRecord THEN 1 ELSE Size[r] + LineSize

Stored(s) == <<s.rec, s.slot>> \in files
Counts(s) == s.slot # "held"

\* A write looks at the signature first, and walks when it has changed.
Starts(h, r, slot, frees) ==
  LET s == [handle[h] EXCEPT !.rec = r, !.slot = slot, !.frees = frees] IN
  /\ handle[h].pc = "idle"
  /\ IF handle[h].fresh THEN Goes(h, [s EXCEPT !.pc = "judge"]) /\ UNCHANGED could
                        ELSE StartsWalk(h, s, "judge")
  /\ UNCHANGED <<disk, begun, owed>>

Write(h, r) ==
  /\ h \in Writers /\ r \in Rawcalls
  /\ <<r, "rawcalls">> \notin files /\ \A k \in Handles : handle[k].rec # r
  /\ Starts(h, r, "rawcalls", FALSE)

\* A second-slot record may come again: a round read over, a requeue.
WriteRecord(h, r) ==
  /\ h \in Writers /\ r \notin Rawcalls
  /\ \A k \in Handles : handle[k].rec # r
  /\ Starts(h, r, "records", FALSE)

Hold(h, r) ==
  /\ Holds /\ h \in Writers /\ r \notin Rawcalls
  /\ \A k \in Handles : handle[k].rec # r
  /\ Starts(h, r, "held", FALSE)

\* Mutant of Release: the held file goes first.
Release_RemovesFirst(h, r) ==
  /\ Holds /\ h \in Writers /\ <<r, "held">> \in files /\ handle[h].pc = "idle"
  /\ files' = files \ {<<r, "held">>}
  /\ Goes(h, [handle[h] EXCEPT !.rec = r, !.slot = "records", !.frees = TRUE, !.pc = "judge"])
  /\ UNCHANGED <<lines, temps, history>>

\* A held record a later build can mask is read, and stored anew in the slot
\* that is uploaded.
Release(h, r) ==
  /\ Holds /\ h \in Writers /\ <<r, "held">> \in files
  /\ Starts(h, r, "records", TRUE)

\* A probe asks for one byte more, and leaves nothing.
Probe(h) == h \in Writers /\ Starts(h, NoRecord, "probe", FALSE)

Probed(h) ==
  /\ handle[h].pc = "land" /\ handle[h].slot = "probe"
  /\ Goes(h, Left(handle[h]))
  /\ UNCHANGED <<disk, history>>

\* Mutant of Judge: a full figure refuses without a look at the disk.
Judge_TrustsFigure(h) ==
  LET s == handle[h]
      full == Counts(s) /\ s.usage + Needed(s.rec) > Quota
  IN
  /\ s.pc = "judge" /\ ~Stored(s)
  /\ Goes(h, [s EXCEPT !.pc = IF full THEN "refuse" ELSE "land"])
  /\ could' = [could EXCEPT ![h] = IF full THEN Bytes ELSE 0]
  /\ UNCHANGED <<disk, begun, owed>>

\* A record already stored is left alone.  A figure that says there is no
\* room is derived again before it is believed.
Judge(h) ==
  LET s == handle[h] IN
  /\ s.pc = "judge"
  /\ \/ /\ Stored(s)
        /\ Goes(h, [s EXCEPT !.pc = "done"]) /\ UNCHANGED could
     \/ /\ ~Stored(s)
        /\ ~Counts(s) \/ s.usage + Needed(s.rec) <= Quota
        /\ Goes(h, [s EXCEPT !.pc = "land"]) /\ UNCHANGED could
     \/ /\ ~Stored(s)
        /\ Counts(s) /\ s.usage + Needed(s.rec) > Quota
        /\ StartsWalk(h, s, "recheck")
  /\ UNCHANGED <<disk, begun, owed>>

Recheck(h) ==
  LET s == handle[h] IN
  /\ s.pc = "recheck"
  /\ IF s.usage + Needed(s.rec) > Quota
     THEN Goes(h, [s EXCEPT !.pc = "refuse"]) /\ UNCHANGED could
     ELSE Goes(h, [s EXCEPT !.pc = "land"]) /\ could' = [could EXCEPT ![h] = 0]
  /\ UNCHANGED <<disk, begun, owed>>

\* Refused for want of room: nothing was written and nothing is deleted.
Refuse(h) ==
  /\ handle[h].pc = "refuse"
  /\ Goes(h, Left(handle[h]))
  /\ could' = [could EXCEPT ![h] = 0]
  /\ UNCHANGED <<disk, begun, owed>>

\* The file appears under its name at once.  Only then is it charged.
Land(h) ==
  LET s == handle[h] IN
  /\ s.pc = "land" /\ s.slot # "probe"
  /\ files' = files \cup {<<s.rec, s.slot>>} /\ owed' = owed \cup {s.rec}
  /\ \E missed \in SUBSET (Writers \ {h}) :
       Changes(h, [s EXCEPT !.pc = IF Counts(s) THEN "line" ELSE "done",
                            !.usage = IF Counts(s) THEN @ + Size[s.rec] ELSE @],
               missed)
  /\ Lands(Size[s.rec])
  /\ begun' = [k \in Handles |->
                 {f \in begun[k] : f # <<s.rec, s.slot>> /\ (s.frees \/ f[1] # s.rec)}]
  /\ UNCHANGED <<lines, temps>>

\* Mutant of AddLine: the line is not charged.
AddLine_Free(h) ==
  /\ handle[h].pc = "line"
  /\ lines' = lines \cup {handle[h].rec}
  /\ Goes(h, [handle[h] EXCEPT !.pc = "done"])
  /\ Lands(LineSize)
  /\ UNCHANGED <<files, temps, begun, owed>>

\* The index line follows.  Only an index that was not there changes its
\* directory.
AddLine(h) ==
  LET s == handle[h]
      first == \A r \in lines : HomeOf(r) # s.slot
  IN
  /\ s.pc = "line"
  /\ lines' = lines \cup {s.rec}
  /\ \E missed \in SUBSET (Writers \ {h}) :
       Changes(h, [s EXCEPT !.pc = "done", !.usage = @ + LineSize],
               IF first THEN missed ELSE Handles)
  /\ Lands(LineSize)
  /\ UNCHANGED <<files, temps, begun, owed>>

\* The handle takes the signature of the directories as they are now.  A
\* release still has to take its record out of the held slot.
Done(h) ==
  LET s == handle[h] IN
  /\ s.pc = "done"
  /\ Goes(h, IF s.frees THEN [s EXCEPT !.pc = "unhold"] ELSE Ended(s))
  /\ UNCHANGED <<disk, history>>

Unhold(h) ==
  LET s == handle[h] IN
  /\ s.pc = "unhold"
  /\ files' = files \ {<<s.rec, "held">>}
  /\ \E missed \in SUBSET (Writers \ {h}) : Changes(h, Ended(s), missed)
  /\ UNCHANGED <<lines, temps, history>>

-----------------------------------------------------------------------------
(* Deleting. *)

\* A deletion sweeps and walks first, then visits its slots in this order.
Starting(h, match, slots) ==
  /\ handle[h].pc = "idle"
  /\ Sweeps
  /\ StartsWalk(h, [handle[h] EXCEPT !.match = match, !.slots = slots], "list")
  /\ begun' = [begun EXCEPT ![h] =
                 {f \in files : f[1] \in match /\ \E i \in DOMAIN slots : slots[i] = f[2]}]
  /\ UNCHANGED <<files, lines, owed>>

\* Everything of one project, or of one session, in every slot.
DeleteProject(h, p) ==
  Starting(h, {r \in Records : ProjectOf[r] = p}, <<"rawcalls", "records", "held">>)
DeleteSession(h, s) ==
  Starting(h, {r \in Records : SessionOf[r] = s}, <<"rawcalls", "records", "held">>)

\* What was uploaded, by id, from the one slot that holds it.
DeleteEntry(h, r) ==
  <<r, HomeOf(r)>> \in files /\ Starting(h, {r}, <<HomeOf(r)>>)

List(h) ==
  LET s == handle[h] IN
  /\ s.pc = "list" /\ s.slots # <<>>
  /\ Goes(h, [s EXCEPT !.pc = "remove", !.slot = Head(s.slots), !.slots = Tail(@),
                       !.todo = s.match \cap In(Head(s.slots)), !.gone = {}])
  /\ UNCHANGED <<disk, history>>

\* A file another handle removed first is that handle's to count.
Remove(h, r) ==
  LET s == handle[h]
      there == <<r, s.slot>> \in files
  IN
  /\ s.pc = "remove" /\ r \in s.todo
  /\ files' = files \ {<<r, s.slot>>}
  /\ \E missed \in SUBSET (Writers \ {h}) :
       Changes(h, Charged(h, [s EXCEPT !.todo = @ \ {r},
                                       !.gone = IF there THEN @ \cup {r} ELSE @],
                          IF there /\ Counts(s) THEN -Size[r] ELSE 0),
               IF there THEN missed ELSE Handles)
  /\ owed' = owed \ {r}
  /\ UNCHANGED <<lines, temps, begun, could>>

\* Mutant of ReadIndex: a slot that held nothing ends the deletion.
ReadIndex_Stops(h) ==
  LET s == handle[h] IN
  /\ s.pc = "remove" /\ s.todo = {}
  /\ Goes(h, IF s.gone = {} THEN [s EXCEPT !.pc = "list", !.slots = <<>>]
             ELSE [s EXCEPT !.pc = IF s.slot = "held" THEN "list" ELSE "put",
                            !.todo = {r \in lines : HomeOf(r) = s.slot}])
  /\ UNCHANGED <<disk, history>>

\* The index is rewritten when something went: read under the lock that
\* other rewriters take and a writer that appends does not.
ReadIndex(h) ==
  LET s == handle[h] IN
  /\ s.pc = "remove" /\ s.todo = {}
  /\ IF s.gone = {} \/ ~Counts(s)
     THEN Goes(h, [s EXCEPT !.pc = "list"])
     ELSE /\ \A k \in Handles : ~(handle[k].pc = "put" /\ handle[k].slot = s.slot)
          /\ Goes(h, [s EXCEPT !.pc = "put",
                               !.todo = {r \in lines : HomeOf(r) = s.slot}])
  /\ UNCHANGED <<disk, history>>

PutIndex(h) ==
  LET s == handle[h] IN
  /\ s.pc = "put"
  /\ lines' = {r \in lines : HomeOf(r) # s.slot} \cup (s.todo \ s.gone)
  /\ \E missed \in SUBSET (Writers \ {h}) :
       Changes(h, Charged(h, [s EXCEPT !.pc = "list", !.todo = {}, !.gone = {}],
                          -LineSize * Cardinality(s.todo \cap s.gone)),
               missed)
  /\ UNCHANGED <<files, temps, history>>

Listed(h) ==
  LET s == handle[h] IN
  /\ s.pc = "list" /\ s.slots = <<>>
  /\ Goes(h, [s EXCEPT !.pc = "deleted"])
  /\ UNCHANGED <<disk, history>>

Deleted(h) ==
  /\ handle[h].pc = "deleted"
  /\ Goes(h, Ended(handle[h]))
  /\ begun' = [begun EXCEPT ![h] = {}]
  /\ UNCHANGED <<disk, could, owed>>
-----------------------------------------------------------------------------
(* A process dies.  Before the rename its temporary file may stay behind. *)

Crash(h) ==
  LET s == handle[h] IN
  /\ MayCrash /\ s.pc # "closed"
  /\ \/ UNCHANGED temps /\ could' = [could EXCEPT ![h] = 0]
     \/ /\ s.pc = "land" /\ Counts(s) /\ s.slot # "probe"
        /\ temps' = temps \cup {s.rec} /\ Lands(Size[s.rec])
  /\ Goes(h, Closed)
  /\ begun' = [begun EXCEPT ![h] = {}]
  /\ UNCHANGED <<files, lines, owed>>

Next ==
  \E h \in Handles :
    \/ Open(h) \/ WalkSlot(h) \/ WalkEnds(h)
    \/ Judge(h) \/ Recheck(h) \/ Refuse(h) \/ Land(h) \/ AddLine(h) \/ Done(h) \/ Unhold(h)
    \/ List(h) \/ ReadIndex(h) \/ PutIndex(h) \/ Listed(h) \/ Deleted(h) \/ Crash(h)
    \/ \E r \in Records : Write(h, r) \/ WriteRecord(h, r) \/ Hold(h, r) \/ Release(h, r)
                           \/ DeleteEntry(h, r) \/ Remove(h, r)
    \/ \E p \in Projects : DeleteProject(h, p)
    \/ \E s \in Sessions : DeleteSession(h, s)
    \/ Probe(h) \/ Probed(h)

Spec == Init /\ [][Next]_vars
-----------------------------------------------------------------------------
(* Properties. *)

\* What is held is typed, and with one handle that writes no figure is ever
\* taken below nothing.
TypeOK ==
  /\ files \subseteq Records \X Slots /\ lines \subseteq Records /\ temps \subseteq Records
  /\ owed \subseteq Records
  /\ \A h \in Handles :
       /\ handle[h].usage \in Int /\ (Cardinality(Writers) = 1 => handle[h].usage >= 0)
       /\ handle[h].sum \in Nat /\ could[h] \in Nat
       /\ begun[h] \subseteq Records \X Slots

\* With one handle that writes, the counted slots never hold more than the
\* quota, whatever other handles delete and whenever a writer dies.
WithinQuota == Cardinality(Writers) = 1 => Bytes <= Quota

\* A write is refused only when the disk could have been full: what was
\* there when its walk began and what landed since leaves no room.
RefusalIsTrue ==
  \A h \in Handles :
    handle[h].pc = "refuse" => could[h] + Needed(handle[h].rec) > Quota

\* A deletion that finished took every file it addressed that was there when
\* it began, whatever the uploader deletes beside it and whatever a crash
\* left in its slots.
DeletedIsGone == \A h \in Handles : handle[h].pc = "deleted" => begun[h] \cap files = {}

\* "DeleteProject removes every stored record belonging to one project, in
\* every slot the spool keeps" (read.go).  Not so when the record is being
\* released: it is stored behind the deletion of its new slot.
TakenFromEverySlot ==
  \A h \in Handles : handle[h].pc = "deleted" /\ handle[h].slot = "held" =>
    \A f \in begun[h] : \A slot \in Slots : <<f[1], slot>> \notin files

\* A record stored or held back stays in some slot until it is deleted,
\* through a release and whatever dies under it.
StoredOrHeld == \A r \in owed : \E slot \in Slots : <<r, slot>> \in files
=============================================================================
