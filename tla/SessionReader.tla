---------------------------- MODULE SessionReader ----------------------------
(***************************************************************************)
(* How readers turn what Claude Code appends to a session's files into     *)
(* segment records.  A session has a main file and an agent file; both are *)
(* appended to, and replaced, while readers in several processes read on   *)
(* from a cursor each entry of the registry holds.  The session moves in   *)
(* and out of the directory consent covers, and only the main file says    *)
(* so.  One round of a reader locks the entry, observes the file, scans    *)
(* what it gained, stores one segment and writes the cursor back; a round  *)
(* may end early anywhere, and so may the process that runs it.            *)
(*                                                                         *)
(* Bytes are abstracted to lines: an offset counts lines, and a segment's  *)
(* size bound is a number of lines.  Lines that no segment ever holds      *)
(* (malformed, dropped types) are left out.  A file is not replaced        *)
(* between a reader's stat and its open of it.                             *)
(***************************************************************************)
EXTENDS Integers, Sequences, FiniteSets

CONSTANTS
  Readers,     \* concurrent readers
  ProcessOf,   \* the process each reader runs in
  NoReader,
  Present,     \* the files the session has: agent files come with agents
  Suspends,    \* whether a holder may outlive the bound a lock is stale after
  MaxLines,    \* bound: lines Claude Code writes
  MaxRewrites, \* bound: files it replaces
  MaxKept      \* lines one segment holds

ASSUME ReaderAssumption == NoReader \notin Readers /\ Suspends \in BOOLEAN
ASSUME PresentAssumption == "main" \in Present /\ Present \subseteq {"main", "agent"}
ASSUME BoundAssumption ==
  MaxLines \in Nat \ {0, 1} /\ MaxRewrites \in Nat /\ MaxKept \in Nat \ {0}

VARIABLES
  disk,      \* the session's files
  place,     \* where the session is: "in" what consent covers, or "out"
  clock,     \* lines written so far; a line's serial is its time
  entry,     \* the registry: one cursor for each file
  holder,    \* whose lock file an entry has
  abandoned, \* a reader of the same process gave up waiting for this one
  pc, path,  \* where each reader is, and the file it reads
  from,      \* the cursor its round started from
  seen,      \* how much of an agent file it observed
  result,    \* what its scan produced
  \* History.
  stored,    \* every record ever stored
  shadowed,  \* lines of records discarded for an older one of the same id
  asked      \* lines on disk when a reader gave up waiting for this one

round   == <<pc, path, from, seen, result>>
session == <<disk, place, clock>>
reading == <<entry, holder, abandoned, round, stored, shadowed, asked>>
vars    == <<session, reading>>

-----------------------------------------------------------------------------
Files   == {"main", "agent"}
Serials == 1..MaxLines

\* A line: what it is, when it was written, and where the session was then.
Lines == [kind : {"say", "out", "in"}, serial : Serials, at : {"in", "out"}]

Cursors == [reg : BOOLEAN, inode : 0..(MaxRewrites + 1), offset : 0..MaxLines,
            next : 0..MaxLines, ids : SUBSET Serials, before : SUBSET Serials,
            outside : BOOLEAN]
NewCursor == [reg |-> TRUE, inode |-> 0, offset |-> 0, next |-> 0, ids |-> {},
              before |-> {}, outside |-> FALSE]

NoSight  == [exists |-> FALSE, inode |-> 0, size |-> 0]
NoResult == [kept |-> {}, cursor |-> NewCursor, more |-> FALSE]

Sight(f) == [exists |-> disk[f].exists, inode |-> disk[f].inode,
             size |-> Len(disk[f].lines)]

OnDisk(f) == {disk[f].lines[i].serial : i \in 1..Len(disk[f].lines)}

Moves(f) == \E i \in 1..Len(disk[f].lines) : disk[f].lines[i].kind # "say"

\* The session starts inside, or it started elsewhere and moved in before
\* its files were registered.
Init ==
  /\ \/ /\ disk = [f \in Files |-> [exists |-> f \in Present, inode |-> 1, lines |-> <<>>]]
        /\ clock = 0
     \/ /\ disk = [f \in Files |-> [exists |-> f \in Present, inode |-> 1, lines |->
             IF f = "main" THEN <<[kind |-> "say", serial |-> 1, at |-> "out"],
                                  [kind |-> "in", serial |-> 2, at |-> "in"]>>
             ELSE <<>>]]
        /\ clock = 2
  /\ place = "in"
  /\ entry = [f \in Files |-> [NewCursor EXCEPT !.reg = f \in Present]]
  /\ holder = [f \in Files |-> NoReader]
  /\ abandoned = [r \in Readers |-> FALSE]
  /\ pc = [r \in Readers |-> "idle"] /\ path = [r \in Readers |-> "main"]
  /\ from = [r \in Readers |-> NewCursor] /\ seen = [r \in Readers |-> NoSight]
  /\ result = [r \in Readers |-> NoResult]
  /\ stored = {} /\ shadowed = {}
  /\ asked = [r \in Readers |-> {}]

-----------------------------------------------------------------------------
(* Claude Code. *)

Append1(f, kind, at) ==
  /\ clock < MaxLines /\ disk[f].exists
  /\ clock' = clock + 1
  /\ disk' = [disk EXCEPT ![f].lines =
                Append(@, [kind |-> kind, serial |-> clock + 1, at |-> at])]

Say(f) ==
  /\ Append1(f, "say", place)
  /\ UNCHANGED <<place, reading>>

\* A move is written to the main file before anything the session writes
\* after it.
Move ==
  /\ place' = IF place = "in" THEN "out" ELSE "in"
  /\ Append1("main", place', place')
  /\ UNCHANGED reading

\* The positions m lines of n may have had: increasing functions.
Thinnings(m, n) ==
  {g \in [1..m -> 1..n] : \A i, j \in 1..m : i < j => g[i] < g[j]}

\* A file is replaced by one that lacks some of what was said in it: its line
\* i was the line g[i].
Rewrite(f, m, g) ==
  /\ disk[f].exists /\ disk[f].inode <= MaxRewrites
  /\ \A r \in Readers : ~(path[r] = f /\ seen[r].exists)
  /\ \A j \in 1..Len(disk[f].lines) :
       disk[f].lines[j].kind # "say" => \E i \in 1..m : g[i] = j
  /\ disk' = [disk EXCEPT ![f].inode = @ + 1,
                ![f].lines = [i \in 1..m |-> @[g[i]]]]
  /\ UNCHANGED <<place, clock, reading>>

\* Files are cleaned up, an agent file before its main file.
Vanish(f) ==
  /\ disk[f].exists
  /\ f = "main" => ~disk["agent"].exists
  /\ disk' = [disk EXCEPT ![f].exists = FALSE, ![f].lines = <<>>]
  /\ UNCHANGED <<place, clock, reading>>

-----------------------------------------------------------------------------
(* One pass over lines.  acc is the pass so far, after each of the          *)
(* positions observed.                                                      *)

\* Whether the first relocated line past position i moves the session in,
\* and where it is.
MovesAhead(lines, i, size) ==
  {j \in (i + 1)..size : lines[j].kind # "say"}
FirstMove(lines, i, size) ==
  CHOOSE j \in MovesAhead(lines, i, size) :
    \A k \in MovesAhead(lines, i, size) : j <= k

\* Mutant of PassMove: a move in lets nothing go.
PassMove_Keeps(acc, line, i) ==
  IF line.kind = "out" THEN [acc EXCEPT !.settled = TRUE, !.outside = TRUE, !.offset = i]
  ELSE [acc EXCEPT !.settled = TRUE, !.outside = FALSE, !.offset = i]

\* A relocated line settles where the session is.  One that moves it in
\* lets go of what an unsettled pass has kept.
PassMove(acc, line, i) ==
  IF line.kind = "out" THEN [acc EXCEPT !.settled = TRUE, !.outside = TRUE, !.offset = i]
  ELSE IF ~acc.settled THEN [acc EXCEPT !.settled = TRUE, !.kept = {}, !.offset = i]
  ELSE [acc EXCEPT !.outside = FALSE, !.offset = i]

\* A line that is kept, unless the segment is full: then the pass stops in
\* front of it, or, where it is not settled, goes on behind the move in
\* that lets go of all it kept.
PassSay(acc, lines, i, size) ==
  LET into == MovesAhead(lines, i, size) # {}
              /\ lines[FirstMove(lines, i, size)].kind = "in" IN
  IF Cardinality(acc.kept) < MaxKept
  THEN [acc EXCEPT !.kept = @ \cup {lines[i].serial}, !.offset = i]
  ELSE IF ~acc.settled /\ into
  THEN [acc EXCEPT !.settled = TRUE, !.kept = {}, !.offset = FirstMove(lines, i, size)]
  ELSE [acc EXCEPT !.more = TRUE]

PassLine(acc, lines, i, size, skip, out) ==
  IF acc.more \/ i <= acc.offset THEN acc
  ELSE IF lines[i].kind # "say" THEN PassMove(acc, lines[i], i)
  ELSE IF acc.outside \/ out \/ lines[i].serial \in skip THEN [acc EXCEPT !.offset = i]
  ELSE PassSay(acc, lines, i, size)

PassStart(start, outside) ==
  [offset |-> start, outside |-> outside, settled |-> start > 0 \/ outside,
   kept |-> {}, more |-> FALSE]

Passes(lines, start, size, outside, skip, out) ==
  LET acc[i \in 0..size] ==
        IF i = 0 THEN PassStart(start, outside)
        ELSE PassLine(acc[i - 1], lines, i, size, skip, out)
  IN acc

Pass(lines, start, size, outside, skip, out) ==
  Passes(lines, start, size, outside, skip, out)[size]

\* Reading f goes on from the cursor, or starts over in a file that is not
\* the one the cursor describes.
Restarts(c, sight) == c.inode # 0 /\ sight.inode # c.inode

Least(a, b) == IF a < b THEN a ELSE b

\* Mutant of ReadLines: a pass that starts over forgets what it sent.
ReadLines_Again(c, sight, lines, out) ==
  LET start == IF Restarts(c, sight) THEN 0 ELSE c.offset
      acc   == Pass(lines, start, Least(sight.size, Len(lines)), c.outside, {}, out) IN
  [kept   |-> acc.kept,
   more   |-> acc.more,
   cursor |-> [c EXCEPT !.inode = sight.inode, !.offset = acc.offset,
                        !.outside = acc.outside, !.ids = @ \cup acc.kept,
                        !.before = {},
                        !.next = IF acc.kept = {} THEN @ ELSE @ + 1]]

ReadLines(c, sight, lines, out) ==
  LET start == IF Restarts(c, sight) THEN 0 ELSE c.offset
      skip  == IF Restarts(c, sight) THEN c.ids ELSE c.before
      acc   == Pass(lines, start, Least(sight.size, Len(lines)), c.outside, skip, out) IN
  [kept   |-> acc.kept,
   more   |-> acc.more,
   cursor |-> [c EXCEPT !.inode = sight.inode, !.offset = acc.offset,
                        !.outside = acc.outside, !.ids = @ \cup acc.kept,
                        !.before = IF acc.more THEN skip ELSE {},
                        !.next = IF acc.kept = {} THEN @ ELSE @ + 1]]

\* Mutant of SessionWasOutside: only the cursor is asked.
SessionWasOutside_Cursor == entry["main"].reg /\ entry["main"].outside

\* Whether the main file says the session is outside, or was at any point of
\* what its cursor has not passed.
SessionWasOutside ==
  LET c     == entry["main"]
      again == Restarts(c, Sight("main"))
      start == IF again THEN 0 ELSE c.offset IN
  /\ c.reg
  /\ \/ c.outside
     \/ /\ disk["main"].exists
        /\ \E i \in (start + 1)..Len(disk["main"].lines) :
             \/ disk["main"].lines[i].kind = "out"
             \/ disk["main"].lines[i].kind = "in" /\ start = 0

-----------------------------------------------------------------------------
(* A round of a reader.                                                     *)

Goto(r, at) == pc' = [pc EXCEPT ![r] = at]

\* The readers of r's process that are in a round on f.
Inside(r, f) ==
  {q \in Readers : ProcessOf[q] = ProcessOf[r] /\ path[q] = f
                   /\ pc[q] \notin {"idle", "again"}}

\* What the readers rs hold in memory of a round is gone when it is over.
Forgotten(rs) ==
  /\ from' = [r \in Readers |-> IF r \in rs THEN NewCursor ELSE from[r]]
  /\ seen' = [r \in Readers |-> IF r \in rs THEN NoSight ELSE seen[r]]
  /\ result' = [r \in Readers |-> IF r \in rs THEN NoResult ELSE result[r]]
  /\ abandoned' = [r \in Readers |-> r \notin rs /\ abandoned[r]]

\* A round ends in "ended" when nothing more was found, in "more" when lines
\* wait behind a full segment, in "held" when the whole run stops, and in
\* "failed" when the entry is left to a later run.
Ends == {"ended", "more", "held", "failed"}

\* A run begins with any file registered; one round more is of the same file.
Wants(r, f) ==
  \/ pc[r] = "idle" /\ entry[f].reg
  \/ pc[r] = "again" /\ path[r] = f

\* A reader comes for a file, in a new run or for one round more.  Readers
\* of one process wait for each other first; then the lock file decides, and
\* one that looks older than the stale bound is taken over.
Come(r, f) ==
  /\ Wants(r, f)
  /\ Inside(r, f) = {}
  /\ holder[f] = NoReader \/ Suspends
  /\ holder' = [holder EXCEPT ![f] = r]
  /\ path' = [path EXCEPT ![r] = f]
  /\ Goto(r, "observe")
  /\ UNCHANGED <<session, entry, abandoned, from, seen, result, stored,
                 shadowed, asked>>

\* The wait runs out.  A holder in the same process is told; one in another
\* process is not.
GiveUp(r, f) ==
  /\ Wants(r, f)
  /\ Inside(r, f) \cup ({holder[f]} \ {NoReader}) # {}
  /\ abandoned' = [q \in Readers |-> abandoned[q] \/ q \in Inside(r, f)]
  /\ asked' = [q \in Readers |-> IF q \in Inside(r, f) THEN asked[q] \cup OnDisk(f) ELSE asked[q]]
  /\ Goto(r, "idle")
  /\ path' = [path EXCEPT ![r] = "main"]
  /\ UNCHANGED <<session, entry, holder, from, seen, result, stored, shadowed>>

\* What the lines of f up to the size observed come to.  A file that is gone
\* produces nothing.
Consume(r, f, sight, cursor, out) ==
  IF sight.exists /\ disk[f].exists
  THEN LET res == ReadLines(cursor, sight, disk[f].lines, out) IN
       /\ result' = [result EXCEPT ![r] = res]
       /\ Goto(r, IF res.kept = {} THEN "commit" ELSE "store")
  ELSE Goto(r, "vanished") /\ UNCHANGED result

\* Under the lock the cursor is read and the file is observed.  A main file
\* answers for itself, so what it gained is read on the spot; lines written
\* after the stat are not looked at.
Observe(r) ==
  LET f == path[r] IN
  /\ pc[r] = "observe"
  /\ from' = [from EXCEPT ![r] = entry[f]]
  /\ \/ /\ ~entry[f].reg
        /\ Goto(r, "failed")
        /\ UNCHANGED <<seen, result>>
     \/ /\ entry[f].reg /\ f = "main"
        /\ Consume(r, f, Sight(f), entry[f], FALSE)
        /\ UNCHANGED seen
     \/ /\ entry[f].reg /\ f = "agent"
        /\ seen' = [seen EXCEPT ![r] = Sight(f)]
        /\ Goto(r, "scan")
        /\ UNCHANGED result
  /\ UNCHANGED <<session, entry, holder, abandoned, path, stored, shadowed, asked>>

\* An agent file is outside while its session's main file is, and the main
\* file is looked at after the agent file was observed.
Scan(r) ==
  /\ pc[r] = "scan"
  /\ Consume(r, path[r], seen[r], from[r], SessionWasOutside)
  /\ seen' = [seen EXCEPT ![r] = NoSight]
  /\ UNCHANGED <<session, entry, holder, abandoned, path, from, stored,
                 shadowed, asked>>

RecordOf(r) == [file |-> path[r], no |-> from[r].next, lines |-> result[r].kept]

\* The records of one id, in whatever slot they are.
SameId(rec) == {x \in stored : x.file = rec.file /\ x.no = rec.no}

\* The segment is stored.  A record of its id that is still on this machine
\* stands as it is; one that was uploaded is not looked for.
StoreSegment(r) ==
  LET rec == RecordOf(r) IN
  /\ pc[r] = "store"
  /\ \/ /\ SameId(rec) # {}
        /\ shadowed' = shadowed \cup (rec.lines \ UNION {x.lines : x \in SameId(rec)})
        /\ UNCHANGED stored
     \/ /\ stored' = stored \cup {rec}
        /\ UNCHANGED shadowed
  /\ Goto(r, "commit")
  /\ UNCHANGED <<session, entry, holder, abandoned, path, from, seen, result, asked>>

\* No room, or lines no build may store: the whole run stops.
Refused(r) ==
  /\ pc[r] = "store"
  /\ Goto(r, "held")
  /\ UNCHANGED <<session, entry, holder, abandoned, path, from, seen, result,
                 stored, shadowed, asked>>

\* The cursor is written back only where the round found it.
Commit(r) ==
  LET f == path[r] IN
  /\ pc[r] = "commit"
  /\ IF entry[f].reg /\ entry[f].offset = from[r].offset /\ entry[f].next = from[r].next
     THEN /\ entry' = [entry EXCEPT ![f] = result[r].cursor]
          /\ Goto(r, IF result[r].more THEN "more" ELSE "ended")
     ELSE Goto(r, "failed") /\ UNCHANGED entry
  /\ UNCHANGED <<session, holder, abandoned, path, from, seen, result, stored,
                 shadowed, asked>>

\* An entry whose file vanished leaves the registry.
DropEntry(r) ==
  /\ pc[r] = "vanished"
  /\ entry' = [entry EXCEPT ![path[r]].reg = FALSE]
  /\ Goto(r, "ended")
  /\ UNCHANGED <<session, holder, abandoned, path, from, seen, result, stored,
                 shadowed, asked>>

\* A round that left lines, or during which a reader of this process gave
\* up, is followed by another one.
OneMore(r) == pc[r] = "more" \/ (abandoned[r] /\ pc[r] # "held")

Freed(r) == [f \in Files |-> IF holder[f] = r THEN NoReader ELSE holder[f]]

\* The lock file goes, unless it was taken over.
LockFreed(r) == Freed(r)

\* The lock is let go.
Unlock(r) ==
  /\ pc[r] \in Ends
  /\ holder' = LockFreed(r)
  /\ \/ /\ OneMore(r)
        /\ Goto(r, "again")
        /\ UNCHANGED <<path, asked>>
     \/ /\ ~OneMore(r)
        /\ Goto(r, "idle")
        /\ path' = [path EXCEPT ![r] = "main"]
        /\ asked' = [asked EXCEPT ![r] = {}]
  /\ Forgotten({r})
  /\ UNCHANGED <<session, entry, stored, shadowed>>

\* Mutant of Fail: a store that fails is taken for one that was done.
Fail_Unnoticed(r) ==
  /\ pc[r] \in {"observe", "scan", "store", "commit", "vanished"}
  /\ Goto(r, IF pc[r] = "vanished" THEN "ended"
             ELSE IF pc[r] = "store" THEN "commit" ELSE "failed")
  /\ seen' = [seen EXCEPT ![r] = NoSight]
  /\ UNCHANGED <<session, entry, holder, abandoned, path, from, result, stored,
                 shadowed, asked>>

\* A read, a store, its index line or a cursor write fails.
Fail(r) ==
  /\ pc[r] \in {"observe", "scan", "store", "commit", "vanished"}
  /\ Goto(r, IF pc[r] = "vanished" THEN "ended" ELSE "failed")
  /\ seen' = [seen EXCEPT ![r] = NoSight]
  /\ UNCHANGED <<session, entry, holder, abandoned, path, from, result, stored,
                 shadowed, asked>>

\* A process dies; what it locked is free once the stale bound has passed.
Crash(p) ==
  LET dead == {r \in Readers : ProcessOf[r] = p} IN
  /\ \E r \in dead : pc[r] # "idle"
  /\ pc' = [r \in Readers |-> IF r \in dead THEN "idle" ELSE pc[r]]
  /\ path' = [r \in Readers |-> IF r \in dead THEN "main" ELSE path[r]]
  /\ holder' = [f \in Files |-> IF holder[f] \in dead THEN NoReader ELSE holder[f]]
  /\ asked' = [r \in Readers |-> IF r \in dead THEN {} ELSE asked[r]]
  /\ Forgotten(dead)
  /\ UNCHANGED <<session, entry, stored, shadowed>>

-----------------------------------------------------------------------------
Write ==
  \/ \E f \in Files : Say(f) \/ Vanish(f)
  \/ \E f \in Files : LET n == Len(disk[f].lines) IN
       \E m \in 0..n : \E g \in Thinnings(m, n) : Rewrite(f, m, g)
  \/ Move

Step(r) ==
  \/ \E f \in Files : Come(r, f) \/ GiveUp(r, f)
  \/ Observe(r) \/ Scan(r) \/ StoreSegment(r) \/ Refused(r)
  \/ Commit(r) \/ DropEntry(r) \/ Unlock(r) \/ Fail(r)

Next ==
  \/ Write
  \/ \E r \in Readers : Step(r) \/ Crash(ProcessOf[r])

Spec == Init /\ [][Next]_vars
-----------------------------------------------------------------------------
(* What reading promises.                                                   *)

Kept(f) == UNION {rec.lines : rec \in {x \in stored : x.file = f}}

\* Every variable stays in the set the code keeps it in, and the holder of a
\* lock is in a round on the entry it locks.
TypeOK ==
  /\ place \in {"in", "out"} /\ clock \in 0..MaxLines
  /\ \A f \in Files : \A i \in 1..Len(disk[f].lines) : disk[f].lines[i] \in Lines
  /\ entry \in [Files -> Cursors]
  /\ holder \in [Files -> Readers \cup {NoReader}]
  /\ \A rec \in stored : rec.file \in Files /\ rec.lines # {} /\ rec.lines \subseteq Serials
  /\ \A f \in Files : holder[f] # NoReader =>
       path[holder[f]] = f /\ pc[holder[f]] \notin {"idle", "again"}

\* Written while the session was outside, in the file's own present lines.
WrittenOutside(f) ==
  {disk[f].lines[i].serial :
     i \in {j \in 1..Len(disk[f].lines) :
              disk[f].lines[j].kind = "say" /\ disk[f].lines[j].at = "out"}}

\* Nothing the session wrote into its main file while it was in a directory
\* consent does not cover is stored, however the file is replaced and
\* however the reads are cut.
NothingFromOutside == Kept("main") \cap WrittenOutside("main") = {}

\* The same of the agent file, while no move in after the line has been
\* consumed from the main file.
AgentHeldBack ==
  \A s \in Kept("agent") \cap WrittenOutside("agent") :
    \E i \in 1..entry["main"].offset :
      /\ i <= Len(disk["main"].lines)
      /\ disk["main"].lines[i].kind = "in" /\ disk["main"].lines[i].serial > s

\* A line written inside that the cursor has passed is in a record, although
\* rounds are cut, retried and run by several processes.  The exceptions: an
\* agent file's lines beside a move, which are let go of, and lines of a
\* record that was discarded for an older one of its id.
NothingSkipped ==
  \A f \in Files :
    (disk[f].exists /\ entry[f].inode = disk[f].inode) =>
      \A i \in 1..entry[f].offset :
        (i <= Len(disk[f].lines) /\ disk[f].lines[i].kind = "say"
           /\ disk[f].lines[i].at = "in") =>
          \/ disk[f].lines[i].serial \in Kept(f) \cup shadowed
          \/ f = "agent" /\ Moves("main")

\* A segment of the agent file was read again after its first record was
\* stored and before the cursor was written, and came to other lines.
AgentReadAnew ==
  \/ shadowed # {}
  \/ \E x, y \in stored : x.file = "agent" /\ y \in SameId(x) /\ x # y

\* A line that names a message is in one record, also when its file was
\* replaced and read over, in however many segments, and when rounds are cut
\* between a store and its cursor.  The exception is an agent file's line
\* after such a cut: the cursor knows nothing of the record that is stored,
\* and where the main file moves, or the file is replaced, between the two
\* readings the second one leaves its lines to a later number.
InOneRecord ==
  \A x, y \in stored :
    (x.file = y.file /\ x.no # y.no /\ x.lines \cap y.lines # {}) =>
      x.file = "agent" /\ AgentReadAnew

\* When a run that another reader of its process gave up on ends well, what
\* that reader came for has been read.
AskedIsRead ==
  [][\A r \in Readers :
       (Unlock(r) /\ pc[r] = "ended" /\ pc'[r] = "idle" /\ entry[path[r]].reg) =>
         \A i \in 1..Len(disk[path[r]].lines) :
           (disk[path[r]].lines[i].serial \in asked[r]
              /\ disk[path[r]].inode = entry[path[r]].inode) =>
             i <= entry[path[r]].offset]_vars

\* A cursor moves on within one file and starts over only in another; the
\* number of the next segment never goes back.
CursorsAdvance ==
  [][\A f \in Files :
       /\ entry'[f].next >= entry[f].next
       /\ entry'[f].inode = entry[f].inode => entry'[f].offset >= entry[f].offset]_vars

-----------------------------------------------------------------------------
(* What comments of the code state and the code does not keep.              *)

\* "A cursor written past a record that nothing stored would lose that
\* record for good, which is why the order is never the other way."
NeverPastUnstored == shadowed = {}

\* "keeping nothing written outside comes before keeping everything written
\* inside": of the agent file too, whatever is read first.
AgentNothingFromOutside == Kept("agent") \cap WrittenOutside("agent") = {}
=============================================================================
