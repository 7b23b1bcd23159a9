------------------------------- MODULE Update -------------------------------
(***************************************************************************)
(* An installation that upgrades itself: the background check, the upgrade   *)
(* a user runs and doctor's sweep, one at a time under the upgrade lock,      *)
(* from the release index to the commit.                                    *)
(*                                                                         *)
(* A run decides with the version of the process it is, while the binary at  *)
(* the path may be another's by then; and it may die between any two writes, *)
(* leaving a lock that goes stale and files the next run reads.              *)
(***************************************************************************)
EXTENDS Integers, FiniteSets, SequencesExt

CONSTANTS
  Versions,   \* releases, in their order
  Broken,     \* releases that do not start, or do not serve, on this machine
  Runs,
  Free, Dead, \* the lock unheld, and left by a process that died
  MaxEvents   \* bounds what goes wrong or is done by hand

ASSUME UpdateConstants ==
  /\ Versions \subseteq Nat \ {0} /\ Broken \subseteq Versions
  /\ {Free, Dead} \cap Runs = {} /\ Free # Dead /\ MaxEvents \in Nat

VARIABLES
  path,      \* the binary at the installation's path
  kept,      \* binaries kept beside it, each under the name of a version, the one
             \* written last at the end
  staged,    \* whether a staged binary is beside it
  st,        \* the upgrade state file
  due,       \* whether a check is due by what the state file says
  lock,
  runs,
  index,     \* the newest published release
  links,     \* whether a file can have a second name and a program in use be replaced
  managed,   \* whether a package manager owns the installation
  owed,      \* history: builds committed, not finished since, their user not told
  displaced, \* history: those of them whose note an install took over, or that one
             \* kept under the name of another
  events

files == <<path, kept, staged>>
world == <<index, links, managed>>
history == <<owed, displaced>>
vars == <<files, st, due, lock, runs, world, history, events>>

NoVersion == 0
NoFile  == [ver |-> NoVersion, ok |-> FALSE]
NoState == [pending |-> NoVersion, failures |-> 0, unusable |-> {}, installed |-> NoVersion, told |-> NoVersion]
NoRun   == [kind |-> "none", at |-> "idle", ver |-> NoVersion, rel |-> NoVersion, found |-> "nothing", gaveUp |-> FALSE]
FinishGiveUp == 2

Event == events < MaxEvents /\ events' = events + 1
At(r, at) == runs[r].at = at
To(r, at) == runs' = [runs EXCEPT ![r].at = at]
\* A run comes to its end: a check with something to say says it first.
Comes(r, found) == runs' = [runs EXCEPT ![r].at = "record", ![r].found = found]
Ends(r) == runs' = [runs EXCEPT ![r] = NoRun] /\ lock' = IF lock = r THEN Free ELSE lock

Named(v, failures) == [st EXCEPT !.pending = v, !.failures = failures]

Init ==
  /\ \E v \in Versions : path = [ver |-> v, ok |-> TRUE]
  /\ kept = << >> /\ staged = FALSE /\ st = NoState /\ due = TRUE /\ lock = Free
  /\ runs = [r \in Runs |-> NoRun] /\ index \in Versions /\ links \in BOOLEAN /\ managed \in BOOLEAN
  /\ owed = {} /\ displaced = {} /\ events = 0

-----------------------------------------------------------------------------
(* A run under the lock, up to the release it is to install.               *)

\* The process is the binary at the path.
Begin(r, kind) ==
  /\ runs[r] = NoRun /\ path # NoFile
  /\ runs' = [runs EXCEPT ![r] = [NoRun EXCEPT !.kind = kind, !.at = "lock", !.ver = path.ver]]
  /\ UNCHANGED <<files, st, due, lock, world, history>>

\* A session's hook starts a check that is due.
BeginCheck(r) == due /\ Begin(r, "check") /\ UNCHANGED events
ByHand(r) == Event /\ \E kind \in {"manual", "sweep"} : Begin(r, kind)

\* A held lock is the end of a run; a dead one is taken once it is stale.
TakeLock(r) ==
  /\ At(r, "lock")
  /\ IF lock \in Runs THEN Ends(r)
     ELSE IF runs[r].kind = "check" /\ ~due THEN runs' = [runs EXCEPT ![r] = NoRun] /\ lock' = Free
     ELSE lock' = r /\ To(r, "sweep")
  /\ UNCHANGED <<files, st, due, world, history, events>>

\* A binary in use, or held by a scanner, is not renamed over.
Refused == ~links /\ Event

\* Mutant of Spared: what could not be put back goes with the residue.
Spared_Removed == << >>

Spared == <<Last(kept)>>

AfterSweep(r) ==
  \/ runs[r].kind = "check" /\ To(r, "mark") /\ UNCHANGED lock
  \/ runs[r].kind = "manual" /\ UNCHANGED lock
     /\ IF managed THEN Comes(r, "nothing") ELSE To(r, "ask")
  \/ runs[r].kind = "sweep" /\ Ends(r)

\* A kept binary is an upgrade that died before its build accepted the
\* install: the one written last goes back, and the rest goes with what
\* was staged.  One that cannot go back is spared for the next sweep.
Sweep(r) ==
  /\ At(r, "sweep") /\ staged' = FALSE
  /\ \/ kept = << >> /\ AfterSweep(r) /\ UNCHANGED <<path, kept, owed, events>>
     \/ /\ kept # << >> /\ path' = Last(kept).file /\ kept' = << >>
        /\ runs' = [runs EXCEPT ![r].at = "putback", ![r].rel = Last(kept).as]
        /\ owed' = owed \ {path.ver} /\ UNCHANGED <<lock, events>>
     \/ /\ kept # << >> /\ Refused /\ kept' = Spared /\ AfterSweep(r) /\ UNCHANGED <<path, owed>>
  /\ UNCHANGED <<st, due, world, displaced>>

\* The note of the build taken out goes; the run does nothing else.
PutBack(r) ==
  /\ At(r, "putback")
  /\ st' = IF st.pending = runs[r].rel THEN st ELSE Named(NoVersion, 0)
  /\ IF runs[r].kind = "sweep" THEN Ends(r) ELSE Comes(r, "putBack") /\ UNCHANGED lock
  /\ UNCHANGED <<files, due, world, history, events>>

\* The time of the check is recorded before anything is asked.
Mark(r) ==
  /\ At(r, "mark")
  /\ \/ due' = FALSE /\ To(r, IF st.pending = runs[r].ver THEN "finish" ELSE "ask") /\ UNCHANGED <<lock, events>>
     \/ Event /\ Ends(r) /\ UNCHANGED due
  /\ UNCHANGED <<files, st, world, history>>

\* This build's own install, left unfinished: run again in this process.
Finish(r) ==
  /\ At(r, "finish")
  /\ \/ st' = Named(NoVersion, 0) /\ owed' = owed \ {runs[r].ver} /\ To(r, "ask") /\ UNCHANGED events
     \/ /\ Event /\ st' = [st EXCEPT !.failures = @ + 1]
        /\ runs' = [runs EXCEPT ![r].at = "ask", ![r].gaveUp = st.failures + 1 >= FinishGiveUp]
        /\ UNCHANGED owed
  /\ UNCHANGED <<files, due, lock, world, displaced>>

Newer(release, version) == release > version

\* A check does not try again a release that did not start here.
Barred(r) == runs[r].kind = "check" /\ index \in st.unusable

Ask(r) ==
  /\ At(r, "ask")
  /\ \/ Event /\ Comes(r, "failed")
     \/ ~Newer(index, runs[r].ver) /\ Comes(r, "newest") /\ UNCHANGED events
     \/ /\ Newer(index, runs[r].ver) /\ UNCHANGED events
        /\ \/ managed /\ runs' = [runs EXCEPT ![r].at = "record", ![r].rel = index,
                                              ![r].found = IF st.told # index THEN "managed" ELSE "nothing"]
           \/ ~managed /\ Barred(r) /\ Comes(r, "failed")
           \/ ~managed /\ ~Barred(r) /\ runs' = [runs EXCEPT ![r].at = "stage", ![r].rel = index]
  /\ UNCHANGED <<files, st, due, lock, world, history>>

-----------------------------------------------------------------------------
(* The install.                                                            *)

Stage(r) ==
  /\ At(r, "stage")
  /\ \/ staged' = TRUE /\ To(r, "smoke") /\ UNCHANGED events
     \/ Event /\ Comes(r, "failed") /\ UNCHANGED staged
  /\ UNCHANGED <<path, kept, st, due, lock, world, history>>

\* Mutant of Cut: a check that was cut short is held against the release.
Cut_Judged == "unusable"

\* A check of the new build that was cut short says nothing of the build.
Cut == "failed"

\* A build that does not serve may start all the same.
Smoke(r) ==
  /\ At(r, "smoke")
  /\ \/ To(r, "keep") /\ UNCHANGED <<staged, events>>
     \/ runs[r].rel \in Broken /\ staged' = FALSE /\ Comes(r, "unusable") /\ UNCHANGED events
     \/ Event /\ staged' = FALSE /\ Comes(r, Cut)
  /\ UNCHANGED <<path, kept, st, due, lock, world, history>>

\* A file of the same name is written over; a sweep leaves one at most.
KeptUnderOthers(as) == IF kept # << >> /\ Last(kept).as = as THEN << >> ELSE kept

\* The kept binary is named for the version of this process.
Keep(r) ==
  /\ At(r, "keep")
  /\ IF path = NoFile
     THEN Comes(r, "failed") /\ staged' = FALSE /\ UNCHANGED <<path, kept, displaced>>
     ELSE /\ To(r, "swap") /\ path' = (IF links THEN path ELSE NoFile) /\ UNCHANGED staged
          /\ kept' = Append(KeptUnderOthers(runs[r].ver), [as |-> runs[r].ver, file |-> path])
          /\ displaced' = IF runs[r].ver # path.ver THEN owed ELSE displaced
  /\ UNCHANGED <<st, due, lock, world, owed, events>>

Swap(r) ==
  /\ At(r, "swap") /\ staged' = FALSE
  /\ \/ path' = [ver |-> runs[r].rel, ok |-> FALSE] /\ To(r, "verify") /\ UNCHANGED <<kept, events>>
     \/ /\ Refused /\ Comes(r, "failed")
        /\ \/ path' = Last(kept).file /\ kept' = Front(kept)
           \/ ~links /\ UNCHANGED <<path, kept>>
  /\ UNCHANGED <<st, due, lock, world, history>>

\* Mutant of CommitSteps: the kept binary goes before the note is written.
CommitSteps_DropFirst == <<"drop", "note", "installed", "finishNew">>

\* In an order that leaves a trace wherever it stops.
CommitSteps == <<"note", "drop", "installed", "finishNew">>

Onward(r) == To(r, CommitSteps[1 + CHOOSE i \in 1..3 : CommitSteps[i] = runs[r].at])

\* The new build serves here, on a port and directories of its own.
Verify(r) ==
  /\ At(r, "verify")
  /\ \/ runs[r].rel \notin Broken /\ path' = [path EXCEPT !.ok = TRUE] /\ To(r, CommitSteps[1]) /\ UNCHANGED events
     \/ /\ UNCHANGED path
        /\ \/ runs[r].rel \in Broken /\ UNCHANGED events
              /\ runs' = [runs EXCEPT ![r].at = "back", ![r].found = "unusable"]
           \/ Event /\ runs' = [runs EXCEPT ![r].at = "back", ![r].found = Cut]
  /\ UNCHANGED <<kept, staged, st, due, lock, world, history>>

\* A binary that cannot go back stays kept, and nothing is held against
\* the release.
Back(r) ==
  /\ At(r, "back")
  /\ \/ path' = Last(kept).file /\ kept' = Front(kept) /\ Comes(r, runs[r].found) /\ UNCHANGED events
     \/ Refused /\ Comes(r, "failed") /\ UNCHANGED <<path, kept>>
  /\ UNCHANGED <<staged, st, due, lock, world, history>>

-----------------------------------------------------------------------------
(* The commit.                                                             *)

Note(r) ==
  /\ At(r, "note") /\ st' = Named(runs[r].rel, 0) /\ Onward(r) /\ displaced' = owed
  /\ UNCHANGED <<files, due, lock, world, owed, events>>

\* From here the new build is the installation.  A kept binary in use is
\* renamed to a name every sweep deletes, and where that fails too stays.
Drop(r) ==
  /\ At(r, "drop") /\ Onward(r)
  /\ \/ kept' = Front(kept) /\ UNCHANGED events
     \/ Refused /\ UNCHANGED kept
  /\ owed' = {runs[r].rel} /\ displaced' = {}
  /\ UNCHANGED <<path, staged, st, due, lock, world>>

Installed(r) ==
  /\ At(r, "installed") /\ st' = [st EXCEPT !.installed = runs[r].rel] /\ Onward(r)
  /\ UNCHANGED <<files, due, lock, world, history, events>>

\* The binary at the path finishes its own install.
FinishNew(r) ==
  /\ At(r, "finishNew") /\ Comes(r, "upgraded")
  /\ \/ st' = Named(NoVersion, 0) /\ owed' = owed \ {path.ver} /\ UNCHANGED events
     \/ Event /\ st' = [st EXCEPT !.failures = @ + 1] /\ UNCHANGED owed
  /\ UNCHANGED <<files, due, lock, world, displaced>>

-----------------------------------------------------------------------------
(* The end of a run.                                                       *)

\* The version the record is written for: what is at the path now.
Current(r) == CASE runs[r].found = "putBack"  -> runs[r].rel
                [] runs[r].found = "upgraded" -> runs[r].rel
                [] OTHER                      -> runs[r].ver

Tells(r) == runs[r].kind = "check" /\ (runs[r].gaveUp \/ runs[r].found \in {"unusable", "managed"})

\* The note of a build given up on goes once the user will hear of it.
TakesNote(r, told) == told /\ runs[r].gaveUp /\ st.pending = runs[r].ver

Recorded(r, told) ==
  LET unusable == st.unusable \cup IF runs[r].found = "unusable" THEN {runs[r].rel} ELSE {}
      noted == [st EXCEPT !.unusable = {v \in unusable : Newer(v, Current(r))},
                          !.told = IF told /\ runs[r].kind = "check" /\ runs[r].found = "managed" THEN runs[r].rel ELSE @]
  IN IF TakesNote(r, told) THEN [noted EXCEPT !.pending = NoVersion, !.failures = 0] ELSE noted

\* A check that has something to say says it under the lock, and records
\* it as told only then.
Record(r) ==
  /\ At(r, "record") /\ Ends(r)
  /\ \/ st' = Recorded(r, TRUE) /\ UNCHANGED events
        /\ owed' = IF runs[r].gaveUp THEN owed \ {runs[r].ver} ELSE owed
     \/ Event /\ Tells(r) /\ st' = Recorded(r, FALSE) /\ UNCHANGED owed
  /\ UNCHANGED <<files, due, world, displaced>>

-----------------------------------------------------------------------------
(* What happens around the runs.                                           *)

\* What a dead process staged or kept stays, and its lock until stale:
\* much longer than a run that waits for it now will wait.
Crash(r) ==
  /\ Event /\ runs[r] # NoRun
  /\ runs' = [q \in Runs |-> IF q = r \/ (lock = r /\ At(q, "lock")) THEN NoRun ELSE runs[q]]
  /\ lock' = IF lock = r THEN Dead ELSE lock
  /\ UNCHANGED <<files, st, due, world, history>>

\* A day passes, or the clock went back, or the state file was spoiled.
Due == ~due /\ due' = TRUE /\ UNCHANGED <<files, st, lock, runs, world, history, events>>

\* A release is published, or withdrawn.
Publish ==
  /\ Event /\ index' \in Versions \ {index}
  /\ UNCHANGED <<files, st, due, lock, runs, links, managed, history>>

Steps(r) == \/ TakeLock(r) \/ Sweep(r) \/ PutBack(r) \/ Mark(r) \/ Finish(r) \/ Ask(r)
            \/ Stage(r) \/ Smoke(r) \/ Keep(r) \/ Swap(r) \/ Verify(r) \/ Back(r)
            \/ Note(r) \/ Drop(r) \/ Installed(r) \/ FinishNew(r) \/ Record(r)

Next == (\E r \in Runs : Steps(r) \/ BeginCheck(r) \/ ByHand(r) \/ Crash(r)) \/ Due \/ Publish

Spec == Init /\ [][Next]_vars

\* Every step of a run has a timeout, sessions keep starting, days pass.
Fairness == WF_vars(Due) /\ \A r \in Runs : WF_vars(Steps(r)) /\ WF_vars(BeginCheck(r))
FairSpec == Spec /\ Fairness

-----------------------------------------------------------------------------
(* Properties. *)

\* Only doctor's sweep, which installs nothing after it, is kept from
\* putting a binary back: MCUpdateSpared lets every run be.
DoctorIsRefused ==
  \A r \in Runs : At(r, "sweep") /\ kept # << >> /\ kept' # << >> => runs[r].kind = "sweep"

\* A build that has not accepted its own install is never all there is:
\* where a run died at any write, one that accepted its own stands beside it.
NeverStranded == path.ok \/ \E i \in DOMAIN kept : kept[i].file.ok

\* A committed build stays named as unfinished until its finish succeeds
\* or its user is told to run the repair, wherever runs die; an install
\* over it that never commits aside.
FinishOwed == path.ver \in owed \ displaced => st.pending = path.ver

\* The same, whatever an install that came to nothing did with the note.
\* It does not hold (README).
FinishRemembered == path.ok /\ path.ver \in owed /\ lock \notin Runs /\ kept = << >> => st.pending = path.ver

\* An install never replaces a newer release.  It does not hold of a run
\* overtaken by another (README).
NeverBackwards == \A r \in Runs : At(r, "verify") /\ kept # << >> => runs[r].rel > Last(kept).file.ver

\* Whatever was interrupted, refused or cut short: an installation of its
\* own reaches the newest release, where that works here.
ReachesNewest == <>[](managed \/ path = NoFile \/ index \in Broken \/ (path.ok /\ path.ver >= index))
=============================================================================
