------------------------------ MODULE FileLock ------------------------------
(***************************************************************************)
(* The lock file of package fsatomic, and the read-modify-write of a state *)
(* file that Update runs under it.  Processes share three names: the state *)
(* file, its lock, and the ejection ticket a waiter takes before it        *)
(* removes a lock whose holder died.  A file is judged by its age and      *)
(* removed by its name, in two steps, so what is removed need not be what  *)
(* was judged.                                                             *)
(***************************************************************************)
CONSTANTS
  Procs,       \* processes that call Update
  NoProc,      \* no process
  Changes,     \* changes the calls make, one a call
  NoChange,
  SlowHolders, \* whether a live holder may keep the lock past the stale bound
  EjectorsDie  \* whether a process may die while it holds the ticket

ASSUME NoneAssumption == NoProc \notin Procs /\ NoChange \notin Changes
ASSUME SwitchAssumption == SlowHolders \in BOOLEAN /\ EjectorsDie \in BOOLEAN

VARIABLES
  lock,    \* the lock file: who created it, whether that holder died, its age
  ticket,  \* the ejection ticket, likewise
  content, \* the changes in the state file
  pc,      \* where each process is
  change,  \* the change its call makes
  seen,    \* the content its call read
  done,    \* changes whose call returned success (history)
  strict   \* no holder has outlived the stale bound and no ejector has died (history)

lockVars == <<lock, ticket, content, pc, change, seen, done, strict>>

\* A file of the protocol.  by = NoProc when there is none.  orphan: its
\* creator died; old: its modification time is past the stale bound.
Files  == [by : Procs \cup {NoProc}, orphan : BOOLEAN, old : BOOLEAN]
NoFile == [by |-> NoProc, orphan |-> FALSE, old |-> FALSE]
New(p) == [by |-> p, orphan |-> FALSE, old |-> FALSE]

Exists(f) == f.by # NoProc

Holding  == {"sweep", "sweepdrop", "read", "write", "release", "remove"}
Ejecting == {"judge", "drop", "untick"}
Waiting  == {"claim", "stat", "eject", "ticketstat", "ticketdrop", "pace"}

LockInit ==
  /\ lock = NoFile /\ ticket = NoFile /\ content = {}
  /\ pc = [p \in Procs |-> "idle"]
  /\ change = [p \in Procs |-> NoChange]
  /\ seen = [p \in Procs |-> {}]
  /\ done = {} /\ strict = TRUE

Goto(p, at) == pc' = [pc EXCEPT ![p] = at]

-----------------------------------------------------------------------------
(* Taking the lock. *)

Begin(p, c) ==
  /\ pc[p] = "idle" /\ c \notin done /\ \A q \in Procs : change[q] # c
  /\ Goto(p, "claim")
  /\ change' = [change EXCEPT ![p] = c]
  /\ UNCHANGED <<lock, ticket, content, seen, done, strict>>

\* Create-exclusive of the lock file.
Claim(p) ==
  /\ pc[p] = "claim"
  /\ \/ ~Exists(lock) /\ lock' = New(p) /\ Goto(p, "sweep")
     \/ Exists(lock) /\ UNCHANGED lock /\ Goto(p, "stat")
  /\ UNCHANGED <<ticket, content, change, seen, done, strict>>

\* The waiter looks at the age of the lock that refused it.
Stat(p) ==
  /\ pc[p] = "stat"
  /\ Goto(p, IF Exists(lock) /\ lock.old THEN "eject" ELSE "pace")
  /\ UNCHANGED <<lock, ticket, content, change, seen, done, strict>>

\* The end of a round: the deadline has passed, or the claim is retried.
Pace(p) ==
  /\ pc[p] = "pace"
  /\ \/ Goto(p, "claim") /\ UNCHANGED change
     \/ Goto(p, "idle") /\ change' = [change EXCEPT ![p] = NoChange]
  /\ UNCHANGED <<lock, ticket, content, seen, done, strict>>

-----------------------------------------------------------------------------
(* Ejecting a lock that is past the stale bound. *)

\* Mutant of TakeTicket: no ticket is taken, the removal goes by the first look.
TakeTicket_None(p) ==
  /\ pc[p] = "eject"
  /\ Goto(p, "drop")
  /\ UNCHANGED <<lock, ticket, content, change, seen, done, strict>>

TakeTicket(p) ==
  /\ pc[p] = "eject"
  /\ \/ ~Exists(ticket) /\ ticket' = New(p) /\ Goto(p, "judge")
     \/ Exists(ticket) /\ UNCHANGED ticket /\ Goto(p, "ticketstat")
  /\ UNCHANGED <<lock, content, change, seen, done, strict>>

\* A ticket past the stale bound belongs to an ejector that died.
StatTicket(p) ==
  /\ pc[p] = "ticketstat"
  /\ Goto(p, IF Exists(ticket) /\ ticket.old THEN "ticketdrop" ELSE "pace")
  /\ UNCHANGED <<lock, ticket, content, change, seen, done, strict>>

DropTicket(p) ==
  /\ pc[p] = "ticketdrop"
  /\ ticket' = NoFile
  /\ Goto(p, "pace")
  /\ UNCHANGED <<lock, content, change, seen, done, strict>>

\* Under the ticket the age is judged again.
Judge(p) ==
  /\ pc[p] = "judge"
  /\ Goto(p, IF Exists(lock) /\ lock.old THEN "drop" ELSE "untick")
  /\ UNCHANGED <<lock, ticket, content, change, seen, done, strict>>

Drop(p) ==
  /\ pc[p] = "drop"
  /\ lock' = NoFile
  /\ Goto(p, "untick")
  /\ UNCHANGED <<ticket, content, change, seen, done, strict>>

Untick(p) ==
  /\ pc[p] = "untick"
  /\ ticket' = NoFile
  /\ Goto(p, "pace")
  /\ UNCHANGED <<lock, content, change, seen, done, strict>>

-----------------------------------------------------------------------------
(* The update under the lock, and its release. *)

\* Aged leftovers beside the file are swept; the ticket is one of them.
Sweep(p) ==
  /\ pc[p] = "sweep"
  /\ Goto(p, IF Exists(ticket) /\ ticket.old THEN "sweepdrop" ELSE "read")
  /\ UNCHANGED <<lock, ticket, content, change, seen, done, strict>>

SweepDrop(p) ==
  /\ pc[p] = "sweepdrop"
  /\ ticket' = NoFile
  /\ Goto(p, "read")
  /\ UNCHANGED <<lock, content, change, seen, done, strict>>

Read(p) ==
  /\ pc[p] = "read"
  /\ seen' = [seen EXCEPT ![p] = content]
  /\ Goto(p, "write")
  /\ UNCHANGED <<lock, ticket, content, change, done, strict>>

\* The whole content is replaced by one rename; or the callback, or the
\* write, fails and the file stays.
Write(p) ==
  /\ pc[p] = "write"
  /\ \/ /\ content' = seen[p] \cup {change[p]}
        /\ done' = done \cup {change[p]}
     \/ UNCHANGED <<content, done>>
  /\ Goto(p, "release")
  /\ UNCHANGED <<lock, ticket, change, seen, strict>>

\* The lock is read; one that carries another holder's mark is spared.
Release(p) ==
  /\ pc[p] = "release"
  /\ IF lock.by = p THEN Goto(p, "remove") /\ UNCHANGED <<change, seen>>
     ELSE /\ Goto(p, "idle")
          /\ change' = [change EXCEPT ![p] = NoChange]
          /\ seen' = [seen EXCEPT ![p] = {}]
  /\ UNCHANGED <<lock, ticket, content, done, strict>>

Remove(p) ==
  /\ pc[p] = "remove"
  /\ lock' = NoFile
  /\ Goto(p, "idle")
  /\ change' = [change EXCEPT ![p] = NoChange]
  /\ seen' = [seen EXCEPT ![p] = {}]
  /\ UNCHANGED <<ticket, content, done, strict>>

-----------------------------------------------------------------------------
(* Death and age. *)

\* A file whose creator dies is an orphan from then on.
Orphaned(f, p) == IF f.by = p THEN [f EXCEPT !.orphan = TRUE] ELSE f

Die(p) ==
  /\ pc[p] # "idle"
  /\ pc[p] \in Ejecting => EjectorsDie
  /\ lock' = Orphaned(lock, p)
  /\ ticket' = Orphaned(ticket, p)
  /\ Goto(p, "idle")
  /\ change' = [change EXCEPT ![p] = NoChange]
  /\ seen' = [seen EXCEPT ![p] = {}]
  /\ strict' = (strict /\ pc[p] \notin Ejecting)
  /\ UNCHANGED <<content, done>>

\* The stale bound passes.  Only an orphan gets that old, unless holders
\* may be slow; a ticket is held for one stat and one remove.
AgeLock ==
  /\ Exists(lock) /\ ~lock.old /\ (lock.orphan \/ SlowHolders)
  /\ lock' = [lock EXCEPT !.old = TRUE]
  /\ strict' = (strict /\ lock.orphan)
  /\ UNCHANGED <<ticket, content, pc, change, seen, done>>

AgeTicket ==
  /\ Exists(ticket) /\ ~ticket.old /\ ticket.orphan
  /\ ticket' = [ticket EXCEPT !.old = TRUE]
  /\ UNCHANGED <<lock, content, pc, change, seen, done, strict>>

-----------------------------------------------------------------------------
Step(p) ==
  \/ Claim(p) \/ Stat(p) \/ Pace(p)
  \/ TakeTicket(p) \/ StatTicket(p) \/ DropTicket(p)
  \/ Judge(p) \/ Drop(p) \/ Untick(p)
  \/ Sweep(p) \/ SweepDrop(p) \/ Read(p) \/ Write(p) \/ Release(p) \/ Remove(p)

LockNext ==
  \/ \E p \in Procs : Step(p) \/ Die(p) \/ \E c \in Changes : Begin(p, c)
  \/ AgeLock \/ AgeTicket

LockSpec == LockInit /\ [][LockNext]_lockVars

\* A process that is running keeps running, time passes, and processes do
\* not die for ever.
FairLockSpec ==
  /\ LockSpec
  /\ \A p \in Procs : WF_lockVars(Step(p))
  /\ WF_lockVars(AgeLock) /\ WF_lockVars(AgeTicket)
  /\ <>[][\A p \in Procs : ~Die(p)]_lockVars

-----------------------------------------------------------------------------
(* What the lock promises. *)

\* Every variable stays in its type; a process has a change exactly while it
\* is in a call.
TypeOK ==
  /\ lock \in Files /\ ticket \in Files
  /\ content \subseteq Changes /\ done \subseteq Changes
  /\ pc \in [Procs -> {"idle"} \cup Waiting \cup Ejecting \cup Holding]
  /\ change \in [Procs -> Changes \cup {NoChange}]
  /\ seen \in [Procs -> SUBSET Changes]
  /\ strict \in BOOLEAN
  /\ \A p \in Procs : pc[p] = "idle" <=> change[p] = NoChange

\* At most one process is between a successful claim and its release.
OneHolder ==
  \A p, q \in Procs : pc[p] \in Holding /\ pc[q] \in Holding => p = q

\* That is so as long as every holder released within the stale bound and no
\* ejector died with the ticket, whatever other processes died.
MutualExclusion == strict => OneHolder

\* "read-modify-write callers in separate processes never lose each other's
\* changes": as long, what a call reported written stays in the file.
NoLostUpdate == strict => done \subseteq content

\* A lock whose creator is alive and inside the stale bound is removed, as
\* long, by that creator only, whatever judgement another process acts on.
FreshLockIsSafe ==
  [][strict => \A p \in Procs :
       lock.by = p /\ ~lock.orphan /\ ~lock.old /\ lock'.by # p => pc[p] = "remove"]_lockVars

\* "A still-stale file is still the incarnation that was judged": under the
\* ticket, what an ejector removes is a lock past the stale bound.
DropsStaleOnly ==
  [][\A p \in Procs :
       pc[p] = "drop" /\ pc'[p] = "untick" /\ Exists(lock) => lock.old]_lockVars

\* Why: until a holder is late or an ejector dies, a lock past the bound is an
\* orphan, the ticket is its taker's until that one removes it, and what an
\* ejector is about to remove is still what it judged.
Guarded ==
  /\ lock.old => lock.orphan
  /\ ~ticket.orphan /\ ~ticket.old
  /\ \A p \in Procs :
       /\ pc[p] \in Holding => lock.by = p /\ ~lock.orphan
       /\ pc[p] \in Ejecting <=> ticket.by = p
       /\ pc[p] = "drop" => Exists(lock) /\ lock.old
       /\ pc[p] \notin {"sweepdrop", "ticketdrop"}
       /\ pc[p] = "write" => seen[p] = content
  /\ done \subseteq content

LockInv == strict => Guarded

\* A lock whose holder died does not keep a waiter out for ever: while one
\* waits, the lock is ejected, also behind a ticket whose ejector died.
OrphanEjected ==
  \A p \in Procs : pc[p] = "claim" /\ lock.orphan ~> ~lock.orphan \/ pc[p] = "idle"
=============================================================================
