------------------------------- MODULE Proxy -------------------------------
(***************************************************************************)
(* The life of the capture proxy around its one port: the commands that     *)
(* bring it up, take it over or stop it, the watchdogs that restart it, and  *)
(* the serving processes from the bind to the last write.                   *)
(*                                                                         *)
(* The bind is the only lock.  A process that holds the port and has not    *)
(* published its admin token cannot prove itself; one that hangs holds the  *)
(* port and answers nothing.  Every command and process moves on its own,   *)
(* and what one read of the port may be stale at its next step.             *)
(***************************************************************************)
EXTENDS Integers, FiniteSets

CONSTANTS
  Slots,       \* serving processes alive at a time
  Watchdogs,
  Cmds,        \* commands under way at a time
  Paths,       \* installations: program files the proxy may be started from
  Versions,    \* 0 stands for a build no release order contains
  Broken,      \* versions whose proxy cannot start on this machine
  NoOne, Stranger,
  MaxCrashes,
  MaxEvents    \* bounds what happens around the commands

ASSUME ProxyConstants ==
  /\ Versions \subseteq Nat /\ Broken \subseteq Versions
  /\ {NoOne, Stranger} \cap Slots = {} /\ NoOne # Stranger
  /\ MaxCrashes \in Nat /\ MaxEvents \in Nat

VARIABLES
  port,      \* who listens
  procs,     \* the serving processes
  published, \* whose admin token is on disk
  dogs,      \* the watchdogs
  builds,    \* the version of the program file at each path
  cmds,
  cannot,    \* the version on record as unable to start its proxy, or -1
  data,      \* whether the data directories are there
  reused,    \* processes that ended and whose pid another program has now
  struck,    \* history: a program that is no proxy of ours was signalled
  removed,   \* history: whether an uninstall deleted the data, the proxy stopped or not
  events

history == <<struck, removed>>
vars == <<port, procs, published, dogs, builds, cmds, cannot, data, reused, history, events>>

NoRecord == -1
NoProc == [at |-> "none", ver |-> 0, path |-> NoOne, hung |-> FALSE, handover |-> FALSE,
           flush |-> "none", sweep |-> FALSE]
NoDog  == [on |-> FALSE, path |-> NoOne, child |-> NoOne, crashes |-> 0]
NoCmd  == [kind |-> "none", at |-> "idle", ver |-> 0, path |-> NoOne, took |-> FALSE, seen |-> NoOne]

\* Only a strictly older release is replaced.
Supersedes(ours, theirs) == ours > 0 /\ theirs > 0 /\ theirs < ours

-----------------------------------------------------------------------------
(* What a reading of the port finds.  A holder is ours once its answer      *)
(* proves a published token; it answers until it releases the port.         *)

Answers(s) == procs[s].at \in {"serving", "closing", "closed"} /\ ~procs[s].hung
HolderOurs == port \in Slots /\ Answers(port) /\ port \in published
HolderSilent == port \in Slots /\ procs[port].hung
\* A stranger, or a proxy that has not published: read again until the
\* startup grace has run out, and then refused.
HolderUnproven == port # NoOne /\ ~HolderOurs /\ ~HolderSilent

Replaceable(c) == HolderOurs /\ Supersedes(cmds[c].ver, procs[port].ver)
Serving(c)     == HolderOurs /\ ~Supersedes(cmds[c].ver, procs[port].ver)

\* The process is the program file this build starts its proxy from.
IsProxyOf(s, path) == procs[s].at # "none" /\ procs[s].path = path /\ procs[s].ver = builds[path]

Event == events < MaxEvents /\ events' = events + 1
To(c, at) == cmds' = [cmds EXCEPT ![c].at = at]
Ends(c)   == cmds' = [cmds EXCEPT ![c] = NoCmd]
At(c, kinds, at) == cmds[c].kind \in kinds /\ cmds[c].at = at

Set(s, field, v) == [procs EXCEPT ![s] = [@ EXCEPT ![field] = v]]

\* A stop a live process was given: the first cause stands.
Stopping(ps, s, handover) ==
  IF ps[s].at = "serving" THEN [ps EXCEPT ![s].at = "closing", ![s].handover = handover] ELSE ps

-----------------------------------------------------------------------------
Init ==
  /\ port = NoOne /\ procs = [s \in Slots |-> NoProc] /\ published = {}
  /\ dogs = [w \in Watchdogs |-> NoDog] /\ builds \in [Paths -> Versions]
  /\ cmds = [c \in Cmds |-> NoCmd] /\ cannot = NoRecord /\ data = TRUE
  /\ reused = {} /\ struck = FALSE /\ removed = "no" /\ events = 0

-----------------------------------------------------------------------------
(* A command that needs the proxy up.                                      *)

Begin(c, kind, path) ==
  /\ cmds[c] = NoCmd /\ Event /\ removed = "no"
  /\ cmds' = [cmds EXCEPT ![c] = [NoCmd EXCEPT !.kind = kind, !.path = path, !.ver = builds[path],
                                    !.at = IF kind = "ensure" THEN "look" ELSE "drain"]]
  /\ UNCHANGED <<port, procs, published, dogs, builds, cannot, data, reused, history>>

\* Reading the port of a silent holder names a process; it is this build's
\* to stop only as the program file this build starts.
Look(c) ==
  /\ At(c, {"ensure"}, "look")
  /\ \/ port = NoOne /\ To(c, "spawn") /\ UNCHANGED cannot
     \/ Replaceable(c) /\ To(c, "drain") /\ UNCHANGED cannot
     \/ Serving(c) /\ Ends(c) /\ cannot' = IF procs[port].ver = cmds[c].ver THEN NoRecord ELSE cannot
     \/ HolderUnproven /\ Ends(c) /\ UNCHANGED cannot
     \/ HolderSilent /\ UNCHANGED cannot
        /\ IF IsProxyOf(port, cmds[c].path)
           THEN cmds' = [cmds EXCEPT ![c].at = "signal", ![c].seen = port] ELSE Ends(c)
  /\ UNCHANGED <<port, procs, published, dogs, builds, data, reused, history, events>>

\* Mutant of ProvenAgain: the pid read the first time is trusted.
ProvenAgain_Once(c) == TRUE

\* The pid that was read must name the same program again.
ProvenAgain(c) == cmds[c].seen \notin reused /\ IsProxyOf(cmds[c].seen, cmds[c].path)

Signal(c) ==
  /\ At(c, {"ensure"}, "signal")
  /\ LET s == cmds[c].seen IN
     IF ProvenAgain(c)
     THEN /\ procs' = Stopping(procs, s, FALSE) /\ struck' = (struck \/ s \in reused)
          /\ cmds' = [cmds EXCEPT ![c].at = "wait", ![c].seen = NoOne]
     ELSE Ends(c) /\ UNCHANGED <<procs, struck>>
  /\ UNCHANGED <<port, published, dogs, builds, cannot, data, reused, removed, events>>

\* A drain is sent to the holder that proves itself now, whoever was looked
\* at before; nothing listening is the goal state.  The uninstall that
\* cannot stop the proxy deletes all the same, with a warning.
Verify(c) ==
  /\ At(c, {"ensure", "uninstall"}, "drain")
  /\ \/ port = NoOne /\ To(c, "wait")
     \/ HolderOurs /\ cmds' = [cmds EXCEPT ![c].at = "post", ![c].seen = port]
     \/ (HolderUnproven \/ HolderSilent) /\ IF cmds[c].kind = "ensure" THEN Ends(c) ELSE To(c, "delete")
  /\ UNCHANGED <<port, procs, published, dogs, builds, cannot, data, reused, history, events>>

\* The request rides a connection of its own: a port that changed hands
\* since refuses the token, and a free one refuses the connection.
Post(c) ==
  /\ At(c, {"ensure", "uninstall"}, "post")
  /\ IF port = cmds[c].seen /\ Answers(port)
     THEN /\ procs' = Stopping(procs, port, cmds[c].kind = "ensure")
          /\ cmds' = [cmds EXCEPT ![c].at = "wait", ![c].took = cmds[c].kind = "ensure", ![c].seen = NoOne]
     ELSE /\ UNCHANGED procs
          /\ IF cmds[c].kind = "ensure" THEN Ends(c)
             ELSE cmds' = [cmds EXCEPT ![c].at = "delete", ![c].seen = NoOne]
  /\ UNCHANGED <<port, published, dogs, builds, cannot, data, reused, history, events>>

WaitPortFree(c) ==
  /\ At(c, {"ensure", "uninstall"}, "wait")
  /\ \/ port = NoOne /\ cmds' = [cmds EXCEPT ![c].at = IF @ = "wait" /\ cmds[c].kind = "ensure" THEN "spawn" ELSE "delete",
                                             ![c].took = @ \/ cmds[c].kind = "uninstall"]
     \/ port # NoOne /\ IF cmds[c].kind = "ensure" THEN Ends(c) ELSE To(c, "delete")
  /\ UNCHANGED <<port, procs, published, dogs, builds, cannot, data, reused, history, events>>

\* The watchdog is detached: it outlives the command.
Spawn(c) ==
  /\ At(c, {"ensure"}, "spawn")
  /\ \E w \in Watchdogs :
       /\ ~dogs[w].on /\ \A v \in Watchdogs : ~dogs[v].on => w <= v
       /\ dogs' = [dogs EXCEPT ![w] = [NoDog EXCEPT !.on = TRUE, !.path = cmds[c].path]]
  /\ To(c, "healthy")
  /\ UNCHANGED <<port, procs, published, builds, cannot, data, reused, history, events>>

\* Any holder this build would leave serving counts.  A build that took the
\* port from an older proxy and cannot serve it goes on record.
WaitHealthy(c) ==
  /\ At(c, {"ensure"}, "healthy") /\ Ends(c)
  /\ cannot' = IF Serving(c) THEN NoRecord
               ELSE IF cmds[c].took \/ cannot = cmds[c].ver THEN cmds[c].ver ELSE cannot
  /\ UNCHANGED <<port, procs, published, dogs, builds, data, reused, history, events>>

\* Uninstall deletes every directory of this device.
Delete(c) ==
  /\ At(c, {"uninstall"}, "delete") /\ Ends(c)
  /\ data' = FALSE /\ published' = {} /\ cannot' = NoRecord
  /\ removed' = IF cmds[c].took THEN "stopped" ELSE "warned"
  /\ UNCHANGED <<port, procs, dogs, builds, reused, struck, events>>

-----------------------------------------------------------------------------
(* The watchdog.                                                           *)

Free(s) == procs[s] = NoProc /\ s \notin published \cup reused /\ \A c \in Cmds : cmds[c].seen # s

\* The child runs the program file as it is now.
StartChild(w) ==
  /\ dogs[w].on /\ dogs[w].child = NoOne
  /\ \E s \in Slots :
       /\ Free(s) /\ \A t \in Slots : Free(t) => s <= t
       /\ procs' = [procs EXCEPT ![s] = [NoProc EXCEPT !.at = "starting", !.path = dogs[w].path,
                                                      !.ver = builds[dogs[w].path]]]
       /\ dogs' = [dogs EXCEPT ![w].child = s]
  /\ UNCHANGED <<port, published, builds, cmds, cannot, data, reused, history, events>>

WatchedBy(s) == {w \in Watchdogs : dogs[w].on /\ dogs[w].child = s}

\* Mutant of AfterCrash: a watchdog that never gives up.
AfterCrash_Forever(dog) == [dog EXCEPT !.child = NoOne]

\* Too many crashes within the window mean restarting would only loop.
AfterCrash(dog) ==
  IF dog.crashes < MaxCrashes THEN [dog EXCEPT !.child = NoOne, !.crashes = @ + 1] ELSE NoDog

Ended(s, outcome) ==
  /\ procs' = [procs EXCEPT ![s] = NoProc]
  /\ port' = IF port = s THEN NoOne ELSE port
  /\ dogs' = [w \in Watchdogs |-> IF w \notin WatchedBy(s) THEN dogs[w]
                                  ELSE IF outcome = "clean" THEN NoDog ELSE AfterCrash(dogs[w])]

-----------------------------------------------------------------------------
(* A serving process.                                                      *)

Bind(s) ==
  /\ procs[s].at = "starting" /\ procs[s].ver \notin Broken
  /\ IF port = NoOne THEN port' = s /\ procs' = Set(s, "at", "bound")
                     ELSE procs' = Set(s, "at", "lost") /\ UNCHANGED port
  /\ UNCHANGED <<published, dogs, builds, cmds, cannot, data, reused, history, events>>

CannotServe(s) ==
  /\ procs[s].at = "starting" /\ procs[s].ver \in Broken /\ Ended(s, "failed")
  /\ UNCHANGED <<published, builds, cmds, cannot, data, reused, history, events>>

\* Losing the bind to a proxy of ours is a quiet end.
LostBind(s) ==
  /\ procs[s].at = "lost" /\ Ended(s, IF HolderOurs THEN "clean" ELSE "failed")
  /\ UNCHANGED <<published, builds, cmds, cannot, data, reused, history, events>>

\* The holder of the port clears what crashed predecessors left.
Publish(s) ==
  /\ procs[s].at = "bound"
  /\ procs' = Set(s, "at", "serving") /\ published' = {s} /\ data' = TRUE
  /\ UNCHANGED <<port, dogs, builds, cmds, cannot, reused, history, events>>

\* The flush cadence, a hook's nudge, a sweep and the flush endpoint all
\* take the one lock, and none starts once the uploader is closing.
FlushStarts(s) ==
  /\ procs[s].at = "serving" /\ ~procs[s].hung /\ procs[s].flush = "none"
  /\ procs' = Set(s, "flush", "some")
  /\ UNCHANGED <<port, published, dogs, builds, cmds, cannot, data, reused, history, events>>

\* A flush ends of itself, or at its next batch, or cut off by the budget.
FlushEnds(s) ==
  /\ procs[s].flush # "none"
  /\ procs' = [procs EXCEPT ![s].flush = "none", ![s].at = IF procs[s].flush = "final" THEN "closed" ELSE @]
  /\ UNCHANGED <<port, published, dogs, builds, cmds, cannot, data, reused, history, events>>

\* The sweep of hot session files starts only while the process serves, and
\* one under way is not waited for.  What it writes makes its directories.
SweepStarts(s) ==
  /\ procs[s].at = "serving" /\ ~procs[s].sweep /\ procs' = Set(s, "sweep", TRUE)
  /\ UNCHANGED <<port, published, dogs, builds, cmds, cannot, data, reused, history, events>>

SweepWrites(s) ==
  /\ procs[s].sweep /\ procs' = Set(s, "sweep", FALSE) /\ data' = TRUE
  /\ UNCHANGED <<port, published, dogs, builds, cmds, cannot, reused, history, events>>

\* Idle for long enough, or told to stop.
IdleExit(s) ==
  /\ Event /\ procs[s].at = "serving" /\ ~procs[s].hung
  /\ procs' = Stopping(procs, s, FALSE)
  /\ UNCHANGED <<port, published, dogs, builds, cmds, cannot, data, reused, history>>

\* The last flush waits for the lock, with the port still held.
FinalFlush(s) ==
  /\ procs[s].at = "closing" /\ procs[s].flush = "none" /\ procs' = Set(s, "flush", "final")
  /\ UNCHANGED <<port, published, dogs, builds, cmds, cannot, data, reused, history, events>>

\* Mutant of ShutdownAfter: the listener closes before the uploader does.
ShutdownAfter_Early == {"closing", "closed"}

ShutdownAfter == {"closed"}

\* Replies still streaming and the record queue end after the port is free.
Shutdown(s) ==
  /\ procs[s].at \in ShutdownAfter
  /\ procs' = Set(s, "at", "leaving") /\ port' = NoOne
  /\ UNCHANGED <<published, dogs, builds, cmds, cannot, data, reused, history, events>>

\* Mutant of Unpublish: whatever is published for the address goes.
Unpublish_All(s) == {}

\* An instance removes its own publication and no other.
Unpublish(s) == published \ {s}

Exit(s) ==
  /\ procs[s].at = "leaving" /\ Ended(s, "clean") /\ published' = Unpublish(s)
  /\ UNCHANGED <<builds, cmds, cannot, data, reused, history, events>>

-----------------------------------------------------------------------------
(* What happens around them.                                               *)

Crash(s) ==
  /\ Event /\ procs[s] # NoProc /\ Ended(s, "failed")
  /\ UNCHANGED <<published, builds, cmds, cannot, data, reused, history>>

Hang(s) ==
  /\ Event /\ procs[s].at = "serving" /\ ~procs[s].hung /\ procs' = Set(s, "hung", TRUE)
  /\ UNCHANGED <<port, published, dogs, builds, cmds, cannot, data, reused, history>>

\* The pid of a process that ended names another program from now on.
PidReused(s) ==
  /\ Event /\ procs[s] = NoProc /\ (\E c \in Cmds : cmds[c].seen = s) /\ reused' = reused \cup {s}
  /\ UNCHANGED <<port, procs, published, dogs, builds, cmds, cannot, data, history>>

StrangerTurns ==
  /\ Event /\ port \in {NoOne, Stranger} /\ port' = IF port = NoOne THEN Stranger ELSE NoOne
  /\ UNCHANGED <<procs, published, dogs, builds, cmds, cannot, data, reused, history>>

\* A logout of the user: the watchdog goes and asks its child to stop.
DogStopped(w) ==
  /\ Event /\ dogs[w].on
  /\ LET s == dogs[w].child IN
     IF s \in Slots /\ procs[s].at \in {"starting", "lost", "bound"}
     THEN procs' = [procs EXCEPT ![s] = NoProc] /\ port' = IF port = s THEN NoOne ELSE port
     ELSE procs' = (IF s \in Slots THEN Stopping(procs, s, FALSE) ELSE procs) /\ UNCHANGED port
  /\ dogs' = [dogs EXCEPT ![w] = NoDog]
  /\ UNCHANGED <<published, builds, cmds, cannot, data, reused, history>>

\* A build put at a path replaces the one there, as Update models.
Upgraded(path) ==
  /\ Event /\ \E v \in Versions : Supersedes(v, builds[path]) /\ builds' = [builds EXCEPT ![path] = v]
  /\ UNCHANGED <<port, procs, published, dogs, cmds, cannot, data, reused, history>>

-----------------------------------------------------------------------------
CmdSteps(c) == Look(c) \/ Signal(c) \/ Verify(c) \/ Post(c) \/ WaitPortFree(c) \/ Spawn(c)
               \/ WaitHealthy(c) \/ Delete(c)
ProcSteps(s) == Bind(s) \/ CannotServe(s) \/ LostBind(s) \/ Publish(s) \/ FinalFlush(s)
                \/ FlushEnds(s) \/ Shutdown(s) \/ Exit(s)
Around(s) == IdleExit(s) \/ Crash(s) \/ Hang(s) \/ PidReused(s)

Next ==
  \/ \E c \in Cmds : CmdSteps(c) \/ \E k \in {"ensure", "uninstall"}, p \in Paths : Begin(c, k, p)
  \/ \E w \in Watchdogs : StartChild(w) \/ DogStopped(w)
  \/ \E s \in Slots : ProcSteps(s) \/ FlushStarts(s) \/ SweepStarts(s) \/ SweepWrites(s) \/ Around(s)
  \/ StrangerTurns \/ \E p \in Paths : Upgraded(p)

Spec == Init /\ [][Next]_vars

\* A watchdog starts its child after a delay, and a process that can run
\* does: starting, failing and the exit each have a bound of their own.
Fairness == /\ \A w \in Watchdogs : WF_vars(StartChild(w))
            /\ \A s \in Slots : WF_vars(ProcSteps(s))
FairSpec == Spec /\ Fairness

-----------------------------------------------------------------------------
(* Properties. *)

Stages == {"none", "starting", "lost", "bound", "serving", "closing", "closed", "leaving"}

Procs == [at : Stages, ver : Versions \cup {0}, path : Paths \cup {NoOne}, hung : BOOLEAN,
          handover : BOOLEAN, flush : {"none", "some", "final"}, sweep : BOOLEAN]

\* A watchdog that is on runs an installed program.
Dogs == {d \in [on : BOOLEAN, path : Paths \cup {NoOne}, child : Slots \cup {NoOne},
                crashes : Nat] : d.on => d.path \in Paths}

\* A command that is about to signal or to post has read a process.
Commands ==
  {k \in [kind : {"none", "ensure", "uninstall"}, path : Paths \cup {NoOne},
          ver : Versions \cup {0}, took : BOOLEAN, seen : Slots \cup {NoOne},
          at : {"idle", "look", "signal", "drain", "post", "wait", "spawn", "healthy", "delete"}] :
     /\ k.kind # "none" => k.path \in Paths
     /\ k.at \in {"signal", "post"} => k.seen \in Slots}

\* Every variable stays in the set the code keeps it in.
TypeOK ==
  /\ port \in Slots \cup {NoOne, Stranger}
  /\ procs \in [Slots -> Procs] /\ published \subseteq Slots
  /\ dogs \in [Watchdogs -> Dogs] /\ builds \in [Paths -> Versions]
  /\ cmds \in [Cmds -> Commands]
  /\ cannot \in Versions \cup {0, NoRecord} /\ data \in BOOLEAN
  /\ reused \subseteq Slots /\ struck \in BOOLEAN
  /\ removed \in {"no", "stopped", "warned"} /\ events \in Nat

\* Whoever serves can prove it: no order of crashes, exits and takeovers
\* takes the publication of a live proxy from the disk.
ServingIsProvable == removed = "no" => \A s \in Slots : Answers(s) => s \in published

\* No upload of a process goes on once another may hold the port: two
\* flushers would send the same records under different batch ids.
OneFlusher == \A s \in Slots : procs[s].flush # "none" => port = s

\* A program that is not this user's proxy is never signalled.
OnlyOwnSignalled == ~struck

\* Watchdogs do not restart their children for ever beside a port no proxy
\* of ours holds: one holds it, or they have given up.
WatchdogsSettle == (\E w \in Watchdogs : dogs[w].on) ~> (port \in Slots \/ \A w \in Watchdogs : ~dogs[w].on)

\* A handover reaches only a strictly older release.
OnlyOlderReplaced ==
  [][\A c \in Cmds : At(c, {"ensure"}, "post") /\ cmds'[c].at = "wait" /\ procs[port].at = "serving"
       => Supersedes(cmds[c].ver, procs[port].ver)]_vars

\* What uninstall deleted once the port was free stays deleted.
DeletedStaysDeleted == removed = "stopped" => ~data
=============================================================================
