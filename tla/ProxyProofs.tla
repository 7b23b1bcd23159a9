----------------------------- MODULE ProxyProofs -----------------------------
(***************************************************************************)
(* Theorems about Proxy, for every number of processes, watchdogs,         *)
(* commands, installations and versions.                                   *)
(***************************************************************************)
EXTENDS Proxy, TLAPS

-----------------------------------------------------------------------------
(* The inductive invariant.                                                 *)

Holding   == {"bound", "serving", "closing", "closed"}
Published == {"serving", "closing", "closed"}

\* The port is held by the one process that is between its bind and its
\* release.
PortInv == \A s \in Slots : procs[s].at \in Holding <=> port = s

\* A process that uploads serves, or is closing; the last flush comes after the
\* stop.
FlushInv ==
  \A s \in Slots :
    /\ procs[s].flush # "none" => procs[s].at \in {"serving", "closing"}
    /\ procs[s].flush = "final" => procs[s].at = "closing"

\* From its publication on, hung or not, a process is the published one, until
\* an uninstall deletes the directory that says so.
PublishedInv ==
  removed = "no" => \A s \in Slots : procs[s].at \in Published => s \in published

ProxyInv == TypeOK /\ PortInv /\ FlushInv /\ PublishedInv /\ ~struck

-----------------------------------------------------------------------------
(* Records of the model, updated one field at a time.                       *)

LEMMA Blank == NoProc \in Procs /\ NoDog \in Dogs /\ NoCmd \in Commands
  BY DEF NoProc, NoDog, NoCmd, Procs, Stages, Dogs, Commands


\* A process updated in one or two fields is a process.
LEMMA SetProc ==
  ASSUME NEW ps \in [Slots -> Procs], NEW s \in Slots, NEW at \in Stages,
         NEW flush \in {"none", "some", "final"}, NEW b \in BOOLEAN
  PROVE  /\ [ps EXCEPT ![s] = NoProc] \in [Slots -> Procs]
         /\ [ps EXCEPT ![s].at = at] \in [Slots -> Procs]
         /\ [ps EXCEPT ![s].flush = flush] \in [Slots -> Procs]
         /\ [ps EXCEPT ![s].flush = flush, ![s].at = at] \in [Slots -> Procs]
         /\ [ps EXCEPT ![s].at = at, ![s].handover = b] \in [Slots -> Procs]
         /\ [ps EXCEPT ![s].hung = b] \in [Slots -> Procs]
         /\ [ps EXCEPT ![s].sweep = b] \in [Slots -> Procs]
  BY Blank DEF Procs

\* A process told to stop is a process.
LEMMA StoppingType ==
  ASSUME NEW ps \in [Slots -> Procs], NEW s \in Slots, NEW handover \in BOOLEAN
  PROVE  Stopping(ps, s, handover) \in [Slots -> Procs]
<1>1. "closing" \in Stages
  BY DEF Stages
<1> QED
  BY <1>1, SetProc DEF Stopping

\* A stop changes the stage of a serving process and no other.
LEMMA StoppingStage ==
  ASSUME NEW ps \in [Slots -> Procs], NEW s \in Slots, NEW handover \in BOOLEAN, NEW t \in Slots
  PROVE  /\ Stopping(ps, s, handover)[t].flush = ps[t].flush
         /\ \/ Stopping(ps, s, handover)[t].at = ps[t].at
            \/ ps[t].at = "serving" /\ Stopping(ps, s, handover)[t].at = "closing"
  BY DEF Stopping, Procs

Still == {"idle", "look", "drain", "wait", "spawn", "healthy", "delete"}

\* A command that goes on, with what it read kept or forgotten.
LEMMA MoveCmd ==
  ASSUME NEW cs \in [Cmds -> Commands], NEW c \in Cmds, NEW at \in Still
  PROVE  [cs EXCEPT ![c].at = at] \in [Cmds -> Commands]
  BY DEF Commands, Still

\* A command that has seen whom it will address is a command.
LEMMA SeeCmd ==
  ASSUME NEW cs \in [Cmds -> Commands], NEW c \in Cmds, NEW s \in Slots,
         NEW at \in {"signal", "post"}
  PROVE  [cs EXCEPT ![c].at = at, ![c].seen = s] \in [Cmds -> Commands]
<1>1. [cs[c] EXCEPT !.at = at, !.seen = s] \in Commands
  BY DEF Commands
<1>2. [cs EXCEPT ![c].at = at, ![c].seen = s] = [cs EXCEPT ![c] = [cs[c] EXCEPT !.at = at, !.seen = s]]
  OBVIOUS
<1> QED
  BY <1>1, <1>2

\* A command that goes on without anyone in sight is a command.
LEMMA ForgetCmd ==
  ASSUME NEW cs \in [Cmds -> Commands], NEW c \in Cmds, NEW at \in Still
  PROVE  [cs EXCEPT ![c].at = at, ![c].seen = NoOne] \in [Cmds -> Commands]
<1>1. [cs[c] EXCEPT !.at = at, !.seen = NoOne] \in Commands
  BY DEF Commands, Still
<1>2. [cs EXCEPT ![c].at = at, ![c].seen = NoOne]
        = [cs EXCEPT ![c] = [cs[c] EXCEPT !.at = at, !.seen = NoOne]]
  OBVIOUS
<1> QED
  BY <1>1, <1>2

\* A command that noted whether it takes over is a command.
LEMMA TakeCmd ==
  ASSUME NEW cs \in [Cmds -> Commands], NEW c \in Cmds, NEW at \in Still, NEW took \in BOOLEAN
  PROVE  /\ [cs EXCEPT ![c].at = at, ![c].took = took] \in [Cmds -> Commands]
         /\ [cs EXCEPT ![c].at = at, ![c].took = took, ![c].seen = NoOne] \in [Cmds -> Commands]
<1>1. /\ [cs[c] EXCEPT !.at = at, !.took = took] \in Commands
      /\ [cs[c] EXCEPT !.at = at, !.took = took, !.seen = NoOne] \in Commands
  BY DEF Commands, Still
<1>2. /\ [cs EXCEPT ![c].at = at, ![c].took = took]
           = [cs EXCEPT ![c] = [cs[c] EXCEPT !.at = at, !.took = took]]
      /\ [cs EXCEPT ![c].at = at, ![c].took = took, ![c].seen = NoOne]
           = [cs EXCEPT ![c] = [cs[c] EXCEPT !.at = at, !.took = took, !.seen = NoOne]]
  OBVIOUS
<1> QED
  BY <1>1, <1>2

\* A command that ended leaves its place free.
LEMMA EndCmd ==
  ASSUME NEW cs \in [Cmds -> Commands], NEW c \in Cmds
  PROVE  [cs EXCEPT ![c] = NoCmd] \in [Cmds -> Commands]
  BY Blank

\* The end of a process leaves processes, port and watchdogs well typed.
LEMMA EndedDogs ==
  ASSUME TypeOK, NEW s \in Slots, NEW outcome, Ended(s, outcome)
  PROVE  /\ procs' \in [Slots -> Procs] /\ port' \in Slots \cup {NoOne, Stranger}
         /\ dogs' \in [Watchdogs -> Dogs]
<1>0. /\ procs \in [Slots -> Procs] /\ dogs \in [Watchdogs -> Dogs] /\ MaxCrashes \in Nat
      /\ port \in Slots \cup {NoOne, Stranger}
  BY ProxyConstants DEF TypeOK
<1>1. procs' \in [Slots -> Procs] /\ port' \in Slots \cup {NoOne, Stranger}
  BY <1>0, Blank DEF Ended
<1>2. ASSUME NEW w \in Watchdogs PROVE AfterCrash(dogs[w]) \in Dogs
  <2>1. CASE dogs[w].crashes < MaxCrashes
    <3>1. dogs[w] \in Dogs /\ dogs[w].crashes + 1 \in Nat
      BY <1>0 DEF Dogs
    <3>2. AfterCrash(dogs[w]) = [dogs[w] EXCEPT !.child = NoOne, !.crashes = @ + 1]
      BY <2>1 DEF AfterCrash
    <3> QED
      BY <3>1, <3>2 DEF Dogs
  <2>2. CASE ~(dogs[w].crashes < MaxCrashes)
    BY <2>2, Blank DEF AfterCrash
  <2> QED
    BY <2>1, <2>2
<1>3. dogs' = [w \in Watchdogs |-> IF w \notin WatchedBy(s) THEN dogs[w]
                                    ELSE IF outcome = "clean" THEN NoDog ELSE AfterCrash(dogs[w])]
  BY DEF Ended
<1>4. dogs' \in [Watchdogs -> Dogs]
  BY <1>0, <1>2, <1>3, Blank
<1> QED
  BY <1>1, <1>4

-----------------------------------------------------------------------------
(* Type correctness.                                                        *)

LEMMA Init_TypeOK == Init => TypeOK
<1> SUFFICES ASSUME Init PROVE TypeOK
  OBVIOUS
<1>1. procs \in [Slots -> Procs] /\ dogs \in [Watchdogs -> Dogs] /\ cmds \in [Cmds -> Commands]
  BY Blank DEF Init
<1> QED
  BY <1>1 DEF Init, TypeOK

\* Each step of a command keeps the variables well typed.
LEMMA Cmd_TypeOK == ASSUME TypeOK, NEW c \in Cmds, CmdSteps(c) PROVE TypeOK'
<1>0. /\ cmds \in [Cmds -> Commands] /\ procs \in [Slots -> Procs]
      /\ cmds[c].kind \in {"none", "ensure", "uninstall"}
      /\ cmds[c].ver \in Versions \cup {0} /\ cmds[c].took \in BOOLEAN
      /\ cmds[c].at \in {"signal", "post"} => cmds[c].seen \in Slots
      /\ cmds[c].kind # "none" => cmds[c].path \in Paths
  BY DEF TypeOK, Commands
<1> USE DEF To, Ends, At, history
<1>1. CASE Look(c)
  <2>0. {"spawn", "drain"} \subseteq Still
    BY DEF Still
  <2>1. ASSUME NEW at \in {"spawn", "drain"}, To(c, at) PROVE cmds' \in [Cmds -> Commands]
    BY <1>0, <2>0, <2>1, MoveCmd
  <2>2. ASSUME Ends(c) PROVE cmds' \in [Cmds -> Commands]
    BY <1>0, <2>2, EndCmd
  <2>3. ASSUME port \in Slots, cmds' = [cmds EXCEPT ![c].at = "signal", ![c].seen = port]
        PROVE  cmds' \in [Cmds -> Commands]
    BY <1>0, <2>3, SeeCmd
  <2>4. cmds' \in [Cmds -> Commands]
    BY <1>1, <2>1, <2>2, <2>3 DEF Look, HolderSilent
  <2>5. cannot' \in Versions \cup {0, NoRecord}
    BY <1>1 DEF Look, TypeOK
  <2> QED
    BY <1>1, <2>4, <2>5 DEF Look, TypeOK
<1>2. CASE Signal(c)
  <2>0. "wait" \in Still
    BY DEF Still
  <2>1. cmds' \in [Cmds -> Commands]
    <3>1. CASE ProvenAgain(c)
      <4>1. cmds' = [cmds EXCEPT ![c].at = "wait", ![c].seen = NoOne]
        BY <1>2, <3>1 DEF Signal
      <4> QED
        BY <1>0, <2>0, <4>1, ForgetCmd
    <3>2. CASE ~ProvenAgain(c)
      BY <1>0, <1>2, <3>2, EndCmd DEF Signal
    <3> QED
      BY <3>1, <3>2
  <2>2. procs' \in [Slots -> Procs]
    <3>1. cmds[c].seen \in Slots
      BY <1>0, <1>2 DEF Signal
    <3>2. Stopping(procs, cmds[c].seen, FALSE) \in [Slots -> Procs]
      BY <1>0, <3>1, StoppingType
    <3> QED
      BY <1>0, <1>2, <3>2 DEF Signal
  <2>3. struck' \in BOOLEAN
    BY <1>2 DEF Signal, TypeOK
  <2> QED
    BY <1>2, <2>1, <2>2, <2>3 DEF Signal, TypeOK
<1>3. CASE Verify(c)
  <2>0. {"wait", "delete"} \subseteq Still
    BY DEF Still
  <2>1. ASSUME NEW at \in {"wait", "delete"}, To(c, at) PROVE cmds' \in [Cmds -> Commands]
    BY <1>0, <2>0, <2>1, MoveCmd
  <2>2. ASSUME Ends(c) PROVE cmds' \in [Cmds -> Commands]
    BY <1>0, <2>2, EndCmd
  <2>3. ASSUME port \in Slots, cmds' = [cmds EXCEPT ![c].at = "post", ![c].seen = port]
        PROVE  cmds' \in [Cmds -> Commands]
    BY <1>0, <2>3, SeeCmd
  <2>4. cmds' \in [Cmds -> Commands]
    BY <1>3, <2>1, <2>2, <2>3 DEF Verify, HolderOurs
  <2> QED
    BY <1>3, <2>4 DEF Verify, TypeOK
<1>4. CASE Post(c)
  <2>0. {"wait", "delete"} \subseteq Still /\ cmds[c].seen \in Slots
    BY <1>0, <1>4 DEF Still, Post
  <2> DEFINE ensure == cmds[c].kind = "ensure"
  <2>1. ensure \in BOOLEAN
    OBVIOUS
  <2> HIDE DEF ensure
  <2>2. [cmds EXCEPT ![c].at = "wait", ![c].took = ensure, ![c].seen = NoOne] \in [Cmds -> Commands]
    BY <1>0, <2>0, <2>1, TakeCmd
  <2>3. [cmds EXCEPT ![c].at = "delete", ![c].seen = NoOne] \in [Cmds -> Commands]
    BY <1>0, <2>0, ForgetCmd
  <2>4. [cmds EXCEPT ![c] = NoCmd] \in [Cmds -> Commands]
    BY <1>0, EndCmd
  <2>5. Stopping(procs, cmds[c].seen, ensure) \in [Slots -> Procs]
    BY <1>0, <2>0, <2>1, StoppingType
  <2>6. cmds' \in [Cmds -> Commands]
    BY <1>4, <2>2, <2>3, <2>4 DEF Post, ensure
  <2>7. procs' \in [Slots -> Procs]
    BY <1>0, <1>4, <2>5 DEF Post, ensure
  <2> QED
    BY <1>4, <2>6, <2>7 DEF Post, TypeOK
<1>5. CASE WaitPortFree(c)
  <2>0. {"spawn", "delete"} \subseteq Still
    BY DEF Still
  <2>1. cmds' \in [Cmds -> Commands]
    <3>1. CASE port = NoOne
      <4> DEFINE at   == IF cmds[c].at = "wait" /\ cmds[c].kind = "ensure" THEN "spawn" ELSE "delete"
                 took == cmds[c].took \/ cmds[c].kind = "uninstall"
      <4>1. at \in Still /\ took \in BOOLEAN
        BY <2>0
      <4>2. cmds' = [cmds EXCEPT ![c].at = at, ![c].took = took]
        BY <1>5, <3>1 DEF WaitPortFree
      <4> HIDE DEF at, took
      <4> QED
        BY <1>0, <4>1, <4>2, TakeCmd
    <3>2. CASE port # NoOne
      <4>1. [cmds EXCEPT ![c].at = "delete"] \in [Cmds -> Commands]
        BY <1>0, <2>0, MoveCmd
      <4>2. [cmds EXCEPT ![c] = NoCmd] \in [Cmds -> Commands]
        BY <1>0, EndCmd
      <4> QED
        BY <1>5, <3>2, <4>1, <4>2 DEF WaitPortFree
    <3> QED
      BY <3>1, <3>2
  <2> QED
    BY <1>5, <2>1 DEF WaitPortFree, TypeOK
<1>6. CASE Spawn(c)
  <2>1. cmds' \in [Cmds -> Commands]
    BY <1>0, <1>6, MoveCmd DEF Spawn, Still
  <2>2. [NoDog EXCEPT !.on = TRUE, !.path = cmds[c].path] \in Dogs
    BY <1>0, <1>6 DEF Spawn, Dogs, NoDog
  <2>3. dogs' \in [Watchdogs -> Dogs]
    BY <1>6, <2>2 DEF Spawn, TypeOK
  <2> QED
    BY <1>6, <2>1, <2>3 DEF Spawn, TypeOK
<1>7. CASE WaitHealthy(c)
  <2>1. cmds' \in [Cmds -> Commands]
    BY <1>0, <1>7, EndCmd DEF WaitHealthy
  <2> QED
    BY <1>0, <1>7, <2>1 DEF WaitHealthy, TypeOK
<1>8. CASE Delete(c)
  <2>1. cmds' \in [Cmds -> Commands]
    BY <1>0, <1>8, EndCmd DEF Delete
  <2> QED
    BY <1>8, <2>1 DEF Delete, TypeOK
<1> QED
  BY <1>1, <1>2, <1>3, <1>4, <1>5, <1>6, <1>7, <1>8 DEF CmdSteps

\* So does the beginning of a command.
LEMMA Begin_TypeOK ==
  ASSUME TypeOK, NEW c \in Cmds, NEW kind \in {"ensure", "uninstall"}, NEW path \in Paths,
         Begin(c, kind, path)
  PROVE  TypeOK'
<1> DEFINE begun == [NoCmd EXCEPT !.kind = kind, !.path = path, !.ver = builds[path],
                                  !.at = IF kind = "ensure" THEN "look" ELSE "drain"]
<1>1. begun \in Commands
  BY DEF TypeOK, NoCmd, Commands
<1>2. cmds' = [cmds EXCEPT ![c] = begun] /\ events' = events + 1
  BY DEF Begin, Event
<1> HIDE DEF begun
<1>3. cmds' \in [Cmds -> Commands] /\ events' \in Nat
  BY <1>1, <1>2 DEF TypeOK
<1> QED
  BY <1>3 DEF Begin, TypeOK, history

\* So do a watchdog's steps.
LEMMA Dog_TypeOK ==
  ASSUME TypeOK, NEW w \in Watchdogs, StartChild(w) \/ DogStopped(w)
  PROVE  TypeOK'
<1>0. /\ procs \in [Slots -> Procs] /\ dogs \in [Watchdogs -> Dogs] /\ builds \in [Paths -> Versions]
      /\ port \in Slots \cup {NoOne, Stranger} /\ dogs[w] \in Dogs
  BY DEF TypeOK
<1>1. CASE StartChild(w)
  <2>1. PICK s \in Slots :
          /\ procs' = [procs EXCEPT ![s] = [NoProc EXCEPT !.at = "starting", !.path = dogs[w].path,
                                                          !.ver = builds[dogs[w].path]]]
          /\ dogs' = [dogs EXCEPT ![w].child = s]
    BY <1>1 DEF StartChild
  <2>2. dogs[w].path \in Paths
    BY <1>0, <1>1 DEF StartChild, Dogs
  <2>3. [NoProc EXCEPT !.at = "starting", !.path = dogs[w].path, !.ver = builds[dogs[w].path]] \in Procs
    BY <1>0, <2>2 DEF NoProc, Procs, Stages
  <2>4. procs' \in [Slots -> Procs]
    BY <1>0, <2>1, <2>3
  <2>5. dogs' \in [Watchdogs -> Dogs]
    BY <1>0, <2>1 DEF Dogs
  <2> QED
    BY <1>1, <2>4, <2>5 DEF StartChild, TypeOK, history
<1>2. CASE DogStopped(w)
  <2>1. dogs' = [dogs EXCEPT ![w] = NoDog] /\ events' = events + 1
    BY <1>2 DEF DogStopped, Event
  <2>2. dogs' \in [Watchdogs -> Dogs]
    BY <1>0, <2>1, Blank
  <2>3. events' \in Nat
    BY <2>1 DEF TypeOK
  <2>4. dogs[w].child \in Slots => Stopping(procs, dogs[w].child, FALSE) \in [Slots -> Procs]
    BY <1>0, StoppingType
  <2>5. dogs[w].child \in Slots => [procs EXCEPT ![dogs[w].child] = NoProc] \in [Slots -> Procs]
    BY <1>0, Blank
  <2>6. procs' \in [Slots -> Procs] /\ port' \in Slots \cup {NoOne, Stranger}
    BY <1>0, <1>2, <2>4, <2>5 DEF DogStopped
  <2> QED
    BY <1>2, <2>2, <2>3, <2>6 DEF DogStopped, TypeOK, history
<1> QED
  BY <1>1, <1>2

\* So do the steps of a process.
LEMMA Proc_TypeOK ==
  ASSUME TypeOK, NEW s \in Slots,
         ProcSteps(s) \/ FlushStarts(s) \/ SweepStarts(s) \/ SweepWrites(s) \/ Around(s)
  PROVE  TypeOK'
<1>0. /\ procs \in [Slots -> Procs] /\ events \in Nat /\ procs[s] \in Procs
      /\ port \in Slots \cup {NoOne, Stranger}
  BY DEF TypeOK
<1>a. {"bound", "lost", "serving", "closed", "leaving"} \subseteq Stages /\ procs[s].at \in Stages
  BY <1>0 DEF Stages, Procs
<1>b. ASSUME NEW at \in Stages PROVE Set(s, "at", at) \in [Slots -> Procs]
  BY <1>0, <1>b DEF Set, Procs
<1>c. ASSUME NEW flush \in {"none", "some", "final"} PROVE Set(s, "flush", flush) \in [Slots -> Procs]
  BY <1>0, <1>c DEF Set, Procs
<1>d. ASSUME NEW b \in BOOLEAN
      PROVE  Set(s, "sweep", b) \in [Slots -> Procs] /\ Set(s, "hung", b) \in [Slots -> Procs]
  BY <1>0, <1>d DEF Set, Procs
<1> USE DEF history
<1>1. CASE Bind(s)
  <2>1. procs' \in [Slots -> Procs]
    BY <1>1, <1>a, <1>b DEF Bind
  <2>2. port' \in Slots \cup {NoOne, Stranger}
    BY <1>0, <1>1 DEF Bind
  <2> QED
    BY <1>1, <2>1, <2>2 DEF Bind, TypeOK
<1>2. CASE CannotServe(s)
  <2>1. /\ procs' \in [Slots -> Procs] /\ port' \in Slots \cup {NoOne, Stranger}
        /\ dogs' \in [Watchdogs -> Dogs]
    BY <1>2, EndedDogs DEF CannotServe
  <2> QED
    BY <1>2, <2>1 DEF CannotServe, TypeOK
<1>3. CASE LostBind(s)
  <2>1. /\ procs' \in [Slots -> Procs] /\ port' \in Slots \cup {NoOne, Stranger}
        /\ dogs' \in [Watchdogs -> Dogs]
    BY <1>3, EndedDogs DEF LostBind
  <2> QED
    BY <1>3, <2>1 DEF LostBind, TypeOK
<1>4. CASE Publish(s)
  <2>1. procs' \in [Slots -> Procs]
    BY <1>4, <1>a, <1>b DEF Publish
  <2> QED
    BY <1>4, <2>1 DEF Publish, TypeOK
<1>5. CASE FinalFlush(s)
  <2>1. procs' \in [Slots -> Procs]
    BY <1>5, <1>c DEF FinalFlush
  <2> QED
    BY <1>5, <2>1 DEF FinalFlush, TypeOK
<1>6. CASE FlushEnds(s)
  <2> DEFINE at == IF procs[s].flush = "final" THEN "closed" ELSE procs[s].at
  <2>1. at \in Stages
    BY <1>a
  <2>2. procs' = [procs EXCEPT ![s].flush = "none", ![s].at = at]
    BY <1>6 DEF FlushEnds
  <2> HIDE DEF at
  <2>3. procs' \in [Slots -> Procs]
    BY <1>0, <2>1, <2>2, SetProc
  <2> QED
    BY <1>6, <2>3 DEF FlushEnds, TypeOK
<1>7. CASE Shutdown(s)
  <2>1. procs' \in [Slots -> Procs]
    BY <1>7, <1>a, <1>b DEF Shutdown
  <2> QED
    BY <1>7, <2>1 DEF Shutdown, TypeOK
<1>8. CASE Exit(s)
  <2>1. /\ procs' \in [Slots -> Procs] /\ port' \in Slots \cup {NoOne, Stranger}
        /\ dogs' \in [Watchdogs -> Dogs]
    BY <1>8, EndedDogs DEF Exit
  <2>2. published' \subseteq Slots
    BY <1>8 DEF Exit, Unpublish, TypeOK
  <2> QED
    BY <1>8, <2>1, <2>2 DEF Exit, TypeOK
<1>9. CASE FlushStarts(s)
  <2>1. procs' \in [Slots -> Procs]
    BY <1>9, <1>c DEF FlushStarts
  <2> QED
    BY <1>9, <2>1 DEF FlushStarts, TypeOK
<1>10. CASE SweepStarts(s)
  <2>1. procs' \in [Slots -> Procs]
    BY <1>10, <1>d DEF SweepStarts
  <2> QED
    BY <1>10, <2>1 DEF SweepStarts, TypeOK
<1>11. CASE SweepWrites(s)
  <2>1. procs' \in [Slots -> Procs]
    BY <1>11, <1>d DEF SweepWrites
  <2> QED
    BY <1>11, <2>1 DEF SweepWrites, TypeOK
<1>12. CASE IdleExit(s)
  <2>1. procs' \in [Slots -> Procs] /\ events' \in Nat
    <3>1. Stopping(procs, s, FALSE) \in [Slots -> Procs]
      BY <1>0, StoppingType
    <3>2. procs' = Stopping(procs, s, FALSE) /\ events' = events + 1
      BY <1>12 DEF IdleExit, Event
    <3>3. events + 1 \in Nat
      BY <1>0
    <3> QED
      BY <3>1, <3>2, <3>3
  <2> QED
    BY <1>12, <2>1 DEF IdleExit, TypeOK
<1>13. CASE Crash(s)
  <2>1. /\ procs' \in [Slots -> Procs] /\ port' \in Slots \cup {NoOne, Stranger}
        /\ dogs' \in [Watchdogs -> Dogs]
    BY <1>13, EndedDogs DEF Crash
  <2>2. events' \in Nat
    BY <1>0, <1>13 DEF Crash, Event
  <2> QED
    BY <1>13, <2>1, <2>2 DEF Crash, TypeOK
<1>14. CASE Hang(s)
  <2>1. procs' \in [Slots -> Procs]
    BY <1>14, <1>d DEF Hang
  <2>2. events' \in Nat
    BY <1>0, <1>14 DEF Hang, Event
  <2> QED
    BY <1>14, <2>1, <2>2 DEF Hang, TypeOK
<1>15. CASE PidReused(s)
  <2>1. reused' \subseteq Slots /\ events' \in Nat
    BY <1>15 DEF PidReused, Event, TypeOK
  <2> QED
    BY <1>15, <2>1 DEF PidReused, TypeOK
<1> QED
  BY <1>1, <1>2, <1>3, <1>4, <1>5, <1>6, <1>7, <1>8, <1>9, <1>10, <1>11, <1>12, <1>13, <1>14, <1>15
     DEF ProcSteps, Around

\* Every step keeps the variables well typed.
LEMMA Next_TypeOK == TypeOK /\ [Next]_vars => TypeOK'
<1> SUFFICES ASSUME TypeOK, [Next]_vars PROVE TypeOK'
  OBVIOUS
<1>1. CASE StrangerTurns
  <2>1. events' \in Nat
    BY <1>1 DEF StrangerTurns, Event, TypeOK
  <2> QED
    BY <1>1, <2>1 DEF StrangerTurns, TypeOK, history
<1>2. ASSUME NEW p \in Paths, Upgraded(p) PROVE TypeOK'
  <2>1. builds' \in [Paths -> Versions] /\ events' \in Nat
    BY <1>2 DEF Upgraded, Event, TypeOK
  <2> QED
    BY <1>2, <2>1 DEF Upgraded, TypeOK, history
<1>3. CASE UNCHANGED vars
  BY <1>3 DEF vars, history, TypeOK
<1> QED
  BY <1>1, <1>2, <1>3, Cmd_TypeOK, Begin_TypeOK, Dog_TypeOK, Proc_TypeOK DEF Next

-----------------------------------------------------------------------------
(* Who holds the port, who uploads, who is published.                       *)

StageInv == PortInv /\ FlushInv /\ PublishedInv

\* One field of one process changes.
LEMMA SetStage ==
  ASSUME procs \in [Slots -> Procs], NEW s \in Slots, NEW v, NEW t \in Slots
  PROVE  /\ Set(s, "at", v)[t].at = IF t = s THEN v ELSE procs[t].at
         /\ Set(s, "at", v)[t].flush = procs[t].flush
         /\ Set(s, "flush", v)[t].at = procs[t].at
         /\ Set(s, "flush", v)[t].flush = IF t = s THEN v ELSE procs[t].flush
         /\ Set(s, "hung", v)[t].at = procs[t].at /\ Set(s, "hung", v)[t].flush = procs[t].flush
         /\ Set(s, "sweep", v)[t].at = procs[t].at /\ Set(s, "sweep", v)[t].flush = procs[t].flush
  BY DEF Set, Procs

\* What StageInv reads is left as it is, but for a stop of a serving process.
LEMMA StageKept ==
  ASSUME TypeOK, TypeOK', StageInv, port' = port, published' = published, removed' = removed,
         \A t \in Slots : /\ procs'[t].flush = procs[t].flush
                         /\ (procs'[t].at = procs[t].at
                             \/ (procs[t].at = "serving" /\ procs'[t].at = "closing"))
  PROVE  StageInv'
<1>1. PortInv'
  BY DEF StageInv, PortInv, Holding
<1>2. FlushInv'
  BY DEF StageInv, FlushInv
<1>3. PublishedInv'
  BY DEF StageInv, PublishedInv, Published
<1> QED
  BY <1>1, <1>2, <1>3 DEF StageInv

\* A process that ends leaves the port, if it held it, and nothing else.
LEMMA Gone_Stage ==
  ASSUME TypeOK, StageInv, NEW s \in Slots, procs' = [procs EXCEPT ![s] = NoProc],
         port' = IF port = s THEN NoOne ELSE port, removed' = removed,
         published \subseteq published' \cup {s}
  PROVE  StageInv'
<1>1. ASSUME NEW t \in Slots PROVE procs'[t] = IF t = s THEN NoProc ELSE procs[t]
  BY DEF TypeOK
<1>2. port' = IF port = s THEN NoOne ELSE port
  OBVIOUS
<1>3. NoOne \notin Slots
  BY ProxyConstants
<1>4. PortInv'
  BY <1>1, <1>2, <1>3 DEF StageInv, PortInv, Holding, NoProc
<1>5. FlushInv'
  BY <1>1 DEF StageInv, FlushInv, NoProc
<1>6. PublishedInv'
  BY <1>1 DEF StageInv, PublishedInv, Published, NoProc
<1> QED
  BY <1>4, <1>5, <1>6 DEF StageInv

\* A command keeps what each stage says of the port, the flush and the token.
LEMMA Cmd_Stage ==
  ASSUME TypeOK, TypeOK', StageInv, NEW c \in Cmds, CmdSteps(c)
  PROVE  StageInv'
<1>0. /\ procs \in [Slots -> Procs] /\ cmds[c] \in Commands
      /\ cmds[c].at \in {"signal", "post"} => cmds[c].seen \in Slots
  BY DEF TypeOK, Commands
<1>1. CASE Signal(c) \/ Post(c)
  <2>1. cmds[c].seen \in Slots
    BY <1>0, <1>1 DEF Signal, Post, At
  <2>2. (\E handover \in BOOLEAN : procs' = Stopping(procs, cmds[c].seen, handover)) \/ procs' = procs
    <3>1. CASE Signal(c)
      BY <3>1 DEF Signal
    <3>2. CASE Post(c)
      <4>1. (cmds[c].kind = "ensure") \in BOOLEAN
        OBVIOUS
      <4> QED
        BY <3>2, <4>1 DEF Post
    <3> QED
      BY <1>1, <3>1, <3>2
  <2>3. ASSUME NEW t \in Slots
        PROVE  /\ procs'[t].flush = procs[t].flush
               /\ (procs'[t].at = procs[t].at
                   \/ (procs[t].at = "serving" /\ procs'[t].at = "closing"))
    BY <1>0, <2>1, <2>2, StoppingStage
  <2>4. port' = port /\ published' = published /\ removed' = removed
    BY <1>1 DEF Signal, Post, history
  <2> QED
    BY <2>3, <2>4, StageKept
<1>2. CASE Look(c) \/ Verify(c) \/ WaitPortFree(c) \/ Spawn(c) \/ WaitHealthy(c)
  <2>1. procs' = procs /\ port' = port /\ published' = published /\ removed' = removed
    BY <1>2 DEF Look, Verify, WaitPortFree, Spawn, WaitHealthy, history
  <2> QED
    BY <2>1, StageKept
<1>3. CASE Delete(c)
  <2>1. procs' = procs /\ port' = port /\ removed' # "no"
    BY <1>3 DEF Delete
  <2> QED
    BY <2>1 DEF StageInv, PortInv, FlushInv, PublishedInv
<1> QED
  BY <1>1, <1>2, <1>3 DEF CmdSteps

\* So does a watchdog,
LEMMA Dog_Stage ==
  ASSUME TypeOK, TypeOK', StageInv, NEW w \in Watchdogs, StartChild(w) \/ DogStopped(w)
  PROVE  StageInv'
<1>0. procs \in [Slots -> Procs] /\ NoOne \notin Slots
  BY ProxyConstants DEF TypeOK
<1>1. CASE StartChild(w)
  <2>1. PICK s \in Slots :
          /\ procs[s] = NoProc
          /\ procs' = [procs EXCEPT ![s] = [NoProc EXCEPT !.at = "starting", !.path = dogs[w].path,
                                                          !.ver = builds[dogs[w].path]]]
    BY <1>1 DEF StartChild, Free
  <2>2. ASSUME NEW t \in Slots
        PROVE  /\ procs'[t].flush = procs[t].flush
               /\ procs[t].at \notin {"none"} \/ t # s => procs'[t].at = procs[t].at
               /\ t = s => procs[t].at = "none" /\ procs'[t].at = "starting"
    BY <1>0, <2>1 DEF NoProc
  <2>3. port' = port /\ published' = published /\ removed' = removed
    BY <1>1 DEF StartChild, history
  <2>4. PortInv'
    BY <2>2, <2>3 DEF StageInv, PortInv, Holding
  <2>5. FlushInv'
    BY <2>2 DEF StageInv, FlushInv
  <2>6. PublishedInv'
    BY <2>2, <2>3 DEF StageInv, PublishedInv, Published
  <2> QED
    BY <2>4, <2>5, <2>6 DEF StageInv
<1>2. CASE DogStopped(w)
  <2> DEFINE s == dogs[w].child
  <2>1. published' = published /\ removed' = removed
    BY <1>2 DEF DogStopped, history
  <2>2. CASE s \in Slots /\ procs[s].at \in {"starting", "lost", "bound"}
    <3>1. procs' = [procs EXCEPT ![s] = NoProc] /\ port' = IF port = s THEN NoOne ELSE port
      BY <1>2, <2>2 DEF DogStopped
    <3> QED
      BY <2>1, <2>2, <3>1, Gone_Stage
  <2>3. CASE ~(s \in Slots /\ procs[s].at \in {"starting", "lost", "bound"})
    <3>1. port' = port /\ procs' = IF s \in Slots THEN Stopping(procs, s, FALSE) ELSE procs
      BY <1>2, <2>3 DEF DogStopped
    <3>2. ASSUME NEW t \in Slots
          PROVE  /\ procs'[t].flush = procs[t].flush
                 /\ (procs'[t].at = procs[t].at
                     \/ (procs[t].at = "serving" /\ procs'[t].at = "closing"))
      <4>1. CASE s \in Slots
        <5>1. \E handover \in BOOLEAN : procs' = Stopping(procs, s, handover)
          BY <3>1, <4>1
        <5> HIDE DEF s
        <5> QED
          BY <1>0, <4>1, <5>1, StoppingStage
      <4>2. CASE s \notin Slots
        BY <3>1, <4>2
      <4> QED
        BY <4>1, <4>2
    <3> QED
      BY <2>1, <3>1, <3>2, StageKept
  <2> QED
    BY <2>2, <2>3
<1> QED
  BY <1>1, <1>2

\* and so do a process's own steps.
LEMMA Proc_Stage ==
  ASSUME TypeOK, TypeOK', StageInv, NEW s \in Slots,
         ProcSteps(s) \/ FlushStarts(s) \/ SweepStarts(s) \/ SweepWrites(s) \/ Around(s)
  PROVE  StageInv'
<1>0. procs \in [Slots -> Procs] /\ NoOne \notin Slots
  BY ProxyConstants DEF TypeOK
<1>s. PortInv /\ FlushInv /\ PublishedInv
  BY DEF StageInv
<1> USE DEF history
<1>1. CASE Bind(s)
  <2>0. procs[s].at = "starting" /\ published' = published /\ removed' = removed
    BY <1>1 DEF Bind
  <2>1. CASE port = NoOne
    <3>1. port' = s /\ procs' = Set(s, "at", "bound")
      BY <1>1, <2>1 DEF Bind
    <3>2. ASSUME NEW t \in Slots
          PROVE procs'[t].at = (IF t = s THEN "bound" ELSE procs[t].at) /\ procs'[t].flush = procs[t].flush
      BY <1>0, <3>1, SetStage
    <3>3. PortInv'
      BY <1>0, <1>s, <2>1, <3>1, <3>2 DEF PortInv, Holding
    <3>4. FlushInv'
      BY <1>s, <2>0, <3>2 DEF FlushInv
    <3>5. PublishedInv'
      BY <1>s, <2>0, <3>2 DEF PublishedInv, Published
    <3> QED
      BY <3>3, <3>4, <3>5 DEF StageInv
  <2>2. CASE port # NoOne
    <3>1. port' = port /\ procs' = Set(s, "at", "lost")
      BY <1>1, <2>2 DEF Bind
    <3>2. ASSUME NEW t \in Slots
          PROVE procs'[t].at = (IF t = s THEN "lost" ELSE procs[t].at) /\ procs'[t].flush = procs[t].flush
      BY <1>0, <3>1, SetStage
    <3>3. PortInv'
      BY <1>s, <2>0, <3>1, <3>2 DEF PortInv, Holding
    <3>4. FlushInv'
      BY <1>s, <2>0, <3>2 DEF FlushInv
    <3>5. PublishedInv'
      BY <1>s, <2>0, <3>2 DEF PublishedInv, Published
    <3> QED
      BY <3>3, <3>4, <3>5 DEF StageInv
  <2> QED
    BY <2>1, <2>2
<1>2. CASE CannotServe(s)
  BY <1>2, Gone_Stage DEF CannotServe, Ended
<1>3. CASE LostBind(s)
  BY <1>3, Gone_Stage DEF LostBind, Ended
<1>4. CASE Publish(s)
  <2>1. /\ procs[s].at = "bound" /\ port' = port /\ published' = {s} /\ removed' = removed
        /\ procs' = Set(s, "at", "serving")
    BY <1>4 DEF Publish
  <2>2. ASSUME NEW t \in Slots
        PROVE procs'[t].at = (IF t = s THEN "serving" ELSE procs[t].at) /\ procs'[t].flush = procs[t].flush
    BY <1>0, <2>1, SetStage
  <2>3. PortInv'
    BY <1>s, <2>1, <2>2 DEF PortInv, Holding
  <2>4. FlushInv'
    BY <1>s, <2>1, <2>2 DEF FlushInv
  \* Who binds the port is the only one of a published stage.
  <2>5. ASSUME NEW t \in Slots, procs'[t].at \in Published PROVE t = s
    BY <1>s, <2>1, <2>2, <2>5 DEF PortInv, Holding, Published
  <2>6. PublishedInv'
    BY <2>1, <2>5 DEF PublishedInv
  <2> QED
    BY <2>3, <2>4, <2>6 DEF StageInv
<1>5. CASE FinalFlush(s) \/ FlushStarts(s)
  <2>1. PICK v \in {"some", "final"} :
          /\ procs' = Set(s, "flush", v) /\ procs[s].at = IF v = "some" THEN "serving" ELSE "closing"
    BY <1>5 DEF FinalFlush, FlushStarts
  <2>2. port' = port /\ published' = published /\ removed' = removed
    BY <1>5 DEF FinalFlush, FlushStarts
  <2>3. ASSUME NEW t \in Slots
        PROVE procs'[t].at = procs[t].at /\ procs'[t].flush = (IF t = s THEN v ELSE procs[t].flush)
    BY <1>0, <2>1, SetStage
  <2>4. PortInv' /\ PublishedInv'
    BY <1>s, <2>2, <2>3 DEF PortInv, PublishedInv
  <2>5. FlushInv'
    BY <1>s, <2>1, <2>3 DEF FlushInv
  <2> QED
    BY <2>4, <2>5 DEF StageInv
<1>6. CASE FlushEnds(s)
  <2>1. /\ procs' = [procs EXCEPT ![s].flush = "none",
                                  ![s].at = IF procs[s].flush = "final" THEN "closed" ELSE @]
        /\ port' = port /\ published' = published /\ removed' = removed
    BY <1>6 DEF FlushEnds
  <2>2. ASSUME NEW t \in Slots
        PROVE  /\ procs'[t].at = (IF t = s /\ procs[s].flush = "final" THEN "closed" ELSE procs[t].at)
               /\ procs'[t].flush = (IF t = s THEN "none" ELSE procs[t].flush)
    BY <1>0, <2>1 DEF Procs
  <2>3. procs[s].flush = "final" => procs[s].at = "closing"
    BY <1>s DEF FlushInv
  <2>4. PortInv'
    BY <1>s, <2>1, <2>2, <2>3, ZenonT(30) DEF PortInv, Holding
  <2>5. FlushInv'
    BY <1>s, <2>2 DEF FlushInv
  <2>6. PublishedInv'
    BY <1>s, <2>1, <2>2, <2>3 DEF PublishedInv, Published
  <2> QED
    BY <2>4, <2>5, <2>6 DEF StageInv
<1>7. CASE Shutdown(s)
  <2>1. /\ procs[s].at = "closed" /\ procs' = Set(s, "at", "leaving") /\ port' = NoOne
        /\ published' = published /\ removed' = removed
    BY <1>7 DEF Shutdown, ShutdownAfter
  <2>2. ASSUME NEW t \in Slots
        PROVE procs'[t].at = (IF t = s THEN "leaving" ELSE procs[t].at) /\ procs'[t].flush = procs[t].flush
    BY <1>0, <2>1, SetStage
  <2>3. port = s
    BY <1>s, <2>1 DEF PortInv, Holding
  <2>4. PortInv'
    BY <1>0, <1>s, <2>1, <2>2, <2>3 DEF PortInv, Holding
  <2>5. FlushInv'
    BY <1>s, <2>1, <2>2 DEF FlushInv
  <2>6. PublishedInv'
    BY <1>s, <2>1, <2>2 DEF PublishedInv, Published
  <2> QED
    BY <2>4, <2>5, <2>6 DEF StageInv
<1>8. CASE Exit(s)
  <2>1. published \subseteq published' \cup {s}
    BY <1>8 DEF Exit, Unpublish
  <2> QED
    BY <1>8, <2>1, Gone_Stage DEF Exit, Ended
<1>9. CASE SweepStarts(s) \/ SweepWrites(s) \/ Hang(s)
  <2>1. PICK field \in {"sweep", "hung"}, b \in BOOLEAN : procs' = Set(s, field, b)
    BY <1>9 DEF SweepStarts, SweepWrites, Hang
  <2>2. port' = port /\ published' = published /\ removed' = removed
    BY <1>9 DEF SweepStarts, SweepWrites, Hang
  <2>3. ASSUME NEW t \in Slots PROVE procs'[t].at = procs[t].at /\ procs'[t].flush = procs[t].flush
    BY <1>0, <2>1, SetStage
  <2> QED
    BY <2>2, <2>3, StageKept
<1>10. CASE IdleExit(s)
  <2>1. ASSUME NEW t \in Slots
        PROVE  /\ procs'[t].flush = procs[t].flush
               /\ (procs'[t].at = procs[t].at
                   \/ (procs[t].at = "serving" /\ procs'[t].at = "closing"))
    <3>1. \E handover \in BOOLEAN : procs' = Stopping(procs, s, handover)
      BY <1>10 DEF IdleExit
    <3> QED
      BY <1>0, <3>1, StoppingStage
  <2> QED
    BY <1>10, <2>1, StageKept DEF IdleExit
<1>11. CASE Crash(s)
  BY <1>11, Gone_Stage DEF Crash, Ended
<1>12. CASE PidReused(s)
  BY <1>12, StageKept DEF PidReused
<1> QED
  BY <1>1, <1>2, <1>3, <1>4, <1>5, <1>6, <1>7, <1>8, <1>9, <1>10, <1>11, <1>12 DEF ProcSteps, Around

\* Every step keeps what each stage says.
LEMMA Next_Stage == TypeOK /\ StageInv /\ [Next]_vars => StageInv'
<1> SUFFICES ASSUME TypeOK, StageInv, [Next]_vars PROVE StageInv'
  OBVIOUS
<1>0. TypeOK'
  BY Next_TypeOK
<1>1. ASSUME NEW c \in Cmds, NEW kind \in {"ensure", "uninstall"}, NEW path \in Paths,
             Begin(c, kind, path)
      PROVE  StageInv'
  BY <1>0, <1>1, StageKept DEF Begin, history
<1>2. CASE StrangerTurns
  <2>1. port \notin Slots /\ port' \notin Slots
    BY <1>2, ProxyConstants DEF StrangerTurns
  <2> QED
    BY <1>2, <2>1 DEF StrangerTurns, history, StageInv, PortInv, FlushInv, PublishedInv
<1>3. ASSUME NEW p \in Paths, Upgraded(p) PROVE StageInv'
  BY <1>0, <1>3, StageKept DEF Upgraded, history
<1>4. CASE UNCHANGED vars
  BY <1>0, <1>4, StageKept DEF vars, history
<1> QED
  BY <1>0, <1>1, <1>2, <1>3, <1>4, Cmd_Stage, Dog_Stage, Proc_Stage DEF Next

-----------------------------------------------------------------------------
\* The inductive invariant holds at the start.
LEMMA Init_ProxyInv == Init => ProxyInv
<1> SUFFICES ASSUME Init PROVE ProxyInv
  OBVIOUS
<1>1. \A s \in Slots : procs[s].at = "none" /\ procs[s].flush = "none" /\ port # s
  BY ProxyConstants DEF Init, NoProc
<1>2. StageInv
  BY <1>1 DEF StageInv, PortInv, FlushInv, PublishedInv, Holding, Published
<1> QED
  BY <1>2, Init_TypeOK DEF ProxyInv, StageInv, Init

\* Every step keeps the inductive invariant.
LEMMA Next_ProxyInv == ProxyInv /\ [Next]_vars => ProxyInv'
<1> SUFFICES ASSUME ProxyInv, [Next]_vars PROVE ProxyInv'
  OBVIOUS
<1>1. TypeOK' /\ StageInv'
  BY Next_TypeOK, Next_Stage DEF ProxyInv, StageInv
\* The pid is proven again right before the signal.
<1>2. ~struck'
  <2>0. ~struck
    BY DEF ProxyInv
  <2>1. ASSUME NEW c \in Cmds, Signal(c) PROVE ~struck'
    BY <2>0, <2>1 DEF Signal, ProvenAgain
  <2>2. CASE UNCHANGED struck
    BY <2>0, <2>2
  <2> QED
    BY <2>1, <2>2
       DEF Next, vars, history, CmdSteps, ProcSteps, Around, Look, Verify, Post, WaitPortFree, Spawn,
           WaitHealthy, Delete, Begin, StartChild, DogStopped, Bind, CannotServe, LostBind, Publish,
           FinalFlush, FlushEnds, Shutdown, Exit, FlushStarts, SweepStarts, SweepWrites, IdleExit,
           Crash, Hang, PidReused, StrangerTurns, Upgraded
<1> QED
  BY <1>1, <1>2 DEF ProxyInv, StageInv

\* The inductive invariant holds of every behaviour: the port, the stages of
\* the processes that pass it on, their uploads and their publication.
THEOREM ProxyInvariance == Spec => []ProxyInv
  BY Init_ProxyInv, Next_ProxyInv, PTL DEF Spec

\* Every variable stays in the set the code keeps it in.
THEOREM TypeCorrect == Spec => []TypeOK
<1>1. ProxyInv => TypeOK
  BY DEF ProxyInv
<1> QED
  BY <1>1, ProxyInvariance, PTL

\* No upload of a process goes on once another may hold the port, whatever
\* crashes, exits and takeovers come between: the bind is the only lock there
\* is between two uploaders.
THEOREM UploadHoldsPort == Spec => []OneFlusher
<1>1. ProxyInv => OneFlusher
  BY DEF ProxyInv, OneFlusher, PortInv, FlushInv, Holding
<1> QED
  BY <1>1, ProxyInvariance, PTL

\* A process that answers can prove itself to any command: nobody else's start,
\* exit or crash takes its token from the disk.
THEOREM AnswersProve == Spec => []ServingIsProvable
<1>1. ProxyInv => ServingIsProvable
  BY DEF ProxyInv, ServingIsProvable, Answers, PublishedInv, Published
<1> QED
  BY <1>1, ProxyInvariance, PTL

\* The pid of a hung holder names the proxy of this installation when it is
\* signalled, however late after it was read.
THEOREM SignalsOwn == Spec => []OnlyOwnSignalled
<1>1. ProxyInv => OnlyOwnSignalled
  BY DEF ProxyInv, OnlyOwnSignalled
<1> QED
  BY <1>1, ProxyInvariance, PTL
=============================================================================
