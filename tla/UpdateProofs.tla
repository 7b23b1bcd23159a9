---------------------------- MODULE UpdateProofs ----------------------------
(***************************************************************************)
(* That a committed build stays owed its finish, wherever runs die, and    *)
(* that a build that has not accepted its own install is never all there   *)
(* is, as long as a sweep that cannot put a binary back ends its run.      *)
(***************************************************************************)
EXTENDS Update, SequenceTheorems, TLAPS

Names   == Versions \cup {NoVersion}
Kept    == [as : Versions, file : [ver : Versions, ok : BOOLEAN]]
Stages  == {"lock", "sweep", "putback", "mark", "finish", "ask", "stage", "smoke", "keep", "swap",
            "verify", "back", "note", "drop", "installed", "finishNew", "record"}
Founds  == {"nothing", "putBack", "failed", "newest", "managed", "unusable", "upgraded"}
RunRecords == [kind : {"none", "check", "manual", "sweep"}, at : Stages \cup {"idle"}, ver : Names,
               rel : Names, found : Founds, gaveUp : BOOLEAN]

Shape ==
  /\ path \in [ver : Names, ok : BOOLEAN] /\ (path.ver = NoVersion => path = NoFile)
  /\ kept \in Seq(Kept) /\ staged \in BOOLEAN
  /\ st \in [pending : Names, failures : Nat, unusable : SUBSET Names, installed : Names, told : Names]
  /\ due \in BOOLEAN /\ lock \in Runs \cup {Free, Dead}
  /\ runs \in [Runs -> RunRecords]
  /\ index \in Versions /\ links \in BOOLEAN /\ managed \in BOOLEAN
  /\ owed \subseteq Versions /\ displaced \subseteq Versions /\ events \in Nat

-----------------------------------------------------------------------------
(* The invariant.                                                           *)

Installing == {"stage", "smoke", "keep", "swap", "verify", "back", "note", "drop", "installed", "finishNew"}
Placed     == {"verify", "back", "note", "drop", "installed", "finishNew"}
Aside      == {"swap", "verify", "back", "note", "drop"}

\* A run past the lock holds it; one that installs a release has a newer one.
LockInv ==
  \A r \in Runs :
    /\ ~At(r, "idle") => runs[r].ver \in Versions
    /\ runs[r].at \notin {"idle", "lock"} <=> lock = r
    /\ runs[r].at \in Installing => runs[r].rel \in Versions /\ runs[r].rel > runs[r].ver

\* What is at the path and beside it, by the stage of the run that holds the lock.
Place(r) ==
  /\ runs[r].at \in {"mark", "finish", "ask", "stage", "smoke", "keep"} => Len(kept) <= 1
  /\ At(r, "putback") => kept = << >>
  /\ runs[r].at \in Aside => Len(kept) \in {1, 2}
  /\ At(r, "swap") => path = NoFile \/ path = Last(kept).file
  /\ runs[r].at \in Placed => path.ver = runs[r].rel

PlaceInv == \A r \in Runs : Place(r)

Unfinished == owed \ displaced

\* The build the path had before, and what was kept before that one, of a build
\* that is owed its finish.
Past(v)   == path = NoFile \/ path.ver > v
Above(v, k) == k.file.ver > v
Is(v, k)  == k.as = v /\ k.file.ver = v /\ st.pending = v

\* A build owed its finish is at the path and named; or it is the one kept last,
\* under its own name, and named; or what is at the path and what would go back
\* to it are newer.
Rests(v) ==
  \/ path.ver = v /\ st.pending = v
  \/ Past(v) /\ kept # << >> /\ (Is(v, Last(kept)) \/ Above(v, Last(kept)))
  \/ Past(v) /\ kept = << >>

\* While an install is under way the same holds of what was kept before it.
Aided(r, v) ==
  /\ Last(kept).as = runs[r].ver /\ Last(kept).file.ver = runs[r].ver /\ v <= runs[r].ver
  /\ Len(kept) = 2 /\ Last(kept).file.ver # v => Is(v, kept[1]) \/ Above(v, kept[1])

Owes(r) ==
  /\ At(r, "finish") => st.pending = runs[r].ver
  /\ At(r, "putback") /\ path.ver \in Unfinished => st.pending = runs[r].rel
  /\ runs[r].at \in {"swap", "verify", "back", "note"} => \A v \in Unfinished : Aided(r, v)
  /\ At(r, "drop") => Unfinished = {} /\ st.pending = runs[r].rel
  /\ runs[r].at \in {"installed", "finishNew"} => Unfinished \subseteq {path.ver}

OwedInv == (\A v \in Unfinished : Rests(v)) /\ \A r \in Runs : Owes(r)

UpdateInv == Shape /\ LockInv /\ PlaceInv /\ OwedInv

-----------------------------------------------------------------------------
(* Sequences of kept binaries, and runs.                                    *)

LEMMA Prefix ==
  ASSUME NEW s \in Seq(Kept), NEW n \in Nat, n <= Len(s)
  PROVE  /\ SubSeq(s, 1, n) \in Seq(Kept) /\ Len(SubSeq(s, 1, n)) = n
         /\ \A i \in 1..n : SubSeq(s, 1, n)[i] = s[i]
<1>1. \A i \in 1..n : s[i] \in Kept
  OBVIOUS
<1> DEFINE t == SubSeq(s, 1, n)
<1>2. /\ t \in Seq(Kept) /\ Len(t) = (IF 1 <= n THEN n - 1 + 1 ELSE 0)
      /\ \A i \in 1..(n - 1 + 1) : t[i] = s[1 + i - 1]
  BY <1>1, SubSeqProperties
<1> HIDE DEF t
<1>3. Len(t) = n /\ \A i \in 1..n : t[i] = s[i]
  BY <1>2
<1> QED
  BY <1>2, <1>3 DEF t

LEMMA KeptSeq ==
  ASSUME NEW s \in Seq(Kept), s # << >>
  PROVE  /\ Len(s) \in Nat \ {0} /\ Last(s) \in Kept /\ Last(s) = s[Len(s)]
         /\ Front(s) \in Seq(Kept) /\ Len(Front(s)) = Len(s) - 1
         /\ \A i \in 1..(Len(s) - 1) : Front(s)[i] = s[i]
         /\ Front(s) = << >> <=> Len(s) = 1
<1>1. Len(s) \in Nat \ {0} /\ Last(s) = s[Len(s)] /\ s[Len(s)] \in Kept
  BY DEF Last
<1>2. Front(s) \in Seq(Kept) /\ Len(Front(s)) = Len(s) - 1 /\ \A i \in 1..(Len(s) - 1) : Front(s)[i] = s[i]
  <2>1. Len(s) - 1 \in Nat /\ Len(s) - 1 <= Len(s)
    BY <1>1
  <2>2. PICK n \in Nat : n = Len(s) - 1 /\ n <= Len(s)
    BY <2>1
  <2>3. Front(s) = SubSeq(s, 1, n)
    BY <2>2 DEF Front
  <2> QED
    BY <2>2, <2>3, Prefix
<1> QED
  BY <1>1, <1>2

LEMMA Appended ==
  ASSUME NEW s \in Seq(Kept), NEW k \in Kept
  PROVE  /\ Append(s, k) \in Seq(Kept) /\ Len(Append(s, k)) = Len(s) + 1 /\ Append(s, k) # << >>
         /\ Last(Append(s, k)) = k /\ \A i \in 1..Len(s) : Append(s, k)[i] = s[i]
BY DEF Last

LEMMA OneKept ==
  ASSUME NEW k \in Kept
  PROVE  <<k>> \in Seq(Kept) /\ Len(<<k>>) = 1 /\ Last(<<k>>) = k /\ <<k>> # << >>
BY DEF Last

LEMMA Alone ==
  ASSUME LockInv, NEW r \in Runs, runs[r].at \notin {"idle", "lock"}
  PROVE  lock = r /\ \A q \in Runs : q # r => runs[q].at \in {"idle", "lock"}
BY DEF LockInv

LEMMA RunFields ==
  ASSUME Shape, NEW r \in Runs
  PROVE  /\ runs[r] \in RunRecords /\ runs[r].at \in Stages \cup {"idle"} /\ runs[r].ver \in Names
         /\ runs[r].rel \in Names /\ runs[r].found \in Founds /\ runs[r].gaveUp \in BOOLEAN
         /\ runs[r].kind \in {"none", "check", "manual", "sweep"}
BY DEF Shape, RunRecords

LEMMA NoRunIs == NoRun \in RunRecords /\ NoRun.at = "idle" /\ NoVersion \in Names /\ Versions \subseteq Names
BY DEF NoRun, RunRecords, Founds, Names

Others(r) == \A q \in Runs : q # r => runs'[q] = runs[q]
SameRun(r) == /\ runs'[r].ver = runs[r].ver /\ runs'[r].rel = runs[r].rel /\ runs'[r].kind = runs[r].kind
              /\ runs'[r].gaveUp = runs[r].gaveUp

\* What a step does to the run it is of, and to the others.
LEMMA Goes ==
  ASSUME Shape, NEW r \in Runs, NEW at \in Stages, To(r, at)
  PROVE  runs' \in [Runs -> RunRecords] /\ Others(r) /\ SameRun(r) /\ runs'[r].at = at
BY RunFields DEF Shape, To, RunRecords, Others, SameRun

LEMMA Comings ==
  ASSUME Shape, NEW r \in Runs, NEW found \in Founds, Comes(r, found)
  PROVE  runs' \in [Runs -> RunRecords] /\ Others(r) /\ SameRun(r) /\ runs'[r].at = "record"
<1>1. runs' = [runs EXCEPT ![r] = [runs[r] EXCEPT !.at = "record", !.found = found]]
  BY DEF Shape, Comes
<1>2. [runs[r] EXCEPT !.at = "record", !.found = found] \in RunRecords
  BY RunFields DEF RunRecords, Stages
<1> QED
  BY <1>1, <1>2, RunFields DEF Shape, Others, SameRun, RunRecords

LEMMA Over ==
  ASSUME Shape, NEW r \in Runs, Ends(r)
  PROVE  /\ runs' \in [Runs -> RunRecords] /\ runs'[r] = NoRun /\ Others(r)
         /\ lock' \in Runs \cup {Free, Dead} /\ (lock' = IF lock = r THEN Free ELSE lock)
BY NoRunIs DEF Shape, Ends, Others

-----------------------------------------------------------------------------
(* Steps that leave the path, what is kept, and the note as they are.       *)

Still == UNCHANGED <<path, kept, owed, displaced>> /\ st'.pending = st.pending

LEMMA StillRests == Still => (Unfinished' = Unfinished /\ \A v \in Versions : Rests(v)' = Rests(v))
BY DEF Still, Unfinished, Rests, Past, Above, Is

\* The lock changes hands only where the run has it or nobody does.
Locked(r) == lock' = lock \/ (lock' \in {r, Free, Dead} /\ (lock \notin Runs \/ lock = r))

LEMMA LockKeeps ==
  ASSUME UpdateInv, NEW r \in Runs, Others(r), Locked(r),
         ~At(r, "idle")' => runs'[r].ver \in Versions,
         runs'[r].at \notin {"idle", "lock"} <=> lock' = r,
         runs'[r].at \in Installing => runs'[r].rel \in Versions /\ runs'[r].rel > runs'[r].ver
  PROVE  LockInv'
<1>1. ASSUME NEW q \in Runs, q # r PROVE runs[q].at \notin {"idle", "lock"} <=> lock' = q
  BY <1>1, UpdateConstants DEF UpdateInv, LockInv, Locked
<1> QED
  BY <1>1 DEF UpdateInv, LockInv, Others, At

\* The others' places: those that are past the lock are none but the holder.
LEMMA OthersKeep ==
  ASSUME UpdateInv, NEW r \in Runs, Others(r), runs[r].at \notin {"idle", "lock"}, NEW q \in Runs, q # r
  PROVE  runs'[q].at \in {"idle", "lock"}
BY Alone DEF UpdateInv, Others

LEMMA Quiet ==
  ASSUME UpdateInv, Still, Shape', NEW r \in Runs, Others(r), Locked(r),
         ~At(r, "idle")' => runs'[r].ver \in Versions,
         runs'[r].at \notin {"idle", "lock"} <=> lock' = r,
         runs'[r].at \in Installing => runs'[r].rel \in Versions /\ runs'[r].rel > runs'[r].ver,
         runs'[r].at \in {"mark", "finish", "ask", "stage", "smoke", "keep"} => Len(kept) <= 1,
         runs'[r].at \notin Aside \cup Placed \cup {"putback"},
         runs'[r].at = "finish" => st.pending = runs'[r].ver
  PROVE  UpdateInv'
<1>1. LockInv'
  BY LockKeeps
<1>2. ASSUME NEW q \in Runs PROVE Place(q)'
  BY DEF UpdateInv, PlaceInv, Place, Others, Still, At, Aside, Placed
<1>3. Unfinished' = Unfinished /\ \A v \in Unfinished : Rests(v)'
  BY StillRests DEF UpdateInv, OwedInv, Shape, Unfinished
<1>4. ASSUME NEW q \in Runs, q # r, runs[q].at \in {"swap", "verify", "back", "note"}, NEW v \in Unfinished
      PROVE  Aided(q, v)'
  BY <1>4 DEF UpdateInv, OwedInv, Owes, Aided, Still, Others, Is, Above
<1>5. ASSUME NEW q \in Runs PROVE Owes(q)'
  BY <1>3, <1>4 DEF UpdateInv, OwedInv, Owes, Others, Still, At, Aside, Placed
<1> QED
  BY <1>1, <1>2, <1>3, <1>5 DEF UpdateInv, PlaceInv, OwedInv

LEMMA Begins ==
  ASSUME UpdateInv, NEW r \in Runs, NEW kind \in {"check", "manual", "sweep"}, Begin(r, kind),
         events' \in Nat
  PROVE  UpdateInv'
<1>1. runs' \in [Runs -> RunRecords] /\ runs'[r].at = "lock" /\ runs'[r].ver \in Versions /\ Others(r)
  BY NoRunIs, ZenonT(30) DEF UpdateInv, Shape, Begin, NoRun, RunRecords, Stages, Founds, Names, NoFile, NoVersion, Others
<1>2. Still /\ UNCHANGED <<staged, st, due, lock, index, links, managed>>
  BY DEF Begin, Still, files, world, history
<1>3. Shape'
  BY <1>1, <1>2 DEF UpdateInv, Shape, Still
<1>4. Locked(r) /\ lock' # r
  <2>1. runs[r].at = "idle"
    BY NoRunIs DEF Begin
  <2>2. lock # r
    BY <2>1 DEF UpdateInv, LockInv
  <2> QED
    BY <1>2, <2>2 DEF Locked
<1> QED
  BY <1>1, <1>2, <1>3, <1>4, Quiet DEF At, Installing, Aside, Placed

LEMMA BeginsAll ==
  ASSUME UpdateInv, NEW r \in Runs, BeginCheck(r) \/ ByHand(r)
  PROVE  UpdateInv'
<1>1. CASE BeginCheck(r)
  BY <1>1, Begins DEF BeginCheck, UpdateInv, Shape
<1>2. CASE ByHand(r)
  BY <1>2, Begins DEF ByHand, Event, UpdateInv, Shape
<1> QED
  BY <1>1, <1>2

LEMMA TakesLock ==
  ASSUME UpdateInv, NEW r \in Runs, TakeLock(r)
  PROVE  UpdateInv'
<1>0. Shape /\ lock # r /\ runs[r].ver \in Versions
  BY DEF UpdateInv, LockInv, TakeLock, At
<1>1. Still /\ UNCHANGED <<staged, st, due, index, links, managed, events>> /\ At(r, "lock")
  BY DEF TakeLock, Still, files, world, history
<1>2. /\ runs' \in [Runs -> RunRecords] /\ lock' \in Runs \cup {Free, Dead} /\ Others(r) /\ Locked(r)
      /\ \/ runs'[r] = NoRun /\ lock' # r
         \/ lock' = r /\ runs'[r].at = "sweep" /\ runs'[r].ver = runs[r].ver
  <2>1. CASE lock \in Runs
    <3>1. Ends(r)
      BY <2>1 DEF TakeLock
    <3> QED
      BY <1>0, <3>1, Over DEF Locked
  <2>2. CASE lock \notin Runs /\ runs[r].kind = "check" /\ ~due
    BY <2>2, NoRunIs, UpdateConstants DEF TakeLock, UpdateInv, Shape, Others, Locked
  <2>3. CASE lock \notin Runs /\ ~(runs[r].kind = "check" /\ ~due)
    <3>1. lock' = r /\ To(r, "sweep")
      BY <2>3 DEF TakeLock
    <3> QED
      BY <1>0, <2>3, <3>1, Goes DEF Locked, Stages, SameRun
  <2> QED
    BY <2>1, <2>2, <2>3
<1>3. Shape'
  BY <1>1, <1>2 DEF UpdateInv, Shape, Still
<1> QED
  BY <1>0, <1>1, <1>2, <1>3, Quiet, NoRunIs DEF At, Installing, Aside, Placed

LEMMA Marks ==
  ASSUME UpdateInv, NEW r \in Runs, Mark(r)
  PROVE  UpdateInv'
<1>0. Shape /\ lock = r /\ runs[r].ver \in Versions /\ Len(kept) <= 1
  BY DEF UpdateInv, LockInv, PlaceInv, Place, Mark, At
<1>1. Still /\ UNCHANGED <<staged, st, index, links, managed>> /\ At(r, "mark")
  BY DEF Mark, Still, files, world, history
<1>2. /\ runs' \in [Runs -> RunRecords] /\ Others(r) /\ due' \in BOOLEAN /\ events' \in Nat
      /\ \/ runs'[r] = NoRun /\ lock' = Free
         \/ lock' = lock /\ runs'[r].at = "finish" /\ runs'[r].ver = runs[r].ver /\ st.pending = runs[r].ver
         \/ lock' = lock /\ runs'[r].at = "ask" /\ runs'[r].ver = runs[r].ver
  <2>1. CASE due' = FALSE /\ To(r, IF st.pending = runs[r].ver THEN "finish" ELSE "ask") /\ UNCHANGED <<lock, events>>
    BY <1>0, <2>1, Goes DEF Shape, Stages, SameRun
  <2>2. CASE Event /\ Ends(r) /\ UNCHANGED due
    BY <1>0, <2>2, Over DEF Shape, Event
  <2> QED
    BY <2>1, <2>2 DEF Mark
<1>3. Shape'
  BY <1>0, <1>1, <1>2 DEF Shape, Still
<1>4. Locked(r) /\ Free \notin Runs
  BY <1>0, <1>2, UpdateConstants DEF Locked
<1> QED
  BY <1>0, <1>1, <1>2, <1>3, <1>4, Quiet, NoRunIs DEF At, Installing, Aside, Placed

-----------------------------------------------------------------------------
(* Steps of the run that holds the lock.                                    *)

\* The run goes on under the lock, or is over and leaves it.
Moves(r) ==
  /\ runs' \in [Runs -> RunRecords] /\ Others(r)
  /\ \/ /\ lock' = r /\ runs'[r].at \notin {"idle", "lock"} /\ runs'[r].ver \in Versions
        /\ runs'[r].at \in Installing => runs'[r].rel \in Versions /\ runs'[r].rel > runs'[r].ver
     \/ lock' = Free /\ runs'[r] = NoRun

LEMMA Settles ==
  ASSUME UpdateInv, Shape', NEW r \in Runs, runs[r].at \notin {"idle", "lock"}, Moves(r),
         Place(r)', Owes(r)', \A v \in Unfinished' : Rests(v)'
  PROVE  UpdateInv'
<1>1. lock = r /\ Others(r) /\ Locked(r) /\ Free \notin Runs
  BY UpdateConstants DEF UpdateInv, LockInv, Moves, Locked
<1>2. LockInv'
  BY <1>1, LockKeeps, NoRunIs DEF Moves, At, Installing
<1>3. ASSUME NEW q \in Runs PROVE Place(q)' /\ Owes(q)'
  <2>1. CASE q = r
    BY <2>1
  <2>2. CASE q # r
    BY <1>1, <2>2, OthersKeep DEF Place, Owes, At, Aside, Placed
  <2> QED
    BY <2>1, <2>2
<1> QED
  BY <1>2, <1>3 DEF UpdateInv, PlaceInv, OwedInv

LEMMA HolderGoes ==
  ASSUME UpdateInv, NEW r \in Runs, runs[r].at \notin {"idle", "lock"}, NEW at \in Stages \ {"lock"},
         To(r, at), UNCHANGED lock, at \in Installing => runs[r].at \in Installing
  PROVE  Moves(r) /\ SameRun(r) /\ runs'[r].at = at /\ lock' = r
<1>1. Shape /\ lock = r
  BY DEF UpdateInv, LockInv
<1> QED
  BY <1>1, Goes DEF UpdateInv, LockInv, Moves, SameRun, Stages, At

LEMMA HolderComes ==
  ASSUME UpdateInv, NEW r \in Runs, runs[r].at \notin {"idle", "lock"}, NEW found \in Founds,
         Comes(r, found), UNCHANGED lock
  PROVE  Moves(r) /\ SameRun(r) /\ runs'[r].at = "record" /\ lock' = r
<1>1. Shape /\ lock = r
  BY DEF UpdateInv, LockInv
<1> QED
  BY <1>1, Comings DEF UpdateInv, LockInv, Moves, SameRun, Installing, At

LEMMA HolderEnds ==
  ASSUME UpdateInv, NEW r \in Runs, runs[r].at \notin {"idle", "lock"}, Ends(r)
  PROVE  Moves(r) /\ runs'[r] = NoRun /\ lock' = Free
<1>1. Shape /\ lock = r
  BY DEF UpdateInv, LockInv
<1> QED
  BY <1>1, Over DEF Moves

\* Nothing is asked of a run that is over, or has come to its end.
LEMMA Nothing ==
  ASSUME NEW r \in Runs, runs'[r] = NoRun \/ runs'[r].at = "record"
  PROVE  Place(r)' /\ Owes(r)'
BY NoRunIs DEF Place, Owes, At, Aside, Placed

LEMMA MovesShape == ASSUME Shape, NEW r \in Runs, Moves(r) PROVE runs' \in [Runs -> RunRecords] /\ lock' \in Runs \cup {Free, Dead}
BY DEF Moves

\* The same of steps that change neither the path, nor what is kept, nor the note.
LEMMA QuietlyOn ==
  ASSUME UpdateInv, Still, Shape', NEW r \in Runs, runs[r].at \notin {"idle", "lock"}, Moves(r),
         Place(r)', Owes(r)'
  PROVE  UpdateInv'
<1>1. \A v \in Unfinished' : Rests(v)'
  BY StillRests DEF UpdateInv, OwedInv, Shape, Unfinished
<1> QED
  BY <1>1, Settles

LEMMA Holder ==
  ASSUME UpdateInv, NEW r \in Runs, runs[r].at \notin {"idle", "lock"}
  PROVE  /\ Shape /\ lock = r /\ runs[r].ver \in Versions /\ Place(r) /\ Owes(r)
         /\ runs[r].at \in Installing => runs[r].rel \in Versions /\ runs[r].rel > runs[r].ver
         /\ \A v \in Unfinished : v \in Versions /\ Rests(v)
BY DEF UpdateInv, LockInv, PlaceInv, OwedInv, Shape, Unfinished, At

LEMMA Asks ==
  ASSUME UpdateInv, NEW r \in Runs, Ask(r)
  PROVE  UpdateInv'
<1>0. At(r, "ask") /\ runs[r].at = "ask" /\ Shape /\ lock = r /\ runs[r].ver \in Versions /\ Len(kept) <= 1
  BY Holder DEF Ask, At, Place
<1>1. Still /\ UNCHANGED <<staged, st, due, lock, index, links, managed>>
  BY DEF Ask, Still, files, world, history
<1>2. Moves(r) /\ events' \in Nat /\ runs'[r].at \in {"record", "stage"}
  <2>1. CASE Event /\ Comes(r, "failed")
    BY <1>0, <1>1, <2>1, HolderComes DEF Founds, Event, Shape
  <2>2. CASE ~Newer(index, runs[r].ver) /\ Comes(r, "newest") /\ UNCHANGED events
    BY <1>0, <1>1, <2>2, HolderComes DEF Founds, Shape
  <2>3. CASE ~managed /\ Barred(r) /\ Comes(r, "failed") /\ UNCHANGED events
    BY <1>0, <1>1, <2>3, HolderComes DEF Founds, Shape
  <2>4. CASE /\ runs' = [runs EXCEPT ![r].at = "record", ![r].rel = index,
                                     ![r].found = IF st.told # index THEN "managed" ELSE "nothing"]
             /\ UNCHANGED events
    <3>1. runs' = [runs EXCEPT ![r] = [runs[r] EXCEPT !.at = "record", !.rel = index,
                                     !.found = IF st.told # index THEN "managed" ELSE "nothing"]]
      BY <1>0, <2>4 DEF Shape
    <3> DEFINE run == [runs[r] EXCEPT !.at = "record", !.rel = index,
                                      !.found = IF st.told # index THEN "managed" ELSE "nothing"]
    <3>2. run \in RunRecords /\ run.at = "record" /\ run.ver = runs[r].ver
      BY <1>0, RunFields, NoRunIs, ZenonT(30) DEF RunRecords, Stages, Founds, Shape
    <3> HIDE DEF run
    <3>3. runs' = [runs EXCEPT ![r] = run]
      BY <3>1 DEF run
    <3> QED
      BY <1>0, <1>1, <2>4, <3>2, <3>3, ZenonT(30) DEF Moves, Others, Shape, Installing
  <2>5. CASE /\ Newer(index, runs[r].ver) /\ UNCHANGED events
             /\ runs' = [runs EXCEPT ![r].at = "stage", ![r].rel = index]
    <3> DEFINE run == [runs[r] EXCEPT !.at = "stage", !.rel = index]
    <3>1. runs' = [runs EXCEPT ![r] = run]
      BY <1>0, <2>5 DEF Shape
    <3>2. run \in RunRecords /\ run.at = "stage" /\ run.ver = runs[r].ver /\ run.rel = index
      BY <1>0, RunFields, NoRunIs DEF RunRecords, Stages, Shape
    <3> HIDE DEF run
    <3> QED
      BY <1>0, <1>1, <2>5, <3>1, <3>2 DEF Moves, Others, Shape, Newer
  <2> QED
    BY <2>1, <2>2, <2>3, <2>4, <2>5 DEF Ask
<1>3. Shape'
  BY <1>0, <1>1, <1>2, MovesShape DEF Shape, Still
<1>4. Place(r)' /\ Owes(r)'
  BY <1>0, <1>1, <1>2 DEF Place, Owes, At, Aside, Placed, Still
<1> QED
  BY <1>0, <1>1, <1>2, <1>3, <1>4, QuietlyOn

LEMMA Stagings ==
  ASSUME UpdateInv, NEW r \in Runs, Stage(r) \/ Smoke(r)
  PROVE  UpdateInv'
<1>0. runs[r].at \in {"stage", "smoke"} /\ Shape /\ lock = r /\ Len(kept) <= 1
  BY Holder DEF Stage, Smoke, At, Place
<1>1. Still /\ UNCHANGED <<st, due, lock, index, links, managed>>
  BY DEF Stage, Smoke, Still, world, history
<1>2. events' \in Nat
  BY <1>0 DEF Stage, Smoke, Event, Shape
<1>3. staged' \in BOOLEAN
  BY <1>0, Zenon DEF Stage, Smoke, Shape
<1>4. Moves(r) /\ runs'[r].at \in {"record", "smoke", "keep"}
  <2>1. CASE To(r, "smoke") \/ To(r, "keep")
    BY <1>0, <1>1, <1>2, <2>1, HolderGoes DEF Stages, Installing
  <2>2. CASE \E found \in Founds : Comes(r, found)
    BY <1>0, <1>1, <1>2, <2>2, HolderComes
  <2> QED
    BY <2>1, <2>2 DEF Stage, Smoke, Founds, Cut
<1>5. Shape'
  BY <1>0, <1>1, <1>2, <1>3, <1>4, MovesShape DEF Shape, Still
<1>6. Place(r)' /\ Owes(r)'
  BY <1>0, <1>1, <1>4 DEF Place, Owes, At, Aside, Placed, Still
<1> QED
  BY <1>0, <1>1, <1>4, <1>5, <1>6, QuietlyOn

-----------------------------------------------------------------------------
(* The sweep, and what it puts back.                                        *)

LEMMA AfterSweeps ==
  ASSUME UpdateInv, NEW r \in Runs, At(r, "sweep"), AfterSweep(r)
  PROVE  Moves(r) /\ (runs'[r] = NoRun \/ runs'[r].at \in {"mark", "record", "ask"})
<1>0. runs[r].at \notin {"idle", "lock"}
  BY DEF At
<1>1. CASE To(r, "mark") /\ UNCHANGED lock
  BY <1>0, <1>1, HolderGoes DEF Stages, Installing
<1>2. CASE To(r, "ask") /\ UNCHANGED lock
  BY <1>0, <1>2, HolderGoes DEF Stages, Installing
<1>3. CASE Comes(r, "nothing") /\ UNCHANGED lock
  BY <1>0, <1>3, HolderComes DEF Founds
<1>4. CASE Ends(r)
  BY <1>0, <1>4, HolderEnds
<1> QED
  BY <1>1, <1>2, <1>3, <1>4 DEF AfterSweep

LEMMA SweepShape ==
  ASSUME UpdateInv, NEW r \in Runs, Sweep(r)
  PROVE  /\ Shape /\ lock = r /\ runs[r].at = "sweep" /\ At(r, "sweep") /\ staged' \in BOOLEAN
         /\ UNCHANGED <<st, due, index, links, managed, displaced>> /\ events' \in Nat
<1>1. At(r, "sweep") /\ runs[r].at = "sweep" /\ staged' = FALSE /\ UNCHANGED <<st, due, world, displaced>>
  BY DEF Sweep, At
<1>2. events' \in Nat
  BY DEF Sweep, Refused, Event, UpdateInv, Shape
<1> QED
  BY <1>1, <1>2, Holder DEF world

LEMMA Sweeps ==
  ASSUME UpdateInv, NEW r \in Runs, Sweep(r)
  PROVE  UpdateInv'
<1>0. /\ Shape /\ lock = r /\ runs[r].at = "sweep" /\ At(r, "sweep") /\ staged' \in BOOLEAN
      /\ UNCHANGED <<st, due, index, links, managed, displaced>> /\ events' \in Nat
  BY SweepShape
<1>1. CASE kept = << >> /\ AfterSweep(r) /\ UNCHANGED <<path, kept, owed>>
  <2>1. Moves(r) /\ (runs'[r] = NoRun \/ runs'[r].at \in {"mark", "record", "ask"}) /\ Still
    BY <1>0, <1>1, AfterSweeps DEF Still
  <2>2. Shape'
    BY <1>0, <1>1, <2>1, MovesShape DEF Shape, Still
  <2>3. Place(r)' /\ Owes(r)'
    BY <1>1, <2>1, NoRunIs DEF Place, Owes, At, Aside, Placed, Still
  <2> QED
    BY <1>0, <2>1, <2>2, <2>3, QuietlyOn
<1>2. CASE kept # << >> /\ kept' = Spared /\ AfterSweep(r) /\ UNCHANGED <<path, owed>>
  <2>1. Moves(r) /\ (runs'[r] = NoRun \/ runs'[r].at \in {"mark", "record", "ask"})
    BY <1>0, <1>2, AfterSweeps
  <2>2. kept' \in Seq(Kept) /\ Len(kept') = 1 /\ Last(kept') = Last(kept) /\ kept' # << >>
    <3>1. Last(kept) \in Kept
      BY <1>0, <1>2, KeptSeq DEF Shape
    <3> QED
      BY <1>2, <3>1, OneKept DEF Spared
  <2>3. Shape'
    BY <1>0, <1>2, <2>1, <2>2, MovesShape DEF Shape
  <2>4. Place(r)' /\ Owes(r)'
    BY <1>2, <2>1, <2>2, NoRunIs DEF Place, Owes, At, Aside, Placed
  <2>5. \A v \in Unfinished' : Rests(v)'
    BY <1>0, <1>2, <2>2, Holder DEF Unfinished, Rests, Past, Above, Is
  <2> QED
    BY <1>0, <2>1, <2>3, <2>4, <2>5, Settles
<1>3. CASE /\ kept # << >> /\ path' = Last(kept).file /\ kept' = << >>
           /\ runs' = [runs EXCEPT ![r].at = "putback", ![r].rel = Last(kept).as]
           /\ owed' = owed \ {path.ver} /\ UNCHANGED lock
  <2>1. Last(kept) \in Kept
    BY <1>0, <1>3, KeptSeq DEF Shape
  <2>2. Moves(r) /\ runs'[r].at = "putback" /\ runs'[r].rel = Last(kept).as
    <3> DEFINE run == [runs[r] EXCEPT !.at = "putback", !.rel = Last(kept).as]
    <3>1. runs' = [runs EXCEPT ![r] = run]
      BY <1>0, <1>3 DEF Shape
    <3>2. run \in RunRecords /\ run.at = "putback" /\ run.ver = runs[r].ver /\ run.rel = Last(kept).as
      BY <1>0, <2>1, RunFields, NoRunIs DEF RunRecords, Stages, Kept
    <3> HIDE DEF run
    <3>3. runs' \in [Runs -> RunRecords] /\ Others(r) /\ runs'[r] = run
      BY <1>0, <3>1, <3>2 DEF Others, Shape
    <3>4. lock' = r /\ runs[r].ver \in Versions
      BY <1>0, <1>3, Holder
    <3> QED
      BY <3>2, <3>3, <3>4 DEF Moves, Installing
  <2>3. path'.ver \in Versions /\ path'.ver # NoVersion /\ path' \in [ver : Names, ok : BOOLEAN]
    BY <1>3, <2>1, UpdateConstants, NoRunIs DEF Kept, NoVersion
  <2>4. Shape'
    BY <1>0, <1>3, <2>2, <2>3, MovesShape DEF Shape
  <2>5. ASSUME NEW v \in Unfinished' PROVE Rests(v)' /\ (path'.ver = v => st.pending = Last(kept).as)
    <3>1. v \in Unfinished /\ v # path.ver /\ v \in Versions
      BY <1>0, <1>3, Holder DEF Unfinished
    <3>2. Is(v, Last(kept)) \/ Above(v, Last(kept))
      BY <1>0, <1>3, <3>1, Holder DEF Rests
    <3>3. v \in Nat /\ path'.ver \in Nat
      BY <2>3, <3>1, UpdateConstants
    <3> QED
      BY <1>0, <1>3, <3>2, <3>3 DEF Rests, Past, Is, Above
  <2>6. Place(r)' /\ Owes(r)'
    BY <1>0, <1>3, <2>2, <2>5 DEF Place, Owes, At, Aside, Placed
  <2> QED
    BY <1>0, <2>2, <2>4, <2>5, <2>6, Settles
<1> QED
  BY <1>1, <1>2, <1>3 DEF Sweep

LEMMA PutsBack ==
  ASSUME UpdateInv, NEW r \in Runs, PutBack(r)
  PROVE  UpdateInv'
<1>0. Shape /\ lock = r /\ runs[r].at = "putback" /\ kept = << >>
      /\ (path.ver \in Unfinished => st.pending = runs[r].rel)
  BY Holder DEF PutBack, At, Place, Owes
<1>1. UNCHANGED <<path, kept, staged, due, index, links, managed, owed, displaced, events>>
  BY DEF PutBack, files, world, history
<1>2. Moves(r) /\ (runs'[r] = NoRun \/ runs'[r].at = "record")
  <2>1. CASE Ends(r)
    BY <1>0, <2>1, HolderEnds
  <2>2. CASE Comes(r, "putBack") /\ UNCHANGED lock
    BY <1>0, <2>2, HolderComes DEF Founds
  <2> QED
    BY <2>1, <2>2 DEF PutBack
<1>3. st' \in [pending : Names, failures : Nat, unusable : SUBSET Names, installed : Names, told : Names]
  BY <1>0, NoRunIs DEF PutBack, Named, Shape
<1>4. Shape'
  BY <1>0, <1>1, <1>2, <1>3, MovesShape DEF Shape
<1>5. ASSUME NEW v \in Unfinished' PROVE Rests(v)'
  <2>1. v \in Unfinished /\ Rests(v)
    BY <1>0, <1>1, Holder DEF Unfinished
  <2>2. path.ver = v => st' = st
    BY <1>0, <2>1 DEF PutBack
  <2> QED
    BY <1>0, <1>1, <2>1, <2>2 DEF Rests, Past
<1> QED
  BY <1>0, <1>2, <1>4, <1>5, Nothing, Settles

-----------------------------------------------------------------------------
(* This build's own install, finished again.                                *)

\* What is not named is under no name: nothing rests on the note of another.
LEMMA Unnamed ==
  ASSUME NEW v, Rests(v), st.pending # v, UNCHANGED <<path, kept>>
  PROVE  Rests(v)'
BY DEF Rests, Past, Is, Above

LEMMA Finishes ==
  ASSUME UpdateInv, NEW r \in Runs, Finish(r)
  PROVE  UpdateInv'
<1>0. Shape /\ lock = r /\ runs[r].at = "finish" /\ Len(kept) <= 1 /\ st.pending = runs[r].ver
      /\ runs[r].ver \in Versions
  BY Holder DEF Finish, At, Place, Owes
<1>1. UNCHANGED <<path, kept, staged, due, lock, index, links, managed, displaced>>
  BY DEF Finish, files, world
<1>2. CASE st' = Named(NoVersion, 0) /\ owed' = owed \ {runs[r].ver} /\ To(r, "ask") /\ UNCHANGED events
  <2>1. Moves(r) /\ runs'[r].at = "ask"
    BY <1>0, <1>1, <1>2, HolderGoes DEF Stages, Installing
  <2>2. st' \in [pending : Names, failures : Nat, unusable : SUBSET Names, installed : Names, told : Names]
    BY <1>0, <1>2, NoRunIs DEF Named, Shape
  <2>3. Shape'
    BY <1>0, <1>1, <1>2, <2>1, <2>2, MovesShape DEF Shape
  <2>4. ASSUME NEW v \in Unfinished' PROVE Rests(v)'
    <3>1. v \in Unfinished /\ v # st.pending
      BY <1>0, <1>1, <1>2 DEF Unfinished
    <3> QED
      BY <1>0, <1>1, <3>1, Holder, Unnamed
  <2>5. Place(r)' /\ Owes(r)'
    BY <1>0, <1>1, <2>1 DEF Place, Owes, At, Aside, Placed
  <2> QED
    BY <1>0, <2>1, <2>3, <2>4, <2>5, Settles
<1>3. CASE /\ Event /\ st' = [st EXCEPT !.failures = @ + 1]
           /\ runs' = [runs EXCEPT ![r].at = "ask", ![r].gaveUp = st.failures + 1 >= FinishGiveUp]
           /\ UNCHANGED owed
  <2> DEFINE gave == st.failures + 1 >= FinishGiveUp
             run  == [runs[r] EXCEPT !.at = "ask", !.gaveUp = gave]
  <2>0. gave \in BOOLEAN
    OBVIOUS
  <2> HIDE DEF gave
  <2>1. runs' = [runs EXCEPT ![r] = run]
    BY <1>0, <1>3 DEF Shape, gave
  <2>2. run \in RunRecords /\ run.at = "ask" /\ run.ver = runs[r].ver
    BY <1>0, <2>0, RunFields DEF RunRecords, Stages
  <2> HIDE DEF run
  <2>3. runs' \in [Runs -> RunRecords] /\ Others(r) /\ runs'[r] = run
    BY <1>0, <2>1, <2>2 DEF Others, Shape
  <2>4. Moves(r) /\ runs'[r].at = "ask"
    BY <1>0, <1>1, <2>2, <2>3 DEF Moves, Installing
  <2>5. Shape'
    <3>1. st' \in [pending : Names, failures : Nat, unusable : SUBSET Names, installed : Names, told : Names]
      BY <1>0, <1>3 DEF Shape
    <3>2. events' \in Nat
      BY <1>0, <1>3 DEF Shape, Event
    <3> QED
      BY <1>0, <1>1, <1>3, <2>4, <3>1, <3>2, MovesShape DEF Shape
  <2>6. Still
    BY <1>0, <1>1, <1>3 DEF Still, Shape
  <2>7. Place(r)' /\ Owes(r)'
    BY <1>0, <1>1, <2>4 DEF Place, Owes, At, Aside, Placed
  <2> QED
    BY <1>0, <2>4, <2>5, <2>6, <2>7, QuietlyOn
<1> QED
  BY <1>2, <1>3 DEF Finish

-----------------------------------------------------------------------------
(* The commit.                                                              *)

LEMMA Onwards ==
  ASSUME NEW r \in Runs, Onward(r)
  PROVE  /\ runs[r].at = "note" => To(r, "drop")
         /\ runs[r].at = "drop" => To(r, "installed")
         /\ runs[r].at = "installed" => To(r, "finishNew")
<1> DEFINE i == CHOOSE n \in 1..3 : CommitSteps[n] = runs[r].at
<1>1. CommitSteps[1] = "note" /\ CommitSteps[2] = "drop" /\ CommitSteps[3] = "installed" /\ CommitSteps[4] = "finishNew"
  BY DEF CommitSteps
<1>2. ASSUME NEW m \in 1..3, runs[r].at = CommitSteps[m] PROVE i = m
  <2>1. \A n \in 1..3 : CommitSteps[n] = runs[r].at => n = m
    BY <1>1, <1>2
  <2> QED
    BY <1>2, <2>1
<1>3. To(r, CommitSteps[1 + i])
  BY DEF Onward
<1> HIDE DEF i
<1> QED
  BY <1>1, <1>2, <1>3

LEMMA Notes ==
  ASSUME UpdateInv, NEW r \in Runs, Note(r)
  PROVE  UpdateInv'
<1>0. /\ Shape /\ lock = r /\ runs[r].at = "note" /\ runs[r].rel \in Versions /\ Len(kept) \in {1, 2}
      /\ path.ver = runs[r].rel
  BY Holder DEF Note, At, Place, Aside, Placed, Installing
<1>1. /\ UNCHANGED <<path, kept, staged, due, lock, index, links, managed, owed, events>>
      /\ st' = Named(runs[r].rel, 0) /\ displaced' = owed
  BY DEF Note, files, world
<1>2. Moves(r) /\ runs'[r].at = "drop" /\ SameRun(r)
  <2>1. To(r, "drop")
    BY <1>0, Onwards DEF Note
  <2> QED
    BY <1>0, <1>1, <2>1, HolderGoes DEF Stages, Installing
<1>3. st' \in [pending : Names, failures : Nat, unusable : SUBSET Names, installed : Names, told : Names]
      /\ st'.pending = runs[r].rel
  BY <1>0, <1>1, NoRunIs DEF Named, Shape
<1>4. Shape'
  BY <1>0, <1>1, <1>2, <1>3, MovesShape DEF Shape
<1>5. Unfinished' = {}
  BY <1>1 DEF Unfinished
<1>6. Place(r)' /\ Owes(r)'
  BY <1>0, <1>1, <1>2, <1>3, <1>5 DEF Place, Owes, At, Aside, Placed, SameRun
<1> QED
  BY <1>0, <1>2, <1>4, <1>5, <1>6, Settles

LEMMA Drops ==
  ASSUME UpdateInv, NEW r \in Runs, Drop(r)
  PROVE  UpdateInv'
<1>0. /\ Shape /\ lock = r /\ runs[r].at = "drop" /\ runs[r].rel \in Versions /\ Len(kept) \in {1, 2}
      /\ path.ver = runs[r].rel /\ st.pending = runs[r].rel
  BY Holder DEF Drop, At, Place, Owes, Aside, Placed, Installing
<1>1. /\ UNCHANGED <<path, staged, st, due, lock, index, links, managed>>
      /\ owed' = {runs[r].rel} /\ displaced' = {}
  BY DEF Drop, world
<1>2. Moves(r) /\ runs'[r].at = "installed" /\ SameRun(r)
  <2>1. To(r, "installed")
    BY <1>0, Onwards DEF Drop
  <2> QED
    BY <1>0, <1>1, <2>1, HolderGoes DEF Stages, Installing
<1>3. kept' \in Seq(Kept) /\ events' \in Nat
  <2>1. kept # << >>
    BY <1>0
  <2> QED
    BY <1>0, <2>1, KeptSeq DEF Drop, Refused, Event, Shape
<1>4. Shape'
  BY <1>0, <1>1, <1>2, <1>3, MovesShape DEF Shape
<1>5. Unfinished' = {path.ver} /\ \A v \in Unfinished' : Rests(v)'
  BY <1>0, <1>1 DEF Unfinished, Rests
<1>6. Place(r)' /\ Owes(r)'
  BY <1>0, <1>1, <1>2, <1>5 DEF Place, Owes, At, Aside, Placed, SameRun
<1> QED
  BY <1>0, <1>2, <1>4, <1>5, <1>6, Settles

LEMMA Installs ==
  ASSUME UpdateInv, NEW r \in Runs, Installed(r)
  PROVE  UpdateInv'
<1>0. /\ Shape /\ lock = r /\ runs[r].at = "installed" /\ runs[r].rel \in Versions
      /\ path.ver = runs[r].rel /\ Unfinished \subseteq {path.ver}
  BY Holder DEF Installed, At, Place, Owes, Placed, Installing
<1>1. /\ UNCHANGED <<path, kept, staged, due, lock, index, links, managed, owed, displaced, events>>
      /\ st' = [st EXCEPT !.installed = runs[r].rel]
  BY DEF Installed, files, world, history
<1>2. Moves(r) /\ runs'[r].at = "finishNew" /\ SameRun(r)
  <2>1. To(r, "finishNew")
    BY <1>0, Onwards DEF Installed
  <2> QED
    BY <1>0, <1>1, <2>1, HolderGoes DEF Stages, Installing
<1>3. st' \in [pending : Names, failures : Nat, unusable : SUBSET Names, installed : Names, told : Names]
      /\ st'.pending = st.pending
  BY <1>0, <1>1, NoRunIs DEF Shape
<1>4. Shape' /\ Still
  BY <1>0, <1>1, <1>2, <1>3, MovesShape DEF Shape, Still
<1>5. Unfinished' = Unfinished
  BY <1>1 DEF Unfinished
<1>6. Place(r)' /\ Owes(r)'
  BY <1>0, <1>1, <1>2, <1>5 DEF Place, Owes, At, Aside, Placed, SameRun
<1> QED
  BY <1>0, <1>2, <1>4, <1>6, QuietlyOn

LEMMA FinishesNew ==
  ASSUME UpdateInv, NEW r \in Runs, FinishNew(r)
  PROVE  UpdateInv'
<1>0. /\ Shape /\ lock = r /\ runs[r].at = "finishNew" /\ Unfinished \subseteq {path.ver}
  BY Holder DEF FinishNew, At, Owes
<1>1. UNCHANGED <<path, kept, staged, due, lock, index, links, managed, displaced>>
  BY DEF FinishNew, files, world
<1>2. Moves(r) /\ runs'[r].at = "record"
  BY <1>0, <1>1, HolderComes DEF FinishNew, Founds
<1>3. st' \in [pending : Names, failures : Nat, unusable : SUBSET Names, installed : Names, told : Names]
      /\ events' \in Nat /\ owed' \subseteq Versions
  <2>1. CASE st' = Named(NoVersion, 0) /\ owed' = owed \ {path.ver} /\ UNCHANGED events
    BY <1>0, <2>1, NoRunIs DEF Named, Shape
  <2>2. CASE Event /\ st' = [st EXCEPT !.failures = @ + 1] /\ UNCHANGED owed
    BY <1>0, <2>2 DEF Event, Shape
  <2> QED
    BY <2>1, <2>2 DEF FinishNew
<1>4. Shape'
  BY <1>0, <1>1, <1>2, <1>3, MovesShape DEF Shape
<1>5. CASE owed' = owed \ {path.ver}
  <2>1. Unfinished' = {}
    BY <1>0, <1>1, <1>5 DEF Unfinished
  <2> QED
    BY <1>0, <1>2, <1>4, <2>1, Nothing, Settles
<1>6. CASE st' = [st EXCEPT !.failures = @ + 1] /\ UNCHANGED owed
  <2>1. Still
    BY <1>0, <1>1, <1>6 DEF Still, Shape
  <2> QED
    BY <1>0, <1>2, <1>4, <2>1, Nothing, QuietlyOn
<1> QED
  BY <1>5, <1>6 DEF FinishNew

-----------------------------------------------------------------------------
(* The install.                                                             *)

LEMMA Some ==
  ASSUME NEW s \in Seq(Kept), Len(s) \in {1, 2}
  PROVE  s # << >>
<1>1. SUFFICES ASSUME s = << >> PROVE FALSE
  OBVIOUS
<1>2. Len(s) = 0
  BY <1>1
<1> QED
  BY <1>2

LEMMA FileOf ==
  ASSUME NEW k \in Kept
  PROVE  k.file \in [ver : Names, ok : BOOLEAN] /\ k.file.ver \in Versions /\ k.file.ver # NoVersion
         /\ k.file # NoFile
BY UpdateConstants DEF Kept, Names, NoVersion, NoFile

LEMMA AtPath ==
  ASSUME Shape
  PROVE  path # NoFile <=> path.ver \in Versions
BY UpdateConstants DEF Shape, Names, NoFile, NoVersion

\* What is kept after a binary is put beside the others.
LEMMA KeptWith ==
  ASSUME Shape, NEW as \in Versions, path # NoFile, Len(kept) <= 1
  PROVE  LET now == Append(KeptUnderOthers(as), [as |-> as, file |-> path])
         IN /\ now \in Seq(Kept) /\ Len(now) \in {1, 2} /\ now # << >>
            /\ Last(now) = [as |-> as, file |-> path]
            /\ Len(now) = 2 => kept # << >> /\ now[1] = Last(kept)
<1> DEFINE k == [as |-> as, file |-> path]
<1>1. k \in Kept
  BY AtPath DEF Shape, Kept
<1> HIDE DEF k
<1>2. PICK s \in Seq(Kept) : s = KeptUnderOthers(as) /\ (s = << >> \/ (kept # << >> /\ s = kept /\ Len(s) = 1))
  <2>1. CASE KeptUnderOthers(as) = << >>
    <3>1. << >> \in Seq(Kept)
      OBVIOUS
    <3> QED
      BY <2>1, <3>1
  <2>2. CASE KeptUnderOthers(as) = kept /\ kept # << >>
    BY <2>2, KeptSeq DEF Shape
  <2> QED
    BY <2>1, <2>2 DEF KeptUnderOthers
<1>3. Len(s) \in {0, 1} /\ (Len(s) = 1 => kept # << >> /\ s = kept)
  <2>1. CASE s = << >>
    <3>1. Len(s) = 0
      BY <2>1
    <3> QED
      BY <3>1
  <2>2. CASE kept # << >> /\ s = kept /\ Len(s) = 1
    BY <2>2
  <2> QED
    BY <1>2, <2>1, <2>2
<1>4. /\ Append(s, k) \in Seq(Kept) /\ Len(Append(s, k)) = Len(s) + 1 /\ Append(s, k) # << >>
      /\ Last(Append(s, k)) = k /\ \A i \in 1..Len(s) : Append(s, k)[i] = s[i]
  BY <1>1, <1>2, Appended
<1>5. Len(Append(s, k)) = 2 => kept # << >> /\ Append(s, k)[1] = kept[1] /\ kept[1] = Last(kept)
  <2>1. SUFFICES ASSUME Len(Append(s, k)) = 2
                 PROVE  kept # << >> /\ Append(s, k)[1] = kept[1] /\ kept[1] = Last(kept)
    OBVIOUS
  <2>2. Len(s) = 1 /\ s = kept /\ kept # << >>
    BY <1>3, <1>4, <2>1
  <2> QED
    BY <1>4, <2>2, KeptSeq
<1>6. Append(s, k) = Append(KeptUnderOthers(as), [as |-> as, file |-> path])
  BY <1>2 DEF k
<1>7. Len(Append(s, k)) \in {1, 2} /\ Last(Append(s, k)) = [as |-> as, file |-> path]
  BY <1>3, <1>4 DEF k
<1> QED
  BY <1>4, <1>5, <1>6, <1>7

LEMMA Keeps ==
  ASSUME UpdateInv, NEW r \in Runs, Keep(r)
  PROVE  UpdateInv'
<1>0. /\ Shape /\ lock = r /\ runs[r].at = "keep" /\ runs[r].ver \in Versions /\ Len(kept) <= 1
  BY Holder DEF Keep, At, Place
<1>1. UNCHANGED <<st, due, lock, index, links, managed, owed, events>>
  BY DEF Keep, world
<1>2. CASE path = NoFile
  <2>1. Comes(r, "failed") /\ staged' = FALSE /\ UNCHANGED <<path, kept, displaced>>
    BY <1>2 DEF Keep
  <2>2. Moves(r) /\ runs'[r].at = "record" /\ Still
    BY <1>0, <1>1, <2>1, HolderComes DEF Founds, Still
  <2>3. Shape'
    BY <1>0, <1>1, <2>1, <2>2, MovesShape DEF Shape
  <2> QED
    BY <1>0, <2>2, <2>3, Nothing, QuietlyOn
<1>3. CASE path # NoFile
  <2> DEFINE k == [as |-> runs[r].ver, file |-> path]
  <2>1. /\ To(r, "swap") /\ path' = (IF links THEN path ELSE NoFile) /\ UNCHANGED staged
        /\ kept' = Append(KeptUnderOthers(runs[r].ver), k)
        /\ displaced' = IF runs[r].ver # path.ver THEN owed ELSE displaced
    BY <1>3 DEF Keep
  <2>2. Moves(r) /\ runs'[r].at = "swap" /\ SameRun(r)
    BY <1>0, <1>1, <2>1, HolderGoes DEF Stages, Installing
  <2>3. /\ kept' \in Seq(Kept) /\ Len(kept') \in {1, 2} /\ kept' # << >> /\ Last(kept') = k
        /\ Len(kept') = 2 => kept # << >> /\ kept'[1] = Last(kept)
    BY <1>0, <1>3, <2>1, KeptWith
  <2>4. path' \in [ver : Names, ok : BOOLEAN] /\ (path'.ver = NoVersion => path' = NoFile)
    BY <1>0, <2>1, NoRunIs DEF Shape, NoFile
  <2>5. Shape'
    BY <1>0, <1>1, <2>1, <2>2, <2>3, <2>4, MovesShape DEF Shape
  <2>6. ASSUME NEW v \in Unfinished'
        PROVE  v \in Unfinished /\ path.ver = runs[r].ver /\ v \in Nat /\ runs[r].ver \in Nat /\ Rests(v)
    <3>1. v \in Unfinished /\ path.ver = runs[r].ver
      BY <1>1, <2>1 DEF Unfinished
    <3> QED
      BY <1>0, <3>1, Holder, UpdateConstants
  <2>7. ASSUME NEW v \in Unfinished' PROVE Rests(v)' /\ Aided(r, v)'
    <3>1. /\ v \in Unfinished /\ path.ver = runs[r].ver /\ v \in Nat /\ path.ver \in Nat /\ Rests(v)
          /\ Last(kept').as = path.ver /\ Last(kept').file = path
      BY <2>3, <2>6
    <3>2. CASE path.ver = v /\ st.pending = v
      BY <1>0, <1>1, <2>1, <2>2, <2>3, <3>1, <3>2 DEF Rests, Past, Is, Above, Aided, SameRun
    <3>3. CASE path.ver > v
      <4>1. Past(v)' /\ Above(v, Last(kept'))
        BY <2>1, <3>1, <3>3 DEF Past, Above
      <4>2. Len(kept') = 2 => Is(v, kept[1])' \/ Above(v, kept[1])'
        <5>1. SUFFICES ASSUME Len(kept') = 2 PROVE Is(v, kept[1])' \/ Above(v, kept[1])'
          OBVIOUS
        <5>2. Is(v, Last(kept)) \/ Above(v, Last(kept))
          BY <2>3, <3>1, <3>3, <5>1 DEF Rests
        <5> QED
          BY <1>1, <2>3, <5>1, <5>2 DEF Is, Above
      <4> QED
        <5>1. Rests(v)'
          BY <2>3, <4>1 DEF Rests
        <5>2. Aided(r, v)'
          BY <2>2, <2>3, <2>6, <3>1, <3>3, <4>2 DEF Aided, SameRun
        <5> QED
          BY <5>1, <5>2
    <3> QED
      BY <1>3, <3>1, <3>2, <3>3 DEF Rests, Past
  <2>8. Place(r)' /\ Owes(r)'
    BY <2>1, <2>2, <2>3, <2>7 DEF Place, Owes, At, Aside, Placed
  <2> QED
    BY <1>0, <2>2, <2>5, <2>7, <2>8, Settles
<1> QED
  BY <1>2, <1>3

\* What is kept last goes back to the path, before the install commits.
LEMMA GoesBack ==
  ASSUME UpdateInv, NEW r \in Runs, runs[r].at \in {"swap", "back"},
         path' = Last(kept).file, kept' = Front(kept), UNCHANGED <<owed, displaced>>, st'.pending = st.pending
  PROVE  /\ path' \in [ver : Names, ok : BOOLEAN] /\ path'.ver # NoVersion /\ kept' \in Seq(Kept)
         /\ \A v \in Unfinished' : Rests(v)'
<1>1. /\ Shape /\ Len(kept) \in {1, 2} /\ (runs[r].at = "swap" => path = NoFile \/ path = Last(kept).file)
      /\ (runs[r].at = "back" => path.ver = runs[r].rel /\ runs[r].rel > runs[r].ver)
      /\ runs[r].ver \in Nat /\ runs[r].rel \in Names
  BY Holder, RunFields, UpdateConstants DEF Place, At, Aside, Placed, Installing
<1>2. kept # << >> /\ kept \in Seq(Kept)
  BY <1>1, Some DEF Shape
<1>3. /\ Last(kept) \in Kept /\ kept' \in Seq(Kept) /\ (kept' = << >> <=> Len(kept) = 1)
      /\ Len(kept) = 2 => kept' # << >> /\ Last(kept') = kept[1]
  <2>1. kept' \in Seq(Kept) /\ Len(kept') = Len(kept) - 1 /\ Last(kept) \in Kept
        /\ (kept' = << >> <=> Len(kept) = 1) /\ \A i \in 1..(Len(kept) - 1) : kept'[i] = kept[i]
    BY <1>2, KeptSeq
  <2>2. CASE Len(kept) = 1
    BY <2>1, <2>2
  <2>3. CASE Len(kept) = 2
    <3>1. kept' # << >> /\ Len(kept') = 1 /\ kept'[1] = kept[1]
      BY <2>1, <2>3
    <3> QED
      BY <2>1, <2>3, <3>1, KeptSeq
  <2> QED
    BY <1>1, <2>1, <2>2, <2>3
<1>4. ASSUME NEW v \in Unfinished PROVE Rests(v)'
  <2>1. v \in Versions /\ v \in Nat /\ Rests(v) /\ Aided(r, v)
    BY <1>1, Holder, UpdateConstants DEF Owes
  <2>2. Last(kept).file.ver \in Versions /\ Last(kept).file.ver \in Nat
    BY <1>3, FileOf, UpdateConstants
  <2>3. path.ver = v => Last(kept).file.ver = v
    <3>1. SUFFICES ASSUME path.ver = v PROVE Last(kept).file.ver = v
      OBVIOUS
    <3>2. path # NoFile
      BY <1>1, <2>1, <3>1, AtPath
    <3>3. CASE runs[r].at = "swap"
      BY <1>1, <3>1, <3>2, <3>3
    <3>4. CASE runs[r].at = "back"
      BY <1>1, <2>1, <3>1, <3>4 DEF Aided
    <3> QED
      BY <3>3, <3>4
  <2>4. CASE Last(kept).file.ver = v /\ st.pending = v
    BY <2>4 DEF Rests
  <2>5. CASE Above(v, Last(kept))
    <3>1. Past(v)'
      BY <2>5 DEF Above, Past
    <3>2. CASE Len(kept) = 1
      BY <1>3, <3>1, <3>2 DEF Rests
    <3>3. CASE Len(kept) = 2
      <4>1. Is(v, kept[1]) \/ Above(v, kept[1])
        BY <2>1, <2>2, <2>5, <3>3 DEF Aided, Above
      <4>2. kept' # << >> /\ Last(kept') = kept[1]
        BY <1>3, <3>3
      <4>3. (Is(v, Last(kept)) \/ Above(v, Last(kept)))'
        BY <4>1, <4>2 DEF Is, Above
      <4> QED
        BY <3>1, <4>2, <4>3 DEF Rests
    <3> QED
      BY <1>1, <3>2, <3>3
  <2> QED
    BY <1>2, <2>1, <2>3, <2>4, <2>5 DEF Rests, Is
<1>5. Unfinished' = Unfinished
  BY DEF Unfinished
<1>6. path' \in [ver : Names, ok : BOOLEAN] /\ path'.ver # NoVersion
  BY <1>3, FileOf
<1> QED
  BY <1>3, <1>4, <1>5, <1>6

LEMMA Swaps ==
  ASSUME UpdateInv, NEW r \in Runs, Swap(r)
  PROVE  UpdateInv'
<1>0. /\ Shape /\ lock = r /\ runs[r].at = "swap" /\ Len(kept) \in {1, 2} /\ runs[r].rel \in Versions
      /\ runs[r].rel > runs[r].ver /\ (path = NoFile \/ path = Last(kept).file)
      /\ runs[r].ver \in Nat /\ runs[r].rel \in Nat
  BY Holder, UpdateConstants DEF Swap, At, Place, Aside, Installing
<1>1. UNCHANGED <<st, due, lock, index, links, managed, owed, displaced>> /\ staged' = FALSE
  BY DEF Swap, world, history
<1>2. events' \in Nat
  BY <1>0 DEF Swap, Refused, Event, Shape
<1>3. CASE path' = [ver |-> runs[r].rel, ok |-> FALSE] /\ To(r, "verify") /\ UNCHANGED kept
  <2>1. Moves(r) /\ runs'[r].at = "verify" /\ SameRun(r)
    BY <1>0, <1>1, <1>3, HolderGoes DEF Stages, Installing
  <2>2. path' \in [ver : Names, ok : BOOLEAN] /\ path'.ver = runs[r].rel /\ path'.ver # NoVersion
    BY <1>0, <1>3, NoRunIs, UpdateConstants DEF NoVersion
  <2>3. Shape'
    BY <1>0, <1>1, <1>2, <1>3, <2>1, <2>2, MovesShape DEF Shape
  <2>4. ASSUME NEW v \in Unfinished' PROVE Rests(v)' /\ Aided(r, v)'
    <3>1. v \in Unfinished /\ v \in Nat /\ v \in Versions /\ Rests(v) /\ Aided(r, v)
      BY <1>0, <1>1, Holder, UpdateConstants DEF Unfinished, Owes
    <3>2. Past(v)'
      BY <1>0, <2>2, <3>1 DEF Past, Aided
    <3>3. Is(v, Last(kept)) \/ Above(v, Last(kept))
      <4>1. CASE path.ver = v /\ st.pending = v
        <5>1. path # NoFile
          BY <1>0, <3>1, <4>1, AtPath
        <5> QED
          BY <1>0, <3>1, <4>1, <5>1 DEF Is, Aided
      <4>2. CASE ~(path.ver = v /\ st.pending = v)
        BY <1>0, <3>1, <4>2, Some DEF Rests, Shape
      <4> QED
        BY <4>1, <4>2
    <3>4. Rests(v)'
      BY <1>0, <1>1, <1>3, <3>2, <3>3 DEF Rests, Is, Above
    <3> QED
      BY <1>1, <1>3, <2>1, <3>1, <3>4 DEF Aided, SameRun, Is, Above
  <2>5. Place(r)' /\ Owes(r)'
    BY <1>0, <1>3, <2>1, <2>2, <2>4 DEF Place, Owes, At, Aside, Placed, SameRun
  <2> QED
    BY <1>0, <2>1, <2>3, <2>4, <2>5, Settles
<1>4. CASE Comes(r, "failed") /\ path' = Last(kept).file /\ kept' = Front(kept)
  <2>1. Moves(r) /\ runs'[r].at = "record"
    BY <1>0, <1>1, <1>4, HolderComes DEF Founds
  <2>2. path' \in [ver : Names, ok : BOOLEAN] /\ path'.ver # NoVersion /\ kept' \in Seq(Kept)
        /\ \A v \in Unfinished' : Rests(v)'
    BY <1>0, <1>1, <1>4, GoesBack
  <2>3. Shape'
    BY <1>0, <1>1, <1>2, <2>1, <2>2, MovesShape DEF Shape
  <2> QED
    BY <1>0, <2>1, <2>2, <2>3, Nothing, Settles
<1>5. CASE Comes(r, "failed") /\ UNCHANGED <<path, kept>>
  <2>1. Moves(r) /\ runs'[r].at = "record" /\ Still
    BY <1>0, <1>1, <1>5, HolderComes DEF Founds, Still
  <2>2. Shape'
    BY <1>0, <1>1, <1>2, <1>5, <2>1, MovesShape DEF Shape
  <2> QED
    BY <1>0, <2>1, <2>2, Nothing, QuietlyOn
<1> QED
  BY <1>3, <1>4, <1>5 DEF Swap

LEMMA Backs ==
  ASSUME UpdateInv, NEW r \in Runs, Back(r)
  PROVE  UpdateInv'
<1>0. Shape /\ lock = r /\ runs[r].at = "back"
  BY Holder DEF Back, At
<1>1. UNCHANGED <<staged, st, due, lock, index, links, managed, owed, displaced>>
  BY DEF Back, world, history
<1>2. events' \in Nat
  BY <1>0 DEF Back, Refused, Event, Shape
<1>3. Moves(r) /\ runs'[r].at = "record"
  BY <1>0, <1>1, RunFields, HolderComes DEF Back, Founds
<1>4. CASE path' = Last(kept).file /\ kept' = Front(kept)
  <2>1. path' \in [ver : Names, ok : BOOLEAN] /\ path'.ver # NoVersion /\ kept' \in Seq(Kept)
        /\ \A v \in Unfinished' : Rests(v)'
    BY <1>0, <1>1, <1>4, GoesBack
  <2>2. Shape'
    BY <1>0, <1>1, <1>2, <1>3, <2>1, MovesShape DEF Shape
  <2> QED
    BY <1>0, <1>3, <2>1, <2>2, Nothing, Settles
<1>5. CASE UNCHANGED <<path, kept>>
  <2>1. Still
    BY <1>1, <1>5 DEF Still
  <2>2. Shape'
    BY <1>0, <1>1, <1>2, <1>3, <1>5, MovesShape DEF Shape
  <2> QED
    BY <1>0, <1>3, <2>1, <2>2, Nothing, QuietlyOn
<1> QED
  BY <1>4, <1>5 DEF Back

LEMMA Verifies ==
  ASSUME UpdateInv, NEW r \in Runs, Verify(r)
  PROVE  UpdateInv'
<1>0. /\ Shape /\ lock = r /\ runs[r].at = "verify" /\ Len(kept) \in {1, 2} /\ runs[r].rel \in Versions
      /\ path.ver = runs[r].rel /\ path # NoFile
  BY Holder, AtPath DEF Verify, At, Place, Aside, Placed, Installing
<1>1. UNCHANGED <<kept, staged, st, due, lock, index, links, managed, owed, displaced>>
  BY DEF Verify, world, history
<1>2. events' \in Nat
  BY <1>0 DEF Verify, Event, Shape
<1>3. path' \in [ver : Names, ok : BOOLEAN] /\ path'.ver = path.ver
  <2>1. path' = path \/ path' = [path EXCEPT !.ok = TRUE]
    BY DEF Verify
  <2> QED
    BY <1>0, <2>1 DEF Shape
<1>4. Moves(r) /\ SameRun(r) /\ runs'[r].at \in {"note", "back"}
  <2>1. CASE To(r, CommitSteps[1])
    <3>1. To(r, "note")
      BY <2>1 DEF CommitSteps
    <3> QED
      BY <1>0, <1>1, <3>1, HolderGoes DEF Stages, Installing
  <2>2. CASE \E found \in Founds : runs' = [runs EXCEPT ![r].at = "back", ![r].found = found]
    <3>1. PICK found \in Founds : runs' = [runs EXCEPT ![r].at = "back", ![r].found = found]
      BY <2>2
    <3> DEFINE run == [runs[r] EXCEPT !.at = "back", !.found = found]
    <3>2. runs' = [runs EXCEPT ![r] = run]
      BY <1>0, <3>1 DEF Shape
    <3>3. run \in RunRecords /\ run.at = "back" /\ run.ver = runs[r].ver /\ run.rel = runs[r].rel
          /\ run.kind = runs[r].kind /\ run.gaveUp = runs[r].gaveUp
      BY <1>0, RunFields DEF RunRecords, Stages
    <3> HIDE DEF run
    <3>4. runs' \in [Runs -> RunRecords] /\ Others(r) /\ runs'[r] = run
      BY <1>0, <3>2, <3>3 DEF Others, Shape
    <3>5. lock' = r /\ runs[r].ver \in Versions /\ runs[r].rel > runs[r].ver
      BY <1>0, <1>1, Holder DEF Installing
    <3> QED
      BY <1>0, <3>3, <3>4, <3>5 DEF Moves, SameRun
  <2> QED
    BY <2>1, <2>2 DEF Verify, Founds, Cut
<1>5. Shape'
  <2>1. path'.ver # NoVersion
    BY <1>0, <1>3, UpdateConstants DEF NoVersion
  <2> QED
    BY <1>0, <1>1, <1>2, <1>3, <1>4, <2>1, MovesShape DEF Shape
<1>6. Unfinished' = Unfinished
  BY <1>1 DEF Unfinished
<1>7. ASSUME NEW v \in Unfinished' PROVE Rests(v)' /\ Aided(r, v)'
  <2>1. Rests(v) /\ Aided(r, v)
    BY <1>0, <1>6, Holder DEF Owes
  <2>2. Rests(v)'
    BY <1>0, <1>1, <1>3, <2>1 DEF Rests, Past, Is, Above
  <2> QED
    BY <1>1, <1>4, <2>1, <2>2 DEF Aided, SameRun, Is, Above
<1>8. Place(r)' /\ Owes(r)'
  BY <1>0, <1>1, <1>3, <1>4, <1>7 DEF Place, Owes, At, Aside, Placed, SameRun
<1> QED
  BY <1>0, <1>4, <1>5, <1>7, <1>8, Settles

-----------------------------------------------------------------------------
(* The end of a run, and what happens around the runs.                      *)

LEMMA Records ==
  ASSUME UpdateInv, NEW r \in Runs, Record(r)
  PROVE  UpdateInv'
<1>0. Shape /\ lock = r /\ runs[r].at = "record"
  BY Holder DEF Record, At
<1>1. UNCHANGED <<path, kept, staged, due, index, links, managed, displaced>>
  BY DEF Record, files, world
<1>2. Moves(r) /\ runs'[r] = NoRun
  BY <1>0, HolderEnds DEF Record
<1>3. ASSUME NEW told \in BOOLEAN
      PROVE  /\ Recorded(r, told) \in [pending : Names, failures : Nat, unusable : SUBSET Names, installed : Names, told : Names]
             /\ TakesNote(r, told) \/ Recorded(r, told).pending = st.pending
  <2> DEFINE unusable == st.unusable \cup IF runs[r].found = "unusable" THEN {runs[r].rel} ELSE {}
             barred == {v \in unusable : Newer(v, Current(r))}
             word   == IF told /\ runs[r].kind = "check" /\ runs[r].found = "managed" THEN runs[r].rel ELSE st.told
             noted  == [st EXCEPT !.unusable = barred, !.told = word]
  <2>1. unusable \subseteq Names /\ barred \subseteq Names
    BY <1>0, RunFields DEF Shape
  <2>2. word \in Names
    BY <1>0, RunFields DEF Shape
  <2>3. Recorded(r, told) = IF TakesNote(r, told) THEN [noted EXCEPT !.pending = NoVersion, !.failures = 0] ELSE noted
    BY <1>0 DEF Recorded, Shape
  <2> HIDE DEF unusable, barred, word
  <2>4. noted \in [pending : Names, failures : Nat, unusable : SUBSET Names, installed : Names, told : Names]
        /\ noted.pending = st.pending
    BY <1>0, <2>1, <2>2 DEF Shape
  <2> HIDE DEF noted
  <2>5. [noted EXCEPT !.pending = NoVersion, !.failures = 0]
          \in [pending : Names, failures : Nat, unusable : SUBSET Names, installed : Names, told : Names]
    BY <2>4, NoRunIs
  <2> QED
    BY <2>3, <2>4, <2>5
<1>4. st' \in [pending : Names, failures : Nat, unusable : SUBSET Names, installed : Names, told : Names]
  BY <1>3 DEF Record
<1>5. events' \in Nat
  <2>1. UNCHANGED events \/ Event
    BY DEF Record
  <2> QED
    BY <1>0, <2>1 DEF Event, Shape
<1>6. owed' \subseteq owed
  BY DEF Record
<1>7. Shape'
  BY <1>0, <1>1, <1>2, <1>4, <1>5, <1>6, MovesShape DEF Shape
<1>8. ASSUME NEW v \in Unfinished' PROVE Rests(v)'
  <2>1. v \in Unfinished /\ Rests(v)
    BY <1>0, <1>1, <1>6, Holder DEF Unfinished
  <2>2. CASE st'.pending = st.pending
    BY <1>1, <2>1, <2>2 DEF Rests, Past, Is, Above
  <2>3. CASE st'.pending # st.pending
    <3>1. \/ /\ st' = Recorded(r, TRUE)
             /\ owed' = (IF runs[r].gaveUp THEN owed \ {runs[r].ver} ELSE owed)
          \/ st' = Recorded(r, FALSE)
      BY DEF Record
    <3>2. ~TakesNote(r, FALSE)
      BY DEF TakesNote
    <3>3. TakesNote(r, TRUE) /\ owed' = (IF runs[r].gaveUp THEN owed \ {runs[r].ver} ELSE owed)
      <4>1. Recorded(r, FALSE).pending = st.pending
        BY <1>3, <3>2
      <4>2. TakesNote(r, TRUE) \/ Recorded(r, TRUE).pending = st.pending
        BY <1>3
      <4> QED
        BY <2>3, <3>1, <4>1, <4>2
    <3>4. st.pending # v
      BY <3>3 DEF TakesNote, Unfinished
    <3> QED
      BY <1>1, <2>1, <3>4, Unnamed
  <2> QED
    BY <2>2, <2>3
<1> QED
  BY <1>0, <1>2, <1>7, <1>8, Nothing, Settles

LEMMA Crashes ==
  ASSUME UpdateInv, NEW r \in Runs, Crash(r)
  PROVE  UpdateInv'
<1>0. Shape /\ UNCHANGED <<path, kept, staged, st, due, index, links, managed, owed, displaced>>
  BY DEF UpdateInv, Crash, files, world, history
<1>1. /\ runs' = [q \in Runs |-> IF q = r \/ (lock = r /\ At(q, "lock")) THEN NoRun ELSE runs[q]]
      /\ lock' = (IF lock = r THEN Dead ELSE lock) /\ events' \in Nat
  BY <1>0 DEF Crash, Event, Shape
<1>2. Shape'
  BY <1>0, <1>1, NoRunIs DEF Shape
<1>3. Still
  BY <1>0 DEF Still
<1>4. ASSUME NEW q \in Runs
      PROVE  /\ runs'[q] = NoRun \/ runs'[q] = runs[q]
             /\ runs'[q].at \notin {"idle", "lock"} <=> lock' = q
  <2>1. runs[q].at \notin {"idle", "lock"} <=> lock = q
    BY DEF UpdateInv, LockInv
  <2> QED
    BY <1>1, <2>1, NoRunIs, UpdateConstants DEF At
<1>5. LockInv'
  BY <1>4, NoRunIs DEF UpdateInv, LockInv, At, Installing
<1>6. PlaceInv'
  BY <1>0, <1>4, NoRunIs DEF UpdateInv, PlaceInv, Place, At, Aside, Placed
<1>7. \A v \in Unfinished' : Rests(v)'
  BY <1>0, <1>3, StillRests DEF UpdateInv, OwedInv, Shape, Unfinished
<1>8. ASSUME NEW q \in Runs PROVE Owes(q)'
  <2>1. CASE runs'[q] = NoRun
    BY <2>1, Nothing
  <2>2. CASE runs'[q] = runs[q]
    BY <1>0, <2>2 DEF UpdateInv, OwedInv, Owes, At, Unfinished, Aided, Is, Above
  <2> QED
    BY <1>4, <2>1, <2>2
<1> QED
  BY <1>2, <1>5, <1>6, <1>7, <1>8 DEF UpdateInv, OwedInv

\* A day passes, a release is published, nothing happens.
LEMMA Around ==
  ASSUME UpdateInv, Due \/ Publish \/ UNCHANGED vars
  PROVE  UpdateInv'
<1>1. UNCHANGED <<path, kept, staged, st, lock, runs, links, managed, owed, displaced>>
  BY DEF Due, Publish, vars, files, world, history
<1>2. Shape'
  <2>1. due' \in BOOLEAN
    BY DEF Due, Publish, vars, UpdateInv, Shape
  <2>2. index' \in Versions
    BY DEF Due, Publish, vars, world, UpdateInv, Shape
  <2>3. events' \in Nat
    BY DEF Due, Publish, vars, Event, UpdateInv, Shape
  <2> QED
    BY <1>1, <2>1, <2>2, <2>3 DEF UpdateInv, Shape
<1>3. LockInv' /\ PlaceInv'
  BY <1>1 DEF UpdateInv, LockInv, PlaceInv, Place, At
<1>4. OwedInv'
  BY <1>1 DEF UpdateInv, OwedInv, Owes, At, Unfinished, Rests, Past, Aided, Is, Above
<1> QED
  BY <1>2, <1>3, <1>4 DEF UpdateInv

LEMMA Starts == Init => UpdateInv
<1> SUFFICES ASSUME Init PROVE UpdateInv
  OBVIOUS
<1>1. Shape
  <2>1. path \in [ver : Names, ok : BOOLEAN] /\ path.ver # NoVersion
    BY NoRunIs, UpdateConstants DEF Init, NoVersion
  <2>2. st \in [pending : Names, failures : Nat, unusable : SUBSET Names, installed : Names, told : Names]
    BY NoRunIs DEF Init, NoState
  <2>3. kept \in Seq(Kept)
    BY DEF Init
  <2> QED
    BY <2>1, <2>2, <2>3, NoRunIs DEF Init, Shape
<1>2. LockInv
  BY NoRunIs, UpdateConstants DEF Init, LockInv, At, Installing
<1>3. PlaceInv
  BY NoRunIs DEF Init, PlaceInv, Place, At, Aside, Placed
<1>4. OwedInv
  BY NoRunIs DEF Init, OwedInv, Owes, Unfinished, At
<1> QED
  BY <1>1, <1>2, <1>3, <1>4 DEF UpdateInv

LEMMA Inductive ==
  ASSUME UpdateInv, [Next]_vars
  PROVE  UpdateInv'
<1>1. ASSUME NEW r \in Runs, Steps(r) PROVE UpdateInv'
  BY <1>1, TakesLock, Sweeps, PutsBack, Marks, Finishes, Asks, Stagings, Keeps, Swaps, Verifies, Backs,
     Notes, Drops, Installs, FinishesNew, Records DEF Steps
<1> QED
  BY <1>1, BeginsAll, Crashes, Around DEF Next

\* The lock has one run past it, what is kept is at most what an install put
\* beside the binary before it and that binary, and a build owed its finish is
\* named wherever its own binary is the one at the path or the next to go back.
THEOREM UpdateInvariance == Spec => []UpdateInv
<1>1. UpdateInv /\ [Next]_vars => UpdateInv'
  BY Inductive
<1> QED
  BY <1>1, Starts, PTL DEF Spec

\* A committed build stays named as unfinished until its finish succeeds or its
\* user is told to run the repair, whatever process dies, is refused or is
\* overtaken, and however often (install.go's order of commit, manager.go's
\* finish and record).
THEOREM FinishIsOwed == Spec => []FinishOwed
<1>1. UpdateInv => FinishOwed
  <2> SUFFICES ASSUME UpdateInv, path.ver \in Unfinished PROVE st.pending = path.ver
    BY DEF FinishOwed, Unfinished
  <2>1. path.ver \in Versions /\ Rests(path.ver) /\ path # NoFile /\ path.ver \in Nat
    BY AtPath, UpdateConstants DEF UpdateInv, OwedInv, Shape, Unfinished
  <2> QED
    BY <2>1 DEF Rests, Past
<1> QED
  BY <1>1, UpdateInvariance, PTL

-----------------------------------------------------------------------------
(* Never stranded: where a sweep that cannot put a binary back ends its run. *)

Clear == {"mark", "finish", "ask", "stage", "smoke", "keep"}

\* A run that installs starts with nothing kept; one that commits has seen the
\* new build serve.
Fine(r) == /\ runs[r].at \in Clear => kept = << >>
           /\ runs[r].at \in {"note", "drop"} => path.ok

Accepted == IF kept = << >> THEN path.ok ELSE Last(kept).file.ok

StrandInv == Len(kept) <= 1 /\ Accepted /\ \A r \in Runs : Fine(r)

LEMMA Fines ==
  ASSUME UpdateInv, NEW r \in Runs, Others(r), runs[r].at \notin {"idle", "lock"},
         Len(kept)' <= 1, Accepted', Fine(r)'
  PROVE  StrandInv'
<1>1. ASSUME NEW q \in Runs, q # r PROVE Fine(q)'
  BY <1>1, OthersKeep DEF Fine, Clear
<1> QED
  BY <1>1 DEF StrandInv

\* A step that leaves the path and what is kept.
LEMMA FineStill ==
  ASSUME StrandInv, UNCHANGED <<path, kept>>, NEW r \in Runs, Others(r), Fine(r)'
  PROVE  StrandInv'
BY DEF StrandInv, Accepted, Fine, Others

LEMMA Early ==
  ASSUME UpdateInv, StrandInv, NEW r \in Runs,
         BeginCheck(r) \/ ByHand(r) \/ TakeLock(r) \/ PutBack(r)
  PROVE  StrandInv'
<1>0. Shape /\ UNCHANGED <<path, kept>>
  BY DEF UpdateInv, BeginCheck, ByHand, Begin, TakeLock, PutBack, files
<1>1. Others(r) /\ runs'[r].at \in {"idle", "lock", "sweep", "record"}
  <2>1. CASE \E kind \in {"check", "manual", "sweep"} : Begin(r, kind)
    BY <1>0, <2>1 DEF Begin, Shape, NoRun, Others
  <2>2. CASE Ends(r) \/ runs' = [runs EXCEPT ![r] = NoRun]
    BY <1>0, <2>2, NoRunIs DEF Ends, Shape, Others
  <2>3. CASE To(r, "sweep")
    BY <1>0, <2>3, Goes DEF Stages
  <2>4. CASE Comes(r, "putBack")
    BY <1>0, <2>4, Comings DEF Founds
  <2> QED
    BY <2>1, <2>2, <2>3, <2>4 DEF BeginCheck, ByHand, TakeLock, PutBack
<1> QED
  BY <1>0, <1>1, FineStill DEF Fine, Clear

LEMMA Prepare ==
  ASSUME UpdateInv, StrandInv, NEW r \in Runs,
         Mark(r) \/ Finish(r) \/ Ask(r) \/ Stage(r) \/ Smoke(r)
  PROVE  StrandInv'
<1>0. Shape /\ UNCHANGED <<path, kept>> /\ runs[r].at \in Clear /\ kept = << >>
  BY DEF UpdateInv, StrandInv, Fine, Clear, At, Mark, Finish, Ask, Stage, Smoke, files
<1>1. Others(r) /\ runs'[r].at \notin {"note", "drop"}
  <2>1. CASE \E at \in Clear : To(r, at)
    BY <1>0, <2>1, Goes DEF Stages, Clear
  <2>2. CASE \E found \in Founds : Comes(r, found)
    BY <1>0, <2>2, Comings
  <2>3. CASE Ends(r)
    BY <1>0, <2>3, Over, NoRunIs
  <2>4. CASE Finish(r)
    BY <1>0, <2>4 DEF Finish, To, Shape, RunRecords, Others
  <2>5. CASE Ask(r)
    BY <1>0, <2>5 DEF Ask, Comes, Shape, RunRecords, Others
  <2> QED
    BY <2>1, <2>2, <2>3, <2>4, <2>5 DEF Mark, Stage, Smoke, Founds, Clear, Cut
<1> QED
  BY <1>0, <1>1, FineStill DEF Fine

LEMMA Late ==
  ASSUME UpdateInv, StrandInv, NEW r \in Runs,
         Note(r) \/ Installed(r) \/ FinishNew(r) \/ Record(r)
  PROVE  StrandInv'
<1>0. Shape /\ UNCHANGED <<path, kept>> /\ (At(r, "note") => path.ok)
  BY DEF UpdateInv, StrandInv, Fine, At, Note, Installed, FinishNew, Record, files
<1>1. CASE Note(r)
  <2>1. At(r, "note") /\ To(r, "drop")
    BY <1>1, Onwards DEF Note, At
  <2>2. Others(r) /\ runs'[r].at = "drop"
    BY <1>0, <2>1, Goes DEF Stages
  <2> QED
    BY <1>0, <2>1, <2>2, FineStill DEF Fine, Clear
<1>2. CASE Installed(r)
  <2>1. To(r, "finishNew")
    BY <1>2, Onwards DEF Installed, At
  <2>2. Others(r) /\ runs'[r].at = "finishNew"
    BY <1>0, <2>1, Goes DEF Stages
  <2> QED
    BY <1>0, <2>2, FineStill DEF Fine, Clear
<1>3. CASE FinishNew(r)
  <2>1. Others(r) /\ runs'[r].at = "record"
    BY <1>0, <1>3, Comings DEF FinishNew, Founds
  <2> QED
    BY <1>0, <2>1, FineStill DEF Fine, Clear
<1>4. CASE Record(r)
  <2>1. Others(r) /\ runs'[r].at = "idle"
    BY <1>0, <1>4, Over, NoRunIs DEF Record
  <2> QED
    BY <1>0, <2>1, FineStill DEF Fine, Clear
<1> QED
  BY <1>1, <1>2, <1>3, <1>4

\* An empty sequence is no longer than one.
LEMMA Empty == << >> \in Seq(Kept) /\ Len(<< >>) = 0
OBVIOUS

LEMMA StrandSweep ==
  ASSUME UpdateInv, StrandInv, DoctorIsRefused, NEW r \in Runs, Sweep(r)
  PROVE  StrandInv'
<1>0. Shape /\ At(r, "sweep") /\ runs[r].at = "sweep" /\ lock = r
  BY SweepShape
<1>1. CASE kept = << >> /\ AfterSweep(r) /\ UNCHANGED <<path, kept>>
  <2>1. Others(r) /\ (runs'[r] = NoRun \/ runs'[r].at \in {"mark", "record", "ask"})
    BY <1>0, <1>1, AfterSweeps DEF Moves
  <2> QED
    BY <1>1, <2>1, FineStill, NoRunIs DEF Fine, Clear
<1>2. CASE /\ kept # << >> /\ path' = Last(kept).file /\ kept' = << >>
           /\ runs' = [runs EXCEPT ![r].at = "putback", ![r].rel = Last(kept).as]
  <2>1. Others(r) /\ runs'[r].at = "putback"
    BY <1>0, <1>2 DEF Shape, RunRecords, Others
  <2>2. Len(kept)' <= 1 /\ Accepted'
    BY <1>2, Empty DEF StrandInv, Accepted
  <2> QED
    BY <1>0, <2>1, <2>2, Fines DEF Fine, Clear
<1>3. CASE kept # << >> /\ kept' = Spared /\ AfterSweep(r)
  <2>1. Last(kept) \in Kept
    BY <1>0, <1>3, KeptSeq DEF Shape
  <2>2. kept' # << >> /\ Len(kept)' <= 1 /\ Last(kept') = Last(kept)
    BY <1>3, <2>1, OneKept DEF Spared
  <2>3. runs[r].kind = "sweep"
    BY <1>0, <1>3, <2>2 DEF DoctorIsRefused
  <2>4. Ends(r)
    BY <1>3, <2>3 DEF AfterSweep
  <2>5. Others(r) /\ runs'[r].at = "idle"
    BY <1>0, <2>4, Over, NoRunIs
  <2>6. Accepted'
    BY <1>3, <2>2 DEF StrandInv, Accepted
  <2> QED
    BY <1>0, <2>2, <2>5, <2>6, Fines DEF Fine, Clear
<1> QED
  BY <1>1, <1>2, <1>3 DEF Sweep

LEMMA StrandKeep ==
  ASSUME UpdateInv, StrandInv, NEW r \in Runs, Keep(r)
  PROVE  StrandInv'
<1>0. Shape /\ runs[r].at = "keep" /\ kept = << >> /\ path.ok /\ path # NoFile /\ runs[r].ver \in Versions
  <2>1. runs[r].at = "keep" /\ kept = << >>
    BY DEF Keep, At, StrandInv, Fine, Clear
  <2>2. path.ok /\ path # NoFile
    BY <2>1 DEF StrandInv, Accepted, NoFile
  <2> QED
    BY <2>1, <2>2, Holder
<1> DEFINE k == [as |-> runs[r].ver, file |-> path]
<1>1. To(r, "swap") /\ kept' = Append(<< >>, k)
  BY <1>0 DEF Keep, KeptUnderOthers
<1>2. k \in Kept /\ k.file.ok
  BY <1>0, AtPath DEF Shape, Kept
<1> HIDE DEF k
<1>3. kept' # << >> /\ Len(kept)' <= 1 /\ Last(kept') = k
  <2>1. PICK s \in Seq(Kept) : s = << >> /\ Len(s) = 0
    BY Empty
  <2>2. Len(Append(s, k)) = Len(s) + 1 /\ Append(s, k) # << >> /\ Last(Append(s, k)) = k
    BY <1>2, Appended
  <2> QED
    BY <1>1, <2>1, <2>2
<1>4. Accepted'
  BY <1>2, <1>3 DEF Accepted
<1>5. Others(r) /\ runs'[r].at = "swap"
  BY <1>0, <1>1, Goes DEF Stages
<1> QED
  BY <1>0, <1>3, <1>4, <1>5, Fines DEF Fine, Clear

\* What an install keeps beside the path is the one binary it replaces.
LEMMA TheKept ==
  ASSUME UpdateInv, StrandInv, NEW r \in Runs, runs[r].at \in Aside
  PROVE  Shape /\ kept # << >> /\ Last(kept).file.ok /\ Front(kept) = << >>
<1>1. Shape /\ Len(kept) \in {1, 2} /\ Len(kept) <= 1 /\ kept \in Seq(Kept)
  BY DEF UpdateInv, PlaceInv, Place, StrandInv, Shape
<1>2. kept # << >> /\ Len(kept) = 1
  BY <1>1, Some
<1> QED
  BY <1>1, <1>2, KeptSeq DEF StrandInv, Accepted

LEMMA StrandInstall ==
  ASSUME UpdateInv, StrandInv, NEW r \in Runs, Swap(r) \/ Verify(r) \/ Back(r) \/ Drop(r)
  PROVE  StrandInv'
<1>0. /\ Shape /\ runs[r].at \in {"swap", "verify", "back", "drop"} /\ kept # << >> /\ Last(kept).file.ok
      /\ Front(kept) = << >> /\ Len(kept) <= 1 /\ (At(r, "drop") => path.ok)
  <2>1. runs[r].at \in {"swap", "verify", "back", "drop"}
    BY DEF Swap, Verify, Back, Drop, At
  <2> QED
    BY <2>1, TheKept DEF StrandInv, Fine, Aside, At
<1>1. Others(r) /\ (runs'[r].at \in {"verify", "record", "back", "installed"} \/ (runs'[r].at = "note" /\ path'.ok))
  <2>1. CASE Swap(r)
    BY <1>0, <2>1, Goes, Comings DEF Swap, Stages, Founds
  <2>2. CASE Verify(r)
    <3>1. CASE path' = [path EXCEPT !.ok = TRUE] /\ To(r, CommitSteps[1])
      <4>1. To(r, "note")
        BY <3>1 DEF CommitSteps
      <4> QED
        BY <1>0, <3>1, <4>1, Goes DEF Stages, Shape
    <3>2. CASE \E found \in Founds : runs' = [runs EXCEPT ![r].at = "back", ![r].found = found]
      BY <1>0, <3>2 DEF Shape, RunRecords, Others
    <3> QED
      BY <2>2, <3>1, <3>2 DEF Verify, Founds, Cut
  <2>3. CASE Back(r)
    BY <1>0, <2>3, RunFields, Comings DEF Back, Founds
  <2>4. CASE Drop(r)
    <3>1. To(r, "installed")
      BY <2>4, Onwards DEF Drop, At
    <3> QED
      BY <1>0, <3>1, Goes DEF Stages
  <2> QED
    BY <2>1, <2>2, <2>3, <2>4
<1>2. Len(kept)' <= 1 /\ Accepted'
  <2>1. CASE UNCHANGED kept
    BY <1>0, <2>1 DEF Accepted
  <2>2. CASE kept' = << >> /\ path'.ok
    BY <2>2, Empty DEF Accepted
  <2>3. UNCHANGED kept \/ (kept' = << >> /\ path'.ok)
    BY <1>0 DEF Swap, Verify, Back, Drop
  <2> QED
    BY <2>1, <2>2, <2>3
<1>3. Fine(r)'
  BY <1>1 DEF Fine, Clear
<1> QED
  BY <1>0, <1>1, <1>2, <1>3, Fines

LEMMA StrandAround ==
  ASSUME UpdateInv, StrandInv, Due \/ Publish \/ UNCHANGED vars \/ \E r \in Runs : Crash(r)
  PROVE  StrandInv'
<1>1. UNCHANGED <<path, kept>>
  BY DEF Due, Publish, vars, Crash, files
<1>2. ASSUME NEW q \in Runs PROVE runs'[q] = runs[q] \/ runs'[q] = NoRun
  BY DEF Due, Publish, vars, Crash
<1> QED
  BY <1>1, <1>2, NoRunIs DEF StrandInv, Accepted, Fine, Clear

LEMMA StrandInductive ==
  ASSUME UpdateInv, StrandInv, [Next]_vars, [DoctorIsRefused]_vars
  PROVE  StrandInv'
<1>1. CASE UNCHANGED vars
  BY <1>1, StrandAround
<1>2. CASE Next /\ DoctorIsRefused
  <2>1. ASSUME NEW r \in Runs, Steps(r) PROVE StrandInv'
    BY <1>2, <2>1, Early, Prepare, Late, StrandSweep, StrandKeep, StrandInstall DEF Steps
  <2> QED
    BY <1>2, <2>1, Early, StrandAround DEF Next
<1> QED
  BY <1>1, <1>2

\* A build that has not accepted its own install is never all there is: wherever
\* a run died, one that accepted its own is at the path or kept beside it
\* (install.go's keep, swap, verification and return), as long as a run other
\* than doctor's sweep is let put a kept binary back.
THEOREM NotStranded == Spec /\ [][DoctorIsRefused]_vars => []NeverStranded
<1>1. Init => StrandInv
  BY Empty, NoRunIs DEF Init, StrandInv, Accepted, Fine, Clear
<1>2. UpdateInv /\ StrandInv /\ [Next]_vars /\ [DoctorIsRefused]_vars => StrandInv'
  BY StrandInductive
<1>3. UpdateInv /\ StrandInv => NeverStranded
  <2>1. SUFFICES ASSUME Shape, Accepted, kept # << >> PROVE \E i \in DOMAIN kept : kept[i].file.ok
    BY DEF NeverStranded, Accepted, UpdateInv, StrandInv
  <2>2. Len(kept) \in DOMAIN kept /\ Last(kept) = kept[Len(kept)]
    BY <2>1, KeptSeq DEF Shape
  <2> QED
    BY <2>1, <2>2 DEF Accepted
<1> QED
  BY <1>1, <1>2, <1>3, UpdateInvariance, PTL DEF Spec
=============================================================================
