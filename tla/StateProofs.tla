----------------------------- MODULE StateProofs -----------------------------
(***************************************************************************)
(* Theorems about state files: the lock one is changed under (FileLock),   *)
(* for every set of processes and changes, as long as every holder         *)
(* released within the stale bound and no ejector died holding the ticket  *)
(* (strict); and what Account keeps in them, for any tokens, accounts and  *)
(* bounds.  Neither condition of the first can be dropped: the README      *)
(* tells what TLC finds without each.                                      *)
(***************************************************************************)
EXTENDS FileLock, Account, TLAPS

-----------------------------------------------------------------------------
(* The lock (FileLock).                                                     *)

\* What becomes of a lock file is a lock file.
LEMMA FileTypes ==
  /\ NoFile \in Files /\ \A p \in Procs : New(p) \in Files
  /\ \A f \in Files : [f EXCEPT !.old = TRUE] \in Files
  /\ \A f \in Files, p \in Procs : Orphaned(f, p) \in Files
  BY DEF Files, NoFile, New, Orphaned

-----------------------------------------------------------------------------
(* Its variables are what they are declared to be.                          *)

LEMMA Init_TypeOK == LockInit => TypeOK
  BY FileTypes DEF LockInit, TypeOK

\* Every step keeps the variables well typed.
LEMMA Next_TypeOK == TypeOK /\ [LockNext]_lockVars => TypeOK'
<1> SUFFICES ASSUME TypeOK, [LockNext]_lockVars PROVE TypeOK'
  OBVIOUS
<1> USE NoneAssumption, FileTypes
    DEF TypeOK, Goto, Waiting, Holding, Ejecting
<1>1. ASSUME NEW p \in Procs, NEW c \in Changes, Begin(p, c) PROVE TypeOK'
  BY <1>1 DEF Begin
<1>2. ASSUME NEW p \in Procs, Claim(p) PROVE TypeOK'
  BY <1>2 DEF Claim
<1>3. ASSUME NEW p \in Procs, Stat(p) PROVE TypeOK'
  BY <1>3 DEF Stat
<1>4. ASSUME NEW p \in Procs, Pace(p) PROVE TypeOK'
  BY <1>4 DEF Pace
<1>5. ASSUME NEW p \in Procs, TakeTicket(p) PROVE TypeOK'
  BY <1>5 DEF TakeTicket
<1>6. ASSUME NEW p \in Procs, StatTicket(p) PROVE TypeOK'
  BY <1>6 DEF StatTicket
<1>7. ASSUME NEW p \in Procs, DropTicket(p) PROVE TypeOK'
  BY <1>7 DEF DropTicket
<1>8. ASSUME NEW p \in Procs, Judge(p) PROVE TypeOK'
  BY <1>8 DEF Judge
<1>9. ASSUME NEW p \in Procs, Drop(p) PROVE TypeOK'
  BY <1>9 DEF Drop
<1>10. ASSUME NEW p \in Procs, Untick(p) PROVE TypeOK'
  BY <1>10 DEF Untick
<1>11. ASSUME NEW p \in Procs, Sweep(p) PROVE TypeOK'
  BY <1>11 DEF Sweep
<1>12. ASSUME NEW p \in Procs, SweepDrop(p) PROVE TypeOK'
  BY <1>12 DEF SweepDrop
<1>13. ASSUME NEW p \in Procs, Read(p) PROVE TypeOK'
  BY <1>13 DEF Read
<1>14. ASSUME NEW p \in Procs, Write(p) PROVE TypeOK'
  <2>1. change[p] \in Changes
    BY <1>14 DEF Write
  <2> QED
    BY <1>14, <2>1 DEF Write
<1>15. ASSUME NEW p \in Procs, Release(p) PROVE TypeOK'
  BY <1>15, ZenonT(30) DEF Release
<1>16. ASSUME NEW p \in Procs, Remove(p) PROVE TypeOK'
  BY <1>16 DEF Remove
<1>17. ASSUME NEW p \in Procs, Die(p) PROVE TypeOK'
  BY <1>17 DEF Die
<1>18. CASE AgeLock
  BY <1>18 DEF AgeLock
<1>19. CASE AgeTicket
  BY <1>19 DEF AgeTicket
<1>20. CASE UNCHANGED lockVars
  BY <1>20 DEF lockVars
<1> HIDE DEF TypeOK
<1> QED
  BY <1>1, <1>2, <1>3, <1>4, <1>5, <1>6, <1>7, <1>8, <1>9, <1>10, <1>11, <1>12,
     <1>13, <1>14, <1>15, <1>16, <1>17, <1>18, <1>19, <1>20 DEF LockNext, Step

\* Every reachable state of the lock protocol is well typed.
THEOREM TypeCorrect == LockSpec => []TypeOK
  BY Init_TypeOK, Next_TypeOK, PTL DEF LockSpec

-----------------------------------------------------------------------------
(* It is exclusive.                                                         *)

LEMMA LockInit_LockInv == LockInit => LockInv
  BY NoneAssumption DEF LockInit, LockInv, Guarded, NoFile, Holding, Ejecting

\* What a step that leaves strict standing does to what the lock rests on.
LEMMA Next_Guarded ==
  ASSUME TypeOK, Guarded, [LockNext]_lockVars, strict, strict'
  PROVE  Guarded'
<1> USE NoneAssumption
    DEF TypeOK, Guarded, Files, NoFile, New, Exists, Goto, Holding, Ejecting
<1>1. ASSUME NEW p \in Procs, NEW c \in Changes, Begin(p, c) PROVE Guarded'
  BY <1>1 DEF Begin
<1>2. ASSUME NEW p \in Procs, Claim(p) PROVE Guarded'
  <2>1. \A q \in Procs : pc[q] \in Holding => Exists(lock)
    OBVIOUS
  <2>2. CASE Exists(lock)
    BY <1>2, <2>2 DEF Claim
  <2>3. CASE ~Exists(lock)
    <3>1. lock' = New(p) /\ pc' = [pc EXCEPT ![p] = "sweep"]
      BY <1>2, <2>3 DEF Claim
    <3>2. \A q \in Procs : pc[q] \notin Holding /\ pc[q] # "drop"
      BY <2>1, <2>3
    <3> QED
      BY <1>2, <3>1, <3>2 DEF Claim
  <2> QED
    BY <2>2, <2>3
<1>3. ASSUME NEW p \in Procs, Stat(p) PROVE Guarded'
  BY <1>3 DEF Stat
<1>4. ASSUME NEW p \in Procs, Pace(p) PROVE Guarded'
  BY <1>4 DEF Pace
<1>5. ASSUME NEW p \in Procs, TakeTicket(p) PROVE Guarded'
  BY <1>5 DEF TakeTicket
<1>6. ASSUME NEW p \in Procs, StatTicket(p) PROVE Guarded'
  BY <1>6 DEF StatTicket
<1>7. ASSUME NEW p \in Procs, DropTicket(p) PROVE Guarded'
  BY <1>7 DEF DropTicket
<1>8. ASSUME NEW p \in Procs, Judge(p) PROVE Guarded'
  BY <1>8 DEF Judge
<1>9. ASSUME NEW p \in Procs, Drop(p) PROVE Guarded'
  BY <1>9 DEF Drop
<1>10. ASSUME NEW p \in Procs, Untick(p) PROVE Guarded'
  BY <1>10 DEF Untick
<1>11. ASSUME NEW p \in Procs, Sweep(p) PROVE Guarded'
  BY <1>11 DEF Sweep
<1>12. ASSUME NEW p \in Procs, SweepDrop(p) PROVE Guarded'
  BY <1>12 DEF SweepDrop
<1>13. ASSUME NEW p \in Procs, Read(p) PROVE Guarded'
  BY <1>13 DEF Read
<1>14. ASSUME NEW p \in Procs, Write(p) PROVE Guarded'
  BY <1>14 DEF Write
<1>15. ASSUME NEW p \in Procs, Release(p) PROVE Guarded'
  BY <1>15 DEF Release
<1>16. ASSUME NEW p \in Procs, Remove(p) PROVE Guarded'
  BY <1>16 DEF Remove
<1>17. ASSUME NEW p \in Procs, Die(p) PROVE Guarded'
  BY <1>17 DEF Die, Orphaned
<1>18. CASE AgeLock
  BY <1>18 DEF AgeLock
<1>19. CASE AgeTicket
  BY <1>19 DEF AgeTicket
<1>20. CASE UNCHANGED lockVars
  BY <1>20 DEF lockVars
<1> HIDE DEF Guarded
<1> QED
  BY <1>1, <1>2, <1>3, <1>4, <1>5, <1>6, <1>7, <1>8, <1>9, <1>10, <1>11, <1>12,
     <1>13, <1>14, <1>15, <1>16, <1>17, <1>18, <1>19, <1>20 DEF LockNext, Step

\* strict never comes back once it is gone.
LEMMA StrictIsLost == ASSUME [LockNext]_lockVars, strict' PROVE strict
  BY DEF LockNext, Step, Begin, Claim, Stat, Pace, TakeTicket, StatTicket, DropTicket,
     Judge, Drop, Untick, Sweep, SweepDrop, Read, Write, Release, Remove, Die,
     AgeLock, AgeTicket, lockVars

\* Every step keeps the lock's invariant.
LEMMA Next_LockInv == TypeOK /\ LockInv /\ [LockNext]_lockVars => LockInv'
<1> SUFFICES ASSUME TypeOK, LockInv, [LockNext]_lockVars, strict' PROVE Guarded'
  BY DEF LockInv
<1>1. strict
  BY StrictIsLost
<1>2. Guarded
  BY <1>1 DEF LockInv
<1> QED
  BY <1>1, <1>2, Next_Guarded

\* What the lock rests on holds in every reachable state.
THEOREM LockInvariant == LockSpec => []LockInv
<1>1. LockInit => TypeOK /\ LockInv
  BY Init_TypeOK, LockInit_LockInv
<1>2. TypeOK /\ LockInv /\ [LockNext]_lockVars => (TypeOK /\ LockInv)'
  BY Next_TypeOK, Next_LockInv
<1> QED
  BY <1>1, <1>2, PTL DEF LockSpec

\* Two processes never hold one lock.
THEOREM Exclusive == LockSpec => []MutualExclusion
<1>1. LockInv => MutualExclusion
  BY DEF LockInv, Guarded, MutualExclusion, OneHolder
<1> QED
  BY <1>1, LockInvariant, PTL

\* No change that a caller was told is written is ever lost.
THEOREM NothingOverwritten == LockSpec => []NoLostUpdate
<1>1. LockInv => NoLostUpdate
  BY DEF LockInv, Guarded, NoLostUpdate
<1> QED
  BY <1>1, LockInvariant, PTL

\* A lock of a live holder leaves by that holder's own hand.
THEOREM FreshLockStays == LockSpec => FreshLockIsSafe
<1> DEFINE Safe ==
      strict => \A p \in Procs :
        lock.by = p /\ ~lock.orphan /\ ~lock.old /\ lock'.by # p => pc[p] = "remove"
<1>1. TypeOK /\ LockInv /\ [LockNext]_lockVars => [Safe]_lockVars
  <2> SUFFICES ASSUME TypeOK, Guarded, LockNext, NEW p \in Procs, lock.by = p,
                      ~lock.orphan, lock'.by # p
               PROVE  pc[p] = "remove"
    BY DEF LockInv
  <2>1. CASE AgeLock
    BY <2>1 DEF AgeLock, TypeOK, Files
  <2>2. CASE lock' = lock
    BY <2>2
  <2>3. ASSUME NEW q \in Procs, Claim(q) \/ Drop(q) \/ Remove(q) \/ Die(q)
        PROVE  pc[p] = "remove"
    <3>1. ~Claim(q)
      BY NoneAssumption DEF Claim, Exists
    <3>2. ~Drop(q)
      BY DEF Drop, Guarded
    <3>3. CASE Remove(q)
      BY <3>3 DEF Remove, Guarded, Holding
    <3>4. ~Die(q)
      BY DEF Die, Orphaned, TypeOK, Files
    <3> QED
      BY <2>3, <3>1, <3>2, <3>3, <3>4
  <2> QED
    BY <2>1, <2>2, <2>3
    DEF LockNext, Step, Begin, Claim, Stat, Pace, TakeTicket, StatTicket, DropTicket,
        Judge, Untick, Sweep, SweepDrop, Read, Write, Release, AgeTicket
<1>2. LockSpec => []TypeOK /\ []LockInv
  BY TypeCorrect, LockInvariant
<1> QED
  BY <1>1, <1>2, PTL DEF LockSpec, FreshLockIsSafe

-----------------------------------------------------------------------------
(* What Account keeps: the inductive invariant.                             *)

Holders     == Nat \X Nat \X Nat
SentRecords == [holder : Holders, has : BOOLEAN]
Services    == [valid : SUBSET Nat, issued : Nat, mood : Moods, refs : BOOLEAN, epoch : Nat \ {0},
                states : BOOLEAN, told : BOOLEAN, held : SUBSET {AccountOf[t] : t \in Nat},
                kept : {"none", "full", "reference", "omitted", "deleted"}]
Memories    == [gates : SUBSET Gates, refused : Nat, timeouts : Nat, refusals : Nat, failures : Nat,
                withheld : BOOLEAN]
Answers     == Moods \cup {"none", "ack", "account", "credential"}

\* What a flush takes from handshake.json, and the copies of that file a flush
\* and a command carry, may be anything: nothing below rests on them.
Flushes(f)     == [at : {"idle", "gathered", "built", "answered", "settled"}, tok : Nat,
                   resumed : BOOLEAN, holder : Nat \X Nat \X {f.holder[3]},
                   content : {"none", "full", "reference", "omitted"},
                   answer : Answers, refs : BOOLEAN, epoch : Nat, read : {f.read}]
Commands(c)    == [kind : {"none", "login", "enable", "logout", "purge"},
                   at : {"idle", "resume", "forget", "confirm", "pause", "approve", "store", "account",
                         "credential", "clear_account", "clear_credential", "hooks", "revoke", "clear",
                         "delete"},
                   tok : Nat, refused : BOOLEAN, read : {c.read}]

Shape ==
  /\ table \in Tables
  /\ store \in [keyring : Nat, file : Nat, lock : {"open", "readonly", "locked"}]
  /\ svc \in Services /\ epoch \in Nat /\ mem \in Memories /\ pending \in BOOLEAN
  /\ sent \in [mem : SentRecords, disk : SentRecords]
  /\ flush \in Flushes(flush) /\ cmd \in Commands(cmd)

\* From the pause on a sign-out leaves nothing recording, and no pairing goes
\* past the token it stores while the device is signed out.
Silent == \A t \in Tokens : ~Records(t)
QuietInv ==
  /\ out \/ (cmd.kind = "logout" /\ cmd.at # "pause") => Silent
  /\ cmd.kind \in Pairing /\ cmd.at \notin {"forget", "approve", "store"} => ~out
  /\ cmd.kind = "none" => cmd.at = "idle"

\* A gate about who asks is held against a token the service refused.
GateInv == mem.gates \cap {"account", "credential"} # {} => mem.refused \in answered

\* The service keeps nothing of a batch id that is not pinned, or that the
\* flush under way is the first to offer.
PinInv ==
  /\ ~pending => svc.kept = "none"
  /\ flush.at \in {"gathered", "built", "answered"} => pending
  /\ flush.at \in {"gathered", "built"} /\ ~flush.resumed => svc.kept = "none"

\* An answer states no epoch that is still to come, and one that offers
\* references states one.
Answered == flush.at \in {"answered", "settled"}
EpochInv ==
  /\ \A s \in {sent.mem, sent.disk} :
       s.holder[2] <= epoch /\ s.holder[3] <= svc.epoch /\ (s.has => s.holder[3] > 0)
  /\ flush.holder[2] <= epoch
  /\ Answered => flush.epoch <= svc.epoch /\ (flush.refs => flush.epoch > 0)

\* A service that stopped stating its epoch, and has said so, finds nothing
\* remembered and no answer on its way that offers references.
ToldInv == svc.told /\ ~svc.states => ~sent.mem.has /\ ~sent.disk.has /\ (Answered => ~flush.refs)

\* The record in memory is the one on disk, unless a command emptied that.
CopyInv == sent.disk \in {sent.mem, NoRecord}

\* What is remembered for the epochs in force is held, and so is what the
\* answer under way will have remembered.
HeldInv ==
  /\ \A s \in {sent.mem, sent.disk} :
       s.has /\ s.holder[2] = epoch /\ s.holder[3] = svc.epoch => AccountOf[s.holder[1]] \in svc.held
  /\ Answered /\ flush.answer = "ack" /\ flush.refs /\ ~flush.resumed /\ flush.content = "full"
       /\ flush.holder[2] = epoch /\ flush.epoch = svc.epoch => AccountOf[flush.tok] \in svc.held

\* Between the renewal of the epoch and the deletion nothing is sent, so
\* nothing is remembered under the new one.
PurgeInv ==
  cmd.kind = "purge" =>
    /\ flush.at = "idle"
    /\ cmd.at \notin {"forget"} => \A s \in {sent.mem, sent.disk} : s.has => s.holder[2] < epoch

RecordInv == PinInv /\ EpochInv /\ ToldInv /\ CopyInv /\ HeldInv /\ PurgeInv

AccountInv == Shape /\ QuietInv /\ GateInv

-----------------------------------------------------------------------------
(* The shape of the state.                                                  *)

LEMMA Blank ==
  /\ NoFlush \in Flushes(NoFlush) /\ NoCmd \in Commands(NoCmd) /\ FreshMem \in Memories
  /\ NoRecord \in SentRecords /\ NoHolder \in Holders
<1>1. NoToken = 0
  BY AccountConstants
<1> QED
  BY <1>1 DEF NoFlush, Flushes, NoCmd, Commands, FreshMem, Memories, NoRecord, SentRecords, NoHolder,
              Holders, Gates, Answers

\* The program starts well shaped.
LEMMA Init_Shape == Init => Shape
<1> SUFFICES ASSUME Init PROVE Shape
  OBVIOUS
<1>1. table \in Tables
  <2>1. NoEntry \in Entries /\ EmptyTable \in Tables
    BY RoutingConstants DEF NoEntry, Entries, EmptyTable, Tables
  <2>2. ASSUME NEW t \in Tokens, NEW u \in Upstreams PROVE Granted(EmptyTable, t, u) \in Tables
    BY <2>1, <2>2 DEF Granted, Retired, Tables, Entries
  <2> QED
    BY <2>1, <2>2 DEF Init, RoutingInit
<1>2. PICK t \in {NoToken, 1} :
        store = [keyring |-> t, file |-> NoToken, lock |-> "open"] /\ svc = NewService(t)
  BY DEF Init
<1>3. NoToken = 0 /\ t \in Nat
  BY AccountConstants
<1>4. store \in [keyring : Nat, file : Nat, lock : {"open", "readonly", "locked"}]
  BY <1>2, <1>3
<1>5. svc \in Services
  BY <1>2, <1>3 DEF NewService, Services, Moods
<1>6. sent \in [mem : SentRecords, disk : SentRecords]
  BY Blank DEF Init
<1> QED
  BY <1>1, <1>4, <1>5, <1>6, Blank DEF Init, Shape

\* Reading, saving and clearing the token leaves a token store.
LEMMA Load_Type ==
  ASSUME NEW s \in [keyring : Nat, file : Nat, lock : {"open", "readonly", "locked"}], NEW t \in Nat
  PROVE  /\ Load(s) \in Nat
         /\ Saved(s, t) \in [keyring : Nat, file : Nat, lock : {"open", "readonly", "locked"}]
         /\ Cleared(s) \in [keyring : Nat, file : Nat, lock : {"open", "readonly", "locked"}]
<1>1. NoToken = 0
  BY AccountConstants
<1> QED
  BY <1>1 DEF Load, Saved, Cleared

\* A rewrite of the table that makes of it what a pause or a lift does.
LEMMA Table_Type ==
  ASSUME table \in Tables, NEW reason \in Reasons
  PROVE  /\ AsRead \in Tables /\ Paused(AsRead, reason) \in Tables
         /\ Paused(AsRead, reason).pause = reason
         /\ \A tab \in Tables : /\ Resumed(tab, reason) \in Tables
                                /\ Resumed(tab, reason).entry = tab.entry
<1>1. EmptyTable \in Tables
  BY RoutingConstants DEF NoEntry, Entries, EmptyTable, Tables
<1>2. AsRead \in Tables
  BY <1>1 DEF AsRead
<1> QED
  BY <1>2 DEF Paused, Resumed, Tables

\* Starting a flush, each of its steps, a restart and a tick keep the shape.
LEMMA Flush_Shape ==
  ASSUME Shape, (\E force \in BOOLEAN : FlushStarts(force)) \/ FlushSteps \/ Restart \/ Tick
  PROVE  Shape'
<1>0. /\ flush \in Flushes(flush) /\ mem \in Memories /\ svc \in Services /\ epoch \in Nat
      /\ sent \in [mem : SentRecords, disk : SentRecords] /\ pending \in BOOLEAN
  BY DEF Shape
<1>1. ASSUME NEW force \in BOOLEAN, FlushStarts(force) PROVE Shape'
  <2>1. Load(store) \in Nat
    BY Load_Type DEF Shape
  <2>2. [NoFlush EXCEPT !.at = "gathered", !.tok = Load(store), !.resumed = pending]
          \in Flushes([NoFlush EXCEPT !.at = "gathered", !.tok = Load(store), !.resumed = pending])
    BY <1>0, <2>1, Blank DEF Flushes, NoFlush
  <2>3. flush' \in Flushes(flush') /\ pending' \in BOOLEAN
    BY <1>0, <1>1, <2>2 DEF FlushStarts
  <2>4. NoToken = 0
    BY AccountConstants
  <2>5. mem' \in Memories
    BY <1>0, <1>1, <2>4 DEF FlushStarts, Opened, Memories
  <2> QED
    BY <1>1, <2>3, <2>5 DEF FlushStarts, Shape, routing, outside
<1>2. CASE Build
  <2>1. Content(Holder(flush.tok, disk.epoch)) \in {"full", "reference", "omitted"}
    BY DEF Content
  <2>2. flush' = [flush EXCEPT !.at = "built", !.holder = <<flush.tok, epoch, disk.epoch>>,
                             !.content = Content(Holder(flush.tok, disk.epoch))]
    BY <1>2 DEF Build, Holder
  <2>3. flush' \in Flushes(flush')
    BY <1>0, <2>1, <2>2 DEF Flushes
  <2> QED
    BY <1>2, <2>3 DEF Build, Shape, routing, outside
<1>3. CASE Offer
  <2>1. Answer \in Answers
    BY <1>0 DEF Answer, Answers, Services
  <2>2. Stated \in Nat /\ (svc.refs /\ svc.states) \in BOOLEAN
    BY <1>0 DEF Stated, Services
  <2>3. flush' = [flush EXCEPT !.at = "answered", !.answer = Answer,
                            !.refs = svc.refs /\ svc.states, !.epoch = Stated]
    BY <1>3 DEF Offer
  <2> DEFINE answer == Answer
             refs == svc.refs /\ svc.states
             stated == Stated
  <2> HIDE DEF answer, refs, stated
  <2>4. [flush EXCEPT !.at = "answered", !.answer = answer, !.refs = refs, !.epoch = stated]
          \in Flushes([flush EXCEPT !.at = "answered", !.answer = answer, !.refs = refs, !.epoch = stated])
    BY <1>0, <2>1, <2>2 DEF Flushes, answer, refs, stated
  <2>5. flush' \in Flushes(flush')
    BY <2>3, <2>4 DEF answer, refs, stated
  <2>6. ASSUME NEW arrived \in BOOLEAN PROVE Taken(arrived) \in Services
    <3>1. AccountOf[flush.tok] \in {AccountOf[t] : t \in Nat} /\ flush.content \in {"none", "full", "reference", "omitted"}
      BY <1>0 DEF Flushes
    <3>2. \A h \in SUBSET {AccountOf[t] : t \in Nat} :
            [svc EXCEPT !.kept = flush.content, !.held = h] \in Services
      BY <1>0, <3>1 DEF Services
    <3>3. svc.held \in SUBSET {AccountOf[t] : t \in Nat} /\ svc \in Services
      BY <1>0 DEF Services
    <3>4. (IF flush.content = "full" THEN svc.held \cup {AccountOf[flush.tok]} ELSE svc.held)
            \in SUBSET {AccountOf[t] : t \in Nat}
      BY <3>1, <3>3
    <3> QED
      BY <3>2, <3>3, <3>4 DEF Taken
  <2>7. svc' \in Services
    BY <1>3, <2>6 DEF Offer
  <2> QED
    BY <1>3, <2>5, <2>7 DEF Offer, Shape, routing
<1>4. CASE Settle
  <2>1. flush' = [flush EXCEPT !.at = "settled", !.read = disk]
    BY <1>4 DEF Settle
  <2>2. flush' \in Flushes(flush')
    BY <1>0, <2>1 DEF Flushes
  <2>3. flush.tok \in Nat /\ flush.refs \in BOOLEAN
    BY <1>0 DEF Flushes
  <2>4. mem' \in Memories
    <3>0. NoToken = 0 /\ Longest \in Nat
      BY AccountConstants
    <3>1. \A n \in Nat : Counted(n) \in Nat
      BY <3>0 DEF Counted, Lower
    <3>2. mem' = Remembered(mem, flush)
      BY <1>4 DEF Settle
    <3>3. [FreshMem EXCEPT !.withheld = ~flush.refs] \in Memories
      BY <2>3, Blank DEF Memories
    <3>4. /\ mem.timeouts \in Nat /\ mem.refusals \in Nat /\ mem.failures \in Nat
          /\ mem.gates \subseteq Gates
      BY <1>0 DEF Memories
    <3>5. /\ [mem EXCEPT !.timeouts = Counted(@)] \in Memories
          /\ [mem EXCEPT !.failures = Counted(@)] \in Memories
      BY <1>0, <3>1, <3>4 DEF Memories
    <3>6. /\ [mem EXCEPT !.gates = @ \cup {"upgrade"}] \in Memories
          /\ [mem EXCEPT !.gates = (@ \ {"account"}) \cup {"authorize"}] \in Memories
      BY <1>0 DEF Memories, Gates
    <3>7. RefuseAccount(mem, flush.tok) \in Memories
      BY <1>0, <2>3 DEF Memories, Gates, RefuseAccount
    <3>8. RefuseCredential(mem, flush.tok) \in Memories
      BY <1>0, <2>3 DEF Memories, Gates, RefuseCredential
    <3>9. RefuseAccess(mem, flush.tok) \in Memories
      BY <1>0, <3>0, <3>1, <3>4 DEF Memories, Gates, RefuseAccess
    <3> HIDE DEF Counted
    <3> QED
      BY <1>0, <3>2, <3>3, <3>5, <3>6, <3>7, <3>8, <3>9 DEF Remembered
  <2>5. svc' \in Services /\ pending' \in BOOLEAN
    BY <1>0, <1>4 DEF Settle, Services
  <2> QED
    BY <1>4, <2>2, <2>4, <2>5 DEF Settle, Shape, routing
<1>5. CASE Note
  <2>1. flush' \in Flushes(flush')
    BY <1>5, Blank DEF Note
  <2>2. flush.tok \in Nat /\ flush.epoch \in Nat
    BY <1>0 DEF Flushes
  <2>3. Holder(flush.tok, flush.epoch) \in Holders
    BY <1>0, <2>2 DEF Holder, Holders
  <2>4. NoteSentBlocks(flush, Holder(flush.tok, flush.epoch)) \in SentRecords
    BY <1>0, <2>3, Blank DEF NoteSentBlocks, SentRecords
  <2>5. sent' \in [mem : SentRecords, disk : SentRecords]
    BY <1>0, <1>5, <2>4 DEF Note
  <2>6. svc' = [svc EXCEPT !.told = svc.told \/ (flush.answer = "ack" /\ flush.epoch = 0)]
    BY <1>5 DEF Note
  <2>7. svc' \in Services
    BY <1>0, <2>6 DEF Services
  <2> QED
    BY <1>5, <2>1, <2>5, <2>7 DEF Note, Shape, routing
<1>6. CASE Restart
  <2>1. flush' \in Flushes(flush') /\ mem' \in Memories
    BY <1>6, Blank DEF Restart
  <2>2. sent' \in [mem : SentRecords, disk : SentRecords]
    BY <1>0, <1>6 DEF Restart
  <2> QED
    BY <1>6, <2>1, <2>2 DEF Restart, Shape, routing, outside
<1>7. CASE Tick
  BY <1>7 DEF Tick, Shape, routing, outside
<1> QED
  BY <1>1, <1>2, <1>3, <1>4, <1>5, <1>6, <1>7 DEF FlushSteps

\* Beginning a command keeps the shape.
LEMMA Start_Shape ==
  ASSUME Shape, NEW kind \in {"login", "enable", "logout", "purge"}, Start(kind)
  PROVE  Shape'
<1>0. cmd \in Commands(cmd) /\ Load(store) \in Nat
  BY Load_Type DEF Shape
<1> DEFINE at == CASE kind = "login"  -> IF Paired THEN "resume" ELSE "forget"
                   [] kind = "enable" -> IF Paired THEN "confirm" ELSE "forget"
                   [] kind = "logout" -> "pause"
                   [] kind = "purge"  -> "forget"
           refused == Refused
<1>1. at \in {"resume", "forget", "confirm", "pause"}
  OBVIOUS
<1>2. refused \in BOOLEAN
  BY DEF Refused
<1>3. cmd' = [NoCmd EXCEPT !.kind = kind, !.tok = Load(store), !.refused = refused, !.at = at]
  BY DEF Start
<1> HIDE DEF at, refused
<1>4. cmd' \in Commands(cmd')
  BY <1>0, <1>1, <1>2, <1>3, Blank DEF Commands, NoCmd
<1> QED
  BY <1>4 DEF Start, Shape, routing, uploader

\* Each step of a command, and its end halfway, keep the shape.
LEMMA Cmd_Shape == ASSUME Shape, CmdSteps \/ Abandon PROVE Shape'
<1>0. /\ cmd \in Commands(cmd) /\ svc \in Services /\ epoch \in Nat /\ table \in Tables
      /\ sent \in [mem : SentRecords, disk : SentRecords]
      /\ store \in [keyring : Nat, file : Nat, lock : {"open", "readonly", "locked"}]
      /\ cmd.tok \in Nat
  BY DEF Shape, Commands
<1>a. ASSUME NEW at \in {"approve", "revoke", "delete", "account", "resume", "credential", "hooks",
                         "confirm", "forget", "clear"}, To(at)
      PROVE  cmd' \in Commands(cmd')
  BY <1>0, <1>a DEF To, Commands
<1>b. CmdEnds => cmd' \in Commands(cmd')
  BY Blank DEF CmdEnds
<1>1. CASE ForgetSentBlocks
  <2>1. cmd' \in Commands(cmd')
    BY <1>1, <1>a DEF ForgetSentBlocks
  <2>2. epoch' \in Nat /\ sent' \in [mem : SentRecords, disk : SentRecords]
    BY <1>0, <1>1, Blank DEF ForgetSentBlocks
  <2> QED
    BY <1>1, <2>1, <2>2 DEF ForgetSentBlocks, Shape, routing
<1>2. CASE Approve
  <2>1. svc.issued + 1 \in Nat
    BY <1>0 DEF Services
  <2>2. cmd' = [cmd EXCEPT !.at = "store", !.tok = svc.issued + 1]
    BY <1>2 DEF Approve
  <2>3. cmd' \in Commands(cmd')
    BY <1>0, <2>1, <2>2 DEF Commands
  <2>4. svc' \in Services
    BY <1>0, <1>2, <2>1 DEF Approve, Services
  <2> QED
    BY <1>2, <2>3, <2>4 DEF Approve, Shape, routing, uploader
<1>3. CASE StoreToken
  <2>1. cmd' \in Commands(cmd')
    BY <1>3, <1>a, <1>b DEF StoreToken
  <2>2. store' \in [keyring : Nat, file : Nat, lock : {"open", "readonly", "locked"}]
    BY <1>0, <1>3, Load_Type DEF StoreToken
  <2> QED
    BY <1>3, <2>1, <2>2 DEF StoreToken, Shape, routing, uploader
<1>4. CASE ResumeSignedIn
  <2>1. cmd' \in Commands(cmd')
    BY <1>4, <1>a DEF ResumeSignedIn
  <2>2. table' \in Tables
    BY <1>0, <1>4, Table_Type DEF ResumeSignedIn, Update, Reasons
  <2> QED
    BY <1>4, <2>1, <2>2 DEF ResumeSignedIn, Shape, uploader, outside
<1>5. CASE InstallHint
  <2>1. cmd' \in Commands(cmd')
    BY <1>5, <1>a, <1>b DEF InstallHint
  <2> QED
    BY <1>5, <2>1 DEF InstallHint, Shape, routing, uploader, outside
<1>6. CASE ConfirmAgreement
  <2>1. cmd' \in Commands(cmd')
    BY <1>6, <1>b DEF ConfirmAgreement
  <2>2. table' \in Tables
    <3>1. AsRead \in Tables
      BY <1>0, Table_Type DEF Reasons
    <3>2. Resumed(AsRead, "consent_reconfirm") \in Tables
      BY <1>0, <3>1, Table_Type DEF Reasons
    <3>3. Resumed(Resumed(AsRead, "consent_reconfirm"), "consent_unreadable") \in Tables
      BY <1>0, <3>2, Table_Type DEF Reasons
    <3> QED
      BY <1>0, <1>6, <3>3 DEF ConfirmAgreement, Update, routing
  <2> QED
    BY <1>6, <2>1, <2>2 DEF ConfirmAgreement, Shape, uploader
<1>7. ASSUME NEW s \in {"account", "credential"}, ReadStanding(s) PROVE Shape'
  <2>1. CASE s \in disk.stands
    <3>1. cmd' = [cmd EXCEPT !.at = Clearing(s), !.read = disk]
      BY <1>7, <2>1 DEF ReadStanding
    <3>2. cmd' \in Commands(cmd')
      BY <1>0, <3>1 DEF Commands, Clearing
    <3> QED
      BY <1>7, <3>2 DEF ReadStanding, Shape, routing, uploader, outside
  <2>2. CASE s \notin disk.stands
    <3>1. cmd' \in Commands(cmd')
      BY <1>7, <2>2, <1>a DEF ReadStanding
    <3> QED
      BY <1>7, <3>1 DEF ReadStanding, Shape, routing, uploader, outside
  <2> QED
    BY <2>1, <2>2
<1>8. ASSUME NEW s \in {"account", "credential"}, ClearStanding(s) PROVE Shape'
  <2>1. cmd' = [cmd EXCEPT !.at = IF s = "account" THEN "resume" ELSE "hooks", !.read = NoCmd.read]
    BY <1>8 DEF ClearStanding
  <2>2. cmd' \in Commands(cmd')
    BY <1>0, <2>1 DEF Commands
  <2> QED
    BY <1>8, <2>2 DEF ClearStanding, Shape, routing, outside
<1>9. CASE PauseSignedOut
  <2>1. cmd' \in Commands(cmd')
    BY <1>9, <1>a DEF PauseSignedOut, PauseFirst
  <2>2. table' \in Tables
    BY <1>0, <1>9, Table_Type DEF PauseSignedOut, PauseFirst, Update, Reasons
  <2> QED
    BY <1>9, <2>1, <2>2 DEF PauseSignedOut, Shape, uploader, outside
<1>10. CASE Revoke
  <2>1. cmd' \in Commands(cmd')
    BY <1>10, <1>a DEF Revoke
  <2>2. svc' \in Services
    BY <1>0, <1>10 DEF Revoke, Services
  <2> QED
    BY <1>10, <2>1, <2>2 DEF Revoke, Shape, routing, uploader
<1>11. CASE ClearToken
  <2>1. cmd' \in Commands(cmd')
    BY <1>11, <1>b DEF ClearToken
  <2>2. store' \in [keyring : Nat, file : Nat, lock : {"open", "readonly", "locked"}]
    BY <1>0, <1>11, Load_Type DEF ClearToken
  <2> QED
    BY <1>11, <2>1, <2>2 DEF ClearToken, Shape, routing, uploader
<1>12. CASE RequestDeletion
  <2>1. cmd' \in Commands(cmd')
    BY <1>12, <1>b DEF RequestDeletion
  <2>2. svc' \in Services
    BY <1>0, <1>12 DEF RequestDeletion, Services
  <2> QED
    BY <1>12, <2>1, <2>2 DEF RequestDeletion, Shape, routing, uploader
<1>13. CASE Abandon
  BY <1>13, <1>b DEF Abandon, Shape, routing, uploader, outside
<1> QED
  BY <1>1, <1>2, <1>3, <1>4, <1>5, <1>6, <1>7, <1>8, <1>9, <1>10, <1>11, <1>12, <1>13 DEF CmdSteps

\* What the service and the recorder do keeps the shape.
LEMMA Around_Shape == ASSUME Shape, Around PROVE Shape'
<1>0. svc \in Services /\ table \in Tables
      /\ store \in [keyring : Nat, file : Nat, lock : {"open", "readonly", "locked"}]
  BY DEF Shape
<1>1. CASE PauseIfAgreementStale
  <2>1. table' \in Tables
    BY <1>0, <1>1, Table_Type DEF PauseIfAgreementStale, Update, Reasons
  <2> QED
    BY <1>1, <2>1 DEF PauseIfAgreementStale, Shape, uploader, outside
<1>2. CASE TermsChange \/ OmitTurns
  BY <1>2 DEF TermsChange, OmitTurns, Shape, routing, uploader
<1>3. CASE KeyringTurns
  <2>1. store' \in [keyring : Nat, file : Nat, lock : {"open", "readonly", "locked"}]
    BY <1>0, <1>3 DEF KeyringTurns
  <2> QED
    BY <1>3, <2>1 DEF KeyringTurns, Shape, routing, uploader
<1>4. CASE ServiceTurns
  <2>1. svc' \in Services
    BY <1>0, <1>4 DEF ServiceTurns, Services
  <2> QED
    BY <1>4, <2>1 DEF ServiceTurns, Shape, routing, uploader
<1>5. CASE ServiceChanges
  <2>1. svc' \in Services
    BY <1>0, <1>5 DEF ServiceChanges, Services
  <2> QED
    BY <1>5, <2>1 DEF ServiceChanges, Shape, routing, uploader
<1>6. CASE ServiceDeletes
  <2>1. svc' \in Services
    <3> DEFINE stated == IF svc.states THEN svc.epoch + 1 ELSE svc.epoch
               kept == IF svc.kept = "full" THEN "deleted" ELSE svc.kept
    <3>1. PICK a \in svc.held :
            svc' = [svc EXCEPT !.held = svc.held \ {a}, !.epoch = stated, !.kept = kept]
      BY <1>6 DEF ServiceDeletes
    <3>2. stated \in Nat \ {0} /\ kept \in {"none", "full", "reference", "omitted", "deleted"}
      BY <1>0 DEF Services
    <3> HIDE DEF stated, kept
    <3> QED
      BY <1>0, <3>1, <3>2 DEF Services
  <2> QED
    BY <1>6, <2>1 DEF ServiceDeletes, Shape, routing, uploader
<1> QED
  BY <1>1, <1>2, <1>3, <1>4, <1>5, <1>6 DEF Around

\* Every step keeps the shape.
LEMMA Next_Shape == Shape /\ [Next]_vars => Shape'
<1>1. ASSUME Shape, UNCHANGED vars PROVE Shape'
  BY <1>1 DEF vars, routing, uploader, outside, Shape
<1> QED
  BY <1>1, Flush_Shape, Start_Shape, Cmd_Shape, Around_Shape DEF Next

-----------------------------------------------------------------------------
(* A sign-out leaves nothing recording.                                     *)

\* A paused table, or one that is not written, records nothing.
LEMMA Paused_Silent ==
  ASSUME table \in Tables, NEW reason \in Reasons, Update(Paused(AsRead, reason))
  PROVE  Silent'
<1>1. table'.pause = reason /\ reason # "none"
  BY Table_Type DEF Update, Reasons
<1> QED
  BY <1>1 DEF Silent, Records

\* Nobody is signed out with the uploads on at the start.
LEMMA Init_Quiet == Init => QuietInv
  BY DEF Init, QuietInv, NoCmd, Pairing

\* Every step keeps a signed-out device paused, or a command on the way there.
LEMMA Next_Quiet == ASSUME Shape, QuietInv, [Next]_vars PROVE QuietInv'
<1>0. cmd \in Commands(cmd) /\ table \in Tables
  BY DEF Shape
<1>a. (UNCHANGED <<table, file>>) => Silent' = Silent
  BY DEF Silent, Records
<1>1. ASSUME UNCHANGED <<routing, out, cmd>> PROVE QuietInv'
  BY <1>1, <1>a DEF QuietInv, routing
\* What a step of a command leaves for the invariant to say.
<1>2. ASSUME UNCHANGED routing, CmdEnds, out' => out PROVE QuietInv'
  BY <1>2, <1>a DEF QuietInv, routing, CmdEnds, NoCmd, Pairing
<1>3. ASSUME NEW kind \in {"login", "enable", "logout", "purge"}, Start(kind) PROVE QuietInv'
  <2>1. cmd'.kind = kind /\ (kind = "logout" => cmd'.at = "pause")
    BY <1>3 DEF Start, NoCmd
  <2>2. kind \in Pairing => cmd'.at \in {"forget"} \/ (Paired /\ ~out')
    BY <1>3 DEF Start, NoCmd, Pairing
  <2>3. (out' => out) /\ UNCHANGED routing
    BY <1>3 DEF Start
  <2> QED
    BY <1>a, <2>1, <2>2, <2>3 DEF QuietInv, routing
<1>4. CASE ForgetSentBlocks
  <2>1. /\ cmd' = [cmd EXCEPT !.at = CASE cmd.kind = "logout" -> "revoke"
                                       [] cmd.kind = "purge" -> "delete" [] OTHER -> "approve"]
        /\ cmd.at = "forget" /\ UNCHANGED <<routing, out>>
        /\ cmd.kind \in {"login", "enable", "logout", "purge"}
    BY <1>4 DEF ForgetSentBlocks, To, InCmd
  <2>2. /\ cmd'.kind = cmd.kind /\ (cmd.kind \in Pairing => cmd'.at = "approve")
        /\ (cmd.kind = "logout" => cmd'.at = "revoke")
    BY <1>0, <2>1 DEF Commands, Pairing
  <2> QED
    BY <1>a, <2>1, <2>2 DEF QuietInv, routing
<1>5. CASE Approve
  <2>1. cmd.at = "approve" /\ cmd.kind \in Pairing /\ UNCHANGED <<routing, out>>
        /\ cmd'.kind = cmd.kind /\ cmd'.at = "store"
    BY <1>0, <1>5 DEF Approve, InCmd, Commands
  <2> QED
    BY <1>a, <2>1 DEF QuietInv, routing, Pairing
<1>6. CASE StoreToken
  <2>1. CASE SaveReadsBack(cmd.tok)
    <3>1. cmd.kind \in Pairing /\ cmd'.kind = cmd.kind /\ cmd'.at = "account" /\ ~out'
      BY <1>0, <1>6, <2>1 DEF StoreToken, To, InCmd, Commands
    <3> QED
      BY <3>1 DEF QuietInv, Pairing
  <2>2. CASE ~SaveReadsBack(cmd.tok)
    BY <1>2, <1>6, <2>2 DEF StoreToken
  <2> QED
    BY <2>1, <2>2
\* What a pairing does past its token does not reach a device signed out.
<1>7. ASSUME cmd.kind \in Pairing, cmd.at \notin {"forget", "approve", "store"}, out' = out,
             cmd' = NoCmd \/ (cmd'.kind = cmd.kind /\ cmd'.at # "idle")
      PROVE  QuietInv'
  BY <1>7 DEF QuietInv, Pairing, NoCmd
<1>8. CASE \/ ResumeSignedIn \/ InstallHint \/ ConfirmAgreement
           \/ \E s \in {"account", "credential"} : ReadStanding(s) \/ ClearStanding(s)
  <2>1. /\ cmd.kind \in Pairing
        /\ cmd.at \in {"resume", "hooks", "confirm", "account", "credential", "clear_account",
                       "clear_credential"}
    BY <1>8 DEF ResumeSignedIn, InstallHint, ConfirmAgreement, ReadStanding, ClearStanding, InCmd,
                Clearing, Pairing
  <2>2. out' = out
    BY <1>8 DEF ResumeSignedIn, InstallHint, ConfirmAgreement, ReadStanding, ClearStanding, outside
  <2>3. cmd' = NoCmd \/ (cmd'.kind = cmd.kind /\ cmd'.at # "idle")
    BY <1>0, <1>8 DEF ResumeSignedIn, InstallHint, ConfirmAgreement, ReadStanding, ClearStanding, To,
                      CmdEnds, Clearing, Commands
  <2> QED
    BY <1>7, <2>1, <2>2, <2>3
<1>9. CASE PauseSignedOut
  <2>1. Silent'
    BY <1>0, <1>9, Paused_Silent DEF PauseSignedOut, PauseFirst, Reasons
  <2>2. cmd'.kind = "logout"
    BY <1>0, <1>9 DEF PauseSignedOut, PauseFirst, InCmd, To, Commands
  <2> QED
    BY <2>1, <2>2 DEF QuietInv, Pairing
<1>10. CASE Revoke
  <2>1. cmd.kind = "logout" /\ cmd.at = "revoke" /\ cmd'.kind = cmd.kind /\ UNCHANGED <<routing, out>>
    BY <1>0, <1>10 DEF Revoke, InCmd, To, Commands
  <2> QED
    BY <1>a, <2>1 DEF QuietInv, routing, Pairing
<1>11. CASE ClearToken
  <2>1. cmd.kind = "logout" /\ cmd.at = "clear" /\ cmd' = NoCmd /\ UNCHANGED routing
    BY <1>11 DEF ClearToken, InCmd, CmdEnds
  <2> QED
    BY <1>a, <2>1 DEF QuietInv, routing, Pairing, NoCmd
<1>12. CASE RequestDeletion \/ Abandon
  <2>1. UNCHANGED <<routing, out>> /\ CmdEnds
    BY <1>12 DEF RequestDeletion, Abandon, outside
  <2> QED
    BY <1>2, <2>1
<1>13. CASE PauseIfAgreementStale
  <2>1. Silent'
    BY <1>0, <1>13, Paused_Silent DEF PauseIfAgreementStale, Reasons
  <2> QED
    BY <1>13, <2>1 DEF PauseIfAgreementStale, QuietInv, outside
<1>14. CASE \/ TermsChange \/ KeyringTurns \/ OmitTurns \/ ServiceTurns \/ ServiceChanges \/ ServiceDeletes
  BY <1>1, <1>14 DEF TermsChange, KeyringTurns, OmitTurns, ServiceTurns, ServiceChanges, ServiceDeletes
<1>15. CASE (\E force \in BOOLEAN : FlushStarts(force)) \/ FlushSteps \/ Restart \/ Tick
  BY <1>1, <1>15 DEF FlushStarts, FlushSteps, Build, Offer, Settle, Note, Restart, Tick, outside
<1>16. CASE UNCHANGED vars
  BY <1>1, <1>16 DEF vars, outside
<1> QED
  BY <1>3, <1>4, <1>5, <1>6, <1>8, <1>9, <1>10, <1>11, <1>12, <1>13, <1>14, <1>15, <1>16
     DEF Next, CmdSteps, Around

-----------------------------------------------------------------------------
(* A gate is held against a token that was refused.                         *)

LEMMA Next_Gate == ASSUME Shape, GateInv, [Next]_vars PROVE GateInv'
<1>0. mem \in Memories /\ flush \in Flushes(flush)
  BY DEF Shape
<1>1. ASSUME NEW force \in BOOLEAN, FlushStarts(force) PROVE GateInv'
  BY <1>0, <1>1 DEF FlushStarts, Opened, GateInv, Memories
<1>2. CASE Settle
  <2>1. /\ mem' = Remembered(mem, flush)
        /\ answered' = CASE flush.answer = "ack" -> {}
                         [] flush.answer \in {"account", "credential"} -> answered \cup {flush.tok}
                         [] OTHER -> answered
    BY <1>2 DEF Settle
  <2>2. CASE flush.answer = "ack"
    BY <1>0, <2>1, <2>2 DEF Remembered, FreshMem, GateInv
  <2>3. CASE flush.answer \in {"account", "credential"}
    BY <1>0, <2>1, <2>3 DEF Remembered, RefuseAccount, RefuseCredential, GateInv, Memories
  <2>4. CASE flush.answer \notin {"ack", "account", "credential"}
    BY <1>0, <2>1, <2>4 DEF Remembered, RefuseAccess, GateInv, Memories
  <2> QED
    BY <2>2, <2>3, <2>4
<1>3. CASE Restart
  BY <1>3 DEF Restart, FreshMem, GateInv
<1>4. CASE UNCHANGED <<mem, answered>>
  BY <1>4 DEF GateInv
<1> QED
  BY <1>1, <1>2, <1>3, <1>4
     DEF Next, vars, uploader, FlushSteps, Build, Offer, Note, Tick, Start, CmdSteps, ForgetSentBlocks,
         Approve, StoreToken, ResumeSignedIn, InstallHint, ConfirmAgreement, ReadStanding, ClearStanding,
         PauseSignedOut, Revoke, ClearToken, RequestDeletion, Abandon, Around, PauseIfAgreementStale,
         TermsChange, KeyringTurns, OmitTurns, ServiceTurns, ServiceChanges, ServiceDeletes

-----------------------------------------------------------------------------
(* What is remembered as sent is held.                                      *)

LEMMA Init_Record == Init => RecordInv
<1> SUFFICES ASSUME Init PROVE RecordInv
  OBVIOUS
<1>1. /\ sent = [mem |-> NoRecord, disk |-> NoRecord] /\ flush = NoFlush /\ epoch = 0 /\ cmd = NoCmd
      /\ svc.kept = "none" /\ svc.epoch = 1 /\ ~svc.told /\ pending = FALSE
  BY DEF Init, NewService
<1>2. NoRecord.holder = <<NoToken, 0, 0>> /\ ~NoRecord.has /\ NoFlush.holder = <<NoToken, 0, 0>>
      /\ NoFlush.at = "idle" /\ NoCmd.kind = "none"
  BY DEF NoRecord, NoFlush, NoHolder, NoCmd
<1>3. PinInv /\ ToldInv /\ CopyInv /\ PurgeInv
  BY <1>1, <1>2 DEF PinInv, ToldInv, CopyInv, PurgeInv
<1>4. EpochInv
  BY <1>1, <1>2 DEF EpochInv, Answered
<1>5. HeldInv
  BY <1>1, <1>2 DEF HeldInv, Answered
<1> QED
  BY <1>3, <1>4, <1>5 DEF RecordInv

\* Nothing the invariant reads is changed, and no deletion is begun.
LEMMA Record_Frame ==
  ASSUME RecordInv, UNCHANGED <<sent, epoch, flush, pending>>, cmd'.kind = "purge" => cmd' = cmd,
         svc'.epoch = svc.epoch, svc'.states = svc.states, svc'.told = svc.told,
         svc'.held = svc.held, svc'.kept = svc.kept
  PROVE  RecordInv'
<1>1. PinInv' /\ CopyInv' /\ ToldInv'
  BY DEF RecordInv, PinInv, CopyInv, ToldInv, Answered
<1>2. EpochInv' /\ HeldInv'
  BY DEF RecordInv, EpochInv, HeldInv, Answered
<1>3. PurgeInv'
  BY DEF RecordInv, PurgeInv
<1> QED
  BY <1>1, <1>2, <1>3 DEF RecordInv

\* A flush that starts keeps the record true,
LEMMA Starts_Record ==
  ASSUME Shape, RecordInv, NEW force \in BOOLEAN, FlushStarts(force)
  PROVE  RecordInv'
<1>1. UNCHANGED <<sent, svc, epoch, cmd>> /\ cmd.kind # "purge" /\ flush.at = "idle"
  BY DEF FlushStarts, outside
<1>2. CASE UNCHANGED <<flush, pending>>
  BY <1>1, <1>2, Record_Frame
<1>3. CASE /\ flush' = [NoFlush EXCEPT !.at = "gathered", !.tok = Load(store), !.resumed = pending]
           /\ pending' = TRUE
  <2>1. /\ flush'.at = "gathered" /\ flush'.resumed = pending /\ flush'.holder = <<NoToken, 0, 0>>
    BY <1>3 DEF NoFlush, NoHolder
  <2>2. PinInv' /\ CopyInv' /\ ToldInv' /\ PurgeInv'
    BY <1>1, <1>3, <2>1 DEF RecordInv, PinInv, CopyInv, ToldInv, PurgeInv, Answered, Shape
  <2>3. EpochInv' /\ HeldInv'
    BY <1>1, <1>3, <2>1 DEF RecordInv, EpochInv, HeldInv, Answered, Shape
  <2> QED
    BY <2>2, <2>3 DEF RecordInv
<1> QED
  BY <1>2, <1>3 DEF FlushStarts

\* so does a build,
LEMMA Build_Record == ASSUME Shape, RecordInv, Build PROVE RecordInv'
<1>0. flush \in Flushes(flush) /\ epoch \in Nat
  BY DEF Shape
<1>1. UNCHANGED <<sent, svc, epoch, cmd, pending>> /\ flush.at = "gathered"
  BY DEF Build, outside
<1>2. flush'.at = "built" /\ flush'.resumed = flush.resumed /\ flush'.holder = <<flush.tok, epoch, disk.epoch>>
  BY <1>0 DEF Build, Flushes, Holder
<1>3. PinInv' /\ CopyInv' /\ ToldInv' /\ PurgeInv'
  BY <1>1, <1>2 DEF RecordInv, PinInv, CopyInv, ToldInv, PurgeInv, Answered
<1>4. EpochInv' /\ HeldInv'
  BY <1>0, <1>1, <1>2 DEF RecordInv, EpochInv, HeldInv, Answered
<1> QED
  BY <1>3, <1>4 DEF RecordInv

\* A first attempt that is acknowledged has arrived, and carried what the
\* service now holds.
LEMMA Offer_Record == ASSUME Shape, RecordInv, Offer PROVE RecordInv'
<1>0. flush \in Flushes(flush) /\ epoch \in Nat /\ svc \in Services
  BY DEF Shape
<1>1. UNCHANGED <<sent, epoch, cmd, pending>> /\ flush.at = "built" /\ pending = TRUE
  BY DEF Offer, RecordInv, PinInv, Shape
<1>2. /\ flush'.at = "answered" /\ flush'.answer = Answer /\ flush'.resumed = flush.resumed
      /\ flush'.holder = flush.holder /\ flush'.tok = flush.tok /\ flush'.content = flush.content
      /\ flush'.refs = (svc.refs /\ svc.states)
      /\ flush'.epoch = IF svc.states THEN svc.epoch ELSE 0
  BY <1>0 DEF Offer, Flushes, Stated
<1>3. PICK arrived \in BOOLEAN : (Answer = "ack" => arrived) /\ svc' = Taken(arrived)
  BY DEF Offer
<1>4. svc'.epoch = svc.epoch /\ svc'.states = svc.states /\ svc'.told = svc.told
  BY <1>0, <1>3 DEF Taken, Services
<1>5. svc.held \subseteq svc'.held
  BY <1>0, <1>3 DEF Taken, Services
<1>6. arrived /\ svc.kept = "none" /\ flush.content = "full" => AccountOf[flush.tok] \in svc'.held
  BY <1>0, <1>3 DEF Taken, Services
<1>7. PinInv' /\ CopyInv' /\ ToldInv' /\ PurgeInv'
  BY <1>1, <1>2, <1>4 DEF RecordInv, PinInv, CopyInv, ToldInv, PurgeInv, Answered
<1>8. EpochInv'
  BY <1>0, <1>1, <1>2, <1>4 DEF RecordInv, EpochInv, Answered, Services
<1>9. HeldInv'
  BY <1>1, <1>2, <1>3, <1>4, <1>5, <1>6 DEF RecordInv, PinInv, HeldInv, Answered
<1> QED
  BY <1>7, <1>8, <1>9 DEF RecordInv

\* the settling of an answer,
LEMMA Settle_Record == ASSUME Shape, RecordInv, Settle PROVE RecordInv'
<1>0. flush \in Flushes(flush) /\ svc \in Services
  BY DEF Shape
<1>1. UNCHANGED <<sent, epoch, cmd>> /\ flush.at = "answered"
  BY DEF Settle
<1>2. /\ flush'.at = "settled" /\ flush'.answer = flush.answer /\ flush'.resumed = flush.resumed
      /\ flush'.holder = flush.holder /\ flush'.tok = flush.tok /\ flush'.content = flush.content
      /\ flush'.refs = flush.refs /\ flush'.epoch = flush.epoch
  BY <1>0 DEF Settle, Flushes
<1>3. /\ svc'.epoch = svc.epoch /\ svc'.states = svc.states /\ svc'.told = svc.told
      /\ svc'.held = svc.held /\ (~pending' => svc'.kept = "none")
  BY <1>0 DEF Settle, Services
<1>4. PinInv' /\ CopyInv' /\ ToldInv' /\ PurgeInv'
  BY <1>1, <1>2, <1>3 DEF RecordInv, PinInv, CopyInv, ToldInv, PurgeInv, Answered
<1>5. EpochInv' /\ HeldInv'
  BY <1>1, <1>2, <1>3 DEF RecordInv, EpochInv, HeldInv, Answered
<1> QED
  BY <1>4, <1>5 DEF RecordInv

\* What an acknowledgement has remembered: what was, about this holder, or
\* what a first attempt carried.
LEMMA Noted_Record ==
  ASSUME NEW f \in Flushes(flush), NEW now \in Holders, sent \in [mem : SentRecords, disk : SentRecords]
  PROVE  LET rec == NoteSentBlocks(f, now) IN
         /\ rec.holder = now
         /\ rec.has => \/ sent.mem.has /\ sent.mem.holder = now
                       \/ f.refs /\ f.holder = now /\ ~f.resumed /\ f.content = "full"
<1> DEFINE kept == IF sent.mem.holder # now THEN [NoRecord EXCEPT !.holder = now] ELSE sent.mem
<1>1. kept \in SentRecords /\ kept.holder = now /\ (kept.has => sent.mem.has /\ sent.mem.holder = now)
  BY DEF SentRecords, NoRecord
<1>2. NoteSentBlocks(f, now) = IF f.refs /\ f.holder = now /\ ~f.resumed /\ f.content = "full"
                              THEN [kept EXCEPT !.has = TRUE] ELSE kept
  BY DEF NoteSentBlocks
<1> HIDE DEF kept
<1> QED
  BY <1>1, <1>2 DEF SentRecords

\* the note of what it acknowledged,
LEMMA Note_Record == ASSUME Shape, RecordInv, Note PROVE RecordInv'
<1>0. /\ flush \in Flushes(flush) /\ svc \in Services /\ epoch \in Nat
      /\ sent \in [mem : SentRecords, disk : SentRecords]
  BY DEF Shape
<1>1. UNCHANGED <<epoch, cmd, pending>> /\ flush.at = "settled" /\ flush' = NoFlush /\ Answered
  BY DEF Note, Answered
<1>2. NoFlush.at = "idle" /\ NoFlush.holder = <<NoToken, 0, 0>>
  BY DEF NoFlush, NoHolder
<1> DEFINE now == <<flush.tok, epoch, flush.epoch>>
           rec == NoteSentBlocks(flush, now)
<1>3. now \in Holders /\ now[1] = flush.tok /\ now[2] = epoch /\ now[3] = flush.epoch
  BY <1>0 DEF Flushes, Holders
<1>4. /\ rec.holder = now
      /\ rec.has => \/ sent.mem.has /\ sent.mem.holder = now
                    \/ flush.refs /\ flush.holder = now /\ ~flush.resumed /\ flush.content = "full"
  BY <1>0, <1>3, Noted_Record
<1>5. sent' = sent \/ (flush.answer = "ack" /\ sent' = [mem |-> rec, disk |-> rec])
  BY DEF Note, Holder
<1>6. flush.answer = "ack" => sent'.mem = rec
  BY <1>0 DEF Note, Holder
<1> HIDE DEF now, rec
<1>7. /\ svc'.epoch = svc.epoch /\ svc'.states = svc.states /\ svc'.held = svc.held
      /\ svc'.kept = svc.kept
      /\ svc'.told => svc.told \/ (flush.answer = "ack" /\ flush.epoch = 0)
  BY <1>0 DEF Note, Services
<1>8. cmd.kind # "purge"
  BY <1>1 DEF RecordInv, PurgeInv
<1>9. PinInv' /\ PurgeInv'
  BY <1>1, <1>2, <1>7, <1>8 DEF RecordInv, PinInv, PurgeInv
<1>10. CopyInv'
  BY <1>5 DEF RecordInv, CopyInv
<1>11. flush.answer = "ack" /\ rec.has =>
         /\ flush.epoch > 0 /\ flush.epoch <= svc.epoch
         /\ flush.epoch = svc.epoch => AccountOf[flush.tok] \in svc.held
  BY <1>0, <1>1, <1>3, <1>4 DEF RecordInv, EpochInv, HeldInv, Flushes
<1>12. EpochInv'
  <2>1. CASE sent' = sent
    BY <1>0, <1>1, <1>2, <1>7, <2>1 DEF RecordInv, EpochInv, Answered
  <2>2. CASE flush.answer = "ack" /\ sent' = [mem |-> rec, disk |-> rec]
    <3>1. flush.epoch <= svc.epoch
      BY <1>1 DEF RecordInv, EpochInv
    <3> QED
      BY <1>0, <1>1, <1>2, <1>3, <1>4, <1>7, <1>11, <2>2, <3>1 DEF EpochInv, Answered
  <2> QED
    BY <1>5, <2>1, <2>2
<1>13. HeldInv'
  <2>1. CASE sent' = sent
    BY <1>1, <1>2, <1>7, <2>1 DEF RecordInv, HeldInv, Answered
  <2>2. CASE flush.answer = "ack" /\ sent' = [mem |-> rec, disk |-> rec]
    BY <1>1, <1>2, <1>3, <1>4, <1>7, <1>11, <2>2 DEF HeldInv, Answered
  <2> QED
    BY <1>5, <2>1, <2>2
\* An acknowledgement that states no epoch leaves nothing remembered.
<1>14. ToldInv'
  <2>1. CASE flush.answer = "ack" /\ flush.epoch = 0
    <3>1. ~rec.has
      BY <1>11, <2>1
    <3>2. ~sent'.mem.has /\ ~sent'.disk.has
      <4>1. CASE sent' = [mem |-> rec, disk |-> rec]
        BY <3>1, <4>1
      <4>2. CASE sent' = sent
        <5>1. ~sent.mem.has
          BY <1>6, <2>1, <3>1, <4>2
        <5>2. sent.disk \in {sent.mem, NoRecord} /\ ~NoRecord.has
          BY DEF RecordInv, CopyInv, NoRecord
        <5> QED
          BY <4>2, <5>1, <5>2
      <4> QED
        BY <1>5, <4>1, <4>2
    <3> QED
      BY <1>1, <1>2, <3>2 DEF ToldInv, Answered
  <2>2. CASE ~(flush.answer = "ack" /\ flush.epoch = 0)
    <3>1. ASSUME svc'.told, ~svc'.states PROVE ~sent'.mem.has /\ ~sent'.disk.has
      <4>1. svc.told /\ ~svc.states
        BY <1>7, <2>2, <3>1
      <4>2. ~sent.mem.has /\ ~sent.disk.has /\ ~flush.refs
        BY <1>1, <4>1 DEF RecordInv, ToldInv
      <4>3. ~rec.has
        BY <1>4, <4>2
      <4> QED
        BY <1>5, <4>2, <4>3
    <3> QED
      BY <1>1, <1>2, <3>1 DEF ToldInv, Answered
  <2> QED
    BY <2>1, <2>2
<1> QED
  BY <1>9, <1>10, <1>12, <1>13, <1>14 DEF RecordInv

\* a new process, which reads the record the last one saved,
LEMMA Restart_Record == ASSUME Shape, RecordInv, Restart PROVE RecordInv'
<1>0. sent \in [mem : SentRecords, disk : SentRecords] /\ epoch \in Nat
  BY DEF Shape
<1>1. UNCHANGED <<svc, epoch, pending, cmd>> /\ flush' = NoFlush
  BY DEF Restart, outside
<1>2. NoFlush.at = "idle" /\ NoFlush.holder = <<NoToken, 0, 0>>
  BY DEF NoFlush, NoHolder
<1>3. sent'.mem = sent.disk /\ sent'.disk = sent.disk
  BY <1>0 DEF Restart
<1>4. PinInv' /\ CopyInv' /\ ToldInv' /\ PurgeInv'
  BY <1>1, <1>2, <1>3 DEF RecordInv, PinInv, CopyInv, ToldInv, PurgeInv, Answered
<1>5. EpochInv' /\ HeldInv'
  BY <1>0, <1>1, <1>2, <1>3 DEF RecordInv, EpochInv, HeldInv, Answered
<1> QED
  BY <1>4, <1>5 DEF RecordInv

\* A renewed epoch is none that anything was remembered under.
LEMMA Forget_Record == ASSUME Shape, RecordInv, ForgetSentBlocks PROVE RecordInv'
<1>0. /\ sent \in [mem : SentRecords, disk : SentRecords] /\ epoch \in Nat /\ cmd \in Commands(cmd)
      /\ flush \in Flushes(flush) /\ svc \in Services
  BY DEF Shape
<1>1. UNCHANGED <<svc, flush, pending>> /\ epoch' = epoch + 1
  BY DEF ForgetSentBlocks
<1>2. sent'.mem = sent.mem /\ sent'.disk = NoRecord
  BY <1>0 DEF ForgetSentBlocks
<1>3. NoRecord.holder = <<NoToken, 0, 0>> /\ ~NoRecord.has
  BY DEF NoRecord, NoHolder
<1>4. \A s \in {sent'.mem, sent'.disk} : s.has => s.holder[2] < epoch'
  BY <1>0, <1>1, <1>2, <1>3 DEF RecordInv, EpochInv, SentRecords, Holders
<1>5. PinInv' /\ CopyInv' /\ ToldInv'
  BY <1>1, <1>2, <1>3 DEF RecordInv, PinInv, CopyInv, ToldInv, Answered
<1>6. EpochInv'
  BY <1>0, <1>1, <1>2, <1>3 DEF RecordInv, EpochInv, Answered, SentRecords, Holders, Flushes, Services
<1>7. flush'.holder[2] # epoch'
  BY <1>0, <1>1 DEF RecordInv, EpochInv, Flushes
<1>8. HeldInv'
  <2>1. ASSUME NEW s \in {sent'.mem, sent'.disk}, s.has PROVE s.holder[2] # epoch'
    BY <1>0, <1>1, <1>2, <1>3, <2>1 DEF RecordInv, EpochInv, SentRecords, Holders
  <2> QED
    BY <1>7, <2>1 DEF HeldInv
<1>9. cmd'.kind = cmd.kind
  BY <1>0 DEF ForgetSentBlocks, To, Commands
<1>10. PurgeInv'
  BY <1>1, <1>4, <1>9 DEF RecordInv, PurgeInv
<1> QED
  BY <1>5, <1>6, <1>8, <1>10 DEF RecordInv

\* a request to delete what the service holds,
LEMMA Delete_Record == ASSUME Shape, RecordInv, RequestDeletion PROVE RecordInv'
<1>0. sent \in [mem : SentRecords, disk : SentRecords] /\ epoch \in Nat /\ svc \in Services
  BY DEF Shape
<1>1. UNCHANGED <<sent, epoch, flush, pending>> /\ cmd.kind = "purge" /\ cmd.at = "delete" /\ cmd' = NoCmd
  BY DEF RequestDeletion, uploader, InCmd, CmdEnds
<1>2. /\ svc'.epoch = svc.epoch /\ svc'.states = svc.states /\ svc'.told = svc.told
      /\ svc.kept = "none" => svc'.kept = "none"
  BY <1>0 DEF RequestDeletion, Services
<1>3. flush.at = "idle" /\ \A s \in {sent.mem, sent.disk} : s.has => s.holder[2] < epoch
  BY <1>1 DEF RecordInv, PurgeInv
<1>4. PinInv' /\ CopyInv' /\ ToldInv'
  BY <1>1, <1>2 DEF RecordInv, PinInv, CopyInv, ToldInv, Answered
<1>5. EpochInv'
  BY <1>1, <1>2 DEF RecordInv, EpochInv, Answered
<1>6. HeldInv'
  <2>1. ASSUME NEW s \in {sent.mem, sent.disk}, s.has PROVE s.holder[2] # epoch
    BY <1>0, <1>3, <2>1 DEF SentRecords, Holders
  <2> QED
    BY <1>1, <1>3, <2>1 DEF HeldInv, Answered
<1>7. PurgeInv'
  BY <1>1 DEF PurgeInv, NoCmd
<1> QED
  BY <1>4, <1>5, <1>6, <1>7 DEF RecordInv

\* and what the service does by itself.
LEMMA Service_Record == ASSUME Shape, RecordInv, ServiceChanges \/ ServiceDeletes PROVE RecordInv'
<1>0. svc \in Services /\ sent \in [mem : SentRecords, disk : SentRecords] /\ flush \in Flushes(flush)
  BY DEF Shape
<1>1. UNCHANGED <<sent, epoch, flush, pending, cmd>>
  BY DEF ServiceChanges, ServiceDeletes, uploader
<1>2. CASE ServiceChanges
  <2>1. /\ svc'.epoch = svc.epoch /\ svc'.held = svc.held /\ svc'.kept = svc.kept
        /\ (svc'.states = svc.states /\ svc'.told = svc.told) \/ svc'.told = FALSE
    BY <1>0, <1>2 DEF ServiceChanges, Services
  <2>2. PinInv' /\ CopyInv' /\ ToldInv' /\ PurgeInv'
    BY <1>1, <2>1 DEF RecordInv, PinInv, CopyInv, ToldInv, PurgeInv, Answered
  <2>3. EpochInv' /\ HeldInv'
    BY <1>1, <2>1 DEF RecordInv, EpochInv, HeldInv, Answered
  <2> QED
    BY <2>2, <2>3 DEF RecordInv
<1>3. CASE ServiceDeletes
  <2>0. PICK a \in svc.held :
          svc' = [svc EXCEPT !.held = svc.held \ {a}, !.epoch = IF svc.states THEN svc.epoch + 1 ELSE svc.epoch,
                             !.kept = IF svc.kept = "full" THEN "deleted" ELSE svc.kept]
    BY <1>3 DEF ServiceDeletes
  <2>1. /\ svc'.states = svc.states /\ svc'.told = svc.told /\ (svc.kept = "none" => svc'.kept = "none")
        /\ svc'.epoch = IF svc.states THEN svc.epoch + 1 ELSE svc.epoch
    BY <1>0, <2>0 DEF Services
  <2>2. svc.epoch \in Nat /\ svc'.epoch \in Nat /\ svc'.epoch >= svc.epoch
    BY <1>0, <2>1 DEF Services
  <2>3. PinInv' /\ CopyInv' /\ ToldInv' /\ PurgeInv'
    BY <1>1, <2>1 DEF RecordInv, PinInv, CopyInv, ToldInv, PurgeInv, Answered
  <2>4. EpochInv'
    BY <1>0, <1>1, <2>2 DEF RecordInv, EpochInv, Answered, SentRecords, Holders, Flushes
  \* Either the epoch goes on, or nothing is remembered or on its way.
  <2>5. HeldInv'
    <3>1. CASE svc.states
      <4>1. svc'.epoch = svc.epoch + 1
        BY <2>1, <3>1
      <4>2. ASSUME NEW s \in {sent.mem, sent.disk} PROVE s.holder[3] # svc'.epoch
        BY <1>0, <2>2, <4>1 DEF RecordInv, EpochInv, SentRecords, Holders
      <4>3. Answered => flush.epoch # svc'.epoch
        BY <1>0, <2>2, <4>1 DEF RecordInv, EpochInv, Flushes
      <4> QED
        BY <1>1, <4>2, <4>3 DEF HeldInv, Answered
    <3>2. CASE ~svc.states
      <4>1. svc.told
        BY <1>3, <3>2 DEF ServiceDeletes
      <4>2. ~sent.mem.has /\ ~sent.disk.has /\ (Answered => ~flush.refs)
        BY <3>2, <4>1 DEF RecordInv, ToldInv
      <4> QED
        BY <1>1, <4>2 DEF HeldInv, Answered
    <3> QED
      BY <3>1, <3>2
  <2> QED
    BY <2>3, <2>4, <2>5 DEF RecordInv
<1> QED
  BY <1>2, <1>3

\* Every step keeps the record true, with no deletion beside a batch.
LEMMA Next_Record == ASSUME ~PurgeOverlaps, Shape, RecordInv, [Next]_vars PROVE RecordInv'
<1>0. cmd \in Commands(cmd) /\ svc \in Services
  BY DEF Shape
<1>1. ASSUME NEW kind \in {"login", "enable", "logout", "purge"}, Start(kind) PROVE RecordInv'
  <2>1. UNCHANGED <<sent, svc, epoch, flush, pending>> /\ cmd'.kind = kind
    BY <1>1 DEF Start, uploader, NoCmd
  <2>2. CASE kind # "purge"
    BY <2>1, <2>2, Record_Frame
  <2>3. CASE kind = "purge"
    <3>1. flush.at = "idle" /\ cmd'.at = "forget"
      BY <1>1, <2>3 DEF Start, NoCmd
    <3>2. PinInv' /\ CopyInv' /\ ToldInv' /\ PurgeInv'
      BY <2>1, <3>1 DEF RecordInv, PinInv, CopyInv, ToldInv, PurgeInv, Answered
    <3>3. EpochInv' /\ HeldInv'
      BY <2>1 DEF RecordInv, EpochInv, HeldInv, Answered
    <3> QED
      BY <3>2, <3>3 DEF RecordInv
  <2> QED
    BY <2>2, <2>3
\* The steps that change none of it.
<1>2. CASE Approve \/ Revoke \/ ServiceTurns
  <2>1. /\ svc'.epoch = svc.epoch /\ svc'.states = svc.states /\ svc'.told = svc.told
        /\ svc'.held = svc.held /\ svc'.kept = svc.kept
    BY <1>0, <1>2 DEF Approve, Revoke, ServiceTurns, Services
  <2>2. UNCHANGED <<sent, epoch, flush, pending>>
    BY <1>2 DEF Approve, Revoke, ServiceTurns, uploader
  <2>3. cmd'.kind = "purge" => cmd' = cmd
    BY <1>0, <1>2 DEF Approve, Revoke, ServiceTurns, Commands, InCmd, To, Pairing
  <2> QED
    BY <2>1, <2>2, <2>3, Record_Frame
<1>3. CASE \/ StoreToken \/ ResumeSignedIn \/ InstallHint \/ ConfirmAgreement
           \/ (\E s \in {"account", "credential"} : ReadStanding(s) \/ ClearStanding(s))
           \/ PauseSignedOut \/ ClearToken \/ Abandon
  <2>1. UNCHANGED <<svc, sent, epoch, flush, pending>>
    BY <1>3 DEF StoreToken, ResumeSignedIn, InstallHint, ConfirmAgreement, ReadStanding, ClearStanding,
                PauseSignedOut, ClearToken, Abandon, uploader, outside
  <2>2. cmd'.kind = "purge" => cmd' = cmd
    <3>1. CASE Abandon
      BY <3>1 DEF Abandon, CmdEnds, NoCmd
    <3>2. CASE ~Abandon
      <4>1. cmd.kind \in {"login", "enable", "logout"}
        BY <1>3, <3>2 DEF StoreToken, ResumeSignedIn, InstallHint, ConfirmAgreement, ReadStanding,
                          ClearStanding, PauseSignedOut, PauseFirst, ClearToken, InCmd, Pairing
      <4>2. cmd' = NoCmd \/ cmd'.kind = cmd.kind
        BY <1>0, <1>3, <3>2 DEF StoreToken, ResumeSignedIn, InstallHint, ConfirmAgreement, ReadStanding,
                                ClearStanding, PauseSignedOut, PauseFirst, ClearToken, To, CmdEnds, Commands
      <4> QED
        BY <4>1, <4>2 DEF NoCmd
    <3> QED
      BY <3>1, <3>2
  <2> QED
    BY <2>1, <2>2, Record_Frame
<1>4. CASE PauseIfAgreementStale \/ TermsChange \/ KeyringTurns \/ OmitTurns \/ Tick
  BY <1>4, Record_Frame DEF PauseIfAgreementStale, TermsChange, KeyringTurns, OmitTurns, Tick, uploader,
                            outside
<1>5. CASE UNCHANGED vars
  BY <1>5, Record_Frame DEF vars, uploader, outside
<1> QED
  BY <1>1, <1>2, <1>3, <1>4, <1>5, Starts_Record, Build_Record, Offer_Record, Settle_Record,
     Note_Record, Restart_Record, Forget_Record, Delete_Record, Service_Record
     DEF Next, FlushSteps, CmdSteps, Around

-----------------------------------------------------------------------------
\* The inductive invariant holds at the start.
LEMMA Init_AccountInv == Init => AccountInv
<1>1. Init => GateInv
  BY DEF Init, GateInv, FreshMem
<1> QED
  BY <1>1, Init_Shape, Init_Quiet DEF AccountInv

\* Every step keeps the inductive invariant.
LEMMA Next_AccountInv == AccountInv /\ [Next]_vars => AccountInv'
  BY Next_Shape, Next_Quiet, Next_Gate DEF AccountInv

\* The state keeps its shape, a sign-out what it promises, and a gate the
\* token it is about.
THEOREM AccountInvariance == Spec => []AccountInv
  BY Init_AccountInv, Next_AccountInv, PTL DEF Spec

\* Once a sign-out has removed the token no project records, whatever other
\* pauses come and go and wherever commands die, until a pairing.
THEOREM SignOutStops == Spec => []SignedOutPaused
<1>1. AccountInv => SignedOutPaused
  BY DEF AccountInv, QuietInv, SignedOutPaused, Silent
<1> QED
  BY <1>1, AccountInvariance, PTL

\* A token is held back by who asks only when the service refused that token.
THEOREM GateIsEarned == Spec => []NoStaleGate
<1>1. AccountInv => NoStaleGate
  BY DEF AccountInv, GateInv, NoStaleGate
<1> QED
  BY <1>1, AccountInvariance, PTL

\* A payload the next batch would refer to is held by the service, through
\* renewed epochs, restarts, retries and deletions, as long as no batch was
\* gathered before a deletion that is asked for.
THEOREM RecordHolds == ASSUME ~PurgeOverlaps PROVE Spec => []RecordTrue
<1>1. Init => Shape /\ RecordInv
  BY Init_Shape, Init_Record
<1>2. Shape /\ RecordInv /\ [Next]_vars => (Shape /\ RecordInv)'
  BY Next_Shape, Next_Record
<1>3. Shape /\ RecordInv => RecordTrue
  <2> SUFFICES ASSUME Shape, RecordInv, NEW s \in {sent.mem, sent.disk}, s.has,
                      s.holder = Holder(Load(store), disk.epoch), disk.epoch = Stated
               PROVE  AccountOf[Load(store)] \in svc.held
    BY DEF RecordTrue
  <2>1. s.holder[1] = Load(store) /\ s.holder[2] = epoch /\ s.holder[3] = Stated
    BY DEF Holder
  <2>2. s.holder[3] > 0
    BY DEF RecordInv, EpochInv
  <2>3. Stated = svc.epoch
    BY <2>1, <2>2 DEF Stated
  <2> QED
    BY <2>1, <2>3 DEF RecordInv, HeldInv
<1> QED
  BY <1>1, <1>2, <1>3, PTL DEF Spec
=============================================================================
