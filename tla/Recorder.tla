------------------------------ MODULE Recorder ------------------------------
(***************************************************************************)
(* The recording side of the capture proxy, and the end of a proxy's life:  *)
(* exchanges are decided by the routing table when they arrive, captured    *)
(* while they are forwarded, queued when they end, decided once more and    *)
(* written by one writer; a proxy that exits gives its port up, lets its    *)
(* exchanges end, closes the queue and writes the account of what it gave   *)
(* up, while another proxy may serve, commands change the table and         *)
(* uninstall deletes the data.                                             *)
(***************************************************************************)
EXTENDS Routing, Sequences

CONSTANTS
  Exchanges,
  QueueDepth,  \* captures that may wait for the writer
  MaxEdits,    \* bound: changes of the table or of its file
  None

ASSUME RecorderConstants ==
  /\ IsFiniteSet(Proxies) /\ IsFiniteSet(Exchanges)
  /\ QueueDepth \in Nat \ {0} /\ MaxEdits \in Nat
  /\ None \notin Proxies \cup Upstreams \cup Tokens \cup Exchanges

VARIABLES
  proxy,    \* each proxy's stage, and whether it still creates the spool
  asking,   \* the lookup under way in each proxy
  ex,       \* the exchanges
  queue,    \* the captures that wait for each proxy's writer
  account,  \* what each proxy has given up and not yet put on disk
  disk,     \* the spool directory, its records, the account's file
  removal,  \* how far uninstall is
  edits,    \* bound
  history

vars == <<routing, proxy, asking, ex, queue, account, disk, removal, edits, history>>

Stages == {"down", "serving", "settled", "released", "closed", "stopping",
           "flushing", "exited"}
Listening(p) == proxy[p].stage \in {"serving", "settled"}
Alive(p)     == proxy[p].stage \notin {"down", "exited"}

Places == {"none", "arrived", "deciding", "open", "queued", "taken", "rechecking", "writing", "ended"}
Fates  == {"none", "stored", "counted"}
NoExchange == [at |-> "none", by |-> None, tok |-> None, fate |-> "none"]
NoAccount  == [unwritten |-> 0, delta |-> 0, busy |-> FALSE, wake |-> FALSE]
NoAsk      == [who |-> None, reads |-> FALSE]

\* standing: the token could be recorded at some moment since the last
\* question about it was due.  decided: it could when it was decided.
\* carried: tokens a proxy has sent where they were granted to.
\* stray: such tokens, of which an exchange went to the default upstream.
\* dropped: tokens a rewrite left out, that found no file where one had been.
\* accepted: captures that reached a queue and have not ended.
\* lapsed: proxies that did not wait for their queue to the end.
\* skipped: a capture another proxy's queue took was left unwritten.
\* late: captures given up after the account was stopped.
\* refused: proxies whose last write of the account failed.
\* lost: counts that died with their proxy.  short: and should not have.
\* unstopped: uninstall went on although no proxy could be stopped.
NoHistory ==
  [standing |-> [x \in Exchanges |-> FALSE], decided |-> [x \in Exchanges |-> FALSE],
   carried |-> [p \in Proxies |-> {}], stray |-> {}, dropped |-> {}, accepted |-> {},
   lapsed |-> {}, skipped |-> FALSE, late |-> [p \in Proxies |-> 0], refused |-> {},
   lost |-> 0, short |-> FALSE, unstopped |-> FALSE]

\* One project is enabled behind a relay; recording may be paused already, or
\* the table's file gone.
Before ==
  /\ \E t \in Tokens, u \in Upstreams \ {Default} : LET granted == Granted(EmptyTable, t, u) IN
       \/ table = granted /\ file \in {"there", "missing"}
       \/ table = Paused(granted, "signed_out") /\ file = "there"
  /\ view = [p \in Proxies |-> EmptyView]

Init ==
  /\ Before
  /\ proxy = [p \in Proxies |-> [stage |-> "down", careful |-> FALSE]]
  /\ asking = [p \in Proxies |-> NoAsk]
  /\ ex = [x \in Exchanges |-> NoExchange]
  /\ queue = [p \in Proxies |-> <<>>]
  /\ account = [p \in Proxies |-> NoAccount]
  /\ disk = [dir |-> FALSE, records |-> {}, counted |-> 0]
  /\ removal = "none" /\ edits = 0
  /\ history = NoHistory

TypeOK ==
  /\ RoutingTypeOK
  /\ proxy \in [Proxies -> [stage : Stages, careful : BOOLEAN]]
  /\ asking \in [Proxies -> [who : Exchanges \cup {None}, reads : BOOLEAN]]
  /\ ex \in [Exchanges -> [at : Places, by : Proxies \cup {None}, tok : Tokens \cup {None}, fate : Fates]]
  /\ \A p \in Proxies :
       /\ Len(queue[p]) <= QueueDepth
       /\ \A i \in DOMAIN queue[p] : ex[queue[p][i]].at = "queued" /\ ex[queue[p][i]].by = p
       /\ {account[p].unwritten, account[p].delta, history.late[p]} \subseteq 0..Cardinality(Exchanges)
       /\ {account[p].busy, account[p].wake} \subseteq BOOLEAN
       /\ asking[p].who # None => ex[asking[p].who].at \in {"deciding", "rechecking"}
  /\ disk.dir \in BOOLEAN /\ disk.records \subseteq Exchanges /\ disk.counted \in Nat
  /\ removal \in {"none", "waiting", "deleted"} /\ edits \in 0..MaxEdits

-----------------------------------------------------------------------------
(* Commands that change the table, and the file broken by hand. *)

Placed(tab) == {t \in Tokens : tab.entry[t].state # "none"}

\* What is due an answer now may find the token standing.
Edited(recordable(_)) ==
  /\ edits < MaxEdits /\ removal = "none" /\ edits' = edits + 1
  /\ history' = [history EXCEPT
       !.standing = [x \in Exchanges |-> @[x] \/ (ex[x].tok # None /\ recordable(ex[x].tok))],
       !.dropped = @ \cup (Placed(table) \ Placed(table'))]
  /\ UNCHANGED <<proxy, asking, ex, queue, account, disk, removal>>

RecordedBy(tab, t) == tab.entry[t].state = "standing" /\ tab.pause = "none"

\* The store writes whether or not anything changed.
Change(tab) ==
  /\ Update(tab)
  /\ Edited(LAMBDA t : RecordedBy(tab, t))

Grant(tok, up)   == AsRead.entry[tok].state = "none" /\ Change(Granted(AsRead, tok, up))
Revoke(root)     == Change(Revoked(AsRead, root))
Move(root, up)   == Change(Moved(AsRead, root, up))
Pause(reason)    == Change(Paused(AsRead, reason))
Resume(reason)   == Change(Resumed(AsRead, reason))

\* The file is moved away, or made unreadable, and put back.
Break ==
  /\ file = "there" /\ file' \in {"missing", "unreadable"} /\ UNCHANGED table
  /\ view' = [p \in Proxies |-> [view[p] EXCEPT !.current = FALSE]]
  /\ Edited(LAMBDA t : FALSE)
Mend ==
  /\ file # "there" /\ table # EmptyTable /\ file' = "there" /\ UNCHANGED table
  /\ view' = [p \in Proxies |-> [view[p] EXCEPT !.current = FALSE]]
  /\ Edited(LAMBDA t : RecordedBy(table, t))

-----------------------------------------------------------------------------
(* The lookup: one at a time in each proxy, in two steps. *)

Ended(fate) == [NoExchange EXCEPT !.at = "ended", !.fate = fate]

\* What is kept about a capture that has ended: nothing.
Forget(x) ==
  [history EXCEPT !.standing[x] = FALSE, !.decided[x] = FALSE, !.accepted = @ \ {x}]

Arrive(x, p, tok) ==
  /\ ex[x].at = "none" /\ Listening(p)
  /\ ex' = [ex EXCEPT ![x] = [NoExchange EXCEPT !.at = "arrived", !.by = p, !.tok = tok]]
  /\ history' = [history EXCEPT !.standing[x] = Records(tok)]
  /\ UNCHANGED <<routing, proxy, asking, queue, account, disk, removal, edits>>

Ask(x) ==
  LET p == ex[x].by IN
  /\ ex[x].at \in {"arrived", "taken"} /\ asking[p] = NoAsk
  /\ Look(p)
  /\ asking' = [asking EXCEPT ![p] = [who |-> x, reads |-> MustRead(p)]]
  /\ ex' = [ex EXCEPT ![x].at = IF @ = "arrived" THEN "deciding" ELSE "rechecking"]
  /\ UNCHANGED <<table, file, proxy, queue, account, disk, removal, edits, history>>

Answer(p) == IF asking[p].reads THEN ReadFile(p) ELSE UNCHANGED view

\* Where an exchange goes, and whether it is captured.  A token that names
\* a project is never sent anywhere else.
Decide(x) ==
  LET p == ex[x].by  tok == ex[x].tok IN
  /\ ex[x].at = "deciding" /\ asking[p].who = x
  /\ Answer(p)
  /\ asking' = [asking EXCEPT ![p] = NoAsk]
  /\ LET verdict == Verdict(view'[p], tok)
         up      == IF Resolves(verdict) THEN view'[p].entry[tok].up ELSE Default
         sent    == Forwards(verdict) /\ up \notin Unusable
         rec     == sent /\ verdict = "record"
     IN /\ ex' = [ex EXCEPT ![x] = IF rec THEN [@ EXCEPT !.at = "open"] ELSE Ended("none")]
        /\ history' = [history EXCEPT
             !.standing[x] = @ /\ rec, !.decided[x] = history.standing[x] /\ rec,
             !.carried[p] = IF sent /\ up # Default THEN @ \cup {tok} ELSE @,
             !.stray = IF sent /\ ~Resolves(verdict) THEN @ \cup ({tok} \cap history.carried[p]) ELSE @]
  /\ UNCHANGED <<table, file, proxy, queue, account, disk, removal, edits>>

-----------------------------------------------------------------------------
(* The capture. *)

\* A capture that leaves nothing behind: an error response, consent gone,
\* the spool gone.
Drop(x) ==
  /\ ex' = [ex EXCEPT ![x] = Ended("none")]
  /\ history' = Forget(x)
  /\ UNCHANGED account

\* A capture given up for a reason of its own is counted, once.
Abandon(x) ==
  LET p == ex[x].by IN
  /\ ex' = [ex EXCEPT ![x] = Ended("counted")]
  /\ account' = [account EXCEPT ![p].unwritten = @ + 1, ![p].wake = TRUE]
  /\ history' = [Forget(x) EXCEPT !.late[p] = IF proxy[p].stage = "flushing" THEN @ + 1 ELSE @]

\* An error response is never stored.
ErrorResponse(x) ==
  /\ ex[x].at = "open" /\ Drop(x)
  /\ UNCHANGED <<routing, proxy, asking, queue, disk, removal, edits>>

\* More bytes than a capture may hold, or a panic.
OverLimit(x) ==
  /\ ex[x].at = "open" /\ Abandon(x)
  /\ UNCHANGED <<routing, proxy, asking, queue, disk, removal, edits>>

QueueClosed(p) == proxy[p].stage \in {"closed", "stopping", "flushing"}

\* The client is done.  A queue that is full or closed takes nothing.
Finish(x) ==
  LET p == ex[x].by IN
  /\ ex[x].at = "open"
  /\ IF QueueClosed(p) \/ Len(queue[p]) = QueueDepth
     THEN Abandon(x) /\ UNCHANGED queue
     ELSE /\ ex' = [ex EXCEPT ![x].at = "queued"]
          /\ queue' = [queue EXCEPT ![p] = Append(@, x)]
          /\ history' = [history EXCEPT !.accepted = @ \cup {x}]
          /\ UNCHANGED account
  /\ UNCHANGED <<routing, proxy, asking, disk, removal, edits>>

Writing(p) == \E x \in Exchanges : ex[x].by = p /\ ex[x].at \in {"taken", "rechecking", "writing"}

\* The one writer takes the next capture; its deadline starts.
Take(p) ==
  /\ Alive(p) /\ queue[p] # <<>> /\ ~Writing(p)
  /\ LET x == Head(queue[p]) IN
       /\ ex' = [ex EXCEPT ![x].at = "taken"]
       /\ history' = [history EXCEPT !.standing[x] = Records(ex[x].tok)]
  /\ queue' = [queue EXCEPT ![p] = Tail(@)]
  /\ UNCHANGED <<routing, proxy, asking, account, disk, removal, edits>>

\* It waited past its deadline.
Expire(x) ==
  /\ ex[x].at = "taken" /\ Abandon(x)
  /\ UNCHANGED <<routing, proxy, asking, queue, disk, removal, edits>>

\* Consent is asked again before the write.
Recheck(x) ==
  LET p == ex[x].by IN
  /\ ex[x].at = "rechecking" /\ asking[p].who = x
  /\ Answer(p)
  /\ asking' = [asking EXCEPT ![p] = NoAsk]
  /\ IF Verdict(view'[p], ex[x].tok) = "record"
     THEN ex' = [ex EXCEPT ![x].at = "writing"] /\ UNCHANGED <<account, history>>
     ELSE Drop(x)
  /\ UNCHANGED <<table, file, proxy, queue, disk, removal, edits>>

\* A proxy on its way out writes into a spool that is there, or not at all.
Write(x) ==
  /\ ex[x].at = "writing"
  /\ IF proxy[ex[x].by].careful /\ ~disk.dir
     THEN Drop(x) /\ UNCHANGED disk
     ELSE /\ ex' = [ex EXCEPT ![x] = Ended("stored")]
          /\ disk' = [disk EXCEPT !.dir = TRUE, !.records = @ \cup {x}]
          /\ history' = [history EXCEPT !.accepted = @ \ {x}]
          /\ UNCHANGED account
  /\ UNCHANGED <<routing, proxy, asking, queue, removal, edits>>

\* The quota is full, the disk fails, or the record cannot be put together.
WriteFails(x) ==
  /\ ex[x].at = "writing" /\ Abandon(x)
  /\ UNCHANGED <<routing, proxy, asking, queue, disk, removal, edits>>

-----------------------------------------------------------------------------
(* The account of what was given up. *)

\* The writer takes what is unwritten each time it is woken.
TakeCounts(p) ==
  /\ ~account[p].busy /\ account[p].wake
  /\ Alive(p) /\ proxy[p].stage # "flushing"
  /\ account' = [account EXCEPT ![p] = [unwritten |-> 0, delta |-> @.unwritten,
                                          busy |-> TRUE, wake |-> FALSE]]
  /\ UNCHANGED <<routing, proxy, asking, ex, queue, disk, removal, edits, history>>

\* Mutant of PutCounts: a failed write puts back what it took over what was
\* counted since.
PutCounts_Overwrites(p) ==
  /\ account[p].busy
  /\ \/ /\ disk' = [disk EXCEPT !.counted = @ + account[p].delta]
        /\ account' = [account EXCEPT ![p].delta = 0, ![p].busy = FALSE]
        /\ history' = [history EXCEPT !.refused = @ \ {p}]
     \/ /\ account' = [account EXCEPT ![p].unwritten = account[p].delta,
                                       ![p].delta = 0, ![p].busy = FALSE]
        /\ history' = [history EXCEPT !.refused = @ \cup {p}]
        /\ UNCHANGED disk
  /\ UNCHANGED <<routing, proxy, asking, ex, queue, removal, edits>>

\* What is taken is added to what the file holds; a failed write keeps it.
PutCounts(p) ==
  /\ account[p].busy
  /\ \/ /\ disk' = [disk EXCEPT !.counted = @ + account[p].delta]
        /\ account' = [account EXCEPT ![p].delta = 0, ![p].busy = FALSE]
        /\ history' = [history EXCEPT !.refused = @ \ {p}]
     \/ /\ account' = [account EXCEPT ![p].unwritten = @ + account[p].delta,
                                       ![p].delta = 0, ![p].busy = FALSE]
        /\ history' = [history EXCEPT !.refused = @ \cup {p}]
        /\ UNCHANGED disk
  /\ UNCHANGED <<routing, proxy, asking, ex, queue, removal, edits>>

-----------------------------------------------------------------------------
(* A proxy's life. *)

Stage(p, from, to) == proxy[p].stage = from /\ proxy' = [proxy EXCEPT ![p].stage = to]

\* The port is the lock: one proxy listens.  Opening the spool creates it.
\* Uninstall takes the hooks that start proxies out before it stops one.
Start(p) ==
  /\ Stage(p, "down", "serving") /\ removal = "none"
  /\ \A q \in Proxies : ~Listening(q)
  /\ disk' = [disk EXCEPT !.dir = TRUE]
  /\ UNCHANGED <<routing, asking, ex, queue, account, removal, edits, history>>

\* A drain request, a signal, or silence.
Settle(p) ==
  /\ Stage(p, "serving", "settled")
  /\ UNCHANGED <<routing, asking, ex, queue, account, disk, removal, edits, history>>

\* From here the spool creates its directory no more.
StopCreating(p) ==
  /\ proxy[p].stage = "settled" /\ ~proxy[p].careful
  /\ proxy' = [proxy EXCEPT ![p].careful = TRUE]
  /\ UNCHANGED <<routing, asking, ex, queue, account, disk, removal, edits, history>>

\* Mutant of ReleasePort: the spool may not have been told yet.
ReleasePort_Careless(p) ==
  /\ Stage(p, "settled", "released")
  /\ UNCHANGED <<routing, asking, ex, queue, account, disk, removal, edits, history>>

ReleasePort(p) ==
  /\ Stage(p, "settled", "released") /\ proxy[p].careful
  /\ UNCHANGED <<routing, asking, ex, queue, account, disk, removal, edits, history>>

\* Every exchange has ended, or the budget for them is spent and their
\* connections are cut: those end later.
CloseQueue(p) ==
  /\ Stage(p, "released", "closed")
  /\ UNCHANGED <<routing, asking, ex, queue, account, disk, removal, edits, history>>

\* What was queued is written, or the wait for it runs out.
Drained(p) ==
  /\ Stage(p, "closed", "stopping")
  /\ history' = [history EXCEPT !.lapsed = IF queue[p] = <<>> /\ ~Writing(p) THEN @ ELSE @ \cup {p}]
  /\ UNCHANGED <<routing, asking, ex, queue, account, disk, removal, edits>>

\* Mutant of StopAccount: nothing is written on the way out.
StopAccount_NoWrite(p) ==
  /\ Stage(p, "stopping", "flushing") /\ ~account[p].busy
  /\ UNCHANGED <<routing, asking, ex, queue, account, disk, removal, edits, history>>

\* The account is stopped: what is left of it is written a last time.
StopAccount(p) ==
  /\ Stage(p, "stopping", "flushing") /\ ~account[p].busy
  /\ account' = [account EXCEPT ![p] = [unwritten |-> 0, delta |-> @.unwritten,
                                          busy |-> TRUE, wake |-> FALSE]]
  /\ UNCHANGED <<routing, asking, ex, queue, disk, removal, edits, history>>

\* What had not ended ends with the process.
Exit(p) ==
  /\ Stage(p, "flushing", "exited") /\ ~account[p].busy
  /\ LET cut == {x \in Exchanges : ex[x].by = p} IN
       /\ ex' = [x \in Exchanges |-> IF x \in cut THEN Ended("none") ELSE ex[x]]
       /\ history' = [history EXCEPT
            !.standing = [x \in Exchanges |-> @[x] /\ x \notin cut],
            !.decided = [x \in Exchanges |-> @[x] /\ x \notin cut],
            !.carried[p] = {}, !.accepted = @ \ cut, !.lapsed = @ \ {p},
            !.skipped = @ \/ (cut \cap history.accepted # {} /\ p \notin history.lapsed),
            !.late[p] = 0, !.refused = @ \ {p}, !.lost = @ + account[p].unwritten,
            !.short = @ \/ (p \notin history.refused /\ account[p].unwritten # history.late[p])]
  /\ queue' = [queue EXCEPT ![p] = <<>>] /\ asking' = [asking EXCEPT ![p] = NoAsk]
  /\ account' = [account EXCEPT ![p] = NoAccount]
  /\ view' = [view EXCEPT ![p] = EmptyView]
  /\ UNCHANGED <<table, file, disk, removal, edits>>

-----------------------------------------------------------------------------
(* Uninstall: the hooks are out, the proxy is stopped, the data is deleted. *)

Uninstall ==
  /\ removal = "none" /\ removal' = "waiting"
  /\ UNCHANGED <<routing, proxy, asking, ex, queue, account, disk, edits, history>>

\* Nothing listens any more, or the wait for that fails, which is said; the
\* directories go either way.
DeleteData ==
  /\ removal = "waiting" /\ removal' = "deleted"
  /\ disk' = [disk EXCEPT !.dir = FALSE, !.records = {}]
  /\ history' = [history EXCEPT !.unstopped = \E p \in Proxies : Listening(p)]
  /\ UNCHANGED <<routing, proxy, asking, ex, queue, account, edits>>

-----------------------------------------------------------------------------
Commands ==
  \/ \E t \in Tokens, u \in Upstreams : Grant(t, u)
  \/ \E r \in Roots : Revoke(r)
  \/ \E r \in Roots, u \in Upstreams : Move(r, u)
  \/ \E reason \in {"signed_out"} : Pause(reason) \/ Resume(reason)
  \/ Break \/ Mend

Capture(x) ==
  \/ \E p \in Proxies, t \in Tokens : Arrive(x, p, t)
  \/ Ask(x) \/ Decide(x) \/ ErrorResponse(x) \/ OverLimit(x) \/ Finish(x)
  \/ Expire(x) \/ Recheck(x) \/ Write(x) \/ WriteFails(x)

Life(p) ==
  \/ Start(p) \/ Settle(p) \/ StopCreating(p) \/ ReleasePort(p) \/ CloseQueue(p)
  \/ Drained(p) \/ StopAccount(p) \/ Exit(p)
  \/ Take(p) \/ TakeCounts(p) \/ PutCounts(p)

Next ==
  \/ Commands \/ Uninstall \/ DeleteData
  \/ \E x \in Exchanges : Capture(x)
  \/ \E p \in Proxies : Life(p)

Spec == Init /\ [][Next]_vars

-----------------------------------------------------------------------------
(* Properties. *)

\* What is stored was recorded under a token that stood, with recording on,
\* at some moment of the question asked when the exchange began and at some
\* moment of the one asked before it was written (recorder.write, Table).
StoredUnderConsent ==
  \A x \in Exchanges : ex[x].fate = "stored" => history.decided[x] /\ history.standing[x]

\* An exchange of a token that a proxy has been sending to the upstream of
\* its grant is never sent to the default one by that proxy, whatever
\* becomes of the table's file, unless a command found the file gone and
\* wrote another without the token (Table.Lookup, Store.update).
NeverAstray == history.stray \subseteq history.dropped

\* A capture that reached the queue is stored, dropped for want of consent, or
\* given up, unless the proxy gave up waiting for it; and every one given up
\* is counted once, on disk or in the memory of the proxy that gave it up
\* (closeRecordQueue, Dropped.write).
InMemory == UNION {{p} \X (1..(account[p].unwritten + account[p].delta)) : p \in Proxies}
GivenUp  == {x \in Exchanges : ex[x].fate = "counted"}
CountedOnce ==
  /\ ~history.skipped
  /\ disk.counted + history.lost + Cardinality(InMemory) = Cardinality(GivenUp)

\* A proxy that exits leaves no count unwritten that was made before its
\* account was stopped, unless the last write failed (Dropped.start).
WrittenAtExit == ~history.short

\* Data deleted by an uninstall that stopped the proxy stays deleted,
\* whatever the proxy still has to write (StopCreatingDir).
DeletedStaysDeleted ==
  removal = "deleted" /\ ~history.unstopped => ~disk.dir /\ disk.records = {}
=============================================================================
