--------------------------- MODULE RecorderProofs ---------------------------
(***************************************************************************)
(* Theorems about Recorder, for any proxies, tokens, exchanges and depth of *)
(* the queue, and any number of changes of the table.                       *)
(***************************************************************************)
EXTENDS Recorder, FiniteSetTheorems, TLAPS

Questioned == {"deciding", "rechecking"}
Captured   == {"open", "queued", "taken", "rechecking", "writing"}
Accepted   == {"queued", "taken", "rechecking", "writing"}

\* What each proxy keeps of the table, and what is asked of it.
Views ==
  [entry : [Tokens -> Entries], pause : Reasons \cup {"none"},
   read : BOOLEAN, err : BOOLEAN, current : BOOLEAN]

Lives     == [stage : Stages, careful : BOOLEAN]
Asks      == [who : Exchanges \cup {None}, reads : BOOLEAN]
Courses   == [at : Places, by : Proxies \cup {None}, tok : Tokens \cup {None}, fate : Fates]
Accounts  == [unwritten : Nat, delta : Nat, busy : BOOLEAN, wake : BOOLEAN]
Disks     == [dir : BOOLEAN, records : SUBSET Exchanges, counted : Nat]
Histories == [standing : [Exchanges -> BOOLEAN], decided : [Exchanges -> BOOLEAN],
              carried : [Proxies -> SUBSET Tokens], stray : SUBSET Tokens,
              dropped : SUBSET Tokens, accepted : SUBSET Exchanges,
              lapsed : SUBSET Proxies, skipped : BOOLEAN, late : [Proxies -> Nat],
              refused : SUBSET Proxies, lost : Nat, short : BOOLEAN, unstopped : BOOLEAN]

Shape ==
  /\ table \in Tables /\ file \in {"there", "missing", "unreadable"}
  /\ view \in [Proxies -> Views]
  /\ proxy \in [Proxies -> Lives]
  /\ asking \in [Proxies -> Asks]
  /\ ex \in [Exchanges -> Courses]
  /\ account \in [Proxies -> Accounts]
  /\ disk \in Disks
  /\ removal \in {"none", "waiting", "deleted"}
  /\ history \in Histories

\* An exchange under way is one proxy's, for one token; one that is over, or
\* not yet begun, is nobody's.
ExchangeInv ==
  \A x \in Exchanges :
    /\ ex[x].at \in {"none", "ended"} => ex[x].by = None
    /\ ex[x].at \notin {"none", "ended"} =>
         /\ ex[x].by \in Proxies /\ ex[x].tok \in Tokens /\ ex[x].fate = "none"
         /\ Alive(ex[x].by)
    /\ ex[x].at = "none" => ex[x].fate = "none"

\* A lookup under way is of an exchange of this proxy that waits for it.
AskingInv ==
  \A p \in Proxies :
    /\ asking[p].who = None => ~asking[p].reads
    /\ asking[p].who # None => ex[asking[p].who].by = p /\ ex[asking[p].who].at \in Questioned

\* The queue of a proxy holds its queued captures, each once.
QueueInv ==
  /\ queue \in [Proxies -> Seq(Exchanges)]
  /\ \A p \in Proxies :
       /\ \A i \in DOMAIN queue[p] : ex[queue[p][i]].at = "queued" /\ ex[queue[p][i]].by = p
       /\ \A i, j \in DOMAIN queue[p] : queue[p][i] = queue[p][j] => i = j

\* What a proxy takes for the file's, between two lookups, is the file's.
ViewInv ==
  \A p \in Proxies :
    view[p].read /\ ~view[p].err /\ view[p].current /\ ~asking[p].reads =>
      file = "there" /\ view[p].entry = table.entry /\ view[p].pause = table.pause

\* While a question is due, a token that could be recorded now has been seen
\* to be, and so has one that a finished look at the file calls recordable.
StandingInv ==
  \A x \in Exchanges :
    /\ ex[x].at \in {"arrived", "taken"} \cup Questioned /\ Records(ex[x].tok) => history.standing[x]
    /\ \A p \in Proxies :
         asking[p].who = x /\ ~asking[p].reads /\ Verdict(view[p], ex[x].tok) = "record"
           => history.standing[x]

\* Both answers were yes before a capture is written.
ConsentInv ==
  \A x \in Exchanges :
    /\ ex[x].at \in Captured => history.decided[x]
    /\ ex[x].at = "writing" => history.standing[x]
    /\ ex[x].fate = "stored" => history.decided[x] /\ history.standing[x]

\* A token a proxy once knew, it knows still, and the table still places it,
\* unless a rewrite that found no file left it out.
PlacedInv ==
  /\ history.stray \subseteq history.dropped
  /\ \A p \in Proxies, t \in Tokens :
       /\ t \in history.carried[p] /\ view[p].entry[t].state = "none" => t \in history.dropped
       /\ view[p].entry[t].state # "none" /\ table.entry[t].state = "none" => t \in history.dropped

\* Once its account is stopped, what a proxy has not written is what came
\* late, or what the last write refused.
LastWriteInv ==
  /\ ~history.short
  /\ \A p \in Proxies :
       /\ proxy[p].stage # "flushing" => history.late[p] = 0
       /\ proxy[p].stage = "flushing" /\ (account[p].busy \/ p \notin history.refused)
            => account[p].unwritten = history.late[p]

\* A proxy that gave its port up creates the spool no more, and once the data
\* is deleted nobody holds the port.
DeletionInv ==
  /\ \A p \in Proxies :
       proxy[p].stage \notin {"down", "serving", "settled", "exited"} => proxy[p].careful
  /\ removal = "deleted" /\ ~history.unstopped =>
       /\ ~disk.dir /\ disk.records = {}
       /\ \A p \in Proxies : ~Listening(p)

\* A capture that waits for the writer is in its proxy's queue, and a proxy
\* that waited for its queue to the end left none.
AcceptedInv ==
  /\ ~history.skipped
  /\ \A x \in Exchanges :
       /\ ex[x].at = "queued" => \E i \in DOMAIN queue[ex[x].by] : queue[ex[x].by][i] = x
       /\ x \in history.accepted => ex[x].at \in Accepted
       /\ x \in history.accepted /\ proxy[ex[x].by].stage \in {"stopping", "flushing"}
            => ex[x].by \in history.lapsed

\* Nothing is taken to be written but by a write under way, and what is
\* counted in memory, on disk, or lost with a proxy, is what was given up.
CountInv ==
  /\ \A p \in Proxies : ~account[p].busy => account[p].delta = 0
  /\ disk.counted + history.lost + Cardinality(InMemory) = Cardinality(GivenUp)

RecorderInv ==
  /\ Shape /\ ExchangeInv /\ AskingInv /\ QueueInv
  /\ ViewInv /\ StandingInv /\ ConsentInv
  /\ PlacedInv /\ LastWriteInv /\ DeletionInv /\ AcceptedInv /\ CountInv

-----------------------------------------------------------------------------
(* Shapes.                                                                  *)

LEMMA InitShape == Init => Shape
<1> SUFFICES ASSUME Init PROVE Shape
  OBVIOUS
<1>1. table \in Tables /\ file \in {"there", "missing", "unreadable"}
  <2>1. PICK t \in Tokens, u \in Upstreams \ {Default} :
          table \in {Granted(EmptyTable, t, u), Paused(Granted(EmptyTable, t, u), "signed_out")}
    BY DEF Init, Before
  <2>2. EmptyTable \in Tables
    BY RoutingConstants DEF EmptyTable, NoEntry, Tables, Entries
  <2>3. Granted(EmptyTable, t, u) \in Tables
    BY <2>2, RoutingConstants DEF Granted, Retired, EmptyTable, NoEntry, Tables, Entries
  <2>4. Paused(Granted(EmptyTable, t, u), "signed_out") \in Tables
    BY <2>3 DEF Paused, Tables, Reasons
  <2> QED
    BY <2>1, <2>3, <2>4 DEF Init, Before
<1>2. view \in [Proxies -> Views]
  BY RoutingConstants DEF Init, Before, EmptyView, NoEntry, Views, Entries
<1>3. history \in Histories
  BY DEF Init, NoHistory, Histories
<1> QED
  BY <1>1, <1>2, <1>3 DEF Init, Shape, Lives, Stages, Asks, NoAsk, Courses, NoExchange, Places,
     Fates, Accounts, NoAccount, Disks

\* History without an exchange is a history.
LEMMA ForgetShape ==
  ASSUME Shape, NEW x \in Exchanges
  PROVE  Forget(x) \in Histories
<1>1. [history EXCEPT !.standing[x] = FALSE] \in Histories
  BY DEF Shape, Histories
<1>2. [history EXCEPT !.standing[x] = FALSE, !.decided[x] = FALSE] \in Histories
  BY <1>1 DEF Shape, Histories
<1> QED
  BY <1>2 DEF Forget, Histories

\* A proxy's stage changes and nothing else of any proxy.
LEMMA StageShape ==
  ASSUME Shape, NEW p \in Proxies, NEW from \in Stages, NEW to \in Stages, Stage(p, from, to)
  PROVE  /\ proxy' \in [Proxies -> Lives]
         /\ proxy[p].stage = from /\ proxy'[p] = [stage |-> to, careful |-> proxy[p].careful]
         /\ \A q \in Proxies \ {p} : proxy'[q] = proxy[q]
BY DEF Shape, Stage, Lives

\* A capture given up, or dropped, leaves an exchange that is over.
LEMMA DropShape ==
  ASSUME Shape, NEW x \in Exchanges, Drop(x)
  PROVE  ex' \in [Exchanges -> Courses] /\ history' \in Histories
BY ForgetShape DEF Shape, Drop, Ended, NoExchange, Courses, Places, Fates

\* Abandoning an exchange leaves exchanges, accounts and history in shape.
LEMMA AbandonShape ==
  ASSUME Shape, NEW x \in Exchanges, ex[x].by \in Proxies, Abandon(x)
  PROVE  /\ ex' \in [Exchanges -> Courses] /\ account' \in [Proxies -> Accounts]
         /\ history' \in Histories
<1>1. ex' \in [Exchanges -> Courses]
  BY DEF Shape, Abandon, Ended, NoExchange, Courses, Places, Fates
<1>2. account' \in [Proxies -> Accounts]
  <2> DEFINE p == ex[x].by
  <2>1. [account EXCEPT ![p].unwritten = @ + 1] \in [Proxies -> Accounts]
    BY DEF Shape, Accounts
  <2> QED
    BY <2>1 DEF Abandon, Accounts
<1>3. history' \in Histories
  <2>1. Forget(x) \in Histories
    BY ForgetShape
  <2>2. [Forget(x) EXCEPT !.late[ex[x].by] = @ + 1] \in Histories
    BY <2>1 DEF Histories
  <2>3. history' = Forget(x) \/ history' = [Forget(x) EXCEPT !.late[ex[x].by] = @ + 1]
    <3>1. CASE proxy[ex[x].by].stage = "flushing"
      BY <3>1 DEF Abandon
    <3>2. CASE proxy[ex[x].by].stage # "flushing"
      BY <2>1, <3>2 DEF Abandon, Histories
    <3> QED
      BY <3>1, <3>2
  <2> QED
    BY <2>1, <2>2, <2>3
<1> QED
  BY <1>1, <1>2, <1>3

\* A look at the table leaves a view.
LEMMA LookShape ==
  ASSUME Shape, NEW p \in Proxies, Look(p)
  PROVE  view' \in [Proxies -> Views]
<1>1. view[p] \in Views
  BY DEF Shape
<1>2. /\ [view[p] EXCEPT !.err = TRUE, !.current = FALSE] \in Views
      /\ [view[p] EXCEPT !.current = TRUE] \in Views
  BY <1>1 DEF Views
<1>3. \/ view' = [view EXCEPT ![p] = [view[p] EXCEPT !.err = TRUE, !.current = FALSE]]
      \/ view' = [view EXCEPT ![p] = [view[p] EXCEPT !.current = TRUE]]
  BY DEF Look, Shape
<1> QED
  BY <1>2, <1>3 DEF Shape

\* So does an answer from the table, and it changes one proxy's view.
LEMMA AnswerShape ==
  ASSUME Shape, NEW p \in Proxies, Answer(p)
  PROVE  /\ view' \in [Proxies -> Views]
         /\ \A q \in Proxies \ {p} : view'[q] = view[q]
<1>1. CASE view' = view
  BY <1>1 DEF Shape
<1>2. CASE view' = [view EXCEPT ![p].err = TRUE]
  BY <1>2 DEF Shape, Views
<1>3. CASE view' = [view EXCEPT ![p] = [entry |-> table.entry, pause |-> table.pause,
                                       read |-> TRUE, err |-> FALSE, current |-> @.current]]
  BY <1>3 DEF Shape, Views, Tables
<1> QED
  BY <1>1, <1>2, <1>3 DEF Answer, ReadFile

\* What a command makes of the table is a table, and so is what it read.
LEMMA CommandShape ==
  ASSUME Shape, Commands
  PROVE  Break \/ Mend \/ \E tab \in Tables : Change(tab)
<1>1. AsRead \in Tables
  BY RoutingConstants DEF Shape, AsRead, EmptyTable, NoEntry, Tables, Entries
<1>2. ASSUME NEW root \in Roots PROVE Retired(AsRead, root) \in Tables
  BY <1>1 DEF Retired, Tables, Entries
<1>3. ASSUME NEW t \in Tokens, NEW u \in Upstreams PROVE Granted(AsRead, t, u) \in Tables
  <2>1. RootOf[t] \in Roots
    BY RoutingConstants
  <2>2. Retired(AsRead, RootOf[t]) \in Tables
    BY <1>2, <2>1
  <2> QED
    BY <2>2 DEF Granted, Tables, Entries
<1>4. ASSUME NEW r \in Roots, NEW u \in Upstreams PROVE Moved(AsRead, r, u) \in Tables
  BY <1>1 DEF Moved, Tables, Entries
<1>5. Paused(AsRead, "signed_out") \in Tables /\ Resumed(AsRead, "signed_out") \in Tables
  BY <1>1 DEF Paused, Resumed, Tables, Reasons
<1>6. CASE \E t \in Tokens, u \in Upstreams : Grant(t, u)
  BY <1>3, <1>6 DEF Grant
<1>7. CASE \E r \in Roots : Revoke(r)
  BY <1>2, <1>7 DEF Revoke, Revoked
<1>8. CASE \E r \in Roots, u \in Upstreams : Move(r, u)
  BY <1>4, <1>8 DEF Move
<1>9. CASE Pause("signed_out") \/ Resume("signed_out")
  BY <1>5, <1>9 DEF Pause, Resume
<1> QED
  BY <1>6, <1>7, <1>8, <1>9 DEF Commands

\* A change of the file: what becomes of the proxies' copies and the history.
Rewritten ==
  /\ table' \in Tables /\ file' \in {"there", "missing", "unreadable"}
  /\ view' = [p \in Proxies |-> [view[p] EXCEPT !.current = FALSE]]
  /\ \A x \in Exchanges :
       /\ history.standing[x] => history'.standing[x]
       /\ ex[x].tok \in Tokens /\ Records(ex[x].tok)' => history'.standing[x]
  /\ history' = [history EXCEPT !.standing = history'.standing,
                             !.dropped = @ \cup (Placed(table) \ Placed(table'))]
  /\ history'.standing \in [Exchanges -> BOOLEAN]
  /\ removal = "none"
  /\ UNCHANGED <<proxy, asking, ex, queue, account, disk, removal>>

\* However the table's file changes, what was read of it is no longer current.
LEMMA EditEffect ==
  ASSUME Shape, Break \/ Mend \/ \E tab \in Tables : Change(tab)
  PROVE  Rewritten
<1>1. CASE Break
  BY <1>1, RecorderConstants DEF Shape, Break, Rewritten, Edited, Histories, Records
<1>2. CASE Mend
  BY <1>2, RecorderConstants DEF Shape, Mend, Rewritten, Edited, Histories, Records, RecordedBy
<1>3. ASSUME NEW tab \in Tables, Change(tab)
      PROVE  Rewritten
  BY <1>3, RecorderConstants DEF Shape, Change, Update, Rewritten, Edited, Histories, Records, RecordedBy
<1> QED
  BY <1>1, <1>2, <1>3

\* What a decision leaves in the history, field by field.
Verdicts == {"unreadable", "unknown", "never_read", "revoked", "paused", "record"}

\* What a lookup decides, and what history notes of it.
LEMMA DecideHistory ==
  ASSUME Shape, NEW x \in Exchanges, ex[x].by \in Proxies, ex[x].tok \in Tokens, Decide(x)
  PROVE  \E rec \in BOOLEAN, sent \in BOOLEAN, up \in Upstreams :
           LET p == ex[x].by  tok == ex[x].tok  verdict == Verdict(view'[p], tok) IN
           /\ history' \in Histories
           /\ rec => verdict = "record"
           /\ sent => Forwards(verdict)
           /\ up = Default \/ Resolves(verdict)
           /\ ex' = [ex EXCEPT ![x] = IF rec THEN [@ EXCEPT !.at = "open"] ELSE Ended("none")]
           /\ history'.standing = [history.standing EXCEPT ![x] = @ /\ rec]
           /\ history'.decided = [history.decided EXCEPT ![x] = history.standing[x] /\ rec]
           /\ history'.carried = [history.carried EXCEPT ![p] = IF sent /\ up # Default THEN @ \cup {tok} ELSE @]
           /\ history'.stray = IF sent /\ ~Resolves(verdict)
                              THEN history.stray \cup ({tok} \cap history.carried[p]) ELSE history.stray
           /\ \A f \in {"dropped", "accepted", "lapsed", "skipped", "late", "refused", "lost", "short", "unstopped"} :
                history'[f] = history[f]
<1> DEFINE p == ex[x].by
           tok == ex[x].tok
           verdict == Verdict(view'[p], tok)
           up == IF Resolves(verdict) THEN view'[p].entry[tok].up ELSE Default
           sent == Forwards(verdict) /\ up \notin Unusable
           rec == sent /\ verdict = "record"
<1>1. up \in Upstreams
  <2>1. view' \in [Proxies -> Views]
    BY AnswerShape DEF Decide
  <2> QED
    BY <2>1, RoutingConstants DEF Views, Entries
<1>2. sent \in BOOLEAN /\ rec \in BOOLEAN
  BY DEF Forwards
<1>3. /\ ex' = [ex EXCEPT ![x] = IF rec THEN [@ EXCEPT !.at = "open"] ELSE Ended("none")]
      /\ history' = [history EXCEPT
           !.standing[x] = @ /\ rec, !.decided[x] = history.standing[x] /\ rec,
           !.carried[p] = IF sent /\ up # Default THEN @ \cup {tok} ELSE @,
           !.stray = IF sent /\ ~Resolves(verdict) THEN @ \cup ({tok} \cap history.carried[p]) ELSE @]
  BY DEF Decide
<1>4. (rec => verdict = "record") /\ (sent => Forwards(verdict)) /\ (up = Default \/ Resolves(verdict))
  OBVIOUS
<1> HIDE DEF up, sent, rec, verdict
<1>5. /\ history'.standing = [history.standing EXCEPT ![x] = @ /\ rec]
      /\ history'.decided = [history.decided EXCEPT ![x] = history.standing[x] /\ rec]
      /\ history'.carried = [history.carried EXCEPT ![p] = IF sent /\ up # Default THEN @ \cup {tok} ELSE @]
      /\ history'.stray = IF sent /\ ~Resolves(verdict)
                         THEN history.stray \cup ({tok} \cap history.carried[p]) ELSE history.stray
      /\ \A f \in {"dropped", "accepted", "lapsed", "skipped", "late", "refused", "lost", "short", "unstopped"} :
           history'[f] = history[f]
  BY <1>3 DEF Shape, Histories
<1>6. history' \in Histories
  <2>1. history'.standing \in [Exchanges -> BOOLEAN] /\ history'.decided \in [Exchanges -> BOOLEAN]
    BY <1>5, <1>2 DEF Shape, Histories
  <2>2. history'.carried \in [Proxies -> SUBSET Tokens]
    BY <1>5 DEF Shape, Histories
  <2>3. history'.stray \in SUBSET Tokens
    BY <1>5 DEF Shape, Histories
  <2> QED
    BY <1>3, <1>5, <2>1, <2>2, <2>3 DEF Shape, Histories
<1>7. ex' = [ex EXCEPT ![x] = IF rec THEN [@ EXCEPT !.at = "open"] ELSE Ended("none")]
  BY <1>3
<1>8. rec \in BOOLEAN /\ sent \in BOOLEAN
  BY DEF rec, sent
<1> HIDE DEF verdict
<1> USE <1>1, <1>8
<1> WITNESS rec \in BOOLEAN, sent \in BOOLEAN, up \in Upstreams
<1> QED
  BY <1>4, <1>5, <1>6, <1>7 DEF verdict

\* What the end of a proxy leaves in the history.
LEMMA ExitHistory ==
  ASSUME Shape, NEW p \in Proxies, Exit(p)
  PROVE  /\ history' \in Histories
         /\ LET cut == {x \in Exchanges : ex[x].by = p} IN
            /\ \A x \in Exchanges \ cut : /\ history'.standing[x] = history.standing[x]
                                         /\ history'.decided[x] = history.decided[x]
            /\ history'.carried = [history.carried EXCEPT ![p] = {}]
            /\ history'.accepted = history.accepted \ cut
            /\ history'.lapsed = history.lapsed \ {p}
            /\ history'.skipped = (history.skipped \/ (cut \cap history.accepted # {} /\ p \notin history.lapsed))
            /\ history'.late = [history.late EXCEPT ![p] = 0]
            /\ history'.refused = history.refused \ {p}
            /\ history'.lost = history.lost + account[p].unwritten
            /\ history'.short = (history.short \/ (p \notin history.refused /\ account[p].unwritten # history.late[p]))
         /\ history'.stray = history.stray /\ history'.dropped = history.dropped
         /\ history'.unstopped = history.unstopped
<1> DEFINE cut == {x \in Exchanges : ex[x].by = p}
<1>1. history' = [history EXCEPT
            !.standing = [x \in Exchanges |-> @[x] /\ x \notin cut],
            !.decided = [x \in Exchanges |-> @[x] /\ x \notin cut],
            !.carried[p] = {}, !.accepted = @ \ cut, !.lapsed = @ \ {p},
            !.skipped = @ \/ (cut \cap history.accepted # {} /\ p \notin history.lapsed),
            !.late[p] = 0, !.refused = @ \ {p}, !.lost = @ + account[p].unwritten,
            !.short = @ \/ (p \notin history.refused /\ account[p].unwritten # history.late[p])]
  BY DEF Exit
<1> HIDE DEF cut
<1>2. /\ history'.standing = [x \in Exchanges |-> history.standing[x] /\ x \notin cut]
      /\ history'.decided = [x \in Exchanges |-> history.decided[x] /\ x \notin cut]
      /\ history'.carried = [history.carried EXCEPT ![p] = {}]
      /\ history'.accepted = history.accepted \ cut
      /\ history'.lapsed = history.lapsed \ {p}
      /\ history'.skipped = (history.skipped \/ (cut \cap history.accepted # {} /\ p \notin history.lapsed))
      /\ history'.late = [history.late EXCEPT ![p] = 0]
      /\ history'.refused = history.refused \ {p}
      /\ history'.lost = history.lost + account[p].unwritten
      /\ history'.short = (history.short \/ (p \notin history.refused /\ account[p].unwritten # history.late[p]))
      /\ history'.stray = history.stray /\ history'.dropped = history.dropped
      /\ history'.unstopped = history.unstopped
  BY <1>1 DEF Shape, Histories
<1>3. history' \in Histories
  <2>1. history'.standing \in [Exchanges -> BOOLEAN] /\ history'.decided \in [Exchanges -> BOOLEAN]
    BY <1>2 DEF Shape, Histories
  <2>2. history'.carried \in [Proxies -> SUBSET Tokens] /\ history'.late \in [Proxies -> Nat]
    BY <1>2 DEF Shape, Histories
  <2>3. /\ history'.accepted \in SUBSET Exchanges
        /\ history'.lapsed \in SUBSET Proxies /\ history'.refused \in SUBSET Proxies
        /\ history'.stray \in SUBSET Tokens /\ history'.dropped \in SUBSET Tokens
    BY <1>2 DEF Shape, Histories
  <2>4. history'.skipped \in BOOLEAN /\ history'.short \in BOOLEAN /\ history'.unstopped \in BOOLEAN
    BY <1>2 DEF Shape, Histories
  <2>5. history'.lost \in Nat
    BY <1>2 DEF Shape, Histories, Accounts
  <2>6. history' = [standing |-> history'.standing, decided |-> history'.decided,
                    carried |-> history'.carried, stray |-> history'.stray,
                    dropped |-> history'.dropped, accepted |-> history'.accepted,
                    lapsed |-> history'.lapsed, skipped |-> history'.skipped,
                    late |-> history'.late, refused |-> history'.refused, lost |-> history'.lost,
                    short |-> history'.short, unstopped |-> history'.unstopped]
    BY <1>1 DEF Shape, Histories
  <2> QED
    BY <2>1, <2>2, <2>3, <2>4, <2>5, <2>6 DEF Histories
<1>4. \A x \in Exchanges \ cut : /\ history'.standing[x] = history.standing[x]
                               /\ history'.decided[x] = history.decided[x]
  BY <1>2 DEF Shape, Histories
<1> QED
  BY <1>2, <1>3, <1>4 DEF cut

\* Every step keeps the shape.
LEMMA ShapeStep ==
  ASSUME Shape, ExchangeInv, AskingInv, QueueInv, Next
  PROVE  Shape'
<1>1. CASE Commands
  <2>1. Rewritten
    BY <1>1, CommandShape, EditEffect
  <2>2. view' \in [Proxies -> Views]
    <3>1. \A p \in Proxies : [view[p] EXCEPT !.current = FALSE] \in Views
      BY DEF Shape, Views
    <3> QED
      BY <2>1, <3>1 DEF Rewritten
  <2>3. history' \in Histories
    <3>1. [history EXCEPT !.standing = history'.standing] \in Histories
      BY <2>1 DEF Rewritten, Shape, Histories
    <3>2. history.dropped \cup (Placed(table) \ Placed(table')) \in SUBSET Tokens
      BY DEF Shape, Histories, Placed
    <3> QED
      BY <2>1, <3>1, <3>2 DEF Rewritten, Histories
  <2> QED
    BY <2>1, <2>2, <2>3 DEF Rewritten, Shape
<1>2. CASE Uninstall
  BY <1>2 DEF Uninstall, Shape, routing
<1>3. CASE DeleteData
  BY <1>3 DEF DeleteData, Shape, routing, Disks, Histories
<1>4. ASSUME NEW x \in Exchanges, NEW p \in Proxies, NEW tok \in Tokens, Arrive(x, p, tok)
      PROVE  Shape'
  <2>1. ex' \in [Exchanges -> Courses]
    BY <1>4 DEF Arrive, Shape, NoExchange, Courses, Places, Fates
  <2>2. history' \in Histories
    BY <1>4 DEF Arrive, Shape, Histories, Records
  <2> QED
    BY <1>4, <2>1, <2>2 DEF Arrive, Shape, routing
<1>5. ASSUME NEW x \in Exchanges, Ask(x)
      PROVE  Shape'
  <2>1. ex[x].by \in Proxies
    BY <1>5 DEF Ask, ExchangeInv
  <2>2. view' \in [Proxies -> Views]
    BY <1>5, <2>1, LookShape DEF Ask
  <2>3. asking' \in [Proxies -> Asks]
    BY <1>5, <2>1 DEF Ask, Shape, Asks, MustRead
  <2>4. ex' \in [Exchanges -> Courses]
    BY <1>5 DEF Ask, Shape, Courses, Places
  <2> QED
    BY <1>5, <2>2, <2>3, <2>4 DEF Ask, Shape
<1>6. ASSUME NEW x \in Exchanges, Decide(x)
      PROVE  Shape'
  <2> DEFINE p == ex[x].by  tok == ex[x].tok
  <2>1. p \in Proxies /\ tok \in Tokens
    BY <1>6 DEF Decide, ExchangeInv
  <2>2. view' \in [Proxies -> Views]
    BY <1>6, <2>1, AnswerShape DEF Decide
  <2>3. asking' \in [Proxies -> Asks]
    BY <1>6, <2>1 DEF Decide, Shape, Asks, NoAsk
  <2>4. ex' \in [Exchanges -> Courses]
    <3>1. [ex[x] EXCEPT !.at = "open"] \in Courses
      BY DEF Shape, Courses, Places
    <3>2. Ended("none") \in Courses
      BY DEF Ended, NoExchange, Courses, Places, Fates
    <3>3. \/ ex' = [ex EXCEPT ![x] = [ex[x] EXCEPT !.at = "open"]]
          \/ ex' = [ex EXCEPT ![x] = Ended("none")]
      BY <1>6 DEF Decide, Shape
    <3> QED
      BY <3>1, <3>2, <3>3 DEF Shape
  <2>5. history' \in Histories
    BY <1>6, <2>1, <2>2, DecideHistory
  <2> QED
    BY <1>6, <2>2, <2>3, <2>4, <2>5 DEF Decide, Shape
<1>7. ASSUME NEW x \in Exchanges, ErrorResponse(x)
      PROVE  Shape'
  BY <1>7, DropShape DEF ErrorResponse, Shape, routing, Drop
<1>8. ASSUME NEW x \in Exchanges, OverLimit(x) \/ Expire(x) \/ WriteFails(x)
      PROVE  Shape'
  <2>1. ex[x].by \in Proxies /\ Abandon(x)
    BY <1>8 DEF OverLimit, Expire, WriteFails, ExchangeInv
  <2> QED
    BY <1>8, <2>1, AbandonShape DEF OverLimit, Expire, WriteFails, Shape, routing
<1>9. ASSUME NEW x \in Exchanges, Finish(x)
      PROVE  Shape'
  <2>1. ex[x].by \in Proxies
    BY <1>9 DEF Finish, ExchangeInv
  <2>2. CASE Abandon(x)
    BY <1>9, <2>1, <2>2, AbandonShape DEF Finish, Shape, routing
  <2>3. CASE ~Abandon(x)
    <3>1. ex' = [ex EXCEPT ![x].at = "queued"] /\ history' = [history EXCEPT !.accepted = @ \cup {x}]
      BY <1>9, <2>3 DEF Finish
    <3>2. ex' \in [Exchanges -> Courses]
      BY <3>1 DEF Shape, Courses, Places
    <3>3. history' \in Histories
      BY <3>1 DEF Shape, Histories
    <3> QED
      BY <1>9, <2>3, <3>2, <3>3 DEF Finish, Shape, routing
  <2> QED
    BY <2>2, <2>3
<1>10. ASSUME NEW x \in Exchanges, Recheck(x)
       PROVE  Shape'
  <2>1. ex[x].by \in Proxies
    BY <1>10 DEF Recheck, ExchangeInv
  <2>2. view' \in [Proxies -> Views]
    BY <1>10, <2>1, AnswerShape DEF Recheck
  <2>3. asking' \in [Proxies -> Asks]
    BY <1>10, <2>1 DEF Recheck, Shape, Asks, NoAsk
  <2>4. ex' \in [Exchanges -> Courses] /\ history' \in Histories
    <3>1. CASE Drop(x)
      BY <3>1, DropShape
    <3>2. CASE ~Drop(x)
      BY <1>10, <3>2 DEF Recheck, Shape, Courses, Places
    <3> QED
      BY <3>1, <3>2
  <2>5. UNCHANGED <<table, file, proxy, account, disk, removal>>
    BY <1>10 DEF Recheck, Drop
  <2> QED
    BY <2>2, <2>3, <2>4, <2>5 DEF Shape
<1>11. ASSUME NEW x \in Exchanges, Write(x)
       PROVE  Shape'
  <2>1. CASE proxy[ex[x].by].careful /\ ~disk.dir
    BY <1>11, <2>1, DropShape DEF Write, Drop, Shape, routing
  <2>2. CASE ~(proxy[ex[x].by].careful /\ ~disk.dir)
    <3>0. /\ ex' = [ex EXCEPT ![x] = Ended("stored")]
          /\ disk' = [disk EXCEPT !.dir = TRUE, !.records = @ \cup {x}]
      BY <1>11, <2>2 DEF Write
    <3>1. ex' \in [Exchanges -> Courses]
      BY <3>0 DEF Shape, Ended, NoExchange, Courses, Places, Fates
    <3>2. disk' \in Disks
      <4>1. [disk EXCEPT !.dir = TRUE] \in Disks
        BY DEF Shape, Disks
      <4> QED
        BY <3>0, <4>1 DEF Disks
    <3>3. history' \in Histories
      BY <1>11, <2>2 DEF Write, Shape, Histories
    <3> QED
      BY <1>11, <2>2, <3>1, <3>2, <3>3 DEF Write, Shape, routing
  <2> QED
    BY <2>1, <2>2
<1>12. ASSUME NEW p \in Proxies, Take(p)
       PROVE  Shape'
  <2>1. queue[p] \in Seq(Exchanges) /\ queue[p] # <<>>
    BY <1>12 DEF Take, QueueInv
  <2>2. Head(queue[p]) \in Exchanges
    BY <2>1
  <2>3. ex' \in [Exchanges -> Courses]
    BY <1>12, <2>2 DEF Take, Shape, Courses, Places
  <2>4. history' \in Histories
    BY <1>12, <2>2 DEF Take, Shape, Histories, Records
  <2> QED
    BY <1>12, <2>3, <2>4 DEF Take, Shape, routing
<1>13. ASSUME NEW p \in Proxies, TakeCounts(p) \/ PutCounts(p)
       PROVE  Shape'
  <2>1. UNCHANGED <<routing, proxy, asking, ex, removal>>
    BY <1>13 DEF TakeCounts, PutCounts
  <2>2. disk' \in Disks
    BY <1>13 DEF TakeCounts, PutCounts, Shape, Disks, Accounts
  <2>3. account' \in [Proxies -> Accounts]
    <3>1. account[p] \in Accounts
      BY DEF Shape
    <3>2. PICK r \in Accounts : account' = [account EXCEPT ![p] = r]
      <4>1. CASE TakeCounts(p)
        BY <3>1, <4>1 DEF TakeCounts, Shape, Accounts
      <4>2. CASE PutCounts(p) /\ account' = [account EXCEPT ![p].delta = 0, ![p].busy = FALSE]
        <5>1. account' = [account EXCEPT ![p] = [account[p] EXCEPT !.delta = 0, !.busy = FALSE]]
          BY <4>2 DEF Shape
        <5> QED
          BY <3>1, <5>1 DEF Accounts
      <4>3. CASE PutCounts(p) /\ account' = [account EXCEPT ![p].unwritten = @ + account[p].delta,
                                                      ![p].delta = 0, ![p].busy = FALSE]
        <5>1. account' = [account EXCEPT ![p] =
                            [account[p] EXCEPT !.unwritten = @ + account[p].delta, !.delta = 0, !.busy = FALSE]]
          BY <4>3 DEF Shape
        <5>2. [account[p] EXCEPT !.unwritten = @ + account[p].delta] \in Accounts
          BY <3>1 DEF Accounts
        <5>3. [account[p] EXCEPT !.unwritten = @ + account[p].delta, !.delta = 0, !.busy = FALSE] \in Accounts
          BY <3>1, <5>2 DEF Accounts
        <5> QED
          BY <5>1, <5>3
      <4>4. ASSUME PutCounts(p)
            PROVE  \/ account' = [account EXCEPT ![p].delta = 0, ![p].busy = FALSE]
                   \/ account' = [account EXCEPT ![p].unwritten = @ + account[p].delta,
                                                ![p].delta = 0, ![p].busy = FALSE]
        BY <4>4, Zenon DEF PutCounts
      <4> QED
        BY <1>13, <4>1, <4>2, <4>3, <4>4
    <3> QED
      BY <3>2 DEF Shape
  <2>4. history' \in Histories
    BY <1>13 DEF TakeCounts, PutCounts, Shape, Histories
  <2> QED
    BY <2>1, <2>2, <2>3, <2>4 DEF Shape, routing
<1>14. ASSUME NEW p \in Proxies, Start(p)
       PROVE  Shape'
  <2>1. proxy' \in [Proxies -> Lives]
    BY <1>14, StageShape DEF Start, Stages
  <2> QED
    BY <1>14, <2>1 DEF Start, Shape, routing, Disks
<1>15. ASSUME NEW p \in Proxies, Settle(p) \/ ReleasePort(p) \/ CloseQueue(p)
       PROVE  Shape'
  <2>1. proxy' \in [Proxies -> Lives]
    BY <1>15, StageShape DEF Settle, ReleasePort, CloseQueue, Stages
  <2> QED
    BY <1>15, <2>1 DEF Settle, ReleasePort, CloseQueue, Shape, routing
<1>16. ASSUME NEW p \in Proxies, StopCreating(p)
       PROVE  Shape'
  BY <1>16 DEF StopCreating, Shape, routing, Lives
<1>17. ASSUME NEW p \in Proxies, Drained(p)
       PROVE  Shape'
  <2>1. proxy' \in [Proxies -> Lives]
    BY <1>17, StageShape DEF Drained, Stages
  <2>2. history' \in Histories
    BY <1>17 DEF Drained, Shape, Histories
  <2> QED
    BY <1>17, <2>1, <2>2 DEF Drained, Shape, routing
<1>18. ASSUME NEW p \in Proxies, StopAccount(p)
       PROVE  Shape'
  <2>1. proxy' \in [Proxies -> Lives]
    BY <1>18, StageShape DEF StopAccount, Stages
  <2>2. account' \in [Proxies -> Accounts]
    BY <1>18 DEF StopAccount, Shape, Accounts
  <2> QED
    BY <1>18, <2>1, <2>2 DEF StopAccount, Shape, routing
<1>19. ASSUME NEW p \in Proxies, Exit(p)
       PROVE  Shape'
  <2>1. proxy' \in [Proxies -> Lives]
    BY <1>19, StageShape DEF Exit, Stages
  <2>2. ex' \in [Exchanges -> Courses]
    BY <1>19 DEF Exit, Shape, Ended, NoExchange, Courses, Places, Fates
  <2>3. view' \in [Proxies -> Views]
    BY <1>19, RoutingConstants DEF Exit, Shape, EmptyView, NoEntry, Views, Entries
  <2>4. asking' \in [Proxies -> Asks] /\ account' \in [Proxies -> Accounts]
    BY <1>19 DEF Exit, Shape, Asks, NoAsk, Accounts, NoAccount
  <2>5. history' \in Histories
    BY <1>19, ExitHistory
  <2> QED
    BY <1>19, <2>1, <2>2, <2>3, <2>4, <2>5 DEF Exit, Shape
<1> QED
  BY <1>1, <1>2, <1>3, <1>4, <1>5, <1>6, <1>7, <1>8, <1>9, <1>10, <1>11, <1>12, <1>13, <1>14,
     <1>15, <1>16, <1>17, <1>18, <1>19 DEF Next, Capture, Life

-----------------------------------------------------------------------------
(* Exchanges, lookups and queues.                                           *)

LEMMA InitCourses == Init => ExchangeInv /\ AskingInv /\ QueueInv
<1> SUFFICES ASSUME Init PROVE ExchangeInv /\ AskingInv /\ QueueInv
  OBVIOUS
<1>1. ExchangeInv
  BY DEF Init, ExchangeInv, NoExchange
<1>2. AskingInv
  BY DEF Init, AskingInv, NoAsk
<1>3. QueueInv
  BY DEF Init, QueueInv
<1> QED
  BY <1>1, <1>2, <1>3

\* One exchange moves on outside the queue.
LEMMA QueueApart ==
  ASSUME Shape, QueueInv, NEW x \in Exchanges, NEW r \in Courses,
         ex' = [ex EXCEPT ![x] = r], ex[x].at # "queued", queue' = queue
  PROVE  QueueInv'
<1> SUFFICES ASSUME NEW p \in Proxies, NEW i \in DOMAIN queue[p]
             PROVE  ex'[queue[p][i]].at = "queued" /\ ex'[queue[p][i]].by = p
  BY DEF QueueInv
<1>1. queue[p][i] \in Exchanges /\ ex[queue[p][i]].at = "queued" /\ ex[queue[p][i]].by = p
  BY DEF QueueInv
<1> QED
  BY <1>1 DEF Shape

\* An exchange ends that no lookup is under way for.
LEMMA EndApart ==
  ASSUME Shape, ExchangeInv, AskingInv, QueueInv, NEW x \in Exchanges, NEW fate \in Fates,
         ex' = [ex EXCEPT ![x] = Ended(fate)], proxy' = proxy, queue' = queue,
         ex[x].at \notin {"none", "queued"},
         \/ asking' = asking /\ ex[x].at \notin Questioned
         \/ asking' = [asking EXCEPT ![ex[x].by] = NoAsk] /\ asking[ex[x].by].who = x
  PROVE  ExchangeInv' /\ AskingInv' /\ QueueInv'
<1>1. Ended(fate) \in Courses /\ Ended(fate).at = "ended" /\ Ended(fate).by = None
  BY DEF Ended, NoExchange, Courses, Places
<1>2. \A y \in Exchanges : ex'[y] = IF y = x THEN Ended(fate) ELSE ex[y]
  BY DEF Shape
<1>3. ExchangeInv'
  BY <1>1, <1>2 DEF ExchangeInv, Alive
<1>4. AskingInv'
  BY <1>1, <1>2 DEF AskingInv, Shape, Asks, NoAsk
<1>5. QueueInv'
  BY <1>1, QueueApart
<1> QED
  BY <1>3, <1>4, <1>5

\* One exchange moves from a place to another, outside the queue.
LEMMA MoveApart ==
  ASSUME Shape, ExchangeInv, QueueInv, NEW x \in Exchanges, NEW to \in Places \ {"none", "ended"},
         ex' = [ex EXCEPT ![x].at = to], proxy' = proxy, queue' = queue,
         ex[x].at \notin {"none", "ended", "queued"}
  PROVE  ExchangeInv' /\ QueueInv'
<1>1. [ex[x] EXCEPT !.at = to] \in Courses
  BY DEF Shape, Courses
<1>2. ex' = [ex EXCEPT ![x] = [ex[x] EXCEPT !.at = to]]
  BY DEF Shape
<1>3. ExchangeInv'
  BY DEF ExchangeInv, Alive, Shape, Courses
<1> QED
  BY <1>1, <1>2, <1>3, QueueApart

\* Every step keeps exchanges, lookups and queues consistent with each other.
LEMMA CoursesStep ==
  ASSUME Shape, ExchangeInv, AskingInv, QueueInv, Next
  PROVE  ExchangeInv' /\ AskingInv' /\ QueueInv'
<1>1. CASE Commands
  <2>1. UNCHANGED <<proxy, asking, ex, queue>>
    BY <1>1, CommandShape, EditEffect DEF Rewritten
  <2> QED
    BY <2>1 DEF ExchangeInv, AskingInv, QueueInv, Alive
<1>2. CASE Uninstall \/ DeleteData
  BY <1>2 DEF Uninstall, DeleteData, ExchangeInv, AskingInv, QueueInv, Alive
<1>3. ASSUME NEW x \in Exchanges, NEW p \in Proxies, NEW tok \in Tokens, Arrive(x, p, tok)
      PROVE  ExchangeInv' /\ AskingInv' /\ QueueInv'
  <2> DEFINE r == [NoExchange EXCEPT !.at = "arrived", !.by = p, !.tok = tok]
  <2>1. /\ r \in Courses /\ r.at = "arrived" /\ r.by = p /\ r.tok = tok /\ r.fate = "none"
        /\ ex' = [ex EXCEPT ![x] = r]
    BY <1>3 DEF Arrive, NoExchange, Courses, Places, Fates
  <2> HIDE DEF r
  <2>2. ExchangeInv'
    <3>1. Alive(p) /\ proxy' = proxy
      BY <1>3 DEF Arrive, Alive, Listening
    <3> QED
      BY <2>1, <3>1 DEF ExchangeInv, Alive, Shape
  <2>3. AskingInv'
    BY <1>3, <2>1 DEF Arrive, AskingInv, Questioned, Shape, Asks
  <2>4. QueueInv'
    BY <1>3, <2>1, QueueApart DEF Arrive
  <2> QED
    BY <2>2, <2>3, <2>4
<1>4. ASSUME NEW x \in Exchanges, Ask(x)
      PROVE  ExchangeInv' /\ AskingInv' /\ QueueInv'
  <2>1. ex[x].by \in Proxies
    BY <1>4 DEF Ask, ExchangeInv
  <2>2. PICK to \in Questioned : ex' = [ex EXCEPT ![x].at = to]
    BY <1>4 DEF Ask, Questioned
  <2>3. ExchangeInv' /\ QueueInv'
    BY <1>4, <2>2, MoveApart DEF Ask, Questioned, Places
  <2>4. AskingInv'
    BY <1>4, <2>1, <2>2, RecorderConstants DEF Ask, AskingInv, Questioned, Shape, Asks, Courses, NoAsk, MustRead
  <2> QED
    BY <2>3, <2>4
<1>5. ASSUME NEW x \in Exchanges, Decide(x)
      PROVE  ExchangeInv' /\ AskingInv' /\ QueueInv'
  <2>1. ex[x].by \in Proxies /\ ex[x].tok \in Tokens
    BY <1>5 DEF Decide, ExchangeInv
  <2>2. \/ ex' = [ex EXCEPT ![x].at = "open"]
        \/ ex' = [ex EXCEPT ![x] = Ended("none")]
    BY <1>5, <2>1, DecideHistory DEF Shape
  <2>3. CASE ex' = [ex EXCEPT ![x] = Ended("none")]
    BY <1>5, <2>3, EndApart DEF Decide, Fates
  <2>4. CASE ex' = [ex EXCEPT ![x].at = "open"]
    <3>1. ExchangeInv' /\ QueueInv'
      BY <1>5, <2>4, MoveApart DEF Decide, Places
    <3>2. asking' = [asking EXCEPT ![ex[x].by] = NoAsk] /\ asking[ex[x].by].who = x
      BY <1>5 DEF Decide
    <3>3. AskingInv'
      BY <2>1, <2>4, <3>2 DEF AskingInv, Questioned, Shape, Asks, Courses, NoAsk
    <3> QED
      BY <3>1, <3>3
  <2> QED
    BY <2>2, <2>3, <2>4
<1>6. ASSUME NEW x \in Exchanges, ErrorResponse(x) \/ OverLimit(x) \/ Expire(x) \/ WriteFails(x)
      PROVE  ExchangeInv' /\ AskingInv' /\ QueueInv'
  <2>1. PICK fate \in Fates : ex' = [ex EXCEPT ![x] = Ended(fate)]
    BY <1>6 DEF ErrorResponse, OverLimit, Expire, WriteFails, Drop, Abandon, Fates
  <2>2. ex[x].at \in {"open", "taken", "writing"} /\ UNCHANGED <<proxy, asking, queue>>
    BY <1>6 DEF ErrorResponse, OverLimit, Expire, WriteFails
  <2> QED
    BY <2>1, <2>2, EndApart DEF Questioned
<1>7. ASSUME NEW x \in Exchanges, Finish(x)
      PROVE  ExchangeInv' /\ AskingInv' /\ QueueInv'
  <2> DEFINE p == ex[x].by
  <2>1. p \in Proxies /\ ex[x].at = "open" /\ UNCHANGED <<proxy, asking>>
    BY <1>7 DEF Finish, ExchangeInv
  <2>2. CASE Abandon(x) /\ UNCHANGED queue
    <3>1. ex' = [ex EXCEPT ![x] = Ended("counted")]
      BY <2>2 DEF Abandon
    <3> QED
      BY <2>1, <2>2, <3>1, EndApart DEF Questioned, Fates
  <2>3. CASE ex' = [ex EXCEPT ![x].at = "queued"] /\ queue' = [queue EXCEPT ![p] = Append(@, x)]
    <3>1. ExchangeInv'
      BY <2>1, <2>3 DEF ExchangeInv, Alive, Shape, Courses
    <3>2. AskingInv'
      BY <2>1, <2>3 DEF AskingInv, Questioned, Shape, Asks, Courses
    <3>3. QueueInv'
      <4>1. queue' \in [Proxies -> Seq(Exchanges)]
        BY <2>1, <2>3 DEF QueueInv
      <4>2. ASSUME NEW q \in Proxies, NEW i \in DOMAIN queue'[q]
            PROVE  \/ i \in DOMAIN queue[q] /\ queue'[q][i] = queue[q][i] /\ queue[q][i] # x
                   \/ q = p /\ i = Len(queue[p]) + 1 /\ queue'[q][i] = x
        <5>1. queue[q] \in Seq(Exchanges)
          BY DEF QueueInv
        <5>2. i \in DOMAIN queue[q] => queue[q][i] # x
          BY <2>1 DEF QueueInv
        <5> QED
          BY <2>1, <2>3, <5>1, <5>2 DEF QueueInv
      <4>3. ASSUME NEW q \in Proxies, NEW i \in DOMAIN queue'[q]
            PROVE  ex'[queue'[q][i]].at = "queued" /\ ex'[queue'[q][i]].by = q
        <5>1. CASE i \in DOMAIN queue[q] /\ queue'[q][i] = queue[q][i] /\ queue[q][i] # x
          BY <2>3, <5>1 DEF QueueInv, Shape
        <5>2. CASE q = p /\ queue'[q][i] = x
          BY <2>3, <5>2 DEF Shape, Courses
        <5> QED
          BY <4>2, <5>1, <5>2
      <4>4. ASSUME NEW q \in Proxies, NEW i \in DOMAIN queue'[q], NEW j \in DOMAIN queue'[q],
                   queue'[q][i] = queue'[q][j]
            PROVE  i = j
        BY <4>2, <4>4 DEF QueueInv
      <4> QED
        BY <4>1, <4>3, <4>4 DEF QueueInv
    <3> QED
      BY <3>1, <3>2, <3>3
  <2> QED
    BY <1>7, <2>2, <2>3 DEF Finish
<1>8. ASSUME NEW x \in Exchanges, Recheck(x)
      PROVE  ExchangeInv' /\ AskingInv' /\ QueueInv'
  <2>1. ex[x].by \in Proxies /\ ex[x].at = "rechecking" /\ UNCHANGED <<proxy, queue>>
    BY <1>8 DEF Recheck, ExchangeInv
  <2>2. asking' = [asking EXCEPT ![ex[x].by] = NoAsk] /\ asking[ex[x].by].who = x
    BY <1>8 DEF Recheck
  <2>3. CASE ex' = [ex EXCEPT ![x] = Ended("none")]
    BY <2>1, <2>2, <2>3, EndApart DEF Fates
  <2>4. CASE ex' = [ex EXCEPT ![x].at = "writing"]
    <3>1. ExchangeInv' /\ QueueInv'
      BY <2>1, <2>4, MoveApart DEF Places
    <3>2. AskingInv'
      BY <2>1, <2>2, <2>4 DEF AskingInv, Questioned, Shape, Asks, Courses, NoAsk
    <3> QED
      BY <3>1, <3>2
  <2> QED
    BY <1>8, <2>3, <2>4 DEF Recheck, Drop
<1>9. ASSUME NEW x \in Exchanges, Write(x)
      PROVE  ExchangeInv' /\ AskingInv' /\ QueueInv'
  <2>1. PICK fate \in Fates : ex' = [ex EXCEPT ![x] = Ended(fate)]
    BY <1>9 DEF Write, Drop, Fates
  <2>2. ex[x].at = "writing" /\ UNCHANGED <<proxy, asking, queue>>
    BY <1>9 DEF Write
  <2> QED
    BY <2>1, <2>2, EndApart DEF Questioned
<1>10. ASSUME NEW p \in Proxies, Take(p)
       PROVE  ExchangeInv' /\ AskingInv' /\ QueueInv'
  <2> DEFINE x == Head(queue[p])
  <2>1. /\ queue[p] \in Seq(Exchanges) /\ queue[p] # <<>>
        /\ 1 \in DOMAIN queue[p] /\ x = queue[p][1]
    BY <1>10 DEF Take, QueueInv
  <2>2. x \in Exchanges /\ ex[x].at = "queued" /\ ex[x].by = p
    BY <2>1 DEF QueueInv
  <2>3. /\ ex' = [ex EXCEPT ![x].at = "taken"] /\ queue' = [queue EXCEPT ![p] = Tail(@)]
        /\ UNCHANGED <<proxy, asking>>
    BY <1>10 DEF Take
  <2>4. ExchangeInv'
    BY <2>2, <2>3 DEF ExchangeInv, Alive, Shape, Courses
  <2>5. AskingInv'
    BY <2>2, <2>3 DEF AskingInv, Questioned, Shape, Asks, Courses
  <2>6. QueueInv'
    <3>1. Tail(queue[p]) \in Seq(Exchanges)
      BY <2>1
    <3>2. queue' \in [Proxies -> Seq(Exchanges)]
      BY <2>3, <3>1 DEF QueueInv
    <3>3. ASSUME NEW i \in DOMAIN Tail(queue[p])
          PROVE  i + 1 \in DOMAIN queue[p] /\ Tail(queue[p])[i] = queue[p][i + 1] /\ i \in Nat \ {0}
      BY <2>1, <3>1
    <3>4. ASSUME NEW q \in Proxies, NEW i \in DOMAIN queue'[q]
          PROVE  /\ ex[queue'[q][i]].at = "queued" /\ ex[queue'[q][i]].by = q
                 /\ queue'[q][i] \in Exchanges \ {x}
      <4>1. CASE q = p
        <5>1. queue'[p] = Tail(queue[p])
          BY <2>3 DEF QueueInv
        <5>2. i + 1 \in DOMAIN queue[p] /\ queue'[p][i] = queue[p][i + 1] /\ i + 1 # 1
          BY <3>3, <4>1, <5>1
        <5> QED
          BY <2>1, <4>1, <5>2 DEF QueueInv
      <4>2. CASE q # p
        <5>1. queue'[q] = queue[q]
          BY <2>3, <4>2 DEF QueueInv
        <5> QED
          BY <2>2, <4>2, <5>1 DEF QueueInv
      <4> QED
        BY <4>1, <4>2
    <3>5. ASSUME NEW q \in Proxies, NEW i \in DOMAIN queue'[q], NEW j \in DOMAIN queue'[q],
                 queue'[q][i] = queue'[q][j]
          PROVE  i = j
      <4>1. CASE q = p
        <5>1. queue'[p] = Tail(queue[p])
          BY <2>3 DEF QueueInv
        <5>2. /\ i + 1 \in DOMAIN queue[p] /\ queue'[p][i] = queue[p][i + 1] /\ i \in Nat
              /\ j + 1 \in DOMAIN queue[p] /\ queue'[p][j] = queue[p][j + 1] /\ j \in Nat
          BY <3>3, <4>1, <5>1
        <5>3. i + 1 = j + 1
          BY <3>5, <4>1, <5>2 DEF QueueInv
        <5> QED
          BY <5>2, <5>3
      <4>2. CASE q # p
        <5>1. queue'[q] = queue[q]
          BY <2>3, <4>2 DEF QueueInv
        <5> QED
          BY <3>5, <5>1 DEF QueueInv
      <4> QED
        BY <4>1, <4>2
    <3>6. \A q \in Proxies : \A i \in DOMAIN queue'[q] :
            ex'[queue'[q][i]].at = "queued" /\ ex'[queue'[q][i]].by = q
      BY <2>3, <3>4 DEF Shape
    <3> QED
      BY <3>2, <3>5, <3>6 DEF QueueInv
  <2> QED
    BY <2>4, <2>5, <2>6
<1>11. ASSUME NEW p \in Proxies, TakeCounts(p) \/ PutCounts(p)
       PROVE  ExchangeInv' /\ AskingInv' /\ QueueInv'
  <2>1. UNCHANGED <<proxy, asking, ex, queue>>
    BY <1>11 DEF TakeCounts, PutCounts
  <2> QED
    BY <2>1 DEF ExchangeInv, AskingInv, QueueInv, Alive
<1>12. ASSUME NEW p \in Proxies,
              \/ Start(p) \/ Settle(p) \/ StopCreating(p) \/ ReleasePort(p) \/ CloseQueue(p)
              \/ Drained(p) \/ StopAccount(p)
       PROVE  ExchangeInv' /\ AskingInv' /\ QueueInv'
  <2>1. UNCHANGED <<asking, ex, queue>>
    BY <1>12 DEF Start, Settle, StopCreating, ReleasePort, CloseQueue, Drained, StopAccount
  <2>2. proxy'[p].stage \notin {"down", "exited"} /\ \A q \in Proxies \ {p} : proxy'[q] = proxy[q]
    BY <1>12 DEF Start, Settle, StopCreating, ReleasePort, CloseQueue, Drained, StopAccount, Stage, Shape, Lives
  <2> QED
    BY <2>1, <2>2 DEF ExchangeInv, AskingInv, QueueInv, Alive
<1>13. ASSUME NEW p \in Proxies, Exit(p)
       PROVE  ExchangeInv' /\ AskingInv' /\ QueueInv'
  <2>1. \A y \in Exchanges : ex'[y] = IF ex[y].by = p THEN Ended("none") ELSE ex[y]
    BY <1>13 DEF Exit
  <2>2. \A q \in Proxies \ {p} : proxy'[q] = proxy[q] /\ asking'[q] = asking[q] /\ queue'[q] = queue[q]
    BY <1>13 DEF Exit, Stage, Shape, QueueInv
  <2>3. asking'[p] = NoAsk /\ queue'[p] = <<>>
    BY <1>13 DEF Exit, Shape, QueueInv
  <2>4. Ended("none").at = "ended" /\ Ended("none").by = None
    BY DEF Ended, NoExchange
  <2>5. ExchangeInv'
    BY <2>1, <2>2, <2>4 DEF ExchangeInv, Alive
  <2>6. AskingInv'
    BY <2>1, <2>2, <2>3 DEF AskingInv, Shape, Asks, NoAsk
  <2>7. QueueInv'
    <3>1. queue' \in [Proxies -> Seq(Exchanges)]
      BY <1>13 DEF Exit, QueueInv
    <3>2. ASSUME NEW q \in Proxies \ {p}, NEW i \in DOMAIN queue'[q]
          PROVE  ex'[queue'[q][i]].at = "queued" /\ ex'[queue'[q][i]].by = q
      <4>1. queue[q][i] \in Exchanges /\ ex[queue[q][i]].at = "queued" /\ ex[queue[q][i]].by = q
        BY <2>2 DEF QueueInv
      <4> QED
        BY <2>1, <2>2, <4>1
    <3>3. ASSUME NEW q \in Proxies \ {p}
          PROVE  \A i, j \in DOMAIN queue'[q] : queue'[q][i] = queue'[q][j] => i = j
      BY <2>2 DEF QueueInv
    <3>4. DOMAIN queue'[p] = {}
      BY <2>3
    <3> QED
      BY <3>1, <3>2, <3>3, <3>4 DEF QueueInv
  <2> QED
    BY <2>5, <2>6, <2>7
<1> QED
  BY <1>1, <1>2, <1>3, <1>4, <1>5, <1>6, <1>7, <1>8, <1>9, <1>10, <1>11, <1>12, <1>13
     DEF Next, Capture, Life

-----------------------------------------------------------------------------
(* Consent.                                                                 *)

Untouched == {"carried", "stray", "dropped", "lapsed", "skipped", "refused", "lost", "short", "unstopped"}

\* What a capture that is dropped or given up leaves in the history.
LEMMA GivenUpHistory ==
  ASSUME Shape, NEW x \in Exchanges, ex[x].by \in Proxies, Drop(x) \/ Abandon(x)
  PROVE  /\ \E fate \in {"none", "counted"} : ex' = [ex EXCEPT ![x] = Ended(fate)]
         /\ history'.standing = [history.standing EXCEPT ![x] = FALSE]
         /\ history'.decided = [history.decided EXCEPT ![x] = FALSE]
         /\ history'.accepted = history.accepted \ {x}
         /\ \A f \in Untouched : history'[f] = history[f]
         /\ \/ Drop(x) /\ account' = account /\ history'.late = history.late
            \/ /\ Abandon(x)
               /\ account' = [account EXCEPT ![ex[x].by].unwritten = @ + 1, ![ex[x].by].wake = TRUE]
               /\ history'.late = IF proxy[ex[x].by].stage = "flushing"
                                  THEN [history.late EXCEPT ![ex[x].by] = @ + 1] ELSE history.late
<1>1. /\ Forget(x).standing = [history.standing EXCEPT ![x] = FALSE]
      /\ Forget(x).decided = [history.decided EXCEPT ![x] = FALSE]
      /\ Forget(x).accepted = history.accepted \ {x}
      /\ \A f \in Untouched \cup {"late"} : Forget(x)[f] = history[f]
  BY DEF Forget, Shape, Histories, Untouched
<1>2. Forget(x) \in Histories
  BY ForgetShape
<1>3. CASE Drop(x)
  BY <1>1, <1>3 DEF Drop
<1>4. CASE Abandon(x)
  <2>1. /\ history' = [Forget(x) EXCEPT !.late[ex[x].by] = IF proxy[ex[x].by].stage = "flushing" THEN @ + 1 ELSE @]
        /\ account' = [account EXCEPT ![ex[x].by].unwritten = @ + 1, ![ex[x].by].wake = TRUE]
        /\ ex' = [ex EXCEPT ![x] = Ended("counted")]
    BY <1>4 DEF Abandon
  <2>2. /\ history'.standing = Forget(x).standing /\ history'.decided = Forget(x).decided
        /\ history'.accepted = Forget(x).accepted
        /\ \A f \in Untouched : history'[f] = Forget(x)[f]
    BY <2>1, <1>2 DEF Histories, Untouched
  <2>3. history'.late = [Forget(x).late EXCEPT ![ex[x].by] = IF proxy[ex[x].by].stage = "flushing" THEN @ + 1 ELSE @]
    BY <2>1, <1>2 DEF Histories
  <2>4. history.late \in [Proxies -> Nat] /\ Forget(x).late = history.late
    BY <1>1 DEF Shape, Histories
  <2>5. history'.late = IF proxy[ex[x].by].stage = "flushing"
                        THEN [history.late EXCEPT ![ex[x].by] = @ + 1] ELSE history.late
    BY <2>3, <2>4
  <2>6. \A f \in Untouched : history'[f] = history[f]
    BY <1>1, <2>2
  <2> QED
    BY <1>1, <1>4, <2>1, <2>2, <2>5, <2>6
<1> QED
  BY <1>3, <1>4

\* A yes is never said of a token that could not be recorded while the
\* question was due.
LEMMA RecordAnswer ==
  ASSUME Shape, ViewInv, StandingInv, NEW x \in Exchanges, NEW p \in Proxies,
         ex[x].tok \in Tokens, ex[x].at \in Questioned, asking[p].who = x, Answer(p),
         Verdict(view'[p], ex[x].tok) = "record"
  PROVE  history.standing[x]
<1>1. CASE asking[p].reads
  <2>1. file = "there"
    BY <1>1 DEF Answer, ReadFile, Shape, Views, Verdict
  <2>2. view'[p].entry = table.entry /\ view'[p].pause = table.pause
    BY <1>1, <2>1 DEF Answer, ReadFile, Shape
  <2>3. table.entry[ex[x].tok] \in Entries
    BY DEF Shape, Tables
  <2>4. Records(ex[x].tok)
    BY <2>1, <2>2, <2>3 DEF Verdict, Records, Entries
  <2> QED
    BY <2>4 DEF StandingInv
<1>2. CASE ~asking[p].reads
  BY <1>2 DEF Answer, StandingInv
<1> QED
  BY <1>1, <1>2

\* The invariants of consent hold at the start.
LEMMA InitConsent == Init => ViewInv /\ StandingInv /\ ConsentInv
<1> SUFFICES ASSUME Init PROVE ViewInv /\ StandingInv /\ ConsentInv
  OBVIOUS
<1>1. ViewInv
  BY DEF Init, Before, EmptyView, ViewInv
<1>2. StandingInv
  <2>1. \A x \in Exchanges : ex[x].at = "none"
    BY DEF Init, NoExchange
  <2>2. \A p \in Proxies : asking[p].who \notin Exchanges
    BY RecorderConstants DEF Init, NoAsk
  <2> QED
    BY <2>1, <2>2 DEF StandingInv, Questioned
<1>3. ConsentInv
  BY DEF Init, NoExchange, ConsentInv, Captured
<1> QED
  BY <1>1, <1>2, <1>3

\* What a proxy takes for the file's, between two lookups, stays the file's.
LEMMA ViewStep ==
  ASSUME Shape, ExchangeInv, AskingInv, ViewInv, Next
  PROVE  ViewInv'
<1>1. CASE Commands
  <2>1. Rewritten
    BY <1>1, CommandShape, EditEffect
  <2>2. \A p \in Proxies : view'[p].current = FALSE
    BY <2>1 DEF Rewritten, Shape, Views
  <2> QED
    BY <2>2 DEF ViewInv
<1>2. CASE UNCHANGED <<routing, asking>>
  BY <1>2 DEF ViewInv, routing
<1>3. ASSUME NEW x \in Exchanges, Ask(x)
      PROVE  ViewInv'
  <2> DEFINE p == ex[x].by
  <2>1. p \in Proxies
    BY <1>3 DEF Ask, ExchangeInv
  <2>2. UNCHANGED <<table, file>> /\ asking[p] = NoAsk /\ asking'[p].reads = MustRead(p)
    BY <1>3, <2>1 DEF Ask, Shape
  <2>3. /\ \A q \in Proxies \ {p} : view'[q] = view[q] /\ asking'[q] = asking[q]
        /\ view'[p].entry = view[p].entry /\ view'[p].pause = view[p].pause
        /\ view'[p].read = view[p].read
        /\ file = "missing" => view'[p].err = TRUE
        /\ file # "missing" => view'[p].err = view[p].err
    BY <1>3, <2>1 DEF Ask, Look, Shape, Views
  <2>4. ASSUME view'[p].read, ~view'[p].err, ~asking'[p].reads
        PROVE  file = "there" /\ view[p].entry = table.entry /\ view[p].pause = table.pause
    <3>1. file # "missing" /\ view[p].read /\ ~view[p].err /\ view[p].current
      BY <2>2, <2>3, <2>4 DEF MustRead
    <3>2. ~asking[p].reads
      BY <2>2 DEF NoAsk
    <3> QED
      BY <2>1, <3>1, <3>2 DEF ViewInv
  <2> QED
    BY <2>1, <2>2, <2>3, <2>4 DEF ViewInv
<1>4. ASSUME NEW x \in Exchanges, Decide(x) \/ Recheck(x)
      PROVE  ViewInv'
  <2> DEFINE p == ex[x].by
  <2>1. p \in Proxies /\ ex[x].tok \in Tokens
    BY <1>4 DEF Decide, Recheck, ExchangeInv
  <2>2. /\ Answer(p) /\ asking' = [asking EXCEPT ![p] = NoAsk]
        /\ UNCHANGED <<table, file>>
    BY <1>4 DEF Decide, Recheck
  <2>3. \A q \in Proxies \ {p} : view'[q] = view[q] /\ asking'[q] = asking[q]
    BY <2>1, <2>2, AnswerShape DEF Shape
  <2>4. CASE asking[p].reads
    <3>1. ~view'[p].err => /\ file = "there"
                           /\ view'[p].entry = table.entry /\ view'[p].pause = table.pause
      BY <2>1, <2>2, <2>4 DEF Answer, ReadFile, Shape, Views
    <3> QED
      BY <2>2, <2>3, <3>1 DEF ViewInv
  <2>5. CASE ~asking[p].reads
    <3>1. view' = view
      BY <2>2, <2>5 DEF Answer
    <3> QED
      BY <2>2, <2>3, <2>5, <3>1 DEF ViewInv
  <2> QED
    BY <2>4, <2>5
<1>5. ASSUME NEW p \in Proxies, Exit(p)
      PROVE  ViewInv'
  BY <1>5 DEF Exit, EmptyView, ViewInv, Shape
<1>6. ASSUME NEW x \in Exchanges, Capture(x), ~Ask(x), ~Decide(x), ~Recheck(x)
      PROVE  UNCHANGED <<routing, asking>>
  BY <1>6 DEF Capture, Arrive, ErrorResponse, OverLimit, Finish, Expire, Write, WriteFails
<1>7. ASSUME NEW p \in Proxies, Life(p), ~Exit(p)
      PROVE  UNCHANGED <<routing, asking>>
  BY <1>7 DEF Life, Start, Settle, StopCreating, ReleasePort, CloseQueue, Drained, StopAccount,
     Take, TakeCounts, PutCounts
<1>8. Uninstall \/ DeleteData => UNCHANGED <<routing, asking>>
  BY DEF Uninstall, DeleteData
<1> QED
  BY <1>1, <1>2, <1>3, <1>4, <1>5, <1>6, <1>7, <1>8 DEF Next

\* A capture that is over asks nothing.
LEMMA StandingApart ==
  ASSUME Shape, AskingInv, StandingInv, ConsentInv, NEW x \in Exchanges,
         ex[x].at \notin Questioned, ex[x].by \in Proxies, Drop(x) \/ Abandon(x),
         UNCHANGED <<routing, asking>>
  PROVE  StandingInv' /\ ConsentInv'
<1>1. /\ \E fate \in {"none", "counted"} : ex' = [ex EXCEPT ![x] = Ended(fate)]
      /\ history'.standing = [history.standing EXCEPT ![x] = FALSE]
      /\ history'.decided = [history.decided EXCEPT ![x] = FALSE]
  BY GivenUpHistory
<1>2. \A y \in Exchanges \ {x} : /\ ex'[y] = ex[y]
                                 /\ history'.standing[y] = history.standing[y]
                                 /\ history'.decided[y] = history.decided[y]
  BY <1>1 DEF Shape, Histories
<1>3. ex'[x].at = "ended" /\ ex'[x].fate \in {"none", "counted"}
  BY <1>1 DEF Shape, Ended, NoExchange
<1>4. \A p \in Proxies : asking[p].who # x
  BY RecorderConstants DEF AskingInv
<1>5. StandingInv'
  BY <1>2, <1>3, <1>4 DEF StandingInv, Questioned, Records, Verdict, routing
<1>6. ConsentInv'
  BY <1>2, <1>3 DEF ConsentInv, Captured
<1> QED
  BY <1>5, <1>6

\* What is recorded stands under a grant the proxy has read.
LEMMA ConsentStep ==
  ASSUME Shape, ExchangeInv, AskingInv, QueueInv, ViewInv, StandingInv, ConsentInv, Next
  PROVE  StandingInv' /\ ConsentInv'
<1>1. CASE Commands
  <2>1. Rewritten
    BY <1>1, CommandShape, EditEffect
  <2>2. \A p \in Proxies, t \in Tokens : Verdict(view'[p], t) = Verdict(view[p], t)
    BY <2>1 DEF Rewritten, Shape, Views, Verdict
  <2>3. history'.decided = history.decided
    BY <2>1 DEF Rewritten, Shape, Histories
  <2>4. StandingInv'
    <3>1. \A x \in Exchanges : ex[x].at \in {"arrived", "taken"} \cup Questioned => ex[x].tok \in Tokens
      BY DEF ExchangeInv, Questioned
    <3>2. \A x \in Exchanges : ex'[x].at \in {"arrived", "taken"} \cup Questioned /\ Records(ex[x].tok)'
                                 => history'.standing[x]
      BY <2>1, <3>1 DEF Rewritten, Records
    <3>3. ASSUME NEW x \in Exchanges, NEW p \in Proxies, asking[p].who = x, ~asking[p].reads,
                 Verdict(view'[p], ex[x].tok) = "record"
          PROVE  history'.standing[x]
      <4>1. ex[x].tok \in Tokens
        BY <3>1, <3>3, RecorderConstants DEF AskingInv
      <4>2. history.standing[x]
        BY <2>2, <3>3, <4>1 DEF StandingInv
      <4> QED
        BY <2>1, <4>2 DEF Rewritten
    <3> QED
      BY <2>1, <3>2, <3>3 DEF Rewritten, StandingInv
  <2>5. ConsentInv'
    BY <2>1, <2>3 DEF Rewritten, ConsentInv
  <2> QED
    BY <2>4, <2>5
<1>2. CASE UNCHANGED <<routing, asking, ex>> /\ history'.standing = history.standing /\ history'.decided = history.decided
  BY <1>2 DEF StandingInv, ConsentInv, Records, routing
<1>3. ASSUME NEW x \in Exchanges, NEW p \in Proxies, NEW tok \in Tokens, Arrive(x, p, tok)
      PROVE  StandingInv' /\ ConsentInv'
  <2>1. /\ ex[x].at = "none" /\ ex'[x].at = "arrived" /\ ex'[x].tok = tok /\ ex'[x].fate = "none"
        /\ \A y \in Exchanges \ {x} : ex'[y] = ex[y]
        /\ UNCHANGED <<table, file, view, asking>>
    BY <1>3 DEF Arrive, Shape, NoExchange, routing
  <2>2. /\ history'.standing[x] = Records(tok) /\ history'.decided = history.decided
        /\ \A y \in Exchanges \ {x} : history'.standing[y] = history.standing[y]
    BY <1>3 DEF Arrive, Shape, Histories
  <2>3. \A q \in Proxies : asking[q].who # x
    BY <2>1, RecorderConstants DEF AskingInv, Questioned
  <2>4. StandingInv'
    <3>1. \A t : Records(t)' <=> Records(t)
      BY <2>1 DEF Records
    <3>2. ASSUME NEW y \in Exchanges, ex'[y].at \in {"arrived", "taken"} \cup Questioned, Records(ex'[y].tok)
          PROVE  history'.standing[y]
      BY <2>1, <2>2, <3>2 DEF StandingInv
    <3>3. ASSUME NEW y \in Exchanges, NEW q \in Proxies,
                 asking[q].who = y, ~asking[q].reads, Verdict(view[q], ex'[y].tok) = "record"
          PROVE  history'.standing[y]
      BY <2>1, <2>2, <2>3, <3>3 DEF StandingInv
    <3> QED
      BY <2>1, <3>1, <3>2, <3>3 DEF StandingInv
  <2>5. ConsentInv'
    BY <2>1, <2>2 DEF ConsentInv, Captured
  <2> QED
    BY <2>4, <2>5
<1>4. ASSUME NEW x \in Exchanges, Ask(x)
      PROVE  StandingInv' /\ ConsentInv'
  <2> DEFINE p == ex[x].by
  <2>1. p \in Proxies /\ ex[x].tok \in Tokens /\ ex[x].at \in {"arrived", "taken"}
    BY <1>4 DEF Ask, ExchangeInv
  <2>2. /\ UNCHANGED <<table, file, history>> /\ asking[p] = NoAsk
        /\ asking'[p] = [who |-> x, reads |-> MustRead(p)]
        /\ \A q \in Proxies \ {p} : asking'[q] = asking[q]
    BY <1>4, <2>1 DEF Ask, Shape
  <2>3. /\ ex'[x].tok = ex[x].tok /\ ex'[x].fate = ex[x].fate
        /\ ex'[x].at = IF ex[x].at = "arrived" THEN "deciding" ELSE "rechecking"
        /\ \A y \in Exchanges \ {x} : ex'[y] = ex[y]
    BY <1>4 DEF Ask, Shape, Courses
  <2>4. /\ \A q \in Proxies \ {p} : view'[q] = view[q]
        /\ view'[p].entry = view[p].entry /\ view'[p].pause = view[p].pause
        /\ view'[p].read = view[p].read
        /\ file = "missing" => view'[p].err = TRUE
        /\ file # "missing" => view'[p].err = view[p].err
    BY <1>4, <2>1 DEF Ask, Look, Shape, Views
  <2>5. ASSUME ~MustRead(p), Verdict(view'[p], ex[x].tok) = "record"
        PROVE  history.standing[x]
    <3>1. ~view'[p].err
      BY <2>4, <2>5 DEF Verdict, Shape, Views
    <3>2. view[p].read /\ ~view[p].err /\ view[p].current /\ ~asking[p].reads
      BY <2>1, <2>2, <2>4, <2>5, <3>1 DEF MustRead, NoAsk, Shape, Views
    <3>3. file = "there" /\ view[p].entry = table.entry /\ view[p].pause = table.pause
      BY <2>1, <3>2 DEF ViewInv
    <3>4. table.entry[ex[x].tok] \in Entries
      BY <2>1 DEF Shape, Tables
    <3>5. Records(ex[x].tok)
      BY <2>4, <2>5, <3>1, <3>3, <3>4 DEF Verdict, Records, Entries
    <3> QED
      BY <2>1, <3>5 DEF StandingInv
  <2>6. StandingInv'
    <3>1. \A y \in Exchanges : ex'[y].at \in {"arrived", "taken"} \cup Questioned /\ Records(ex[y].tok)'
                                 => history'.standing[y]
      BY <2>1, <2>2, <2>3 DEF StandingInv, Questioned, Records
    <3>2. ASSUME NEW y \in Exchanges, NEW q \in Proxies, asking'[q].who = y, ~asking'[q].reads,
                 Verdict(view'[q], ex'[y].tok) = "record"
          PROVE  history'.standing[y]
      <4>1. CASE q = p
        BY <2>2, <2>3, <2>5, <3>2, <4>1
      <4>2. CASE q # p
        BY <2>2, <2>3, <2>4, <3>2, <4>2 DEF StandingInv
      <4> QED
        BY <4>1, <4>2
    <3> QED
      BY <3>1, <3>2 DEF StandingInv
  <2>7. ConsentInv'
    BY <2>1, <2>2, <2>3 DEF ConsentInv, Captured
  <2> QED
    BY <2>6, <2>7
<1>5. ASSUME NEW x \in Exchanges, Decide(x)
      PROVE  StandingInv' /\ ConsentInv'
  <2> DEFINE p == ex[x].by  verdict == Verdict(view'[p], ex[x].tok)
  <2>1. p \in Proxies /\ ex[x].tok \in Tokens /\ ex[x].fate = "none"
    BY <1>5 DEF Decide, ExchangeInv
  <2>2. PICK rec \in BOOLEAN :
          /\ rec => verdict = "record"
          /\ ex' = [ex EXCEPT ![x] = IF rec THEN [@ EXCEPT !.at = "open"] ELSE Ended("none")]
          /\ history'.standing = [history.standing EXCEPT ![x] = @ /\ rec]
          /\ history'.decided = [history.decided EXCEPT ![x] = history.standing[x] /\ rec]
    BY <1>5, <2>1, DecideHistory
  <2>3. /\ Answer(p) /\ asking[p].who = x /\ ex[x].at \in Questioned
        /\ asking' = [asking EXCEPT ![p] = NoAsk] /\ UNCHANGED <<table, file>>
    BY <1>5 DEF Decide, Questioned
  <2>4. rec => history.standing[x]
    BY <2>1, <2>2, <2>3, RecordAnswer
  <2>5. /\ \A y \in Exchanges \ {x} : /\ ex'[y] = ex[y]
                                      /\ history'.standing[y] = history.standing[y]
                                      /\ history'.decided[y] = history.decided[y]
        /\ history'.decided[x] = rec
    BY <2>2, <2>4 DEF Shape, Histories
  <2>6. ex'[x].at \in {"open", "ended"} /\ ex'[x].fate = "none" /\ (ex'[x].at = "open" => rec)
    BY <2>1, <2>2 DEF Shape, Courses, Ended, NoExchange
  <2>7. \A q \in Proxies \ {p} : view'[q] = view[q] /\ asking'[q] = asking[q] /\ asking[q].who # x
    BY <2>1, <2>3, AnswerShape, RecorderConstants DEF Shape, AskingInv
  <2>8. asking'[p].who \notin Exchanges
    BY <2>1, <2>3, RecorderConstants DEF Shape, NoAsk
  <2>9. StandingInv'
    BY <2>3, <2>5, <2>6, <2>7, <2>8 DEF StandingInv, Questioned, Records
  <2>10. ConsentInv'
    BY <2>5, <2>6 DEF ConsentInv, Captured
  <2> QED
    BY <2>9, <2>10
<1>6. ASSUME NEW x \in Exchanges, Recheck(x)
      PROVE  StandingInv' /\ ConsentInv'
  <2> DEFINE p == ex[x].by  verdict == Verdict(view'[p], ex[x].tok)
  <2>1. p \in Proxies /\ ex[x].tok \in Tokens /\ ex[x].fate = "none" /\ ex[x].at = "rechecking"
    BY <1>6 DEF Recheck, ExchangeInv
  <2>2. /\ Answer(p) /\ asking[p].who = x /\ ex[x].at \in Questioned
        /\ asking' = [asking EXCEPT ![p] = NoAsk] /\ UNCHANGED <<table, file>>
    BY <1>6 DEF Recheck, Questioned
  <2>3. \/ /\ ex'[x].at = "writing" /\ ex'[x].fate = "none"
           /\ history'.standing[x] /\ history'.decided[x]
        \/ ex'[x].at = "ended" /\ ex'[x].fate \in {"none", "counted"}
    <3>1. CASE verdict = "record"
      <4>1. history.standing[x] /\ history.decided[x]
        BY <2>1, <2>2, <3>1, RecordAnswer DEF ConsentInv, Captured
      <4> QED
        BY <1>6, <2>1, <3>1, <4>1 DEF Recheck, Shape, Courses
    <3>2. CASE verdict # "record"
      <4>1. Drop(x)
        BY <1>6, <3>2 DEF Recheck
      <4>2. PICK fate \in {"none", "counted"} : ex' = [ex EXCEPT ![x] = Ended(fate)]
        BY <2>1, <4>1, GivenUpHistory
      <4> QED
        BY <4>2 DEF Shape, Ended, NoExchange
    <3> QED
      BY <3>1, <3>2
  <2>4. \A y \in Exchanges \ {x} : /\ ex'[y] = ex[y]
                                   /\ history'.standing[y] = history.standing[y]
                                   /\ history'.decided[y] = history.decided[y]
    <3>1. CASE Drop(x)
      <4>1. /\ \E fate \in {"none", "counted"} : ex' = [ex EXCEPT ![x] = Ended(fate)]
            /\ history'.standing = [history.standing EXCEPT ![x] = FALSE]
            /\ history'.decided = [history.decided EXCEPT ![x] = FALSE]
        BY <2>1, <3>1, GivenUpHistory
      <4> QED
        BY <4>1 DEF Shape, Histories
    <3>2. CASE ~Drop(x)
      BY <1>6, <3>2 DEF Recheck, Shape
    <3> QED
      BY <3>1, <3>2
  <2>5. \A q \in Proxies \ {p} : view'[q] = view[q] /\ asking'[q] = asking[q] /\ asking[q].who # x
    BY <2>1, <2>2, AnswerShape, RecorderConstants DEF Shape, AskingInv
  <2>6. asking'[p].who \notin Exchanges
    BY <2>1, <2>2, RecorderConstants DEF Shape, NoAsk
  <2>7. StandingInv'
    BY <2>2, <2>3, <2>4, <2>5, <2>6 DEF StandingInv, Questioned, Records
  <2>8. ConsentInv'
    BY <2>3, <2>4 DEF ConsentInv, Captured
  <2> QED
    BY <2>7, <2>8
<1>7. ASSUME NEW x \in Exchanges, ErrorResponse(x) \/ OverLimit(x) \/ Expire(x) \/ WriteFails(x)
      PROVE  StandingInv' /\ ConsentInv'
  <2>1. ex[x].by \in Proxies /\ ex[x].at \in {"open", "taken", "writing"}
    BY <1>7 DEF ErrorResponse, OverLimit, Expire, WriteFails, ExchangeInv
  <2> QED
    BY <1>7, <2>1, StandingApart DEF ErrorResponse, OverLimit, Expire, WriteFails, Questioned
<1>8. ASSUME NEW x \in Exchanges, Finish(x)
      PROVE  StandingInv' /\ ConsentInv'
  <2>1. ex[x].by \in Proxies /\ ex[x].at = "open" /\ UNCHANGED <<routing, asking>>
    BY <1>8 DEF Finish, ExchangeInv
  <2>2. CASE Abandon(x)
    BY <2>1, <2>2, StandingApart DEF Questioned
  <2>3. CASE ex' = [ex EXCEPT ![x].at = "queued"] /\ history' = [history EXCEPT !.accepted = @ \cup {x}]
    <3>1. history'.standing = history.standing /\ history'.decided = history.decided
      BY <2>3 DEF Shape, Histories
    <3>2. /\ ex'[x].at = "queued" /\ ex'[x].tok = ex[x].tok /\ ex'[x].fate = ex[x].fate
          /\ \A y \in Exchanges \ {x} : ex'[y] = ex[y]
      BY <2>3 DEF Shape, Courses
    <3>3. StandingInv'
      BY <2>1, <3>1, <3>2 DEF StandingInv, Questioned, Records, routing
    <3>4. ConsentInv'
      BY <2>1, <3>1, <3>2 DEF ConsentInv, Captured
    <3> QED
      BY <3>3, <3>4
  <2> QED
    BY <1>8, <2>2, <2>3 DEF Finish
<1>9. ASSUME NEW x \in Exchanges, Write(x)
      PROVE  StandingInv' /\ ConsentInv'
  <2>1. ex[x].by \in Proxies /\ ex[x].at = "writing" /\ UNCHANGED <<routing, asking>>
    BY <1>9 DEF Write, ExchangeInv
  <2>2. CASE Drop(x)
    BY <2>1, <2>2, StandingApart DEF Questioned
  <2>3. CASE ~Drop(x)
    <3>1. ex' = [ex EXCEPT ![x] = Ended("stored")] /\ history' = [history EXCEPT !.accepted = @ \ {x}]
      BY <1>9, <2>3 DEF Write
    <3>2. history'.standing = history.standing /\ history'.decided = history.decided
      BY <3>1 DEF Shape, Histories
    <3>3. /\ ex'[x].at = "ended"
          /\ \A y \in Exchanges \ {x} : ex'[y] = ex[y]
      BY <3>1 DEF Shape, Ended, NoExchange
    <3>4. \A q \in Proxies : asking[q].who # x
      BY <2>1, RecorderConstants DEF AskingInv, Questioned
    <3>5. StandingInv'
      BY <2>1, <3>2, <3>3, <3>4 DEF StandingInv, Questioned, Records, routing
    <3>6. history.standing[x] /\ history.decided[x]
      BY <2>1 DEF ConsentInv, Captured
    <3>7. ConsentInv'
      BY <3>2, <3>3, <3>6 DEF ConsentInv, Captured
    <3> QED
      BY <3>5, <3>7
  <2> QED
    BY <2>2, <2>3
<1>10. ASSUME NEW p \in Proxies, Take(p)
       PROVE  StandingInv' /\ ConsentInv'
  <2> DEFINE x == Head(queue[p])
  <2>1. x \in Exchanges /\ ex[x].at = "queued" /\ ex[x].by = p
    <3>1. queue[p] \in Seq(Exchanges) /\ queue[p] # <<>>
      BY <1>10 DEF Take, QueueInv
    <3>2. 1 \in DOMAIN queue[p] /\ x = queue[p][1] /\ x \in Exchanges
      BY <3>1
    <3> QED
      BY <3>2 DEF QueueInv
  <2>2. /\ ex' = [ex EXCEPT ![x].at = "taken"]
        /\ history' = [history EXCEPT !.standing[x] = Records(ex[x].tok)]
        /\ UNCHANGED <<routing, asking>>
    BY <1>10 DEF Take
  <2>3. /\ ex'[x].at = "taken" /\ ex'[x].tok = ex[x].tok /\ ex'[x].fate = ex[x].fate
        /\ \A y \in Exchanges \ {x} : ex'[y] = ex[y]
    BY <2>1, <2>2 DEF Shape, Courses
  <2>4. /\ history'.standing[x] = Records(ex[x].tok) /\ history'.decided = history.decided
        /\ \A y \in Exchanges \ {x} : history'.standing[y] = history.standing[y]
    BY <2>1, <2>2 DEF Shape, Histories
  <2>5. \A q \in Proxies : asking[q].who # x
    BY <2>1, RecorderConstants DEF AskingInv, Questioned
  <2>6. UNCHANGED <<table, file, view, asking>>
    BY <2>2 DEF routing
  <2> HIDE DEF x
  <2>7. StandingInv'
    <3>1. \A t : Records(t)' <=> Records(t)
      BY <2>6 DEF Records
    <3>2. ASSUME NEW y \in Exchanges, ex'[y].at \in {"arrived", "taken"} \cup Questioned, Records(ex'[y].tok)
          PROVE  history'.standing[y]
      BY <2>3, <2>4, <3>2 DEF StandingInv
    <3>3. ASSUME NEW y \in Exchanges, NEW q \in Proxies,
                 asking[q].who = y, ~asking[q].reads, Verdict(view[q], ex'[y].tok) = "record"
          PROVE  history'.standing[y]
      BY <2>3, <2>4, <2>5, <3>3 DEF StandingInv
    <3> QED
      BY <2>6, <3>1, <3>2, <3>3 DEF StandingInv
  <2>8. ConsentInv'
    BY <2>1, <2>3, <2>4 DEF ConsentInv, ExchangeInv, Captured
  <2> QED
    BY <2>7, <2>8
<1>11. ASSUME NEW p \in Proxies, Exit(p)
       PROVE  StandingInv' /\ ConsentInv'
  <2> DEFINE cut == {x \in Exchanges : ex[x].by = p}
  <2>1. \A x \in Exchanges \ cut : /\ ex'[x] = ex[x]
                                   /\ history'.standing[x] = history.standing[x]
                                   /\ history'.decided[x] = history.decided[x]
    <3>1. \A x \in Exchanges \ cut : /\ history'.standing[x] = history.standing[x]
                                     /\ history'.decided[x] = history.decided[x]
      BY <1>11, ExitHistory
    <3>2. \A x \in Exchanges \ cut : ex'[x] = ex[x]
      BY <1>11 DEF Exit
    <3> QED
      BY <3>1, <3>2
  <2>2. \A x \in cut : ex'[x].at = "ended" /\ ex'[x].fate = "none"
    BY <1>11 DEF Exit, Ended, NoExchange
  <2>3. \A q \in Proxies \ {p} : view'[q] = view[q] /\ asking'[q] = asking[q]
    BY <1>11 DEF Exit, Shape
  <2>4. asking'[p].who \notin Exchanges /\ UNCHANGED <<table, file>>
    BY <1>11, RecorderConstants DEF Exit, Shape, NoAsk
  <2>5. \A q \in Proxies \ {p} : asking[q].who \notin cut
    BY RecorderConstants DEF AskingInv
  <2>6. StandingInv'
    <3>1. \A x \in Exchanges : ex'[x].at \in {"arrived", "taken"} \cup Questioned /\ Records(ex'[x].tok)
                                 => x \notin cut /\ history.standing[x]
      BY <2>1, <2>2 DEF StandingInv, Questioned
    <3>2. ASSUME NEW x \in Exchanges, NEW q \in Proxies, asking'[q].who = x, ~asking'[q].reads,
                 Verdict(view'[q], ex'[x].tok) = "record"
          PROVE  history'.standing[x]
      BY <2>1, <2>3, <2>4, <2>5, <3>2 DEF StandingInv
    <3> QED
      BY <2>1, <2>4, <3>1, <3>2 DEF StandingInv, Records
  <2>7. ConsentInv'
    BY <2>1, <2>2 DEF ConsentInv, Captured
  <2> QED
    BY <2>6, <2>7
<1>12. ASSUME NEW p \in Proxies,
              \/ Start(p) \/ Settle(p) \/ StopCreating(p) \/ ReleasePort(p) \/ CloseQueue(p)
              \/ Drained(p) \/ StopAccount(p) \/ TakeCounts(p) \/ PutCounts(p)
       PROVE  /\ UNCHANGED <<routing, asking, ex>>
              /\ history'.standing = history.standing /\ history'.decided = history.decided
  BY <1>12 DEF Start, Settle, StopCreating, ReleasePort, CloseQueue, Drained, StopAccount,
     TakeCounts, PutCounts, Shape, Histories
<1>13. ASSUME Uninstall \/ DeleteData
       PROVE  /\ UNCHANGED <<routing, asking, ex>>
              /\ history'.standing = history.standing /\ history'.decided = history.decided
  BY <1>13 DEF Uninstall, DeleteData, Shape, Histories
<1> QED
  BY <1>1, <1>2, <1>3, <1>4, <1>5, <1>6, <1>7, <1>8, <1>9, <1>10, <1>11, <1>12, <1>13
     DEF Next, Capture, Life

-----------------------------------------------------------------------------
(* Where traffic goes.                                                      *)

LEMMA PlacedStep ==
  ASSUME Shape, ExchangeInv, QueueInv, PlacedInv, Next
  PROVE  PlacedInv'
<1>1. CASE Commands
  <2>1. Rewritten
    BY <1>1, CommandShape, EditEffect
  <2>2. \A p \in Proxies : view'[p].entry = view[p].entry
    BY <2>1 DEF Rewritten, Shape, Views
  <2>3. /\ history'.stray = history.stray /\ history'.carried = history.carried
        /\ history'.dropped = history.dropped \cup (Placed(table) \ Placed(table'))
    <3>1. history' = [history EXCEPT !.standing = history'.standing,
                                     !.dropped = @ \cup (Placed(table) \ Placed(table'))]
      BY <2>1 DEF Rewritten
    <3> QED
      BY <3>1 DEF Shape, Histories
  <2> QED
    BY <2>2, <2>3 DEF PlacedInv, Placed
<1>2. CASE /\ UNCHANGED table /\ \A p \in Proxies : view'[p].entry = view[p].entry
           /\ \A f \in {"stray", "carried", "dropped"} : history'[f] = history[f]
  BY <1>2 DEF PlacedInv
<1>3. ASSUME NEW x \in Exchanges, Ask(x)
      PROVE  /\ UNCHANGED <<table, history>> /\ \A p \in Proxies : view'[p].entry = view[p].entry
  BY <1>3 DEF Ask, Look, Shape, Views
\* A lookup copies what the table holds, or keeps the copy.
<1>4. ASSUME NEW p \in Proxies, Answer(p), NEW t \in Tokens
      PROVE  /\ t \in history.carried[p] /\ view'[p].entry[t].state = "none" => t \in history.dropped
             /\ view'[p].entry[t].state # "none" /\ table.entry[t].state = "none" => t \in history.dropped
  <2>1. view'[p].entry \in {view[p].entry, table.entry}
    BY <1>4 DEF Answer, ReadFile, Shape, Views
  <2> QED
    BY <2>1 DEF PlacedInv
<1>5. ASSUME NEW x \in Exchanges, Decide(x)
      PROVE  PlacedInv'
  <2> DEFINE p == ex[x].by  tok == ex[x].tok  verdict == Verdict(view'[p], tok)
  <2>1. p \in Proxies /\ tok \in Tokens /\ Answer(p) /\ table' = table
    BY <1>5 DEF Decide, ExchangeInv
  <2>2. PICK sent \in BOOLEAN, up \in Upstreams :
          /\ sent => Forwards(verdict)
          /\ up = Default \/ Resolves(verdict)
          /\ history'.carried = [history.carried EXCEPT ![p] = IF sent /\ up # Default THEN @ \cup {tok} ELSE @]
          /\ history'.stray = IF sent /\ ~Resolves(verdict)
                            THEN history.stray \cup ({tok} \cap history.carried[p]) ELSE history.stray
          /\ \A f \in {"dropped", "accepted", "lapsed", "skipped", "late", "refused", "lost", "short", "unstopped"} :
               history'[f] = history[f]
    BY <1>5, <2>1, DecideHistory
  <2>3. history'.dropped = history.dropped
    BY <2>2
  <2>4. Resolves(verdict) => view'[p].entry[tok].state # "none"
    BY DEF Verdict, Resolves
  <2>5. sent /\ ~Resolves(verdict) => view'[p].entry[tok].state = "none"
    BY <2>2 DEF Verdict, Resolves, Forwards
  <2>6. history'.stray \subseteq history'.dropped
    BY <1>4, <2>1, <2>2, <2>3, <2>5 DEF PlacedInv
  <2>7. \A q \in Proxies \ {p} : view'[q] = view[q] /\ history'.carried[q] = history.carried[q]
    BY <2>1, <2>2, AnswerShape DEF Shape, Histories
  <2>8. ASSUME NEW t \in history'.carried[p], view'[p].entry[t].state = "none"
        PROVE  t \in history.carried[p]
    BY <2>1, <2>2, <2>4, <2>8 DEF Shape, Histories
  <2> HIDE DEF p
  <2> QED
    BY <1>4, <2>1, <2>3, <2>6, <2>7, <2>8 DEF PlacedInv
<1>6. ASSUME NEW x \in Exchanges, Recheck(x)
      PROVE  PlacedInv'
  <2> DEFINE p == ex[x].by
  <2>1. p \in Proxies /\ Answer(p) /\ table' = table
    BY <1>6 DEF Recheck, ExchangeInv
  <2>2. \A f \in {"stray", "carried", "dropped"} : history'[f] = history[f]
    <3>1. CASE Drop(x)
      BY <2>1, <3>1, GivenUpHistory DEF Untouched
    <3>2. CASE ~Drop(x)
      BY <1>6, <3>2 DEF Recheck
    <3> QED
      BY <3>1, <3>2
  <2>3. \A q \in Proxies \ {p} : view'[q] = view[q]
    BY <2>1, AnswerShape
  <2> HIDE DEF p
  <2> QED
    BY <1>4, <2>1, <2>2, <2>3 DEF PlacedInv
<1>7. ASSUME NEW p \in Proxies, Exit(p)
      PROVE  PlacedInv'
  <2>1. /\ \A q \in Proxies \ {p} : view'[q] = view[q] /\ history'.carried[q] = history.carried[q]
        /\ history'.carried[p] = {}
        /\ history'.stray = history.stray /\ history'.dropped = history.dropped
    <3>1. /\ history'.carried = [history.carried EXCEPT ![p] = {}]
          /\ history'.stray = history.stray /\ history'.dropped = history.dropped
      BY <1>7, ExitHistory
    <3>2. \A q \in Proxies \ {p} : view'[q] = view[q]
      BY <1>7 DEF Exit, Shape
    <3> QED
      BY <3>1, <3>2 DEF Shape, Histories
  <2>2. table' = table /\ \A t \in Tokens : view'[p].entry[t].state = "none"
    BY <1>7 DEF Exit, EmptyView, NoEntry, Shape
  <2> QED
    BY <2>1, <2>2 DEF PlacedInv
<1>8. ASSUME NEW x \in Exchanges, Capture(x), ~Ask(x), ~Decide(x), ~Recheck(x)
      PROVE  /\ UNCHANGED <<table, view>>
             /\ \A f \in {"stray", "carried", "dropped"} : history'[f] = history[f]
  <2>1. UNCHANGED <<table, view>>
    BY <1>8 DEF Capture, Arrive, ErrorResponse, OverLimit, Finish, Expire, Write, WriteFails, routing
  <2>2. CASE \E p \in Proxies, tok \in Tokens : Arrive(x, p, tok)
    <3>1. PICK tok \in Tokens : history' = [history EXCEPT !.standing[x] = Records(tok)]
      BY <2>2 DEF Arrive
    <3> QED
      BY <2>1, <3>1 DEF Shape, Histories
  <2>3. CASE ~\E p \in Proxies, tok \in Tokens : Arrive(x, p, tok)
    <3>1. ex[x].by \in Proxies
      BY <1>8, <2>3 DEF Capture, ErrorResponse, OverLimit, Finish, Expire, Write, WriteFails, ExchangeInv
    <3>2. CASE Drop(x) \/ Abandon(x)
      BY <2>1, <3>1, <3>2, GivenUpHistory DEF Untouched
    <3>3. CASE ~(Drop(x) \/ Abandon(x))
      <4>1. history' \in {[history EXCEPT !.accepted = @ \cup {x}], [history EXCEPT !.accepted = @ \ {x}]}
        BY <1>8, <2>3, <3>3 DEF Capture, ErrorResponse, OverLimit, Finish, Expire, Write, WriteFails
      <4> QED
        BY <2>1, <4>1 DEF Shape, Histories
    <3> QED
      BY <3>2, <3>3
  <2> QED
    BY <2>2, <2>3
<1>9. ASSUME NEW p \in Proxies, Life(p), ~Exit(p)
      PROVE  /\ UNCHANGED <<table, view>>
             /\ \A f \in {"stray", "carried", "dropped"} : history'[f] = history[f]
  BY <1>9 DEF Life, Start, Settle, StopCreating, ReleasePort, CloseQueue, Drained, StopAccount,
     Take, TakeCounts, PutCounts, routing, Shape, Histories
<1>10. ASSUME Uninstall \/ DeleteData
       PROVE  /\ UNCHANGED <<table, view>>
              /\ \A f \in {"stray", "carried", "dropped"} : history'[f] = history[f]
  BY <1>10 DEF Uninstall, DeleteData, routing, Shape, Histories
<1> QED
  BY <1>1, <1>2, <1>3, <1>5, <1>6, <1>7, <1>8, <1>9, <1>10 DEF Next

-----------------------------------------------------------------------------
(* The account, the queue and the data of a proxy on its way out.           *)

\* What a step of an exchange leaves alone, and what giving one up counts.
LEMMA CaptureEffect ==
  ASSUME Shape, ExchangeInv, NEW x \in Exchanges, Capture(x)
  PROVE  /\ UNCHANGED <<proxy, removal>>
         /\ \A f \in {"lapsed", "skipped", "refused", "lost", "short", "unstopped"} : history'[f] = history[f]
         /\ \/ account' = account /\ history'.late = history.late
            \/ /\ ex[x].by \in Proxies
               /\ account' = [account EXCEPT ![ex[x].by].unwritten = @ + 1, ![ex[x].by].wake = TRUE]
               /\ history'.late = IF proxy[ex[x].by].stage = "flushing"
                                  THEN [history.late EXCEPT ![ex[x].by] = @ + 1] ELSE history.late
<1>1. UNCHANGED <<proxy, removal>>
  BY DEF Capture, Arrive, Ask, Decide, ErrorResponse, OverLimit, Finish, Expire, Recheck, Write, WriteFails
<1>2. CASE \E p \in Proxies, tok \in Tokens : Arrive(x, p, tok)
  <2>1. PICK tok \in Tokens : history' = [history EXCEPT !.standing[x] = Records(tok)]
    BY <1>2 DEF Arrive
  <2>2. account' = account
    BY <1>2 DEF Arrive
  <2> QED
    BY <1>1, <2>1, <2>2 DEF Shape, Histories
<1>3. CASE Ask(x)
  BY <1>1, <1>3 DEF Ask
<1>4. CASE Decide(x)
  <2>1. ex[x].by \in Proxies /\ ex[x].tok \in Tokens /\ account' = account
    BY <1>4 DEF Decide, ExchangeInv
  <2>2. \A f \in {"dropped", "accepted", "lapsed", "skipped", "late", "refused", "lost", "short", "unstopped"} :
          history'[f] = history[f]
    BY <1>4, <2>1, DecideHistory
  <2> QED
    BY <1>1, <2>1, <2>2
<1>5. CASE Drop(x) \/ Abandon(x)
  <2>1. CASE ex[x].by \in Proxies
    BY <1>1, <1>5, <2>1, GivenUpHistory DEF Untouched
  <2>2. CASE ex[x].by \notin Proxies
    BY <1>2, <2>2 DEF Capture, Ask, Decide, ErrorResponse, OverLimit, Finish, Expire, Recheck, Write, WriteFails,
       ExchangeInv
  <2> QED
    BY <2>1, <2>2
<1>6. CASE /\ ErrorResponse(x) \/ OverLimit(x) \/ Finish(x) \/ Expire(x) \/ Recheck(x) \/ Write(x) \/ WriteFails(x)
           /\ ~(Drop(x) \/ Abandon(x))
  <2>1. /\ account' = account
        /\ history' \in {history, [history EXCEPT !.accepted = @ \cup {x}], [history EXCEPT !.accepted = @ \ {x}]}
    BY <1>6 DEF ErrorResponse, OverLimit, Finish, Expire, Recheck, Write, WriteFails
  <2> QED
    BY <1>1, <2>1 DEF Shape, Histories
<1> QED
  BY <1>2, <1>3, <1>4, <1>5, <1>6 DEF Capture

\* What the other steps leave of it.
LEMMA ElsewhereEffect ==
  ASSUME Shape, Commands \/ Uninstall
  PROVE  /\ UNCHANGED <<proxy, ex, queue, account, disk>>
         /\ \A f \in {"accepted", "lapsed", "skipped", "late", "refused", "lost", "short", "unstopped"} :
              history'[f] = history[f]
         /\ removal' # "deleted" \/ removal' = removal
<1>1. CASE Commands
  <2>1. Rewritten
    BY <1>1, CommandShape, EditEffect
  <2>2. history' = [history EXCEPT !.standing = history'.standing,
                                   !.dropped = @ \cup (Placed(table) \ Placed(table'))]
    BY <2>1 DEF Rewritten
  <2>3. UNCHANGED <<proxy, ex, queue, account, disk, removal>>
    BY <2>1 DEF Rewritten
  <2> QED
    BY <2>2, <2>3 DEF Shape, Histories
<1>2. CASE Uninstall
  BY <1>2 DEF Uninstall
<1> QED
  BY <1>1, <1>2

\* No write is behind a proxy that has ended.
LEMMA LastWriteStep ==
  ASSUME Shape, ExchangeInv, QueueInv, LastWriteInv, Next
  PROVE  LastWriteInv'
<1>1. CASE Commands \/ Uninstall
  BY <1>1, ElsewhereEffect DEF LastWriteInv
<1>2. CASE DeleteData
  BY <1>2 DEF DeleteData, LastWriteInv, Shape, Histories
<1>3. ASSUME NEW x \in Exchanges, Capture(x)
      PROVE  LastWriteInv'
  <2> DEFINE p == ex[x].by
  <2>1. proxy' = proxy /\ history'.refused = history.refused /\ history'.short = history.short
    BY <1>3, CaptureEffect
  <2>2. CASE account' = account /\ history'.late = history.late
    BY <2>1, <2>2 DEF LastWriteInv
  <2>3. CASE /\ p \in Proxies
             /\ account' = [account EXCEPT ![p].unwritten = @ + 1, ![p].wake = TRUE]
             /\ history'.late = IF proxy[p].stage = "flushing"
                                THEN [history.late EXCEPT ![p] = @ + 1] ELSE history.late
    <3>1. /\ account'[p].unwritten = account[p].unwritten + 1 /\ account'[p].busy = account[p].busy
          /\ \A q \in Proxies \ {p} : account'[q] = account[q] /\ history'.late[q] = history.late[q]
          /\ history'.late[p] = IF proxy[p].stage = "flushing" THEN history.late[p] + 1 ELSE history.late[p]
      BY <2>3 DEF Shape, Accounts, Histories
    <3> HIDE DEF p
    <3> QED
      BY <2>1, <2>3, <3>1 DEF LastWriteInv
  <2> QED
    BY <1>3, <2>2, <2>3, CaptureEffect
<1>4. ASSUME NEW p \in Proxies, TakeCounts(p)
      PROVE  LastWriteInv'
  BY <1>4 DEF TakeCounts, LastWriteInv, Shape
<1>5. ASSUME NEW p \in Proxies, PutCounts(p)
      PROVE  LastWriteInv'
  <2>1. account[p].busy /\ proxy' = proxy
    BY <1>5 DEF PutCounts
  <2>2. CASE /\ account' = [account EXCEPT ![p].delta = 0, ![p].busy = FALSE]
             /\ history' = [history EXCEPT !.refused = @ \ {p}]
    <3>1. /\ account'[p].unwritten = account[p].unwritten
          /\ \A q \in Proxies \ {p} : account'[q] = account[q]
      BY <2>2 DEF Shape, Accounts
    <3>2. /\ history'.refused = history.refused \ {p}
          /\ history'.late = history.late /\ history'.short = history.short
      BY <2>2 DEF Shape, Histories
    <3> QED
      BY <2>1, <3>1, <3>2 DEF LastWriteInv
  <2>3. CASE /\ account' = [account EXCEPT ![p].unwritten = @ + account[p].delta,
                                           ![p].delta = 0, ![p].busy = FALSE]
             /\ history' = [history EXCEPT !.refused = @ \cup {p}]
    <3>1. /\ account'[p].busy = FALSE
          /\ \A q \in Proxies \ {p} : account'[q] = account[q]
      BY <2>3 DEF Shape, Accounts
    <3>2. /\ history'.refused = history.refused \cup {p}
          /\ history'.late = history.late /\ history'.short = history.short
      BY <2>3 DEF Shape, Histories
    <3> QED
      BY <2>1, <3>1, <3>2 DEF LastWriteInv
  <2> QED
    BY <1>5, <2>2, <2>3, Zenon DEF PutCounts
<1>6. ASSUME NEW p \in Proxies, Start(p) \/ Settle(p) \/ StopCreating(p) \/ ReleasePort(p) \/ CloseQueue(p)
      PROVE  LastWriteInv'
  <2>1. /\ UNCHANGED <<account, history>> /\ proxy[p].stage # "flushing" /\ proxy'[p].stage # "flushing"
        /\ \A q \in Proxies \ {p} : proxy'[q] = proxy[q]
    BY <1>6 DEF Start, Settle, StopCreating, ReleasePort, CloseQueue, Stage, Shape, Lives
  <2> QED
    BY <2>1 DEF LastWriteInv
<1>7. ASSUME NEW p \in Proxies, Drained(p)
      PROVE  LastWriteInv'
  <2>1. /\ proxy[p].stage # "flushing" /\ proxy'[p].stage # "flushing" /\ account' = account
        /\ \A q \in Proxies \ {p} : proxy'[q] = proxy[q]
    BY <1>7 DEF Drained, Stage, Shape, Lives
  <2>2. \A f \in {"late", "refused", "short"} : history'[f] = history[f]
    BY <1>7 DEF Drained, Shape, Histories
  <2> QED
    BY <2>1, <2>2 DEF LastWriteInv
<1>8. ASSUME NEW p \in Proxies, StopAccount(p)
      PROVE  LastWriteInv'
  <2>1. /\ proxy[p].stage = "stopping" /\ account'[p].unwritten = 0 /\ history' = history
        /\ \A q \in Proxies \ {p} : proxy'[q] = proxy[q] /\ account'[q] = account[q]
    BY <1>8 DEF StopAccount, Stage, Shape
  <2>2. proxy'[p].stage = "flushing"
    BY <1>8 DEF StopAccount, Stage, Shape, Lives
  <2> QED
    BY <2>1, <2>2 DEF LastWriteInv
<1>9. ASSUME NEW p \in Proxies, Take(p)
      PROVE  LastWriteInv'
  <2>1. \A f \in {"late", "refused", "short"} : history'[f] = history[f]
    BY <1>9 DEF Take, Shape, Histories
  <2> QED
    BY <1>9, <2>1 DEF Take, LastWriteInv
<1>10. ASSUME NEW p \in Proxies, Exit(p)
       PROVE  LastWriteInv'
  <2>1. /\ proxy[p].stage = "flushing" /\ ~account[p].busy /\ proxy'[p].stage # "flushing"
        /\ \A q \in Proxies \ {p} : proxy'[q] = proxy[q] /\ account'[q] = account[q]
    BY <1>10 DEF Exit, Stage, Shape, Lives
  <2>2. /\ history'.late = [history.late EXCEPT ![p] = 0]
        /\ history'.refused = history.refused \ {p}
        /\ history'.short = (history.short \/ (p \notin history.refused /\ account[p].unwritten # history.late[p]))
    BY <1>10, ExitHistory
  <2>3. ~history'.short
    BY <2>1, <2>2 DEF LastWriteInv
  <2>4. history'.late[p] = 0 /\ \A q \in Proxies \ {p} : history'.late[q] = history.late[q]
    BY <2>2 DEF Shape, Histories
  <2> QED
    BY <2>1, <2>2, <2>3, <2>4 DEF LastWriteInv
<1> QED
  BY <1>1, <1>2, <1>3, <1>4, <1>5, <1>6, <1>7, <1>8, <1>9, <1>10 DEF Next, Life

\* Every step leaves a finished deletion complete.
LEMMA DeletionStep ==
  ASSUME Shape, ExchangeInv, QueueInv, DeletionInv, Next
  PROVE  DeletionInv'
<1>1. CASE Commands \/ Uninstall
  <2>1. UNCHANGED <<proxy, disk>> /\ history'.unstopped = history.unstopped /\ (removal' # "deleted" \/ removal' = removal)
    BY <1>1, ElsewhereEffect
  <2> QED
    BY <2>1 DEF DeletionInv, Listening
<1>2. CASE DeleteData
  <2>1. /\ ~disk'.dir /\ disk'.records = {} /\ proxy' = proxy
        /\ history'.unstopped = \E p \in Proxies : Listening(p)
    BY <1>2 DEF DeleteData, Shape, Disks, Histories
  <2> QED
    BY <2>1 DEF DeletionInv, Listening
<1>3. ASSUME NEW x \in Exchanges, Capture(x)
      PROVE  DeletionInv'
  <2>1. UNCHANGED <<proxy, removal>> /\ history'.unstopped = history.unstopped
    BY <1>3, CaptureEffect
  <2>2. CASE disk' = disk
    BY <2>1, <2>2 DEF DeletionInv, Listening
  <2>3. CASE disk' # disk
    <3>1. Write(x)
      BY <1>3, <2>3 DEF Capture, Arrive, Ask, Decide, ErrorResponse, OverLimit, Finish, Expire, Recheck, WriteFails
    <3>2. ex[x].by \in Proxies /\ Alive(ex[x].by) /\ ~(proxy[ex[x].by].careful /\ ~disk.dir)
      BY <2>3, <3>1 DEF Write, ExchangeInv
    <3>3. ~(removal = "deleted" /\ ~history.unstopped)
      BY <3>2 DEF DeletionInv, Alive, Listening
    <3> QED
      BY <2>1, <3>3 DEF DeletionInv
  <2> QED
    BY <2>2, <2>3
<1>4. ASSUME NEW p \in Proxies, Start(p)
      PROVE  DeletionInv'
  <2>1. /\ removal' = "none" /\ proxy'[p].stage = "serving"
        /\ \A q \in Proxies \ {p} : proxy'[q] = proxy[q]
    BY <1>4 DEF Start, Stage, Shape, Lives
  <2> QED
    BY <2>1 DEF DeletionInv
<1>5. ASSUME NEW p \in Proxies, Settle(p) \/ StopCreating(p) \/ ReleasePort(p) \/ CloseQueue(p)
      PROVE  DeletionInv'
  <2>1. /\ UNCHANGED <<disk, history, removal>>
        /\ Listening(p)' => Listening(p)
        /\ proxy'[p].stage \notin {"down", "serving", "settled", "exited"} => proxy'[p].careful
        /\ \A q \in Proxies \ {p} : proxy'[q] = proxy[q]
    BY <1>5 DEF Settle, StopCreating, ReleasePort, CloseQueue, Stage, Shape, Lives, Listening, DeletionInv
  <2> QED
    BY <2>1 DEF DeletionInv, Listening
<1>6. ASSUME NEW p \in Proxies, Drained(p) \/ StopAccount(p) \/ Exit(p)
      PROVE  DeletionInv'
  <2>1. UNCHANGED <<disk, removal>>
    BY <1>6 DEF Drained, StopAccount, Exit
  <2>2. /\ proxy[p].careful /\ proxy'[p].careful /\ ~Listening(p)'
        /\ \A q \in Proxies \ {p} : proxy'[q] = proxy[q]
    BY <1>6 DEF Drained, StopAccount, Exit, Stage, Shape, Lives, Listening, DeletionInv
  <2>3. history'.unstopped = history.unstopped
    <3>1. CASE Exit(p)
      BY <3>1, ExitHistory
    <3>2. CASE Drained(p) \/ StopAccount(p)
      BY <3>2 DEF Drained, StopAccount, Shape, Histories
    <3> QED
      BY <1>6, <3>1, <3>2
  <2> QED
    BY <2>1, <2>2, <2>3 DEF DeletionInv, Listening
<1>7. ASSUME NEW p \in Proxies, Take(p) \/ TakeCounts(p)
      PROVE  DeletionInv'
  <2>1. UNCHANGED <<proxy, disk, removal>> /\ history'.unstopped = history.unstopped
    BY <1>7 DEF Take, TakeCounts, Shape, Histories
  <2> QED
    BY <2>1 DEF DeletionInv, Listening
<1>8. ASSUME NEW p \in Proxies, PutCounts(p)
      PROVE  DeletionInv'
  <2>1. UNCHANGED <<proxy, removal>> /\ history'.unstopped = history.unstopped
    BY <1>8 DEF PutCounts, Shape, Histories
  <2>2. disk'.dir = disk.dir /\ disk'.records = disk.records
    BY <1>8 DEF PutCounts, Shape, Disks
  <2> QED
    BY <2>1, <2>2 DEF DeletionInv, Listening
<1> QED
  BY <1>1, <1>2, <1>3, <1>4, <1>5, <1>6, <1>7, <1>8 DEF Next, Life

\* Exchanges that stay what they are to the queue and the history.
LEMMA AcceptedApart ==
  ASSUME Shape, ExchangeInv, AcceptedInv, NEW x \in Exchanges,
         ex[x].at # "queued", ex'[x].at # "queued",
         \A y \in Exchanges \ {x} : ex'[y] = ex[y],
         x \in history'.accepted => /\ x \in history.accepted /\ ex'[x].at \in Accepted
                                    /\ ex'[x].by = ex[x].by,
         history'.accepted \ {x} = history.accepted \ {x},
         history'.lapsed = history.lapsed, history'.skipped = history.skipped,
         UNCHANGED <<proxy, queue>>
  PROVE  AcceptedInv'
BY DEF AcceptedInv

\* Every step leaves an accepted capture in its queue or with the writer.
LEMMA AcceptedStep ==
  ASSUME Shape, ExchangeInv, AskingInv, QueueInv, AcceptedInv, Next
  PROVE  AcceptedInv'
<1>1. CASE Commands \/ Uninstall
  <2>1. UNCHANGED <<proxy, ex, queue>>
    BY <1>1, ElsewhereEffect
  <2>2. \A f \in {"accepted", "lapsed", "skipped"} : history'[f] = history[f]
    BY <1>1, ElsewhereEffect
  <2> QED
    BY <2>1, <2>2 DEF AcceptedInv
<1>2. CASE DeleteData
  BY <1>2 DEF DeleteData, AcceptedInv, Shape, Histories
<1>3. ASSUME NEW x \in Exchanges, NEW p \in Proxies, NEW tok \in Tokens, Arrive(x, p, tok)
      PROVE  AcceptedInv'
  <2>1. /\ ex[x].at = "none" /\ ex'[x].at = "arrived" /\ \A y \in Exchanges \ {x} : ex'[y] = ex[y]
        /\ UNCHANGED <<proxy, queue>>
    BY <1>3 DEF Arrive, Shape, NoExchange
  <2>2. \A f \in {"accepted", "lapsed", "skipped"} : history'[f] = history[f]
    BY <1>3 DEF Arrive, Shape, Histories
  <2>3. x \notin history.accepted
    BY <2>1 DEF AcceptedInv, Accepted
  <2> QED
    BY <2>1, <2>2, <2>3, AcceptedApart
<1>4. ASSUME NEW x \in Exchanges, Ask(x)
      PROVE  AcceptedInv'
  <2>1. /\ ex[x].at \in {"arrived", "taken"} /\ ex'[x].by = ex[x].by
        /\ ex'[x].at = IF ex[x].at = "arrived" THEN "deciding" ELSE "rechecking"
        /\ \A y \in Exchanges \ {x} : ex'[y] = ex[y]
        /\ UNCHANGED <<proxy, queue, history>>
    BY <1>4 DEF Ask, Shape, Courses
  <2>2. x \in history.accepted => ex'[x].at \in Accepted
    BY <2>1 DEF AcceptedInv, Accepted
  <2> QED
    BY <2>1, <2>2, AcceptedApart
<1>5. ASSUME NEW x \in Exchanges, Decide(x)
      PROVE  AcceptedInv'
  <2>1. ex[x].by \in Proxies /\ ex[x].tok \in Tokens /\ ex[x].at = "deciding" /\ UNCHANGED <<proxy, queue>>
    BY <1>5 DEF Decide, ExchangeInv
  <2>2. \A f \in {"dropped", "accepted", "lapsed", "skipped", "late", "refused", "lost", "short", "unstopped"} :
          history'[f] = history[f]
    BY <1>5, <2>1, DecideHistory
  <2>3. \E rec \in BOOLEAN : ex' = [ex EXCEPT ![x] = IF rec THEN [@ EXCEPT !.at = "open"] ELSE Ended("none")]
    BY <1>5, <2>1, DecideHistory
  <2>4. ex'[x].at \in {"open", "ended"} /\ \A y \in Exchanges \ {x} : ex'[y] = ex[y]
    BY <2>3 DEF Shape, Courses, Ended, NoExchange
  <2>5. x \notin history.accepted
    BY <2>1 DEF AcceptedInv, Accepted
  <2> QED
    BY <2>1, <2>2, <2>4, <2>5, AcceptedApart
<1>6. ASSUME NEW x \in Exchanges, ex[x].at \notin {"none", "queued", "ended"}, Drop(x) \/ Abandon(x),
             UNCHANGED <<proxy, queue>>
      PROVE  AcceptedInv'
  <2>1. ex[x].by \in Proxies
    BY <1>6 DEF ExchangeInv
  <2>2. /\ \E fate \in {"none", "counted"} : ex' = [ex EXCEPT ![x] = Ended(fate)]
        /\ history'.accepted = history.accepted \ {x}
        /\ history'.lapsed = history.lapsed /\ history'.skipped = history.skipped
    BY <1>6, <2>1, GivenUpHistory DEF Untouched
  <2>3. ex'[x].at = "ended" /\ \A y \in Exchanges \ {x} : ex'[y] = ex[y]
    BY <2>2 DEF Shape, Ended, NoExchange
  <2> QED
    BY <1>6, <2>2, <2>3, AcceptedApart
<1>7. ASSUME NEW x \in Exchanges, ErrorResponse(x) \/ OverLimit(x) \/ Expire(x) \/ WriteFails(x)
      PROVE  AcceptedInv'
  BY <1>6, <1>7 DEF ErrorResponse, OverLimit, Expire, WriteFails
<1>8. ASSUME NEW x \in Exchanges, Finish(x)
      PROVE  AcceptedInv'
  <2> DEFINE p == ex[x].by
  <2>1. p \in Proxies /\ ex[x].at = "open" /\ proxy' = proxy
    BY <1>8 DEF Finish, ExchangeInv
  <2>2. CASE QueueClosed(p) \/ Len(queue[p]) = QueueDepth
    BY <1>6, <1>8, <2>1, <2>2 DEF Finish
  <2>3. CASE ~(QueueClosed(p) \/ Len(queue[p]) = QueueDepth)
    <3>1. /\ ex' = [ex EXCEPT ![x].at = "queued"] /\ queue' = [queue EXCEPT ![p] = Append(@, x)]
          /\ history' = [history EXCEPT !.accepted = @ \cup {x}]
      BY <1>8, <2>3 DEF Finish
    <3>2. /\ ex'[x].at = "queued" /\ ex'[x].by = p
          /\ \A y \in Exchanges \ {x} : ex'[y] = ex[y]
      BY <3>1 DEF Shape, Courses
    <3>3. /\ history'.accepted = history.accepted \cup {x}
          /\ history'.lapsed = history.lapsed /\ history'.skipped = history.skipped
      BY <3>1 DEF Shape, Histories
    <3>4. proxy[p].stage \notin {"stopping", "flushing"}
      BY <2>3 DEF QueueClosed
    <3>5. queue[p] \in Seq(Exchanges) /\ queue'[p] = Append(queue[p], x)
      BY <2>1, <3>1 DEF QueueInv
    <3>6. ASSUME NEW y \in Exchanges, ex'[y].at = "queued"
          PROVE  \E i \in DOMAIN queue'[ex'[y].by] : queue'[ex'[y].by][i] = y
      <4>1. CASE y = x
        BY <3>2, <3>5, <4>1
      <4>2. CASE y # x
        <5>1. ex'[y] = ex[y] /\ ex[y].at = "queued"
          BY <3>2, <3>6, <4>2
        <5>2. PICK i \in DOMAIN queue[ex[y].by] : queue[ex[y].by][i] = y
          BY <5>1 DEF AcceptedInv
        <5>3. ex[y].by \in Proxies
          BY <5>1 DEF ExchangeInv
        <5>4. i \in DOMAIN queue'[ex[y].by] /\ queue'[ex[y].by][i] = y
          <6>1. CASE ex[y].by = p
            <7>1. i \in DOMAIN queue[p] /\ queue[p][i] = y
              BY <5>2, <6>1
            <7>2. i \in DOMAIN queue'[p] /\ queue'[p][i] = queue[p][i]
              BY <3>5, <7>1
            <7> QED
              BY <6>1, <7>1, <7>2
          <6>2. CASE ex[y].by # p
            BY <3>1, <5>2, <5>3, <6>2 DEF QueueInv
          <6> QED
            BY <6>1, <6>2
        <5> QED
          BY <5>1, <5>4
      <4> QED
        BY <4>1, <4>2
    <3> HIDE DEF p
    <3> QED
      BY <2>1, <3>2, <3>3, <3>4, <3>6 DEF AcceptedInv, Accepted
  <2> QED
    BY <2>2, <2>3
<1>9. ASSUME NEW x \in Exchanges, Recheck(x)
      PROVE  AcceptedInv'
  <2>1. ex[x].at = "rechecking" /\ UNCHANGED <<proxy, queue>>
    BY <1>9 DEF Recheck
  <2>2. CASE Drop(x)
    BY <1>6, <2>1, <2>2
  <2>3. CASE ~Drop(x)
    <3>1. ex' = [ex EXCEPT ![x].at = "writing"] /\ history' = history
      BY <1>9, <2>3 DEF Recheck
    <3>2. ex'[x].at = "writing" /\ ex'[x].by = ex[x].by /\ \A y \in Exchanges \ {x} : ex'[y] = ex[y]
      BY <3>1 DEF Shape, Courses
    <3> QED
      BY <2>1, <3>1, <3>2, AcceptedApart DEF Accepted
  <2> QED
    BY <2>2, <2>3
<1>10. ASSUME NEW x \in Exchanges, Write(x)
       PROVE  AcceptedInv'
  <2>1. ex[x].at = "writing" /\ UNCHANGED <<proxy, queue>>
    BY <1>10 DEF Write
  <2>2. CASE Drop(x)
    BY <1>6, <2>1, <2>2
  <2>3. CASE ~Drop(x)
    <3>1. ex' = [ex EXCEPT ![x] = Ended("stored")] /\ history' = [history EXCEPT !.accepted = @ \ {x}]
      BY <1>10, <2>3 DEF Write
    <3>2. ex'[x].at = "ended" /\ \A y \in Exchanges \ {x} : ex'[y] = ex[y]
      BY <3>1 DEF Shape, Ended, NoExchange
    <3>3. /\ history'.accepted = history.accepted \ {x}
          /\ history'.lapsed = history.lapsed /\ history'.skipped = history.skipped
      BY <3>1 DEF Shape, Histories
    <3> QED
      BY <2>1, <3>2, <3>3, AcceptedApart
  <2> QED
    BY <2>2, <2>3
<1>11. ASSUME NEW p \in Proxies, Take(p)
       PROVE  AcceptedInv'
  <2> DEFINE x == Head(queue[p])
  <2>1. queue[p] \in Seq(Exchanges) /\ queue[p] # <<>>
    BY <1>11 DEF Take, QueueInv
  <2>2. 1 \in DOMAIN queue[p] /\ x = queue[p][1] /\ x \in Exchanges
    BY <2>1
  <2>3. ex[x].at = "queued" /\ ex[x].by = p
    BY <2>2 DEF QueueInv
  <2>4. /\ ex' = [ex EXCEPT ![x].at = "taken"] /\ queue' = [queue EXCEPT ![p] = Tail(@)]
        /\ history' = [history EXCEPT !.standing[x] = Records(ex[x].tok)] /\ proxy' = proxy
    BY <1>11 DEF Take
  <2>5. \A f \in {"accepted", "lapsed", "skipped"} : history'[f] = history[f]
    BY <2>4 DEF Shape, Histories
  <2>6. ex'[x].at = "taken" /\ ex'[x].by = p /\ \A y \in Exchanges \ {x} : ex'[y] = ex[y]
    BY <2>2, <2>3, <2>4 DEF Shape, Courses
  <2>7. queue'[p] = Tail(queue[p]) /\ \A q \in Proxies \ {p} : queue'[q] = queue[q]
    BY <2>4 DEF QueueInv
  <2>8. ASSUME NEW y \in Exchanges, ex'[y].at = "queued"
        PROVE  \E i \in DOMAIN queue'[ex'[y].by] : queue'[ex'[y].by][i] = y
    <3>1. y # x /\ ex'[y] = ex[y] /\ ex[y].at = "queued"
      BY <2>6, <2>8
    <3>2. PICK i \in DOMAIN queue[ex[y].by] : queue[ex[y].by][i] = y
      BY <3>1 DEF AcceptedInv
    <3>3. ex[y].by \in Proxies
      BY <3>1 DEF ExchangeInv
    <3>4. CASE ex[y].by = p
      <4>1. i # 1
        BY <2>2, <3>1, <3>2, <3>4
      <4>2. i - 1 \in DOMAIN Tail(queue[p]) /\ Tail(queue[p])[i - 1] = queue[p][i]
        BY <2>1, <3>2, <3>4, <4>1
      <4> QED
        BY <2>7, <3>1, <3>2, <3>4, <4>2
    <3>5. CASE ex[y].by # p
      BY <2>7, <3>1, <3>2, <3>3, <3>5
    <3> QED
      BY <3>4, <3>5
  <2> HIDE DEF x
  <2>9. proxy' = proxy
    BY <2>4
  <2>10. \A y \in Exchanges : ex'[y].by = ex[y].by
    BY <2>3, <2>6
  <2>11. \A y \in Exchanges : y \in history.accepted => ex'[y].at \in Accepted
    BY <2>6 DEF AcceptedInv, Accepted
  <2> QED
    BY <2>5, <2>8, <2>9, <2>10, <2>11 DEF AcceptedInv
<1>12. ASSUME NEW p \in Proxies, TakeCounts(p) \/ PutCounts(p)
       PROVE  AcceptedInv'
  <2>1. UNCHANGED <<proxy, ex, queue>>
    BY <1>12 DEF TakeCounts, PutCounts
  <2>2. \A f \in {"accepted", "lapsed", "skipped"} : history'[f] = history[f]
    BY <1>12 DEF TakeCounts, PutCounts, Shape, Histories
  <2> QED
    BY <2>1, <2>2 DEF AcceptedInv
<1>13. ASSUME NEW p \in Proxies,
              Start(p) \/ Settle(p) \/ StopCreating(p) \/ ReleasePort(p) \/ CloseQueue(p) \/ StopAccount(p)
       PROVE  AcceptedInv'
  <2>1. /\ UNCHANGED <<ex, queue, history>>
        /\ proxy'[p].stage \in {"stopping", "flushing"} => proxy[p].stage = "stopping"
        /\ \A q \in Proxies \ {p} : proxy'[q] = proxy[q]
    BY <1>13 DEF Start, Settle, StopCreating, ReleasePort, CloseQueue, StopAccount, Stage, Shape, Lives
  <2>2. \A x \in Exchanges : x \in history.accepted => ex[x].by \in Proxies
    BY DEF AcceptedInv, Accepted, ExchangeInv
  <2> QED
    BY <2>1, <2>2 DEF AcceptedInv
<1>14. ASSUME NEW p \in Proxies, Drained(p)
       PROVE  AcceptedInv'
  <2>1. /\ UNCHANGED <<ex, queue>> /\ \A q \in Proxies \ {p} : proxy'[q] = proxy[q]
        /\ history' = [history EXCEPT !.lapsed = IF queue[p] = <<>> /\ ~Writing(p) THEN @ ELSE @ \cup {p}]
    BY <1>14 DEF Drained, Stage, Shape
  <2>2. /\ history'.accepted = history.accepted /\ history'.skipped = history.skipped
        /\ history'.lapsed = IF queue[p] = <<>> /\ ~Writing(p) THEN history.lapsed ELSE history.lapsed \cup {p}
    BY <2>1 DEF Shape, Histories
  <2>3. ASSUME NEW x \in history.accepted, x \in Exchanges, ex[x].by = p
        PROVE  p \in history'.lapsed
    <3>1. CASE ex[x].at = "queued"
      <4>1. queue[p] # <<>>
        BY <2>3, <3>1 DEF AcceptedInv
      <4> QED
        BY <2>2, <4>1
    <3>2. CASE ex[x].at \in {"taken", "rechecking", "writing"}
      BY <2>2, <2>3, <3>2 DEF Writing
    <3> QED
      BY <2>3, <3>1, <3>2 DEF AcceptedInv, Accepted
  <2>4. \A x \in Exchanges : x \in history.accepted => ex[x].by \in Proxies
    BY DEF AcceptedInv, Accepted, ExchangeInv
  <2> QED
    BY <2>1, <2>2, <2>3, <2>4 DEF AcceptedInv
<1>15. ASSUME NEW p \in Proxies, Exit(p)
       PROVE  AcceptedInv'
  <2> DEFINE cut == {x \in Exchanges : ex[x].by = p}
  <2>1. /\ history'.accepted = history.accepted \ cut
        /\ history'.lapsed = history.lapsed \ {p}
        /\ history'.skipped = (history.skipped \/ (cut \cap history.accepted # {} /\ p \notin history.lapsed))
    BY <1>15, ExitHistory
  <2>2. /\ proxy[p].stage = "flushing" /\ proxy'[p].stage = "exited"
        /\ \A q \in Proxies \ {p} : proxy'[q] = proxy[q] /\ queue'[q] = queue[q]
    BY <1>15 DEF Exit, Stage, Shape, Lives, QueueInv
  <2>3. \A x \in Exchanges : ex'[x] = IF ex[x].by = p THEN Ended("none") ELSE ex[x]
    BY <1>15 DEF Exit
  <2>4. Ended("none").at = "ended" /\ Ended("none").by = None
    BY DEF Ended, NoExchange
  <2>5. ~history'.skipped
    <3>1. ASSUME NEW x \in Exchanges, ex[x].by = p, x \in history.accepted
          PROVE  p \in history.lapsed
      BY <2>2, <3>1 DEF AcceptedInv
    <3>2. ~(cut \cap history.accepted # {} /\ p \notin history.lapsed)
      BY <3>1
    <3>3. ~history.skipped
      BY DEF AcceptedInv
    <3> QED
      BY <2>1, <3>2, <3>3
  <2>6. \A x \in Exchanges : ex[x].at = "queued" \/ x \in history.accepted => ex[x].by \in Proxies
    BY DEF AcceptedInv, Accepted, ExchangeInv
  <2> QED
    BY <2>1, <2>2, <2>3, <2>4, <2>5, <2>6 DEF AcceptedInv
<1> QED
  BY <1>1, <1>2, <1>3, <1>4, <1>5, <1>7, <1>8, <1>9, <1>10, <1>11, <1>12, <1>13, <1>14, <1>15
     DEF Next, Capture, Life

-----------------------------------------------------------------------------
(* The counts.                                                              *)

\* What is in memory by the accounts is what one proxy has there, and what the
\* others have.
Mine(acc, p)   == {p} \X (1..(acc[p].unwritten + acc[p].delta))
All(acc)       == UNION {Mine(acc, p) : p \in Proxies}
Theirs(acc, p) == {m \in All(acc) : m[1] # p}

LEMMA InMemoryOf ==
  ASSUME NEW acc, NEW p \in Proxies, \A q \in Proxies : acc[q].unwritten \in Nat /\ acc[q].delta \in Nat
  PROVE  /\ IsFiniteSet(Mine(acc, p)) /\ Cardinality(Mine(acc, p)) = acc[p].unwritten + acc[p].delta
         /\ IsFiniteSet(Theirs(acc, p)) /\ All(acc) = Mine(acc, p) \cup Theirs(acc, p)
         /\ Mine(acc, p) \cap Theirs(acc, p) = {}
<1>1. ASSUME NEW q \in Proxies PROVE IsFiniteSet(Mine(acc, q)) /\ Cardinality(Mine(acc, q)) = acc[q].unwritten + acc[q].delta
  <2>1. PICK n \in Nat : n = acc[q].unwritten + acc[q].delta
    OBVIOUS
  <2>2. IsFiniteSet(1..n) /\ Cardinality(1..n) = n
    <3>1. 1 \in Int /\ n \in Int
      OBVIOUS
    <3>2. Cardinality(1..n) = IF 1 > n THEN 0 ELSE n - 1 + 1
      BY <3>1, FS_Interval
    <3>3. (IF 1 > n THEN 0 ELSE n - 1 + 1) = n
      OBVIOUS
    <3> QED
      BY <3>1, <3>2, <3>3, FS_Interval
  <2>3. IsFiniteSet({q}) /\ Cardinality({q}) = 1
    BY FS_Singleton
  <2>4. IsFiniteSet({q} \X (1..n)) /\ Cardinality({q} \X (1..n)) = 1 * n
    BY <2>2, <2>3, FS_Product
  <2> QED
    BY <2>1, <2>4 DEF Mine
<1>2. IsFiniteSet({Mine(acc, q) : q \in Proxies})
  <2> DEFINE f == [q \in Proxies |-> Mine(acc, q)]
             T == {Mine(acc, q) : q \in Proxies}
  <2>1. f \in Surjection(Proxies, T)
    BY DEF Surjection
  <2> HIDE DEF f, T
  <2>2. IsFiniteSet(T)
    BY <2>1, RecorderConstants, FS_Surjection
  <2> QED
    BY <2>2 DEF T
<1>3. IsFiniteSet(All(acc))
  BY <1>1, <1>2, FS_UNION DEF All
<1>4. \A m \in All(acc) : m[1] = p <=> m \in Mine(acc, p)
  BY DEF All, Mine
<1>5. Mine(acc, p) \subseteq All(acc)
  BY DEF All
<1> QED
  BY <1>1, <1>3, <1>4, <1>5, FS_Subset DEF Theirs

\* What one proxy gains, all gain.
LEMMA InMemoryChange ==
  ASSUME Shape, Shape', NEW p \in Proxies, \A q \in Proxies \ {p} : account'[q] = account[q]
  PROVE  /\ Cardinality(InMemory) \in Int /\ Cardinality(InMemory') \in Int
         /\ Cardinality(InMemory') - Cardinality(InMemory)
              = (account'[p].unwritten + account'[p].delta) - (account[p].unwritten + account[p].delta)
<1>1. \A q \in Proxies : account[q].unwritten \in Nat /\ account[q].delta \in Nat
  BY DEF Shape, Accounts
<1>2. \A q \in Proxies : account'[q].unwritten \in Nat /\ account'[q].delta \in Nat
  BY DEF Shape, Accounts
<1> DEFINE old == account
           new == account'
<1>3. /\ IsFiniteSet(Mine(old, p)) /\ Cardinality(Mine(old, p)) = account[p].unwritten + account[p].delta
      /\ IsFiniteSet(Theirs(old, p)) /\ All(old) = Mine(old, p) \cup Theirs(old, p)
      /\ Mine(old, p) \cap Theirs(old, p) = {}
  BY <1>1, InMemoryOf
<1>4. /\ IsFiniteSet(Mine(new, p)) /\ Cardinality(Mine(new, p)) = account'[p].unwritten + account'[p].delta
      /\ IsFiniteSet(Theirs(new, p)) /\ All(new) = Mine(new, p) \cup Theirs(new, p)
      /\ Mine(new, p) \cap Theirs(new, p) = {}
  BY <1>2, InMemoryOf
<1>5. Theirs(new, p) = Theirs(old, p)
  <2>1. \A q \in Proxies : q # p => Mine(new, q) = Mine(old, q)
    BY DEF Mine
  <2>2. ASSUME NEW m PROVE m \in Theirs(new, p) <=> m \in Theirs(old, p)
    BY <2>1 DEF Theirs, All, Mine
  <2> QED
    BY <2>2
<1>6. All(old) = InMemory /\ All(new) = InMemory'
  BY DEF All, Mine, InMemory
<1> HIDE DEF old, new
<1>7. /\ Cardinality(All(old)) = Cardinality(Mine(old, p)) + Cardinality(Theirs(old, p)) - Cardinality({})
      /\ Cardinality(All(new)) = Cardinality(Mine(new, p)) + Cardinality(Theirs(old, p)) - Cardinality({})
  BY <1>3, <1>4, <1>5, FS_Union
<1>8. Cardinality({}) = 0 /\ Cardinality(Theirs(old, p)) \in Nat
  BY <1>3, FS_EmptySet, FS_CardinalityType
<1> QED
  BY <1>1, <1>2, <1>3, <1>4, <1>6, <1>7, <1>8

\* A step that gives nothing up and moves no count.
LEMMA CountKept ==
  ASSUME CountInv, account' = account, disk'.counted = disk.counted, history'.lost = history.lost,
         \A y \in Exchanges : ex'[y].fate = "counted" <=> ex[y].fate = "counted"
  PROVE  CountInv'
<1>1. InMemory' = InMemory /\ GivenUp' = GivenUp
  BY DEF InMemory, GivenUp
<1> QED
  BY <1>1 DEF CountInv

\* A step that moves counts of one proxy, and may give an exchange up.
LEMMA CountMoves ==
  ASSUME Shape, Shape', CountInv, NEW p \in Proxies,
         \A q \in Proxies \ {p} : account'[q] = account[q],
         ~account'[p].busy => account'[p].delta = 0,
         Cardinality(GivenUp') - Cardinality(GivenUp)
           = (disk'.counted - disk.counted) + (history'.lost - history.lost)
               + ((account'[p].unwritten + account'[p].delta) - (account[p].unwritten + account[p].delta))
  PROVE  CountInv'
<1>1. /\ account[p].unwritten \in Int /\ account[p].delta \in Int
      /\ account'[p].unwritten \in Int /\ account'[p].delta \in Int
  BY DEF Shape, Accounts
<1>2. /\ Cardinality(InMemory) \in Int /\ Cardinality(InMemory') \in Int
      /\ Cardinality(InMemory') - Cardinality(InMemory)
           = (account'[p].unwritten + account'[p].delta) - (account[p].unwritten + account[p].delta)
  BY InMemoryChange
<1>6. Cardinality(GivenUp) \in Int /\ Cardinality(GivenUp') \in Int
  BY RecorderConstants, FS_Subset, FS_CardinalityType DEF GivenUp
<1>7. /\ disk.counted \in Int /\ disk'.counted \in Int /\ history.lost \in Int /\ history'.lost \in Int
  BY DEF Shape, Disks, Histories
<1>8. disk.counted + history.lost + Cardinality(InMemory) = Cardinality(GivenUp)
  BY DEF CountInv
<1>9. \A a, b, c, d, e, f, g, h, k, l \in Int :
        a + b + c = d /\ e - c = k - l /\ f - d = (g - a) + (h - b) + (k - l) => g + h + e = f
  OBVIOUS
<1>10. disk'.counted + history'.lost + Cardinality(InMemory') = Cardinality(GivenUp')
  BY <1>1, <1>2, <1>6, <1>7, <1>8, <1>9
<1> QED
  BY <1>10 DEF CountInv

\* An exchange that is given up was not before, and is one more.
LEMMA GivenUpGrows ==
  ASSUME Shape, ExchangeInv, NEW x \in Exchanges, ex[x].at # "ended", ex' = [ex EXCEPT ![x] = Ended("counted")]
  PROVE  Cardinality(GivenUp') = Cardinality(GivenUp) + 1
<1>1. ex[x].fate = "none"
  BY DEF ExchangeInv
<1>2. ex'[x].fate = "counted" /\ \A y \in Exchanges \ {x} : ex'[y] = ex[y]
  BY DEF Shape, Ended, NoExchange
<1>3. GivenUp' = GivenUp \cup {x} /\ x \notin GivenUp
  BY <1>1, <1>2 DEF GivenUp
<1>4. IsFiniteSet(GivenUp)
  BY RecorderConstants, FS_Subset DEF GivenUp
<1> QED
  BY <1>3, <1>4, FS_AddElement

\* What an exchange that is given up counts is one more.
LEMMA AbandonCounts ==
  ASSUME Shape, Shape', ExchangeInv, CountInv, NEW x \in Exchanges, ex[x].at \notin {"none", "ended"},
         Abandon(x), disk' = disk
  PROVE  CountInv'
<1> DEFINE p == ex[x].by
<1>1. p \in Proxies
  BY DEF ExchangeInv
<1>2. /\ ex' = [ex EXCEPT ![x] = Ended("counted")]
      /\ account' = [account EXCEPT ![p].unwritten = @ + 1, ![p].wake = TRUE]
  BY DEF Abandon
<1>3. history'.lost = history.lost
  BY <1>1, GivenUpHistory DEF Untouched
<1>4. Cardinality(GivenUp') = Cardinality(GivenUp) + 1
  BY <1>2, GivenUpGrows
<1>5. /\ account'[p].unwritten = account[p].unwritten + 1 /\ account'[p].delta = account[p].delta
      /\ account'[p].busy = account[p].busy
      /\ \A q \in Proxies \ {p} : account'[q] = account[q]
  BY <1>1, <1>2 DEF Shape, Accounts
<1> HIDE DEF p
<1>6. /\ account[p].unwritten \in Int /\ account[p].delta \in Int
      /\ disk.counted \in Int /\ history.lost \in Int /\ Cardinality(GivenUp) \in Int
  <2>1. IsFiniteSet(GivenUp)
    BY RecorderConstants, FS_Subset DEF GivenUp
  <2> QED
    BY <1>1, <2>1, FS_CardinalityType DEF Shape, Accounts, Disks, Histories
<1>7. \A a, b, c, d, e \in Int : (a + 1) - a = (b - b) + (c - c) + (((d + 1) + e) - (d + e))
  OBVIOUS
<1>8. Cardinality(GivenUp') - Cardinality(GivenUp)
        = (disk'.counted - disk.counted) + (history'.lost - history.lost)
            + ((account'[p].unwritten + account'[p].delta) - (account[p].unwritten + account[p].delta))
  BY <1>3, <1>4, <1>5, <1>6, <1>7
<1>9. ~account'[p].busy => account'[p].delta = 0
  BY <1>1, <1>5 DEF CountInv
<1> QED
  BY <1>1, <1>5, <1>8, <1>9, CountMoves

\* A step that ends an exchange otherwise, or leaves it under way, counts
\* nothing.
LEMMA FateKept ==
  ASSUME ExchangeInv, CountInv, NEW x \in Exchanges, ex[x].at # "ended", ex'[x].fate # "counted",
         \A y \in Exchanges \ {x} : ex'[y] = ex[y],
         account' = account, disk'.counted = disk.counted, history'.lost = history.lost
  PROVE  CountInv'
<1>1. ex[x].fate # "counted"
  BY DEF ExchangeInv
<1> QED
  BY <1>1, CountKept

\* Every step of an exchange keeps the counts.
LEMMA CaptureCounts ==
  ASSUME Shape, Shape', ExchangeInv, CountInv, NEW x \in Exchanges, Capture(x)
  PROVE  CountInv'
<1>0. history'.lost = history.lost
  BY CaptureEffect
<1>1. CASE Drop(x) /\ ex[x].at # "ended" /\ disk' = disk
  <2>1. ex'[x] = Ended("none") /\ (\A y \in Exchanges \ {x} : ex'[y] = ex[y]) /\ account' = account
    BY <1>1 DEF Drop, Shape
  <2> QED
    BY <1>0, <1>1, <2>1, FateKept DEF Ended, NoExchange
<1>2. CASE Abandon(x) /\ ex[x].at \notin {"none", "ended"} /\ disk' = disk
  BY <1>2, AbandonCounts
<1>3. ASSUME NEW p \in Proxies, NEW tok \in Tokens, Arrive(x, p, tok)
      PROVE  CountInv'
  <2>1. ex[x].at = "none" /\ UNCHANGED <<account, disk>> /\ ex'[x].fate = "none"
        /\ \A y \in Exchanges \ {x} : ex'[y] = ex[y]
    BY <1>3 DEF Arrive, Shape, NoExchange
  <2> QED
    BY <1>0, <2>1, FateKept
<1>4. CASE Ask(x)
  <2>1. ex[x].at \notin {"none", "ended"} /\ UNCHANGED <<account, disk>> /\ ex'[x].fate = ex[x].fate
        /\ \A y \in Exchanges \ {x} : ex'[y] = ex[y]
    BY <1>4 DEF Ask, Shape, Courses
  <2>2. ex[x].fate = "none"
    BY <2>1 DEF ExchangeInv
  <2> QED
    BY <1>0, <2>1, <2>2, FateKept
<1>5. CASE Decide(x)
  <2>1. ex[x].at = "deciding" /\ UNCHANGED <<account, disk>>
    BY <1>5 DEF Decide
  <2>2. ex[x].by \in Proxies /\ ex[x].tok \in Tokens /\ ex[x].fate = "none"
    BY <2>1 DEF ExchangeInv
  <2>3. \E rec \in BOOLEAN : ex' = [ex EXCEPT ![x] = IF rec THEN [@ EXCEPT !.at = "open"] ELSE Ended("none")]
    BY <1>5, <2>2, DecideHistory
  <2>4. ex'[x].fate = "none" /\ \A y \in Exchanges \ {x} : ex'[y] = ex[y]
    BY <2>2, <2>3 DEF Shape, Courses, Ended, NoExchange
  <2> QED
    BY <1>0, <2>1, <2>4, FateKept
<1>6. CASE ErrorResponse(x) \/ OverLimit(x) \/ Expire(x) \/ WriteFails(x)
  <2>1. ex[x].at \in {"open", "taken", "writing"} /\ disk' = disk /\ (Drop(x) \/ Abandon(x))
    BY <1>6 DEF ErrorResponse, OverLimit, Expire, WriteFails
  <2> QED
    BY <1>1, <1>2, <2>1
<1>7. ASSUME ex[x].at \in {"open", "rechecking", "writing"}, UNCHANGED account, disk'.counted = disk.counted,
             NEW e, ex' = [ex EXCEPT ![x] = e], e.fate \in {ex[x].fate, "stored"}
      PROVE  CountInv'
  <2>1. ex[x].fate = "none"
    BY <1>7 DEF ExchangeInv
  <2>2. ex'[x] = e /\ \A y \in Exchanges \ {x} : ex'[y] = ex[y]
    BY <1>7 DEF Shape
  <2> QED
    BY <1>0, <1>7, <2>1, <2>2, FateKept
<1>8. CASE Finish(x)
  <2>1. ex[x].at = "open" /\ disk' = disk
    BY <1>8 DEF Finish
  <2>2. CASE ~Abandon(x)
    <3>1. ex' = [ex EXCEPT ![x].at = "queued"] /\ account' = account
      BY <1>8, <2>2 DEF Finish
    <3>2. ex' = [ex EXCEPT ![x] = [ex[x] EXCEPT !.at = "queued"]] /\ [ex[x] EXCEPT !.at = "queued"].fate = ex[x].fate
      BY <3>1 DEF Shape, Courses
    <3> QED
      BY <1>7, <2>1, <3>1, <3>2
  <2> QED
    BY <1>2, <2>1, <2>2
<1>9. CASE Recheck(x)
  <2>1. ex[x].at = "rechecking" /\ disk' = disk
    BY <1>9 DEF Recheck
  <2>2. CASE ~Drop(x)
    <3>1. ex' = [ex EXCEPT ![x].at = "writing"] /\ account' = account
      BY <1>9, <2>2 DEF Recheck
    <3>2. ex' = [ex EXCEPT ![x] = [ex[x] EXCEPT !.at = "writing"]] /\ [ex[x] EXCEPT !.at = "writing"].fate = ex[x].fate
      BY <3>1 DEF Shape, Courses
    <3> QED
      BY <1>7, <2>1, <3>1, <3>2
  <2> QED
    BY <1>1, <2>1, <2>2
<1>10. CASE Write(x)
  <2>1. ex[x].at = "writing"
    BY <1>10 DEF Write
  <2>2. CASE Drop(x) /\ disk' = disk
    BY <1>1, <2>1, <2>2
  <2>3. CASE ~(Drop(x) /\ disk' = disk)
    <3>1. /\ ex' = [ex EXCEPT ![x] = Ended("stored")] /\ account' = account
          /\ disk' = [disk EXCEPT !.dir = TRUE, !.records = @ \cup {x}]
      BY <1>10, <2>3 DEF Write
    <3>2. disk'.counted = disk.counted /\ Ended("stored").fate = "stored"
      BY <3>1 DEF Shape, Disks, Ended, NoExchange
    <3> QED
      BY <1>7, <2>1, <3>1, <3>2
  <2> QED
    BY <2>2, <2>3
<1> QED
  BY <1>3, <1>4, <1>5, <1>6, <1>8, <1>9, <1>10 DEF Capture

\* What a proxy's account takes up or puts down stays counted.
LEMMA AccountCounts ==
  ASSUME Shape, Shape', CountInv, NEW p \in Proxies, TakeCounts(p) \/ PutCounts(p) \/ StopAccount(p)
  PROVE  CountInv'
<1> DEFINE u == account[p].unwritten
           d == account[p].delta
           cold == disk.counted
           card == Cardinality(GivenUp)
<1>0. u \in Int /\ d \in Int /\ cold \in Int /\ history.lost \in Int /\ card \in Int
  <2>1. IsFiniteSet(GivenUp)
    BY RecorderConstants, FS_Subset DEF GivenUp
  <2> QED
    BY <2>1, FS_CardinalityType DEF Shape, Accounts, Disks, Histories
<1>1. /\ GivenUp' = GivenUp /\ history'.lost = history.lost
      /\ \A q \in Proxies \ {p} : account'[q] = account[q]
  BY DEF TakeCounts, PutCounts, StopAccount, GivenUp, Shape, Histories
<1>2. CASE TakeCounts(p) \/ StopAccount(p)
  <2>1. /\ account'[p].unwritten = 0 /\ account'[p].delta = u /\ account'[p].busy /\ disk' = disk
        /\ ~account[p].busy
    BY <1>2 DEF TakeCounts, StopAccount, Shape
  <2>2. d = 0
    BY <2>1 DEF CountInv
  <2> HIDE DEF u, d, cold, card
  <2>3. \A a, b, c, e \in Int : a - a = (b - b) + (c - c) + ((0 + e) - (e + 0))
    OBVIOUS
  <2>4. Cardinality(GivenUp') - Cardinality(GivenUp)
          = (disk'.counted - disk.counted) + (history'.lost - history.lost)
              + ((account'[p].unwritten + account'[p].delta) - (account[p].unwritten + account[p].delta))
    BY <1>0, <1>1, <2>1, <2>2, <2>3 DEF u, d, cold, card
  <2> QED
    BY <1>1, <2>1, <2>4, CountMoves
<1>3. CASE PutCounts(p)
  <2>1. \/ /\ disk'.counted = cold + d
           /\ account'[p].unwritten = u /\ account'[p].delta = 0
        \/ /\ disk'.counted = cold
           /\ account'[p].unwritten = u + d /\ account'[p].delta = 0
    BY <1>3 DEF PutCounts, Shape, Accounts, Disks
  <2> HIDE DEF u, d, cold, card
  <2>2. /\ \A a, b, c, e, f \in Int : a - a = ((b + e) - b) + (c - c) + ((f + 0) - (f + e))
        /\ \A a, b, c, e, f \in Int : a - a = (b - b) + (c - c) + (((f + e) + 0) - (f + e))
    OBVIOUS
  <2>4. /\ account[p].unwritten = u /\ account[p].delta = d /\ disk.counted = cold
        /\ Cardinality(GivenUp') = Cardinality(GivenUp)
    BY <1>1 DEF u, d, cold
  <2>5. Cardinality(GivenUp) \in Int
    BY <1>0 DEF card
  <2>3. Cardinality(GivenUp') - Cardinality(GivenUp)
          = (disk'.counted - disk.counted) + (history'.lost - history.lost)
              + ((account'[p].unwritten + account'[p].delta) - (account[p].unwritten + account[p].delta))
    BY <1>0, <1>1, <2>1, <2>2, <2>4, <2>5
  <2> QED
    BY <1>1, <2>1, <2>3, CountMoves
<1> QED
  BY <1>2, <1>3

\* What a proxy could not write is lost with it, and nothing is given up.
LEMMA ExitCounts ==
  ASSUME Shape, Shape', ExchangeInv, CountInv, NEW p \in Proxies, Exit(p)
  PROVE  CountInv'
<1>1. ~account[p].busy /\ disk' = disk
  BY DEF Exit
<1>2. account[p].delta = 0
  BY <1>1 DEF CountInv
<1>3. /\ account'[p].unwritten = 0 /\ account'[p].delta = 0
      /\ \A q \in Proxies \ {p} : account'[q] = account[q]
  BY DEF Exit, Shape, NoAccount
<1>4. history'.lost = history.lost + account[p].unwritten
  BY ExitHistory
<1>5. GivenUp' = GivenUp
  <2>1. \A x \in Exchanges : ex'[x] = IF ex[x].by = p THEN Ended("none") ELSE ex[x]
    BY DEF Exit
  <2>2. \A x \in Exchanges : ex[x].by = p => ex[x].fate = "none"
    BY RecorderConstants DEF ExchangeInv, Shape, Courses, Places
  <2> QED
    BY <2>1, <2>2 DEF GivenUp, Ended, NoExchange
<1>6. /\ account[p].unwritten \in Int /\ disk.counted \in Int /\ history.lost \in Int
      /\ Cardinality(GivenUp) \in Int
  <2>1. IsFiniteSet(GivenUp)
    BY RecorderConstants, FS_Subset DEF GivenUp
  <2> QED
    BY <2>1, FS_CardinalityType DEF Shape, Accounts, Disks, Histories
<1>7. \A a, b, c, e \in Int : a - a = (b - b) + ((c + e) - c) + ((0 + 0) - (e + 0))
  OBVIOUS
<1>8. Cardinality(GivenUp') - Cardinality(GivenUp)
        = (disk'.counted - disk.counted) + (history'.lost - history.lost)
            + ((account'[p].unwritten + account'[p].delta) - (account[p].unwritten + account[p].delta))
  BY <1>1, <1>2, <1>3, <1>4, <1>5, <1>6, <1>7
<1> QED
  BY <1>3, <1>8, CountMoves

\* Every step keeps the counts.
LEMMA CountStep ==
  ASSUME Shape, Shape', ExchangeInv, CountInv, Next
  PROVE  CountInv'
<1>1. CASE Commands \/ Uninstall
  BY <1>1, ElsewhereEffect, CountKept
<1>2. CASE DeleteData
  <2>1. disk'.counted = disk.counted /\ history'.lost = history.lost /\ UNCHANGED <<ex, account>>
    BY <1>2 DEF DeleteData, Shape, Disks, Histories
  <2> QED
    BY <2>1, CountKept
<1>3. ASSUME NEW x \in Exchanges, Capture(x)
      PROVE  CountInv'
  BY <1>3, CaptureCounts
<1>4. ASSUME NEW p \in Proxies, TakeCounts(p) \/ PutCounts(p) \/ StopAccount(p)
      PROVE  CountInv'
  BY <1>4, AccountCounts
<1>5. ASSUME NEW p \in Proxies, Exit(p)
      PROVE  CountInv'
  BY <1>5, ExitCounts
<1>6. ASSUME NEW p \in Proxies,
             Start(p) \/ Settle(p) \/ StopCreating(p) \/ ReleasePort(p) \/ CloseQueue(p) \/ Drained(p)
      PROVE  CountInv'
  <2>1. disk'.counted = disk.counted /\ history'.lost = history.lost /\ UNCHANGED <<ex, account>>
    BY <1>6 DEF Start, Settle, StopCreating, ReleasePort, CloseQueue, Drained, Shape, Disks, Histories
  <2> QED
    BY <2>1, CountKept
<1>7. ASSUME NEW p \in Proxies, Take(p)
      PROVE  CountInv'
  <2>1. disk' = disk /\ history'.lost = history.lost /\ account' = account
    BY <1>7 DEF Take, Shape, Histories
  <2>2. \A y \in Exchanges : ex'[y].fate = ex[y].fate
    BY <1>7 DEF Take, Shape, Courses
  <2> QED
    BY <2>1, <2>2, CountKept
<1> QED
  BY <1>1, <1>2, <1>3, <1>4, <1>5, <1>6, <1>7 DEF Next, Life

-----------------------------------------------------------------------------
(* The theorems.                                                            *)

LEMMA InitInvariant == Init => RecorderInv
<1> SUFFICES ASSUME Init PROVE RecorderInv
  OBVIOUS
<1>1. PlacedInv
  <2>1. history.stray = {} /\ \A p \in Proxies : history.carried[p] = {}
    BY DEF Init, NoHistory
  <2>2. \A p \in Proxies, t \in Tokens : view[p].entry[t].state = "none"
    BY DEF Init, Before, EmptyView, NoEntry
  <2> QED
    BY <2>1, <2>2 DEF PlacedInv
<1>2. LastWriteInv
  BY DEF Init, NoHistory, LastWriteInv
<1>3. DeletionInv
  BY DEF Init, DeletionInv
<1>4. AcceptedInv
  BY DEF Init, NoHistory, NoExchange, AcceptedInv
<1>5. CountInv
  <2>1. GivenUp = {} /\ Cardinality(GivenUp) = 0
    BY FS_EmptySet DEF Init, GivenUp, NoExchange
  <2>2. disk.counted = 0 /\ history.lost = 0 /\ \A p \in Proxies : account[p].delta = 0
    BY DEF Init, NoHistory, NoAccount
  <2>3. InMemory = {}
    BY DEF Init, InMemory, NoAccount
  <2>4. Cardinality(InMemory) = 0
    BY <2>3, FS_EmptySet
  <2> QED
    BY <2>1, <2>2, <2>4 DEF CountInv
<1> QED
  BY <1>1, <1>2, <1>3, <1>4, <1>5, InitShape, InitCourses, InitConsent DEF RecorderInv

\* Every step keeps the inductive invariant.
LEMMA NextInvariant == RecorderInv /\ [Next]_vars => RecorderInv'
<1> SUFFICES ASSUME RecorderInv, [Next]_vars PROVE RecorderInv'
  OBVIOUS
<1>1. CASE Next
  BY <1>1, ShapeStep, CoursesStep, ViewStep, ConsentStep, PlacedStep, LastWriteStep, DeletionStep, AcceptedStep,
     CountStep DEF RecorderInv
<1>2. CASE UNCHANGED vars
  <2>1. Shape' /\ ExchangeInv' /\ AskingInv' /\ QueueInv'
    BY <1>2 DEF vars, routing, RecorderInv, Shape, ExchangeInv, AskingInv, QueueInv, Alive
  <2>2. ViewInv' /\ StandingInv' /\ ConsentInv'
    BY <1>2 DEF vars, routing, RecorderInv, ViewInv, StandingInv, ConsentInv, Records
  <2>3. PlacedInv' /\ LastWriteInv' /\ DeletionInv' /\ AcceptedInv'
    BY <1>2 DEF vars, routing, RecorderInv, PlacedInv, LastWriteInv, DeletionInv, AcceptedInv, Listening
  <2>4. CountInv'
    <3>1. InMemory' = InMemory /\ GivenUp' = GivenUp
      BY <1>2 DEF vars, InMemory, GivenUp
    <3> QED
      BY <1>2, <3>1 DEF vars, RecorderInv, CountInv
  <2> QED
    BY <2>1, <2>2, <2>3, <2>4 DEF RecorderInv
<1> QED
  BY <1>1, <1>2

\* The inductive invariant holds in every reachable state.
THEOREM RecorderInvariance == Spec => []RecorderInv
BY InitInvariant, NextInvariant, PTL DEF Spec

\* Nothing is stored but under consent asked for twice, and twice found
\* standing at some moment of the question: whatever changes or breaks the
\* table between a lookup's look at the file and its reading of it
\* (recorder.write, Table.Lookup).
THEOREM StoredUnderConsentHolds == Spec => []StoredUnderConsent
<1>1. RecorderInv => StoredUnderConsent
  BY DEF RecorderInv, ConsentInv, StoredUnderConsent
<1> QED
  BY <1>1, RecorderInvariance, PTL

\* A token a proxy has carried to a relay never goes to the default upstream,
\* unless a command wrote the table anew where no file was (Table.Lookup).
THEOREM NeverAstrayHolds == Spec => []NeverAstray
<1>1. RecorderInv => NeverAstray
  BY DEF RecorderInv, PlacedInv, NeverAstray
<1> QED
  BY <1>1, RecorderInvariance, PTL

\* An exiting proxy leaves no count unwritten that was made in time, unless
\* its last write failed (Dropped.start, Dropped.write).
THEOREM WrittenAtExitHolds == Spec => []WrittenAtExit
<1>1. RecorderInv => WrittenAtExit
  BY DEF RecorderInv, LastWriteInv, WrittenAtExit
<1> QED
  BY <1>1, RecorderInvariance, PTL

\* What an uninstall that stopped the proxy deleted stays deleted, whatever
\* that proxy still writes (StopCreatingDir, StopGone).
THEOREM DeletedStaysDeletedHolds == Spec => []DeletedStaysDeleted
<1>1. RecorderInv => DeletedStaysDeleted
  BY DEF RecorderInv, DeletionInv, DeletedStaysDeleted
<1> QED
  BY <1>1, RecorderInvariance, PTL

\* A capture the queue took is never left behind by a proxy that waited for
\* its queue to the end, and each capture given up is counted once: on disk,
\* in the memory of a proxy, or among what a proxy could not write before it
\* ended (closeRecordQueue, Dropped.write).
THEOREM CountedOnceHolds == Spec => []CountedOnce
<1>1. RecorderInv => CountedOnce
  BY DEF RecorderInv, AcceptedInv, CountInv, CountedOnce
<1> QED
  BY <1>1, RecorderInvariance, PTL
=============================================================================
