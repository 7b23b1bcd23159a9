--------------------------- MODULE ProjectProofs ---------------------------
(***************************************************************************)
(* That an injection's token is known, that the user's base URL is not     *)
(* silently gone, that a withdrawal is complete, and that a setting of ours *)
(* is on record: through commands that fail, undo and die at any step.      *)
(***************************************************************************)
EXTENDS Project, TLAPS

Undoable == {"grants", "decision", "registry", "settings", "ignore"}
Kinds    == {"enable", "undo", "disable", "uninstall", "doctor"}
EnableSteps    == {"grant", "consent", "register", "offer", "inject", "remove", "putback", "ignore", "check"}
DisableSteps   == {"remove", "putback", "settings", "revoke", "unregister", "deny", "purge", "done"}
UninstallSteps == {"remove", "putback", "settings", "wipe"}
DoctorSteps    == {"remove", "complete", "inject", "ignore", "putback", "settings", "upstream"}

Cmds == [kind : Kinds, at : EnableSteps \cup DisableSteps \cup UninstallSteps \cup DoctorSteps,
         inside : BOOLEAN, shape : Shapes, token : Tokens \cup {"unset"}, up : Upstreams,
         moved : BOOLEAN, elsewhere : BOOLEAN, gone : Tokens \cup {"unset"}, cleared : BOOLEAN,
         early : BOOLEAN, ledger : Seq(Undoable), snap : Snapshots \cup {"none"}]

Hooks == [at : {"idle", "move", "follow", "register"}, up : Upstreams, was : Upstreams,
          moved : BOOLEAN, named : BOOLEAN]

\* The grants are the first entry of a ledger, and only that.
Has(ledger, step) == \E i \in DOMAIN ledger : ledger[i] = step
Ordered(ledger)   == \A i \in DOMAIN ledger : (ledger[i] = "grants") <=> (i = 1)

\* Where a command of each kind may stand, and what is on its ledger there.
Undoes(c) == c.kind \in {"enable", "undo"}
Staged(c) ==
  /\ Undoes(c) => c.snap \in Snapshots /\ c.token \in Tokens /\ Ordered(c.ledger)
  /\ c.kind = "enable" =>
       /\ c.at \in EnableSteps /\ (c.at \in {"remove", "putback"} => c.cleared)
       /\ ((c.at = "grant") <=> (c.ledger = <<>>))
       /\ c.at \notin {"grant", "consent"} => Has(c.ledger, "decision")
       /\ c.cleared \/ c.at \in {"ignore", "check"} => Has(c.ledger, "settings")
       /\ c.cleared => c.at \in {"inject", "remove", "putback", "ignore", "check"}
  /\ c.kind = "disable" =>
       /\ c.at \in DisableSteps /\ ~c.cleared
       /\ c.early => c.at \in {"settings", "unregister", "purge", "done"}
  /\ c.kind = "uninstall" => c.at \in UninstallSteps /\ ~c.cleared
  /\ c.kind = "doctor" => c.at \in DoctorSteps /\ (c.at = "inject" \/ c.cleared => c.token \in Tokens)

TableShape == table \in Tables /\ file \in {"there", "missing"} /\ terms \in [Tokens -> Terms]
UserShape ==
  /\ settings \in Settings /\ shared \in Upstreams \cup {"unset"} /\ shell \in Upstreams \cup {"unset"}
  /\ session \in Urls \cup {"closed"} /\ decision \in Decisions
  /\ kept \in [registered : BOOLEAN, ignored : BOOLEAN, records : SUBSET Stores]
CmdShape == cmd = Idle \/ (cmd \in Cmds /\ Staged(cmd) /\ (cmd.inside => session # "closed"))
HookShape == hook \in Hooks
GhostShape ==
  /\ own \in (Upstreams \ {Default}) \cup {"unset"}
  /\ fate \in Fates /\ keyBy \in Writers /\ withdrawn \in BOOLEAN /\ lost \in BOOLEAN
Shape == TableShape /\ UserShape /\ CmdShape /\ HookShape /\ GhostShape

-----------------------------------------------------------------------------
(* The invariant.                                                           *)

Entry(t) == AsRead.entry[t]
Stands(t) == t \in Tokens /\ Entry(t).state = "standing"

\* One token stands at a time; the one a command works on stands from its grant
\* on, and a grant under way replaces no other's.
One(entry) == \A t, u \in Tokens : entry[t].state = "standing" /\ entry[u].state = "standing" => t = u
GrantInv ==
  /\ One(AsRead.entry)
  /\ Undoes(cmd) => One(cmd.snap.entry)
  /\ cmd.kind = "enable" /\ cmd.at = "grant" => \A t \in Tokens : Stands(t) => t = cmd.token
  /\ cmd.kind = "enable" /\ cmd.at # "grant" => Stands(cmd.token)
  /\ cmd.kind = "doctor" /\ (cmd.at = "inject" \/ cmd.cleared) => Stands(cmd.token)

\* The tokens in the settings file, before a command and now, are known, and
\* what was known before it is.
Names(entry, url) == url \in Tokens => entry[url].state # "none"
KnownInv ==
  ~lost =>
    /\ Names(AsRead.entry, settings.url)
    /\ Undoes(cmd) =>
         /\ Names(cmd.snap.entry, cmd.snap.settings.url)
         /\ \A t \in Tokens : cmd.snap.entry[t].state # "none" => Entry(t).state # "none"

\* What is not on the ledger is as it was before the command.
SnapInv ==
  Undoes(cmd) =>
    /\ ~Has(cmd.ledger, "settings") =>
         /\ settings.url = cmd.snap.settings.url
         /\ cmd.kind = "enable" => cmd.at \in {"grant", "consent", "register", "offer", "inject"}
         /\ ~(cmd.kind = "enable" /\ cmd.at = "inject") =>
              settings.key = cmd.snap.settings.key /\ keyBy = cmd.snap.keyBy
    /\ ~Has(cmd.ledger, "decision") => decision.answer = cmd.snap.decision.answer

\* The setting was accounted for before the command, and is now.
KeyInv ==
  /\ KeyAccounted
  /\ Undoes(cmd) /\ ~lost /\ cmd.snap.settings.key = "true" /\ cmd.snap.keyBy = "us" =>
       Wrote(cmd.snap.decision.answer)

\* How far a disable is says what is gone.
DisableInv ==
  /\ Withdrawn /\ (withdrawn => cmd = Idle)
  /\ cmd.kind = "disable" =>
       /\ cmd.early \/ cmd.at # "remove" => InjectionShape = "none"
       /\ cmd.early \/ cmd.at \in {"unregister", "deny", "purge", "done"} => Standing = {}
       /\ cmd.at = "done" => kept.records = {}

\* A file without a base URL, where the user has one, carries our hooks only as
\* an injection of the shape that needs none.
Bare(s) == s.url = "unset" /\ own # "unset" => s.hooks \in {"none", "marked"}

\* A move a hook is about to make is one, and away from what the user named only
\* if the grant had moved before.
HookInv ==
  hook.at = "move" => hook.up # hook.was /\ (own # "unset" /\ ~hook.named => hook.moved)

\* A grant that holds the user's base URL, and holds it for good.
Holds(t) == Stands(t) /\ Entry(t).up = own /\ ~terms[t].moved
HeldBefore(c, t) ==
  t \in Tokens /\ c.snap.entry[t].state = "standing" /\ c.snap.entry[t].up = own /\ ~c.snap.terms[t].moved

\* The grant has been installed, and the settings file is not put back yet.
Granting(c) == \/ c.kind = "enable" /\ c.at # "grant"
               \/ c.kind = "undo" /\ Has(c.ledger, "settings")
Kept(c) == own # "unset" /\ c.snap.fate = "none"

Where ==
  own # "unset" /\ fate = "none" =>
    settings.url = own \/ Holds(settings.url) \/ (Cut /\ Holds(cmd.gone))

\* An enable brings the user's base URL into the grant before it writes over it,
\* and its undo finds the grant as it was, or knows that it was moved.
EnableInv ==
  /\ cmd.kind = "enable" /\ cmd.at = "grant" /\ own # "unset" =>
       /\ settings.url = own => cmd.up = own
       /\ cmd.snap.fate = "none" /\ cmd.snap.settings.url \in Tokens /\ fate \notin ByTheGrant =>
            cmd.elsewhere \/ (cmd.snap.settings.url = cmd.token /\ cmd.up = own)
  /\ cmd.kind = "enable" /\ cmd.at # "grant" /\ own # "unset" /\ fate = "none" /\ settings.url = own =>
       Holds(cmd.token)
  /\ Undoes(cmd) =>
       /\ Bare(cmd.snap.settings)
       /\ Kept(cmd) => cmd.snap.settings.url = own \/ HeldBefore(cmd, cmd.snap.settings.url)
       /\ own # "unset" /\ fate = "none" => cmd.snap.fate = "none" \/ cmd.snap.settings.url = own
       /\ Granting(cmd) /\ Kept(cmd) /\ cmd.snap.settings.url \in Tokens /\ fate \notin ByTheGrant =>
            cmd.snap.settings.url = cmd.token /\ Holds(cmd.token)

\* A removal has taken our base URL out until it is put back.
TakenOut == cmd.kind \notin {"idle", "undo"} /\ cmd.at = "putback" => settings.url \notin Tokens

RelayInv == Bare(settings) /\ HookInv /\ TakenOut /\ Where /\ EnableInv

ProjectInv == Shape /\ GrantInv /\ KnownInv /\ SnapInv /\ KeyInv /\ DisableInv /\ RelayInv

-----------------------------------------------------------------------------
(* Tables.                                                                  *)

LEMMA OneRoot == \A t \in Tokens : RootOf[t] = Root
<1>1. PICK r \in Roots : Roots = {r}
  BY ProjectConstants
<1>2. Root = r
  BY <1>1 DEF Root
<1> QED
  BY <1>1, <1>2, RoutingConstants

LEMMA Read ==
  ASSUME Shape
  PROVE  AsRead \in Tables /\ EmptyTable \in Tables /\ \A t \in Tokens : EmptyTable.entry[t] = NoEntry
<1>1. EmptyTable \in Tables /\ \A t \in Tokens : EmptyTable.entry[t] = NoEntry
  BY RoutingConstants DEF NoEntry, Entries, EmptyTable, Tables
<1> QED
  BY <1>1 DEF AsRead, Shape, TableShape

\* The table a command writes is the one everybody reads next.
LEMMA Written ==
  ASSUME NEW tab, Update(tab)
  PROVE  table' = tab /\ file' = "there" /\ AsRead' = tab
BY DEF Update, AsRead

\* An entry of a table, after each of the store's operations.
LEMMA GrantedIs ==
  ASSUME Shape, NEW tok \in Tokens, NEW up \in Upstreams, NEW tab, tab = Granted(AsRead, tok, up)
  PROVE  /\ tab \in Tables
         /\ tab.entry[tok] = [state |-> "standing", up |-> up]
         /\ \A t \in Tokens \ {tok} :
              /\ tab.entry[t].state # "standing" /\ tab.entry[t].up = Entry(t).up
              /\ (tab.entry[t].state = "none") <=> (Entry(t).state = "none")
<1>1. AsRead \in Tables
  BY Read
<1>2. RootOf[tok] = Root /\ \A t \in Tokens : RootOf[t] = Root
  BY OneRoot
<1> QED
  BY <1>1, <1>2, ZenonT(30) DEF Granted, Retired, Tables, Entries, Entry

LEMMA RevokedIs ==
  ASSUME Shape, NEW tab, tab = Revoked(AsRead, Root)
  PROVE  /\ tab \in Tables
         /\ \A t \in Tokens :
              /\ tab.entry[t].state # "standing" /\ tab.entry[t].up = Entry(t).up
              /\ (tab.entry[t].state = "none") <=> (Entry(t).state = "none")
<1>1. AsRead \in Tables
  BY Read
<1>2. \A t \in Tokens : RootOf[t] = Root
  BY OneRoot
<1> QED
  BY <1>1, <1>2 DEF Revoked, Retired, Tables, Entries, Entry

LEMMA MovedIs ==
  ASSUME Shape, NEW up \in Upstreams, NEW tab, tab = Moved(AsRead, Root, up)
  PROVE  /\ tab \in Tables
         /\ \A t \in Tokens :
              /\ tab.entry[t].state = Entry(t).state
              /\ tab.entry[t].up = IF Entry(t).state = "standing" THEN up ELSE Entry(t).up
<1>1. AsRead \in Tables
  BY Read
<1>2. \A t \in Tokens : RootOf[t] = Root
  BY OneRoot
<1> QED
  BY <1>1, <1>2 DEF Moved, Tables, Entries, Entry

LEMMA RestoredIs ==
  ASSUME Shape, NEW snap \in [Tokens -> Entries], NEW tab, tab = Restored(AsRead, Root, snap)
  PROVE  tab \in Tables /\ \A t \in Tokens : tab.entry[t] = snap[t]
<1>1. AsRead \in Tables
  BY Read
<1>2. \A t \in Tokens : RootOf[t] = Root
  BY OneRoot
<1> QED
  BY <1>1, <1>2 DEF Restored, Tables, Entries

\* The standing token.
LEMMA Standings ==
  /\ \A t : t \in Standing <=> Stands(t)
  /\ Enabled => Stands(Token)
<1>1. \A t : t \in Standing <=> Stands(t)
  BY DEF Standing, Stands, Entry
<1>2. Enabled => Token \in Standing
  BY DEF Enabled, Token
<1> QED
  BY <1>1, <1>2

LEMMA OneStands ==
  ASSUME One(AsRead.entry), NEW t, Stands(t)
  PROVE  Enabled /\ Token = t
<1>1. t \in Standing /\ Enabled
  BY Standings DEF Enabled
<1> QED
  BY <1>1, Standings DEF One, Stands, Entry

\* What a removed injection's traffic went to.
LEMMA RecordedIs ==
  ASSUME Shape, NEW token
  PROVE  Recorded(token) \subseteq Upstreams /\ (Stands(token) => Recorded(token) = {Entry(token).up})
<1>1. AsRead.entry \in [Tokens -> Entries]
  BY Read DEF Tables
<1>2. \A t \in Tokens : AsRead.entry[t].up \in Upstreams
  BY <1>1 DEF Entries
<1>3. Standing \subseteq Tokens
  BY DEF Standing
<1> QED
  BY <1>2, <1>3, RoutingConstants DEF Recorded, Stands, Entry

\* What the files and the environment name for a process.
LEMMA Resolves_To ==
  ASSUME Shape, NEW inside \in BOOLEAN, inside => session # "closed"
  PROVE  LET want == Resolution(inside)
         IN /\ want.up \in Upstreams /\ want.external \in BOOLEAN /\ (want.external => ~want.masked)
            /\ ~want.external => want.up = Default
            /\ settings.url \notin Tokens \cup {"unset"} => want.external /\ want.up = settings.url
<1> DEFINE seen  == IF inside THEN session ELSE shell
           chain == <<settings.url, shared, seen>>
           named == {i \in 1..3 : chain[i] \notin Tokens \cup {"unset"}}
           first == CHOOSE i \in named : \A j \in named : i <= j
<1>1. \A i \in named : chain[i] \in Upstreams
  BY DEF Shape, UserShape, Settings, Urls
<1>2. named # {} => first \in named /\ \A j \in named : first <= j
  <2>1. named \subseteq 1..3
    OBVIOUS
  <2>2. 1 \in named \/ 2 \in named \/ 3 \in named \/ named = {}
    BY <2>1
  <2>3. named # {} => \E i \in named : \A j \in named : i <= j
    BY <2>1, <2>2
  <2> QED
    BY <2>3
<1>3. named # {} => chain[first] \in Upstreams
  BY <1>1, <1>2
<1>4. 1 \in named => first = 1
  BY <1>2
<1>5. settings.url \notin Tokens \cup {"unset"} => 1 \in named /\ chain[1] = settings.url
  OBVIOUS
<1>6. Resolution(inside) = [up |-> IF named # {} THEN chain[first] ELSE Default, external |-> named # {},
                            masked |-> named = {} /\ seen \in Tokens]
  BY DEF Resolution, FirstOf
<1>7. Default \in Upstreams
  BY RoutingConstants
<1>8. /\ Resolution(inside).up = IF named # {} THEN chain[first] ELSE Default
      /\ Resolution(inside).external = (named # {})
  <2> HIDE DEF named, first, chain
  <2> QED
    BY <1>6
<1>11. Resolution(inside).masked = (named = {} /\ seen \in Tokens)
  <2> HIDE DEF named, first, chain, seen
  <2> QED
    BY <1>6
<1> HIDE DEF named, first, chain
<1>12. Resolution(inside).external => ~Resolution(inside).masked
  <2>1. Resolution(inside).external => named # {}
    BY <1>8
  <2> QED
    BY <1>11, <2>1
<1>9. /\ Resolution(inside).up \in Upstreams
      /\ ~Resolution(inside).external => Resolution(inside).up = Default
  BY <1>3, <1>7, <1>8
<1>10. settings.url \notin Tokens \cup {"unset"} =>
         Resolution(inside).external /\ Resolution(inside).up = settings.url
  BY <1>4, <1>5, <1>8
<1> QED
  BY <1>8, <1>9, <1>10, <1>12

-----------------------------------------------------------------------------
(* Ledgers.                                                                 *)

LEMMA EmptyLedger == \A l \in Seq(Undoable) : (l = <<>>) <=> (Len(l) = 0)
OBVIOUS

LEMMA LedgerGrows ==
  ASSUME NEW l \in Seq(Undoable), NEW x \in Undoable
  PROVE  /\ Append(l, x) \in Seq(Undoable) /\ Append(l, x) # <<>> /\ Has(Append(l, x), x)
         /\ \A y : Has(Append(l, x), y) <=> (Has(l, y) \/ y = x)
         /\ Ordered(l) /\ ((l = <<>>) <=> (x = "grants")) => Ordered(Append(l, x))
<1> DEFINE m == Append(l, x)
<1>1. m \in Seq(Undoable) /\ Len(m) = Len(l) + 1 /\ m[Len(m)] = x /\ DOMAIN m = 1..(Len(l) + 1)
      /\ DOMAIN l = 1..Len(l) /\ Len(l) \in Nat /\ \A i \in DOMAIN l : m[i] = l[i]
  OBVIOUS
<1> HIDE DEF m
<1>2. m # <<>>
  BY <1>1
<1>3. \A y : Has(m, y) <=> (Has(l, y) \/ y = x)
  BY <1>1 DEF Has
<1>4. (l = <<>>) <=> (Len(l) = 0)
  OBVIOUS
<1>5. Ordered(l) /\ ((l = <<>>) <=> (x = "grants")) => Ordered(m)
  BY <1>1, <1>4 DEF Ordered
<1> QED
  BY <1>1, <1>2, <1>3, <1>5 DEF m

LEMMA LedgerShrinks ==
  ASSUME NEW l \in Seq(Undoable), l # <<>>, Ordered(l),
         NEW m, m = SubSeq(l, 1, Len(l) - 1), NEW x, x = l[Len(l)]
  PROVE  /\ m \in Seq(Undoable) /\ Ordered(m) /\ x \in Undoable
         /\ (\A y : Has(l, y) <=> (Has(m, y) \/ y = x))
         /\ (x = "grants" <=> m = <<>>) /\ ((x = "grants") => \A y : ~Has(m, y))
<1>1. Len(l) \in Nat \ {0} /\ DOMAIN l = 1..Len(l)
  OBVIOUS
<1>2. m \in Seq(Undoable) /\ Len(m) = Len(l) - 1 /\ DOMAIN m = 1..(Len(l) - 1) /\ \A i \in DOMAIN m : m[i] = l[i]
  BY <1>1
<1>3. (m = <<>>) <=> (Len(l) = 1)
  <2>1. (m = <<>>) <=> (Len(m) = 0)
    BY <1>2, EmptyLedger
  <2> QED
    BY <1>1, <1>2, <2>1
<1>4. \A y : Has(l, y) <=> (Has(m, y) \/ y = x)
  <2>1. DOMAIN l = DOMAIN m \cup {Len(l)}
    BY <1>1, <1>2
  <2> QED
    BY <1>2, <2>1 DEF Has
<1>5. x \in Undoable
  BY <1>1
<1>6. (x = "grants") <=> (Len(l) = 1)
  BY <1>1 DEF Ordered
<1>7. m = <<>> => \A y : ~Has(m, y)
  BY <1>2, <1>3, <1>1 DEF Has
<1> QED
  BY <1>1, <1>2, <1>3, <1>4, <1>5, <1>6, <1>7 DEF Ordered

-----------------------------------------------------------------------------
(* Every state has its shape.                                               *)

LEMMA TableStays ==
  ASSUME UNCHANGED <<table, file>>
  PROVE  /\ AsRead' = AsRead /\ Standing' = Standing /\ Enabled' = Enabled
         /\ \A t : Entry(t)' = Entry(t) /\ Stands(t)' = Stands(t) /\ Recorded(t)' = Recorded(t)
BY DEF AsRead, Standing, Enabled, Entry, Stands, Recorded

LEMMA TokenIs ==
  ASSUME Shape, Enabled
  PROVE  Token \in Tokens /\ Entry(Token).up \in Upstreams /\ terms[Token] \in Terms
BY Standings, Read DEF Stands, Shape, TableShape, Tables, Entries, Entry

\* A command that is under way, and a step of its undo.
LEMMA Busy ==
  ASSUME Shape, cmd # Idle \/ cmd.kind # "idle"
  PROVE  cmd \in Cmds /\ Staged(cmd) /\ cmd # Idle
BY DEF Shape, CmdShape, Idle, Cmds, Kinds

LEMMA UndoIs ==
  ASSUME Shape, Undo
  PROVE  /\ cmd \in Cmds /\ Staged(cmd) /\ Undoes(cmd) /\ cmd.kind = "undo"
         /\ \/ cmd.ledger = <<>> /\ cmd' = Idle /\ UNCHANGED <<store, settings, fate, keyBy>>
            \/ \E m \in Seq(Undoable), x \in Undoable :
                 /\ cmd.ledger # <<>> /\ cmd' = [cmd EXCEPT !.ledger = m]
                 /\ Ordered(m) /\ \A y : Has(cmd.ledger, y) <=> (Has(m, y) \/ y = x)
                 /\ (x = "grants") <=> (m = <<>>)
                 /\ (x = "grants") => \A y : ~Has(m, y)
                 /\ \/ x = "grants" /\ UndoGrants
                    \/ x = "decision" /\ UndoDecision
                    \/ x = "registry" /\ UndoRegistry
                    \/ x = "settings" /\ UndoSettings
                    \/ x = "ignore" /\ UndoIgnored
<1>1. cmd \in Cmds /\ Staged(cmd) /\ cmd.kind = "undo" /\ Undoes(cmd)
  BY Busy DEF Undo, Undoes
<1>2. CASE cmd.ledger = <<>>
  BY <1>1, <1>2 DEF Undo
<1>3. CASE cmd.ledger # <<>>
  <2> DEFINE m == SubSeq(cmd.ledger, 1, Len(cmd.ledger) - 1)
             x == cmd.ledger[Len(cmd.ledger)]
  <2>1. cmd.ledger \in Seq(Undoable) /\ Ordered(cmd.ledger)
    BY <1>1 DEF Cmds, Staged
  <2>2. /\ m \in Seq(Undoable) /\ Ordered(m) /\ x \in Undoable
        /\ \A y : Has(cmd.ledger, y) <=> (Has(m, y) \/ y = x)
        /\ (x = "grants") <=> (m = <<>>)
        /\ (x = "grants") => \A y : ~Has(m, y)
    BY <1>3, <2>1, LedgerShrinks, ZenonT(30)
  <2>3. NextUndone[1] = x /\ NextUndone[2] = m
    BY DEF NextUndone
  <2> HIDE DEF m, x
  <2>4. /\ cmd' = [cmd EXCEPT !.ledger = m]
        /\ \/ x = "grants" /\ UndoGrants
           \/ x = "decision" /\ UndoDecision
           \/ x = "registry" /\ UndoRegistry
           \/ x = "settings" /\ UndoSettings
           \/ x = "ignore" /\ UndoIgnored
    BY <1>3, <2>2, <2>3 DEF Undo, Undoable
  <2> QED
    BY <1>1, <1>3, <2>2, <2>4
<1> QED
  BY <1>2, <1>3

LEMMA TableShapeStep ==
  ASSUME Shape, [Next]_vars
  PROVE  TableShape'
<1> USE DEF TableShape
<1>1. TableShape /\ (Legible => TRUE)
  BY DEF Shape
<1>2. CASE UNCHANGED <<table, file, terms>>
  BY <1>1, <1>2
<1>3. CASE InstallGrant
  <2>1. cmd.token \in Tokens /\ cmd.up \in Upstreams /\ cmd.shape \in Shapes
    BY <1>3 DEF Shape, CmdShape, Cmds, Staged, Idle, InstallGrant, In, Undoes
  <2>2. table' \in Tables /\ file' = "there"
    <3> DEFINE tab == Granted(AsRead, cmd.token, cmd.up)
    <3>1. tab \in Tables
      BY <2>1, GrantedIs
    <3>2. Update(tab)
      BY <1>3 DEF InstallGrant
    <3> QED
      BY <3>1, <3>2, Written
  <2>3. terms' \in [Tokens -> Terms]
    BY <1>1, <1>3, <2>1 DEF InstallGrant, Terms
  <2> QED
    BY <2>2, <2>3
<1>4. CASE Undo /\ ~UNCHANGED <<table, file, terms>>
  <2>1. cmd.snap \in Snapshots /\ UndoGrants
    BY <1>4, UndoIs DEF UndoDecision, UndoRegistry, UndoSettings, UndoIgnored, store, Staged, Undoes
  <2>2. cmd.snap.entry \in [Tokens -> Entries] /\ cmd.snap.terms \in [Tokens -> Terms]
    BY <2>1 DEF Snapshots
  <2> QED
    BY <2>1, <2>2, RestoredIs, Written DEF UndoGrants
<1>5. CASE RevokeGrant
  BY <1>1, <1>5, RevokedIs, Written DEF RevokeGrant
<1>6. ASSUME NEW up \in Upstreams, NEW was, NEW moved, NEW named, MoveTo(up, was, moved, named)
      PROVE  TableShape'
  <2>1. terms' \in [Tokens -> Terms]
    BY <1>1, <1>6 DEF MoveTo, Terms
  <2> DEFINE tab == Moved(AsRead, Root, up)
  <2>2. tab \in Tables
    BY MovedIs
  <2>3. Update(tab)
    BY <1>6 DEF MoveTo
  <2> HIDE DEF tab
  <2> QED
    BY <2>1, <2>2, <2>3, Written
<1>7. CASE ReconcileUpstream /\ ~UNCHANGED <<table, file, terms>>
  <2>1. Resolution(cmd.inside).up \in Upstreams
    BY <1>7, Resolves_To DEF ReconcileUpstream, In, Shape, CmdShape, Cmds, Idle
  <2> QED
    BY <1>6, <1>7, <2>1 DEF ReconcileUpstream
<1>8. CASE HookMoves
  BY <1>6, <1>8 DEF HookMoves, Shape, HookShape, Hooks
<1>9. CASE DeleteData \/ LoseTable
  <2>1. EmptyTable \in Tables /\ NoTerms \in Terms
    BY Read DEF NoTerms, Terms, Shapes
  <2> QED
    BY <1>9, <2>1 DEF DeleteData, LoseTable
<1>10. CASE Commands
  BY <1>10, <1>2 DEF Commands, Enable, Disable, Uninstall, Doctor, FinishUpgrade, store
<1>11. CASE Sessions \/ Edits
  BY <1>11, <1>2, <1>8, <1>9 DEF Sessions, Edits, StartSession, EndSession, StoreRecord, HookReads,
     HookLooks, HookRegisters, HookDies, EditBaseURL, EditOutside, EditKey, EditHooks, store
<1>12. CASE Steps
  BY <1>12, <1>2, <1>3, <1>4, <1>5, <1>7, <1>9 DEF Steps, InstallConsent, InstallRegistry,
     OfferSettings, Inject, EnsureIgnored, SelfCheck, EnableFails, RemoveProject, PutBack,
     RestoreSettings, UnregisterSessionFiles, RecordDenied, PurgeProjectRecords, Withdraw,
     UninstallWarns, KeepData, CompleteProjectHooks, Stop, store
<1> QED
  BY <1>2, <1>10, <1>11, <1>12 DEF Next, vars, store

LEMMA UserShapeStep ==
  ASSUME Shape, [Next]_vars
  PROVE  UserShape'
<1> USE DEF UserShape
<1>1. UserShape
  BY DEF Shape
<1>2. settings' \in Settings
  <2> USE DEF Settings
  <2>1. CASE UNCHANGED settings
    BY <1>1, <2>1
  <2>2. CASE OfferSettings \/ RestoreSettings
    <3>1. KeyStays \/ (\E value \in {"false", "true", "absent"} : \E who : SetKey(value, who))
      BY <1>1, <2>2 DEF OfferSettings, RestoreSettings, RestoreKey, Unaccept, Accept, Decisions, Wrote
    <3> QED
      BY <1>1, <3>1 DEF KeyStays, SetKey
  <2>3. CASE Inject
    <3>1. UNCHANGED settings \/ (cmd.token \in Tokens /\ settings' = Injected(settings, cmd.shape, cmd.token))
      BY <2>3, Busy DEF Inject, Staged, Undoes
    <3> QED
      BY <1>1, <3>1, ZenonT(30) DEF Injected, Urls
  <2>4. CASE Undo
    BY <2>4, <1>1, UndoIs DEF UndoGrants, UndoDecision, UndoRegistry, UndoSettings, UndoIgnored,
       Staged, Snapshots
  <2>5. CASE RemoveProject
    BY <1>1, <2>5 DEF RemoveProject, Urls
  <2>6. CASE PutBack
    <3>1. \A up \in IF cmd.gone = "unset" THEN {Default} ELSE Recorded(cmd.gone) : up \in Upstreams
      BY RecordedIs, RoutingConstants
    <3>2. UNCHANGED settings \/ \E up \in Upstreams : settings' = [settings EXCEPT !.url = up]
      BY <2>6, <3>1 DEF PutBack
    <3> QED
      BY <1>1, <3>2 DEF Urls
  <2>7. CASE CompleteProjectHooks \/ FinishUpgrade
    BY <1>1, <2>7 DEF CompleteProjectHooks, FinishUpgrade, Completed
  <2>8. CASE Edits
    <3>1. \/ UNCHANGED settings \/ (\E u \in OwnUrls : settings' = [settings EXCEPT !.url = u])
          \/ \E value \in {"absent", "false", "true"} : settings' = [settings EXCEPT !.key = value]
          \/ \E left \in {"none", settings.hooks} :
                settings' = [settings EXCEPT !.hooks = left, !.whole = FALSE]
      BY <2>8 DEF Edits, EditBaseURL, EditOutside, EditKey, EditHooks, LoseTable, user
    <3>2. OwnUrls \subseteq Urls
      BY ProjectConstants DEF Urls
    <3> QED
      BY <1>1, <3>1, <3>2
  <2>9. CASE Commands \/ Sessions
    BY <2>1, <2>7, <2>9 DEF Commands, Enable, Disable, Uninstall, Doctor, user, Sessions, StartSession,
       EndSession, StoreRecord, HookReads, HookMoves, HookLooks, HookRegisters, HookDies
  <2>10. CASE Steps
    BY <2>1, <2>2, <2>3, <2>4, <2>5, <2>6, <2>7, <2>10 DEF Steps, InstallGrant, InstallConsent,
       InstallRegistry, EnsureIgnored, SelfCheck, EnableFails, RevokeGrant, UnregisterSessionFiles,
       RecordDenied, PurgeProjectRecords, Withdraw, UninstallWarns, KeepData, DeleteData,
       ReconcileUpstream, Stop, user
  <2> QED
    BY <2>1, <2>8, <2>9, <2>10 DEF Next, vars, user
<1>3. decision' \in Decisions
  <2> USE DEF Decisions
  <2>1. CASE UNCHANGED decision
    BY <1>1, <2>1
  <2>2. CASE OfferSettings \/ RestoreSettings
    <3>1. \/ UNCHANGED decision
          \/ \E answer \in {"none", "declined", "absent", "false"} : Answered(answer)
      BY <1>1, <2>2 DEF OfferSettings, RestoreSettings, RestoreKey, Unaccept, Accept, Settings
    <3> QED
      BY <1>1, <3>1 DEF Answered
  <2>3. CASE InstallConsent \/ RecordDenied \/ DeleteData
    BY <1>1, <2>3 DEF InstallConsent, RecordDenied, DeleteData
  <2>4. CASE Undo
    BY <2>4, <1>1, UndoIs DEF UndoGrants, UndoDecision, UndoRegistry, UndoSettings, UndoIgnored,
       Staged, Snapshots, store
  <2>5. CASE Commands \/ Sessions \/ Edits
    BY <2>1, <2>5 DEF Commands, Enable, Disable, Uninstall, Doctor, FinishUpgrade, store, Sessions,
       StartSession, EndSession, StoreRecord, HookReads, HookMoves, HookLooks, HookRegisters, HookDies,
       Edits, EditBaseURL, EditOutside, EditKey, EditHooks, LoseTable
  <2>6. CASE Steps
    BY <2>1, <2>2, <2>3, <2>4, <2>6 DEF Steps, InstallGrant, InstallRegistry, Inject, EnsureIgnored,
       SelfCheck, EnableFails, RemoveProject, PutBack, RevokeGrant, UnregisterSessionFiles,
       PurgeProjectRecords, Withdraw, UninstallWarns, KeepData, CompleteProjectHooks,
       ReconcileUpstream, Stop, store
  <2> QED
    BY <2>1, <2>5, <2>6 DEF Next, vars, store
<1>4. kept' \in [registered : BOOLEAN, ignored : BOOLEAN, records : SUBSET Stores]
  <2>1. CASE UNCHANGED kept
    BY <1>1, <2>1
  <2>2. CASE Undo
    BY <1>1, <2>2, UndoIs DEF UndoGrants, UndoDecision, UndoRegistry, UndoSettings, UndoIgnored, store
  <2>3. CASE StoreRecord
    BY <1>1, <2>3 DEF StoreRecord
  <2>4. CASE PurgeProjectRecords
    BY <1>1, <2>4 DEF PurgeProjectRecords
  <2>5. CASE Commands \/ Edits
    BY <2>1, <2>5 DEF Commands, Enable, Disable, Uninstall, Doctor, FinishUpgrade, store, Edits,
       EditBaseURL, EditOutside, EditKey, EditHooks, LoseTable
  <2>6. CASE Sessions
    BY <1>1, <2>1, <2>3, <2>6 DEF Sessions, StartSession, EndSession, HookReads, HookMoves, HookLooks,
       HookRegisters, HookDies, store
  <2>7. CASE Steps
    BY <1>1, <2>1, <2>2, <2>4, <2>7 DEF Steps, InstallGrant, InstallConsent, InstallRegistry,
       OfferSettings, Inject, EnsureIgnored, SelfCheck, EnableFails, RemoveProject, PutBack,
       RestoreSettings, RevokeGrant, UnregisterSessionFiles, RecordDenied, Withdraw, UninstallWarns,
       KeepData, DeleteData, CompleteProjectHooks, ReconcileUpstream, Stop, store
  <2> QED
    BY <2>1, <2>5, <2>6, <2>7 DEF Next, vars, store
<1>5. /\ shared' \in Upstreams \cup {"unset"} /\ shell' \in Upstreams \cup {"unset"}
      /\ session' \in Urls \cup {"closed"}
  <2>1. CASE UNCHANGED <<shared, shell, session>>
    BY <1>1, <2>1
  <2>2. CASE StartSession
    <3> DEFINE chain == <<settings.url, shared, shell>>
               set   == {i \in 1..3 : chain[i] # "unset"}
               first == CHOOSE i \in set : \A j \in set : i <= j
    <3>1. \A i \in 1..3 : chain[i] \in Urls
      BY <1>1 DEF Settings, Urls
    <3>2. set \subseteq 1..3 /\ (set # {} => first \in set)
      <4>1. 1 \in set \/ 2 \in set \/ 3 \in set \/ set = {}
        OBVIOUS
      <4>2. set # {} => \E i \in set : \A j \in set : i <= j
        BY <4>1
      <4> QED
        BY <4>2
    <3>3. session' = IF set = {} THEN "unset" ELSE chain[first]
      BY <2>2 DEF StartSession, FirstOf
    <3> HIDE DEF chain, set, first
    <3>4. session' \in Urls
      BY <3>1, <3>2, <3>3 DEF Urls
    <3> QED
      BY <1>1, <2>2, <3>4 DEF StartSession
  <2>3. CASE EndSession \/ Edits
    BY <1>1, <2>3, ProjectConstants DEF EndSession, Edits, EditBaseURL, EditOutside, EditKey, EditHooks,
       LoseTable, user
  <2>4. CASE Commands
    BY <2>1, <2>4 DEF Commands, Enable, Disable, Uninstall, Doctor, FinishUpgrade, user
  <2>5. CASE Sessions
    BY <2>1, <2>2, <2>3, <2>5 DEF Sessions, StoreRecord, HookReads, HookMoves, HookLooks,
       HookRegisters, HookDies, user
  <2>6. CASE Steps
    BY <2>1, <2>6 DEF Steps, InstallGrant, InstallConsent, InstallRegistry, OfferSettings, Inject,
       EnsureIgnored, SelfCheck, EnableFails, Undo, RemoveProject, PutBack, RestoreSettings, RevokeGrant,
       UnregisterSessionFiles, RecordDenied, PurgeProjectRecords, Withdraw, UninstallWarns, KeepData,
       DeleteData, CompleteProjectHooks, ReconcileUpstream, Stop, user
  <2> QED
    BY <2>1, <2>3, <2>4, <2>5, <2>6 DEF Next, vars, user
<1> QED
  BY <1>2, <1>3, <1>4, <1>5

LEMMA HookShapeStep ==
  ASSUME Shape, [Next]_vars
  PROVE  HookShape'
<1> USE DEF HookShape, Hooks
<1>1. HookShape /\ HookIdle \in Hooks
  BY RoutingConstants DEF Shape, HookIdle
<1>2. CASE UNCHANGED hook
  BY <1>1, <1>2
<1>3. CASE HookReads
  <2>1. Resolution(TRUE).up \in Upstreams /\ Resolution(TRUE).external \in BOOLEAN
    BY <1>3, Resolves_To DEF HookReads
  <2> QED
    BY <1>1, <1>3, <2>1, TokenIs DEF HookReads, Entry, Terms
<1>4. CASE Sessions
  BY <1>1, <1>2, <1>3, <1>4 DEF Sessions, StartSession, EndSession, StoreRecord, HookMoves, HookLooks,
     HookRegisters, HookDies
<1>5. CASE Commands \/ Edits
  BY <1>2, <1>5 DEF Commands, Enable, Disable, Uninstall, Doctor, FinishUpgrade, Edits, EditBaseURL,
     EditOutside, EditKey, EditHooks, LoseTable
<1>6. CASE Steps
  BY <1>2, <1>6 DEF Steps, InstallGrant, InstallConsent, InstallRegistry, OfferSettings, Inject,
     EnsureIgnored, SelfCheck, EnableFails, Undo, RemoveProject, PutBack, RestoreSettings, RevokeGrant,
     UnregisterSessionFiles, RecordDenied, PurgeProjectRecords, Withdraw, UninstallWarns, KeepData,
     DeleteData, CompleteProjectHooks, ReconcileUpstream, Stop, EnableAt, At
<1> QED
  BY <1>2, <1>4, <1>5, <1>6 DEF Next, vars

LEMMA GhostShapeStep ==
  ASSUME Shape, [Next]_vars
  PROVE  GhostShape'
<1> USE DEF GhostShape
<1>1. GhostShape
  BY DEF Shape
<1>2. own' \in (Upstreams \ {Default}) \cup {"unset"} /\ withdrawn' \in BOOLEAN /\ lost' \in BOOLEAN
  <2>1. CASE UNCHANGED <<own, withdrawn, lost>>
    BY <1>1, <2>1
  <2>2. CASE Commands
    BY <1>1, <2>2 DEF Commands, Enable, Disable, Uninstall, Doctor, FinishUpgrade, ghosts
  <2>3. CASE Sessions
    BY <2>1, <2>3 DEF Sessions, StartSession, EndSession, StoreRecord, HookReads, HookMoves, HookLooks,
       HookRegisters, HookDies, ghosts
  <2>4. CASE Edits
    BY <1>1, <2>4, ProjectConstants DEF Edits, EditBaseURL, EditOutside, EditKey, EditHooks, LoseTable,
       ghosts
  <2>5. CASE Steps
    BY <1>1, <2>5 DEF Steps, InstallGrant, InstallConsent, InstallRegistry, OfferSettings, Inject,
       EnsureIgnored, SelfCheck, EnableFails, Undo, RemoveProject, PutBack, RestoreSettings, RevokeGrant,
       UnregisterSessionFiles, RecordDenied, PurgeProjectRecords, Withdraw, UninstallWarns, KeepData,
       DeleteData, CompleteProjectHooks, ReconcileUpstream, Stop, ghosts
  <2> QED
    BY <2>1, <2>2, <2>3, <2>4, <2>5 DEF Next, vars, ghosts
<1>3. keyBy' \in Writers
  <2>1. CASE UNCHANGED keyBy
    BY <1>1, <2>1
  <2>2. CASE OfferSettings \/ RestoreSettings
    BY <1>1, <2>2 DEF OfferSettings, RestoreSettings, RestoreKey, Unaccept, Accept, SetKey, KeyStays, Writers
  <2>3. CASE Undo
    BY <2>3, <1>1, UndoIs DEF UndoGrants, UndoDecision, UndoRegistry, UndoSettings, UndoIgnored,
       Staged, Snapshots
  <2>4. CASE Commands \/ Sessions \/ Edits
    BY <2>1, <2>4 DEF Commands, Enable, Disable, Uninstall, Doctor, FinishUpgrade, ghosts, Sessions,
       StartSession, EndSession, StoreRecord, HookReads, HookMoves, HookLooks, HookRegisters, HookDies,
       Edits, EditBaseURL, EditOutside, EditKey, EditHooks, LoseTable, Writers
  <2>5. CASE Steps
    BY <1>1, <2>1, <2>2, <2>3, <2>5 DEF Steps, InstallGrant, InstallConsent, InstallRegistry, Inject,
       EnsureIgnored, SelfCheck, EnableFails, RemoveProject, PutBack, RevokeGrant, Writers,
       UnregisterSessionFiles, RecordDenied, PurgeProjectRecords, Withdraw, UninstallWarns, KeepData,
       DeleteData, CompleteProjectHooks, ReconcileUpstream, Stop, ghosts
  <2> QED
    BY <2>1, <2>4, <2>5 DEF Next, vars, ghosts
<1>4. fate' \in Fates
  <2> USE DEF Fates
  <2>1. CASE UNCHANGED fate
    BY <1>1, <2>1
  <2>2. ASSUME NEW up, NEW was, NEW moved, NEW named, MoveTo(up, was, moved, named)
        PROVE  fate' \in Fates
    BY <1>1, <2>2 DEF MoveTo
  <2>3. CASE Undo
    BY <2>3, <1>1, UndoIs DEF UndoGrants, UndoDecision, UndoRegistry, UndoSettings, UndoIgnored,
       Staged, Snapshots
  <2>4. CASE Commands \/ Sessions \/ Edits
    BY <2>1, <2>2, <2>4 DEF Commands, Enable, Disable, Uninstall, Doctor, FinishUpgrade, ghosts, Sessions,
       StartSession, EndSession, StoreRecord, HookReads, HookMoves, HookLooks, HookRegisters, HookDies,
       Edits, EditBaseURL, EditOutside, EditKey, EditHooks, LoseTable
  <2>5. CASE PutBack \/ ReconcileUpstream \/ Inject \/ Stop
    BY <1>1, <2>2, <2>5 DEF PutBack, ReconcileUpstream, Inject, Stop
  <2>6. CASE Steps
    BY <1>1, <2>1, <2>3, <2>5, <2>6 DEF Steps, InstallGrant, InstallConsent, InstallRegistry,
       OfferSettings, EnsureIgnored, SelfCheck, EnableFails, RemoveProject, RestoreSettings, RevokeGrant,
       UnregisterSessionFiles, RecordDenied, PurgeProjectRecords, Withdraw, UninstallWarns, KeepData,
       DeleteData, CompleteProjectHooks, ghosts
  <2> QED
    BY <2>1, <2>4, <2>6 DEF Next, vars, ghosts
<1> QED
  BY <1>2, <1>3, <1>4

\* What a command records of the state it begins in.
LEMMA SnapshotIs ==
  ASSUME Shape
  PROVE  Snapshot \in Snapshots /\ Snapshot.entry = AsRead.entry
<1>1. AsRead.entry \in [Tokens -> Entries]
  BY Read DEF Tables
<1> QED
  BY <1>1 DEF Snapshot, Snapshots, Shape, TableShape, UserShape, GhostShape

LEMMA CmdShapeStep ==
  ASSUME Shape, [Next]_vars
  PROVE  CmdShape'
<1> DEFINE Right(c) == c \in Cmds /\ Staged(c) /\ (c.inside => session' # "closed")
<1>1. CASE cmd' = Idle
  BY <1>1 DEF CmdShape
<1>2. CASE UNCHANGED cmd /\ (EndSession \/ session = "closed" \/ UNCHANGED session)
  BY <1>2 DEF Shape, CmdShape, EndSession
<1>3. CASE \E inside \in BOOLEAN, shape \in Shapes : Enable(inside, shape)
  <2>1. PICK inside \in BOOLEAN, shape \in Shapes : Enable(inside, shape)
    BY <1>3
  <2>2. inside => session # "closed"
    BY <2>1 DEF Enable
  <2> DEFINE want == Resolution(inside)
             up   == IF KeepsRecorded(want) THEN AsRead.entry[Token].up ELSE want.up
  <2>3. want.up \in Upstreams /\ want.external \in BOOLEAN
    BY <2>2, Resolves_To
  <2>4. up \in Upstreams
    BY <2>3, TokenIs DEF KeepsRecorded, Entry
  <2>5. PICK t \in IF Enabled THEN {Token} ELSE Tokens \ minted :
          cmd' = [Started("enable", "grant", inside) EXCEPT
                    !.shape = shape, !.token = t, !.up = up,
                    !.elsewhere = want.external /\ Displaced, !.snap = Snapshot]
    BY <2>1 DEF Enable
  <2>6. t \in Tokens
    BY <2>5, TokenIs
  <2>7. UNCHANGED session /\ Displaced \in BOOLEAN
    BY <2>1 DEF Enable, user, Displaced
  <2> DEFINE e == want.external /\ Displaced
  <2>10. e \in BOOLEAN
    BY <2>3, <2>7
  <2> HIDE DEF want, up, e
  <2>11. cmd' = [Started("enable", "grant", inside) EXCEPT !.shape = shape, !.token = t, !.up = up,
                   !.elsewhere = e, !.snap = Snapshot]
    BY <2>5 DEF e
  <2>12. <<>> \in Seq(Undoable)
    OBVIOUS
  <2>8. cmd' \in Cmds
    BY <2>4, <2>6, <2>10, <2>11, <2>12, SnapshotIs DEF Started, Cmds, Kinds, EnableSteps
  <2>9. Staged(cmd')
    BY <2>5, <2>6, SnapshotIs DEF Started, Staged, Undoes, EnableSteps, Ordered
  <2> QED
    BY <2>2, <2>5, <2>7, <2>8, <2>9 DEF CmdShape, Started
<1>4. CASE \E inside \in BOOLEAN : Disable(inside) \/ Uninstall(inside) \/ Doctor(inside)
  <2>1. PICK inside \in BOOLEAN : Disable(inside) \/ Uninstall(inside) \/ Doctor(inside)
    BY <1>4
  <2>2. (inside => session # "closed") /\ UNCHANGED session
    BY <2>1 DEF Disable, Uninstall, Doctor, user
  <2>3. CASE Disable(inside)
    <3>1. PICK early \in BOOLEAN :
            cmd' = [Started("disable", IF early THEN "settings" ELSE "remove", inside) EXCEPT !.early = early]
      <4> DEFINE early == ~Enabled /\ InjectionShape = "none"
      <4>1. early \in BOOLEAN
        OBVIOUS
      <4>2. cmd' = [Started("disable", IF early THEN "settings" ELSE "remove", inside) EXCEPT !.early = early]
        BY <2>3 DEF Disable, EarlySteps
      <4> HIDE DEF early
      <4> QED
        BY <4>1, <4>2
    <3>2. <<>> \in Seq(Undoable)
      OBVIOUS
    <3>3. cmd' \in Cmds
      BY <3>1, <3>2, RoutingConstants DEF Started, Cmds, Kinds, DisableSteps, Shapes
    <3>4. Staged(cmd') /\ cmd'.inside = inside
      BY <3>1 DEF Started, DisableSteps, Staged, Undoes
    <3> QED
      BY <2>2, <3>3, <3>4 DEF CmdShape
  <2>4. CASE Uninstall(inside)
    BY <2>2, <2>4, RoutingConstants DEF Uninstall, Started, Cmds, Kinds, UninstallSteps, Staged, Undoes, CmdShape, Shapes
  <2>5. CASE Doctor(inside)
    <3> DEFINE c == Started("doctor", Repair, inside)
    <3>1. Repair \in DoctorSteps /\ (Repair = "inject" => Enabled)
      BY <2>5 DEF Doctor, Repair, DoctorSteps
    <3>2. c \in Cmds /\ c.kind = "doctor" /\ c.at = Repair /\ ~c.cleared /\ c.inside = inside
      BY <3>1, RoutingConstants DEF Started, Cmds, Kinds, Shapes
    <3> HIDE DEF c
    <3>3. \/ cmd' = c /\ ~Enabled
          \/ Enabled /\ cmd' = [c EXCEPT !.token = Token, !.shape = terms[Token].shape,
                                   !.up = AsRead.entry[Token].up, !.moved = terms[Token].moved]
      BY <2>5 DEF Doctor, c
    <3>4. cmd' \in Cmds /\ cmd'.kind = "doctor" /\ cmd'.at = Repair /\ ~cmd'.cleared
          /\ cmd'.inside = inside /\ (Repair = "inject" => cmd'.token \in Tokens)
      BY <3>1, <3>2, <3>3, TokenIs DEF Cmds, Terms, Entry
    <3> QED
      BY <2>2, <3>1, <3>4 DEF Staged, Undoes, CmdShape
  <2> QED
    BY <2>1, <2>3, <2>4, <2>5
<1>5. CASE Steps /\ cmd' # Idle
  <2>1. cmd \in Cmds /\ Staged(cmd) /\ (cmd.inside => session # "closed") /\ UNCHANGED session
    <3>1. cmd # Idle \/ cmd.kind # "idle"
      BY <1>5 DEF Steps, InstallGrant, InstallConsent, InstallRegistry, OfferSettings, Inject, In,
       EnsureIgnored, SelfCheck, EnableFails, Undo, RemoveProject, PutBack, RestoreSettings, RevokeGrant,
       UnregisterSessionFiles, RecordDenied, PurgeProjectRecords, Withdraw, UninstallWarns, KeepData,
       DeleteData, CompleteProjectHooks, ReconcileUpstream, Stop
    <3>2. UNCHANGED session
      BY <1>5 DEF Steps, InstallGrant, InstallConsent, InstallRegistry, OfferSettings, Inject, user,
       EnsureIgnored, SelfCheck, EnableFails, Undo, RemoveProject, PutBack, RestoreSettings, RevokeGrant,
       UnregisterSessionFiles, RecordDenied, PurgeProjectRecords, Withdraw, UninstallWarns, KeepData,
       DeleteData, CompleteProjectHooks, ReconcileUpstream, Stop
    <3> QED
      BY <3>1, <3>2, Busy DEF Shape, CmdShape
  <2> SUFFICES cmd' \in Cmds /\ Staged(cmd') /\ cmd'.inside = cmd.inside
    BY <2>1 DEF CmdShape
  <2>2. cmd.ledger \in Seq(Undoable)
    BY <2>1 DEF Cmds
  <2> USE DEF Undoes
  <2>3. CASE InstallGrant
    <3> DEFINE l == Append(cmd.ledger, "grants")
    <3>1. l \in Seq(Undoable) /\ l # <<>> /\ Ordered(l)
      BY <2>1, <2>2, <2>3, LedgerGrows DEF Undoable, InstallGrant, In, Staged
    <3>2. cmd' = [cmd EXCEPT !.at = "consent", !.ledger = l] /\ cmd.kind = "enable" /\ cmd.at = "grant"
      BY <2>3 DEF InstallGrant, In, EnableAt, OnLedger
    <3> HIDE DEF l
    <3> QED
      BY <2>1, <3>1, <3>2 DEF Cmds, Staged, EnableSteps
  <2>4. CASE InstallConsent
    <3> DEFINE l == Append(cmd.ledger, "decision")
    <3>1. l \in Seq(Undoable) /\ l # <<>> /\ Ordered(l) /\ Has(l, "decision")
      BY <2>1, <2>2, <2>4, LedgerGrows DEF Undoable, InstallConsent, In, Staged
    <3>2. cmd' = [cmd EXCEPT !.at = "register", !.ledger = l] /\ cmd.kind = "enable" /\ cmd.at = "consent"
      BY <2>4 DEF InstallConsent, In, EnableAt, OnLedger
    <3> HIDE DEF l
    <3> QED
      BY <2>1, <3>1, <3>2 DEF Cmds, Staged, EnableSteps
  <2>5. CASE InstallRegistry
    <3> DEFINE l == Append(cmd.ledger, "registry")
    <3>1. /\ l \in Seq(Undoable) /\ l # <<>> /\ Ordered(l) /\ Has(l, "decision")
          /\ cmd.ledger # <<>> /\ Ordered(cmd.ledger) /\ Has(cmd.ledger, "decision")
      BY <2>1, <2>2, <2>5, LedgerGrows, SMTT(20) DEF Undoable, InstallRegistry, In, Staged
    <3>2. \/ cmd' = [cmd EXCEPT !.at = "offer", !.ledger = l]
          \/ cmd' = [cmd EXCEPT !.at = "offer", !.ledger = cmd.ledger]
          \/ cmd' = [cmd EXCEPT !.at = "offer"]
      BY <2>5 DEF InstallRegistry, In, EnableAt, At, OnLedger
    <3> HIDE DEF l
    <3>3. \E k \in Seq(Undoable) : /\ cmd' = [cmd EXCEPT !.at = "offer", !.ledger = k]
                                  /\ k # <<>> /\ Ordered(k) /\ Has(k, "decision")
      BY <2>1, <2>2, <3>1, <3>2 DEF Cmds
    <3>4. cmd.kind = "enable" /\ cmd.at = "register"
      BY <2>5 DEF InstallRegistry, In
    <3> QED
      BY <2>1, <3>3, <3>4, ZenonT(30) DEF Cmds, Staged, EnableSteps
  <2>6. CASE OfferSettings
    <3>1. cmd' = [cmd EXCEPT !.at = "inject", !.ledger = cmd.ledger] /\ cmd.kind = "enable" /\ cmd.at = "offer"
      BY <2>6 DEF OfferSettings, In, EnableAt, OnLedger
    <3> QED
      BY <2>1, <3>1 DEF Cmds, Staged, EnableSteps
  <2>7. CASE Inject /\ cmd.kind = "enable"
    <3> DEFINE l == OnLedger("inject")
    <3>1. cmd.at = "inject" /\ Has(cmd.ledger, "decision") /\ cmd.ledger # <<>> /\ Ordered(cmd.ledger)
          /\ (cmd.cleared => Has(cmd.ledger, "settings"))
      BY <2>1, <2>7 DEF Inject, Staged
    <3>2. l \in Seq(Undoable) /\ l # <<>> /\ Ordered(l) /\ Has(l, "decision") /\ Has(l, "settings")
      BY <2>2, <3>1, LedgerGrows DEF Undoable, OnLedger
    <3>3. \/ cmd' = [cmd EXCEPT !.at = "remove", !.cleared = TRUE, !.ledger = l]
          \/ cmd' = [cmd EXCEPT !.at = "ignore", !.ledger = l]
      BY <2>7 DEF Inject
    <3> HIDE DEF l
    <3> QED
      BY <2>1, <2>7, <3>1, <3>2, <3>3, ZenonT(30) DEF Cmds, Staged, EnableSteps
  <2>8. CASE Inject /\ cmd.kind = "doctor"
    <3>1. \/ cmd' = [cmd EXCEPT !.at = "remove", !.cleared = TRUE, !.ledger = <<>>]
          \/ cmd' = [cmd EXCEPT !.at = "ignore", !.ledger = <<>>]
      BY <2>8 DEF Inject
    <3>2. <<>> \in Seq(Undoable) /\ cmd.at = "inject"
      BY <2>8 DEF Inject
    <3> QED
      BY <2>1, <2>8, <3>1, <3>2, ZenonT(30) DEF Cmds, Staged, DoctorSteps
  <2>9. CASE EnsureIgnored /\ cmd.kind = "enable"
    <3> DEFINE l == IF kept.ignored THEN cmd.ledger ELSE Append(cmd.ledger, "ignore")
    <3>1. /\ cmd.at = "ignore" /\ Has(cmd.ledger, "decision") /\ cmd.ledger # <<>> /\ Ordered(cmd.ledger)
          /\ Has(cmd.ledger, "settings")
      BY <2>1, <2>9 DEF EnsureIgnored, Staged
    <3>2. l \in Seq(Undoable) /\ l # <<>> /\ Ordered(l) /\ Has(l, "decision") /\ Has(l, "settings")
      BY <2>2, <3>1, LedgerGrows DEF Undoable
    <3>3. cmd' = [cmd EXCEPT !.at = "check", !.ledger = l]
      BY <2>1, <2>9 DEF EnsureIgnored, Cmds
    <3> HIDE DEF l
    <3> QED
      BY <2>1, <2>9, <3>1, <3>2, <3>3 DEF Cmds, Staged, EnableSteps
  <2>10. CASE EnsureIgnored /\ cmd.kind = "doctor"
    BY <2>1, <2>10 DEF EnsureIgnored, At, Cmds, Staged, DoctorSteps
  <2>11. CASE EnableFails
    <3> DEFINE l == OnLedger(cmd.at)
    <3>1. l \in Seq(Undoable) /\ Ordered(l)
      <4>1. CASE l = cmd.ledger
        BY <2>1, <2>2, <2>11, <4>1 DEF EnableFails, Staged
      <4>2. CASE cmd.at = "grant" /\ l = Append(cmd.ledger, "grants")
        BY <2>1, <2>2, <2>11, <4>2, LedgerGrows DEF EnableFails, Staged, Undoable
      <4>3. CASE \E x \in {"decision", "registry", "settings"} : cmd.at # "grant" /\ l = Append(cmd.ledger, x)
        BY <2>1, <2>2, <2>11, <4>3, LedgerGrows DEF EnableFails, Staged, Undoable
      <4> QED
        BY <4>1, <4>2, <4>3 DEF OnLedger
    <3>2. cmd' = [cmd EXCEPT !.kind = "undo", !.ledger = l] /\ cmd.kind = "enable"
      BY <2>11 DEF EnableFails
    <3> HIDE DEF l
    <3> QED
      BY <2>1, <3>1, <3>2 DEF Cmds, Kinds, Staged
  <2>12. CASE Undo
    <3>1. PICK m \in Seq(Undoable) : cmd' = [cmd EXCEPT !.ledger = m] /\ Ordered(m)
      BY <1>5, <2>12, UndoIs
    <3>2. cmd.kind = "undo"
      BY <2>12, UndoIs
    <3> QED
      BY <2>1, <3>1, <3>2 DEF Cmds, Staged
  <2>13. CASE RemoveProject
    <3>1. PICK g \in Tokens \cup {"unset"} : cmd' = [cmd EXCEPT !.at = "putback", !.gone = g]
      BY <2>13 DEF RemoveProject
    <3>2. cmd.kind # "undo" /\ cmd.at = "remove"
      BY <2>13 DEF RemoveProject
    <3> QED
      BY <2>1, <3>1, <3>2 DEF Cmds, Staged, EnableSteps, DisableSteps, UninstallSteps, DoctorSteps
  <2>14. CASE PutBack
    <3>1. cmd' = [cmd EXCEPT !.at = AfterRemoval] /\ cmd.kind # "undo" /\ cmd.at = "putback"
      BY <2>14 DEF PutBack, At
    <3> QED
      BY <2>1, <3>1 DEF AfterRemoval, Cmds, Staged, EnableSteps, DisableSteps, UninstallSteps, DoctorSteps
  <2>15. CASE RestoreSettings
    BY <1>5, <2>1, <2>15 DEF RestoreSettings, Cmds, Kinds, Staged, DisableSteps, UninstallSteps, EnableSteps
  <2>16. CASE RevokeGrant \/ UnregisterSessionFiles \/ RecordDenied \/ PurgeProjectRecords
    BY <1>5, <2>1, <2>16 DEF RevokeGrant, UnregisterSessionFiles, RecordDenied, PurgeProjectRecords,
       At, In, Cmds, Staged, DisableSteps
  <2>17. CASE UninstallWarns \/ CompleteProjectHooks
    BY <2>1, <2>17 DEF UninstallWarns, CompleteProjectHooks, At, In, Cmds, Staged, UninstallSteps, DoctorSteps
  <2>18. CASE SelfCheck \/ Withdraw \/ KeepData \/ DeleteData \/ ReconcileUpstream \/ Stop
    BY <1>5, <2>18 DEF SelfCheck, Withdraw, KeepData, DeleteData, ReconcileUpstream, Stop
  <2> QED
    BY <1>5, <2>3, <2>4, <2>5, <2>6, <2>7, <2>8, <2>9, <2>10, <2>11, <2>12, <2>13, <2>14, <2>15, <2>16,
       <2>17, <2>18 DEF Steps, Inject, EnsureIgnored
<1>6. CASE Sessions \/ Edits \/ FinishUpgrade
  <2>1. CASE FinishUpgrade \/ Edits
    BY <1>1, <2>1 DEF FinishUpgrade, Edits, Editing, EditBaseURL, EditOutside, EditKey, EditHooks, LoseTable
  <2>2. CASE Sessions
    BY <1>2, <2>2 DEF Sessions, StartSession, EndSession, StoreRecord, HookReads, HookMoves, HookLooks,
       HookRegisters, HookDies, user, FirstOf
  <2> QED
    BY <1>6, <2>1, <2>2
<1> QED
  BY <1>1, <1>2, <1>3, <1>4, <1>5, <1>6 DEF Next, Commands, vars, user

LEMMA ShapeStep ==
  ASSUME Shape, [Next]_vars
  PROVE  Shape'
BY TableShapeStep, UserShapeStep, CmdShapeStep, HookShapeStep, GhostShapeStep DEF Shape

-----------------------------------------------------------------------------
(* What a step may do to the table, and to the command under way.           *)

LEMMA MoveToIs ==
  ASSUME Shape, NEW up \in Upstreams, NEW was, NEW moved, NEW named, MoveTo(up, was, moved, named)
  PROVE  /\ \A t \in Tokens :
              /\ AsRead'.entry[t].state = Entry(t).state
              /\ AsRead'.entry[t].up = IF Stands(t) THEN up ELSE Entry(t).up
              /\ terms'[t].shape = terms[t].shape
              /\ terms'[t].moved = (IF Stands(t) THEN TRUE ELSE terms[t].moved)
         /\ Standing' = Standing
<1> DEFINE tab == Moved(AsRead, Root, up)
<1>1. \A t \in Tokens :
        /\ tab.entry[t].state = Entry(t).state
        /\ tab.entry[t].up = IF Entry(t).state = "standing" THEN up ELSE Entry(t).up
  BY MovedIs
<1>2. Update(tab)
  BY DEF MoveTo
<1> HIDE DEF tab
<1>3. AsRead' = tab
  BY <1>2, Written
<1>4. \A t \in Tokens : /\ terms'[t].shape = terms[t].shape
                         /\ terms'[t].moved = (IF Stands(t) THEN TRUE ELSE terms[t].moved)
  BY Standings DEF MoveTo, Shape, TableShape, Terms
<1> QED
  BY <1>1, <1>3, <1>4 DEF Stands, Standing, Entry

LEMMA InstallIs ==
  ASSUME Shape, InstallGrant
  PROVE  /\ cmd.kind = "enable" /\ cmd.at = "grant" /\ cmd.token \in Tokens /\ cmd \in Cmds
         /\ cmd' = [cmd EXCEPT !.at = "consent", !.ledger = Append(cmd.ledger, "grants")]
         /\ AsRead'.entry[cmd.token] = [state |-> "standing", up |-> cmd.up]
         /\ \A t \in Tokens \ {cmd.token} :
              /\ AsRead'.entry[t].state # "standing"
              /\ (AsRead'.entry[t].state = "none") <=> (Entry(t).state = "none")
         /\ Standing' = {cmd.token}
         /\ terms'[cmd.token] = [shape |-> cmd.shape, moved |-> FALSE]
<1>1. cmd \in Cmds /\ Staged(cmd) /\ cmd.kind = "enable" /\ cmd.at = "grant"
  BY Busy DEF InstallGrant, In
<1>2. cmd.token \in Tokens /\ cmd.up \in Upstreams
  BY <1>1 DEF Staged, Undoes, Cmds
<1> DEFINE tab == Granted(AsRead, cmd.token, cmd.up)
<1>3. /\ tab.entry[cmd.token] = [state |-> "standing", up |-> cmd.up]
      /\ \A t \in Tokens \ {cmd.token} :
           /\ tab.entry[t].state # "standing"
           /\ (tab.entry[t].state = "none") <=> (Entry(t).state = "none")
  BY <1>2, GrantedIs
<1>4. Update(tab)
  BY DEF InstallGrant
<1>5. cmd' = [cmd EXCEPT !.at = "consent", !.ledger = Append(cmd.ledger, "grants")]
  BY <1>1 DEF InstallGrant, EnableAt, OnLedger
<1>6. terms'[cmd.token] = [shape |-> cmd.shape, moved |-> FALSE]
  BY <1>2 DEF InstallGrant, Shape, TableShape
<1> HIDE DEF tab
<1>7. AsRead' = tab
  BY <1>4, Written
<1> QED
  BY <1>1, <1>2, <1>3, <1>5, <1>6, <1>7 DEF Standing

LEMMA UndoGrantsIs ==
  ASSUME Shape, Undo, UndoGrants
  PROVE  /\ \A t \in Tokens : AsRead'.entry[t] = cmd.snap.entry[t]
         /\ terms' = cmd.snap.terms
<1>1. cmd.snap.entry \in [Tokens -> Entries]
  BY UndoIs DEF Staged, Snapshots
<1> DEFINE tab == Restored(AsRead, Root, cmd.snap.entry)
<1>2. \A t \in Tokens : tab.entry[t] = cmd.snap.entry[t]
  BY <1>1, RestoredIs
<1>3. Update(tab)
  BY DEF UndoGrants
<1> HIDE DEF tab
<1> QED
  BY <1>2, <1>3, Written DEF UndoGrants

LEMMA RevokeIs ==
  ASSUME Shape, RevokeGrant
  PROVE  /\ \A t \in Tokens :
              /\ AsRead'.entry[t].state # "standing" /\ AsRead'.entry[t].up = Entry(t).up
              /\ (AsRead'.entry[t].state = "none") <=> (Entry(t).state = "none")
         /\ Standing' = {} /\ UNCHANGED terms
<1> DEFINE tab == Revoked(AsRead, Root)
<1>1. \A t \in Tokens :
        /\ tab.entry[t].state # "standing" /\ tab.entry[t].up = Entry(t).up
        /\ (tab.entry[t].state = "none") <=> (Entry(t).state = "none")
  BY RevokedIs
<1>2. Update(tab) /\ UNCHANGED terms
  BY DEF RevokeGrant
<1> HIDE DEF tab
<1>3. AsRead' = tab
  BY <1>2, Written
<1> QED
  BY <1>1, <1>2, <1>3 DEF Standing

LEMMA ClearIs ==
  ASSUME Shape, DeleteData \/ LoseTable
  PROVE  AsRead' = EmptyTable /\ Standing' = {} /\ lost' /\ cmd' = Idle
         /\ \A t \in Tokens : AsRead'.entry[t] = NoEntry
<1>1. AsRead' = EmptyTable /\ lost' /\ cmd' = Idle
  BY DEF DeleteData, LoseTable, AsRead, Editing
<1> QED
  BY <1>1, Read DEF Standing, NoEntry

LEMMA TableSteps ==
  ASSUME Shape, [Next]_vars
  PROVE  \/ AsRead' = AsRead /\ terms' = terms /\ Standing' = Standing
         \/ InstallGrant \/ RevokeGrant
         \/ Undo /\ UndoGrants /\ \A y : Has(cmd.ledger, y) <=> y = "grants"
         \/ \E up \in Upstreams : \E was, moved, named :
              MoveTo(up, was, moved, named) /\ (HookMoves \/ ReconcileUpstream)
         \/ DeleteData \/ LoseTable
<1>1. CASE UNCHANGED <<table, file, terms>>
  BY <1>1, TableStays
<1>2. CASE Undo
  BY <1>1, <1>2, UndoIs DEF UndoDecision, UndoRegistry, UndoSettings, UndoIgnored, store
<1>3. CASE ReconcileUpstream
  <2>1. Resolution(cmd.inside).up \in Upstreams
    BY <1>3, Busy, Resolves_To DEF ReconcileUpstream, In, Shape, CmdShape, Cmds
  <2> QED
    BY <1>1, <1>3, <2>1 DEF ReconcileUpstream
<1>4. CASE HookMoves
  BY <1>4 DEF HookMoves, Shape, HookShape, Hooks
<1>5. CASE Commands
  BY <1>1, <1>5 DEF Commands, Enable, Disable, Uninstall, Doctor, FinishUpgrade, store
<1>6. CASE Sessions \/ Edits
  BY <1>1, <1>4, <1>6 DEF Sessions, Edits, StartSession, EndSession, StoreRecord, HookReads,
     HookLooks, HookRegisters, HookDies, EditBaseURL, EditOutside, EditKey, EditHooks, store
<1>7. CASE Steps
  BY <1>1, <1>2, <1>3, <1>7 DEF Steps, InstallConsent, InstallRegistry,
     OfferSettings, Inject, EnsureIgnored, SelfCheck, EnableFails, RemoveProject, PutBack,
     RestoreSettings, UnregisterSessionFiles, RecordDenied, PurgeProjectRecords, Withdraw,
     UninstallWarns, KeepData, CompleteProjectHooks, Stop, store
<1> QED
  BY <1>1, <1>5, <1>6, <1>7 DEF Next, vars, store

LEMMA Begins ==
  ASSUME NEW inside \in BOOLEAN
  PROVE  /\ Disable(inside) => cmd'.kind = "disable" /\ cmd'.inside = inside
         /\ Uninstall(inside) => cmd'.kind = "uninstall" /\ cmd'.inside = inside
         /\ Doctor(inside) => cmd'.kind = "doctor" /\ cmd'.inside = inside
<1>1. Disable(inside) => cmd'.kind = "disable" /\ cmd'.inside = inside
  BY DEF Disable, Started
<1>2. Uninstall(inside) => cmd'.kind = "uninstall" /\ cmd'.inside = inside
  BY DEF Uninstall, Started
<1>3. Doctor(inside) => cmd'.kind = "doctor" /\ cmd'.inside = inside
  BY DEF Doctor, Started
<1> QED
  BY <1>1, <1>2, <1>3

\* What a command read when it began stays what it was.
LEMMA CmdSteps ==
  ASSUME Shape, Steps, cmd' # Idle
  PROVE  /\ cmd \in Cmds /\ Staged(cmd) /\ cmd.kind # "idle"
         /\ cmd'.token = cmd.token /\ cmd'.snap = cmd.snap /\ cmd'.up = cmd.up /\ cmd'.inside = cmd.inside
         /\ cmd'.elsewhere = cmd.elsewhere /\ cmd'.early = cmd.early /\ cmd'.shape = cmd.shape
         /\ cmd'.kind = cmd.kind \/ (cmd.kind = "enable" /\ cmd'.kind = "undo")
<1>1. cmd # Idle \/ cmd.kind # "idle"
  BY DEF Steps, InstallGrant, InstallConsent, InstallRegistry, OfferSettings, Inject, In,
     EnsureIgnored, SelfCheck, EnableFails, Undo, RemoveProject, PutBack, RestoreSettings, RevokeGrant,
     UnregisterSessionFiles, RecordDenied, PurgeProjectRecords, Withdraw, UninstallWarns, KeepData,
     DeleteData, CompleteProjectHooks, ReconcileUpstream, Stop
<1>2. cmd \in Cmds /\ Staged(cmd) /\ cmd.kind # "idle"
  BY <1>1, Busy DEF Cmds, Kinds
<1>3. CASE InstallGrant \/ InstallConsent \/ InstallRegistry \/ OfferSettings
  BY <1>2, <1>3 DEF InstallGrant, InstallConsent, InstallRegistry, OfferSettings, EnableAt, At, In, Cmds
<1>4. CASE Inject \/ EnsureIgnored \/ EnableFails
  BY <1>2, <1>4 DEF Inject, EnsureIgnored, EnableFails, At, Cmds
<1>5. CASE Undo
  BY <1>2, <1>5, UndoIs DEF Cmds
<1>6. CASE RemoveProject \/ PutBack \/ RestoreSettings
  BY <1>2, <1>6 DEF RemoveProject, PutBack, RestoreSettings, At, Cmds, Kinds, Staged, EnableSteps
<1>7. CASE ~(InstallGrant \/ InstallConsent \/ InstallRegistry \/ OfferSettings \/ Inject
             \/ EnsureIgnored \/ EnableFails \/ Undo \/ RemoveProject \/ PutBack \/ RestoreSettings)
  BY <1>2, <1>7 DEF Steps, SelfCheck, RevokeGrant, UnregisterSessionFiles, RecordDenied,
     PurgeProjectRecords, Withdraw, UninstallWarns, KeepData, DeleteData, CompleteProjectHooks,
     ReconcileUpstream, Stop, At, In, Cmds
<1> QED
  BY <1>2, <1>3, <1>4, <1>5, <1>6, <1>7

-----------------------------------------------------------------------------
(* One token stands at a time.                                              *)

LEMMA GrantStep ==
  ASSUME Shape, GrantInv, [Next]_vars
  PROVE  GrantInv'
<1> USE DEF Stands, Entry
<1>1. One(AsRead.entry)'
  <2>1. CASE AsRead' = AsRead
    BY <2>1 DEF GrantInv
  <2>2. CASE InstallGrant
    BY <2>2, InstallIs DEF One
  <2>3. CASE Undo /\ UndoGrants
    BY <2>3, UndoIs, UndoGrantsIs DEF One, GrantInv
  <2>4. CASE RevokeGrant
    BY <2>4, RevokeIs DEF One
  <2>5. CASE \E up \in Upstreams : \E was, moved, named : MoveTo(up, was, moved, named)
    BY <2>5, MoveToIs DEF One, GrantInv
  <2>6. CASE DeleteData \/ LoseTable
    BY <2>6, ClearIs DEF One, NoEntry
  <2> QED
    BY <2>1, <2>2, <2>3, <2>4, <2>5, <2>6, TableSteps
<1>2. CASE cmd' = Idle
  BY <1>1, <1>2 DEF GrantInv, Undoes, Idle
<1>3. CASE UNCHANGED cmd /\ ~Steps /\ cmd # Idle
  <2>1. \A t : Stands(t)' <=> Stands(t)
    <3>1. CASE AsRead' = AsRead
      BY <3>1
    <3>2. CASE \E up \in Upstreams : \E was, moved, named : MoveTo(up, was, moved, named)
      BY <3>2, MoveToIs
    <3>3. CASE LoseTable
      BY <3>3, <1>3, ClearIs DEF LoseTable, Editing
    <3> QED
      BY <1>3, <3>1, <3>2, <3>3, TableSteps DEF Steps
  <2> QED
    BY <1>1, <1>3, <2>1 DEF GrantInv
<1>4. CASE \E inside \in BOOLEAN, shape \in Shapes : Enable(inside, shape)
  <2>1. AsRead' = AsRead
    BY <1>4, TableStays DEF Enable, store
  <2>2. cmd'.kind = "enable" /\ cmd'.at = "grant" /\ cmd'.snap = Snapshot /\ (Enabled => cmd'.token = Token)
    BY <1>4 DEF Enable, Started
  <2>3. \A t \in Tokens : Stands(t) => t = cmd'.token
    BY <2>2, OneStands DEF GrantInv
  <2> QED
    BY <1>1, <2>1, <2>2, <2>3, SnapshotIs DEF GrantInv, Undoes, Snapshot
<1>5. CASE \E inside \in BOOLEAN : Disable(inside) \/ Uninstall(inside)
  <2>1. cmd'.kind \in {"disable", "uninstall"}
    BY <1>5 DEF Disable, Uninstall, Started
  <2> QED
    BY <1>1, <2>1 DEF GrantInv, Undoes
<1>6. CASE \E inside \in BOOLEAN : Doctor(inside)
  <2>1. AsRead' = AsRead
    BY <1>6, TableStays DEF Doctor, store
  <2>2. cmd'.kind = "doctor" /\ ~cmd'.cleared /\ (cmd'.at = "inject" => cmd'.token = Token /\ Enabled)
    BY <1>6 DEF Doctor, Started, Repair
  <2>3. cmd'.at = "inject" => Stands(cmd'.token)
    BY <2>2, Standings
  <2> QED
    BY <1>1, <2>1, <2>2, <2>3 DEF GrantInv, Undoes
<1>7. CASE Steps /\ cmd' # Idle
  <2>1. /\ cmd \in Cmds /\ Staged(cmd) /\ cmd'.token = cmd.token /\ cmd'.snap = cmd.snap
        /\ cmd'.kind = cmd.kind \/ (cmd.kind = "enable" /\ cmd'.kind = "undo")
    BY <1>7, CmdSteps
  <2>2. Undoes(cmd)' => One(cmd.snap.entry)'
    BY <2>1 DEF GrantInv, Undoes, One
  <2>3. CASE cmd'.kind = "undo"
    BY <1>1, <2>1, <2>2, <2>3 DEF GrantInv, Undoes
  <2>4. CASE InstallGrant
    BY <1>1, <2>1, <2>2, <2>4, InstallIs DEF GrantInv, Undoes, Cmds
  <2>5. CASE cmd'.kind = "disable" \/ cmd'.kind = "uninstall"
    BY <1>1, <2>5 DEF GrantInv, Undoes
  <2>6. CASE cmd'.kind \in {"enable", "doctor"} /\ ~InstallGrant
    <3>1. \A t : Stands(t)' <=> Stands(t)
      <4>1. CASE \E up \in Upstreams : \E was, moved, named : MoveTo(up, was, moved, named)
        BY <4>1, MoveToIs
      <4>2. ~RevokeGrant /\ ~Undo /\ ~DeleteData /\ ~LoseTable
        BY <1>7, <2>1, <2>6, UndoIs, ClearIs DEF RevokeGrant, In
      <4> QED
        BY <2>6, <4>1, <4>2, TableSteps
    <3>2. /\ cmd'.kind = "enable" => cmd.at # "grant" /\ cmd'.at # "grant"
          /\ cmd'.kind = "doctor" /\ (cmd'.at = "inject" \/ cmd'.cleared) => cmd.at = "inject" \/ cmd.cleared
      <4>1. CASE InstallConsent \/ InstallRegistry \/ OfferSettings \/ SelfCheck
        BY <1>7, <2>1, <4>1 DEF InstallConsent, InstallRegistry, OfferSettings, SelfCheck, In, EnableAt, At, Cmds
      <4>2. CASE Inject \/ EnsureIgnored
        BY <2>1, <4>2 DEF Inject, EnsureIgnored, At, Cmds
      <4>3. CASE RemoveProject \/ PutBack \/ RestoreSettings
        BY <1>7, <2>1, <2>6, <4>3 DEF RemoveProject, PutBack, RestoreSettings, At, Cmds, AfterRemoval,
           Staged, EnableSteps
      <4>4. CASE CompleteProjectHooks
        BY <2>1, <4>4 DEF CompleteProjectHooks, In, At, Cmds
      <4> QED
        BY <1>7, <2>1, <2>6, <4>1, <4>2, <4>3, <4>4, UndoIs, ClearIs DEF Steps, In, EnableFails, RevokeGrant,
           UnregisterSessionFiles, RecordDenied, PurgeProjectRecords, Withdraw, UninstallWarns, KeepData,
           ReconcileUpstream, Stop, Cmds
    <3> QED
      BY <1>1, <2>1, <2>2, <2>6, <3>1, <3>2 DEF GrantInv, Undoes
  <2> QED
    BY <2>1, <2>3, <2>4, <2>5, <2>6 DEF Cmds, Kinds
<1>8. CASE Sessions \/ Edits \/ FinishUpgrade
  <2>1. UNCHANGED cmd
    BY <1>8 DEF Sessions, StartSession, EndSession, StoreRecord, HookReads, HookMoves, HookLooks,
       HookRegisters, HookDies, FinishUpgrade, Edits, EditBaseURL, EditOutside, EditKey, EditHooks, LoseTable
  <2> QED
    BY <1>2, <1>3, <1>7, <2>1
<1> QED
  BY <1>2, <1>3, <1>4, <1>5, <1>6, <1>7, <1>8 DEF Next, Commands, Steps, vars

-----------------------------------------------------------------------------
(* What a step may do to the settings file.                                 *)

LEMMA Apart == Tokens \cap Upstreams = {} /\ "unset" \notin Tokens /\ "unset" \notin Upstreams
BY ProjectConstants

LEMMA UrlSteps ==
  ASSUME Shape, [Next]_vars
  PROVE  \/ settings'.url = settings.url
         \/ Inject /\ settings'.url = cmd.token /\ cmd.token \in Tokens
         \/ Undo /\ UndoSettings
         \/ RemoveProject /\ settings'.url = "unset"
         \/ PutBack /\ settings'.url \in Recorded(cmd.gone) /\ settings'.url \in Upstreams
         \/ EditBaseURL /\ settings'.url \in Upstreams \cup {"unset"}
<1>1. settings \in Settings
  BY DEF Shape, UserShape
<1>2. CASE UNCHANGED settings
  BY <1>2
<1>3. CASE OfferSettings \/ RestoreSettings
  BY <1>1, <1>3 DEF OfferSettings, RestoreSettings, RestoreKey, Unaccept, Accept, SetKey, KeyStays, Settings
<1>4. CASE Inject
  <2>1. cmd.token \in Tokens
    BY <1>4, Busy DEF Inject, Staged, Undoes
  <2> QED
    BY <1>1, <1>4, <2>1 DEF Inject, Injected, Settings
<1>5. CASE Undo
  BY <1>2, <1>5, UndoIs DEF UndoGrants, UndoDecision, UndoRegistry, UndoIgnored
<1>6. CASE RemoveProject
  BY <1>1, <1>6 DEF RemoveProject, Settings
<1>7. CASE PutBack
  <2>1. \A up \in Recorded(cmd.gone) : up \in Upstreams
    BY RecordedIs
  <2>2. UNCHANGED settings \/ \E up \in Recorded(cmd.gone) : settings' = [settings EXCEPT !.url = up]
    BY <1>7 DEF PutBack
  <2> QED
    BY <1>1, <1>7, <2>1, <2>2 DEF Settings
<1>8. CASE CompleteProjectHooks \/ FinishUpgrade
  BY <1>1, <1>8 DEF CompleteProjectHooks, FinishUpgrade, Completed, Settings
<1>9. CASE EditBaseURL
  BY <1>1, <1>9, ProjectConstants DEF EditBaseURL, Settings
<1>10. CASE EditOutside \/ EditKey \/ EditHooks \/ LoseTable
  BY <1>1, <1>10 DEF EditOutside, EditKey, EditHooks, LoseTable, user, Settings
<1>11. CASE Commands \/ Sessions
  BY <1>2, <1>8, <1>11 DEF Commands, Enable, Disable, Uninstall, Doctor, user, Sessions, StartSession,
     EndSession, StoreRecord, HookReads, HookMoves, HookLooks, HookRegisters, HookDies
<1>12. CASE Steps
  BY <1>2, <1>3, <1>4, <1>5, <1>6, <1>7, <1>8, <1>12 DEF Steps, InstallGrant, InstallConsent,
     InstallRegistry, EnsureIgnored, SelfCheck, EnableFails, RevokeGrant, UnregisterSessionFiles,
     RecordDenied, PurgeProjectRecords, Withdraw, UninstallWarns, KeepData, DeleteData,
     ReconcileUpstream, Stop, user
<1> QED
  BY <1>2, <1>9, <1>10, <1>11, <1>12 DEF Next, Edits, vars, user

LEMMA LostStays == ASSUME Shape, [Next]_vars, lost PROVE lost'
<1>1. UNCHANGED lost => lost'
  OBVIOUS
<1>2. CASE Commands \/ Sessions
  BY <1>1, <1>2 DEF Commands, Enable, Disable, Uninstall, Doctor, FinishUpgrade, ghosts, Sessions,
     StartSession, EndSession, StoreRecord, HookReads, HookMoves, HookLooks, HookRegisters, HookDies
<1>3. CASE Edits
  BY <1>1, <1>3 DEF Edits, EditBaseURL, EditOutside, EditKey, EditHooks, LoseTable, ghosts
<1>4. CASE Steps
  BY <1>1, <1>4 DEF Steps, InstallGrant, InstallConsent, InstallRegistry, OfferSettings, Inject,
     EnsureIgnored, SelfCheck, EnableFails, Undo, RemoveProject, PutBack, RestoreSettings, RevokeGrant,
     UnregisterSessionFiles, RecordDenied, PurgeProjectRecords, Withdraw, UninstallWarns, KeepData,
     DeleteData, CompleteProjectHooks, ReconcileUpstream, Stop, ghosts
<1> QED
  BY <1>1, <1>2, <1>3, <1>4 DEF Next, vars, ghosts

LEMMA KeySteps ==
  ASSUME Shape, [Next]_vars
  PROVE  \/ settings'.key = settings.key /\ keyBy' = keyBy
         \/ OfferSettings \/ RestoreSettings \/ (Undo /\ UndoSettings) \/ EditKey
         \/ Stop /\ settings'.key = settings.key
<1>1. settings \in Settings
  BY DEF Shape, UserShape
<1>2. CASE UNCHANGED <<settings, keyBy>>
  BY <1>2
<1>3. CASE Inject \/ RemoveProject \/ PutBack
  BY <1>1, <1>3 DEF Inject, Injected, RemoveProject, PutBack, Settings, ghosts
<1>4. CASE Undo
  BY <1>2, <1>4, UndoIs DEF UndoGrants, UndoDecision, UndoRegistry, UndoIgnored
<1>5. CASE CompleteProjectHooks \/ FinishUpgrade
  BY <1>1, <1>5 DEF CompleteProjectHooks, FinishUpgrade, Completed, Settings, ghosts
<1>6. CASE EditBaseURL \/ EditOutside \/ EditHooks \/ LoseTable
  BY <1>1, <1>6 DEF EditBaseURL, EditOutside, EditHooks, LoseTable, user, Settings, ghosts
<1>7. CASE Commands \/ Sessions
  BY <1>2, <1>5, <1>7 DEF Commands, Enable, Disable, Uninstall, Doctor, user, Sessions, StartSession, ghosts,
     EndSession, StoreRecord, HookReads, HookMoves, HookLooks, HookRegisters, HookDies
<1>8. CASE Steps
  BY <1>2, <1>3, <1>4, <1>5, <1>8 DEF Steps, InstallGrant, InstallConsent, ghosts,
     InstallRegistry, EnsureIgnored, SelfCheck, EnableFails, RevokeGrant, UnregisterSessionFiles,
     RecordDenied, PurgeProjectRecords, Withdraw, UninstallWarns, KeepData, DeleteData,
     ReconcileUpstream, Stop, user
<1> QED
  BY <1>2, <1>6, <1>7, <1>8 DEF Next, Edits, vars, user, ghosts

LEMMA AnswerSteps ==
  ASSUME Shape, [Next]_vars
  PROVE  \/ decision'.answer = decision.answer
         \/ OfferSettings \/ RestoreSettings \/ (Undo /\ UndoDecision) \/ DeleteData
<1>1. decision \in Decisions
  BY DEF Shape, UserShape
<1>2. CASE UNCHANGED decision
  BY <1>2
<1>3. CASE InstallConsent \/ RecordDenied
  BY <1>1, <1>3 DEF InstallConsent, RecordDenied, Decisions
<1>4. CASE Undo
  BY <1>2, <1>4, UndoIs DEF UndoGrants, UndoSettings, UndoRegistry, UndoIgnored, store
<1>5. CASE Commands \/ Sessions \/ Edits
  BY <1>2, <1>5 DEF Commands, Enable, Disable, Uninstall, Doctor, FinishUpgrade, store, Sessions,
     StartSession, EndSession, StoreRecord, HookReads, HookMoves, HookLooks, HookRegisters, HookDies,
     Edits, EditBaseURL, EditOutside, EditKey, EditHooks, LoseTable
<1>6. CASE Steps
  BY <1>2, <1>3, <1>4, <1>6 DEF Steps, InstallGrant, InstallRegistry, Inject, EnsureIgnored,
     SelfCheck, EnableFails, RemoveProject, PutBack, RevokeGrant, UnregisterSessionFiles,
     PurgeProjectRecords, Withdraw, UninstallWarns, KeepData, CompleteProjectHooks,
     ReconcileUpstream, Stop, store
<1> QED
  BY <1>2, <1>5, <1>6 DEF Next, vars, store

\* A ledger grows until the undo, and there before the change is made.
LEMMA LedgerSteps ==
  ASSUME Shape, Steps, cmd' # Idle, Undoes(cmd'), ~Undo
  PROVE  /\ cmd.kind = "enable" /\ cmd.ledger \in Seq(Undoable)
         /\ \A y \in {"settings", "decision"} : Has(cmd.ledger, y) => Has(cmd'.ledger, y)
         /\ EnableFails /\ cmd.at = "inject" => Has(cmd'.ledger, "settings")
<1>1. cmd.ledger \in Seq(Undoable) /\ Staged(cmd) /\ Undoes(cmd) /\ cmd \in Cmds
  BY CmdSteps DEF Cmds, Undoes
<1>2. cmd.kind = "enable"
  BY <1>1 DEF Undoes, Steps, InstallGrant, InstallConsent, InstallRegistry, OfferSettings, Inject, In,
       EnsureIgnored, SelfCheck, EnableFails, RemoveProject, PutBack, RestoreSettings, RevokeGrant,
       UnregisterSessionFiles, RecordDenied, PurgeProjectRecords, Withdraw, UninstallWarns, KeepData,
       DeleteData, CompleteProjectHooks, ReconcileUpstream, Stop
<1>3. cmd'.ledger = cmd.ledger \/ \E x \in Undoable : cmd'.ledger = Append(cmd.ledger, x)
  <2>1. CASE InstallGrant \/ InstallConsent \/ InstallRegistry \/ OfferSettings \/ EnableFails
    BY <1>1, <2>1 DEF InstallGrant, InstallConsent, InstallRegistry, OfferSettings, EnableFails, EnableAt, At,
       OnLedger, In, Cmds, Undoable
  <2>2. CASE Inject \/ EnsureIgnored
    BY <1>1, <1>2, <2>2 DEF Inject, EnsureIgnored, OnLedger, Cmds, Undoable
  <2>3. CASE RemoveProject \/ PutBack
    BY <1>1, <2>3 DEF RemoveProject, PutBack, At, Cmds
  <2> QED
    BY <1>1, <1>2, <2>1, <2>2, <2>3 DEF Steps, In, SelfCheck, RestoreSettings, RevokeGrant, Staged, EnableSteps,
       UnregisterSessionFiles, RecordDenied, PurgeProjectRecords, Withdraw, UninstallWarns, KeepData,
       DeleteData, CompleteProjectHooks, ReconcileUpstream, Stop
<1>4. EnableFails /\ cmd.at = "inject" => Has(cmd'.ledger, "settings")
  BY <1>1, <1>2, LedgerGrows DEF EnableFails, OnLedger, Staged, Undoable, Cmds
<1>5. \A y \in {"settings", "decision"} : Has(cmd.ledger, y) => Has(cmd'.ledger, y)
  <2>1. CASE cmd'.ledger = cmd.ledger
    BY <2>1
  <2>2. ASSUME NEW x \in Undoable, cmd'.ledger = Append(cmd.ledger, x)
        PROVE  \A y : Has(cmd.ledger, y) => Has(cmd'.ledger, y)
    BY <1>1, <2>2, LedgerGrows
  <2> QED
    BY <1>3, <2>1, <2>2
<1> QED
  BY <1>1, <1>2, <1>4, <1>5

-----------------------------------------------------------------------------
(* What the undo has not to take back has not changed.                      *)

LEMMA SnapStep ==
  ASSUME Shape, SnapInv, [Next]_vars
  PROVE  SnapInv'
<1>1. CASE ~Undoes(cmd')
  BY <1>1 DEF SnapInv, Undoes
<1>2. CASE \E inside \in BOOLEAN, shape \in Shapes : Enable(inside, shape)
  <2>1. cmd'.snap = Snapshot /\ cmd'.at = "grant" /\ UNCHANGED <<settings, decision, keyBy>>
    BY <1>2 DEF Enable, Started, store, user
  <2> QED
    BY <2>1 DEF SnapInv, Snapshot
<1>3. CASE UNCHANGED <<cmd, settings, decision, keyBy>>
  BY <1>3 DEF SnapInv, Undoes
<1>4. CASE Undo /\ Undoes(cmd')
  <2>1. cmd' # Idle
    BY <1>4 DEF Undoes, Idle
  <2> QED
    BY <1>4, <2>1, UndoIs DEF SnapInv, Undoes, Cmds, UndoGrants, UndoDecision, UndoRegistry, UndoSettings,
       UndoIgnored
<1>5. CASE Steps /\ ~Undo /\ Undoes(cmd')
  <2>1. cmd' # Idle
    BY <1>5 DEF Undoes, Idle
  <2>2. /\ cmd \in Cmds /\ Staged(cmd) /\ cmd.kind = "enable" /\ Undoes(cmd)
        /\ \A y \in {"settings", "decision"} : Has(cmd.ledger, y) => Has(cmd'.ledger, y)
        /\ cmd'.snap = cmd.snap
    BY <1>5, <2>1, LedgerSteps, CmdSteps DEF Undoes
  <2>3. CASE EnableFails
    <3>1. UNCHANGED <<settings, decision, keyBy>> /\ (cmd.at = "inject" => Has(cmd'.ledger, "settings"))
      BY <1>5, <2>1, <2>3, LedgerSteps DEF EnableFails, store, user
    <3>2. cmd'.kind = "undo"
      BY <2>2, <2>3 DEF EnableFails, Cmds
    <3> QED
      BY <2>2, <3>1, <3>2 DEF SnapInv, Undoes
  <2>4. CASE InstallGrant \/ InstallConsent \/ InstallRegistry
    <3>1. /\ UNCHANGED <<settings, keyBy>> /\ decision'.answer = decision.answer
          /\ cmd'.at \in {"consent", "register", "offer"} /\ cmd.at \in {"grant", "consent", "register"}
      BY <2>2, <2>4 DEF InstallGrant, InstallConsent, InstallRegistry, user, ghosts, In, EnableAt, At, Cmds,
         Shape, UserShape, Decisions
    <3> QED
      BY <2>2, <3>1 DEF SnapInv, Undoes
  <2>5. CASE OfferSettings
    <3>1. settings'.url = settings.url
      BY <2>5, <2>2, UrlSteps DEF OfferSettings, In, Undo, Inject, RemoveProject, PutBack, EditBaseURL, Editing,
         Idle
    <3>2. Has(cmd'.ledger, "decision") /\ cmd'.at = "inject" /\ cmd'.kind = "enable" /\ cmd.at = "offer"
      BY <2>2, <2>5 DEF OfferSettings, EnableAt, In, Cmds, Staged
    <3> QED
      BY <2>2, <3>1, <3>2 DEF SnapInv, Undoes
  <2>6. CASE Inject \/ EnsureIgnored \/ RemoveProject \/ PutBack
    <3>1. Has(cmd'.ledger, "settings") /\ Has(cmd'.ledger, "decision")
      <4>1. CASE Inject
        <5>1. cmd'.ledger = OnLedger("inject")
          BY <2>2, <4>1 DEF Inject, Cmds
        <5> QED
          BY <2>2, <4>1, <5>1, LedgerGrows DEF Inject, OnLedger, Staged, Undoable, Cmds
      <4>2. CASE ~Inject
        BY <2>2, <2>6, <4>2 DEF EnsureIgnored, RemoveProject, PutBack, Staged
      <4> QED
        BY <4>1, <4>2
    <3> QED
      BY <2>2, <3>1 DEF SnapInv
  <2> QED
    BY <1>5, <2>1, <2>2, <2>3, <2>4, <2>5, <2>6 DEF Steps, In, SelfCheck, RestoreSettings, RevokeGrant, Staged,
       UnregisterSessionFiles, RecordDenied, PurgeProjectRecords, Withdraw, UninstallWarns, KeepData,
       DeleteData, CompleteProjectHooks, ReconcileUpstream, Stop, EnableSteps
<1>6. CASE Sessions
  BY <1>3, <1>6 DEF Sessions, StartSession, EndSession, StoreRecord, HookReads, HookMoves, HookLooks,
     HookRegisters, HookDies, store, user, ghosts
<1>7. CASE Edits \/ FinishUpgrade
  <2>1. cmd' = Idle
    BY <1>7 DEF Edits, Editing, EditBaseURL, EditOutside, EditKey, EditHooks, LoseTable, FinishUpgrade
  <2> QED
    BY <1>1, <2>1 DEF Idle, Undoes
<1>8. CASE \E inside \in BOOLEAN : Disable(inside) \/ Uninstall(inside) \/ Doctor(inside)
  <2>1. cmd'.kind \in {"disable", "uninstall", "doctor"}
    BY <1>8, Begins
  <2> QED
    BY <1>1, <2>1 DEF Undoes
<1> QED
  BY <1>1, <1>2, <1>3, <1>4, <1>5, <1>6, <1>7, <1>8 DEF Next, Commands, Steps, vars, store, user, ghosts

-----------------------------------------------------------------------------
(* What names a token in the settings file is known.                        *)

LEMMA KnownStep ==
  ASSUME Shape, GrantInv, SnapInv, KnownInv, [Next]_vars
  PROVE  KnownInv'
<1> SUFFICES ASSUME ~lost'
             PROVE  /\ Names(AsRead'.entry, settings'.url)
                    /\ Undoes(cmd') =>
                         /\ Names(cmd'.snap.entry, cmd'.snap.settings.url)
                         /\ \A t \in Tokens : cmd'.snap.entry[t].state # "none" => AsRead'.entry[t].state # "none"
  BY DEF KnownInv, Entry, Names
<1>1. ~lost
  BY LostStays
<1>2. CASE Undo /\ UndoGrants /\ \A y : Has(cmd.ledger, y) <=> y = "grants"
  <2>1. Undoes(cmd) /\ settings' = settings /\ settings.url = cmd.snap.settings.url
    BY <1>2, UndoIs DEF UndoGrants, SnapInv
  <2>2. \A t \in Tokens : AsRead'.entry[t] = cmd.snap.entry[t]
    BY <1>2, UndoGrantsIs
  <2>3. Undoes(cmd') => cmd'.snap = cmd.snap
    BY <1>2, UndoIs DEF Cmds, Undoes, Idle
  <2> QED
    BY <1>1, <2>1, <2>2, <2>3 DEF KnownInv, Names
<1>3. CASE ~(Undo /\ UndoGrants /\ \A y : Has(cmd.ledger, y) <=> y = "grants")
  <2>1. \A t \in Tokens : Entry(t).state # "none" => AsRead'.entry[t].state # "none"
    <3>1. CASE InstallGrant
      BY <3>1, InstallIs DEF Entry
    <3>2. CASE RevokeGrant
      BY <3>2, RevokeIs
    <3>3. CASE \E up \in Upstreams : \E was, moved, named : MoveTo(up, was, moved, named)
      BY <3>3, MoveToIs
    <3>4. CASE AsRead' = AsRead
      BY <3>4 DEF Entry
    <3> QED
      BY <1>3, <3>1, <3>2, <3>3, <3>4, TableSteps, ClearIs
  <2>2. Names(AsRead'.entry, settings'.url)
    <3>1. CASE settings'.url = settings.url
      BY <1>1, <2>1, <3>1 DEF KnownInv, Names, Entry
    <3>2. CASE Inject /\ settings'.url = cmd.token
      <4>1. Stands(cmd.token)
        BY <3>2 DEF Inject, GrantInv
      <4> QED
        BY <2>1, <3>2, <4>1 DEF Names, Stands, Entry
    <3>3. CASE Undo /\ UndoSettings
      BY <1>1, <2>1, <3>3, UndoIs DEF UndoSettings, KnownInv, Names, Entry
    <3> QED
      BY <3>1, <3>2, <3>3, UrlSteps, Apart DEF Names
  <2>3. CASE \E inside \in BOOLEAN, shape \in Shapes : Enable(inside, shape)
    <3>1. cmd'.snap = Snapshot /\ UNCHANGED <<table, file>>
      BY <2>3 DEF Enable, Started, store
    <3>2. AsRead' = AsRead
      BY <3>1, TableStays
    <3> QED
      BY <1>1, <2>2, <3>1, <3>2 DEF Snapshot, KnownInv, Names, Entry
  <2>4. CASE Steps /\ Undoes(cmd')
    <3>1. cmd'.snap = cmd.snap /\ Undoes(cmd)
      BY <2>4, CmdSteps DEF Undoes, Idle
    <3> QED
      BY <1>1, <2>1, <2>2, <3>1 DEF KnownInv, Entry
  <2>5. CASE UNCHANGED cmd
    BY <1>1, <2>1, <2>2, <2>5 DEF KnownInv, Entry
  <2>6. CASE Sessions \/ Edits \/ FinishUpgrade
    BY <2>5, <2>6 DEF Sessions, StartSession, EndSession, StoreRecord, HookReads, HookMoves, HookLooks,
       HookRegisters, HookDies, FinishUpgrade, Edits, EditBaseURL, EditOutside, EditKey, EditHooks, LoseTable
  <2>7. CASE \E inside \in BOOLEAN : Disable(inside) \/ Uninstall(inside) \/ Doctor(inside)
    BY <2>2, <2>7, Begins DEF Undoes
  <2> QED
    BY <2>2, <2>3, <2>4, <2>5, <2>6, <2>7 DEF Next, Commands, vars
<1> QED
  BY <1>2, <1>3

-----------------------------------------------------------------------------
(* A requested setting of ours is on record.                                *)

LEMMA KeyStep ==
  ASSUME Shape, SnapInv, KeyInv, [Next]_vars
  PROVE  KeyInv'
<1>1. settings \in Settings /\ decision \in Decisions /\ settings' \in Settings
  BY ShapeStep DEF Shape, UserShape
<1>2. lost => lost'
  BY LostStays
<1> SUFFICES ASSUME ~lost'
             PROVE  /\ settings'.key = "true" /\ keyBy' = "us" /\ cmd'.kind # "undo" => Wrote(decision'.answer)
                    /\ Undoes(cmd') /\ cmd'.snap.settings.key = "true" /\ cmd'.snap.keyBy = "us" =>
                         Wrote(cmd'.snap.decision.answer)
  BY DEF KeyInv, KeyAccounted, Wrote
<1>4. /\ settings.key = "true" /\ keyBy = "us" /\ cmd.kind # "undo" => Wrote(decision.answer)
      /\ Undoes(cmd) /\ cmd.snap.settings.key = "true" /\ cmd.snap.keyBy = "us" =>
           Wrote(cmd.snap.decision.answer)
  BY <1>2 DEF KeyInv, KeyAccounted
<1>5. CASE OfferSettings \/ RestoreSettings
  <2>1. settings'.key = "true" /\ keyBy' = "us" => Wrote(decision'.answer)
    <3>1. settings.key = "true" /\ keyBy = "us" => Wrote(decision.answer)
      BY <1>4, <1>5 DEF OfferSettings, RestoreSettings, In
    <3> QED
      BY <1>1, <1>5, <3>1 DEF OfferSettings, RestoreSettings, RestoreKey, Unaccept, Accept, SetKey, KeyStays,
         Answered, Wrote, Settings, Decisions
  <2>2. Undoes(cmd') => cmd'.snap = cmd.snap /\ Undoes(cmd)
    BY <1>5, CmdSteps DEF Steps, Undoes, Idle
  <2> QED
    BY <1>4, <2>1, <2>2
<1>6. CASE Undo
  <2>1. Undoes(cmd') => cmd'.snap = cmd.snap
    BY <1>6, UndoIs DEF Cmds, Undoes, Idle
  <2>2. cmd'.kind = "undo" \/ cmd' = Idle
    BY <1>6, UndoIs DEF Cmds
  <2>3. CASE cmd'.kind = "undo"
    BY <1>4, <1>6, <2>1, <2>3, UndoIs DEF Undoes
  <2>4. CASE cmd' = Idle
    <3>1. cmd.ledger = <<>> /\ UNCHANGED <<settings, keyBy, decision>>
      BY <1>6, <2>4, UndoIs DEF store, Cmds, Idle
    <3>2. ~Has(cmd.ledger, "settings") /\ ~Has(cmd.ledger, "decision")
      BY <3>1 DEF Has
    <3>3. settings.key = cmd.snap.settings.key /\ keyBy = cmd.snap.keyBy /\ decision.answer = cmd.snap.decision.answer
      BY <1>6, <3>2, UndoIs DEF SnapInv
    <3> QED
      BY <1>4, <1>6, <2>4, <3>1, <3>3, UndoIs DEF Undoes, Idle
  <2> QED
    BY <2>2, <2>3, <2>4
<1>7. CASE EditKey
  BY <1>7 DEF EditKey, Editing, Idle, Undoes
<1>8. CASE Stop
  <2>1. cmd' = Idle /\ UNCHANGED <<settings, decision>>
        /\ keyBy' = IF cmd.kind = "undo" /\ ~Wrote(decision.answer) THEN "unknown" ELSE keyBy
    BY <1>8 DEF Stop, store, user
  <2> QED
    BY <1>4, <2>1 DEF Undoes, Idle
<1>9. CASE ~(OfferSettings \/ RestoreSettings \/ Undo \/ EditKey \/ Stop \/ DeleteData)
  <2>1. settings'.key = settings.key /\ keyBy' = keyBy /\ decision'.answer = decision.answer
    BY <1>9, KeySteps, AnswerSteps
  <2>2. CASE \E inside \in BOOLEAN, shape \in Shapes : Enable(inside, shape)
    <3>1. cmd'.snap = Snapshot /\ cmd.kind # "undo"
      BY <2>2 DEF Enable, Started, Idle
    <3> QED
      BY <1>4, <2>1, <3>1 DEF Snapshot
  <2>3. CASE Steps /\ cmd' # Idle
    <3>1. cmd'.kind # "undo" => cmd.kind # "undo"
      BY <2>3, CmdSteps
    <3>2. Undoes(cmd') => cmd'.snap = cmd.snap /\ Undoes(cmd)
      BY <2>3, CmdSteps DEF Undoes
    <3> QED
      BY <1>4, <2>1, <3>1, <3>2
  <2>4. CASE Steps /\ cmd' = Idle
    <3>1. cmd.kind # "undo"
      BY <1>9, <2>4 DEF Steps, InstallGrant, InstallConsent, InstallRegistry, Inject, In, EnsureIgnored,
         SelfCheck, EnableFails, RemoveProject, PutBack, RevokeGrant, UnregisterSessionFiles, RecordDenied,
         PurgeProjectRecords, Withdraw, UninstallWarns, KeepData, CompleteProjectHooks, ReconcileUpstream
    <3> QED
      BY <1>4, <2>1, <2>4, <3>1 DEF Idle, Undoes
  <2>5. CASE UNCHANGED cmd
    BY <1>4, <2>1, <2>5
  <2>6. CASE Sessions \/ Edits \/ FinishUpgrade
    BY <2>5, <2>6 DEF Sessions, StartSession, EndSession, StoreRecord, HookReads, HookMoves, HookLooks,
       HookRegisters, HookDies, FinishUpgrade, Edits, EditBaseURL, EditOutside, EditKey, EditHooks, LoseTable
  <2>7. CASE \E inside \in BOOLEAN : Disable(inside) \/ Uninstall(inside) \/ Doctor(inside)
    <3>1. cmd = Idle
      BY <2>7 DEF Disable, Uninstall, Doctor
    <3> QED
      BY <1>4, <2>1, <2>7, <3>1, Begins DEF Undoes, Idle
  <2> QED
    BY <2>2, <2>3, <2>4, <2>5, <2>6, <2>7 DEF Next, Commands, vars
<1>10. CASE DeleteData
  BY <1>10, ClearIs
<1> QED
  BY <1>5, <1>6, <1>7, <1>8, <1>9, <1>10

-----------------------------------------------------------------------------
(* A withdrawal leaves nothing behind.                                      *)

LEMMA HookedSteps ==
  ASSUME Shape, [Next]_vars
  PROVE  \/ settings'.hooks = settings.hooks
         \/ Inject /\ settings'.hooks = (IF cmd.shape = "with" THEN "plain" ELSE "marked")
         \/ Undo /\ UndoSettings
         \/ settings'.hooks = "none"
         \/ (CompleteProjectHooks \/ FinishUpgrade) /\ settings'.hooks = "plain" /\ settings.hooks = "none"
            /\ InjectionShape # "none"
<1>1. settings \in Settings
  BY DEF Shape, UserShape
<1>2. CASE UNCHANGED settings
  BY <1>2
<1>3. CASE OfferSettings \/ RestoreSettings
  BY <1>1, <1>3 DEF OfferSettings, RestoreSettings, RestoreKey, Unaccept, Accept, SetKey, KeyStays, Settings
<1>4. CASE Inject
  BY <1>1, <1>4 DEF Inject, Injected, Settings
<1>5. CASE Undo
  BY <1>2, <1>5, UndoIs DEF UndoGrants, UndoDecision, UndoRegistry, UndoIgnored
<1>6. CASE RemoveProject \/ PutBack
  BY <1>1, <1>6 DEF RemoveProject, PutBack, Settings
<1>7. CASE CompleteProjectHooks \/ FinishUpgrade
  BY <1>1, <1>7 DEF CompleteProjectHooks, FinishUpgrade, Completed, Settings
<1>8. CASE EditBaseURL \/ EditOutside \/ EditKey \/ EditHooks \/ LoseTable
  BY <1>1, <1>8 DEF EditBaseURL, EditOutside, EditKey, EditHooks, LoseTable, user, Settings
<1>9. CASE Commands \/ Sessions
  BY <1>2, <1>7, <1>9 DEF Commands, Enable, Disable, Uninstall, Doctor, user, Sessions, StartSession,
     EndSession, StoreRecord, HookReads, HookMoves, HookLooks, HookRegisters, HookDies
<1>10. CASE Steps
  BY <1>2, <1>3, <1>4, <1>5, <1>6, <1>7, <1>10 DEF Steps, InstallGrant, InstallConsent,
     InstallRegistry, EnsureIgnored, SelfCheck, EnableFails, RevokeGrant, UnregisterSessionFiles,
     RecordDenied, PurgeProjectRecords, Withdraw, UninstallWarns, KeepData, DeleteData,
     ReconcileUpstream, Stop, user
<1> QED
  BY <1>2, <1>8, <1>9, <1>10 DEF Next, Edits, vars, user

\* What a step other than an injection or an undo leaves without one.
LEMMA StaysBare ==
  ASSUME Shape, [Next]_vars, ~Inject, ~Undo, InjectionShape = "none"
  PROVE  InjectionShape' = "none"
<1>1. settings.url \notin Tokens /\ settings.hooks # "marked"
  BY DEF InjectionShape
<1>2. settings'.url \notin Tokens
  BY <1>1, UrlSteps, Apart
<1>3. settings'.hooks # "marked"
  BY <1>1, HookedSteps
<1> QED
  BY <1>2, <1>3 DEF InjectionShape

\* And without a standing token.
LEMMA StaysWithout ==
  ASSUME Shape, [Next]_vars, ~InstallGrant, ~Undo, Standing = {}
  PROVE  Standing' = {} /\ (kept.records = {} => kept'.records = {})
<1>1. Standing' = {}
  BY TableSteps, MoveToIs, RevokeIs, ClearIs
<1>2. ~StoreRecord
  BY Standings DEF StoreRecord, Records, AsRead, Stands, Standing
<1>3. CASE UNCHANGED kept
  BY <1>1, <1>3
<1>4. kept \in [registered : BOOLEAN, ignored : BOOLEAN, records : SUBSET Stores]
  BY DEF Shape, UserShape
<1>5. CASE Commands \/ Edits
  BY <1>1, <1>3, <1>5 DEF Commands, Enable, Disable, Uninstall, Doctor, FinishUpgrade, store, Edits,
     EditBaseURL, EditOutside, EditKey, EditHooks, LoseTable
<1>6. CASE Sessions
  BY <1>1, <1>2, <1>3, <1>4, <1>6 DEF Sessions, StartSession, EndSession, HookReads, HookMoves, HookLooks,
     HookRegisters, HookDies, store
<1>7. CASE Steps
  BY <1>1, <1>3, <1>4, <1>7 DEF Steps, InstallGrant, InstallConsent, InstallRegistry, OfferSettings, Inject,
     EnsureIgnored, SelfCheck, EnableFails, RemoveProject, PutBack, RestoreSettings, RevokeGrant,
     UnregisterSessionFiles, RecordDenied, PurgeProjectRecords, Withdraw, UninstallWarns, KeepData,
     DeleteData, CompleteProjectHooks, ReconcileUpstream, Stop, store
<1> QED
  BY <1>1, <1>3, <1>5, <1>6, <1>7 DEF Next, vars, store

LEMMA DisableStep ==
  ASSUME Shape, DisableInv, [Next]_vars
  PROVE  DisableInv'
<1>1. CASE withdrawn /\ withdrawn'
  <2>1. cmd = Idle /\ Standing = {} /\ InjectionShape = "none" /\ kept.records = {}
    BY <1>1 DEF DisableInv, Withdrawn
  <2>2. ~Steps
    BY <2>1 DEF Idle, Steps, InstallGrant, InstallConsent, InstallRegistry, OfferSettings, Inject, In,
       EnsureIgnored, SelfCheck, EnableFails, Undo, RemoveProject, PutBack, RestoreSettings, RevokeGrant,
       UnregisterSessionFiles, RecordDenied, PurgeProjectRecords, Withdraw, UninstallWarns, KeepData,
       DeleteData, CompleteProjectHooks, ReconcileUpstream, Stop
  <2>3. cmd' = Idle
    BY <1>1, <2>1, <2>2 DEF Next, vars, Commands, Enable, Disable, Uninstall, Doctor, FinishUpgrade, Sessions,
       StartSession, EndSession, StoreRecord, HookReads, HookMoves, HookLooks, HookRegisters, HookDies, Edits,
       EditBaseURL, EditOutside, EditKey, EditHooks, LoseTable
  <2>4. Standing' = {} /\ InjectionShape' = "none" /\ kept'.records = {}
    BY <2>1, <2>2, StaysBare, StaysWithout DEF Steps
  <2> QED
    BY <2>3, <2>4 DEF DisableInv, Withdrawn, Idle
<1>2. CASE ~withdrawn /\ withdrawn'
  <2>1. Withdraw
    BY <1>2 DEF Next, vars, ghosts, Commands, Enable, Disable, Uninstall, Doctor, FinishUpgrade, Sessions,
       StartSession, EndSession, StoreRecord, HookReads, HookMoves, HookLooks, HookRegisters, HookDies, Edits,
       EditBaseURL, EditOutside, EditKey, EditHooks, LoseTable, Steps, InstallGrant, InstallConsent,
       InstallRegistry, OfferSettings, Inject, EnsureIgnored, SelfCheck, EnableFails, Undo, RemoveProject,
       PutBack, RestoreSettings, RevokeGrant, UnregisterSessionFiles, RecordDenied, PurgeProjectRecords,
       UninstallWarns, KeepData, DeleteData, CompleteProjectHooks, ReconcileUpstream, Stop
  <2>2. /\ cmd' = Idle /\ cmd.kind = "disable" /\ cmd.at = "done" /\ UNCHANGED <<table, file, kept, settings>>
    BY <2>1 DEF Withdraw, In, store, user
  <2>3. Standing = {} /\ InjectionShape = "none" /\ kept.records = {}
    BY <2>2 DEF DisableInv
  <2>4. Standing' = {} /\ InjectionShape' = "none" /\ kept'.records = {}
    BY <2>2, <2>3, TableStays DEF InjectionShape
  <2> QED
    BY <2>2, <2>4 DEF DisableInv, Withdrawn, Idle
<1>3. CASE ~withdrawn' /\ cmd'.kind # "disable"
  BY <1>3 DEF DisableInv, Withdrawn
<1>4. CASE ~withdrawn' /\ cmd'.kind = "disable"
  <2> SUFFICES /\ cmd'.early \/ cmd'.at # "remove" => InjectionShape' = "none"
               /\ cmd'.early \/ cmd'.at \in {"unregister", "deny", "purge", "done"} => Standing' = {}
               /\ cmd'.at = "done" => kept'.records = {}
    BY <1>4 DEF DisableInv, Withdrawn
  <2>1. CASE UNCHANGED cmd /\ ~Steps
    BY <1>4, <2>1, StaysBare, StaysWithout DEF DisableInv, Steps
  <2>2. CASE \E inside \in BOOLEAN : Disable(inside)
    <3>1. UNCHANGED <<table, file, settings>>
      BY <2>2 DEF Disable, store, user
    <3>2. Standing' = Standing /\ InjectionShape' = InjectionShape
      BY <3>1, TableStays DEF InjectionShape
    <3>3. /\ cmd'.at \in {"remove", "settings"} /\ (cmd'.at # "remove" => cmd'.early)
          /\ cmd'.early => ~Enabled /\ InjectionShape = "none"
      BY <2>2 DEF Disable, Started, EarlySteps
    <3> QED
      BY <3>2, <3>3 DEF Enabled
  <2>3. CASE Steps
    <3>1. cmd' # Idle
      BY <1>4 DEF Idle
    <3>2. cmd \in Cmds /\ cmd.kind = "disable" /\ Staged(cmd) /\ cmd'.early = cmd.early
      BY <1>4, <2>3, <3>1, CmdSteps
    <3>3. ~Inject /\ ~Undo /\ ~InstallGrant
      BY <3>2, UndoIs DEF Inject, InstallGrant, In
    <3>4. CASE RemoveProject
      <4>1. cmd.at = "remove" /\ cmd'.at = "putback" /\ ~cmd.early
        BY <3>2, <3>4 DEF RemoveProject, Staged, Cmds
      <4>2. InjectionShape' = "none"
        BY <3>4, Apart DEF RemoveProject, Shape, UserShape, Settings, InjectionShape
      <4> QED
        BY <3>2, <4>1, <4>2
    <3>5. CASE RevokeGrant
      BY <3>2, <3>5, <3>3, StaysBare, RevokeIs DEF RevokeGrant, In, At, DisableInv, Cmds
    <3>6. CASE ~RemoveProject /\ ~RevokeGrant
      <4>1. /\ cmd.at # "remove"
            /\ cmd'.at \in {"unregister", "deny", "purge", "done"} =>
                 cmd.at \in {"unregister", "deny", "purge", "done"} \/ cmd.early
            /\ cmd'.at = "done" => kept'.records = {}
        <5>1. CASE PutBack \/ RestoreSettings
          BY <3>2, <5>1 DEF PutBack, RestoreSettings, At, AfterRemoval, Cmds
        <5>2. CASE UnregisterSessionFiles \/ RecordDenied
          BY <3>2, <5>2 DEF UnregisterSessionFiles, RecordDenied, In, At, Cmds
        <5>3. CASE PurgeProjectRecords
          <6>1. PICK left \in SUBSET kept.records :
                  /\ kept' = [kept EXCEPT !.records = left] /\ cmd.at = "purge"
                  /\ IF left = {} THEN At("done") ELSE cmd' = Idle
            BY <5>3 DEF PurgeProjectRecords, In
          <6> QED
            BY <3>1, <3>2, <6>1 DEF At, Cmds, Shape, UserShape
        <5> QED
          BY <2>3, <3>1, <3>2, <3>3, <3>6, <5>1, <5>2, <5>3 DEF Steps, Withdraw, UninstallWarns, KeepData,
             DeleteData, In, CompleteProjectHooks, ReconcileUpstream, Stop, InstallConsent, InstallRegistry,
             OfferSettings, EnsureIgnored, SelfCheck, EnableFails, Staged, DisableSteps
      <4> QED
        BY <3>2, <3>3, <4>1, StaysBare, StaysWithout DEF DisableInv
    <3> QED
      BY <3>4, <3>5, <3>6
  <2>4. CASE Sessions \/ Edits \/ FinishUpgrade
    BY <2>1, <2>3, <2>4 DEF Sessions, StartSession, EndSession, StoreRecord, HookReads, HookMoves, HookLooks,
       HookRegisters, HookDies, FinishUpgrade, Edits, EditBaseURL, EditOutside, EditKey, EditHooks, LoseTable
  <2>5. CASE \E inside \in BOOLEAN : Uninstall(inside) \/ Doctor(inside) \/ \E shape \in Shapes : Enable(inside, shape)
    <3>1. cmd'.kind # "disable"
      BY <2>5, Begins, ZenonT(30) DEF Enable, Started
    <3> QED
      BY <1>4, <3>1
  <2> QED
    BY <2>1, <2>2, <2>3, <2>4, <2>5 DEF Next, Commands, vars
<1> QED
  BY <1>1, <1>2, <1>3, <1>4, GhostShapeStep DEF Shape, GhostShape

-----------------------------------------------------------------------------
(* The user's base URL is where it was, or a grant holds it.                *)

LEMMA OwnSteps == ASSUME [Next]_vars, own' # own PROVE EditBaseURL
<1>1. CASE Commands \/ Sessions
  BY <1>1 DEF Commands, Enable, Disable, Uninstall, Doctor, FinishUpgrade, ghosts, Sessions,
     StartSession, EndSession, StoreRecord, HookReads, HookMoves, HookLooks, HookRegisters, HookDies
<1>2. CASE Edits
  BY <1>2 DEF Edits, EditBaseURL, EditOutside, EditKey, EditHooks, LoseTable, ghosts
<1>3. CASE Steps
  BY <1>3 DEF Steps, InstallGrant, InstallConsent, InstallRegistry, OfferSettings, Inject,
     EnsureIgnored, SelfCheck, EnableFails, Undo, RemoveProject, PutBack, RestoreSettings, RevokeGrant,
     UnregisterSessionFiles, RecordDenied, PurgeProjectRecords, Withdraw, UninstallWarns, KeepData,
     DeleteData, CompleteProjectHooks, ReconcileUpstream, Stop, ghosts
<1> QED
  BY <1>1, <1>2, <1>3 DEF Next, vars, ghosts

LEMMA BareStep ==
  ASSUME Shape, RelayInv, [Next]_vars
  PROVE  Bare(settings)'
<1>1. CASE own' # own
  BY <1>1, OwnSteps DEF EditBaseURL, Bare, Shape, UserShape, Settings
<1>2. SUFFICES ASSUME own' = own, own # "unset", settings'.url = "unset"
               PROVE  settings'.hooks \in {"none", "marked"}
  BY <1>1 DEF Bare
<1>3. CASE RemoveProject
  BY <1>3 DEF RemoveProject, Shape, UserShape, Settings
<1>4. CASE Undo /\ UndoSettings
  BY <1>2, <1>4, UndoIs DEF UndoSettings, RelayInv, EnableInv, Bare
<1>5. CASE EditBaseURL
  BY <1>2, <1>5 DEF EditBaseURL, Shape, UserShape, Settings
<1>6. CASE settings'.url = settings.url /\ ~Inject
  <2>1. settings.hooks \in {"none", "marked"}
    BY <1>2, <1>6 DEF RelayInv, Bare
  <2>2. settings.hooks = "none" /\ InjectionShape # "none" => FALSE
    BY <1>2, <1>6, Apart DEF InjectionShape
  <2> QED
    BY <1>4, <1>6, <2>1, <2>2, HookedSteps
<1>7. CASE Inject
  <2>1. CASE cmd.shape = "with" /\ ~ClearsFirst
    BY <1>2, <1>7, <2>1, Apart, UrlSteps, Busy DEF Inject, Injected, Staged, Undoes, Shape, UserShape, Settings
  <2>2. CASE cmd.shape # "with" /\ ~ClearsFirst
    BY <1>7, <2>2 DEF Inject, Injected, Shape, UserShape, Settings
  <2>3. CASE ClearsFirst
    BY <1>2, <1>7, <2>3 DEF Inject, RelayInv, Bare
  <2> QED
    BY <2>1, <2>2, <2>3
<1> QED
  BY <1>2, <1>3, <1>4, <1>5, <1>6, <1>7, UrlSteps, Apart

\* The hook does not act on a guess.
LEMMA HookStep ==
  ASSUME Shape, RelayInv, [Next]_vars
  PROVE  HookInv'
<1>1. CASE EditBaseURL
  BY <1>1 DEF EditBaseURL, Editing, HookInv, HookIdle
<1>2. CASE UNCHANGED hook /\ ~EditBaseURL
  BY <1>2, OwnSteps DEF HookInv, RelayInv
<1>3. CASE hook'.at # "move"
  BY <1>3 DEF HookInv
<1>4. CASE HookReads
  <2> DEFINE want == Resolution(TRUE)
  <2>1. SUFFICES ASSUME Enabled /\ MoveDue(want, AsRead.entry[Token].up, KeepsRecorded(want)),
                        hook' = [at |-> "move", up |-> want.up, was |-> AsRead.entry[Token].up,
                                 moved |-> terms[Token].moved, named |-> want.external]
                 PROVE  HookInv'
    BY <1>3, <1>4 DEF HookReads, HookIdle
  <2>2. own' = own /\ settings.hooks # "none" /\ session # "closed"
    BY <1>4 DEF HookReads, ghosts
  <2>3. ~KeepsRecorded(want) /\ want.up # AsRead.entry[Token].up
    BY <2>1 DEF MoveDue
  <2>4. settings.url \notin Tokens \cup {"unset"} => want.external
    BY <2>2, Resolves_To
  <2>5. ASSUME own # "unset", ~want.external
        PROVE  terms[Token].moved
    <3>1. InjectionShape # "none"
      BY <2>2, <2>4, <2>5 DEF InjectionShape, RelayInv, Bare
    <3> QED
      BY <2>1, <2>3, <2>5, <3>1 DEF KeepsRecorded
  <2> HIDE DEF want
  <2> QED
    BY <2>1, <2>2, <2>3, <2>5 DEF HookInv
<1>5. CASE Sessions
  BY <1>2, <1>3, <1>4, <1>5 DEF Sessions, StartSession, EndSession, StoreRecord, HookMoves, HookLooks,
     HookRegisters, HookDies, HookIdle, EditBaseURL, Editing, Shape, HookShape, Hooks
<1>6. CASE Commands \/ Edits
  BY <1>1, <1>2, <1>6 DEF Commands, Enable, Disable, Uninstall, Doctor, FinishUpgrade, Edits,
     EditOutside, EditKey, EditHooks, LoseTable
<1>7. CASE Steps
  <2>1. UNCHANGED hook
    BY <1>7 DEF Steps, InstallGrant, InstallConsent, InstallRegistry, OfferSettings, Inject,
     EnsureIgnored, SelfCheck, EnableFails, Undo, RemoveProject, PutBack, RestoreSettings, RevokeGrant,
     UnregisterSessionFiles, RecordDenied, PurgeProjectRecords, Withdraw, UninstallWarns, KeepData,
     DeleteData, CompleteProjectHooks, ReconcileUpstream, Stop, EnableAt, At
  <2> QED
    BY <1>1, <1>2, <2>1
<1> QED
  BY <1>1, <1>2, <1>5, <1>6, <1>7 DEF Next, vars

LEMMA TakenOutStep ==
  ASSUME Shape, RelayInv, [Next]_vars
  PROVE  TakenOut'
<1> SUFFICES ASSUME cmd'.kind \notin {"idle", "undo"}, cmd'.at = "putback"
             PROVE  settings'.url \notin Tokens
  BY DEF TakenOut
<1>1. CASE RemoveProject
  BY <1>1, Apart DEF RemoveProject, Shape, UserShape, Settings
<1>2. CASE UNCHANGED cmd
  <2>1. settings.url \notin Tokens
    BY <1>2 DEF RelayInv, TakenOut
  <2>2. ~Inject /\ ~Undo
    BY <1>2, UndoIs DEF Inject
  <2> QED
    BY <2>1, <2>2, UrlSteps, Apart
<1>3. CASE Steps /\ ~RemoveProject
  <2>1. cmd \in Cmds /\ Staged(cmd)
    <3>1. cmd' # Idle
      BY DEF Idle
    <3> QED
      BY <1>3, <3>1, CmdSteps
  <2>2. ~EnableFails /\ ~Undo
    <3>1. ~EnableFails
      BY <2>1 DEF EnableFails, Cmds
    <3>2. ASSUME Undo PROVE FALSE
      BY <2>1, <3>2, UndoIs DEF Cmds, Idle
    <3> QED
      BY <3>1, <3>2
  <2>3. ~InstallGrant /\ ~InstallConsent /\ ~InstallRegistry /\ ~OfferSettings
    BY <2>1 DEF InstallGrant, InstallConsent, InstallRegistry, OfferSettings, EnableAt, At, Cmds
  <2>4. ~Inject /\ ~EnsureIgnored
    BY <2>1 DEF Inject, EnsureIgnored, At, Cmds
  <2>5. ~PutBack /\ ~RestoreSettings
    BY <2>1 DEF PutBack, RestoreSettings, At, Cmds, Kinds, AfterRemoval, Idle, Staged, EnableSteps
  <2>6. ~RevokeGrant /\ ~UnregisterSessionFiles /\ ~RecordDenied /\ ~PurgeProjectRecords /\ ~UninstallWarns
        /\ ~CompleteProjectHooks
    BY <2>1 DEF RevokeGrant, UnregisterSessionFiles, RecordDenied, PurgeProjectRecords, UninstallWarns,
       CompleteProjectHooks, At, Cmds, Idle
  <2> QED
    BY <1>3, <2>2, <2>3, <2>4, <2>5, <2>6 DEF Steps, SelfCheck, Withdraw, KeepData, DeleteData,
       ReconcileUpstream, Stop, Idle
<1>4. CASE Sessions \/ Edits \/ FinishUpgrade
  BY <1>2, <1>4 DEF Sessions, StartSession, EndSession, StoreRecord, HookReads, HookMoves, HookLooks,
       HookRegisters, HookDies, FinishUpgrade, Edits, EditBaseURL, EditOutside, EditKey, EditHooks, LoseTable
<1>5. CASE \E inside \in BOOLEAN : Disable(inside) \/ Uninstall(inside) \/ \E shape \in Shapes : Enable(inside, shape)
  <2>1. PICK inside \in BOOLEAN : Disable(inside) \/ Uninstall(inside) \/ \E shape \in Shapes : Enable(inside, shape)
    BY <1>5
  <2>2. ~Disable(inside)
    BY DEF Disable, Started, EarlySteps
  <2>3. ~Uninstall(inside)
    BY DEF Uninstall, Started
  <2>4. \A shape \in Shapes : ~Enable(inside, shape)
    BY DEF Enable, Started
  <2> QED
    BY <2>1, <2>2, <2>3, <2>4
<1>6. CASE \E inside \in BOOLEAN : Doctor(inside)
  <2>1. cmd'.at = Repair
    BY <1>6 DEF Doctor, Started
  <2> QED
    BY <2>1 DEF Repair
<1> QED
  BY <1>1, <1>2, <1>3, <1>4, <1>5, <1>6 DEF Next, Commands, vars

\* A move away from a grant that holds the user's base URL is told apart.
LEMMA MoveLoses ==
  ASSUME Shape, NEW up \in Upstreams, NEW was, NEW moved, NEW named, MoveTo(up, was, moved, named)
  PROVE  /\ fate' = fate \/ fate' \in ByTheGrant
         /\ GrantInv /\ own # "unset" /\ up # was /\ (~named => moved) =>
              \A t : Holds(t) => fate' \in ByTheGrant
<1>1. fate' = fate \/ fate' \in ByTheGrant
  BY DEF MoveTo, ByTheGrant
<1>2. ASSUME GrantInv, own # "unset", up # was, ~named => moved, NEW t, Holds(t)
      PROVE  fate' \in ByTheGrant
  <2>1. Enabled /\ Token = t /\ Entry(t).up = own /\ ~terms[t].moved
    BY <1>2, OneStands DEF GrantInv, Holds
  <2>2. terms[t].moved = FALSE
    BY <1>2, <2>1 DEF Holds, Stands, Shape, TableShape, Terms
  <2> QED
    BY <1>2, <2>1, <2>2 DEF MoveTo, ByTheGrant, Entry
<1> QED
  BY <1>1, <1>2

LEMMA WhereStays ==
  ASSUME Where, own' = own, settings'.url = settings.url, AsRead' = AsRead, terms' = terms,
         fate' = "none" => fate = "none",
         Cut => (Cut' /\ cmd'.gone = cmd.gone) \/ fate' # "none"
  PROVE  Where'
BY DEF Where, Holds, Stands, Entry

LEMMA EnableStays ==
  ASSUME EnableInv, own' = own, settings'.url = settings.url, AsRead' = AsRead, terms' = terms,
         fate' = "none" => fate = "none", fate' \notin ByTheGrant => fate \notin ByTheGrant,
         Undoes(cmd') => /\ Undoes(cmd) /\ cmd'.token = cmd.token /\ cmd'.up = cmd.up /\ cmd'.snap = cmd.snap
                         /\ cmd'.elsewhere = cmd.elsewhere /\ (Granting(cmd') => Granting(cmd)),
         cmd'.kind = "enable" => cmd.kind = "enable" /\ (cmd'.at = "grant" <=> cmd.at = "grant")
  PROVE  EnableInv'
<1> USE DEF Undoes
<1>1. \A t : Holds(t)' <=> Holds(t)
  BY DEF Holds, Stands, Entry
<1> QED
  BY <1>1 DEF EnableInv, Bare, Kept, HeldBefore

LEMMA BeginStep ==
  ASSUME Shape, GrantInv, SnapInv, RelayInv, NEW inside \in BOOLEAN, NEW shape \in Shapes, Enable(inside, shape)
  PROVE  Where' /\ EnableInv'
<1> DEFINE want == Resolution(inside)
           keep == KeepsRecorded(want)
           up   == IF keep THEN AsRead.entry[Token].up ELSE want.up
<1>1. /\ UNCHANGED <<table, file, terms, settings, own, fate, decision>> /\ cmd = Idle
      /\ inside => session # "closed"
  BY DEF Enable, store, user
<1>2. AsRead' = AsRead
  BY <1>1, TableStays
<1>3. PICK t \in IF Enabled THEN {Token} ELSE Tokens \ minted :
        cmd' = [Started("enable", "grant", inside) EXCEPT
                  !.shape = shape, !.token = t, !.up = up,
                  !.elsewhere = want.external /\ Displaced, !.snap = Snapshot]
  BY DEF Enable
<1>4. /\ cmd'.kind = "enable" /\ cmd'.at = "grant" /\ cmd'.token = t /\ cmd'.up = up
      /\ cmd'.elsewhere = (want.external /\ Displaced) /\ cmd'.snap = Snapshot
  BY <1>3 DEF Started
<1>5. Where'
  BY <1>1, <1>2, WhereStays DEF RelayInv, Cut, Idle
<1>6. settings.url = own /\ own # "unset" => up = own
  <2>1. own # "unset" => own \in Upstreams
    BY DEF Shape, GhostShape
  <2>2. settings.url = own /\ own # "unset" => want.external /\ want.up = own
    BY <1>1, <2>1, Apart, Resolves_To
  <2> QED
    BY <2>2 DEF KeepsRecorded
<1>7. ASSUME own # "unset", fate = "none", settings.url \in Tokens
      PROVE  Holds(settings.url) /\ settings.url = t /\ ((want.external /\ Displaced) \/ up = own)
  <2>1. Holds(settings.url)
    <3>1. settings.url # own
      BY <1>7, Apart DEF Shape, GhostShape
    <3> QED
      BY <1>1, <1>7, <3>1 DEF RelayInv, Where, Cut, Idle
  <2>2. Enabled /\ Token = settings.url
    BY <2>1, OneStands DEF GrantInv, Holds
  <2>3. Displaced
    BY <1>7 DEF Displaced
  <2>4. ~want.external => keep
    BY <1>7, <2>1, <2>2 DEF KeepsRecorded, InjectionShape, Holds
  <2> QED
    BY <1>3, <2>1, <2>2, <2>3, <2>4 DEF Holds, Entry
<1>8. own # "unset" /\ fate = "none" /\ settings.url # own =>
        /\ settings.url \in Tokens /\ AsRead.entry[settings.url].state = "standing"
        /\ AsRead.entry[settings.url].up = own /\ ~terms[settings.url].moved
  BY <1>1 DEF RelayInv, Where, Cut, Idle, Holds, Stands, Entry
<1>9. /\ cmd'.snap.entry = AsRead.entry /\ cmd'.snap.terms = terms /\ cmd'.snap.settings = settings
      /\ cmd'.snap.fate = fate
  BY <1>4 DEF Snapshot
<1>10. ~Granting(cmd')
  BY <1>4 DEF Granting
<1>11. Bare(cmd.snap.settings)'
  BY <1>1, <1>9 DEF RelayInv, Bare
<1>12. Kept(cmd)' => cmd'.snap.settings.url = own' \/ HeldBefore(cmd, cmd.snap.settings.url)'
  BY <1>1, <1>8, <1>9 DEF Kept, HeldBefore
<1> HIDE DEF want, keep, up
<1>13. own' # "unset" =>
         /\ settings'.url = own' => cmd'.up = own'
         /\ cmd'.snap.fate = "none" /\ cmd'.snap.settings.url \in Tokens =>
              cmd'.elsewhere \/ (cmd'.snap.settings.url = cmd'.token /\ cmd'.up = own')
  BY <1>1, <1>4, <1>6, <1>7, <1>9
<1> QED
  BY <1>1, <1>4, <1>5, <1>9, <1>10, <1>11, <1>12, <1>13 DEF EnableInv

LEMMA InstallStep ==
  ASSUME Shape, GrantInv, SnapInv, RelayInv, InstallGrant
  PROVE  Where' /\ EnableInv'
<1>1. /\ cmd.kind = "enable" /\ cmd.at = "grant" /\ cmd.token \in Tokens /\ cmd \in Cmds /\ Staged(cmd)
      /\ cmd' = [cmd EXCEPT !.at = "consent", !.ledger = Append(cmd.ledger, "grants")]
      /\ AsRead'.entry[cmd.token] = [state |-> "standing", up |-> cmd.up]
      /\ terms'[cmd.token] = [shape |-> cmd.shape, moved |-> FALSE]
  BY InstallIs, Busy
<1>2. /\ UNCHANGED <<settings, own>>
      /\ fate' = IF cmd.elsewhere THEN "elsewhere" ELSE IF settings.url = own THEN "none" ELSE fate
  BY DEF InstallGrant, user
<1>3. cmd'.kind = "enable" /\ cmd'.at = "consent" /\ cmd'.token = cmd.token /\ cmd'.snap = cmd.snap
  BY <1>1 DEF Cmds
<1>4. settings.url = cmd.snap.settings.url
  BY <1>1 DEF SnapInv, Undoes, Staged, Has
<1>5. cmd.up = own => Holds(cmd.token)'
  BY <1>1, <1>2, <1>3 DEF Holds, Stands, Entry
<1>6. own # "unset" /\ settings.url = own => cmd.up = own
  BY <1>1 DEF RelayInv, EnableInv
<1>7. own # "unset" /\ fate \notin ByTheGrant /\ ~cmd.elsewhere /\ cmd.snap.fate = "none"
        /\ cmd.snap.settings.url \in Tokens => settings.url = cmd.token /\ cmd.up = own
  BY <1>1, <1>4 DEF RelayInv, EnableInv
<1>8. own # "unset" /\ fate = "none" => cmd.snap.fate = "none" \/ settings.url = own
  BY <1>1, <1>4 DEF RelayInv, EnableInv, Undoes
<1>9. Where'
  <2>1. SUFFICES ASSUME own # "unset", fate' = "none", settings.url # own
                 PROVE  settings.url = cmd.token /\ Holds(cmd.token)'
    BY <1>2, <1>3 DEF Where, Holds, Stands, Entry
  <2>2. fate = "none" /\ ~cmd.elsewhere
    BY <1>2, <2>1
  <2>3. settings.url \in Tokens
    BY <1>1, <2>1, <2>2 DEF RelayInv, Where, Cut, Holds, Stands
  <2>4. fate \notin ByTheGrant
    BY <2>2 DEF ByTheGrant
  <2> QED
    BY <1>4, <1>5, <1>7, <1>8, <2>1, <2>2, <2>3, <2>4
<1>10. Bare(cmd.snap.settings)' /\ (Kept(cmd)' => cmd'.snap.settings.url = own' \/ HeldBefore(cmd, cmd.snap.settings.url)')
  BY <1>1, <1>2, <1>3 DEF RelayInv, EnableInv, Undoes, Bare, Kept, HeldBefore
<1>11. own' # "unset" /\ fate' = "none" /\ settings'.url = own' => Holds(cmd.token)'
  BY <1>2, <1>5, <1>6
<1>12. own' # "unset" /\ fate' = "none" => cmd'.snap.fate = "none" \/ cmd'.snap.settings.url = own'
  BY <1>2, <1>3, <1>4, <1>8
<1>13. Kept(cmd)' /\ cmd'.snap.settings.url \in Tokens /\ fate' \notin ByTheGrant =>
         cmd'.snap.settings.url = cmd'.token /\ Holds(cmd.token)'
  <2>1. own \notin Tokens
    BY Apart DEF Shape, GhostShape
  <2> QED
    BY <1>2, <1>3, <1>4, <1>5, <1>7, <2>1 DEF Kept, ByTheGrant
<1> QED
  BY <1>3, <1>9, <1>10, <1>11, <1>12, <1>13 DEF EnableInv

LEMMA InjectStep ==
  ASSUME Shape, GrantInv, RelayInv, [Next]_vars, Inject
  PROVE  Where' /\ EnableInv'
<1>1. cmd \in Cmds /\ Staged(cmd) /\ cmd.at = "inject" /\ cmd.kind \in {"enable", "doctor"} /\ cmd.token \in Tokens
  BY Busy DEF Inject, Staged, Undoes
<1>2. UNCHANGED <<table, file, terms, own>>
  BY DEF Inject, store
<1>3. AsRead' = AsRead /\ Stands(cmd.token)
  BY <1>1, <1>2, TableStays DEF GrantInv
<1>4. /\ cmd'.kind = cmd.kind /\ cmd'.at \in {"remove", "ignore"} /\ cmd'.token = cmd.token /\ cmd'.up = cmd.up
      /\ cmd'.snap = cmd.snap /\ cmd'.elsewhere = cmd.elsewhere
  BY <1>1 DEF Inject, Cmds
<1>5. CASE UNCHANGED <<fate>> /\ settings'.url = settings.url
  <2>1. Where'
    BY <1>1, <1>2, <1>3, <1>5, WhereStays DEF RelayInv, Cut
  <2>2. EnableInv'
    BY <1>1, <1>2, <1>3, <1>4, <1>5, EnableStays DEF RelayInv, Undoes, Granting
  <2> QED
    BY <2>1, <2>2
<1>6. CASE ~ClearsFirst /\ cmd.shape = "with"
  <2> DEFINE over == cmd.kind = "doctor" /\ own # "unset" /\ settings.url = own
  <2>1. /\ settings'.url = cmd.token
        /\ fate' = IF over /\ (AsRead.entry[cmd.token].up # own \/ terms[cmd.token].moved)
                   THEN "overwritten" ELSE fate
    BY <1>6 DEF Inject, Injected, Shape, UserShape, Settings
  <2>2. own # "unset" /\ fate' = "none" => Holds(cmd.token)
    <3>1. SUFFICES ASSUME own # "unset", fate = "none", fate' = "none"
                   PROVE  Holds(cmd.token)
      BY <2>1
    <3>2. CASE over
      BY <1>3, <2>1, <3>1, <3>2 DEF Holds, Entry
    <3>3. CASE settings.url = own /\ cmd.kind = "enable"
      BY <1>1, <3>1, <3>3 DEF RelayInv, EnableInv
    <3>4. CASE Holds(settings.url)
      BY <1>3, <3>4 DEF GrantInv, One, Holds, Stands, Entry
    <3> QED
      BY <1>1, <3>1, <3>2, <3>3, <3>4 DEF RelayInv, Where, Cut
  <2>3. Holds(cmd.token)' <=> Holds(cmd.token)
    BY <1>2, <1>3, <1>4 DEF Holds, Stands, Entry
  <2>4. Where'
    BY <1>2, <1>4, <2>1, <2>2, <2>3 DEF Where
  <2>5. CASE cmd.kind = "doctor"
    BY <1>4, <2>4, <2>5 DEF EnableInv, Undoes
  <2>6. CASE cmd.kind = "enable"
    <3>1. fate' = fate
      BY <2>1, <2>6
    <3>2. settings'.url # own'
      BY <1>1, <1>2, <2>1, Apart DEF Shape, GhostShape
    <3>3. Undoes(cmd) /\ Granting(cmd)
      BY <1>1, <2>6 DEF Undoes, Granting
    <3>4. Bare(cmd.snap.settings)' /\ (Kept(cmd)' => cmd'.snap.settings.url = own' \/ HeldBefore(cmd, cmd.snap.settings.url)')
      BY <1>2, <1>4, <3>3 DEF RelayInv, EnableInv, Bare, Kept, HeldBefore
    <3>5. own' # "unset" /\ fate' = "none" => cmd'.snap.fate = "none" \/ cmd'.snap.settings.url = own'
      BY <1>2, <1>4, <3>1, <3>3 DEF RelayInv, EnableInv
    <3>6. Kept(cmd)' /\ cmd'.snap.settings.url \in Tokens /\ fate' \notin ByTheGrant =>
            cmd'.snap.settings.url = cmd'.token /\ Holds(cmd.token)'
      BY <1>2, <1>4, <2>3, <3>1, <3>3 DEF RelayInv, EnableInv, Kept
    <3> QED
      BY <1>4, <2>4, <2>6, <3>2, <3>4, <3>5, <3>6 DEF EnableInv
  <2> QED
    BY <1>1, <2>4, <2>5, <2>6
<1>7. CASE ~ClearsFirst /\ cmd.shape # "with"
  BY <1>5, <1>7 DEF Inject, Injected, Shape, UserShape, Settings
<1>8. CASE ClearsFirst
  BY <1>5, <1>8 DEF Inject
<1> QED
  BY <1>6, <1>7, <1>8

LEMMA RemoveStep ==
  ASSUME Shape, RelayInv, RemoveProject
  PROVE  Where' /\ EnableInv'
<1>1. cmd \in Cmds /\ Staged(cmd) /\ cmd.at = "remove" /\ cmd.kind \notin {"idle", "undo"}
  BY Busy DEF RemoveProject
<1>2. UNCHANGED <<table, file, terms, own, fate>>
  BY DEF RemoveProject, store, ghosts
<1>3. AsRead' = AsRead
  BY <1>2, TableStays
<1>4. /\ cmd'.kind = cmd.kind /\ cmd'.at = "putback" /\ cmd'.token = cmd.token /\ cmd'.up = cmd.up
      /\ cmd'.snap = cmd.snap /\ cmd'.elsewhere = cmd.elsewhere
      /\ cmd'.gone = IF settings.url \in Tokens THEN settings.url ELSE "unset"
      /\ settings'.url = IF settings.url \in Tokens THEN "unset" ELSE settings.url
  BY <1>1 DEF RemoveProject, Cmds, Shape, UserShape, Settings
<1>5. own \notin Tokens /\ "unset" \notin Tokens
  BY Apart DEF Shape, GhostShape
<1>6. \A t : Holds(t)' <=> Holds(t)
  BY <1>2, <1>3 DEF Holds, Stands, Entry
<1>7. Where'
  <2>1. SUFFICES ASSUME own # "unset", fate = "none"
                 PROVE  settings'.url = own \/ (Cut' /\ Holds(cmd'.gone))
    BY <1>2, <1>3, <1>6 DEF Where, Holds, Stands, Entry
  <2>2. settings.url = own \/ Holds(settings.url)
    BY <1>1, <2>1 DEF RelayInv, Where, Cut
  <2>3. Holds(settings.url) => settings.url \in Tokens
    BY DEF Holds, Stands
  <2> QED
    BY <1>1, <1>4, <1>5, <2>2, <2>3 DEF Cut
<1>8. EnableInv'
  <2>1. CASE cmd.kind # "enable"
    BY <1>1, <1>4, <2>1 DEF EnableInv, Undoes
  <2>2. CASE cmd.kind = "enable"
    <3>1. Undoes(cmd) /\ Granting(cmd)
      BY <1>1, <2>2 DEF Undoes, Granting
    <3>2. own' # "unset" /\ fate' = "none" /\ settings'.url = own' => Holds(cmd.token)'
      BY <1>1, <1>2, <1>4, <1>6, <2>2 DEF RelayInv, EnableInv, Holds, Stands, Entry
    <3>3. Bare(cmd.snap.settings)' /\ (Kept(cmd)' => cmd'.snap.settings.url = own' \/ HeldBefore(cmd, cmd.snap.settings.url)')
      BY <1>2, <1>4, <3>1 DEF RelayInv, EnableInv, Bare, Kept, HeldBefore
    <3>4. own' # "unset" /\ fate' = "none" => cmd'.snap.fate = "none" \/ cmd'.snap.settings.url = own'
      BY <1>2, <1>4, <3>1 DEF RelayInv, EnableInv
    <3>5. Kept(cmd)' /\ cmd'.snap.settings.url \in Tokens /\ fate' \notin ByTheGrant =>
            cmd'.snap.settings.url = cmd'.token /\ Holds(cmd.token)'
      BY <1>2, <1>3, <1>4, <3>1 DEF RelayInv, EnableInv, Kept, Holds, Stands, Entry
    <3> QED
      BY <1>4, <2>2, <3>2, <3>3, <3>4, <3>5 DEF EnableInv
  <2> QED
    BY <2>1, <2>2
<1> QED
  BY <1>7, <1>8

LEMMA PutBackStep ==
  ASSUME Shape, GrantInv, RelayInv, PutBack
  PROVE  Where' /\ EnableInv'
<1>1. cmd \in Cmds /\ Staged(cmd) /\ cmd.at = "putback" /\ cmd.kind \notin {"idle", "undo"}
      /\ (cmd.inside => session # "closed")
  BY Busy DEF PutBack, Shape, CmdShape
<1>2. UNCHANGED <<table, file, terms, own>>
  BY DEF PutBack, store
<1>3. AsRead' = AsRead
  BY <1>2, TableStays
<1>4. /\ cmd'.kind = cmd.kind /\ cmd'.at \in {"inject", "settings"} /\ cmd'.token = cmd.token
      /\ cmd'.up = cmd.up /\ cmd'.snap = cmd.snap /\ cmd'.elsewhere = cmd.elsewhere
  BY <1>1 DEF PutBack, At, AfterRemoval, Cmds
<1>5. settings.url \notin Tokens
  BY <1>1 DEF RelayInv, TakenOut
<1>6. \A t : Holds(t)' <=> Holds(t)
  BY <1>2, <1>3 DEF Holds, Stands, Entry
<1> DEFINE seen == Resolution(cmd.inside)
<1>7. PICK up \in IF cmd.gone = "unset" THEN {Default} ELSE Recorded(cmd.gone) :
        \/ /\ up # Default /\ ~seen.external /\ ~seen.masked
           /\ settings' = [settings EXCEPT !.url = up] /\ UNCHANGED fate
        \/ /\ up # Default /\ seen.masked
           /\ fate' = (IF fate \in ByTheGrant THEN fate ELSE "told") /\ UNCHANGED settings
        \/ up # Default /\ seen.external /\ fate' = "elsewhere" /\ UNCHANGED settings
        \/ up = Default /\ UNCHANGED <<settings, fate>>
  BY DEF PutBack
<1>8. /\ seen.external => ~seen.masked
      /\ settings.url \notin Tokens \cup {"unset"} => seen.external
  BY <1>1, Resolves_To DEF Cmds
<1> HIDE DEF seen
<1>9. own # "unset" => own # Default
  BY DEF Shape, GhostShape
<1>10. Holds(cmd.gone) /\ own # "unset" => up = own
  BY <1>7, Apart, RecordedIs DEF Holds, Stands
<1>11. fate' = "none" => fate = "none"
  BY <1>7, <1>8 DEF ByTheGrant
<1>12. fate' \notin ByTheGrant => fate \notin ByTheGrant
  BY <1>7 DEF ByTheGrant
\* The file holds it after the step, and an enable's grant does.
<1>13. ASSUME own # "unset", fate' = "none"
       PROVE  settings'.url = own /\ (cmd.kind = "enable" => Holds(cmd.token))
  <2>1. settings.url = own \/ (Cut /\ Holds(cmd.gone))
    BY <1>5, <1>11, <1>13 DEF RelayInv, Where, Holds, Stands
  <2>2. CASE settings.url = own
    <3>1. seen.external
      BY <1>5, <1>8, <1>13, <2>2
    <3>2. settings' = settings
      BY <1>7, <1>8, <1>13, <3>1
    <3>3. cmd.kind = "enable" => Holds(cmd.token)
      BY <1>1, <1>11, <1>13, <2>2 DEF RelayInv, EnableInv
    <3> QED
      BY <2>2, <3>2, <3>3
  <2>3. CASE Cut /\ Holds(cmd.gone)
    <3>1. up = own /\ up # Default
      BY <1>9, <1>10, <1>13, <2>3
    <3>2. settings'.url = own
      BY <1>7, <1>13, <3>1 DEF ByTheGrant, Shape, UserShape, Settings
    <3>3. cmd.kind = "enable" => Stands(cmd.token)
      BY <1>1 DEF GrantInv
    <3>4. cmd.kind = "enable" => cmd.gone = cmd.token
      BY <2>3, <3>3 DEF GrantInv, One, Holds, Stands, Entry
    <3> QED
      BY <2>3, <3>2, <3>4
  <2> QED
    BY <2>1, <2>2, <2>3
<1>14. Where'
  BY <1>2, <1>13 DEF Where
<1>15. EnableInv'
  <2>1. CASE cmd.kind # "enable"
    BY <1>1, <1>4, <2>1 DEF EnableInv, Undoes
  <2>2. CASE cmd.kind = "enable"
    <3>1. Undoes(cmd) /\ Granting(cmd)
      BY <1>1, <2>2 DEF Undoes, Granting
    <3>2. own' # "unset" /\ fate' = "none" /\ settings'.url = own' => Holds(cmd.token)'
      BY <1>2, <1>4, <1>6, <1>13, <2>2 DEF Holds, Stands, Entry
    <3>3. Bare(cmd.snap.settings)' /\ (Kept(cmd)' => cmd'.snap.settings.url = own' \/ HeldBefore(cmd, cmd.snap.settings.url)')
      BY <1>2, <1>4, <3>1 DEF RelayInv, EnableInv, Bare, Kept, HeldBefore
    <3>4. own' # "unset" /\ fate' = "none" => cmd'.snap.fate = "none" \/ cmd'.snap.settings.url = own'
      BY <1>2, <1>4, <1>11, <3>1 DEF RelayInv, EnableInv
    <3>5. Kept(cmd)' /\ cmd'.snap.settings.url \in Tokens /\ fate' \notin ByTheGrant =>
            cmd'.snap.settings.url = cmd'.token /\ Holds(cmd.token)'
      BY <1>2, <1>3, <1>4, <1>12, <3>1 DEF RelayInv, EnableInv, Kept, Holds, Stands, Entry
    <3> QED
      BY <1>4, <2>2, <3>2, <3>3, <3>4, <3>5 DEF EnableInv
  <2> QED
    BY <2>1, <2>2
<1> QED
  BY <1>14, <1>15

LEMMA UndoStep ==
  ASSUME Shape, SnapInv, RelayInv, Undo
  PROVE  Where' /\ EnableInv'
<1>1. cmd \in Cmds /\ Undoes(cmd) /\ cmd.kind = "undo" /\ ~Cut /\ UNCHANGED own
  BY UndoIs DEF Undo, Cut
<1>2. CASE cmd' = Idle /\ UNCHANGED <<store, settings, fate>>
  <2>1. AsRead' = AsRead /\ terms' = terms
    BY <1>2, TableStays DEF store
  <2> QED
    BY <1>1, <1>2, <2>1, WhereStays DEF RelayInv, EnableInv, Undoes, Idle
<1>3. ASSUME NEW m \in Seq(Undoable), NEW x \in Undoable, cmd.ledger # <<>>,
             cmd' = [cmd EXCEPT !.ledger = m], \A y : Has(cmd.ledger, y) <=> (Has(m, y) \/ y = x),
             (x = "grants") => \A y : ~Has(m, y),
             \/ x = "grants" /\ UndoGrants
             \/ x = "decision" /\ UndoDecision
             \/ x = "registry" /\ UndoRegistry
             \/ x = "settings" /\ UndoSettings
             \/ x = "ignore" /\ UndoIgnored
      PROVE  Where' /\ EnableInv'
  <2>1. /\ cmd'.kind = "undo" /\ cmd'.token = cmd.token /\ cmd'.up = cmd.up /\ cmd'.snap = cmd.snap
        /\ cmd'.elsewhere = cmd.elsewhere /\ cmd'.ledger = m
    BY <1>1, <1>3 DEF Cmds
  <2>2. Granting(cmd)' => Granting(cmd)
    BY <1>1, <1>3, <2>1 DEF Granting
  <2>3. CASE x \in {"decision", "registry", "ignore"}
    <3>1. UNCHANGED <<table, file, terms, settings, fate>>
      BY <1>3, <2>3 DEF UndoDecision, UndoRegistry, UndoIgnored
    <3>2. AsRead' = AsRead
      BY <3>1, TableStays
    <3>3. Where'
      BY <1>1, <3>1, <3>2, WhereStays DEF RelayInv
    <3>4. EnableInv'
      BY <1>1, <2>1, <2>2, <3>1, <3>2, EnableStays DEF RelayInv, Granting
    <3> QED
      BY <3>3, <3>4
  <2>4. CASE x = "settings"
    <3>1. /\ UNCHANGED <<table, file, terms>> /\ settings' = cmd.snap.settings
          /\ fate' = (IF fate \in ByTheGrant THEN fate ELSE cmd.snap.fate)
      BY <1>3, <2>4 DEF UndoSettings
    <3>2. AsRead' = AsRead
      BY <3>1, TableStays
    <3>3. \A t : Holds(t)' <=> Holds(t)
      BY <1>1, <3>1, <3>2 DEF Holds, Stands, Entry
    <3>4. Granting(cmd)
      BY <1>1, <1>3, <2>4 DEF Granting
    <3>5. Kept(cmd) => cmd.snap.settings.url = own \/ HeldBefore(cmd, cmd.snap.settings.url)
      BY <1>1 DEF RelayInv, EnableInv
    <3>6. Kept(cmd) /\ cmd.snap.settings.url \in Tokens /\ fate \notin ByTheGrant =>
            cmd.snap.settings.url = cmd.token /\ Holds(cmd.token)
      BY <1>1, <3>4 DEF RelayInv, EnableInv
    <3>7. own # "unset" /\ fate' = "none" => Kept(cmd) /\ fate \notin ByTheGrant
      BY <3>1 DEF Kept, ByTheGrant
    <3>8. Where'
      BY <1>1, <3>1, <3>3, <3>5, <3>6, <3>7 DEF Where, HeldBefore, Holds, Stands, Entry
    <3>9. Bare(cmd.snap.settings)' /\ (Kept(cmd)' => cmd'.snap.settings.url = own' \/ HeldBefore(cmd, cmd.snap.settings.url)')
      BY <1>1, <2>1 DEF RelayInv, EnableInv, Bare, Kept, HeldBefore
    <3>10. own' # "unset" /\ fate' = "none" => cmd'.snap.fate = "none"
      BY <1>1, <2>1, <3>7 DEF Kept
    <3>11. fate' \notin ByTheGrant => fate \notin ByTheGrant
      BY <3>1
    <3>12. Kept(cmd)' /\ cmd'.snap.settings.url \in Tokens /\ fate' \notin ByTheGrant =>
             cmd'.snap.settings.url = cmd'.token /\ Holds(cmd.token)'
      BY <1>1, <2>1, <3>2, <3>1, <3>6, <3>11 DEF Kept, Holds, Stands, Entry
    <3> QED
      BY <2>1, <3>8, <3>9, <3>10, <3>12 DEF EnableInv
  <2>5. CASE x = "grants"
    <3>1. /\ UNCHANGED settings /\ UndoGrants
          /\ fate' = (IF fate \in ByTheGrant THEN cmd.snap.fate ELSE fate)
      BY <1>3, <2>5 DEF UndoGrants
    <3>2. (\A t \in Tokens : AsRead'.entry[t] = cmd.snap.entry[t]) /\ terms' = cmd.snap.terms
      BY <3>1, UndoGrantsIs
    <3>3. settings.url = cmd.snap.settings.url
      BY <1>1, <1>3, <2>5 DEF SnapInv
    <3>4. ~Granting(cmd)'
      BY <1>3, <2>1, <2>5 DEF Granting
    <3>5. Kept(cmd) => cmd.snap.settings.url = own \/ HeldBefore(cmd, cmd.snap.settings.url)
      BY <1>1 DEF RelayInv, EnableInv
    <3>6. own # "unset" /\ fate' = "none" => cmd.snap.fate = "none" \/ cmd.snap.settings.url = own
      BY <1>1, <3>1 DEF RelayInv, EnableInv
    <3>7. Where'
      BY <1>1, <3>1, <3>2, <3>3, <3>5, <3>6 DEF Where, HeldBefore, Holds, Stands, Entry, Kept
    <3>8. Bare(cmd.snap.settings)' /\ (Kept(cmd)' => cmd'.snap.settings.url = own' \/ HeldBefore(cmd, cmd.snap.settings.url)')
      BY <1>1, <2>1 DEF RelayInv, EnableInv, Bare, Kept, HeldBefore
    <3> QED
      BY <1>1, <2>1, <3>4, <3>6, <3>7, <3>8 DEF EnableInv
  <2> QED
    BY <2>3, <2>4, <2>5 DEF Undoable
<1> QED
  BY <1>2, <1>3, UndoIs

LEMMA MoveStep ==
  ASSUME Shape, GrantInv, RelayInv, NEW up \in Upstreams, NEW was, NEW moved, NEW named,
         MoveTo(up, was, moved, named), up # was, own # "unset" /\ ~named => moved,
         UNCHANGED <<settings, own>>, cmd' = cmd \/ (cmd' = Idle /\ ~Cut)
  PROVE  Where' /\ EnableInv'
<1>1. fate' = fate \/ fate' \in ByTheGrant
  BY MoveLoses
<1>2. own # "unset" /\ fate' \notin ByTheGrant => \A t : ~Holds(t)
  BY MoveLoses
<1>3. fate' = "none" => fate = "none" /\ fate' \notin ByTheGrant
  BY <1>1 DEF ByTheGrant
<1>4. Where'
  BY <1>2, <1>3 DEF RelayInv, Where
<1>5. CASE cmd' = Idle
  BY <1>4, <1>5 DEF EnableInv, Idle, Undoes
<1>6. CASE cmd' = cmd
  <2>1. cmd.kind = "enable" /\ cmd.at = "grant" /\ own # "unset" =>
          /\ settings.url = own => cmd.up = own
          /\ cmd.snap.fate = "none" /\ cmd.snap.settings.url \in Tokens /\ fate' \notin ByTheGrant =>
               cmd.elsewhere \/ (cmd.snap.settings.url = cmd.token /\ cmd.up = own)
    BY <1>1 DEF RelayInv, EnableInv
  <2>2. cmd.kind = "enable" /\ cmd.at # "grant" /\ own # "unset" /\ fate' = "none" => settings.url # own
    BY <1>2, <1>3 DEF RelayInv, EnableInv
  <2>3. Undoes(cmd) => Bare(cmd.snap.settings) /\ (Kept(cmd) => cmd.snap.settings.url = own \/ HeldBefore(cmd, cmd.snap.settings.url))
    BY DEF RelayInv, EnableInv
  <2>4. Undoes(cmd) /\ own # "unset" /\ fate' = "none" => cmd.snap.fate = "none" \/ cmd.snap.settings.url = own
    BY <1>3 DEF RelayInv, EnableInv
  <2>5. Undoes(cmd) /\ Granting(cmd) /\ Kept(cmd) /\ cmd.snap.settings.url \in Tokens => fate' \in ByTheGrant
    BY <1>1, <1>2 DEF RelayInv, EnableInv, Kept
  <2> QED
    BY <1>4, <1>6, <2>1, <2>2, <2>3, <2>4, <2>5 DEF EnableInv, Undoes, Bare, Kept, HeldBefore, Granting
<1> QED
  BY <1>5, <1>6

LEMMA RelayStep ==
  ASSUME Shape, GrantInv, SnapInv, DisableInv, RelayInv, [Next]_vars
  PROVE  RelayInv'
<1>1. Bare(settings)' /\ HookInv' /\ TakenOut'
  BY BareStep, HookStep, TakenOutStep
<1> SUFFICES Where' /\ EnableInv'
  BY <1>1 DEF RelayInv
<1>2. CASE EditBaseURL
  <2>1. cmd' = Idle /\ settings'.url = own'
    BY <1>2 DEF EditBaseURL, Editing, Shape, UserShape, Settings
  <2> QED
    BY <2>1 DEF Where, EnableInv, Undoes, Idle
<1>3. CASE HookMoves
  <2>1. hook.up \in Upstreams /\ hook.up # hook.was /\ (own # "unset" /\ ~hook.named => hook.moved)
    BY <1>3 DEF HookMoves, RelayInv, HookInv, Shape, HookShape, Hooks
  <2>2. MoveTo(hook.up, hook.was, hook.moved, hook.named) /\ UNCHANGED <<settings, own, cmd>>
    BY <1>3 DEF HookMoves, user
  <2> QED
    BY <2>1, <2>2, MoveStep
<1>4. CASE ReconcileUpstream
  <2> DEFINE want == Resolution(cmd.inside)
  <2>1. cmd.inside \in BOOLEAN /\ (cmd.inside => session # "closed") /\ cmd.kind = "doctor" /\ cmd.at = "upstream"
    BY <1>4, Busy DEF ReconcileUpstream, In, Cmds, Shape, CmdShape
  <2>2. want.up \in Upstreams
    BY <2>1, Resolves_To
  <2>3. UNCHANGED <<settings, own>> /\ cmd' = Idle /\ ~Cut
    BY <1>4, <2>1 DEF ReconcileUpstream, user, Cut
  <2>4. CASE UNCHANGED <<table, file, terms, fate>>
    <3>1. AsRead' = AsRead
      BY <2>4, TableStays
    <3>2. Where'
      BY <2>3, <2>4, <3>1, WhereStays DEF RelayInv
    <3> QED
      BY <2>3, <3>2 DEF EnableInv, Undoes, Idle
  <2>5. CASE /\ MoveDue(want, cmd.up, ~want.external /\ ~cmd.moved)
             /\ MoveTo(want.up, cmd.up, cmd.moved, want.external)
    <3>1. want.up # cmd.up /\ (~want.external => cmd.moved)
      BY <2>5 DEF MoveDue
    <3> HIDE DEF want
    <3> QED
      BY <2>2, <2>3, <2>5, <3>1, MoveStep
  <2> QED
    BY <1>4, <2>4, <2>5 DEF ReconcileUpstream
<1>5. CASE RevokeGrant
  <2>1. /\ UNCHANGED <<settings, own, fate>> /\ cmd.kind = "disable" /\ cmd.at = "revoke"
        /\ cmd'.kind = "disable" \/ cmd' = Idle
    BY <1>5, Busy DEF RevokeGrant, In, user, ghosts, At, Cmds
  <2>2. settings.url \notin Tokens
    BY <2>1 DEF DisableInv, InjectionShape
  <2>3. own # "unset" /\ fate = "none" => settings.url = own
    BY <2>1, <2>2 DEF RelayInv, Where, Cut, Holds, Stands
  <2> QED
    BY <2>1, <2>3 DEF Where, EnableInv, Undoes, Idle
<1>6. CASE DeleteData \/ LoseTable
  <2>1. UNCHANGED <<settings, own>> /\ cmd' = Idle /\ fate' = IF Displaced THEN "lost" ELSE fate
    BY <1>6 DEF DeleteData, LoseTable, user, Editing
  <2>2. own # "unset" /\ fate' = "none" => settings.url = own
    BY <2>1 DEF RelayInv, Where, Displaced, Holds, Stands
  <2> QED
    BY <2>1, <2>2 DEF Where, EnableInv, Undoes, Idle
<1>7. CASE EnableFails \/ Stop \/ UninstallWarns
  <2>1. /\ UNCHANGED <<table, file, terms, settings, own>>
        /\ fate' = IF Cut /\ fate = "none" THEN "cut" ELSE fate
    BY <1>7 DEF EnableFails, Stop, UninstallWarns, store, user
  <2>2. AsRead' = AsRead
    BY <2>1, TableStays
  <2>3. Where'
    BY <2>1, <2>2, WhereStays DEF RelayInv
  <2>4. CASE Stop \/ UninstallWarns
    <3>1. cmd' = Idle \/ cmd'.kind = "uninstall"
      BY <2>4, Busy DEF Stop, UninstallWarns, At, Cmds
    <3> QED
      BY <2>3, <3>1 DEF EnableInv, Undoes, Idle
  <2>5. CASE EnableFails
    <3>1. cmd \in Cmds /\ Staged(cmd) /\ cmd.kind = "enable"
      BY <2>5, Busy DEF EnableFails
    <3>2. /\ cmd'.kind = "undo" /\ cmd'.token = cmd.token /\ cmd'.up = cmd.up /\ cmd'.snap = cmd.snap
          /\ cmd'.elsewhere = cmd.elsewhere /\ cmd'.ledger = OnLedger(cmd.at)
      BY <2>5, <3>1 DEF EnableFails, Cmds
    <3>3. cmd.at = "grant" => ~Has(cmd'.ledger, "settings")
      <4>1. SUFFICES ASSUME cmd.at = "grant"
                     PROVE  ~Has(cmd'.ledger, "settings")
        OBVIOUS
      <4>2. cmd'.ledger = Append(cmd.ledger, "grants") /\ cmd.ledger = <<>> /\ cmd.ledger \in Seq(Undoable)
        BY <3>1, <3>2, <4>1 DEF OnLedger, Staged, Cmds
      <4>3. ~Has(cmd.ledger, "settings")
        BY <4>2 DEF Has
      <4>4. \A y : Has(Append(cmd.ledger, "grants"), y) <=> (Has(cmd.ledger, y) \/ y = "grants")
        BY <4>2, LedgerGrows DEF Undoable
      <4> QED
        BY <4>2, <4>3, <4>4
    <3>4. Granting(cmd') => Granting(cmd)
      BY <3>1, <3>2, <3>3 DEF Granting
    <3> QED
      BY <2>1, <2>2, <2>3, <3>1, <3>2, <3>4, EnableStays DEF RelayInv, Undoes, ByTheGrant
  <2> QED
    BY <1>7, <2>4, <2>5
<1>8. CASE \E inside \in BOOLEAN, shape \in Shapes : Enable(inside, shape)
  BY <1>8, BeginStep
\* What is left changes neither the base URL nor the grants.
<1>9. CASE /\ UNCHANGED <<table, file, terms, own, fate>> /\ settings'.url = settings.url
           /\ cmd' = cmd \/ (~Cut /\ ~Undoes(cmd'))
                \/ (~Cut /\ cmd \in Cmds /\ cmd'.kind = "enable" /\ cmd.kind = "enable" /\ cmd.at # "grant"
                    /\ cmd'.at # "grant" /\ cmd'.token = cmd.token /\ cmd'.up = cmd.up /\ cmd'.snap = cmd.snap
                    /\ cmd'.elsewhere = cmd.elsewhere)
  <2>1. AsRead' = AsRead
    BY <1>9, TableStays
  <2>2. Cut => (Cut' /\ cmd'.gone = cmd.gone)
    BY <1>9 DEF Cut
  <2>3. Where'
    BY <1>9, <2>1, <2>2, WhereStays DEF RelayInv
  <2>4. CASE ~Undoes(cmd')
    BY <2>3, <2>4 DEF EnableInv, Undoes
  <2>5. CASE Undoes(cmd')
    BY <1>9, <2>1, <2>3, <2>5, EnableStays DEF RelayInv, Undoes, Granting
  <2> QED
    BY <2>4, <2>5
<1>10. CASE \E inside \in BOOLEAN : Disable(inside) \/ Uninstall(inside) \/ Doctor(inside)
  <2>1. UNCHANGED <<table, file, terms, own, fate, settings>> /\ cmd = Idle
    BY <1>10 DEF Disable, Uninstall, Doctor, store, user
  <2>2. ~Cut /\ ~Undoes(cmd')
    BY <1>10, <2>1, Begins DEF Cut, Idle, Undoes
  <2> QED
    BY <1>9, <2>1, <2>2
<1>11. CASE (Sessions /\ ~HookMoves) \/ (Edits /\ ~EditBaseURL /\ ~LoseTable) \/ FinishUpgrade \/ UNCHANGED vars
  <2>1. UNCHANGED <<table, file, terms, own, fate, cmd>>
    BY <1>11 DEF Sessions, StartSession, EndSession, StoreRecord, HookReads, HookLooks, HookRegisters, HookDies,
       FinishUpgrade, Edits, EditOutside, EditKey, EditHooks, store, ghosts, vars
  <2>2. settings'.url = settings.url
    BY <1>11 DEF Sessions, StartSession, EndSession, StoreRecord, HookReads, HookLooks, HookRegisters, HookDies,
       FinishUpgrade, Edits, EditOutside, EditKey, EditHooks, user, vars, Completed, Shape, UserShape, Settings
  <2> QED
    BY <1>9, <2>1, <2>2
<1>12. CASE Steps /\ ~(InstallGrant \/ Inject \/ RemoveProject \/ PutBack \/ Undo \/ EnableFails \/ Stop
                       \/ UninstallWarns \/ RevokeGrant \/ DeleteData \/ ReconcileUpstream)
  <2>1. UNCHANGED <<table, file, terms, own, fate>>
    BY <1>12 DEF Steps, InstallConsent, InstallRegistry, OfferSettings, EnsureIgnored, SelfCheck, RestoreSettings,
       UnregisterSessionFiles, RecordDenied, PurgeProjectRecords, Withdraw, KeepData, CompleteProjectHooks, store,
       ghosts
  <2>2. settings'.url = settings.url
    BY <1>12, UrlSteps DEF Steps, EditBaseURL, Editing, Idle, InstallConsent, InstallRegistry, OfferSettings,
       EnsureIgnored, SelfCheck, RestoreSettings, In,
       UnregisterSessionFiles, RecordDenied, PurgeProjectRecords, Withdraw, KeepData, CompleteProjectHooks
  <2>3. ~Cut
    BY <1>12 DEF Steps, InstallConsent, InstallRegistry, OfferSettings, EnsureIgnored, SelfCheck, RestoreSettings,
       UnregisterSessionFiles, RecordDenied, PurgeProjectRecords, Withdraw, KeepData, CompleteProjectHooks, Cut, In
  <2>4. CASE cmd' = Idle
    BY <1>9, <2>1, <2>2, <2>3, <2>4 DEF Undoes, Idle
  <2>5. CASE cmd' # Idle
    <3>1. /\ cmd \in Cmds /\ Staged(cmd) /\ cmd'.token = cmd.token /\ cmd'.snap = cmd.snap /\ cmd'.up = cmd.up
          /\ cmd'.elsewhere = cmd.elsewhere /\ (cmd'.kind = cmd.kind \/ (cmd.kind = "enable" /\ cmd'.kind = "undo"))
      BY <1>12, <2>5, CmdSteps
    <3>2. cmd'.kind # "undo" /\ (cmd'.kind = "enable" => cmd.at # "grant" /\ cmd'.at # "grant")
      <4>1. CASE InstallConsent \/ InstallRegistry \/ OfferSettings
        BY <3>1, <4>1 DEF InstallConsent, InstallRegistry, OfferSettings, EnableAt, At, In, Cmds
      <4>2. CASE EnsureIgnored \/ CompleteProjectHooks
        BY <3>1, <4>2 DEF EnsureIgnored, CompleteProjectHooks, At, In, Cmds
      <4>3. CASE RestoreSettings
        BY <3>1, <2>5, <4>3 DEF RestoreSettings, Cmds, Kinds, Staged, EnableSteps
      <4>4. CASE UnregisterSessionFiles \/ RecordDenied \/ PurgeProjectRecords
        BY <3>1, <2>5, <4>4 DEF UnregisterSessionFiles, RecordDenied, PurgeProjectRecords, At, In, Cmds
      <4> QED
        BY <1>12, <2>5, <4>1, <4>2, <4>3, <4>4 DEF Steps, SelfCheck, Withdraw, KeepData
    <3> QED
      BY <1>9, <2>1, <2>2, <2>3, <3>1, <3>2 DEF Undoes
  <2> QED
    BY <2>4, <2>5
<1> QED
  BY <1>2, <1>3, <1>4, <1>5, <1>6, <1>7, <1>8, <1>10, <1>11, <1>12, InstallStep, InjectStep, RemoveStep,
     PutBackStep, UndoStep DEF Next, Commands, Steps, Sessions, Edits

-----------------------------------------------------------------------------
(* The theorems.                                                            *)

\* The invariant holds to begin with.
LEMMA ProjectInit == Init => ProjectInv
<1> SUFFICES ASSUME Init
             PROVE  ProjectInv
  OBVIOUS
<1>1. own \in (Upstreams \ {Default}) \cup {"unset"} /\ own \notin Tokens /\ Default \in Upstreams
  BY ProjectConstants, RoutingConstants, Apart DEF Init
<1>2. Shape
  <2>1. EmptyTable \in Tables /\ \A t \in Tokens : EmptyTable.entry[t] = NoEntry
    BY RoutingConstants DEF NoEntry, Entries, EmptyTable, Tables
  <2>2. TableShape
    BY <2>1 DEF Init, TableShape, NoTerms, Terms, Shapes
  <2>3. UserShape
    BY <1>1, ProjectConstants DEF Init, UserShape, Settings, Urls, Decisions
  <2>4. CmdShape /\ HookShape /\ GhostShape
    BY <1>1 DEF Init, CmdShape, HookShape, Hooks, HookIdle, GhostShape, Fates, Writers
  <2> QED
    BY <2>2, <2>3, <2>4 DEF Shape
<1>3. AsRead = EmptyTable /\ \A t \in Tokens : Entry(t) = NoEntry
  BY <1>2, Read DEF Init, AsRead, Entry
<1>4. GrantInv
  BY <1>3 DEF Init, GrantInv, One, Undoes, Idle, Entry, NoEntry
<1>5. KnownInv /\ SnapInv /\ KeyInv
  BY <1>1 DEF Init, KnownInv, SnapInv, KeyInv, KeyAccounted, Undoes, Idle, Names
<1>6. DisableInv
  BY DEF Init, DisableInv, Withdrawn, Idle
<1>7. RelayInv
  BY DEF Init, RelayInv, Bare, HookInv, HookIdle, TakenOut, Where, EnableInv, Undoes, Idle
<1> QED
  BY <1>2, <1>4, <1>5, <1>6, <1>7 DEF ProjectInv

\* Every step keeps it.
THEOREM ProjectInvariant == Spec => []ProjectInv
<1>1. ASSUME ProjectInv, [Next]_vars
      PROVE  ProjectInv'
  BY <1>1, ShapeStep, GrantStep, KnownStep, SnapStep, KeyStep, DisableStep, RelayStep DEF ProjectInv
<1> QED
  BY <1>1, ProjectInit, PTL DEF Spec

(* In every state reached, the table, the records, the settings file and   *)
(* the hook hold what the code gives them: the type invariant.              *)
THEOREM ProjectTyped == Spec => []ProjectTypeOK
<1>1. ProjectInv => ProjectTypeOK
  BY ProjectConstants DEF ProjectInv, Shape, TableShape, UserShape, HookShape, Hooks, ProjectTypeOK, RoutingTypeOK
<1> QED
  BY <1>1, ProjectInvariant, PTL

(* A base URL of ours in the settings file names a token the table knows,  *)
(* through a failed enable, the replay of its ledger, and a death anywhere. *)
THEOREM NamesAreKnown == Spec => []InjectedKnown
<1>1. ProjectInv => InjectedKnown
  BY DEF ProjectInv, KnownInv, Names, InjectedKnown, Entry
<1> QED
  BY <1>1, ProjectInvariant, PTL

(* The base URL an injection writes over is never silently gone: enable,   *)
(* its undo, removal, the reconciling hook and doctor each leave it in the  *)
(* file, or in the grant of the token that stands there or was taken out.   *)
THEOREM RelayStays == Spec => []RelayKept
<1>1. ASSUME ProjectInv
      PROVE  RelayKept
  <2>1. SUFFICES ASSUME own # "unset", fate = "none"
                 PROVE  Held
    BY DEF RelayKept
  <2>2. \A t : Holds(t) => t \in Tokens /\ own \in Recorded(t)
    BY <1>1, RecordedIs DEF Holds, Stands, ProjectInv
  <2> QED
    BY <1>1, <2>1, <2>2 DEF ProjectInv, RelayInv, Where, Held
<1> QED
  BY <1>1, ProjectInvariant, PTL

(* A disable that says it is done has left no grant, no injection and no   *)
(* record, wherever an earlier one of the project stopped.                  *)
THEOREM WithdrawalHolds == Spec => []Withdrawn
<1>1. ProjectInv => Withdrawn
  BY DEF ProjectInv, DisableInv
<1> QED
  BY <1>1, ProjectInvariant, PTL

(* The requested setting holds our value only while the consent record     *)
(* says so, whatever fails between the two writes.                          *)
THEOREM KeyIsAccounted == Spec => []KeyAccounted
<1>1. ProjectInv => KeyAccounted
  BY DEF ProjectInv, KeyInv
<1> QED
  BY <1>1, ProjectInvariant, PTL
=============================================================================
