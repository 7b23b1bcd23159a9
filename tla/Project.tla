------------------------------ MODULE Project ------------------------------
(***************************************************************************)
(* What the commands do to one project: its entry in the routing table,    *)
(* its consent record, its registry of session files, and the settings     *)
(* file Claude Code reads, which is also where the user's own base URL may *)
(* stand and which an injection writes over.                               *)
(*                                                                         *)
(* One command runs at a time, in a terminal of its own or inside a        *)
(* session; the hook of a running session works beside it.  Every write of *)
(* a command is a step: it may fail, and the command may die before it.    *)
(* The user edits between commands.  No Bedrock or Vertex channel is set,  *)
(* and an undo of a failed enable can write.                               *)
(***************************************************************************)
EXTENDS Routing, Sequences

CONSTANTS
  OwnUrls, SharedUrls, ShellUrls,  \* what the user may write where
  MaxEdits,  \* edits by the user in a behaviour
  MaxRuns    \* commands in a behaviour

ASSUME ProjectConstants ==
  /\ \E r \in Roots : Roots = {r}
  /\ Proxies = {} /\ Tokens \cap (Upstreams \cup {"unset"}) = {} /\ "unset" \notin Upstreams
  /\ \A urls \in {OwnUrls, SharedUrls, ShellUrls} :
       "unset" \in urls /\ urls \subseteq (Upstreams \ {Default}) \cup {"unset"}
  /\ MaxEdits \in Nat /\ MaxRuns \in Nat

VARIABLES
  terms,     \* the shape of each grant, and whether a hook has moved it
  settings,  \* the project's own settings file
  shared,    \* the base URL of the settings below it, the project's or the user's
  shell,     \* the base URL a terminal exports
  session,   \* what a running session found in force, or "closed"
  decision,  \* the consent record: the project's state, the setting's answer
  kept,      \* what this device keeps of the project
  cmd, hook,
  minted,    \* tokens that were ever minted
  own,       \* the base URL the user put into the settings file
  fate,      \* why that value may be gone
  keyBy,     \* who wrote the requested setting
  withdrawn, \* whether the last command withdrew the project
  lost,      \* whether the table was taken away
  edits, runs

store  == <<table, file, view, terms, decision, kept>>
user   == <<settings, shared, shell, session>>
ghosts == <<minted, own, fate, keyBy, withdrawn, lost>>
vars   == <<store, user, ghosts, cmd, hook, edits, runs>>

Root   == CHOOSE r \in Roots : TRUE
Shapes == {"with", "without"}
Stores == {"spool", "rejected"}
Urls   == Upstreams \cup Tokens \cup {"unset"}

Settings  == [url : Urls, hooks : {"none", "plain", "marked"}, whole : BOOLEAN,
              key : {"absent", "false", "true"}]
Decisions == [state : {"none", "granted", "denied"},
              answer : {"none", "declined", "absent", "false"}]
Terms     == [shape : Shapes, moved : BOOLEAN]
NoTerms   == [shape |-> "with", moved |-> FALSE]

Fates     == {"none", "elsewhere", "raced", "told", "cut", "lost", "overwritten"}
Writers   == {"user", "us", "unknown"}

Snapshots == [entry : [Tokens -> Entries], terms : [Tokens -> Terms],
              settings : Settings, decision : Decisions, fate : Fates, keyBy : Writers]

Idle     == [kind |-> "idle"]
HookIdle == [at |-> "idle", up |-> Default, was |-> Default, moved |-> FALSE, named |-> FALSE]

ProjectTypeOK ==
  /\ RoutingTypeOK /\ terms \in [Tokens -> Terms] /\ settings \in Settings
  /\ shared \in Upstreams \cup {"unset"} /\ shell \in Upstreams \cup {"unset"}
  /\ session \in Urls \cup {"closed"} /\ decision \in Decisions
  /\ kept \in [registered : BOOLEAN, ignored : BOOLEAN, records : SUBSET Stores]
  /\ hook \in [at : {"idle", "move", "follow", "register"}, up : Upstreams, was : Upstreams,
              moved : BOOLEAN, named : BOOLEAN]

-----------------------------------------------------------------------------
(* What a command sees. *)

\* An injected base URL decides on its own; without one, a marked hook does.
InjectionShape == IF settings.url \in Tokens THEN "with"
                  ELSE IF settings.hooks = "marked" THEN "without" ELSE "none"

Standing == {t \in Tokens : AsRead.entry[t].state = "standing"}
Enabled  == Standing # {}
Token    == CHOOSE t \in Standing : TRUE

FirstOf(chain, ranks) == chain[CHOOSE i \in ranks : \A j \in ranks : i <= j]

\* The base URL in force without trajector, seen by a process inside the
\* session or in a terminal: the first rank that names one of the user's.
\* An injected value in the environment hides what stood there.
Resolution(inside) ==
  LET seen  == IF inside THEN session ELSE shell
      chain == <<settings.url, shared, seen>>
      named == {i \in 1..3 : chain[i] \notin Tokens \cup {"unset"}}
  IN [up       |-> IF named # {} THEN FirstOf(chain, named) ELSE Default,
      external |-> named # {},
      masked   |-> named = {} /\ seen \in Tokens]

\* Mutant of KeepsRecorded: a chain that names nothing is believed.
KeepsRecorded_Never(want) == Enabled /\ want.up = AsRead.entry[Token].up

\* The grant is the only record of where traffic goes: our injection stands
\* where the user's value was, and nothing has moved the grant since.
KeepsRecorded(want) ==
  ~want.external /\ Enabled /\ InjectionShape # "none" /\ ~terms[Token].moved

\* An injection stands and the table knows nothing of this project.
OutlivedGrant == /\ ~Enabled /\ settings.url \in Tokens
                 /\ \A t \in Tokens : AsRead.entry[t].state = "none"

Agrees == /\ Enabled /\ InjectionShape = terms[Token].shape
          /\ InjectionShape = "without" \/ settings.url = Token

Wrote(answer) == answer \in {"absent", "false"}

-----------------------------------------------------------------------------
(* enable *)

\* A command, where it stands, and what it read or decided when it began.
Started(kind, step, inside) ==
  [kind |-> kind, at |-> step, inside |-> inside, shape |-> "with", token |-> "unset",
   up |-> Default, moved |-> FALSE, elsewhere |-> FALSE, gone |-> "unset",
   cleared |-> FALSE, early |-> FALSE, ledger |-> <<>>, snap |-> "none"]

At(step)   == cmd' = [cmd EXCEPT !.at = step]
In(kind, step) == cmd.kind = kind /\ cmd.at = step

\* An injection is out and the value it displaced is not back yet.
Cut == cmd.kind \notin {"idle", "undo"} /\ cmd.at = "putback" /\ cmd.gone # "unset"

\* The value the user's file held is under an injection.
Displaced == own # "unset" /\ (settings.url \in Tokens \/ Cut)

\* What the ledger takes back last to first.  An entry is on it before the
\* change it takes back is made.
OnLedger(step) ==
  CASE step = "grant"    -> Append(cmd.ledger, "grants")
    [] step = "consent"  -> Append(cmd.ledger, "decision")
    [] step = "register" -> IF kept.registered THEN cmd.ledger ELSE Append(cmd.ledger, "registry")
    [] step = "inject"   -> IF cmd.cleared THEN cmd.ledger ELSE Append(cmd.ledger, "settings")
    [] OTHER             -> cmd.ledger

EnableAt(step) ==
  /\ cmd' = [cmd EXCEPT !.at = step, !.ledger = OnLedger(cmd.at)]
  /\ UNCHANGED <<hook, edits, runs>>

Snapshot == [entry |-> AsRead.entry, terms |-> terms, settings |-> settings,
             decision |-> decision, fate |-> fate, keyBy |-> keyBy]

\* What enable refuses changes nothing: an upstream that is hidden and not
\* on record, one no proxy can follow, an injection without a grant.
Enable(inside, shape) ==
  LET want == Resolution(inside)
      keep == KeepsRecorded(want)
      up   == IF keep THEN AsRead.entry[Token].up ELSE want.up
  IN /\ cmd = Idle /\ runs < MaxRuns /\ (inside => session # "closed")
     /\ ~OutlivedGrant /\ (want.masked => keep) /\ up \notin Unusable
     /\ \E t \in IF Enabled THEN {Token} ELSE Tokens \ minted :
          /\ cmd' = [Started("enable", "grant", inside) EXCEPT
                       !.shape = shape, !.token = t, !.up = up,
                       !.elsewhere = want.external /\ Displaced, !.snap = Snapshot]
          /\ minted' = minted \cup {t}
     /\ runs' = runs + 1 /\ withdrawn' = FALSE
     /\ UNCHANGED <<store, user, own, fate, keyBy, lost, hook, edits>>

InstallGrant ==
  /\ In("enable", "grant")
  /\ Update(Granted(AsRead, cmd.token, cmd.up))
  /\ terms' = [terms EXCEPT ![cmd.token] = [shape |-> cmd.shape, moved |-> FALSE]]
  /\ fate' = IF cmd.elsewhere THEN "elsewhere" ELSE IF settings.url = own THEN "none" ELSE fate
  /\ EnableAt("consent")
  /\ UNCHANGED <<user, decision, kept, minted, own, keyBy, withdrawn, lost>>

InstallConsent ==
  /\ In("enable", "consent")
  /\ decision' = [decision EXCEPT !.state = "granted"]
  /\ EnableAt("register")
  /\ UNCHANGED <<table, file, view, terms, kept, user, ghosts>>

\* The earlier session files are registered, or the user has them skipped.
InstallRegistry ==
  /\ In("enable", "register")
  /\ \/ /\ kept' = [kept EXCEPT !.registered = TRUE]
        /\ EnableAt("offer")
     \/ /\ At("offer") /\ UNCHANGED <<kept, hook, edits, runs>>
  /\ UNCHANGED <<table, file, view, terms, decision, user, ghosts>>

Answered(answer) == decision' = [decision EXCEPT !.answer = answer]
SetKey(value, by) == settings' = [settings EXCEPT !.key = value] /\ keyBy' = by
KeyStays == UNCHANGED <<settings, keyBy>>

\* Mutant of Accept: the setting is written before the answer is recorded.
Accept_WritesFirst(answer) ==
  /\ SetKey("true", "us")
  /\ Answered(answer) \/ UNCHANGED decision

\* The answer is recorded, then the setting is written; when the second
\* fails the first is taken back, when the first fails nothing is written.
Accept(answer) ==
  \/ Answered(answer) /\ SetKey("true", "us")
  \/ Answered("none") /\ KeyStays
  \/ KeyStays /\ UNCHANGED decision

\* Put back to what it was, while it still holds what was written; the
\* record is cleared once that is done, or stays for another run.
Unaccept ==
  \/ /\ Answered("none")
     /\ IF Wrote(decision.answer) /\ settings.key = "true"
        THEN SetKey(decision.answer, keyBy) ELSE KeyStays
  \/ /\ Wrote(decision.answer) /\ settings.key = "true" /\ SetKey(decision.answer, keyBy)
     /\ UNCHANGED decision
  \/ KeyStays /\ UNCHANGED decision

RestoreKey == IF decision.answer \in {"none", "declined"} THEN KeyStays /\ UNCHANGED decision
              ELSE Unaccept

\* A setting that is off is offered; one that trajector turned on may be
\* turned off again; one the user turned on is left alone.
OfferSettings ==
  /\ In("enable", "offer")
  /\ \/ KeyStays /\ UNCHANGED decision
     \/ settings.key # "true" /\ (Accept(settings.key) \/ (Answered("declined") /\ KeyStays))
     \/ settings.key = "true" /\ Wrote(decision.answer) /\ RestoreKey
  /\ EnableAt("inject")
  /\ UNCHANGED <<table, file, view, terms, kept, shared, shell, session, minted, own, fate,
                 withdrawn, lost>>

\* The shape asked for is written over what is there.  A file that carries
\* the other shape is cleared first.
Injected(s, shape, token) ==
  IF shape = "with" THEN [s EXCEPT !.url = token, !.hooks = "plain", !.whole = TRUE]
  ELSE [s EXCEPT !.hooks = "marked", !.whole = TRUE]

ClearsFirst == InjectionShape \notin {"none", cmd.shape}

\* doctor does not ask whether the grant holds a value of the user's that it
\* writes over; one that only a move brought there goes with the next move.
Inject ==
  /\ cmd.kind \in {"enable", "doctor"} /\ cmd.at = "inject"
  /\ LET ledger == IF cmd.kind = "enable" THEN OnLedger("inject") ELSE <<>>
         over   == cmd.kind = "doctor" /\ cmd.shape = "with" /\ own # "unset" /\ settings.url = own
     IN
     \/ /\ ClearsFirst /\ UNCHANGED <<settings, fate>>
        /\ cmd' = [cmd EXCEPT !.at = "remove", !.cleared = TRUE, !.ledger = ledger]
     \/ /\ ~ClearsFirst /\ settings' = Injected(settings, cmd.shape, cmd.token)
        /\ fate' = IF over /\ (AsRead.entry[cmd.token].up # own \/ terms[cmd.token].moved)
                   THEN "overwritten" ELSE fate
        /\ cmd' = [cmd EXCEPT !.at = "ignore", !.ledger = ledger]
  /\ UNCHANGED <<store, shared, shell, session, minted, own, keyBy, withdrawn, lost, hook,
                 edits, runs>>

\* git is told to leave the settings file alone, unless it does already.
EnsureIgnored ==
  /\ cmd.kind \in {"enable", "doctor"} /\ cmd.at = "ignore"
  /\ kept' = [kept EXCEPT !.ignored = TRUE]
  /\ IF cmd.kind = "doctor" THEN At("upstream")
     ELSE cmd' = [cmd EXCEPT !.at = "check",
                    !.ledger = IF kept.ignored THEN @ ELSE Append(@, "ignore")]
  /\ UNCHANGED <<table, file, view, terms, decision, user, ghosts, hook, edits, runs>>

\* The running proxy is asked whether this token routes and records.
SelfCheck ==
  /\ In("enable", "check")
  /\ cmd.shape = "with" => Records(cmd.token)
  /\ cmd' = Idle
  /\ UNCHANGED <<store, user, ghosts, hook, edits, runs>>

\* Any step may fail before its change is made, or the check after them.
EnableFails ==
  /\ cmd.kind = "enable" /\ cmd.at # "offer"
  /\ cmd' = [cmd EXCEPT !.kind = "undo", !.ledger = OnLedger(cmd.at)]
  /\ fate' = IF Cut /\ fate = "none" THEN "cut" ELSE fate
  /\ UNCHANGED <<store, user, minted, own, keyBy, withdrawn, lost, hook, edits, runs>>

\* Mutant of NextUndone: the ledger is replayed in the order it was written.
NextUndone_First == <<Head(cmd.ledger), Tail(cmd.ledger)>>

NextUndone == <<cmd.ledger[Len(cmd.ledger)], SubSeq(cmd.ledger, 1, Len(cmd.ledger) - 1)>>

\* What the grant's upstream lost, its own undo gives back.
ByTheGrant == {"elsewhere", "raced"}

\* The entries of this project are put back, not the table.
UndoGrants ==
  /\ Update(Restored(AsRead, Root, cmd.snap.entry)) /\ terms' = cmd.snap.terms
  /\ fate' = IF fate \in ByTheGrant THEN cmd.snap.fate ELSE fate
  /\ UNCHANGED <<decision, kept, settings, keyBy>>

UndoDecision ==
  /\ decision' = cmd.snap.decision
  /\ UNCHANGED <<table, file, view, terms, kept, settings, fate, keyBy>>

UndoRegistry ==
  /\ kept' = [kept EXCEPT !.registered = FALSE]
  /\ UNCHANGED <<table, file, view, terms, decision, settings, fate, keyBy>>

\* The settings file is put back whole.
UndoSettings ==
  /\ settings' = cmd.snap.settings /\ keyBy' = cmd.snap.keyBy
  /\ fate' = IF fate \in ByTheGrant THEN fate ELSE cmd.snap.fate
  /\ UNCHANGED <<table, file, view, terms, decision, kept>>

UndoIgnored ==
  /\ kept' = [kept EXCEPT !.ignored = FALSE]
  /\ UNCHANGED <<table, file, view, terms, decision, settings, fate, keyBy>>

Undo ==
  /\ cmd.kind = "undo"
  /\ \/ /\ cmd.ledger = <<>> /\ cmd' = Idle
        /\ UNCHANGED <<store, settings, fate, keyBy>>
     \/ /\ cmd.ledger # <<>> /\ cmd' = [cmd EXCEPT !.ledger = NextUndone[2]]
        /\ CASE NextUndone[1] = "grants"   -> UndoGrants
             [] NextUndone[1] = "decision" -> UndoDecision
             [] NextUndone[1] = "registry" -> UndoRegistry
             [] NextUndone[1] = "settings" -> UndoSettings
             [] NextUndone[1] = "ignore"   -> UndoIgnored
  /\ UNCHANGED <<shared, shell, session, minted, own, withdrawn, lost, hook, edits, runs>>

-----------------------------------------------------------------------------
(* Removal, which disable, uninstall, doctor and a change of shape share.  *)

AfterRemoval == IF cmd.kind \in {"enable", "doctor"} /\ cmd.cleared THEN "inject" ELSE "settings"

\* Our base URL and every hook of ours go.
RemoveProject ==
  /\ cmd.kind \notin {"idle", "undo"} /\ cmd.at = "remove"
  /\ settings' = [settings EXCEPT !.url = IF @ \in Tokens THEN "unset" ELSE @,
                                  !.hooks = "none", !.whole = FALSE]
  /\ cmd' = [cmd EXCEPT !.at = "putback",
                         !.gone = IF settings.url \in Tokens THEN settings.url ELSE "unset"]
  /\ UNCHANGED <<store, shared, shell, session, ghosts, hook, edits, runs>>

\* What the removed injection's grant says its traffic went to; for a token
\* no entry claims, what this project's grant says, the standing one first.
Recorded(token) ==
  LET e == AsRead.entry
      known == {t \in Tokens : e[t].state # "none"}
      best  == IF Standing # {} THEN Standing ELSE known
  IN IF token \in known THEN {e[token].up}
     ELSE IF best = {} THEN {Default} ELSE {e[t].up : t \in best}

\* The user's base URL is put back when nothing else names one; when an
\* injected value hides whether something does, it is reported instead.
\* A failed write ends the removal, and another run does not retry it.
PutBack ==
  /\ cmd.kind \notin {"idle", "undo"} /\ cmd.at = "putback"
  /\ \E up \in IF cmd.gone = "unset" THEN {Default} ELSE Recorded(cmd.gone) :
       LET seen == Resolution(cmd.inside)
           due  == up # Default
       IN \/ /\ due /\ ~seen.external /\ ~seen.masked
             /\ settings' = [settings EXCEPT !.url = up] /\ UNCHANGED fate
          \/ /\ due /\ seen.masked
             /\ fate' = (IF fate \in ByTheGrant THEN fate ELSE "told") /\ UNCHANGED settings
          \/ /\ due /\ seen.external
             /\ fate' = "elsewhere" /\ UNCHANGED settings
          \/ ~due /\ UNCHANGED <<settings, fate>>
  /\ At(AfterRemoval)
  /\ UNCHANGED <<store, shared, shell, session, minted, own, keyBy, withdrawn, lost, hook,
                 edits, runs>>

RestoreSettings ==
  /\ cmd.kind \notin {"idle", "undo"} /\ cmd.at = "settings"
  /\ RestoreKey
  /\ cmd' = CASE cmd.kind = "doctor"    -> Idle
              [] cmd.kind = "disable"   -> [cmd EXCEPT !.at = IF cmd.early THEN "unregister" ELSE "revoke"]
              [] cmd.kind = "uninstall" -> [cmd EXCEPT !.at = "wipe"]
  /\ UNCHANGED <<table, file, view, terms, kept, shared, shell, session, minted, own, fate,
                 withdrawn, lost, hook, edits, runs>>

-----------------------------------------------------------------------------
(* disable *)

\* Mutant of EarlySteps: a project that looks untouched is left alone.
EarlySteps_Nothing == "done"

\* Of a project that looks untouched only the consent steps are skipped.
EarlySteps == "settings"

Disable(inside) ==
  /\ cmd = Idle /\ runs < MaxRuns /\ (inside => session # "closed") /\ Legible
  /\ LET early == ~Enabled /\ InjectionShape = "none" IN
     cmd' = [Started("disable", IF early THEN EarlySteps ELSE "remove", inside)
               EXCEPT !.early = early]
  /\ runs' = runs + 1 /\ withdrawn' = FALSE
  /\ UNCHANGED <<store, user, minted, own, fate, keyBy, lost, hook, edits>>

RevokeGrant ==
  /\ In("disable", "revoke")
  /\ Update(Revoked(AsRead, Root))
  /\ At("unregister")
  /\ UNCHANGED <<terms, decision, kept, user, ghosts, hook, edits, runs>>

UnregisterSessionFiles ==
  /\ In("disable", "unregister")
  /\ kept' = [kept EXCEPT !.registered = FALSE]
  /\ At(IF cmd.early THEN "purge" ELSE "deny")
  /\ UNCHANGED <<table, file, view, terms, decision, user, ghosts, hook, edits, runs>>

RecordDenied ==
  /\ In("disable", "deny")
  /\ decision' = [decision EXCEPT !.state = "denied"]
  /\ At("purge")
  /\ UNCHANGED <<table, file, view, terms, kept, user, ghosts, hook, edits, runs>>

\* Both places are tried, whatever the first comes to.
PurgeProjectRecords ==
  /\ In("disable", "purge")
  /\ \E left \in SUBSET kept.records :
       /\ kept' = [kept EXCEPT !.records = left]
       /\ IF left = {} THEN At("done") ELSE cmd' = Idle
  /\ UNCHANGED <<table, file, view, terms, decision, user, ghosts, hook, edits, runs>>

Withdraw ==
  /\ In("disable", "done")
  /\ withdrawn' = TRUE /\ cmd' = Idle
  /\ UNCHANGED <<store, user, minted, own, fate, keyBy, lost, hook, edits, runs>>

-----------------------------------------------------------------------------
(* uninstall *)

\* A project the table never held is not looked at.
Uninstall(inside) ==
  /\ cmd = Idle /\ runs < MaxRuns /\ (inside => session # "closed") /\ Legible
  /\ LET held == \E t \in Tokens : AsRead.entry[t].state # "none" IN
     cmd' = Started("uninstall", IF held THEN "remove" ELSE "wipe", inside)
  /\ runs' = runs + 1 /\ withdrawn' = FALSE
  /\ UNCHANGED <<store, user, minted, own, fate, keyBy, lost, hook, edits>>

\* A removal that fails is a warning.
UninstallWarns ==
  /\ cmd.kind = "uninstall" /\ cmd.at \in {"remove", "putback"}
  /\ fate' = IF Cut /\ fate = "none" THEN "cut" ELSE fate
  /\ At("settings")
  /\ UNCHANGED <<store, user, minted, own, keyBy, withdrawn, lost, hook, edits, runs>>

KeepData ==
  /\ In("uninstall", "wipe")
  /\ cmd' = Idle
  /\ UNCHANGED <<store, user, ghosts, hook, edits, runs>>

DeleteData ==
  /\ In("uninstall", "wipe")
  /\ table' = EmptyTable /\ file' = "missing" /\ terms' = [t \in Tokens |-> NoTerms]
  /\ decision' = [state |-> "none", answer |-> "none"]
  /\ kept' = [kept EXCEPT !.registered = FALSE, !.records = {}]
  /\ lost' = TRUE /\ fate' = IF Displaced THEN "lost" ELSE fate
  /\ cmd' = Idle
  /\ UNCHANGED <<view, user, minted, own, keyBy, withdrawn, hook, edits, runs>>

-----------------------------------------------------------------------------
(* doctor, and the repair an installed upgrade makes on its own *)

HooksComplete == settings.hooks # "none" /\ settings.whole

\* Consent is never guessed at: a grant without an injection, and an
\* injection whose grant is gone, are reported and left.
Repair ==
  CASE ~Enabled /\ InjectionShape # "none" /\ ~OutlivedGrant -> "remove"
    [] Enabled /\ Agrees /\ ~HooksComplete                  -> "complete"
    [] Enabled /\ InjectionShape # "none" /\ ~Agrees         -> "inject"
    [] Enabled /\ Agrees /\ HooksComplete                   -> "ignore"
    [] OTHER                                                -> "nothing"

Doctor(inside) ==
  /\ cmd = Idle /\ runs < MaxRuns /\ (inside => session # "closed")
  /\ Legible /\ Repair # "nothing"
  /\ LET c == Started("doctor", Repair, inside) IN
     cmd' = IF Enabled
            THEN [c EXCEPT !.token = Token, !.shape = terms[Token].shape,
                           !.up = AsRead.entry[Token].up, !.moved = terms[Token].moved]
            ELSE c
  /\ runs' = runs + 1 /\ withdrawn' = FALSE
  /\ UNCHANGED <<store, user, minted, own, fate, keyBy, lost, hook, edits>>

\* The hooks a file's injection lacks are added, in the shape it has.
Completed(s) ==
  IF InjectionShape = "none" THEN s
  ELSE [s EXCEPT !.hooks = IF @ = "none" THEN "plain" ELSE @, !.whole = TRUE]

CompleteProjectHooks ==
  /\ In("doctor", "complete")
  /\ settings' = Completed(settings)
  /\ At("ignore")
  /\ UNCHANGED <<store, shared, shell, session, ghosts, hook, edits, runs>>

FinishUpgrade ==
  /\ Legible /\ Enabled /\ ~HooksComplete /\ InjectionShape # "none" /\ cmd = Idle
  /\ settings' = Completed(settings)
  /\ UNCHANGED <<store, shared, shell, session, ghosts, cmd, hook, edits, runs>>

\* The recorded upstream moves to the one in force, unless that is a
\* guess, or an upstream nobody watching would let credentials go to.
MoveDue(want, up, keeps) == ~want.masked /\ ~keeps /\ want.up # up /\ want.up \notin Unusable

\* The table is not asked again whether the grant is still the one judged.
MoveTo(up, was, moved, named) ==
  /\ Update(Moved(AsRead, Root, up))
  /\ terms' = [t \in Tokens |-> IF t \in Standing THEN [terms[t] EXCEPT !.moved = TRUE] ELSE terms[t]]
  /\ fate' = IF own = "unset" \/ ~Enabled THEN fate
             ELSE IF AsRead.entry[Token].up # was \/ terms[Token].moved # moved THEN "raced"
             ELSE IF named /\ up # own THEN "elsewhere" ELSE fate

\* doctor judges by what it read when it began.
ReconcileUpstream ==
  /\ In("doctor", "upstream")
  /\ LET want == Resolution(cmd.inside) IN
     IF MoveDue(want, cmd.up, ~want.external /\ ~cmd.moved)
     THEN MoveTo(want.up, cmd.up, cmd.moved, want.external)
     ELSE UNCHANGED <<table, file, view, terms, fate>>
  /\ cmd' = Idle
  /\ UNCHANGED <<decision, kept, user, minted, own, keyBy, withdrawn, lost, hook, edits, runs>>

\* A write fails, or the command dies: it ends where it stands.
Stop ==
  /\ cmd # Idle
  /\ fate' = IF Cut /\ fate = "none" THEN "cut" ELSE fate
  /\ keyBy' = IF cmd.kind = "undo" /\ ~Wrote(decision.answer) THEN "unknown" ELSE keyBy
  /\ cmd' = Idle
  /\ UNCHANGED <<store, user, minted, own, withdrawn, lost, hook, edits, runs>>

-----------------------------------------------------------------------------
(* The hooks of a session that is open. *)

\* What reconciling asks is read first and written in a step of its own.
HookReads ==
  /\ hook = HookIdle /\ session # "closed" /\ Legible /\ settings.hooks # "none"
  /\ LET want == Resolution(TRUE) IN
     hook' = IF Enabled /\ MoveDue(want, AsRead.entry[Token].up, KeepsRecorded(want))
             THEN [at |-> "move", up |-> want.up, was |-> AsRead.entry[Token].up,
                   moved |-> terms[Token].moved, named |-> want.external]
             ELSE [HookIdle EXCEPT !.at = "follow"]
  /\ UNCHANGED <<store, user, ghosts, cmd, edits, runs>>

HookMoves ==
  /\ hook.at = "move"
  /\ MoveTo(hook.up, hook.was, hook.moved, hook.named)
  /\ hook' = [HookIdle EXCEPT !.at = "follow"]
  /\ UNCHANGED <<decision, kept, user, minted, own, keyBy, withdrawn, lost, cmd, edits, runs>>

\* Whether the project is enabled is looked up before its file is registered.
HookLooks ==
  /\ hook.at = "follow"
  /\ hook' = IF Enabled THEN [hook EXCEPT !.at = "register"] ELSE HookIdle
  /\ UNCHANGED <<store, user, ghosts, cmd, edits, runs>>

HookRegisters ==
  /\ hook.at = "register"
  /\ kept' = [kept EXCEPT !.registered = TRUE]
  /\ hook' = HookIdle
  /\ UNCHANGED <<table, file, view, terms, decision, user, ghosts, cmd, edits, runs>>

HookDies ==
  /\ hook # HookIdle
  /\ hook' = HookIdle
  /\ UNCHANGED <<store, user, ghosts, cmd, edits, runs>>

-----------------------------------------------------------------------------
(* Sessions, and the user. *)

\* A session carries the base URL it found in force to all it starts.
StartSession ==
  /\ session = "closed"
  /\ session' = LET chain == <<settings.url, shared, shell>>
                    set   == {i \in 1..3 : chain[i] # "unset"}
                IN IF set = {} THEN "unset" ELSE FirstOf(chain, set)
  /\ UNCHANGED <<store, settings, shared, shell, ghosts, cmd, hook, edits, runs>>

EndSession ==
  /\ session # "closed" /\ hook = HookIdle
  /\ cmd # Idle => ~cmd.inside
  /\ session' = "closed"
  /\ UNCHANGED <<store, settings, shared, shell, ghosts, cmd, hook, edits, runs>>

\* The session's traffic is stored under its token; a record the service
\* refuses is set aside.
StoreRecord ==
  /\ session \in Tokens /\ Records(session)
  /\ \E s \in Stores : kept' = [kept EXCEPT !.records = @ \cup {s}]
  /\ UNCHANGED <<table, file, view, terms, decision, user, ghosts, cmd, hook, edits, runs>>

Editing == cmd = Idle /\ hook = HookIdle /\ edits < MaxEdits /\ edits' = edits + 1

EditBaseURL ==
  /\ Editing
  /\ \E u \in OwnUrls : settings' = [settings EXCEPT !.url = u] /\ own' = u /\ fate' = "none"
  /\ UNCHANGED <<store, shared, shell, session, minted, keyBy, withdrawn, lost, cmd, hook, runs>>

EditOutside ==
  /\ Editing
  /\ \/ shared' \in SharedUrls /\ UNCHANGED shell
     \/ shell' \in ShellUrls /\ UNCHANGED shared
  /\ UNCHANGED <<store, settings, session, ghosts, cmd, hook, runs>>

EditKey ==
  /\ Editing
  /\ \E value \in {"absent", "false", "true"} : settings' = [settings EXCEPT !.key = value]
  /\ keyBy' = "user"
  /\ UNCHANGED <<store, shared, shell, session, minted, own, fate, withdrawn, lost, cmd, hook, runs>>

EditHooks ==
  /\ Editing /\ settings.hooks # "none"
  /\ \E left \in {"none", settings.hooks} :
       settings' = [settings EXCEPT !.hooks = left, !.whole = FALSE]
  /\ UNCHANGED <<store, shared, shell, session, ghosts, cmd, hook, runs>>

LoseTable ==
  /\ Editing /\ file = "there"
  /\ table' = EmptyTable /\ file' = "missing" /\ terms' = [t \in Tokens |-> NoTerms]
  /\ lost' = TRUE /\ fate' = IF Displaced THEN "lost" ELSE fate
  /\ UNCHANGED <<view, decision, kept, user, minted, own, keyBy, withdrawn, cmd, hook, runs>>

-----------------------------------------------------------------------------
Init ==
  /\ table = EmptyTable /\ file = "missing" /\ view = [p \in Proxies |-> EmptyView]
  /\ terms = [t \in Tokens |-> NoTerms]
  /\ own \in OwnUrls /\ shared \in SharedUrls /\ shell \in ShellUrls
  /\ settings = [url |-> own, hooks |-> "none", whole |-> FALSE, key |-> "absent"]
  /\ session = "closed" /\ decision = [state |-> "none", answer |-> "none"]
  /\ kept = [registered |-> FALSE, ignored |-> FALSE, records |-> {}]
  /\ cmd = Idle /\ hook = HookIdle /\ minted = {} /\ fate = "none" /\ keyBy = "user"
  /\ withdrawn = FALSE /\ lost = FALSE /\ edits = 0 /\ runs = 0

Commands ==
  \/ \E inside \in BOOLEAN :
       \/ \E shape \in Shapes : Enable(inside, shape)
       \/ Disable(inside) \/ Uninstall(inside) \/ Doctor(inside)
  \/ FinishUpgrade

Steps ==
  \/ InstallGrant \/ InstallConsent \/ InstallRegistry \/ OfferSettings \/ Inject
  \/ EnsureIgnored \/ SelfCheck \/ EnableFails \/ Undo
  \/ RemoveProject \/ PutBack \/ RestoreSettings
  \/ RevokeGrant \/ UnregisterSessionFiles \/ RecordDenied \/ PurgeProjectRecords \/ Withdraw
  \/ UninstallWarns \/ KeepData \/ DeleteData
  \/ CompleteProjectHooks \/ ReconcileUpstream \/ Stop

Sessions ==
  \/ StartSession \/ EndSession \/ StoreRecord
  \/ HookReads \/ HookMoves \/ HookLooks \/ HookRegisters \/ HookDies

Edits == EditBaseURL \/ EditOutside \/ EditKey \/ EditHooks \/ LoseTable

Next == Commands \/ Steps \/ Sessions \/ Edits

Spec == Init /\ [][Next]_vars

-----------------------------------------------------------------------------
(* A base URL of ours in the settings file names a token the table knows,  *)
(* through a failed enable, its undo, and a command that dies anywhere:    *)
(* traffic under an unknown token goes where the user did not choose.      *)
InjectedKnown == settings.url \in Tokens /\ ~lost => AsRead.entry[settings.url].state # "none"

(* The base URL an injection writes over is never silently gone: the file  *)
(* holds it, or the table remembers it for the injection that stands, or a *)
(* removal is about to put it back.  What is known to end that: the user   *)
(* was told, another file named another, a removal was cut short, the      *)
(* table was taken away, a move was judged by a grant since replaced, or   *)
(* doctor wrote over a value that no grant holds for good.                 *)
Held == \/ settings.url = own
        \/ settings.url \in Tokens /\ own \in Recorded(settings.url)
        \/ Cut /\ own \in Recorded(cmd.gone)

RelayKept == own = "unset" \/ fate # "none" \/ Held

(* An unattended move never acts on a guess: a hook that judged a grant    *)
(* the user has since replaced leaves the user's base URL known.           *)
NeverGuessed == own # "unset" /\ fate = "raced" => Held

(* A disable that says the project no longer contributes leaves nothing    *)
(* that routes, records or waits to be uploaded, whatever earlier disable  *)
(* it completes.                                                           *)
Withdrawn == withdrawn => Standing = {} /\ InjectionShape = "none" /\ kept.records = {}

(* The requested setting holds our value only while the record says we     *)
(* wrote it: without that record no command could take it out again.  An    *)
(* undo puts the file back first and the record after; one that dies       *)
(* between the two is known to end this.                                   *)
KeyAccounted ==
  settings.key = "true" /\ keyBy = "us" /\ ~lost /\ cmd.kind # "undo" => Wrote(decision.answer)
=============================================================================
