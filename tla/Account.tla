------------------------------ MODULE Account ------------------------------
(***************************************************************************)
(* The device's standing with the service: the pairing token and the two    *)
(* places it may be kept, the commands that pair, sign out and ask for a    *)
(* deletion, and what the uploader remembers of the service's answers.      *)
(*                                                                         *)
(* One flush runs at a time, in the resident proxy.  It reads the token,    *)
(* stops at a gate or a wait unless forced, builds a batch, offers it, and  *)
(* writes down the answer.  A command runs in a process of its own between  *)
(* any two of those steps, and either may die there.  A batch carries one   *)
(* image: in full, as a reference to a copy the service holds, or left out. *)
(*                                                                         *)
(* Time is counted in steps of the shortest wait; Longest bounds a wait.    *)
(***************************************************************************)
EXTENDS Routing

CONSTANTS
  DeviceTokens,  \* what the service may issue, in the order it issues them
  AccountOf,     \* the account each one was approved under
  NoToken,
  Longest,       \* the cap of a doubled wait
  Saves,         \* whether storing the service's settings always succeeds
  PurgeOverlaps, \* whether a deletion may be asked for while a batch is under way
  MaxEvents      \* bounds what happens around the uploader

ASSUME AccountConstants ==
  /\ DeviceTokens \subseteq Nat \ {0} /\ NoToken = 0
  /\ {Saves, PurgeOverlaps} \subseteq BOOLEAN /\ Longest \in Nat \ {0}

VARIABLES
  store,   \* the keyring, the file beside it, and whether the keyring answers
  svc,     \* the service: tokens it accepts, its mood, and what it holds
  disk,    \* handshake.json
  sent,    \* the record of sent payloads, in memory and on disk
  epoch,   \* sent-blocks.epoch, renewed by a command that forgets
  mem,     \* the uploader's gates and counts
  flush,   \* the flush under way
  pending, \* whether a batch id is pinned on disk
  omit,    \* whether the user turned image upload off
  agreed,  \* the accepted agreement against the terms in force
  cmd,     \* the command under way
  events,
  out,     \* history: a sign-out has removed the token, and nothing was paired since
  answered \* history: the tokens the service refused since it last took one

uploader == <<disk, sent, mem, flush, pending, answered>>
outside  == <<store, svc, epoch, omit, agreed, out>>
vars == <<routing, uploader, outside, cmd, events>>

Accounts == {AccountOf[t] : t \in DeviceTokens}
Moods == {"well", "timed_out", "upgrade", "authorize", "suspended", "access",
          "limited", "failing", "rejects"}
\* The gates.  Each is answered by a person or another machine.
Gates == {"upgrade", "authorize", "account", "credential"}

NoHolder == <<NoToken, 0, 0>>
NoFlush  == [at |-> "idle", tok |-> NoToken, resumed |-> FALSE, holder |-> NoHolder,
             content |-> "none", answer |-> "none", refs |-> FALSE, epoch |-> 0, read |-> [refs |-> FALSE]]
NoCmd    == [kind |-> "none", at |-> "idle", tok |-> NoToken, refused |-> FALSE, read |-> [refs |-> FALSE]]
FreshMem == [gates |-> {}, refused |-> NoToken, timeouts |-> 0, refusals |-> 0, failures |-> 0,
             withheld |-> FALSE]
NoRecord == [holder |-> NoHolder, has |-> FALSE]
NewDisk  == [refs |-> FALSE, epoch |-> 0, stands |-> {}, reason |-> "none", left |-> 0]

Lower(a, b) == IF a < b THEN a ELSE b

-----------------------------------------------------------------------------
(* The token store.                                                        *)

\* The keyring is asked first; a keyring that does not answer, or holds
\* nothing, leaves the file.
Load(s) == IF s.lock # "locked" /\ s.keyring # NoToken THEN s.keyring ELSE s.file

\* A keyring that takes no writes keeps what it holds.
Saved(s, t) == IF s.lock = "open" THEN [s EXCEPT !.keyring = t, !.file = NoToken]
                                  ELSE [s EXCEPT !.file = t]
Cleared(s)  == [s EXCEPT !.file = NoToken, !.keyring = IF s.lock = "open" THEN NoToken ELSE @]

Paired == Load(store) # NoToken

\* A save counts when a read returns it, a delete when nothing is readable.
SaveReadsBack(t) == Load(Saved(store, t)) = t
DeleteIsGone     == Load(Cleared(store)) = NoToken

-----------------------------------------------------------------------------
(* Where a batch goes, and the record of what was sent there.              *)

\* The epoch a command renews is part of the name.
Holder(tok, stated) == <<tok, epoch, stated>>

\* References are written when the service said, on disk and in memory,
\* that it puts them back, and the record is about this holder.
Refers(holder) == ~mem.withheld /\ disk.refs /\ sent.mem.holder = holder /\ sent.mem.has

Content(holder) == IF omit THEN "omitted" ELSE IF Refers(holder) THEN "reference" ELSE "full"

\* Mutant of NoteSentBlocks: a resumed batch is remembered too.
NoteSentBlocks_Resumed(f, now) ==
  LET kept == IF sent.mem.holder # now THEN [NoRecord EXCEPT !.holder = now] ELSE sent.mem
  IN  IF f.refs /\ f.holder = now /\ f.content = "full" THEN [kept EXCEPT !.has = TRUE] ELSE kept

\* A record about another holder is emptied whatever the answer says.  What
\* the batch carried in full is remembered when references are offered,
\* nothing changed the holder on the way, and no earlier attempt was made.
NoteSentBlocks(f, now) ==
  LET kept == IF sent.mem.holder # now THEN [NoRecord EXCEPT !.holder = now] ELSE sent.mem
  IN  IF f.refs /\ f.holder = now /\ ~f.resumed /\ f.content = "full"
      THEN [kept EXCEPT !.has = TRUE] ELSE kept

-----------------------------------------------------------------------------
(* What an answer leaves in memory and on disk.                            *)

Doubling(n) == Lower(2 ^ (n - 1), Longest)
Counted(n)  == Lower(n + 1, Longest)

\* The refusals on disk that are about who asks.  One replaces another.
ClearAccess(d) == IF d.reason = "access" THEN [d EXCEPT !.reason = "none", !.left = 0] ELSE d
Waits(d, reason, left) == [d EXCEPT !.reason = reason, !.left = left]

\* Mutant of RefuseAccess: a refused endpoint is a gate, as it was until a
\* transient refusal stopped uploads for good.
RefuseAccess_Gates(m, tok) == [m EXCEPT !.gates = (@ \ {"account"}) \cup {"credential"}, !.refused = tok,
                                       !.refusals = Counted(@)]

RefuseAccess(m, tok) ==
  [m EXCEPT !.gates = @ \ {"account", "credential"}, !.refused = NoToken, !.refusals = Counted(@)]

\* Mutant of RefuseCredential: the gate is held against the token in the store.
RefuseCredential_Now(m, tok) ==
  [m EXCEPT !.gates = (@ \ {"account"}) \cup {"credential"}, !.refused = Load(store), !.refusals = 0]

RefuseCredential(m, tok) ==
  [m EXCEPT !.gates = (@ \ {"account"}) \cup {"credential"}, !.refused = tok, !.refusals = 0]

RefuseAccount(m, tok) ==
  [m EXCEPT !.gates = (@ \ {"authorize", "credential"}) \cup {"account"}, !.refused = tok, !.refusals = 0]

\* The row each answer is settled by, in memory.
Remembered(m, f) ==
  CASE f.answer = "ack"        -> [FreshMem EXCEPT !.withheld = ~f.refs]
    [] f.answer = "timed_out"  -> [m EXCEPT !.timeouts = Counted(@)]
    [] f.answer = "upgrade"    -> [m EXCEPT !.gates = @ \cup {"upgrade"}]
    [] f.answer = "authorize"  -> [m EXCEPT !.gates = (@ \ {"account"}) \cup {"authorize"}]
    [] f.answer = "account"    -> RefuseAccount(m, f.tok)
    [] f.answer = "credential" -> RefuseCredential(m, f.tok)
    [] f.answer = "access"     -> RefuseAccess(m, f.tok)
    [] f.answer = "failing"    -> [m EXCEPT !.failures = Counted(@)]
    [] OTHER                   -> m

\* The same on disk, from what was read there.  An acknowledgement carries
\* over the service's settings alone; every refusal that stood is gone.
Noted(d, m, f) ==
  CASE f.answer = "ack"        -> [NewDisk EXCEPT !.refs = f.refs, !.epoch = f.epoch]
    [] f.answer = "timed_out"  -> Waits(d, "timed_out", Doubling(m.timeouts))
    [] f.answer = "upgrade"    -> [d EXCEPT !.refs = FALSE, !.stands = @ \cup {"upgrade"}]
    [] f.answer = "authorize"  -> [d EXCEPT !.stands = (@ \ {"account"}) \cup {"authorize"}]
    [] f.answer = "account"    -> [ClearAccess(d) EXCEPT !.stands = (@ \ {"authorize", "credential"}) \cup {"account"}]
    [] f.answer = "credential" -> [ClearAccess(d) EXCEPT !.stands = (@ \ {"account"}) \cup {"credential"}]
    [] f.answer = "access"     -> Waits([d EXCEPT !.stands = @ \ {"account", "credential"}], "access", Doubling(m.refusals))
    [] f.answer = "limited"    -> Waits(d, "limited", Longest)
    [] f.answer = "failing"    -> Waits(d, "failing", Doubling(m.failures))
    [] OTHER                   -> d

-----------------------------------------------------------------------------
NewService(t) == [valid |-> {t} \ {NoToken}, issued |-> t, mood |-> "well", refs |-> TRUE, epoch |-> 1,
                  states |-> TRUE, told |-> FALSE, held |-> {}, kept |-> "none"]

\* A device that never paired, or one that is.
Init ==
  /\ RoutingInit /\ agreed = "current"
  /\ \E t \in {NoToken, 1} :
       /\ store = [keyring |-> t, file |-> NoToken, lock |-> "open"]
       /\ svc = NewService(t)
  /\ disk = NewDisk /\ epoch = 0 /\ mem = FreshMem /\ flush = NoFlush /\ cmd = NoCmd
  /\ sent = [mem |-> NoRecord, disk |-> NoRecord]
  /\ pending = FALSE /\ omit = FALSE /\ out = FALSE /\ answered = {} /\ events = 0

Event == events < MaxEvents /\ events' = events + 1
Stated == IF svc.states THEN svc.epoch ELSE 0

-----------------------------------------------------------------------------
(* A flush.                                                                *)

\* A token other than the one refused opens the gates it was refused by.
Opens(tok) == mem.gates \cap {"account", "credential"} # {} /\ tok # mem.refused
Opened(m)  == [m EXCEPT !.gates = @ \ {"account", "credential"}, !.refused = NoToken]

\* A flush with no token ends there.  So does one while a deletion is asked
\* for: the disable before it, which Project models, withdrew the records.
\* A batch that gathered them before that is PurgeOverlaps.  Every gate and
\* the wait stop one that was not forced; opening a gate stands though a
\* later one stops the flush.
FlushStarts(force) ==
  /\ flush.at = "idle" /\ Paired /\ cmd.kind # "purge"
  /\ LET tok  == Load(store)
         m    == IF Opens(tok) THEN Opened(mem) ELSE mem
         d    == IF Opens(tok) THEN [disk EXCEPT !.stands = @ \ {"account", "credential"}] ELSE disk
         goes == force \/ (m.gates = {} /\ d.left = 0)
     IN  /\ goes \/ Opens(tok)
         /\ mem' = m /\ disk' = d
         /\ IF goes THEN flush' = [NoFlush EXCEPT !.at = "gathered", !.tok = tok, !.resumed = pending] /\ pending' = TRUE
                    ELSE UNCHANGED <<flush, pending>>
  /\ UNCHANGED <<routing, outside, sent, answered, cmd, events>>

\* The batch is masked and packed for the holder as it is named now.
Build ==
  /\ flush.at = "gathered"
  /\ LET holder == Holder(flush.tok, disk.epoch) IN
     flush' = [flush EXCEPT !.at = "built", !.holder = holder, !.content = Content(holder)]
  /\ UNCHANGED <<routing, outside, disk, sent, mem, pending, answered, cmd, events>>

\* What the service answers a token and a mood with.
Answer ==
  IF flush.tok \notin svc.valid THEN "credential"
  ELSE CASE svc.mood = "well"      -> "ack"
         [] svc.mood = "suspended" -> "account"
         [] OTHER                  -> svc.mood

\* A batch id is taken once: what the first attempt that arrived carried is
\* what the service keeps.
Taken(arrived) ==
  IF arrived /\ svc.kept = "none"
  THEN [svc EXCEPT !.kept = flush.content,
                   !.held = IF flush.content = "full" THEN @ \cup {AccountOf[flush.tok]} ELSE @]
  ELSE svc

\* An answer that is late or lost leaves it open whether the batch arrived.
Offer ==
  /\ flush.at = "built"
  /\ \E arrived \in BOOLEAN :
       /\ arrived = (Answer = "ack") \/ Answer \in {"timed_out", "failing"}
       /\ svc' = Taken(arrived)
  /\ flush' = [flush EXCEPT !.at = "answered", !.answer = Answer,
                            !.refs = svc.refs /\ svc.states, !.epoch = Stated]
  /\ UNCHANGED <<routing, store, epoch, omit, agreed, out, disk, sent, mem, pending, answered, cmd, events>>

\* The answer is settled in memory, and handshake.json read to be rewritten.
Settle ==
  /\ flush.at = "answered"
  /\ mem' = Remembered(mem, flush)
  /\ answered' = CASE flush.answer = "ack" -> {}
                   [] flush.answer \in {"account", "credential"} -> answered \cup {flush.tok}
                   [] OTHER -> answered
  /\ flush' = [flush EXCEPT !.at = "settled", !.read = disk]
  /\ pending' = (flush.answer \notin {"ack", "rejects"})
  /\ svc' = IF pending' THEN svc ELSE [svc EXCEPT !.kept = "none"]
  /\ UNCHANGED <<routing, store, epoch, omit, agreed, out, disk, sent, cmd, events>>

\* Storing the settings is best effort.  The holder after the answer is
\* named by the epoch the answer states, not by the stored one.
Note ==
  /\ flush.at = "settled"
  /\ \/ disk' = Noted(flush.read, mem, flush)
     \/ ~Saves /\ disk' = disk /\ flush.answer = "ack"
  /\ IF flush.answer = "ack"
     THEN LET rec == NoteSentBlocks(flush, Holder(flush.tok, flush.epoch))
          IN  sent' = IF rec = sent.mem THEN sent ELSE [mem |-> rec, disk |-> rec]
     ELSE UNCHANGED sent
  /\ flush' = NoFlush
  /\ svc' = [svc EXCEPT !.told = @ \/ (flush.answer = "ack" /\ flush.epoch = 0)]
  /\ UNCHANGED <<routing, store, epoch, omit, agreed, out, mem, pending, answered, cmd, events>>

\* The proxy stops and another one starts: what memory held is gone.
Restart ==
  /\ Event
  /\ mem' = FreshMem /\ flush' = NoFlush /\ sent' = [sent EXCEPT !.mem = sent.disk]
  /\ answered' = {}
  /\ UNCHANGED <<routing, outside, disk, pending, cmd>>

Tick ==
  /\ disk.left > 0 /\ disk' = [disk EXCEPT !.left = @ - 1]
  /\ UNCHANGED <<routing, outside, sent, mem, flush, pending, answered, cmd, events>>

-----------------------------------------------------------------------------
(* The commands.  A step that fails ends its command, and so does a death.  *)

InCmd(kinds, at) == cmd.kind \in kinds /\ cmd.at = at
To(at)    == cmd' = [cmd EXCEPT !.at = at]
CmdEnds   == cmd' = NoCmd

Pairing == {"login", "enable"}

\* The gate a refused credential leaves holds back the token in the store.
Refused == "credential" \in mem.gates /\ mem.refused = Load(store)

\* login on a paired device goes on to what a fresh pairing ends with.
Start(kind) ==
  /\ cmd = NoCmd /\ Event
  /\ kind \in {"logout", "purge"} => Paired
  /\ kind = "purge" => PurgeOverlaps \/ flush.at = "idle"
  /\ cmd' = [NoCmd EXCEPT !.kind = kind, !.tok = Load(store), !.refused = Refused,
               !.at = CASE kind = "login"  -> IF Paired THEN "resume" ELSE "forget"
                        [] kind = "enable" -> IF Paired THEN "confirm" ELSE "forget"
                        [] kind = "logout" -> "pause"
                        [] kind = "purge"  -> "forget"]
  /\ out' = (out /\ ~(kind \in Pairing /\ Paired))
  /\ UNCHANGED <<routing, uploader, store, svc, epoch, omit, agreed>>

Abandon ==
  /\ cmd # NoCmd /\ CmdEnds
  /\ UNCHANGED <<routing, uploader, outside, events>>

\* The epoch is renewed first; emptying the record itself is best effort,
\* and the uploader's copy in memory stays.
ForgetSentBlocks ==
  /\ InCmd({"login", "enable", "logout", "purge"}, "forget")
  /\ epoch' = epoch + 1 /\ sent' = [sent EXCEPT !.disk = NoRecord]
  /\ To(CASE cmd.kind = "logout" -> "revoke" [] cmd.kind = "purge" -> "delete" [] OTHER -> "approve")
  /\ UNCHANGED <<routing, store, svc, omit, agreed, out, disk, mem, flush, pending, answered, events>>

\* The user approves, and the service issues the next token.
Approve ==
  /\ InCmd(Pairing, "approve") /\ svc.issued + 1 \in DeviceTokens
  /\ svc' = [svc EXCEPT !.issued = @ + 1, !.valid = @ \cup {svc.issued + 1}]
  /\ cmd' = [cmd EXCEPT !.at = "store", !.tok = svc.issued + 1]
  /\ UNCHANGED <<routing, uploader, store, epoch, omit, agreed, out, events>>

StoreToken ==
  /\ InCmd(Pairing, "store")
  /\ store' = Saved(store, cmd.tok)
  /\ IF SaveReadsBack(cmd.tok) THEN To("account") ELSE CmdEnds
  /\ out' = (out /\ ~SaveReadsBack(cmd.tok))
  /\ UNCHANGED <<routing, uploader, svc, epoch, omit, agreed, events>>

Clearing(standing) == IF standing = "account" THEN "clear_account" ELSE "clear_credential"

\* A recorded refusal is cleared by reading the file and writing it back;
\* one that does not stand is left, and nothing is written.
ReadStanding(standing) ==
  /\ InCmd(Pairing, standing)
  /\ IF standing \in disk.stands THEN cmd' = [cmd EXCEPT !.at = Clearing(standing), !.read = disk]
     ELSE IF standing = "account" THEN To("resume") ELSE To("hooks")
  /\ UNCHANGED <<routing, uploader, outside, events>>

ClearStanding(standing) ==
  /\ InCmd(Pairing, Clearing(standing))
  /\ disk' = [cmd.read EXCEPT !.stands = @ \ {standing}]
  /\ cmd' = [cmd EXCEPT !.at = IF standing = "account" THEN "resume" ELSE "hooks", !.read = NoCmd.read]
  /\ UNCHANGED <<routing, outside, sent, mem, flush, pending, answered, events>>

ResumeSignedIn ==
  /\ InCmd(Pairing, "resume")
  /\ Update(Resumed(AsRead, "signed_out")) /\ To("credential")
  /\ UNCHANGED <<uploader, outside, events>>

\* The discovery hint is installed; enable goes on to the agreement.
InstallHint ==
  /\ InCmd(Pairing, "hooks")
  /\ IF cmd.kind = "enable" THEN To("confirm") ELSE CmdEnds
  /\ UNCHANGED <<routing, uploader, outside, events>>

\* An accepted agreement that is current is not asked about again.  The
\* project's own part of enable follows, which Project models.
ConfirmAgreement ==
  /\ InCmd({"enable"}, "confirm")
  /\ IF agreed = "current" THEN UNCHANGED <<routing, agreed>>
     ELSE agreed' = "current" /\ Update(Resumed(Resumed(AsRead, "consent_reconfirm"), "consent_unreadable"))
  /\ CmdEnds
  /\ UNCHANGED <<uploader, store, svc, epoch, omit, out, events>>

\* Mutant of PauseFirst: the token goes before recording pauses.
PauseFirst_TokenFirst == InCmd({"logout"}, "pause") /\ To("forget") /\ UNCHANGED routing

\* Recording pauses before anything else of a sign-out.
PauseFirst == InCmd({"logout"}, "pause") /\ To("forget") /\ Update(Paused(AsRead, "signed_out"))

PauseSignedOut ==
  /\ PauseFirst
  /\ UNCHANGED <<uploader, outside, events>>

\* A revocation that fails is a warning.
Revoke ==
  /\ InCmd({"logout"}, "revoke") /\ To("clear")
  /\ svc' \in {svc, [svc EXCEPT !.valid = @ \ {cmd.tok}]}
  /\ UNCHANGED <<routing, uploader, store, epoch, omit, agreed, out, events>>

ClearToken ==
  /\ InCmd({"logout"}, "clear")
  /\ store' = Cleared(store) /\ out' = DeleteIsGone /\ CmdEnds
  /\ UNCHANGED <<routing, uploader, svc, epoch, omit, agreed, events>>

\* The service deletes what it holds, whether or not its answer arrives.
RequestDeletion ==
  /\ InCmd({"purge"}, "delete") /\ CmdEnds
  /\ svc' = [svc EXCEPT !.held = IF cmd.tok \in svc.valid THEN @ \ {AccountOf[cmd.tok]} ELSE @,
                        !.kept = IF @ = "full" THEN "deleted" ELSE @]
  /\ UNCHANGED <<routing, uploader, store, epoch, omit, agreed, out, events>>

-----------------------------------------------------------------------------
(* What happens around them.                                               *)

\* A session's hook pauses recording under terms that are not accepted.
PauseIfAgreementStale ==
  /\ agreed # "current"
  /\ Update(Paused(AsRead, IF agreed = "stale" THEN "consent_reconfirm" ELSE "consent_unreadable"))
  /\ UNCHANGED <<uploader, outside, cmd, events>>

TermsChange ==
  /\ Event /\ agreed' \in {"stale", "unreadable"}
  /\ UNCHANGED <<routing, uploader, store, svc, epoch, omit, out, cmd>>

\* The keyring is locked, unlocked, or refuses writes.
KeyringTurns ==
  /\ Event /\ \E l \in {"open", "readonly", "locked"} \ {store.lock} : store' = [store EXCEPT !.lock = l]
  /\ UNCHANGED <<routing, uploader, svc, epoch, omit, agreed, out, cmd>>

OmitTurns ==
  /\ Event /\ omit' = ~omit
  /\ UNCHANGED <<routing, uploader, store, svc, epoch, agreed, out, cmd>>

\* The service answers otherwise from now on, or a token is revoked there.
ServiceTurns ==
  /\ Event
  /\ \/ \E m \in Moods \ {svc.mood} : svc' = [svc EXCEPT !.mood = m]
     \/ \E t \in svc.valid : svc' = [svc EXCEPT !.valid = @ \ {t}]
  /\ UNCHANGED <<routing, uploader, store, epoch, omit, agreed, out, cmd>>

\* The service stops, or starts, putting references back, and stating its
\* epoch.
ServiceChanges ==
  /\ Event
  /\ \/ svc' = [svc EXCEPT !.refs = ~@]
     \/ svc' = [svc EXCEPT !.states = ~@, !.told = FALSE]
  /\ UNCHANGED <<routing, uploader, store, epoch, omit, agreed, out, cmd>>

\* It deletes what an account's batches carried and states another epoch.
\* While it states none it deletes only once it has told this device so.
ServiceDeletes ==
  /\ Event /\ (svc.states \/ svc.told)
  /\ \E a \in svc.held :
       svc' = [svc EXCEPT !.held = @ \ {a}, !.epoch = IF svc.states THEN @ + 1 ELSE @,
                          !.kept = IF @ = "full" THEN "deleted" ELSE @]
  /\ UNCHANGED <<routing, uploader, store, epoch, omit, agreed, out, cmd>>

-----------------------------------------------------------------------------
FlushSteps == Build \/ Offer \/ Settle \/ Note
CmdSteps ==
  \/ ForgetSentBlocks \/ Approve \/ StoreToken \/ ResumeSignedIn \/ InstallHint \/ ConfirmAgreement
  \/ \E s \in {"account", "credential"} : ReadStanding(s) \/ ClearStanding(s)
  \/ PauseSignedOut \/ Revoke \/ ClearToken \/ RequestDeletion
Around == PauseIfAgreementStale \/ TermsChange \/ KeyringTurns \/ OmitTurns \/ ServiceTurns
          \/ ServiceChanges \/ ServiceDeletes

Next ==
  \/ \E force \in BOOLEAN : FlushStarts(force)
  \/ FlushSteps \/ Restart \/ Tick
  \/ \E k \in {"login", "enable", "logout", "purge"} : Start(k)
  \/ CmdSteps \/ Abandon \/ Around

Spec == Init /\ [][Next]_vars

\* The proxy asks for a flush on a ticker, the clock runs, and an attempt
\* ends, for it has a budget; so does a command, every wait of which has one.
Fairness == WF_vars(FlushStarts(FALSE)) /\ WF_vars(FlushSteps) /\ WF_vars(Tick)
            /\ WF_vars(CmdSteps \/ Abandon)
FairSpec == Spec /\ Fairness

-----------------------------------------------------------------------------
(* Properties. *)

\* A payload the record would let the next batch refer to is held by the
\* service for the account the batch goes to, unless the service deleted it
\* and has not been heard since.
RecordTrue ==
  \A s \in {sent.mem, sent.disk} :
    s.has /\ Paired /\ s.holder = Holder(Load(store), disk.epoch) /\ disk.epoch = Stated
      => AccountOf[Load(store)] \in svc.held

\* A refusal of the credential or the account holds back a token only when
\* it was answered about that token.
NoStaleGate ==
  mem.gates \cap {"account", "credential"} # {} /\ mem.refused = Load(store) => Load(store) \in answered

\* Once a sign-out has removed the token, no project records until the
\* device is paired again, or a command that needs it reads it as paired.
SignedOutPaused == out => \A t \in Tokens : ~Records(t)

\* What neither time nor the next flush answers: a person, or the service.
HeldBack == mem.gates \cap {"upgrade", "authorize"} # {}
            \/ (mem.gates # {} /\ mem.refused = Load(store) /\ Load(store) \in answered)
Well == svc.mood = "well" /\ Load(store) \in svc.valid /\ ~HeldBack

\* Whatever refused, failed or was slow before, uploads go again on their
\* own once the service takes them and no gate waits for a person.
Recovers == <>[]Well => []<>(flush.at = "settled" /\ flush.answer = "ack")

\* A login that reports success answers a refused credential: the gate it
\* found is gone.  (What the remedy of a refused credential promises.)
LoginAnswersRefusal == InCmd({"login"}, "hooks") /\ cmd.refused => ~Refused
=============================================================================
